CONSTANTS
  Plugins <- MCPlugins
  DependsOn <- MCDependsOn
  MayFail = {}
  Terminators <- MCTerminators
  AsioThreads = {"asio1"}
  MaxEvents = 1
  MaxUpdates = 1
  Net = {"connect", "upgrade", "messages", "stopFails"}
SPECIFICATION ServerFairSpec
INVARIANTS ServerTypeOK DependenciesAlive UnloadAfterLoad AbortsOnlyEarly
  UpdatesRunWhileDraining CancelledWaitIsDropped RegistryEmptyWhenStopped
  ListenerEndsClean QuitIsClean
PROPERTIES ServerIsPluginManager ServerShutdownCompletes
CHECK_DEADLOCK FALSE

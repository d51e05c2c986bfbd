CONSTANTS
  Plugins <- MCPlugins
  DependsOn <- MCDependsOn
  MayFail = {"BasicTerminalCommands"}
  Terminators <- MCTerminators
  AsioThreads = {"asio1"}
  MaxEvents = 4
  MaxUpdates = 1
  Net = {}
SPECIFICATION ServerFairSpec
PROPERTY ManySignalsExit
CHECK_DEADLOCK FALSE

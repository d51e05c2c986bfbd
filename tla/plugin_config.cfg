CONSTANTS
  StaticPlugins = {"A"}
  DirectoryPlugins = {"B"}
  Files = {"/E.so"}
  Names <- MCNames
  NoTitle = "NoTitle"
  Configs <- MCConfigs
  CommandLines <- MCCommandLines
  Unloadables <- MCUnloadables
SPECIFICATION FairSpec
INVARIANTS TypeOK AbortsIffWanting MetadataIsConsistent StuckAreNotLoaded
PROPERTY OthersAreLoaded
CHECK_DEADLOCK FALSE

CONSTANTS
  Interfaces <- MCInterfaces
  Variables <- MCVariables
  Values <- MCValues
  Selections <- MCSelections
  MaxVars = 3
  MaxBlock = 3
  MaxChunks = 2
  MaxCode = 2
  MaxCalls = 2
  Names <- MCNames
  Sources <- MCSources
SPECIFICATION PassSpec
INVARIANTS OppositeTemplates KeptInDomain WovenInPlace NothingUnresolved NothingLost DependenciesFirst
PROPERTY Terminates

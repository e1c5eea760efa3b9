CONSTANTS
  Interfaces <- MCInterfaces
  Variables <- MCVariables
  Values <- V_2_6_x
  Selections <- Since_2_6_9
  MaxVars = 3
SPECIFICATION MatchSpec
INVARIANT VersionsAreNumbers

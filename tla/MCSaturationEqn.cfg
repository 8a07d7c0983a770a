CONSTANTS
  Lit <- MCLit
  Val <- MCVal
  Sat <- MCSat
  Positive <- Pos
  Oriented = {"e","p","q"}
  Top = "true"
  Covers <- MCCovers
  Cuts <- MCCuts
  Bigger <- MCBigger
  Selected <- SelectNegative
  Rewrites <- MCRewrites
  Paramods <- MCParamods
  Factors <- MCFactors
  EqRes = {"X!=Y"}
  VarLits = {"X!=Y"}
  Problems <- MCProblems
  ParmSet <- MCParms
SPECIFICATION FairSpec
INVARIANT Sound
INVARIANT NothingLost
INVARIANT VerdictIsRight
PROPERTY Terminates

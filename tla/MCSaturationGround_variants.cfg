CONSTANTS
  Lit <- MCLit
  Val <- MCVal
  Sat <- MCSat
  Positive <- Pos
  Oriented <- Pos
  Top = "true"
  Covers <- MCCovers
  Cuts <- MCCuts
  Bigger <- MCBigger
  Selected <- SelectNothing
  Rewrites <- MCRewrites
  Paramods <- MCParamods
  Factors <- MCFactors
  EqRes = {"X!=Y"}
  VarLits = {"X!=Y"}
  Problems <- MCProblems
  ParmSet <- MCParms
SPECIFICATION Spec
INVARIANT NoVariantRules

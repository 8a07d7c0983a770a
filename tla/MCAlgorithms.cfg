SPECIFICATION AlgorithmsSpec
CONSTANTS
    Variables = {"X", "Y", "Z", "U", "V", "V1", "V2", "V3", "V4", "V5", "V6", "V7", "V8"}
    Weight <- FunWeights
    VarWeight = 1
    Prec <- Precedences
    Codes <- FunCodes
    SigSize = 5
    Distinct = {5}
    Constraints <- UserConstraints
    Orders <- Generated
    MaxTuples = 3
    FPTerms <- IndexedTerms
    FPQueries <- SoughtTerms
    FPFuns = {"FP1", "FP2", "FP3D", "FP3W", "FP4M", "FP6M", "FP7", "NPDT"}
    FPClauses = {1}
    PDTEntries <- LeftSides
    PDTQueries <- Redexes
    MaxWeight = 100
    FVClauses <- FVKept
    FVQueries <- FVSought
    FVFeatures = {"AC", "SS", "All", "Bill", "BillPlus", "ACFold", "ACStagger"}
    FVMaxSymbols = {3, 17}
    FVAxioms <- FVTuning
    OriginalSymbols = 7
    Internal = 2
    Predicates = {"$true", "p", "q"}
    FreshVars <- NewVariables
    Skolems <- NewSymbols
    LongMax = 1000
    Elements = {0, 1}
    StepLists <- Turns
    Ranks = {1, 2}
    MaxClauses = 5
    MaxReweights = 1
INVARIANTS
    SharesAlwaysFit
    TimesAlwaysFit
    KBOAlwaysRight
    LPOAlwaysRight
    PrecedenceStaysOrder
    MatchAlwaysRight
    MguAlwaysRight
    SubsumptionAlwaysRight
    UnitsAlwaysRight
    FPNeverMisses
    FPStaysPruned
    PDTAlwaysFinds
    PDTStaysExact
    FVNeverMisses
    ClausesAlwaysSayTheSame
    OldestAlwaysComesSoon
CHECK_DEADLOCK FALSE

CONSTANTS
    Term <- Terms
    NoTerm = NoTerm
    IsFreeVar <- TermIsVar
    ArgsOf <- TermArgs
    SubtermsOf <- TermSubterms
    VariablesOf <- TermVarsOf
    Rebuilt <- TermRebuilt
    MatchersOf <- TermMatchers
    Applied <- TermApply
    Renames <- TermIsRenaming
    Greater <- TermGreater
    Problems <- DeepProblems
    MaxGC = 1
    MaxDiscards = 1
SPECIFICATION Spec
CHECK_DEADLOCK FALSE
INVARIANT RewritableClausesAreRemoved

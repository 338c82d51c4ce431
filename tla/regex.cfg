SPECIFICATION MCSpec
CONSTANTS
    re_max_failures = 8
    MatchNull <- GroupMatchNull
    Lines <- mcLines
    Exprs <- mcExprs
    BadPatterns <- mcBadPatterns
    Strings <- mcStrings
    MaxCalls = 2
    Usage <- mcUsage
INVARIANTS
    MatchIsLeftmost MatchIsLongest GroupsTellTheMatch PopsWhatWasPushed RunsOpCodes OverflowIsDeep
    AddressesHold RepeatsOneCharacter RejectedIsEmpty UsageIsUnderstood
PROPERTY
    MatchReturns

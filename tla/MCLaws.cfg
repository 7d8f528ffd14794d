CONSTANTS
    None = None
    ReadError <- MCReadError
INIT Init
NEXT Next
INVARIANTS
    TextRoundTripEqual
    CompareConsistent
    RangeKeyTolerance
    WebLoginMatchesFile
    YearSuffixSplit
    PrepareStopsAtFirstError
    IpCheckPrepareNormalForm
    XtreamInfoResolve

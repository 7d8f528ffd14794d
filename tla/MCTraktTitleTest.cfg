INIT Init
NEXT Next
INVARIANT NormalizeTitleTest

SPECIFICATION Spec
CONSTANTS
    l1 = l1
    l2 = l2
    c1 = c1
    c2 = c2
    Library <- MCLibrary
    Content <- MCContent
    Document = {d1, d2}
    Run = {r1, r2}
    NoLibrary = NoLibrary
    NoContent = NoContent
    NoRun = NoRun
    NoDocument = NoDocument
    Pages <- MCPages
    QuotaPages <- MCQuotaPages
    GlobalPages = 3
    MaxAttempts = 1
SYMMETRY MCSymmetry
INVARIANTS
    CountersExact
    CapsHeld
    PurgedIsEmpty
PROPERTIES
    LedgerSpec

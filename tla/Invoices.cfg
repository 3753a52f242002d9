SPECIFICATION Spec
CONSTANTS
    e1 = e1
    e2 = e2
    f1 = f1
    f2 = f2
    i1 = i1
    x1 = x1
    x2 = x2
    s1 = s1
    s2 = s2
    NoInvoice = NoInvoice
    NoHash = NoHash
    Events <- TwoEvents
    Files <- TwoFiles
    Invoices <- OneInvoice
    Lines <- TwoLines
    Sessions <- OneSession
    MaxUploads = 2
SYMMETRY Symmetry
INVARIANTS
    TypeOK
    StoredFile
    
    
    BillInForce
CHECK_DEADLOCK FALSE

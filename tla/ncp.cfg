SPECIFICATION Spec
CONSTANTS
    c1 = c1
    c2 = c2
    Clients = {c1, c2}
    Service <- TwoServices
    Rfsv <- RfsvName
    SiboLinks = 3
    PsionLinks = 4
    Versions = {6, 3, 1}
    FirstNames = {"LINK", "WPRT"}
    Garbage = {0}
    Commands = {"info", "silent"}
    RequestLen = 1
    ReplyLen = 2
    Polite = TRUE
    AutoExit = FALSE
    MaxFaults = 1
INVARIANTS
    TypeOK
    OwnData
    DeletedOnlyByTimeout
    RegisterMatches
PROPERTIES EndedIsTold Answered CancelEnds
CHECK_DEADLOCK FALSE

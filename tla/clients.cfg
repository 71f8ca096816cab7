SPECIFICATION Spec
CONSTANTS
    o1 = o1
    o2 = o2
    Objects = {o1, o2}
    LastFd = 1
    Strings <- ByteStrings
    MinLen = 2
    AllocMin = 2
    MaxLen = 4
    Lengths = {0, 2, 4}
    HeaderLen = 2
    MaxFrame = 3
    MaxWrites = 2
    Room = 3
    MaxMessages = 3
    Source <- Contents
    SendLen = 2
    MaxData16 = 1
    OnLen = 2
    Half = 10
    MaxSize = 4
    Entries <- Listing
    Drives <- DriveStates
    Offsets <- SeekOffsets
    MaxFaults = 2
    Machines = {"s3", "s5", "s5mx"}
    DriveLetters = {"A", "C"}
    MaxCuts = 2
    MaxTimes = 1
    MaxWaiting = 1
    Jobs <- TwoJobs
    PacketLen = 2
    FontMap <- Fonts
    MaxPrintFaults = 3
    Packages <- FourPackages
    SisDrives = {"C", "D"}
    MaxSisFaults = 1
    Widths = {1, 3, 4, 5}
    Heights = {1, 2}
    Grays = {84, 255}
    Instants = {0, 1, 2, 3, 4, 5, 6, 7, 8, 9, 10}
    Zones <- BothZones
    Change = 5
    Summer = 2
    Paths <- SomePaths
    Bases <- SomeBases
    Hosts = {"ftp", "app"}
    Names <- SomeNames
    Ids <- ThreeIds
    MaxDevFaults = 1
    FuseFiles = {"f", "g"}
    Sattrs <- SattrLetters
    Modes <- SomeModes
    Values <- SomeFlags
    MaxFuseSize = 1
    MaxFuseFaults = 1
    Remote = {"a", "b"}
    Local = {"a", "c"}
    Programs <- TwoPrograms
    HomeOf <- Homes
    DriveSeq <- TwoDrives
    Texts <- TwoTexts
    MaxFtpFaults = 1
INVARIANTS
    WatchesOpenSockets
    
    CopiesWhole
    NothingLeftOpen
    ListsAll
    SeeksLikeUnix
    AnswersMatch
    CacheOfMachine
    
    
    
    ConversionsAgree
    NameSurvives
    AttributesAsAsked
    
PROPERTIES
    KeepsPromise
    SettledOrReported
    PrinterServes
CHECK_DEADLOCK FALSE

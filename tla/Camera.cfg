CONSTANTS
    Parts = {"camera", "firmware", "trigger", "stamp", "copy", "gps"}
    Procs = {p1, p2}
    NoProc = NoProc
    Cards = {k1}
    PdtEntries = 2
    PtEntries = 2
    TxEntries = 2
    CanCnt = 2
    VideoCnt = 1
    TxNum = 1
    Bar0Max = 1
    ChanRegMax = 1
    I2cBuses = 1
    I2cRegs = {0, 1}
    IpRegs = 2
    MaxNumber = 3
    MaxEvents = 1
    Cams = {c1, c2}
    Retries = 2
    ReadLimit = 4
    WriteLimit = 3
    FlashPage = 2
    FlashStart = 1
    FlashSize = 2
    I2cErrors = {"EAGAIN", "EFAULT"}
    MaxErrors = 1
    FifoSize = 1
    ImageLen = 2
    TypesAsked = {"qspi", "mmc"}
    MaxTries = 3
    TriggerCards = {1}
    Nodes = {1}
    CamCnt = 1
    FpsMax = 2
    FpsDefault = 1
    DelayMask = 1
    Delays = {3}
    FpsAsked = {2}
    UsecPerSec = 25
    Rates = {3, 5}
    Margin = 1
    FirstLine = 3
    MidLine = 5
    LastLine = 7
    Exposures = {4}
    TriggerDelays = {0, 2}
    Jitters = {0, 1}
    StampTypes = {"fpga", "host", "trigger", "formation"}
    LastFrame = 3
    Buffers = {b1, b2}
    NoBuffer = NoBuffer
    MinBuffers = 2
    PageSize = 2
    Pages = 7
    SizeImage = 3
    MaxFrames = 4
    MaxOps = 2
    Devs = {d1, d2}
    NoDev = NoDev
    SmoothDevs = {d1}
    Serial = TRUE
    HighFactor = 1
    MaxGap = 0
    MaxSince = 0
    NotSet = NotSet
    MaxThreads = 2
SPECIFICATION Spec
INVARIANTS CameraSafe FirmwareSafe RecordsTrue FramesSafe SyncSafe
SYMMETRY Alike
CHECK_DEADLOCK FALSE

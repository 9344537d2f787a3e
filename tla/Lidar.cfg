CONSTANTS
    Units = {u1}
    Sizes = {2, 3}
    MaxPics = 1
    MaxStarts = 2
    EnableCamera = TRUE
    BlocksPerPacket = 2
    PacketsPerRound = 6
    LimitDegree = 1
    MaxPackets = 1
    StartAngles = {0, 6}
    Models = {"velodyne", "pcap", "rslidar", "lslidar"}
    Npackets = 2
    Hour = 4
    Second = 2
    MaxTime = 6
    FileLength = 3
    Firings = 4
    Turn = 14
    Layers = 2
    MaxLost = 4
    MaxSweep = 14
    Steps = 8
    MaxStep = 2
    Capacity = 4
    Window = 2
    QueueSize = 2
    MaxScans = 3
    MaxWait = 3
    Azimuths = 8
    Blocks = 2
    Step = 2
    MaxPerScan = 2
    Velocities <- MCVelocities
    TurnRates = {0, 1}
    Headings = {4}
    Landmarks <- MCLandmarks
    ScanLen = 2
    Layouts = {{"x", "y", "z", "intensity"}, {"x", "y", "z", "intensity", "timestamp"}}
    TfSpan = 2
    MaxPose = 4
SPECIFICATION Spec
INVARIANTS CapturesWhole CloudsSafe
PROPERTIES StopReturns
CHECK_DEADLOCK FALSE

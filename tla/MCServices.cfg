SPECIFICATION Spec
CONSTANTS
    Parts = {"upload", "dns", "notify", "hub", "store", "storage", "update",
             "schedule"}
    None = None
    NoTask = NoTask
    s1 = s1
    NoSrc = NoSrc
    Default = Default
    Recent = Recent
    Probe = Probe
    NoDir = NoDir
    Fixed = Fixed
    Custom = Custom
    Partial = Partial
    Nothing = Nothing
    NoConfig = NoConfig
    BadConfig = BadConfig
    NoLoop = NoLoop
    Command = Command
    UploadJobs = {j1, j2}
    Works <- MCWorks
    Requests <- MCRequests
    Good = {"a", "b"}
    UploadFaults = 1
    Commits = 1
    Tasks = {t1, t2}
    Clients = {c1}
    HistoryLimit = 2
    QueueCap = 2
    MaxEvents = 3
    MaxConnects = 2
    Callers = {c1}
    Srcs = {s1}
    Ids = {x, y}
    MaxEdits = 1
    MaxOps = 2
    FileFaults = 1
    Stops = 1
    Mirrors = 3
    Tags <- MCTags
    Current <- MCCurrent
    Assets <- MCAssets
    Here = "linux"
    Sizes = {1, 3, 4}
    MaxFiles = 2
    MaxEntry = 3
    MaxTotal = 4
    SameFs = FALSE
    RunConfigs <- MCConfigs
    Day = 2
    MaxTime = 3
    MaxLoops = 2
    MaxSaves = 1
    MaxRuns = 1
INVARIANTS
    UploadSafe RecordsSafe NotifySafe HubSafe  UpdateSafe 
PROPERTIES
    RecordsKept FilesKept
CHECK_DEADLOCK FALSE

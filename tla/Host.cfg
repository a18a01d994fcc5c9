CONSTANTS
    Pid = {p1}
    Client = {c1, c2}
    Namespace = {mnt, net}
    MaxStart = 2
    Writers = {w1, w2}
    Readers = {}
    Creator = c
    Deleter = d
    Slayable = {w1, d}
    MaxLog = 4
    Names <- SomeNames
    Bundles <- MountLists
    Roots <- Directories
    Covered <- CoverList
    Ids = {i1, i2}
    Needs <- SomeNeeds
    MaxPolls = 2
    MaxCount = 2
    MaxRuns = 2
    Starters = {r1, r2}
    Killable = {r1}
    Importers = {i1, i2}
    Archives <- SomeArchives
    MaxEntries = 3
    MaxFileBytes = 2
    MaxUnpackedBytes = 3
    Perishable = {i1}
    Table <- SomeTable
    Native = 1
    Arches = {1, 2}
    X32Bit = 8
    MaxInsns = 16
    Mandatory = {"exit", "time"}
    Compat = {"rseq", "clone3"}
    LearningRuns <- SomeRuns
    HandWritten <- SomeProfiles
    MaxCaptures = 2
    MaxSources = 3
    ArchSyscalls = {"read", "write", "bpf", "mount", "clone", "tls"}
    DockerCaps = {"chown", "kill"}
    DockerRules <- SomeRules
    DockerArch = "amd64"
    CveEntries <- SomeCves
    OptionSet <- SomeOptions
    ConfigSet <- SomeSpecs
    MaxEdits = 1
    ConfigFiles <- SomeFiles
    Paths <- SomePaths
    Lowers <- SomeLowers
    Marks <- SomeMarks
SPECIFICATION HostSpec
CHECK_DEADLOCK FALSE
INVARIANTS
    IdentityInv
    HistoryKept
    RollbackExact
    
    CgroupFollowsContainer
    ReportsAreExact
    
    ImportIsAtomic
    FilterDecides
    LearnedIsKept
    SettingsHold
    ValidatedIsHonoured
    
    ReportIsExplained

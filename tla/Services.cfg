SPECIFICATION Spec
CONSTANTS
    Nothing = Nothing
    Three = {p1, p2, p3}
    Things = {x1, x2}
    Further = {y2}
    Browsers = {p1, p2}
    LoginAccounts = {x1, x2, y1, y2}
    SentryAccounts = {z1}
    MaxUsers = 2
    MaxLogins = 2
    AllowedUsers = 1
    Interactors = {p1, p2}
    MaxKey = 4
    Members = {x1, x2}
    Tasks = {p1, p2}
    SentryUsers = {y1}
    MaxToken = 2
    Callers = {p1, p2}
    MaxChains = 3
    Servers = {p1, p2}
    Repos = {x1, x2}
    MaxChanges = 2
    MaxAsked = 2
    Requests = {p1, p2, p3}
    FlagNames = {y1}
    UploadKinds = {"cli", "v2", "v4"}
    Suites = {p1, p2}
    Hashes = {x1, x2}
    LastCommit = 3
    Attempts = 1
    Askers = {p1, p2, p3}
    MaxResult = 2
    Announcers = {p1, p2}
    Codes = {x1, x2}
    Shas = {y1}
    MaxRows = 2
    Projects = {p1, p2}
    Accounts = {x1, x2}
    RepositoryNames = {"x", "y"}
    MaxSent = 4
    Handlers = {p1, p2}
    MaxInstall = 2
    MaxDelivered = 4
    Settings = {p1, p2}
    Repositories = {x1, x2}
    Credits = 1
    MaxHook = 3
    Visits = {p1, p2}
    Cards = {y1}
    MaxCoupon = 3
    Workers = {y1}
    YamlReaders = {p1, z1, z2}
    Owners = {p1}
    ByBot = {z1}
    Bot = z3
    ChangedFiles = {"f1", "f2"}
    NonTestable = {}
    CommitYaml = {"f1"}
    MaxWritten = 2
    Processes = {p1, p2}
    Contents = {x1, x2}
    MaxAssigned = 3
    ComparedFiles = {x1, x2}
    Readers = {p1, p2}
    MaxVersion = 2
    Compared = {x1, x2}
    Measured = {x1, x2}
    Viewers = {p1, p2}
    Providers <- OnGithub
SYMMETRY Symmetric
CONSTRAINT Bounded
INVARIANTS
    OwnersAreThemselves AccessIsGranted UploadsArriveWhole
    RowsAndProvidersAgree ReadersSeeWhatIs
PROPERTY NothingIsTakenBack
CHECK_DEADLOCK FALSE

\* Each service in an instance of its own: three tasks; one job with two callers; a session of
\* three entries; two clients of everything that is shared.
SPECIFICATION Spec
CONSTANTS
    Services = {"graph", "jobs", "session", "compaction", "stream", "registry", "orchestration", "pool", "hooks", "schemas",
                "files", "fetch", "search", "shell", "inspection", "manager", "tabs", "routes", "listen", "headers",
                "cookies", "find", "videoApi", "inspectApi", "sessionTools", "repo"}
    Ids = {a, b, c}
    NoTask = none
    Callers = {c1, c2}
    Cap = 2
    MaxEntries = 3
    Engines = {"estimator", "pipeline"}
    Window = 10
    HeadN = 2
    TailN = 1
    Target = 5
    ResultSize = 3
    Sizes = {2, 11}
    MaxHistory = 7
    Profiles = {"openai", "dashscope", "anthropic", "google"}
    MaxParts = 4
    MaxBlocks = 3
    MaxFragments = 2
    MaxTurns = 2
    Slack = 1
    Apis = {"anthropic", "openai"}
    Sources = {"plugin", "builtin"}
    TokenLimits = {0, 1, 2, 3, 4, 16, 17, 18, 32, 33, 64}
    MaxProviders = 3
    MaxCalls = 3
    Registrable = {"Bash", "Task", "mcp__a__y"}
    Switched = {"Bash"}
    Offered = {"mcp__a__x", "mcp__a__y"}
    Specs = {"Bash", "Task", "mcp__a__x"}
    Hooks = {u1, u2}
    Requests = {c1, c2}
    Features = {"strict", "swarm"}
    MaxRuns = 1
    Stamps = {u1, u2}
    NoStamp = none
    MaxVersions = 4
    Fetchers = {c1, c2}
    Urls = {u1, u2}
    CacheSize = 1
    TTL = 1
    MaxHops = 2
    MaxVersionsOfPage = 2
    MaxOutput = 2
    MaxFrames = 3
    MaxText = 1
    Clients = {c1, c2}
    MaxSessions = 2
    MaxLaunches = 3
    TabClients = {c1, c2}
    MaxPages = 3
    MaxTabs = 3
    RouteClients = {c1, c2}
    Routes = {u1, u2}
    Tabs = {"t1", "t2"}
    MaxLoops = 2
    ListenClients = {c1, c2}
    Requested = {u1, u2}
    MaxPackets = 1
    MaxListeners = 2
    HeaderClients = {c1, c2}
    Headers = {"Authorization", "X"}
    Views = {"v1", "v2"}
    FirstView = "v1"
    CookieClients = {c1, c2}
    CookieValues = {"v1", "v2"}
    MaxJars = 2
    ProxyCount = 2
    GlobNames = {"a", "b", "*", "**"}
    MaxSegments = 3
    Heads = {2, 9}
    Arounds = {0, 1}
    MaxResults = 3
    VideoIds = {u1}
    Readers = {c1, c2}
    Posters = {u1}
    MaxEvents = 2
    ChannelSize = 1
    PlanCalls = {c1, c2}
    Contexts = {"session", "bare", "agent"}
    TodoIds = {"", "t1"}
    MaxTodos = 2
    MaxPlanEvents = 4
    RepoClients = {c1, c2}
    MaxRepoEntries = 3
SYMMETRY Symmetry
INVARIANTS
    TypesOK
    OutputTold
    PathsComplete
    ContextKept
    CallsAsSaid
    RequestsFaithful
    CallsServed
    NothingStale
    OutcomesTrue
    BrowserKept
    PageServed
PROPERTIES
    GraphKept
    NoSilentLoss
    PromisesKept

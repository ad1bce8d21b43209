SPECIFICATION EitherSpec
CONSTANTS
    zh = zh
    en = en
    tick = tick
    depth = depth
    bars = bars
    book = book
    flow = flow
    minute = minute
    spread = spread
    Items <- MCItems
    GroupOf <- MCGroupOf
    GroupOrder <- MCGroupOrder
    Queries = {tick, depth, NoQuery}
    NoQuery = NoQuery
    NamesGroup <- MCNamesGroup
    Locales = {zh, en}
    Facts <- MCFacts
    PerGroup = 1
    MaxRecent = 2
    Keys = {k, l}
    Versions = {v, w}
    Contents = {c, d}
    NoTime = NoTime
    NoRow = NoRow
    Sessions = {1, 2}
    LastTime = 2
    MaxRows = 3
    MaxAge = 0
    Articles = {carry, skew, note}
    Guides = {carry, skew}
    Elsewhere = Elsewhere
    NoBody = NoBody
    Chunks = {main, vendor, lazy}
    Entry = main
    BundledGuides = {g}
    Urls = {site, registry}
    Invalid = Invalid
    Titles = {t1, t2}
    LinkWorkers = {w1, w2}
    MaxRecords = 2
    Statuses = {200, 404, 405, 429}
    Papers = {p1, p2, p3}
    Torn = Torn
    Missing = Missing
    Years = {2026, 2028, 2100}
    Zones <- MCZones
    EventDays = {1, 29}
    Tokens = {s1, s2}
    AccessKeys = {key}
    None = None
    Requests = {v, w}
    Callers = {guest, other}
    Shared = Shared
    Limit <- MCLimit
    Window <- MCWindow
    LastInstant = 3
    MaxBody = 2
    MaxSent = 3
    daily = daily
    stopped = stopped
    DatasetOrder <- MCOrder
    BindingsOf <- MCBindings
    MarketOf <- MCMarket
    FoundBy = {{daily}}
    MaxListed = 1
    MaxForeign = 2
    Clients = {guest, other}
    Limits = {0, 2, 40}
    MaxUse = 3
    Unset = Unset
    Tabs = {tab1, tab2}
    Events = {"workspace_view", "request_failed"}
    MaxEvents = 2
    NoItem = NoItem
    Unreadable = Unreadable
    Texts = {t1, t2}
    MaxCopies = 2
    MaxChanges = 2
    MaxToasts = 1
    NoText = NoText
    basic = basic
    flagship = flagship
    BasePlans <- MCPlans
    MonthlyMinor <- MCMinor
    Unchosen = Unchosen
    MaxVisits = 3
    Values = {zh, en}
SYMMETRY Symmetry
INVARIANTS PagesShowWhatTheyName ToolsVouchForTheLibrary SignedOutMeansOut RatesCountTheAdmitted WholeBodiesOnly
PROPERTIES NoLookAhead

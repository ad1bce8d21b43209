-------------------------------- MODULE MCWeb --------------------------------
(***************************************************************************)
(* Instances of Search, of the modules about the requests of the Worker,    *)
(* the research library and the event calendar, one of them by the first    *)
(* choice.                                                                  *)
(*                                                                         *)
(* Search: five items of two groups, of which the other language finds      *)
(* less; every pair of words of up to three of two letters. Gateway: two    *)
(* requests at a time, two e-mail sessions and a key. Rates: two callers,   *)
(* two requests at a time. Route: bodies of up to three bytes, of which two *)
(* are admitted. Archive: three                                             *)
(* rows of two keys at three moments. Reader: two guides and an article     *)
(* without one. Bundle: every bundle of three chunks with a guide. Audit: *)
(* every library of two records, two workers. Papers: three. Calendar: the  *)
(* months of an ordinary year, a leap year and a century that is none.      *)
(***************************************************************************)
EXTENDS Search

CONSTANTS
    zh, en, tick, depth, bars, book, flow, minute, spread,
    Keys, Versions, Contents, NoTime, NoRow, Sessions, LastTime, MaxRows, MaxAge,
    Articles, Guides, Elsewhere, NoBody,
    Chunks, Entry, BundledGuides,
    Urls, Invalid, Titles, LinkWorkers, MaxRecords, Statuses,
    Papers, Torn, Missing,
    Years, Zones, EventDays,
    Tokens, AccessKeys, None, Requests,
    Callers, Shared, Limit, Window, LastInstant,
    MaxBody, MaxSent,
    DatasetOrder, BindingsOf, MarketOf, FoundBy, MaxListed, MaxForeign, Clients, Limits, MaxUse, Unset,
    daily, stopped,
    Tabs, Events, MaxEvents, NoItem, Unreadable,
    Texts, MaxCopies, MaxChanges, MaxToasts, NoText,
    basic, flagship, BasePlans, MonthlyMinor, Unchosen, MaxVisits, Values

VARIABLES
    part,
    left, right,                                               \* two words
    rows, clock,                                               \* of PointInTime
    location, article, observed, status, body, waiting, cache, frame, scrolled,
                                                               \* of ResearchGuides
    bundle, loaded, asked,                                     \* of its bundle
    records, readingPath, offset, limit, cursor, results, doing, auditExit, last,
                                                               \* of LinkAudit
    file, stage, memory, todo, flagged, exit, confirmed,       \* of Bibliography
    month, here, page, open,                                   \* of EventCalendar
    cookies, live, minted, good, request, out,                 \* of Gateway
    hits, served, granted, instant,                            \* of RateBuckets
    ask, size, ended, aborted, progress, forwarded, code,      \* of DataRoute
    view, phase, answer, severity, filters, storage,           \* of Reports
    stored, counted, recording, recorded,                      \* of its counts
    app, panel, writes, copies, said, toasts, timers,          \* of Copying
    visits, position, index, period, journey,                  \* of Showcase
    choice, saved, resolved, environment, heard, due

words == <<left, right>>
archive == <<rows, clock>>
reader == <<location, article, observed, status, body, waiting, cache, frame, scrolled>>
build == <<bundle, loaded, asked>>
audit == <<records, readingPath, offset, limit, cursor, results, doing, auditExit, last>>
verification == <<file, stage, memory, todo, flagged, exit, confirmed>>
calendar == <<month, here, page, open>>
library == <<reader, build, audit, verification, calendar>>
gateway == <<cookies, live, minted, good, request, out>>
rates == <<hits, served, granted, instant>>
route == <<ask, size, ended, aborted, progress, forwarded, code>>
worker == <<gateway, rates, route>>
reports == <<view, phase, answer, severity, filters, storage>>
counts == <<stored, counted, recording, recorded>>
copying == <<app, panel, writes, copies, said, toasts, timers>>
console == <<reports, counts, copying>>
selection == <<visits, position, index, period, journey>>
preference == <<choice, saved, resolved, environment, heard, due>>
showcase == <<selection, preference>>

Archive == INSTANCE PointInTime
Reader == INSTANCE ResearchGuides
Audit == INSTANCE LinkAudit WITH exit <- auditExit
Verification == INSTANCE Bibliography
Calendar == INSTANCE EventCalendar WITH file <- month
Cookies == INSTANCE Gateway WITH Keys <- AccessKeys
Rates == INSTANCE RateBuckets WITH request <- served, clock <- instant, LastTime <- LastInstant
Report == INSTANCE Reports WITH Found <- FoundBy, cache <- counted
Clipboard == INSTANCE Copying
Chosen == INSTANCE Showcase
Route == INSTANCE DataRoute WITH stage <- progress, status <- code

ASSUME InstanceAssumption ==
    /\ Archive!PointInTimeAssumption /\ Reader!GuidesAssumption
    /\ Audit!AuditAssumption /\ Verification!BibliographyAssumption
    /\ Cookies!GatewayAssumption /\ Report!ReportsAssumption
    /\ Rates!BucketAssumption /\ Route!RouteAssumption
    /\ Clipboard!CopyAssumption
    /\ Chosen!ShowcaseAssumption

-----------------------------------------------------------------------------
(* The index: "depth" is the start of a label, the names of the groups and  *)
(* the descriptions differ by language.                                     *)

Found == [label |-> "apart", id |-> "apart", type |-> "apart", description |-> FALSE,
          literal |-> 1, close |-> 0, missed |-> FALSE]

MCItems == <<bars, book, flow, minute, spread>>
MCGroupOf == [i \in {bars, book, flow, minute, spread} |->
                 IF i \in {bars, book, flow} THEN "data" ELSE "research"]
MCGroupOrder == <<"data", "research">>
MCNamesGroup == [q \in Queries |-> IF q = depth THEN {"research"} ELSE {}]
MCFacts ==
    [l \in Locales |-> [q \in {tick, depth} |-> [i \in {bars, book, flow, minute, spread} |->
        [Found EXCEPT
            !.label = IF i = book THEN "prefix" ELSE "apart",
            !.description = (i = bars /\ l = zh),
            !.close = IF i = minute /\ q = depth THEN 1 ELSE 0,
            !.literal = IF i = minute /\ q = depth THEN 0 ELSE 1,
            !.missed = (i = flow /\ l = en) \/ (i = spread /\ (q = tick \/ l = en))]]]]

Letters == {"a", "b"}
Words == UNION {[1..n -> Letters] : n \in 0..3}

MCBindings == [d \in {daily, stopped} |-> IF d = daily THEN {"active"} ELSE {"paused"}]
MCMarket == [d \in {daily, stopped} |-> "equity"]
MCOrder == <<stopped, daily>>

MCPlans == <<basic, flagship>>
MCMinor == [plan \in {basic, flagship} |-> IF plan = basic THEN 9900 ELSE 49900]

MCZones == {-8, -4, 0, 8, 14}
MCLimit == [k \in Callers \cup {Shared} |-> IF k = Shared THEN 2 ELSE 1]
MCWindow == [k \in Callers \cup {Shared} |-> IF k = Shared THEN 2 ELSE 3]

-----------------------------------------------------------------------------
(* The parts that were not chosen stay in one of their initial states.      *)
EitherInit ==
    /\ part \in {"search", "words", "archive", "reader", "build", "audit", "papers", "calendar",
                 "gateway", "rates", "route", "reports", "counts", "copying",
                 "plans", "preferences"}
    /\ Init /\ (part # "search" => locale = zh)
    /\ IF part = "words" THEN left \in Words /\ right \in Words ELSE left = <<>> /\ right = <<>>
    /\ Archive!Init
    /\ Reader!Init /\ (part # "reader" => location = [page |-> Elsewhere, section |-> FALSE])
    /\ IF part = "build" THEN Reader!BundleInit
       ELSE bundle = [c \in Chunks |-> [imports |-> {}, guides |-> {}]] /\ loaded = {} /\ asked = {}
    /\ IF part = "audit" THEN Audit!Init
       ELSE /\ records = <<>> /\ readingPath = {} /\ offset = 0 /\ limit = 1 /\ cursor = 1
            /\ results = <<>> /\ last = <<>> /\ auditExit = 0
            /\ doing = [w \in LinkWorkers |-> Audit!Idle]
    /\ Verification!Init /\ (part # "papers" => file = Missing)
    /\ IF part = "calendar" THEN Calendar!Init
       ELSE month = {} /\ here = {} /\ page = "loading" /\ open = {}
    /\ Cookies!Init /\ (part # "gateway" => cookies.key = None)
    /\ Rates!Init
    /\ IF part = "route" THEN Route!Init
       ELSE /\ ask = {} /\ size = 0 /\ ended = FALSE /\ aborted = FALSE
            /\ progress = "none" /\ forwarded = 0 /\ code = 0
    /\ Report!Init /\ (part # "reports" => storage)
    /\ Report!CountsInit /\ (part # "counts" => stored = NoItem)
    /\ Clipboard!Init /\ (part # "copying" => app = "site")
    /\ Chosen!Init
    /\ part # "plans" => visits = <<Chosen!At("elsewhere", Unchosen)>>
    /\ part # "preferences" => saved = "nothing" /\ environment = zh

LibraryNext ==
    \/ part = "reader" /\ Reader!Next /\ UNCHANGED <<build, audit, verification, calendar>>
    \/ part = "build" /\ Reader!BundleNext /\ UNCHANGED <<reader, audit, verification, calendar>>
    \/ part = "audit" /\ Audit!Next /\ UNCHANGED <<reader, build, verification, calendar>>
    \/ part = "papers" /\ Verification!Next /\ UNCHANGED <<reader, build, audit, calendar>>
    \/ part = "calendar" /\ Calendar!Next /\ UNCHANGED <<reader, build, audit, verification>>

WorkerNext ==
    \/ part = "gateway" /\ Cookies!Next /\ UNCHANGED <<rates, route>>
    \/ part = "rates" /\ Rates!Next /\ UNCHANGED <<gateway, route>>
    \/ part = "route" /\ Route!Next /\ UNCHANGED <<gateway, rates>>

ConsoleNext ==
    \/ part = "reports" /\ Report!Next /\ UNCHANGED <<counts, copying>>
    \/ part = "counts" /\ Report!CountsNext /\ UNCHANGED <<reports, copying>>
    \/ part = "copying" /\ Clipboard!Next /\ UNCHANGED <<reports, counts>>

ShowcaseNext ==
    \/ part = "plans" /\ Chosen!SelectionNext /\ UNCHANGED preference
    \/ part = "preferences" /\ Chosen!PreferenceNext /\ UNCHANGED selection

(* The words are compared once; the archive and the rates end with the      *)
(* clock.                                                                   *)
Ended ==
    \/ part = "words"
    \/ part = "archive" /\ clock = LastTime
    \/ part = "rates" /\ instant = LastInstant

EitherNext ==
    \/ part = "search" /\ Next /\ UNCHANGED <<part, words, archive, library, worker, console, showcase>>
    \/ part = "archive" /\ Archive!Next /\ UNCHANGED <<part, vars, words, library, worker, console, showcase>>
    \/ LibraryNext /\ UNCHANGED <<part, vars, words, archive, worker, console, showcase>>
    \/ WorkerNext /\ UNCHANGED <<part, vars, words, archive, library, console, showcase>>
    \/ ConsoleNext /\ UNCHANGED <<part, vars, words, archive, library, worker, showcase>>
    \/ ShowcaseNext /\ UNCHANGED <<part, vars, words, archive, library, worker, console>>
    \/ Ended /\ UNCHANGED <<part, vars, words, archive, library, worker, console, showcase>>

EitherSpec ==
    EitherInit /\ [][EitherNext]_<<part, vars, words, archive, library, worker, console, showcase>>

(* The search finds what is meant, and opens what is highlighted.           *)
SearchAnswers ==
    HighlightIsListed /\ ResultsExplainThemselves /\ OneSlipIsForgiven(left, right, Letters)

(* The search finds what is meant; articles show their own guides, which    *)
(* the build keeps out of the first load; the calendar its days where they  *)
(* belong; the console's reports everything that needs attention, its       *)
(* counts no more than happened, and the copy buttons what was copied; and  *)
(* the pages what the visitor chose.                                        *)
PagesShowWhatTheyName ==
    /\ SearchAnswers
    /\ Reader!GuideIsOfTheArticle
    /\ part = "build" => Reader!GuidesAreDeferred
    /\ part = "calendar" => Calendar!CalendarIsComplete
    /\ part = "reports" => Report!ReportsHideNothing
    /\ Report!CountsAreHonest
    /\ Clipboard!CopiedIsWhatIsShown /\ Clipboard!MessagesEnd
    /\ Chosen!SelectionIsKept /\ Chosen!PreferenceIsShown

(* The tools of the editors end well only when what they vouch for holds.   *)
ToolsVouchForTheLibrary == Audit!AuditEndsWell /\ Verification!VerifiedOrFlagged

(* The properties of the other components, under their names. *)
NoLookAhead == Archive!NoLookAhead
SignedOutMeansOut == Cookies!SignedOutMeansOut
RatesCountTheAdmitted == Rates!RatesCountTheAdmitted
WholeBodiesOnly == part = "route" => Route!WholeBodiesOnly

Symmetry == Permutations(Keys) \cup Permutations(Versions) \cup Permutations(Contents)
=============================================================================

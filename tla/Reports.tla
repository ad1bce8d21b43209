------------------------------- MODULE Reports -------------------------------
(***************************************************************************)
(* The report pages of the operator console (frontend/src/views/admin) with *)
(* the server's report of the collection (api_server.py): the table of the  *)
(* datasets, the alerts, the usage of the clients.                          *)
(*                                                                         *)
(* The rows of the catalogue are projected from receipts; what the receipts *)
(* of a dataset say last is its evidence. A page shows the answer to the    *)
(* request it made when it was mounted; what the request goes through is in *)
(* Console. The filters of the table are kept in localStorage, if there is  *)
(* one, and so are the columns it hides. Sorting and wording are left out.   *)
(*                                                                         *)
(* And the console's counts of its own use (lib/consoleAnalytics.ts): an    *)
(* aggregate in localStorage, which every tab reads, adds an event to and   *)
(* writes back, with a copy of its own; another may write between the two.  *)
(* The two do not touch each other: Next and CountsNext.                    *)
(***************************************************************************)
EXTENDS Naturals, Sequences, SequencesExt, FiniteSets

CONSTANTS
    DatasetOrder,   \* the datasets the operator may see, as the registry lists them
    BindingsOf,     \* the activation states of a dataset's provider bindings
    MarketOf,
    Found,          \* what may be typed into the search: sets of datasets it finds
    MaxListed,      \* alerts for unattributed receipts (20)
    MaxForeign,     \* bound: unattributed receipts
    Clients, Limits, MaxUse,
    Unset,            \* a filter that is not set
    Tabs,
    Events,           \* kinds of events of the console
    MaxEvents,        \* bound: events of a behaviour
    NoItem,           \* nothing is stored
    Unreadable        \* something is that is no aggregate of this version

ReportsAssumption ==
    /\ \A n \in DOMAIN DatasetOrder :
          /\ BindingsOf[DatasetOrder[n]] \in SUBSET {"active", "paused"} \ {{}}
          /\ DatasetOrder[n] \in DOMAIN MarketOf
    /\ MaxListed \in Nat /\ MaxForeign \in Nat /\ MaxUse \in Nat
    /\ Events \subseteq {"workspace_view", "login_success", "request_failed", "copy_succeeded",
                         "credential_created", "credential_updated", "credential_toggled",
                         "credential_deleted", "dataset_query_succeeded"}
    /\ MaxEvents \in Nat

Evidence == {"invalid", "none", "failed", "empty", "fresh", "old"}
Severities == <<"critical", "warning", "info">>
Columns == {"dataset", "state"}   \* of the table; the others are like the second
CanHide(column) == column # "dataset"

NoFilters == [market |-> Unset, activation |-> {Unset}, state |-> Unset, search |-> {},
              hidden |-> {}]
NoAnswer == [rows |-> <<>>]

VARIABLES
    view,      \* the page: "none", "collection", "health", "usage"
    phase,     \* "loading", "ready" or "error"
    answer,    \* what the page was answered
    severity,  \* the filter of the alerts, Unset for all
    filters,   \* those of the table
    storage    \* whether there is a localStorage

VARIABLES
    stored,    \* the aggregate in localStorage
    cache,     \* cachedSnapshot of each tab
    recording, \* of each tab: the event it is about to add, and to what
    recorded   \* history: events so far

vars == <<view, phase, answer, severity, filters, storage>>
counts == <<stored, cache, recording, recorded>>

-----------------------------------------------------------------------------
(* The server *)

(* project_dataset_runtime: receipts that cannot be read come first, then a *)
(* dataset without active binding.                                          *)
State(d, evidence) ==
    CASE evidence = "invalid" -> "failed"
      [] evidence # "invalid" /\ "active" \notin BindingsOf[d] -> "paused"
      [] OTHER -> CASE evidence = "none" -> "unobserved" [] evidence = "old" -> "stale"
                    [] evidence = "fresh" -> "success" [] OTHER -> evidence

Row(d, evidence) ==
    [dataset |-> d, market |-> MarketOf[d], activation |-> BindingsOf[d],
     state |-> State(d, evidence), degraded |-> State(d, evidence) \notin {"success", "empty"}]

(* _admin_catalog_rows *)
Rows(evidence) == [n \in DOMAIN DatasetOrder |-> Row(DatasetOrder[n], evidence[DatasetOrder[n]])]

(* Fault: only what is known to be stale is a warning. *)
SeverityFault(row) ==
    IF row.state = "failed" THEN "critical"
    ELSE IF row.activation # {"active"} THEN "none"
    ELSE CASE row.state = "stale" -> "warning" [] row.state = "unobserved" -> "info" [] OTHER -> "none"

Severity(row) ==
    IF row.state = "failed" THEN "critical"
    ELSE IF row.activation # {"active"} THEN "none"
    ELSE CASE row.state = "stale" \/ row.degraded -> "warning"
           [] ~row.degraded /\ row.state = "unobserved" -> "info"
           [] OTHER -> "none"

Alert(kind, level, dataset, receipts) ==
    [kind |-> kind, severity |-> level, dataset |-> dataset, receipts |-> receipts]

(* Fault: the receipts past the limit are left out. *)
ReceiptAlertsFault(scan) ==
    CASE scan.db = "absent" -> <<>>
      [] scan.db = "locked" -> <<Alert("receipt", "warning", Unset, 0)>>
      [] OTHER -> [n \in 1..(IF scan.found < MaxListed THEN scan.found ELSE MaxListed) |->
                      Alert("receipt", "critical", Unset, 1)]

(* An alert for each receipt no registered dataset claims, up to a limit,   *)
(* and one for those that remain; a scan that fails is an alert itself.     *)
ReceiptAlerts(scan) ==
    CASE scan.db = "absent" -> <<>>
      [] scan.db = "locked" -> <<Alert("receipt", "warning", Unset, 0)>>
      [] OTHER ->
            [n \in 1..(IF scan.found < MaxListed THEN scan.found ELSE MaxListed) |->
                Alert("receipt", "critical", Unset, 1)]
            \o (IF scan.found > MaxListed
                THEN <<Alert("receipt", "critical", Unset, scan.found - MaxListed)>> ELSE <<>>)

(* _serve_health_alerts *)
Alerts(rows, scan) ==
    LET raised == SelectSeq(rows, LAMBDA row : Severity(row) # "none")
    IN  [n \in DOMAIN raised |->
            Alert("dataset", Severity(raised[n]), raised[n].dataset, 0)] \o ReceiptAlerts(scan)

-----------------------------------------------------------------------------
(* The pages *)

OfSeverity(alerts, s) == SelectSeq(alerts, LAMBDA alert : alert.severity = s)

(* HealthView: the gravest first, the others in the order of the server. *)
Arranged(alerts) ==
    OfSeverity(alerts, Severities[1]) \o OfSeverity(alerts, Severities[2])
        \o OfSeverity(alerts, Severities[3])

VisibleAlerts == IF severity = Unset THEN answer.alerts ELSE OfSeverity(answer.alerts, severity)

(* runtimeTone: the colour of a dataset's badge. *)
Tone(row) ==
    CASE row.degraded \/ row.state = "stale" -> "amber"
      [] ~row.degraded /\ row.state = "success" -> "green"
      [] ~row.degraded /\ row.state = "failed" -> "rose"
      [] ~row.degraded /\ row.state = "empty" -> "blue"
      [] OTHER -> "slate"

(* CollectionView: the rows the filters let through; "active" and "paused"  *)
(* are offered for the activation, and a dataset with bindings of both is   *)
(* neither.                                                                 *)
Filtered ==
    SelectSeq(answer.rows, LAMBDA row :
        /\ filters.market \in {Unset, row.market}
        /\ filters.activation \in {{Unset}, row.activation}
        /\ filters.state \in {Unset, row.state}
        /\ filters.search = {} \/ row.dataset \in filters.search)

(* The table: a row for each dataset that is left, of the visible columns.  *)
Table ==
    [n \in DOMAIN Filtered |-> [column \in Columns \ filters.hidden |-> Filtered[n][column]]]

(* Fault: counts what the filters let through. *)
AttentionFault == {n \in DOMAIN Filtered : Filtered[n].state = "failed" \/ Filtered[n].degraded}

(* The datasets the banner counts. *)
Attention == {n \in DOMAIN answer.rows : answer.rows[n].state = "failed" \/ answer.rows[n].degraded}

(* The bar of a client: its per cent, and its colour. *)
Percent(used, limit) ==
    LET rounded == (200 * used + limit) \div (2 * limit) IN IF rounded > 100 THEN 100 ELSE rounded

(* Fault: the colour turns after the limit. *)
BarFault(used, limit) ==
    IF limit = 0 THEN "none"
    ELSE IF used > limit THEN "rose" ELSE IF Percent(used, limit) >= 75 THEN "amber" ELSE "blue"

Bar(used, limit) ==
    IF limit = 0 THEN "none"
    ELSE IF Percent(used, limit) >= 95 THEN "rose"
    ELSE IF Percent(used, limit) >= 75 THEN "amber" ELSE "blue"

(* UsageView: the clients that called today, the busiest first. *)
Busiest(use) ==
    LET busier(c, d) == use[c].count > use[d].count
    IN  SetToSortSeq({c \in Clients : use[c].count > 0}, busier)

-----------------------------------------------------------------------------
(* What the operator does *)

Init ==
    /\ view = "none" /\ phase = "loading" /\ answer = NoAnswer
    /\ severity = Unset /\ filters = NoFilters
    /\ storage \in BOOLEAN

(* The filters are read from localStorage; the state of an earlier visit is *)
(* gone without it.                                                         *)
Mount(v) ==
    /\ view = "none"
    /\ view' = v /\ phase' = "loading" /\ severity' = Unset
    /\ filters' = IF storage THEN filters ELSE NoFilters
    /\ UNCHANGED <<answer, storage>>

Leave ==
    /\ view # "none"
    /\ view' = "none" /\ answer' = NoAnswer
    /\ UNCHANGED <<phase, severity, filters, storage>>

Shows(what) ==
    /\ phase = "loading" /\ phase' = "ready" /\ answer' = what
    /\ UNCHANGED <<view, severity, filters, storage>>

(* The answer tells what the receipts said when the server looked. *)
Report(evidence) == view = "collection" /\ Shows([rows |-> Rows(evidence)])

Warn(evidence, scan) ==
    /\ view = "health"
    /\ Shows([rows |-> Rows(evidence), scan |-> scan,
              alerts |-> Arranged(Alerts(Rows(evidence), scan))])

Account(use) ==
    /\ view = "usage"
    /\ Shows([rows |-> <<>>, use |-> use, listed |-> Busiest(use)])

Refuse ==
    /\ view # "none" /\ phase = "loading"
    /\ phase' = "error"
    /\ UNCHANGED <<view, answer, severity, filters, storage>>

Pick(s) ==
    /\ view = "health" /\ phase = "ready" /\ Len(answer.alerts) > 0
    /\ severity' = s
    /\ UNCHANGED <<view, phase, answer, filters, storage>>

(* A filter is set to a value the table has, or to none. *)
Filter ==
    /\ view = "collection" /\ phase = "ready"
    /\ \/ \E n \in DOMAIN answer.rows, f \in {"market", "state"} :
              filters' = [filters EXCEPT ![f] = answer.rows[n][f]]
       \/ \E a \in {"active", "paused", Unset} : filters' = [filters EXCEPT !.activation = {a}]
       \/ \E f \in {"market", "state"} : filters' = [filters EXCEPT ![f] = Unset]
       \/ \E q \in Found \cup {{}} : filters' = [filters EXCEPT !.search = q]
    /\ UNCHANGED <<view, phase, answer, severity, storage>>

(* Fault: every column is offered. *)
ToggleColumnFault ==
    /\ view = "collection" /\ phase = "ready"
    /\ \E column \in Columns, shown \in BOOLEAN :
          filters' = [filters EXCEPT !.hidden = IF shown THEN @ \ {column} ELSE @ \cup {column}]
    /\ UNCHANGED <<view, phase, answer, severity, storage>>

(* The dialog of the columns offers those that may be hidden, and all.      *)
ToggleColumn ==
    /\ view = "collection" /\ phase = "ready"
    /\ \/ \E column \in {c \in Columns : CanHide(c)}, shown \in BOOLEAN :
              filters' = [filters EXCEPT !.hidden = IF shown THEN @ \ {column} ELSE @ \cup {column}]
       \/ filters' = [filters EXCEPT !.hidden = {}]
    /\ UNCHANGED <<view, phase, answer, severity, storage>>

Reset ==
    /\ view = "collection" /\ phase = "ready"
    /\ filters' = NoFilters
    /\ UNCHANGED <<view, phase, answer, severity, storage>>

Scans == [db : {"absent", "locked"}, found : {0}] \cup [db : {"open"}, found : 0..MaxForeign]
Evidences == [{DatasetOrder[n] : n \in DOMAIN DatasetOrder} -> Evidence]
Uses == [Clients -> [count : 0..MaxUse, limit : Limits]]

Next ==
    \/ \E v \in {"collection", "health", "usage"} : Mount(v)
    \/ Leave \/ Refuse \/ Filter \/ ToggleColumn \/ Reset
    \/ \E e \in Evidences : Report(e) \/ \E scan \in Scans : Warn(e, scan)
    \/ \E use \in Uses : Account(use)
    \/ \E s \in {Severities[1], Severities[2], Severities[3], Unset} : Pick(s)

-----------------------------------------------------------------------------
(* The counts of its own use *)

Metrics == {"views", "errors", "completions"}
Idle == [event |-> "none"]

(* emptySnapshot. Moments are told by the events that came before them. *)
Empty ==
    [since |-> recorded, total |-> 0, metrics |-> [m \in Metrics |-> 0],
     events |-> [e \in Events |-> 0]]

MetricFor(event) ==
    CASE event \in {"workspace_view", "login_success"} -> "views"
      [] event = "request_failed" -> "errors"
      [] OTHER -> "completions"

(* Fault: a failed request is a completion as well. *)
AddedFault(snapshot, event) ==
    [snapshot EXCEPT !.total = @ + 1, !.events[event] = @ + 1,
                     !.metrics["completions"] = @ + (IF event = "request_failed" THEN 1 ELSE 0),
                     !.metrics[MetricFor(event)] = @ + 1]

Added(snapshot, event) ==
    [snapshot EXCEPT !.total = @ + 1, !.metrics[MetricFor(event)] = @ + 1, !.events[event] = @ + 1]

CountsInit ==
    /\ recorded = 0
    /\ stored \in {NoItem, Unreadable} /\ cache = [t \in Tabs |-> Empty]
    /\ recording = [t \in Tabs |-> Idle]

(* readConsoleAnalytics: without a stored item the tab goes by its copy. *)
Read(t) ==
    CASE stored = NoItem -> cache[t]
      [] stored = Unreadable -> Empty
      [] OTHER -> stored

(* recordConsoleEvent, up to the read ... *)
Begin(t, event) ==
    /\ recorded < MaxEvents /\ recording[t] = Idle
    /\ recording' = [recording EXCEPT ![t] = [event |-> event, to |-> Read(t)]]
    /\ cache' = IF stored \in {NoItem, Unreadable} THEN cache ELSE [cache EXCEPT ![t] = stored]
    /\ recorded' = recorded + 1
    /\ UNCHANGED stored

(* ... and the write, which fails if the storage is full or denied. *)
Commit(t) ==
    /\ recording[t] # Idle
    /\ recording' = [recording EXCEPT ![t] = Idle]
    /\ LET next == Added(recording[t].to, recording[t].event)
       IN  \/ stored' = next /\ cache' = [cache EXCEPT ![t] = next]
           \/ UNCHANGED <<stored, cache>>
    /\ UNCHANGED recorded

(* Fault: the date is new, the counts are those of the copy. *)
ResetCountsFault(t) ==
    /\ recording[t] = Idle
    /\ stored' = NoItem /\ cache' = [cache EXCEPT ![t].since = recorded]
    /\ UNCHANGED <<recording, recorded>>

(* resetConsoleAnalytics *)
ResetCounts(t) ==
    /\ recording[t] = Idle
    /\ stored' = NoItem /\ cache' = [cache EXCEPT ![t] = Empty]
    /\ UNCHANGED <<recording, recorded>>

(* Every tab is done. *)
Rest == recorded = MaxEvents /\ UNCHANGED counts

CountsNext == Rest \/ \E t \in Tabs : Commit(t) \/ ResetCounts(t) \/ \E e \in Events : Begin(t, e)

EitherPart == (Next /\ UNCHANGED counts) \/ (CountsNext /\ UNCHANGED vars)

Spec == Init /\ CountsInit /\ [][EitherPart]_<<vars, counts>>

-----------------------------------------------------------------------------
(* Properties *)

(* Whatever the table of the collection would paint as needing attention is *)
(* an alert of the health page, if the dataset is active: the menu leads to *)
(* that page only (AdminApp.tsx:16, ui.tsx:285, api_server.py:1143-1157).   *)
BadgesAreAlerts ==
    view = "health" /\ phase = "ready" =>
        \A n \in DOMAIN answer.rows :
            LET row == answer.rows[n]
            IN  row.activation = {"active"} /\ Tone(row) \in {"amber", "rose"} =>
                    \E m \in DOMAIN answer.alerts :
                        /\ answer.alerts[m].dataset = row.dataset
                        /\ answer.alerts[m].severity \in {"critical", "warning"}

(* The receipts no dataset claims stay visible, every one of them, and so   *)
(* does a scan that fails: "never silent" (api_server.py:1181-1184).        *)
NoReceiptIsSilent ==
    view = "health" /\ phase = "ready" /\ answer.scan.db # "absent" =>
        LET receipts == SelectSeq(answer.alerts, LAMBDA alert : alert.kind = "receipt")
        IN  IF answer.scan.db = "locked" THEN receipts # <<>>
            ELSE answer.scan.found = FoldSeq(LAMBDA alert, sum : alert.receipts + sum, 0, receipts)

(* An alert is under one filter beside "all", and a critical one is never   *)
(* behind another (HealthView.tsx:48-53, 68-70).                            *)
GravestFirst ==
    view = "health" /\ phase = "ready" =>
        /\ \A m, n \in DOMAIN answer.alerts :
              answer.alerts[n].severity = "critical" /\ m < n => answer.alerts[m].severity = "critical"
        /\ severity = Unset => Len(VisibleAlerts) = Len(answer.alerts)

(* The banner counts the datasets whose badges ask for attention, also      *)
(* those a remembered filter hides (CollectionView.tsx:151, 170-176).       *)
BannerCountsTheHidden ==
    view = "collection" /\ phase = "ready" =>
        Cardinality(Attention)
            = Cardinality({n \in DOMAIN answer.rows : Tone(answer.rows[n]) \in {"amber", "rose"}})

(* Whatever columns an earlier visit hid, each row of the table names its   *)
(* dataset, and no two rows the same one: "the name is always shown"        *)
(* (CollectionView.tsx:59, 243).                                            *)
RowsNameTheirDataset ==
    view = "collection" /\ phase = "ready" =>
        \A m, n \in DOMAIN Table :
            /\ "dataset" \in DOMAIN Table[n]
            /\ m # n => Table[m].dataset # Table[n].dataset

(* A client that has used its allowance up is shown in red, and nobody who  *)
(* called more is listed behind it (UsageView.tsx:54-60, ui.tsx:580-586;    *)
(* enforce_daily_limit refuses from count = limit on).                      *)
ExhaustionIsShown ==
    view = "usage" /\ phase = "ready" =>
        \A i \in DOMAIN answer.listed :
            LET c == answer.use[answer.listed[i]]
            IN  /\ c.limit > 0 /\ c.count >= c.limit => Bar(c.count, c.limit) = "rose"
                /\ \A j \in DOMAIN answer.listed :
                      j < i => answer.use[answer.listed[j]].count >= c.count

ReportsHideNothing ==
    /\ BadgesAreAlerts /\ NoReceiptIsSilent /\ GravestFirst /\ BannerCountsTheHidden
    /\ RowsNameTheirDataset /\ ExhaustionIsShown

(* The counts never claim more than happened since the date beside them,    *)
(* and each metric is what its events add up to, although tabs overwrite each other's events, bring back what *)
(* another has reset, and start anew over what they cannot read             *)
(* (consoleAnalytics.ts:52-109).                                            *)
CountsAreHonest ==
    \A s \in {cache[t] : t \in Tabs} \cup (IF stored \in {NoItem, Unreadable} THEN {} ELSE {stored}) :
        LET of(event) == IF event \in Events THEN s.events[event] ELSE 0
        IN  /\ s.total <= recorded - s.since
            /\ s.total = s.metrics["views"] + s.metrics["errors"] + s.metrics["completions"]
            /\ s.metrics["views"] = of("workspace_view") + of("login_success")
            /\ s.metrics["errors"] = of("request_failed")
            /\ s.metrics["completions"] =
                   of("copy_succeeded") + of("dataset_query_succeeded") + of("credential_created")
                   + of("credential_updated") + of("credential_toggled") + of("credential_deleted")
=============================================================================

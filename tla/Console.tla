------------------------------- MODULE Console -------------------------------
(***************************************************************************)
(* The operator console (frontend/src): browser tabs that list, create,    *)
(* pause, edit and delete the access keys of the token file, page through  *)
(* sample queries and read reports.                                        *)
(*                                                                         *)
(* A console is served in one of two shells. In the standalone shell       *)
(* (App.tsx) the operator logs in with an access key, which localStorage   *)
(* keeps for the next load. Under /admin of the public site                *)
(* (AccountAdminRoot.tsx) it runs as the account the browser is signed in  *)
(* to: every request names that account, and the Worker's gateway serves   *)
(* it with the account's linked key if the cookie still agrees.            *)
(*                                                                         *)
(* A request is sent, served and delivered in three steps, or lost; the    *)
(* account, the token file and the page change between them. Closing a     *)
(* view orphans its requests; disposing of a client aborts them. The       *)
(* gateway's own steps are those of AccountConnection and are one step     *)
(* here. An entry of the token file is abstracted to what the properties   *)
(* tell apart: enabled or paused, commercial or legacy tier, with or       *)
(* without an explicit limit.                                              *)
(***************************************************************************)
EXTENDS Naturals, FiniteSets

CONSTANTS
    Tabs,           \* browser tabs showing the console
    Accounts,       \* accounts of the site, each linked to the key LinkOf names
    Keys, AdminKeys, LinkOf,
    Managed,        \* bound: keys whose entries change
    Datasets,
    InitialEntries, \* entries the token file holds when the console is opened
    Calls           \* bound: requests in flight at a time

ASSUME ConsoleAssumption ==
    /\ AdminKeys \subseteq Keys /\ Managed \subseteq Keys
    /\ LinkOf \in [Accounts -> Keys]

Sections == {"tokens", "usage", "health", "browser"}
RawSections == Sections \cup {"collection", "unknown"}
Nobody == "nobody"
Idle == [op |-> "idle"]
Unheard == [after |-> "nothing"]
Entries == [enabled: BOOLEAN, tier: {"commercial", "legacy"}, limit: BOOLEAN]
AdminEntry == [enabled |-> TRUE, tier |-> "commercial", limit |-> FALSE]
Unissued == [deleted |-> FALSE]
Deleted == [deleted |-> TRUE]
NoList == [k \in Keys |-> Unissued]
NoView == [kind |-> "none"]

VARIABLES
    shell,     \* "standalone" or "gateway"
    store,     \* the token file, by key
    cookie,    \* the account the browser is signed in to on the site
    saved,     \* localStorage: the access key of the standalone shell
    tab,       \* of each tab: its phase, and whom its session was confirmed for
    view,      \* of each tab: the state of the mounted view
    calls      \* requests in flight

vars == <<shell, store, cookie, saved, tab, view, calls>>

Listed(s) == {k \in Keys : s[k] \in Entries}

-----------------------------------------------------------------------------
(* The token file (auth.py) *)

Usable(k) == store[k] \in Entries /\ store[k].enabled

(* Fault: a field the request leaves out takes its default. *)
UpdatedToDefaults(e, u) ==
    [enabled |-> IF "enabled" \in DOMAIN u THEN u.enabled ELSE TRUE,
     tier |-> IF "tier" \in DOMAIN u THEN u.tier ELSE e.tier, limit |-> "limit" \in DOMAIN u]

(* update_token: only the fields the request names; a commercial tier drops *)
(* the explicit limit.                                                      *)
Updated(e, u) ==
    LET new == [f \in DOMAIN e |-> IF f \in DOMAIN u THEN u[f] ELSE e[f]]
    IN  [new EXCEPT !.limit = @ /\ new.tier = "legacy"]

(* Another operator pauses the entry, or deletes it. *)
ChangedElsewhere(k) ==
    /\ store[k] \in Entries
    /\ store' = [store EXCEPT ![k] = IF @.enabled THEN [@ EXCEPT !.enabled = FALSE] ELSE Deleted]
    /\ UNCHANGED <<shell, cookie, saved, tab, view, calls>>

-----------------------------------------------------------------------------
(* Requests (lib/api.ts) *)

Mutations == {"toggle", "edit", "delete", "create"}

(* Whether the component that awaits the answer is mounted ("view"), was    *)
(* unmounted ("orphan"), or its client was disposed of ("aborted").         *)
Request(t, op, arg) ==
    [tab |-> t, op |-> op, who |-> tab[t].who, arg |-> arg, held |-> "view",
     status |-> "sent", as |-> Nobody, body |-> NoList]

InFlight(t, op) ==
    \E c \in Calls : calls[c] # Idle /\ calls[c].tab = t /\ calls[c].op = op /\ calls[c].held = "view"

StartIn(cs, r) == \E c \in Calls : cs[c] = Idle /\ calls' = [cs EXCEPT ![c] = r]
Start(r) == StartIn(calls, r)
Free(c) == [calls EXCEPT ![c] = Idle]

(* The calls once the components of the tab that await ops are gone: what   *)
(* is answered is of no use to anyone, whatever was read, and an aborted    *)
(* read asks nothing.                                                       *)
Released(cs, t, ops, how) ==
    [c \in Calls |->
        IF cs[c] = Idle \/ cs[c].tab # t \/ cs[c].op \notin ops \/ cs[c].held = "aborted" THEN cs[c]
        ELSE IF how = "aborted" /\ cs[c].op \notin Mutations THEN Idle
        ELSE IF cs[c].op \in Mutations THEN [cs[c] EXCEPT !.held = how, !.body = NoList]
        ELSE [cs[c] EXCEPT !.held = how, !.op = "report", !.arg = Unheard, !.body = NoList]]

SessionOps == {"check", "boot", "login"}
ReadOps == {"catalog", "decoration", "report"}
ViewOps == Mutations \cup ReadOps \cup {"list", "sample", "page"}

(* Fault: the identity the page was confirmed for is not compared. *)
AccountVerdictByCookie(r) ==
    IF cookie = Nobody THEN "unauthorized"
    ELSE IF ~Usable(LinkOf[cookie]) \/ LinkOf[cookie] \notin AdminKeys THEN "forbidden"
    ELSE "ok"

(* handleAdmin: the cookie's account must be the one the request names, and *)
(* its linked key an administrator's.                                       *)
AccountVerdict(r) ==
    IF cookie = Nobody THEN "unauthorized"
    ELSE IF cookie # r.who THEN "changed"
    ELSE IF ~Usable(LinkOf[cookie]) \/ LinkOf[cookie] \notin AdminKeys THEN "forbidden"
    ELSE "ok"

(* A change is also refused later than ten minutes after signing in: the    *)
(* age of the session is not modelled, so either may be found.              *)
GatewayVerdicts(r) ==
    {AccountVerdict(r)} \cup (IF r.op \in Mutations /\ AccountVerdict(r) = "ok" THEN {"forbidden"} ELSE {})

(* The API server authenticates the bearer key, then asks for admin. *)
BearerVerdict(r) ==
    IF ~Usable(r.who) THEN "unauthorized"
    ELSE IF r.who \notin AdminKeys THEN "forbidden"
    ELSE "ok"

Verdicts(r) == IF shell = "gateway" THEN GatewayVerdicts(r) ELSE {BearerVerdict(r)}
ServedAs(r) == IF shell = "gateway" THEN cookie ELSE r.who

(* Fault: a cursor is honoured whatever query it was issued for. *)
CursorFits(arg) == TRUE

(* A cursor is bound to the query it continues. *)
CursorMatches(arg) == arg.base.cursor \in {Nobody, arg.dataset}

(* What the server does with an admitted request, and what it answers.      *)
Execute(c, r) ==
    LET answer(s, b) ==
            calls' = [calls EXCEPT ![c].status = s, ![c].as = ServedAs(r), ![c].body = b,
                                      ![c].arg = IF r.op \in Mutations THEN Unheard ELSE @]
        change(new) == IF store[r.arg.key] \in Entries
                       THEN store' = [store EXCEPT ![r.arg.key] = new] /\ answer("ok", NoList)
                       ELSE UNCHANGED store /\ answer("failed", NoList)
    IN  \/ r.op = "list" /\ answer("ok", store) /\ UNCHANGED store
        \/ r.op \in ReadOps /\ answer("ok", NoList) /\ UNCHANGED store
        \/ r.op = "sample" /\ answer("ok", NoList) /\ UNCHANGED store
        \/ r.op = "page" /\ answer(IF CursorMatches(r.arg) THEN "ok" ELSE "failed", NoList)
           /\ UNCHANGED store
        \/ r.op \in {"toggle", "edit"} /\ change(Updated(store[r.arg.key], r.arg.set))
        \/ r.op = "delete" /\ change(Deleted)
        \/ /\ r.op = "create"
           /\ \E k \in Managed :
                 /\ store[k] = Unissued
                 /\ LET e == [enabled |-> TRUE, tier |-> r.arg.set.tier, limit |-> FALSE]
                    IN  store' = [store EXCEPT ![k] = e] /\ answer("ok", [NoList EXCEPT ![k] = e])

(* A request of a view reaches the server. The gateway's refusals (401, 403 *)
(* and 409) are one to the page, which takes the session to have changed;   *)
(* the standalone shell shows any other answer as a failure.                *)
Serve(c) ==
    LET r == calls[c] IN
    /\ r # Idle /\ r.status = "sent" /\ r.op \in ViewOps
    /\ \E verdict \in Verdicts(r) :
          IF verdict = "ok" THEN Execute(c, r)
          ELSE /\ calls' = [calls EXCEPT ![c].status = IF shell = "gateway" THEN "refused" ELSE "failed",
                                        ![c].arg = IF r.op \in Mutations THEN Unheard ELSE @]
               /\ UNCHANGED store
    /\ UNCHANGED <<shell, cookie, saved, tab, view>>

(* The request is lost, or the answer to one that changed something, or     *)
(* fifteen seconds pass.                                                    *)
Lose(c) ==
    /\ calls[c] # Idle
    /\ \/ calls[c].status = "sent"
       \/ calls[c].status = "ok" /\ calls[c].op \in Mutations \cup {"signout"}
    /\ calls' = [calls EXCEPT ![c].status = "failed", ![c].body = NoList, ![c].as = Nobody,
                              ![c].arg = IF calls[c].op \in Mutations THEN Unheard ELSE @]
    /\ UNCHANGED <<shell, store, cookie, saved, tab, view>>

-----------------------------------------------------------------------------
(* The mounted view, and which one the route names (workspaceRoute.ts,      *)
(* AdminApp.tsx). The collection view has no entry in the navigation and    *)
(* its route is rewritten, so that it is never mounted.                     *)

NormalSection(raw) ==
    IF raw = "collection" THEN "health" ELSE IF raw \in Sections THEN raw ELSE "tokens"

NoDialog == [op |-> "none"]
NoSample == [loading |-> FALSE, error |-> FALSE, rows |-> {}, cursor |-> Nobody]

NewView(s) ==
    IF s = "tokens"
    THEN [kind |-> s, list |-> NoList, loaded |-> FALSE, as |-> Nobody, error |-> FALSE,
          busy |-> Nobody, pending |-> {}, dialog |-> NoDialog, revealed |-> Nobody]
    ELSE IF s = "browser"
    THEN [kind |-> s, loaded |-> FALSE, selected |-> Nobody, sample |-> NoSample]
    ELSE [kind |-> s, loaded |-> FALSE]

FirstRead(s) ==
    IF s = "tokens" THEN "list" ELSE IF s = "browser" THEN "catalog" ELSE "report"

(* The view of a section is mounted for `who`, and reads what it shows.     *)
Mount(cs, t, who, s) ==
    /\ view' = [view EXCEPT ![t] = NewView(s)]
    /\ StartIn(cs, [Request(t, FirstRead(s), [after |-> "mount"]) EXCEPT !.who = who])

(* The session of a tab ends: its view unmounts, its client is disposed of. *)
Close(cs, t, phase) ==
    /\ tab' = [tab EXCEPT ![t] = [phase |-> phase, who |-> Nobody]]
    /\ view' = [view EXCEPT ![t] = NoView]
    /\ calls' = Released(cs, t, ViewOps, "aborted")

(* An item of the navigation (WorkspaceShell.tsx): one that is already      *)
(* open is not mounted again.                                               *)
Selectable(t, s) == tab[t].phase = "open" /\ view[t].kind # s

(* navigate(): another section of the navigation. *)
Navigate(t, s) ==
    /\ Selectable(t, s)
    /\ Mount(Released(calls, t, ViewOps, "orphan"), t, tab[t].who, s)
    /\ UNCHANGED <<shell, store, cookie, saved, tab>>

-----------------------------------------------------------------------------
(* The shell that runs as an account (AccountAdminRoot.tsx) *)

(* The page is loaded or shown again, or asked to verify again: the session *)
(* is dropped and a new check started; an earlier check counts no more.     *)
Recheck(t) ==
    /\ shell = "gateway"
    /\ tab' = [tab EXCEPT ![t] = [phase |-> "checking", who |-> Nobody]]
    /\ view' = [view EXCEPT ![t] = NoView]
    /\ StartIn(Released(calls, t, ViewOps \cup {"check"}, "aborted"),
               [Request(t, "check", [after |-> "load"]) EXCEPT !.who = Nobody])
    /\ UNCHANGED <<shell, store, cookie, saved>>

(* GET /api/account/me: the account, and whether its key is an admin's.     *)
ServeCheck(c) ==
    LET r == calls[c]
        admin == cookie # Nobody /\ LinkOf[cookie] \in AdminKeys /\ Usable(LinkOf[cookie])
    IN  /\ r # Idle /\ r.op = "check" /\ r.status = "sent"
        /\ calls' = [calls EXCEPT ![c].status = IF admin THEN "ok" ELSE "failed",
                                  ![c].as = cookie]
        /\ UNCHANGED <<shell, store, cookie, saved, tab, view>>

DeliverCheck(c) ==
    LET r == calls[c]
        t == r.tab
    IN  /\ r # Idle /\ r.op = "check" /\ r.status \in {"ok", "failed"} /\ r.held = "view"
        /\ IF r.status = "ok"
           THEN \E raw \in RawSections :
                  /\ tab' = [tab EXCEPT ![t] = [phase |-> "open", who |-> r.as]]
                  /\ Mount(Free(c), t, r.as, NormalSection(raw))
           ELSE Close(Free(c), t, "restricted")
        /\ UNCHANGED <<shell, store, cookie, saved>>

AskSignOut(t) ==
    /\ shell = "gateway" /\ tab[t].phase = "open" /\ ~InFlight(t, "signout")
    /\ Start(Request(t, "signout", [after |-> "click"]))
    /\ UNCHANGED <<shell, store, cookie, saved, tab, view>>

(* DELETE /api/account/session: only of the account the request names.      *)
ServeSignOut(c) ==
    LET r == calls[c] IN
    /\ r # Idle /\ r.op = "signout" /\ r.status = "sent"
    /\ IF cookie = r.who
       THEN cookie' = Nobody /\ calls' = [calls EXCEPT ![c].status = "ok"]
       ELSE UNCHANGED cookie /\ calls' = [calls EXCEPT ![c].status = "failed"]
    /\ UNCHANGED <<shell, store, saved, tab, view>>

(* Confirmed, the tab leaves for the account page; otherwise it stays.      *)
DeliverSignOut(c) ==
    LET r == calls[c] IN
    /\ r # Idle /\ r.op = "signout" /\ r.status \in {"ok", "failed"}
    /\ IF r.status = "ok"
       THEN /\ tab' = [tab EXCEPT ![r.tab] = [phase |-> "left", who |-> Nobody]]
            /\ view' = [view EXCEPT ![r.tab] = NoView]
            /\ calls' = Released(Free(c), r.tab, ViewOps \cup {"check"}, "aborted")
       ELSE calls' = Free(c) /\ UNCHANGED <<tab, view>>
    /\ UNCHANGED <<shell, store, cookie, saved>>

(* The account page of the same browser signs in or signs out. *)
SignIn(a) ==
    /\ shell = "gateway"
    /\ cookie' = a
    /\ UNCHANGED <<shell, store, saved, tab, view, calls>>

SignOutElsewhere ==
    /\ cookie # Nobody
    /\ cookie' = Nobody
    /\ UNCHANGED <<shell, store, saved, tab, view, calls>>

-----------------------------------------------------------------------------
(* The shell with a key of its own (App.tsx, Login.tsx) *)

(* The page is loaded: a saved key is tried before anything is shown.       *)
Load(t) ==
    /\ shell = "standalone"
    /\ LET cs == Released(calls, t, ViewOps \cup SessionOps, "aborted") IN
       IF saved \in Keys
       THEN /\ tab' = [tab EXCEPT ![t] = [phase |-> "booting", who |-> Nobody]]
            /\ StartIn(cs, [Request(t, "boot", [key |-> saved]) EXCEPT !.who = saved])
       ELSE /\ tab' = [tab EXCEPT ![t] = [phase |-> "login", who |-> Nobody]]
            /\ calls' = cs
    /\ view' = [view EXCEPT ![t] = NoView]
    /\ UNCHANGED <<shell, store, cookie, saved>>

Login(t, k) ==
    /\ shell = "standalone" /\ tab[t].phase = "login" /\ ~InFlight(t, "login")
    /\ Start([Request(t, "login", [key |-> k]) EXCEPT !.who = k])
    /\ UNCHANGED <<shell, store, cookie, saved, tab, view>>

(* GET /portal/api/me with the key: who it is, and whether an admin.        *)
ServeBootstrap(c) ==
    LET r == calls[c] IN
    /\ r # Idle /\ r.op \in {"boot", "login"} /\ r.status = "sent"
    /\ calls' = [calls EXCEPT ![c].status = BearerVerdict(r), ![c].as = r.who]
    /\ UNCHANGED <<shell, store, cookie, saved, tab, view>>

(* bootstrap() and what follows it: a key of no administrator clears the    *)
(* saved one; only a login that was confirmed saves its key.                *)
DeliverBootstrap(c) ==
    LET r == calls[c]
        t == r.tab
    IN  /\ r # Idle /\ r.op \in {"boot", "login"} /\ r.status # "sent" /\ r.held = "view"
        /\ IF r.status = "ok"
           THEN \E raw \in RawSections :
                  /\ tab' = [tab EXCEPT ![t] = [phase |-> "open", who |-> r.who]]
                  /\ Mount(Free(c), t, r.who, NormalSection(raw))
                  /\ saved' = IF r.op = "login" THEN r.who ELSE saved
           ELSE /\ tab' = [tab EXCEPT ![t].phase = "login"]
                /\ calls' = Free(c)
                /\ saved' = IF r.status = "forbidden" THEN Nobody ELSE saved
                /\ UNCHANGED view
        /\ UNCHANGED <<shell, store, cookie>>

(* The client is forgotten, not disposed of: its requests run on, unheard.  *)
Logout(t) ==
    /\ shell = "standalone" /\ tab[t].phase = "open"
    /\ saved' = Nobody
    /\ tab' = [tab EXCEPT ![t] = [phase |-> "login", who |-> Nobody]]
    /\ view' = [view EXCEPT ![t] = NoView]
    /\ calls' = Released(calls, t, ViewOps, "orphan")
    /\ UNCHANGED <<shell, store, cookie>>

-----------------------------------------------------------------------------
(* The list of keys (TokensView.tsx) *)

At(t, s) == tab[t].phase = "open" /\ view[t].kind = s

(* No dialog covers the page. *)
Uncovered(t) == view[t].dialog = NoDialog /\ view[t].revealed = Nobody

(* The rows shown; an error hides them. *)
Rows(t) == IF view[t].error THEN {} ELSE {k \in Keys : view[t].list[k] \in Entries}

Quiet == UNCHANGED <<shell, store, cookie, saved, tab>>

Reload(t) ==
    /\ At(t, "tokens") /\ Uncovered(t)
    /\ view' = [view EXCEPT ![t].error = FALSE]
    /\ Start(Request(t, "list", [after |-> "click"]))
    /\ Quiet

(* A switch that is turning is disabled; the view remembers only one. *)
Turnable(t, k) == view[t].busy # k

(* The switch asks for the opposite of what its row shows. *)
Toggle(t, k) ==
    /\ At(t, "tokens") /\ Uncovered(t) /\ k \in Rows(t) /\ Turnable(t, k)
    /\ view' = [view EXCEPT ![t].busy = k]
    /\ Start(Request(t, "toggle", [key |-> k, set |-> [enabled |-> ~view[t].list[k].enabled]]))
    /\ Quiet

(* buildPayload: a legacy tier may carry a limit; a blank one is left out.  *)
Payload(d) ==
    IF d.tier = "legacy" /\ d.limit
    THEN [tier |-> d.tier, limit |-> TRUE] ELSE [tier |-> d.tier]

NewForm == [op |-> "create", key |-> Nobody, tier |-> "commercial", limit |-> FALSE]

OpenCreate(t) ==
    /\ At(t, "tokens") /\ Uncovered(t)
    /\ view' = [view EXCEPT ![t].dialog = NewForm]
    /\ UNCHANGED calls /\ Quiet

OpenRow(t, op, k) ==
    /\ At(t, "tokens") /\ Uncovered(t) /\ k \in Rows(t) /\ op \in {"edit", "delete"}
    /\ view' = [view EXCEPT ![t].dialog =
           IF op = "delete" THEN [NewForm EXCEPT !.op = op, !.key = k]
           ELSE LET e == view[t].list[k] IN
                [op |-> op, key |-> k, tier |-> e.tier, limit |-> e.limit]]
    /\ UNCHANGED calls /\ Quiet

(* The limit of a legacy tier can be set or cleared. That the tier itself   *)
(* can be left for a commercial one, which drops the limit, is left out.    *)
ChangeForm(t) ==
    /\ At(t, "tokens") /\ view[t].dialog.op = "edit" /\ view[t].dialog.tier = "legacy"
    /\ view' = [view EXCEPT ![t].dialog.limit = ~@]
    /\ UNCHANGED calls /\ Quiet

CloseDialog(t) ==
    /\ At(t, "tokens") /\ ~Uncovered(t)
    /\ view' = [view EXCEPT ![t].dialog = NoDialog, ![t].revealed = Nobody]
    /\ UNCHANGED calls /\ Quiet

Submit(t) ==
    LET d == view[t].dialog IN
    /\ At(t, "tokens") /\ d # NoDialog /\ d.op \notin view[t].pending
    /\ view' = [view EXCEPT ![t].pending = @ \cup {d.op}]
    /\ Start(Request(t, d.op, [key |-> d.key, set |-> Payload(d)]))
    /\ Quiet

(* Fault: the flag of a change is not given back. *)
SettleNever(v, op) == v

(* The flag a change leaves set until the list was read again. *)
Settle(v, op) ==
    [v EXCEPT !.busy = IF op = "toggle" THEN Nobody ELSE @, !.pending = @ \ {op}]

(* The answer to a change: on success its dialog closes, a created key is   *)
(* revealed, and the list is read again; the flag waits for that read.      *)
AfterChange(c, r) ==
    LET t == r.tab IN
    IF r.status = "ok"
    THEN /\ view' = [view EXCEPT
               ![t].error = FALSE,
               ![t].dialog = IF r.op = "toggle" THEN @ ELSE IF @.op = r.op THEN NoDialog ELSE @,
               ![t].revealed = IF r.op = "create" THEN CHOOSE k \in Managed : r.body[k] \in Entries ELSE @]
         /\ calls' = [calls EXCEPT ![c] = Request(t, "list", [after |-> r.op])]
    ELSE /\ view' = [view EXCEPT ![t] = Settle(@, r.op)]
         /\ calls' = Free(c)

(* The answer to a read of the list. *)
AfterList(c, r) ==
    LET t == r.tab
        v == Settle(view[t], r.arg.after)
    IN  /\ view' = [view EXCEPT ![t] =
               IF r.status = "ok"
               THEN [v EXCEPT !.list = r.body, !.loaded = TRUE, !.as = r.as]
               ELSE [v EXCEPT !.error = TRUE]]
        /\ calls' = Free(c)

-----------------------------------------------------------------------------
(* The data browser (DataView.tsx) and the reports (UsageView, HealthView) *)

(* The catalogue is listed, and each dataset of it can be sampled. *)
CatalogueListed(t) == At(t, "browser") /\ view[t].loaded

(* The table of rows ends with "load more": not while a page is read, nor   *)
(* when an error took its place.                                            *)
MoreOffered(t) ==
    LET s == view[t].sample
    IN  At(t, "browser") /\ ~s.loading /\ ~s.error /\ s.cursor # Nobody

RunSample(t, d) ==
    /\ CatalogueListed(t)
    /\ view' = [view EXCEPT ![t].selected = d, ![t].sample = [NoSample EXCEPT !.loading = TRUE]]
    /\ Start(Request(t, "sample", [dataset |-> d, base |-> NoSample]))
    /\ Quiet

RunNextPage(t) ==
    /\ MoreOffered(t)
    /\ view' = [view EXCEPT ![t].sample.loading = TRUE]
    /\ Start(Request(t, "page", [dataset |-> view[t].selected, base |-> view[t].sample]))
    /\ Quiet

(* The rows of the answer follow those the request was made on; another     *)
(* page may follow. A failure keeps the rows and shows an error.            *)
AfterSample(c, r) ==
    /\ \E next \in {Nobody, r.arg.dataset} :
          view' = [view EXCEPT ![r.tab].sample =
              IF r.status = "ok"
              THEN [loading |-> FALSE, error |-> FALSE,
                    rows |-> r.arg.base.rows \cup {r.arg.dataset}, cursor |-> next]
              ELSE [r.arg.base EXCEPT !.loading = FALSE, !.error = TRUE]]
    /\ calls' = Free(c)

(* The catalogue or the report is shown, or an error in its place. What the *)
(* catalogue is decorated with is asked for next, and may be missing.       *)
AfterRead(c, r) ==
    /\ view' = [view EXCEPT ![r.tab].loaded = (r.op = "decoration" \/ r.status = "ok")]
    /\ calls' = IF r.op = "catalog" /\ r.status = "ok"
                THEN [calls EXCEPT ![c] = Request(r.tab, "decoration", [after |-> "mount"])]
                ELSE Free(c)

(* The answer of a view's request is delivered to its tab. A refusal ends   *)
(* the session whichever view asked, unless the client was disposed of.     *)
Deliver(c) ==
    LET r == calls[c] IN
    /\ r # Idle /\ r.op \in ViewOps /\ r.status # "sent"
    /\ IF r.held # "aborted" /\ r.status = "refused" THEN Close(Free(c), r.tab, "changed")
       ELSE /\ UNCHANGED tab
            /\ IF r.held # "view" THEN calls' = Free(c) /\ UNCHANGED view
               ELSE \/ r.op \in Mutations /\ AfterChange(c, r)
                    \/ r.op = "list" /\ AfterList(c, r)
                    \/ r.op \in {"sample", "page"} /\ AfterSample(c, r)
                    \/ r.op \in ReadOps /\ AfterRead(c, r)
    /\ UNCHANGED <<shell, store, cookie, saved>>

-----------------------------------------------------------------------------
Init ==
    /\ shell \in {"standalone", "gateway"}
    /\ store \in [Keys -> {Unissued, AdminEntry} \cup InitialEntries]
    /\ \A k \in Keys : (k \in AdminKeys) <=> (store[k] = AdminEntry)
    /\ cookie = Nobody
    /\ saved = Nobody
    /\ tab = [t \in Tabs |-> [phase |-> "left", who |-> Nobody]]
    /\ view = [t \in Tabs |-> NoView]
    /\ calls = [c \in Calls |-> Idle]

Answering(c) ==
    \/ Serve(c) \/ ServeCheck(c) \/ ServeSignOut(c) \/ ServeBootstrap(c) \/ Lose(c)

Delivering(c) ==
    \/ Deliver(c) \/ DeliverCheck(c) \/ DeliverSignOut(c) \/ DeliverBootstrap(c)

Operate(t) ==
    \/ Reload(t) \/ OpenCreate(t) \/ ChangeForm(t) \/ CloseDialog(t) \/ Submit(t)
    \/ \E k \in Managed : Toggle(t, k) \/ OpenRow(t, "edit", k) \/ OpenRow(t, "delete", k)
    \/ RunNextPage(t)
    \/ \E d \in Datasets : RunSample(t, d)

Next ==
    \/ \E c \in Calls : Answering(c) \/ Delivering(c)
    \/ \E t \in Tabs :
          \/ Operate(t)
          \/ \E s \in Sections : Navigate(t, s)
          \/ Recheck(t) \/ AskSignOut(t)
          \/ Load(t) \/ Logout(t)
          \/ \E k \in Keys : Login(t, k)
    \/ \E k \in Managed : ChangedElsewhere(k)
    \/ \E a \in Accounts : SignIn(a)
    \/ SignOutElsewhere

Spec == Init /\ [][Next]_vars

-----------------------------------------------------------------------------
(* Properties *)

TabStates == [phase: {"left", "login", "booting", "checking", "restricted", "changed", "open"},
              who: Keys \cup Accounts \cup {Nobody}]

(* A tab has a view exactly while its session is open, and a session that   *)
(* is open was confirmed for somebody.                                      *)
TypeOK ==
    /\ store \in [Keys -> Entries \cup {Unissued, Deleted}]
    /\ tab \in [Tabs -> TabStates]
    /\ saved \in Keys \cup {Nobody}
    /\ \A t \in Tabs :
          /\ (tab[t].phase = "open") <=> (view[t] # NoView)
          /\ (tab[t].phase = "open") <=> (tab[t].who # Nobody)
          /\ view[t].kind \in Sections \cup {"none"}

(* Whatever account the browser has meanwhile been signed in to from        *)
(* another page, a request is carried out, and a list shown, only as the    *)
(* account the tab shows (AccountAdminRoot.tsx:40-43, api.ts:103,           *)
(* account-continuity.js:225).                                              *)
ActsAsShown ==
    /\ \A c \in Calls : (calls[c] # Idle /\ calls[c].op \in ViewOps /\ calls[c].status = "ok")
                        => calls[c].as = calls[c].who
    /\ \A t \in Tabs : (At(t, "tokens") /\ view[t].loaded) => view[t].as = tab[t].who

(* A paused key is resumed only by the switch of an operator whose list     *)
(* showed it paused; saving a dialog that was opened before the pause never *)
(* resumes it (TokensView.tsx:90-110, 158-171).                             *)
ResumedOnPurpose ==
    [][\A k \in Keys :
        (store[k] \in Entries /\ ~store[k].enabled /\ store'[k] \in Entries /\ store'[k].enabled)
        => \E c \in Calls : /\ calls[c] # Idle /\ calls[c].op = "toggle" /\ calls[c].status = "sent"
                            /\ calls[c].arg.key = k
                            /\ calls[c].arg.set.enabled]_vars

(* However the answers of samples and further pages interleave, the rows of *)
(* a table are those of one dataset (DataView.tsx:109-168).                 *)
SamplesAreNotMixed ==
    \A t \in Tabs : At(t, "browser") => Cardinality(view[t].sample.rows) <= 1

(* What is shown, and what is done, is of one account and one dataset.      *)
ConsoleIsTruthful == ActsAsShown /\ SamplesAreNotMixed

(* A button that says it is saving, creating or deleting, and a switch that *)
(* is turning, wait for a request or for the list read after it: no lost    *)
(* answer, timeout or failed read leaves one disabled for good              *)
(* (TokensView.tsx:158-228).                                                *)
ButtonsComeBack ==
    \A t \in Tabs : At(t, "tokens") =>
        LET waited == view[t].pending \cup (IF view[t].busy = Nobody THEN {} ELSE {"toggle"}) IN
        \A op \in waited : \E c \in Calls :
            /\ calls[c] # Idle /\ calls[c].tab = t /\ calls[c].held = "view"
            /\ \/ calls[c].op = op
               \/ calls[c].op = "list" /\ calls[c].arg.after = op

(* What the edit dialog says: a limit cleared and saved is lifted           *)
(* (TokensView.tsx:413).                                                    *)
ClearedLimitIsLifted ==
    [][\A c \in Calls :
        (/\ calls[c] # Idle /\ calls[c].op = "edit" /\ calls[c].status = "sent"
         /\ calls'[c] # Idle /\ calls'[c].status = "ok"
         /\ calls[c].arg.set.tier = "legacy" /\ "limit" \notin DOMAIN calls[c].arg.set)
        => ~store'[calls[c].arg.key].limit]_vars
=============================================================================

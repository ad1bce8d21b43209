---------------------------- MODULE AccountPage ----------------------------
(***************************************************************************)
(* The account machine of the public page (public-web/src/App.jsx with     *)
(* accountSession.js): what the page shows of the signed-in account, the   *)
(* requests it has in flight and the effects that follow a render.         *)
(*                                                                         *)
(* The browser holds one session cookie that every tab shares, so another  *)
(* tab may change the account under this one. The Worker serves a request  *)
(* in one step here (EmailIdentity and AccountConnection are about what    *)
(* goes on inside it). A read and a key operation are served at one time   *)
(* and answered at another, or never; sign-in, sign-out, deletion and the  *)
(* change of the connection are served when they end, for the page reads   *)
(* the account again after them, and their answer may be lost. Each        *)
(* request of the page is cut off by a timer.                              *)
(*                                                                         *)
(* The epoch counter and the abort controllers of the page are what they   *)
(* do: a bump of the counter drops the reads in flight and makes a key     *)
(* operation old. Which page of the site is open is left out (Site): the   *)
(* sign-in forms are offered to a page without an account, the account     *)
(* pages to one that shows it.                                             *)
(***************************************************************************)
EXTENDS FiniteSets

CONSTANTS
    Users,       \* e-mail accounts: their requests carry X-TD-Identity
    Tenants,     \* access-key sessions, which have no user id
    Nobody

PageAssumption == Users \cap Tenants = {} /\ Nobody \notin Users \cup Tenants

Identities == Users \cup Tenants

VARIABLES
    cookie,      \* the identity the browser's cookies prove, or Nobody (external)
    visible,
    view,        \* what clearAccountView clears
    error,       \* accountError: unavailable, or none (an invalid key is a signed-out view)
    deferred,    \* accountVisibilityRefreshPending
    me,          \* the read of the identity, then of its usage
    keysRead,    \* the read of the keys
    login,       \* accountLoginInFlight: sign-in, or a change of the connection
    signOut,     \* accountSignOutInFlight: sign-out, or deletion of the account
    key,         \* accountKeyInFlight: a key created or disabled
    left,        \* history: the cookie changed since the identity held was read
    stale        \* history: the page was out of view since it was read

reads == <<me, keysRead>>
operations == <<login, signOut, key>>
page == <<view, error, deferred>>
vars == <<cookie, visible, page, reads, operations, left, stale>>

NoAccount == [id |-> Nobody, connected |-> FALSE]

Blank == [loading |-> FALSE, data |-> NoAccount, usage |-> Nobody, keys |-> {},
          keysLoading |-> FALSE, secret |-> Nobody, keyLoading |-> FALSE]

Idle == [kind |-> "idle"]
NotServed == [kind |-> "none"]
Says(what) == [kind |-> what]

(* A read, or a key operation, of the account the page shows. *)
Ask(what) == [kind |-> what, answer |-> NotServed]

(* An operation begun before a bump of the epoch: whatever its answer, the  *)
(* page shows nothing of it.                                                *)
Old(op) == IF op = Idle THEN Idle ELSE [kind |-> "old"]

(* getAccountViewState *)
ViewState(v, e) ==
    CASE v.loading -> "checking"
      [] ~v.loading /\ v.data.id # Nobody -> "authenticated"
      [] ~v.loading /\ v.data.id = Nobody /\ e = "none" -> "signed_out"
      [] OTHER -> "unavailable"

Authenticated == ViewState(view, error) = "authenticated"

(* What the page renders for a section of the account: an e-mail account    *)
(* has its own panel for its security, and for every section while it has   *)
(* no connection.                                                           *)
Panel(section) ==
    CASE view.data.id = Nobody -> "gate"
      [] view.data.id # Nobody /\ view.loading -> "checking"
      [] Authenticated /\ view.data.id \in Users
             /\ (~view.data.connected \/ section = "security") -> "email"
      [] OTHER -> section

(* LoginPage: a form can be sent when nothing is being checked. The page    *)
(* leaves it once it shows an account.                                      *)
SignInOffered == ~view.loading /\ ~Authenticated

(* AccountConnection and EmailAccountPanel are parts of an e-mail account's *)
(* pages. Both refuse to start during a sign-in, a sign-out or each other.  *)
ConnectionOffered ==
    /\ Authenticated /\ view.data.id \in Users
    /\ login = Idle /\ signOut = Idle

DeletionOffered ==
    /\ Panel("security") = "email"
    /\ login = Idle /\ signOut = Idle

Init ==
    /\ cookie \in {Nobody} \cup Identities
    /\ visible = TRUE
    /\ view = [Blank EXCEPT !.loading = TRUE]
    /\ me = Ask("identity")
    /\ keysRead = Idle
    /\ error = "none" /\ deferred = FALSE
    /\ login = Idle /\ signOut = Idle /\ key = Idle
    /\ left = FALSE /\ stale = FALSE

-----------------------------------------------------------------------------
(* Effects *)

(* clearAccountView: the view is empty and every read is dropped. *)
ClearView ==
    /\ view' = Blank
    /\ me' = Idle /\ keysRead' = Idle

(* The read effect, run for a new revision: it clears and reads again. *)
Reread ==
    /\ view' = [Blank EXCEPT !.loading = TRUE]
    /\ error' = "none"
    /\ me' = Ask("identity") /\ keysRead' = Idle

(* requestAccountProjectionRefresh *)
Refresh == Reread /\ deferred' = FALSE

(* The same, as a bump of the epoch. *)
Renew == Refresh /\ key' = Old(key)

(* settleAccountOperation, when op ends and the others are those: a refresh *)
(* that was put off is due.                                                 *)
Due(others) == deferred /\ visible /\ \A op \in others : op = Idle

-----------------------------------------------------------------------------
(* The reads of the page *)

(* Email accounts without a connection have neither usage nor keys. *)
HasData(account) == account.id \in Tenants \/ account.connected

ShowAccount(account) ==
    /\ view' = [view EXCEPT !.data = account, !.loading = FALSE, !.keys = {},
                            !.keysLoading = HasData(account)]
    /\ me' = IF HasData(account) THEN Ask("usage") ELSE Idle
    /\ keysRead' = IF HasData(account) THEN Ask("keys") ELSE Idle
    /\ UNCHANGED error

(* The answer a request brought back, or what its timer makes of none. *)
Answers(request) ==
    (IF request.answer = NotServed THEN {} ELSE {request.answer}) \cup {Says("unavailable")}

ReadIdentityEnds ==
    /\ me.kind = "identity"
    /\ \E a \in Answers(me) :
        \/ a.kind = "account" /\ ShowAccount([id |-> a.id, connected |-> a.connected])
        \/ /\ a.kind = "signed_out"
           /\ ClearView /\ error' = "none"
        \/ /\ a.kind = "unavailable"
           /\ ClearView /\ error' = "unavailable"
    /\ UNCHANGED <<cookie, visible, deferred, operations>>

(* A failed read of the usage is no answer about the identity. *)
ReadUsageEnds ==
    /\ me.kind = "usage"
    /\ \E a \in Answers(me) :
        \/ /\ a.kind \in {"served", "unavailable"}
           /\ view' = [view EXCEPT !.usage = IF a.kind = "served" THEN a.id ELSE Nobody]
           /\ me' = Idle
           /\ UNCHANGED <<error, deferred, keysRead, key>>
        \/ /\ a.kind = "signed_out"
           /\ ClearView /\ key' = Old(key)
           /\ UNCHANGED <<error, deferred>>
        \/ /\ a.kind = "changed"
           /\ Renew
    /\ UNCHANGED <<cookie, visible, login, signOut>>

ReadKeysEnds ==
    /\ keysRead.kind = "keys"
    /\ \E a \in Answers(keysRead) :
        \/ /\ a.kind \in {"served", "unavailable"}
           /\ view' = [view EXCEPT !.keysLoading = FALSE,
                                   !.keys = IF a.kind = "served" THEN {a.id} ELSE @]
           /\ keysRead' = Idle
           /\ UNCHANGED <<error, deferred, me, key>>
        \/ /\ a.kind = "signed_out"
           /\ ClearView /\ key' = Old(key)
           /\ UNCHANGED <<error, deferred>>
        \/ /\ a.kind = "changed"
           /\ Renew
    /\ UNCHANGED <<cookie, visible, login, signOut>>

-----------------------------------------------------------------------------
(* The service: one step per request, for whoever the cookie proves. *)

(* GET /api/account/me *)
ServeIdentity ==
    /\ me.kind = "identity" /\ me.answer = NotServed
    /\ \E connected \in IF cookie \in Users THEN BOOLEAN ELSE {FALSE} :
        me' = [me EXCEPT !.answer =
            IF cookie = Nobody THEN Says("signed_out")
            ELSE [kind |-> "account", id |-> cookie, connected |-> connected]]
    /\ UNCHANGED <<cookie, visible, page, keysRead, operations>>

(* Fault: the identity the page expects is not compared. *)
AnyAnswers(expected) ==
    IF cookie = Nobody THEN {Says("signed_out")}
    ELSE {[kind |-> "served", id |-> cookie], Says("changed")}

(* Usage and keys are served to the account the page expects, if it is an   *)
(* e-mail account (a connection replaced meanwhile is a changed identity    *)
(* too). An access-key session is served whatever the page expects. (A      *)
(* refusal is to the page what no answer is.)                               *)
PortalAnswers(expected) ==
    CASE cookie = Nobody -> {Says("signed_out")}
      [] cookie \in Users /\ cookie # expected -> {Says("changed")}
      [] cookie \in Users /\ cookie = expected ->
             {[kind |-> "served", id |-> cookie], Says("changed")}
      [] OTHER -> {[kind |-> "served", id |-> cookie]}

ServeUsage ==
    /\ me.kind = "usage" /\ me.answer = NotServed
    /\ \E a \in PortalAnswers(view.data.id) : me' = [me EXCEPT !.answer = a]
    /\ UNCHANGED <<cookie, visible, page, keysRead, operations>>

ServeKeys ==
    /\ keysRead.kind = "keys" /\ keysRead.answer = NotServed
    /\ \E a \in PortalAnswers(view.data.id) : keysRead' = [keysRead EXCEPT !.answer = a]
    /\ UNCHANGED <<cookie, visible, page, me, operations>>

ServeKeyOperation ==
    /\ key.kind \in {"create", "disable"} /\ key.answer = NotServed
    /\ \E a \in PortalAnswers(view.data.id) : key' = [key EXCEPT !.answer = a]
    /\ UNCHANGED <<cookie, visible, page, reads, login, signOut>>

(* Another tab signs in or out, or the session ends. *)
OtherTab(id) ==
    /\ id # cookie
    /\ cookie' = id
    /\ UNCHANGED <<visible, page, reads, operations>>

-----------------------------------------------------------------------------
(* Sign-in *)

(* connectAccount and connectEmailAccount: the reads are given up first. *)
BeginSignIn(kind, id) ==
    /\ SignInOffered /\ login = Idle /\ signOut = Idle
    /\ login' = [kind |-> kind, for |-> id]
    /\ view' = [view EXCEPT !.loading = TRUE]
    /\ error' = "none"
    /\ me' = Idle /\ keysRead' = Idle /\ key' = Old(key)
    /\ UNCHANGED <<cookie, visible, deferred, signOut>>

(* POST /api/account/session: an e-mail session must sign out before a key  *)
(* opens one. POST /api/account/email/verify opens one whatever the cookie  *)
(* is.                                                                      *)
Admits(request) == request.kind = "email" \/ cookie \notin Users

(* The new account is read again at once. *)
SignedIn ==
    /\ login.kind \in {"key", "email"} /\ Admits(login)
    /\ cookie' = login.for
    /\ Renew
    /\ login' = Idle
    /\ UNCHANGED <<visible, signOut>>

(* Refused, or not answered; the session may be open all the same. For a    *)
(* key the page shows the error, for a code the form does.                  *)
SignInFails ==
    /\ login.kind \in {"key", "email"}
    /\ cookie' \in {cookie} \cup (IF Admits(login) THEN {login.for} ELSE {})
    /\ IF Due({signOut, key}) THEN Renew
       ELSE /\ view' = [view EXCEPT !.loading = FALSE]
            /\ error' \in IF login.kind = "key" THEN {"none", "unavailable"} ELSE {"none"}
            /\ UNCHANGED <<reads, key, deferred>>
    /\ login' = Idle
    /\ UNCHANGED <<visible, signOut>>

-----------------------------------------------------------------------------
(* The account pages *)

(* changeDataConnection *)
BeginConnection ==
    /\ ConnectionOffered
    /\ login' = [kind |-> "connection"]
    /\ UNCHANGED <<cookie, visible, page, reads, signOut, key>>

(* Fault: the refresh that was put off is forgotten. *)
SettleOnly(others) == UNCHANGED <<view, error, deferred, reads, key>>

(* What an operation leaves that changed nothing the page shows. *)
Settle(others) ==
    IF Due(others) THEN Renew ELSE UNCHANGED <<view, error, deferred, reads, key>>

(* Done or refused to a changed identity, the account is read again; refused *)
(* otherwise, it is not.                                                    *)
ConnectionEnds ==
    /\ login.kind = "connection"
    /\ \/ cookie \in Users /\ Renew
       \/ Settle({signOut, key})
    /\ login' = Idle
    /\ UNCHANGED <<cookie, visible, signOut>>

(* disconnectAccount *)
BeginSignOut ==
    /\ Authenticated /\ signOut = Idle
    /\ signOut' = [kind |-> "signout", for |-> view.data.id]
    /\ UNCHANGED <<cookie, visible, page, reads, login, key>>

(* Fault: a sign-out that was not confirmed is taken for one. *)
SignOutAssumed ==
    /\ signOut.kind = "signout"
    /\ Renew
    /\ signOut' = Idle
    /\ UNCHANGED <<cookie, visible, login>>

(* The Worker compares the identity only when the cookie is an e-mail       *)
(* session's.                                                               *)
Foreign == cookie \in Users /\ cookie # signOut.for

(* confirmAccountSignOut: the cookie of any other session is cleared too,   *)
(* but the answer then names nobody, which confirms only a page that shows  *)
(* a tenant.                                                                *)
Confirmed == ~Foreign /\ (cookie = signOut.for \/ signOut.for \in Tenants)

(* requestProfileDeletion: the receipt names the account of the page. *)
Accepted == cookie = signOut.for

(* A sign-out that is not confirmed leaves the page as it is, with an       *)
(* error.                                                                   *)
SignOutEnds ==
    /\ signOut.kind = "signout"
    /\ \/ Foreign /\ Renew /\ UNCHANGED cookie
       \/ Confirmed /\ cookie' = Nobody /\ Renew
       \/ /\ cookie' \in {cookie} \cup (IF Foreign THEN {} ELSE {Nobody})
          /\ Settle({login, key})
    /\ signOut' = Idle
    /\ UNCHANGED <<visible, login>>

(* deleteEmailProfile: the reads are dropped, the view is not. *)
BeginDeletion ==
    /\ DeletionOffered
    /\ signOut' = [kind |-> "deletion", for |-> view.data.id]
    /\ me' = Idle /\ keysRead' = Idle /\ key' = Old(key)
    /\ UNCHANGED <<cookie, visible, page, login>>

(* POST /api/account/profile/deletion is accepted for the session's own     *)
(* account, if it is recent.                                                *)
DeletionEnds ==
    /\ signOut.kind = "deletion"
    /\ \/ /\ Accepted /\ cookie' = Nobody
          /\ IF Due({login, key}) THEN Renew
             ELSE /\ ClearView /\ error' = "none" /\ key' = Old(key)
                  /\ UNCHANGED deferred
       \/ Foreign /\ Renew /\ UNCHANGED cookie
       \/ /\ cookie' \in {cookie, Nobody} /\ (cookie' = cookie \/ Accepted)
          /\ Settle({login, key})
    /\ signOut' = Idle
    /\ UNCHANGED <<visible, login>>

(* createAccountKey and disableAccountKey (not of the current key). The     *)
(* buttons are disabled while keyLoading.                                   *)
BeginKeyOperation(kind) ==
    /\ Panel("keys") = "keys"
    /\ signOut = Idle /\ key = Idle /\ ~view.keyLoading
    /\ kind = "disable" => view.keys # {}
    /\ key' = Ask(kind)
    /\ view' = [view EXCEPT !.keyLoading = TRUE,
                            !.secret = IF kind = "create" THEN Nobody ELSE @]
    /\ UNCHANGED <<cookie, visible, error,
                   deferred, reads, login, signOut>>

(* Fault: the loading mark of a failed key operation is not taken back. *)
KeyFailureKeepsLoading(a) ==
    view' = [view EXCEPT !.keyLoading = (a.kind = "unavailable"),
                         !.keys = IF key.kind = "create" /\ a.kind = "served"
                                  THEN @ \cup {a.id} ELSE @,
                         !.secret = IF key.kind = "create" /\ a.kind = "served"
                                    THEN a.id ELSE @]

(* The created key joins the list and its secret is shown, once. *)
KeyOperationShown(a) ==
    view' = [view EXCEPT !.keyLoading = FALSE,
                         !.keys = IF key.kind = "create" /\ a.kind = "served"
                                  THEN @ \cup {a.id} ELSE @,
                         !.secret = IF key.kind = "create" /\ a.kind = "served"
                                    THEN a.id ELSE @]

(* A refresh that was put off clears what was shown. *)
KeyOperationEnds ==
    /\ key.kind \in {"create", "disable"}
    /\ \E a \in Answers(key) :
        IF Due({login, signOut}) \/ a.kind = "changed" THEN Refresh
        ELSE \/ a.kind = "signed_out" /\ ClearView /\ UNCHANGED <<error, deferred>>
             \/ /\ a.kind \in {"served", "unavailable"}
                /\ KeyOperationShown(a) /\ UNCHANGED <<error, deferred, reads>>
    /\ key' = Idle
    /\ UNCHANGED <<cookie, visible, login, signOut>>

OldKeyOperationEnds ==
    /\ key.kind = "old"
    /\ IF Due({login, signOut}) THEN Refresh ELSE UNCHANGED <<view, error, deferred, reads>>
    /\ key' = Idle
    /\ UNCHANGED <<cookie, visible, login, signOut>>

-----------------------------------------------------------------------------
(* Navigation and attention *)

(* Leaving the section of the keys hides the secret. *)
OpenSection ==
    /\ view.secret # Nobody
    /\ view' = [view EXCEPT !.secret = Nobody]
    /\ UNCHANGED <<cookie, visible, error,
                   deferred, reads, operations>>

Hide ==
    /\ visible /\ visible' = FALSE
    /\ UNCHANGED <<cookie, page, reads, operations>>

(* A page that comes back reads the account again, after the operation in   *)
(* flight if there is one.                                                  *)
ComeBack ==
    /\ ~visible /\ visible' = TRUE
    /\ IF \E op \in {login, signOut, key} : op # Idle
       THEN deferred' = TRUE /\ UNCHANGED <<view, error, reads, key>>
       ELSE Renew
    /\ UNCHANGED <<cookie, login, signOut, left>>

(* The page offers another try when the account or its usage could not be   *)
(* read, and when an e-mail account's connection could not.                 *)
Retry ==
    /\ me = Idle
    /\ \/ ViewState(view, error) = "unavailable"
       \/ Authenticated /\ view.usage = Nobody
    /\ Reread /\ key' = Old(key)
    /\ UNCHANGED <<deferred>>
    /\ UNCHANGED <<cookie, visible, login, signOut>>

-----------------------------------------------------------------------------
Service == \/ ServeIdentity \/ ServeUsage \/ ServeKeys \/ ServeKeyOperation
           \/ \E id \in Identities \cup {Nobody} : OtherTab(id)

MeEnds == ReadIdentityEnds \/ ReadUsageEnds
LoginEnds == SignedIn \/ SignInFails \/ ConnectionEnds
ExitEnds == SignOutEnds \/ DeletionEnds
KeyEnds == KeyOperationEnds \/ OldKeyOperationEnds

User ==
    \/ /\ visible
       /\ \/ \E t \in Tenants : BeginSignIn("key", t)
          \/ \E u \in Users : BeginSignIn("email", u)
          \/ BeginConnection \/ BeginSignOut \/ BeginDeletion
          \/ \E kind \in {"create", "disable"} : BeginKeyOperation(kind)
          \/ OpenSection \/ Retry
    \/ Hide \/ ComeBack

Step == Service \/ MeEnds \/ ReadKeysEnds \/ LoginEnds \/ ExitEnds \/ KeyEnds \/ User

(* The page holds an identity that was read, or is about to. *)
Held == view.data.id # Nobody \/ (me # Idle /\ me.answer.kind = "account")

Recorded ==
    /\ left'  = (Held /\ Held' /\ (left \/ cookie' # cookie))
    /\ stale' = (Held /\ Held' /\ (stale \/ visible' # visible))

Next == Step /\ Recorded

Spec == Init /\ [][Next]_vars

(* Every request of the page ends, by its answer or by its timer            *)
(* (accountSession.js:18, 97).                                              *)
FairSpec ==
    /\ Spec
    /\ WF_vars(MeEnds /\ Recorded) /\ WF_vars(ReadKeysEnds /\ Recorded)
    /\ WF_vars(LoginEnds /\ Recorded) /\ WF_vars(ExitEnds /\ Recorded)
    /\ WF_vars(KeyEnds /\ Recorded)

-----------------------------------------------------------------------------
(* Properties *)

Owners == (view.keys \cup {view.usage, view.secret}) \ {Nobody}

(* What the service gave to an e-mail account (its usage, its keys, the     *)
(* secret of a new key) is shown under that account only, whoever signs in  *)
(* in other tabs while the requests are out (App.jsx:717-730, 760-825,      *)
(* 928-957). (An access-key session is served whatever the page expects:    *)
(* its rows are not in this claim.)                                         *)
OneAccountShown == Owners \cap Users \subseteq {view.data.id}

(* A page that came back into view shows an account read before that only   *)
(* while an operation is in flight, and the refresh is then owed            *)
(* (App.jsx:705-715, 835-847).                                              *)
RefreshIsNotLost ==
    (visible /\ stale /\ view.data.id # Nobody) =>
        (deferred /\ \E op \in {login, signOut, key} : op # Idle)

(* The page follows the account of the browser.                             *)
PageFollowsAccount == OneAccountShown /\ RefreshIsNotLost

(* A page that shows an account drops it for a signed-out view, or at the   *)
(* end of a sign-out or a deletion, only if the browser no longer has that  *)
(* session: an unreachable service or a failed sign-out is no sign-out      *)
(* (accountSession.js:1-2, 94; App.jsx:784-795, 889-908).                   *)
SignOutIsConfirmed ==
    [][(/\ view.data.id # Nobody /\ view'.data.id = Nobody
        /\ \/ ViewState(view', error') = "signed_out"
           \/ signOut # Idle /\ signOut' = Idle /\ signOut.for = view.data.id /\ ~deferred)
        => left \/ cookie' # cookie]_vars

(* A visible page does not stay in a loading state: not for the account,    *)
(* and not for keys that are being read or changed. A deletion drops the    *)
(* reads without clearing the page; when it is refused the page does stay   *)
(* so, and is the exception (App.jsx:738-752, 801-823, 952-956).            *)
NothingHangs ==
    /\ view.loading ~> (~view.loading \/ ~visible)
    /\ (view.keysLoading /\ keysRead # Idle)
           ~> (~view.keysLoading \/ signOut.kind = "deletion")
    /\ (view.keyLoading /\ key.kind \in {"create", "disable"})
           ~> (~view.keyLoading \/ signOut.kind = "deletion")
=============================================================================

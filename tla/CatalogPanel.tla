---------------------------- MODULE CatalogPanel ----------------------------
(***************************************************************************)
(* The catalogue a page shows to an account (public-web/src/                *)
(* CatalogEvidence.jsx with catalogEvidence.js): the rows the service       *)
(* authorizes for the account, kept with the account they were read for.    *)
(*                                                                         *)
(* Of the account machine (AccountPage) only what the panel is given is     *)
(* here: the account, whether it is being checked, whether the check        *)
(* failed. Every reading of the account gives it a reference of its own. A  *)
(* request carries the cookie of the time it is sent, which another tab may *)
(* have changed, and the name of the account the page shows. The Worker     *)
(* answers in one step (AccountConnection is about the steps of an e-mail   *)
(* account's; an access key's two requests use one key). Rows are named     *)
(* for the identity that authorized them.                                   *)
(***************************************************************************)
EXTENDS Naturals

CONSTANTS
    Users,      \* e-mail accounts
    Tenants,    \* of access-key sessions
    Nobody

PanelAssumption == Users \cap Tenants = {} /\ Nobody \notin Users \cup Tenants

VARIABLES
    jar,        \* whose session the cookies are (external)
    account,    \* accountData
    checking,   \* accountLoading
    failed,     \* an accountError that is not a sign-out
    active,     \* a page with the catalogue is open
    snapshot,
    call        \* GET /api/account/catalog

vars == <<jar, account, checking, failed, active, snapshot, call>>

(* data is data_access_state; an access key needs none. *)
NoAccount == [id |-> Nobody, data |-> "none", ref |-> 0]
NoSnapshot == [ref |-> 0, status |-> "none", rows |-> Nobody, recheck |-> FALSE]
Idle == [at |-> "idle"]

References == 1..2

HasAccess(a) == a.id \in Tenants \/ (a.id \in Users /\ a.data = "connected")

(* catalogView *)
View ==
    CASE ~active -> "inactive"
      [] active /\ checking -> "loading"
      [] active /\ ~checking /\ account = NoAccount -> IF failed THEN "error" ELSE "guest"
      [] active /\ ~checking /\ account.id \in Users /\ account.data = "unavailable" -> "error"
      [] active /\ ~checking /\ account.id \in Users /\ account.data = "none" -> "unconnected"
      [] OTHER -> IF snapshot.ref = account.ref THEN snapshot.status ELSE "loading"

(* Fault: a snapshot of the same account is not read again.                 *)
ReadsFault ==
    IF active' /\ ~checking' /\ HasAccess(account') /\ snapshot.rows # account'.id
    THEN /\ snapshot' = [ref |-> account'.ref, status |-> "loading", rows |-> Nobody,
                         recheck |-> FALSE]
         /\ call' = [at |-> "sent", by |-> jar', expected |-> account'.id]
    ELSE UNCHANGED snapshot /\ call' = Idle

(* The effect of CatalogProvider, when the account, the check, the page or  *)
(* the attempt changes: the request in flight is aborted, and another sent. *)
Reads ==
    IF active' /\ ~checking' /\ HasAccess(account')
    THEN /\ snapshot' = [ref |-> account'.ref, status |-> "loading", rows |-> Nobody,
                         recheck |-> FALSE]
         /\ call' = [at |-> "sent", by |-> jar', expected |-> account'.id]
    ELSE UNCHANGED snapshot /\ call' = Idle

Init ==
    /\ jar \in {Nobody} \cup Users \cup Tenants
    /\ account = NoAccount /\ checking = TRUE /\ failed = FALSE
    /\ active \in BOOLEAN
    /\ snapshot = NoSnapshot /\ call = Idle

-----------------------------------------------------------------------------
(* What the page and other tabs do *)

OtherTab(id) ==
    /\ id # jar
    /\ jar' = id
    /\ UNCHANGED <<account, checking, failed, active, snapshot, call>>

(* The account is checked, or a form of the sign-in sent. *)
Check ==
    /\ ~checking
    /\ account' = NoAccount /\ checking' = TRUE /\ failed' = FALSE
    /\ UNCHANGED <<jar, active>> /\ Reads

(* A reference is unlike that of the snapshot.                              *)
Identified ==
    /\ checking /\ checking' = FALSE
    /\ \/ /\ jar \in Users \cup Tenants
          /\ \E data \in IF jar \in Users THEN {"connected", "none", "unavailable"} ELSE {"none"} :
                account' = [id |-> jar, data |-> data,
                            ref |-> CHOOSE r \in References : r # snapshot.ref]
          /\ failed' = FALSE
       \/ /\ account' = NoAccount
          /\ failed' \in IF jar = Nobody THEN BOOLEAN ELSE {TRUE}
    /\ UNCHANGED <<jar, active>> /\ Reads

(* Another request of the page was told that the session is over.           *)
Cleared ==
    /\ account # NoAccount
    /\ account' = NoAccount
    /\ UNCHANGED <<jar, checking, failed, active>> /\ Reads

Navigate ==
    /\ active' = ~active
    /\ UNCHANGED <<jar, account, checking, failed>> /\ Reads

(* retryCatalog, after an error or to refresh the rows: the account is      *)
(* checked again when it is in doubt.                                       *)
Retry ==
    /\ View \in {"error", "ready"}
    /\ IF account = NoAccount \/ snapshot.recheck
             \/ (account.id \in Users /\ account.data = "unavailable")
       THEN account' = NoAccount /\ checking' = TRUE /\ failed' = FALSE
       ELSE UNCHANGED <<account, checking, failed>>
    /\ UNCHANGED <<jar, active>> /\ Reads

-----------------------------------------------------------------------------
(* The Worker *)

(* Fault: the account that is expected is not compared.                     *)
AuthorizesFault(request) == request.by # Nobody

(* identityMatches for an e-mail account; for an access key the tenant that *)
(* the data API names.                                                      *)
Authorizes(request) == request.by # Nobody /\ request.by = request.expected

(* A refusal is about the account or not; a failure of the data API is not. *)
Serve ==
    /\ call.at = "sent"
    /\ \/ Authorizes(call) /\ call' = [at |-> "served", rows |-> call.by]
       \/ \E recheck \in IF Authorizes(call) THEN BOOLEAN ELSE {TRUE} :
             call' = [at |-> "refused", recheck |-> recheck]
    /\ UNCHANGED <<jar, account, checking, failed, active, snapshot>>

(* The answer, or the end of the timer. *)
End ==
    /\ call # Idle
    /\ \/ call.at = "served" /\ snapshot' = [snapshot EXCEPT !.status = "ready", !.rows = call.rows]
       \/ call.at = "refused" /\ snapshot' = [snapshot EXCEPT !.status = "error",
                                                             !.recheck = call.recheck]
       \/ snapshot' = [snapshot EXCEPT !.status = "error"]
    /\ call' = Idle
    /\ UNCHANGED <<jar, account, checking, failed, active>>

Next ==
    \/ \E id \in {Nobody} \cup Users \cup Tenants : OtherTab(id)
    \/ Check \/ Identified \/ Cleared \/ Navigate \/ Retry \/ Serve \/ End

Spec == Init /\ [][Next]_vars

-----------------------------------------------------------------------------
(* Properties *)

(* The rows shown were authorized for the account that is shown, although   *)
(* other tabs change the session between the reading of the account, the    *)
(* request and its answer; and a panel that says it is loading waits for    *)
(* something, a check or a request: no change of the account or of the page *)
(* leaves it loading for good (catalogEvidence.js:55).                      *)
CatalogFollowsAccount ==
    /\ View = "ready" => snapshot.rows = account.id
    /\ View = "loading" => checking \/ call # Idle
=============================================================================

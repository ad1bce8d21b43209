------------------------- MODULE AccountConnection -------------------------
(***************************************************************************)
(* The data connection of an account (public-web/worker/account-          *)
(* continuity.js): a signed-in browser links one access key, verified with *)
(* the data API, to its account; the Worker keeps it sealed in a D1 row    *)
(* and forwards catalogue, usage, key and admin requests with it.          *)
(*                                                                         *)
(* Each D1 statement and each request to the data API is a step. Between   *)
(* them sessions end, accounts are disabled, keys are revoked, connections *)
(* are removed and made again, and the invocation may die. A request keeps *)
(* the session and the sealed box it read at its beginning.                *)
(*                                                                         *)
(* Rates, the forms of the requests and the projection of the answers are  *)
(* left out. A sealed box is never equal to another one, whatever key it   *)
(* holds: each is sealed under a random vector.                            *)
(***************************************************************************)
EXTENDS Integers, FiniteSets

CONSTANTS
    Users, Sessions, UserOf,     \* accounts, browser sessions, whose session
    Keys, Tenants, TenantOf,     \* access keys and the tenant of each
    Boxes,                       \* sealed envelopes, used once each
    Linkers, Forwarders          \* requests handled at the same time

(* The schema's references: a session is of an account, a key of a tenant.  *)
ConnectionAssumption == UserOf \in [Sessions -> Users] /\ TenantOf \in [Keys -> Tenants]

NoConnection == [box |-> "none"]
Idle == [pc |-> "idle"]

VARIABLES
    sessions,     \* what the identity store says of each session
    disabled,     \* users whose deletion was accepted
    revoked,      \* access keys the data API no longer accepts (external)
    connections,  \* account_connections, by user
    sealed,       \* the envelopes used so far
    linker,       \* POST /api/account/connection in flight
    forwarder,    \* forwarded requests in flight
    gone          \* history: forwarded requests whose row or authority went away

vars == <<sessions, disabled, revoked, connections, sealed, linker, forwarder, gone>>
identity == <<sessions, disabled>>

Init ==
    /\ sessions = [s \in Sessions |-> "fresh"]
    /\ disabled = {}
    /\ revoked = {}
    /\ connections = [u \in Users |-> NoConnection]
    /\ sealed = {}
    /\ linker = [l \in Linkers |-> Idle]
    /\ forwarder = [f \in Forwarders |-> Idle]
    /\ gone = {}

(* The subquery every statement repeats. *)
Authorized(s) == sessions[s] # "ended" /\ UserOf[s] \notin disabled

(* The same, of a session signed in during the last ten minutes. *)
Recent(s) == sessions[s] = "fresh" /\ UserOf[s] \notin disabled

Connected(u) == connections[u] # NoConnection

(* The next envelope. (Which one is of no account; one at a time is enough.) *)
FreshBox == IF sealed = Boxes THEN {} ELSE {CHOOSE b \in Boxes : b \notin sealed}

-----------------------------------------------------------------------------
(* What happens in the identity store and at the data API. *)

(* A session ages past the ten minutes, or ends. *)
Age(s) ==
    /\ sessions[s] = "fresh"
    /\ sessions' = [sessions EXCEPT ![s] = "old"]
    /\ UNCHANGED <<disabled, revoked, connections, sealed, linker, forwarder>>

EndSession(s) ==
    /\ sessions[s] # "ended"
    /\ sessions' = [sessions EXCEPT ![s] = "ended"]
    /\ UNCHANGED <<disabled, revoked, connections, sealed, linker, forwarder>>

(* A new session. (It takes the name of an ended one no request carries.)   *)
SignIn(s) ==
    /\ sessions[s] = "ended" /\ UserOf[s] \notin disabled
    /\ \A l \in Linkers : linker[l] # Idle => linker[l].session # s
    /\ \A f \in Forwarders : forwarder[f] # Idle => forwarder[f].session # s
    /\ sessions' = [sessions EXCEPT ![s] = "fresh"]
    /\ UNCHANGED <<disabled, revoked, connections, sealed, linker, forwarder>>

(* The user is disabled, and the trigger deletes the connection with it. *)
Disable(u) ==
    /\ u \notin disabled
    /\ disabled' = disabled \cup {u}
    /\ connections' = [connections EXCEPT ![u] = NoConnection]
    /\ sessions' = [s \in Sessions |-> IF UserOf[s] = u THEN "ended" ELSE sessions[s]]
    /\ UNCHANGED <<revoked, sealed, linker, forwarder>>

RevokeKey(k) ==
    /\ k \notin revoked
    /\ revoked' = revoked \cup {k}
    /\ UNCHANGED <<identity, connections, sealed, linker, forwarder>>

-----------------------------------------------------------------------------
(* POST and DELETE /api/account/connection *)

(* A recent session asks to link a key to an account that has none. *)
AskLink(l, s, k) ==
    /\ linker[l] = Idle
    /\ Recent(s)
    /\ ~Connected(UserOf[s])
    /\ linker' = [linker EXCEPT ![l] = [pc |-> "verify", session |-> s, key |-> k]]
    /\ UNCHANGED <<identity, revoked, connections, sealed, forwarder>>

(* The data API answers for the key, refuses it or is not reached; only its *)
(* answer goes on to the insert.                                            *)
VerifyKey(l) ==
    /\ linker[l].pc = "verify"
    /\ \/ /\ linker[l].key \notin revoked
          /\ linker' = [linker EXCEPT ![l].pc = "insert"]
       \/ linker' = [linker EXCEPT ![l] = Idle]
    /\ UNCHANGED <<identity, revoked, connections, sealed, forwarder>>

(* Fault: the row does not say which tenant the key belongs to. *)
LinkUnnamed(u, b, k) ==
    connections' = [connections EXCEPT ![u] = [box |-> b, key |-> k]]

Link(u, b, k) ==
    connections' = [connections EXCEPT ![u] = [box |-> b, key |-> k, tenant |-> TenantOf[k]]]

(* Fault: the authority of the session is not asked for again. *)
InsertUnauthorized(l) ==
    LET r == linker[l]
        u == UserOf[r.session]
    IN  /\ r.pc = "insert"
        /\ \E b \in FreshBox :
            /\ sealed' = sealed \cup {b}
            /\ IF ~Connected(u)
               THEN /\ Link(u, b, r.key)
                    /\ linker' = [linker EXCEPT ![l] =
                           [pc |-> "linked", session |-> r.session, box |-> b]]
               ELSE linker' = [linker EXCEPT ![l] = Idle] /\ UNCHANGED connections
        /\ UNCHANGED <<identity, revoked, forwarder>>

(* Fault: a connection made in the meantime is replaced. *)
InsertReplacing(l) ==
    LET r == linker[l]
        u == UserOf[r.session]
    IN  /\ r.pc = "insert"
        /\ \E b \in FreshBox :
            /\ sealed' = sealed \cup {b}
            /\ IF Recent(r.session)
               THEN /\ Link(u, b, r.key)
                    /\ linker' = [linker EXCEPT ![l] =
                           [pc |-> "linked", session |-> r.session, box |-> b]]
               ELSE linker' = [linker EXCEPT ![l] = Idle] /\ UNCHANGED connections
        /\ UNCHANGED <<identity, revoked, forwarder>>

(* INSERT ... SELECT from the authorised, recent session ON CONFLICT DO     *)
(* NOTHING: connected, or connection_unconfirmed.                           *)
InsertLink(l) ==
    LET r == linker[l]
        u == UserOf[r.session]
    IN  /\ r.pc = "insert"
        /\ \E b \in FreshBox :
            /\ sealed' = sealed \cup {b}
            /\ IF Recent(r.session) /\ ~Connected(u)
               THEN /\ Link(u, b, r.key)
                    /\ linker' = [linker EXCEPT ![l] =
                           [pc |-> "linked", session |-> r.session, box |-> b]]
               ELSE linker' = [linker EXCEPT ![l] = Idle] /\ UNCHANGED connections
        /\ UNCHANGED <<identity, revoked, forwarder>>

(* The statement repeats the authority it deletes under. *)
Unlink(s) ==
    /\ Recent(s)
    /\ Connected(UserOf[s])
    /\ connections' = [connections EXCEPT ![UserOf[s]] = NoConnection]
    /\ UNCHANGED <<identity, revoked, sealed, linker, forwarder>>

(* The answer reaches the browser, or the invocation dies. *)
LinkerEnds(l) ==
    /\ linker[l] # Idle
    /\ linker' = [linker EXCEPT ![l] = Idle]
    /\ UNCHANGED <<identity, revoked, connections, sealed, forwarder>>

-----------------------------------------------------------------------------
(* GET and POST through the connection: handleDataAccess, handleAdmin *)

(* The row is read, and its box opened. *)
ReadRow(f, s) ==
    /\ forwarder[f] = Idle
    /\ Authorized(s)
    /\ Connected(UserOf[s])
    /\ forwarder' = [forwarder EXCEPT ![f] =
           [pc |-> "portal", session |-> s, row |-> connections[UserOf[s]]]]
    /\ UNCHANGED <<identity, revoked, connections, sealed, linker>>

(* currentConnection: the row still holds this box, under this session. *)
Current(r) == Authorized(r.session) /\ connections[UserOf[r.session]] = r.row

(* The data API answers for the key with the tenant the row names. *)
ReadPortal(f) ==
    /\ forwarder[f].pc = "portal"
    /\ \/ /\ forwarder[f].row.key \notin revoked
          /\ TenantOf[forwarder[f].row.key] = forwarder[f].row.tenant
          /\ forwarder' = [forwarder EXCEPT ![f].pc = "check"]
       \/ forwarder' = [forwarder EXCEPT ![f] = Idle]
    /\ UNCHANGED <<identity, revoked, connections, sealed, linker>>

(* Two equal checks with nothing but the request's body between them. (Who  *)
(* is no admin, or signed in too long ago to change something as one, is    *)
(* refused here; a request may end at any step.)                            *)
CheckCurrent(f) ==
    /\ forwarder[f].pc = "check"
    /\ forwarder' = [forwarder EXCEPT ![f] =
           IF Current(@) THEN [@ EXCEPT !.pc = "send"] ELSE Idle]
    /\ UNCHANGED <<identity, revoked, connections, sealed, linker>>

(* The request is served under the key, unless it was revoked. *)
Send(f) ==
    /\ forwarder[f].pc = "send"
    /\ forwarder' = [forwarder EXCEPT ![f] =
           IF @.row.key \notin revoked THEN [@ EXCEPT !.pc = "confirm"] ELSE Idle]
    /\ UNCHANGED <<identity, revoked, connections, sealed, linker>>

(* Fault: the connection is checked by its key, not by its box. *)
ConfirmByKey(f) ==
    LET r == forwarder[f]
        c == connections[UserOf[r.session]]
    IN  /\ r.pc = "confirm"
        /\ forwarder' = [forwarder EXCEPT ![f] =
               IF Authorized(r.session) /\ c # NoConnection /\ c.key = r.row.key
               THEN [@ EXCEPT !.pc = "answered"] ELSE Idle]
        /\ UNCHANGED <<identity, revoked, connections, sealed, linker>>

(* The answer is shown only if the connection is still the one used. *)
Confirm(f) ==
    /\ forwarder[f].pc = "confirm"
    /\ forwarder' = [forwarder EXCEPT ![f] =
           IF Current(@) THEN [@ EXCEPT !.pc = "answered"] ELSE Idle]
    /\ UNCHANGED <<identity, revoked, connections, sealed, linker>>

ForwarderEnds(f) ==
    /\ forwarder[f] # Idle
    /\ forwarder' = [forwarder EXCEPT ![f] = Idle]
    /\ UNCHANGED <<identity, revoked, connections, sealed, linker>>

Step ==
    \/ \E s \in Sessions : Age(s) \/ EndSession(s) \/ SignIn(s) \/ Unlink(s)
    \/ \E u \in Users : Disable(u)
    \/ \E k \in Keys : RevokeKey(k)
    \/ \E l \in Linkers :
          \/ \E s \in Sessions, k \in Keys : AskLink(l, s, k)
          \/ VerifyKey(l) \/ InsertLink(l) \/ LinkerEnds(l)
    \/ \E f \in Forwarders :
          \/ \E s \in Sessions : ReadRow(f, s)
          \/ ReadPortal(f) \/ CheckCurrent(f) \/ Send(f) \/ Confirm(f) \/ ForwarderEnds(f)

Interrupted(r) == r # Idle /\ ~Current(r)

Next ==
    /\ Step
    /\ gone' = {f \in Forwarders : /\ forwarder'[f] # Idle
                                   /\ f \in gone \/ Interrupted(forwarder[f])'}

Spec == Init /\ [][Next]_vars

-----------------------------------------------------------------------------
(* Properties *)

ConnectionRows == [box: Boxes, key: Keys, tenant: Tenants]

LinkerStates == [pc: {"verify", "insert"}, session: Sessions, key: Keys]
                \cup [pc: {"linked"}, session: Sessions, box: Boxes]
ForwarderStates == [pc: {"portal", "check", "send", "confirm", "answered"},
                    session: Sessions, row: ConnectionRows]

(* The rows and the requests have the shape of the code and the schema, and *)
(* every row holds an envelope sealed before.                               *)
TypeOK ==
    /\ sessions \in [Sessions -> {"fresh", "old", "ended"}]
    /\ disabled \subseteq Users /\ revoked \subseteq Keys /\ sealed \subseteq Boxes
    /\ connections \in [Users -> ConnectionRows \cup {NoConnection}]
    /\ \A u \in Users : Connected(u) => connections[u].box \in sealed
    /\ gone \subseteq Forwarders
    /\ linker \in [Linkers -> LinkerStates \cup {Idle}]
    /\ forwarder \in [Forwarders -> ForwarderStates \cup {Idle}]

(* A disabled account has no data connection, not even one whose key was    *)
(* being verified when the deletion was accepted                            *)
(* (account-library-schema.sql:21-23, account-continuity.js:176-178).       *)
DisabledHasNoConnection == \A u \in disabled : ~Connected(u)

(* Of several browsers linking keys at once one wins, and what it was told  *)
(* stays true: a row is removed, never replaced by another request's key    *)
(* (account-continuity.js:170-180).                                         *)
LinkIsNotReplaced ==
    [][\A u \in Users :
        Connected(u) => connections'[u] \in {connections[u], NoConnection}]_vars

(* An answer is shown only when the connection it was obtained with was     *)
(* never interrupted since its row was read: no disconnection, not even one *)
(* followed by a new link of the same key, no end of the session and no     *)
(* deletion of the account (account-continuity.js:134-149, 210-221).        *)
AnswersAreCurrent ==
    [][\A f \in Forwarders :
        (forwarder[f].pc # "answered" /\ forwarder'[f].pc = "answered") => f \notin gone]_vars

(* A row of an enabled account stays until it is removed, a disabled        *)
(* account has none, and nothing is answered on a row that was removed.     *)
ConnectionHolds == LinkIsNotReplaced /\ []DisabledHasNoConnection /\ AnswersAreCurrent
=============================================================================

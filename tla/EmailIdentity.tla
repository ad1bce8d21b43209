--------------------------- MODULE EmailIdentity ---------------------------
(***************************************************************************)
(* The passwordless identity of the account Worker                         *)
(* (public-web/worker/email-identity.js) and the hourly maintenance of its *)
(* D1 store (identity-retention.js): one-time codes sent by mail, sessions, *)
(* account deletion and the purge of deleted profiles.                     *)
(*                                                                         *)
(* Requests are handled by Worker invocations that share nothing but the   *)
(* store: every statement or batch and every call of the mail provider is  *)
(* a step, a request reads the clock once and uses that time at each of    *)
(* its later statements, and an invocation may die at any step.            *)
(*                                                                         *)
(* The rate buckets, which only refuse a request before it changes         *)
(* anything else, and the comparison of the HMAC of a code are left out: a *)
(* code matches or it does not.                                            *)
(***************************************************************************)
EXTENDS Integers, FiniteSets

CONSTANTS
    Emails,
    Ids,             \* challenge ids: random UUIDs, none is minted twice
    Uids,            \* user ids, likewise
    Tokens,          \* session tokens, likewise
    Senders,         \* requests for a code handled at the same time
    Verifiers,       \* verifications handled at the same time
    Deleters,        \* deletion requests handled at the same time
    Janitors,        \* maintenance runs
    ChallengeTTL, SessionTTL, Cooldown, Fresh, MaxAttempts,
    MaxNow           \* last instant of the modelled clock

ASSUME IdentityAssumption ==
    /\ {ChallengeTTL, SessionTTL, Cooldown, Fresh, MaxAttempts} \subseteq Nat \ {0}
    /\ MaxNow \in Nat
    /\ Ids \cap Uids = {} /\ Ids \cap Tokens = {} /\ Uids \cap Tokens = {}

NoRow == [none |-> TRUE]
Idle  == [pc |-> "idle"]

VARIABLES
    challenges,   \* identity_challenges, by email
    cooldowns,    \* identity_send_cooldowns: next_send_at, by email
    users,        \* identity_users, by id
    sessions,     \* identity_sessions, by token
    deletions,    \* identity_deletion_requests: requested_at, by user id
    sender, verifier, deleter, janitor,   \* the requests in flight
    mailed,       \* challenge ids whose code the mail provider took (external)
    spent,        \* ids, user ids and tokens minted so far
    guesses,      \* history: codes compared with each challenge
    now

store == <<challenges, cooldowns, users, sessions, deletions>>
flight == <<sender, verifier, deleter, janitor>>
ghosts == <<mailed, spent, guesses>>
vars == <<store, flight, ghosts, now>>

Init ==
    /\ challenges = [e \in Emails |-> NoRow]
    /\ cooldowns = [e \in Emails |-> 0]
    /\ users = [u \in Uids |-> NoRow]
    /\ sessions = [t \in Tokens |-> NoRow]
    /\ deletions = [u \in {} |-> 0]
    /\ sender = [s \in Senders |-> Idle]
    /\ verifier = [v \in Verifiers |-> Idle]
    /\ deleter = [x \in Deleters |-> Idle]
    /\ janitor = [j \in Janitors |-> Idle]
    /\ mailed = {}
    /\ spent = {}
    /\ guesses = [i \in Ids |-> 0]
    /\ now = 0

Disabled(u) == users[u] # NoRow /\ users[u].state = "disabled"
Enabled(u)  == users[u] # NoRow /\ users[u].state = "enabled"

(* A name never used before. (Which one is of no account; one is enough.)   *)
Minted(names) == IF names \subseteq spent THEN {} ELSE {CHOOSE n \in names : n \notin spent}

(* The row of an email, if it carries this id. *)
Holds(e, i) == challenges[e] # NoRow /\ challenges[e].id = i

(* readSession: unexpired, not revoked, of a user who is not disabled. *)
Valid(t, time) ==
    /\ sessions[t] # NoRow
    /\ sessions[t].expires > time
    /\ ~sessions[t].revoked
    /\ Enabled(sessions[t].user)

-----------------------------------------------------------------------------
(* POST /api/account/email/challenge *)

AskCode(s, e) ==
    /\ sender[s] = Idle
    /\ sender' = [sender EXCEPT ![s] = [pc |-> "cooldown", email |-> e, time |-> now]]
    /\ UNCHANGED <<store, verifier, deleter, janitor, ghosts, now>>

(* The cooldown row is moved on by one statement, or the request refused. *)
TakeCooldown(s) ==
    LET r == sender[s]
    IN  /\ r.pc = "cooldown"
        /\ IF cooldowns[r.email] =< r.time
           THEN /\ cooldowns' = [cooldowns EXCEPT ![r.email] = r.time + Cooldown]
                /\ sender' = [sender EXCEPT ![s].pc = "insert"]
           ELSE /\ sender' = [sender EXCEPT ![s] = Idle]
                /\ UNCHANGED cooldowns
        /\ UNCHANGED <<challenges, users, sessions, deletions,
                       verifier, deleter, janitor, ghosts, now>>

(* What pruneExpired leaves: rows no predicate would accept at this time. *)
PrunedChallenges(time) ==
    [e \in Emails |-> IF challenges[e] # NoRow /\ challenges[e].expires =< time
                      THEN NoRow ELSE challenges[e]]
PrunedSessions(time) ==
    [t \in Tokens |-> IF sessions[t] # NoRow /\ sessions[t].expires =< time
                      THEN NoRow ELSE sessions[t]]

(* pruneExpired, then the upsert: the email's only row is replaced by one   *)
(* with a fresh id, no attempt, not accepted and not consumed. (Pruning     *)
(* removes only rows that are already dead, so it is one step with it.)     *)
InsertChallenge(s) ==
    LET r == sender[s]
    IN  /\ r.pc = "insert"
        /\ \E i \in Minted(Ids) :
            /\ challenges' = [PrunedChallenges(r.time) EXCEPT ![r.email] =
                   [id |-> i, expires |-> r.time + ChallengeTTL, attempts |-> 0,
                    accepted |-> FALSE, consumed |-> FALSE]]
            /\ spent' = spent \cup {i}
            /\ sender' = [sender EXCEPT ![s] = [pc |-> "deliver", email |-> r.email, id |-> i]]
        /\ sessions' = PrunedSessions(r.time)
        /\ UNCHANGED <<cooldowns, users, deletions, verifier, deleter, janitor,
                       mailed, guesses, now>>

(* The provider takes the message; or it fails, times out or its answer is  *)
(* unusable, and may then have taken the message all the same.              *)
Delivered(s) ==
    /\ sender[s].pc = "deliver"
    /\ mailed' = mailed \cup {sender[s].id}
    /\ sender' = [sender EXCEPT ![s].pc = "accept"]
    /\ UNCHANGED <<store, verifier, deleter, janitor, spent, guesses, now>>

Undelivered(s) ==
    /\ sender[s].pc = "deliver"
    /\ mailed' \in {mailed, mailed \cup {sender[s].id}}
    /\ sender' = [sender EXCEPT ![s].pc = "withdraw"]
    /\ UNCHANGED <<store, verifier, deleter, janitor, spent, guesses, now>>

(* Fault: the acceptance goes to the email's row, whatever its id. *)
AcceptByEmail(s) ==
    LET r == sender[s]
    IN  /\ r.pc = "accept"
        /\ challenges' = [challenges EXCEPT ![r.email] =
               IF @ # NoRow THEN [@ EXCEPT !.accepted = TRUE] ELSE @]
        /\ sender' = [sender EXCEPT ![s] = Idle]
        /\ UNCHANGED <<cooldowns, users, sessions, deletions,
                       verifier, deleter, janitor, ghosts, now>>

(* UPDATE ... SET accepted=1 WHERE id=? *)
Accept(s) ==
    LET r == sender[s]
    IN  /\ r.pc = "accept"
        /\ challenges' = [challenges EXCEPT ![r.email] =
               IF Holds(r.email, r.id) THEN [@ EXCEPT !.accepted = TRUE] ELSE @]
        /\ sender' = [sender EXCEPT ![s] = Idle]
        /\ UNCHANGED <<cooldowns, users, sessions, deletions,
                       verifier, deleter, janitor, ghosts, now>>

(* DELETE ... WHERE id=? AND accepted=0 *)
Withdraw(s) ==
    LET r == sender[s]
    IN  /\ r.pc = "withdraw"
        /\ challenges' = [challenges EXCEPT ![r.email] =
               IF Holds(r.email, r.id) /\ ~@.accepted THEN NoRow ELSE @]
        /\ sender' = [sender EXCEPT ![s] = Idle]
        /\ UNCHANGED <<cooldowns, users, sessions, deletions,
                       verifier, deleter, janitor, ghosts, now>>

-----------------------------------------------------------------------------
(* POST /api/account/email/verify *)

(* Anyone may submit any id that was minted, with a right or a wrong code;  *)
(* the right one is known from the mail.                                    *)
AskVerify(v, e, i, right) ==
    /\ verifier[v] = Idle
    /\ i \in spent
    /\ right => i \in mailed
    /\ verifier' = [verifier EXCEPT ![v] =
           [pc |-> "attempt", email |-> e, id |-> i, right |-> right, time |-> now]]
    /\ UNCHANGED <<store, sender, deleter, janitor, ghosts, now>>

Attemptable(e, i, time) ==
    /\ Holds(e, i)
    /\ challenges[e].expires > time
    /\ challenges[e].accepted
    /\ ~challenges[e].consumed
    /\ challenges[e].attempts < MaxAttempts

(* Fault: only the right code counts as an attempt. *)
AttemptUncounted(v) ==
    LET r == verifier[v]
    IN  /\ r.pc = "attempt"
        /\ IF Attemptable(r.email, r.id, r.time)
           THEN /\ challenges' = [challenges EXCEPT ![r.email].attempts =
                                     IF r.right THEN @ + 1 ELSE @]
                /\ guesses' = [guesses EXCEPT ![r.id] = @ + 1]
                /\ verifier' = [verifier EXCEPT ![v] =
                       IF r.right THEN [@ EXCEPT !.pc = "consume"] ELSE Idle]
           ELSE /\ verifier' = [verifier EXCEPT ![v] = Idle]
                /\ UNCHANGED <<challenges, guesses>>
        /\ UNCHANGED <<cooldowns, users, sessions, deletions, sender, deleter, janitor,
                       mailed, spent, now>>

(* The attempt is counted by the statement that returns the code's digest,  *)
(* so no code is compared that was not counted.                             *)
Attempt(v) ==
    LET r == verifier[v]
    IN  /\ r.pc = "attempt"
        /\ IF Attemptable(r.email, r.id, r.time)
           THEN /\ challenges' = [challenges EXCEPT ![r.email].attempts = @ + 1]
                /\ guesses' = [guesses EXCEPT ![r.id] = @ + 1]
                /\ verifier' = [verifier EXCEPT ![v] =
                       IF r.right THEN [@ EXCEPT !.pc = "consume"] ELSE Idle]
           ELSE /\ verifier' = [verifier EXCEPT ![v] = Idle]
                /\ UNCHANGED <<challenges, guesses>>
        /\ UNCHANGED <<cooldowns, users, sessions, deletions, sender, deleter, janitor,
                       mailed, spent, now>>

(* Fault: the challenge is consumed without asking whether it was already. *)
ConsumeAgain(v) ==
    LET r == verifier[v]
    IN  /\ r.pc = "consume"
        /\ IF Holds(r.email, r.id) /\ challenges[r.email].expires > r.time
           THEN /\ challenges' = [challenges EXCEPT ![r.email].consumed = TRUE]
                /\ verifier' = [verifier EXCEPT ![v].pc = "session"]
           ELSE /\ verifier' = [verifier EXCEPT ![v] = Idle]
                /\ UNCHANGED challenges
        /\ UNCHANGED <<cooldowns, users, sessions, deletions, sender, deleter, janitor,
                       ghosts, now>>

(* One of the verifications that compared the right code consumes the row. *)
Consume(v) ==
    LET r == verifier[v]
    IN  /\ r.pc = "consume"
        /\ IF /\ Holds(r.email, r.id)
              /\ ~challenges[r.email].consumed
              /\ challenges[r.email].expires > r.time
           THEN /\ challenges' = [challenges EXCEPT ![r.email].consumed = TRUE]
                /\ verifier' = [verifier EXCEPT ![v].pc = "session"]
           ELSE /\ verifier' = [verifier EXCEPT ![v] = Idle]
                /\ UNCHANGED challenges
        /\ UNCHANGED <<cooldowns, users, sessions, deletions, sender, deleter, janitor,
                       ghosts, now>>

UserWith(e) == {u \in Uids : users[u] # NoRow /\ users[u].email = e}

(* Fault: the session is opened for a user who is being deleted. *)
OpenForAnyone(v) ==
    LET r == verifier[v]
    IN  /\ r.pc = "session"
        /\ \E u \in Uids, t \in Minted(Tokens) :
            /\ IF UserWith(r.email) = {} THEN u \in Minted(Uids) ELSE u \in UserWith(r.email)
            /\ users' = [users EXCEPT ![u] =
                   IF @ = NoRow THEN [email |-> r.email, state |-> "enabled"] ELSE @]
            /\ sessions' = [sessions EXCEPT ![t] =
                   [user |-> u, from |-> r.id, created |-> r.time,
                    expires |-> r.time + SessionTTL, revoked |-> FALSE]]
            /\ spent' = spent \cup {u, t}
        /\ verifier' = [verifier EXCEPT ![v] = Idle]
        /\ UNCHANGED <<challenges, cooldowns, deletions, sender, deleter, janitor,
                       mailed, guesses, now>>

(* Fault: an upsert, which enables the user again. *)
OpenReenabling(v) ==
    LET r == verifier[v]
    IN  /\ r.pc = "session"
        /\ \E u \in Uids, t \in Minted(Tokens) :
            /\ IF UserWith(r.email) = {} THEN u \in Minted(Uids) ELSE u \in UserWith(r.email)
            /\ users' = [users EXCEPT ![u] = [email |-> r.email, state |-> "enabled"]]
            /\ sessions' = [sessions EXCEPT ![t] =
                   [user |-> u, from |-> r.id, created |-> r.time,
                    expires |-> r.time + SessionTTL, revoked |-> FALSE]]
            /\ spent' = spent \cup {u, t}
        /\ verifier' = [verifier EXCEPT ![v] = Idle]
        /\ UNCHANGED <<challenges, cooldowns, deletions, sender, deleter, janitor,
                       mailed, guesses, now>>

(* One batch: the user unless the email has one, and a session unless that  *)
(* user is disabled. (from is history: the challenge that opened it.)       *)
OpenSession(v) ==
    LET r == verifier[v]
    IN  /\ r.pc = "session"
        /\ \E u \in Uids, t \in Minted(Tokens) :
            /\ IF UserWith(r.email) = {} THEN u \in Minted(Uids) ELSE u \in UserWith(r.email)
            /\ users' = [users EXCEPT ![u] =
                   IF @ = NoRow THEN [email |-> r.email, state |-> "enabled"] ELSE @]
            /\ sessions' = [sessions EXCEPT ![t] =
                   IF Disabled(u) THEN NoRow
                   ELSE [user |-> u, from |-> r.id, created |-> r.time,
                         expires |-> r.time + SessionTTL, revoked |-> FALSE]]
            /\ spent' = spent \cup {u, t}
        /\ verifier' = [verifier EXCEPT ![v] = Idle]
        /\ UNCHANGED <<challenges, cooldowns, deletions, sender, deleter, janitor,
                       mailed, guesses, now>>

-----------------------------------------------------------------------------
(* DELETE /api/account/session and POST /api/account/profile/deletion *)

(* The update only ever revokes, so reading the session is one step with it. *)
SignOut(t) ==
    /\ Valid(t, now)
    /\ sessions' = [sessions EXCEPT ![t].revoked = TRUE]
    /\ UNCHANGED <<challenges, cooldowns, users, deletions, flight, ghosts, now>>

AskDeletion(x, t) ==
    /\ deleter[x] = Idle
    /\ Valid(t, now)
    /\ sessions[t].created >= now - Fresh
    /\ deleter' = [deleter EXCEPT ![x] =
           [pc |-> "delete", token |-> t, user |-> sessions[t].user, time |-> now]]
    /\ UNCHANGED <<store, sender, verifier, janitor, ghosts, now>>

RevokedOf(S) ==
    [t \in Tokens |-> IF sessions[t] # NoRow /\ sessions[t].user \in S
                      THEN [sessions[t] EXCEPT !.revoked = TRUE] ELSE sessions[t]]

ForgottenEmails(S) ==
    [e \in Emails |-> IF \E u \in S : users[u] # NoRow /\ users[u].email = e
                      THEN NoRow ELSE challenges[e]]

(* One batch that authenticates again: the request if the session is still  *)
(* valid and fresh and the user enabled; then, if the user has a request,   *)
(* the user is disabled, the sessions revoked, the email's code deleted.    *)
DeleteAccount(x) ==
    LET r == deleter[x]
        granted == IF Valid(r.token, r.time) /\ sessions[r.token].created >= r.time - Fresh
                   THEN {r.user} ELSE {}
    IN  /\ r.pc = "delete"
        /\ deletions' = [u \in DOMAIN deletions \cup granted |->
                            IF u \in DOMAIN deletions THEN deletions[u] ELSE r.time]
        /\ users' = [u \in Uids |-> IF /\ u = r.user /\ u \in DOMAIN deletions'
                                       /\ users[u] # NoRow
                                    THEN [users[u] EXCEPT !.state = "disabled"] ELSE users[u]]
        /\ sessions' = RevokedOf({r.user} \cap DOMAIN deletions')
        /\ challenges' = ForgottenEmails({r.user} \cap DOMAIN deletions')
        /\ deleter' = [deleter EXCEPT ![x] = Idle]
        /\ UNCHANGED <<cooldowns, sender, verifier, janitor, ghosts, now>>

-----------------------------------------------------------------------------
(* runIdentityMaintenance *)

StartMaintenance(j) ==
    /\ janitor[j] = Idle
    /\ janitor' = [janitor EXCEPT ![j] = [pc |-> "challenges", time |-> now]]
    /\ UNCHANGED <<store, sender, verifier, deleter, ghosts, now>>

(* One table after the other: rows expired, revoked or of disabled users.   *)
(* (The batches of a table are one step: each row falls under the same      *)
(* predicate whenever it goes.)                                             *)
SweepChallenges(j) ==
    /\ janitor[j].pc = "challenges"
    /\ challenges' = PrunedChallenges(janitor[j].time)
    /\ janitor' = [janitor EXCEPT ![j].pc = "sessions"]
    /\ UNCHANGED <<cooldowns, users, sessions, deletions,
                   sender, verifier, deleter, ghosts, now>>

SweepSessions(j) ==
    /\ janitor[j].pc = "sessions"
    /\ sessions' = [t \in Tokens |->
           IF sessions[t] # NoRow /\ (\/ sessions[t].expires =< janitor[j].time
                                      \/ sessions[t].revoked
                                      \/ Disabled(sessions[t].user))
           THEN NoRow ELSE sessions[t]]
    /\ janitor' = [janitor EXCEPT ![j].pc = "cooldowns"]
    /\ UNCHANGED <<challenges, cooldowns, users, deletions,
                   sender, verifier, deleter, ghosts, now>>

Without(u) == [w \in DOMAIN deletions \ {u} |-> deletions[w]]

(* A removed cooldown row admits like one whose time has passed. The list   *)
(* of profiles is read next.                                                *)
SweepCooldowns(j) ==
    /\ janitor[j].pc = "cooldowns"
    /\ cooldowns' = [e \in Emails |-> IF cooldowns[e] =< janitor[j].time
                                      THEN 0 ELSE cooldowns[e]]
    /\ janitor' = [janitor EXCEPT ![j] =
           [pc |-> "profiles",
            list |-> {u \in DOMAIN deletions : Disabled(u) /\ deletions[u] =< @.time}]]
    /\ UNCHANGED <<challenges, users, sessions, deletions,
                   sender, verifier, deleter, ghosts, now>>

Purged(u) ==
    /\ challenges' = ForgottenEmails({u})
    /\ sessions' = [t \in Tokens |-> IF sessions[t] # NoRow /\ sessions[t].user = u
                                     THEN NoRow ELSE sessions[t]]
    /\ deletions' = Without(u)
    /\ users' = [users EXCEPT ![u] = NoRow]

(* Fault: the request is removed before the profile, in a statement of its own. *)
PurgeRequestFirst(j) ==
    /\ janitor[j].pc = "profiles"
    /\ \E u \in janitor[j].list :
        /\ IF u \in DOMAIN deletions
           THEN /\ deletions' = Without(u)
                /\ janitor' = [janitor EXCEPT ![j] = [pc |-> "profiles", list |-> @.list]]
                /\ UNCHANGED <<challenges, sessions, users>>
           ELSE /\ IF Disabled(u) THEN Purged(u)
                                  ELSE UNCHANGED <<challenges, sessions, deletions, users>>
                /\ janitor' = [janitor EXCEPT ![j].list = @ \ {u}]
    /\ UNCHANGED <<cooldowns, sender, verifier, deleter, ghosts, now>>

(* One batch per profile, each statement for a disabled user only: codes,   *)
(* sessions, the request and the user go together.                          *)
PurgeProfile(j) ==
    /\ janitor[j].pc = "profiles"
    /\ \E u \in janitor[j].list :
        /\ IF Disabled(u) THEN Purged(u)
                          ELSE UNCHANGED <<challenges, sessions, deletions, users>>
        /\ janitor' = [janitor EXCEPT ![j].list = @ \ {u}]
    /\ UNCHANGED <<cooldowns, sender, verifier, deleter, ghosts, now>>

EndMaintenance(j) ==
    /\ janitor[j].pc = "profiles" /\ janitor[j].list = {}
    /\ janitor' = [janitor EXCEPT ![j] = Idle]
    /\ UNCHANGED <<store, sender, verifier, deleter, ghosts, now>>

-----------------------------------------------------------------------------
(* An invocation dies, or a statement rejects and the handler answers 503. *)
SenderDies(s) ==
    /\ sender[s] # Idle
    /\ sender' = [sender EXCEPT ![s] = Idle]
    /\ UNCHANGED <<store, verifier, deleter, janitor, ghosts, now>>

VerifierDies(v) ==
    /\ verifier[v] # Idle
    /\ verifier' = [verifier EXCEPT ![v] = Idle]
    /\ UNCHANGED <<store, sender, deleter, janitor, ghosts, now>>

DeleterDies(x) ==
    /\ deleter[x] # Idle
    /\ deleter' = [deleter EXCEPT ![x] = Idle]
    /\ UNCHANGED <<store, sender, verifier, janitor, ghosts, now>>

JanitorDies(j) ==
    /\ janitor[j] # Idle
    /\ janitor' = [janitor EXCEPT ![j] = Idle]
    /\ UNCHANGED <<store, sender, verifier, deleter, ghosts, now>>

Tick ==
    /\ now < MaxNow
    /\ now' = now + 1
    /\ UNCHANGED <<store, flight, ghosts>>

Maintain(j) ==
    \/ StartMaintenance(j) \/ SweepChallenges(j) \/ SweepSessions(j)
    \/ SweepCooldowns(j) \/ PurgeProfile(j) \/ EndMaintenance(j)

Next ==
    \/ \E s \in Senders :
          \/ \E e \in Emails : AskCode(s, e)
          \/ TakeCooldown(s) \/ InsertChallenge(s) \/ Delivered(s) \/ Undelivered(s)
          \/ Accept(s) \/ Withdraw(s) \/ SenderDies(s)
    \/ \E v \in Verifiers :
          \/ \E e \in Emails, i \in Ids, right \in BOOLEAN : AskVerify(v, e, i, right)
          \/ Attempt(v) \/ Consume(v) \/ OpenSession(v) \/ VerifierDies(v)
    \/ \E t \in Tokens : SignOut(t)
    \/ \E x \in Deleters :
          \/ \E t \in Tokens : AskDeletion(x, t)
          \/ DeleteAccount(x) \/ DeleterDies(x)
    \/ \E j \in Janitors : Maintain(j) \/ JanitorDies(j)
    \/ Tick

Spec == Init /\ [][Next]_vars

-----------------------------------------------------------------------------
(* Properties *)

ChallengeRows == [id: Ids, expires: Nat, attempts: 0..MaxAttempts,
                  accepted: BOOLEAN, consumed: BOOLEAN]
UserRows == [email: Emails, state: {"enabled", "disabled"}]
SessionRows == [user: Uids, from: Ids, created: Nat, expires: Nat, revoked: BOOLEAN]

(* Every table has the shape of its schema; every session and deletion      *)
(* request refers to a user that exists, and an email has one user.         *)
TypeOK ==
    /\ challenges \in [Emails -> ChallengeRows \cup {NoRow}]
    /\ cooldowns \in [Emails -> Nat]
    /\ users \in [Uids -> UserRows \cup {NoRow}]
    /\ sessions \in [Tokens -> SessionRows \cup {NoRow}]
    /\ \A t \in Tokens : sessions[t] # NoRow => users[sessions[t].user] # NoRow
    /\ \A u \in DOMAIN deletions : users[u] # NoRow /\ deletions[u] \in Nat
    /\ \A e \in Emails : Cardinality(UserWith(e)) =< 1

(* A challenge opens at most one session, however many verifications of it  *)
(* run at once (email-identity.js:183-191).                                 *)
OneSessionPerChallenge ==
    \A t, z \in Tokens :
        (sessions[t] # NoRow /\ sessions[z] # NoRow /\ sessions[t].from = sessions[z].from)
            => t = z

(* Concurrent verifications, repeated requests and replaced rows together   *)
(* never let more codes be compared with a challenge than it allows         *)
(* (email-identity.js:157, 180).                                            *)
GuessesBounded == \A i \in Ids : guesses[i] =< MaxAttempts

(* A row is accepted only when the provider took the message with its own   *)
(* code: a slow or failed request of the same email never vouches for a     *)
(* newer row (email-identity.js:157-172).                                   *)
AcceptedWasMailed ==
    \A e \in Emails :
        challenges[e] # NoRow /\ challenges[e].accepted => challenges[e].id \in mailed

(* A code that opens a session was read in the mailbox, not guessed.        *)
CodeIsProof == GuessesBounded /\ AcceptedWasMailed

(* One session for one code, read in the mailbox.                           *)
SessionsAreProven == OneSessionPerChallenge /\ CodeIsProof

(* The user of an accepted deletion is disabled, and only such a user is;   *)
(* from that step on none of its sessions is valid and none is opened, even *)
(* by a verification already past its code (email-identity.js:189, 213-223). *)
DeletedIsLockedOut ==
    \A u \in Uids :
        /\ Disabled(u) <=> u \in DOMAIN deletions
        /\ Disabled(u) => \A t \in Tokens :
              sessions[t] # NoRow /\ sessions[t].user = u => sessions[t].revoked

(* A token as the rest of the site sees it. *)
SessionOf(t) ==
    IF t \notin spent THEN [state |-> "unopened"]
    ELSE IF ~Valid(t, now) THEN [state |-> "ended"]
    ELSE IF sessions[t].created >= now - Fresh
         THEN [state |-> "recent", user |-> sessions[t].user]
         ELSE [state |-> "old", user |-> sessions[t].user]

Authority ==
    INSTANCE SessionAuthority
        WITH Users <- Uids, session <- [t \in Tokens |-> SessionOf(t)],
             disabled <- {u \in Uids : u \in spent /\ ~Enabled(u)}

(* The tables, their sweeps and the requests in flight implement the        *)
(* authority the account services rely on: no session comes back to life,   *)
(* becomes recent again or is opened for a user once disabled, however a    *)
(* verification, a deletion and maintenance interleave                      *)
(* (email-identity.js:60-110, 176-226; identity-retention.js:17-41).         *)
ImplementsAuthority == Authority!Spec

(* The cron trigger starts maintenance every hour, and a run that is not    *)
(* cut off goes on to its end; runs are cut off finitely often.             *)
Undisturbed == \A j \in Janitors : JanitorDies(j) => Maintain(j)

FairSpec ==
    /\ Spec
    /\ \A j \in Janitors : WF_vars(Maintain(j))
    /\ <>[][Undisturbed]_vars

(* Every accepted deletion ends in the removal of the profile               *)
(* (identity-retention.js:30-41).                                           *)
DeletionCompletes == \A u \in Uids : u \in DOMAIN deletions ~> users[u] = NoRow
=============================================================================

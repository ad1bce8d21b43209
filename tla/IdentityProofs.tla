--------------------------- MODULE IdentityProofs ---------------------------
(***************************************************************************)
(* Proofs about the e-mail identity and the data connection, for any        *)
(* mailboxes, names, keys and time limits and any number of requests and    *)
(* maintenance runs at the same time.                                       *)
(***************************************************************************)
EXTENDS MCIdentity, TLAPS

-----------------------------------------------------------------------------
(* The inductive invariant                                                  *)

\* What a request in flight carries at each point.
SenderStates ==
    {Idle} \cup [pc: {"cooldown", "insert"}, email: Emails, time: Nat]
           \cup [pc: {"deliver", "accept", "withdraw"}, email: Emails, id: Ids]
VerifierStates ==
    {Idle} \cup [pc: {"attempt", "consume", "session"}, email: Emails, id: Ids,
                 right: BOOLEAN, time: Nat]
DeleterStates == {Idle} \cup [pc: {"delete"}, token: Tokens, user: Uids, time: Nat]
JanitorStates ==
    {Idle} \cup [pc: {"challenges", "sessions", "cooldowns"}, time: Nat]
           \cup [pc: {"profiles"}, list: SUBSET Uids]

Typed ==
    /\ challenges \in [Emails -> ChallengeRows \cup {NoRow}]
    /\ users \in [Uids -> UserRows \cup {NoRow}]
    /\ sessions \in [Tokens -> SessionRows \cup {NoRow}]
    /\ DOMAIN deletions \subseteq Uids
    /\ sender \in [Senders -> SenderStates]
    /\ verifier \in [Verifiers -> VerifierStates]
    /\ deleter \in [Deleters -> DeleterStates]
    /\ janitor \in [Janitors -> JanitorStates]
    /\ mailed \subseteq Ids
    /\ guesses \in [Ids -> Nat]
    /\ now \in Nat

\* Whatever is referred to was minted, so that a new name is new everywhere.
MintedRows ==
    /\ \A e \in Emails : challenges[e] # NoRow => challenges[e].id \in spent
    /\ \A t \in Tokens : sessions[t] # NoRow => t \in spent /\ sessions[t].from \in spent
    /\ \A u \in Uids : users[u] # NoRow => u \in spent
MintedFlight ==
    /\ \A s \in Senders :
          sender[s].pc \in {"deliver", "accept", "withdraw"} => sender[s].id \in spent
    /\ \A v \in Verifiers : verifier[v] # Idle => verifier[v].id \in spent
    /\ \A x \in Deleters : deleter[x] # Idle => deleter[x].token \in spent
    /\ \A i \in Ids : i \notin spent => guesses[i] = 0

\* The clock is not behind any request that goes by a time it read earlier.
Clocked ==
    /\ \A s \in Senders : sender[s].pc \in {"cooldown", "insert"} => sender[s].time <= now
    /\ \A v \in Verifiers : verifier[v] # Idle => verifier[v].time <= now
    /\ \A x \in Deleters : deleter[x] # Idle => deleter[x].time <= now
    /\ \A j \in Janitors :
          janitor[j].pc \in {"challenges", "sessions", "cooldowns"} => janitor[j].time <= now

\* No two rows have one id.
OneRowPerId ==
    \A d, e \in Emails :
        (challenges[d] # NoRow /\ challenges[e] # NoRow /\ challenges[d].id = challenges[e].id)
            => d = e

\* A row counts the codes compared with it, and a request past delivery had
\* its message taken.
Counted ==
    /\ \A e \in Emails :
          challenges[e] # NoRow => guesses[challenges[e].id] = challenges[e].attempts
    /\ \A s \in Senders : sender[s].pc = "accept" => sender[s].id \in mailed

\* A challenge that opens or opened a session is consumed, and no other
\* verification of it is about to open one.
Opening(v) == verifier[v].pc = "session"
UsedOnce ==
    /\ \A v \in Verifiers, e \in Emails :
          (Opening(v) /\ challenges[e] # NoRow /\ challenges[e].id = verifier[v].id)
              => challenges[e].consumed
    /\ \A t \in Tokens, e \in Emails :
          (sessions[t] # NoRow /\ challenges[e] # NoRow /\ challenges[e].id = sessions[t].from)
              => challenges[e].consumed
    /\ \A v, w \in Verifiers :
          (Opening(v) /\ Opening(w) /\ verifier[v].id = verifier[w].id) => v = w
    /\ \A v \in Verifiers, t \in Tokens :
          (Opening(v) /\ sessions[t] # NoRow) => sessions[t].from # verifier[v].id

\* A deletion acts on the user whose session asked for it.
RightUser ==
    \A x \in Deleters :
        (deleter[x] # Idle /\ sessions[deleter[x].token] # NoRow)
            => sessions[deleter[x].token].user = deleter[x].user

Minting == MintedRows /\ MintedFlight
Rows == Typed /\ Minting /\ OneRowPerId
CodeInv == Counted /\ CodeIsProof
UseInv == UsedOnce /\ OneSessionPerChallenge
ProofInv == Rows /\ CodeInv /\ UseInv

-----------------------------------------------------------------------------
(* Rows and requests                                                        *)

\* A missing row is not a row, and no request at work is idle.
LEMMA NoRowIsNone == NoRow \notin ChallengeRows /\ NoRow \notin UserRows /\ NoRow \notin SessionRows
<1>1. DOMAIN NoRow = {"none"}
  BY DEF NoRow
<1>2. \A r \in ChallengeRows : "id" \in DOMAIN r
  BY DEF ChallengeRows
<1>3. \A r \in UserRows : "email" \in DOMAIN r
  BY DEF UserRows
<1>4. \A r \in SessionRows : "user" \in DOMAIN r
  BY DEF SessionRows
<1> QED BY <1>1, <1>2, <1>3, <1>4

\* What is known of a request by the point it has reached.
LEMMA SenderFacts ==
    ASSUME Typed, NEW s \in Senders
    PROVE  /\ sender[s].pc \in {"cooldown", "insert"} =>
                 sender[s] \in [pc: {"cooldown", "insert"}, email: Emails, time: Nat]
           /\ sender[s].pc \in {"deliver", "accept", "withdraw"} =>
                 sender[s] \in [pc: {"deliver", "accept", "withdraw"}, email: Emails, id: Ids]
<1>1. sender[s] \in SenderStates
  BY DEF Typed
<1> QED BY <1>1 DEF SenderStates, Idle

\* A verification at work carries an email, an id and the time it read.
LEMMA VerifierFacts ==
    ASSUME Typed, NEW v \in Verifiers
    PROVE  /\ verifier[v].pc \in {"attempt", "consume", "session"} =>
                 /\ verifier[v] # Idle
                 /\ verifier[v] \in [pc: {"attempt", "consume", "session"}, email: Emails,
                                     id: Ids, right: BOOLEAN, time: Nat]
           /\ verifier[v] # Idle => verifier[v].pc \in {"attempt", "consume", "session"}
<1>1. verifier[v] \in VerifierStates
  BY DEF Typed
<1> QED BY <1>1 DEF VerifierStates, Idle

\* A deletion at work carries the session that asked and its user.
LEMMA DeleterFacts ==
    ASSUME Typed, NEW x \in Deleters
    PROVE  /\ deleter[x].pc = "delete" => deleter[x] # Idle
           /\ deleter[x] # Idle => deleter[x] \in [pc: {"delete"}, token: Tokens, user: Uids, time: Nat]
<1>1. deleter[x] \in DeleterStates
  BY DEF Typed
<1> QED BY <1>1 DEF DeleterStates, Idle

\* A maintenance run carries its time, then the profiles it listed.
LEMMA JanitorFacts ==
    ASSUME Typed, NEW j \in Janitors
    PROVE  /\ janitor[j].pc \in {"challenges", "sessions", "cooldowns"} =>
                 janitor[j] \in [pc: {"challenges", "sessions", "cooldowns"}, time: Nat]
           /\ janitor[j].pc = "profiles" =>
                 janitor[j] \in [pc: {"profiles"}, list: SUBSET Uids]
<1>1. janitor[j] \in JanitorStates
  BY DEF Typed
<1> QED BY <1>1 DEF JanitorStates, Idle

\* A name that is minted was never used.
LEMMA MintedIsNew == ASSUME NEW S, NEW n \in Minted(S) PROVE n \in S /\ n \notin spent
<1>1. ~(S \subseteq spent) /\ n = (CHOOSE m \in S : m \notin spent)
  BY DEF Minted
<1>2. \E m \in S : m \notin spent
  BY <1>1
<1> QED BY <1>1, <1>2

-----------------------------------------------------------------------------
(* Types                                                                    *)

\* What the statements that set a column of one row leave of the table.
OtherRowsKept(e) == \A d \in Emails : d # e => challenges'[d] = challenges[d]

\* The statement that consumes a code (email-identity.js:183) sets that column only.
LEMMA RowConsumed ==
    ASSUME Typed, NEW e \in Emails, challenges[e] # NoRow,
           challenges' = [challenges EXCEPT ![e].consumed = TRUE]
    PROVE  /\ challenges' \in [Emails -> ChallengeRows \cup {NoRow}]
           /\ challenges'[e] # NoRow
           /\ challenges'[e].id = challenges[e].id
           /\ challenges'[e].attempts = challenges[e].attempts
           /\ challenges'[e].accepted = challenges[e].accepted
           /\ challenges'[e].consumed
           /\ OtherRowsKept(e)
<1>1. challenges[e] \in ChallengeRows /\ challenges \in [Emails -> ChallengeRows \cup {NoRow}]
  BY DEF Typed
<1>2. challenges'[e] \in ChallengeRows
  BY <1>1 DEF ChallengeRows
<1> QED BY <1>1, <1>2, NoRowIsNone DEF ChallengeRows, OtherRowsKept

\* The statement that accepts a code (email-identity.js:172) sets that column only.
LEMMA RowAccepted ==
    ASSUME Typed, NEW e \in Emails, challenges[e] # NoRow,
           challenges' = [challenges EXCEPT ![e].accepted = TRUE]
    PROVE  /\ challenges' \in [Emails -> ChallengeRows \cup {NoRow}]
           /\ challenges'[e] # NoRow
           /\ challenges'[e].id = challenges[e].id
           /\ challenges'[e].attempts = challenges[e].attempts
           /\ challenges'[e].consumed = challenges[e].consumed
           /\ OtherRowsKept(e)
<1>1. challenges[e] \in ChallengeRows /\ challenges \in [Emails -> ChallengeRows \cup {NoRow}]
  BY DEF Typed
<1>2. challenges'[e] \in ChallengeRows
  BY <1>1 DEF ChallengeRows
<1> QED BY <1>1, <1>2, NoRowIsNone DEF ChallengeRows, OtherRowsKept

\* The statement that counts an attempt (email-identity.js:180) adds one, within the bound.
LEMMA RowAttempted ==
    ASSUME Typed, NEW e \in Emails, challenges[e] # NoRow,
           challenges[e].attempts < MaxAttempts,
           challenges' = [challenges EXCEPT ![e].attempts = @ + 1]
    PROVE  /\ challenges' \in [Emails -> ChallengeRows \cup {NoRow}]
           /\ challenges'[e] # NoRow
           /\ challenges'[e].id = challenges[e].id
           /\ challenges'[e].attempts = challenges[e].attempts + 1
           /\ challenges'[e].accepted = challenges[e].accepted
           /\ challenges'[e].consumed = challenges[e].consumed
           /\ OtherRowsKept(e)
<1>1. challenges[e] \in ChallengeRows /\ challenges \in [Emails -> ChallengeRows \cup {NoRow}]
  BY DEF Typed
<1>2. challenges'[e] \in ChallengeRows
  BY <1>1, IdentityAssumption DEF ChallengeRows
<1> QED BY <1>1, <1>2, NoRowIsNone DEF ChallengeRows, OtherRowsKept

\* Every statement of a request for a code keeps the types.
LEMMA TypedSender ==
    ASSUME Typed, NEW s \in Senders,
           \/ \E e \in Emails : AskCode(s, e)
           \/ TakeCooldown(s) \/ InsertChallenge(s) \/ Delivered(s) \/ Undelivered(s)
           \/ Accept(s) \/ Withdraw(s) \/ SenderDies(s)
    PROVE  Typed'
<1> USE DEF store, flight, ghosts
<1>1. CASE \E e \in Emails : AskCode(s, e)
  BY <1>1 DEF AskCode, Typed, SenderStates
<1>2. CASE TakeCooldown(s)
  BY <1>2, SenderFacts DEF TakeCooldown, Typed, SenderStates
<1>3. CASE InsertChallenge(s)
  BY <1>3, SenderFacts, MintedIsNew, IdentityAssumption
     DEF InsertChallenge, Typed, SenderStates, PrunedChallenges, PrunedSessions, ChallengeRows
<1>4. CASE Delivered(s)
  BY <1>4, SenderFacts DEF Delivered, Typed, SenderStates
<1>5. CASE Undelivered(s)
  BY <1>5, SenderFacts DEF Undelivered, Typed, SenderStates
<1>6. CASE Accept(s)
  <2> DEFINE e == sender[s].email
  <2>1. e \in Emails
    BY <1>6, SenderFacts DEF Accept
  <2>2. challenges' \in [Emails -> ChallengeRows \cup {NoRow}]
    <3>1. CASE Holds(e, sender[s].id)
      <4>1. challenges' = [challenges EXCEPT ![e].accepted = TRUE]
        BY <1>6, <3>1 DEF Accept
      <4> QED BY <2>1, <3>1, <4>1, RowAccepted DEF Holds
    <3>2. CASE ~Holds(e, sender[s].id)
      BY <1>6, <2>1, <3>2 DEF Accept, Typed
    <3> QED BY <3>1, <3>2
  <2> QED BY <1>6, <2>2 DEF Accept, Typed, SenderStates
<1>7. CASE Withdraw(s)
  BY <1>7, SenderFacts DEF Withdraw, Typed, SenderStates
<1>8. CASE SenderDies(s)
  BY <1>8 DEF SenderDies, Typed, SenderStates
<1> QED BY <1>1, <1>2, <1>3, <1>4, <1>5, <1>6, <1>7, <1>8

\* Every statement of a verification keeps the types.
LEMMA TypedVerifier ==
    ASSUME Typed, NEW v \in Verifiers,
           \/ \E e \in Emails, i \in Ids, right \in BOOLEAN : AskVerify(v, e, i, right)
           \/ Attempt(v) \/ Consume(v) \/ OpenSession(v) \/ VerifierDies(v)
    PROVE  Typed'
<1> USE DEF store, flight, ghosts
<1>1. CASE \E e \in Emails, i \in Ids, right \in BOOLEAN : AskVerify(v, e, i, right)
  BY <1>1 DEF AskVerify, Typed, VerifierStates
<1>2. CASE Attempt(v)
  BY <1>2, VerifierFacts, NoRowIsNone, IdentityAssumption
     DEF Attempt, Typed, VerifierStates, Attemptable, Holds, ChallengeRows
<1>3. CASE Consume(v)
  <2> DEFINE r == verifier[v]
  <2>1. r.pc = "consume" /\ r \in [pc: {"attempt", "consume", "session"}, email: Emails,
                                   id: Ids, right: BOOLEAN, time: Nat]
    BY <1>3, VerifierFacts DEF Consume
  <2>2. challenges' \in [Emails -> ChallengeRows \cup {NoRow}]
    <3>1. CASE UNCHANGED challenges
      BY <3>1 DEF Typed
    <3>2. CASE /\ Holds(r.email, r.id)
               /\ challenges' = [challenges EXCEPT ![r.email].consumed = TRUE]
      BY <2>1, <3>2, RowConsumed DEF Holds
    <3> QED BY <1>3, <3>1, <3>2 DEF Consume
  <2>3. verifier' \in [Verifiers -> VerifierStates]
    BY <1>3, <2>1 DEF Consume, Typed, VerifierStates
  <2> QED BY <1>3, <2>2, <2>3 DEF Consume, Typed
<1>4. CASE OpenSession(v)
  BY <1>4, VerifierFacts, MintedIsNew, NoRowIsNone, IdentityAssumption
     DEF OpenSession, Typed, VerifierStates, UserRows, SessionRows, UserWith
<1>5. CASE VerifierDies(v)
  BY <1>5 DEF VerifierDies, Typed, VerifierStates
<1> QED BY <1>1, <1>2, <1>3, <1>4, <1>5

\* The batch of a deletion keeps the types.
LEMMA TypedDeleter ==
    ASSUME Typed, NEW x \in Deleters,
           \/ \E t \in Tokens : AskDeletion(x, t)
           \/ DeleteAccount(x) \/ DeleterDies(x)
    PROVE  Typed'
<1> USE DEF store, flight, ghosts
<1>1. CASE \E t \in Tokens : AskDeletion(x, t)
  BY <1>1, NoRowIsNone DEF AskDeletion, Typed, DeleterStates, Valid, SessionRows
<1>2. CASE DeleteAccount(x)
  <2> DEFINE r == deleter[x]
  <2>1. r \in [pc: {"delete"}, token: Tokens, user: Uids, time: Nat]
    BY <1>2, DeleterFacts DEF DeleteAccount
  <2>2. DOMAIN deletions' \subseteq Uids
    BY <1>2, <2>1 DEF DeleteAccount, Typed
  <2>3. users' \in [Uids -> UserRows \cup {NoRow}]
    <3>1. \A u \in Uids : users[u] # NoRow => [users[u] EXCEPT !.state = "disabled"] \in UserRows
      BY DEF Typed, UserRows
    <3> QED BY <1>2, <3>1 DEF DeleteAccount, Typed
  <2>4. sessions' \in [Tokens -> SessionRows \cup {NoRow}]
    <3>1. \A t \in Tokens : sessions[t] # NoRow => [sessions[t] EXCEPT !.revoked = TRUE] \in SessionRows
      BY DEF Typed, SessionRows
    <3> QED BY <1>2, <3>1 DEF DeleteAccount, RevokedOf, Typed
  <2>5. challenges' \in [Emails -> ChallengeRows \cup {NoRow}]
    BY <1>2 DEF DeleteAccount, ForgottenEmails, Typed
  <2>6. deleter' \in [Deleters -> DeleterStates]
    BY <1>2 DEF DeleteAccount, Typed, DeleterStates
  <2> QED BY <1>2, <2>2, <2>3, <2>4, <2>5, <2>6 DEF DeleteAccount, Typed
<1>3. CASE DeleterDies(x)
  BY <1>3 DEF DeleterDies, Typed, DeleterStates
<1> QED BY <1>1, <1>2, <1>3

\* Every sweep of the maintenance keeps the types.
LEMMA TypedJanitor ==
    ASSUME Typed, NEW j \in Janitors, Maintain(j) \/ JanitorDies(j)
    PROVE  Typed'
<1> USE DEF store, flight, ghosts
<1>1. CASE StartMaintenance(j)
  BY <1>1 DEF StartMaintenance, Typed, JanitorStates
<1>2. CASE SweepChallenges(j)
  BY <1>2, JanitorFacts DEF SweepChallenges, Typed, JanitorStates, PrunedChallenges
<1>3. CASE SweepSessions(j)
  BY <1>3, JanitorFacts DEF SweepSessions, Typed, JanitorStates
<1>4. CASE SweepCooldowns(j)
  BY <1>4, JanitorFacts DEF SweepCooldowns, Typed, JanitorStates
<1>5. CASE PurgeProfile(j)
  BY <1>5, JanitorFacts DEF PurgeProfile, Purged, Typed, JanitorStates, ForgottenEmails, Without
<1>6. CASE EndMaintenance(j)
  BY <1>6 DEF EndMaintenance, Typed, JanitorStates
<1>7. CASE JanitorDies(j)
  BY <1>7 DEF JanitorDies, Typed, JanitorStates
<1> QED BY <1>1, <1>2, <1>3, <1>4, <1>5, <1>6, <1>7 DEF Maintain

-----------------------------------------------------------------------------
(* What a step leaves of the tables                                         *)

\* Rows of the step were rows before, with the same id, and stay consumed.
RowsStay ==
    \A e \in Emails :
        challenges'[e] # NoRow =>
            /\ challenges[e] # NoRow
            /\ challenges'[e].id = challenges[e].id
            /\ challenges[e].consumed => challenges'[e].consumed

SessionsStay ==
    \A t \in Tokens :
        sessions'[t] # NoRow =>
            /\ sessions[t] # NoRow
            /\ sessions'[t].from = sessions[t].from
            /\ sessions'[t].user = sessions[t].user

UsersStay == \A u \in Uids : users'[u] # NoRow => users[u] # NoRow

StoreStays == RowsStay /\ SessionsStay /\ UsersStay /\ spent' = spent

\* Every step but the insertion of a challenge and the opening of a session.
LEMMA StoreStaysUnchanged == ASSUME UNCHANGED <<store, spent>> PROVE StoreStays
BY DEF store, StoreStays, RowsStay, SessionsStay, UsersStay

\* A request for a code that does not insert leaves the tables as they were.
LEMMA StoreStaysSender ==
    ASSUME Typed, NEW s \in Senders,
           \/ \E e \in Emails : AskCode(s, e)
           \/ TakeCooldown(s) \/ Delivered(s) \/ Undelivered(s)
           \/ Accept(s) \/ Withdraw(s) \/ SenderDies(s)
    PROVE  StoreStays
<1> USE DEF store, flight, ghosts
<1>1. CASE UNCHANGED <<store, spent>>
  BY <1>1, StoreStaysUnchanged
<1>2. CASE TakeCooldown(s)
  BY <1>2 DEF TakeCooldown, StoreStays, RowsStay, SessionsStay, UsersStay
<1>3. CASE Accept(s)
  <2>1. sender[s].email \in Emails
    BY <1>3, SenderFacts DEF Accept
  <2>2. CASE Holds(sender[s].email, sender[s].id)
    <3>1. challenges' = [challenges EXCEPT ![sender[s].email].accepted = TRUE]
      BY <1>3, <2>2 DEF Accept
    <3>2. RowsStay
      BY <2>1, <2>2, <3>1, RowAccepted DEF Holds, RowsStay, OtherRowsKept
    <3> QED BY <1>3, <3>2 DEF Accept, StoreStays, SessionsStay, UsersStay
  <2>3. CASE ~Holds(sender[s].email, sender[s].id)
    BY <1>3, <2>1, <2>3, StoreStaysUnchanged DEF Accept, Typed
  <2> QED BY <2>2, <2>3
<1>4. CASE Withdraw(s)
  <2>1. RowsStay
    BY <1>4, SenderFacts DEF Withdraw, RowsStay, Typed
  <2> QED BY <1>4, <2>1 DEF Withdraw, StoreStays, SessionsStay, UsersStay
<1> QED BY <1>1, <1>2, <1>3, <1>4 DEF AskCode, Delivered, Undelivered, SenderDies

\* A verification that opens no session leaves the tables as they were.
LEMMA StoreStaysVerifier ==
    ASSUME Typed, NEW v \in Verifiers,
           \/ \E e \in Emails, i \in Ids, right \in BOOLEAN : AskVerify(v, e, i, right)
           \/ Attempt(v) \/ Consume(v) \/ VerifierDies(v)
    PROVE  StoreStays
<1> USE DEF store, flight, ghosts
<1> DEFINE r == verifier[v]
<1>1. CASE UNCHANGED <<store, spent>>
  BY <1>1, StoreStaysUnchanged
<1>2. CASE Attempt(v)
  <2>1. r.email \in Emails
    BY <1>2, VerifierFacts DEF Attempt
  <2>2. CASE Attemptable(r.email, r.id, r.time)
    <3>1. RowsStay
      BY <1>2, <2>1, <2>2, RowAttempted DEF Attempt, Attemptable, Holds, RowsStay, OtherRowsKept
    <3> QED BY <1>2, <3>1 DEF Attempt, StoreStays, SessionsStay, UsersStay
  <2>3. CASE ~Attemptable(r.email, r.id, r.time)
    BY <1>2, <2>3, StoreStaysUnchanged DEF Attempt
  <2> QED BY <2>2, <2>3
<1>3. CASE Consume(v)
  <2>1. r.email \in Emails
    BY <1>3, VerifierFacts DEF Consume
  <2>2. CASE /\ Holds(r.email, r.id)
             /\ challenges' = [challenges EXCEPT ![r.email].consumed = TRUE]
    <3>1. RowsStay
      BY <2>1, <2>2, RowConsumed DEF Holds, RowsStay, OtherRowsKept
    <3> QED BY <1>3, <3>1 DEF Consume, StoreStays, SessionsStay, UsersStay
  <2>3. CASE UNCHANGED challenges
    BY <1>3, <2>3, StoreStaysUnchanged DEF Consume
  <2> QED BY <1>3, <2>2, <2>3 DEF Consume
<1> QED BY <1>1, <1>2, <1>3 DEF AskVerify, VerifierDies

\* A session whose row is revoked is the same session.
LEMMA Revoking ==
    ASSUME Typed, NEW t \in Tokens, sessions[t] # NoRow
    PROVE  /\ [sessions[t] EXCEPT !.revoked = TRUE] # NoRow
           /\ [sessions[t] EXCEPT !.revoked = TRUE].from = sessions[t].from
           /\ [sessions[t] EXCEPT !.revoked = TRUE].user = sessions[t].user
           /\ [sessions[t] EXCEPT !.revoked = TRUE].revoked
<1>1. sessions[t] \in SessionRows
  BY DEF Typed
<1>2. [sessions[t] EXCEPT !.revoked = TRUE] \in SessionRows
  BY <1>1 DEF SessionRows
<1> QED BY <1>1, <1>2, NoRowIsNone DEF SessionRows

\* Signing out revokes a session and removes nothing.
LEMMA StoreStaysSignOut == ASSUME Typed, NEW t \in Tokens, SignOut(t) PROVE StoreStays
<1>1. SessionsStay
  BY Revoking DEF SignOut, SessionsStay, Valid, Typed
<1> QED BY <1>1 DEF SignOut, StoreStays, RowsStay, UsersStay, ghosts

\* A deletion removes codes and revokes sessions; it adds nothing.
LEMMA StoreStaysDeleter ==
    ASSUME Typed, NEW x \in Deleters,
           \/ \E t \in Tokens : AskDeletion(x, t)
           \/ DeleteAccount(x) \/ DeleterDies(x)
    PROVE  StoreStays
<1> USE DEF store, flight, ghosts
<1>1. CASE UNCHANGED <<store, spent>>
  BY <1>1, StoreStaysUnchanged
<1>2. CASE DeleteAccount(x)
  <2>1. RowsStay
    BY <1>2 DEF DeleteAccount, RowsStay, ForgottenEmails
  <2>2. SessionsStay
    BY <1>2, Revoking DEF DeleteAccount, SessionsStay, RevokedOf
  <2>3. UsersStay
    BY <1>2 DEF DeleteAccount, UsersStay
  <2> QED BY <1>2, <2>1, <2>2, <2>3 DEF DeleteAccount, StoreStays
<1> QED BY <1>1, <1>2 DEF AskDeletion, DeleterDies

\* The sweeps only remove rows.
LEMMA StoreStaysJanitor ==
    ASSUME Typed, NEW j \in Janitors, Maintain(j) \/ JanitorDies(j)
    PROVE  StoreStays
<1> USE DEF store, flight, ghosts
<1>1. CASE UNCHANGED <<store, spent>>
  BY <1>1, StoreStaysUnchanged
<1>2. CASE SweepChallenges(j)
  BY <1>2 DEF SweepChallenges, PrunedChallenges, StoreStays, RowsStay, SessionsStay, UsersStay
<1>3. CASE SweepSessions(j)
  BY <1>3 DEF SweepSessions, StoreStays, RowsStay, SessionsStay, UsersStay
<1>4. CASE SweepCooldowns(j)
  BY <1>4 DEF SweepCooldowns, StoreStays, RowsStay, SessionsStay, UsersStay
<1>5. CASE PurgeProfile(j)
  <2>1. RowsStay
    BY <1>5 DEF PurgeProfile, Purged, ForgottenEmails, RowsStay
  <2>2. SessionsStay
    BY <1>5 DEF PurgeProfile, Purged, SessionsStay
  <2>3. UsersStay
    BY <1>5 DEF PurgeProfile, Purged, UsersStay, Typed
  <2> QED BY <1>5, <2>1, <2>2, <2>3 DEF PurgeProfile, StoreStays
<1> QED BY <1>1, <1>2, <1>3, <1>4, <1>5
        DEF Maintain, StartMaintenance, EndMaintenance, JanitorDies

-----------------------------------------------------------------------------
(* Names                                                                    *)

\* A step that adds no row refers to no name that was not minted.
LEMMA MintedRowsStay == ASSUME Typed, MintedRows, StoreStays PROVE MintedRows'
BY DEF MintedRows, StoreStays, RowsStay, SessionsStay, UsersStay

\* A step that adds no row gives no id to two rows.
LEMMA OneRowStays == ASSUME OneRowPerId, StoreStays PROVE OneRowPerId'
BY DEF OneRowPerId, StoreStays, RowsStay

\* A new challenge takes the place of its email's row, and no other is new.
InsertedAs(s, i) ==
    /\ i \notin spent /\ spent' = spent \cup {i}
    /\ sender[s].email \in Emails /\ sender[s].time \in Nat
    /\ challenges'[sender[s].email] =
          [id |-> i, expires |-> sender[s].time + ChallengeTTL, attempts |-> 0,
           accepted |-> FALSE, consumed |-> FALSE]
    /\ \A e \in Emails \ {sender[s].email} :
          challenges'[e] # NoRow => challenges'[e] = challenges[e]
    /\ sender' = [sender EXCEPT ![s] =
          [pc |-> "deliver", email |-> sender[s].email, id |-> i]]
    /\ SessionsStay
    /\ UNCHANGED <<users, deletions, verifier, deleter, janitor, mailed, guesses, now>>

\* That is what the insertion of a challenge does.
LEMMA Inserted ==
    ASSUME Typed, NEW s \in Senders, InsertChallenge(s)
    PROVE  \E i \in Ids : InsertedAs(s, i)
<1>1. PICK i \in Minted(Ids) :
        /\ challenges' = [PrunedChallenges(sender[s].time) EXCEPT ![sender[s].email] =
               [id |-> i, expires |-> sender[s].time + ChallengeTTL, attempts |-> 0,
                accepted |-> FALSE, consumed |-> FALSE]]
        /\ spent' = spent \cup {i}
        /\ sender' = [sender EXCEPT ![s] =
              [pc |-> "deliver", email |-> sender[s].email, id |-> i]]
  BY DEF InsertChallenge
<1>2. i \in Ids /\ i \notin spent
  BY MintedIsNew
<1>3. sender[s].email \in Emails /\ sender[s].time \in Nat
  BY SenderFacts DEF InsertChallenge
<1>4. SessionsStay
  BY DEF InsertChallenge, SessionsStay, PrunedSessions
<1> QED BY <1>1, <1>2, <1>3, <1>4 DEF InsertChallenge, PrunedChallenges, InsertedAs

\* A session is opened under a new token, or none for a disabled user; its
\* user is the one of the email, or new.
OpenedAs(v, u, t) ==
    /\ t \notin spent /\ spent' = spent \cup {u, t}
    /\ verifier[v] # Idle /\ Opening(v)
    /\ verifier[v].id \in Ids /\ verifier[v].time \in Nat
    /\ users[u] = NoRow => u \notin spent
    /\ users' = [users EXCEPT ![u] =
          IF users[u] = NoRow THEN [email |-> verifier[v].email, state |-> "enabled"]
          ELSE users[u]]
    /\ sessions' = [sessions EXCEPT ![t] =
          IF Disabled(u) THEN NoRow
          ELSE [user |-> u, from |-> verifier[v].id, created |-> verifier[v].time,
                expires |-> verifier[v].time + SessionTTL, revoked |-> FALSE]]
    /\ verifier' = [verifier EXCEPT ![v] = Idle]
    /\ UNCHANGED <<challenges, deletions, sender, deleter, janitor, mailed, guesses, now>>

\* That is what the batch of a verification does.
LEMMA Opened ==
    ASSUME Typed, NEW v \in Verifiers, OpenSession(v)
    PROVE  \E u \in Uids, t \in Tokens : OpenedAs(v, u, t)
<1>1. PICK u \in Uids, t \in Minted(Tokens) :
        /\ IF UserWith(verifier[v].email) = {} THEN u \in Minted(Uids)
           ELSE u \in UserWith(verifier[v].email)
        /\ users' = [users EXCEPT ![u] =
              IF @ = NoRow THEN [email |-> verifier[v].email, state |-> "enabled"] ELSE @]
        /\ sessions' = [sessions EXCEPT ![t] =
              IF Disabled(u) THEN NoRow
              ELSE [user |-> u, from |-> verifier[v].id, created |-> verifier[v].time,
                    expires |-> verifier[v].time + SessionTTL, revoked |-> FALSE]]
        /\ spent' = spent \cup {u, t}
  BY DEF OpenSession
<1>2. t \in Tokens /\ t \notin spent
  BY MintedIsNew
<1>3. users[u] = NoRow => u \notin spent
  BY <1>1, MintedIsNew DEF UserWith
<1>4. verifier[v].id \in Ids /\ verifier[v].time \in Nat /\ verifier[v] # Idle /\ Opening(v)
  BY VerifierFacts DEF OpenSession, Opening
<1>5. users' = [users EXCEPT ![u] =
          IF users[u] = NoRow THEN [email |-> verifier[v].email, state |-> "enabled"]
          ELSE users[u]]
  BY <1>1
<1> QED BY <1>1, <1>2, <1>3, <1>4, <1>5 DEF OpenSession, OpenedAs

\* Every step uses minted names only, and no id for two rows.
LEMMA NamesKept == ASSUME Rows, Next PROVE Minting' /\ OneRowPerId'
<1> USE DEF flight, ghosts, store
<1>1. ASSUME NEW s \in Senders,
             \/ \E e \in Emails : AskCode(s, e)
             \/ TakeCooldown(s) \/ Delivered(s) \/ Undelivered(s)
             \/ Accept(s) \/ Withdraw(s) \/ SenderDies(s)
      PROVE  Minting' /\ OneRowPerId'
  <2>1. StoreStays
    BY <1>1, StoreStaysSender DEF Rows
  <2>2. \A r \in Senders :
           sender'[r].pc \in {"deliver", "accept", "withdraw"} =>
              /\ sender[r].pc \in {"deliver", "accept", "withdraw"}
              /\ sender'[r].id = sender[r].id
    BY <1>1, SenderFacts
       DEF Rows, Typed, SenderStates, AskCode, TakeCooldown, Delivered, Undelivered, Accept,
           Withdraw, SenderDies, Idle
  <2>3. MintedFlight'
    BY <1>1, <2>1, <2>2
       DEF Rows, Minting, MintedFlight, StoreStays, AskCode, TakeCooldown, Delivered,
           Undelivered, Accept, Withdraw, SenderDies
  <2> QED BY <2>1, <2>3, MintedRowsStay, OneRowStays DEF Rows, Minting
<1>2. ASSUME NEW s \in Senders, InsertChallenge(s)
      PROVE  Minting' /\ OneRowPerId'
  <2>1. PICK i \in Ids : InsertedAs(s, i)
    BY <1>2, Inserted DEF Rows
  <2> USE DEF InsertedAs
  <2>2. MintedRows'
    BY <2>1 DEF Rows, Minting, MintedRows, SessionsStay
  <2>3. MintedFlight'
    BY <2>1 DEF Rows, Minting, MintedFlight, Typed
  <2>4. OneRowPerId'
    BY <2>1 DEF Rows, Minting, MintedRows, OneRowPerId
  <2> QED BY <2>2, <2>3, <2>4 DEF Minting
<1>3. ASSUME NEW v \in Verifiers,
             \/ \E e \in Emails, i \in Ids, right \in BOOLEAN : AskVerify(v, e, i, right)
             \/ Attempt(v) \/ Consume(v) \/ VerifierDies(v)
      PROVE  Minting' /\ OneRowPerId'
  <2>1. StoreStays
    BY <1>3, StoreStaysVerifier DEF Rows
  <2>2. \A w \in Verifiers : verifier'[w] # Idle => verifier'[w].id \in spent
    BY <1>3, VerifierFacts
       DEF Rows, Minting, MintedFlight, Typed, VerifierStates, AskVerify, Attempt, Consume,
           VerifierDies
  <2>3. \A i \in Ids : i \notin spent => guesses'[i] = 0
    BY <1>3, VerifierFacts
       DEF Rows, Minting, MintedFlight, Typed, AskVerify, Attempt, Consume, VerifierDies
  <2>4. MintedFlight'
    BY <1>3, <2>1, <2>2, <2>3
       DEF Rows, Minting, MintedFlight, StoreStays, AskVerify, Attempt, Consume, VerifierDies
  <2> QED BY <2>1, <2>4, MintedRowsStay, OneRowStays DEF Rows, Minting
<1>4. ASSUME NEW v \in Verifiers, OpenSession(v)
      PROVE  Minting' /\ OneRowPerId'
  <2>1. PICK u \in Uids, t \in Tokens : OpenedAs(v, u, t)
    BY <1>4, Opened DEF Rows
  <2> USE DEF OpenedAs
  <2>2. MintedRows'
    BY <2>1 DEF Rows, Minting, MintedRows, MintedFlight, Typed
  <2>3. MintedFlight'
    BY <2>1 DEF Rows, Minting, MintedFlight, Typed
  <2>4. OneRowPerId'
    BY <2>1 DEF Rows, OneRowPerId
  <2> QED BY <2>2, <2>3, <2>4 DEF Minting
<1>5. ASSUME NEW t \in Tokens, SignOut(t) PROVE Minting' /\ OneRowPerId'
  <2>1. StoreStays
    BY <1>5, StoreStaysSignOut DEF Rows
  <2>2. MintedFlight'
    BY <1>5 DEF Rows, Minting, MintedFlight, SignOut
  <2> QED BY <2>1, <2>2, MintedRowsStay, OneRowStays DEF Rows, Minting
<1>6. ASSUME NEW x \in Deleters,
             \/ \E t \in Tokens : AskDeletion(x, t)
             \/ DeleteAccount(x) \/ DeleterDies(x)
      PROVE  Minting' /\ OneRowPerId'
  <2>1. StoreStays
    BY <1>6, StoreStaysDeleter DEF Rows
  <2>2. \A z \in Deleters : deleter'[z] # Idle => deleter'[z].token \in spent
    BY <1>6 DEF Rows, Minting, MintedRows, MintedFlight, Typed, AskDeletion, DeleteAccount,
                DeleterDies, Valid
  <2>3. MintedFlight'
    BY <1>6, <2>1, <2>2
       DEF Rows, Minting, MintedFlight, StoreStays, AskDeletion, DeleteAccount, DeleterDies
  <2> QED BY <2>1, <2>3, MintedRowsStay, OneRowStays DEF Rows, Minting
<1>7. ASSUME NEW j \in Janitors, Maintain(j) \/ JanitorDies(j)
      PROVE  Minting' /\ OneRowPerId'
  <2>1. StoreStays
    BY <1>7, StoreStaysJanitor DEF Rows
  <2>2. MintedFlight'
    BY <1>7 DEF Rows, Minting, MintedFlight, Maintain, StartMaintenance, SweepChallenges,
                SweepSessions, SweepCooldowns, PurgeProfile, EndMaintenance, JanitorDies
  <2> QED BY <2>1, <2>2, MintedRowsStay, OneRowStays DEF Rows, Minting
<1>8. CASE Tick
  BY <1>8 DEF Tick, Rows, Minting, MintedRows, MintedFlight, OneRowPerId
<1> QED BY <1>1, <1>2, <1>3, <1>4, <1>5, <1>6, <1>7, <1>8 DEF Next

-----------------------------------------------------------------------------
(* The codes                                                                *)

\* The comparisons of a challenge and who vouches for it do not change.
CodesStay ==
    /\ \A e \in Emails :
          challenges'[e] # NoRow =>
              /\ challenges[e] # NoRow
              /\ challenges'[e].id = challenges[e].id
              /\ challenges'[e].attempts = challenges[e].attempts
              /\ challenges'[e].accepted => challenges[e].accepted
    /\ \A s \in Senders :
          sender'[s].pc = "accept" =>
              \/ sender[s].pc = "accept" /\ sender'[s].id = sender[s].id
              \/ sender'[s].id \in mailed'
    /\ mailed \subseteq mailed' /\ guesses' = guesses

\* Where the codes stay, the counts and the acceptances stay right.
LEMMA CodesStayInv == ASSUME CodeInv, CodesStay PROVE CodeInv'
<1>1. Counted'
  BY DEF CodeInv, Counted, CodesStay
<1>2. GuessesBounded'
  BY DEF CodeInv, CodeIsProof, GuessesBounded, CodesStay
<1>3. AcceptedWasMailed'
  BY DEF CodeInv, CodeIsProof, AcceptedWasMailed, CodesStay
<1> QED BY <1>1, <1>2, <1>3 DEF CodeInv, CodeIsProof

\* Every step keeps the counts of compared codes and who vouches for a row.
LEMMA CodesKept == ASSUME Rows, CodeInv, Next PROVE CodeInv'
<1> USE DEF flight, ghosts, store
<1>1. ASSUME NEW s \in Senders,
             \/ \E e \in Emails : AskCode(s, e)
             \/ TakeCooldown(s) \/ Delivered(s) \/ Undelivered(s)
             \/ Withdraw(s) \/ SenderDies(s)
      PROVE  CodesStay
  <2>1. \A r \in Senders :
           sender'[r].pc = "accept" =>
              \/ sender[r].pc = "accept" /\ sender'[r].id = sender[r].id
              \/ sender'[r].id \in mailed'
    BY <1>1, SenderFacts
       DEF Rows, Typed, AskCode, TakeCooldown, Delivered, Undelivered, Withdraw, SenderDies, Idle
  <2>2. mailed \subseteq mailed'
    BY <1>1 DEF AskCode, TakeCooldown, Delivered, Undelivered, Withdraw, SenderDies
  <2>3. CASE Withdraw(s)
    BY <2>1, <2>2, <2>3 DEF Rows, Typed, Withdraw, CodesStay
  <2>4. CASE UNCHANGED <<challenges, guesses>>
    BY <2>1, <2>2, <2>4 DEF CodesStay
  <2> QED BY <1>1, <2>3, <2>4 DEF AskCode, TakeCooldown, Delivered, Undelivered, SenderDies
<1>2. ASSUME NEW s \in Senders, InsertChallenge(s) PROVE CodeInv'
  <2>1. PICK i \in Ids : InsertedAs(s, i)
    BY <1>2, Inserted DEF Rows
  <2> USE DEF InsertedAs
  <2>2. guesses[i] = 0
    BY <2>1 DEF Rows, Minting, MintedFlight
  <2>3. Counted'
    BY <2>1, <2>2 DEF Rows, Typed, CodeInv, Counted
  <2>4. CodeIsProof'
    BY <2>1 DEF CodeInv, CodeIsProof, GuessesBounded, AcceptedWasMailed
  <2> QED BY <2>3, <2>4 DEF CodeInv
<1>3. ASSUME NEW s \in Senders, Accept(s) PROVE CodeInv'
  <2> DEFINE e == sender[s].email
  <2>1. e \in Emails /\ sender[s].id \in Ids /\ sender[s].id \in mailed
    BY <1>3, SenderFacts DEF Rows, Accept, CodeInv, Counted
  <2>2. \A r \in Senders : sender'[r].pc = "accept" => sender'[r] = sender[r]
    BY <1>3 DEF Rows, Typed, Accept, Idle
  <2>3. CASE Holds(e, sender[s].id)
    <3>1. challenges' = [challenges EXCEPT ![e].accepted = TRUE]
      BY <1>3, <2>3 DEF Accept
    <3>2. /\ challenges'[e] # NoRow /\ challenges'[e].id = sender[s].id
          /\ challenges'[e].attempts = challenges[e].attempts
          /\ OtherRowsKept(e)
      BY <2>1, <2>3, <3>1, RowAccepted DEF Rows, Holds
    <3>3. Counted'
      BY <1>3, <2>2, <2>3, <3>2 DEF CodeInv, Counted, OtherRowsKept, Accept, Holds
    <3>4. CodeIsProof'
      BY <1>3, <2>1, <3>2
         DEF CodeInv, CodeIsProof, GuessesBounded, AcceptedWasMailed, OtherRowsKept, Accept
    <3> QED BY <3>3, <3>4 DEF CodeInv
  <2>4. CASE ~Holds(e, sender[s].id)
    <3>1. CodesStay
      BY <1>3, <2>1, <2>2, <2>4 DEF Rows, Typed, Accept, CodesStay
    <3> QED BY <3>1, CodesStayInv
  <2> QED BY <2>3, <2>4
<1>4. ASSUME NEW v \in Verifiers, Attempt(v) PROVE CodeInv'
  <2> DEFINE r == verifier[v]
             e == r.email
  <2>1. e \in Emails /\ r.id \in Ids
    BY <1>4, VerifierFacts DEF Rows, Attempt
  <2>2. CASE Attemptable(e, r.id, r.time)
    <3>1. /\ challenges' = [challenges EXCEPT ![e].attempts = @ + 1]
          /\ guesses' = [guesses EXCEPT ![r.id] = @ + 1]
      BY <1>4, <2>2 DEF Attempt
    <3>2. /\ challenges'[e] # NoRow /\ challenges'[e].id = r.id
          /\ challenges'[e].attempts = challenges[e].attempts + 1
          /\ challenges'[e].accepted = challenges[e].accepted
          /\ OtherRowsKept(e)
      BY <2>1, <2>2, <3>1, RowAttempted DEF Rows, Attemptable, Holds
    <3>3. guesses'[r.id] = challenges[e].attempts + 1 /\ challenges[e].attempts + 1 <= MaxAttempts
      <4>1. guesses[r.id] = challenges[e].attempts
        BY <2>1, <2>2 DEF CodeInv, Counted, Attemptable, Holds
      <4>2. challenges[e].attempts \in Nat /\ challenges[e].attempts < MaxAttempts
        BY <2>1, <2>2, IdentityAssumption
           DEF Rows, Typed, Attemptable, Holds, ChallengeRows
      <4> QED BY <2>1, <3>1, <4>1, <4>2, IdentityAssumption DEF Rows, Typed
    <3>4. \A d \in Emails : (d # e /\ challenges[d] # NoRow) => challenges[d].id # r.id
      BY <2>1, <2>2 DEF Rows, OneRowPerId, Attemptable, Holds
    <3>5. \A i \in Ids : i # r.id => guesses'[i] = guesses[i]
      BY <3>1 DEF Rows, Typed
    <3>6. \A d \in Emails : challenges[d] # NoRow => challenges[d].id \in Ids
      BY DEF Rows, Typed, ChallengeRows
    <3>7. Counted'
      BY <1>4, <3>2, <3>3, <3>4, <3>5, <3>6 DEF CodeInv, Counted, OtherRowsKept, Attempt
    <3>8. GuessesBounded'
      BY <3>3, <3>5 DEF CodeInv, CodeIsProof, GuessesBounded
    <3>9. AcceptedWasMailed'
      BY <1>4, <2>2, <3>2
         DEF CodeInv, CodeIsProof, AcceptedWasMailed, OtherRowsKept, Attempt, Attemptable, Holds
    <3> QED BY <3>7, <3>8, <3>9 DEF CodeInv, CodeIsProof
  <2>3. CASE ~Attemptable(e, r.id, r.time)
    <3>1. CodesStay
      BY <1>4, <2>3 DEF Attempt, CodesStay
    <3> QED BY <3>1, CodesStayInv
  <2> QED BY <2>2, <2>3
<1>5. ASSUME NEW v \in Verifiers,
             \/ \E e \in Emails, i \in Ids, right \in BOOLEAN : AskVerify(v, e, i, right)
             \/ Consume(v) \/ OpenSession(v) \/ VerifierDies(v)
      PROVE  CodesStay
  <2>1. CASE /\ Consume(v)
             /\ Holds(verifier[v].email, verifier[v].id)
             /\ challenges' = [challenges EXCEPT ![verifier[v].email].consumed = TRUE]
    <3>1. verifier[v].email \in Emails
      BY <2>1, VerifierFacts DEF Rows, Consume
    <3> QED BY <2>1, <3>1, RowConsumed DEF Rows, Holds, Consume, CodesStay, OtherRowsKept
  <2>2. CASE UNCHANGED <<challenges, sender, mailed, guesses>>
    BY <2>2 DEF CodesStay
  <2> QED BY <1>5, <2>1, <2>2 DEF AskVerify, Consume, OpenSession, VerifierDies
<1>6. ASSUME NEW t \in Tokens, SignOut(t) PROVE CodesStay
  BY <1>6 DEF SignOut, CodesStay
<1>7. ASSUME NEW x \in Deleters,
             \/ \E t \in Tokens : AskDeletion(x, t)
             \/ DeleteAccount(x) \/ DeleterDies(x)
      PROVE  CodesStay
  BY <1>7 DEF AskDeletion, DeleteAccount, ForgottenEmails, DeleterDies, CodesStay
<1>8. ASSUME NEW j \in Janitors, Maintain(j) \/ JanitorDies(j) PROVE CodesStay
  BY <1>8 DEF Maintain, StartMaintenance, SweepChallenges, PrunedChallenges, SweepSessions,
              SweepCooldowns, PurgeProfile, Purged, ForgottenEmails, EndMaintenance,
              JanitorDies, CodesStay
<1>9. CASE Tick
  BY <1>9, CodesStayInv DEF Tick, CodesStay
<1> QED BY <1>1, <1>2, <1>3, <1>4, <1>5, <1>6, <1>7, <1>8, <1>9, CodesStayInv DEF Next

-----------------------------------------------------------------------------
(* The sessions                                                             *)

\* No step but the use of a code and the opening of a session disturbs them.
LEMMA UsesStay ==
    ASSUME UseInv, StoreStays,
           \A v \in Verifiers : Opening(v)' => Opening(v) /\ verifier'[v].id = verifier[v].id
    PROVE  UseInv'
<1>1. OneSessionPerChallenge'
  BY DEF UseInv, StoreStays, SessionsStay, OneSessionPerChallenge
<1>2. UsedOnce'
  BY DEF UseInv, UsedOnce, StoreStays, SessionsStay, RowsStay
<1> QED BY <1>1, <1>2 DEF UseInv

\* Every step keeps a code to one session.
LEMMA UsesKept == ASSUME Rows, UseInv, Next PROVE UseInv'
<1> USE DEF flight, ghosts, store
<1>1. ASSUME NEW s \in Senders,
             \/ \E e \in Emails : AskCode(s, e)
             \/ TakeCooldown(s) \/ Delivered(s) \/ Undelivered(s)
             \/ Accept(s) \/ Withdraw(s) \/ SenderDies(s)
      PROVE  UseInv'
  <2>1. StoreStays
    BY <1>1, StoreStaysSender DEF Rows
  <2>2. UNCHANGED verifier
    BY <1>1 DEF AskCode, TakeCooldown, Delivered, Undelivered, Accept, Withdraw, SenderDies
  <2> QED BY <2>1, <2>2, UsesStay DEF Opening
<1>2. ASSUME NEW s \in Senders, InsertChallenge(s) PROVE UseInv'
  <2>1. PICK i \in Ids : InsertedAs(s, i)
    BY <1>2, Inserted DEF Rows
  <2> USE DEF InsertedAs
  <2>2. /\ \A v \in Verifiers : Opening(v) => verifier[v].id # i
        /\ \A t \in Tokens : sessions[t] # NoRow => sessions[t].from # i
    BY <2>1 DEF Rows, Minting, MintedRows, MintedFlight, Opening, Idle
  <2>3. OneSessionPerChallenge'
    BY <2>1 DEF UseInv, OneSessionPerChallenge, SessionsStay
  <2>4. UsedOnce'
    BY <2>1, <2>2 DEF UseInv, UsedOnce, SessionsStay, Opening
  <2> QED BY <2>3, <2>4 DEF UseInv
<1>3. ASSUME NEW v \in Verifiers,
             \/ \E e \in Emails, i \in Ids, right \in BOOLEAN : AskVerify(v, e, i, right)
             \/ Attempt(v) \/ VerifierDies(v)
      PROVE  UseInv'
  <2>1. StoreStays
    BY <1>3, StoreStaysVerifier DEF Rows
  <2>2. \A w \in Verifiers : Opening(w)' => Opening(w) /\ verifier'[w].id = verifier[w].id
    BY <1>3, VerifierFacts DEF Rows, Typed, Opening, AskVerify, Attempt, VerifierDies, Idle
  <2> QED BY <2>1, <2>2, UsesStay
<1>4. ASSUME NEW v \in Verifiers, Consume(v) PROVE UseInv'
  <2> DEFINE r == verifier[v]
  <2>1. StoreStays
    BY <1>4, StoreStaysVerifier DEF Rows
  <2>2. r.email \in Emails /\ r.id \in Ids /\ r.pc = "consume" /\ verifier[v] # Idle
    BY <1>4, VerifierFacts DEF Rows, Consume
  <2>3. CASE UNCHANGED challenges /\ verifier' = [verifier EXCEPT ![v] = Idle]
    BY <2>1, <2>3, UsesStay DEF Rows, Typed, Opening, Idle
  <2>4. CASE /\ Holds(r.email, r.id) /\ ~challenges[r.email].consumed
             /\ challenges' = [challenges EXCEPT ![r.email].consumed = TRUE]
             /\ verifier' = [verifier EXCEPT ![v].pc = "session"]
    <3>1. /\ challenges'[r.email] # NoRow /\ challenges'[r.email].id = r.id
          /\ challenges'[r.email].consumed /\ OtherRowsKept(r.email)
      BY <2>2, <2>4, RowConsumed DEF Rows, Holds
    <3>2. /\ \A w \in Verifiers : Opening(w) => verifier[w].id # r.id
          /\ \A t \in Tokens : sessions[t] # NoRow => sessions[t].from # r.id
      BY <2>2, <2>4 DEF UseInv, UsedOnce, Holds
    <3>3. \A d \in Emails : (d # r.email /\ challenges[d] # NoRow) => challenges[d].id # r.id
      BY <2>2, <2>4 DEF Rows, OneRowPerId, Holds
    <3>4. /\ verifier'[v].id = r.id
          /\ \A w \in Verifiers : w # v => verifier'[w] = verifier[w]
      BY <2>2, <2>4 DEF Rows, Typed, VerifierStates
    <3>5. UNCHANGED sessions
      BY <1>4 DEF Consume
    <3>6. OneSessionPerChallenge'
      BY <3>5 DEF UseInv, OneSessionPerChallenge
    <3>7. UsedOnce'
      BY <3>1, <3>2, <3>3, <3>4, <3>5 DEF UseInv, UsedOnce, Opening, OtherRowsKept
    <3> QED BY <3>6, <3>7 DEF UseInv
  <2> QED BY <1>4, <2>3, <2>4 DEF Consume
<1>5. ASSUME NEW v \in Verifiers, OpenSession(v) PROVE UseInv'
  <2>1. PICK u \in Uids, t \in Tokens : OpenedAs(v, u, t)
    BY <1>5, Opened DEF Rows
  <2> USE DEF OpenedAs
  <2>2. /\ sessions'[t] # NoRow => sessions'[t].from = verifier[v].id
        /\ \A z \in Tokens : z # t => sessions'[z] = sessions[z]
    BY <2>1 DEF Rows, Typed
  <2>3. \A z \in Tokens : sessions[z] # NoRow => sessions[z].from # verifier[v].id
    BY <2>1 DEF UseInv, UsedOnce
  <2>4. OneSessionPerChallenge'
    BY <2>2, <2>3 DEF UseInv, OneSessionPerChallenge
  <2>5. \A w \in Verifiers : Opening(w)' => w # v /\ verifier'[w] = verifier[w] /\ Opening(w)
    BY <2>1 DEF Rows, Typed, Opening, Idle
  <2>6. UsedOnce'
    BY <2>1, <2>2, <2>5 DEF UseInv, UsedOnce
  <2> QED BY <2>4, <2>6 DEF UseInv
<1>6. ASSUME NEW t \in Tokens, SignOut(t) PROVE UseInv'
  BY <1>6, StoreStaysSignOut, UsesStay DEF Rows, SignOut, Opening
<1>7. ASSUME NEW x \in Deleters,
             \/ \E t \in Tokens : AskDeletion(x, t)
             \/ DeleteAccount(x) \/ DeleterDies(x)
      PROVE  UseInv'
  <2>1. UNCHANGED verifier
    BY <1>7 DEF AskDeletion, DeleteAccount, DeleterDies
  <2> QED BY <1>7, <2>1, StoreStaysDeleter, UsesStay DEF Rows, Opening
<1>8. ASSUME NEW j \in Janitors, Maintain(j) \/ JanitorDies(j) PROVE UseInv'
  <2>1. UNCHANGED verifier
    BY <1>8 DEF Maintain, StartMaintenance, SweepChallenges, SweepSessions, SweepCooldowns,
                PurgeProfile, EndMaintenance, JanitorDies
  <2> QED BY <1>8, <2>1, StoreStaysJanitor, UsesStay DEF Rows, Opening
<1>9. CASE Tick
  BY <1>9, StoreStaysUnchanged, UsesStay DEF Tick, Opening
<1> QED BY <1>1, <1>2, <1>3, <1>4, <1>5, <1>6, <1>7, <1>8, <1>9 DEF Next

-----------------------------------------------------------------------------
(* The codes and the sessions, for every behaviour                          *)

\* Every step keeps the types.
LEMMA TypedKept == ASSUME Typed, Next PROVE Typed'
<1> USE DEF store, flight, ghosts
<1>1. ASSUME NEW t \in Tokens, SignOut(t) PROVE Typed'
  <2>1. sessions[t] # NoRow
    BY <1>1 DEF SignOut, Valid
  <2>2. [sessions[t] EXCEPT !.revoked = TRUE] \in SessionRows
    BY <2>1 DEF Typed, SessionRows
  <2> QED BY <1>1, <2>2 DEF SignOut, Typed
<1>2. CASE Tick
  BY <1>2 DEF Tick, Typed
<1> QED BY <1>1, <1>2, TypedSender, TypedVerifier, TypedDeleter, TypedJanitor DEF Next

\* The invariant of the codes and sessions holds at the start and is kept.
LEMMA ProofInvInit == ASSUME Init PROVE ProofInv
<1>1. Typed
  BY IdentityAssumption
     DEF Init, Typed, SenderStates, VerifierStates, DeleterStates, JanitorStates
<1>2. Minting /\ OneRowPerId
  BY DEF Init, Minting, MintedRows, MintedFlight, OneRowPerId, Idle
<1>3. CodeInv
  BY IdentityAssumption DEF Init, CodeInv, Counted, CodeIsProof, GuessesBounded, AcceptedWasMailed, Idle
<1>4. UseInv
  BY DEF Init, UseInv, UsedOnce, OneSessionPerChallenge, Opening, Idle
<1> QED BY <1>1, <1>2, <1>3, <1>4 DEF ProofInv, Rows

\* The invariant of the codes and sessions is kept.
LEMMA ProofInvStep == ASSUME ProofInv, [Next]_vars PROVE ProofInv'
<1>1. CASE Next
  BY <1>1, TypedKept, NamesKept, CodesKept, UsesKept DEF ProofInv, Rows
<1>2. CASE UNCHANGED vars
  BY <1>2 DEF vars, store, flight, ghosts, ProofInv, Rows, Typed, Minting, MintedRows, MintedFlight,
              OneRowPerId, CodeInv, Counted, CodeIsProof, GuessesBounded, AcceptedWasMailed,
              UseInv, UsedOnce, OneSessionPerChallenge, Opening
<1> QED BY <1>1, <1>2

\* One session for one code, read in the mailbox, however requests for a code
\* and verifications of it interleave, die and are repeated.
THEOREM SessionsProven == Spec => []SessionsAreProven
<1>1. ProofInv => SessionsAreProven
  BY DEF ProofInv, SessionsAreProven, CodeInv, UseInv
<1> QED BY <1>1, ProofInvInit, ProofInvStep, PTL DEF Spec

-----------------------------------------------------------------------------
(* Deletion                                                                 *)

\* Every live session has its user.
UsersExist == \A t \in Tokens : sessions[t] # NoRow => users[sessions[t].user] # NoRow

LockInv == Typed /\ Minting /\ UsersExist /\ RightUser /\ DeletedIsLockedOut

\* Who is disabled, who asked for it and what is revoked do not change.
LocksStay ==
    /\ UNCHANGED <<users, deletions>>
    /\ \A t \in Tokens :
          sessions'[t] # NoRow =>
              /\ sessions[t] # NoRow
              /\ sessions'[t].user = sessions[t].user
              /\ sessions[t].revoked => sessions'[t].revoked

\* Such a step keeps who is locked out, and every session its user.
LEMMA LocksStayInv ==
    ASSUME Typed, UsersExist, DeletedIsLockedOut, LocksStay
    PROVE  UsersExist' /\ DeletedIsLockedOut'
<1>1. UsersExist'
  BY DEF UsersExist, LocksStay
<1>2. DeletedIsLockedOut'
  BY DEF DeletedIsLockedOut, LocksStay, Disabled
<1> QED BY <1>1, <1>2

\* Steps that touch neither the users, the deletion requests nor the sessions.
LEMMA LocksUnchanged == ASSUME UNCHANGED <<users, deletions, sessions>> PROVE LocksStay
BY DEF LocksStay

\* Every step of the system keeps the lock.
LEMMA LockKept == ASSUME LockInv, Next PROVE UsersExist' /\ DeletedIsLockedOut'
<1> USE DEF store, flight, ghosts
<1> SUFFICES ASSUME ~LocksStay PROVE UsersExist' /\ DeletedIsLockedOut'
  BY LocksStayInv DEF LockInv
<1>1. ASSUME NEW s \in Senders,
             \/ \E e \in Emails : AskCode(s, e)
             \/ TakeCooldown(s) \/ InsertChallenge(s) \/ Delivered(s) \/ Undelivered(s)
             \/ Accept(s) \/ Withdraw(s) \/ SenderDies(s)
      PROVE  FALSE
  BY <1>1 DEF LocksStay, AskCode, TakeCooldown, InsertChallenge, PrunedSessions, Delivered,
              Undelivered, Accept, Withdraw, SenderDies
<1>2. ASSUME NEW v \in Verifiers,
             \/ \E e \in Emails, i \in Ids, right \in BOOLEAN : AskVerify(v, e, i, right)
             \/ Attempt(v) \/ Consume(v) \/ VerifierDies(v)
      PROVE  FALSE
  BY <1>2 DEF LocksStay, AskVerify, Attempt, Consume, VerifierDies
<1>3. ASSUME NEW v \in Verifiers, OpenSession(v) PROVE UsersExist' /\ DeletedIsLockedOut'
  <2>1. PICK u \in Uids, t \in Tokens : OpenedAs(v, u, t)
    BY <1>3, Opened DEF LockInv
  <2> USE DEF OpenedAs
  <2>2. /\ users'[u] # NoRow
        /\ \A w \in Uids : users[w] # NoRow => users'[w] = users[w]
        /\ \A w \in Uids : Disabled(w)' <=> Disabled(w)
    <3>1. [email |-> verifier[v].email, state |-> "enabled"] # NoRow
      BY DEF NoRow
    <3> QED BY <2>1, <3>1 DEF LockInv, Typed, Disabled
  <2>3. /\ sessions'[t] # NoRow => sessions'[t].user = u /\ ~Disabled(u)
        /\ \A z \in Tokens : z # t => sessions'[z] = sessions[z]
    BY <2>1 DEF LockInv, Typed
  <2>4. UsersExist'
    BY <2>2, <2>3, NoRowIsNone DEF LockInv, Typed, UsersExist, SessionRows
  <2>5. DeletedIsLockedOut'
    BY <2>1, <2>2, <2>3 DEF LockInv, DeletedIsLockedOut
  <2> QED BY <2>4, <2>5
<1>4. ASSUME NEW t \in Tokens, SignOut(t) PROVE FALSE
  <2>1. sessions[t] # NoRow
    BY <1>4 DEF SignOut, Valid
  <2> QED BY <1>4, <2>1, Revoking DEF LockInv, SignOut, LocksStay, Typed
<1>5. ASSUME NEW x \in Deleters,
             (\E t \in Tokens : AskDeletion(x, t)) \/ DeleterDies(x)
      PROVE  FALSE
  BY <1>5 DEF LocksStay, AskDeletion, DeleterDies
<1>6. ASSUME NEW x \in Deleters, DeleteAccount(x) PROVE UsersExist' /\ DeletedIsLockedOut'
  <2> DEFINE u == deleter[x].user
             S == {u} \cap DOMAIN deletions'
  <2>1. u \in Uids /\ deleter[x].token \in Tokens /\ deleter[x] # Idle
    BY <1>6, DeleterFacts DEF LockInv, DeleteAccount
  <2>2. \A w \in Uids : w \in DOMAIN deletions' <=> (w \in DOMAIN deletions \/ w \in S)
    BY <1>6 DEF DeleteAccount
  <2>3. u \in DOMAIN deletions' => users[u] # NoRow
    <3>1. CASE u \in DOMAIN deletions
      BY <2>1, <3>1 DEF LockInv, DeletedIsLockedOut, Disabled
    <3>2. CASE Valid(deleter[x].token, deleter[x].time)
      BY <2>1, <3>2 DEF LockInv, RightUser, Valid, Enabled
    <3> QED BY <1>6, <3>1, <3>2 DEF DeleteAccount
  <2>4. /\ \A w \in Uids : users'[w] = NoRow <=> users[w] = NoRow
        /\ \A w \in Uids : Disabled(w)' <=> (Disabled(w) \/ w \in S)
    <3>1. \A w \in Uids : users[w] # NoRow =>
             /\ [users[w] EXCEPT !.state = "disabled"] # NoRow
             /\ [users[w] EXCEPT !.state = "disabled"].state = "disabled"
      <4>1. \A w \in Uids : users[w] # NoRow =>
               /\ [users[w] EXCEPT !.state = "disabled"] \in UserRows
               /\ [users[w] EXCEPT !.state = "disabled"].state = "disabled"
        BY DEF LockInv, Typed, UserRows
      <4> QED BY <4>1, NoRowIsNone
    <3> QED BY <1>6, <2>1, <2>3, <3>1 DEF DeleteAccount, Disabled
  <2>5. \A t \in Tokens : sessions'[t] # NoRow =>
           /\ sessions[t] # NoRow
           /\ sessions'[t].user = sessions[t].user
           /\ sessions[t].revoked \/ sessions[t].user \in S => sessions'[t].revoked
    BY <1>6, Revoking DEF LockInv, DeleteAccount, RevokedOf
  <2>6. UsersExist'
    BY <2>4, <2>5, NoRowIsNone DEF LockInv, UsersExist, Typed, SessionRows
  <2>7. DeletedIsLockedOut'
    BY <2>2, <2>4, <2>5 DEF LockInv, DeletedIsLockedOut
  <2> QED BY <2>6, <2>7
<1>7. ASSUME NEW j \in Janitors,
             \/ StartMaintenance(j) \/ SweepChallenges(j) \/ SweepSessions(j)
             \/ SweepCooldowns(j) \/ EndMaintenance(j) \/ JanitorDies(j)
      PROVE  FALSE
  BY <1>7 DEF LocksStay, StartMaintenance, SweepChallenges, SweepSessions, SweepCooldowns,
              EndMaintenance, JanitorDies
<1>8. ASSUME NEW j \in Janitors, PurgeProfile(j) PROVE UsersExist' /\ DeletedIsLockedOut'
  <2>1. PICK u \in janitor[j].list : Disabled(u) /\ Purged(u)
    BY <1>8 DEF PurgeProfile, LocksStay
  <2>2. u \in Uids
    BY <1>8, <2>1, JanitorFacts DEF LockInv, PurgeProfile
  <2>3. /\ \A w \in Uids : w # u => users'[w] = users[w]
        /\ users'[u] = NoRow
        /\ DOMAIN deletions' = DOMAIN deletions \ {u}
    BY <2>1, <2>2 DEF Purged, Without, LockInv, Typed
  <2>4. \A t \in Tokens : sessions'[t] # NoRow =>
           sessions'[t] = sessions[t] /\ sessions[t].user # u
    BY <2>1 DEF Purged
  <2>5. UsersExist'
    BY <2>3, <2>4, NoRowIsNone DEF LockInv, UsersExist, Typed, SessionRows
  <2>6. DeletedIsLockedOut'
    BY <2>3, <2>4 DEF LockInv, DeletedIsLockedOut, Disabled
  <2> QED BY <2>5, <2>6
<1>9. CASE Tick
  BY <1>9 DEF Tick, LocksStay
<1> QED BY <1>1, <1>2, <1>3, <1>4, <1>5, <1>6, <1>7, <1>8, <1>9 DEF Next, Maintain

\* A deletion request keeps the user it was asked for.
LEMMA RightUserKept == ASSUME LockInv, Next PROVE RightUser'
<1> USE DEF store, flight, ghosts
<1>1. ASSUME UNCHANGED deleter, SessionsStay PROVE RightUser'
  BY <1>1, DeleterFacts DEF LockInv, RightUser, SessionsStay
<1>2. ASSUME NEW s \in Senders, InsertChallenge(s) PROVE RightUser'
  BY <1>1, <1>2, Inserted DEF InsertedAs, LockInv
<1>3. ASSUME NEW v \in Verifiers, OpenSession(v) PROVE RightUser'
  <2>1. PICK t \in Tokens :
           t \notin spent /\ deleter' = deleter
           /\ \A z \in Tokens : z # t => sessions'[z] = sessions[z]
    <3>1. PICK u \in Uids, t \in Tokens : OpenedAs(v, u, t)
      BY <1>3, Opened DEF LockInv
    <3> USE DEF OpenedAs
    <3> QED BY <3>1 DEF LockInv, Typed
  <2> QED BY <2>1, DeleterFacts DEF LockInv, RightUser, Minting, MintedFlight
<1>4. ASSUME NEW x \in Deleters, (\E t \in Tokens : AskDeletion(x, t)) PROVE RightUser'
  BY <1>4 DEF LockInv, Typed, RightUser, AskDeletion
<1>5. ASSUME NEW x \in Deleters, DeleteAccount(x) \/ DeleterDies(x) PROVE RightUser'
  <2>1. SessionsStay
    BY <1>5, StoreStaysDeleter DEF LockInv, StoreStays
  <2>2. \A z \in Deleters : deleter'[z] # Idle => deleter'[z] = deleter[z]
    BY <1>5 DEF LockInv, Typed, DeleteAccount, DeleterDies
  <2> QED BY <2>1, <2>2, DeleterFacts DEF LockInv, RightUser, SessionsStay
<1>6. ASSUME NEW s \in Senders,
             \/ \E e \in Emails : AskCode(s, e)
             \/ TakeCooldown(s) \/ Delivered(s) \/ Undelivered(s)
             \/ Accept(s) \/ Withdraw(s) \/ SenderDies(s)
      PROVE  RightUser'
  <2>1. UNCHANGED deleter
    BY <1>6 DEF AskCode, TakeCooldown, Delivered, Undelivered, Accept, Withdraw, SenderDies
  <2> QED BY <1>1, <1>6, <2>1, StoreStaysSender DEF LockInv, StoreStays
<1>7. ASSUME NEW v \in Verifiers,
             \/ \E e \in Emails, i \in Ids, right \in BOOLEAN : AskVerify(v, e, i, right)
             \/ Attempt(v) \/ Consume(v) \/ VerifierDies(v)
      PROVE  RightUser'
  <2>1. UNCHANGED deleter
    BY <1>7 DEF AskVerify, Attempt, Consume, VerifierDies
  <2> QED BY <1>1, <1>7, <2>1, StoreStaysVerifier DEF LockInv, StoreStays
<1>8. ASSUME NEW t \in Tokens, SignOut(t) PROVE RightUser'
  BY <1>1, <1>8, StoreStaysSignOut DEF LockInv, StoreStays, SignOut
<1>9. ASSUME NEW j \in Janitors, Maintain(j) \/ JanitorDies(j) PROVE RightUser'
  <2>1. UNCHANGED deleter
    BY <1>9 DEF Maintain, StartMaintenance, SweepChallenges, SweepSessions, SweepCooldowns,
                PurgeProfile, EndMaintenance, JanitorDies
  <2> QED BY <1>1, <1>9, <2>1, StoreStaysJanitor DEF LockInv, StoreStays
<1>10. CASE Tick
  BY <1>1, <1>10 DEF Tick, SessionsStay
<1> QED BY <1>2, <1>3, <1>4, <1>5, <1>6, <1>7, <1>8, <1>9, <1>10 DEF Next

\* The invariant of the lock holds at the start and is kept.
LEMMA LockInvInit == ASSUME Init PROVE LockInv
<1>1. Typed /\ Minting
  BY ProofInvInit DEF ProofInv, Rows
<1>2. UsersExist /\ RightUser /\ DeletedIsLockedOut
  BY DEF Init, UsersExist, RightUser, DeletedIsLockedOut, Disabled, Idle
<1> QED BY <1>1, <1>2 DEF LockInv

\* The invariant of the lock is kept.
LEMMA LockInvStep == ASSUME LockInv, OneRowPerId, [Next]_vars PROVE LockInv'
<1>1. CASE Next
  BY <1>1, TypedKept, NamesKept, LockKept, RightUserKept DEF LockInv, Rows
<1>2. CASE UNCHANGED vars
  BY <1>2 DEF vars, store, flight, ghosts, LockInv, Typed, Minting, MintedRows, MintedFlight,
              UsersExist, RightUser, DeletedIsLockedOut, Disabled
<1> QED BY <1>1, <1>2

\* From the acceptance of a deletion on, its user is disabled, no session of
\* it is valid and none is opened, whatever verification is under way.
THEOREM DeletedStayOut == Spec => []DeletedIsLockedOut
<1>1. ProofInv => OneRowPerId
  BY DEF ProofInv, Rows
<1>2. LockInv => DeletedIsLockedOut
  BY DEF LockInv
<1> QED BY <1>1, <1>2, ProofInvInit, ProofInvStep, LockInvInit, LockInvStep, PTL DEF Spec

-----------------------------------------------------------------------------
(* The refinement of SessionAuthority                                       *)

\* A request in flight keeps the time it has read.
LEMMA ClockedKept == ASSUME Typed, Clocked, Next PROVE Clocked'
<1> USE DEF store, flight, ghosts
<1>1. ASSUME NEW s \in Senders,
             \/ \E e \in Emails : AskCode(s, e)
             \/ TakeCooldown(s) \/ InsertChallenge(s) \/ Delivered(s) \/ Undelivered(s)
             \/ Accept(s) \/ Withdraw(s) \/ SenderDies(s)
      PROVE  Clocked'
  <2>1. /\ UNCHANGED <<verifier, deleter, janitor, now>>
        /\ \A r \in Senders : r # s => sender'[r] = sender[r]
    BY <1>1 DEF Typed, AskCode, TakeCooldown, InsertChallenge, Delivered, Undelivered, Accept,
                Withdraw, SenderDies
  <2>2. sender'[s].pc \in {"cooldown", "insert"} => sender'[s].time <= now
    <3>1. CASE \E e \in Emails : AskCode(s, e)
      BY <3>1 DEF Typed, AskCode
    <3>2. CASE TakeCooldown(s)
      BY <3>2, SenderFacts DEF Typed, Clocked, TakeCooldown, Idle
    <3>3. CASE InsertChallenge(s)
      <4>1. sender'[s].pc = "deliver"
        BY <3>3 DEF Typed, InsertChallenge
      <4> QED BY <4>1
    <3>4. CASE Delivered(s) \/ Undelivered(s)
      BY <3>4, SenderFacts DEF Typed, Delivered, Undelivered
    <3>5. CASE Accept(s) \/ Withdraw(s) \/ SenderDies(s)
      BY <3>5 DEF Typed, Accept, Withdraw, SenderDies, Idle
    <3> QED BY <1>1, <3>1, <3>2, <3>3, <3>4, <3>5
  <2> QED BY <2>1, <2>2 DEF Clocked
<1>2. ASSUME NEW v \in Verifiers,
             \/ \E e \in Emails, i \in Ids, right \in BOOLEAN : AskVerify(v, e, i, right)
             \/ Attempt(v) \/ Consume(v) \/ OpenSession(v) \/ VerifierDies(v)
      PROVE  Clocked'
  <2>1. /\ UNCHANGED <<sender, deleter, janitor, now>>
        /\ \A w \in Verifiers : w # v => verifier'[w] = verifier[w]
    BY <1>2 DEF Typed, AskVerify, Attempt, Consume, OpenSession, VerifierDies
  <2>2. verifier'[v] # Idle => verifier'[v].time <= now
    BY <1>2, VerifierFacts
       DEF Typed, Clocked, AskVerify, Attempt, Consume, OpenSession, VerifierDies, Idle
  <2> QED BY <2>1, <2>2 DEF Clocked
<1>3. ASSUME NEW t \in Tokens, SignOut(t) PROVE Clocked'
  BY <1>3 DEF SignOut, Clocked
<1>4. ASSUME NEW x \in Deleters,
             \/ \E t \in Tokens : AskDeletion(x, t)
             \/ DeleteAccount(x) \/ DeleterDies(x)
      PROVE  Clocked'
  <2>1. /\ UNCHANGED <<sender, verifier, janitor, now>>
        /\ \A z \in Deleters : deleter'[z] # Idle => deleter'[z] = deleter[z] \/ deleter'[z].time = now
    BY <1>4 DEF Typed, AskDeletion, DeleteAccount, DeleterDies
  <2> QED BY <2>1 DEF Clocked, Typed
<1>5. ASSUME NEW j \in Janitors, Maintain(j) \/ JanitorDies(j) PROVE Clocked'
  <2>1. UNCHANGED <<sender, verifier, deleter, now>>
    BY <1>5 DEF Maintain, StartMaintenance, SweepChallenges, SweepSessions, SweepCooldowns,
                PurgeProfile, EndMaintenance, JanitorDies
  <2>2. \A k \in Janitors : k # j => janitor'[k] = janitor[k]
    BY <1>5 DEF Typed, Maintain, StartMaintenance, SweepChallenges, SweepSessions, SweepCooldowns,
                PurgeProfile, EndMaintenance, JanitorDies
  <2>3. janitor'[j].pc \in {"challenges", "sessions", "cooldowns"} => janitor'[j].time <= now
    BY <1>5, JanitorFacts
       DEF Typed, Clocked, Maintain, StartMaintenance, SweepChallenges, SweepSessions,
           SweepCooldowns, PurgeProfile, EndMaintenance, JanitorDies, Idle
  <2> QED BY <2>1, <2>2, <2>3 DEF Clocked
<1>6. CASE Tick
  <2>1. /\ UNCHANGED <<sender, verifier, deleter, janitor>>
        /\ \A n \in Nat : n <= now => n <= now'
    BY <1>6 DEF Tick, Typed
  <2> QED BY <2>1, SenderFacts, VerifierFacts, DeleterFacts, JanitorFacts DEF Clocked
<1> QED BY <1>1, <1>2, <1>3, <1>4, <1>5, <1>6 DEF Next

AuthorityInv == LockInv /\ OneRowPerId /\ Clocked

\* Steps after which every token is what it was, and the same users are disabled.
SameAuthority ==
    /\ \A t \in Tokens : SessionOf(t)' = SessionOf(t)
    /\ \A u \in Uids : (u \in spent /\ ~Enabled(u))' <=> (u \in spent /\ ~Enabled(u))

\* Where no token and no user changed, the authority stutters.
LEMMA SameAuthorityStutters == ASSUME SameAuthority PROVE UNCHANGED Authority!vars
BY DEF SameAuthority, Authority!vars

\* A token whose row stays, or goes when it is not valid any more, and whose
\* user stays, is what it was.
LEMMA SameToken ==
    ASSUME AuthorityInv, NEW t \in Tokens,
           t \in spent' <=> t \in spent, UNCHANGED now,
           \/ /\ sessions'[t] = sessions[t]
              /\ sessions[t] # NoRow => users'[sessions[t].user] = users[sessions[t].user]
           \/ sessions'[t] = NoRow /\ ~Valid(t, now)
    PROVE  SessionOf(t)' = SessionOf(t)
<1>1. Valid(t, now)' <=> Valid(t, now)
  BY DEF Valid, Enabled
<1>2. Valid(t, now) => sessions'[t] = sessions[t]
  OBVIOUS
<1> QED BY <1>1, <1>2 DEF SessionOf

\* Steps that leave the sessions, the users and the clock alone stutter.
LEMMA SameStore ==
    ASSUME AuthorityInv, UNCHANGED <<users, sessions, now>>,
           \A n \in Tokens \cup Uids : n \in spent' <=> n \in spent
    PROVE  SameAuthority
<1>1. \A t \in Tokens : SessionOf(t)' = SessionOf(t)
  BY SameToken
<1>2. \A u \in Uids : (u \in spent /\ ~Enabled(u))' <=> (u \in spent /\ ~Enabled(u))
  BY DEF Enabled
<1> QED BY <1>1, <1>2 DEF SameAuthority

\* Every token is in one of the states of the authority.
LEMMA SessionOfTyped == ASSUME LockInv, NEW t \in Tokens PROVE SessionOf(t) \in Authority!SessionStates
<1>1. Valid(t, now) => sessions[t].user \in Uids
  BY DEF LockInv, Typed, Valid, SessionRows
<1> QED BY <1>1 DEF SessionOf, Authority!SessionStates, Authority!Unopened, Authority!Ended,
                    Authority!Recent, Authority!Old

\* Every step is a step of the authority, or none.
LEMMA AuthorityStep == ASSUME AuthorityInv, Next PROVE [Authority!Next]_(Authority!vars)
<1> USE DEF store, flight, ghosts
<1>1. ASSUME SameAuthority PROVE [Authority!Next]_(Authority!vars)
  BY <1>1, SameAuthorityStutters
<1>2. ASSUME UNCHANGED <<users, sessions, now, spent>> PROVE SameAuthority
  BY <1>2, SameStore
<1>3. ASSUME NEW s \in Senders,
             \/ \E e \in Emails : AskCode(s, e)
             \/ TakeCooldown(s) \/ Delivered(s) \/ Undelivered(s)
             \/ Accept(s) \/ Withdraw(s) \/ SenderDies(s)
      PROVE  SameAuthority
  BY <1>2, <1>3 DEF AskCode, TakeCooldown, Delivered, Undelivered, Accept, Withdraw, SenderDies
<1>4. ASSUME NEW s \in Senders, InsertChallenge(s) PROVE SameAuthority
  <2>1. PICK i \in Ids : spent' = spent \cup {i} /\ users' = users /\ now' = now
    BY <1>4, Inserted DEF InsertedAs, AuthorityInv, LockInv
  <2>2. sender[s].time \in Nat /\ sender[s].time <= now /\ now \in Nat
    BY <1>4, SenderFacts DEF AuthorityInv, LockInv, Typed, Clocked, InsertChallenge
  <2>3. ASSUME NEW t \in Tokens PROVE SessionOf(t)' = SessionOf(t)
    <3>1. t \in spent' <=> t \in spent
      BY <2>1, IdentityAssumption
    <3>2. sessions'[t] = sessions[t] \/ (sessions'[t] = NoRow /\ ~Valid(t, now))
      BY <1>4, <2>2 DEF InsertChallenge, PrunedSessions, Valid, AuthorityInv, LockInv, Typed, SessionRows
    <3> QED BY <2>1, <3>1, <3>2, SameToken
  <2>4. \A u \in Uids : (u \in spent /\ ~Enabled(u))' <=> (u \in spent /\ ~Enabled(u))
    BY <2>1, IdentityAssumption DEF Enabled
  <2> QED BY <2>3, <2>4 DEF SameAuthority
<1>5. ASSUME NEW v \in Verifiers,
             \/ \E e \in Emails, i \in Ids, right \in BOOLEAN : AskVerify(v, e, i, right)
             \/ Attempt(v) \/ Consume(v) \/ VerifierDies(v)
      PROVE  SameAuthority
  BY <1>2, <1>5 DEF AskVerify, Attempt, Consume, VerifierDies
<1>6. ASSUME NEW v \in Verifiers, OpenSession(v) PROVE Authority!Next
  <2>1. PICK u \in Uids, t \in Tokens : OpenedAs(v, u, t)
    BY <1>6, Opened DEF AuthorityInv, LockInv
  <2> USE DEF OpenedAs
  <2>2. /\ \A w \in Uids : users[w] # NoRow => users'[w] = users[w]
        /\ \A w \in Uids : w # u => users'[w] = users[w]
        /\ Enabled(u)' <=> ~Disabled(u)
        /\ users[u] # NoRow => (Enabled(u) <=> ~Disabled(u)) /\ u \in spent
    <3>1. users[u] # NoRow => users[u].state \in {"enabled", "disabled"}
      BY DEF AuthorityInv, LockInv, Typed, UserRows
    <3>2. [email |-> verifier[v].email, state |-> "enabled"] # NoRow
      BY DEF NoRow
    <3> QED BY <2>1, <3>1, <3>2
            DEF AuthorityInv, LockInv, Typed, Enabled, Disabled, Minting, MintedRows
  <2>3. \A w \in Uids : (w \in spent /\ ~Enabled(w))' <=> (w \in spent /\ ~Enabled(w))
    <3>1. ASSUME NEW w \in Uids, w # u
          PROVE  (w \in spent /\ ~Enabled(w))' <=> (w \in spent /\ ~Enabled(w))
      BY <2>1, <2>2, <3>1, IdentityAssumption DEF Enabled
    <3>2. (u \in spent /\ ~Enabled(u))' <=> (u \in spent /\ ~Enabled(u))
      BY <2>1, <2>2 DEF Disabled
    <3> QED BY <3>1, <3>2
  <2>4. ASSUME NEW z \in Tokens, z # t PROVE SessionOf(z)' = SessionOf(z)
    <3>1. z \in spent' <=> z \in spent
      BY <2>1, <2>4, IdentityAssumption
    <3>2. sessions'[z] = sessions[z]
      BY <2>1, <2>4 DEF AuthorityInv, LockInv, Typed
    <3>3. sessions[z] # NoRow => sessions[z].user \in Uids /\ users[sessions[z].user] # NoRow
      BY DEF AuthorityInv, LockInv, Typed, UsersExist, SessionRows
    <3> QED BY <2>1, <2>2, <3>1, <3>2, <3>3, SameToken
  <2>5. SessionOf(t) = Authority!Unopened
    BY <2>1 DEF SessionOf, Authority!Unopened
  <2>6. \/ SessionOf(t)' = Authority!Ended
        \/ ~Disabled(u) /\ SessionOf(t)' \in {Authority!Recent(u), Authority!Old(u)}
    <3>1. t \in spent'
      BY <2>1
    <3>2. sessions'[t] # NoRow => ~Disabled(u) /\ sessions'[t].user = u
      BY <2>1 DEF AuthorityInv, LockInv, Typed
    <3>3. CASE sessions'[t] = NoRow
      BY <3>1, <3>3 DEF SessionOf, Valid, Authority!Ended
    <3>4. CASE sessions'[t] # NoRow
      BY <3>1, <3>2, <3>4 DEF SessionOf, Authority!Ended, Authority!Recent, Authority!Old
    <3> QED BY <3>3, <3>4
  <2>7. ~Disabled(u) => ~(u \in spent /\ ~Enabled(u))
    BY <2>1, <2>2
  <2>8. Authority!Open(t)
    <3> DEFINE s == SessionOf(t)'
    <3>1. [z \in Tokens |-> SessionOf(z)]' = [[z \in Tokens |-> SessionOf(z)] EXCEPT ![t] = s]
      BY <2>4
    <3>2. s \in Authority!SessionStates \ {Authority!Unopened}
      BY <2>6 DEF Authority!SessionStates, Authority!Unopened, Authority!Ended, Authority!Recent,
                  Authority!Old
    <3>3. s = Authority!Ended
             \/ (u \notin {w \in Uids : w \in spent /\ ~Enabled(w)} /\ s \in Authority!OfUser(u))
      BY <2>6, <2>7 DEF Authority!OfUser
    <3>4. UNCHANGED {w \in Uids : w \in spent /\ ~Enabled(w)}
      BY <2>3
    <3> HIDE DEF s
    <3> QED BY <2>5, <3>1, <3>2, <3>3, <3>4 DEF Authority!Open
  <2> QED BY <2>8 DEF Authority!Next
<1>7. ASSUME UNCHANGED <<users, spent>>, now' >= now, now' \in Nat,
             \A t \in Tokens :
                \/ sessions'[t] = sessions[t]
                \/ /\ t \in spent
                   /\ \A n \in Nat : ~Valid(t, n)'
      PROVE  Authority!Fade
  <2>1. ASSUME NEW t \in Tokens
        PROVE  SessionOf(t)' \in Authority!SessionStates /\ SessionOf(t)' \in Authority!Later(SessionOf(t))
    <3> DEFINE u == sessions[t].user
    <3>1. CASE \A n \in Nat : ~Valid(t, n)'
      <4>1. ~Valid(t, now)'
        BY <1>7, <3>1
      <4>2. SessionOf(t)' \in {Authority!Unopened, Authority!Ended} /\ (t \in spent => SessionOf(t)' = Authority!Ended)
        BY <1>7, <4>1 DEF SessionOf, Authority!Unopened, Authority!Ended
      <4>3. t \in spent => SessionOf(t) # Authority!Unopened
        BY DEF SessionOf, Authority!Unopened
      <4>4. t \notin spent => SessionOf(t) = Authority!Unopened /\ SessionOf(t)' = Authority!Unopened
        BY <1>7 DEF SessionOf, Authority!Unopened
      <4> QED BY <4>2, <4>3, <4>4 DEF Authority!Later, Authority!SessionStates
    <3>2. CASE sessions'[t] = sessions[t] /\ ~(\A n \in Nat : ~Valid(t, n)')
      <4>1. sessions[t] # NoRow /\ sessions[t] \in SessionRows /\ t \in spent
        BY <3>2 DEF Valid, AuthorityInv, LockInv, Typed, Minting, MintedRows
      <4>2. u \in Uids /\ sessions[t].expires \in Nat /\ sessions[t].created \in Nat
        BY <4>1 DEF SessionRows
      <4>3. Valid(t, now)' => Valid(t, now)
        BY <1>7, <3>2, <4>2 DEF Valid, Enabled, AuthorityInv, LockInv, Typed
      <4>4. sessions[t].created >= now' - Fresh => sessions[t].created >= now - Fresh
        BY <1>7, <4>2, IdentityAssumption DEF AuthorityInv, LockInv, Typed
      <4>5. SessionOf(t) \in {Authority!Ended, Authority!Recent(u), Authority!Old(u)}
        BY <4>1 DEF SessionOf, Authority!Ended, Authority!Recent, Authority!Old
      <4>6. \/ SessionOf(t)' = Authority!Ended
            \/ SessionOf(t)' = SessionOf(t) /\ SessionOf(t) \in {Authority!Recent(u), Authority!Old(u)}
            \/ SessionOf(t)' = Authority!Old(u) /\ SessionOf(t) = Authority!Recent(u)
        BY <1>7, <3>2, <4>1, <4>3, <4>4
           DEF SessionOf, Authority!Ended, Authority!Recent, Authority!Old
      <4>7. SessionOf(t) # Authority!Unopened
        BY <4>5 DEF Authority!Ended, Authority!Recent, Authority!Old, Authority!Unopened
      <4> QED BY <4>2, <4>6, <4>7 DEF Authority!Later, Authority!SessionStates
    <3> QED BY <1>7, <3>1, <3>2
  <2>2. UNCHANGED {w \in Uids : w \in spent /\ ~Enabled(w)}
    BY <1>7 DEF Enabled
  <2> QED BY <2>1, <2>2 DEF Authority!Fade
<1>8. ASSUME NEW t \in Tokens, SignOut(t) PROVE Authority!Next
  <2>1. sessions[t] # NoRow /\ t \in spent
    BY <1>8 DEF SignOut, Valid, AuthorityInv, LockInv, Minting, MintedRows
  <2>2. sessions'[t].revoked /\ \A z \in Tokens : z # t => sessions'[z] = sessions[z]
    BY <1>8, <2>1, Revoking DEF SignOut, AuthorityInv, LockInv, Typed
  <2>3. UNCHANGED <<users, spent, now>> /\ now \in Nat
    BY <1>8 DEF SignOut, AuthorityInv, LockInv, Typed
  <2>4. Authority!Fade
    BY <1>7, <2>1, <2>2, <2>3 DEF Valid
  <2> QED BY <2>4 DEF Authority!Next
<1>9. CASE Tick
  <2>1. UNCHANGED <<users, spent, sessions>> /\ now' \in Nat /\ now' >= now
    BY <1>9 DEF Tick, AuthorityInv, LockInv, Typed
  <2>2. Authority!Fade
    BY <1>7, <2>1
  <2> QED BY <2>2 DEF Authority!Next
<1>10. ASSUME NEW x \in Deleters,
              (\E t \in Tokens : AskDeletion(x, t)) \/ DeleterDies(x)
       PROVE  SameAuthority
  BY <1>2, <1>10 DEF AskDeletion, DeleterDies
<1>11. ASSUME NEW x \in Deleters, DeleteAccount(x) PROVE [Authority!Next]_(Authority!vars)
  <2>0. deleter[x].user \in Uids /\ deleter[x].token \in Tokens
    BY <1>11, DeleterFacts DEF AuthorityInv, LockInv, DeleteAccount
  <2>1. PICK u \in Uids : u = deleter[x].user /\ deleter[x].token \in Tokens
    BY <2>0
  <2>2. UNCHANGED <<spent, now>>
    BY <1>11 DEF DeleteAccount
  <2>3. CASE u \notin DOMAIN deletions'
    <3>1. UNCHANGED users
      BY <1>11, <2>1, <2>3 DEF DeleteAccount, AuthorityInv, LockInv, Typed
    <3>2. UNCHANGED sessions
      BY <1>11, <2>1, <2>3 DEF DeleteAccount, RevokedOf, AuthorityInv, LockInv, Typed
    <3> QED BY <1>1, <1>2, <2>2, <3>1, <3>2
  <2>4. CASE u \in DOMAIN deletions'
    <3>1. users[u] # NoRow /\ u \in spent
      <4>1. u \in DOMAIN deletions => Disabled(u)
        BY <2>1 DEF AuthorityInv, LockInv, DeletedIsLockedOut
      <4>2. Valid(deleter[x].token, deleter[x].time) => users[u] # NoRow
        BY <1>11, <2>1, DeleterFacts DEF AuthorityInv, LockInv, RightUser, Valid, Enabled, DeleteAccount
      <4>3. u \in DOMAIN deletions \/ Valid(deleter[x].token, deleter[x].time)
        BY <1>11, <2>1, <2>4 DEF DeleteAccount
      <4> QED BY <2>1, <4>1, <4>2, <4>3 DEF Disabled, AuthorityInv, LockInv, Minting, MintedRows
    <3>2. users'[u].state = "disabled" /\ \A w \in Uids : w # u => users'[w] = users[w]
      <4>1. [users[u] EXCEPT !.state = "disabled"].state = "disabled"
        BY <2>1, <3>1 DEF AuthorityInv, LockInv, Typed, UserRows
      <4>2. users'[u] = [users[u] EXCEPT !.state = "disabled"]
        BY <1>11, <2>1, <2>4, <3>1 DEF DeleteAccount
      <4>3. \A w \in Uids : w # u => users'[w] = users[w]
        BY <1>11, <2>1 DEF DeleteAccount
      <4> QED BY <4>1, <4>2, <4>3
    <3>3. {w \in Uids : w \in spent /\ ~Enabled(w)}' = {w \in Uids : w \in spent /\ ~Enabled(w)} \cup {u}
      BY <2>1, <2>2, <3>1, <3>2 DEF Enabled
    <3>4. ASSUME NEW t \in Tokens
          PROVE  SessionOf(t)' = IF SessionOf(t) \in Authority!OfUser(u) THEN Authority!Ended ELSE SessionOf(t)
      <4>1. CASE sessions[t] # NoRow /\ sessions[t].user = u
        <5>1. sessions'[t].revoked /\ t \in spent
          BY <1>11, <2>1, <2>4, <4>1, Revoking
             DEF DeleteAccount, RevokedOf, AuthorityInv, LockInv, Minting, MintedRows
        <5>2. SessionOf(t)' = Authority!Ended
          BY <2>2, <5>1 DEF SessionOf, Valid, Authority!Ended
        <5>3. SessionOf(t) \in {Authority!Ended, Authority!Recent(u), Authority!Old(u)}
          BY <4>1, <5>1 DEF SessionOf, Authority!Ended, Authority!Recent, Authority!Old
        <5> QED BY <5>2, <5>3 DEF Authority!OfUser
      <4>2. CASE ~(sessions[t] # NoRow /\ sessions[t].user = u)
        <5>1. sessions'[t] = sessions[t]
          BY <1>11, <2>1, <4>2 DEF DeleteAccount, RevokedOf
        <5>2. sessions[t] # NoRow => sessions[t].user \in Uids
          BY DEF AuthorityInv, LockInv, Typed, SessionRows
        <5>3. SessionOf(t)' = SessionOf(t)
          BY <2>2, <3>2, <4>2, <5>1, <5>2, SameToken
        <5>4. SessionOf(t) \notin Authority!OfUser(u)
          BY <4>2 DEF SessionOf, Valid, Authority!OfUser, Authority!Recent, Authority!Old
        <5> QED BY <5>3, <5>4
      <4> QED BY <4>1, <4>2
    <3>5. Authority!Disable(u)
      <4>1. [t \in Tokens |-> SessionOf(t)]'
              = [t \in Tokens |-> IF SessionOf(t) \in Authority!OfUser(u) THEN Authority!Ended
                                  ELSE SessionOf(t)]
        BY <3>4
      <4>2. \A t \in Tokens : [z \in Tokens |-> SessionOf(z)][t] = SessionOf(t)
        OBVIOUS
      <4>3. [t \in Tokens |-> SessionOf(t)]'
              = [t \in Tokens |-> IF [z \in Tokens |-> SessionOf(z)][t] \in Authority!OfUser(u)
                                  THEN Authority!Ended ELSE [z \in Tokens |-> SessionOf(z)][t]]
        BY <4>1, <4>2
      <4> QED BY <3>3, <4>3 DEF Authority!Disable
    <3> QED BY <3>5 DEF Authority!Next
  <2> QED BY <2>3, <2>4
<1>12. ASSUME NEW j \in Janitors,
              \/ StartMaintenance(j) \/ SweepChallenges(j)
              \/ SweepCooldowns(j) \/ EndMaintenance(j) \/ JanitorDies(j)
       PROVE  SameAuthority
  BY <1>2, <1>12 DEF StartMaintenance, SweepChallenges, SweepCooldowns, EndMaintenance, JanitorDies
<1>13. ASSUME NEW j \in Janitors, SweepSessions(j) PROVE SameAuthority
  <2>1. janitor[j].time \in Nat /\ janitor[j].time <= now /\ now \in Nat
    BY <1>13, JanitorFacts DEF AuthorityInv, LockInv, Typed, Clocked, SweepSessions
  <2>2. UNCHANGED <<spent, now, users>>
    BY <1>13 DEF SweepSessions
  <2>3. \A t \in Tokens : sessions'[t] = sessions[t] \/ (sessions'[t] = NoRow /\ ~Valid(t, now))
    BY <1>13, <2>1 DEF SweepSessions, Valid, Enabled, Disabled, AuthorityInv, LockInv, Typed,
                       SessionRows
  <2>4. \A t \in Tokens : SessionOf(t)' = SessionOf(t)
    BY <2>2, <2>3, SameToken
  <2> QED BY <2>2, <2>4 DEF SameAuthority, Enabled
<1>14. ASSUME NEW j \in Janitors, PurgeProfile(j) PROVE SameAuthority
  <2>1. CASE UNCHANGED <<challenges, sessions, deletions, users>>
    BY <1>2, <1>14, <2>1 DEF PurgeProfile
  <2>2. ASSUME NEW u \in janitor[j].list, Disabled(u), Purged(u) PROVE SameAuthority
    <3>1. u \in Uids /\ u \in spent
      BY <1>14, <2>2, JanitorFacts
         DEF AuthorityInv, LockInv, PurgeProfile, Minting, MintedRows, Disabled
    <3>2. /\ users'[u] = NoRow
          /\ \A w \in Uids : w # u => users'[w] = users[w]
          /\ UNCHANGED <<spent, now>>
      BY <1>14, <2>2, <3>1 DEF Purged, PurgeProfile, AuthorityInv, LockInv, Typed
    <3>3. ASSUME NEW t \in Tokens PROVE SessionOf(t)' = SessionOf(t)
      <4>1. sessions[t] # NoRow => sessions[t].user \in Uids
        BY DEF AuthorityInv, LockInv, Typed, SessionRows
      <4>2. \/ sessions'[t] = sessions[t] /\ (sessions[t] # NoRow => sessions[t].user # u)
            \/ sessions'[t] = NoRow /\ ~Valid(t, now)
        BY <2>2 DEF Purged, Valid, Enabled, Disabled
      <4> QED BY <3>2, <4>1, <4>2, SameToken
    <3>4. \A w \in Uids : (w \in spent /\ ~Enabled(w))' <=> (w \in spent /\ ~Enabled(w))
      BY <2>2, <3>1, <3>2 DEF Enabled, Disabled
    <3> QED BY <3>3, <3>4 DEF SameAuthority
  <2> QED BY <1>14, <2>1, <2>2 DEF PurgeProfile
<1> QED BY <1>1, <1>3, <1>4, <1>5, <1>6, <1>8, <1>9, <1>10, <1>11, <1>12, <1>13, <1>14
        DEF Next, Maintain

\* The tables, their sweeps and the requests in flight implement the session
\* authority that the account services rely on.
THEOREM AuthorityImplemented == Spec => ImplementsAuthority
<1>1. Init => AuthorityInv /\ Authority!Init
  <2>1. ASSUME Init PROVE AuthorityInv
    BY <2>1, LockInvInit, ProofInvInit DEF AuthorityInv, ProofInv, Rows, Init, Clocked, Idle
  <2>2. ASSUME Init PROVE Authority!Init
    BY <2>2 DEF Init, Authority!Init, SessionOf, Authority!Unopened
  <2> QED BY <2>1, <2>2
<1>2. AuthorityInv /\ [Next]_vars => AuthorityInv' /\ [Authority!Next]_(Authority!vars)
  <2> SUFFICES ASSUME AuthorityInv, [Next]_vars
               PROVE  AuthorityInv' /\ [Authority!Next]_(Authority!vars)
    OBVIOUS
  <2>1. CASE Next
    <3>1. LockInv' /\ OneRowPerId' /\ Clocked'
      BY <2>1, LockInvStep, NamesKept, ClockedKept DEF AuthorityInv, LockInv, Rows
    <3> QED BY <2>1, <3>1, AuthorityStep DEF AuthorityInv
  <2>2. CASE UNCHANGED vars
    <3>1. AuthorityInv'
      BY <2>2, LockInvStep DEF vars, flight, store, ghosts, AuthorityInv, OneRowPerId, Clocked
    <3>2. SameAuthority
      BY <2>2 DEF SameAuthority, SessionOf, Valid, Enabled, vars, flight, store, ghosts
    <3> QED BY <3>1, <3>2, SameAuthorityStutters
  <2> QED BY <2>1, <2>2
<1> QED BY <1>1, <1>2, PTL DEF Spec, ImplementsAuthority, Authority!Spec
-----------------------------------------------------------------------------
(* The data connection                                                      *)

\* The shapes; no row of a disabled account; a request carries a used
\* envelope; one whose row or authority went away never sees them again.
ConnectionInv ==
    /\ Connection!TypeOK
    /\ Connection!DisabledHasNoConnection
    /\ \A f \in Forwarders :
          forwarder[f] # Connection!Idle => forwarder[f].row.box \in sealed
    /\ \A f \in gone : Connection!Interrupted(forwarder[f])

\* A request in flight is not idle, and a row is not the lack of one.
LEMMA ConnectionRecords ==
    /\ \A r \in Connection!ConnectionRows : r # Connection!NoConnection
    /\ \A r \in Connection!ForwarderStates : r # Connection!Idle
    /\ \A r \in Connection!LinkerStates : r # Connection!Idle
<1>1. DOMAIN Connection!NoConnection = {"box"} /\ DOMAIN Connection!Idle = {"pc"}
  BY DEF Connection!NoConnection, Connection!Idle
<1>2. \A r \in Connection!ConnectionRows : "key" \in DOMAIN r
  BY DEF Connection!ConnectionRows
<1>3. \A r \in Connection!ForwarderStates : "session" \in DOMAIN r
  BY DEF Connection!ForwarderStates
<1>4. \A r \in Connection!LinkerStates : "session" \in DOMAIN r
  BY DEF Connection!LinkerStates
<1> QED BY <1>1, <1>2, <1>3, <1>4

\* The requests and rows keep their shape, and every row its sealed envelope.
LEMMA ConnectionTyped ==
    ASSUME ConnectionInv, Connection!Step, gone' \subseteq Forwarders
    PROVE  Connection!TypeOK'
<1> USE DEF ConnectionInv, Connection!TypeOK, Connection!identity
<1>1. ASSUME NEW s \in Sessions,
             \/ Connection!Age(s) \/ Connection!EndSession(s) \/ Connection!SignIn(s)
             \/ Connection!Unlink(s)
      PROVE  Connection!TypeOK'
  BY <1>1, InstanceAssumption
     DEF Connection!ConnectionAssumption, Connection!Age, Connection!EndSession, Connection!SignIn,
         Connection!Unlink, Connection!Connected
<1>2. ASSUME NEW u \in Users, Connection!Disable(u) PROVE Connection!TypeOK'
  BY <1>2 DEF Connection!Disable, Connection!Connected
<1>3. ASSUME NEW k \in Keys, Connection!RevokeKey(k) PROVE Connection!TypeOK'
  BY <1>3 DEF Connection!RevokeKey, Connection!Connected
<1>4. ASSUME NEW l \in Linkers,
             \/ \E s \in Sessions, k \in Keys : Connection!AskLink(l, s, k)
             \/ Connection!VerifyKey(l) \/ Connection!LinkerEnds(l)
      PROVE  Connection!TypeOK'
  BY <1>4 DEF Connection!AskLink, Connection!VerifyKey, Connection!LinkerEnds, Connection!Connected,
              Connection!LinkerStates, Connection!Idle
<1>5. ASSUME NEW l \in Linkers, Connection!InsertLink(l) PROVE Connection!TypeOK'
  <2>1. linker[l] \in [pc: {"verify", "insert"}, session: Sessions, key: Keys]
    BY <1>5 DEF Connection!InsertLink, Connection!LinkerStates, Connection!Idle
  <2>2. UserOf[linker[l].session] \in Users /\ TenantOf[linker[l].key] \in Tenants
    BY <2>1, InstanceAssumption DEF Connection!ConnectionAssumption
  <2>3. \A b \in Connection!FreshBox : b \in Boxes
    BY DEF Connection!FreshBox
  <2> QED BY <1>5, <2>1, <2>2, <2>3
          DEF Connection!InsertLink, Connection!Link, Connection!Connected, Connection!ConnectionRows,
              Connection!LinkerStates
<1>6. ASSUME NEW f \in Forwarders,
             \/ \E s \in Sessions : Connection!ReadRow(f, s)
             \/ Connection!ReadPortal(f) \/ Connection!CheckCurrent(f) \/ Connection!Send(f)
             \/ Connection!Confirm(f) \/ Connection!ForwarderEnds(f)
      PROVE  Connection!TypeOK'
  <2>1. /\ UNCHANGED <<browsers, disabled, revoked, connections, sealed, linker>>
        /\ forwarder' \in [Forwarders -> Connection!ForwarderStates \cup {Connection!Idle}]
    BY <1>6, InstanceAssumption
       DEF Connection!ConnectionAssumption, Connection!ReadRow, Connection!ReadPortal, Connection!CheckCurrent, Connection!Send,
           Connection!Confirm, Connection!ForwarderEnds, Connection!Connected,
           Connection!ForwarderStates, Connection!Idle
  <2> QED BY <2>1 DEF Connection!Connected
<1> QED BY <1>1, <1>2, <1>3, <1>4, <1>5, <1>6 DEF Connection!Step

\* The row and the session a request carries, and no envelope of it, are new.
LEMMA ForwardersKeep ==
    ASSUME ConnectionInv, Connection!Step, NEW f \in Forwarders, forwarder'[f] # Connection!Idle
    PROVE  \/ /\ forwarder[f] # Connection!Idle
              /\ forwarder'[f].session = forwarder[f].session
              /\ forwarder'[f].row = forwarder[f].row
           \/ /\ UNCHANGED <<browsers, disabled, connections, sealed>>
              /\ forwarder'[f].session \in Sessions
              /\ Connection!Authorized(forwarder'[f].session)
              /\ Connection!Connected(UserOf[forwarder'[f].session])
              /\ forwarder'[f].row = connections[UserOf[forwarder'[f].session]]
              /\ forwarder[f] = Connection!Idle
<1> USE DEF ConnectionInv, Connection!TypeOK, Connection!identity
<1>1. CASE UNCHANGED forwarder
  BY <1>1
<1>2. ASSUME NEW g \in Forwarders, NEW s \in Sessions, Connection!ReadRow(g, s)
      PROVE  f = g => /\ UNCHANGED <<browsers, disabled, connections, sealed>>
                      /\ forwarder'[f].session \in Sessions
                      /\ Connection!Authorized(forwarder'[f].session)
                      /\ Connection!Connected(UserOf[forwarder'[f].session])
                      /\ forwarder'[f].row = connections[UserOf[forwarder'[f].session]]
                      /\ forwarder[f] = Connection!Idle
  <2>1. forwarder'[g] = [pc |-> "portal", session |-> s, row |-> connections[UserOf[s]]]
    BY <1>2 DEF Connection!ReadRow
  <2> QED BY <1>2, <2>1 DEF Connection!ReadRow
<1>3. ASSUME NEW g \in Forwarders, f # g,
             \/ \E s \in Sessions : Connection!ReadRow(g, s)
             \/ Connection!ReadPortal(g) \/ Connection!CheckCurrent(g) \/ Connection!Send(g)
             \/ Connection!Confirm(g) \/ Connection!ForwarderEnds(g)
      PROVE  forwarder'[f] = forwarder[f]
  BY <1>3 DEF Connection!ReadRow, Connection!ReadPortal, Connection!CheckCurrent, Connection!Send,
              Connection!Confirm, Connection!ForwarderEnds
<1>4. ASSUME \/ Connection!ReadPortal(f) \/ Connection!CheckCurrent(f) \/ Connection!Send(f)
             \/ Connection!Confirm(f) \/ Connection!ForwarderEnds(f)
      PROVE  /\ forwarder[f] # Connection!Idle
             /\ forwarder'[f].session = forwarder[f].session
             /\ forwarder'[f].row = forwarder[f].row
  <2>1. forwarder[f] \in Connection!ForwarderStates
    BY <1>4 DEF Connection!ReadPortal, Connection!CheckCurrent, Connection!Send,
                Connection!Confirm, Connection!ForwarderEnds, Connection!Idle
  <2> QED BY <1>4, <2>1, ConnectionRecords
          DEF Connection!ReadPortal, Connection!CheckCurrent, Connection!Send,
              Connection!Confirm, Connection!ForwarderEnds, Connection!ForwarderStates
<1> QED BY <1>1, <1>2, <1>3, <1>4
        DEF Connection!Step, Connection!Age, Connection!EndSession, Connection!SignIn,
            Connection!Unlink, Connection!Disable, Connection!RevokeKey, Connection!AskLink,
            Connection!VerifyKey, Connection!InsertLink, Connection!LinkerEnds

\* Of an account's row a step leaves what it was, or nothing; or it was free
\* and gets one whose envelope was never used, of an account not disabled.
LEMMA RowsOfAccounts ==
    ASSUME ConnectionInv, Connection!Step, NEW u \in Users
    PROVE  \/ connections'[u] \in {connections[u], Connection!NoConnection}
           \/ ~Connection!Connected(u) /\ u \notin disabled' /\ connections'[u].box \notin sealed
<1> USE DEF ConnectionInv, Connection!TypeOK, Connection!identity
<1>1. ASSUME NEW l \in Linkers, Connection!InsertLink(l)
      PROVE  \/ connections'[u] = connections[u]
             \/ ~Connection!Connected(u) /\ u \notin disabled' /\ connections'[u].box \notin sealed
  <2>1. linker[l] \in [pc: {"verify", "insert"}, session: Sessions, key: Keys]
    BY <1>1 DEF Connection!InsertLink, Connection!LinkerStates, Connection!Idle
  <2>2. UserOf[linker[l].session] \in Users /\ UNCHANGED disabled
    BY <1>1, <2>1, InstanceAssumption DEF Connection!ConnectionAssumption, Connection!InsertLink
  <2>3. \A b \in Connection!FreshBox : b \notin sealed
    BY DEF Connection!FreshBox
  <2> QED BY <1>1, <2>1, <2>2, <2>3
          DEF Connection!InsertLink, Connection!Link, Connection!Recent
<1> QED BY <1>1
        DEF Connection!Step, Connection!Age, Connection!EndSession, Connection!SignIn,
            Connection!Unlink, Connection!Disable, Connection!RevokeKey, Connection!AskLink,
            Connection!VerifyKey, Connection!LinkerEnds, Connection!ReadRow,
            Connection!ReadPortal, Connection!CheckCurrent, Connection!Send,
            Connection!Confirm, Connection!ForwarderEnds

\* Users are disabled for good, with their rows; envelopes are used for good;
\* a session that is carried and not authorised never is again.
LEMMA AuthorityGoes ==
    ASSUME ConnectionInv, Connection!Step
    PROVE  /\ sealed \subseteq sealed'
           /\ \A u \in disabled' : u \notin disabled => connections'[u] = Connection!NoConnection
           /\ \A f \in Forwarders, s \in Sessions :
                 (/\ forwarder[f] # Connection!Idle /\ forwarder[f].session = s
                  /\ ~Connection!Authorized(s))
                    => ~Connection!Authorized(s)'
<1> USE DEF ConnectionInv, Connection!TypeOK, Connection!identity
<1>1. ASSUME UNCHANGED <<browsers, disabled>>, sealed \subseteq sealed'
      PROVE  /\ sealed \subseteq sealed'
             /\ \A u \in disabled' : u \notin disabled => connections'[u] = Connection!NoConnection
             /\ \A f \in Forwarders, s \in Sessions :
                   (/\ forwarder[f] # Connection!Idle /\ forwarder[f].session = s
                    /\ ~Connection!Authorized(s))
                      => ~Connection!Authorized(s)'
  BY <1>1 DEF Connection!Authorized
<1>2. \A f \in Forwarders : forwarder[f] # Connection!Idle => forwarder[f].session \in Sessions
  BY DEF Connection!ForwarderStates
<1>3. ASSUME NEW t \in Sessions,
             Connection!Age(t) \/ Connection!EndSession(t) \/ Connection!SignIn(t)
      PROVE  \A f \in Forwarders, s \in Sessions :
                (/\ forwarder[f] # Connection!Idle /\ forwarder[f].session = s
                 /\ ~Connection!Authorized(s))
                   => ~Connection!Authorized(s)'
  BY <1>2, <1>3 DEF Connection!Age, Connection!EndSession, Connection!SignIn, Connection!Authorized
<1>4. ASSUME NEW u \in Users, Connection!Disable(u)
      PROVE  /\ \A w \in disabled' : w \notin disabled => connections'[w] = Connection!NoConnection
             /\ \A f \in Forwarders, s \in Sessions :
                   (/\ forwarder[f] # Connection!Idle /\ forwarder[f].session = s
                    /\ ~Connection!Authorized(s))
                      => ~Connection!Authorized(s)'
  BY <1>2, <1>4 DEF Connection!Disable, Connection!Authorized
<1>5. CASE \E t \in Sessions :
              Connection!Age(t) \/ Connection!EndSession(t) \/ Connection!SignIn(t)
  BY <1>3, <1>5 DEF Connection!Age, Connection!EndSession, Connection!SignIn
<1>6. CASE \E u \in Users : Connection!Disable(u)
  BY <1>4, <1>6 DEF Connection!Disable
<1>7. CASE UNCHANGED <<browsers, disabled>> /\ sealed \subseteq sealed'
  BY <1>1, <1>7
<1>8. ASSUME NEW l \in Linkers,
             \/ \E s \in Sessions, k \in Keys : Connection!AskLink(l, s, k)
             \/ Connection!VerifyKey(l) \/ Connection!InsertLink(l) \/ Connection!LinkerEnds(l)
      PROVE  UNCHANGED <<browsers, disabled>> /\ sealed \subseteq sealed'
  BY <1>8 DEF Connection!AskLink, Connection!VerifyKey, Connection!InsertLink, Connection!LinkerEnds
<1>9. ASSUME NEW f \in Forwarders,
             \/ \E s \in Sessions : Connection!ReadRow(f, s)
             \/ Connection!ReadPortal(f) \/ Connection!CheckCurrent(f) \/ Connection!Send(f)
             \/ Connection!Confirm(f) \/ Connection!ForwarderEnds(f)
      PROVE  UNCHANGED <<browsers, disabled>> /\ sealed \subseteq sealed'
  BY <1>9 DEF Connection!ReadRow, Connection!ReadPortal, Connection!CheckCurrent, Connection!Send,
              Connection!Confirm, Connection!ForwarderEnds
<1> QED BY <1>5, <1>6, <1>7, <1>8, <1>9
        DEF Connection!Step, Connection!Unlink, Connection!RevokeKey

\* Every step of the connection keeps the invariant.
LEMMA ConnectionKept == ASSUME ConnectionInv, Connection!Next PROVE ConnectionInv'
<1> USE DEF ConnectionInv
<1>1. Connection!Step
  BY DEF Connection!Next
<1>2. gone' = {f \in Forwarders : /\ forwarder'[f] # Connection!Idle
                                  /\ f \in gone \/ Connection!Interrupted(forwarder[f])'}
  BY DEF Connection!Next
<1>3. Connection!TypeOK'
  BY <1>1, <1>2, ConnectionTyped
<1>4. Connection!DisabledHasNoConnection'
  <2>1. \A u \in disabled' : u \in Users
    BY <1>3 DEF Connection!TypeOK
  <2>2. \A u \in disabled' : u \notin disabled => connections'[u] = Connection!NoConnection
    BY <1>1, AuthorityGoes
  <2> QED BY <1>1, <2>1, <2>2, RowsOfAccounts
          DEF Connection!DisabledHasNoConnection, Connection!Connected
<1>5. ASSUME NEW f \in Forwarders, forwarder'[f] # Connection!Idle
      PROVE  forwarder'[f].row.box \in sealed'
  <2>1. CASE forwarder[f] # Connection!Idle /\ forwarder'[f].row = forwarder[f].row
    BY <1>1, <2>1, AuthorityGoes
  <2>2. CASE /\ UNCHANGED sealed
             /\ forwarder'[f].session \in Sessions
             /\ Connection!Connected(UserOf[forwarder'[f].session])
             /\ forwarder'[f].row = connections[UserOf[forwarder'[f].session]]
    BY <2>2, InstanceAssumption DEF Connection!TypeOK, Connection!ConnectionAssumption
  <2> QED BY <1>1, <1>5, <2>1, <2>2, ForwardersKeep
<1>6. ASSUME NEW f \in gone' PROVE Connection!Interrupted(forwarder[f])'
  <2>1. f \in Forwarders /\ forwarder'[f] # Connection!Idle
    BY <1>2, <1>6
  <2>2. CASE f \in gone
    <3>1. forwarder[f] # Connection!Idle /\ ~Connection!Current(forwarder[f])
      BY <2>2 DEF Connection!Interrupted
    <3>2. /\ forwarder'[f].session = forwarder[f].session
          /\ forwarder'[f].row = forwarder[f].row
      BY <1>1, <2>1, <3>1, ForwardersKeep
    <3>3. forwarder[f] \in Connection!ForwarderStates /\ forwarder[f].row.box \in sealed
      BY <2>1, <3>1 DEF Connection!TypeOK
    <3>4. UserOf[forwarder[f].session] \in Users
      BY <3>3, InstanceAssumption DEF Connection!ForwarderStates, Connection!ConnectionAssumption
    <3>5. forwarder[f].row # Connection!NoConnection
      BY <3>3, ConnectionRecords DEF Connection!ForwarderStates
    <3>6. CASE ~Connection!Authorized(forwarder[f].session)
      <4>1. PICK s \in Sessions : forwarder[f].session = s
        BY <3>3 DEF Connection!ForwarderStates
      <4>2. ~Connection!Authorized(s)'
        BY <1>1, <2>1, <3>1, <3>6, <4>1, AuthorityGoes
      <4> QED BY <2>1, <3>2, <4>1, <4>2 DEF Connection!Interrupted, Connection!Current, Connection!Authorized
    <3>7. CASE connections[UserOf[forwarder[f].session]] # forwarder[f].row
      <4>1. connections'[UserOf[forwarder[f].session]] # forwarder[f].row
        BY <1>1, <3>3, <3>4, <3>5, <3>7, RowsOfAccounts
      <4> QED BY <2>1, <3>2, <4>1 DEF Connection!Interrupted, Connection!Current
    <3> QED BY <3>1, <3>6, <3>7 DEF Connection!Current
  <2>3. CASE f \notin gone
    BY <1>2, <1>6, <2>3
  <2> QED BY <2>2, <2>3
<1> QED BY <1>3, <1>4, <1>5, <1>6

\* The invariant holds in the initial state.
LEMMA ConnectionInit == ASSUME Connection!Init PROVE ConnectionInv
BY DEF Connection!Init, ConnectionInv, Connection!TypeOK, Connection!DisabledHasNoConnection,
       Connection!Connected

\* A row of an enabled account stays until it is removed, a disabled account
\* has none, and nothing is answered on a row that was removed, even when the
\* same key was linked again, however many links and requests are under way.
THEOREM ConnectionStands == EitherSpec => ConnectionHolds
<1>1. EitherInit => ConnectionInv
  BY ConnectionInit DEF EitherInit
<1>2. [EitherNext]_<<part, vars, connection>> => [Connection!Next]_(Connection!vars)
  BY DEF EitherNext, connection, Connection!vars
<1>3. ConnectionInv /\ [Connection!Next]_(Connection!vars) => ConnectionInv'
  <2> SUFFICES ASSUME ConnectionInv, UNCHANGED Connection!vars PROVE ConnectionInv'
    BY ConnectionKept
  <2> QED BY DEF ConnectionInv, Connection!vars, Connection!TypeOK, Connection!DisabledHasNoConnection,
                 Connection!Connected, Connection!Interrupted, Connection!Current,
                 Connection!Authorized
<1>4. ConnectionInv /\ [Connection!Next]_(Connection!vars) =>
        [\A u \in Users :
            Connection!Connected(u) =>
                connections'[u] \in {connections[u], Connection!NoConnection}]_(Connection!vars)
  BY RowsOfAccounts DEF Connection!Next
<1>5. ConnectionInv /\ [Connection!Next]_(Connection!vars) =>
        [\A f \in Forwarders :
            (forwarder[f].pc # "answered" /\ forwarder'[f].pc = "answered")
                => f \notin gone]_(Connection!vars)
  <2> SUFFICES ASSUME ConnectionInv, Connection!Next, NEW f \in Forwarders,
                      forwarder[f].pc # "answered", forwarder'[f].pc = "answered"
               PROVE  f \notin gone
    OBVIOUS
  <2>1. Connection!Confirm(f) /\ Connection!Current(forwarder[f])
    BY SMTT(60) DEF ConnectionInv, Connection!TypeOK, Connection!Next, Connection!Step, Connection!Age,
           Connection!EndSession, Connection!SignIn, Connection!Unlink, Connection!Disable,
           Connection!RevokeKey, Connection!AskLink, Connection!VerifyKey, Connection!InsertLink,
           Connection!LinkerEnds, Connection!ReadRow, Connection!ReadPortal,
           Connection!CheckCurrent, Connection!Send, Connection!Confirm, Connection!ForwarderEnds,
           Connection!Idle, Connection!ForwarderStates
  <2> QED BY <2>1 DEF ConnectionInv, Connection!Interrupted
<1>6. ConnectionInv => Connection!DisabledHasNoConnection
  BY DEF ConnectionInv
<1> QED BY <1>1, <1>2, <1>3, <1>4, <1>5, <1>6, PTL
        DEF EitherSpec, ConnectionHolds, Connection!ConnectionHolds, Connection!LinkIsNotReplaced,
            Connection!AnswersAreCurrent
=============================================================================

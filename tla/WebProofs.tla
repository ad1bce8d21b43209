----------------------------- MODULE WebProofs -----------------------------
(***************************************************************************)
(* Proofs about the requests of the Worker, the archive of the public site, *)
(* the tools of its editors and what its pages show, for any callers, keys, *)
(* articles, texts, plans, limits and bounds.                               *)
(*                                                                         *)
(* The components share no variable: each section proves its component by   *)
(* itself, and the theorem holds of the run's specification because the     *)
(* other components leave it alone.                                         *)
(***************************************************************************)
EXTENDS MCWeb, FiniteSetTheorems, SequenceTheorems, WellFoundedInduction, TLAPS

-----------------------------------------------------------------------------
(* The rates                                                                *)

RatesInv ==
    /\ hits \in [Rates!Buckets -> Nat] /\ granted \in [Rates!Buckets -> Nat]
    /\ instant \in Nat
    /\ \A r \in Requests :
          served[r].at = "taken" => served[r].time \in Nat /\ served[r].time <= instant
    /\ \A r \in Requests :
          served[r].at = "asked" => served[r].time \in Nat /\ served[r].time <= instant
    /\ Rates!RatesCountTheAdmitted

\* A window begins and ends at an instant.
LEMMA WindowsAreOfTime ==
    ASSUME NEW b \in Rates!Buckets
    PROVE  Rates!Expires(b[1], b[2]) \in Nat /\ Limit[b[1]] \in Nat
<1>1. PICK k \in Rates!BucketKeys, t \in Rates!Times : b = Rates!Bucket(k, t)
  BY DEF Rates!Buckets
<1>2. Window[k] \in Nat \ {0} /\ Limit[k] \in Nat /\ t \in Nat
  BY <1>1, InstanceAssumption DEF Rates!BucketAssumption, Rates!BucketKeys, Rates!Times
<1>3. t \div Window[k] \in Nat
  BY <1>2
<1>4. \A m, n \in Nat : m * n \in Nat
  OBVIOUS
<1>5. Rates!Start(k, t) \in Nat
  BY <1>2, <1>3, <1>4 DEF Rates!Start
<1>6. b[1] = k /\ b[2] = Rates!Start(k, t)
  BY <1>1 DEF Rates!Bucket
<1> QED BY <1>2, <1>5, <1>6 DEF Rates!Expires

\* Every step of the rates keeps what they count.
LEMMA RatesKept == ASSUME RatesInv, Rates!Next PROVE RatesInv'
<1> USE DEF RatesInv
<1>1. CASE Rates!Tick
  <2>1. instant' = instant + 1 /\ UNCHANGED <<hits, served, granted>>
    BY <1>1 DEF Rates!Tick
  <2>2. Rates!RatesCountTheAdmitted'
    BY <2>1, WindowsAreOfTime DEF Rates!RatesCountTheAdmitted
  <2> QED BY <2>1, <2>2
<1>2. ASSUME NEW r \in Requests, NEW keys, Rates!Ask(r, keys) PROVE RatesInv'
  BY <1>2 DEF Rates!Ask, Rates!RatesCountTheAdmitted, Rates!Idle
<1>3. ASSUME NEW r \in Requests, Rates!Take(r) PROVE RatesInv'
  <2> DEFINE wanted == {Rates!Bucket(k, served[r].time) : k \in served[r].keys}
  <2>1. \A q \in Requests :
           served'[q].at \in {"asked", "taken"} =>
              served'[q].time \in Nat /\ served'[q].time <= instant'
    BY <1>3 DEF Rates!Take
  <2>2. CASE UNCHANGED <<hits, granted>>
    BY <1>3, <2>1, <2>2 DEF Rates!Take, Rates!RatesCountTheAdmitted
  <2>3. CASE /\ \A b \in wanted : Rates!Room(b)
             /\ hits' = Rates!Counted(hits, wanted) /\ granted' = Rates!Counted(granted, wanted)
    <3>1. hits' \in [Rates!Buckets -> Nat] /\ granted' \in [Rates!Buckets -> Nat]
      BY <2>3 DEF Rates!Counted
    <3>2. UNCHANGED instant
      BY <1>3 DEF Rates!Take
    <3>3. ASSUME NEW b \in Rates!Buckets, instant < Rates!Expires(b[1], b[2])
          PROVE  hits'[b] = granted'[b] /\ granted'[b] <= Limit[b[1]]
      <4>1. hits[b] = granted[b] /\ granted[b] <= Limit[b[1]] /\ hits[b] \in Nat /\ Limit[b[1]] \in Nat
        BY <3>3, WindowsAreOfTime DEF Rates!RatesCountTheAdmitted
      <4>2. CASE b \in wanted
        BY <2>3, <4>1, <4>2 DEF Rates!Room, Rates!Counted
      <4>3. CASE b \notin wanted
        BY <2>3, <4>1, <4>3 DEF Rates!Counted
      <4> QED BY <4>2, <4>3
    <3> QED BY <2>1, <3>1, <3>2, <3>3 DEF Rates!RatesCountTheAdmitted
  <2> QED BY <1>3, <2>2, <2>3 DEF Rates!Take
<1>4. ASSUME NEW r \in Requests, Rates!Prune(r) PROVE RatesInv'
  <2>1. /\ served[r].time \in Nat /\ served[r].time <= instant
        /\ UNCHANGED <<granted, instant>>
        /\ \A q \in Requests :
              served'[q].at \in {"asked", "taken"} =>
                 served'[q].time \in Nat /\ served'[q].time <= instant'
    BY <1>4 DEF Rates!Prune, Rates!Idle
  <2>2. /\ hits' \in [Rates!Buckets -> Nat]
        /\ \A b \in Rates!Buckets : instant < Rates!Expires(b[1], b[2]) => hits'[b] = hits[b]
    BY <1>4, <2>1, WindowsAreOfTime DEF Rates!Prune
  <2> QED BY <2>1, <2>2 DEF Rates!RatesCountTheAdmitted
<1>5. ASSUME NEW r \in Requests, Rates!Leave(r) PROVE RatesInv'
  BY <1>5 DEF Rates!Leave, Rates!RatesCountTheAdmitted, Rates!Idle
<1> QED BY <1>1, <1>2, <1>3, <1>4, <1>5 DEF Rates!Next

\* The tables start empty.
LEMMA RatesInit == ASSUME Rates!Init PROVE RatesInv
BY WindowsAreOfTime DEF Rates!Init, RatesInv, Rates!RatesCountTheAdmitted, Rates!Idle

\* Until a window is over its row counts exactly the requests let in, and no
\* more than the limit, for any limits and windows and any requests at a time.
THEOREM RatesHold == EitherSpec => []RatesCountTheAdmitted
<1>1. EitherInit => RatesInv
  BY RatesInit DEF EitherInit
<1>2. [EitherNext]_<<part, vars, words, archive, library, worker, console, showcase>>
        => [Rates!Next]_rates
  BY DEF EitherNext, LibraryNext, WorkerNext, ConsoleNext, ShowcaseNext, worker
<1>3. RatesInv /\ [Rates!Next]_rates => RatesInv'
  BY RatesKept DEF rates, RatesInv, Rates!RatesCountTheAdmitted
<1>4. RatesInv => RatesCountTheAdmitted
  BY DEF RatesInv, RatesCountTheAdmitted
<1> QED BY <1>1, <1>2, <1>3, <1>4, PTL DEF EitherSpec

-----------------------------------------------------------------------------
(* The data routes                                                          *)

Asked == [route : {"catalog", "query", "other"}, options : BOOLEAN, method : BOOLEAN,
          bearer : BOOLEAN, typed : BOOLEAN, length : 0..Route!Absent, body : 0..MaxSent]

\* What the checks have established of a request that goes on.
Admitted == ask.bearer /\ ask.method /\ ask.route # "other"

\* A body was read to its end, unless the request was given up meanwhile.
WholeBody == ask.route = "query" =>
                size = ask.body /\ size <= MaxBody /\ ask.length \in {Route!Absent, size}

RouteInv ==
    /\ ask \in Asked
    /\ size \in Nat /\ forwarded \in Nat
    /\ progress \in {"reading", "sending", "asked"} => Admitted
    /\ progress = "checks" => size = 0 /\ ~ended /\ ~aborted
    /\ progress = "reading" => size <= ask.body /\ (ended => aborted \/ size = ask.body)
    /\ progress = "sending" => WholeBody
    /\ progress \in {"checks", "reading", "sending"} => forwarded = Route!Absent
    /\ Route!WholeBodiesOnly

\* Every step of the route keeps what is known of the body.
LEMMA RouteKept == ASSUME RouteInv, Route!Next PROVE RouteInv'
<1>1. MaxBody \in Nat /\ MaxSent \in Nat
  BY InstanceAssumption DEF Route!RouteAssumption
<1> USE DEF RouteInv, Route!Fails
<1>2. ask.body \in Nat /\ ask.length \in Nat
  BY <1>1 DEF Asked, Route!Absent
<1>3. CASE UNCHANGED ask /\ progress' = "done" /\ UNCHANGED <<size, ended, aborted, forwarded>>
  BY <1>3 DEF Route!WholeBodiesOnly
<1>4. CASE Route!Check
  <2>1. CASE progress' = "reading"
    BY <1>2, <1>4, <2>1 DEF Route!Check, Admitted, Route!WholeBodiesOnly
  <2>2. CASE progress' = "sending"
    BY <1>2, <1>4, <2>2 DEF Route!Check, Admitted, WholeBody, Route!WholeBodiesOnly
  <2>3. progress' \in {"reading", "sending"} \/ (UNCHANGED ask /\ progress' = "done" /\ UNCHANGED <<size, ended, aborted, forwarded>>)
    BY <1>4 DEF Route!Check
  <2> QED BY <1>3, <2>1, <2>2, <2>3
<1>5. CASE Route!Read
  <2>1. /\ progress = "reading" /\ UNCHANGED <<ask, aborted, progress, forwarded, code>>
        /\ size' \in Nat /\ size' <= ask.body
        /\ ended' => aborted \/ size' = ask.body
    <3>1. CASE size < ask.body
      <4>1. ended' \in (IF aborted THEN {TRUE} ELSE {FALSE})
        BY <1>5, <3>1 DEF Route!Read
      <4>2. ended' => aborted
        BY <4>1, Zenon
      <4>3. size' \in size + 1..ask.body
        BY <1>5, <3>1 DEF Route!Read
      <4> QED BY <1>2, <1>5, <4>2, <4>3 DEF Route!Read
    <3>2. CASE ~(size < ask.body)
      BY <1>2, <1>5, <3>2 DEF Route!Read
    <3> QED BY <3>1, <3>2
  <2> QED BY <2>1 DEF Admitted, Route!WholeBodiesOnly
<1>6. CASE Route!Abort
  BY <1>6 DEF Route!Abort, Admitted, WholeBody, Route!WholeBodiesOnly
<1>7. CASE Route!BodyRead
  <2>1. CASE progress' = "done"
    BY <1>3, <1>7, <2>1 DEF Route!BodyRead
  <2>2. CASE /\ ~aborted /\ ended /\ size <= MaxBody
             /\ ask.length = Route!Absent \/ ask.length = size
             /\ progress' = "sending" /\ UNCHANGED <<ask, size, ended, aborted, forwarded>>
    BY <1>7, <2>2 DEF Route!BodyRead, Admitted, WholeBody, Route!WholeBodiesOnly
  <2> QED BY <1>7, <2>1, <2>2 DEF Route!BodyRead
<1>8. CASE Route!Forward
  BY <1>3, <1>8 DEF Route!Forward, Admitted, WholeBody, Route!WholeBodiesOnly
<1>9. CASE Route!Answered
  BY <1>9 DEF Route!Answered, Route!WholeBodiesOnly
<1>10. CASE Route!Rest
  BY <1>10 DEF Route!Rest, Route!vars, Admitted, WholeBody, Route!WholeBodiesOnly
<1> QED BY <1>4, <1>5, <1>6, <1>7, <1>8, <1>9, <1>10 DEF Route!Next

\* What the data API is sent is the whole body the client sent, in the length
\* it announced, and under its own key, for any limits: a request that was
\* given up while its body was read is not forwarded.
THEOREM BodiesAreWhole == EitherSpec => []WholeBodiesOnly
<1> DEFINE Inv == part = "route" => RouteInv
<1>1. EitherInit => Inv
  <2> SUFFICES ASSUME Route!Init PROVE RouteInv
    BY DEF EitherInit
  <2> QED BY InstanceAssumption
          DEF Route!Init, RouteInv, Asked, Route!Absent, Route!RouteAssumption,
              Route!WholeBodiesOnly
<1>2. Inv /\ [EitherNext]_<<part, vars, words, archive, library, worker, console, showcase>> => Inv'
  <2>1. ASSUME EitherNext, part = "route", UNCHANGED part
        PROVE  Route!Next \/ UNCHANGED route
    BY <2>1 DEF EitherNext, LibraryNext, WorkerNext, ConsoleNext, ShowcaseNext, worker
  <2>2. EitherNext => UNCHANGED part
    BY DEF EitherNext
  <2>3. RouteInv /\ UNCHANGED route => RouteInv'
    BY DEF route, RouteInv, Admitted, WholeBody, Route!WholeBodiesOnly
  <2> QED BY <2>1, <2>2, <2>3, RouteKept DEF worker
<1>3. Inv => WholeBodiesOnly
  BY DEF RouteInv, WholeBodiesOnly
<1> QED BY <1>1, <1>2, <1>3, PTL DEF EitherSpec

-----------------------------------------------------------------------------
(* The sessions of the browser                                              *)

Ops == Cookies!SignIns \cup {"read", "leave"}

\* What an answer may do to the cookies.
Sets == [email : Tokens \cup {None}, key : {None}] \cup [key : AccessKeys \cup {None}]
           \cup {Cookies!NoSet}

Sent == [at : {"sent"}, op : Ops, email : Tokens \cup {None}, key : AccessKeys \cup {None},
         presented : AccessKeys \cup {None}, after : BOOLEAN, alone : BOOLEAN]

Answered == [at : {"answered"}, op : Ops, after : BOOLEAN, alone : BOOLEAN, byEmail : BOOLEAN,
             who : Tokens \cup AccessKeys \cup {None}, done : BOOLEAN, set : Sets]

\* q asks for a sign-in, or has been answered one.
SigningIn(q) == q.at # "idle" /\ q.op \in Cookies!SignIns

\* Nothing but a sign-in gives a cookie a value.
ClearsOnly(set) == \A f \in {"email", "key"} : f \in DOMAIN set => set[f] = None

\* A sign-out that no sign-in was under way with meets a browser without an
\* e-mail session, or clears that cookie itself.
SignsOut(q, email) ==
    /\ q.at = "sent" /\ q.email = None => email = None
    /\ q.at = "answered" /\ q.done =>
          /\ "key" \in DOMAIN q.set /\ q.set.key = None
          /\ "email" \in DOMAIN q.set \/ email = None

\* What is known of one request, besides its form.
Sound(q, email) ==
    /\ q.at = "sent" /\ q.after => q.email = None /\ q.key = None /\ q.op \notin Cookies!SignIns
    /\ q.at = "answered" =>
          /\ q.op \notin Cookies!SignIns => ClearsOnly(q.set)
          /\ q.after => q.who = None
          /\ q.byEmail => q.who \notin AccessKeys
    /\ q.at # "idle" /\ q.op = "leave" /\ q.alone => SignsOut(q, email)

GateInv ==
    /\ cookies \in [email : Tokens \cup {None}, key : AccessKeys \cup {None}]
    /\ live \subseteq Tokens /\ minted \subseteq Tokens /\ good \subseteq AccessKeys
    /\ out \in BOOLEAN
    /\ request \in [Requests -> {Cookies!Idle} \cup Sent \cup Answered]
    /\ \A r \in Requests : Sound(request[r], cookies.email)
    /\ \A r, p \in Requests :
          request[r].at # "idle" /\ request[r].alone /\ p # r => ~SigningIn(request[p])
    /\ out => /\ cookies.email = None /\ cookies.key = None
              /\ \A r \in Requests : ~SigningIn(request[r])

\* The forms of a request are told apart by where it is.
LEMMA Forms ==
    ASSUME NEW q \in {Cookies!Idle} \cup Sent \cup Answered
    PROVE  /\ q.at = "idle" <=> q = Cookies!Idle
           /\ q.at = "sent" <=> q \in Sent
           /\ q.at = "answered" <=> q \in Answered
           /\ q.at \in {"idle", "sent", "answered"}
BY DEF Sent, Answered, Cookies!Idle

\* What sets the browser's cookies leaves them cookies.
LEMMA SetsClear ==
    ASSUME NEW set \in Sets
    PROVE  /\ "email" \in DOMAIN set => set["email"] \in Tokens \cup {None}
           /\ "key" \in DOMAIN set => set["key"] \in AccessKeys \cup {None}
BY DEF Sets, Cookies!NoSet

\* A request that is sent carries the cookies of the moment.
LEMMA SendKept ==
    ASSUME GateInv, NEW r \in Requests, NEW op \in Ops, NEW key \in AccessKeys \cup {None},
           Cookies!Send(r, op, key)
    PROVE  GateInv'
<1> USE DEF GateInv
<1> DEFINE new == [at |-> "sent", op |-> op, email |-> cookies.email, key |-> cookies.key,
                   presented |-> key, after |-> out /\ op \notin Cookies!SignIns,
                   alone |-> \A p \in Cookies!Pending : request[p].op \notin Cookies!SignIns]
<1>1. /\ request[r] = Cookies!Idle
      /\ UNCHANGED <<cookies, live, minted, good>>
      /\ out' = (out /\ op \notin Cookies!SignIns)
  BY DEF Cookies!Send, Cookies!Pending
<1>2. request'[r] = new
  BY DEF Cookies!Send
<1>3. new \in Sent
  BY DEF Sent
<1>4. ASSUME NEW q \in Requests, q # r
      PROVE  /\ request'[q] \in {Cookies!Idle} \cup Sent \cup Answered
             /\ request'[q] = request[q] \/ request'[q] = [request[q] EXCEPT !.alone = FALSE]
             /\ request'[q] = request[q] \/ request[q].at # "idle"
             /\ op \in Cookies!SignIns /\ request[q].at # "idle" =>
                   request'[q] = [request[q] EXCEPT !.alone = FALSE]
  <2>1. request[q] \in {Cookies!Idle} \cup Sent \cup Answered
    OBVIOUS
  <2>2. q \in Cookies!Pending <=> request[q].at # "idle"
    BY <2>1, Forms DEF Cookies!Pending
  <2>3. request'[q] = IF q \in Cookies!Pending /\ op \in Cookies!SignIns
                      THEN [request[q] EXCEPT !.alone = FALSE] ELSE request[q]
    BY <1>4 DEF Cookies!Send
  <2>4. request[q] \in Sent => [request[q] EXCEPT !.alone = FALSE] \in Sent
    BY DEF Sent
  <2>5. request[q] \in Answered => [request[q] EXCEPT !.alone = FALSE] \in Answered
    BY DEF Answered
  <2>6. q \in Cookies!Pending => request[q] \in Sent \cup Answered
    BY <2>1, Forms DEF Cookies!Pending
  <2> QED BY <2>1, <2>2, <2>3, <2>4, <2>5, <2>6
<1>5. request' \in [Requests -> {Cookies!Idle} \cup Sent \cup Answered]
  <2>1. \A q \in Requests : request'[q] \in {Cookies!Idle} \cup Sent \cup Answered
    BY <1>2, <1>3, <1>4
  <2> QED BY <2>1 DEF Cookies!Send
\* The other requests are as they were, but that they may not be alone.
<1>6. ASSUME NEW q \in Requests, q # r
      PROVE  /\ Sound(request'[q], cookies.email)
             /\ SigningIn(request'[q]) <=> SigningIn(request[q])
             /\ request'[q].at # "idle" /\ request'[q].alone =>
                   /\ request[q].at # "idle" /\ request[q].alone
                   /\ op \notin Cookies!SignIns
  <2>1. CASE request'[q] = request[q]
    <3>1. op \in Cookies!SignIns /\ request[q].at # "idle" => ~request[q].alone
      <4> SUFFICES ASSUME op \in Cookies!SignIns, request[q].at # "idle" PROVE ~request[q].alone
        OBVIOUS
      <4>1. request[q] \in Sent \cup Answered
        BY Forms
      <4>2. request[q] = [request[q] EXCEPT !.alone = FALSE]
        BY <1>4, <1>6, <2>1
      <4> QED BY <4>1, <4>2 DEF Sent, Answered
    <3> QED BY <2>1, <3>1
  <2>2. CASE request'[q] = [request[q] EXCEPT !.alone = FALSE] /\ request[q].at # "idle"
    <3>1. request[q] \in Sent \cup Answered
      BY <2>2, Forms
    <3>2. /\ request'[q].at = request[q].at /\ request'[q].op = request[q].op
          /\ ~request'[q].alone
      BY <2>2, <3>1 DEF Sent, Answered
    <3>3. CASE request[q] \in Sent
      <4>1. /\ request'[q].email = request[q].email /\ request'[q].key = request[q].key
            /\ request'[q].after = request[q].after
        BY <2>2, <3>3 DEF Sent
      <4>2. request[q].at = "sent"
        BY <3>3 DEF Sent
      <4> QED BY <3>2, <4>1, <4>2 DEF Sound, SigningIn
    <3>4. CASE request[q] \in Answered
      <4>1. /\ request'[q].set = request[q].set /\ request'[q].who = request[q].who
            /\ request'[q].after = request[q].after /\ request'[q].byEmail = request[q].byEmail
        BY <2>2, <3>4 DEF Answered
      <4>2. request[q].at = "answered"
        BY <3>4 DEF Answered
      <4> QED BY <3>2, <4>1, <4>2 DEF Sound, SigningIn
    <3> QED BY <3>1, <3>3, <3>4
  <2> QED BY <1>4, <1>6, <2>1, <2>2
<1>7. Sound(new, cookies.email)
  BY DEF Sound, SignsOut
<1>8. new.alone => \A p \in Requests : ~SigningIn(request[p])
  BY Forms DEF Cookies!Pending, SigningIn
<1>9. SigningIn(new) <=> op \in Cookies!SignIns
  BY DEF SigningIn
<1>10. \A q \in Requests : Sound(request'[q], cookies.email)
  BY <1>2, <1>6, <1>7
<1>11. \A q, p \in Requests :
          request'[q].at # "idle" /\ request'[q].alone /\ p # q => ~SigningIn(request'[p])
  <2> SUFFICES ASSUME NEW q \in Requests, NEW p \in Requests, p # q,
                      request'[q].at # "idle", request'[q].alone
               PROVE  ~SigningIn(request'[p])
    OBVIOUS
  <2>1. CASE q = r
    BY <1>2, <1>6, <1>8, <2>1
  <2>2. CASE p = r
    BY <1>2, <1>6, <1>9, <2>2
  <2>3. CASE q # r /\ p # r
    BY <1>6, <2>3
  <2> QED BY <2>1, <2>2, <2>3
<1>12. out' => \A q \in Requests : ~SigningIn(request'[q])
  BY <1>1, <1>2, <1>6, <1>9
<1> QED BY <1>1, <1>5, <1>10, <1>11, <1>12

\* An answer is of the request it answers: what it says of who asks and what
\* it sets keep the invariant when they are sound.
LEMMA AnswerKept ==
    ASSUME GateInv, NEW r \in Requests, request[r].at = "sent",
           NEW who \in Tokens \cup AccessKeys \cup {None}, NEW done \in BOOLEAN, NEW set \in Sets,
           Cookies!Answer(r, who, done, set),
           live' \subseteq Tokens, minted' \subseteq Tokens, UNCHANGED <<cookies, good, out>>,
           request[r].op \notin Cookies!SignIns => ClearsOnly(set),
           request[r].after => who = None,
           request[r].email # None => who \notin AccessKeys,
           request[r].op = "leave" /\ done =>
              /\ "key" \in DOMAIN set /\ set.key = None
              /\ "email" \in DOMAIN set \/ request[r].email = None
    PROVE  GateInv'
<1> USE DEF GateInv
<1> DEFINE q == request[r]
<1> DEFINE a == [at |-> "answered", op |-> q.op, after |-> q.after, alone |-> q.alone,
                 byEmail |-> q.email # None, who |-> who, done |-> done, set |-> set]
<1>1. q \in Sent
  BY Forms
<1>2. request' = [request EXCEPT ![r] = a]
  BY DEF Cookies!Answer
<1>3. a \in Answered
  BY <1>1 DEF Sent, Answered
<1>4. request' \in [Requests -> {Cookies!Idle} \cup Sent \cup Answered]
  BY <1>2, <1>3
<1>5. request'[r] = a /\ \A p \in Requests \ {r} : request'[p] = request[p]
  BY <1>2
<1>6. SigningIn(a) <=> SigningIn(q)
  BY DEF SigningIn
<1>7. Sound(q, cookies.email)
  OBVIOUS
<1>8. Sound(a, cookies.email)
  BY <1>7 DEF Sound, SignsOut
<1>9. \A p \in Requests : Sound(request'[p], cookies.email)
  BY <1>5, <1>8
<1>10. \A p \in Requests : SigningIn(request'[p]) <=> SigningIn(request[p])
  BY <1>5, <1>6
<1>11. \A p \in Requests : request'[p].at # "idle" /\ request'[p].alone
                             => request[p].at # "idle" /\ request[p].alone
  BY <1>5
<1> QED BY <1>4, <1>9, <1>10, <1>11

\* What an answer sets is one of the forms.
LEMMA SetForms ==
    /\ Cookies!ClearAll \in Sets /\ Cookies!ClearKey \in Sets /\ Cookies!NoSet \in Sets
    /\ ClearsOnly(Cookies!ClearAll) /\ ClearsOnly(Cookies!ClearKey) /\ ClearsOnly(Cookies!NoSet)
    /\ DOMAIN Cookies!ClearAll = {"email", "key"} /\ Cookies!ClearAll.key = None
    /\ DOMAIN Cookies!ClearKey = {"key"} /\ Cookies!ClearKey.key = None
BY DEF Sets, ClearsOnly, Cookies!ClearAll, Cookies!ClearBoth, Cookies!ClearKey, Cookies!NoSet

\* Serving a request keeps the invariant.
LEMMA ServeKept == ASSUME GateInv, NEW r \in Requests, Cookies!Serve(r) PROVE GateInv'
<1> USE DEF GateInv
<1> DEFINE q == request[r]
<1>1. q.at = "sent" /\ q \in Sent /\ UNCHANGED <<cookies, good, out>>
  BY Forms DEF Cookies!Serve
<1>2. /\ q.op \in Ops /\ q.email \in Tokens \cup {None} /\ q.key \in AccessKeys \cup {None}
      /\ q.presented \in AccessKeys \cup {None}
  BY <1>1 DEF Sent
<1>3. q.after => q.email = None /\ q.key = None /\ q.op \notin Cookies!SignIns
  BY <1>1 DEF Sound
<1>4. /\ None \notin Tokens /\ None \notin AccessKeys /\ Tokens \cap AccessKeys = {}
      /\ "present" \in Cookies!SignIns /\ "verify" \in Cookies!SignIns
      /\ "leave" \notin Cookies!SignIns /\ "read" \notin Cookies!SignIns
  BY InstanceAssumption DEF Cookies!GatewayAssumption, Cookies!SignIns
<1>5. CASE Cookies!ByEmail(r) /\ UNCHANGED minted
  <2>1. q.email # None /\ ~q.after /\ q.email \notin AccessKeys
    BY <1>2, <1>3, <1>4, <1>5 DEF Cookies!ByEmail
  <2>2. live' \subseteq Tokens
    BY <1>5 DEF Cookies!ByEmail
  <2>3. \/ Cookies!Answer(r, None, FALSE, Cookies!ClearAll)
        \/ q.op = "read" /\ Cookies!Answer(r, q.email, TRUE, Cookies!NoSet)
        \/ Cookies!Answer(r, None, FALSE, Cookies!NoSet)
        \/ Cookies!Answer(r, None, TRUE, Cookies!ClearAll)
    BY <1>5 DEF Cookies!ByEmail
  <2> HIDE DEF GateInv, q
  <2> QED BY <1>1, <1>2, <1>4, <1>5, <2>1, <2>2, <2>3, AnswerKept, SetForms DEF GateInv, q
<1>6. CASE Cookies!ByKey(r) /\ UNCHANGED minted
  <2>1. q.email = None /\ UNCHANGED <<live, minted>>
    BY <1>6 DEF Cookies!ByKey
  <2>2. \/ q.op = "leave" /\ Cookies!Answer(r, None, TRUE, Cookies!ClearKey)
        \/ /\ q.op = "present" /\ q.presented \in good
           /\ Cookies!Answer(r, None, TRUE, [key |-> q.presented])
        \/ Cookies!Answer(r, None, FALSE, Cookies!NoSet)
        \/ Cookies!Opens(q.key) /\ Cookies!Answer(r, q.key, TRUE, Cookies!NoSet) /\ q.op = "read"
        \/ Cookies!Answer(r, None, FALSE, Cookies!ClearKey)
    BY <1>6 DEF Cookies!ByKey
  <2>3. [key |-> q.presented] \in Sets
    BY <1>2 DEF Sets
  <2>4. Cookies!Opens(q.key) => ~q.after
    BY <1>3, <1>4 DEF Cookies!Opens
  <2> HIDE DEF GateInv, q
  <2> QED BY <1>1, <1>2, <1>3, <1>4, <2>1, <2>2, <2>3, <2>4, AnswerKept, SetForms DEF GateInv, q
<1>7. CASE Cookies!Verify(r)
  <2>1. PICK t \in Tokens \ minted :
           /\ live' = live \cup {t} /\ minted' = minted \cup {t}
           /\ Cookies!Answer(r, None, TRUE, [email |-> t, key |-> None])
    BY <1>7 DEF Cookies!Verify
  <2>2. [email |-> t, key |-> None] \in Sets
    BY DEF Sets
  <2>3. q.op = "verify" /\ ~q.after
    BY <1>3, <1>4, <1>7 DEF Cookies!Verify
  <2> HIDE DEF GateInv, q
  <2> QED BY <1>1, <1>4, <2>1, <2>2, <2>3, AnswerKept DEF GateInv, q
<1> QED BY <1>5, <1>6, <1>7 DEF Cookies!Serve

\* A request that ends without an answer is forgotten.
LEMMA Forgotten ==
    ASSUME GateInv, NEW r \in Requests, request' = [request EXCEPT ![r] = Cookies!Idle]
    PROVE  /\ request' \in [Requests -> {Cookies!Idle} \cup Sent \cup Answered]
           /\ \A p \in Requests : SigningIn(request'[p]) => p # r /\ SigningIn(request[p])
           /\ \A p \in Requests : request'[p].at # "idle" => p # r /\ request'[p] = request[p]
           /\ \A email : Sound(request'[r], email)
           /\ \A p, s \in Requests :
                 request'[p].at # "idle" /\ request'[p].alone /\ s # p => ~SigningIn(request'[s])
<1> USE DEF GateInv
<1>1. request'[r] = Cookies!Idle /\ \A p \in Requests \ {r} : request'[p] = request[p]
  OBVIOUS
<1>2. request' \in [Requests -> {Cookies!Idle} \cup Sent \cup Answered]
  OBVIOUS
<1>3. Cookies!Idle.at = "idle"
  BY DEF Cookies!Idle
<1>4. \A email : Sound(request'[r], email)
  BY <1>1, <1>3 DEF Sound
<1>5. \A p \in Requests : SigningIn(request'[p]) => p # r /\ SigningIn(request[p])
  BY <1>1, <1>3 DEF SigningIn
<1>6. \A p \in Requests : request'[p].at # "idle" => p # r /\ request'[p] = request[p]
  BY <1>1, <1>3
<1> QED BY <1>2, <1>4, <1>5, <1>6

\* The cookies an answer sets keep the invariant.
LEMMA ArriveKept == ASSUME GateInv, NEW r \in Requests, Cookies!Arrive(r) PROVE GateInv'
<1> USE DEF GateInv
<1> DEFINE a == request[r]
<1>1. a.at = "answered" /\ a \in Answered /\ UNCHANGED <<live, minted, good>>
  BY Forms DEF Cookies!Arrive
<1>2. a.op \in Ops /\ a.set \in Sets
  BY <1>1 DEF Answered
<1>3. request' = [request EXCEPT ![r] = Cookies!Idle]
  BY DEF Cookies!Arrive
<1>4. /\ cookies' \in [email : Tokens \cup {None}, key : AccessKeys \cup {None}]
      /\ cookies'.email = IF "email" \in DOMAIN a.set THEN a.set["email"] ELSE cookies.email
      /\ cookies'.key = IF "key" \in DOMAIN a.set THEN a.set["key"] ELSE cookies.key
  <2> DEFINE new(f) == IF f \in DOMAIN a.set THEN a.set[f] ELSE cookies[f]
  <2>1. cookies' = [f \in {"email", "key"} |-> new(f)]
    BY DEF Cookies!Arrive
  <2>2. new("email") \in Tokens \cup {None} /\ new("key") \in AccessKeys \cup {None}
    BY <1>2, SetsClear
  <2>3. cookies' = [email |-> new("email"), key |-> new("key")]
    BY <2>1
  <2> HIDE DEF new
  <2>4. cookies'.email = new("email") /\ cookies'.key = new("key")
    BY <2>3
  <2> QED BY <2>2, <2>3, <2>4 DEF new
<1>5. out' = (out \/ (a.op = "leave" /\ a.done /\ a.alone))
  BY DEF Cookies!Arrive
<1>6. Sound(a, cookies.email)
  OBVIOUS
\* Only a sign-in that arrives may give the browser an e-mail session.
<1>7. a.op \notin Cookies!SignIns =>
         /\ cookies'.email \in {None, cookies.email} /\ cookies'.key \in {None, cookies.key}
  BY <1>1, <1>4, <1>6 DEF Sound, ClearsOnly
<1>8. \A p \in Requests : Sound(request'[p], cookies'.email)
  <2> SUFFICES ASSUME NEW p \in Requests, p # r PROVE Sound(request[p], cookies'.email)
    <3>1. request'[r] = Cookies!Idle /\ \A p \in Requests \ {r} : request'[p] = request[p]
      BY <1>3
    <3>2. Sound(request'[r], cookies'.email)
      BY <1>3, Forgotten
    <3> QED BY <3>1, <3>2
  <2>1. Sound(request[p], cookies.email)
    OBVIOUS
  <2>2. CASE a.op \in Cookies!SignIns
    <3>1. request[p].at # "idle" => ~request[p].alone
      BY <1>1, <2>2 DEF SigningIn
    <3> QED BY <2>1, <3>1 DEF Sound
  <2>3. CASE a.op \notin Cookies!SignIns
    <3>1. cookies.email = None => cookies'.email = None
      BY <1>7, <2>3
    <3> QED BY <2>1, <3>1 DEF Sound, SignsOut
  <2> QED BY <2>2, <2>3
\* The browser is signed out, and nobody is signing in.
<1>9. ASSUME out'
      PROVE  /\ cookies'.email = None /\ cookies'.key = None
             /\ \A p \in Requests : ~SigningIn(request'[p])
  <2>1. CASE out
    <3>1. ~SigningIn(a)
      BY <2>1
    <3>2. a.op \notin Cookies!SignIns
      BY <1>1, <3>1 DEF SigningIn
    <3> QED BY <1>3, <1>7, <2>1, <3>2, Forgotten
  <2>2. CASE a.op = "leave" /\ a.done /\ a.alone
    <3>1. SignsOut(a, cookies.email) /\ a.op \notin Cookies!SignIns
      BY <1>1, <1>6, <2>2 DEF Sound, Cookies!SignIns
    <3>2. /\ "key" \in DOMAIN a.set /\ a.set.key = None
          /\ "email" \in DOMAIN a.set \/ cookies.email = None
      BY <1>1, <2>2, <3>1 DEF SignsOut
    <3>3. cookies'.key = None
      BY <1>4, <3>2
    <3>4. ClearsOnly(a.set)
      BY <1>1, <1>6, <3>1 DEF Sound
    <3>5. cookies'.email = None
      BY <1>4, <3>2, <3>4 DEF ClearsOnly
    <3>6. \A p \in Requests : p # r => ~SigningIn(request[p])
      BY <1>1, <2>2
    <3> QED BY <1>3, <3>3, <3>5, <3>6, Forgotten
  <2> QED BY <1>5, <1>9, <2>1, <2>2
<1>10. out' \in BOOLEAN
  BY <1>5
<1> QED BY <1>1, <1>3, <1>4, <1>8, <1>9, <1>10, Forgotten

\* Every step of the browser and the Worker keeps the invariant.
LEMMA GateKept == ASSUME GateInv, Cookies!Next PROVE GateInv'
<1>1. ASSUME NEW r \in Requests, NEW op \in Ops, NEW key \in AccessKeys \cup {None},
             Cookies!Send(r, op, key)
      PROVE  GateInv'
  BY <1>1, SendKept
<1>2. ASSUME NEW r \in Requests, Cookies!Serve(r) PROVE GateInv'
  BY <1>2, ServeKept
<1>3. ASSUME NEW r \in Requests, Cookies!Fail(r) PROVE GateInv'
  <2>1. None \notin AccessKeys
    BY InstanceAssumption DEF Cookies!GatewayAssumption
  <2>2. /\ request[r].at = "sent" /\ UNCHANGED <<cookies, live, minted, good, out>>
        /\ Cookies!Answer(r, None, FALSE, Cookies!NoSet)
    BY <1>3 DEF Cookies!Fail
  <2>3. live' \subseteq Tokens /\ minted' \subseteq Tokens
    BY <2>2 DEF GateInv
  <2> QED BY <2>1, <2>2, <2>3, AnswerKept, SetForms
<1>4. ASSUME NEW r \in Requests, Cookies!Arrive(r) PROVE GateInv'
  BY <1>4, ArriveKept
<1>5. ASSUME NEW r \in Requests, Cookies!Lose(r) PROVE GateInv'
  <2>1. UNCHANGED <<cookies, live, minted, good, out>>
        /\ request' = [request EXCEPT ![r] = Cookies!Idle]
    BY <1>5 DEF Cookies!Lose
  <2> QED BY <2>1, Forgotten DEF GateInv
<1>6. CASE Cookies!Expire
  <2>1. /\ cookies' \in [email : Tokens \cup {None}, key : AccessKeys \cup {None}]
        /\ cookies'.email = cookies.email /\ cookies'.key = None
        /\ UNCHANGED <<live, minted, good, request, out>>
    BY <1>6 DEF Cookies!Expire, GateInv
  <2> QED BY <2>1 DEF GateInv
<1>7. CASE Cookies!End
  BY <1>7 DEF Cookies!End, GateInv
<1> QED BY <1>1, <1>2, <1>3, <1>4, <1>5, <1>6, <1>7 DEF Cookies!Next, Ops, Cookies!SignIns

\* No request that a browser sends after a confirmed sign-out is answered with
\* an account, and none with the cookie of an e-mail session with the account
\* of a key, for any sessions, keys and requests under way.
THEOREM SignedOutStaysOut == EitherSpec => []SignedOutMeansOut
<1>1. EitherInit => GateInv
  <2> SUFFICES ASSUME Cookies!Init PROVE GateInv
    BY DEF EitherInit
  <2>1. /\ cookies \in [email : Tokens \cup {None}, key : AccessKeys \cup {None}]
        /\ live = {} /\ minted = {} /\ good = AccessKeys
        /\ request = [r \in Requests |-> Cookies!Idle]
        /\ out = (cookies = Cookies!NoCookies)
    BY DEF Cookies!Init
  <2>2. cookies = Cookies!NoCookies => cookies.email = None /\ cookies.key = None
    BY DEF Cookies!NoCookies
  <2>3. Cookies!Idle.at = "idle"
    BY DEF Cookies!Idle
  <2> QED BY <2>1, <2>2, <2>3 DEF GateInv, Sound, SigningIn
<1>2. [EitherNext]_<<part, vars, words, archive, library, worker, console, showcase>>
        => [Cookies!Next]_gateway
  BY DEF EitherNext, LibraryNext, WorkerNext, ConsoleNext, ShowcaseNext, worker
<1>3. GateInv /\ [Cookies!Next]_gateway => GateInv'
  <2>1. GateInv /\ UNCHANGED gateway => GateInv'
    BY DEF gateway, GateInv
  <2> QED BY <2>1, GateKept
<1>4. GateInv => SignedOutMeansOut
  BY DEF GateInv, Sound, SignedOutMeansOut, Cookies!SignedOutMeansOut
<1> QED BY <1>1, <1>2, <1>3, <1>4, PTL DEF EitherSpec

-----------------------------------------------------------------------------
(* The archive                                                              *)

\* new is old with one more row.
Grown(old, new, place, row) ==
    /\ place \notin DOMAIN old
    /\ DOMAIN new = DOMAIN old \cup {place}
    /\ \A i \in DOMAIN old : new[i] = old[i] /\ old[i] \in Archive!Row
    /\ new[place] = row /\ row \in Archive!Row

\* A row that is appended is one more row.
LEMMA AppendGrows ==
    ASSUME NEW old \in Seq(Archive!Row), NEW row \in Archive!Row
    PROVE  Grown(old, Append(old, row), Len(old) + 1, row)
<1>1. /\ DOMAIN old = 1..Len(old) /\ Len(old) \in Nat
      /\ DOMAIN Append(old, row) = 1..Len(old) + 1
      /\ \A i \in 1..Len(old) : Append(old, row)[i] = old[i] /\ old[i] \in Archive!Row
      /\ Append(old, row)[Len(old) + 1] = row
  OBVIOUS
<1>2. 1..Len(old) + 1 = 1..Len(old) \cup {Len(old) + 1} /\ Len(old) + 1 \notin 1..Len(old)
  BY <1>1
<1> QED BY <1>1, <1>2 DEF Grown

\* A row counts at no moment before the archive saw it.
LEMMA SeenFirst ==
    ASSUME NEW row \in Archive!Row, row.published # NoTime
    PROVE  /\ row.seen \in Int /\ row.published \in Int
           /\ Archive!Available(row) \in Int /\ Archive!Available(row) >= row.seen
BY DEF Archive!Row, Archive!Times, Archive!Available

\* What was known by a moment that has passed stays known, and no more is.
LEMMA KnownStays ==
    ASSUME NEW old, NEW new, NEW place, NEW row, Grown(old, new, place, row),
           NEW moment \in Int, moment < row.seen, row.published # NoTime
    PROVE  /\ Archive!Eligible(new, moment) = Archive!Eligible(old, moment)
           /\ Archive!Eligible(old, moment) \subseteq DOMAIN old
<1>1. ~(Archive!Available(row) <= moment)
  BY SeenFirst DEF Grown
<1>2. \A i \in DOMAIN new :
         Archive!Available(new[i]) <= moment
            <=> i \in DOMAIN old /\ Archive!Available(old[i]) <= moment
  BY <1>1 DEF Grown
<1> QED BY <1>2 DEF Grown, Archive!Eligible

\* What was selected as of a moment that has passed stands, or is refused.
LEMMA SelectionStands ==
    ASSUME NEW old, NEW new, NEW place, NEW row, Grown(old, new, place, row),
           NEW moment \in Int, moment < row.seen
    PROVE  Archive!StandsOrRefused(Archive!SelectAsOf(old, moment), Archive!SelectAsOf(new, moment))
<1> DEFINE known == Archive!Eligible(old, moment)
           clash(table, among) ==
              \/ ~Archive!Dated(table)
              \/ \E i, j \in DOMAIN table : i # j /\ Archive!SameVersion(table[i], table[j])
              \/ \E i, j \in among : /\ i # j /\ table[i].key = table[j].key
                                     /\ table[i].published = table[j].published
           newest(table, among) ==
              {table[i] : i \in {i \in among :
                 \A j \in among : table[j].key = table[i].key
                                     => table[j].published <= table[i].published}}
<1>1. \A table : Archive!SelectAsOf(table, moment) =
                      IF clash(table, Archive!Eligible(table, moment)) THEN Archive!Refused
                      ELSE newest(table, Archive!Eligible(table, moment))
  BY DEF Archive!SelectAsOf
<1>2. SUFFICES ASSUME ~clash(new, Archive!Eligible(new, moment))
               PROVE  Archive!SelectAsOf(new, moment) = Archive!SelectAsOf(old, moment)
  BY <1>1 DEF Archive!StandsOrRefused
<1>3. row.published # NoTime
  BY <1>2 DEF Archive!Dated, Grown
<1>4. Archive!Eligible(new, moment) = known /\ known \subseteq DOMAIN old
  BY <1>3, KnownStays
<1>5. \A i \in known : new[i] = old[i]
  BY <1>4 DEF Grown
<1>6. ~clash(old, known)
  BY <1>2, <1>4, <1>5 DEF Grown, Archive!Dated
<1>7. newest(new, known) = newest(old, known)
  BY <1>5
<1> QED BY <1>1, <1>2, <1>4, <1>6, <1>7

\* The versions as of a moment that has passed stand, or are refused.
LEMMA VersionsStand ==
    ASSUME NEW old, NEW new, NEW place, NEW row, Grown(old, new, place, row),
           NEW moment \in Int, moment < row.seen
    PROVE  Archive!StandsOrRefused(Archive!PreserveDocumentVersions(old, moment),
                                   Archive!PreserveDocumentVersions(new, moment))
<1> DEFINE known(table) == {table[i] : i \in Archive!Eligible(table, moment)}
           clash(table, among) ==
              \/ ~Archive!Dated(table)
              \/ \E i, j \in DOMAIN table : /\ Archive!SameVersion(table[i], table[j])
                                              /\ table[i] # table[j]
              \/ \E r, s \in among : /\ r # s /\ r.key = s.key
                                     /\ Archive!Available(r) = Archive!Available(s)
           earlier(among, r) ==
              {s \in among : s.key = r.key /\ Archive!Available(s) < Archive!Available(r)}
           prior(among, r) ==
              {s \in earlier(among, r) :
                 \A t \in earlier(among, r) : Archive!Available(t) <= Archive!Available(s)}
           versions(among) ==
              {[document |-> r, before |-> {s.content : s \in prior(among, r)}] : r \in among}
<1>1. \A table : Archive!PreserveDocumentVersions(table, moment) =
                      IF clash(table, known(table)) THEN Archive!Refused
                      ELSE versions(known(table))
  BY DEF Archive!PreserveDocumentVersions
<1> HIDE DEF versions
<1>2. SUFFICES ASSUME ~clash(new, known(new))
               PROVE  Archive!PreserveDocumentVersions(new, moment)
                         = Archive!PreserveDocumentVersions(old, moment)
  BY <1>1 DEF Archive!StandsOrRefused
<1>3. row.published # NoTime
  BY <1>2 DEF Archive!Dated, Grown
<1>4. /\ Archive!Eligible(new, moment) = Archive!Eligible(old, moment)
      /\ Archive!Eligible(old, moment) \subseteq DOMAIN old
  BY <1>3, KnownStays
<1>5. known(new) = known(old)
  BY <1>4 DEF Grown
<1>6. ~clash(old, known(old))
  BY <1>2, <1>5 DEF Grown, Archive!Dated
<1> QED BY <1>1, <1>2, <1>5, <1>6

\* The observation that belonged to a bar that has ended stands, or is refused.
LEMMA ObservationStands ==
    ASSUME NEW old, NEW new, NEW place, NEW row, Grown(old, new, place, row),
           NEW moment \in Int, moment < row.seen, NEW key
    PROVE  Archive!StandsOrRefused(Archive!AlignObservation(old, key, moment),
                                   Archive!AlignObservation(new, key, moment))
<1> DEFINE series(table) == {i \in DOMAIN table : table[i].key = key}
           known(table) == {i \in series(table) : Archive!Available(table[i]) <= moment}
           clash(table, among) ==
              \/ \E i \in among : table[i].published = NoTime
              \/ \E i, j \in among : i # j /\ table[i].published = table[j].published
           latest(table, among) ==
              {table[i] : i \in {i \in among :
                 /\ moment - table[i].published <= MaxAge
                 /\ \A j \in among : table[j].published <= table[i].published}}
<1>1. \A table : Archive!AlignObservation(table, key, moment) =
                      IF clash(table, series(table)) THEN Archive!Refused
                      ELSE latest(table, known(table))
  BY DEF Archive!AlignObservation
<1> HIDE DEF latest
<1>2. SUFFICES ASSUME ~clash(new, series(new))
               PROVE  Archive!AlignObservation(new, key, moment)
                         = Archive!AlignObservation(old, key, moment)
  BY <1>1 DEF Archive!StandsOrRefused
<1>3. place \in series(new) => ~(Archive!Available(row) <= moment)
  BY <1>2, SeenFirst DEF Grown
<1>4. known(new) = known(old)
  BY <1>3 DEF Grown
<1>5. ~clash(old, series(old))
  BY <1>2 DEF Grown
<1>6. latest(new, known(old)) = latest(old, known(old))
  BY DEF Grown, latest
<1> QED BY <1>1, <1>2, <1>4, <1>5, <1>6

\* An event that is new is put in no session that opened before it was seen.
LEMMA EventsComeAfter ==
    ASSUME NEW old, NEW new, NEW place, NEW row, Grown(old, new, place, row),
           Archive!AlignEvents(new) # Archive!Refused,
           NEW a \in Archive!AlignEvents(new) \ Archive!AlignEvents(old),
           NEW s \in a.sessions \ {NoTime}
    PROVE  s > row.seen
<1> DEFINE clash(table) ==
              \E i, j \in DOMAIN table : /\ Archive!SameVersion(table[i], table[j])
                                           /\ table[i] # table[j]
           aligned(r) ==
              [event |-> r,
               sessions |-> IF r.published = NoTime THEN {NoTime}
                            ELSE {t \in Sessions : /\ t > Archive!Available(r)
                                                   /\ \A u \in Sessions :
                                                        u > Archive!Available(r) => t <= u}]
<1>1. \A table : Archive!AlignEvents(table) =
                      IF clash(table) THEN Archive!Refused
                      ELSE {aligned(table[i]) : i \in DOMAIN table}
  BY DEF Archive!AlignEvents
<1>2. ~clash(new) /\ ~clash(old)
  BY <1>1 DEF Grown
<1> HIDE DEF aligned
<1>3. a = aligned(row)
  BY <1>1, <1>2 DEF Grown
<1>4. row.published # NoTime /\ s \in Sessions /\ s > Archive!Available(row)
  BY <1>3 DEF aligned
<1>5. s \in Int
  BY <1>4, InstanceAssumption DEF Archive!PointInTimeAssumption, Archive!Times
<1> QED BY <1>4, <1>5, SeenFirst DEF Grown

\* The clock never goes back, and no row is of a later moment.
ArchiveInv == rows \in Seq(Archive!Row) /\ clock \in Int

\* What one step of the archive may not do.
AnswersStand ==
    /\ \A moment \in Archive!Times : moment < clock =>
          /\ Archive!StandsOrRefused(Archive!SelectAsOf(rows, moment),
                                     Archive!SelectAsOf(rows', moment))
          /\ Archive!StandsOrRefused(Archive!PreserveDocumentVersions(rows, moment),
                                     Archive!PreserveDocumentVersions(rows', moment))
          /\ \A key \in Keys :
                Archive!StandsOrRefused(Archive!AlignObservation(rows, key, moment),
                                        Archive!AlignObservation(rows', key, moment))
    /\ Archive!AlignEvents(rows') # Archive!Refused =>
          \A a \in Archive!AlignEvents(rows') \ Archive!AlignEvents(rows) :
              \A s \in a.sessions \ {NoTime} : s > clock

\* Every step of the archive leaves what was said of the past.
LEMMA StepsStand == ASSUME ArchiveInv, Archive!Next PROVE ArchiveInv' /\ AnswersStand
<1>1. CASE Archive!Tick
  BY <1>1 DEF Archive!Tick, ArchiveInv, AnswersStand, Archive!StandsOrRefused
<1>2. ASSUME NEW row \in Archive!Row, Archive!Capture(row) PROVE ArchiveInv' /\ AnswersStand
  <2>1. row.seen = clock /\ rows' = Append(rows, row) /\ UNCHANGED clock
    BY <1>2 DEF Archive!Capture
  <2>2. Grown(rows, rows', Len(rows) + 1, row)
    BY <2>1, AppendGrows DEF ArchiveInv
  <2>3. ArchiveInv'
    BY <2>1 DEF ArchiveInv
  <2>4. \A moment \in Archive!Times : moment \in Int
    BY InstanceAssumption DEF Archive!PointInTimeAssumption, Archive!Times
  <2> QED BY <2>1, <2>2, <2>3, <2>4, SelectionStands, VersionsStand, ObservationStands,
             EventsComeAfter DEF AnswersStand
<1> QED BY <1>1, <1>2 DEF Archive!Next

\* No answer about a past moment changes with what the archive learns later,
\* for any archive, calendar and dates: the examples readers copy never look
\* ahead.
THEOREM AnswersNeverLookAhead == EitherSpec => NoLookAhead
<1>1. EitherInit => ArchiveInv
  BY DEF EitherInit, Archive!Init, ArchiveInv
<1>2. [EitherNext]_<<part, vars, words, archive, library, worker, console, showcase>>
        => [Archive!Next]_archive
  BY DEF EitherNext, LibraryNext, WorkerNext, ConsoleNext, ShowcaseNext
<1>3. ArchiveInv /\ [Archive!Next]_archive => ArchiveInv' /\ [AnswersStand]_Archive!vars
  <2>1. ArchiveInv /\ UNCHANGED archive => ArchiveInv' /\ UNCHANGED Archive!vars
    BY DEF archive, ArchiveInv, Archive!vars
  <2> QED BY <2>1, StepsStand
<1>4. [][AnswersStand]_Archive!vars => NoLookAhead
  BY PTL DEF NoLookAhead, Archive!NoLookAhead, AnswersStand
<1> QED BY <1>1, <1>2, <1>3, <1>4, PTL DEF EitherSpec

-----------------------------------------------------------------------------
(* The audit of the links                                                   *)

\* The set of records an audit may be given.
Libraries == UNION {[1..n -> [title : Titles, url : Urls \cup {Invalid}]] : n \in 0..MaxRecords}

\* The addresses are listed one after the other, so the part looked at has its
\* places in a row.
LEMMA PartIsARow ==
    ASSUME records \in Libraries, offset \in Nat, limit \in Nat
    PROVE  /\ Len(Audit!Part) \in Nat /\ DOMAIN Audit!Part = 1..Len(Audit!Part)
           /\ Audit!Part \in Seq({records[i].url : i \in DOMAIN records} \cap Urls)
<1> DEFINE named == {records[i].url : i \in DOMAIN records} \cap Urls
           all == {records[i].url : i \in DOMAIN records}
<1>1. PICK n \in 0..MaxRecords : records \in [1..n -> [title : Titles, url : Urls \cup {Invalid}]]
  BY DEF Libraries
<1>2. IsFiniteSet(DOMAIN records)
  BY <1>1, FS_Interval
<1>3. IsFiniteSet(all)
  <2> DEFINE urls == [i \in DOMAIN records |-> records[i].url]
  <2>1. urls \in Surjection(DOMAIN records, all)
    BY DEF Surjection
  <2> HIDE DEF urls, all
  <2> QED BY <1>2, <2>1, FS_Surjection
<1>4. IsFiniteSet(named)
  BY <1>3, FS_Subset
<1>5. Cardinality(named) \in Nat /\ ExistsBijection(1..Cardinality(named), named)
  BY <1>4, FS_CardinalityType
<1>6. Audit!Cardinality(named) = Cardinality(named)
  BY Zenon DEF Cardinality, Audit!Cardinality
<1>7. Audit!SetToSeq(named) \in [1..Cardinality(named) -> named]
  BY <1>5, <1>6 DEF ExistsBijection, Bijection, Injection, IsInjective, Audit!SetToSeq, Audit!IsInjective
<1>8. Audit!SourceUrls \in Seq(named)
  BY <1>5, <1>7 DEF Audit!SourceUrls
<1> HIDE DEF named
<1>9. PICK end \in Int : /\ end <= Len(Audit!SourceUrls)
                         /\ Audit!Part = SubSeq(Audit!SourceUrls, offset + 1, end)
  BY <1>8 DEF Audit!Part
<1>10. SubSeq(Audit!SourceUrls, offset + 1, end) \in Seq(named)
  BY <1>8, <1>9, SubSeqProperties
<1> QED BY <1>9, <1>10 DEF named

\* A place a worker has taken, with the method it asks by.
Asking == {"HEAD", "GET"} \X Nat

AuditInv ==
    /\ records \in Libraries /\ offset \in Nat /\ limit \in Nat
    /\ results = last /\ DOMAIN last = DOMAIN Audit!Part
    /\ cursor \in Nat \ {0} /\ cursor <= Len(Audit!Part) + 1
    /\ doing \in [LinkWorkers -> {Audit!Idle} \cup Asking]
    /\ \A w \in LinkWorkers : doing[w] # Audit!Idle => doing[w][2] \in 1..cursor - 1
    /\ \A n \in 1..cursor - 1 :
          last[n] # "none" \/ \E w \in LinkWorkers : doing[w] # Audit!Idle /\ doing[w][2] = n
    /\ auditExit = 0 =>
          /\ cursor > Len(Audit!Part) /\ \A w \in LinkWorkers : doing[w] = Audit!Idle
          /\ Audit!Errors = {} /\ \A i \in DOMAIN results : results[i] # "broken"

\* A worker that has a place is told apart from one that has none.
LEMMA AskingIsBusy ==
    ASSUME NEW d \in Asking
    PROVE  /\ d # Audit!Idle /\ d[1] \in {"HEAD", "GET"} /\ d[2] \in Nat
           /\ [d EXCEPT ![1] = "GET"] \in Asking /\ [d EXCEPT ![1] = "GET"][2] = d[2]
<1>1. PICK m \in {"HEAD", "GET"}, n \in Nat : d = <<m, n>>
  BY DEF Asking
<1>2. [d EXCEPT ![1] = "GET"] = <<"GET", n>>
  BY <1>1
<1>3. <<m, n>>[1] # Audit!Idle[1]
  BY DEF Audit!Idle
<1>4. d # Audit!Idle
  BY <1>1, <1>3
<1> QED BY <1>1, <1>2, <1>4 DEF Asking

\* A result is put at its own place, whatever the other workers do.
LEMMA JudgeKept ==
    ASSUME AuditInv, NEW w \in LinkWorkers, NEW state, state # "none", doing[w] # Audit!Idle,
           Audit!Judge(w, state), UNCHANGED <<cursor, auditExit, records, readingPath, offset, limit>>
    PROVE  AuditInv'
<1> USE DEF AuditInv
<1> DEFINE place == doing[w][2]
<1>1. /\ results' = [results EXCEPT ![place] = state]
      /\ last' = [last EXCEPT ![place] = state]
      /\ doing' = [doing EXCEPT ![w] = Audit!Idle]
  BY DEF Audit!Judge
<1>2. UNCHANGED <<Audit!Part, Audit!Errors>>
  BY DEF Audit!Part, Audit!SourceUrls, Audit!Errors, Audit!DuplicateTitles
<1>3. place \in 1..cursor - 1 /\ Len(Audit!Part) \in Nat /\ DOMAIN Audit!Part = 1..Len(Audit!Part)
  BY PartIsARow
<1>4. place \in DOMAIN last /\ DOMAIN last' = DOMAIN last
  BY <1>1, <1>3
<1>5. results' = last'
  BY <1>1
<1>6. last'[place] = state /\ \A n \in DOMAIN last \ {place} : last'[n] = last[n]
  BY <1>1, <1>4
<1>7. doing' \in [LinkWorkers -> {Audit!Idle} \cup Asking]
  BY <1>1
<1>8. /\ doing'[w] = Audit!Idle
      /\ \A v \in LinkWorkers \ {w} : doing'[v] = doing[v]
  BY <1>1
<1>9. auditExit # 0
  OBVIOUS
<1>10. \A n \in 1..cursor - 1 :
          last'[n] # "none" \/ \E v \in LinkWorkers : doing'[v] # Audit!Idle /\ doing'[v][2] = n
  <2> SUFFICES ASSUME NEW n \in 1..cursor - 1, n # place, last[n] = "none"
               PROVE  \E v \in LinkWorkers : doing'[v] # Audit!Idle /\ doing'[v][2] = n
    BY <1>3, <1>6
  <2>1. PICK v \in LinkWorkers : doing[v] # Audit!Idle /\ doing[v][2] = n
    OBVIOUS
  <2> QED BY <1>8, <2>1
<1>11. \A v \in LinkWorkers : doing'[v] # Audit!Idle => doing'[v][2] \in 1..cursor - 1
  BY <1>8
<1> QED BY <1>2, <1>4, <1>5, <1>7, <1>9, <1>10, <1>11

\* Every step of the audit keeps what its exit code relies on.
LEMMA AuditKept == ASSUME AuditInv, Audit!Next PROVE AuditInv'
<1> USE DEF AuditInv
<1>1. Len(Audit!Part) \in Nat /\ DOMAIN Audit!Part = 1..Len(Audit!Part)
  BY PartIsARow
<1>2. ASSUME UNCHANGED <<records, readingPath, offset, limit>>
      PROVE  UNCHANGED <<Audit!Part, Audit!Errors>>
  BY <1>2 DEF Audit!Part, Audit!SourceUrls, Audit!Errors, Audit!DuplicateTitles
<1>3. ASSUME NEW w \in LinkWorkers, Audit!Take(w) PROVE AuditInv'
  <2>1. /\ doing[w] = Audit!Idle /\ cursor <= Len(Audit!Part)
        /\ doing' = [doing EXCEPT ![w] = <<"HEAD", cursor>>] /\ cursor' = cursor + 1
        /\ UNCHANGED <<results, auditExit, last, records, readingPath, offset, limit>>
    BY <1>3 DEF Audit!Take, Audit!Look
  <2>2. <<"HEAD", cursor>> \in Asking
    BY DEF Asking
  <2>3. /\ doing' \in [LinkWorkers -> {Audit!Idle} \cup Asking]
        /\ doing'[w] = <<"HEAD", cursor>> /\ \A v \in LinkWorkers \ {w} : doing'[v] = doing[v]
    BY <2>1, <2>2
  <2>4. doing'[w] # Audit!Idle /\ doing'[w][2] = cursor
    <3>1. PICK d \in Asking : d = <<"HEAD", cursor>>
      BY <2>2
    <3>2. d # Audit!Idle
      BY AskingIsBusy
    <3>3. d[2] = cursor
      BY <3>1
    <3> QED BY <2>3, <3>1, <3>2, <3>3
  <2>5. auditExit' # 0
    BY <1>1, <2>1
  <2>6. \A v \in LinkWorkers : doing'[v] # Audit!Idle => doing'[v][2] \in 1..cursor' - 1
    BY <2>1, <2>3, <2>4
  <2>7. \A n \in 1..cursor' - 1 :
           last'[n] # "none" \/ \E v \in LinkWorkers : doing'[v] # Audit!Idle /\ doing'[v][2] = n
    <3> SUFFICES ASSUME NEW n \in 1..cursor - 1, last[n] = "none"
                 PROVE  \E v \in LinkWorkers : doing'[v] # Audit!Idle /\ doing'[v][2] = n
      BY <2>1, <2>4
    <3>1. PICK v \in LinkWorkers : doing[v] # Audit!Idle /\ doing[v][2] = n
      OBVIOUS
    <3> QED BY <2>1, <2>3, <3>1
  <2> QED BY <1>1, <1>2, <2>1, <2>3, <2>5, <2>6, <2>7
<1>4. ASSUME NEW w \in LinkWorkers, Audit!Otherwise(w) PROVE AuditInv'
  <2>1. PICK state \in {"timeout", "network_error", "unexpected_content_type"} :
           Audit!Judge(w, state)
    BY <1>4 DEF Audit!Otherwise
  <2> QED BY <1>4, <2>1, JudgeKept DEF Audit!Otherwise, Audit!Look
<1>5. ASSUME NEW w \in LinkWorkers, NEW s \in Statuses, Audit!Answer(w, s) PROVE AuditInv'
  <2>1. doing[w] # Audit!Idle /\ UNCHANGED <<cursor, auditExit, records, readingPath, offset, limit>>
    BY <1>5 DEF Audit!Answer, Audit!Look
  <2>2. CASE Audit!Judge(w, Audit!ClassifyLink(s))
    <3>1. Audit!ClassifyLink(s) # "none"
      BY DEF Audit!ClassifyLink
    <3> QED BY <2>1, <2>2, <3>1, JudgeKept
  <2>3. CASE doing' = [doing EXCEPT ![w][1] = "GET"] /\ UNCHANGED <<results, last>>
    <3> DEFINE again == [doing[w] EXCEPT ![1] = "GET"]
    <3>1. doing[w] \in Asking
      BY <2>1
    <3>2. again \in Asking /\ again[2] = doing[w][2] /\ again # Audit!Idle
      BY <3>1, AskingIsBusy
    <3>3. doing' = [doing EXCEPT ![w] = again]
      BY <2>3
    <3> HIDE DEF again
    <3>4. /\ doing' \in [LinkWorkers -> {Audit!Idle} \cup Asking]
          /\ doing'[w] = again /\ \A v \in LinkWorkers \ {w} : doing'[v] = doing[v]
      BY <3>2, <3>3
    <3>5. \A v \in LinkWorkers : /\ doing'[v] # Audit!Idle <=> doing[v] # Audit!Idle
                                 /\ doing[v] # Audit!Idle => doing'[v][2] = doing[v][2]
      BY <2>1, <3>2, <3>4
    <3> QED BY <1>2, <2>1, <2>3, <3>4, <3>5
  <2> QED BY <1>5, <2>2, <2>3 DEF Audit!Answer
<1>6. CASE Audit!Finish
  BY <1>1, <1>2, <1>6 DEF Audit!Finish, Audit!Look
<1>7. CASE Audit!Rest
  BY <1>2, <1>7 DEF Audit!Rest, Audit!vars
<1> QED BY <1>3, <1>4, <1>5, <1>6, <1>7 DEF Audit!Next

\* An audit that has ended well has found no rule broken.
LEMMA AuditVouches == ASSUME AuditInv PROVE Audit!AuditEndsWell
<1> USE DEF AuditInv
<1>1. Len(Audit!Part) \in Nat /\ DOMAIN Audit!Part = 1..Len(Audit!Part)
  BY PartIsARow
<1>2. SUFFICES ASSUME auditExit = 0
               PROVE  /\ \A i \in DOMAIN Audit!Part : last[i] \notin {"none", "broken"}
                      /\ \A i, j \in DOMAIN records : records[i].title = records[j].title => i = j
                      /\ \A i \in DOMAIN records : records[i].url # Invalid
                      /\ \A t \in readingPath : \E i \in DOMAIN records : records[i].title = t
  BY DEF Audit!AuditEndsWell
<1>3. \A i \in DOMAIN Audit!Part : last[i] \notin {"none", "broken"}
  BY <1>1, <1>2
<1>4. /\ Audit!DuplicateTitles = {}
      /\ {i \in DOMAIN records : records[i].url = Invalid} = {}
      /\ readingPath \ {records[i].title : i \in DOMAIN records} = {}
  <2>1. \A i \in Audit!DuplicateTitles : <<"duplicate_title", i>> \in Audit!Errors
    BY DEF Audit!Errors
  <2>2. \A i \in {i \in DOMAIN records : records[i].url = Invalid} :
           <<"invalid_https_source", i>> \in Audit!Errors
    BY DEF Audit!Errors
  <2>3. \A t \in readingPath \ {records[i].title : i \in DOMAIN records} :
           <<"broken_reading_path", t>> \in Audit!Errors
    BY DEF Audit!Errors
  <2> QED BY <1>2, <2>1, <2>2, <2>3
<1>5. PICK n \in 0..MaxRecords : records \in [1..n -> [title : Titles, url : Urls \cup {Invalid}]]
  BY DEF Libraries
<1>6. ASSUME NEW i \in DOMAIN records, NEW j \in DOMAIN records,
             records[i].title = records[j].title
      PROVE  i = j
  <2>1. i \in Int /\ j \in Int /\ 1 <= i /\ 1 <= j
    BY <1>5
  <2>2. ~(j < i) /\ ~(i < j)
    BY <1>4, <1>6, <2>1 DEF Audit!DuplicateTitles
  <2> QED BY <2>1, <2>2
<1> QED BY <1>3, <1>4, <1>6

-----------------------------------------------------------------------------
(* The verification of the papers                                           *)

PapersInv ==
    /\ memory \subseteq Papers /\ todo \subseteq Papers /\ flagged \subseteq Papers
    /\ confirmed \subseteq Papers
    /\ file \in {Missing, Torn} \cup SUBSET Papers
    /\ stage \in {"none", "looking"} \cup Papers
    /\ stage # "none" =>
          /\ exit = -1 /\ Papers \ memory \subseteq todo \cup flagged
          /\ confirmed \ flagged \subseteq memory
    /\ Verification!VerifiedOrFlagged

\* Every step of a verification keeps what the file says of the papers.
LEMMA PapersKept == ASSUME PapersInv, Verification!Next PROVE PapersInv'
<1> USE DEF PapersInv, Verification!VerifiedOrFlagged, Verification!Assembles
<1>1. /\ "none" \notin Papers /\ "looking" \notin Papers
      /\ \A S \in SUBSET Papers : S # Torn /\ S # Missing
  BY InstanceAssumption DEF Verification!BibliographyAssumption
<1>2. ASSUME NEW refresh \in BOOLEAN, NEW again \in SUBSET Papers,
             Verification!Start(refresh, again)
      PROVE  PapersInv'
  BY <1>1, <1>2 DEF Verification!Start
<1>3. ASSUME NEW p \in Papers, Verification!Found(p) PROVE PapersInv'
  BY <1>1, <1>3 DEF Verification!Found
<1>4. ASSUME NEW p \in Papers, Verification!NotFound(p) PROVE PapersInv'
  BY <1>1, <1>4 DEF Verification!NotFound
<1>5. CASE Verification!Write
  BY <1>1, <1>5 DEF Verification!Write
<1>6. CASE Verification!Finish
  BY <1>1, <1>6 DEF Verification!Finish
<1>7. CASE Verification!Kill
  BY <1>1, <1>7 DEF Verification!Kill
<1> QED BY <1>2, <1>3, <1>4, <1>5, <1>6, <1>7 DEF Verification!Next

\* The tools of the editors end well only when what they vouch for holds, for
\* any library, papers, workers and answers, and however a run ends.
THEOREM ToolsVouch == EitherSpec => []ToolsVouchForTheLibrary
<1> DEFINE Inv == AuditInv /\ PapersInv
<1>1. EitherInit => Inv
  <2> SUFFICES ASSUME EitherInit PROVE AuditInv /\ PapersInv
    OBVIOUS
  <2>1. PapersInv
    BY InstanceAssumption DEF EitherInit, Verification!Init, PapersInv,
       Verification!BibliographyAssumption, Verification!VerifiedOrFlagged, Verification!Assembles
  <2>2. CASE part = "audit"
    <3>1. Audit!Init
      BY <2>2 DEF EitherInit
    <3>2. records \in Libraries /\ offset \in Nat /\ limit \in Nat
      BY <3>1 DEF Audit!Init, Libraries
    <3>3. Len(Audit!Part) \in Nat /\ DOMAIN Audit!Part = 1..Len(Audit!Part)
      BY <3>2, PartIsARow
    <3>4. /\ cursor = 1 /\ auditExit = -1 /\ results = last
          /\ last = [i \in DOMAIN Audit!Part |-> "none"]
          /\ doing = [w \in LinkWorkers |-> Audit!Idle]
      BY <3>1 DEF Audit!Init
    <3> QED BY <2>1, <3>2, <3>3, <3>4 DEF AuditInv
  <2>3. CASE part # "audit"
    <3>1. /\ records = <<>> /\ readingPath = {} /\ offset = 0 /\ limit = 1 /\ cursor = 1
          /\ results = <<>> /\ last = <<>> /\ auditExit = 0
          /\ doing = [w \in LinkWorkers |-> Audit!Idle]
      BY <2>3 DEF EitherInit
    <3>2. records \in Libraries
      BY <3>1, InstanceAssumption DEF Libraries, Audit!AuditAssumption
    <3>3. Len(Audit!Part) = 0 /\ DOMAIN Audit!Part = {}
      <4>1. {records[i].url : i \in DOMAIN records} \cap Urls = {}
        BY <3>1
      <4>2. Audit!Part \in Seq({})
        BY <3>1, <3>2, <4>1, PartIsARow
      <4> QED BY <4>2
    <3>4. Audit!Errors = {}
      BY <3>1 DEF Audit!Errors, Audit!DuplicateTitles
    <3>5. DOMAIN last = {} /\ DOMAIN results = {}
      BY <3>1
    <3>6. doing \in [LinkWorkers -> {Audit!Idle} \cup Asking]
      BY <3>1
    <3> QED BY <2>1, <3>1, <3>2, <3>3, <3>4, <3>5, <3>6 DEF AuditInv
  <2> QED BY <2>1, <2>2, <2>3
<1>2. [EitherNext]_<<part, vars, words, archive, library, worker, console, showcase>>
        => [Audit!Next]_audit /\ [Verification!Next]_verification
  BY DEF EitherNext, LibraryNext, WorkerNext, ConsoleNext, ShowcaseNext, library
<1>3. Inv /\ [Audit!Next]_audit /\ [Verification!Next]_verification => Inv'
  <2>1. AuditInv /\ UNCHANGED audit => AuditInv'
    <3> SUFFICES ASSUME AuditInv, UNCHANGED audit PROVE AuditInv'
      OBVIOUS
    <3>1. /\ records' = records /\ readingPath' = readingPath /\ offset' = offset
          /\ limit' = limit /\ cursor' = cursor /\ results' = results /\ doing' = doing
          /\ auditExit' = auditExit /\ last' = last
      BY DEF audit
    <3>2. Audit!Part' = Audit!Part
      BY <3>1, Zenon DEF Audit!Part, Audit!SourceUrls
    <3>3. Audit!Errors' = Audit!Errors
      BY <3>1, Zenon DEF Audit!Errors, Audit!DuplicateTitles
    <3> QED BY <3>1, <3>2, <3>3, Zenon DEF AuditInv
  <2>2. PapersInv /\ UNCHANGED verification => PapersInv'
    BY DEF verification, PapersInv, Verification!VerifiedOrFlagged, Verification!Assembles
  <2> QED BY <2>1, <2>2, AuditKept, PapersKept
<1>4. Inv => ToolsVouchForTheLibrary
  BY AuditVouches DEF PapersInv, ToolsVouchForTheLibrary
<1> QED BY <1>1, <1>2, <1>3, <1>4, PTL DEF EitherSpec

-----------------------------------------------------------------------------
(* The guides of the articles                                               *)

GuideInv ==
    /\ location \in Reader!Locations /\ article \in Articles \cup {Elsewhere}
    /\ observed \in BOOLEAN /\ status \in {"loading", "ready", "error"}
    /\ cache \in [Guides -> {"none", "pending", "ready"}]
    /\ \A g \in waiting :
          g \in Guides /\ g = article /\ observed /\ status = "loading" /\ cache[g] = "pending"
    /\ status # "ready" => article \in Guides
    /\ Reader!GuideIsOfTheArticle

\* Every step of an article keeps what it shows its own.
LEMMA GuideKept == ASSUME GuideInv, Reader!Next PROVE GuideInv'
<1> USE DEF GuideInv, Reader!GuideIsOfTheArticle
<1>1. Guides \subseteq Articles /\ Elsewhere \notin Articles /\ NoBody \notin Articles
  BY InstanceAssumption DEF Reader!GuidesAssumption
<1>2. ASSUME NEW where \in Reader!Locations, Reader!Go(where) PROVE GuideInv'
  BY <1>2 DEF Reader!Go
<1>3. CASE Reader!Render
  BY <1>1, <1>3 DEF Reader!Render, Reader!Locations
<1>4. CASE Reader!Observe
  BY <1>1, <1>4 DEF Reader!Observe
<1>5. CASE Reader!Retry
  BY <1>5 DEF Reader!Retry
<1>6. CASE Reader!Frame
  BY <1>6 DEF Reader!Frame
<1>7. ASSUME NEW g \in Guides, Reader!Arrive(g) PROVE GuideInv'
  BY <1>1, <1>7 DEF Reader!Arrive
<1>8. ASSUME NEW g \in Guides, Reader!Fail(g) PROVE GuideInv'
  BY <1>1, <1>8 DEF Reader!Fail
<1> QED BY <1>2, <1>3, <1>4, <1>5, <1>6, <1>7, <1>8 DEF Reader!Next

-----------------------------------------------------------------------------
(* The bundle                                                               *)

\* Guides that are asked for come with their chunks, others not at all.
BundleInv ==
    /\ bundle \in [Chunks -> [imports : SUBSET Chunks, guides : SUBSET BundledGuides]]
    /\ loaded \subseteq Chunks /\ asked \subseteq BundledGuides
    /\ asked = {} => loaded \subseteq Reader!Initial
    /\ \A g \in asked : \E c \in loaded : g \in bundle[c].guides

\* What an initial chunk imports is initial.
LEMMA InitialIsClosed ==
    ASSUME BundleInv
    PROVE  \A c \in Reader!Initial : \A d \in bundle[c].imports : d \in Reader!Initial
<1> SUFFICES ASSUME NEW c \in Reader!Initial, NEW d \in bundle[c].imports
             PROVE  d \in Reader!Initial
  OBVIOUS
<1>1. c \in Chunks /\ d \in Chunks
  BY DEF Reader!Initial, BundleInv
<1>2. ASSUME NEW S \in SUBSET Chunks, Reader!Closed(S) PROVE d \in S
  BY <1>2 DEF Reader!Initial, Reader!Closed
<1> QED BY <1>1, <1>2 DEF Reader!Initial

\* Every load keeps to what was asked for.
LEMMA BundleKept == ASSUME BundleInv, Reader!BundleNext PROVE BundleInv'
<1>1. CASE Reader!Load
  <2>0. PICK c \in loaded : \E d \in bundle[c].imports \ loaded :
           loaded' = loaded \cup {d} /\ bundle' = bundle /\ asked' = asked
    BY <1>1 DEF Reader!Load
  <2>1. PICK d \in bundle[c].imports \ loaded :
           loaded' = loaded \cup {d} /\ bundle' = bundle /\ asked' = asked
    BY <2>0
  <2>2. d \in Chunks
    BY <2>1 DEF BundleInv
  <2>3. asked = {} => d \in Reader!Initial
    BY <2>1, InitialIsClosed DEF BundleInv
  <2>4. Reader!Initial' = Reader!Initial
    BY <2>1 DEF Reader!Initial, Reader!Closed
  <2> QED BY <2>1, <2>2, <2>3, <2>4 DEF BundleInv
<1>2. ASSUME NEW g \in BundledGuides, Reader!Open(g) PROVE BundleInv'
  <2>1. /\ bundle' = bundle /\ asked' = asked \cup {g}
        /\ loaded' = loaded \cup {c \in Chunks : g \in bundle[c].guides}
        /\ UNION {bundle[c].guides : c \in Chunks} = BundledGuides
    BY <1>2 DEF Reader!Open, Reader!Accepted
  <2>2. PICK c \in Chunks : g \in bundle[c].guides
    BY <2>1
  <2> QED BY <2>1, <2>2 DEF BundleInv
<1>3. CASE Reader!Rest
  BY <1>3 DEF Reader!Rest, build, Reader!build, BundleInv, Reader!Initial, Reader!Closed
<1> QED BY <1>1, <1>2, <1>3 DEF Reader!BundleNext

\* In a bundle that is accepted no initial chunk has a guide.
LEMMA BundleMeans == ASSUME BundleInv PROVE Reader!GuidesAreDeferred
<1> SUFFICES ASSUME Reader!Accepted
             PROVE  /\ asked = {} => \A c \in loaded : bundle[c].guides = {}
                    /\ asked \subseteq UNION {bundle[c].guides : c \in loaded}
  BY DEF Reader!GuidesAreDeferred
<1>1. \A c \in Chunks : bundle[c].guides # {} => c \notin Reader!Initial
  BY DEF Reader!Accepted
<1> QED BY <1>1 DEF BundleInv

-----------------------------------------------------------------------------
(* The counts of the console                                                *)

Snapshots == [since : Nat, total : Nat, metrics : [Report!Metrics -> Nat], events : [Events -> Nat]]

\* A snapshot adds up, and claims no more than the events up to the given one.
Counted(s, upto) ==
    LET of(event) == IF event \in Events THEN s.events[event] ELSE 0
    IN  /\ s \in Snapshots
        /\ s.total <= upto - s.since
        /\ s.total = s.metrics["views"] + s.metrics["errors"] + s.metrics["completions"]
        /\ s.metrics["views"] = of("workspace_view") + of("login_success")
        /\ s.metrics["errors"] = of("request_failed")
        /\ s.metrics["completions"] =
              of("copy_succeeded") + of("dataset_query_succeeded") + of("credential_created")
              + of("credential_updated") + of("credential_toggled") + of("credential_deleted")

CountsInv ==
    /\ recorded \in Nat
    /\ stored \in {NoItem, Unreadable} \/ Counted(stored, recorded)
    /\ \A t \in Tabs : Counted(counted[t], recorded)
    /\ DOMAIN counted = Tabs /\ DOMAIN recording = Tabs
    /\ \A t \in Tabs :
          recording[t] # Report!Idle =>
             recording[t].event \in Events /\ Counted(recording[t].to, recorded - 1)

\* One event more, in its metric and its own count.
LEMMA AddedCounts ==
    ASSUME NEW upto \in Int, NEW s, Counted(s, upto - 1), NEW e \in Events
    PROVE  Counted(Report!Added(s, e), upto)
<1> DEFINE metric == Report!MetricFor(e)
           m == [s.metrics EXCEPT ![metric] = @ + 1]
           v == [s.events EXCEPT ![e] = @ + 1]
           of(f, event) == IF event \in Events THEN f[event] ELSE 0
<1>1. s \in Snapshots /\ Report!Metrics = {"views", "errors", "completions"}
  BY DEF Counted, Report!Metrics
<1>2. s.since \in Nat /\ s.total \in Nat
  BY <1>1 DEF Snapshots
<1>3. s.metrics \in [Report!Metrics -> Nat] /\ s.events \in [Events -> Nat]
  BY <1>1 DEF Snapshots
<1>4. e \in {"workspace_view", "login_success", "request_failed", "copy_succeeded",
             "credential_created", "credential_updated", "credential_toggled",
             "credential_deleted", "dataset_query_succeeded"}
  BY InstanceAssumption DEF Report!ReportsAssumption
<1>5. /\ metric = "views" <=> e \in {"workspace_view", "login_success"}
      /\ metric = "errors" <=> e = "request_failed"
      /\ metric = "completions" <=> e \notin {"workspace_view", "login_success", "request_failed"}
      /\ metric \in Report!Metrics
  BY <1>1, <1>4 DEF Report!MetricFor
<1>6. Report!Added(s, e) = [since |-> s.since, total |-> s.total + 1, metrics |-> m, events |-> v]
  <2>1. Report!Added(s, e)
           = [[[s EXCEPT !.total = s.total + 1] EXCEPT !.metrics = m] EXCEPT !.events = v]
    BY <1>1 DEF Report!Added, Snapshots
  <2>2. s = [since |-> s.since, total |-> s.total, metrics |-> s.metrics, events |-> s.events]
    BY <1>1 DEF Snapshots
  <2> HIDE DEF m, v, metric
  <2> QED BY <1>1, <2>1, <2>2 DEF Snapshots
<1> HIDE DEF metric
<1>7. /\ m \in [Report!Metrics -> Nat]
      /\ \A x \in Report!Metrics : m[x] = IF x = metric THEN s.metrics[x] + 1 ELSE s.metrics[x]
  BY <1>3, <1>5
<1>8. /\ v \in [Events -> Nat]
      /\ \A x : of(v, x) = IF x = e THEN of(s.events, x) + 1 ELSE of(s.events, x)
      /\ \A x : of(s.events, x) \in Nat
  BY <1>3
<1>9. /\ s.total <= (upto - 1) - s.since
      /\ s.total = s.metrics["views"] + s.metrics["errors"] + s.metrics["completions"]
      /\ s.metrics["views"] = of(s.events, "workspace_view") + of(s.events, "login_success")
      /\ s.metrics["errors"] = of(s.events, "request_failed")
      /\ s.metrics["completions"] =
            of(s.events, "copy_succeeded") + of(s.events, "dataset_query_succeeded")
            + of(s.events, "credential_created") + of(s.events, "credential_updated")
            + of(s.events, "credential_toggled") + of(s.events, "credential_deleted")
  BY DEF Counted
<1>10. \A x \in Report!Metrics : s.metrics[x] \in Nat
  BY <1>3
<1> HIDE DEF m, v, of
<1>11. [since |-> s.since, total |-> s.total + 1, metrics |-> m, events |-> v] \in Snapshots
  BY <1>2, <1>7, <1>8 DEF Snapshots
<1>12. s.total + 1 = m["views"] + m["errors"] + m["completions"]
  BY <1>1, <1>2, <1>5, <1>7, <1>9, <1>10
<1>13. /\ m["views"] = of(v, "workspace_view") + of(v, "login_success")
       /\ m["errors"] = of(v, "request_failed")
       /\ m["completions"] =
             of(v, "copy_succeeded") + of(v, "dataset_query_succeeded")
             + of(v, "credential_created") + of(v, "credential_updated")
             + of(v, "credential_toggled") + of(v, "credential_deleted")
  <2>1. /\ m["views"] = IF metric = "views" THEN s.metrics["views"] + 1 ELSE s.metrics["views"]
        /\ m["errors"] = IF metric = "errors" THEN s.metrics["errors"] + 1 ELSE s.metrics["errors"]
        /\ m["completions"] = IF metric = "completions" THEN s.metrics["completions"] + 1
                              ELSE s.metrics["completions"]
    BY <1>1, <1>7
  <2>2. CASE metric = "views"
    BY <1>4, <1>5, <1>8, <1>9, <2>1, <2>2
  <2>3. CASE metric = "errors"
    BY <1>4, <1>5, <1>8, <1>9, <2>1, <2>3
  <2>4. CASE metric = "completions"
    BY <1>4, <1>5, <1>8, <1>9, <2>1, <2>4
  <2> QED BY <1>1, <1>5, <2>2, <2>3, <2>4
<1> QED
  <2> DEFINE r == [since |-> s.since, total |-> s.total + 1, metrics |-> m, events |-> v]
  <2>1. r.since = s.since /\ r.total = s.total + 1 /\ r.metrics = m /\ r.events = v
    OBVIOUS
  <2>2. Report!Added(s, e) = r
    BY <1>6
  <2>3. r.total <= upto - r.since
    BY <1>2, <1>9, <2>1
  <2> HIDE DEF r
  <2>4. Counted(r, upto)
    BY <1>11, <1>12, <1>13, <2>1, <2>3 DEF Counted, of, r
  <2> QED BY <2>2, <2>4

\* What is claimed of fewer events is claimed of more.
LEMMA CountedLater ==
    ASSUME NEW s, NEW m \in Int, NEW n \in Int, m <= n, Counted(s, m)
    PROVE  Counted(s, n)
<1>1. s.total \in Nat /\ s.since \in Nat /\ s.total <= m - s.since
  BY DEF Counted, Snapshots
<1>2. s.total <= n - s.since
  BY <1>1
<1> QED BY <1>2, Zenon DEF Counted

\* Every step of the counts keeps them honest.
LEMMA CountsKept == ASSUME CountsInv, Report!CountsNext PROVE CountsInv'
<1>0. /\ recorded \in Nat /\ recorded - 1 <= recorded
      /\ stored \in {NoItem, Unreadable} \/ Counted(stored, recorded)
      /\ \A t \in Tabs : Counted(counted[t], recorded)
      /\ DOMAIN counted = Tabs /\ DOMAIN recording = Tabs
      /\ \A t \in Tabs : recording[t] # Report!Idle =>
             recording[t].event \in Events /\ Counted(recording[t].to, recorded - 1)
  BY DEF CountsInv
<1>1. Counted(Report!Empty, recorded)
  BY <1>0 DEF Report!Empty, Counted, Snapshots, Report!Metrics
<1>2. ASSUME NEW t \in Tabs, NEW e \in Events, Report!Begin(t, e) PROVE CountsInv'
  <2>1. /\ recorded' = recorded + 1 /\ stored' = stored
        /\ recording' = [recording EXCEPT ![t] = [event |-> e, to |-> Report!Read(t)]]
        /\ counted' = IF stored \in {NoItem, Unreadable} THEN counted
                      ELSE [counted EXCEPT ![t] = stored]
    BY <1>2 DEF Report!Begin
  <2>2. Counted(Report!Read(t), recorded)
    BY <1>0, <1>1 DEF Report!Read
  <2>3. recorded' \in Nat /\ recorded <= recorded' /\ recorded' - 1 = recorded
        /\ recorded - 1 <= recorded' - 1
    BY <1>0, <2>1
  <2>4. \A s : (Counted(s, recorded) => Counted(s, recorded'))
               /\ (Counted(s, recorded - 1) => Counted(s, recorded' - 1))
    BY <1>0, <2>3, CountedLater
  <2>5. \A u \in Tabs : Counted(counted'[u], recorded)
    BY <1>0, <2>1
  <2>6. \A u \in Tabs : recording'[u] # Report!Idle =>
           recording'[u].event \in Events /\ Counted(recording'[u].to, recorded' - 1)
    <3> SUFFICES ASSUME NEW u \in Tabs, recording'[u] # Report!Idle
                 PROVE  recording'[u].event \in Events /\ Counted(recording'[u].to, recorded' - 1)
      OBVIOUS
    <3>1. CASE u = t
      BY <1>0, <2>1, <2>2, <2>3, <3>1
    <3>2. CASE u # t
      BY <1>0, <2>1, <2>4, <3>2
    <3> QED BY <3>1, <3>2
  <2>7. DOMAIN counted' = Tabs /\ DOMAIN recording' = Tabs
    BY <1>0, <2>1
  <2>8. \A u \in Tabs : Counted(counted'[u], recorded')
    BY <2>4, <2>5
  <2>9. stored' \in {NoItem, Unreadable} \/ Counted(stored', recorded')
    BY <1>0, <2>1, <2>4
  <2> QED BY <2>3, <2>6, <2>7, <2>8, <2>9 DEF CountsInv
<1>3. ASSUME NEW t \in Tabs, Report!Commit(t) PROVE CountsInv'
  <2> DEFINE next == Report!Added(recording[t].to, recording[t].event)
  <2>1. /\ recording[t] # Report!Idle /\ recorded' = recorded
        /\ recording' = [recording EXCEPT ![t] = Report!Idle]
        /\ \/ stored' = next /\ counted' = [counted EXCEPT ![t] = next]
           \/ stored' = stored /\ counted' = counted
    BY <1>3 DEF Report!Commit
  <2>2. Counted(next, recorded)
    BY <1>0, <2>1, AddedCounts
  <2> HIDE DEF next
  <2>3. \A u \in Tabs : recording'[u] # Report!Idle => recording'[u] = recording[u]
    BY <1>0, <2>1
  <2>4. DOMAIN counted' = Tabs /\ DOMAIN recording' = Tabs
    BY <1>0, <2>1
  <2>5. \A u \in Tabs : Counted(counted'[u], recorded)
    BY <1>0, <2>1, <2>2
  <2>6. stored' \in {NoItem, Unreadable} \/ Counted(stored', recorded)
    BY <1>0, <2>1, <2>2
  <2>7. \A u \in Tabs : recording'[u] # Report!Idle =>
           recording'[u].event \in Events /\ Counted(recording'[u].to, recorded - 1)
    BY <1>0, <2>3
  <2> QED BY <1>0, <2>1, <2>4, <2>5, <2>6, <2>7 DEF CountsInv
<1>4. ASSUME NEW t \in Tabs, Report!ResetCounts(t) PROVE CountsInv'
  <2>1. /\ recorded' = recorded /\ stored' = NoItem /\ recording' = recording
        /\ counted' = [counted EXCEPT ![t] = Report!Empty]
    BY <1>4 DEF Report!ResetCounts
  <2>2. \A u \in Tabs : Counted(counted'[u], recorded)
    BY <1>0, <1>1, <2>1
  <2>3. DOMAIN counted' = Tabs
    BY <1>0, <2>1
  <2> QED BY <1>0, <2>1, <2>2, <2>3 DEF CountsInv
<1>5. CASE Report!Rest
  BY <1>0, <1>5 DEF Report!Rest, Report!counts, CountsInv
<1> QED BY <1>2, <1>3, <1>4, <1>5 DEF Report!CountsNext

-----------------------------------------------------------------------------
(* The copies and the messages                                              *)

OpenPanels == [open : {TRUE}, text : Texts, state : {"idle", "pending", "copied", "failed"},
               generation : Nat, drawn : BOOLEAN]
Writes == [mine : BOOLEAN, generation : Nat, text : Texts, number : Nat]

\* The messages up to m that are newer than one.
Newer(id, m) == {newer \in 0..m : newer > id /\ newer < m}

\* A write of the panel's own that it still waits for has the text it shows;
\* messages are numbered, and have a timer unless newer ones pushed them out.
CopyInv ==
    /\ panel \in {Clipboard!Closed} \cup OpenPanels
    /\ writes \subseteq Writes
    /\ \A w \in writes : w.mine =>
          /\ panel.open /\ w.generation <= panel.generation
          /\ w.generation = panel.generation /\ panel.drawn => w.text = panel.text
    /\ copies \in Nat
    /\ Clipboard!CopiedIsWhatIsShown

MessagesInv ==
    /\ copies \in Nat /\ toasts \subseteq timers
    /\ \A id \in timers : id \in Nat /\ id < copies
    /\ IsFiniteSet(toasts) /\ Cardinality(toasts) <= MaxToasts
    /\ \A id \in timers \ toasts : Cardinality(Newer(id, copies)) >= MaxToasts

\* A panel with another state and a new generation is a panel.
LEMMA PanelChanges ==
    ASSUME NEW p \in OpenPanels, NEW st \in {"idle", "pending", "copied", "failed"},
           NEW text \in Texts, NEW n \in Nat, NEW d \in BOOLEAN
    PROVE  /\ p.open = TRUE /\ p.generation \in Nat /\ p.text \in Texts /\ p.drawn \in BOOLEAN
           /\ [[p EXCEPT !.text = text] EXCEPT !.drawn = d] \in OpenPanels
           /\ [[p EXCEPT !.state = st] EXCEPT !.generation = n] \in OpenPanels
           /\ [p EXCEPT !.state = st] \in OpenPanels
  BY DEF OpenPanels

\* A step after which the waited-for writes are right keeps what is said of a copy.
LEMMA CopyFollows ==
    ASSUME panel' \in {Clipboard!Closed} \cup OpenPanels, writes' \subseteq Writes, copies' \in Nat,
           \A w \in writes' : w.mine =>
              /\ panel'.open /\ w.generation <= panel'.generation
              /\ w.generation = panel'.generation /\ panel'.drawn => w.text = panel'.text,
           panel'.open /\ panel'.drawn /\ panel'.state = "copied" => said' = panel'.text
    PROVE  CopyInv'
  BY Zenon DEF CopyInv, Clipboard!CopiedIsWhatIsShown

\* Every step keeps what is said of a copy.
LEMMA CopyKept == ASSUME CopyInv, Clipboard!Next PROVE CopyInv'
<1>0. copies \in Nat
  BY DEF CopyInv
<1>1. /\ panel \in {Clipboard!Closed} \cup OpenPanels /\ writes \subseteq Writes
      /\ Clipboard!Closed.open = FALSE
  BY DEF CopyInv, Clipboard!Closed, OpenPanels
<1>21. \A p \in OpenPanels :
          p.open = TRUE /\ p.generation \in Nat /\ p.generation + 1 \in Nat /\ p.text \in Texts
  <2> TAKE p \in OpenPanels
  <2>1. p.open = TRUE /\ p.generation \in Nat /\ p.text \in Texts
    BY DEF OpenPanels
  <2> QED BY <2>1
<1>2. \A w \in writes : w.mine =>
         /\ panel.open /\ w.generation <= panel.generation
         /\ w.generation = panel.generation /\ panel.drawn => w.text = panel.text
  BY DEF CopyInv
<1>3. panel.open /\ panel.drawn /\ panel.state = "copied" => said = panel.text
  BY DEF CopyInv, Clipboard!CopiedIsWhatIsShown
<1>20. \A w \in writes : w \in Writes /\ w.generation \in Nat /\ w.text \in Texts
  BY <1>1 DEF Writes
<1>4. ASSUME NEW text \in Texts, Clipboard!Open(text) PROVE CopyInv'
  <2>1. /\ panel' \in OpenPanels /\ panel'.state = "idle"
        /\ writes' = writes /\ said' = said /\ copies' = copies /\ ~panel.open
    BY <1>1, <1>4 DEF Clipboard!Open, OpenPanels
  <2>2. \A w \in writes : ~w.mine
    BY <1>2, <2>1
  <2> QED BY <1>0, <1>1, <2>1, <2>2, CopyFollows
<1>5. ASSUME NEW text \in Texts, Clipboard!Choose(text) PROVE CopyInv'
  <2>1. /\ panel \in OpenPanels
        /\ panel' = [[panel EXCEPT !.text = text] EXCEPT !.drawn = FALSE]
        /\ writes' = writes /\ said' = said /\ copies' = copies
    BY <1>1, <1>5 DEF Clipboard!Choose
  <2>2. panel' \in OpenPanels
    BY <2>1, PanelChanges, Zenon
  <2>3. panel'.open = panel.open /\ ~panel'.drawn /\ panel'.generation = panel.generation
    BY <2>1 DEF OpenPanels
  <2>4. \A w \in writes' : w.mine =>
           /\ panel'.open /\ w.generation <= panel'.generation
           /\ w.generation = panel'.generation /\ panel'.drawn => w.text = panel'.text
    BY <1>2, <2>1, <2>3
  <2> QED BY <1>0, <1>1, <2>1, <2>2, <2>3, <2>4, CopyFollows
<1>6. CASE Clipboard!Effect
  <2>1. /\ panel \in OpenPanels /\ writes' = writes /\ said' = said /\ copies' = copies
        /\ panel' = [panel EXCEPT !.state = "idle", !.generation = @ + 1, !.drawn = TRUE]
    BY <1>1, <1>6 DEF Clipboard!Effect
  <2>2. panel.generation \in Nat /\ panel.generation + 1 \in Nat
    BY <1>21, <2>1
  <2>3. panel' \in OpenPanels
    BY <2>1, <2>2 DEF OpenPanels
  <2>4. /\ panel'.open /\ panel'.state = "idle"
        /\ panel'.generation = panel.generation + 1
    BY <2>1 DEF OpenPanels
  <2>5. \A w \in writes' : w.mine =>
           /\ panel'.open /\ w.generation <= panel'.generation
           /\ w.generation = panel'.generation /\ panel'.drawn => w.text = panel'.text
    BY <1>2, <1>20, <2>1, <2>2, <2>4
  <2> QED BY <1>0, <1>1, <2>1, <2>3, <2>4, <2>5, CopyFollows
<1>7. CASE Clipboard!Close
  <2>1. /\ panel' = Clipboard!Closed /\ writes' = {[w EXCEPT !.mine = FALSE] : w \in writes}
        /\ copies' = copies /\ ~panel'.open
    BY <1>1, <1>7 DEF Clipboard!Close
  <2>2. \A w \in writes' : w \in Writes /\ ~w.mine
    BY <1>1, <2>1 DEF Writes
  <2> QED BY <1>0, <2>1, <2>2, CopyFollows
<1>8. CASE Clipboard!Copy
  <2> DEFINE new == [mine |-> TRUE, generation |-> panel.generation + 1,
                     text |-> panel.text, number |-> copies]
  <2>1. /\ panel \in OpenPanels /\ writes' = writes \cup {new} /\ said' = said
        /\ copies' = copies + 1
        /\ panel' = [[panel EXCEPT !.state = "pending"] EXCEPT !.generation = panel.generation + 1]
    BY <1>1, <1>8 DEF Clipboard!Copy
  <2>2. panel.generation \in Nat /\ panel.generation + 1 \in Nat /\ panel.text \in Texts
    BY <1>21, <2>1
  <2>3. panel' \in OpenPanels
    <3> DEFINE n == panel.generation + 1
    <3>1. panel' = [[panel EXCEPT !.state = "pending"] EXCEPT !.generation = n] /\ n \in Nat
      BY <2>1, <2>2
    <3> HIDE DEF n
    <3> QED BY <2>1, <3>1 DEF OpenPanels
  <2>4. /\ panel'.open /\ panel'.state = "pending"
        /\ panel'.generation = panel.generation + 1 /\ panel'.text = panel.text
    BY <2>1 DEF OpenPanels
  <2>5. new \in Writes /\ new.generation = panel'.generation /\ new.text = panel'.text
    BY <1>0, <2>2, <2>4 DEF Writes
  <2> HIDE DEF new
  <2>6. \A w \in writes' : w.mine =>
           /\ panel'.open /\ w.generation <= panel'.generation
           /\ w.generation = panel'.generation /\ panel'.drawn => w.text = panel'.text
    BY <1>2, <1>20, <2>1, <2>2, <2>4, <2>5
  <2> QED BY <1>0, <1>1, <2>1, <2>3, <2>4, <2>5, <2>6, CopyFollows
<1>9. ASSUME NEW w \in writes, NEW ok \in BOOLEAN, Clipboard!Settle(w, ok) PROVE CopyInv'
  <2>1. writes' \subseteq writes /\ copies' = copies
    BY <1>9 DEF Clipboard!Settle
  <2>2. CASE w.mine /\ w.generation = panel.generation
    <3>1. /\ panel' = [panel EXCEPT !.state = IF ok THEN "copied" ELSE "failed"]
          /\ said' = IF ok THEN w.text ELSE said
      BY <1>9, <2>2 DEF Clipboard!Settle
    <3>2. panel \in OpenPanels
      BY <1>1, <1>2, <1>21, <2>2
    <3>3. /\ panel' \in OpenPanels /\ panel'.open = panel.open /\ panel'.drawn = panel.drawn
          /\ panel'.generation = panel.generation /\ panel'.text = panel.text
          /\ panel'.state = IF ok THEN "copied" ELSE "failed"
      BY <3>1, <3>2 DEF OpenPanels
    <3>4. \A x \in writes' : x.mine =>
             /\ panel'.open /\ x.generation <= panel'.generation
             /\ x.generation = panel'.generation /\ panel'.drawn => x.text = panel'.text
      BY <1>2, <2>1, <3>3
    <3>5. panel'.open /\ panel'.drawn /\ panel'.state = "copied" => said' = panel'.text
      BY <1>2, <2>2, <3>1, <3>3
    <3> QED BY <1>0, <1>1, <2>1, <3>3, <3>4, <3>5, CopyFollows
  <2>3. CASE ~(w.mine /\ w.generation = panel.generation)
    <3>1. panel' = panel /\ said' = said
      BY <1>9, <2>3 DEF Clipboard!Settle
    <3> QED BY <1>0, <1>1, <1>2, <1>3, <2>1, <3>1, CopyFollows
  <2> QED BY <2>2, <2>3
<1>10. CASE Clipboard!Toast
  <2>1. panel' = panel /\ writes' = writes /\ said' = said /\ copies' = copies + 1
    BY <1>10 DEF Clipboard!Toast
  <2>2. copies' \in Nat
    BY <1>0, <2>1
  <2> QED BY <1>1, <1>2, <1>3, <2>1, <2>2, CopyFollows
<1>11. ASSUME NEW id \in timers, Clipboard!Expire(id) PROVE CopyInv'
  <2>1. panel' = panel /\ writes' = writes /\ said' = said /\ copies' = copies
    BY <1>11 DEF Clipboard!Expire
  <2> QED BY <1>0, <1>1, <1>2, <1>3, <2>1, CopyFollows
<1>12. CASE Clipboard!Rest
  <2>1. panel' = panel /\ writes' = writes /\ said' = said /\ copies' = copies
    BY <1>12 DEF Clipboard!Rest, Clipboard!vars
  <2> QED BY <1>0, <1>1, <1>2, <1>3, <2>1, CopyFollows
<1> QED BY <1>4, <1>5, <1>6, <1>7, <1>8, <1>9, <1>10, <1>11, <1>12 DEF Clipboard!Next

\* The messages are counted alike here and there.
LEMMA ToastsCounted == \A S : Clipboard!Cardinality(S) = Cardinality(S)
BY Zenon DEF Cardinality, Clipboard!Cardinality

\* With another message, those that are newer than one do not get fewer.
LEMMA NewerGrow ==
    ASSUME NEW id \in Nat, NEW n \in Nat
    PROVE  /\ IsFiniteSet(Newer(id, n)) /\ IsFiniteSet(Newer(id, n + 1))
           /\ Cardinality(Newer(id, n)) <= Cardinality(Newer(id, n + 1))
           /\ Cardinality(Newer(id, n)) \in Nat /\ Cardinality(Newer(id, n + 1)) \in Nat
<1>1. IsFiniteSet(0..n) /\ IsFiniteSet(0..n + 1)
  BY FS_Interval
<1>2. /\ Newer(id, n) \subseteq 0..n /\ Newer(id, n + 1) \subseteq 0..n + 1
      /\ Newer(id, n) \subseteq Newer(id, n + 1)
  BY DEF Newer
<1>3. IsFiniteSet(Newer(id, n)) /\ IsFiniteSet(Newer(id, n + 1))
  BY <1>1, <1>2, FS_Subset
<1> QED BY <1>2, <1>3, FS_Subset, FS_CardinalityType

\* A set of numbers that is not empty has a least one.
LEMMA NatLeast ==
    ASSUME NEW T \in SUBSET Nat, T # {}
    PROVE  \E n \in T : \A m \in T : n <= m
<1>1. PICK n \in T : \A m \in T : ~(<<m, n>> \in OpToRel(<, Nat))
  BY NatLessThanWellFounded, WFMin
<1>2. \A m \in T : ~(m < n)
  BY <1>1 DEF OpToRel
<1> QED BY <1>2

\* A message that is pushed out is older than the others and the new one.
LEMMA PushedOut ==
    ASSUME MessagesInv, ~(Cardinality(toasts) < MaxToasts)
    PROVE  /\ Clipboard!Oldest \in toasts
           /\ Cardinality(toasts \ {Clipboard!Oldest}) = Cardinality(toasts) - 1
           /\ Cardinality(Newer(Clipboard!Oldest, copies + 1)) >= MaxToasts
<1> DEFINE oldest == Clipboard!Oldest
           rest == toasts \ {oldest}
<1>1. /\ copies \in Nat /\ IsFiniteSet(toasts) /\ Cardinality(toasts) <= MaxToasts
      /\ \A t \in toasts : t \in Nat /\ t < copies
  BY DEF MessagesInv
<1>2. MaxToasts \in Nat \ {0}
  BY InstanceAssumption DEF Clipboard!CopyAssumption
<1>3. Cardinality(toasts) = MaxToasts
  <2>1. Cardinality(toasts) \in Nat
    BY <1>1, FS_CardinalityType
  <2> QED BY <1>1, <1>2, <2>1
<1>4. toasts # {}
  BY <1>2, <1>3, FS_EmptySet
<1>5. oldest \in toasts /\ \A t \in toasts : oldest <= t
  BY <1>1, <1>4, NatLeast DEF Clipboard!Oldest
<1> HIDE DEF oldest
<1>6. IsFiniteSet(rest) /\ Cardinality(rest) = MaxToasts - 1
  BY <1>1, <1>3, <1>5, FS_RemoveElement
<1>7. copies \notin rest
  BY <1>1
<1>8. Cardinality(rest \cup {copies}) = MaxToasts
  BY <1>2, <1>6, <1>7, FS_AddElement
<1>9. rest \cup {copies} \subseteq Newer(oldest, copies + 1)
  <2>1. \A t \in rest : t \in 0..copies + 1 /\ t > oldest /\ t < copies + 1
    BY <1>1, <1>5
  <2>2. copies \in 0..copies + 1 /\ copies > oldest /\ copies < copies + 1
    BY <1>1, <1>5
  <2> QED BY <2>1, <2>2 DEF Newer
<1>10. IsFiniteSet(Newer(oldest, copies + 1))
  BY <1>1, <1>5, NewerGrow
<1>11. Cardinality(Newer(oldest, copies + 1)) >= MaxToasts
  BY <1>8, <1>9, <1>10, FS_Subset, FS_CardinalityType
<1> QED BY <1>3, <1>5, <1>6, <1>11 DEF oldest

\* Every step keeps a timer for each message.
LEMMA MessagesKept == ASSUME MessagesInv, Clipboard!Next PROVE MessagesInv'
<1>0. MaxToasts \in Nat \ {0}
  BY InstanceAssumption DEF Clipboard!CopyAssumption
<1>1. /\ copies \in Nat /\ toasts \subseteq timers
      /\ \A id \in timers : id \in Nat /\ id < copies
      /\ IsFiniteSet(toasts) /\ Cardinality(toasts) <= MaxToasts
      /\ \A id \in timers \ toasts : Cardinality(Newer(id, copies)) >= MaxToasts
      /\ Cardinality(toasts) \in Nat
  BY FS_CardinalityType DEF MessagesInv
<1>13. \A id \in timers \ toasts : Cardinality(Newer(id, copies + 1)) >= MaxToasts
  <2> TAKE id \in timers \ toasts
  <2>1. id \in Nat /\ Cardinality(Newer(id, copies)) >= MaxToasts
    BY <1>1
  <2>2. /\ Cardinality(Newer(id, copies)) <= Cardinality(Newer(id, copies + 1))
        /\ Cardinality(Newer(id, copies)) \in Nat /\ Cardinality(Newer(id, copies + 1)) \in Nat
    BY <1>1, <2>1, NewerGrow
  <2> QED BY <1>0, <2>1, <2>2
<1>2. CASE copies' = copies + 1 /\ UNCHANGED <<toasts, timers>>
  <2> QED BY <1>1, <1>2, <1>13 DEF MessagesInv
<1>3. CASE Clipboard!Toast
  <2> DEFINE kept == IF Cardinality(toasts) < MaxToasts THEN toasts ELSE toasts \ {Clipboard!Oldest}
  <2>1. copies' = copies + 1 /\ toasts' = kept \cup {copies} /\ timers' = timers \cup {copies}
    <3>1. /\ copies' = copies + 1 /\ timers' = timers \cup {copies}
          /\ toasts' = (IF Clipboard!Cardinality(toasts) < MaxToasts THEN toasts
                        ELSE toasts \ {Clipboard!Oldest}) \cup {copies}
      BY <1>3, Zenon DEF Clipboard!Toast
    <3>2. Clipboard!Cardinality(toasts) = Cardinality(toasts)
      BY ToastsCounted
    <3> QED BY <3>1, <3>2
  <2>2. /\ kept \subseteq toasts /\ IsFiniteSet(kept)
        /\ Cardinality(kept) \in Nat /\ Cardinality(kept) + 1 <= MaxToasts
        /\ \A id \in toasts \ kept : Cardinality(Newer(id, copies + 1)) >= MaxToasts
    <3>1. CASE Cardinality(toasts) < MaxToasts
      BY <1>0, <1>1, <3>1
    <3>2. CASE ~(Cardinality(toasts) < MaxToasts)
      <4>1. kept = toasts \ {Clipboard!Oldest}
        BY <3>2
      <4>2. /\ Clipboard!Oldest \in toasts
            /\ Cardinality(kept) = Cardinality(toasts) - 1
            /\ Cardinality(Newer(Clipboard!Oldest, copies + 1)) >= MaxToasts
        BY <3>2, <4>1, PushedOut
      <4>3. IsFiniteSet(kept)
        BY <1>1, <4>1, FS_RemoveElement
      <4>4. Cardinality(kept) \in Nat
        BY <4>3, FS_CardinalityType
      <4> QED BY <1>0, <1>1, <4>1, <4>2, <4>3, <4>4
    <3> QED BY <3>1, <3>2
  <2> HIDE DEF kept
  <2>3. copies \notin kept
    BY <1>1, <2>2
  <2>4. IsFiniteSet(toasts') /\ Cardinality(toasts') <= MaxToasts
    <3>1. /\ IsFiniteSet(kept \cup {copies})
          /\ Cardinality(kept \cup {copies}) = Cardinality(kept) + 1
      BY <2>2, <2>3, FS_AddElement
    <3>2. toasts' = kept \cup {copies}
      BY <2>1
    <3> HIDE DEF kept
    <3> QED BY <2>2, <3>1, <3>2
  <2>6. \A id \in timers' \ toasts' : Cardinality(Newer(id, copies')) >= MaxToasts
    BY <1>13, <2>1, <2>2
  <2>7. /\ copies' \in Nat /\ toasts' \subseteq timers'
        /\ \A id \in timers' : id \in Nat /\ id < copies'
    BY <1>1, <2>1, <2>2
  <2> QED BY <2>4, <2>6, <2>7 DEF MessagesInv
<1>4. ASSUME NEW id \in timers, Clipboard!Expire(id) PROVE MessagesInv'
  <2>1. copies' = copies /\ timers' = timers \ {id} /\ toasts' = toasts \ {id}
    BY <1>4 DEF Clipboard!Expire
  <2>2. IsFiniteSet(toasts') /\ Cardinality(toasts') <= Cardinality(toasts)
    BY <1>1, <2>1, FS_Subset
  <2>3. Cardinality(toasts') \in Nat
    BY <2>2, FS_CardinalityType
  <2> QED BY <1>0, <1>1, <2>1, <2>2, <2>3 DEF MessagesInv
<1>5. CASE UNCHANGED <<copies, toasts, timers>>
  BY <1>1, <1>5 DEF MessagesInv
<1>6. \/ Clipboard!Toast \/ \E id \in timers : Clipboard!Expire(id)
      \/ copies' = copies + 1 /\ UNCHANGED <<toasts, timers>>
      \/ UNCHANGED <<copies, toasts, timers>>
  BY DEF Clipboard!Next, Clipboard!Open, Clipboard!Choose, Clipboard!Effect, Clipboard!Close,
     Clipboard!Copy, Clipboard!Settle, Clipboard!Rest, Clipboard!vars
<1> QED BY <1>2, <1>3, <1>4, <1>5, <1>6

-----------------------------------------------------------------------------
(* What the visitor chose                                                   *)

SelectionInv ==
    /\ visits \in Seq(Chosen!Pages) /\ position \in DOMAIN visits
    /\ index \in DOMAIN BasePlans /\ period \in Chosen!Terms
    /\ journey \in Chosen!PlanChoices \cup {Unchosen}
    /\ journey # Unchosen => Chosen!About = journey

\* The position of a plan among the plans.
LEMMA PlanPlaces ==
    /\ \A plan \in Chosen!PlanIds : Chosen!IndexOf(plan) \in DOMAIN BasePlans
                                   /\ BasePlans[Chosen!IndexOf(plan)] = plan
    /\ \A i \in DOMAIN BasePlans : BasePlans[i] \in Chosen!PlanIds
BY DEF Chosen!PlanIds, Chosen!IndexOf

\* A page is about a choice, if it is about anything.
LEMMA PagesAreOf ==
    ASSUME NEW address \in Chosen!Pages
    PROVE  /\ address.of \in Chosen!PlanChoices \cup {Unchosen}
           /\ address.page \in {"pricing", "preview", "login", "elsewhere"}
BY DEF Chosen!Pages, Chosen!At

\* The card that is loaded with an address, or with any.
LEMMA LoadedCard ==
    ASSUME NEW address \in Chosen!Pages
    PROVE  /\ Chosen!LoadedIndex(address) \in DOMAIN BasePlans
           /\ Chosen!LoadedPeriod(address) \in Chosen!Terms
           /\ address.page # "login" /\ address.of # Unchosen =>
                 address.of = [plan |-> BasePlans[Chosen!LoadedIndex(address)],
                               period |-> Chosen!LoadedPeriod(address)]
<1>1. 1 \in DOMAIN BasePlans /\ "monthly" \in Chosen!Terms
  BY InstanceAssumption DEF Chosen!ShowcaseAssumption, Chosen!Terms
<1>2. ASSUME address.of # Unchosen
      PROVE  /\ address.of.plan \in Chosen!PlanIds /\ address.of.period \in Chosen!Terms
             /\ address.of = [plan |-> address.of.plan, period |-> address.of.period]
  BY <1>2, PagesAreOf DEF Chosen!PlanChoices
<1> QED BY <1>1, <1>2, PlanPlaces DEF Chosen!LoadedIndex, Chosen!LoadedPeriod

\* A page gone to is the next of the history.
LEMMA PushedPage ==
    ASSUME SelectionInv, NEW address \in Chosen!Pages, Chosen!Push(address)
    PROVE  /\ visits' \in Seq(Chosen!Pages) /\ position' \in DOMAIN visits'
           /\ visits'[position'] = address
<1>1. /\ visits \in Seq(Chosen!Pages) /\ position \in 1..Len(visits) /\ Len(visits) \in Nat
      /\ visits' = Append(SubSeq(visits, 1, position), address) /\ position' = position + 1
  BY DEF SelectionInv, Chosen!Push
<1>2. /\ SubSeq(visits, 1, position) \in Seq(Chosen!Pages)
      /\ Len(SubSeq(visits, 1, position)) = position
  BY <1>1
<1> QED BY <1>1, <1>2

\* The card of a page that is gone to: its own, if it names one.
LEMMA FollowedCard ==
    ASSUME SelectionInv, NEW address \in Chosen!Pages, Chosen!FollowAddress(address)
    PROVE  /\ index' \in DOMAIN BasePlans /\ period' \in Chosen!Terms
           /\ address = visits[position] => UNCHANGED <<index, period>>
           /\ address # visits[position] /\ address.page = "pricing" /\ address.of # Unchosen =>
                 address.of = [plan |-> BasePlans[index'], period |-> period']
<1>1. index \in DOMAIN BasePlans /\ period \in Chosen!Terms
  BY DEF SelectionInv
<1>2. CASE address # visits[position] /\ address.page = "pricing" /\ address.of # Unchosen
  <2>1. index' = Chosen!IndexOf(address.of.plan) /\ period' = address.of.period
    BY <1>2 DEF Chosen!FollowAddress, Chosen!here
  <2>2. /\ address.of.plan \in Chosen!PlanIds /\ address.of.period \in Chosen!Terms
        /\ address.of = [plan |-> address.of.plan, period |-> address.of.period]
    BY <1>2, PagesAreOf DEF Chosen!PlanChoices
  <2> QED BY <1>2, <2>1, <2>2, PlanPlaces
<1>3. CASE ~(address # visits[position] /\ address.page = "pricing" /\ address.of # Unchosen)
  BY <1>1, <1>3 DEF Chosen!FollowAddress, Chosen!here
<1> QED BY <1>2, <1>3

\* What a page is about, once it is gone to.
LEMMA AboutNext ==
    /\ visits'[position'].page # "pricing" => Chosen!About' = visits'[position'].of
    /\ visits'[position'].page = "pricing" =>
          Chosen!About' = [plan |-> BasePlans[index'], period |-> period']
BY DEF Chosen!About, Chosen!here, Chosen!Card

\* Every step of the visitor keeps the page about what was chosen.
LEMMA SelectionKept == ASSUME SelectionInv, Chosen!SelectionNext PROVE SelectionInv'
<1>1. /\ visits \in Seq(Chosen!Pages) /\ position \in DOMAIN visits
      /\ visits[position] \in Chosen!Pages
      /\ index \in DOMAIN BasePlans /\ period \in Chosen!Terms
      /\ journey \in Chosen!PlanChoices \cup {Unchosen}
      /\ journey # Unchosen => Chosen!About = journey
  BY DEF SelectionInv
<1>2. /\ visits[position].page # "pricing" => Chosen!About = visits[position].of
      /\ visits[position].page = "pricing" =>
            Chosen!About = [plan |-> BasePlans[index], period |-> period]
      /\ [plan |-> BasePlans[index], period |-> period] \in Chosen!PlanChoices
  BY <1>1, PlanPlaces DEF Chosen!About, Chosen!here, Chosen!Card, Chosen!PlanChoices
<1>3. ASSUME NEW plan \in Chosen!PlanIds, Chosen!Choose(plan) PROVE SelectionInv'
  <2>1. /\ visits' = visits /\ position' = position /\ period' = period
        /\ visits[position].page = "pricing" /\ index' = Chosen!IndexOf(plan)
        /\ journey' = [Chosen!About EXCEPT !.plan = plan]
    BY <1>3 DEF Chosen!Choose, Chosen!here
  <2>2. journey' = [plan |-> plan, period |-> period] /\ journey' \in Chosen!PlanChoices
    BY <1>1, <1>2, <2>1 DEF Chosen!PlanChoices
  <2> QED BY <1>1, <2>1, <2>2, AboutNext, PlanPlaces DEF SelectionInv
<1>4. ASSUME NEW steps \in {1, Len(BasePlans) - 1}, Chosen!Turn(steps) PROVE SelectionInv'
  <2>1. /\ visits' = visits /\ position' = position /\ period' = period
        /\ visits[position].page = "pricing"
        /\ index' = ((index - 1 + steps) % Len(BasePlans)) + 1
        /\ journey' = [plan |-> BasePlans[index'], period |-> period]
    BY <1>4 DEF Chosen!Turn, Chosen!here
  <2>2. PICK n \in Nat \ {0} : n = Len(BasePlans) /\ DOMAIN BasePlans = 1..n
    <3>1. Len(BasePlans) \in Nat \ {0}
      BY InstanceAssumption DEF Chosen!ShowcaseAssumption
    <3>2. DOMAIN BasePlans = 1..Len(BasePlans)
      BY InstanceAssumption DEF Chosen!ShowcaseAssumption
    <3> QED BY <3>1, <3>2, Zenon
  <2>3. index \in 1..n /\ steps \in {1, n - 1} /\ index' = ((index - 1 + steps) % n) + 1
    BY <1>1, <2>1, <2>2, Zenon
  <2>6. \A a \in Int : (a % n) + 1 \in 1..n
    BY <2>2
  <2>4. index' \in DOMAIN BasePlans
    <3>1. index - 1 + steps \in Int
      BY <2>3
    <3>2. ((index - 1 + steps) % n) + 1 \in 1..n
      BY <2>6, <3>1, Zenon
    <3> QED BY <2>2, <2>3, <3>2, Zenon
  <2>5. journey' \in Chosen!PlanChoices
    BY <1>1, <2>1, <2>4, PlanPlaces DEF Chosen!PlanChoices
  <2> QED BY <1>1, <2>1, <2>4, <2>5, AboutNext DEF SelectionInv
<1>5. ASSUME NEW term \in Chosen!Terms, Chosen!Bill(term) PROVE SelectionInv'
  <2>1. /\ visits' = visits /\ position' = position /\ index' = index
        /\ visits[position].page = "pricing" /\ period' = term
        /\ journey' = [Chosen!About EXCEPT !.period = term]
    BY <1>5 DEF Chosen!Bill, Chosen!here
  <2>2. journey' = [plan |-> BasePlans[index], period |-> term] /\ journey' \in Chosen!PlanChoices
    BY <1>1, <1>2, <2>1, PlanPlaces DEF Chosen!PlanChoices
  <2> QED BY <1>1, <2>1, <2>2, AboutNext DEF SelectionInv
<1>6. ASSUME NEW address \in Chosen!Pages, Chosen!Carry(address) PROVE SelectionInv'
  <2>1. address \in Chosen!SelectionLinks /\ Chosen!Push(address) /\ journey' = journey
    BY <1>6 DEF Chosen!Carry
  <2>2. Chosen!FollowAddress(address)
    BY <2>1 DEF Chosen!Push
  <2>3. /\ address.of = Chosen!About /\ address # visits[position] /\ address.of # Unchosen
    <3>1. Chosen!Card = [plan |-> BasePlans[index], period |-> period] /\ Chosen!Card # Unchosen
      BY <1>2, InstanceAssumption DEF Chosen!Card, Chosen!ShowcaseAssumption
    <3>2. CASE visits[position].page = "pricing"
      <4>1. address \in {Chosen!At("preview", Chosen!Card), Chosen!At("login", Chosen!Card)}
        BY <2>1, <3>2 DEF Chosen!SelectionLinks, Chosen!here
      <4>2. Chosen!About = Chosen!Card
        BY <1>2, <3>1, <3>2
      <4> QED BY <3>1, <3>2, <4>1, <4>2 DEF Chosen!At
    <3>3. CASE visits[position].page # "pricing"
      <4>1. /\ visits[position].page = "preview" /\ visits[position].of # Unchosen
            /\ address \in {Chosen!At("login", visits[position].of),
                            Chosen!At("pricing", visits[position].of)}
        BY <2>1, <3>3 DEF Chosen!SelectionLinks, Chosen!here
      <4> QED BY <1>2, <3>3, <4>1 DEF Chosen!At
    <3> QED BY <3>2, <3>3
  <2> QED BY <1>1, <2>1, <2>2, <2>3, PushedPage, FollowedCard, AboutNext DEF SelectionInv
<1>7. ASSUME NEW s \in Chosen!PlanChoices, Chosen!Preview(s) PROVE SelectionInv'
  <2>1. Chosen!Push(Chosen!At("preview", s)) /\ journey' = s
    BY <1>7 DEF Chosen!Preview
  <2> DEFINE address == Chosen!At("preview", s)
  <2>2. address \in Chosen!Pages /\ address.page = "preview" /\ address.of = s
    BY DEF Chosen!Pages, Chosen!At
  <2>3. Chosen!FollowAddress(address)
    BY <2>1 DEF Chosen!Push
  <2> HIDE DEF address
  <2>4. Chosen!Push(address)
    BY <2>1 DEF address
  <2> QED BY <1>1, <2>1, <2>2, <2>3, <2>4, PushedPage, FollowedCard, AboutNext DEF SelectionInv
<1>8. CASE Chosen!SignIn
  <2> DEFINE address == Chosen!At("preview", visits[position].of)
  <2>1. /\ visits[position].page = "login" /\ visits' = [visits EXCEPT ![position] = address]
        /\ position' = position /\ index' = index /\ period' = period /\ journey' = journey
    BY <1>8 DEF Chosen!SignIn, Chosen!here
  <2>2. address \in Chosen!Pages /\ address.page = "preview" /\ address.of = visits[position].of
    BY <1>1, PagesAreOf DEF Chosen!Pages, Chosen!At
  <2> HIDE DEF address
  <2>3. visits' \in Seq(Chosen!Pages) /\ position \in DOMAIN visits' /\ visits'[position] = address
    BY <1>1, <2>1, <2>2
  <2> QED BY <1>1, <1>2, <2>1, <2>2, <2>3, AboutNext DEF SelectionInv
<1>9. CASE Chosen!Wander
  <2>1. ASSUME NEW to \in {"pricing", "elsewhere"}, Chosen!Push(Chosen!At(to, Unchosen)),
               journey' = Unchosen
        PROVE  SelectionInv'
    <3> DEFINE address == Chosen!At(to, Unchosen)
    <3>1. address \in Chosen!Pages
      BY DEF Chosen!Pages, Chosen!At
    <3>2. Chosen!FollowAddress(address) /\ Chosen!Push(address)
      BY <2>1 DEF Chosen!Push
    <3> HIDE DEF address
    <3> QED BY <1>1, <2>1, <3>1, <3>2, PushedPage, FollowedCard DEF SelectionInv
  <2>2. ASSUME NEW p \in DOMAIN visits \ {position}, position' = p, UNCHANGED visits,
               Chosen!FollowAddress(visits[p]),
               journey' = IF visits[p] = Chosen!here THEN journey ELSE visits[p].of
        PROVE  SelectionInv'
    <3>1. visits[p] \in Chosen!Pages /\ Chosen!here = visits[position]
      BY <1>1, <2>2 DEF Chosen!here
    <3>2. CASE visits[p] = visits[position]
      <4>1. journey' = journey /\ UNCHANGED <<index, period>>
        BY <2>2, <3>1, <3>2, FollowedCard
      <4>2. Chosen!About' = Chosen!About
        BY <1>2, <2>2, <3>2, <4>1, AboutNext
      <4> QED BY <1>1, <2>2, <4>1, <4>2 DEF SelectionInv
    <3>3. CASE visits[p] # visits[position]
      <4>1. journey' = visits[p].of
        BY <2>2, <3>1, <3>3
      <4>2. journey' \in Chosen!PlanChoices \cup {Unchosen}
        BY <3>1, <4>1, PagesAreOf
      <4>3. index' \in DOMAIN BasePlans /\ period' \in Chosen!Terms
        BY <2>2, <3>1, FollowedCard
      <4>4. journey' # Unchosen => Chosen!About' = journey'
        BY <2>2, <3>1, <3>3, <4>1, FollowedCard, AboutNext
      <4> QED BY <1>1, <2>2, <4>2, <4>3, <4>4 DEF SelectionInv
    <3> QED BY <3>2, <3>3
  <2>3. ASSUME index' = Chosen!LoadedIndex(Chosen!here), period' = Chosen!LoadedPeriod(Chosen!here),
               journey' = Chosen!here.of, UNCHANGED <<visits, position>>
        PROVE  SelectionInv'
    <3>1. Chosen!here = visits[position]
      BY DEF Chosen!here
    <3> QED BY <1>1, <2>3, <3>1, LoadedCard, PagesAreOf, AboutNext DEF SelectionInv
  <2> QED BY <1>9, <2>1, <2>2, <2>3 DEF Chosen!Wander
<1> QED BY <1>3, <1>4, <1>5, <1>6, <1>7, <1>8, <1>9 DEF Chosen!SelectionNext

\* The price of a month in an annual term is a twelfth of what is charged.
LEMMA PricesAgree ==
    ASSUME NEW plan \in Chosen!PlanIds
    PROVE  LET annual == Chosen!Price(plan, "annual")
           IN  /\ annual.monthly * 12 = annual.total
               /\ annual.total + annual.savings = Chosen!Price(plan, "monthly").total * 12
<1>1. PICK n \in Nat : MonthlyMinor[plan] = 100 * n
  <2>1. MonthlyMinor[plan] \in Nat /\ MonthlyMinor[plan] % 100 = 0
    BY InstanceAssumption DEF Chosen!ShowcaseAssumption
  <2>2. MonthlyMinor[plan] = 100 * (MonthlyMinor[plan] \div 100)
        /\ MonthlyMinor[plan] \div 100 \in Nat
    BY <2>1
  <2> QED BY <2>2
<1>2. (100 * n * 12 * 90) \div 100 = 1080 * n /\ (1080 * n) \div 12 = 90 * n
  OBVIOUS
<1>3. /\ Chosen!Price(plan, "annual").total = 1080 * n
      /\ Chosen!Price(plan, "annual").savings = 1200 * n - 1080 * n
      /\ Chosen!Price(plan, "annual").monthly = 90 * n
  BY <1>1, <1>2 DEF Chosen!Price
<1>4. Chosen!Price(plan, "monthly").total = 100 * n
  BY <1>1 DEF Chosen!Price
<1> QED BY <1>3, <1>4

-----------------------------------------------------------------------------
(* What the visitor prefers                                                 *)

PreferenceInv ==
    /\ due \in BOOLEAN
    /\ ~due => heard = choice
    /\ Chosen!PreferenceIsShown

\* Every step keeps the preference shown, or an effect due that shows it.
LEMMA PreferenceKept == ASSUME PreferenceInv, Chosen!PreferenceNext PROVE PreferenceInv'
<1> USE DEF PreferenceInv, Chosen!PreferenceIsShown
<1>1. ASSUME NEW c, Chosen!Prefer(c) \/ Chosen!OtherTabPrefers(c) PROVE PreferenceInv'
  BY <1>1 DEF Chosen!Prefer, Chosen!OtherTabPrefers
<1>2. ASSUME NEW v, Chosen!EnvironmentChanges(v) PROVE PreferenceInv'
  BY <1>2 DEF Chosen!EnvironmentChanges
<1>3. CASE Chosen!Effect \/ Chosen!Reopen
  BY <1>3 DEF Chosen!Effect, Chosen!Reopen
<1> QED BY <1>1, <1>2, <1>3 DEF Chosen!PreferenceNext

-----------------------------------------------------------------------------
(* The pages                                                                *)

\* What the pages of the site and of the console show is what was opened,
\* copied, counted and chosen: the parts of PagesShowWhatTheyName that search,
\* sort and compute nothing.
PagesKeepToTheirOwn ==
    /\ Reader!GuideIsOfTheArticle
    /\ part = "build" => Reader!GuidesAreDeferred
    /\ Report!CountsAreHonest
    /\ Clipboard!CopiedIsWhatIsShown /\ Clipboard!MessagesEnd
    /\ Chosen!SelectionIsKept /\ Chosen!PreferenceIsShown

ShownInv ==
    /\ GuideInv /\ (part = "build" => BundleInv) /\ CountsInv
    /\ CopyInv /\ MessagesInv /\ SelectionInv /\ PreferenceInv

\* What is shown at first.
LEMMA ShownInit == ASSUME EitherInit PROVE ShownInv
<1>1. GuideInv
  BY InstanceAssumption DEF EitherInit, Reader!Init, GuideInv, Reader!GuideIsOfTheArticle,
     Reader!GuidesAssumption
<1>2. ASSUME part = "build" PROVE BundleInv
  <2>1. Reader!BundleInit /\ Entry \in Chunks
    BY <1>2, InstanceAssumption DEF EitherInit, Reader!GuidesAssumption
  <2> QED BY <2>1 DEF Reader!BundleInit, BundleInv, Reader!Initial, Reader!Closed
<1>3. CountsInv
  <2>1. Report!CountsInit
    BY DEF EitherInit
  <2>2. recorded = 0 /\ Counted(Report!Empty, recorded)
    BY <2>1 DEF Report!CountsInit, Report!Empty, Counted, Snapshots, Report!Metrics
  <2> QED BY <2>1, <2>2 DEF Report!CountsInit, CountsInv
<1>4. CopyInv /\ MessagesInv
  <2>1. Clipboard!Init /\ MaxToasts \in Nat \ {0}
    BY InstanceAssumption DEF EitherInit, Clipboard!CopyAssumption
  <2> QED BY <2>1, FS_EmptySet DEF Clipboard!Init, CopyInv, MessagesInv, Clipboard!Closed,
             Clipboard!CopiedIsWhatIsShown
<1>5. SelectionInv
  <2>1. Chosen!SelectionInit
    BY DEF EitherInit, Chosen!Init
  <2>2. PICK address \in Chosen!Pages :
           /\ visits = <<address>> /\ journey = address.of
           /\ index = Chosen!LoadedIndex(address) /\ period = Chosen!LoadedPeriod(address)
    BY <2>1 DEF Chosen!SelectionInit
  <2>3. visits \in Seq(Chosen!Pages) /\ position \in DOMAIN visits /\ visits[position] = address
    BY <2>1, <2>2 DEF Chosen!SelectionInit
  <2> QED BY <2>2, <2>3, LoadedCard, PagesAreOf
          DEF SelectionInv, Chosen!About, Chosen!here, Chosen!Card
<1>6. PreferenceInv
  BY DEF EitherInit, Chosen!Init, Chosen!PreferenceInit, PreferenceInv, Chosen!PreferenceIsShown
<1> QED BY <1>1, <1>2, <1>3, <1>4, <1>5, <1>6 DEF ShownInv

\* What the components of the pages leave alone stays as it was.
LEMMA ShownIdle ==
    /\ GuideInv /\ UNCHANGED reader => GuideInv'
    /\ BundleInv /\ UNCHANGED build => BundleInv'
    /\ CountsInv /\ UNCHANGED counts => CountsInv'
    /\ CopyInv /\ UNCHANGED copying => CopyInv'
    /\ MessagesInv /\ UNCHANGED copying => MessagesInv'
    /\ SelectionInv /\ UNCHANGED selection => SelectionInv'
    /\ PreferenceInv /\ UNCHANGED preference => PreferenceInv'
<1>1. GuideInv /\ UNCHANGED reader => GuideInv'
  BY DEF GuideInv, reader, Reader!GuideIsOfTheArticle
<1>2. BundleInv /\ UNCHANGED build => BundleInv'
  BY DEF BundleInv, build, Reader!Initial, Reader!Closed
<1>3. CountsInv /\ UNCHANGED counts => CountsInv'
  BY DEF CountsInv, counts
<1>4. CopyInv /\ UNCHANGED copying => CopyInv'
  BY DEF CopyInv, copying, Clipboard!CopiedIsWhatIsShown
<1>5. MessagesInv /\ UNCHANGED copying => MessagesInv'
  BY DEF MessagesInv, copying
<1>6. SelectionInv /\ UNCHANGED selection => SelectionInv'
  BY DEF SelectionInv, selection, Chosen!About, Chosen!here, Chosen!Card
<1>7. PreferenceInv /\ UNCHANGED preference => PreferenceInv'
  BY DEF PreferenceInv, preference, Chosen!PreferenceIsShown
<1> QED BY <1>1, <1>2, <1>3, <1>4, <1>5, <1>6, <1>7

\* Articles show their own guides, which a bundle that is accepted keeps out of
\* the first load; the console's counts claim no more than happened; a copy is
\* reported of the text that is shown, and each message has its timer; and the
\* pages are about the plan and the preference that were chosen: for any
\* articles, bundles, tabs, events, texts, plans and visits.
THEOREM PagesKeep == EitherSpec => []PagesKeepToTheirOwn
<1>1. EitherInit => ShownInv
  BY ShownInit
<1>2. ShownInv /\ [EitherNext]_<<part, vars, words, archive, library, worker, console, showcase>>
        => ShownInv'
  <2> SUFFICES ASSUME ShownInv,
                      [EitherNext]_<<part, vars, words, archive, library, worker, console, showcase>>
               PROVE  ShownInv'
    OBVIOUS
  <2>1. /\ [Reader!Next]_reader /\ [Reader!BundleNext]_build /\ [Report!CountsNext]_counts
        /\ [Clipboard!Next]_copying /\ [Chosen!SelectionNext]_selection
        /\ [Chosen!PreferenceNext]_preference /\ part' = part
    BY DEF EitherNext, LibraryNext, WorkerNext, ConsoleNext, ShowcaseNext, library, console, showcase
  <2> QED BY <2>1, ShownIdle, GuideKept, BundleKept, CountsKept, CopyKept, MessagesKept,
             SelectionKept, PreferenceKept DEF ShownInv
<1>3. ShownInv => PagesKeepToTheirOwn
  <2> SUFFICES ASSUME ShownInv PROVE PagesKeepToTheirOwn
    OBVIOUS
  <2>1. part = "build" => Reader!GuidesAreDeferred
    BY BundleMeans DEF ShownInv
  <2>2. Report!CountsAreHonest
    BY DEF ShownInv, CountsInv, Counted, Report!CountsAreHonest
  <2>3. Clipboard!MessagesEnd
    BY ToastsCounted DEF ShownInv, MessagesInv, Newer, Clipboard!MessagesEnd
  <2>4. Chosen!SelectionIsKept
    BY PricesAgree DEF ShownInv, SelectionInv, Chosen!SelectionIsKept
  <2> QED BY <2>1, <2>2, <2>3, <2>4
          DEF ShownInv, PagesKeepToTheirOwn, GuideInv, CopyInv, PreferenceInv
<1> QED BY <1>1, <1>2, <1>3, PTL DEF EitherSpec
=============================================================================

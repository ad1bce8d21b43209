------------------------------- MODULE Gateway -------------------------------
(***************************************************************************)
(* The two sessions of a browser (public-web/worker/index.js and            *)
(* email-identity.js): the cookie of an e-mail session, a row of the        *)
(* identity database, and the cookie of an access key, which holds the key  *)
(* itself. Any tab may send a request, with the cookies of that moment, and *)
(* the cookies an answer sets are stored when it arrives.                   *)
(*                                                                         *)
(* A request is served in one step: what its statements race with is the    *)
(* subject of EmailIdentity and AccountConnection. An answer may be lost.   *)
(***************************************************************************)
EXTENDS Naturals, FiniteSets

CONSTANTS Tokens, Keys, None, Requests

(* The cookies of the two sessions are of different forms.                  *)
GatewayAssumption == None \notin Tokens \cup Keys /\ Tokens \cap Keys = {}

VARIABLES
    cookies,   \* [email, key] of the browser
    live,      \* the e-mail sessions that have not ended
    minted,    \* and all there have been
    good,      \* the access keys in force (external)
    request,   \* what each request asks for and carries; then its answer
    out        \* history: a sign-out was confirmed, and no sign-in sent since

vars == <<cookies, live, minted, good, request, out>>

Idle == [at |-> "idle"]
NoCookies == [email |-> None, key |-> None]
Cookies == [email : Tokens \cup {None}, key : Keys \cup {None}]

SignIns == {"verify", "present"}   \* a code, or an access key
Pending == {r \in Requests : request[r] # Idle}

Init ==
    /\ cookies \in [email : {None}, key : Keys \cup {None}]
    /\ live = {} /\ minted = {} /\ good = Keys
    /\ request = [r \in Requests |-> Idle]
    /\ out = (cookies = NoCookies)

(* after and alone are history: the request was sent by a browser that is   *)
(* signed out; no sign-in has been under way with it.                       *)
Send(r, op, key) ==
    /\ r \notin Pending
    /\ request' = [q \in Requests |->
          IF q = r
          THEN [at |-> "sent", op |-> op, email |-> cookies.email, key |-> cookies.key,
                presented |-> key, after |-> out /\ op \notin SignIns,
                alone |-> \A p \in Pending : request[p].op \notin SignIns]
          ELSE IF q \in Pending /\ op \in SignIns THEN [request[q] EXCEPT !.alone = FALSE]
          ELSE request[q]]
    /\ out' = (out /\ op \notin SignIns)
    /\ UNCHANGED <<cookies, live, minted, good>>

-----------------------------------------------------------------------------
(* The answers. set is what becomes of the browser's cookies: a field that  *)
(* is not in it is left alone.                                              *)

Answer(r, who, done, set) ==
    request' = [request EXCEPT ![r] =
        [at |-> "answered", op |-> @.op, after |-> @.after, alone |-> @.alone, byEmail |-> @.email # None,
         who |-> who, done |-> done, set |-> set]]

NoSet == [leaves |-> TRUE]
ClearBoth == [email |-> None, key |-> None]
ClearKey == [key |-> None]

(* Fault: signing out of an e-mail session forgets the key.                 *)
ClearAllFault == [email |-> None]

(* cookie('', 0) and clearLegacy *)
ClearAll == ClearBoth

(* handleEmailIdentity, of a request that carries the cookie of an e-mail   *)
(* session: it is answered there, whether the session is live or not.       *)
ByEmail(r) ==
    LET q == request[r]
    IN  /\ q.email # None /\ q.op # "verify"
        /\ IF q.email \notin live THEN Answer(r, None, FALSE, ClearAll) /\ UNCHANGED live
           ELSE \/ /\ q.op = "read"
                   /\ Answer(r, q.email, TRUE, NoSet) /\ UNCHANGED live
                \/ /\ q.op = "present"   \* sign_out_first
                   /\ Answer(r, None, FALSE, NoSet) /\ UNCHANGED live
                \/ /\ q.op = "leave"     \* or identity_changed
                   /\ \/ live' = live \ {q.email} /\ Answer(r, None, TRUE, ClearAll)
                      \/ Answer(r, None, FALSE, NoSet) /\ UNCHANGED live

(* openSession, and the service: the box of a cookie holds a key and an end *)
(* that has not come (sealSession); the key is in force. What is no box, or *)
(* has ended, is no key: the choice in ByKey.                               *)
Opens(key) == key \in good

(* Fault: the cookie of a session that ended is passed over.                *)
ByKeyFault(r) ==
    LET q == request[r]
    IN  /\ q.email \notin live /\ q.op # "verify"
        /\ \/ q.op = "leave" /\ Answer(r, None, TRUE, ClearKey)
           \/ /\ q.op = "present"
              /\ IF q.presented \in good
                 THEN Answer(r, None, TRUE, [key |-> q.presented])
                 ELSE Answer(r, None, FALSE, NoSet)
           \/ /\ q.op = "read"
              /\ IF q.key \in good THEN Answer(r, q.key, TRUE, NoSet)
                 ELSE Answer(r, None, FALSE, ClearKey)
        /\ UNCHANGED live

(* handleAccountApi, without that cookie. The sign-out works in any outage. *)
ByKey(r) ==
    LET q == request[r]
    IN  /\ q.email = None /\ q.op # "verify"
        /\ \/ q.op = "leave" /\ Answer(r, None, TRUE, ClearKey)
           \/ /\ q.op = "present"
              /\ IF q.presented \in good
                 THEN Answer(r, None, TRUE, [key |-> q.presented])
                 ELSE Answer(r, None, FALSE, NoSet)
           \/ /\ q.op = "read"
              /\ \/ Opens(q.key) /\ Answer(r, q.key, TRUE, NoSet)
                 \/ Answer(r, None, FALSE, ClearKey)
        /\ UNCHANGED live

(* A code that is right opens a session, whatever the request carries.      *)
Verify(r) ==
    /\ request[r].op = "verify"
    /\ \E t \in Tokens \ minted :
          /\ live' = live \cup {t} /\ minted' = minted \cup {t}
          /\ Answer(r, None, TRUE, [email |-> t, key |-> None])

Serve(r) ==
    /\ request[r].at = "sent"
    /\ \/ ByEmail(r) /\ UNCHANGED minted
       \/ ByKey(r) /\ UNCHANGED minted
       \/ Verify(r)
    /\ UNCHANGED <<cookies, good, out>>

(* Configuration, database or upstream fail (no setting, a redirect, a      *)
(* timeout, a body too long): nothing is done or set.                       *)
Fail(r) ==
    /\ request[r].at = "sent"
    /\ Answer(r, None, FALSE, NoSet)
    /\ UNCHANGED <<cookies, live, minted, good, out>>

(* An answer that arrives sets its cookies.                                 *)
Arrive(r) ==
    LET a == request[r]
    IN  /\ a.at = "answered"
        /\ cookies' = [f \in {"email", "key"} |->
                          IF f \in DOMAIN a.set THEN a.set[f] ELSE cookies[f]]
        /\ request' = [request EXCEPT ![r] = Idle]
        /\ out' = (out \/ (a.op = "leave" /\ a.done /\ a.alone))
        /\ UNCHANGED <<live, minted, good>>

Lose(r) ==
    /\ request[r] # Idle
    /\ request' = [request EXCEPT ![r] = Idle]
    /\ UNCHANGED <<cookies, live, minted, good, out>>

(* The cookie of a key comes to the end of its age. *)
Expire ==
    /\ cookies.key # None
    /\ cookies' = [cookies EXCEPT !.key = None]
    /\ UNCHANGED <<live, minted, good, request, out>>

(* A session ends otherwise (it expires, or its user is deleted), or a key  *)
(* is withdrawn.                                                            *)
End ==
    /\ \/ \E t \in live : live' = live \ {t} /\ UNCHANGED good
       \/ \E k \in good : good' = good \ {k} /\ UNCHANGED live
    /\ UNCHANGED <<cookies, minted, request, out>>

Next ==
    \/ \E r \in Requests :
          \/ Send(r, "read", None) \/ Send(r, "leave", None) \/ Send(r, "verify", None)
          \/ \E k \in Keys : Send(r, "present", k)
          \/ Serve(r) \/ Fail(r) \/ Arrive(r) \/ Lose(r)
    \/ Expire \/ End

Spec == Init /\ [][Next]_vars

-----------------------------------------------------------------------------
(* Properties *)

(* Once a sign-out is confirmed, and no sign-in was under way that might    *)
(* follow it, no request is answered with an account until the next         *)
(* sign-in, whichever of the two sessions were there and in whatever order  *)
(* answers arrive; and a request that carries the cookie of an e-mail       *)
(* session is never answered with the account of a key                      *)
(* (email-identity.js:11, 128-131, 195; index.js:148-152).                  *)
SignedOutMeansOut ==
    \A r \in Requests : request[r].at = "answered" =>
        /\ request[r].after => request[r].who = None
        /\ request[r].byEmail => request[r].who \notin Keys
=============================================================================

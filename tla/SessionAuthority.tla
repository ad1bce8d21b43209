-------------------------- MODULE SessionAuthority --------------------------
(***************************************************************************)
(* What the account services rely on in the identity store, whatever goes   *)
(* on in its tables: a session is opened once, for a user who is not       *)
(* disabled; it loses the authority of a recent sign-in, then all of it,    *)
(* and never regains any; a user once disabled stays so and takes all       *)
(* sessions along.                                                          *)
(*                                                                         *)
(* EmailIdentity implements it. AccountConnection, the account page and     *)
(* the console take their sessions to behave like this.                     *)
(***************************************************************************)
CONSTANTS Tokens, Users

VARIABLES
    session,    \* of each token: not opened yet, fresh or old for a user, or ended
    disabled

vars == <<session, disabled>>

Unopened == [state |-> "unopened"]
Ended == [state |-> "ended"]
Recent(u) == [state |-> "recent", user |-> u]
Old(u) == [state |-> "old", user |-> u]

SessionStates == {Unopened, Ended} \cup {Recent(u) : u \in Users} \cup {Old(u) : u \in Users}

OfUser(u) == {Recent(u), Old(u)}

TypeOK == session \in [Tokens -> SessionStates] /\ disabled \subseteq Users

Init == session = [t \in Tokens |-> Unopened] /\ disabled = {}

(* The request that opens a session takes its time: the session may be past *)
(* its freshness by then, or over. For a disabled user it never lives.      *)
Open(t) ==
    /\ session[t] = Unopened
    /\ \E u \in Users, s \in SessionStates \ {Unopened} :
          /\ s = Ended \/ (u \notin disabled /\ s \in OfUser(u))
          /\ session' = [session EXCEPT ![t] = s]
    /\ UNCHANGED disabled

(* What may become of a session without another sign-in. *)
Later(s) ==
    {s} \cup (IF s = Unopened THEN {} ELSE {Ended})
        \cup {Old(u) : u \in {v \in Users : s = Recent(v)}}

(* Time passes, sessions expire, browsers sign out. *)
Fade ==
    /\ session' \in [Tokens -> SessionStates]
    /\ \A t \in Tokens : session'[t] \in Later(session[t])
    /\ UNCHANGED disabled

Disable(u) ==
    /\ disabled' = disabled \cup {u}
    /\ session' = [t \in Tokens |-> IF session[t] \in OfUser(u) THEN Ended ELSE session[t]]

Next == (\E t \in Tokens : Open(t)) \/ Fade \/ (\E u \in Users : Disable(u))

Spec == Init /\ [][Next]_vars
=============================================================================

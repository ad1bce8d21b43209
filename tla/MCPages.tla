------------------------------ MODULE MCPages ------------------------------
(***************************************************************************)
(* Instances of Console and of AccountPage, one or the other by the first   *)
(* choice: the page a tab shows.                                            *)
(*                                                                         *)
(* Console: one tab, one administrator's key and one customer's, two       *)
(* accounts linked to the former, two datasets. The customer's key is there *)
(* from the beginning, with a limit, or is created; under the gateway it is *)
(* created (the views are the same in both shells). Account page: two       *)
(* e-mail accounts and an access-key session.                               *)
(***************************************************************************)
EXTENDS Console, TLC

CONSTANTS own, customer, Tenants

VARIABLES
    part,                         \* "console" or "account"
    jar, shown,                   \* the cookie and the view of AccountPage
    visible, error, deferred, me, keysRead, login, signOut, key, left, stale

account == <<jar, shown, visible, error, deferred, me, keysRead,
             login, signOut, key, left, stale>>

Page == INSTANCE AccountPage WITH cookie <- jar, view <- shown, Users <- Accounts

ASSUME InstanceAssumption == Page!PageAssumption

MCLinkOf == [a \in Accounts |-> own]

MCInitialEntries == {[enabled |-> TRUE, tier |-> "legacy", limit |-> TRUE]}

(* The part that was not chosen stays in one of its initial states. *)
EitherInit ==
    /\ part \in {"console", "account"}
    /\ Init /\ Page!Init
    /\ part = "console" => jar = Nobody
    /\ part = "account" => shell = "standalone"
    /\ part = "account" \/ shell = "gateway" => Listed(store) = AdminKeys

EitherNext ==
    \/ part = "console" /\ Next /\ UNCHANGED <<part, account>>
    \/ part = "account" /\ Page!Next /\ UNCHANGED <<part, vars>>

EitherSpec == EitherInit /\ [][EitherNext]_<<part, vars, account>>

(* The console alone. *)
ConsoleSpec == EitherInit /\ part = "console" /\ [][EitherNext]_<<part, vars, account>>

(* The properties of AccountPage, under their names. *)
PageFollowsAccount == Page!PageFollowsAccount

(* No key is resumed, and nobody signed out, but by somebody's own act.     *)
ChangesAreMeant == ResumedOnPurpose /\ Page!SignOutIsConfirmed

Symmetry == Permutations(Tabs) \cup Permutations(Calls)
            \cup Permutations(Accounts)
=============================================================================

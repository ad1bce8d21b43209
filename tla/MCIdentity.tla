----------------------------- MODULE MCIdentity -----------------------------
(***************************************************************************)
(* Instances of EmailIdentity and of AccountConnection, one or the other by *)
(* the first choice: they share no variable, for the identity store is to   *)
(* the data connection what SessionAuthority says of it.                    *)
(*                                                                         *)
(* Codes: one mailbox, two requests for a code and two verifications at a  *)
(* time. Connection: two browsers of one account, two keys of one tenant,  *)
(* two links and a forwarded request at a time, and as many envelopes as   *)
(* two links and a relink need.                                             *)
(***************************************************************************)
EXTENDS EmailIdentity, TLC

CONSTANTS
    Users, Sessions, UserOf, Keys, Tenants, TenantOf, Boxes, Linkers, Forwarders,
    ann, acme

VARIABLES
    part,        \* "codes" or "connection"
    browsers,    \* the sessions of AccountConnection
    disabled, revoked, connections, sealed, linker, forwarder, gone

connection == <<browsers, disabled, revoked, connections, sealed, linker, forwarder, gone>>

Connection == INSTANCE AccountConnection WITH sessions <- browsers

ASSUME InstanceAssumption == Connection!ConnectionAssumption

MCUserOf == [s \in Sessions |-> ann]
MCTenantOf == [k \in Keys |-> acme]

EitherInit == part \in {"codes", "connection"} /\ Init /\ Connection!Init

EitherNext ==
    \/ part = "codes" /\ Next /\ UNCHANGED <<part, connection>>
    \/ part = "connection" /\ Connection!Next /\ UNCHANGED <<part, vars>>

EitherSpec == EitherInit /\ [][EitherNext]_<<part, vars, connection>>

(* The properties of AccountConnection, under their names. *)
ConnectionHolds == Connection!ConnectionHolds

(* Sessions and requests for a code, keys and verifications have the same   *)
(* names: only one of each pair is in use.                                  *)
Symmetry == Permutations(Senders) \cup Permutations(Verifiers) \cup Permutations(Linkers)
=============================================================================

----------------------------- MODULE MCAccount -----------------------------
(***************************************************************************)
(* Instances of EmailIdentity and of AccountPage for what must eventually   *)
(* happen, one or the other by the first choice.                            *)
(*                                                                         *)
(* Deletion: one mailbox, a request for a code, a verification, a deletion  *)
(* and a maintenance run at a time. Page: one e-mail account and no         *)
(* access-key session (MCPages has more of them).                           *)
(***************************************************************************)
EXTENDS EmailIdentity

CONSTANTS Users, Tenants, Nobody

VARIABLES
    part,       \* "deletion" or "page"
    cookie, visible, view, error, deferred, me, keysRead, login, signOut, key, left, stale

page == <<cookie, visible, view, error, deferred, me, keysRead,
          login, signOut, key, left, stale>>

Page == INSTANCE AccountPage

ASSUME InstanceAssumption == Page!PageAssumption

(* The part that was not chosen stays in one of its initial states. *)
EitherInit ==
    /\ part \in {"deletion", "page"}
    /\ Init /\ Page!Init
    /\ part = "deletion" => cookie = Nobody

EitherNext ==
    \/ part = "deletion" /\ Next /\ UNCHANGED <<part, page>>
    \/ part = "page" /\ Page!Next /\ UNCHANGED <<part, vars>>

PageEnds(A) == part = "page" /\ A /\ Page!Recorded

(* The fairness of the part that was chosen. *)
EitherSpec ==
    /\ EitherInit /\ [][EitherNext]_<<part, vars, page>>
    /\ \A j \in Janitors : WF_vars(part = "deletion" /\ Maintain(j))
    /\ <>[][part = "deletion" => Undisturbed]_vars
    /\ WF_page(PageEnds(Page!MeEnds)) /\ WF_page(PageEnds(Page!ReadKeysEnds))
    /\ WF_page(PageEnds(Page!LoginEnds)) /\ WF_page(PageEnds(Page!ExitEnds))
    /\ WF_page(PageEnds(Page!KeyEnds))

(* The liveness of AccountPage, under its name. *)
NothingHangs == part = "page" => Page!NothingHangs
=============================================================================

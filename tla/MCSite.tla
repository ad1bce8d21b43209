-------------------------------- MODULE MCSite --------------------------------
(***************************************************************************)
(* Instances of Site, Bookmarks, CatalogPanel and SignInForm, one of them   *)
(* by the first choice: what a tab of the public site shows.                *)
(*                                                                         *)
(* Site: a history of two entries; or of three, within the library and two  *)
(* of its views, or among the other pages. Bookmarks: two accounts, two     *)
(* keys, a library of one. Catalogue: the two accounts and two tenants.     *)
(* Sign-in: two addresses and two challenges.                               *)
(***************************************************************************)
EXTENDS Site, TLC

CONSTANTS all, crypto, Users, Tenants, Nobody, Keys, MaxLibrary, MaxImport, Mails, MaxChallenges

VARIABLES
    part,                                        \* "site", "marks", "catalog" or "login"
    cookie, live, cloud, lib, calls, asked,      \* of Bookmarks
    jar, who, reading, failed, active, snapshot, call,   \* of CatalogPanel
    page, form, sending, verifying, checking, mailed     \* of SignInForm

marks == <<cookie, live, cloud, lib, calls, asked>>
catalog == <<jar, who, reading, failed, active, snapshot, call>>
formVars == <<page, form, sending, verifying, checking, mailed>>

Marks == INSTANCE Bookmarks
Catalog == INSTANCE CatalogPanel WITH account <- who, checking <- reading
Form == INSTANCE SignInForm WITH NoMail <- Nobody

ASSUME InstanceAssumption ==
    SiteAssumption /\ Marks!LibraryAssumption /\ Catalog!PanelAssumption
        /\ Form!SignInAssumption

MCLastPage == [f \in {all, crypto} |-> IF f = all THEN 1 ELSE 0]

(* The bound of the histories of Site. *)
SmallHistory ==
    \/ Len(tab.hist) <= 2
    \/ /\ \A i \in DOMAIN tab.hist : tab.hist[i].addr.page \in {"hub", "paper"}
       /\ \E v \in Views : \A i \in DOMAIN tab.hist : tab.hist[i].addr.view \in {DefaultView, v}
    \/ tab.view = DefaultView
          /\ \A i \in DOMAIN tab.hist : tab.hist[i].addr.view = DefaultView

(* The parts that were not chosen stay in one of their initial states. *)
EitherInit ==
    /\ part \in {"site", "marks", "catalog", "login"}
    /\ Init /\ (part # "site" => Here(tab) = CHOOSE a \in Addresses : TRUE)
    /\ Marks!Init /\ (part # "marks" => cookie = Nobody /\ lib.keys = {})
    /\ Catalog!Init /\ (part # "catalog" => jar = Nobody /\ ~active)
    /\ Form!Init /\ (part # "login" => ~checking)

EitherNext ==
    \/ part = "site" /\ Next /\ SmallHistory' /\ UNCHANGED <<part, marks, catalog, formVars>>
    \/ part = "marks" /\ Marks!Next /\ UNCHANGED <<part, vars, catalog, formVars>>
    \/ part = "catalog" /\ Catalog!Next /\ UNCHANGED <<part, vars, marks, formVars>>
    \/ part = "login" /\ Form!Next /\ UNCHANGED <<part, vars, marks, catalog>>

EitherSpec == EitherInit /\ [][EitherNext]_<<part, vars, marks, catalog, formVars>>

(* The properties of the other components, under their names. *)
LibrariesKeepApart == Marks!LibrariesKeepApart
CatalogFollowsAccount == Catalog!CatalogFollowsAccount
CodesGoWithTheirChallenge == Form!CodesGoWithTheirChallenge

Symmetry == Permutations(Keys) \cup Permutations(Users)
=============================================================================

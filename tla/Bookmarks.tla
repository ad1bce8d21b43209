------------------------------ MODULE Bookmarks ------------------------------
(***************************************************************************)
(* The library of bookmarks (public-web/src/bookmarkLibrary.js) and its     *)
(* table at the account (worker/account-continuity.js with                  *)
(* account-library-schema.sql).                                             *)
(*                                                                         *)
(* A tab keeps the bookmarks of this browser and, for an account that has   *)
(* a library there, what the service last said of it. The page of this      *)
(* release opens the local library only (App.jsx:642); the module does      *)
(* more, and its tests say what: here every context is set.                 *)
(*                                                                         *)
(* Another tab may sign in or out and has a library too. A request carries  *)
(* the cookie of the time it is sent and the account its page shows. When   *)
(* the page gives it up its answer is of no use, but a change it asks for   *)
(* may still be made: of these the last one is kept. Every refusal, and     *)
(* every answer that does not come, is the same to the page.                *)
(***************************************************************************)
EXTENDS FiniteSetsExt, Naturals

CONSTANTS
    Users,
    Nobody,
    Keys,         \* names of datasets, papers, methods and documents
    MaxLibrary,   \* keys of a library (500)
    MaxImport     \* keys of an import (100)

LibraryAssumption ==
    /\ Nobody \notin Users /\ IsFiniteSet(Keys)
    /\ MaxLibrary \in Nat \ {0} /\ MaxImport \in Nat \ {0}

VARIABLES
    cookie,   \* whose session the browser's cookie is (external)
    live,     \* the users whose session has not ended (external)
    cloud,    \* account_bookmarks
    lib,      \* the library of the tab
    calls,    \* its request, and the one it gave up last
    asked     \* history: the keys users asked to have at the account

vars == <<cookie, live, cloud, lib, calls, asked>>

Slots == {"current", "late"}
Idle == [at |-> "idle"]

Request(op, keys) == [at |-> "sent", op |-> op, keys |-> keys, user |-> lib.user, by |-> cookie]

(* The table has what was asked for. *)
Written(c) == [at |-> "written", user |-> c.user, by |-> c.by]

(* What the service tells the page. *)
Refused == [at |-> "refused"]
Told(c, keys) == [at |-> "told", user |-> c.user, by |-> c.by, keys |-> keys]

(* What becomes of a request the page has given up: a change that is to be  *)
(* made yet. (It is under way: that it waits to arrive is no other state.)  *)
Late(c) == IF c.at \in {"sent", "admitted"} /\ c.op # "read" /\ c.by = c.user
           THEN [c EXCEPT !.at = "admitted"] ELSE Idle

Init ==
    /\ cookie \in Users \cup {Nobody}
    /\ live = {cookie} \ {Nobody}
    /\ cloud = [u \in Users |-> {}] /\ asked = cloud
    /\ \E local \in SUBSET Keys :
          /\ Cardinality(local) <= MaxLibrary
          /\ lib = [mode |-> "local", user |-> Nobody, status |-> "ready",
                    keys |-> local, local |-> local]
    /\ calls = [s \in Slots |-> Idle]

-----------------------------------------------------------------------------
(* The library of the tab *)

(* Fault: leaving the library of an account lets its request go on.         *)
InsteadFault(request) ==
    calls' = IF request = Idle THEN calls
             ELSE [current |-> request,
                   late |-> IF Late(calls["current"]) = Idle THEN calls["late"]
                            ELSE Late(calls["current"])]

(* The request in flight is aborted, and the next one sent. *)
Instead(request) ==
    calls' = [current |-> request,
              late |-> IF Late(calls["current"]) = Idle THEN calls["late"]
                       ELSE Late(calls["current"])]

(* cloud: the request and what is shown meanwhile. *)
Ask(op, keys) ==
    /\ lib' = [lib EXCEPT !.status = "loading"]
    /\ Instead(Request(op, keys))

Opened(mode, user) ==
    [lib EXCEPT !.mode = mode, !.user = user,
                !.keys = IF mode = "local" THEN lib.local ELSE {},
                !.status = IF mode = "cloud" THEN "loading" ELSE "ready"]

(* Fault: opening the library of an account uploads the local one.          *)
SetContextFault(mode, user) ==
    /\ mode # lib.mode \/ user # lib.user
    /\ lib' = Opened(mode, user)
    /\ Instead(IF mode = "cloud"
               THEN [Request(IF lib.local = {} THEN "read" ELSE "import", lib.local)
                        EXCEPT !.user = user]
               ELSE Idle)
    /\ UNCHANGED <<cookie, live, cloud, asked>>

(* setContext, with the account the page shows. *)
SetContext(mode, user) ==
    /\ mode # lib.mode \/ user # lib.user
    /\ lib' = Opened(mode, user)
    /\ Instead(IF mode = "cloud" THEN [Request("read", {}) EXCEPT !.user = user] ELSE Idle)
    /\ UNCHANGED <<cookie, live, cloud, asked>>

CloudReady == lib.mode = "cloud" /\ lib.status = "ready"

Toggle(key) ==
    /\ CloudReady
    /\ IF key \in lib.keys
       THEN Ask("delete", {key}) /\ UNCHANGED asked
       ELSE Ask("put", {key}) /\ asked' = [asked EXCEPT ![lib.user] = @ \cup {key}]
    /\ UNCHANGED <<cookie, live, cloud>>

(* Storage that refuses the write changes nothing. *)
ToggleLocal(key) ==
    /\ lib.mode = "local"
    /\ LET next == IF key \in lib.keys THEN lib.local \ {key} ELSE lib.local \cup {key}
       IN  /\ Cardinality(next) <= MaxLibrary
           /\ lib' = [lib EXCEPT !.local = next, !.keys = next]
    /\ UNCHANGED <<cookie, live, cloud, calls, asked>>

(* The first of the keys the account does not have. *)
ImportLocal ==
    /\ CloudReady
    /\ LET missing == lib.local \ lib.keys
           size == IF Cardinality(missing) > MaxImport THEN MaxImport ELSE Cardinality(missing)
       IN  /\ size > 0
           /\ \E keys \in kSubset(size, missing) :
                 /\ Ask("import", keys)
                 /\ asked' = [asked EXCEPT ![lib.user] = @ \cup keys]
    /\ UNCHANGED <<cookie, live, cloud>>

RefreshLibrary ==
    /\ lib.mode = "cloud"
    /\ Ask("read", {})
    /\ UNCHANGED <<cookie, live, cloud, asked>>

(* An answer arrives, or the timer ends the request without one. An answer  *)
(* that speaks of another account is none.                                  *)
End ==
    /\ calls["current"] # Idle
    /\ LET a == calls["current"]
       IN  \/ /\ a.at = "told" /\ a.by = a.user
              /\ lib' = [lib EXCEPT !.keys = a.keys, !.status = "ready"]
           \/ lib' = [lib EXCEPT !.keys = {}, !.status = "error"]
    /\ calls' = [calls EXCEPT !["current"] = Idle]
    /\ UNCHANGED <<cookie, live, cloud, asked>>

-----------------------------------------------------------------------------
(* The service: handleLibrary *)

(* Nobody waits for what becomes of a late request. *)
After(slot, c) == IF slot = "late" THEN Idle ELSE c

(* Fault: the account the page shows is not compared.                       *)
AdmittedFault(c) == c.by \in live

(* The session of the request, and identityMatches. *)
Admitted(c) == c.by \in live /\ c.by = c.user

(* A read is answered at once; the rate of the account may refuse a change. *)
Arrive(slot) ==
    /\ calls[slot].at = "sent"
    /\ LET c == calls[slot]
       IN  \/ /\ Admitted(c)
              /\ calls' = [calls EXCEPT ![slot] = IF c.op = "read" THEN Told(c, cloud[c.by])
                                                  ELSE [@ EXCEPT !.at = "admitted"]]
           \/ /\ ~Admitted(c) \/ c.op # "read"
              /\ calls' = [calls EXCEPT ![slot] = After(slot, Refused)]
    /\ UNCHANGED <<cookie, live, cloud, lib, asked>>

Changed(keys, c) == IF c.op = "delete" THEN keys \ c.keys ELSE keys \cup c.keys

(* Fault: the batch relies on the session that was read before.             *)
WriteFault(slot) ==
    /\ calls[slot].at = "admitted"
    /\ LET c == calls[slot]
       IN  /\ Cardinality(Changed(cloud[c.by], c)) <= MaxLibrary
           /\ cloud' = [cloud EXCEPT ![c.by] = Changed(@, c)]
    /\ calls' = [calls EXCEPT ![slot] = After(slot, Written(calls[slot]))]
    /\ UNCHANGED <<cookie, live, lib, asked>>

(* The batch, which asks for the session again, and is all or nothing.      *)
Write(slot) ==
    /\ calls[slot].at = "admitted"
    /\ LET c == calls[slot]
           next == Changed(cloud[c.by], c)
       IN  \/ /\ c.by \in live /\ Cardinality(next) <= MaxLibrary
              /\ cloud' = [cloud EXCEPT ![c.by] = next]
              /\ calls' = [calls EXCEPT ![slot] = After(slot, Written(c))]
           \/ /\ ~(c.by \in live /\ Cardinality(next) <= MaxLibrary)
              /\ calls' = [calls EXCEPT ![slot] = After(slot, Refused)]
              /\ UNCHANGED cloud
    /\ UNCHANGED <<cookie, live, lib, asked>>

(* librarySnapshot *)
Snapshot ==
    /\ calls["current"].at = "written"
    /\ LET c == calls["current"]
       IN  calls' = [calls EXCEPT !["current"] =
                        IF c.by \in live THEN Told(c, cloud[c.by]) ELSE Refused]
    /\ UNCHANGED <<cookie, live, cloud, lib, asked>>

-----------------------------------------------------------------------------
(* Another tab: it signs in, over a session or not, or out; and its library *)
(* changes the table.                                                       *)
SignIn(user) ==
    /\ user # cookie
    /\ cookie' = user /\ live' = live \cup {user}
    /\ UNCHANGED <<cloud, lib, calls, asked>>

SignOut ==
    /\ cookie # Nobody
    /\ cookie' = Nobody /\ live' = live \ {cookie}
    /\ UNCHANGED <<cloud, lib, calls, asked>>

OtherToggles(key) ==
    /\ cookie \in live
    /\ IF key \in cloud[cookie]
       THEN cloud' = [cloud EXCEPT ![cookie] = @ \ {key}] /\ UNCHANGED asked
       ELSE /\ Cardinality(cloud[cookie]) < MaxLibrary
            /\ cloud' = [cloud EXCEPT ![cookie] = @ \cup {key}]
            /\ asked' = [asked EXCEPT ![cookie] = @ \cup {key}]
    /\ UNCHANGED <<cookie, live, lib, calls>>

(* "away" while the account is checked or cannot be reached. *)
Contexts == {<<"away", Nobody>>, <<"local", Nobody>>} \cup ({"cloud"} \X Users)

Next ==
    \/ \E c \in Contexts : SetContext(c[1], c[2])
    \/ \E k \in Keys : Toggle(k) \/ ToggleLocal(k) \/ OtherToggles(k)
    \/ ImportLocal \/ RefreshLibrary \/ End \/ Snapshot \/ SignOut
    \/ \E s \in Slots : Arrive(s) \/ Write(s)
    \/ \E u \in Users : SignIn(u)

Spec == Init /\ [][Next]_vars

-----------------------------------------------------------------------------
(* Properties *)

(* A bookmark reaches an account only because somebody asked for it there,  *)
(* by the mark of an item or by the import, and the library a page shows    *)
(* for an account has no key of another one, nor of this browser: whatever  *)
(* other tabs do to the session, and however late requests arrive and       *)
(* answers come (bookmarkLibrary.js:1-2, 23-24).                            *)
LibrariesStayApart ==
    /\ \A u \in Users : cloud[u] \subseteq asked[u]
    /\ lib.mode = "cloud" => lib.keys \subseteq asked[lib.user]
    /\ lib.mode = "local" => lib.keys = lib.local

(* A library does not change after its user signed out, although requests   *)
(* that were admitted before are still served (account-continuity.js:69).   *)
SignedOutLibraryRests ==
    [][\A u \in Users : cloud'[u] # cloud[u] => u \in live]_vars

(* Both.                                                                    *)
LibrariesKeepApart == []LibrariesStayApart /\ SignedOutLibraryRests
=============================================================================

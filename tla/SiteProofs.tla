----------------------------- MODULE SiteProofs -----------------------------
(***************************************************************************)
(* Proofs about Site, Bookmarks, CatalogPanel and SignInForm, for every     *)
(* library, account and history.                                            *)
(***************************************************************************)
EXTENDS MCSite, FiniteSetTheorems, SequenceTheorems, TLAPS

-----------------------------------------------------------------------------
(* The catalogue *)

Connectable == {"connected", "none", "unavailable"}

(* The account of the page, and the request it has sent. *)
IsAccount(a) ==
    /\ a.ref \in Nat
    /\ \/ a = Catalog!NoAccount
       \/ a.id \in Users /\ a.data \in Connectable
       \/ a.id \in Tenants /\ a.data = "none"

IsCall(c, id) ==
    \/ c = Catalog!Idle
    \/ c.at = "sent" /\ c.expected = id
    \/ c.at = "served" /\ c.rows = id
    \/ c.at = "refused" /\ c.recheck \in BOOLEAN

(* A page that may show rows has asked for them for the account it shows:   *)
(* it waits for them, or has them, or was told that there are none.         *)
CatalogInv ==
    /\ IsAccount(who) /\ IsCall(call, who.id)
    /\ snapshot \in [ref : Nat, status : {"none", "loading", "ready", "error"},
                     rows : {Nobody} \cup Users \cup Tenants, recheck : BOOLEAN]
    /\ call # Catalog!Idle => active /\ ~reading /\ Catalog!HasAccess(who)
    /\ active /\ ~reading /\ Catalog!HasAccess(who) =>
          /\ snapshot.ref = who.ref
          /\ snapshot.status = "ready" => snapshot.rows = who.id
          /\ snapshot.status = "loading" => call # Catalog!Idle

\* The effect that reads the catalogue again leaves it in order.
LEMMA ReadsKeep ==
    ASSUME IsAccount(who'), Catalog!Reads,
           snapshot \in [ref : Nat, status : {"none", "loading", "ready", "error"},
                         rows : {Nobody} \cup Users \cup Tenants, recheck : BOOLEAN]
    PROVE  CatalogInv'
<1>1. CASE active' /\ ~reading' /\ Catalog!HasAccess(who')
  <2>1. snapshot' = [ref |-> who'.ref, status |-> "loading", rows |-> Nobody, recheck |-> FALSE]
        /\ call' = [at |-> "sent", by |-> jar', expected |-> who'.id]
    BY <1>1 DEF Catalog!Reads
  <2> QED BY <1>1, <2>1 DEF CatalogInv, IsAccount, IsCall, Catalog!Idle
<1>2. CASE ~(active' /\ ~reading' /\ Catalog!HasAccess(who'))
  <2>1. UNCHANGED snapshot /\ call' = Catalog!Idle
    BY <1>2 DEF Catalog!Reads
  <2> QED BY <1>2, <2>1 DEF CatalogInv, IsCall
<1> QED BY <1>1, <1>2

\* Whatever the page, the service and the other tabs do keeps it so.
LEMMA CatalogKept == ASSUME CatalogInv, [Catalog!Next]_catalog PROVE CatalogInv'
<1> USE DEF CatalogInv
<1>0. IsAccount(Catalog!NoAccount)
  BY DEF IsAccount, Catalog!NoAccount
<1>1. ASSUME NEW id, Catalog!OtherTab(id) PROVE CatalogInv'
  BY <1>1 DEF Catalog!OtherTab, IsCall
<1>2. CASE Catalog!Check \/ Catalog!Cleared
  BY <1>0, <1>2, ReadsKeep DEF Catalog!Check, Catalog!Cleared
<1>3. CASE Catalog!Identified
  <2>1. IsAccount(who')
    <3>1. CASE who' = Catalog!NoAccount
      BY <1>0, <3>1
    <3>2. CASE who' # Catalog!NoAccount
      <4>1. PICK data \in IF jar \in Users THEN Connectable ELSE {"none"} :
               who' = [id |-> jar, data |-> data,
                       ref |-> CHOOSE r \in Catalog!References : r # snapshot.ref]
            /\ jar \in Users \cup Tenants
        BY <1>3, <3>2 DEF Catalog!Identified, Connectable
      <4>2. \E r \in Catalog!References : r # snapshot.ref
        BY DEF Catalog!References
      <4>3. (CHOOSE r \in Catalog!References : r # snapshot.ref) \in Nat
        BY <4>2 DEF Catalog!References
      <4>4. who'.id = jar /\ who'.data = data /\ who'.ref \in Nat
        BY <4>1, <4>3
      <4> QED BY <4>1, <4>4 DEF IsAccount
    <3> QED BY <3>1, <3>2
  <2> QED BY <1>3, <2>1, ReadsKeep DEF Catalog!Identified
<1>4. CASE Catalog!Navigate
  BY <1>4, ReadsKeep DEF Catalog!Navigate
<1>5. CASE Catalog!Retry
  BY <1>0, <1>5, ReadsKeep DEF Catalog!Retry
<1>6. CASE Catalog!Serve
  <2>1. UNCHANGED <<who, reading, active, snapshot>> /\ call.at = "sent"
    BY <1>6 DEF Catalog!Serve
  <2>2. call # Catalog!Idle /\ call.expected = who.id
    BY <2>1 DEF IsCall, Catalog!Idle
  <2>3. IsCall(call', who.id) /\ call' # Catalog!Idle
    <3>1. CASE Catalog!Authorizes(call) /\ call' = [at |-> "served", rows |-> call.by]
      BY <2>2, <3>1 DEF Catalog!Authorizes, IsCall, Catalog!Idle
    <3>2. CASE \E b \in BOOLEAN : call' = [at |-> "refused", recheck |-> b]
      BY <3>2 DEF IsCall, Catalog!Idle
    <3> QED BY <1>6, <3>1, <3>2 DEF Catalog!Serve
  <2> QED BY <2>1, <2>2, <2>3
<1>7. CASE Catalog!End
  <2>1. UNCHANGED <<who, reading, active>> /\ call' = Catalog!Idle /\ call # Catalog!Idle
    BY <1>7 DEF Catalog!End
  <2>2. \/ /\ call.at = "served" /\ call.rows = who.id
           /\ snapshot' = [snapshot EXCEPT !.status = "ready", !.rows = call.rows]
        \/ \E b \in BOOLEAN : snapshot' = [snapshot EXCEPT !.status = "error", !.recheck = b]
    <3>1. call.at = "served" => call.rows = who.id
      BY <2>1 DEF IsCall
    <3>2. call.at = "refused" => call.recheck \in BOOLEAN
      BY <2>1 DEF IsCall
    <3>3. [snapshot EXCEPT !.status = "error"]
              = [snapshot EXCEPT !.status = "error", !.recheck = snapshot.recheck]
          /\ snapshot.recheck \in BOOLEAN
      OBVIOUS
    <3> QED BY <1>7, <3>1, <3>2, <3>3, Zenon DEF Catalog!End
  <2>3. who.id \in Users \cup Tenants
    BY <2>1 DEF Catalog!HasAccess
  <2> QED BY <2>1, <2>2, <2>3 DEF IsCall
<1>8. CASE UNCHANGED catalog
  BY <1>8 DEF catalog, IsCall
<1> QED BY <1>1, <1>2, <1>3, <1>4, <1>5, <1>6, <1>7, <1>8 DEF Catalog!Next

\* Rows that may be seen are those of the account the page shows.
LEMMA CatalogShows == CatalogInv => CatalogFollowsAccount
<1> SUFFICES ASSUME CatalogInv PROVE CatalogFollowsAccount
  OBVIOUS
<1>1. CASE ~active \/ reading \/ who = Catalog!NoAccount
  BY <1>1 DEF CatalogFollowsAccount, Catalog!CatalogFollowsAccount, Catalog!View
<1>2. CASE active /\ ~reading /\ who # Catalog!NoAccount
  <2>1. CASE Catalog!HasAccess(who)
    BY <1>2, <2>1 DEF CatalogInv, CatalogFollowsAccount, Catalog!CatalogFollowsAccount, Catalog!View
  <2>2. CASE ~Catalog!HasAccess(who)
    <3>1. who.id \in Users /\ who.data \in {"none", "unavailable"}
      BY <1>2, <2>2 DEF CatalogInv, IsAccount, Connectable, Catalog!HasAccess
    <3> QED BY <1>2, <3>1 DEF CatalogFollowsAccount, Catalog!CatalogFollowsAccount, Catalog!View
  <2> QED BY <2>1, <2>2
<1> QED BY <1>1, <1>2

(* The rows a page shows were authorized for the account it shows, whatever *)
(* other tabs do to the session between the reading of the account, the     *)
(* request and its answer; and a page that says it is loading waits for a   *)
(* check or a request (catalogEvidence.js:55).                              *)
THEOREM CatalogFollows == EitherSpec => []CatalogFollowsAccount
<1>1. EitherInit => CatalogInv
  BY DEF EitherInit, Catalog!Init, CatalogInv, IsAccount, IsCall, Catalog!NoAccount, Catalog!NoSnapshot
<1>2. CatalogInv /\ [EitherNext]_<<part, vars, marks, catalog, formVars>> => CatalogInv'
  BY CatalogKept DEF EitherNext
<1> QED BY <1>1, <1>2, CatalogShows, PTL DEF EitherSpec

-----------------------------------------------------------------------------
(* The sign-in form                                                         *)

\* Challenge n was mailed to m.
MailedTo(n, m, mails) == n \in 1..Len(mails) /\ mails[n] = m

\* A form shows a challenge with its address, and a code of that challenge only.
FormIsRight(f, mails) ==
    /\ f \in [mail : Mails \cup {Nobody}, challenge : Nat, shownMail : Mails \cup {Nobody},
              code : Nat, wait : BOOLEAN]
    /\ f.challenge # 0 => MailedTo(f.challenge, f.shownMail, mails)
    /\ f.code # 0 => f.code = f.challenge

RequestIsRight(s, mails) ==
    \/ s = Form!Idle
    \/ s.at = "sent" /\ s.mail \in Mails
    \/ /\ s.at = "told" /\ s.mail \in Mails
       /\ s.challenge \in Nat \ {0} /\ MailedTo(s.challenge, s.mail, mails)

VerificationIsRight(v, mails) ==
    \/ v = Form!Idle
    \/ v.code = v.challenge /\ MailedTo(v.challenge, v.mail, mails)

\* The method is the one the user chose.
PageIsRight(p) ==
    /\ p \in [open : BOOLEAN, method : Form!Methods, choice : Form!Methods \cup {"none"},
              available : BOOLEAN, asking : BOOLEAN]
    /\ p.choice # "none" => p.method = p.choice

FormInv ==
    /\ mailed \in Seq(Mails)
    /\ FormIsRight(form, mailed) /\ RequestIsRight(sending, mailed)
    /\ VerificationIsRight(verifying, mailed) /\ PageIsRight(page)
    /\ verifying = Form!Idle \/ sending = Form!Idle

\* An empty form shows no challenge and no code.
LEMMA EmptyFormIsRight == \A mails : FormIsRight(Form!EmptyForm, mails)
<1>1. Form!EmptyForm = [mail |-> Nobody, challenge |-> 0, shownMail |-> Nobody, code |-> 0,
                        wait |-> FALSE]
  BY DEF Form!EmptyForm
<1> QED BY <1>1 DEF FormIsRight

\* What is shown of the page keeps the form, or empties it.
LEMMA ShowsKeeps ==
    ASSUME FormInv, NEW p, PageIsRight(p), Form!Shows(p), UNCHANGED mailed,
           verifying' = verifying \/ verifying' = Form!Idle
    PROVE  FormInv'
<1>1. \/ form' = Form!EmptyForm /\ sending' = Form!Idle
      \/ UNCHANGED <<form, sending>>
  BY DEF Form!Shows
<1>2. page' = p
  BY DEF Form!Shows
<1>3. FormIsRight(form', mailed) /\ RequestIsRight(sending', mailed)
  BY <1>1, EmptyFormIsRight DEF FormInv, RequestIsRight
<1>4. VerificationIsRight(verifying', mailed)
  BY DEF FormInv, VerificationIsRight
<1>5. verifying' = Form!Idle \/ sending' = Form!Idle
  BY <1>1 DEF FormInv
<1> QED BY <1>2, <1>3, <1>4, <1>5 DEF FormInv

\* No step of the form or of the mail gives a code to another challenge.
LEMMA FormKept == ASSUME FormInv, [Form!Next]_formVars PROVE FormInv'
<1>1. CASE \/ \E m \in Form!Methods : Form!Choose(m)
           \/ Form!MethodsTold \/ Form!Leave \/ Form!Enter
  <2>1. ASSUME NEW m \in Form!Methods, Form!Choose(m) PROVE FormInv'
    <3>1. PageIsRight([page EXCEPT !.method = m, !.choice = m])
      BY DEF FormInv, PageIsRight
    <3> QED BY <2>1, <3>1, ShowsKeeps DEF Form!Choose
  <2>2. CASE Form!MethodsTold
    <3>1. PICK available \in BOOLEAN :
             Form!Shows([page EXCEPT !.asking = FALSE, !.available = available,
                                     !.method = IF available /\ page.choice = "none"
                                                THEN "email" ELSE @])
      BY <2>2 DEF Form!MethodsTold
    <3>2. PageIsRight([page EXCEPT !.asking = FALSE, !.available = available,
                                   !.method = IF available /\ page.choice = "none"
                                              THEN "email" ELSE @])
      BY DEF FormInv, PageIsRight, Form!Methods
    <3> QED BY <2>2, <3>1, <3>2, ShowsKeeps DEF Form!MethodsTold
  <2>3. CASE Form!Leave
    <3>1. PageIsRight([page EXCEPT !.open = FALSE])
      BY DEF FormInv, PageIsRight
    <3> QED BY <2>3, <3>1, ShowsKeeps DEF Form!Leave
  <2>4. CASE Form!Enter
    <3>1. PageIsRight(Form!FreshPage)
      BY DEF PageIsRight, Form!FreshPage, Form!Methods
    <3> QED BY <2>4, <3>1, ShowsKeeps DEF Form!Enter
  <2> QED BY <1>1, <2>1, <2>2, <2>3, <2>4
<1>2. ASSUME FormIsRight(form', mailed), UNCHANGED <<page, sending, verifying, mailed>>
      PROVE  FormInv'
  BY <1>2 DEF FormInv
<1>3. ASSUME NEW m \in Mails, Form!TypeMail(m) PROVE FormInv'
  BY <1>2, <1>3 DEF Form!TypeMail, FormInv, FormIsRight
<1>4. CASE Form!Check \/ Form!Elapse
  BY <1>2, <1>4 DEF Form!Check, Form!Elapse, FormInv, FormIsRight
<1>5. CASE Form!TypeCode \/ Form!ChangeMail
  <2>1. CASE Form!TypeCode
    <3>1. FormIsRight([form EXCEPT !.code = form.challenge], mailed)
      BY DEF FormInv, FormIsRight
    <3> QED BY <1>2, <2>1, <3>1 DEF Form!TypeCode
  <2>2. CASE Form!ChangeMail
    <3>1. FormIsRight([form EXCEPT !.challenge = 0, !.shownMail = Nobody, !.code = 0,
                                   !.wait = FALSE], mailed)
      BY DEF FormInv, FormIsRight
    <3> QED BY <1>2, <2>2, <3>1 DEF Form!ChangeMail
  <2> QED BY <1>5, <2>1, <2>2
<1>6. CASE Form!Verify
  <2>1. /\ form.challenge # 0 /\ form.code # 0 /\ sending = Form!Idle
        /\ verifying' = [at |-> "sent", mail |-> form.shownMail,
                         challenge |-> form.challenge, code |-> form.code]
        /\ UNCHANGED <<page, form, sending, mailed>>
    BY <1>6 DEF Form!Verify, Form!Pending
  <2>2. VerificationIsRight(verifying', mailed)
    BY <2>1 DEF VerificationIsRight, FormInv, FormIsRight
  <2> QED BY <2>1, <2>2 DEF FormInv
<1>7. CASE Form!Send
  <2>1. /\ form.mail \in Mails /\ verifying = Form!Idle
        /\ sending' = [at |-> "sent", mail |-> form.mail]
        /\ UNCHANGED <<page, form, verifying, mailed>>
    BY <1>7 DEF Form!Send, Form!Checking, FormInv, FormIsRight
  <2>2. RequestIsRight(sending', mailed)
    BY <2>1 DEF RequestIsRight
  <2> QED BY <2>1, <2>2 DEF FormInv
<1>8. CASE Form!Sent
  <2>1. sending' = Form!Idle /\ UNCHANGED <<page, verifying, mailed>>
    BY <1>8 DEF Form!Sent
  <2>2. FormIsRight(form', mailed)
    <3>1. CASE UNCHANGED form
      BY <3>1 DEF FormInv
    <3>2. CASE /\ sending.at = "told"
               /\ form' = [form EXCEPT !.challenge = sending.challenge,
                                       !.shownMail = sending.mail, !.code = 0, !.wait = TRUE]
      <4>1. /\ sending.challenge \in Nat \ {0} /\ sending.mail \in Mails
            /\ MailedTo(sending.challenge, sending.mail, mailed)
        BY <3>2 DEF FormInv, RequestIsRight, Form!Idle
      <4> QED BY <3>2, <4>1 DEF FormInv, FormIsRight
    <3> QED BY <1>8, <3>1, <3>2 DEF Form!Sent
  <2>3. RequestIsRight(sending', mailed)
    BY <2>1 DEF RequestIsRight
  <2> QED BY <2>1, <2>2, <2>3 DEF FormInv
<1>9. CASE Form!Verified
  <2>1. UNCHANGED mailed /\ verifying' = Form!Idle
    BY <1>9 DEF Form!Verified
  <2>2. CASE Form!Shows([page EXCEPT !.open = FALSE])
    <3>1. PageIsRight([page EXCEPT !.open = FALSE])
      BY DEF FormInv, PageIsRight
    <3> QED BY <2>1, <2>2, <3>1, ShowsKeeps
  <2>3. CASE UNCHANGED <<page, form, sending>>
    BY <2>1, <2>3 DEF FormInv, VerificationIsRight
  <2> QED BY <1>9, <2>2, <2>3 DEF Form!Verified
<1>10. CASE Form!Mail
  <2>1. /\ sending.at = "sent" /\ mailed' = Append(mailed, sending.mail)
        /\ sending' = [at |-> "told", mail |-> sending.mail, challenge |-> Len(mailed')]
        /\ UNCHANGED <<page, form, verifying>>
    BY <1>10 DEF Form!Mail
  <2>2. sending.mail \in Mails /\ verifying = Form!Idle
    BY <2>1 DEF FormInv, RequestIsRight, Form!Idle
  <2>3. /\ mailed' \in Seq(Mails) /\ Len(mailed') = Len(mailed) + 1 /\ Len(mailed) \in Nat
        /\ \A n \in 1..Len(mailed) : mailed'[n] = mailed[n]
        /\ mailed'[Len(mailed')] = sending.mail
    BY <2>1, <2>2 DEF FormInv
  <2>4. \A n, m : MailedTo(n, m, mailed) => MailedTo(n, m, mailed')
    BY <2>3 DEF MailedTo
  <2>5. FormIsRight(form, mailed')
    BY <2>4 DEF FormInv, FormIsRight
  <2>6. RequestIsRight(sending', mailed')
    <3>1. MailedTo(Len(mailed'), sending.mail, mailed')
      BY <2>3 DEF MailedTo
    <3>2. Len(mailed') \in Nat \ {0}
      BY <2>3
    <3>3. /\ sending'.at = "told" /\ sending'.mail = sending.mail
          /\ sending'.challenge = Len(mailed')
      BY <2>1
    <3> QED BY <2>2, <3>1, <3>2, <3>3, Zenon DEF RequestIsRight
  <2>7. VerificationIsRight(verifying, mailed')
    BY <2>2 DEF VerificationIsRight
  <2> QED BY <2>1, <2>2, <2>3, <2>5, <2>6, <2>7 DEF FormInv
<1>11. CASE UNCHANGED formVars
  BY <1>11 DEF formVars, FormInv
<1> QED BY <1>1, <1>3, <1>4, <1>5, <1>6, <1>7, <1>8, <1>9, <1>10, <1>11 DEF Form!Next

(* A code is sent back with the challenge it was typed for and the address  *)
(* that challenge was mailed to, whatever is asked for again or left        *)
(* meanwhile; and the user's choice of a method is not undone by a late     *)
(* answer (EmailSignIn.jsx:27, 33, 38; LoginPage.jsx:14).                   *)
THEOREM CodesGo == EitherSpec => []CodesGoWithTheirChallenge
<1>1. EitherInit => FormInv
  <2> SUFFICES ASSUME EitherInit PROVE FormInv
    OBVIOUS
  <2>1. /\ page = Form!FreshPage /\ form = Form!EmptyForm /\ sending = Form!Idle
        /\ verifying = Form!Idle /\ mailed = <<>>
    BY DEF EitherInit, Form!Init
  <2>2. PageIsRight(Form!FreshPage)
    BY DEF PageIsRight, Form!FreshPage, Form!Methods
  <2> QED BY <2>1, <2>2, EmptyFormIsRight DEF FormInv, RequestIsRight, VerificationIsRight
<1>2. FormInv /\ [EitherNext]_<<part, vars, marks, catalog, formVars>> => FormInv'
  BY FormKept DEF EitherNext
<1>3. FormInv => CodesGoWithTheirChallenge
  BY DEF FormInv, CodesGoWithTheirChallenge, Form!CodesGoWithTheirChallenge, Form!Pending,
         VerificationIsRight, MailedTo, PageIsRight
<1> QED BY <1>1, <1>2, <1>3, PTL DEF EitherSpec

-----------------------------------------------------------------------------
(* The libraries of bookmarks                                               *)

\* A request, or an answer, about the library of a user: what it adds there
\* was asked for, and what it tells of that user's library too.
CallIsRight(c, wish) ==
    \/ c = Marks!Idle
    \/ c.at = "refused"
    \/ /\ c = [at |-> c.at, op |-> c.op, keys |-> c.keys, user |-> c.user, by |-> c.by]
       /\ c.at \in {"sent", "admitted"} /\ c.user \in Users
       /\ c.op \in {"read", "delete", "put", "import"}
       /\ c.op \in {"put", "import"} => c.keys \subseteq wish[c.user]
       /\ c.at = "admitted" => c.by = c.user /\ c.op # "read"
    \/ c.at = "written" /\ c.user \in Users
    \/ /\ c.at = "told" /\ c.user \in Users
       /\ c.by = c.user => c.keys \subseteq wish[c.user]

\* The current request is about the library that is open.
CallIsOfTheLibrary(c, l) ==
    c = Marks!Idle \/ (l.mode = "cloud" /\ (c.at = "refused" \/ c.user = l.user))

LibraryIsRight(l, wish) ==
    /\ l = [mode |-> l.mode, user |-> l.user, status |-> l.status, keys |-> l.keys,
            local |-> l.local]
    /\ l.local \subseteq Keys
    /\ l.mode = "cloud" => l.user \in Users /\ l.keys \subseteq wish[l.user]
    /\ l.mode = "local" => l.keys = l.local

MarksInv ==
    /\ cloud \in [Users -> SUBSET Keys] /\ asked \in [Users -> SUBSET Keys]
    /\ \A u \in Users : cloud[u] \subseteq asked[u]
    /\ LibraryIsRight(lib, asked)
    /\ calls = [s \in Marks!Slots |-> calls[s]]
    /\ \A s \in Marks!Slots : CallIsRight(calls[s], asked)
    /\ CallIsOfTheLibrary(calls["current"], lib)

\* What was asked for stays asked for.
LEMMA MoreIsAskedFor ==
    ASSUME NEW wish \in [Users -> SUBSET Keys], NEW more \in [Users -> SUBSET Keys],
           \A u \in Users : wish[u] \subseteq more[u]
    PROVE  /\ \A c : CallIsRight(c, wish) => CallIsRight(c, more)
           /\ \A l : LibraryIsRight(l, wish) => LibraryIsRight(l, more)
<1>1. ASSUME NEW c, CallIsRight(c, wish) PROVE CallIsRight(c, more)
  BY <1>1 DEF CallIsRight
<1>2. ASSUME NEW l, LibraryIsRight(l, wish) PROVE LibraryIsRight(l, more)
  BY <1>2 DEF LibraryIsRight
<1> QED BY <1>1, <1>2

\* A request is sent in place of another one.
LEMMA InsteadKeeps ==
    ASSUME MarksInv, NEW r, Marks!Instead(r), CallIsRight(r, asked'),
           CallIsOfTheLibrary(r, lib'), LibraryIsRight(lib', asked'),
           asked' \in [Users -> SUBSET Keys], \A u \in Users : asked[u] \subseteq asked'[u],
           UNCHANGED cloud
    PROVE  MarksInv'
<1>1. \A s \in Marks!Slots : CallIsRight(calls[s], asked')
  BY MoreIsAskedFor DEF MarksInv
<1>2. CallIsRight(Marks!Late(calls["current"]), asked')
  <2>1. CASE Marks!Late(calls["current"]) = Marks!Idle
    BY <2>1 DEF CallIsRight
  <2>2. CASE Marks!Late(calls["current"]) # Marks!Idle
    <3>0. PICK c : c = calls["current"]
      OBVIOUS
    <3>1. /\ c.at \in {"sent", "admitted"} /\ c.op # "read" /\ c.by = c.user
          /\ Marks!Late(c) = [c EXCEPT !.at = "admitted"]
      BY <2>2, <3>0 DEF Marks!Late
    <3>2. CallIsRight(c, asked') /\ c # Marks!Idle /\ c.at # "refused"
      BY <1>1, <3>0, <3>1 DEF Marks!Slots, Marks!Idle
    <3>3. /\ c = [at |-> c.at, op |-> c.op, keys |-> c.keys, user |-> c.user, by |-> c.by]
          /\ c.user \in Users /\ c.op \in {"read", "delete", "put", "import"}
          /\ c.op \in {"put", "import"} => c.keys \subseteq asked'[c.user]
      BY <3>1, <3>2 DEF CallIsRight
    <3>4. Marks!Late(c) = [at |-> "admitted", op |-> c.op, keys |-> c.keys, user |-> c.user,
                           by |-> c.by]
      BY <3>1, <3>3
    <3> QED BY <3>0, <3>1, <3>3, <3>4 DEF CallIsRight
  <2> QED BY <2>1, <2>2
<1>3. /\ calls'["current"] = r
      /\ calls'["late"] \in {calls["late"], Marks!Late(calls["current"])}
      /\ calls' = [s \in Marks!Slots |-> calls'[s]]
  BY DEF Marks!Instead, Marks!Slots
<1>4. \A s \in Marks!Slots : CallIsRight(calls'[s], asked')
  BY <1>1, <1>2, <1>3 DEF Marks!Slots
<1>5. \A u \in Users : cloud'[u] \subseteq asked'[u]
  BY DEF MarksInv
<1> QED BY <1>3, <1>4, <1>5 DEF MarksInv


\* What is kept when one request moves on and the libraries stay.
LEMMA CallMoves ==
    ASSUME MarksInv, NEW s \in Marks!Slots, NEW c, calls' = [calls EXCEPT ![s] = c],
           CallIsRight(c, asked), s = "current" => CallIsOfTheLibrary(c, lib),
           UNCHANGED <<lib, asked>>, cloud' \in [Users -> SUBSET Keys],
           \A u \in Users : cloud'[u] \subseteq asked[u]
    PROVE  MarksInv'
<1>1. /\ calls' = [q \in Marks!Slots |-> calls'[q]]
      /\ \A q \in Marks!Slots : calls'[q] = IF q = s THEN c ELSE calls[q]
  BY DEF MarksInv
<1>2. \A q \in Marks!Slots : CallIsRight(calls'[q], asked)
  BY <1>1 DEF MarksInv
<1>3. CallIsOfTheLibrary(calls'["current"], lib)
  BY <1>1 DEF MarksInv, Marks!Slots
<1> QED BY <1>1, <1>2, <1>3 DEF MarksInv

\* The user of the library asked for the key it adds.
LEMMA ToggleKeeps == ASSUME MarksInv, NEW key \in Keys, Marks!Toggle(key) PROVE MarksInv'
<1>1. /\ lib.mode = "cloud" /\ lib.user \in Users /\ lib.keys \subseteq asked[lib.user]
      /\ UNCHANGED cloud /\ lib' = [lib EXCEPT !.status = "loading"]
  BY DEF Marks!Toggle, Marks!CloudReady, Marks!Ask, MarksInv, LibraryIsRight
<1>2. PICK op \in {"delete", "put"} :
         /\ Marks!Instead(Marks!Request(op, {key}))
         /\ IF op = "delete" THEN UNCHANGED asked
            ELSE asked' = [asked EXCEPT ![lib.user] = @ \cup {key}]
  BY DEF Marks!Toggle, Marks!Ask
<1>3. /\ asked' \in [Users -> SUBSET Keys]
      /\ \A u \in Users : asked[u] \subseteq asked'[u]
      /\ op = "put" => key \in asked'[lib.user]
  BY <1>1, <1>2 DEF MarksInv
<1>4. CallIsRight(Marks!Request(op, {key}), asked')
  BY <1>1, <1>3 DEF CallIsRight, Marks!Request
<1>5. LibraryIsRight(lib', asked')
  BY <1>1, <1>3 DEF MarksInv, LibraryIsRight
<1>6. CallIsOfTheLibrary(Marks!Request(op, {key}), lib')
  BY <1>1 DEF CallIsOfTheLibrary, Marks!Request, MarksInv, LibraryIsRight
<1> QED BY <1>1, <1>2, <1>3, <1>4, <1>5, <1>6, InsteadKeeps

\* So did the user who imports the keys of the browser.
LEMMA ImportKeeps == ASSUME MarksInv, Marks!ImportLocal PROVE MarksInv'
<1>1. /\ lib.mode = "cloud" /\ lib.user \in Users /\ lib.keys \subseteq asked[lib.user]
      /\ UNCHANGED cloud /\ lib' = [lib EXCEPT !.status = "loading"]
  BY DEF Marks!ImportLocal, Marks!CloudReady, Marks!Ask, MarksInv, LibraryIsRight
<1>2. PICK keys \in SUBSET lib.local :
         /\ Marks!Instead(Marks!Request("import", keys))
         /\ asked' = [asked EXCEPT ![lib.user] = @ \cup keys]
  <2>1. \A k : Marks!kSubset(k, lib.local \ lib.keys) \subseteq SUBSET lib.local
    BY DEF Marks!kSubset
  <2> QED BY <2>1 DEF Marks!ImportLocal, Marks!Ask
<1>3. /\ asked' \in [Users -> SUBSET Keys]
      /\ \A u \in Users : asked[u] \subseteq asked'[u]
      /\ keys \subseteq asked'[lib.user]
  BY <1>1, <1>2 DEF MarksInv, LibraryIsRight
<1>4. CallIsRight(Marks!Request("import", keys), asked')
  BY <1>1, <1>3 DEF CallIsRight, Marks!Request
<1>5. LibraryIsRight(lib', asked')
  BY <1>1, <1>3 DEF MarksInv, LibraryIsRight
<1>6. CallIsOfTheLibrary(Marks!Request("import", keys), lib')
  BY <1>1 DEF CallIsOfTheLibrary, Marks!Request, MarksInv, LibraryIsRight
<1> QED BY <1>1, <1>2, <1>3, <1>4, <1>5, <1>6, InsteadKeeps

\* The library opens elsewhere, and asks only for what an account has.
LEMMA ContextKeeps ==
    ASSUME MarksInv, NEW mode \in {"away", "local", "cloud"}, NEW user,
           mode = "cloud" => user \in Users, Marks!SetContext(mode, user)
    PROVE  MarksInv'
<1> DEFINE r == IF mode = "cloud" THEN [Marks!Request("read", {}) EXCEPT !.user = user]
                ELSE Marks!Idle
<1>1. Marks!Instead(r) /\ UNCHANGED <<cloud, asked>> /\ lib' = Marks!Opened(mode, user)
  BY DEF Marks!SetContext
<1>2. LibraryIsRight(lib', asked')
  BY <1>1 DEF MarksInv, LibraryIsRight, Marks!Opened
<1>3. lib'.mode = mode /\ lib'.user = user
  BY <1>1 DEF MarksInv, LibraryIsRight, Marks!Opened
<1>4. CallIsRight(r, asked') /\ CallIsOfTheLibrary(r, lib')
  <2>1. CASE mode = "cloud"
    <3>1. r = [at |-> "sent", op |-> "read", keys |-> {}, user |-> user, by |-> cookie]
      BY <2>1 DEF Marks!Request
    <3> HIDE DEF r
    <3> QED BY <1>3, <2>1, <3>1 DEF CallIsRight, CallIsOfTheLibrary
  <2>2. CASE mode # "cloud"
    BY <2>2 DEF CallIsRight, CallIsOfTheLibrary
  <2> QED BY <2>1, <2>2
<1>5. \A u \in Users : asked[u] \subseteq asked'[u]
  BY <1>1
<1>6. asked' \in [Users -> SUBSET Keys]
  BY <1>1 DEF MarksInv
<1> HIDE DEF r
<1> QED BY <1>1, <1>2, <1>4, <1>5, <1>6, InsteadKeeps

\* A library that is read again asks for nothing new.
LEMMA RefreshKeeps == ASSUME MarksInv, Marks!RefreshLibrary PROVE MarksInv'
<1>1. /\ lib.mode = "cloud" /\ lib' = [lib EXCEPT !.status = "loading"]
      /\ Marks!Instead(Marks!Request("read", {})) /\ UNCHANGED <<cloud, asked>>
  BY DEF Marks!RefreshLibrary, Marks!Ask
<1>2. LibraryIsRight(lib', asked') /\ asked' \in [Users -> SUBSET Keys]
      /\ \A u \in Users : asked[u] \subseteq asked'[u]
  BY <1>1 DEF MarksInv, LibraryIsRight
<1>3. CallIsRight(Marks!Request("read", {}), asked')
      /\ CallIsOfTheLibrary(Marks!Request("read", {}), lib')
  BY <1>1 DEF CallIsRight, CallIsOfTheLibrary, Marks!Request, MarksInv, LibraryIsRight
<1> QED BY <1>1, <1>2, <1>3, InsteadKeeps

\* The account answers for the user whose library is open, or not at all.
LEMMA EndKeeps == ASSUME MarksInv, Marks!End PROVE MarksInv'
<1> DEFINE a == calls["current"]
<1>1. a # Marks!Idle /\ UNCHANGED <<cloud, asked>>
      /\ calls' = [calls EXCEPT !["current"] = Marks!Idle]
  BY DEF Marks!End
<1>2. CallIsRight(a, asked) /\ CallIsOfTheLibrary(a, lib)
  BY DEF MarksInv, Marks!Slots
<1>3. lib.mode = "cloud"
  BY <1>1, <1>2 DEF CallIsOfTheLibrary
<1>4. LibraryIsRight(lib', asked)
  <2>1. CASE /\ a.at = "told" /\ a.by = a.user
             /\ lib' = [lib EXCEPT !.keys = a.keys, !.status = "ready"]
    <3>1. a.keys \subseteq asked[a.user] /\ a.user = lib.user
      BY <1>1, <1>2, <2>1 DEF CallIsRight, CallIsOfTheLibrary, Marks!Idle
    <3> HIDE DEF a
    <3> QED BY <1>3, <2>1, <3>1 DEF MarksInv, LibraryIsRight
  <2>2. CASE lib' = [lib EXCEPT !.keys = {}, !.status = "error"]
    BY <1>3, <2>2 DEF MarksInv, LibraryIsRight
  <2> QED BY <2>1, <2>2 DEF Marks!End
<1>5. /\ calls' = [s \in Marks!Slots |-> calls'[s]]
      /\ calls'["current"] = Marks!Idle /\ calls'["late"] = calls["late"]
  BY <1>1 DEF MarksInv, Marks!Slots
<1>6. \A s \in Marks!Slots : CallIsRight(calls'[s], asked)
  BY <1>5 DEF MarksInv, Marks!Slots, CallIsRight
<1> QED BY <1>1, <1>4, <1>5, <1>6 DEF MarksInv, CallIsOfTheLibrary

\* The requests on their way, and what the service makes of them.
LEMMA ServiceKeeps ==
    ASSUME MarksInv, NEW s \in Marks!Slots, Marks!Arrive(s) \/ Marks!Write(s)
    PROVE  MarksInv'
<1>0. PICK c : c = calls[s]
  OBVIOUS
<1>1. CallIsRight(c, asked) /\ (s = "current" => CallIsOfTheLibrary(c, lib))
  BY <1>0 DEF MarksInv
<1>2. cloud \in [Users -> SUBSET Keys] /\ \A u \in Users : cloud[u] \subseteq asked[u]
  BY DEF MarksInv
<1>3. s = "current" /\ c # Marks!Idle => lib.mode = "cloud"
  BY <1>1 DEF CallIsOfTheLibrary
<1>4. \A a \in {Marks!Idle, Marks!Refused} :
          CallIsRight(a, asked) /\ (c # Marks!Idle /\ s = "current" => CallIsOfTheLibrary(a, lib))
  BY <1>3 DEF CallIsRight, CallIsOfTheLibrary, Marks!Refused
<1>5. CASE Marks!Arrive(s)
  <2>1. c.at = "sent" /\ c # Marks!Idle /\ UNCHANGED <<cloud, lib, asked>>
    BY <1>0, <1>5 DEF Marks!Arrive, Marks!Idle
  <2>2. /\ c = [at |-> c.at, op |-> c.op, keys |-> c.keys, user |-> c.user, by |-> c.by]
        /\ c.user \in Users /\ c.op \in {"read", "delete", "put", "import"}
        /\ c.op \in {"put", "import"} => c.keys \subseteq asked[c.user]
    BY <1>1, <2>1 DEF CallIsRight
  <2>3. CASE Marks!Admitted(c) /\ c.op = "read"
             /\ calls' = [calls EXCEPT ![s] = Marks!Told(c, cloud[c.by])]
    <3>1. CallIsRight(Marks!Told(c, cloud[c.by]), asked)
      BY <1>2, <2>2, <2>3 DEF CallIsRight, Marks!Told, Marks!Admitted
    <3>2. s = "current" => CallIsOfTheLibrary(Marks!Told(c, cloud[c.by]), lib)
      BY <1>1, <2>1 DEF CallIsOfTheLibrary, Marks!Told
    <3> QED BY <1>2, <2>1, <2>3, <3>1, <3>2, CallMoves
  <2>4. CASE Marks!Admitted(c) /\ c.op # "read"
             /\ calls' = [calls EXCEPT ![s] = [c EXCEPT !.at = "admitted"]]
    <3>1. [c EXCEPT !.at = "admitted"]
             = [at |-> "admitted", op |-> c.op, keys |-> c.keys, user |-> c.user, by |-> c.by]
      BY <2>2
    <3>2. CallIsRight([c EXCEPT !.at = "admitted"], asked)
      BY <2>2, <2>4, <3>1 DEF CallIsRight, Marks!Admitted
    <3>3. s = "current" => CallIsOfTheLibrary([c EXCEPT !.at = "admitted"], lib)
      BY <1>1, <2>1, <3>1 DEF CallIsOfTheLibrary
    <3> QED BY <1>2, <2>1, <2>4, <3>2, <3>3, CallMoves
  <2>5. CASE calls' = [calls EXCEPT ![s] = Marks!After(s, Marks!Refused)]
    <3>1. Marks!After(s, Marks!Refused) \in {Marks!Idle, Marks!Refused}
      BY DEF Marks!After
    <3> QED BY <1>2, <1>4, <2>1, <2>5, <3>1, CallMoves
  <2> QED BY <1>0, <1>5, <2>3, <2>4, <2>5 DEF Marks!Arrive
<1>6. CASE Marks!Write(s)
  <2>1. c.at = "admitted" /\ c # Marks!Idle /\ UNCHANGED <<lib, asked>>
    BY <1>0, <1>6 DEF Marks!Write, Marks!Idle
  <2>2. /\ c.user \in Users /\ c.op \in {"read", "delete", "put", "import"} /\ c.by = c.user
        /\ c.op # "read"
        /\ c.op \in {"put", "import"} => c.keys \subseteq asked[c.user]
    BY <1>1, <2>1 DEF CallIsRight
  <2>3. CASE cloud' = [cloud EXCEPT ![c.by] = Marks!Changed(cloud[c.by], c)]
             /\ calls' = [calls EXCEPT ![s] = Marks!After(s, Marks!Written(c))]
    <3>1. Marks!Changed(cloud[c.by], c) \subseteq asked[c.by]
      BY <1>2, <2>2 DEF Marks!Changed
    <3>2. asked \in [Users -> SUBSET Keys]
      BY DEF MarksInv
    <3>3. cloud' \in [Users -> SUBSET Keys] /\ \A u \in Users : cloud'[u] \subseteq asked[u]
      BY <1>2, <2>2, <2>3, <3>1, <3>2
    <3>4. CallIsRight(Marks!After(s, Marks!Written(c)), asked)
      BY <2>2 DEF Marks!After, Marks!Written, CallIsRight
    <3>5. s = "current" => CallIsOfTheLibrary(Marks!After(s, Marks!Written(c)), lib)
      BY <1>1, <2>1 DEF Marks!After, Marks!Written, CallIsOfTheLibrary
    <3> QED BY <2>1, <2>3, <3>3, <3>4, <3>5, CallMoves
  <2>4. CASE UNCHANGED cloud /\ calls' = [calls EXCEPT ![s] = Marks!After(s, Marks!Refused)]
    <3>1. Marks!After(s, Marks!Refused) \in {Marks!Idle, Marks!Refused}
      BY DEF Marks!After
    <3> QED BY <1>2, <1>4, <2>1, <2>4, <3>1, CallMoves
  <2> QED BY <1>0, <1>6, <2>3, <2>4 DEF Marks!Write
<1> QED BY <1>5, <1>6

\* The answer to a change tells of the library of its session.
LEMMA SnapshotKeeps == ASSUME MarksInv, Marks!Snapshot PROVE MarksInv'
<1>0. PICK c : c = calls["current"]
  OBVIOUS
<1>1. CallIsRight(c, asked) /\ CallIsOfTheLibrary(c, lib) /\ c.at = "written"
      /\ UNCHANGED <<cloud, lib, asked>>
  BY <1>0 DEF MarksInv, Marks!Slots, Marks!Snapshot
<1>2. c.user \in Users /\ c # Marks!Idle /\ lib.mode = "cloud" /\ c.user = lib.user
  BY <1>1 DEF CallIsRight, CallIsOfTheLibrary, Marks!Idle
<1>3. PICK a \in {Marks!Told(c, cloud[c.by]), Marks!Refused} :
         calls' = [calls EXCEPT !["current"] = a]
  BY <1>0 DEF Marks!Snapshot
<1>4. CallIsRight(a, asked)
  BY <1>2, <1>3 DEF CallIsRight, Marks!Told, Marks!Refused, MarksInv
<1>5. CallIsOfTheLibrary(a, lib)
  BY <1>2, <1>3 DEF CallIsOfTheLibrary, Marks!Told, Marks!Refused
<1>6. cloud' \in [Users -> SUBSET Keys] /\ \A u \in Users : cloud'[u] \subseteq asked[u]
  BY <1>1 DEF MarksInv
<1> QED BY <1>1, <1>3, <1>4, <1>5, <1>6, CallMoves DEF Marks!Slots

\* Other tabs change the session, or the table as their user asks.
LEMMA OtherTabsKeep ==
    ASSUME MarksInv,
           \/ \E k \in Keys : Marks!ToggleLocal(k) \/ Marks!OtherToggles(k)
           \/ Marks!SignOut \/ \E u \in Users : Marks!SignIn(u)
    PROVE  MarksInv'
<1>1. ASSUME NEW k \in Keys, Marks!ToggleLocal(k) PROVE MarksInv'
  <2>1. UNCHANGED <<cloud, calls, asked>> /\ lib.mode = "local"
    BY <1>1 DEF Marks!ToggleLocal
  <2>2. PICK next \in SUBSET Keys : lib' = [lib EXCEPT !.local = next, !.keys = next]
    BY <1>1 DEF Marks!ToggleLocal, MarksInv, LibraryIsRight
  <2>3. LibraryIsRight(lib', asked) /\ lib'.mode = lib.mode /\ lib'.user = lib.user
    BY <2>1, <2>2 DEF MarksInv, LibraryIsRight
  <2> QED BY <2>1, <2>3 DEF MarksInv, CallIsOfTheLibrary
<1>2. ASSUME NEW k \in Keys, Marks!OtherToggles(k) PROVE MarksInv'
  <2>1. UNCHANGED <<lib, calls>>
        /\ \/ UNCHANGED asked /\ cloud' = [cloud EXCEPT ![cookie] = @ \ {k}]
           \/ /\ cloud' = [cloud EXCEPT ![cookie] = @ \cup {k}]
              /\ asked' = [asked EXCEPT ![cookie] = @ \cup {k}]
    BY <1>2 DEF Marks!OtherToggles
  <2>2. /\ cloud' \in [Users -> SUBSET Keys] /\ asked' \in [Users -> SUBSET Keys]
        /\ \A u \in Users : cloud'[u] \subseteq asked'[u]
        /\ \A u \in Users : asked[u] \subseteq asked'[u]
    BY <2>1 DEF MarksInv
  <2>3. LibraryIsRight(lib, asked') /\ \A s \in Marks!Slots : CallIsRight(calls[s], asked')
    BY <2>2, MoreIsAskedFor DEF MarksInv
  <2> QED BY <2>1, <2>2, <2>3 DEF MarksInv
<1>3. CASE Marks!SignOut \/ \E u \in Users : Marks!SignIn(u)
  BY <1>3 DEF Marks!SignOut, Marks!SignIn, MarksInv
<1> QED BY <1>1, <1>2, <1>3

\* No step of a tab, of the service or of another tab mixes libraries.
LEMMA MarksKept == ASSUME MarksInv, [Marks!Next]_marks PROVE MarksInv'
<1>1. ASSUME NEW c \in Marks!Contexts, Marks!SetContext(c[1], c[2]) PROVE MarksInv'
  <2>1. c[1] \in {"away", "local", "cloud"} /\ (c[1] = "cloud" => c[2] \in Users)
    BY <1>1 DEF Marks!Contexts
  <2> QED BY <1>1, <2>1, ContextKeeps
<1>2. CASE UNCHANGED marks
  BY <1>2 DEF marks, MarksInv
<1> QED BY <1>1, <1>2, ToggleKeeps, ImportKeeps, RefreshKeeps, EndKeeps, SnapshotKeeps,
           ServiceKeeps, OtherTabsKeep DEF Marks!Next

\* A library changes for a user whose session lasts.
RestsSignedOut == \A u \in Users : cloud'[u] # cloud[u] => u \in live

\* Only a user who is signed in has a library that changes.
LEMMA LibraryRests == ASSUME MarksInv, [Marks!Next]_marks PROVE RestsSignedOut
<1>0. cloud \in [Users -> SUBSET Keys]
  BY DEF MarksInv
<1>1. ASSUME NEW u, u \in live, NEW keys, cloud' = [cloud EXCEPT ![u] = keys]
      PROVE  RestsSignedOut
  BY <1>0, <1>1 DEF RestsSignedOut
<1>2. ASSUME UNCHANGED cloud PROVE RestsSignedOut
  BY <1>2 DEF RestsSignedOut
<1>3. ASSUME NEW s \in Marks!Slots, Marks!Write(s) PROVE RestsSignedOut
  BY <1>1, <1>2, <1>3 DEF Marks!Write
<1>4. ASSUME NEW k \in Keys, Marks!OtherToggles(k) PROVE RestsSignedOut
  BY <1>1, <1>2, <1>4 DEF Marks!OtherToggles
<1>5. CASE UNCHANGED marks
  BY <1>2, <1>5 DEF marks
<1>6. CASE \/ \E c \in Marks!Contexts : Marks!SetContext(c[1], c[2])
           \/ \E k \in Keys : Marks!Toggle(k) \/ Marks!ToggleLocal(k)
           \/ Marks!ImportLocal \/ Marks!RefreshLibrary \/ Marks!End \/ Marks!Snapshot
           \/ Marks!SignOut
           \/ \E s \in Marks!Slots : Marks!Arrive(s)
           \/ \E u \in Users : Marks!SignIn(u)
  BY <1>2, <1>6 DEF Marks!SetContext, Marks!Toggle, Marks!ToggleLocal, Marks!ImportLocal,
     Marks!RefreshLibrary, Marks!End, Marks!Snapshot, Marks!SignOut, Marks!Arrive, Marks!SignIn
<1> QED BY <1>3, <1>4, <1>5, <1>6 DEF Marks!Next

(* A bookmark reaches an account only because somebody asked for it there,  *)
(* and a page shows for an account no key of another one nor of this        *)
(* browser, however other tabs change the session and however late requests *)
(* arrive and answers come; and no library changes after its user signed    *)
(* out (bookmarkLibrary.js:1-2, 23-24; account-continuity.js:69).           *)
THEOREM LibrariesApart == EitherSpec => LibrariesKeepApart
<1> DEFINE Step == [Marks!Next]_marks
           Rests == [RestsSignedOut]_marks
<1>1. EitherInit => MarksInv
  <2> SUFFICES ASSUME EitherInit PROVE MarksInv
    OBVIOUS
  <2>1. PICK local \in SUBSET Keys :
           lib = [mode |-> "local", user |-> Nobody, status |-> "ready", keys |-> local,
                  local |-> local]
    BY DEF EitherInit, Marks!Init
  <2>2. /\ cloud = [u \in Users |-> {}] /\ asked = cloud
        /\ calls = [s \in Marks!Slots |-> Marks!Idle]
    BY DEF EitherInit, Marks!Init
  <2>3. LibraryIsRight(lib, asked)
    BY <2>1 DEF LibraryIsRight
  <2> QED BY <2>2, <2>3 DEF MarksInv, CallIsRight, CallIsOfTheLibrary, Marks!Slots
<1>2. MarksInv /\ [EitherNext]_<<part, vars, marks, catalog, formVars>> => MarksInv' /\ Rests
  BY MarksKept, LibraryRests DEF EitherNext
<1>3. MarksInv => Marks!LibrariesStayApart
  BY DEF MarksInv, LibraryIsRight, Marks!LibrariesStayApart
<1>4. EitherSpec => []Marks!LibrariesStayApart /\ [][RestsSignedOut]_marks
  BY <1>1, <1>2, <1>3, PTL DEF EitherSpec
<1> QED BY <1>4 DEF LibrariesKeepApart, Marks!LibrariesKeepApart, Marks!SignedOutLibraryRests,
           RestsSignedOut, marks, Marks!vars
-----------------------------------------------------------------------------
(* The history and the page                                                 *)

\* An address of the site, or of a section of an article.
Places == Addresses \cup {[Paper EXCEPT !.hash = TRUE]}
Routes == [page : {"data", "paper", "hub", "account", "preview", "login"},
           to : Sections \cup Selections]

Entries == [addr : Places, mark : Nat, left : Nat, asked : Places]

Memories == UNION {[M -> Nat] : M \in SUBSET Nat}

Tabs == [hist : Seq(Entries), at : Nat, scroll : Nat, place : Routes, view : Views,
         libraryY : Nat, reading : Nat, location : Places, positions : Memories]

\* The place the tab notes is where it is, but after a sign-in.
IsThere(t) ==
    /\ t.at \in 1..Len(t.hist) /\ Len(t.hist) <= MaxEntries
    /\ t.place = PlaceOf(Here(t))
    /\ t.place.page = "hub" => t.view = Located(Here(t).view)
    /\ t.location.page # "login" => t.location = Here(t)

\* Nobody but an entry of the library has its mark, and the page remembers
\* under that mark the position the entry was left at.
IsMarked(t) ==
    /\ t.reading # NoMark
    /\ t.place.page = "hub" => t.hist[t.at].mark = t.reading
    /\ \A i \in DOMAIN t.hist :
          t.hist[i].addr.page = "hub" =>
              /\ t.hist[i].mark # NoMark
              /\ \A j \in DOMAIN t.hist : t.hist[j].mark = t.hist[i].mark => j = i
              /\ t.hist[i].mark = t.reading => i = t.at
              /\ t.hist[i].left = Restored(t, t.hist[i].mark)

\* The sign-in is open for the page it leads to.
IsAsked(t) ==
    \A i \in DOMAIN t.hist :
        t.hist[i].addr.page = "login" => t.hist[i].asked = Destination(t.hist[i].addr.to)

TabIsRight(t) ==
    t \in Tabs /\ Located(t.view) = t.view /\ IsThere(t) /\ IsMarked(t) /\ IsAsked(t)

SiteInv ==
    /\ TabIsRight(tab)
    /\ acct \in AccountStates /\ checked \in BOOLEAN /\ farewell \in BOOLEAN
    /\ requested \in BOOLEAN
    /\ tab.place.page = "account" /\ acct = "signed_out" /\ checked => farewell

\* A view within its list is where its address leads.
LEMMA ViewsAreOfALibrary ==
    /\ \A v \in Views : /\ v \in [open : BOOLEAN, filter : Filters, page : Nat]
                        /\ Located(v) \in Views /\ Located(Located(v)) = Located(v)
    /\ DefaultView \in Views /\ Located(DefaultView) = DefaultView
<1>0. \A f \in Filters : LastPage[f] \in Nat
  BY InstanceAssumption DEF SiteAssumption
<1>1. ASSUME NEW v \in Views
      PROVE  /\ v \in [open : BOOLEAN, filter : Filters, page : Nat]
             /\ Located(v) \in Views /\ Located(Located(v)) = Located(v)
  <2>1. PICK f \in Filters : v \in [open : BOOLEAN, filter : {f}, page : 0..LastPage[f] + 1]
    BY DEF Views
  <2>2. v \in [open : BOOLEAN, filter : Filters, page : Nat] /\ v.filter = f
    BY <1>0, <2>1
  <2>3. Located(v) \in [open : BOOLEAN, filter : {f}, page : 0..LastPage[f] + 1]
        /\ Located(v).page <= LastPage[f]
    BY <1>0, <2>1, <2>2 DEF Located
  <2>4. Located(v) \in Views
    BY <2>3 DEF Views
  <2>5. Located(Located(v)) = Located(v)
    BY <1>0, <2>3 DEF Located
  <2> QED BY <2>2, <2>4, <2>5
<1>2. DefaultView \in [open : BOOLEAN, filter : {AllPapers}, page : 0..LastPage[AllPapers] + 1]
  BY <1>0, InstanceAssumption DEF SiteAssumption, DefaultView
<1>3. DefaultView \in Views
  BY <1>2, InstanceAssumption DEF SiteAssumption, Views
<1>4. Located(DefaultView) = DefaultView
  <2>1. ~(0 > LastPage[AllPapers]) /\ DefaultView.page = 0 /\ DefaultView.filter = AllPapers
    BY <1>0, InstanceAssumption DEF SiteAssumption, DefaultView
  <2>2. Located(DefaultView) = [DefaultView EXCEPT !.page = 0]
    BY <2>1 DEF Located
  <2> QED BY <2>2 DEF DefaultView
<1> QED BY <1>1, <1>3, <1>4

\* What an address says of its page.
IsNamed(a) ==
    /\ a = [page |-> a.page, view |-> a.view, to |-> a.to, hash |-> a.hash]
    /\ PlaceOf(a) \in Routes /\ a.view \in Views /\ a.hash \in BOOLEAN
    /\ a.hash => a.page = "paper"
    /\ a.page = "account" => a.to \in Sections /\ a = AccountAt(a.to)
    /\ a.page = "preview" => a.to \in Selections
    /\ a.page = "hub" => a = Library(a.view)

\* Every address says so.
LEMMA PlacesAreNamed == \A a \in Places : IsNamed(a)
<1>1. SUFFICES ASSUME NEW a \in Places PROVE IsNamed(a)
  OBVIOUS
<1>2. DefaultView \in Views /\ Overview \in Sections
  BY ViewsAreOfALibrary, InstanceAssumption DEF SiteAssumption
<1>3. CASE a = Data \/ a = Paper \/ a = [Paper EXCEPT !.hash = TRUE]
  <2>0. /\ Data = [page |-> "data", view |-> DefaultView, to |-> Overview, hash |-> FALSE]
        /\ Paper = [page |-> "paper", view |-> DefaultView, to |-> Overview, hash |-> FALSE]
        /\ [Paper EXCEPT !.hash = TRUE]
              = [page |-> "paper", view |-> DefaultView, to |-> Overview, hash |-> TRUE]
    <3>1. /\ Data = [page |-> "data", view |-> DefaultView, to |-> Overview, hash |-> FALSE]
          /\ Paper = [page |-> "paper", view |-> DefaultView, to |-> Overview, hash |-> FALSE]
      BY DEF Data, Paper, Address
    <3>2. \A v, o, h : [[page |-> "paper", view |-> v, to |-> o, hash |-> FALSE] EXCEPT !.hash = h]
                            = [page |-> "paper", view |-> v, to |-> o, hash |-> h]
      OBVIOUS
    <3> QED BY <3>1, <3>2
  <2>1. \E p \in {"data", "paper"}, h \in BOOLEAN :
            /\ a = [page |-> p, view |-> DefaultView, to |-> Overview, hash |-> h]
            /\ h => p = "paper"
    BY <1>3, <2>0, Zenon
  <2> QED BY <1>2, <2>1 DEF IsNamed, PlaceOf, Routes
<1>4. ASSUME NEW v \in Views, a = Library(v) PROVE IsNamed(a)
  BY <1>2, <1>4 DEF IsNamed, Library, Address, PlaceOf, Routes
<1>5. ASSUME NEW s \in Sections, a = AccountAt(s) PROVE IsNamed(a)
  BY <1>2, <1>5 DEF IsNamed, AccountAt, Address, PlaceOf, Routes
<1>6. ASSUME NEW s \in Selections, a = Preview(s) PROVE IsNamed(a)
  BY <1>2, <1>6 DEF IsNamed, Preview, Address, PlaceOf, Routes
<1>7. ASSUME NEW s \in Sections \cup Selections, a = Login(s) PROVE IsNamed(a)
  BY <1>2, <1>7 DEF IsNamed, Login, Address, PlaceOf, Routes
<1> QED BY <1>3, <1>4, <1>5, <1>6, <1>7 DEF Places, Addresses

\* Two sections of one article.
LEMMA SectionsOfAnArticle ==
    ASSUME NEW a \in Places, NEW b \in Places, InPage(a, b)
    PROVE  a.page = "paper" /\ b.page = "paper" /\ PlaceOf(a) = PlaceOf(b)
<1>1. /\ a = [page |-> a.page, view |-> a.view, to |-> a.to, hash |-> a.hash]
      /\ b = [page |-> b.page, view |-> b.view, to |-> b.to, hash |-> b.hash]
      /\ a.hash \in BOOLEAN /\ b.hash \in BOOLEAN
      /\ a.hash => a.page = "paper"
      /\ b.hash => b.page = "paper"
  BY PlacesAreNamed DEF IsNamed
<1>2. a # b /\ [page |-> a.page, view |-> a.view, to |-> a.to, hash |-> b.hash] = b
  BY <1>1 DEF InPage
<1>3. a.page = b.page /\ a.to = b.to /\ a.view = b.view
  BY <1>2
<1>4. a.hash # b.hash
  BY <1>1, <1>2
<1> QED BY <1>1, <1>3, <1>4 DEF PlaceOf

\* The sign-in leads to a page of the account or to the preview.
LEMMA ADestinationIsAPlace ==
    \A to \in Sections \cup Selections :
        /\ Destination(to) \in Places /\ Login(to) \in Places
        /\ Destination(to).page \in {"account", "preview"} /\ ~Destination(to).hash
BY DEF Destination, Places, Addresses, AccountAt, Preview, Address

\* What an address is opened for is an address.
LEMMA ForIsAPlace == \A a \in Places : For(a) \in Places
<1>1. Data \in Places
  BY DEF Places, Addresses
<1>2. \A a \in Places : a.to \in Sections \cup Selections
  BY PlacesAreNamed DEF IsNamed, PlaceOf, Routes
<1> QED BY <1>1, <1>2, ADestinationIsAPlace DEF For

\* An entry always finds a mark that no entry has.
LEMMA ThereIsAFreeMark ==
    ASSUME NEW hist \in Seq(Entries), Len(hist) <= MaxEntries, NEW i
    PROVE  /\ NewMark(hist, i) \in Nat \ {NoMark}
           /\ \A j \in DOMAIN hist : hist[j].mark # NewMark(hist, i)
<1> DEFINE free == (1..MaxEntries + 1) \ MarksOf(hist)
           f == [j \in 1..Len(hist) |-> hist[j].mark]
<1>0. MaxEntries \in Nat /\ Len(hist) \in Nat /\ DOMAIN hist = 1..Len(hist)
  BY InstanceAssumption DEF SiteAssumption
<1>1. IsFiniteSet(1..Len(hist)) /\ Cardinality(1..Len(hist)) = Len(hist)
      /\ IsFiniteSet(1..MaxEntries + 1) /\ Cardinality(1..MaxEntries + 1) = MaxEntries + 1
  <2>1. \A n \in Nat : IsFiniteSet(1..n) /\ Cardinality(1..n) = n
    BY FS_Interval
  <2>2. MaxEntries + 1 \in Nat
    BY <1>0
  <2> QED BY <1>0, <2>1, <2>2
<1>2. f \in Surjection(1..Len(hist), MarksOf(hist))
  BY <1>0 DEF MarksOf, Surjection
<1>3. IsFiniteSet(MarksOf(hist)) /\ Cardinality(MarksOf(hist)) <= Len(hist)
      /\ Cardinality(MarksOf(hist)) \in Nat
  <2> HIDE DEF f
  <2> QED BY <1>1, <1>2, FS_Surjection, FS_CardinalityType
<1>4. free # {}
  <2>1. ASSUME (1..MaxEntries + 1) \subseteq MarksOf(hist) PROVE FALSE
    <3>1. Cardinality(1..MaxEntries + 1) <= Cardinality(MarksOf(hist))
      BY <1>3, <2>1, FS_Subset
    <3> QED BY <1>0, <1>1, <1>3, <3>1
  <2> QED BY <2>1
<1>5. \E m \in free : i \in free => m = i
  BY <1>4
<1>6. NewMark(hist, i) = CHOOSE m \in free : i \in free => m = i
  BY DEF NewMark
<1>7. NewMark(hist, i) \in free
  BY <1>5, <1>6
<1>8. \A j \in DOMAIN hist : hist[j].mark \in MarksOf(hist)
  BY DEF MarksOf
<1> QED BY <1>0, <1>7, <1>8 DEF NoMark

\* An entry after those up to n, in place of the others.
LEMMA HistoryGrows ==
    ASSUME NEW hist \in Seq(Entries), NEW n \in 0..Len(hist), NEW e \in Entries
    PROVE  /\ SubSeq(hist, 1, n) \o <<e>> \in Seq(Entries)
           /\ Len(SubSeq(hist, 1, n) \o <<e>>) = n + 1
           /\ \A i \in 1..n : (SubSeq(hist, 1, n) \o <<e>>)[i] = hist[i]
           /\ (SubSeq(hist, 1, n) \o <<e>>)[n + 1] = e
<1> DEFINE s == SubSeq(hist, 1, n)
<1>1. \A i \in 1..n : hist[i] \in Entries
  BY LenProperties
<1>2. s \in Seq(Entries) /\ Len(s) = n /\ \A i \in 1..n : s[i] = hist[i]
  BY <1>1, SubSeqProperties
<1>3. <<e>> \in Seq(Entries) /\ Len(<<e>>) = 1 /\ <<e>>[1] = e
  OBVIOUS
<1> HIDE DEF s
<1>4. /\ s \o <<e>> \in Seq(Entries) /\ Len(s \o <<e>>) = n + 1
      /\ \A i \in 1..n + 1 : (s \o <<e>>)[i] = IF i <= n THEN s[i] ELSE <<e>>[i - n]
  BY <1>2, <1>3, ConcatProperties
<1>5. (s \o <<e>>)[n + 1] = e
  <2>1. n + 1 \in 1..n + 1 /\ ~(n + 1 <= n) /\ n + 1 - n = 1
    OBVIOUS
  <2> QED BY <1>3, <1>4, <2>1
<1>6. \A i \in 1..n : (s \o <<e>>)[i] = hist[i]
  BY <1>2, <1>4
<1> QED BY <1>4, <1>5, <1>6 DEF s

\* An entry in place of the n-th.
LEMMA HistoryChanges ==
    ASSUME NEW hist \in Seq(Entries), NEW n \in 1..Len(hist), NEW e \in Entries
    PROVE  SubSeq(hist, 1, n - 1) \o <<e>> \o SubSeq(hist, n + 1, Len(hist))
              = [hist EXCEPT ![n] = e]
<1> DEFINE s == SubSeq(hist, 1, n - 1) \o <<e>>
           r == SubSeq(hist, n + 1, Len(hist))
<1>0. Len(hist) \in Nat /\ n \in Nat /\ n <= Len(hist) /\ n > 0
      /\ \A i \in 1..Len(hist) : hist[i] \in Entries
  BY LenProperties
<1>1. s \in Seq(Entries) /\ Len(s) = n /\ s[n] = e /\ \A i \in 1..n - 1 : s[i] = hist[i]
  BY <1>0, HistoryGrows
<1>2. /\ r \in Seq(Entries) /\ Len(r) = Len(hist) - n
      /\ \A i \in 1..Len(hist) - n : r[i] = hist[n + i]
  <2>1. \A i \in n + 1..Len(hist) : hist[i] \in Entries
    BY <1>0
  <2>2. /\ r \in Seq(Entries)
        /\ Len(r) = IF n + 1 <= Len(hist) THEN Len(hist) - (n + 1) + 1 ELSE 0
        /\ \A i \in 1..Len(hist) - (n + 1) + 1 : r[i] = hist[n + 1 + i - 1]
    BY <1>0, <2>1, SubSeqProperties
  <2> QED BY <1>0, <2>2
<1> HIDE DEF s, r
<1>3. /\ s \o r \in Seq(Entries) /\ Len(s \o r) = Len(hist)
      /\ \A i \in 1..Len(hist) : (s \o r)[i] = IF i <= n THEN s[i] ELSE r[i - n]
  <2>1. /\ s \o r \in Seq(Entries) /\ Len(s \o r) = Len(s) + Len(r)
        /\ \A i \in 1..Len(s) + Len(r) :
              (s \o r)[i] = IF i <= Len(s) THEN s[i] ELSE r[i - Len(s)]
    BY <1>1, <1>2, ConcatProperties, Zenon
  <2>2. Len(s) = n /\ Len(s) + Len(r) = Len(hist)
    BY <1>0, <1>1, <1>2
  <2> QED BY <2>1, <2>2
<1>4. \A i \in 1..Len(hist) : (s \o r)[i] = IF i = n THEN e ELSE hist[i]
  <2> SUFFICES ASSUME NEW i \in 1..Len(hist)
               PROVE  (s \o r)[i] = IF i = n THEN e ELSE hist[i]
    OBVIOUS
  <2>1. CASE i < n
    BY <1>0, <1>1, <1>3, <2>1
  <2>2. CASE i = n
    BY <1>0, <1>1, <1>3, <2>2
  <2>3. CASE i > n
    <3>1. i - n \in 1..Len(hist) - n /\ n + (i - n) = i
      BY <1>0, <2>3
    <3> QED BY <1>0, <1>2, <1>3, <2>3, <3>1
  <2>4. i < n \/ i = n \/ i > n
    BY <1>0
  <2> QED BY <2>1, <2>2, <2>3, <2>4
<1>5. s \o r = [i \in 1..Len(hist) |-> IF i = n THEN e ELSE hist[i]]
  BY <1>3, <1>4, LenProperties
<1>6. [hist EXCEPT ![n] = e] = [i \in 1..Len(hist) |-> IF i = n THEN e ELSE hist[i]]
  OBVIOUS
<1> QED BY <1>5, <1>6 DEF s, r

\* The position that is saved is that of the entry the page is at.
LEMMA SavedIsATab ==
    ASSUME NEW t \in Tabs, t.at \in 1..Len(t.hist)
    PROVE  /\ Saved(t) \in Tabs
           /\ Saved(t).hist = [t.hist EXCEPT ![t.at] = [t.hist[t.at] EXCEPT !.left = t.scroll]]
           /\ Saved(t).positions = [m \in DOMAIN t.positions \cup {t.reading} |->
                                        IF m = t.reading THEN t.scroll ELSE t.positions[m]]
           /\ Saved(t).at = t.at /\ Saved(t).scroll = t.scroll /\ Saved(t).place = t.place
           /\ Saved(t).view = t.view /\ Saved(t).libraryY = t.libraryY
           /\ Saved(t).reading = t.reading /\ Saved(t).location = t.location
<1> DEFINE h == [t.hist EXCEPT ![t.at] = [t.hist[t.at] EXCEPT !.left = t.scroll]]
           p == [m \in DOMAIN t.positions \cup {t.reading} |->
                    IF m = t.reading THEN t.scroll ELSE t.positions[m]]
<1>1. Saved(t) = [t EXCEPT !.positions = p, !.hist = h]
  BY DEF Saved, Tabs
<1>2. t.hist \in Seq(Entries) /\ t.scroll \in Nat /\ t.reading \in Nat /\ t.positions \in Memories
  BY DEF Tabs
<1>3. h \in Seq(Entries)
  <2>1. t.hist[t.at] \in Entries
    BY <1>2
  <2>2. [t.hist[t.at] EXCEPT !.left = t.scroll] \in Entries
    BY <1>2, <2>1 DEF Entries
  <2> QED BY <1>2, <2>2
<1>4. p \in Memories
  <2>1. PICK M \in SUBSET Nat : t.positions \in [M -> Nat]
    BY <1>2 DEF Memories
  <2>2. p \in [M \cup {t.reading} -> Nat] /\ M \cup {t.reading} \in SUBSET Nat
    BY <1>2, <2>1
  <2> HIDE DEF p
  <2> QED BY <2>2 DEF Memories
<1> HIDE DEF h, p
<1>5. Saved(t) \in Tabs
  BY <1>1, <1>3, <1>4 DEF Tabs
<1>6. Saved(t).hist = h /\ Saved(t).positions = p
      /\ Saved(t).at = t.at /\ Saved(t).scroll = t.scroll /\ Saved(t).place = t.place
  BY <1>1 DEF Tabs
<1>7. Saved(t).view = t.view /\ Saved(t).libraryY = t.libraryY
      /\ Saved(t).reading = t.reading /\ Saved(t).location = t.location
  BY <1>1 DEF Tabs
<1> QED BY <1>5, <1>6, <1>7 DEF h, p

\* A page that notes its position is still right.
LEMMA SavedKeeps ==
    ASSUME NEW t, TabIsRight(t), t.place.page = "hub"
    PROVE  /\ TabIsRight(Saved(t))
           /\ Saved(t).at = t.at /\ Saved(t).scroll = t.scroll /\ Saved(t).place = t.place
           /\ Saved(t).view = t.view /\ Saved(t).libraryY = t.libraryY
           /\ Saved(t).reading = t.reading /\ Saved(t).location = t.location
           /\ Len(Saved(t).hist) = Len(t.hist)
           /\ \A i \in DOMAIN t.hist : /\ i # t.at => Saved(t).hist[i] = t.hist[i]
                                       /\ Saved(t).hist[i].addr = t.hist[i].addr
                                       /\ Saved(t).hist[i].mark = t.hist[i].mark
                                       /\ Saved(t).hist[i].asked = t.hist[i].asked
<1>1. t \in Tabs /\ t.at \in 1..Len(t.hist) /\ t.hist \in Seq(Entries)
  BY DEF TabIsRight, IsThere, Tabs
<1>2. PICK s : s = Saved(t)
  OBVIOUS
<1>3. /\ s \in Tabs /\ s.hist = [t.hist EXCEPT ![t.at] = [t.hist[t.at] EXCEPT !.left = t.scroll]]
      /\ s.positions = [m \in DOMAIN t.positions \cup {t.reading} |->
                            IF m = t.reading THEN t.scroll ELSE t.positions[m]]
      /\ s.at = t.at /\ s.scroll = t.scroll /\ s.place = t.place
      /\ s.view = t.view /\ s.libraryY = t.libraryY
      /\ s.reading = t.reading /\ s.location = t.location
  BY <1>1, <1>2, SavedIsATab, Zenon
<1>4. /\ DOMAIN t.hist = 1..Len(t.hist) /\ Len(s.hist) = Len(t.hist) /\ DOMAIN s.hist = DOMAIN t.hist
      /\ t.hist[t.at] \in Entries
      /\ \A i \in DOMAIN t.hist : i # t.at => s.hist[i] = t.hist[i]
      /\ s.hist[t.at] = [t.hist[t.at] EXCEPT !.left = t.scroll]
  BY <1>1, <1>3
<1>5. /\ s.hist[t.at].addr = t.hist[t.at].addr /\ s.hist[t.at].mark = t.hist[t.at].mark
      /\ s.hist[t.at].asked = t.hist[t.at].asked /\ s.hist[t.at].left = t.scroll
  BY <1>4 DEF Entries
<1>6. \A i \in DOMAIN t.hist : /\ s.hist[i].addr = t.hist[i].addr
                               /\ s.hist[i].mark = t.hist[i].mark
                               /\ s.hist[i].asked = t.hist[i].asked
  BY <1>4, <1>5
<1>7. IsThere(s) /\ IsAsked(s) /\ Located(s.view) = s.view
  <2>1. Here(s) = Here(t)
    BY <1>1, <1>3, <1>5 DEF Here
  <2>2. IsThere(s)
    BY <1>1, <1>3, <1>4, <2>1 DEF TabIsRight, IsThere
  <2>3. IsAsked(s)
    BY <1>4, <1>6 DEF TabIsRight, IsAsked
  <2> QED BY <1>3, <2>2, <2>3 DEF TabIsRight
<1>8. IsMarked(s)
  <2>1. t.hist[t.at].mark = t.reading
    BY DEF TabIsRight, IsMarked
  <2>2. \A m : Restored(s, m) = IF m = t.reading THEN t.scroll ELSE Restored(t, m)
    BY <1>3 DEF Restored
  <2>3. ASSUME NEW i \in DOMAIN s.hist, s.hist[i].addr.page = "hub"
        PROVE  /\ s.hist[i].mark # NoMark
               /\ \A j \in DOMAIN s.hist : s.hist[j].mark = s.hist[i].mark => j = i
               /\ s.hist[i].mark = s.reading => i = s.at
               /\ s.hist[i].left = Restored(s, s.hist[i].mark)
    <3>1. i \in DOMAIN t.hist /\ t.hist[i].addr.page = "hub"
      BY <1>4, <1>6, <2>3
    <3>2. /\ t.hist[i].mark # NoMark
          /\ \A j \in DOMAIN t.hist : t.hist[j].mark = t.hist[i].mark => j = i
          /\ t.hist[i].mark = t.reading => i = t.at
          /\ t.hist[i].left = Restored(t, t.hist[i].mark)
      BY <3>1 DEF TabIsRight, IsMarked
    <3>3. s.hist[i].left = Restored(s, s.hist[i].mark)
      <4>1. CASE i = t.at
        BY <1>3, <1>5, <2>1, <2>2, <4>1
      <4>2. CASE i # t.at
        BY <1>4, <2>2, <3>1, <3>2, <4>2
      <4> QED BY <4>1, <4>2
    <3> QED BY <1>3, <1>4, <1>6, <3>1, <3>2, <3>3
  <2>4. s.reading # NoMark
    BY <1>3 DEF TabIsRight, IsMarked
  <2>5. s.hist[s.at].mark = s.reading
    BY <1>1, <1>3, <1>5, <2>1
  <2> QED BY <2>3, <2>4, <2>5 DEF IsMarked
<1>9. TabIsRight(s)
  BY <1>3, <1>7, <1>8 DEF TabIsRight
<1> QED BY <1>2, <1>3, <1>4, <1>6, <1>9

\* The page shows another entry, which it marks; the position there is y.
Moved(s, i, mark, y) ==
    Scrolled([s EXCEPT
        !.at = i, !.location = s.hist[i].addr, !.reading = mark, !.hist[i].mark = mark,
        !.libraryY = y,
        !.view = IF s.hist[i].addr.page = "hub" THEN Located(s.hist[i].addr.view) ELSE @,
        !.place = PlaceOf(s.hist[i].addr)])

\* What the page then shows, and what it remembers.
LEMMA MovedIsATab ==
    ASSUME NEW s \in Tabs, NEW i \in 1..Len(s.hist), NEW mark \in Nat, NEW y \in Nat
    PROVE  /\ Moved(s, i, mark, y) \in Tabs
           /\ Moved(s, i, mark, y).hist = [s.hist EXCEPT ![i] = [s.hist[i] EXCEPT !.mark = mark]]
           /\ Moved(s, i, mark, y).at = i
           /\ Moved(s, i, mark, y).scroll = (IF s.hist[i].addr.page = "hub" THEN y ELSE 0)
           /\ Moved(s, i, mark, y).place = PlaceOf(s.hist[i].addr)
           /\ Moved(s, i, mark, y).view = (IF s.hist[i].addr.page = "hub"
                                           THEN Located(s.hist[i].addr.view) ELSE s.view)
           /\ Moved(s, i, mark, y).reading = mark
           /\ Moved(s, i, mark, y).location = s.hist[i].addr
           /\ Moved(s, i, mark, y).positions = s.positions
<1> DEFINE a == s.hist[i].addr
           h == [s.hist EXCEPT ![i] = [s.hist[i] EXCEPT !.mark = mark]]
           v == IF a.page = "hub" THEN Located(a.view) ELSE s.view
           y0 == IF a.page = "hub" THEN y ELSE 0
<1>1. /\ s.hist \in Seq(Entries) /\ s.view \in Views /\ s.positions \in Memories
      /\ s.hist[i] \in Entries
  BY DEF Tabs
<1>2. a \in Places /\ IsNamed(a)
  BY <1>1, PlacesAreNamed DEF Entries
<1>3. v \in Views /\ PlaceOf(a) \in Routes /\ PlaceOf(a).page = a.page
  BY <1>1, <1>2, ViewsAreOfALibrary DEF IsNamed, PlaceOf
<1>4. h \in Seq(Entries)
  <2>1. [s.hist[i] EXCEPT !.mark = mark] \in Entries
    BY <1>1 DEF Entries
  <2> QED BY <1>1, <2>1
<1> DEFINE q == [s EXCEPT !.at = i, !.location = a, !.reading = mark, !.hist = h,
                        !.libraryY = y, !.view = v, !.place = PlaceOf(a)]
<1>5. Moved(s, i, mark, y) = [q EXCEPT !.scroll = y0]
  <2>1. Moved(s, i, mark, y) = Scrolled(q)
    BY DEF Moved, Tabs
  <2>2. q.place = PlaceOf(a) /\ q.libraryY = y
    BY DEF Tabs
  <2> HIDE DEF q
  <2> QED BY <1>3, <2>1, <2>2 DEF Scrolled
<1>6. i \in Nat /\ y0 \in Nat
  OBVIOUS
<1> HIDE DEF a, h, v, y0
<1>7. q \in Tabs
  BY <1>1, <1>2, <1>3, <1>4, <1>6 DEF Tabs
<1>8. /\ q.hist = h /\ q.at = i /\ q.place = PlaceOf(a) /\ q.view = v
      /\ q.reading = mark /\ q.location = a /\ q.positions = s.positions
  BY DEF Tabs
<1> HIDE DEF q
<1>9. Moved(s, i, mark, y) \in Tabs
  BY <1>5, <1>6, <1>7 DEF Tabs
<1>10. /\ Moved(s, i, mark, y).hist = h /\ Moved(s, i, mark, y).at = i
       /\ Moved(s, i, mark, y).scroll = y0 /\ Moved(s, i, mark, y).place = PlaceOf(a)
       /\ Moved(s, i, mark, y).view = v /\ Moved(s, i, mark, y).reading = mark
       /\ Moved(s, i, mark, y).location = a /\ Moved(s, i, mark, y).positions = s.positions
  BY <1>5, <1>7, <1>8 DEF Tabs
<1> QED BY <1>9, <1>10 DEF a, h, v, y0

\* What an entry's mark becomes, and nothing else of the history.
IsMarkedAlone(h, old, i, mark) ==
    /\ h \in Seq(Entries) /\ Len(h) = Len(old) /\ DOMAIN h = DOMAIN old
    /\ \A j \in DOMAIN old :
          /\ h[j].addr = old[j].addr /\ h[j].left = old[j].left
          /\ h[j].asked = old[j].asked
          /\ h[j].mark = IF j = i THEN mark ELSE old[j].mark

\* An entry that is marked is the same otherwise.
LEMMA AMarkChanges ==
    ASSUME NEW s \in Tabs, NEW i \in 1..Len(s.hist), NEW mark \in Nat, NEW h,
           h = [s.hist EXCEPT ![i] = [s.hist[i] EXCEPT !.mark = mark]]
    PROVE  IsMarkedAlone(h, s.hist, i, mark)
<1>1. s.hist \in Seq(Entries) /\ DOMAIN s.hist = 1..Len(s.hist) /\ s.hist[i] \in Entries
  BY DEF Tabs
<1>2. PICK e : e = [s.hist[i] EXCEPT !.mark = mark]
  OBVIOUS
<1>3. /\ e \in Entries /\ e.addr = s.hist[i].addr /\ e.left = s.hist[i].left
      /\ e.asked = s.hist[i].asked /\ e.mark = mark
  BY <1>1, <1>2 DEF Entries
<1>4. h = [s.hist EXCEPT ![i] = e]
  BY <1>2
<1>5. h \in Seq(Entries) /\ Len(h) = Len(s.hist) /\ DOMAIN h = DOMAIN s.hist
  BY <1>1, <1>3, <1>4
<1>6. \A j \in DOMAIN s.hist : h[j] = IF j = i THEN e ELSE s.hist[j]
  BY <1>1, <1>4
<1> QED BY <1>3, <1>5, <1>6 DEF IsMarkedAlone

\* A position that nobody remembers is the top.
LEMMA ARememberedPosition == \A t \in Tabs : \A m : Restored(t, m) \in Nat
  BY DEF Restored, Tabs, Memories

\* The page comes to an entry, with its mark or with one that nobody has.
LEMMA MovedKeeps ==
    ASSUME NEW s, TabIsRight(s), NEW i \in 1..Len(s.hist), NEW mark \in Nat \ {NoMark},
           NEW y \in Nat,
           \/ s.hist[i].mark = mark
           \/ s.hist[i].mark = NoMark /\ \A j \in DOMAIN s.hist : s.hist[j].mark # mark
    PROVE  TabIsRight(Moved(s, i, mark, y))
<1>1. s \in Tabs /\ s.hist \in Seq(Entries) /\ s.hist[i] \in Entries
      /\ DOMAIN s.hist = 1..Len(s.hist) /\ s.view = Located(s.view)
  BY DEF TabIsRight, Tabs
<1>2. PICK r : r = Moved(s, i, mark, y)
  OBVIOUS
<1>3. PICK a : a = s.hist[i].addr
  OBVIOUS
<1>4. /\ r \in Tabs /\ r.hist = [s.hist EXCEPT ![i] = [s.hist[i] EXCEPT !.mark = mark]]
      /\ r.at = i /\ r.place = PlaceOf(a) /\ r.reading = mark /\ r.location = a
      /\ r.view = (IF a.page = "hub" THEN Located(a.view) ELSE s.view)
      /\ r.positions = s.positions
  BY <1>1, <1>2, <1>3, MovedIsATab
<1>5. /\ Len(r.hist) = Len(s.hist) /\ DOMAIN r.hist = DOMAIN s.hist
      /\ \A j \in DOMAIN s.hist :
            /\ r.hist[j].addr = s.hist[j].addr /\ r.hist[j].left = s.hist[j].left
            /\ r.hist[j].asked = s.hist[j].asked
            /\ r.hist[j].mark = IF j = i THEN mark ELSE s.hist[j].mark
  BY <1>1, <1>4, AMarkChanges DEF IsMarkedAlone
<1>6. a \in Places /\ IsNamed(a) /\ PlaceOf(a).page = a.page
  BY <1>1, <1>3, PlacesAreNamed DEF Entries, PlaceOf
<1>7. Here(r) = a
  BY <1>1, <1>3, <1>4, <1>5 DEF Here
<1>8. IsThere(r)
  BY <1>1, <1>4, <1>5, <1>6, <1>7 DEF IsThere, TabIsRight
<1>9. Located(r.view) = r.view
  BY <1>1, <1>4, <1>6, ViewsAreOfALibrary DEF IsNamed
<1>10. IsAsked(r)
  BY <1>5 DEF IsAsked, TabIsRight
<1>11. IsMarked(r)
  <2>1. \A m : Restored(r, m) = Restored(s, m)
    BY <1>4 DEF Restored
  <2>2. ASSUME NEW j \in DOMAIN r.hist, r.hist[j].addr.page = "hub"
        PROVE  /\ r.hist[j].mark # NoMark
               /\ \A n \in DOMAIN r.hist : r.hist[n].mark = r.hist[j].mark => n = j
               /\ r.hist[j].mark = r.reading => j = r.at
               /\ r.hist[j].left = Restored(r, r.hist[j].mark)
    <3>1. /\ s.hist[j].mark # NoMark
          /\ \A n \in DOMAIN s.hist : s.hist[n].mark = s.hist[j].mark => n = j
          /\ s.hist[j].left = Restored(s, s.hist[j].mark)
      BY <1>5, <2>2 DEF TabIsRight, IsMarked
    <3>2. r.hist[j].mark = s.hist[j].mark
      BY <1>5, <2>2, <3>1
    <3>3. \A n \in DOMAIN r.hist : r.hist[n].mark = r.hist[j].mark => n = j
      BY <1>1, <1>5, <2>2, <3>1, <3>2
    <3>4. r.hist[i].mark = mark /\ i \in DOMAIN r.hist
      BY <1>1, <1>5
    <3> QED BY <1>4, <1>5, <2>1, <2>2, <3>1, <3>2, <3>3, <3>4
  <2>3. r.hist[r.at].mark = r.reading
    BY <1>1, <1>4, <1>5
  <2> QED BY <1>4, <2>2, <2>3 DEF IsMarked
<1> QED BY <1>2, <1>4, <1>8, <1>9, <1>10, <1>11 DEF TabIsRight

\* The browser goes to another entry: the page follows, and the library
\* opens where that entry was left.
LEMMA SyncKeeps ==
    ASSUME NEW t, TabIsRight(t), NEW i \in DOMAIN t.hist, i # t.at
    PROVE  /\ TabIsRight(Sync(t, i)) /\ Sync(t, i).at = i
           /\ Sync(t, i).place = PlaceOf(t.hist[i].addr)
           /\ Sync(t, i).place.page = "hub" => Sync(t, i).scroll = t.hist[i].left
           /\ Here(Sync(t, i)) = t.hist[i].addr
<1>1. t \in Tabs /\ t.hist \in Seq(Entries) /\ t.hist[i] \in Entries /\ i \in 1..Len(t.hist)
      /\ DOMAIN t.hist = 1..Len(t.hist) /\ t.at \in 1..Len(t.hist) /\ Len(t.hist) <= MaxEntries
      /\ t.hist[t.at] \in Entries
  BY DEF TabIsRight, Tabs, IsThere
<1>2. PICK a : a = t.hist[i].addr
  OBVIOUS
<1>3. a \in Places /\ IsNamed(a) /\ PlaceOf(a).page = a.page /\ t.location \in Places
  BY <1>1, <1>2, PlacesAreNamed DEF Entries, PlaceOf, Tabs
<1>4. CASE InPage(t.location, a)
  <2>1. /\ a.page = "paper" /\ t.location.page = "paper"
        /\ PlaceOf(t.location) = PlaceOf(a)
    BY <1>3, <1>4, SectionsOfAnArticle
  <2>2. t.location = Here(t) /\ t.place = PlaceOf(a) /\ t.place.page = "paper"
    BY <1>3, <2>1 DEF TabIsRight, IsThere
  <2>3. PICK h : h = [t.hist EXCEPT ![i] = [t.hist[i] EXCEPT !.mark = t.reading]]
    OBVIOUS
  <2>4. PICK r : r = Sync(t, i)
    OBVIOUS
  <2>5. r = [t EXCEPT !.at = i, !.location = a, !.hist = h]
    BY <1>1, <1>2, <1>4, <2>3, <2>4 DEF Sync, Tabs
  <2>6. t.reading \in Nat \ {NoMark}
    BY <1>1 DEF Tabs, TabIsRight, IsMarked
  <2>7. /\ h \in Seq(Entries) /\ Len(h) = Len(t.hist) /\ DOMAIN h = DOMAIN t.hist
        /\ \A j \in DOMAIN t.hist :
              /\ h[j].addr = t.hist[j].addr /\ h[j].left = t.hist[j].left
              /\ h[j].asked = t.hist[j].asked
              /\ h[j].mark = IF j = i THEN t.reading ELSE t.hist[j].mark
    <3>1. t.reading \in Nat
      BY <2>6
    <3>2. IsMarkedAlone(h, t.hist, i, t.reading)
      BY <1>1, <2>3, <3>1, AMarkChanges
    <3> QED BY <3>2 DEF IsMarkedAlone
  <2>8. /\ r \in Tabs /\ r.at = i /\ r.location = a /\ r.hist = h /\ r.place = t.place
        /\ r.reading = t.reading /\ r.positions = t.positions /\ r.view = t.view
    <3>1. i \in Nat /\ h \in Seq(Entries) /\ a \in Places
      BY <1>1, <1>3, <2>7
    <3>2. r \in Tabs
      BY <1>1, <2>5, <3>1 DEF Tabs
    <3>3. /\ r.at = i /\ r.location = a /\ r.hist = h /\ r.place = t.place
          /\ r.reading = t.reading /\ r.positions = t.positions /\ r.view = t.view
      BY <1>1, <2>5 DEF Tabs
    <3> QED BY <3>2, <3>3
  <2>9. Here(r) = a
    BY <1>1, <1>2, <2>7, <2>8 DEF Here
  <2>10. IsThere(r)
    BY <1>1, <1>3, <2>1, <2>2, <2>7, <2>8, <2>9 DEF IsThere
  <2>11. IsAsked(r) /\ Located(r.view) = r.view
    BY <2>7, <2>8 DEF IsAsked, TabIsRight
  <2>12. ASSUME NEW j \in DOMAIN t.hist, t.hist[j].addr.page = "hub"
         PROVE  /\ t.hist[j].mark # NoMark /\ t.hist[j].mark # t.reading /\ j # i
                /\ \A n \in DOMAIN t.hist : t.hist[n].mark = t.hist[j].mark => n = j
                /\ t.hist[j].left = Restored(t, t.hist[j].mark)
    <3>1. /\ t.hist[j].mark # NoMark /\ (t.hist[j].mark = t.reading => j = t.at)
          /\ \A n \in DOMAIN t.hist : t.hist[n].mark = t.hist[j].mark => n = j
          /\ t.hist[j].left = Restored(t, t.hist[j].mark)
      BY <2>12 DEF TabIsRight, IsMarked
    <3>2. j # t.at
      BY <2>1, <2>2, <2>12 DEF Here
    <3>3. j # i
      BY <1>2, <2>1, <2>12
    <3> QED BY <3>1, <3>2, <3>3
  <2>13. \A m : Restored(r, m) = Restored(t, m)
    BY <2>8 DEF Restored
  <2>14. IsMarked(r)
    BY <2>2, <2>6, <2>7, <2>8, <2>12, <2>13 DEF IsMarked
  <2> QED BY <1>2, <2>2, <2>4, <2>8, <2>9, <2>10, <2>11, <2>14 DEF TabIsRight
<1>5. CASE ~InPage(t.location, a)
  <2>1. PICK s : s = IF t.place.page = "hub" THEN Saved(t) ELSE t
    OBVIOUS
  <2>2. /\ TabIsRight(s) /\ s \in Tabs
        /\ Len(s.hist) = Len(t.hist) /\ s.hist[i] = t.hist[i]
        /\ \A j \in DOMAIN t.hist : s.hist[j].mark = t.hist[j].mark
        /\ DOMAIN s.hist = DOMAIN t.hist
    <3>1. CASE t.place.page = "hub"
      <4>1. /\ TabIsRight(s) /\ Len(s.hist) = Len(t.hist) /\ s.hist[i] = t.hist[i]
            /\ \A j \in DOMAIN t.hist : s.hist[j].mark = t.hist[j].mark
        BY <2>1, <3>1, SavedKeeps
      <4>2. s \in Tabs /\ DOMAIN s.hist = 1..Len(s.hist)
        BY <4>1 DEF TabIsRight, Tabs
      <4> QED BY <1>1, <4>1, <4>2
    <3>2. CASE t.place.page # "hub"
      BY <1>1, <2>1, <3>2
    <3> QED BY <3>1, <3>2
  <2>3. PICK mark : mark = IF t.hist[i].mark = NoMark THEN NewMark(t.hist, i) ELSE t.hist[i].mark
    OBVIOUS
  <2>4. /\ mark \in Nat \ {NoMark}
        /\ \/ s.hist[i].mark = mark
           \/ s.hist[i].mark = NoMark /\ \A j \in DOMAIN s.hist : s.hist[j].mark # mark
    BY <1>1, <2>2, <2>3, ThereIsAFreeMark DEF Entries
  <2>5. PICK y : y = IF a.page = "hub" THEN Restored(s, mark) ELSE s.libraryY
    OBVIOUS
  <2>6. y \in Nat
    BY <2>2, <2>5, ARememberedPosition DEF Tabs
  <2>7. Sync(t, i) = Moved(s, i, mark, y)
    <3>1. s.hist[i].addr = a
      BY <1>2, <2>2
    <3> QED BY <1>2, <1>5, <2>1, <2>3, <2>5, <3>1 DEF Sync, Moved
  <2>8. TabIsRight(Sync(t, i))
    BY <1>1, <2>2, <2>4, <2>6, <2>7, MovedKeeps
  <2>9. /\ Sync(t, i).at = i /\ Sync(t, i).place = PlaceOf(a)
        /\ Sync(t, i).scroll = (IF a.page = "hub" THEN y ELSE 0)
        /\ Sync(t, i).hist = [s.hist EXCEPT ![i] = [s.hist[i] EXCEPT !.mark = mark]]
    BY <1>1, <1>2, <2>2, <2>4, <2>6, <2>7, MovedIsATab, SMTT(60)
  <2>10. Here(Sync(t, i)) = a
    BY <1>1, <1>2, <2>2, <2>9 DEF Here, Entries
  <2>11. a.page = "hub" => y = t.hist[i].left
    <3> SUFFICES ASSUME a.page = "hub" PROVE y = t.hist[i].left
      OBVIOUS
    <3>1. s.hist[i].mark # NoMark /\ s.hist[i].left = Restored(s, s.hist[i].mark)
      BY <1>1, <1>2, <2>2 DEF TabIsRight, IsMarked
    <3> QED BY <2>2, <2>4, <2>5, <3>1, <2>3
  <2> QED BY <1>2, <1>3, <2>8, <2>9, <2>10, <2>11
<1> QED BY <1>4, <1>5

\* The page opens the entry at of a history of its own.
Opened(s, hist, at, mark, known, y, v) ==
    Scrolled([s EXCEPT
        !.hist = hist, !.at = at, !.reading = mark,
        !.positions = Restrict(@, known \cap DOMAIN @),
        !.libraryY = y, !.view = v,
        !.place = PlaceOf(hist[at].addr), !.location = hist[at].addr])

\* An entry with a mark of its own, among entries of before.
IsNewEntry(s, hist, at, mark, known) ==
    /\ hist[at].mark = mark /\ hist[at].left = 0
    /\ hist[at].addr.page = "login" => hist[at].asked = Destination(hist[at].addr.to)
    /\ mark \notin known
    /\ \A j \in DOMAIN hist : j # at => /\ j \in DOMAIN s.hist /\ hist[j] = s.hist[j]
                                        /\ hist[j].mark \in known /\ hist[j].mark # mark

IsOpened(r, s, hist, at, mark, known, v) ==
    /\ r \in Tabs /\ r.hist = hist /\ r.at = at /\ r.reading = mark /\ r.view = v
    /\ r.place = PlaceOf(hist[at].addr) /\ r.location = hist[at].addr
    /\ r.positions = Restrict(s.positions, known \cap DOMAIN s.positions)

\* What the page then shows, and what it forgets.
LEMMA OpenedIsATab ==
    ASSUME NEW s \in Tabs, NEW hist \in Seq(Entries), NEW at \in 1..Len(hist), NEW mark \in Nat,
           NEW known \in SUBSET Nat, NEW y \in Nat, NEW v \in Views
    PROVE  IsOpened(Opened(s, hist, at, mark, known, y, v), s, hist, at, mark, known, v)
<1> DEFINE a == hist[at].addr
           p == Restrict(s.positions, known \cap DOMAIN s.positions)
           q == [s EXCEPT !.hist = hist, !.at = at, !.reading = mark, !.positions = p,
                          !.libraryY = y, !.view = v, !.place = PlaceOf(a), !.location = a]
           y0 == IF PlaceOf(a).page = "hub" THEN y ELSE 0
<1>1. hist[at] \in Entries
  OBVIOUS
<1>2. a \in Places /\ PlaceOf(a) \in Routes /\ at \in Nat /\ y0 \in Nat
  BY <1>1, PlacesAreNamed DEF Entries, IsNamed
<1>3. p \in Memories
  <2>1. PICK M \in SUBSET Nat : s.positions \in [M -> Nat]
    BY DEF Tabs, Memories
  <2>2. p \in [known \cap M -> Nat]
    BY <2>1 DEF Restrict
  <2> HIDE DEF p
  <2> QED BY <2>2 DEF Memories
<1>4. Opened(s, hist, at, mark, known, y, v) = [q EXCEPT !.scroll = y0]
  <2>1. Opened(s, hist, at, mark, known, y, v) = Scrolled(q)
    BY DEF Opened, Tabs
  <2>2. q.place = PlaceOf(a) /\ q.libraryY = y
    BY DEF Tabs
  <2> HIDE DEF q
  <2> QED BY <2>1, <2>2 DEF Scrolled
<1> HIDE DEF a, p, y0
<1>5. q \in Tabs
  BY <1>2, <1>3 DEF Tabs
<1>6. /\ q.hist = hist /\ q.at = at /\ q.place = PlaceOf(a) /\ q.view = v
      /\ q.reading = mark /\ q.location = a /\ q.positions = p
  BY DEF Tabs
<1> HIDE DEF q
<1>7. Opened(s, hist, at, mark, known, y, v) \in Tabs
  BY <1>2, <1>4, <1>5 DEF Tabs
<1>8. PICK r : r = Opened(s, hist, at, mark, known, y, v)
  OBVIOUS
<1>9. /\ r.hist = hist /\ r.at = at /\ r.place = PlaceOf(a) /\ r.view = v
      /\ r.reading = mark /\ r.location = a /\ r.positions = p
  BY <1>4, <1>5, <1>6, <1>8 DEF Tabs
<1> QED BY <1>7, <1>8, <1>9 DEF IsOpened, a, p

\* A page that opens an entry with a mark of its own is right.
LEMMA OpenedKeeps ==
    ASSUME NEW s, TabIsRight(s), NEW hist \in Seq(Entries), Len(hist) <= MaxEntries,
           NEW at \in 1..Len(hist), NEW mark \in Nat \ {NoMark}, NEW known \in SUBSET Nat,
           NEW y \in Nat, NEW v \in Views, Located(v) = v,
           hist[at].addr.page = "hub" => v = Located(hist[at].addr.view),
           IsNewEntry(s, hist, at, mark, known)
    PROVE  TabIsRight(Opened(s, hist, at, mark, known, y, v))
<1>1. s \in Tabs /\ DOMAIN hist = 1..Len(hist) /\ hist[at] \in Entries /\ mark \in Nat
  BY DEF TabIsRight
<1>2. PICK r : r = Opened(s, hist, at, mark, known, y, v)
  OBVIOUS
<1>3. /\ r \in Tabs /\ r.hist = hist /\ r.at = at /\ r.reading = mark /\ r.view = v
      /\ r.place = PlaceOf(hist[at].addr) /\ r.location = hist[at].addr
      /\ r.positions = Restrict(s.positions, known \cap DOMAIN s.positions)
  <2>1. s \in Tabs /\ mark \in Nat
    BY <1>1
  <2>2. IsOpened(Opened(s, hist, at, mark, known, y, v), s, hist, at, mark, known, v)
    BY <2>1, OpenedIsATab
  <2> QED BY <1>2, <2>2 DEF IsOpened
<1>4. IsThere(r)
  BY <1>1, <1>3 DEF IsThere, Here, PlaceOf
<1>5. IsAsked(r)
  BY <1>1, <1>3 DEF IsAsked, IsNewEntry, TabIsRight
<1>6. IsMarked(r)
  <2>1. \A m : Restored(r, m) = IF m \in known THEN Restored(s, m) ELSE 0
    BY <1>3 DEF Restored, Restrict
  <2>2. ASSUME NEW j \in DOMAIN r.hist, r.hist[j].addr.page = "hub"
        PROVE  /\ r.hist[j].mark # NoMark
               /\ \A n \in DOMAIN r.hist : r.hist[n].mark = r.hist[j].mark => n = j
               /\ r.hist[j].mark = r.reading => j = r.at
               /\ r.hist[j].left = Restored(r, r.hist[j].mark)
    <3>1. CASE j = at
      <4>1. r.hist[j].mark = mark /\ r.hist[j].left = 0 /\ mark \notin known
            /\ \A n \in DOMAIN hist : n # at => hist[n].mark # mark
        BY <1>3, <3>1 DEF IsNewEntry
      <4> QED BY <1>3, <2>1, <3>1, <4>1
    <3>2. CASE j # at
      <4>1. /\ j \in DOMAIN s.hist /\ hist[j] = s.hist[j] /\ hist[j].mark \in known
            /\ hist[j].mark # mark
        BY <1>3, <2>2, <3>2 DEF IsNewEntry
      <4>2. /\ s.hist[j].mark # NoMark
            /\ \A n \in DOMAIN s.hist : s.hist[n].mark = s.hist[j].mark => n = j
            /\ s.hist[j].left = Restored(s, s.hist[j].mark)
        BY <1>3, <2>2, <4>1 DEF TabIsRight, IsMarked
      <4>3. \A n \in DOMAIN hist : hist[n].mark = hist[j].mark => n = j
        BY <3>2, <4>1, <4>2 DEF IsNewEntry
      <4> QED BY <1>3, <2>1, <3>2, <4>1, <4>2, <4>3
    <3> QED BY <3>1, <3>2
  <2>3. r.hist[r.at].mark = r.reading
    BY <1>3 DEF IsNewEntry
  <2> QED BY <1>3, <2>2, <2>3 DEF IsMarked
<1> QED BY <1>2, <1>3, <1>4, <1>5, <1>6 DEF TabIsRight

\* A history without its n-th entry has the others.
Without(hist, n) == SubSeq(hist, 1, n - 1) \o SubSeq(hist, n + 1, Len(hist))

\* Every other entry stays.
LEMMA HistoryShrinks ==
    ASSUME NEW hist \in Seq(Entries), NEW n \in 1..Len(hist)
    PROVE  /\ Without(hist, n) \in Seq(Entries) /\ Len(Without(hist, n)) = Len(hist) - 1
           /\ \A j \in DOMAIN hist :
                 j # n => \E k \in DOMAIN Without(hist, n) : Without(hist, n)[k] = hist[j]
<1> DEFINE s == SubSeq(hist, 1, n - 1)
           r == SubSeq(hist, n + 1, Len(hist))
<1>0. Len(hist) \in Nat /\ n \in Nat /\ n <= Len(hist) /\ n > 0
      /\ \A i \in 1..Len(hist) : hist[i] \in Entries
  BY LenProperties
<1>1. s \in Seq(Entries) /\ Len(s) = n - 1 /\ \A i \in 1..n - 1 : s[i] = hist[i]
  <2>1. \A i \in 1..n - 1 : hist[i] \in Entries
    BY <1>0
  <2>2. /\ s \in Seq(Entries)
        /\ Len(s) = IF 1 <= n - 1 THEN n - 1 - 1 + 1 ELSE 0
        /\ \A i \in 1..n - 1 - 1 + 1 : s[i] = hist[1 + i - 1]
    BY <1>0, <2>1, SubSeqProperties
  <2> QED BY <1>0, <2>2
<1>2. /\ r \in Seq(Entries) /\ Len(r) = Len(hist) - n
      /\ \A i \in 1..Len(hist) - n : r[i] = hist[n + i]
  <2>1. \A i \in n + 1..Len(hist) : hist[i] \in Entries
    BY <1>0
  <2>2. /\ r \in Seq(Entries)
        /\ Len(r) = IF n + 1 <= Len(hist) THEN Len(hist) - (n + 1) + 1 ELSE 0
        /\ \A i \in 1..Len(hist) - (n + 1) + 1 : r[i] = hist[n + 1 + i - 1]
    BY <1>0, <2>1, SubSeqProperties
  <2> QED BY <1>0, <2>2
<1> HIDE DEF s, r
<1>3. /\ s \o r \in Seq(Entries) /\ Len(s \o r) = Len(hist) - 1
      /\ \A i \in 1..Len(hist) - 1 : (s \o r)[i] = IF i <= n - 1 THEN s[i] ELSE r[i - (n - 1)]
  <2>1. /\ s \o r \in Seq(Entries) /\ Len(s \o r) = Len(s) + Len(r)
        /\ \A i \in 1..Len(s) + Len(r) :
              (s \o r)[i] = IF i <= Len(s) THEN s[i] ELSE r[i - Len(s)]
    BY <1>1, <1>2, ConcatProperties, Zenon
  <2>2. Len(s) = n - 1 /\ Len(s) + Len(r) = Len(hist) - 1
    BY <1>0, <1>1, <1>2
  <2> QED BY <2>1, <2>2
<1>4. PICK w : w = s \o r
  OBVIOUS
<1>5. /\ w \in Seq(Entries) /\ Len(w) = Len(hist) - 1 /\ DOMAIN w = 1..Len(w)
       /\ \A i \in 1..Len(hist) - 1 : w[i] = IF i <= n - 1 THEN s[i] ELSE r[i - (n - 1)]
  BY <1>3, <1>4, LenProperties
<1>6. ASSUME NEW j \in DOMAIN hist, j # n PROVE \E k \in DOMAIN w : w[k] = hist[j]
  <2>1. DOMAIN w = 1..Len(hist) - 1 /\ j \in 1..Len(hist)
    BY <1>0, <1>5, <1>6, LenProperties
  <2>2. CASE j < n
    <3>1. j \in 1..n - 1 /\ j \in 1..Len(hist) - 1
      BY <1>0, <2>1, <2>2
    <3>2. w[j] = hist[j]
      BY <1>1, <1>5, <3>1
    <3> QED BY <2>1, <3>1, <3>2
  <2>3. CASE j > n
    <3>1. j - 1 \in 1..Len(hist) - 1 /\ ~(j - 1 <= n - 1) /\ j - 1 - (n - 1) = j - n
          /\ j - n \in 1..Len(hist) - n /\ n + (j - n) = j
      BY <1>0, <2>1, <2>3
    <3>2. w[j - 1] = r[j - 1 - (n - 1)]
      BY <1>5, <3>1
    <3>3. w[j - 1] = hist[j]
      BY <1>2, <3>1, <3>2
    <3> QED BY <2>1, <3>1, <3>3
  <2>4. j < n \/ j > n
    BY <1>0, <1>6, <2>1
  <2> QED BY <2>2, <2>3, <2>4
<1>7. w = Without(hist, n)
  BY <1>4 DEF Without, s, r
<1> QED BY <1>5, <1>6, <1>7

\* Where goTo leaves from.
Left(t) == IF t.place.page = "hub" THEN [Saved(t) EXCEPT !.libraryY = t.scroll] ELSE t

\* A page that is about to leave is still right, where it is.
LEMMA LeftKeeps ==
    ASSUME NEW t, TabIsRight(t)
    PROVE  /\ TabIsRight(Left(t)) /\ Left(t).view = t.view /\ Left(t).at = t.at
           /\ Left(t).hist \in Seq(Entries) /\ Len(Left(t).hist) = Len(t.hist)
           /\ Left(t).libraryY \in Nat
           /\ t.place.page # "hub" => Left(t) = t
<1>1. t \in Tabs /\ t.scroll \in Nat
  BY DEF TabIsRight, Tabs
<1>2. CASE t.place.page # "hub"
  BY <1>1, <1>2 DEF Left, Tabs
<1>3. CASE t.place.page = "hub"
  <2>1. PICK s : s = Saved(t)
    OBVIOUS
  <2>2. TabIsRight(s) /\ s.at = t.at /\ s.view = t.view /\ Len(s.hist) = Len(t.hist)
        /\ s \in Tabs /\ s.hist \in Seq(Entries)
    BY <1>3, <2>1, SavedKeeps DEF TabIsRight, Tabs
  <2>3. PICK r : r = [s EXCEPT !.libraryY = t.scroll]
    OBVIOUS
  <2>4. /\ r \in Tabs /\ r.hist = s.hist /\ r.at = s.at /\ r.place = s.place /\ r.view = s.view
        /\ r.reading = s.reading /\ r.location = s.location /\ r.positions = s.positions
        /\ r.libraryY = t.scroll
    BY <1>1, <2>2, <2>3 DEF Tabs
  <2>5. TabIsRight(r)
    <3>1. \A m : Restored(r, m) = Restored(s, m)
      BY <2>4 DEF Restored
    <3>2. Here(r) = Here(s)
      BY <2>4 DEF Here
    <3>3. IsThere(r) /\ IsAsked(r) /\ Located(r.view) = r.view
      BY <2>2, <2>4, <3>2 DEF TabIsRight, IsThere, IsAsked
    <3>4. IsMarked(r)
      BY <2>2, <2>4, <3>1 DEF TabIsRight, IsMarked
    <3> QED BY <2>4, <3>3, <3>4 DEF TabIsRight
  <2>6. r = Left(t)
    BY <1>3, <2>1, <2>3 DEF Left
  <2> QED BY <1>1, <1>3, <2>2, <2>4, <2>5, <2>6
<1> QED BY <1>2, <1>3

\* The link to the library leads to the view it had.
LEMMA KeptIsAPlace ==
    ASSUME NEW t, t.view \in Views, NEW a \in Places
    PROVE  /\ Kept(t, a) \in Places
           /\ a = Library(DefaultView) => Kept(t, a) = Library(t.view)
           /\ a # Library(DefaultView) => Kept(t, a) = a
  BY DEF Kept, Places, Addresses

\* A new entry has the marks of no other.
LEMMA ANewMark ==
    ASSUME NEW w \in Seq(Entries), Len(w) <= MaxEntries, NEW at
    PROVE  /\ NewMark(w, at) \in Nat \ {NoMark} /\ NewMark(w, at) \notin MarksOf(w)
           /\ MarksOf(w) \in SUBSET Nat
<1>1. NewMark(w, at) \in Nat \ {NoMark} /\ NewMark(w, at) \notin MarksOf(w)
  BY ThereIsAFreeMark DEF MarksOf
<1>2. \A k \in DOMAIN w : w[k] \in Entries
  OBVIOUS
<1>3. MarksOf(w) \in SUBSET Nat
  BY <1>2 DEF MarksOf, Entries
<1> QED BY <1>1, <1>3

\* goTo, once it has left the page.
GoesTo(s, a, asks, at, kept, after) ==
    LET plain == a = Library(DefaultView)
        addr  == Kept(s, a)
        mark  == NewMark(kept \o after, at)
    IN  Scrolled([s EXCEPT
            !.hist = kept \o <<Entry(addr, mark, asks)>> \o after,
            !.at = at,
            !.reading = mark,
            !.positions = Restrict(@, MarksOf(kept \o after) \cap DOMAIN @),
            !.libraryY = IF a.page = "hub" /\ ~plain /\ a # Library(s.view) THEN 0 ELSE @,
            !.view = IF a.page = "hub" /\ ~plain THEN Located(a.view) ELSE @,
            !.place = PlaceOf(addr),
            !.location = addr])

\* A link adds an entry, a redirect replaces the one it is at.
LEMMA GoToGoes ==
    ASSUME NEW t, NEW a, NEW asks
    PROVE  /\ GoTo(t, a, asks, FALSE)
                  = GoesTo(Left(t), a, asks, Left(t).at + 1,
                           SubSeq(Left(t).hist, 1, (Left(t).at + 1) - 1), <<>>)
           /\ GoTo(t, a, asks, TRUE)
                  = GoesTo(Left(t), a, asks, Left(t).at, SubSeq(Left(t).hist, 1, Left(t).at - 1),
                           SubSeq(Left(t).hist, Left(t).at + 1, Len(Left(t).hist)))
<1>1. GoTo(t, a, asks, FALSE)
        = GoesTo(Left(t), a, asks, Left(t).at + 1, SubSeq(Left(t).hist, 1, (Left(t).at + 1) - 1),
                 <<>>)
  BY ZenonT(60) DEF GoTo, GoesTo, Left
<1>2. GoTo(t, a, asks, TRUE)
        = GoesTo(Left(t), a, asks, Left(t).at, SubSeq(Left(t).hist, 1, Left(t).at - 1),
                 SubSeq(Left(t).hist, Left(t).at + 1, Len(Left(t).hist)))
  BY ZenonT(60) DEF GoTo, GoesTo, Left
<1> QED BY <1>1, <1>2

\* A link leads to a page of its own entry.
LEMMA VisitKeeps ==
    ASSUME NEW t, TabIsRight(t), t.at < MaxEntries, NEW a \in Places
    PROVE  TabIsRight(GoTo(t, a, For(a), FALSE))
<1>1. PICK s : s = Left(t)
  OBVIOUS
<1>2. /\ TabIsRight(s) /\ s.view = t.view /\ s.at = t.at /\ s.hist \in Seq(Entries)
      /\ Len(s.hist) = Len(t.hist) /\ s.libraryY \in Nat /\ s.view \in Views
      /\ Located(s.view) = s.view /\ s.at \in 1..Len(s.hist) /\ Len(s.hist) \in Nat
      /\ MaxEntries \in Nat /\ DOMAIN s.hist = 1..Len(s.hist)
  <2>1. /\ TabIsRight(s) /\ s.view = t.view /\ s.at = t.at /\ s.hist \in Seq(Entries)
        /\ Len(s.hist) = Len(t.hist) /\ s.libraryY \in Nat
    BY <1>1, LeftKeeps, Zenon
  <2>2. s \in Tabs /\ Located(s.view) = s.view /\ s.at \in 1..Len(s.hist)
    BY <2>1, Zenon DEF TabIsRight, IsThere
  <2>3. s.view \in Views
    BY <2>2 DEF Tabs
  <2>4. Len(s.hist) \in Nat /\ DOMAIN s.hist = 1..Len(s.hist)
    BY <2>1, LenProperties, Zenon
  <2>5. MaxEntries \in Nat
    BY InstanceAssumption DEF SiteAssumption
  <2> QED BY <2>1, <2>2, <2>3, <2>4, <2>5, Zenon
<1>3. PICK addr : addr = Kept(s, a)
  OBVIOUS
<1>4. PICK w : w = SubSeq(s.hist, 1, s.at)
  OBVIOUS
<1>5. PICK mark : mark = NewMark(w, s.at + 1)
  OBVIOUS
<1>6. PICK e : e = Entry(addr, mark, For(a))
  OBVIOUS
<1>7. /\ w \in Seq(Entries) /\ Len(w) = s.at /\ DOMAIN w = 1..s.at
      /\ \A i \in 1..s.at : w[i] = s.hist[i]
  <2>1. \A i \in 1..s.at : s.hist[i] \in Entries
    BY <1>2
  <2>2. w \in Seq(Entries) /\ Len(w) = s.at
    BY <1>2, <1>4, <2>1, SubSeqProperties
  <2>3. \A i \in 1..s.at : w[i] = s.hist[i]
    BY <1>2, <1>4, <2>1, SubSeqProperties
  <2> QED BY <2>2, <2>3, LenProperties
<1>8. mark \in Nat \ {NoMark} /\ mark \notin MarksOf(w) /\ MarksOf(w) \in SUBSET Nat
  <2>1. Len(w) <= MaxEntries
    BY <1>2, <1>7
  <2> QED BY <1>5, <1>7, <2>1, ANewMark
<1>9. addr \in Places /\ IsNamed(addr)
      /\ (a = Library(DefaultView) => addr = Library(s.view))
      /\ (a # Library(DefaultView) => addr = a)
  BY <1>2, <1>3, KeptIsAPlace, PlacesAreNamed
<1>10. e \in Entries /\ e.addr = addr /\ e.mark = mark /\ e.left = 0 /\ e.asked = For(a)
  BY <1>6, <1>8, <1>9, ForIsAPlace DEF Entry, Entries
<1>11. PICK hist : hist = w \o <<e>>
  OBVIOUS
<1>12. /\ hist \in Seq(Entries) /\ Len(hist) = s.at + 1 /\ hist[s.at + 1] = e
       /\ DOMAIN hist = 1..s.at + 1 /\ \A i \in 1..s.at : hist[i] = s.hist[i]
  <2>1. s.at \in 0..Len(s.hist)
    BY <1>2
  <2>3. hist = SubSeq(s.hist, 1, s.at) \o <<e>>
    BY <1>4, <1>11, Zenon
  <2>4. /\ SubSeq(s.hist, 1, s.at) \o <<e>> \in Seq(Entries)
        /\ Len(SubSeq(s.hist, 1, s.at) \o <<e>>) = s.at + 1
        /\ \A i \in 1..s.at : (SubSeq(s.hist, 1, s.at) \o <<e>>)[i] = s.hist[i]
        /\ (SubSeq(s.hist, 1, s.at) \o <<e>>)[s.at + 1] = e
    BY <1>2, <1>10, <2>1, HistoryGrows, Zenon
  <2>2. /\ hist \in Seq(Entries) /\ Len(hist) = s.at + 1 /\ hist[s.at + 1] = e
        /\ \A i \in 1..s.at : hist[i] = s.hist[i]
    BY <2>3, <2>4, Zenon
  <2> QED BY <2>2, LenProperties
<1>13. PICK y : y = IF a.page = "hub" /\ a # Library(DefaultView) /\ a # Library(s.view)
                    THEN 0 ELSE s.libraryY
  OBVIOUS
<1>14. PICK v : v = IF a.page = "hub" /\ a # Library(DefaultView) THEN Located(a.view)
                    ELSE s.view
  OBVIOUS
<1>15. GoTo(t, a, For(a), FALSE) = Opened(s, hist, s.at + 1, mark, MarksOf(w), y, v)
  <2>1. w \o <<>> = w /\ hist \o <<>> = hist
    BY <1>7, <1>12, ConcatEmptySeq
  <2>2. (s.at + 1) - 1 = s.at
    BY <1>2
  <2>3. hist[s.at + 1].addr = addr
    BY <1>10, <1>12
  <2>4. GoTo(t, a, For(a), FALSE) = GoesTo(s, a, For(a), s.at + 1, SubSeq(s.hist, 1, (s.at + 1) - 1), <<>>)
    BY <1>1, GoToGoes, Zenon
  <2>5. GoTo(t, a, For(a), FALSE) = GoesTo(s, a, For(a), s.at + 1, w, <<>>)
    BY <1>4, <2>2, <2>4
  <2>6. GoesTo(s, a, For(a), s.at + 1, w, <<>>)
          = Scrolled([s EXCEPT
                !.hist = hist, !.at = s.at + 1, !.reading = mark,
                !.positions = Restrict(s.positions, MarksOf(w) \cap DOMAIN s.positions),
                !.libraryY = y, !.view = v, !.place = PlaceOf(addr), !.location = addr])
    BY <1>3, <1>5, <1>6, <1>11, <1>13, <1>14, <2>1 DEF GoesTo
  <2> QED BY <2>3, <2>5, <2>6 DEF Opened
<1>16. v \in Views /\ Located(v) = v
  <2>1. a.view \in Views
    BY PlacesAreNamed DEF IsNamed
  <2> QED BY <1>2, <1>14, <2>1, ViewsAreOfALibrary
<1>17. addr.page = "hub" => v = Located(addr.view)
  <2>1. Library(s.view).view = s.view /\ Library(s.view).page = "hub"
    BY DEF Library, Address
  <2> QED BY <1>2, <1>9, <1>14, <2>1
<1>18. addr.page = "login" => For(a) = Destination(addr.to)
  <2>1. Library(s.view).page = "hub"
    BY DEF Library, Address
  <2> QED BY <1>9, <2>1 DEF For
<1>19. IsNewEntry(s, hist, s.at + 1, mark, MarksOf(w))
  <2>1. ASSUME NEW j \in DOMAIN hist, j # s.at + 1
        PROVE  /\ j \in DOMAIN s.hist /\ hist[j] = s.hist[j]
               /\ hist[j].mark \in MarksOf(w) /\ hist[j].mark # mark
    <3>1. j \in 1..s.at /\ j \in DOMAIN s.hist /\ j \in DOMAIN w
      BY <1>2, <1>7, <1>12, <2>1
    <3>2. hist[j] = s.hist[j] /\ hist[j] = w[j]
      BY <1>7, <1>12, <3>1
    <3>3. hist[j].mark \in MarksOf(w)
      BY <3>1, <3>2 DEF MarksOf
    <3> QED BY <1>8, <3>1, <3>2, <3>3
  <2>2. /\ hist[s.at + 1].mark = mark /\ hist[s.at + 1].left = 0
        /\ hist[s.at + 1].addr.page = "login"
              => hist[s.at + 1].asked = Destination(hist[s.at + 1].addr.to)
    BY <1>10, <1>12, <1>18
  <2> QED BY <1>8, <2>1, <2>2 DEF IsNewEntry
<1>20. /\ y \in Nat /\ s.at + 1 \in 1..Len(hist) /\ Len(hist) <= MaxEntries
       /\ hist[s.at + 1].addr = addr
  BY <1>2, <1>10, <1>12, <1>13
<1>21. TabIsRight(Opened(s, hist, s.at + 1, mark, MarksOf(w), y, v))
  BY <1>2, <1>8, <1>12, <1>16, <1>17, <1>19, <1>20, OpenedKeeps
<1> QED BY <1>15, <1>21

\* Signed in, the page asked for takes the place of the sign-in.
LEMMA LeaveLoginKeeps ==
    ASSUME NEW t, TabIsRight(t), t.place.page = "login"
    PROVE  /\ TabIsRight(LeaveLogin(t)) /\ LeaveLogin(t).at = t.at
           /\ Here(LeaveLogin(t)) = Destination(Here(t).to)
           /\ LeaveLogin(t).place.page \in {"account", "preview"}
<1>1. /\ t \in Tabs /\ t.hist \in Seq(Entries) /\ t.at \in 1..Len(t.hist)
      /\ DOMAIN t.hist = 1..Len(t.hist) /\ t.hist[t.at] \in Entries
      /\ t.place = PlaceOf(Here(t)) /\ t.location.page = "login"
  <2>1. /\ t \in Tabs /\ t.hist \in Seq(Entries) /\ t.at \in 1..Len(t.hist)
        /\ DOMAIN t.hist = 1..Len(t.hist)
        /\ t.place = PlaceOf(Here(t)) /\ (t.location.page # "login" => t.location = Here(t))
    BY DEF TabIsRight, IsThere, Tabs
  <2>2. Here(t).page = "login"
    BY <2>1 DEF PlaceOf
  <2> QED BY <2>1, <2>2
<1>2. PICK a : a = Destination(t.place.to)
  OBVIOUS
<1>3. /\ a \in Places /\ IsNamed(a) /\ For(a) \in Places /\ PlaceOf(a) \in Routes
      /\ PlaceOf(a).page = a.page /\ a.page \in {"account", "preview"}
      /\ t.place.to = Here(t).to
  <2>1. t.place \in Routes
    BY <1>1 DEF Tabs
  <2>2. t.place.to \in Sections \cup Selections
    BY <2>1 DEF Routes
  <2>3. a \in Places /\ a.page \in {"account", "preview"}
    BY <1>2, <2>2, ADestinationIsAPlace
  <2>4. IsNamed(a) /\ For(a) \in Places
    BY <2>3, PlacesAreNamed, ForIsAPlace
  <2> QED BY <1>1, <2>3, <2>4 DEF IsNamed, PlaceOf
<1>4. PICK e : e = Entry(a, NoMark, For(a))
  OBVIOUS
<1>5. e \in Entries /\ e.addr = a /\ e.mark = NoMark
  BY <1>3, <1>4 DEF Entry, Entries, NoMark
<1>6. PICK h : h = [t.hist EXCEPT ![t.at] = e]
  OBVIOUS
<1>7. /\ h \in Seq(Entries) /\ Len(h) = Len(t.hist) /\ DOMAIN h = DOMAIN t.hist
      /\ h[t.at] = e /\ \A j \in DOMAIN t.hist : j # t.at => h[j] = t.hist[j]
  BY <1>1, <1>5, <1>6
<1>8. PICK q : q = [t EXCEPT !.hist = h, !.place = PlaceOf(a)]
  OBVIOUS
<1>9. PICK r : r = LeaveLogin(t)
  OBVIOUS
<1>10. r = [q EXCEPT !.scroll = 0]
  <2>1. LeaveLogin(t) = Scrolled(q)
    BY <1>1, <1>2, <1>4, <1>6, <1>8 DEF LeaveLogin
  <2>2. q.place = PlaceOf(a)
    BY <1>1, <1>8 DEF Tabs
  <2> QED BY <1>3, <1>9, <2>1, <2>2 DEF Scrolled
<1>11. /\ q \in Tabs /\ q.hist = h /\ q.at = t.at /\ q.place = PlaceOf(a) /\ q.view = t.view
       /\ q.reading = t.reading /\ q.location = t.location /\ q.positions = t.positions
  BY <1>1, <1>3, <1>7, <1>8 DEF Tabs
<1>12. /\ r \in Tabs /\ r.hist = h /\ r.at = t.at /\ r.place = PlaceOf(a) /\ r.view = t.view
       /\ r.reading = t.reading /\ r.location = t.location /\ r.positions = t.positions
  BY <1>10, <1>11 DEF Tabs
<1>13. Here(r) = a
  BY <1>5, <1>7, <1>12 DEF Here
<1>14. IsThere(r)
  BY <1>1, <1>3, <1>7, <1>12, <1>13 DEF IsThere, TabIsRight
<1>15. IsAsked(r)
  BY <1>1, <1>3, <1>5, <1>7, <1>12 DEF IsAsked, TabIsRight
<1>16. IsMarked(r)
  <2>1. \A m : Restored(r, m) = Restored(t, m)
    BY <1>12 DEF Restored
  <2>2. ASSUME NEW j \in DOMAIN r.hist, r.hist[j].addr.page = "hub"
        PROVE  /\ r.hist[j].mark # NoMark
               /\ \A n \in DOMAIN r.hist : r.hist[n].mark = r.hist[j].mark => n = j
               /\ r.hist[j].mark = r.reading => j = r.at
               /\ r.hist[j].left = Restored(r, r.hist[j].mark)
    <3>1. j # t.at /\ j \in DOMAIN t.hist /\ h[j] = t.hist[j]
      BY <1>3, <1>5, <1>7, <1>12, <2>2
    <3>2. /\ t.hist[j].mark # NoMark
          /\ \A n \in DOMAIN t.hist : t.hist[n].mark = t.hist[j].mark => n = j
          /\ t.hist[j].mark = t.reading => j = t.at
          /\ t.hist[j].left = Restored(t, t.hist[j].mark)
      BY <1>12, <2>2, <3>1 DEF TabIsRight, IsMarked
    <3>3. \A n \in DOMAIN h : h[n].mark = h[j].mark => n = j
      BY <1>5, <1>7, <3>1, <3>2
    <3> QED BY <1>12, <2>1, <3>1, <3>2, <3>3
  <2>3. r.reading # NoMark /\ r.place.page # "hub"
    BY <1>3, <1>12 DEF TabIsRight, IsMarked
  <2> QED BY <2>2, <2>3 DEF IsMarked
<1>17. TabIsRight(r)
  BY <1>12, <1>14, <1>15, <1>16 DEF TabIsRight
<1> QED BY <1>2, <1>3, <1>9, <1>12, <1>13, <1>17

\* Signed out, the sign-in takes the place of the page of the account.
LEMMA AskToSignInKeeps ==
    ASSUME NEW t, TabIsRight(t), t.place.page = "account"
    PROVE  /\ TabIsRight(AskToSignIn(t)) /\ AskToSignIn(t).at = t.at
           /\ AskToSignIn(t).place.page = "login"
<1>1. /\ t \in Tabs /\ t.hist \in Seq(Entries) /\ t.at \in 1..Len(t.hist)
      /\ DOMAIN t.hist = 1..Len(t.hist) /\ t.hist[t.at] \in Entries
      /\ t.place = PlaceOf(Here(t)) /\ Len(t.hist) <= MaxEntries
      /\ t.view \in Views /\ Located(t.view) = t.view /\ t.libraryY \in Nat
      /\ Here(t) \in Places /\ Len(t.hist) \in Nat /\ MaxEntries \in Nat
  <2>1. /\ t \in Tabs /\ t.hist \in Seq(Entries) /\ t.at \in 1..Len(t.hist)
        /\ DOMAIN t.hist = 1..Len(t.hist)
        /\ t.place = PlaceOf(Here(t)) /\ Len(t.hist) <= MaxEntries
        /\ t.view \in Views /\ Located(t.view) = t.view /\ t.libraryY \in Nat
    BY DEF TabIsRight, IsThere, Tabs
  <2>2. t.hist[t.at] \in Entries
    BY <2>1
  <2>3. Here(t) \in Places
    BY <2>2 DEF Here, Entries
  <2> QED BY <2>1, <2>2, <2>3, InstanceAssumption DEF SiteAssumption
<1>2. PICK to : to = t.place.to
  OBVIOUS
<1>3. to \in Sections /\ Here(t) = AccountAt(to) /\ Destination(to) = Here(t)
  <2>1. IsNamed(Here(t)) /\ Here(t).page = "account" /\ Here(t).to = to
    BY <1>1, <1>2, PlacesAreNamed DEF PlaceOf
  <2> QED BY <2>1 DEF IsNamed, Destination
<1>4. PICK a : a = Login(to)
  OBVIOUS
<1>5. /\ a \in Places /\ IsNamed(a) /\ a.page = "login" /\ a.to = to
      /\ a # Library(DefaultView) /\ PlaceOf(a).page = "login" /\ Kept(t, a) = a
  <2>1. a \in Places
    BY <1>3, <1>4, ADestinationIsAPlace
  <2>2. a.page = "login" /\ a.to = to /\ Library(DefaultView).page = "hub"
    BY <1>4 DEF Login, Library, Address
  <2>3. a # Library(DefaultView)
    BY <2>2
  <2> QED BY <2>1, <2>2, <2>3, PlacesAreNamed DEF PlaceOf, Kept
<1>6. PICK w : w = Without(t.hist, t.at)
  OBVIOUS
<1>7. /\ w \in Seq(Entries) /\ Len(w) = Len(t.hist) - 1
      /\ \A j \in DOMAIN t.hist : j # t.at => \E k \in DOMAIN w : w[k] = t.hist[j]
  BY <1>1, <1>6, HistoryShrinks
<1>8. PICK mark : mark = NewMark(w, t.at)
  OBVIOUS
<1>9. mark \in Nat \ {NoMark} /\ mark \notin MarksOf(w) /\ MarksOf(w) \in SUBSET Nat
  <2>1. Len(w) <= MaxEntries
    BY <1>1, <1>7
  <2> QED BY <1>7, <1>8, <2>1, ANewMark
<1>10. PICK e : e = Entry(a, mark, Here(t))
  OBVIOUS
<1>11. e \in Entries /\ e.addr = a /\ e.mark = mark /\ e.left = 0 /\ e.asked = Here(t)
  BY <1>1, <1>5, <1>9, <1>10 DEF Entry, Entries
<1>12. PICK hist : hist = [t.hist EXCEPT ![t.at] = e]
  OBVIOUS
<1>13. /\ hist \in Seq(Entries) /\ Len(hist) = Len(t.hist) /\ DOMAIN hist = DOMAIN t.hist
       /\ hist[t.at] = e /\ \A j \in DOMAIN t.hist : j # t.at => hist[j] = t.hist[j]
  BY <1>1, <1>11, <1>12
<1>14. SubSeq(t.hist, 1, t.at - 1) \o <<e>> \o SubSeq(t.hist, t.at + 1, Len(t.hist)) = hist
  <2>1. SubSeq(t.hist, 1, t.at - 1) \o <<e>> \o SubSeq(t.hist, t.at + 1, Len(t.hist))
          = [t.hist EXCEPT ![t.at] = e]
    <3>1. t.hist \in Seq(Entries) /\ t.at \in 1..Len(t.hist) /\ e \in Entries
      BY <1>1, <1>11
    <3> QED BY <3>1, HistoryChanges, Zenon
  <2> QED BY <1>12, <2>1
<1>15. Left(t) = t
  BY LeftKeeps
<1>16. AskToSignIn(t) = Opened(t, hist, t.at, mark, MarksOf(w), t.libraryY, t.view)
  <2>1. AskToSignIn(t) = GoTo(t, a, Here(t), TRUE)
    BY <1>2, <1>4 DEF AskToSignIn
  <2>2. GoTo(t, a, Here(t), TRUE)
            = GoesTo(Left(t), a, Here(t), Left(t).at, SubSeq(Left(t).hist, 1, Left(t).at - 1),
                     SubSeq(Left(t).hist, Left(t).at + 1, Len(Left(t).hist)))
    BY GoToGoes, Zenon
  <2>3. PICK k : k = SubSeq(t.hist, 1, t.at - 1)
    OBVIOUS
  <2>4. PICK n : n = SubSeq(t.hist, t.at + 1, Len(t.hist))
    OBVIOUS
  <2>5. AskToSignIn(t) = GoesTo(t, a, Here(t), t.at, k, n)
    BY <1>15, <2>1, <2>2, <2>3, <2>4
  <2>6. k \o n = w /\ k \o <<e>> \o n = hist
    BY <1>6, <1>14, <2>3, <2>4 DEF Without
  <2>7. GoesTo(t, a, Here(t), t.at, k, n)
          = Scrolled([t EXCEPT
                !.hist = hist, !.at = t.at, !.reading = mark,
                !.positions = Restrict(t.positions, MarksOf(w) \cap DOMAIN t.positions),
                !.libraryY = t.libraryY, !.view = t.view, !.place = PlaceOf(a), !.location = a])
    BY <1>5, <1>8, <1>10, <2>6 DEF GoesTo
  <2>8. hist[t.at].addr = a
    BY <1>11, <1>13
  <2> QED BY <2>5, <2>7, <2>8 DEF Opened
<1>17. IsNewEntry(t, hist, t.at, mark, MarksOf(w))
  <2>1. ASSUME NEW j \in DOMAIN hist, j # t.at
        PROVE  /\ j \in DOMAIN t.hist /\ hist[j] = t.hist[j]
               /\ hist[j].mark \in MarksOf(w) /\ hist[j].mark # mark
    <3>1. j \in DOMAIN t.hist /\ hist[j] = t.hist[j]
      BY <1>13, <2>1
    <3>2. hist[j].mark \in MarksOf(w)
      BY <1>7, <2>1, <3>1 DEF MarksOf
    <3> QED BY <1>9, <3>1, <3>2
  <2>2. /\ hist[t.at].mark = mark /\ hist[t.at].left = 0
        /\ hist[t.at].addr.page = "login"
              => hist[t.at].asked = Destination(hist[t.at].addr.to)
    BY <1>3, <1>5, <1>11, <1>13
  <2> QED BY <1>9, <2>1, <2>2 DEF IsNewEntry
<1>18. hist[t.at].addr.page # "hub" /\ t.at \in 1..Len(hist) /\ Len(hist) <= MaxEntries
  BY <1>1, <1>5, <1>11, <1>13
<1>19. TabIsRight(AskToSignIn(t))
  BY <1>1, <1>9, <1>13, <1>16, <1>17, <1>18, OpenedKeeps
<1>20. AskToSignIn(t).at = t.at /\ AskToSignIn(t).place = PlaceOf(hist[t.at].addr)
  <2>1. mark \in Nat /\ t.at \in 1..Len(hist)
    BY <1>9, <1>18
  <2>2. IsOpened(Opened(t, hist, t.at, mark, MarksOf(w), t.libraryY, t.view),
                 t, hist, t.at, mark, MarksOf(w), t.view)
    BY <1>1, <1>9, <1>13, <2>1, OpenedIsATab
  <2> QED BY <1>16, <2>2 DEF IsOpened
<1> QED BY <1>5, <1>11, <1>13, <1>19, <1>20

\* What a history may be that a page is loaded at the i-th entry of.
IsLoadable(hist, i) ==
    /\ hist \in Seq(Entries) /\ Len(hist) <= MaxEntries /\ i \in 1..Len(hist)
    /\ \A j \in DOMAIN hist :
          /\ hist[j].addr.page = "login" => hist[j].asked = Destination(hist[j].addr.to)
          /\ hist[j].addr.page = "hub" =>
                /\ j # i => hist[j].mark # NoMark
                /\ hist[j].mark # NoMark =>
                      \A n \in DOMAIN hist : hist[n].mark = hist[j].mark => n = j

\* A page that is loaded has forgotten the positions, and so has its history.
LEMMA LoadedKeeps ==
    ASSUME NEW hist, NEW i, IsLoadable(hist, i)
    PROVE  TabIsRight(Loaded(hist, i))
<1>1. /\ hist \in Seq(Entries) /\ Len(hist) <= MaxEntries /\ i \in 1..Len(hist) /\ i \in Nat
      /\ DOMAIN hist = 1..Len(hist) /\ hist[i] \in Entries /\ Len(hist) \in Nat
      /\ \A j \in DOMAIN hist : hist[j] \in Entries
  BY DEF IsLoadable
<1>2. PICK mark : mark = IF hist[i].mark = NoMark THEN NewMark(hist, i) ELSE hist[i].mark
  OBVIOUS
<1>3. /\ mark \in Nat \ {NoMark}
      /\ hist[i].mark # NoMark => mark = hist[i].mark
      /\ hist[i].mark = NoMark => \A j \in DOMAIN hist : hist[j].mark # mark
  BY <1>1, <1>2, ThereIsAFreeMark DEF Entries
<1>4. PICK a : a = hist[i].addr
  OBVIOUS
<1>5. /\ a \in Places /\ PlaceOf(a) \in Routes /\ Located(a.view) \in Views
      /\ Located(Located(a.view)) = Located(a.view)
  <2>1. a \in Places
    BY <1>1, <1>4 DEF Entries
  <2>2. PlaceOf(a) \in Routes /\ a.view \in Views
    BY <2>1, PlacesAreNamed DEF IsNamed
  <2> QED BY <2>1, <2>2, ViewsAreOfALibrary
<1>6. PICK h : h = [j \in DOMAIN hist |->
                       [hist[j] EXCEPT !.left = 0, !.mark = IF j = i THEN mark ELSE @]]
  OBVIOUS
<1>7. \A j \in DOMAIN hist :
         /\ h[j] \in Entries /\ h[j].left = 0 /\ h[j].addr = hist[j].addr
         /\ h[j].asked = hist[j].asked /\ h[j].mark = IF j = i THEN mark ELSE hist[j].mark
  BY <1>1, <1>3, <1>6 DEF Entries
<1>8. h \in Seq(Entries) /\ Len(h) = Len(hist) /\ DOMAIN h = DOMAIN hist
  <2>1. h = [j \in 1..Len(hist) |-> h[j]]
    BY <1>1, <1>6
  <2>2. \A j \in 1..Len(hist) : h[j] \in Entries
    BY <1>1, <1>7
  <2>3. h \in [1..Len(hist) -> Entries]
    BY <2>1, <2>2, Zenon
  <2>4. h \in Seq(Entries) /\ Len(h) = Len(hist) /\ DOMAIN h = 1..Len(hist)
    BY <1>1, <2>3
  <2> QED BY <1>1, <2>4
<1>9. PICK r : r = Loaded(hist, i)
  OBVIOUS
<1>10. PICK p : p = [m \in {} |-> 0]
  OBVIOUS
<1>11. r = [hist |-> h, at |-> i, scroll |-> 0, place |-> PlaceOf(a), view |-> Located(a.view),
            libraryY |-> 0, reading |-> mark, location |-> a, positions |-> p]
  BY <1>2, <1>4, <1>6, <1>9, <1>10 DEF Loaded
<1>12. p \in Memories /\ DOMAIN p = {}
  <2>1. p \in [{} -> Nat] /\ {} \in SUBSET Nat
    BY <1>10
  <2>2. DOMAIN p = {}
    BY <1>10
  <2> QED BY <2>1, <2>2 DEF Memories
<1>13. r \in Tabs
  BY <1>1, <1>3, <1>5, <1>8, <1>11, <1>12 DEF Tabs
<1>14. /\ r.hist = h /\ r.at = i /\ r.place = PlaceOf(a) /\ r.view = Located(a.view)
       /\ r.reading = mark /\ r.location = a /\ r.positions = p
  BY <1>11
<1>15. Here(r) = a
  BY <1>1, <1>4, <1>7, <1>14 DEF Here
<1>16. IsThere(r)
  BY <1>1, <1>8, <1>14, <1>15 DEF IsThere
<1>17. IsAsked(r)
  BY <1>7, <1>8, <1>14 DEF IsAsked, IsLoadable
<1>18. IsMarked(r)
  <2>1. \A m : Restored(r, m) = 0
    BY <1>12, <1>14 DEF Restored
  <2>2. ASSUME NEW j \in DOMAIN r.hist, r.hist[j].addr.page = "hub"
        PROVE  /\ r.hist[j].mark # NoMark
               /\ \A n \in DOMAIN r.hist : r.hist[n].mark = r.hist[j].mark => n = j
               /\ r.hist[j].mark = r.reading => j = r.at
               /\ r.hist[j].left = Restored(r, r.hist[j].mark)
    <3>1. j \in DOMAIN hist /\ hist[j].addr.page = "hub"
      BY <1>7, <1>8, <1>14, <2>2
    <3>2. /\ j # i => hist[j].mark # NoMark
          /\ hist[j].mark # NoMark =>
                \A n \in DOMAIN hist : hist[n].mark = hist[j].mark => n = j
      BY <3>1 DEF IsLoadable
    <3>3. h[i].mark = mark
      BY <1>1, <1>7
    <3>4. CASE j = i
      <4>1. \A n \in DOMAIN hist : n # i => hist[n].mark # mark
        BY <1>3, <3>1, <3>2, <3>4
      <4>2. \A n \in DOMAIN h : h[n].mark = mark => n = i
        BY <1>7, <1>8, <4>1
      <4> QED BY <1>1, <1>3, <1>7, <1>8, <1>14, <2>1, <3>3, <3>4, <4>2
    <3>5. CASE j # i
      <4>1. h[j].mark = hist[j].mark /\ hist[j].mark # NoMark
        BY <1>7, <3>1, <3>2, <3>5
      <4>2. \A n \in DOMAIN hist : hist[n].mark = hist[j].mark => n = j
        BY <3>2, <4>1
      <4>3. mark # hist[j].mark
        BY <1>1, <1>3, <3>1, <3>5, <4>2
      <4>4. \A n \in DOMAIN h : h[n].mark = h[j].mark => n = j
        BY <1>7, <1>8, <4>1, <4>2, <4>3
      <4> QED BY <1>7, <1>14, <2>1, <3>1, <3>5, <4>1, <4>3, <4>4
    <3> QED BY <3>4, <3>5
  <2>3. r.reading # NoMark /\ r.hist[r.at].mark = r.reading
    BY <1>1, <1>3, <1>7, <1>14
  <2> QED BY <2>2, <2>3 DEF IsMarked
<1> QED BY <1>5, <1>9, <1>13, <1>14, <1>16, <1>17, <1>18 DEF TabIsRight

\* The effects of a page; over says that the check is over and the reader
\* was not seen off.
SettledAs(t, a, over) ==
    CASE t.place.page = "login" /\ a = "authenticated" -> LeaveLogin(t)
      [] t.place.page = "account" /\ a = "signed_out" /\ over -> AskToSignIn(t)
      [] OTHER -> t

\* They keep the tab right, and leave no page of the account to a reader who
\* is signed out.
IsSettled(r, t, a, over) ==
    /\ TabIsRight(r) /\ r.at = t.at
    /\ ~(r.place.page = "account" /\ a = "signed_out" /\ over)
    /\ r = t \/ r.place.page # "hub"
    /\ t.place.page = "login" /\ a = "authenticated" => Here(r) = Destination(Here(t).to)
    /\ t.place.page # "login" /\ a = "authenticated" => r = t

\* The redirects lead to pages that are right.
LEMMA SettledKeeps ==
    ASSUME NEW t, TabIsRight(t), NEW a, NEW over \in BOOLEAN
    PROVE  IsSettled(SettledAs(t, a, over), t, a, over)
<1>1. CASE t.place.page = "login" /\ a = "authenticated"
  <2>1. SettledAs(t, a, over) = LeaveLogin(t)
    BY <1>1 DEF SettledAs
  <2>2. PICK r : r = LeaveLogin(t)
    OBVIOUS
  <2>3. /\ TabIsRight(r) /\ r.at = t.at /\ Here(r) = Destination(Here(t).to)
        /\ r.place.page \in {"account", "preview"}
    BY <1>1, <2>2, LeaveLoginKeeps
  <2> QED BY <1>1, <2>1, <2>2, <2>3 DEF IsSettled
<1>2. CASE t.place.page = "account" /\ a = "signed_out" /\ over
  <2>1. SettledAs(t, a, over) = AskToSignIn(t)
    BY <1>2 DEF SettledAs
  <2>2. PICK r : r = AskToSignIn(t)
    OBVIOUS
  <2>3. TabIsRight(r) /\ r.at = t.at /\ r.place.page = "login"
    BY <1>2, <2>2, AskToSignInKeeps
  <2> QED BY <1>2, <2>1, <2>2, <2>3 DEF IsSettled
<1>3. CASE /\ ~(t.place.page = "login" /\ a = "authenticated")
           /\ ~(t.place.page = "account" /\ a = "signed_out" /\ over)
  <2>1. SettledAs(t, a, over) = t
    BY <1>3 DEF SettledAs
  <2> QED BY <1>3, <2>1 DEF IsSettled
<1> QED BY <1>1, <1>2, <1>3

\* A step that shows a tab which is right.
LEMMA TabShowsKeeps ==
    ASSUME NEW t, TabIsRight(t), SiteInv, Shows(t)
    PROVE  SiteInv' /\ IsSettled(tab', t, acct, checked' /\ ~farewell')
<1>1. PICK a : a = acct
  OBVIOUS
<1>2. PICK over \in BOOLEAN : over = (checked' /\ ~farewell')
  OBVIOUS
<1>3. PICK r : r = SettledAs(t, a, over)
  OBVIOUS
<1>4. tab' = r
  BY <1>1, <1>2, <1>3 DEF Shows, Settled, SettledAs
<1>5. IsSettled(r, t, a, over)
  BY <1>3, SettledKeeps
<1>6. /\ acct \in AccountStates /\ requested \in BOOLEAN /\ checked \in BOOLEAN
      /\ farewell \in BOOLEAN
  BY DEF SiteInv
<1>7. PICK first \in BOOLEAN : first = (Asking(t.place.page) /\ ~requested)
  OBVIOUS
<1>8. /\ checked' = checked /\ farewell' = farewell
      /\ requested' = (requested \/ first)
      /\ acct' = (IF first THEN "checking" ELSE acct)
  BY <1>7 DEF Shows
<1>9. /\ acct' \in AccountStates /\ checked' \in BOOLEAN /\ farewell' \in BOOLEAN
      /\ requested' \in BOOLEAN
  BY <1>6, <1>8 DEF AccountStates
<1>10. tab'.place.page = "account" /\ acct' = "signed_out" /\ checked' => farewell'
  BY <1>1, <1>2, <1>4, <1>5, <1>8, <1>9 DEF IsSettled
<1>11. TabIsRight(tab')
  BY <1>4, <1>5 DEF IsSettled
<1>12. IsSettled(tab', t, acct, checked' /\ ~farewell')
  BY <1>1, <1>2, <1>4, <1>5
<1> QED BY <1>9, <1>10, <1>11, <1>12 DEF SiteInv

\* The address of the section, in an entry of the browser's own.
SectionOf(t) == [Here(t) EXCEPT !.hash = TRUE]
IsFragment(s, t, a) ==
    s = [t EXCEPT !.hist = SubSeq(@, 1, t.at) \o <<Entry(a, NoMark, For(a))>>]

\* The browser's entry disturbs no mark of the library.
LEMMA AFragmentIsRight ==
    ASSUME NEW t, TabIsRight(t), t.at < MaxEntries, t.place.page = "paper", ~Here(t).hash,
           NEW a, a = SectionOf(t), NEW s, IsFragment(s, t, a)
    PROVE  /\ TabIsRight(s) /\ t.at + 1 \in DOMAIN s.hist /\ t.at + 1 # s.at
           /\ s.hist[t.at + 1].addr = a /\ a.page = "paper"
<1>1. /\ t \in Tabs /\ t.hist \in Seq(Entries) /\ t.at \in 1..Len(t.hist) /\ Len(t.hist) \in Nat
      /\ DOMAIN t.hist = 1..Len(t.hist) /\ t.hist[t.at] \in Entries
      /\ t.place = PlaceOf(Here(t)) /\ MaxEntries \in Nat
  <2>1. /\ t \in Tabs /\ t.hist \in Seq(Entries) /\ t.at \in 1..Len(t.hist)
        /\ DOMAIN t.hist = 1..Len(t.hist) /\ t.place = PlaceOf(Here(t))
    BY DEF TabIsRight, IsThere, Tabs
  <2> QED BY <2>1, InstanceAssumption DEF SiteAssumption
<1>2. PICK b : b = Here(t)
  OBVIOUS
<1>3. b \in Places /\ IsNamed(b) /\ b.page = "paper" /\ ~b.hash
  BY <1>1, <1>2, PlacesAreNamed DEF Here, Entries, PlaceOf
<1>4. b = Paper
  <2>1. Paper.page = "paper" /\ ~Paper.hash /\ Data.page # "paper"
    BY DEF Paper, Data, Address
  <2>2. \A h : [[page |-> "paper", view |-> DefaultView, to |-> Overview, hash |-> FALSE]
                    EXCEPT !.hash = h].hash = h
    OBVIOUS
  <2>3. [Paper EXCEPT !.hash = TRUE].hash = TRUE
    BY <2>2 DEF Paper, Address
  <2>4. \A v, s0 : Library(v).page # "paper" /\ AccountAt(s0).page # "paper"
                   /\ Preview(s0).page # "paper" /\ Login(s0).page # "paper"
    BY DEF Library, AccountAt, Preview, Login, Address
  <2> QED BY <1>3, <2>1, <2>3, <2>4 DEF Places, Addresses
<1>5. a \in Places /\ a.page = "paper" /\ For(a) \in Places
  <2>1. a \in Places
    BY <1>2, <1>4 DEF Places, SectionOf
  <2>2. a.page = "paper"
    BY <1>2, <1>4 DEF Paper, Address, SectionOf
  <2> QED BY <2>1, <2>2, ForIsAPlace
<1>6. PICK e : e = Entry(a, NoMark, For(a))
  OBVIOUS
<1>7. e \in Entries /\ e.addr = a /\ e.mark = NoMark
  BY <1>5, <1>6 DEF Entry, Entries, NoMark
<1>8. PICK h : h = SubSeq(t.hist, 1, t.at) \o <<e>>
  OBVIOUS
<1>9. /\ h \in Seq(Entries) /\ Len(h) = t.at + 1 /\ h[t.at + 1] = e
      /\ \A i \in 1..t.at : h[i] = t.hist[i]
  <2>1. t.at \in 0..Len(t.hist)
    BY <1>1
  <2>2. t.hist \in Seq(Entries) /\ e \in Entries
    BY <1>1, <1>7
  <2>3. /\ SubSeq(t.hist, 1, t.at) \o <<e>> \in Seq(Entries)
        /\ Len(SubSeq(t.hist, 1, t.at) \o <<e>>) = t.at + 1
        /\ \A i \in 1..t.at : (SubSeq(t.hist, 1, t.at) \o <<e>>)[i] = t.hist[i]
        /\ (SubSeq(t.hist, 1, t.at) \o <<e>>)[t.at + 1] = e
    BY <2>1, <2>2, HistoryGrows, Zenon
  <2> QED BY <1>8, <2>3
<1>10. DOMAIN h = 1..t.at + 1 /\ t.at \in 1..Len(h) /\ Len(h) <= MaxEntries
  BY <1>1, <1>9, LenProperties
<1>11. /\ s \in Tabs /\ s.hist = h /\ s.at = t.at /\ s.place = t.place /\ s.view = t.view
       /\ s.reading = t.reading /\ s.location = t.location /\ s.positions = t.positions
  <2>1. s = [t EXCEPT !.hist = h]
    BY <1>6, <1>8 DEF IsFragment
  <2> QED BY <1>1, <1>9, <2>1 DEF Tabs
<1>12. Here(s) = Here(t)
  <2>1. t.at \in 1..t.at
    BY <1>1
  <2>2. h[t.at] = t.hist[t.at]
    BY <1>9, <2>1
  <2> QED BY <1>11, <2>2 DEF Here
<1>13. IsThere(s)
  BY <1>1, <1>10, <1>11, <1>12 DEF IsThere, TabIsRight
<1>14. \A j \in DOMAIN h : \/ j = t.at + 1 /\ h[j] = e
                           \/ j \in 1..t.at /\ j \in DOMAIN t.hist /\ h[j] = t.hist[j]
  BY <1>1, <1>9, <1>10
<1>15. IsAsked(s)
  BY <1>5, <1>7, <1>11, <1>14 DEF IsAsked, TabIsRight
<1>16. IsMarked(s)
  <2>1. \A m : Restored(s, m) = Restored(t, m)
    BY <1>11 DEF Restored
  <2>2. ASSUME NEW j \in DOMAIN s.hist, s.hist[j].addr.page = "hub"
        PROVE  /\ s.hist[j].mark # NoMark
               /\ \A n \in DOMAIN s.hist : s.hist[n].mark = s.hist[j].mark => n = j
               /\ s.hist[j].mark = s.reading => j = s.at
               /\ s.hist[j].left = Restored(s, s.hist[j].mark)
    <3>1. j \in DOMAIN t.hist /\ h[j] = t.hist[j]
      BY <1>5, <1>7, <1>11, <1>14, <2>2
    <3>2. /\ t.hist[j].mark # NoMark
          /\ \A n \in DOMAIN t.hist : t.hist[n].mark = t.hist[j].mark => n = j
          /\ t.hist[j].mark = t.reading => j = t.at
          /\ t.hist[j].left = Restored(t, t.hist[j].mark)
      BY <1>11, <2>2, <3>1 DEF TabIsRight, IsMarked
    <3>3. \A n \in DOMAIN h : h[n].mark = h[j].mark => n = j
      BY <1>7, <1>14, <3>1, <3>2
    <3> QED BY <1>11, <2>1, <3>1, <3>2, <3>3
  <2>3. s.reading # NoMark /\ s.place.page # "hub"
    BY <1>11 DEF TabIsRight, IsMarked
  <2> QED BY <2>2, <2>3 DEF IsMarked
<1>17. TabIsRight(s)
  BY <1>11, <1>13, <1>15, <1>16 DEF TabIsRight
<1> QED BY <1>1, <1>5, <1>7, <1>9, <1>10, <1>11, <1>17

\* The filters of the library lead to views of it.
LEMMA ChangedViews ==
    ASSUME NEW v \in Views, Located(v) = v, NEW w \in Changed(v)
    PROVE  w \in Views /\ Located(w) = w
<1>0. \A f \in Filters : LastPage[f] \in Nat
  BY InstanceAssumption DEF SiteAssumption
<1>1. v \in [open : BOOLEAN, filter : Filters, page : Nat]
  BY ViewsAreOfALibrary
<1>2. v.page <= LastPage[v.filter] /\ v.page \in Nat /\ v.filter \in Filters /\ v.open \in BOOLEAN
  <2>1. v.page > LastPage[v.filter] => Located(v).page = LastPage[v.filter]
    BY <1>1 DEF Located
  <2> QED BY <1>0, <1>1, <2>1
<1>3. \E o \in BOOLEAN, f \in Filters, p \in Nat :
         p <= LastPage[f] /\ w = [open |-> o, filter |-> f, page |-> p]
  <2>1. ASSUME NEW f \in Filters, w = [DefaultView EXCEPT !.open = TRUE, !.filter = f]
        PROVE  w = [open |-> TRUE, filter |-> f, page |-> 0]
    BY <2>1 DEF DefaultView
  <2>2. ASSUME NEW o \in BOOLEAN, w = [v EXCEPT !.open = o]
        PROVE  w = [open |-> o, filter |-> v.filter, page |-> v.page]
    BY <1>1, <2>2
  <2>3. ASSUME NEW f \in Filters, w = [v EXCEPT !.filter = f, !.page = 0]
        PROVE  w = [open |-> v.open, filter |-> f, page |-> 0]
    BY <1>1, <2>3
  <2>4. ASSUME NEW p \in 0..LastPage[v.filter], w = [v EXCEPT !.page = p]
        PROVE  w = [open |-> v.open, filter |-> v.filter, page |-> p]
    BY <1>1, <2>4
  <2>5. \/ \E f \in Filters : w = [DefaultView EXCEPT !.open = TRUE, !.filter = f]
        \/ \E o \in BOOLEAN : w = [v EXCEPT !.open = o]
        \/ \E f \in Filters : w = [v EXCEPT !.filter = f, !.page = 0]
        \/ \E p \in 0..LastPage[v.filter] : w = [v EXCEPT !.page = p]
    BY DEF Changed
  <2>6. /\ TRUE \in BOOLEAN /\ 0 \in Nat /\ \A f \in Filters : 0 <= LastPage[f]
        /\ \A p \in 0..LastPage[v.filter] : p \in Nat /\ p <= LastPage[v.filter]
    BY <1>0, <1>2
  <2>7. CASE \E f \in Filters : w = [DefaultView EXCEPT !.open = TRUE, !.filter = f]
    BY <2>1, <2>6, <2>7
  <2>8. CASE \E o \in BOOLEAN : w = [v EXCEPT !.open = o]
    BY <1>2, <2>2, <2>8
  <2>9. CASE \E f \in Filters : w = [v EXCEPT !.filter = f, !.page = 0]
    BY <1>2, <2>3, <2>6, <2>9
  <2>10. CASE \E p \in 0..LastPage[v.filter] : w = [v EXCEPT !.page = p]
    BY <1>2, <2>4, <2>6, <2>10
  <2> QED BY <2>5, <2>7, <2>8, <2>9, <2>10
<1>4. PICK o \in BOOLEAN, f \in Filters, p \in Nat :
         p <= LastPage[f] /\ w = [open |-> o, filter |-> f, page |-> p]
  BY <1>3
<1>5. w \in [open : BOOLEAN, filter : {f}, page : 0..LastPage[f] + 1]
  BY <1>0, <1>4
<1>6. w \in Views
  BY <1>5 DEF Views
<1>7. Located(w) = w
  <2>1. ~(w.page > LastPage[w.filter])
    BY <1>0, <1>4
  <2>2. Located(w) = [w EXCEPT !.page = w.page]
    BY <2>1 DEF Located
  <2> QED BY <1>5, <2>2
<1> QED BY <1>6, <1>7

\* The library is at the address of the view it changes to.
IsViewed(s, t, v) ==
    s = [t EXCEPT !.view = v, !.hist[t.at].addr = Library(v), !.location = Library(v)]

\* Neither does a filter, which is told in the address.
LEMMA AChangedViewIsRight ==
    ASSUME NEW t, TabIsRight(t), t.place.page = "hub", NEW v \in Views, Located(v) = v,
           NEW s, IsViewed(s, t, v)
    PROVE  TabIsRight(s) /\ s.place = t.place
<1>1. /\ t \in Tabs /\ t.hist \in Seq(Entries) /\ t.at \in 1..Len(t.hist)
      /\ DOMAIN t.hist = 1..Len(t.hist) /\ t.hist[t.at] \in Entries
      /\ t.place = PlaceOf(Here(t))
  <2>1. /\ t \in Tabs /\ t.hist \in Seq(Entries) /\ t.at \in 1..Len(t.hist)
        /\ DOMAIN t.hist = 1..Len(t.hist) /\ t.place = PlaceOf(Here(t))
    BY DEF TabIsRight, IsThere, Tabs
  <2> QED BY <2>1
<1>2. PICK a : a = Library(v)
  OBVIOUS
<1>3. a \in Places /\ a.page = "hub" /\ a.view = v /\ a.to = Overview /\ PlaceOf(a) = t.place
  <2>1. a \in Places
    BY <1>2 DEF Places, Addresses
  <2>2. a.page = "hub" /\ a.view = v /\ a.to = Overview
    BY <1>2 DEF Library, Address
  <2>3. Here(t) \in Places /\ Here(t).page = "hub"
    BY <1>1 DEF Here, Entries, PlaceOf
  <2>4. Here(t) = Library(Here(t).view)
    BY <2>3, PlacesAreNamed DEF IsNamed
  <2>5. Here(t).to = Overview
    BY <2>4 DEF Library, Address
  <2> QED BY <1>1, <2>1, <2>2, <2>3, <2>5 DEF PlaceOf
<1>4. PICK e : e = [t.hist[t.at] EXCEPT !.addr = a]
  OBVIOUS
<1>5. /\ e \in Entries /\ e.addr = a /\ e.mark = t.hist[t.at].mark /\ e.left = t.hist[t.at].left
      /\ e.asked = t.hist[t.at].asked
  BY <1>1, <1>3, <1>4 DEF Entries
<1>6. PICK h : h = [t.hist EXCEPT ![t.at] = e]
  OBVIOUS
<1>7. /\ h \in Seq(Entries) /\ Len(h) = Len(t.hist) /\ DOMAIN h = DOMAIN t.hist
      /\ h[t.at] = e /\ \A j \in DOMAIN t.hist : j # t.at => h[j] = t.hist[j]
  BY <1>1, <1>5, <1>6
<1>8. /\ s \in Tabs /\ s.hist = h /\ s.at = t.at /\ s.place = t.place /\ s.view = v
      /\ s.reading = t.reading /\ s.location = a /\ s.positions = t.positions
  <2>1. s = [t EXCEPT !.view = v, !.hist = h, !.location = a]
    BY <1>1, <1>2, <1>4, <1>6 DEF Tabs, IsViewed
  <2> QED BY <1>1, <1>3, <1>7, <2>1 DEF Tabs
<1>9. Here(s) = a
  BY <1>5, <1>7, <1>8 DEF Here
<1>10. IsThere(s)
  BY <1>1, <1>3, <1>7, <1>8, <1>9 DEF IsThere, TabIsRight
<1>11. IsAsked(s)
  BY <1>3, <1>5, <1>7, <1>8 DEF IsAsked, TabIsRight
<1>12. IsMarked(s)
  <2>1. \A m : Restored(s, m) = Restored(t, m)
    BY <1>8 DEF Restored
  <2>2. \A j \in DOMAIN t.hist : /\ h[j].mark = t.hist[j].mark /\ h[j].left = t.hist[j].left
                                 /\ h[j].addr.page = "hub" => t.hist[j].addr.page = "hub"
    <3>1. t.hist[t.at].addr.page = "hub"
      BY <1>1 DEF Here, PlaceOf
    <3> QED BY <1>5, <1>7, <3>1
  <2>3. s.reading # NoMark /\ s.hist[s.at].mark = s.reading
    BY <1>1, <1>8, <2>2 DEF TabIsRight, IsMarked
  <2>4. ASSUME NEW j \in DOMAIN s.hist, s.hist[j].addr.page = "hub"
        PROVE  /\ s.hist[j].mark # NoMark
               /\ \A n \in DOMAIN s.hist : s.hist[n].mark = s.hist[j].mark => n = j
               /\ s.hist[j].mark = s.reading => j = s.at
               /\ s.hist[j].left = Restored(s, s.hist[j].mark)
    BY <1>7, <1>8, <2>1, <2>2, <2>4 DEF TabIsRight, IsMarked
  <2> QED BY <2>3, <2>4 DEF IsMarked
<1> QED BY <1>8, <1>10, <1>11, <1>12 DEF TabIsRight

-----------------------------------------------------------------------------
(* The steps of the page                                                    *)

\* A page that is opened is right.
LEMMA StartIsRight == EitherInit => SiteInv
<1> SUFFICES ASSUME EitherInit PROVE SiteInv
  OBVIOUS
<1>1. PICK a \in Addresses : /\ tab = Loaded(<<Entry(a, NoMark, For(a))>>, 1)
                             /\ requested = Asking(a.page)
  BY DEF EitherInit, Init
<1>2. /\ acct = (IF requested THEN "checking" ELSE "signed_out")
      /\ checked = FALSE /\ farewell = FALSE
  BY DEF EitherInit, Init
<1>3. PICK e : e = Entry(a, NoMark, For(a))
  OBVIOUS
<1>4. e \in Entries /\ e.addr = a /\ e.mark = NoMark /\ e.asked = For(a)
  <2>1. a \in Places
    BY DEF Places
  <2> QED BY <1>3, <2>1, ForIsAPlace DEF Entry, Entries, NoMark
<1>5. IsLoadable(<<e>>, 1)
  <2>1. <<e>> \in Seq(Entries) /\ Len(<<e>>) = 1 /\ <<e>>[1] = e /\ DOMAIN <<e>> = 1..1
    BY <1>4
  <2>2. 1 <= MaxEntries
    BY InstanceAssumption DEF SiteAssumption
  <2>3. PICK h : h = <<e>>
    OBVIOUS
  <2>4. IsLoadable(h, 1)
    BY <1>4, <2>1, <2>2, <2>3 DEF IsLoadable, For
  <2> QED BY <2>3, <2>4
<1>6. TabIsRight(tab)
  BY <1>1, <1>3, <1>5, LoadedKeeps
<1>7. requested \in BOOLEAN
  BY <1>1 DEF Asking
<1> QED BY <1>2, <1>6, <1>7 DEF SiteInv, AccountStates

\* So is one that is loaded again.
LEMMA ReloadKeeps == ASSUME SiteInv, Reload PROVE SiteInv'
<1>1. PICK t : t = tab
  OBVIOUS
<1>2. TabIsRight(t)
  BY <1>1 DEF SiteInv
<1>3. IsLoadable(t.hist, t.at)
  BY <1>2 DEF IsLoadable, TabIsRight, Tabs, IsThere, IsMarked, IsAsked
<1>4. /\ tab' = Loaded(t.hist, t.at)
      /\ requested' = Asking(t.hist[t.at].addr.page)
      /\ acct' = (IF requested' THEN "checking" ELSE "signed_out")
      /\ checked' = FALSE /\ farewell' = FALSE
  BY <1>1 DEF Reload, Load
<1>5. TabIsRight(tab')
  BY <1>3, <1>4, LoadedKeeps
<1>6. requested' \in BOOLEAN
  BY <1>4 DEF Asking
<1> QED BY <1>4, <1>5, <1>6 DEF SiteInv, AccountStates

\* A position is noted when it is left.
LEMMA ScrollKeeps == ASSUME SiteInv, Scroll PROVE SiteInv'
<1>1. PICK t : t = tab
  OBVIOUS
<1>2. TabIsRight(t) /\ t \in Tabs
  BY <1>1 DEF SiteInv, TabIsRight
<1>3. PICK y \in 0..MaxY : tab' = [t EXCEPT !.scroll = y]
  BY <1>1 DEF Scroll
<1>4. y \in Nat
  BY InstanceAssumption DEF SiteAssumption
<1>5. PICK s : s = [t EXCEPT !.scroll = y]
  OBVIOUS
<1>6. /\ s \in Tabs /\ s.hist = t.hist /\ s.at = t.at /\ s.place = t.place /\ s.view = t.view
      /\ s.reading = t.reading /\ s.location = t.location /\ s.positions = t.positions
  BY <1>2, <1>4, <1>5 DEF Tabs
<1>7. TabIsRight(s)
  <2>1. \A m : Restored(s, m) = Restored(t, m)
    BY <1>6 DEF Restored
  <2>2. Here(s) = Here(t)
    BY <1>6 DEF Here
  <2>3. IsThere(s) /\ IsAsked(s)
    BY <1>2, <1>6, <2>2 DEF TabIsRight, IsThere, IsAsked
  <2>4. IsMarked(s)
    BY <1>2, <1>6, <2>1 DEF TabIsRight, IsMarked
  <2> QED BY <1>2, <1>6, <2>3, <2>4 DEF TabIsRight
<1>8. TabIsRight(tab') /\ tab'.place = tab.place
  BY <1>1, <1>3, <1>5, <1>6, <1>7
<1> QED BY <1>8 DEF SiteInv, Scroll, account

\* The view and its address change together.
LEMMA ChangeViewKeeps == ASSUME SiteInv, ChangeView PROVE SiteInv'
<1>1. PICK t : t = tab
  OBVIOUS
<1>2. TabIsRight(t) /\ t.place.page = "hub" /\ t.view \in Views /\ Located(t.view) = t.view
  BY <1>1 DEF SiteInv, TabIsRight, Tabs, ChangeView
<1>3. PICK v \in Changed(t.view) :
         tab' = [t EXCEPT !.view = v, !.hist[t.at].addr = Library(v), !.location = Library(v)]
  BY <1>1 DEF ChangeView
<1>4. v \in Views /\ Located(v) = v
  BY <1>2, ChangedViews
<1>5. PICK s : s = [t EXCEPT !.view = v, !.hist[t.at].addr = Library(v), !.location = Library(v)]
  OBVIOUS
<1>6. TabIsRight(s) /\ s.place = t.place
  <2>1. IsViewed(s, t, v)
    BY <1>5 DEF IsViewed
  <2> QED BY <1>2, <1>4, <2>1, AChangedViewIsRight
<1>7. TabIsRight(tab') /\ tab'.place = tab.place
  BY <1>1, <1>3, <1>5, <1>6
<1> QED BY <1>7 DEF SiteInv, ChangeView, account

\* A section of an article is a page of the same article.
LEMMA FragmentKeeps == ASSUME SiteInv, Fragment PROVE SiteInv'
<1>1. PICK t : t = tab
  OBVIOUS
<1>2. TabIsRight(t) /\ t.at < MaxEntries /\ t.place.page = "paper" /\ ~Here(t).hash
  BY <1>1 DEF SiteInv, Fragment
<1>3. PICK a : a = SectionOf(t)
  OBVIOUS
<1>4. PICK s : IsFragment(s, t, a)
  BY DEF IsFragment
<1>5. tab' = Sync(s, t.at + 1)
  BY <1>1, <1>3, <1>4 DEF Fragment, IsFragment, SectionOf
<1>6. /\ TabIsRight(s) /\ t.at + 1 \in DOMAIN s.hist /\ t.at + 1 # s.at
      /\ s.hist[t.at + 1].addr = a /\ a.page = "paper"
  BY <1>2, <1>3, <1>4, AFragmentIsRight
<1>7. TabIsRight(tab') /\ tab'.place = PlaceOf(s.hist[t.at + 1].addr)
  BY <1>5, <1>6, SyncKeeps
<1>8. tab'.place.page = "paper"
  BY <1>6, <1>7 DEF PlaceOf
<1> QED BY <1>7, <1>8 DEF SiteInv, Fragment, account

\* Every link leads to an address of the site.
LEMMA LinksArePlaces == SiteInv => Links \subseteq Places
<1> SUFFICES ASSUME SiteInv PROVE Links \subseteq Places
  OBVIOUS
<1>1. /\ tab.view \in Views /\ tab.place \in Routes /\ tab.place.to \in Sections \cup Selections
      /\ Overview \in Sections /\ DefaultView \in Views
  <2>1. tab.view \in Views /\ tab.place \in Routes
    BY DEF SiteInv, TabIsRight, Tabs
  <2> QED BY <2>1, ViewsAreOfALibrary, InstanceAssumption DEF Routes, SiteAssumption
<1>2. HeaderLinks \subseteq Addresses
  BY <1>1 DEF HeaderLinks, Addresses
<1>3. ArticleLinks \subseteq Addresses /\ SectionLinks \subseteq Addresses
      /\ PlanLinks \subseteq Addresses
  BY <1>1 DEF ArticleLinks, SectionLinks, PlanLinks, Addresses
<1>4. PreviewLinks \subseteq Addresses
  <2>1. Login(tab.place.to) \in Addresses
    BY <1>1 DEF Addresses
  <2> QED BY <1>3, <2>1 DEF PreviewLinks
<1>5. Addresses \subseteq Places
  BY DEF Places
<1>6. CASE tab.place.page = "paper"
  BY <1>2, <1>3, <1>5, <1>6 DEF Links
<1>7. CASE tab.place.page = "account"
  BY <1>2, <1>3, <1>5, <1>7 DEF Links
<1>8. CASE tab.place.page = "data"
  BY <1>2, <1>3, <1>5, <1>8 DEF Links
<1>9. CASE tab.place.page = "preview"
  BY <1>2, <1>4, <1>5, <1>9 DEF Links
<1>10. CASE tab.place.page \notin {"paper", "account", "data", "preview"}
  BY <1>2, <1>5, <1>10 DEF Links
<1> QED BY <1>6, <1>7, <1>8, <1>9, <1>10

\* A link leads to a page that is right.
LEMMA FollowingALinkKeeps == ASSUME SiteInv, NEW a \in Links, Visit(a) PROVE SiteInv'
<1>1. PICK t : t = tab
  OBVIOUS
<1>2. TabIsRight(t) /\ t.at < MaxEntries /\ a \in Places
  BY <1>1, LinksArePlaces DEF SiteInv, Visit
<1>3. PICK s : s = GoTo(t, a, For(a), FALSE)
  OBVIOUS
<1>4. TabIsRight(s)
  BY <1>2, <1>3, VisitKeeps
<1>5. Shows(s)
  BY <1>1, <1>3 DEF Visit
<1> QED BY <1>4, <1>5, TabShowsKeeps

\* The browser's own steps through its history.
IsPopped(new, t, i, a, over) ==
    \E s : /\ IsSettled(new, s, a, over) /\ s.at = i /\ s.place = PlaceOf(t.hist[i].addr)
           /\ s.place.page = "hub" => s.scroll = t.hist[i].left
           /\ Here(s) = t.hist[i].addr

\* So do back and forward, before the redirects.
LEMMA PopKeeps ==
    ASSUME SiteInv, NEW i, Pop(i)
    PROVE  SiteInv' /\ IsPopped(tab', tab, i, acct, checked' /\ ~farewell')
<1>1. PICK t : t = tab
  OBVIOUS
<1>2. TabIsRight(t) /\ i \in DOMAIN t.hist /\ i # t.at
  BY <1>1 DEF SiteInv, Pop
<1>3. PICK s : s = Sync(t, i)
  OBVIOUS
<1>4. /\ TabIsRight(s) /\ s.at = i /\ s.place = PlaceOf(t.hist[i].addr)
      /\ s.place.page = "hub" => s.scroll = t.hist[i].left
      /\ Here(s) = t.hist[i].addr
  BY <1>2, <1>3, SyncKeeps
<1>5. Shows(s)
  BY <1>1, <1>3 DEF Pop
<1>6. SiteInv' /\ IsSettled(tab', s, acct, checked' /\ ~farewell')
  BY <1>4, <1>5, TabShowsKeeps
<1>7. IsPopped(tab', t, i, acct, checked' /\ ~farewell')
  BY <1>4, <1>6 DEF IsPopped
<1> QED BY <1>1, <1>6, <1>7

\* The effects of the account's answer, and of its end.
LEMMA TheAccountSettles ==
    ASSUME SiteInv, NEW a, a = acct', tab' = Settled(tab, a)
    PROVE  TabIsRight(tab') /\ IsSettled(tab', tab, a, checked' /\ ~farewell')
<1>1. PICK t : t = tab
  OBVIOUS
<1>2. PICK over \in BOOLEAN : over = (checked' /\ ~farewell')
  OBVIOUS
<1>3. PICK r : r = SettledAs(t, a, over)
  OBVIOUS
<1>4. tab' = r
  BY <1>1, <1>2, <1>3 DEF Settled, SettledAs
<1>5. TabIsRight(t)
  BY <1>1 DEF SiteInv
<1>6. IsSettled(r, t, a, over)
  BY <1>3, <1>5, SettledKeeps
<1>7. TabIsRight(r)
  BY <1>6 DEF IsSettled
<1> QED BY <1>1, <1>2, <1>4, <1>6, <1>7

\* The answer about the account leads on from the sign-in.
LEMMA AnswersKeep ==
    ASSUME SiteInv, AccountAnswers
    PROVE  SiteInv' /\ IsSettled(tab', tab, acct', checked' /\ ~farewell')
<1>1. PICK a : a = acct'
  OBVIOUS
<1>2. /\ a \in AccountStates /\ checked' = TRUE /\ farewell' = (farewell /\ a # "authenticated")
      /\ tab' = Settled(tab, a) /\ requested' = requested
  BY <1>1 DEF AccountAnswers
<1>3. TabIsRight(tab') /\ IsSettled(tab', tab, a, checked' /\ ~farewell')
  BY <1>1, <1>2, TheAccountSettles
<1>4. farewell' \in BOOLEAN /\ checked' \in BOOLEAN /\ requested' \in BOOLEAN
  BY <1>2 DEF SiteInv
<1>5. tab'.place.page = "account" /\ acct' = "signed_out" /\ checked' => farewell'
  BY <1>1, <1>3, <1>4 DEF IsSettled
<1> QED BY <1>1, <1>2, <1>3, <1>4, <1>5 DEF SiteInv

\* The end of a session leads there from a page of the account.
LEMMA LeavingKeeps == ASSUME SiteInv, AccountLeaves PROVE SiteInv'
<1>1. /\ acct' = "signed_out" /\ farewell' \in BOOLEAN /\ requested' = requested
      /\ checked' = checked /\ tab' = Settled(tab, "signed_out")
  BY DEF AccountLeaves
<1>2. PICK a : a = acct'
  OBVIOUS
<1>3. TabIsRight(tab') /\ IsSettled(tab', tab, a, checked' /\ ~farewell')
  BY <1>1, <1>2, TheAccountSettles
<1>4. tab'.place.page = "account" /\ acct' = "signed_out" /\ checked' => farewell'
  BY <1>1, <1>2, <1>3 DEF IsSettled, SiteInv
<1> QED BY <1>1, <1>3, <1>4 DEF SiteInv, AccountStates

\* Every step of the reader and of the account keeps the tab right.
LEMMA SiteKept == SiteInv /\ [Next]_vars => SiteInv'
<1> SUFFICES ASSUME SiteInv, [Next]_vars PROVE SiteInv'
  OBVIOUS
<1>1. CASE Reload \/ Scroll \/ ChangeView \/ Fragment
  BY <1>1, ReloadKeeps, ScrollKeeps, ChangeViewKeeps, FragmentKeeps
<1>2. CASE \E a \in Links : Visit(a)
  BY <1>2, FollowingALinkKeeps
<1>3. CASE \E i \in 1..MaxEntries : Pop(i)
  BY <1>3, PopKeeps
<1>4. CASE AccountAnswers \/ AccountLeaves
  BY <1>4, AnswersKeep, LeavingKeeps
<1>5. CASE AccountChecks
  BY <1>5 DEF AccountChecks, SiteInv, AccountStates
<1>6. CASE UNCHANGED vars
  BY <1>6 DEF vars, SiteInv
<1> QED BY <1>1, <1>2, <1>3, <1>4, <1>5, <1>6 DEF Next

\* What the page shows is what its address says, for every library, every
\* history up to the bound and every order of links, filters, back and
\* forward, redirects and answers about the account.
THEOREM PageMatches == EitherSpec => []PageMatchesAddress
<1>1. SiteInv /\ [EitherNext]_<<part, vars, marks, catalog, formVars>> => SiteInv'
  <2>1. vars' = vars /\ SiteInv => SiteInv'
    BY SiteKept
  <2> QED BY <2>1, SiteKept DEF EitherNext
<1>2. SiteInv => PageMatchesAddress
  BY DEF SiteInv, TabIsRight, IsThere, PageMatchesAddress
<1> QED BY <1>1, <1>2, StartIsRight, PTL DEF EitherSpec

\* What a step of the browser's own restores, and where a sign-in leads.
IsRestored ==
    tab'.at # tab.at /\ tab'.place.page = "hub"
        => \A i \in 1..MaxEntries : Pop(i) => tab'.scroll = tab.hist[i].left

IsReturned ==
    /\ /\ acct' = "authenticated" /\ tab' # tab
       /\ AccountAnswers \/ \E i \in 1..MaxEntries : Pop(i)
       /\ tab.hist[tab'.at].addr.page = "login"
       => Here(tab') = tab.hist[tab'.at].asked
    /\ tab'.place.page = "account" /\ acct' = "signed_out" /\ checked' => farewell'

\* Back and forward find the position of the entry.
LEMMA PositionsComeBack == SiteInv => IsRestored
<1> SUFFICES ASSUME SiteInv, tab'.place.page = "hub", NEW i \in 1..MaxEntries, Pop(i)
             PROVE  tab'.scroll = tab.hist[i].left
  BY DEF IsRestored
<1>1. IsPopped(tab', tab, i, acct, checked' /\ ~farewell')
  BY PopKeeps
<1>2. PICK s : /\ IsSettled(tab', s, acct, checked' /\ ~farewell')
               /\ s.place.page = "hub" => s.scroll = tab.hist[i].left
  BY <1>1 DEF IsPopped
<1>3. tab' = s
  BY <1>2 DEF IsSettled
<1> QED BY <1>2, <1>3

\* A sign-in finds what its entry was opened for.
LEMMA SignInsLeadBack == SiteInv /\ SiteInv' => IsReturned
<1> SUFFICES ASSUME SiteInv, SiteInv' PROVE IsReturned
  OBVIOUS
<1>1. tab'.place.page = "account" /\ acct' = "signed_out" /\ checked' => farewell'
  BY DEF SiteInv
<1>2. PICK t : t = tab
  OBVIOUS
<1>3. TabIsRight(t) /\ t \in Tabs /\ t.at \in 1..Len(t.hist) /\ DOMAIN t.hist = 1..Len(t.hist)
      /\ t.place = PlaceOf(Here(t))
  BY <1>2 DEF SiteInv, TabIsRight, IsThere, Tabs
<1>4. ASSUME acct' = "authenticated", AccountAnswers, tab' # tab,
             tab.hist[tab'.at].addr.page = "login"
      PROVE  Here(tab') = tab.hist[tab'.at].asked
  <2>1. IsSettled(tab', t, acct', checked' /\ ~farewell')
    BY <1>2, <1>4, AnswersKeep
  <2>2. t.place.page = "login" /\ Here(tab') = Destination(Here(t).to) /\ tab'.at = t.at
    BY <1>2, <1>4, <2>1 DEF IsSettled
  <2>3. Here(t).page = "login"
    BY <1>3, <2>2 DEF PlaceOf
  <2>4. t.hist[t.at].asked = Destination(Here(t).to)
    BY <1>3, <2>3 DEF TabIsRight, IsAsked, Here
  <2> QED BY <1>2, <2>2, <2>4
<1>5. ASSUME acct' = "authenticated", NEW i \in 1..MaxEntries, Pop(i),
             tab.hist[tab'.at].addr.page = "login"
      PROVE  Here(tab') = tab.hist[tab'.at].asked
  <2>1. IsPopped(tab', t, i, acct, checked' /\ ~farewell')
    BY <1>2, <1>5, PopKeeps
  <2>2. PICK s : /\ IsSettled(tab', s, acct, checked' /\ ~farewell') /\ s.at = i
                 /\ s.place = PlaceOf(t.hist[i].addr) /\ Here(s) = t.hist[i].addr
    BY <2>1 DEF IsPopped
  <2>3. tab'.at = i /\ s.place.page = "login"
    BY <1>2, <1>5, <2>2 DEF IsSettled, PlaceOf
  <2>4. acct = "authenticated"
    BY <1>5 DEF Pop, Shows
  <2>5. Here(tab') = Destination(t.hist[i].addr.to)
    BY <2>2, <2>3, <2>4 DEF IsSettled
  <2>6. i \in DOMAIN t.hist
    BY <1>2, <1>5 DEF Pop
  <2>7. t.hist[i].asked = Destination(t.hist[i].addr.to)
    BY <1>2, <1>3, <1>5, <2>3, <2>6 DEF TabIsRight, IsAsked
  <2> QED BY <1>2, <2>3, <2>5, <2>7
<1> QED BY <1>1, <1>4, <1>5 DEF IsReturned

\* Back and forward open the library where the entry was left, a sign-in
\* leads to what was asked for, and no page of the account stays open to a
\* reader who is signed out.
THEOREM ReaderBroughtBack == EitherSpec => ReaderIsBroughtBack
<1> DEFINE Step == [EitherNext]_<<part, vars, marks, catalog, formVars>>
           Back == [IsRestored]_vars
           Returns == [IsReturned]_vars
<1>1. SiteInv /\ Step => SiteInv'
  <2>1. vars' = vars /\ SiteInv => SiteInv'
    BY SiteKept
  <2> QED BY <2>1, SiteKept DEF EitherNext
<1>2. SiteInv /\ SiteInv' => Back /\ Returns
  BY PositionsComeBack, SignInsLeadBack
<1>3. EitherSpec => [][IsRestored]_vars /\ [][IsReturned]_vars
  BY <1>1, <1>2, StartIsRight, PTL DEF EitherSpec
<1> QED BY <1>3 DEF ReaderIsBroughtBack, BackRestoresPosition, SignInReturns, IsRestored,
           IsReturned
=============================================================================

------------------------------ MODULE SignInForm ------------------------------
(***************************************************************************)
(* The sign-in page of the public site: the choice of a method              *)
(* (LoginPage.jsx) and the form that asks for a code by mail and sends it   *)
(* back (EmailSignIn.jsx).                                                  *)
(*                                                                         *)
(* A verification belongs to the page of the account (connectEmailAccount,  *)
(* see AccountPage) and goes on when the form is left; a request for a code *)
(* is given up with its form. A code is known here by the challenge that    *)
(* was shown when it was typed. Times are reduced to whether the form may   *)
(* ask again, and what is told of a failure is left out.                    *)
(***************************************************************************)
EXTENDS Naturals, Sequences

CONSTANTS
    Mails,          \* addresses
    NoMail,
    MaxChallenges   \* bound

SignInAssumption == NoMail \notin Mails /\ MaxChallenges \in Nat

VARIABLES
    page,        \* [open, method, choice, available, asking] of LoginPage
    form,        \* the state of EmailSignIn
    sending,     \* its request for a code
    verifying,   \* the verification of the page of the account
    checking,    \* that page reads its session for another reason
    mailed       \* the addresses of the challenges (external)

vars == <<page, form, sending, verifying, checking, mailed>>

Methods == {"key", "phone", "email"}

(* A challenge or a code that is not there is 0. *)
EmptyForm == [mail |-> NoMail, challenge |-> 0, shownMail |-> NoMail, code |-> 0, wait |-> FALSE]
Idle == [at |-> "idle"]

FreshPage == [open |-> TRUE, method |-> "key", choice |-> "none", available |-> FALSE,
              asking |-> TRUE]

FormShown(p) == p.open /\ p.method = "email" /\ p.available

Pending == sending # Idle
Checking == checking \/ verifying # Idle

Init ==
    /\ page = FreshPage /\ form = EmptyForm /\ sending = Idle /\ verifying = Idle
    /\ checking \in BOOLEAN /\ mailed = <<>>

(* A form that is no longer shown loses its state, and its request. *)
Shows(p) ==
    /\ page' = p
    /\ IF FormShown(p) /\ FormShown(page) THEN UNCHANGED <<form, sending>>
       ELSE form' = EmptyForm /\ sending' = Idle

-----------------------------------------------------------------------------
(* LoginPage *)

Choose(m) ==
    /\ page.open /\ verifying = Idle
    /\ Shows([page EXCEPT !.method = m, !.choice = m])
    /\ UNCHANGED <<verifying, checking, mailed>>

(* Fault: the answer chooses, whatever the user chose.                      *)
MethodsToldFault ==
    /\ page.open /\ page.asking
    /\ \E available \in BOOLEAN :
          Shows([page EXCEPT !.asking = FALSE, !.available = available,
                             !.method = IF available THEN "email" ELSE @])
    /\ UNCHANGED <<verifying, checking, mailed>>

(* auth-methods is answered, or fails. *)
MethodsTold ==
    /\ page.open /\ page.asking
    /\ \E available \in BOOLEAN :
          Shows([page EXCEPT !.asking = FALSE, !.available = available,
                             !.method = IF available /\ page.choice = "none" THEN "email" ELSE @])
    /\ UNCHANGED <<verifying, checking, mailed>>

Leave ==
    /\ page.open
    /\ Shows([page EXCEPT !.open = FALSE])
    /\ UNCHANGED <<verifying, checking, mailed>>

Enter ==
    /\ ~page.open
    /\ Shows(FreshPage)
    /\ UNCHANGED <<verifying, checking, mailed>>

(* The page of the account reads its session: another tab changed it.       *)
Check ==
    /\ checking' = ~checking
    /\ UNCHANGED <<page, form, sending, verifying, mailed>>

-----------------------------------------------------------------------------
(* EmailSignIn *)

TypeMail(m) ==
    /\ FormShown(page) /\ form.challenge = 0 /\ ~Pending /\ ~Checking
    /\ form' = [form EXCEPT !.mail = m]
    /\ UNCHANGED <<page, sending, verifying, checking, mailed>>

(* Fault: what the page does meanwhile is not looked at.                    *)
SendFault ==
    /\ FormShown(page) /\ form.mail # NoMail
    /\ ~Pending /\ ~form.wait
    /\ sending' = [at |-> "sent", mail |-> form.mail]
    /\ UNCHANGED <<page, form, verifying, checking, mailed>>

(* The first request, or another one for the same address. *)
Send ==
    /\ FormShown(page) /\ form.mail # NoMail
    /\ ~Pending /\ ~Checking /\ ~form.wait
    /\ sending' = [at |-> "sent", mail |-> form.mail]
    /\ UNCHANGED <<page, form, verifying, checking, mailed>>

(* Fault: the code that was typed for the last challenge is kept.           *)
SentFault ==
    /\ Pending
    /\ sending' = Idle
    /\ IF sending.at = "told"
       THEN form' = [form EXCEPT !.challenge = sending.challenge, !.shownMail = sending.mail,
                                 !.wait = TRUE]
       ELSE UNCHANGED form
    /\ UNCHANGED <<page, verifying, checking, mailed>>

(* The answer, or a failure, which may hide that the mail went out.         *)
Sent ==
    /\ Pending
    /\ sending' = Idle
    /\ \/ /\ sending.at = "told"
          /\ form' = [form EXCEPT !.challenge = sending.challenge, !.shownMail = sending.mail,
                                  !.code = 0, !.wait = TRUE]
       \/ UNCHANGED form
    /\ UNCHANGED <<page, verifying, checking, mailed>>

Elapse ==
    /\ form.wait
    /\ form' = [form EXCEPT !.wait = FALSE]
    /\ UNCHANGED <<page, sending, verifying, checking, mailed>>

TypeCode ==
    /\ form.challenge # 0 /\ ~Pending /\ ~Checking
    /\ form' = [form EXCEPT !.code = form.challenge]
    /\ UNCHANGED <<page, sending, verifying, checking, mailed>>

ChangeMail ==
    /\ form.challenge # 0 /\ ~Pending /\ ~Checking
    /\ form' = [form EXCEPT !.challenge = 0, !.shownMail = NoMail, !.code = 0, !.wait = FALSE]
    /\ UNCHANGED <<page, sending, verifying, checking, mailed>>

Verify ==
    /\ form.challenge # 0 /\ form.code # 0 /\ ~Pending /\ ~Checking
    /\ verifying' = [at |-> "sent", mail |-> form.shownMail, challenge |-> form.challenge,
                     code |-> form.code]
    /\ UNCHANGED <<page, form, sending, checking, mailed>>

(* The account is signed in, and the page goes on; or it is not.            *)
Verified ==
    /\ verifying # Idle
    /\ verifying' = Idle
    /\ Shows([page EXCEPT !.open = FALSE]) \/ UNCHANGED <<page, form, sending>>
    /\ UNCHANGED <<checking, mailed>>

-----------------------------------------------------------------------------
(* /api/account/email/challenge, in one step: the code is mailed, and its   *)
(* challenge told. A request that is refused, or whose mail is not accepted *)
(* for delivery, is one that fails (Sent); EmailIdentity has the steps.     *)
Mail ==
    /\ sending.at = "sent" /\ Len(mailed) < MaxChallenges
    /\ mailed' = Append(mailed, sending.mail)
    /\ sending' = [at |-> "told", mail |-> sending.mail, challenge |-> Len(mailed')]
    /\ UNCHANGED <<page, form, verifying, checking>>

Next ==
    \/ \E m \in Methods : Choose(m)
    \/ \E m \in Mails : TypeMail(m)
    \/ MethodsTold \/ Leave \/ Enter \/ Check
    \/ Send \/ Sent \/ Elapse \/ TypeCode \/ ChangeMail \/ Verify \/ Verified \/ Mail

Spec == Init /\ [][Next]_vars

-----------------------------------------------------------------------------
(* Properties *)

(* A code is sent back with the challenge it was typed for and the address  *)
(* that challenge was mailed to, although codes are asked for again,        *)
(* addresses changed, and forms left and entered while requests are under   *)
(* way; no code is asked for while another is verified (the form of the     *)
(* verification may be gone); and a method the user chose is not chosen     *)
(* away by a late answer (EmailSignIn.jsx:27, 33, 38; LoginPage.jsx:14).    *)
CodesGoWithTheirChallenge ==
    /\ verifying # Idle => /\ verifying.code = verifying.challenge
                           /\ mailed[verifying.challenge] = verifying.mail
                           /\ ~Pending
    /\ page.choice # "none" => page.method = page.choice
=============================================================================

-------------------------------- MODULE Site --------------------------------
(***************************************************************************)
(* How one tab moves through the public site (public-web/src/App.jsx with   *)
(* researchHistory.js, researchDiscovery.js and accountNavigation.js): the  *)
(* browser's session history, the page that follows it, the reader's place  *)
(* in the research library and the redirects of the sign-in.                *)
(*                                                                         *)
(* The browser keeps a list of entries, each an address and the mark that   *)
(* the page stored with it. The page keeps its route in a state of its own, *)
(* the view of the library, and in memory the position left in each marked  *)
(* entry. An event handler and the effects of the renders it causes are one *)
(* step: React runs them before the next event.                             *)
(*                                                                         *)
(* Pages that behave alike are one here: "data" is any public page that     *)
(* asks who is signed in, "paper" any article of the library, "preview" the *)
(* purchase preview. The account machine is AccountPage's: here its view    *)
(* changes as that module lets it.                                          *)
(***************************************************************************)
EXTENDS Naturals, Sequences, FiniteSets, Functions

CONSTANTS
    Filters,      \* the filters of the library, AllPapers among them
    AllPapers,
    LastPage,     \* of each filter, the last page of its list
    Sections,     \* of the account pages
    Overview,
    Selections,   \* a plan and a term of the purchase preview
    MaxEntries,   \* bound: entries of the history
    MaxY          \* bound: positions of a scrolled library

SiteAssumption ==
    /\ AllPapers \in Filters /\ LastPage \in [Filters -> Nat]
    /\ Overview \in Sections /\ Sections \cap Selections = {}
    /\ MaxEntries \in Nat \ {0} /\ MaxY \in Nat

VARIABLES
    tab,        \* the history and the page, as below
    acct,       \* accountViewState
    requested,  \* accountSessionRequested
    checked,    \* accountIdentityChecked
    farewell    \* accountDeletionReceipt

account == <<acct, requested, checked, farewell>>
vars == <<tab, acct, requested, checked, farewell>>

-----------------------------------------------------------------------------
(* Addresses and views of the library *)

(* open is the topics view; filter stands for the topic and the other       *)
(* filters, each of which sends the reader back to the first page. A view   *)
(* may name the page after the last one of its list.                        *)
DefaultView == [open |-> FALSE, filter |-> AllPapers, page |-> 0]

Views == UNION {[open : BOOLEAN, filter : {f}, page : 0..LastPage[f] + 1] : f \in Filters}

(* researchLocation: what an address says, within the list it speaks of. *)
Located(v) == [v EXCEPT !.page = IF @ > LastPage[v.filter] THEN LastPage[v.filter] ELSE @]

Address(page, view, to) == [page |-> page, view |-> view, to |-> to, hash |-> FALSE]

(* researchHref: an address without a query is that of the default view. *)
Library(v) == Address("hub", v, Overview)
Data == Address("data", DefaultView, Overview)
Paper == Address("paper", DefaultView, Overview)
AccountAt(section) == Address("account", DefaultView, section)
Preview(selection) == Address("preview", DefaultView, selection)

(* to is the destination in the query, "/account" when there is none. *)
Login(to) == Address("login", DefaultView, to)

(* safeLoginDestination *)
Destination(to) == IF to \in Sections THEN AccountAt(to) ELSE Preview(to)

(* What an address of the sign-in is opened for, when it is not a redirect. *)
For(a) == IF a.page = "login" THEN Destination(a.to) ELSE Data

Addresses ==
    {Data, Paper} \cup {Library(v) : v \in Views} \cup {AccountAt(s) : s \in Sections}
        \cup {Preview(s) : s \in Selections} \cup {Login(t) : t \in Sections \cup Selections}

(* route and routeSearch *)
PlaceOf(a) == [page |-> a.page, to |-> a.to]

(* isInPageNavigation *)
InPage(a, b) == a # b /\ [a EXCEPT !.hash = b.hash] = b

-----------------------------------------------------------------------------
(* The tab: its history, at the entry at; the position of the window; the   *)
(* route, the view and the library's position (researchScrollRef) of the    *)
(* page; the mark and the address it is at (readingEntry, readingLocation)  *)
(* and the positions it remembers. Of each entry, left is history: the      *)
(* position the reader left it at since the page was loaded; and asked, of  *)
(* an address of the sign-in, the address it was opened for.                *)

Entry(a, mark, asked) == [addr |-> a, mark |-> mark, left |-> 0, asked |-> asked]

Here(t) == t.hist[t.at].addr

(* crypto.randomUUID: a mark no entry has. Which one is all the same: an    *)
(* entry's own number, when it is free.                                     *)
NoMark == 0
MarksOf(hist) == {hist[i].mark : i \in DOMAIN hist}

NewMark(hist, i) ==
    LET free == (1..MaxEntries + 1) \ MarksOf(hist)
    IN  CHOOSE m \in free : i \in free => m = i

(* createReadingPositions *)
Saved(t) ==
    [t EXCEPT !.positions = [m \in DOMAIN @ \cup {t.reading} |->
                                 IF m = t.reading THEN t.scroll ELSE @[m]],
              !.hist[t.at].left = t.scroll]

(* Fault: there is one position for the library, not one for each entry.    *)
RestoredFault(t, mark) == t.libraryY

Restored(t, mark) == IF mark \in DOMAIN t.positions THEN t.positions[mark] ELSE 0

(* The effect of a new route, or of a new revision of the same: the library *)
(* opens where researchScrollRef says, another page at its top.             *)
Scrolled(t) == [t EXCEPT !.scroll = IF t.place.page = "hub" THEN t.libraryY ELSE 0]

(* Fault: the link to the library leaves the address without the view.      *)
KeptFault(t, a) == a

(* The link to the library without a query keeps the view, and says so in   *)
(* the address.                                                             *)
Kept(t, a) == IF a = Library(DefaultView) THEN Library(t.view) ELSE a

(* goTo. Positions of entries that are gone are never asked for again.      *)
GoTo(t, a, asked, replace) ==
    LET onHub == t.place.page = "hub"
        s     == IF onHub THEN [Saved(t) EXCEPT !.libraryY = t.scroll] ELSE t
        plain == a = Library(DefaultView)
        addr  == Kept(s, a)
        at    == IF replace THEN s.at ELSE s.at + 1
        kept  == SubSeq(s.hist, 1, at - 1)
        after == IF replace THEN SubSeq(s.hist, at + 1, Len(s.hist)) ELSE <<>>
        mark  == NewMark(kept \o after, at)
    IN  Scrolled([s EXCEPT
            !.hist = kept \o <<Entry(addr, mark, asked)>> \o after,
            !.at = at,
            !.reading = mark,
            !.positions = Restrict(@, MarksOf(kept \o after) \cap DOMAIN @),
            !.libraryY = IF a.page = "hub" /\ ~plain /\ a # Library(s.view) THEN 0 ELSE @,
            !.view = IF a.page = "hub" /\ ~plain THEN Located(a.view) ELSE @,
            !.place = PlaceOf(addr),
            !.location = addr])

(* syncRoute, once the browser is at entry i. *)
Sync(t, i) ==
    LET a == t.hist[i].addr
        s == IF t.place.page = "hub" THEN Saved(t) ELSE t
        mark == IF t.hist[i].mark = NoMark THEN NewMark(t.hist, i) ELSE t.hist[i].mark
    IN  IF InPage(t.location, a)
        THEN [t EXCEPT !.at = i, !.location = a, !.hist[i].mark = t.reading]
        ELSE Scrolled([s EXCEPT
                 !.at = i, !.location = a, !.reading = mark, !.hist[i].mark = mark,
                 !.libraryY = IF a.page = "hub" THEN Restored(s, mark) ELSE @,
                 !.view = IF a.page = "hub" THEN Located(a.view) ELSE @,
                 !.place = PlaceOf(a)])

(* The page is loaded at entry i of a history: it keeps the mark it finds.  *)
Loaded(hist, i) ==
    LET mark == IF hist[i].mark = NoMark THEN NewMark(hist, i) ELSE hist[i].mark
        a    == hist[i].addr
    IN  [hist |-> [j \in DOMAIN hist |->
                      [hist[j] EXCEPT !.left = 0, !.mark = IF j = i THEN mark ELSE @]],
         at |-> i, scroll |-> 0, place |-> PlaceOf(a), view |-> Located(a.view),
         libraryY |-> 0, reading |-> mark, location |-> a, positions |-> [m \in {} |-> 0]]

-----------------------------------------------------------------------------
(* The effects of a route and of the account's view *)

Asking(page) == page \in {"account", "login", "data"}

(* Signed in on the sign-in page: the entry becomes the page asked for. It  *)
(* loses its mark, and the page does not note where it is now.              *)
LeaveLogin(t) ==
    LET a == Destination(t.place.to)
    IN  Scrolled([t EXCEPT !.hist[t.at] = Entry(a, NoMark, For(a)), !.place = PlaceOf(a)])

(* Fault: the sign-in page is not told which section to return to.          *)
AskToSignInFault(t) == GoTo(t, Login(Overview), Here(t), TRUE)

(* Signed out on an account page: the entry becomes the sign-in page.       *)
AskToSignIn(t) == GoTo(t, Login(t.place.to), Here(t), TRUE)

(* Fault: the redirect is left to the end of the check, so that a page      *)
(* opened after it stays open.                                              *)
SettledFault(t, a) ==
    CASE t.place.page = "login" /\ a = "authenticated" -> LeaveLogin(t)
      [] t.place.page = "account" /\ a = "signed_out" /\ ~checked /\ ~farewell'
             -> AskToSignIn(t)
      [] OTHER -> t

(* What the effects make of a tab, once the account's view is a. *)
Settled(t, a) ==
    CASE t.place.page = "login" /\ a = "authenticated" -> LeaveLogin(t)
      [] t.place.page = "account" /\ a = "signed_out" /\ checked' /\ ~farewell'
             -> AskToSignIn(t)
      [] OTHER -> t

(* A page that needs the account asks for it, once. *)
Shows(t) ==
    LET first == Asking(t.place.page) /\ ~requested
    IN  /\ UNCHANGED <<checked, farewell>>
        /\ requested' = (requested \/ first)
        /\ acct' = (IF first THEN "checking" ELSE acct)
        /\ tab' = Settled(t, acct)

-----------------------------------------------------------------------------
(* Steps of the reader *)

Load(hist, i) ==
    /\ tab' = Loaded(hist, i)
    /\ requested' = Asking(hist[i].addr.page)
    /\ acct' = (IF requested' THEN "checking" ELSE "signed_out")
    /\ checked' = FALSE /\ farewell' = FALSE

Reload == Load(tab.hist, tab.at)

Scroll ==
    /\ tab.place.page = "hub"
    /\ \E y \in 0..MaxY : tab' = [tab EXCEPT !.scroll = y]
    /\ UNCHANGED account

(* The header, and its search.                                              *)
HeaderLinks == {Data, Paper, Library(DefaultView), AccountAt(Overview)}

(* The way back from an article, and the sections of the account.           *)
ArticleLinks == {Library(tab.view)}
SectionLinks == {AccountAt(s) : s \in Sections}

(* Another plan or term; and the sign-in, for a reader who is signed out.   *)
PlanLinks == {Preview(s) : s \in Selections}
PreviewLinks == PlanLinks \cup (IF acct = "signed_out" THEN {Login(tab.place.to)} ELSE {})

(* The links of the page that the route selects. *)
Links ==
    HeaderLinks \cup
        CASE tab.place.page = "paper"   -> ArticleLinks
          [] tab.place.page = "account" -> SectionLinks
          [] tab.place.page = "data"    -> PlanLinks
          [] tab.place.page = "preview" -> PreviewLinks
          [] OTHER -> {}

Visit(a) ==
    /\ tab.at < MaxEntries
    /\ Shows(GoTo(tab, a, For(a), FALSE))

(* changeResearchView, by the controls of ResearchHub. *)
Changed(v) ==
    {[DefaultView EXCEPT !.open = TRUE, !.filter = f] : f \in Filters}
        \cup {[v EXCEPT !.open = o] : o \in BOOLEAN}
        \cup (IF v.open THEN {[v EXCEPT !.filter = f, !.page = 0] : f \in Filters} ELSE {})
        \cup (IF v.open THEN {[v EXCEPT !.page = p] : p \in 0..LastPage[v.filter]} ELSE {})

(* Where the window then is, Scroll says. *)
ChangeView ==
    /\ tab.place.page = "hub"
    /\ \E v \in Changed(tab.view) :
          tab' = [tab EXCEPT !.view = v, !.hist[tab.at].addr = Library(v),
                             !.location = Library(v)]
    /\ UNCHANGED account

(* A link to a section of the article: the browser adds an entry of its own *)
(* and calls syncRoute.                                                     *)
Fragment ==
    /\ tab.at < MaxEntries /\ tab.place.page = "paper" /\ ~Here(tab).hash
    /\ LET a == [Here(tab) EXCEPT !.hash = TRUE]
       IN  tab' = Sync([tab EXCEPT !.hist = SubSeq(@, 1, tab.at) \o <<Entry(a, NoMark, For(a))>>],
                       tab.at + 1)
    /\ UNCHANGED account

(* Back, forward, or an entry chosen from the list of them. *)
Pop(i) == i \in DOMAIN tab.hist \ {tab.at} /\ Shows(Sync(tab, i))

-----------------------------------------------------------------------------
(* Steps of the account machine *)

AccountStates == {"checking", "authenticated", "signed_out", "unavailable"}

(* The check, or the sign-in, ends. *)
AccountAnswers ==
    /\ acct = "checking"
    /\ acct' \in AccountStates \ {"checking"}
    /\ checked' = TRUE
    /\ farewell' = (farewell /\ acct' # "authenticated")
    /\ tab' = Settled(tab, acct')
    /\ UNCHANGED requested

(* A new check, or the form of the sign-in is sent. *)
AccountChecks ==
    /\ requested /\ acct # "checking"
    /\ acct' = "checking"
    /\ UNCHANGED <<tab, requested, checked, farewell>>

(* The session is over, by a sign-out or on its own; or the account is      *)
(* deleted, which the page that asked for it confirms where it is.          *)
AccountLeaves ==
    /\ acct = "authenticated"
    /\ acct' = "signed_out"
    /\ \/ farewell' = FALSE
       \/ tab.place.page = "account" /\ farewell' = TRUE
    /\ UNCHANGED <<requested, checked>>
    /\ tab' = Settled(tab, "signed_out")

Init ==
    /\ \E a \in Addresses :
          /\ tab = Loaded(<<Entry(a, NoMark, For(a))>>, 1)
          /\ requested = Asking(a.page)
    /\ acct = (IF requested THEN "checking" ELSE "signed_out")
    /\ checked = FALSE /\ farewell = FALSE

Next ==
    \/ Reload \/ Scroll \/ ChangeView \/ Fragment
    \/ \E a \in Links : Visit(a)
    \/ \E i \in 1..MaxEntries : Pop(i)
    \/ AccountAnswers \/ AccountChecks \/ AccountLeaves

Spec == Init /\ [][Next]_vars

-----------------------------------------------------------------------------
(* Properties *)

(* The page is the one of its address, and so is the view of the library,   *)
(* after any mixture of links, filters, back and forward, redirects and     *)
(* answers about the account: a reload, or the address sent to someone      *)
(* else, shows the same (public-web/README.md:232-233).                     *)
PageMatchesAddress ==
    /\ tab.place = PlaceOf(Here(tab))
    /\ tab.place.page = "hub" => tab.view = Located(Here(tab).view)

(* Back or forward into the library opens it where the reader left that     *)
(* entry, whatever other entries of the library were read in between: the   *)
(* position goes with the mark of the entry (README.md:295-296).            *)
BackRestoresPosition ==
    [][tab'.at # tab.at /\ tab'.place.page = "hub"
          => \A i \in 1..MaxEntries : Pop(i) => tab'.scroll = tab.hist[i].left]_vars

(* Signing in leads to what was asked for: the page the reader was turned   *)
(* away from, or the selection of the preview, also when the answer comes   *)
(* after the reader went back and forth (App.jsx:849-861). And no account   *)
(* page stays open to a reader who is signed out.                           *)
SignInReturns ==
    [][/\ /\ acct' = "authenticated" /\ tab' # tab
          /\ AccountAnswers \/ \E i \in 1..MaxEntries : Pop(i)
          /\ tab.hist[tab'.at].addr.page = "login"
          => Here(tab') = tab.hist[tab'.at].asked
       /\ tab'.place.page = "account" /\ acct' = "signed_out" /\ checked' => farewell']_vars

(* Both.                                                                    *)
ReaderIsBroughtBack == BackRestoresPosition /\ SignInReturns
=============================================================================

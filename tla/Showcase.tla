------------------------------ MODULE Showcase ------------------------------
(***************************************************************************)
(* What a visitor chooses on the public site without an account: a base     *)
(* plan and its term (BasePlanShowcase and PurchasePreview), carried from   *)
(* page to page in addresses, and the language or the appearance, carried   *)
(* from visit to visit in localStorage.                                     *)
(*                                                                         *)
(* The two do not touch each other: SelectionNext and PreferenceNext. One   *)
(* preference stands for both; they differ in what they resolve to.         *)
(***************************************************************************)
EXTENDS Naturals, Sequences

CONSTANTS
    BasePlans,     \* BASE_PLANS, in their order
    MonthlyMinor,  \* monthlyMinor of each
    Unchosen,      \* no selection
    MaxVisits,     \* bound: entries of the tab's history
    Values         \* what a preference may be, besides "system"

PlanIds == {BasePlans[i] : i \in DOMAIN BasePlans}
Terms == {"monthly", "annual"}
PlanChoices == [plan : PlanIds, period : Terms]

ShowcaseAssumption ==
    /\ BasePlans \in Seq(PlanIds) /\ BasePlans # <<>>
    /\ \A i, j \in DOMAIN BasePlans : BasePlans[i] = BasePlans[j] => i = j
    /\ MonthlyMinor \in [PlanIds -> Nat]
    /\ \A plan \in PlanIds : MonthlyMinor[plan] % 100 = 0   \* whole yuan
    /\ MaxVisits \in Nat \ {0} /\ Values # {} /\ "system" \notin Values
    /\ Unchosen \notin PlanChoices

VARIABLES
    visits, position,   \* the history of the tab
    index, period,      \* pricingPlanIndex, pricingBillingPeriod
    journey,            \* history: what the visitor chose last, if anything
    choice, saved,      \* localeChoice, and td-locale
    resolved,           \* locale
    environment,        \* what the browser asks for (external)
    heard,              \* the choice the listener of its changes was given
    due                 \* the effect of a choice has not run yet

selection == <<visits, position, index, period, journey>>
preference == <<choice, saved, resolved, environment, heard, due>>

-----------------------------------------------------------------------------
(* The plan *)

\* An address and what readPreviewSelection reads from it; of the sign-in,
\* from the destination in its query.
At(page, choiceOf) == [page |-> page, of |-> choiceOf]
Pages ==
    {At(page, s) : page \in {"pricing", "preview"}, s \in PlanChoices \cup {Unchosen}}
        \cup {At("login", s) : s \in PlanChoices} \cup {At("elsewhere", Unchosen)}

here == visits[position]
Card == [plan |-> BasePlans[index], period |-> period]

(* What the page is about: the card, or what its address says.              *)
About == IF here.page = "pricing" THEN Card ELSE here.of

IndexOf(plan) == CHOOSE i \in DOMAIN BasePlans : BasePlans[i] = plan

(* The card of a page that is loaded: that of its address, on whatever      *)
(* page; the destination of a sign-in is not looked into.                   *)
LoadedIndex(address) ==
    IF address.page = "login" \/ address.of = Unchosen THEN 1 ELSE IndexOf(address.of.plan)
LoadedPeriod(address) ==
    IF address.page = "login" \/ address.of = Unchosen THEN "monthly" ELSE address.of.period

(* Fault: only the plan is taken from the address.                          *)
FollowAddressFault(address) ==
    IF address # here /\ address.page = "pricing" /\ address.of # Unchosen
    THEN index' = IndexOf(address.of.plan) /\ UNCHANGED period
    ELSE UNCHANGED <<index, period>>

(* The effect on the address, if it changed: the page of the plans takes    *)
(* the selection an address names, and keeps its own otherwise.             *)
FollowAddress(address) ==
    IF address # here /\ address.page = "pricing" /\ address.of # Unchosen
    THEN index' = IndexOf(address.of.plan) /\ period' = address.of.period
    ELSE UNCHANGED <<index, period>>

Push(address) ==
    /\ position < MaxVisits
    /\ visits' = Append(SubSeq(visits, 1, position), address)
    /\ position' = position + 1
    /\ FollowAddress(address)

Choose(plan) ==
    /\ here.page = "pricing"
    /\ index' = IndexOf(plan) /\ journey' = [About EXCEPT !.plan = plan]
    /\ UNCHANGED <<visits, position, period>>

(* The arrows. The journey follows the card: there is no more to what is    *)
(* meant than the next card of the round.                                   *)
Turn(steps) ==
    /\ here.page = "pricing"
    /\ index' = ((index - 1 + steps) % Len(BasePlans)) + 1
    /\ journey' = [plan |-> BasePlans[index'], period |-> period]
    /\ UNCHANGED <<visits, position, period>>

Bill(term) ==
    /\ here.page = "pricing"
    /\ period' = term /\ journey' = [About EXCEPT !.period = term]
    /\ UNCHANGED <<visits, position, index>>

(* Fault: the link that goes back to the plans names no term.               *)
SelectionLinksFault ==
    CASE here.page = "pricing" -> {At("preview", Card), At("login", Card)}
      [] here.page = "preview" /\ here.of # Unchosen ->
            {At("login", here.of), At("pricing", Unchosen)}
      [] OTHER -> {}

(* The links that carry the selection on: to the preview, to the sign-in    *)
(* with the preview as its destination, back to the plans.                  *)
SelectionLinks ==
    CASE here.page = "pricing" -> {At("preview", Card), At("login", Card)}
      [] here.page = "preview" /\ here.of # Unchosen ->
            {At("login", here.of), At("pricing", here.of)}
      [] OTHER -> {}

Carry(address) ==
    /\ address \in SelectionLinks
    /\ Push(address) /\ UNCHANGED journey

(* The options of the preview are links to the preview of another.          *)
Preview(s) ==
    /\ here.page = "preview" /\ here.of # Unchosen
    /\ s.plan = here.of.plan \/ s.period = here.of.period
    /\ Push(At("preview", s)) /\ journey' = s

(* The sign-in is over: safeLoginDestination takes its place.               *)
SignIn ==
    /\ here.page = "login"
    /\ visits' = [visits EXCEPT ![position] = At("preview", here.of)]
    /\ UNCHANGED <<position, index, period, journey>>

(* Everything else: menus, the buttons of the browser, a reload. What is    *)
(* meant is what the address says, if it says anything.                     *)
Wander ==
    \/ \E page \in {"pricing", "elsewhere"} :
          /\ Push(At(page, Unchosen)) /\ journey' = Unchosen
    \/ \E p \in DOMAIN visits \ {position} :
          /\ position' = p /\ UNCHANGED visits
          /\ FollowAddress(visits[p])
          /\ journey' = IF visits[p] = here THEN journey ELSE visits[p].of
    \/ /\ index' = LoadedIndex(here) /\ period' = LoadedPeriod(here)
       /\ journey' = here.of
       /\ UNCHANGED <<visits, position>>

SelectionInit ==
    /\ \E address \in Pages :
          /\ visits = <<address>> /\ journey = address.of
          /\ index = LoadedIndex(address) /\ period = LoadedPeriod(address)
    /\ position = 1

SelectionNext ==
    \/ \E plan \in PlanIds : Choose(plan)
    \/ \E steps \in {1, Len(BasePlans) - 1} : Turn(steps)
    \/ \E term \in Terms : Bill(term)
    \/ \E address \in Pages : Carry(address)
    \/ \E s \in PlanChoices : Preview(s)
    \/ SignIn \/ Wander

(* getPlanPrice, in minor units: the annual term is paid for at once, at a  *)
(* tenth less.                                                              *)
Price(plan, term) ==
    LET undiscounted == MonthlyMinor[plan] * (IF term = "annual" THEN 12 ELSE 1)
        total == IF term = "annual" THEN (undiscounted * 90) \div 100 ELSE undiscounted
    IN  [total |-> total, savings |-> undiscounted - total,
         monthly |-> total \div (IF term = "annual" THEN 12 ELSE 1)]

-----------------------------------------------------------------------------
(* The preference *)

(* resolveLanguage; themeChoice, or that of the system.                     *)
Resolve(c, asked) == IF c = "system" THEN asked ELSE c

(* normalizeLanguageChoice, of nothing or of what was stored.               *)
Normal(c) == IF c \in Values THEN c ELSE "system"

(* Fault: the listener is registered once.                                  *)
EffectFault ==
    /\ due /\ due' = FALSE
    /\ resolved' = Resolve(choice, environment)
    /\ UNCHANGED <<choice, saved, environment, heard>>

(* The effect of a choice: the value is resolved anew, and the listener     *)
(* replaced by one that knows the choice.                                   *)
Effect ==
    /\ due /\ due' = FALSE
    /\ heard' = choice /\ resolved' = Resolve(choice, environment)
    /\ UNCHANGED <<choice, saved, environment>>

(* chooseLocale resolves at once; chooseTheme leaves it to the effect.      *)
Prefer(c) ==
    /\ choice' = c /\ saved' = c /\ due' = (c # choice \/ due)
    /\ resolved' \in {Resolve(c, environment), resolved}
    /\ UNCHANGED <<environment, heard>>

(* The browser's languages or its appearance change, and the listener is    *)
(* told.                                                                    *)
EnvironmentChanges(v) ==
    /\ v # environment /\ environment' = v
    /\ resolved' = Resolve(heard, v)
    /\ UNCHANGED <<choice, saved, heard, due>>

(* Another tab saves its choice; this one does not look.                    *)
OtherTabPrefers(c) == saved' = c /\ UNCHANGED <<choice, resolved, environment, heard, due>>

Reopen ==
    /\ choice' = Normal(saved) /\ heard' = Normal(saved) /\ due' = FALSE
    /\ resolved' = Resolve(Normal(saved), environment)
    /\ UNCHANGED <<saved, environment>>

PreferenceInit ==
    /\ saved \in Values \cup {"system", "nothing"} /\ environment \in Values
    /\ choice = Normal(saved) /\ heard = choice /\ due = FALSE
    /\ resolved = Resolve(choice, environment)

PreferenceNext ==
    \/ \E c \in Values \cup {"system"} : Prefer(c) \/ OtherTabPrefers(c)
    \/ \E v \in Values : EnvironmentChanges(v)
    \/ Effect \/ Reopen

-----------------------------------------------------------------------------
Init == SelectionInit /\ PreferenceInit

Next ==
    \/ SelectionNext /\ UNCHANGED preference
    \/ PreferenceNext /\ UNCHANGED selection

Spec == Init /\ [][Next]_<<selection, preference>>

-----------------------------------------------------------------------------
(* Properties *)

(* From card to preview, to the sign-in and back, and back to the cards,    *)
(* every page is about the plan and the term the visitor chose last         *)
(* (App.jsx:1051-1057, purchasePreview.js:20-28); the price of a month in   *)
(* an annual term is a twelfth of what is charged (pricing.js:14-16).       *)
SelectionIsKept ==
    /\ journey # Unchosen => About = journey
    /\ \A plan \in PlanIds :
          LET annual == Price(plan, "annual")
          IN  /\ annual.monthly * 12 = annual.total
              /\ annual.total + annual.savings = Price(plan, "monthly").total * 12

(* Once its effects have run, a page shows the preference that was chosen,  *)
(* and follows the browser exactly when that is the choice                  *)
(* (App.jsx:985-999).                                                       *)
PreferenceIsShown == ~due => resolved = Resolve(choice, environment)
=============================================================================

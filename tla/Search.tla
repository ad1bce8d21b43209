------------------------------- MODULE Search -------------------------------
(***************************************************************************)
(* The search of the public site (public-web/src/searchIndex.js and the     *)
(* search box of App.jsx): which items a query finds, in which order, and   *)
(* the list the box shows of them, moved through by keys and pointer.       *)
(*                                                                         *)
(* Words are sequences of letters where their letters matter (one edit      *)
(* apart); otherwise a query is a name, and Facts says what the comparison  *)
(* of its text with an item's fields gives in each language of the page.    *)
(***************************************************************************)
EXTENDS Integers, Sequences, FiniteSets, SequencesExt

CONSTANTS
    Items,        \* the index, a sequence
    GroupOf,      \* the group of each item
    GroupOrder,   \* the groups, in the order of the page
    Queries,      \* normalized; NoQuery among them
    NoQuery,
    NamesGroup,   \* of a query: the groups it is a name of
    Locales,
    Facts,        \* [locale, query, item]: how the fields compare
    PerGroup,     \* results shown of a group before it is expanded (4)
    MaxRecent     \* recent searches (5)

VARIABLES
    query,       \* globalQuery
    shown,       \* globalSearchOpen
    active,      \* activeSearchIndex, counted from 1 here: 0 is none
    expanded,    \* expandedSearchGroups
    locale,
    recent,      \* recentSearches
    focus,       \* "input", "list" or "away"
    opened,      \* the item the page went to last
    switched     \* history: the language changed since the query was typed

vars == <<query, shown, active, expanded, locale, recent, focus, opened, switched>>

-----------------------------------------------------------------------------
(* One edit apart *)

(* Where two words of one length differ. *)
Differences(left, right) == {i \in DOMAIN left : left[i] # right[i]}

(* The loop over two words, one a letter longer: the first letter that      *)
(* differs is skipped, and no other may.                                    *)
SkipsOne(shorter, longer) ==
    \A i \in DOMAIN shorter :
        shorter[i] # longer[i] => SubSeq(shorter, i, Len(shorter)) = SubSeq(longer, i + 1, Len(longer))

(* Fault: letters exchanged need not stand side by side.                    *)
IsOneEditApartFault(left, right) ==
    \/ left = right
    \/ /\ Len(left) = Len(right)
       /\ \/ Cardinality(Differences(left, right)) = 1
          \/ \E i, j \in DOMAIN left :
                /\ Differences(left, right) = {i, j}
                /\ left[i] = right[j] /\ left[j] = right[i]
    \/ Len(left) + 1 = Len(right) /\ SkipsOne(left, right)
    \/ Len(right) + 1 = Len(left) /\ SkipsOne(right, left)

IsOneEditApart(left, right) ==
    \/ left = right
    \/ /\ Len(left) = Len(right)
       /\ \/ Cardinality(Differences(left, right)) = 1
          \/ \E i \in DOMAIN left :
                /\ Differences(left, right) = {i, i + 1}
                /\ left[i] = right[i + 1] /\ left[i + 1] = right[i]
    \/ Len(left) + 1 = Len(right) /\ SkipsOne(left, right)
    \/ Len(right) + 1 = Len(left) /\ SkipsOne(right, left)

(* The words an edit makes of a word: a letter replaced, left out, put in,  *)
(* or exchanged with its neighbour.                                         *)
Edits(word, Letters) ==
    {[word EXCEPT ![i] = c] : i \in DOMAIN word, c \in Letters}
        \cup {RemoveAt(word, i) : i \in DOMAIN word}
        \cup {InsertAt(word, i, c) : i \in 1..Len(word) + 1, c \in Letters}
        \cup {[word EXCEPT ![i] = word[i + 1], ![i + 1] = word[i]] : i \in 1..Len(word) - 1}

-----------------------------------------------------------------------------
(* What a query finds *)

(* rankSearchItem. label and id compare as exact, prefix, within or apart,  *)
(* type as exact, within or apart; literal and close count the words of the *)
(* query found in the item's document as they are, or one edit apart;       *)
(* missed are found in neither way.                                         *)
Score(f) ==
    (CASE f.label = "exact" -> 140 [] f.label = "prefix" -> 110 [] f.label = "within" -> 90
       [] OTHER -> 0)
    + (CASE f.id = "exact" -> 130 [] f.id = "prefix" -> 95 [] f.id = "within" -> 75 [] OTHER -> 0)
    + (CASE f.type = "exact" -> 70 [] f.type = "within" -> 45 [] OTHER -> 0)
    + (IF f.description THEN 35 ELSE 0) + 12 * f.literal + 5 * f.close

Matches(q, l, group) ==
    SelectSeq(Items, LAMBDA item : GroupOf[item] = group /\ ~Facts[l][q][item].missed)

(* The best first; of two alike, the first of the index.                    *)
Ranked(q, l, group) ==
    LET found == Matches(q, l, group)
        before(i, j) == \/ Score(Facts[l][q][found[i]]) > Score(Facts[l][q][found[j]])
                        \/ /\ Score(Facts[l][q][found[i]]) = Score(Facts[l][q][found[j]])
                           /\ i < j
        places == SetToSortSeq(DOMAIN found, before)
    IN  [n \in DOMAIN places |-> found[places[n]]]

(* searchGroups: the groups the query names come first.                     *)
Groups(q) ==
    LET named(g) == g \in NamesGroup[q]
        others(g) == g \notin NamesGroup[q]
    IN  SelectSeq(GroupOrder, named) \o SelectSeq(GroupOrder, others)

Listed(q, l, open, group) ==
    LET all == Ranked(q, l, group)
    IN  IF group \in open \/ Len(all) <= PerGroup THEN all ELSE SubSeq(all, 1, PerGroup)

(* globalResults *)
Results(q, l, open) ==
    IF q = NoQuery THEN <<>>
    ELSE FlattenSeq([n \in DOMAIN Groups(q) |-> Listed(q, l, open, Groups(q)[n])])

Count == Len(Results(query, locale, expanded))

(* Fault: the description is not looked at. *)
MatchKindFault(f) ==
    IF f.label # "apart" THEN "none" ELSE IF f.id # "apart" THEN "id"
    ELSE IF f.type # "apart" THEN "none"
    ELSE IF f.close > 0 THEN "fuzzy" ELSE "alias"

(* getSearchMatchKind: what a result says of why it is listed; "none" when  *)
(* the query can be read in it.                                             *)
MatchKind(f) ==
    IF f.label # "apart" THEN "none" ELSE IF f.id # "apart" THEN "id"
    ELSE IF f.type # "apart" \/ f.description THEN "none"
    ELSE IF f.close > 0 THEN "fuzzy" ELSE "alias"

-----------------------------------------------------------------------------
(* The box *)

Init ==
    /\ query = NoQuery /\ shown = FALSE /\ active = 0 /\ expanded = {}
    /\ locale \in Locales /\ recent = <<>> /\ focus = "away"
    /\ opened = "nothing" /\ switched = FALSE

(* A query typed, cleared, suggested or taken from the recent ones: groups  *)
(* are expanded for one query only. (Typed anew, the same query is not      *)
(* changed.)                                                                *)
Put(q) ==
    /\ query' = q /\ active' = 0
    /\ expanded' = IF q = query THEN expanded ELSE {}
    /\ switched' = IF q = query THEN switched ELSE FALSE

(* Fault: the highlight stays where it was.                                 *)
TypeFault(q) ==
    /\ focus = "input"
    /\ query' = q /\ shown' = TRUE /\ expanded' = {} /\ switched' = FALSE
    /\ UNCHANGED <<active, locale, recent, focus, opened>>

Type(q) ==
    /\ focus = "input"
    /\ Put(q) /\ shown' = TRUE
    /\ UNCHANGED <<locale, recent, focus, opened>>

Clear ==
    /\ query # NoQuery
    /\ Put(NoQuery) /\ focus' = "input" /\ shown' = TRUE
    /\ UNCHANGED <<locale, recent, opened>>

(* The input is entered, by pointer, key or shortcut.                       *)
Enter ==
    /\ focus # "input"
    /\ focus' = "input" /\ shown' = TRUE
    /\ UNCHANGED <<query, active, expanded, locale, recent, opened, switched>>

(* Focus moves into the list, or away, which closes it.                     *)
Leave ==
    /\ focus # "away"
    /\ \/ focus = "input" /\ shown /\ focus' = "list" /\ UNCHANGED shown
       \/ focus' = "away" /\ shown' = FALSE
    /\ UNCHANGED <<query, active, expanded, locale, recent, opened, switched>>

Escape ==
    /\ focus = "input"
    /\ shown' = FALSE /\ active' = 0 /\ focus' = "away"
    /\ UNCHANGED <<query, expanded, locale, recent, opened, switched>>

(* getSearchNavigationIndex *)
Moved(key) ==
    CASE key = "Home" -> 1
      [] key = "End" -> Count
      [] key = "ArrowDown" -> IF active >= Count THEN 1 ELSE active + 1
      [] key = "ArrowUp" -> IF active <= 1 THEN Count ELSE active - 1

Move(key) ==
    /\ focus = "input" /\ Count > 0
    /\ active' = Moved(key) /\ shown' = TRUE
    /\ UNCHANGED <<query, expanded, locale, recent, focus, opened, switched>>

Hover(n) ==
    /\ shown /\ n <= Count
    /\ active' = n
    /\ UNCHANGED <<query, shown, expanded, locale, recent, focus, opened, switched>>

(* openSearchItem: the query becomes the most recent one. *)
Left ==
    /\ recent' = LET others == SelectSeq(recent, LAMBDA q : q # query)
                 IN  <<query>> \o SubSeq(others, 1, IF Len(others) < MaxRecent THEN Len(others)
                                                    ELSE MaxRecent - 1)
    /\ Put(NoQuery) /\ shown' = FALSE
    /\ UNCHANGED <<locale, focus>>

(* The key opens what is highlighted. A highlight past the end of the list  *)
(* opens nothing: the search is left all the same.                          *)
Choose ==
    /\ focus = "input" /\ Count > 0 /\ active > 0
    /\ opened' = IF active <= Count THEN Results(query, locale, expanded)[active] ELSE opened
    /\ Left

Click(n) ==
    /\ shown /\ n <= Count
    /\ opened' = Results(query, locale, expanded)[n]
    /\ Left

Expand(group) ==
    /\ shown /\ query # NoQuery /\ group \notin expanded
    /\ Len(Ranked(query, locale, group)) > PerGroup
    /\ expanded' = expanded \cup {group}
    /\ focus' = "list"
    /\ UNCHANGED <<query, shown, active, locale, recent, opened, switched>>

(* chooseLocale, or the language of the browser.                            *)
Translate ==
    /\ locale' \in Locales \ {locale}
    /\ switched' = TRUE
    /\ UNCHANGED <<query, shown, active, expanded, recent, focus, opened>>

(* The list of the recent queries: one may be taken or removed, or all are. *)
Recall(n) ==
    /\ shown /\ query = NoQuery /\ n \in DOMAIN recent
    /\ \/ Put(recent[n]) /\ UNCHANGED <<shown, recent>>
       \/ /\ recent' \in {RemoveAt(recent, n), <<>>}
          /\ UNCHANGED <<query, shown, active, expanded, switched>>
    /\ UNCHANGED <<locale, focus, opened>>

Next ==
    \/ \E q \in Queries : Type(q)
    \/ Clear \/ Enter \/ Leave \/ Escape \/ Choose \/ Translate
    \/ \E key \in {"Home", "End", "ArrowDown", "ArrowUp"} : Move(key)
    \/ \E n \in DOMAIN Items : Hover(n) \/ Click(n) \/ Recall(n)
    \/ \E group \in ToSet(GroupOrder) : Expand(group)

Spec == Init /\ [][Next]_vars

-----------------------------------------------------------------------------
(* Properties *)

(* The highlight is on an item of the list, whatever keys, pointer, recent  *)
(* queries and expanded groups did to it, unless the language of the page   *)
(* was changed under it: the list of the other language may be shorter.     *)
HighlightIsListed == active > 0 /\ active > Count => switched

(* Whatever language the page is in, a result in which the query cannot be  *)
(* read says how it was found, and only such a one, or one whose identifier *)
(* it is, says anything (searchIndex.js:161-165).                           *)
ResultsExplainThemselves ==
    \A item \in ToSet(Results(query, locale, expanded)) :
        LET f == Facts[locale][query][item]
            read == f.label # "apart" \/ f.type # "apart" \/ f.description
        IN  /\ MatchKind(f) = "none" => read
            /\ MatchKind(f) \in {"fuzzy", "alias"} => (~read /\ f.id = "apart")

(* Two words match as one edit apart exactly when one of the edits a typing *)
(* slip makes turns the first into the second: a letter replaced, left out, *)
(* put in, or exchanged with its neighbour (searchIndex.js).                *)
OneSlipIsForgiven(left, right, Letters) ==
    IsOneEditApart(left, right) <=> (right = left \/ right \in Edits(left, Letters))
=============================================================================

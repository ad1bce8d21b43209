---------------------------- MODULE PointInTime ----------------------------
(***************************************************************************)
(* The point-in-time examples of the public site (public-web/src/           *)
(* tutorialExamples.js), which readers are invited to copy: what an archive *)
(* of observations says of an earlier moment.                               *)
(*                                                                         *)
(* A row keeps when its fact was published and when the archive first saw   *)
(* it, which here is the clock when it is appended. The examples take the   *)
(* fields of a row by other names (firstSeenAt, contentHash, observedAt);   *)
(* a row that lacks one is left out, but for a time of publication that     *)
(* cannot be read. An example that throws refuses, whatever the reason.     *)
(***************************************************************************)
EXTENDS Integers, Sequences

CONSTANTS
    Keys,       \* entity, period, metric and unit; or the document; or the series
    Versions,
    Contents,   \* values, or hashes of contents
    NoTime,     \* a text that is no time
    NoRow,
    Sessions,   \* the openings of the sessions of the calendar
    LastTime,   \* bound of the clock
    MaxRows,    \* bound of the archive
    MaxAge      \* maxAgeSeconds, in ticks

Times == 0..LastTime

PointInTimeAssumption ==
    /\ LastTime \in Nat /\ MaxRows \in Nat /\ MaxAge \in Nat
    /\ Sessions \subseteq Times /\ NoTime \notin Times

VARIABLES rows, clock

vars == <<rows, clock>>

Row == [key : Keys, version : Versions, content : Contents,
        published : Times \cup {NoTime}, seen : Times]

Refused == {NoRow}

Dated(archive) == \A i \in DOMAIN archive : archive[i].published # NoTime

(* Two rows that name one version of one thing.                            *)
SameVersion(r, s) == r.key = s.key /\ r.version = s.version

(* Fault: a fact counts from its publication on, whenever it was seen.      *)
AvailableFault(row) == row.published

(* A fact counts once it was published and seen.                            *)
Available(row) == IF row.published >= row.seen THEN row.published ELSE row.seen

(* The places of the rows a reader could have known by the cutoff.          *)
Eligible(archive, cutoff) == {i \in DOMAIN archive : Available(archive[i]) <= cutoff}

(* selectAsOf: of every key the row published last. A version recorded      *)
(* twice is refused, also one that does not count yet; two publications at  *)
(* one moment only when both count.                                         *)
SelectAsOf(archive, cutoff) ==
    LET known == Eligible(archive, cutoff)
    IN  IF \/ ~Dated(archive)
           \/ \E i, j \in DOMAIN archive : i # j /\ SameVersion(archive[i], archive[j])
           \/ \E i, j \in known : /\ i # j /\ archive[i].key = archive[j].key
                                  /\ archive[i].published = archive[j].published
        THEN Refused
        ELSE {archive[i] : i \in {i \in known :
                 \A j \in known : archive[j].key = archive[i].key
                                      => archive[j].published <= archive[i].published}}

(* alignEvents: the first session that opens strictly after an event is     *)
(* known, if the calendar has one; an event without a time is left for      *)
(* review. Repeated rows count once, contradicting ones are refused.        *)
AlignEvents(archive) ==
    IF \E i, j \in DOMAIN archive : SameVersion(archive[i], archive[j]) /\ archive[i] # archive[j]
    THEN Refused
    ELSE {[event |-> archive[i],
           sessions |-> IF archive[i].published = NoTime THEN {NoTime}
                        ELSE {s \in Sessions : /\ s > Available(archive[i])
                                               /\ \A t \in Sessions :
                                                     t > Available(archive[i]) => s <= t}] :
          i \in DOMAIN archive}

(* preserveDocumentVersions: the versions known by the cutoff, each with    *)
(* the one before it: the first, the same content again, or a change.       *)
PreserveDocumentVersions(archive, cutoff) ==
    LET known == {archive[i] : i \in Eligible(archive, cutoff)}
        earlier(r) == {s \in known : s.key = r.key /\ Available(s) < Available(r)}
        prior(r) == {s \in earlier(r) : \A t \in earlier(r) : Available(t) <= Available(s)}
    IN  IF \/ ~Dated(archive)
           \/ \E i, j \in DOMAIN archive : /\ SameVersion(archive[i], archive[j])
                                           /\ archive[i] # archive[j]
           \/ \E r, s \in known : r # s /\ r.key = s.key /\ Available(r) = Available(s)
        THEN Refused
        ELSE {[document |-> r, before |-> {s.content : s \in prior(r)}] : r \in known}

(* alignSpotAndOpenInterest, of one series at the end of one bar: the       *)
(* latest observation known by then, unless it is too old.                  *)
AlignObservation(archive, key, end) ==
    LET series == {i \in DOMAIN archive : archive[i].key = key}
        known == {i \in series : Available(archive[i]) <= end}
    IN  IF \/ \E i \in series : archive[i].published = NoTime
           \/ \E i, j \in series : i # j /\ archive[i].published = archive[j].published
        THEN Refused
        ELSE {archive[i] : i \in {i \in known :
                 /\ end - archive[i].published <= MaxAge
                 /\ \A j \in known : archive[j].published <= archive[i].published}}

-----------------------------------------------------------------------------
(* The archive *)

Init == rows = <<>> /\ clock = 0

(* A row is appended when it is seen: a new fact, a revision, a backfill of *)
(* an old one, an announcement, or the same again.                          *)
Capture(row) ==
    /\ Len(rows) < MaxRows
    /\ row.seen = clock
    /\ rows' = Append(rows, row)
    /\ UNCHANGED clock

Tick ==
    /\ clock < LastTime
    /\ clock' = clock + 1
    /\ UNCHANGED rows

Next == Tick \/ \E row \in Row : Capture(row)

Spec == Init /\ [][Next]_vars

-----------------------------------------------------------------------------
(* Properties *)

StandsOrRefused(answer, answerLater) == answerLater = answer \/ answerLater = Refused

(* What was said of a moment that has passed is not changed by what the     *)
(* archive learns later, whatever its date: it stands, or it is refused.    *)
(* Nor is an event ever put in a session that was open before the archive   *)
(* knew of it (tutorialExamples.js:34, 60, 95, 137).                        *)
NoLookAhead ==
    [][/\ \A moment \in Times : moment < clock =>
             /\ StandsOrRefused(SelectAsOf(rows, moment), SelectAsOf(rows', moment))
             /\ StandsOrRefused(PreserveDocumentVersions(rows, moment),
                                PreserveDocumentVersions(rows', moment))
             /\ \A key \in Keys : StandsOrRefused(AlignObservation(rows, key, moment),
                                                  AlignObservation(rows', key, moment))
       /\ AlignEvents(rows') # Refused =>
             \A a \in AlignEvents(rows') \ AlignEvents(rows) :
                 \A s \in a.sessions \ {NoTime} : s > clock]_vars
=============================================================================

----------------------------- MODULE LinkAudit -----------------------------
(***************************************************************************)
(* The audit of the research library                                        *)
(* (public-web/scripts/audit-research-content.mjs): rules about its         *)
(* records, and on request a look at a part of the sources they name, by    *)
(* several workers which share a cursor. Its exit code is what the editors  *)
(* rely on.                                                                 *)
(***************************************************************************)
EXTENDS Integers, Sequences, FiniteSets, SequencesExt

CONSTANTS
    Urls,        \* valid: https
    Invalid,     \* any other
    Titles,
    LinkWorkers, \* the concurrency
    MaxRecords,  \* bound
    Statuses     \* of the answers

AuditAssumption == Invalid \notin Urls /\ MaxRecords \in Nat

VARIABLES
    records,     \* [title, url] of each record
    readingPath, \* the titles of a path through them
    offset, limit,   \* of the links looked at
    cursor,
    results,     \* of each place of the part: "none", or its state
    doing,       \* of each worker
    exit,        \* -1: it has not ended
    last         \* history: the last answer for each place

vars == <<records, readingPath, offset, limit, cursor, results, doing, exit, last>>

Idle == <<"idle">>

(* The loop over the records: a later one is compared with those seen.      *)
DuplicateTitles ==
    {i \in DOMAIN records : \E j \in 1..(i - 1) : records[j].title = records[i].title}

(* auditContent, of the rules that relate one record to another, or to its  *)
(* sources; those about the wording of one text are left out.               *)
Errors ==
    {<<"duplicate_title", i>> : i \in DuplicateTitles}
        \cup {<<"invalid_https_source", i>> : i \in {i \in DOMAIN records : records[i].url = Invalid}}
        \cup {<<"broken_reading_path", t>> :
                 t \in readingPath \ {records[i].title : i \in DOMAIN records}}

(* sourceUrls: every valid one, once, in an order of their own.             *)
SourceUrls ==
    LET named == {records[i].url : i \in DOMAIN records} \cap Urls
    IN  SetToSeq(named)

Part ==
    LET urls == SourceUrls
        end == IF offset + limit < Len(urls) THEN offset + limit ELSE Len(urls)
    IN  SubSeq(urls, offset + 1, end)

ClassifyLink(answer) ==
    CASE answer \in {200} -> "reachable"
      [] answer \in {404, 410} -> "broken"
      [] answer \in {401, 403, 451} -> "access_restricted"
      [] answer = 429 -> "rate_limited"
      [] OTHER -> "needs_retry_or_review"

Init ==
    /\ records \in UNION {[1..n -> [title : Titles, url : Urls \cup {Invalid}]] : n \in 0..MaxRecords}
    /\ readingPath \in SUBSET Titles
    /\ offset \in 0..1 /\ limit \in 1..2 /\ offset <= Len(SourceUrls)
    /\ cursor = 1 /\ results = [i \in DOMAIN Part |-> "none"]
    /\ doing = [w \in LinkWorkers |-> Idle] /\ exit = -1
    /\ last = [i \in DOMAIN Part |-> "none"]

Look == UNCHANGED <<records, readingPath, offset, limit>>

(* A worker takes the next place; nothing comes between.                    *)
Take(w) ==
    /\ doing[w] = Idle /\ cursor <= Len(Part)
    /\ doing' = [doing EXCEPT ![w] = <<"HEAD", cursor>>]
    /\ cursor' = cursor + 1
    /\ UNCHANGED <<results, exit, last>> /\ Look

(* Fault: results are put one after the other, as they come.                *)
JudgeFault(w, state) ==
    LET next == Cardinality({i \in DOMAIN results : results[i] # "none"}) + 1
    IN  /\ results' = [results EXCEPT ![next] = state]
        /\ last' = [last EXCEPT ![doing[w][2]] = state]
        /\ doing' = [doing EXCEPT ![w] = Idle]

Judge(w, state) ==
    /\ results' = [results EXCEPT ![doing[w][2]] = state]
    /\ last' = [last EXCEPT ![doing[w][2]] = state]
    /\ doing' = [doing EXCEPT ![w] = Idle]

(* A server that refuses HEAD is asked again with GET.                      *)
Answer(w, status) ==
    /\ doing[w] # Idle
    /\ IF doing[w][1] = "HEAD" /\ status \in {405, 501}
       THEN doing' = [doing EXCEPT ![w][1] = "GET"] /\ UNCHANGED <<results, last>>
       ELSE Judge(w, ClassifyLink(status))
    /\ UNCHANGED <<cursor, exit>> /\ Look

(* No answer: the timer, which is one for both, or the network. A file of   *)
(* another type than its name says is an outcome of its own.                *)
Otherwise(w) ==
    /\ doing[w] # Idle
    /\ \E state \in {"timeout", "network_error", "unexpected_content_type"} : Judge(w, state)
    /\ UNCHANGED <<cursor, exit>> /\ Look

(* Promise.all, and the exit code. *)
Finish ==
    /\ exit = -1 /\ cursor > Len(Part)
    /\ \A w \in LinkWorkers : doing[w] = Idle
    /\ exit' = IF Errors # {} \/ \E i \in DOMAIN results : results[i] = "broken" THEN 1 ELSE 0
    /\ UNCHANGED <<cursor, results, doing, last>> /\ Look

Rest == exit # -1 /\ UNCHANGED vars

Next ==
    \/ \E w \in LinkWorkers :
          Take(w) \/ Otherwise(w) \/ \E status \in Statuses : Answer(w, status)
    \/ Finish \/ Rest

Spec == Init /\ [][Next]_vars

-----------------------------------------------------------------------------
(* Properties *)

(* The audit ends well only when no two records have one title, every       *)
(* source is a valid address, every path leads to records, and each link of *)
(* the part looked at was asked once and not found broken by its own last   *)
(* answer, in whatever order the answers came                               *)
(* (audit-research-content.mjs:156, 175, 203).                              *)
AuditEndsWell ==
    /\ \A i \in DOMAIN results : results[i] = last[i]
    /\ exit = 0 =>
          /\ \A i \in DOMAIN Part : last[i] \notin {"none", "broken"}
          /\ \A i, j \in DOMAIN records : records[i].title = records[j].title => i = j
          /\ \A i \in DOMAIN records : records[i].url # Invalid
          /\ \A t \in readingPath : \E i \in DOMAIN records : records[i].title = t
=============================================================================

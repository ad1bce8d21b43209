---------------------------- MODULE IngestStore ----------------------------
(***************************************************************************)
(* The authority store of one dataset: the current facts, the receipt      *)
(* journal, the collection runs that write both, and the reader's          *)
(* classification of a run into a cohort.                                  *)
(*                                                                         *)
(* A run (one root attempt id) collects the request variants of its        *)
(* registry generation one after the other.  It first makes every provider *)
(* call of a variant and then persists them call by call, each in a        *)
(* transaction of its own that holds the exclusive authority lock (module  *)
(* AuthorityLock), so a transaction is one step here and runs of several   *)
(* processes interleave between transactions.  A registry release may be   *)
(* deployed at any time; running processes keep the one they loaded.       *)
(***************************************************************************)
EXTENDS Naturals, Sequences, FiniteSets

CONSTANTS
    Runs,          \* root attempt ids
    Keys,          \* row keys; in an append-only dataset, payload hashes
    Payloads,      \* payloads of a current-snapshot dataset
    Variants,      \* request variants
    Generations,   \* registry releases, oldest first: 1..n
    VariantsOf,    \* the variants a release requests, in order
    SchemaOf,      \* the schema version (one major) a release declares
    MetaOf,        \* the other registry-derived columns of a row
    Fetches,       \* what the provider may answer to one variant
    AppendOnly,    \* point_in_time = "append_only", else "current_snapshot"
    EmptyAllowed,  \* empty_data_policy = "allowed", else "forbidden"
    NoFact

\* One provider answer: the rows of a response, keyed.  An append-only row is
\* keyed by the hash of its payload, so its payload is its key.
BatchOf(S) == IF AppendOnly THEN {[k \in S |-> k]} ELSE [S -> Payloads]
Batches == UNION {BatchOf(S) : S \in (SUBSET Keys) \ {{}}}
NoRows == [k \in {} |-> k]

Kinds == {"rows", "empty", "failed"}
Calls == [req : Nat \ {0}, kind : Kinds, batch : Batches \union {NoRows}]

\* _collect_with_retry: a failed attempt (and, when empty is forbidden, an
\* empty one) may be tried again.
Retried(call) == call.kind = "failed" \/ (call.kind = "empty" /\ ~EmptyAllowed)

\* _execute_provider_requests: logical requests in order, every attempt of one
\* before the next; an attempt that stays failed ends the variant.
WellFormed(calls) ==
    /\ Len(calls) > 0
    /\ calls[1].req = 1
    /\ \A i \in 2..Len(calls) :
          \/ Retried(calls[i - 1]) /\ calls[i].req = calls[i - 1].req
          \/ calls[i - 1].kind # "failed" /\ calls[i].req = calls[i - 1].req + 1

ASSUME StoreConstants ==
    /\ IsFiniteSet(Keys)
    /\ AppendOnly \in BOOLEAN
    /\ EmptyAllowed \in BOOLEAN
    /\ NoFact \notin [payload : Keys \union Payloads, schema : Nat, meta : Nat,
                      run : Runs, call : Nat, rev : Nat]
    /\ Generations \subseteq Nat
    /\ VariantsOf \in [Generations -> Seq(Variants)]
    /\ \A g \in Generations :
          /\ Len(VariantsOf[g]) > 0
          /\ \A i, j \in 1..Len(VariantsOf[g]) : VariantsOf[g][i] = VariantsOf[g][j] => i = j
    /\ SchemaOf \in [Generations -> Nat]
    /\ MetaOf \in [Generations -> Nat]

\* Every fetch is a call sequence the code can make; `overflow' says that the
\* last answer exhausted the row, byte or page budget.
ASSUME FetchesAreCallSequences ==
    \A f \in Fetches :
        /\ f.calls \in Seq(Calls)
        /\ WellFormed(f.calls)
        /\ \A i \in 1..Len(f.calls) : f.calls[i].kind = "rows" <=> f.calls[i].batch \in Batches
        /\ f.overflow \in BOOLEAN
        /\ f.overflow => f.calls[Len(f.calls)].kind = "rows"

VARIABLES
    registry,   \* the deployed registry release
    run,        \* the state of each run
    facts,      \* provider_dataset_rows: the current row of each key
    journal     \* market_ingest_runs: the committed receipts

vars == <<registry, run, facts, journal>>

Stages == {"idle", "fetching", "saving", "finished", "dead"}
Verdicts == {"failed", "empty", "success", "rejected"}
Fresh == [stage |-> "idle", gen |-> registry, variant |-> 1, base |-> 0,
          next |-> 0, calls |-> <<>>, verdict |-> "empty", late |-> FALSE,
          bad |-> FALSE, rows |-> FALSE, overflow |-> FALSE]

RunStates ==
    [stage : Stages, gen : Generations, variant : Nat, base : Nat, next : Nat,
     calls : Seq(Calls), verdict : Verdicts, late : BOOLEAN, bad : BOOLEAN,
     rows : BOOLEAN, overflow : BOOLEAN]

\* A receipt id hashes the attempt (run and call index) and the target table.
Receipts ==
    [run : Runs, call : Nat, table : {"rows", "none"},
     status : {"success", "empty", "failed"}, variant : Variants, req : Nat,
     at : Nat, batch : Batches \union {NoRows},
     inserted : SUBSET Keys, updated : SUBSET Keys]

Facts == [payload : Keys \union Payloads, schema : Nat, meta : Nat,
          run : Runs, call : Nat, rev : Nat \ {0}]

TypeOK ==
    /\ registry \in Generations
    /\ run \in [Runs -> RunStates]
    /\ facts \in [Keys -> Facts \union {NoFact}]
    /\ journal \subseteq Receipts

-----------------------------------------------------------------------------
(* The reader: storage/receipt_projection.py.                              *)

Of(e) == {r \in journal : r.run = e}

\* _terminal_receipt_for_attempt: an empty or failed receipt outranks a
\* success receipt of the same call.
AttemptStatus(e, c) ==
    LET ofCall == {r \in Of(e) : r.call = c}
        terminal == {r \in ofCall : r.status # "success"}
    IN  IF terminal = {} THEN "success" ELSE (CHOOSE r \in terminal : TRUE).status

\* Fault: a retried attempt counts like the one that replaced it.
EveryAttempt(e, v) == {r.call : r \in {s \in Of(e) : s.variant = v}}

\* _provider_execution_terminal: each logical request counts as its last
\* attempt; failed outranks success outranks empty.
LastAttempts(e, v) ==
    {r.call : r \in {s \in Of(e) : s.variant = v /\
                       \A t \in Of(e) : t.variant = v /\ t.req = s.req => t.call <= s.call}}

VariantStatus(e, v) ==
    LET statuses == {AttemptStatus(e, c) : c \in LastAttempts(e, v)}
    IN  IF "failed" \in statuses THEN "failed"
        ELSE IF "success" \in statuses THEN "success" ELSE "empty"

Requested(g) == {VariantsOf[g][i] : i \in 1..Len(VariantsOf[g])}
Seen(e) == {r.variant : r \in Of(e)}

\* _variant_cohort_terminal under the reader's own registry release g.
Cohort(e, g) ==
    LET statuses == {VariantStatus(e, v) : v \in Seen(e)}
    IN  IF Seen(e) # Requested(g) \/ "failed" \in statuses THEN "failed"
        ELSE IF "success" \in statuses THEN "success"
        ELSE IF EmptyAllowed THEN "empty" ELSE "failed"

\* _failed_prefix_receipts: only a validated failed terminal, never mere
\* incompleteness, allows an append-only row to be rebound.
ExplicitFailure(e) == \E v \in Seen(e) : VariantStatus(e, v) = "failed"

\* QueryService.execute with classify_row_receipt_proofs: a stored row is
\* returned only when the run of its own receipt is a success cohort.
Served(k) == facts[k] # NoFact /\ Cohort(facts[k].run, registry) = "success"

-----------------------------------------------------------------------------
(* Registry releases and runs.                                             *)

Init ==
    /\ registry \in Generations
    /\ \A g \in Generations : registry <= g
    /\ run = [e \in Runs |-> Fresh]
    /\ facts = [k \in Keys |-> NoFact]
    /\ journal = {}

\* A release session drains the timer's collectors before it switches, but not
\* the runs an operator has started.  A rollback is one more release.
Deploy ==
    /\ registry' \in {g \in Generations : g > registry}
    /\ UNCHANGED <<run, facts, journal>>

Start(e) ==
    /\ run[e].stage = "idle"
    /\ run' = [run EXCEPT ![e].stage = "fetching", ![e].gen = registry]
    /\ UNCHANGED <<registry, facts, journal>>

\* The state of a whole variant: the last attempt failed, or a budget was
\* exhausted; otherwise success if any rows came.
Outcome(f) ==
    IF f.overflow \/ f.calls[Len(f.calls)].kind = "failed" THEN "failed"
    ELSE IF \E i \in 1..Len(f.calls) : f.calls[i].kind = "rows" THEN "success"
    ELSE "empty"

\* Validation may reject the calls of any variant; an empty answer is rejected
\* at once only when the variant is the whole cohort (defer_empty_policy).
VerdictsOn(f, g) ==
    IF Outcome(f) = "empty" /\ ~EmptyAllowed /\ Len(VariantsOf[g]) = 1
    THEN {"rejected"}
    ELSE {Outcome(f), "rejected"}

\* All provider calls of one variant, and the admission of their answers.
Fetch(e) ==
    /\ run[e].stage = "fetching"
    /\ \E f \in Fetches : \E verdict \in VerdictsOn(f, run[e].gen) :
          run' = [run EXCEPT ![e].stage = "saving", ![e].calls = f.calls,
                             ![e].next = 1, ![e].verdict = verdict,
                             ![e].overflow = @ \/ f.overflow,
                             ![e].bad = @ \/ verdict \in {"failed", "rejected"}]
    /\ UNCHANGED <<registry, facts, journal>>

\* A process that is gone keeps nothing but its result; a killed one, not that.
Ended(r, how) ==
    [r EXCEPT !.stage = how, !.variant = 1, !.base = 0, !.next = 0,
              !.calls = <<>>, !.verdict = "empty", !.late = FALSE]

Killed(r) ==
    [Ended(r, "dead") EXCEPT !.bad = FALSE, !.rows = FALSE, !.overflow = FALSE]

\* The process dies, or an exception ends the run; what is committed stays.
Crash(e) ==
    /\ run[e].stage \in {"fetching", "saving"}
    /\ run' = [run EXCEPT ![e] = Killed(@)]
    /\ UNCHANGED <<registry, facts, journal>>

-----------------------------------------------------------------------------
(* Persisting one call: _persist_provider_call, _persist_failed_execution.  *)

Current(e) == run[e].calls[run[e].next]
Variant(e) == VariantsOf[run[e].gen][run[e].variant]
CallIndex(e) == run[e].base + run[e].next

\* The run after the current call: next call, next variant, or the end.
Advanced(r) ==
    IF r.next < Len(r.calls) THEN [r EXCEPT !.next = @ + 1, !.late = FALSE]
    ELSE IF r.variant < Len(VariantsOf[r.gen])
    THEN [r EXCEPT !.stage = "fetching", !.variant = @ + 1, !.next = 0,
                   !.base = @ + Len(r.calls), !.calls = <<>>,
                   !.verdict = "empty", !.late = FALSE]
    ELSE Ended(r, "finished")

Receipt(e, table, status, batch, ins, upd) ==
    [run |-> e, call |-> CallIndex(e), table |-> table, status |-> status,
     variant |-> Variant(e), req |-> Current(e).req,
     at |-> Cardinality(journal) + 1, batch |-> batch,
     inserted |-> ins, updated |-> upd]

\* The calls persisted as rows or as empty: everything the provider answered,
\* unless validation rejected the variant.  A failed variant keeps its other
\* answers (preserve_nonfailed_calls).
Preserved(e) ==
    /\ run[e].verdict # "rejected"
    /\ \/ Current(e).kind = "rows"
       \/ /\ Current(e).kind = "empty"
          /\ run[e].verdict = "failed" => EmptyAllowed

\* write_terminal_receipt with status empty.
SaveEmpty(e) ==
    /\ run[e].stage = "saving"
    /\ Preserved(e) /\ Current(e).kind = "empty"
    /\ journal' = journal \union {Receipt(e, "none", "empty", NoRows, {}, {})}
    /\ run' = [run EXCEPT ![e] = Advanced(@)]
    /\ UNCHANGED <<registry, facts>>

\* Fault: the failed receipt replaces what the call had committed.
SaveFailedReplaces(e) ==
    /\ run[e].stage = "saving"
    /\ ~(Preserved(e) /\ Current(e).kind = "empty")
    /\ journal' = {r \in journal : r.run # e \/ r.call # CallIndex(e)}
                     \union {Receipt(e, "none", "failed", NoRows, {}, {})}
    /\ run' = [run EXCEPT ![e] = Advanced([@ EXCEPT !.bad = TRUE])]
    /\ UNCHANGED <<registry, facts>>

\* write_terminal_receipt with status failed: for a call that is not
\* preserved, and for a row transaction that was rolled back or that raised
\* after its commit.
SaveFailed(e) ==
    LET marked == [run[e] EXCEPT !.bad = @ \/ Current(e).kind # "failed"]
    IN  /\ run[e].stage = "saving"
        /\ ~(Preserved(e) /\ Current(e).kind = "empty")
        /\ journal' = journal \union {Receipt(e, "none", "failed", NoRows, {}, {})}
        /\ run' = [run EXCEPT ![e] = Advanced(marked)]
        /\ UNCHANGED <<registry, facts>>

-----------------------------------------------------------------------------
(* The row transaction: ingest_provider_native_rows, _write_prepared_rows. *)

SameColumns(fact, payload, g) ==
    /\ fact.payload = payload
    /\ fact.schema = SchemaOf[g]
    /\ fact.meta = MetaOf[g]

\* An append-only row whose schema version moved on cannot be written again.
Immovable(k, g) ==
    AppendOnly /\ facts[k] # NoFact /\ facts[k].schema # SchemaOf[g]

\* Fault: every re-observation takes over the provenance.
RebindsAlways(fact) == TRUE

\* Fault: a stored row never changes provenance.
RebindsNever(fact) == FALSE

\* The repair authority of the row writer.
Rebinds(fact) == ~AppendOnly \/ ExplicitFailure(fact.run)

\* Fault: an append-only row with drifted metadata is updated like a snapshot.
WrittenAsSnapshot(e, k, payload) ==
    [payload |-> payload, schema |-> SchemaOf[run[e].gen],
     meta |-> MetaOf[run[e].gen], run |-> e, call |-> CallIndex(e), rev |-> 1]

\* The stored row of k after the transaction of run e returned payload for it.
Written(e, k, payload) ==
    LET g == run[e].gen
        old == facts[k]
        new == [payload |-> payload, schema |-> SchemaOf[g], meta |-> MetaOf[g],
                run |-> e, call |-> CallIndex(e), rev |-> 1]
    IN  IF old = NoFact THEN new
        ELSE IF AppendOnly \/ SameColumns(old, payload, g)
        THEN IF Rebinds(old) THEN [old EXCEPT !.run = e, !.call = CallIndex(e)] ELSE old
        ELSE [new EXCEPT !.rev = old.rev + 1]

Changed(e, k, payload) ==
    /\ facts[k] # NoFact /\ ~AppendOnly
    /\ ~SameColumns(facts[k], payload, run[e].gen)

\* Fault: the transaction's rows survive although its receipt is rolled back.
IngestNotAtomic(e, late) ==
    LET batch == Current(e).batch
    IN  /\ run[e].stage = "saving" /\ ~run[e].late
        /\ Preserved(e) /\ Current(e).kind = "rows"
        /\ facts' = [k \in Keys |-> IF k \in DOMAIN batch
                                    THEN Written(e, k, batch[k]) ELSE facts[k]]
        /\ run' = [run EXCEPT ![e] = Advanced([@ EXCEPT !.rows = TRUE])]
        /\ UNCHANGED <<registry, journal>>

\* Facts and success receipt commit together.  `late': the commit took effect
\* but the transaction still raised (the lock's exit validation, the close).
Ingest(e, late) ==
    LET batch == Current(e).batch
    IN  /\ run[e].stage = "saving" /\ ~run[e].late
        /\ Preserved(e) /\ Current(e).kind = "rows"
        /\ ~\E k \in DOMAIN batch : Immovable(k, run[e].gen)
        /\ facts' = [k \in Keys |-> IF k \in DOMAIN batch
                                    THEN Written(e, k, batch[k]) ELSE facts[k]]
        /\ journal' = journal \union
              {Receipt(e, "rows", "success", batch,
                       {k \in DOMAIN batch : facts[k] = NoFact},
                       {k \in DOMAIN batch : Changed(e, k, batch[k])})}
        /\ run' = [run EXCEPT ![e] =
              IF late THEN [@ EXCEPT !.late = TRUE, !.bad = TRUE]
              ELSE Advanced([@ EXCEPT !.rows = TRUE])]
        /\ UNCHANGED registry

Next ==
    \/ Deploy
    \/ \E e \in Runs :
          \/ Start(e) \/ Fetch(e) \/ Crash(e)
          \/ SaveEmpty(e) \/ SaveFailed(e)
          \/ \E late \in BOOLEAN : Ingest(e, late)

Spec == Init /\ [][Next]_vars

-----------------------------------------------------------------------------
(* Properties.                                                             *)

\* The receipt a stored row names.
Backs(r, k) ==
    /\ r.run = facts[k].run /\ r.call = facts[k].call
    /\ r.table = "rows" /\ r.status = "success"

\* Every stored row names a committed success receipt, and that receipt's
\* transaction returned exactly the payload the row holds: no crash, rollback,
\* rebind or overwrite separates a row from the observation it claims.
FactsBacked ==
    \A k \in Keys : facts[k] # NoFact =>
        \E r \in journal : /\ Backs(r, k)
                           /\ k \in DOMAIN r.batch
                           /\ r.batch[k] = facts[k].payload

\* A receipt id is derived from run, call index and table; no two receipts
\* share one, so the primary key never refuses an honest transaction, although
\* variants, retries and late failures all number their own attempts.
ReceiptIdsUnique ==
    \A r, s \in journal :
        r.run = s.run /\ r.call = s.call /\ r.table = s.table => r = s

\* What _aggregate_variant_results reports to the caller.
Reported(e) ==
    IF run[e].bad THEN "failed"
    ELSE IF run[e].rows THEN "success"
    ELSE IF EmptyAllowed THEN "empty" ELSE "failed"

\* The status a run reports is the cohort status the reader derives from its
\* receipts alone, whatever retries, rejections, partial variants and late
\* commit errors it went through (budget overflows excepted).
OutcomeAgrees ==
    \A e \in Runs : run[e].stage = "finished" /\ ~run[e].overflow =>
        Cohort(e, run[e].gen) = Reported(e)

\* An append-only row stays with the run that inserted it for as long as that
\* run has no failed receipt, however often other runs observe it again.
CleanRunKeepsItsRows ==
    \A r \in journal, k \in Keys :
        /\ AppendOnly /\ k \in r.inserted
        /\ ~\E s \in Of(r.run) : s.status = "failed"
        => facts[k].run = r.run

\* Why a stored append-only row can stay unserved although a complete run
\* returned it again: the run that owns it was left incomplete (which is no
\* repair authority), or a run that had returned it failed only after that
\* observation committed, or another run took it over while an attempt of the
\* complete run awaited its retry.
HiddenRowsExplained ==
    \A k \in Keys, r \in journal :
        /\ AppendOnly /\ k \in DOMAIN r.batch /\ ~Served(k)
        /\ run[r.run].stage = "finished" /\ Cohort(r.run, registry) = "success"
        => \/ ~ExplicitFailure(facts[k].run)
           \/ \E s \in journal : /\ s.status = "failed" /\ s.at > r.at
                                 /\ \E q \in Of(s.run) : k \in DOMAIN q.batch
           \/ \E s \in Of(r.run) : s.status = "failed"

\* What the reader derives from the receipts alone: the outcome of each run,
\* and which rows it withholds.
ReceiptsTellAll == OutcomeAgrees /\ HiddenRowsExplained

\* An append-only row is immutable: once stored it is never removed, and its
\* payload, columns and revision never change, whatever is collected later.
AppendOnlyImmutable ==
    [][\A k \in Keys : AppendOnly /\ facts[k] # NoFact =>
          /\ facts'[k] # NoFact
          /\ facts'[k].payload = facts[k].payload
          /\ facts'[k].schema = facts[k].schema
          /\ facts'[k].meta = facts[k].meta
          /\ facts'[k].rev = facts[k].rev]_vars

\* Receipts are never withdrawn, and a run that has ended writes no more: its
\* cohort under a given release is final.
EndedRunsAreFinal ==
    [][/\ journal \subseteq journal'
       /\ \A e \in Runs : run[e].stage \in {"finished", "dead"} =>
              \A g \in Generations : Cohort(e, g)' = Cohort(e, g)]_vars
=============================================================================

---------------------------- MODULE StoresProofs ----------------------------
(***************************************************************************)
(* Proofs about the authority store, for any runs, keys, releases, fetch    *)
(* shapes and either kind of dataset; about the authority lock, for any     *)
(* readers, writers, directories, sentinels and database files; and about   *)
(* the transport gate, for any threads, addresses and limits.               *)
(***************************************************************************)
EXTENDS MCStores, FiniteSetTheorems, SequenceTheorems, WellFoundedInduction, TLAPS

\* Where a run is in its variants and calls.
Progress ==
    \A e \in Runs :
        /\ run[e].variant \in 1..Len(VariantsOf[run[e].gen])
        /\ run[e].stage = "idle" => run[e].variant = 1
        /\ run[e].stage = "saving" => run[e].next \in 1..Len(run[e].calls)

\* An answer of rows carries a batch.
RowsTyped ==
    \A e \in Runs : \A i \in 1..Len(run[e].calls) :
        run[e].calls[i].kind = "rows" => run[e].calls[i].batch \in Batches

\* Only a row receipt names the row table, and it records its batch.
JournalTyped ==
    /\ IsFiniteSet(journal)
    /\ \A r \in journal : r.table = "rows" <=> r.status = "success"
    /\ \A r \in journal : r.table = "rows" => r.batch \in Batches

StoreInv == TypeOK /\ Progress /\ RowsTyped /\ JournalTyped

-----------------------------------------------------------------------------
(* Data: batches, facts and the next state of a run.                       *)

\* A batch gives some of the keys a payload; an append-only payload is its key.
LEMMA BatchFacts ==
    ASSUME NEW b \in Batches
    PROVE  /\ DOMAIN b \subseteq Keys
           /\ \A k \in DOMAIN b : b[k] \in Keys \union Payloads
           /\ AppendOnly => \A k \in DOMAIN b : b[k] = k
<1>1. PICK S \in (SUBSET Keys) \ {{}} : b \in BatchOf(S)
  BY DEF Batches
<1>2. CASE AppendOnly
  BY <1>1, <1>2 DEF BatchOf
<1>3. CASE ~AppendOnly
  BY <1>1, <1>3 DEF BatchOf
<1> QED BY <1>2, <1>3

\* A run that goes on to its next call, variant or end stays well formed.
LEMMA AdvancedTyped ==
    ASSUME NEW r \in RunStates, NEW s, s = Advanced(r), r.stage = "saving",
           r.variant \in 1..Len(VariantsOf[r.gen]), r.next \in 1..Len(r.calls),
           \A i \in 1..Len(r.calls) :
               r.calls[i].kind = "rows" => r.calls[i].batch \in Batches
    PROVE  /\ s \in RunStates
           /\ s.gen = r.gen
           /\ s.variant \in 1..Len(VariantsOf[s.gen])
           /\ s.stage # "idle"
           /\ s.stage = "saving" => s.next \in 1..Len(s.calls)
           /\ \A i \in 1..Len(s.calls) :
                 s.calls[i].kind = "rows" => s.calls[i].batch \in Batches
<1> r.gen \in Generations /\ Len(VariantsOf[r.gen]) \in Nat \ {0}
  BY StoreConstants DEF RunStates
<1> Len(r.calls) \in Nat /\ r.next \in Nat /\ r.variant \in Nat /\ r.base \in Nat
  BY DEF RunStates
<1> <<>> \in Seq(Calls) /\ Len(<<>>) = 0
  OBVIOUS
<1>1. CASE r.next < Len(r.calls)
  <2>1. s = [r EXCEPT !.next = r.next + 1, !.late = FALSE]
    BY <1>1 DEF Advanced
  <2>2. r.next + 1 \in Nat
    OBVIOUS
  <2>3. s \in RunStates
    BY <2>1, <2>2, Zenon DEF RunStates
  <2>4. /\ s.gen = r.gen /\ s.variant = r.variant
        /\ s.stage = "saving" /\ s.next = r.next + 1 /\ s.calls = r.calls
    BY <2>1 DEF RunStates
  <2>5. s.next \in 1..Len(s.calls)
    BY <1>1, <2>4
  <2> QED BY <2>3, <2>4, <2>5
<1>2. CASE ~(r.next < Len(r.calls)) /\ r.variant < Len(VariantsOf[r.gen])
  <2>1. s = [r EXCEPT !.stage = "fetching", !.variant = r.variant + 1, !.next = 0,
                      !.base = r.base + Len(r.calls), !.calls = <<>>,
                      !.verdict = "empty", !.late = FALSE]
    BY <1>2 DEF Advanced
  <2>2. s \in RunStates
    <3>1. /\ r.variant + 1 \in Nat /\ r.base + Len(r.calls) \in Nat /\ 0 \in Nat
          /\ "fetching" \in Stages /\ "empty" \in Verdicts
      BY DEF Stages, Verdicts
    <3> QED BY <2>1, <3>1, ZenonT(60) DEF RunStates
  <2>3. /\ s.gen = r.gen /\ s.variant = r.variant + 1
        /\ s.stage = "fetching" /\ s.calls = <<>>
    BY <2>1 DEF RunStates
  <2> QED BY <1>2, <2>2, <2>3
<1>3. CASE ~(r.next < Len(r.calls)) /\ ~(r.variant < Len(VariantsOf[r.gen]))
  <2>1. s = [r EXCEPT !.stage = "finished", !.variant = 1, !.base = 0, !.next = 0,
                      !.calls = <<>>, !.verdict = "empty", !.late = FALSE]
    BY <1>3 DEF Advanced, Ended
  <2>2. s \in RunStates
    <3>1. 0 \in Nat /\ 1 \in Nat /\ "finished" \in Stages /\ "empty" \in Verdicts
      BY DEF Stages, Verdicts
    <3> QED BY <2>1, <3>1, ZenonT(60) DEF RunStates
  <2>3. s.gen = r.gen /\ s.variant = 1 /\ s.stage = "finished" /\ s.calls = <<>>
    BY <2>1 DEF RunStates
  <2> QED BY <2>2, <2>3
<1> QED BY <1>1, <1>2, <1>3

\* A saving run persists a well-formed call under a natural call index.
LEMMA SavingFacts ==
    ASSUME StoreInv, NEW e \in Runs, run[e].stage = "saving"
    PROVE  /\ Current(e) \in Calls
           /\ Current(e).kind = "rows" => Current(e).batch \in Batches
           /\ CallIndex(e) \in Nat
           /\ Variant(e) \in Variants
           /\ run[e] \in RunStates /\ run[e].gen \in Generations
           /\ SchemaOf[run[e].gen] \in Nat /\ MetaOf[run[e].gen] \in Nat
<1>1. run[e] \in RunStates
  BY DEF StoreInv, TypeOK
<1>2. run[e].calls \in Seq(Calls) /\ run[e].next \in 1..Len(run[e].calls)
  BY <1>1 DEF StoreInv, Progress, RunStates
<1>3. Current(e) \in Calls
  BY <1>2 DEF Current
<1>4. Current(e).kind = "rows" => Current(e).batch \in Batches
  BY <1>2 DEF StoreInv, RowsTyped, Current
<1>5. run[e].gen \in Generations /\ run[e].base \in Nat /\ run[e].next \in Nat
  BY <1>1 DEF RunStates
<1>6. Variant(e) \in Variants
  <2>1. VariantsOf[run[e].gen] \in Seq(Variants)
    BY <1>5, StoreConstants
  <2>2. run[e].variant \in 1..Len(VariantsOf[run[e].gen])
    BY DEF StoreInv, Progress
  <2> QED BY <2>1, <2>2 DEF Variant
<1>7. CallIndex(e) \in Nat
  BY <1>5 DEF CallIndex
<1> QED BY <1>1, <1>3, <1>4, <1>5, <1>6, <1>7, StoreConstants

\* What the row transaction leaves in the row of k.
LEMMA WrittenFacts ==
    ASSUME StoreInv, NEW e \in Runs, run[e].stage = "saving",
           Current(e).kind = "rows", NEW k \in DOMAIN Current(e).batch
    PROVE  LET w == Written(e, k, Current(e).batch[k])
           IN  /\ w \in Facts /\ w # NoFact
               /\ \/ w.run = e /\ w.call = CallIndex(e)
                  \/ facts[k] # NoFact /\ w = facts[k]
               /\ facts[k] = NoFact => w.run = e /\ w.call = CallIndex(e)
               /\ ~AppendOnly => w.payload = Current(e).batch[k]
               /\ AppendOnly /\ facts[k] = NoFact => w.payload = Current(e).batch[k]
               /\ AppendOnly /\ facts[k] # NoFact =>
                     /\ w.payload = facts[k].payload /\ w.schema = facts[k].schema
                     /\ w.meta = facts[k].meta /\ w.rev = facts[k].rev
                     /\ w.run # facts[k].run => ExplicitFailure(facts[k].run)
                     /\ ExplicitFailure(facts[k].run) => w.run = e
<1> DEFINE b == Current(e).batch
           g == run[e].gen
           new == [payload |-> b[k], schema |-> SchemaOf[g], meta |-> MetaOf[g],
                   run |-> e, call |-> CallIndex(e), rev |-> 1]
           w == Written(e, k, b[k])
<1>1. b \in Batches /\ CallIndex(e) \in Nat /\ SchemaOf[g] \in Nat /\ MetaOf[g] \in Nat
  BY SavingFacts
<1>2. k \in Keys /\ b[k] \in Keys \union Payloads
  BY <1>1, BatchFacts
<1>3. new \in Facts /\ new # NoFact
  BY <1>1, <1>2, StoreConstants DEF Facts
<1>4. facts[k] \in Facts \union {NoFact}
  BY <1>2 DEF StoreInv, TypeOK
<1>5. CASE facts[k] = NoFact
  <2>1. w = new
    BY <1>5 DEF Written
  <2> QED BY <1>3, <1>5, <2>1
<1>6. CASE facts[k] # NoFact
  <2>1. facts[k] \in Facts
    BY <1>4, <1>6
  <2>2. CASE AppendOnly \/ SameColumns(facts[k], b[k], g)
    <3> DEFINE rebound == [facts[k] EXCEPT !.run = e, !.call = CallIndex(e)]
    <3>1. /\ rebound \in Facts /\ rebound.run = e /\ rebound.call = CallIndex(e)
          /\ rebound.payload = facts[k].payload /\ rebound.schema = facts[k].schema
          /\ rebound.meta = facts[k].meta /\ rebound.rev = facts[k].rev
      BY <1>1, <2>1 DEF Facts
    <3>2. rebound # NoFact /\ facts[k] # NoFact
      BY <1>6, <3>1, StoreConstants DEF Facts
    <3>3. w = IF Rebinds(facts[k]) THEN rebound ELSE facts[k]
      BY <1>6, <2>2 DEF Written
    <3>4. AppendOnly => (Rebinds(facts[k]) <=> ExplicitFailure(facts[k].run))
      BY DEF Rebinds
    <3>5. ~AppendOnly => facts[k].payload = b[k] /\ w = rebound
      BY <2>2, <3>3 DEF SameColumns, Rebinds
    <3>6. CASE Rebinds(facts[k])
      BY <1>6, <3>1, <3>2, <3>3, <3>4, <3>5, <3>6
    <3>7. CASE ~Rebinds(facts[k])
      BY <1>6, <2>1, <3>2, <3>3, <3>4, <3>5, <3>7
    <3> QED BY <3>6, <3>7
  <2>3. CASE ~(AppendOnly \/ SameColumns(facts[k], b[k], g))
    <3> DEFINE over == [new EXCEPT !.rev = facts[k].rev + 1]
    <3>1. w = over
      BY <1>6, <2>3 DEF Written
    <3>2. /\ over \in Facts /\ over.run = e /\ over.call = CallIndex(e)
          /\ over.payload = b[k]
      BY <1>1, <1>2, <2>1 DEF Facts
    <3>3. over # NoFact
      BY <3>2, StoreConstants DEF Facts
    <3> QED BY <1>6, <2>3, <3>1, <3>2, <3>3
  <2> QED BY <2>2, <2>3
<1> QED BY <1>5, <1>6

-----------------------------------------------------------------------------
(* StoreInv is inductive.                                                  *)

\* A step that moves one run to a well-formed state.
LEMMA RunMoves ==
    ASSUME StoreInv, NEW e \in Runs, NEW s \in RunStates,
           run' = [run EXCEPT ![e] = s],
           s.variant \in 1..Len(VariantsOf[s.gen]),
           s.stage = "idle" => s.variant = 1,
           s.stage = "saving" => s.next \in 1..Len(s.calls),
           \A i \in 1..Len(s.calls) :
               s.calls[i].kind = "rows" => s.calls[i].batch \in Batches
    PROVE  run' \in [Runs -> RunStates] /\ Progress' /\ RowsTyped'
<1>1. run \in [Runs -> RunStates]
  BY DEF StoreInv, TypeOK
<1>2. /\ run' \in [Runs -> RunStates] /\ run'[e] = s
      /\ \A f \in Runs \ {e} : run'[f] = run[f]
  BY <1>1
<1>3. Progress'
  BY <1>2 DEF StoreInv, Progress
<1>4. RowsTyped'
  BY <1>2 DEF StoreInv, RowsTyped
<1> QED BY <1>2, <1>3, <1>4

\* A receipt that names no table.
LEMMA TerminalReceipt ==
    ASSUME StoreInv, NEW e \in Runs, run[e].stage = "saving",
           NEW st \in {"empty", "failed"},
           journal' = journal \union {Receipt(e, "none", st, NoRows, {}, {})}
    PROVE  journal' \subseteq Receipts /\ JournalTyped'
<1> DEFINE r == Receipt(e, "none", st, NoRows, {}, {})
<1>1. Cardinality(journal) + 1 \in Nat
  BY FS_CardinalityType DEF StoreInv, JournalTyped
<1>2. Current(e).req \in Nat
  BY SavingFacts DEF Calls
<1>3. CallIndex(e) \in Nat /\ Variant(e) \in Variants
  BY SavingFacts
<1>4. r \in Receipts
  <2>1. /\ "none" \in {"rows", "none"} /\ st \in {"success", "empty", "failed"}
        /\ NoRows \in Batches \union {NoRows} /\ {} \in SUBSET Keys
    OBVIOUS
  <2> QED BY <1>1, <1>2, <1>3, <2>1, Zenon DEF Receipt, Receipts
<1>5. r.table = "none" /\ r.status = st
  BY DEF Receipt
<1>6. journal' \subseteq Receipts
  BY <1>4 DEF StoreInv, TypeOK
<1>7. IsFiniteSet(journal')
  BY FS_AddElement DEF StoreInv, JournalTyped
<1> HIDE DEF r
<1>8. JournalTyped'
  BY <1>5, <1>7 DEF StoreInv, JournalTyped, r
<1> QED BY <1>6, <1>8

\* The receipt of a row transaction.
LEMMA RowReceipt ==
    ASSUME StoreInv, NEW e \in Runs, run[e].stage = "saving",
           Current(e).kind = "rows",
           NEW ins \in SUBSET Keys, NEW upd \in SUBSET Keys,
           NEW r, r = Receipt(e, "rows", "success", Current(e).batch, ins, upd),
           journal' = journal \union {r}
    PROVE  journal' \subseteq Receipts /\ JournalTyped'
<1>1. Cardinality(journal) + 1 \in Nat
  BY FS_CardinalityType DEF StoreInv, JournalTyped
<1>2. Current(e).req \in Nat
  BY SavingFacts DEF Calls
<1>3. /\ CallIndex(e) \in Nat /\ Variant(e) \in Variants
      /\ Current(e).batch \in Batches \union {NoRows} /\ Current(e).batch \in Batches
  BY SavingFacts
<1>4. r \in Receipts
  <2>1. "rows" \in {"rows", "none"} /\ "success" \in {"success", "empty", "failed"}
    OBVIOUS
  <2> QED BY <1>1, <1>2, <1>3, <2>1, Zenon DEF Receipt, Receipts
<1>5. r.table = "rows" /\ r.status = "success" /\ r.batch = Current(e).batch
  BY DEF Receipt
<1>6. journal' \subseteq Receipts
  BY <1>4 DEF StoreInv, TypeOK
<1>7. IsFiniteSet(journal')
  BY FS_AddElement DEF StoreInv, JournalTyped
<1>8. JournalTyped'
  BY <1>3, <1>5, <1>7 DEF StoreInv, JournalTyped
<1> QED BY <1>6, <1>8

\* A run that has dealt with its current call, with new marks, moves on.
LEMMA SavedMoves ==
    ASSUME StoreInv, NEW e \in Runs, run[e].stage = "saving",
           NEW r \in RunStates,
           r.stage = "saving", r.gen = run[e].gen, r.variant = run[e].variant,
           r.next = run[e].next, r.calls = run[e].calls,
           run' = [run EXCEPT ![e] = Advanced(r)]
    PROVE  run' \in [Runs -> RunStates] /\ Progress' /\ RowsTyped'
<1> DEFINE s == Advanced(r)
<1>1. /\ r.variant \in 1..Len(VariantsOf[r.gen]) /\ r.next \in 1..Len(r.calls)
      /\ \A i \in 1..Len(r.calls) : r.calls[i].kind = "rows" => r.calls[i].batch \in Batches
  BY DEF StoreInv, Progress, RowsTyped
<1>2. /\ s \in RunStates /\ s.stage # "idle"
      /\ s.variant \in 1..Len(VariantsOf[s.gen])
      /\ s.stage = "saving" => s.next \in 1..Len(s.calls)
      /\ \A i \in 1..Len(s.calls) : s.calls[i].kind = "rows" => s.calls[i].batch \in Batches
  BY <1>1, AdvancedTyped
<1> HIDE DEF s
<1> QED BY <1>2, RunMoves DEF s

\* A run that starts has written nothing.
LEMMA StartKeepsStoreInv ==
    ASSUME StoreInv, NEW e \in Runs, Start(e)
    PROVE  StoreInv'
<1> DEFINE s == [run[e] EXCEPT !.stage = "fetching", !.gen = registry]
<1>1. run[e] \in RunStates /\ registry \in Generations
  BY DEF StoreInv, TypeOK
<1>2. s \in RunStates
  BY <1>1 DEF RunStates, Stages
<1>3. /\ s.gen = registry /\ s.variant = 1 /\ s.stage = "fetching"
      /\ s.calls = run[e].calls /\ run' = [run EXCEPT ![e] = s]
  BY <1>1 DEF Start, StoreInv, Progress, RunStates, TypeOK
<1>4. s.variant \in 1..Len(VariantsOf[s.gen])
  BY <1>1, <1>3, StoreConstants
<1>5. \A i \in 1..Len(s.calls) : s.calls[i].kind = "rows" => s.calls[i].batch \in Batches
  BY <1>3 DEF StoreInv, RowsTyped
<1> HIDE DEF s
<1>6. run' \in [Runs -> RunStates] /\ Progress' /\ RowsTyped'
  BY <1>2, <1>3, <1>4, <1>5, RunMoves
<1> QED BY <1>6 DEF StoreInv, TypeOK, JournalTyped, Start

\* A fetch decides what is to be saved.
LEMMA FetchKeepsStoreInv ==
    ASSUME StoreInv, NEW e \in Runs, Fetch(e)
    PROVE  StoreInv'
<1>1. run[e] \in RunStates
  BY DEF StoreInv, TypeOK
<1>0. PICK f \in Fetches : \E verdict \in VerdictsOn(f, run[e].gen) :
          run' = [run EXCEPT ![e].stage = "saving", ![e].calls = f.calls,
                             ![e].next = 1, ![e].verdict = verdict,
                             ![e].overflow = @ \/ f.overflow,
                             ![e].bad = @ \/ verdict \in {"failed", "rejected"}]
  BY DEF Fetch
<1>2. PICK verdict \in VerdictsOn(f, run[e].gen) :
          run' = [run EXCEPT ![e].stage = "saving", ![e].calls = f.calls,
                             ![e].next = 1, ![e].verdict = verdict,
                             ![e].overflow = @ \/ f.overflow,
                             ![e].bad = @ \/ verdict \in {"failed", "rejected"}]
  BY <1>0
<1> DEFINE over == run[e].overflow \/ f.overflow
           bad == run[e].bad \/ verdict \in {"failed", "rejected"}
           s == [run[e] EXCEPT !.stage = "saving", !.calls = f.calls, !.next = 1,
                               !.verdict = verdict, !.overflow = over, !.bad = bad]
<1>3. f.calls \in Seq(Calls) /\ Len(f.calls) > 0 /\ Len(f.calls) \in Nat
  BY FetchesAreCallSequences DEF WellFormed
<1>4. verdict \in Verdicts
  BY DEF VerdictsOn, Outcome, Verdicts
<1>5. s \in RunStates
  <2>1. over \in BOOLEAN /\ bad \in BOOLEAN /\ "saving" \in Stages /\ 1 \in Nat
    BY DEF Stages
  <2> HIDE DEF over, bad
  <2> QED BY <1>1, <1>3, <1>4, <2>1, Zenon DEF RunStates
<1>6. run' = [run EXCEPT ![e] = s]
  BY <1>2, Zenon DEF StoreInv, TypeOK
<1>7. /\ s.gen = run[e].gen /\ s.variant = run[e].variant /\ s.stage = "saving"
      /\ s.next = 1 /\ s.calls = f.calls
  BY <1>1 DEF RunStates
<1>8. \A i \in 1..Len(s.calls) : s.calls[i].kind = "rows" => s.calls[i].batch \in Batches
  BY <1>7, FetchesAreCallSequences
<1>9. s.variant \in 1..Len(VariantsOf[s.gen]) /\ s.next \in 1..Len(s.calls)
  BY <1>3, <1>7 DEF StoreInv, Progress
<1> HIDE DEF s
<1>10. run' \in [Runs -> RunStates] /\ Progress' /\ RowsTyped'
  BY <1>5, <1>6, <1>7, <1>8, <1>9, RunMoves
<1> QED BY <1>10 DEF StoreInv, TypeOK, JournalTyped, Fetch

\* A run that is killed leaves what it committed.
LEMMA CrashKeepsStoreInv ==
    ASSUME StoreInv, NEW e \in Runs, Crash(e)
    PROVE  StoreInv'
<1> DEFINE s == Killed(run[e])
<1>1. run[e] \in RunStates
  BY DEF StoreInv, TypeOK
<1>2. s \in RunStates
  <2>1. /\ 0 \in Nat /\ 1 \in Nat /\ "dead" \in Stages /\ "empty" \in Verdicts
        /\ <<>> \in Seq(Calls)
    BY DEF Stages, Verdicts
  <2>2. Ended(run[e], "dead") \in RunStates
    BY <1>1, <2>1, Zenon DEF Ended, RunStates
  <2> QED BY <2>2, Zenon DEF Killed, RunStates
<1>3. s.gen = run[e].gen /\ s.variant = 1 /\ s.stage = "dead" /\ s.calls = <<>>
  BY <1>1 DEF Killed, Ended, RunStates
<1>4. s.variant \in 1..Len(VariantsOf[s.gen])
  <2>1. run[e].gen \in Generations
    BY <1>1 DEF RunStates
  <2>2. VariantsOf[run[e].gen] \in Seq(Variants) /\ Len(VariantsOf[run[e].gen]) > 0
    BY <2>1, StoreConstants
  <2>3. Len(VariantsOf[run[e].gen]) \in Nat
    BY <2>2
  <2> QED BY <1>3, <2>2, <2>3
<1>5. run' = [run EXCEPT ![e] = s]
  BY DEF Crash
<1> HIDE DEF s
<1>6. \A i \in 1..Len(s.calls) : s.calls[i].kind = "rows" => s.calls[i].batch \in Batches
  BY <1>3
<1>7. run' \in [Runs -> RunStates] /\ Progress' /\ RowsTyped'
  BY <1>2, <1>3, <1>4, <1>5, <1>6, RunMoves
<1> QED BY <1>7 DEF StoreInv, TypeOK, JournalTyped, Crash

\* A receipt of no rows changes no row.
LEMMA SaveEmptyKeepsStoreInv ==
    ASSUME StoreInv, NEW e \in Runs, SaveEmpty(e)
    PROVE  StoreInv'
<1>1. run[e] \in RunStates /\ run[e].stage = "saving"
  BY DEF StoreInv, TypeOK, SaveEmpty
<1>2. run' \in [Runs -> RunStates] /\ Progress' /\ RowsTyped'
  BY <1>1, SavedMoves DEF SaveEmpty
<1>3. journal' \subseteq Receipts /\ JournalTyped'
  BY <1>1, TerminalReceipt DEF SaveEmpty
<1> QED BY <1>2, <1>3 DEF StoreInv, TypeOK, SaveEmpty

\* A receipt of a failure changes no row.
LEMMA SaveFailedKeepsStoreInv ==
    ASSUME StoreInv, NEW e \in Runs, SaveFailed(e)
    PROVE  StoreInv'
<1> DEFINE bad == run[e].bad \/ Current(e).kind # "failed"
           r == [run[e] EXCEPT !.bad = bad]
<1>1. run[e] \in RunStates /\ run[e].stage = "saving"
  BY DEF StoreInv, TypeOK, SaveFailed
<1>2. run' = [run EXCEPT ![e] = Advanced(r)]
  BY Zenon DEF SaveFailed
<1>3. /\ r \in RunStates /\ r.stage = "saving" /\ r.gen = run[e].gen
      /\ r.variant = run[e].variant /\ r.next = run[e].next /\ r.calls = run[e].calls
  <2>1. bad \in BOOLEAN
    OBVIOUS
  <2> HIDE DEF bad
  <2>2. r \in RunStates
    BY <1>1, <2>1, Zenon DEF RunStates
  <2> QED BY <1>1, <2>2 DEF RunStates
<1> HIDE DEF r
<1>4. run' \in [Runs -> RunStates] /\ Progress' /\ RowsTyped'
  BY <1>1, <1>2, <1>3, SavedMoves
<1>5. journal' \subseteq Receipts /\ JournalTyped'
  BY <1>1, TerminalReceipt DEF SaveFailed
<1> QED BY <1>4, <1>5 DEF StoreInv, TypeOK, SaveFailed

\* The facts and the receipt a row transaction commits.
LEMMA IngestWrites ==
    ASSUME StoreInv, NEW e \in Runs, NEW late \in BOOLEAN, Ingest(e, late)
    PROVE  /\ facts' \in [Keys -> Facts \union {NoFact}]
           /\ journal' \subseteq Receipts /\ JournalTyped'
<1> DEFINE b == Current(e).batch
           ins == {k \in DOMAIN b : facts[k] = NoFact}
           upd == {k \in DOMAIN b : Changed(e, k, b[k])}
           r == Receipt(e, "rows", "success", b, ins, upd)
<1>1. run[e].stage = "saving" /\ Current(e).kind = "rows"
  BY DEF Ingest
<1>2. b \in Batches
  BY <1>1, SavingFacts
<1>3. ins \in SUBSET Keys /\ upd \in SUBSET Keys
  BY <1>2, BatchFacts
<1>4. facts' = [k \in Keys |-> IF k \in DOMAIN b THEN Written(e, k, b[k]) ELSE facts[k]]
  BY DEF Ingest
<1>5. facts' \in [Keys -> Facts \union {NoFact}]
  <2>1. \A k \in DOMAIN b : Written(e, k, b[k]) \in Facts
    BY <1>1, WrittenFacts
  <2>2. facts \in [Keys -> Facts \union {NoFact}]
    BY DEF StoreInv, TypeOK
  <2> QED BY <1>4, <2>1, <2>2
<1>6. journal' = journal \union {r}
  BY DEF Ingest
<1> HIDE DEF ins, upd
<1>7. journal' \subseteq Receipts /\ JournalTyped'
  BY <1>1, <1>3, <1>6, RowReceipt
<1> QED BY <1>5, <1>7

\* The row transaction writes rows and their receipt together.
LEMMA IngestKeepsStoreInv ==
    ASSUME StoreInv, NEW e \in Runs, NEW late \in BOOLEAN, Ingest(e, late)
    PROVE  StoreInv'
<1>1. run[e] \in RunStates /\ run[e].stage = "saving"
  BY DEF StoreInv, TypeOK, Ingest
<1>2. run' \in [Runs -> RunStates] /\ Progress' /\ RowsTyped'
  <2>1. CASE late
    <3> DEFINE s == [run[e] EXCEPT !.late = TRUE, !.bad = TRUE]
    <3>1. run' = [run EXCEPT ![e] = s]
      BY <2>1 DEF Ingest
    <3>2. s \in RunStates
      BY <1>1, Zenon DEF RunStates
    <3>3. /\ s.gen = run[e].gen /\ s.variant = run[e].variant /\ s.stage = "saving"
          /\ s.next = run[e].next /\ s.calls = run[e].calls
      BY <1>1 DEF RunStates
    <3>4. /\ s.variant \in 1..Len(VariantsOf[s.gen]) /\ s.next \in 1..Len(s.calls)
          /\ \A i \in 1..Len(s.calls) : s.calls[i].kind = "rows" => s.calls[i].batch \in Batches
      BY <1>1, <3>3 DEF StoreInv, Progress, RowsTyped
    <3> HIDE DEF s
    <3> QED BY <3>1, <3>2, <3>3, <3>4, RunMoves
  <2>2. CASE ~late
    <3> DEFINE r == [run[e] EXCEPT !.rows = TRUE]
    <3>1. run' = [run EXCEPT ![e] = Advanced(r)]
      BY <2>2 DEF Ingest
    <3>2. r \in RunStates
      BY <1>1, Zenon DEF RunStates
    <3>3. /\ r.gen = run[e].gen /\ r.variant = run[e].variant /\ r.stage = "saving"
          /\ r.next = run[e].next /\ r.calls = run[e].calls
      BY <1>1 DEF RunStates
    <3> HIDE DEF r
    <3> QED BY <1>1, <3>1, <3>2, <3>3, SavedMoves
  <2> QED BY <2>1, <2>2
<1> QED BY <1>2, IngestWrites DEF StoreInv, TypeOK, Ingest

\* An empty store is consistent.
LEMMA StoreInvInit == Init => StoreInv
<1> SUFFICES ASSUME Init PROVE StoreInv
  OBVIOUS
<1>1. registry \in Generations /\ registry \in Nat
  BY StoreConstants DEF Init
<1>2. Fresh \in RunStates
  <2>1. /\ 0 \in Nat /\ 1 \in Nat /\ "idle" \in Stages /\ "empty" \in Verdicts
        /\ <<>> \in Seq(Calls)
    BY DEF Stages, Verdicts
  <2> QED BY <1>1, <2>1, Zenon DEF Fresh, RunStates
<1>3. \A e \in Runs : /\ run[e].gen = registry /\ run[e].variant = 1
                      /\ run[e].stage = "idle" /\ run[e].calls = <<>>
  BY DEF Init, Fresh
<1>4. VariantsOf[registry] \in Seq(Variants) /\ Len(VariantsOf[registry]) > 0
  BY <1>1, StoreConstants
<1>5. Len(VariantsOf[registry]) \in Nat
  BY <1>4
<1>6. Progress /\ RowsTyped
  BY <1>3, <1>4, <1>5 DEF Progress, RowsTyped
<1>7. TypeOK /\ JournalTyped
  BY <1>1, <1>2, FS_EmptySet DEF Init, TypeOK, JournalTyped
<1> QED BY <1>6, <1>7 DEF StoreInv

\* Every step keeps the store consistent.
LEMMA StoreInvStep == StoreInv /\ [Next]_vars => StoreInv'
<1> SUFFICES ASSUME StoreInv, [Next]_vars PROVE StoreInv'
  OBVIOUS
<1>1. CASE Deploy
  BY <1>1 DEF Deploy, StoreInv, TypeOK, Progress, RowsTyped, JournalTyped
<1>2. CASE \E e \in Runs : Start(e)
  BY <1>2, StartKeepsStoreInv
<1>3. CASE \E e \in Runs : Fetch(e)
  BY <1>3, FetchKeepsStoreInv
<1>4. CASE \E e \in Runs : Crash(e)
  BY <1>4, CrashKeepsStoreInv
<1>5. CASE \E e \in Runs : SaveEmpty(e)
  BY <1>5, SaveEmptyKeepsStoreInv
<1>6. CASE \E e \in Runs : SaveFailed(e)
  BY <1>6, SaveFailedKeepsStoreInv
<1>7. CASE \E e \in Runs : \E late \in BOOLEAN : Ingest(e, late)
  BY <1>7, IngestKeepsStoreInv
<1>8. CASE UNCHANGED vars
  BY <1>8 DEF vars, StoreInv, TypeOK, Progress, RowsTyped, JournalTyped
<1> QED BY <1>1, <1>2, <1>3, <1>4, <1>5, <1>6, <1>7, <1>8 DEF Next

\* Every variable keeps its type, in particular across late commit errors and
\* releases deployed under running collections.
THEOREM StoreTyped == Spec => []TypeOK
<1>1. StoreInv => TypeOK
  BY DEF StoreInv
<1> QED BY StoreInvInit, StoreInvStep, <1>1, PTL DEF Spec

\* The store is always consistent.
LEMMA StoreInvAlways == Spec => []StoreInv
BY StoreInvInit, StoreInvStep, PTL DEF Spec

\* The only step that writes rows is the row transaction of a saving run.
LEMMA FactsChangeByIngest ==
    ASSUME [Next]_vars, facts' # facts
    PROVE  \E e \in Runs, late \in BOOLEAN : Ingest(e, late)
BY DEF Next, vars, Deploy, Start, Fetch, Crash, SaveEmpty, SaveFailed

\* Every step keeps all receipts.
LEMMA ReceiptsStay ==
    ASSUME [Next]_vars
    PROVE  journal \subseteq journal'
BY DEF Next, vars, Deploy, Start, Fetch, Crash, SaveEmpty, SaveFailed, Ingest

-----------------------------------------------------------------------------
\* An append-only row, once stored, keeps its payload, columns and revision
\* under every later observation, release and crash.
THEOREM AppendOnlyRowsImmutable == Spec => AppendOnlyImmutable
<1>1. StoreInv /\ [Next]_vars =>
        [\A k \in Keys : AppendOnly /\ facts[k] # NoFact =>
          /\ facts'[k] # NoFact
          /\ facts'[k].payload = facts[k].payload
          /\ facts'[k].schema = facts[k].schema
          /\ facts'[k].meta = facts[k].meta
          /\ facts'[k].rev = facts[k].rev]_vars
  <2> SUFFICES ASSUME StoreInv, [Next]_vars, NEW k \in Keys, AppendOnly, facts[k] # NoFact
               PROVE  /\ facts'[k] # NoFact
                      /\ facts'[k].payload = facts[k].payload
                      /\ facts'[k].schema = facts[k].schema
                      /\ facts'[k].meta = facts[k].meta
                      /\ facts'[k].rev = facts[k].rev
    OBVIOUS
  <2>1. CASE facts' = facts
    BY <2>1
  <2>2. CASE facts' # facts
    <3>1. PICK e \in Runs, late \in BOOLEAN : Ingest(e, late)
      BY <2>2, FactsChangeByIngest
    <3> DEFINE b == Current(e).batch
    <3>2. run[e].stage = "saving" /\ Current(e).kind = "rows"
      BY <3>1 DEF Ingest
    <3>3. facts'[k] = IF k \in DOMAIN b THEN Written(e, k, b[k]) ELSE facts[k]
      BY <3>1 DEF Ingest
    <3>4. CASE k \in DOMAIN b
      BY <3>2, <3>3, <3>4, WrittenFacts
    <3>5. CASE k \notin DOMAIN b
      BY <3>3, <3>5
    <3> QED BY <3>4, <3>5
  <2> QED BY <2>1, <2>2
<1> QED BY StoreInvAlways, <1>1, PTL DEF Spec, AppendOnlyImmutable

-----------------------------------------------------------------------------
(* Provenance.                                                             *)

\* The row transaction leaves every row backed: by its own receipt, or by the
\* one that backed it before.
LEMMA IngestKeepsFactsBacked ==
    ASSUME StoreInv, FactsBacked, NEW e \in Runs, NEW late \in BOOLEAN, Ingest(e, late)
    PROVE  FactsBacked'
<1> DEFINE b == Current(e).batch
           ins == {j \in DOMAIN b : facts[j] = NoFact}
           upd == {j \in DOMAIN b : Changed(e, j, b[j])}
           r == Receipt(e, "rows", "success", b, ins, upd)
<1> SUFFICES ASSUME NEW k \in Keys, facts'[k] # NoFact
             PROVE  \E s \in journal' :
                       /\ s.run = facts'[k].run /\ s.call = facts'[k].call
                       /\ s.table = "rows" /\ s.status = "success"
                       /\ k \in DOMAIN s.batch /\ s.batch[k] = facts'[k].payload
  BY DEF FactsBacked, Backs
<1>1. run[e].stage = "saving" /\ Current(e).kind = "rows" /\ b \in Batches
  BY SavingFacts DEF Ingest
<1>2. facts'[k] = IF k \in DOMAIN b THEN Written(e, k, b[k]) ELSE facts[k]
  BY DEF Ingest
<1>3. r \in journal' /\ journal \subseteq journal'
  BY DEF Ingest
<1>4. /\ r.run = e /\ r.call = CallIndex(e) /\ r.table = "rows"
      /\ r.status = "success" /\ r.batch = b
  BY DEF Receipt
<1> HIDE DEF r
<1>5. facts[k] # NoFact =>
        \E s \in journal : /\ s.run = facts[k].run /\ s.call = facts[k].call
                           /\ s.table = "rows" /\ s.status = "success"
                           /\ k \in DOMAIN s.batch /\ s.batch[k] = facts[k].payload
  BY DEF FactsBacked, Backs
<1>6. CASE k \notin DOMAIN b
  BY <1>2, <1>3, <1>5, <1>6
<1>7. CASE k \in DOMAIN b
  <2> DEFINE w == Written(e, k, b[k])
  <2>1. /\ \/ w.run = e /\ w.call = CallIndex(e)
           \/ facts[k] # NoFact /\ w = facts[k]
        /\ ~AppendOnly => w.payload = b[k]
        /\ AppendOnly /\ facts[k] = NoFact => w.payload = b[k]
        /\ AppendOnly /\ facts[k] # NoFact => w.payload = facts[k].payload
    BY <1>1, <1>7, WrittenFacts
  <2>2. AppendOnly => b[k] = k
    BY <1>1, <1>7, BatchFacts
  <2>3. AppendOnly /\ facts[k] # NoFact => facts[k].payload = k
    BY <1>5, BatchFacts DEF StoreInv, JournalTyped
  <2>4. w.payload = b[k]
    BY <2>1, <2>2, <2>3, StoreConstants
  <2>5. facts'[k] = w
    BY <1>2, <1>7
  <2> HIDE DEF w
  <2>6. CASE w.run = e /\ w.call = CallIndex(e)
    BY <1>3, <1>4, <1>7, <2>4, <2>5, <2>6
  <2>7. CASE facts[k] # NoFact /\ w = facts[k]
    BY <1>3, <1>5, <2>5, <2>7
  <2> QED BY <2>1, <2>6, <2>7
<1> QED BY <1>6, <1>7

\* Every stored row holds exactly what the committed success receipt it names
\* returned for it.
THEOREM EveryFactBacked == Spec => []FactsBacked
<1>1. Init => FactsBacked
  BY DEF Init, FactsBacked
<1>2. StoreInv /\ FactsBacked /\ [Next]_vars => FactsBacked'
  <2> SUFFICES ASSUME StoreInv, FactsBacked, [Next]_vars PROVE FactsBacked'
    OBVIOUS
  <2>1. CASE facts' = facts
    BY <2>1, ReceiptsStay DEF FactsBacked, Backs
  <2>2. CASE facts' # facts
    BY <2>2, FactsChangeByIngest, IngestKeepsFactsBacked
  <2> QED BY <2>1, <2>2
<1> QED BY StoreInvAlways, <1>1, <1>2, PTL DEF Spec

-----------------------------------------------------------------------------
(* Receipt identity.                                                       *)

\* The calls a run has dealt with.
Done(s) == IF s.stage = "saving" THEN s.base + s.next - 1 ELSE s.base

\* Receipts of a running run number the calls it has dealt with; only the row
\* receipt of a late commit error is ahead of them, by one.
Numbered ==
    \A r \in journal :
        /\ run[r.run].stage # "idle"
        /\ run[r.run].stage \in {"fetching", "saving"} =>
              \/ r.call <= Done(run[r.run])
              \/ /\ run[r.run].stage = "saving" /\ run[r.run].late
                 /\ r.call = CallIndex(r.run) /\ r.table = "rows"

IdInv == Numbered /\ ReceiptIdsUnique

\* Moving on counts the current call as dealt with.
LEMMA AdvancedDone ==
    ASSUME NEW r \in RunStates, NEW s, s = Advanced(r), r.stage = "saving",
           r.next \in 1..Len(r.calls)
    PROVE  /\ s.stage \in {"fetching", "saving", "finished"}
           /\ s.stage \in {"fetching", "saving"} => Done(s) = r.base + r.next
<1>1. /\ r.next \in Nat /\ r.base \in Nat /\ Len(r.calls) \in Nat /\ r.variant \in Nat
      /\ Len(VariantsOf[r.gen]) \in Nat
  <2>1. r.gen \in Generations /\ r.calls \in Seq(Calls)
    BY DEF RunStates
  <2> QED BY <2>1, StoreConstants DEF RunStates
<1>2. CASE r.next < Len(r.calls)
  <2>1. s = [r EXCEPT !.next = r.next + 1, !.late = FALSE]
    BY <1>2 DEF Advanced
  <2>2. s.stage = "saving" /\ s.base = r.base /\ s.next = r.next + 1
    BY <2>1 DEF RunStates
  <2> QED BY <1>1, <2>2 DEF Done
<1>3. CASE ~(r.next < Len(r.calls)) /\ r.variant < Len(VariantsOf[r.gen])
  <2>1. s = [r EXCEPT !.stage = "fetching", !.variant = r.variant + 1, !.next = 0,
                      !.base = r.base + Len(r.calls), !.calls = <<>>,
                      !.verdict = "empty", !.late = FALSE]
    BY <1>3 DEF Advanced
  <2>2. s.stage = "fetching" /\ s.base = r.base + Len(r.calls)
    BY <2>1 DEF RunStates
  <2>3. r.next = Len(r.calls)
    BY <1>1, <1>3
  <2> QED BY <1>1, <2>2, <2>3 DEF Done
<1>4. CASE ~(r.next < Len(r.calls)) /\ ~(r.variant < Len(VariantsOf[r.gen]))
  <2>1. s = [r EXCEPT !.stage = "finished", !.variant = 1, !.base = 0, !.next = 0,
                      !.calls = <<>>, !.verdict = "empty", !.late = FALSE]
    BY <1>4 DEF Advanced, Ended
  <2>2. s.stage = "finished"
    BY <2>1 DEF RunStates
  <2> QED BY <2>2
<1> QED BY <1>2, <1>3, <1>4

\* A receipt written under the current call index keeps receipt ids unique,
\* when its table is not the one of a late commit error.
LEMMA NewReceiptUnique ==
    ASSUME StoreInv, IdInv, NEW e \in Runs, run[e].stage = "saving",
           NEW r, r.run = e, r.call = CallIndex(e),
           r.table = "none" \/ ~run[e].late,
           journal' = journal \union {r}
    PROVE  ReceiptIdsUnique'
<1>1. \A s \in journal : s.run = e /\ s.call = CallIndex(e) => s.table # r.table
  <2> SUFFICES ASSUME NEW s \in journal, s.run = e, s.call = CallIndex(e)
               PROVE  s.table # r.table
    OBVIOUS
  <2>1. run[e].base \in Nat /\ run[e].next \in Nat
    BY DEF StoreInv, TypeOK, RunStates
  <2>2. ~(s.call <= Done(run[e]))
    BY <2>1 DEF Done, CallIndex
  <2> QED BY <2>2 DEF IdInv, Numbered
<1> QED BY <1>1 DEF IdInv, ReceiptIdsUnique

\* A saving run that wrote a receipt for its current call moves on.
LEMMA MovedOnNumbered ==
    ASSUME StoreInv, IdInv, NEW e \in Runs, run[e].stage = "saving",
           NEW r \in RunStates, r.stage = "saving", r.base = run[e].base,
           r.next = run[e].next, r.calls = run[e].calls,
           run' = [run EXCEPT ![e] = Advanced(r)],
           \A s \in journal' \ journal : s.run = e /\ s.call = CallIndex(e)
    PROVE  Numbered'
<1> DEFINE n == Advanced(r)
<1>1. /\ n.stage \in {"fetching", "saving", "finished"}
      /\ n.stage \in {"fetching", "saving"} => Done(n) = CallIndex(e)
  BY AdvancedDone DEF StoreInv, Progress, CallIndex
<1>2. run'[e] = n /\ \A f \in Runs \ {e} : run'[f] = run[f]
  BY DEF StoreInv, TypeOK
<1>3. run[e].base \in Nat /\ run[e].next \in Nat
  BY DEF StoreInv, TypeOK, RunStates
<1> HIDE DEF n
<1> SUFFICES ASSUME NEW s \in journal'
             PROVE  /\ run'[s.run].stage # "idle"
                    /\ run'[s.run].stage \in {"fetching", "saving"} =>
                          \/ s.call <= Done(run'[s.run])
                          \/ /\ run'[s.run].stage = "saving" /\ run'[s.run].late
                             /\ s.call = CallIndex(s.run)' /\ s.table = "rows"
  BY DEF Numbered
<1>4. CASE s.run = e
  <2>1. s.call <= CallIndex(e)
    <3>1. CASE s \in journal
      <4>1. s.call \in Nat
        BY <3>1 DEF StoreInv, TypeOK, Receipts
      <4> QED BY <1>3, <1>4, <3>1, <4>1 DEF IdInv, Numbered, Done, CallIndex
    <3>2. CASE s \notin journal
      BY <1>3, <3>2 DEF CallIndex
    <3> QED BY <3>1, <3>2
  <2> QED BY <1>1, <1>2, <1>4, <2>1
<1>5. CASE s.run # e
  <2>1. s \in journal /\ s.run \in Runs
    BY <1>5 DEF StoreInv, TypeOK, Receipts
  <2>2. run'[s.run] = run[s.run] /\ CallIndex(s.run)' = CallIndex(s.run)
    BY <1>2, <1>5, <2>1 DEF CallIndex
  <2> QED BY <2>1, <2>2 DEF IdInv, Numbered
<1> QED BY <1>4, <1>5

\* A run that writes no receipt and does not fall behind its own count.
LEMMA IdleMoveNumbered ==
    ASSUME StoreInv, IdInv, NEW e \in Runs, UNCHANGED journal,
           NEW s, run' = [run EXCEPT ![e] = s], s.stage # "idle",
           \/ ~(s.stage \in {"fetching", "saving"})
           \/ run[e].stage = "idle"
           \/ run[e].stage = "fetching" /\ Done(s) = Done(run[e])
    PROVE  IdInv'
<1>1. run'[e] = s /\ \A f \in Runs \ {e} : run'[f] = run[f]
  BY DEF StoreInv, TypeOK
<1>2. \A f \in Runs \ {e} : CallIndex(f)' = CallIndex(f)
  BY <1>1 DEF CallIndex
<1>3. \A r \in journal : r.run \in Runs
  BY DEF StoreInv, TypeOK, Receipts
<1>4. Numbered'
  <2> SUFFICES ASSUME NEW r \in journal
               PROVE  /\ run'[r.run].stage # "idle"
                      /\ run'[r.run].stage \in {"fetching", "saving"} =>
                            \/ r.call <= Done(run'[r.run])
                            \/ /\ run'[r.run].stage = "saving" /\ run'[r.run].late
                               /\ r.call = CallIndex(r.run)' /\ r.table = "rows"
    BY DEF Numbered
  <2>1. CASE r.run = e
    BY <1>1, <2>1 DEF IdInv, Numbered
  <2>2. CASE r.run # e
    BY <1>1, <1>2, <1>3, <2>2 DEF IdInv, Numbered
  <2> QED BY <2>1, <2>2
<1>5. ReceiptIdsUnique'
  BY DEF IdInv, ReceiptIdsUnique
<1> QED BY <1>4, <1>5 DEF IdInv

\* Receipts are always numbered apart.
LEMMA IdsAlways == Spec => []IdInv
<1>1. Init => IdInv
  BY DEF Init, IdInv, Numbered, ReceiptIdsUnique
<1>2. StoreInv /\ IdInv /\ [Next]_vars => IdInv'
  <2> SUFFICES ASSUME StoreInv, IdInv, [Next]_vars PROVE IdInv'
    OBVIOUS
  <2>1. CASE UNCHANGED <<run, journal>>
    BY <2>1 DEF IdInv, Numbered, ReceiptIdsUnique, CallIndex
  <2>2. ASSUME NEW e \in Runs, Start(e) PROVE IdInv'
    <3> DEFINE s == [run[e] EXCEPT !.stage = "fetching", !.gen = registry]
    <3>1. run[e] \in RunStates
      BY DEF StoreInv, TypeOK
    <3>2. run' = [run EXCEPT ![e] = s] /\ s.stage # "idle"
      BY <2>2, <3>1 DEF Start, StoreInv, TypeOK, RunStates
    <3> HIDE DEF s
    <3> QED BY <2>2, <3>2, IdleMoveNumbered DEF Start
  <2>3. ASSUME NEW e \in Runs, Fetch(e) PROVE IdInv'
    <3>1. run[e] \in RunStates /\ run[e].stage = "fetching" /\ UNCHANGED journal
      BY <2>3 DEF StoreInv, TypeOK, Fetch
    <3>2. PICK f, verdict :
              run' = [run EXCEPT ![e].stage = "saving", ![e].calls = f.calls,
                             ![e].next = 1, ![e].verdict = verdict,
                             ![e].overflow = @ \/ f.overflow,
                             ![e].bad = @ \/ verdict \in {"failed", "rejected"}]
      BY <2>3, Zenon DEF Fetch
    <3> DEFINE over == run[e].overflow \/ f.overflow
               bad == run[e].bad \/ verdict \in {"failed", "rejected"}
               s == [run[e] EXCEPT !.stage = "saving", !.calls = f.calls, !.next = 1,
                                   !.verdict = verdict, !.overflow = over, !.bad = bad]
    <3>3. run' = [run EXCEPT ![e] = s]
      BY <3>2, Zenon DEF StoreInv, TypeOK
    <3>4. s.stage = "saving" /\ s.next = 1 /\ s.base = run[e].base
      BY <3>1 DEF RunStates
    <3>5. Done(s) = Done(run[e])
      BY <3>1, <3>4 DEF Done, RunStates
    <3> HIDE DEF s
    <3> QED BY <3>1, <3>3, <3>4, <3>5, IdleMoveNumbered
  <2>4. ASSUME NEW e \in Runs, Crash(e) PROVE IdInv'
    <3> DEFINE s == Killed(run[e])
    <3>1. run[e] \in RunStates
      BY DEF StoreInv, TypeOK
    <3>2. s.stage = "dead"
      BY <3>1 DEF Killed, Ended, RunStates
    <3>3. run' = [run EXCEPT ![e] = s] /\ UNCHANGED journal
      BY <2>4 DEF Crash
    <3> HIDE DEF s
    <3> QED BY <3>2, <3>3, IdleMoveNumbered
  <2>5. ASSUME NEW e \in Runs, SaveEmpty(e) PROVE IdInv'
    <3> DEFINE r == Receipt(e, "none", "empty", NoRows, {}, {})
    <3>1. run[e] \in RunStates /\ run[e].stage = "saving"
      BY <2>5 DEF StoreInv, TypeOK, SaveEmpty
    <3>2. journal' = journal \union {r} /\ run' = [run EXCEPT ![e] = Advanced(run[e])]
      BY <2>5 DEF SaveEmpty
    <3>3. r.run = e /\ r.call = CallIndex(e) /\ r.table = "none"
      BY DEF Receipt
    <3> HIDE DEF r
    <3> QED BY <3>1, <3>2, <3>3, NewReceiptUnique, MovedOnNumbered DEF IdInv
  <2>6. ASSUME NEW e \in Runs, SaveFailed(e) PROVE IdInv'
    <3> DEFINE r == Receipt(e, "none", "failed", NoRows, {}, {})
               bad == run[e].bad \/ Current(e).kind # "failed"
               m == [run[e] EXCEPT !.bad = bad]
    <3>1. run[e] \in RunStates /\ run[e].stage = "saving"
      BY <2>6 DEF StoreInv, TypeOK, SaveFailed
    <3>2. journal' = journal \union {r}
      BY <2>6 DEF SaveFailed
    <3>3. run' = [run EXCEPT ![e] = Advanced(m)]
      BY <2>6, Zenon DEF SaveFailed
    <3>4. /\ m \in RunStates /\ m.stage = "saving" /\ m.base = run[e].base
          /\ m.next = run[e].next /\ m.calls = run[e].calls
      <4>1. bad \in BOOLEAN
        OBVIOUS
      <4> HIDE DEF bad
      <4>2. m \in RunStates
        BY <3>1, <4>1, Zenon DEF RunStates
      <4> QED BY <3>1, <4>2 DEF RunStates
    <3>5. r.run = e /\ r.call = CallIndex(e) /\ r.table = "none"
      BY DEF Receipt
    <3> HIDE DEF r, m
    <3>6. ReceiptIdsUnique'
      BY <3>1, <3>2, <3>5, NewReceiptUnique
    <3>7. Numbered'
      BY <3>1, <3>2, <3>3, <3>4, <3>5, MovedOnNumbered
    <3> QED BY <3>6, <3>7 DEF IdInv
  <2>7. ASSUME NEW e \in Runs, NEW late \in BOOLEAN, Ingest(e, late) PROVE IdInv'
    <3> DEFINE b == Current(e).batch
               ins == {k \in DOMAIN b : facts[k] = NoFact}
               upd == {k \in DOMAIN b : Changed(e, k, b[k])}
               r == Receipt(e, "rows", "success", b, ins, upd)
    <3>1. run[e] \in RunStates /\ run[e].stage = "saving" /\ ~run[e].late
      BY <2>7 DEF StoreInv, TypeOK, Ingest
    <3>2. journal' = journal \union {r}
      BY <2>7 DEF Ingest
    <3>3. r.run = e /\ r.call = CallIndex(e) /\ r.table = "rows"
      BY DEF Receipt
    <3> HIDE DEF r
    <3>4. ReceiptIdsUnique'
      BY <3>1, <3>2, <3>3, NewReceiptUnique
    <3>5. CASE ~late
      <4> DEFINE m == [run[e] EXCEPT !.rows = TRUE]
      <4>1. run' = [run EXCEPT ![e] = Advanced(m)]
        BY <2>7, <3>5 DEF Ingest
      <4>2. m \in RunStates
        BY <3>1, Zenon DEF RunStates
      <4>3. /\ m.stage = "saving" /\ m.base = run[e].base
            /\ m.next = run[e].next /\ m.calls = run[e].calls
        BY <3>1 DEF RunStates
      <4> HIDE DEF m
      <4>4. Numbered'
        BY <3>1, <3>2, <3>3, <4>1, <4>2, <4>3, MovedOnNumbered
      <4> QED BY <3>4, <4>4 DEF IdInv
    <3>6. CASE late
      <4> DEFINE m == [run[e] EXCEPT !.late = TRUE, !.bad = TRUE]
      <4>1. run' = [run EXCEPT ![e] = m]
        BY <2>7, <3>6 DEF Ingest
      <4>2. m.late /\ m.stage = "saving" /\ m.base = run[e].base /\ m.next = run[e].next
        BY <3>1 DEF RunStates
      <4>3. Done(m) = Done(run[e])
        BY <3>1, <4>2 DEF Done
      <4> HIDE DEF m
      <4>4. run'[e] = m /\ \A f \in Runs \ {e} : run'[f] = run[f]
        BY <4>1 DEF StoreInv, TypeOK
      <4>5. \A f \in Runs : CallIndex(f)' = CallIndex(f)
        BY <4>2, <4>4 DEF CallIndex
      <4>6. Numbered'
        <5> SUFFICES ASSUME NEW s \in journal'
                     PROVE  /\ run'[s.run].stage # "idle"
                            /\ run'[s.run].stage \in {"fetching", "saving"} =>
                                  \/ s.call <= Done(run'[s.run])
                                  \/ /\ run'[s.run].stage = "saving" /\ run'[s.run].late
                                     /\ s.call = CallIndex(s.run)' /\ s.table = "rows"
          BY DEF Numbered
        <5>1. CASE s = r
          BY <3>1, <3>3, <4>2, <4>4, <4>5, <5>1
        <5>2. CASE s # r
          <6>1. s \in journal /\ s.run \in Runs
            BY <3>2, <5>2 DEF StoreInv, TypeOK, Receipts
          <6>2. CASE s.run = e
            BY <3>1, <4>2, <4>3, <4>4, <4>5, <6>1, <6>2 DEF IdInv, Numbered
          <6>3. CASE s.run # e
            BY <4>4, <4>5, <6>1, <6>3 DEF IdInv, Numbered
          <6> QED BY <6>2, <6>3
        <5> QED BY <5>1, <5>2
      <4> QED BY <3>4, <4>6 DEF IdInv
    <3> QED BY <3>5, <3>6
  <2>8. CASE Deploy
    BY <2>1, <2>8 DEF Deploy
  <2>9. CASE UNCHANGED vars
    BY <2>1, <2>9 DEF vars
  <2> QED BY <2>2, <2>3, <2>4, <2>5, <2>6, <2>7, <2>8, <2>9 DEF Next
<1> QED BY StoreInvAlways, <1>1, <1>2, PTL DEF Spec

\* No two receipts ever share run, call index and table, so the receipt
\* primary key admits every honest transaction.
THEOREM ReceiptIdsNeverCollide == Spec => []ReceiptIdsUnique
<1>1. IdInv => ReceiptIdsUnique
  BY DEF IdInv
<1> QED BY IdsAlways, <1>1, PTL

-----------------------------------------------------------------------------
(* Healthy provenance.                                                     *)

\* A key some receipt inserted is stored.
InsertedStored == \A r \in journal : \A k \in r.inserted : facts[k] # NoFact

CleanInv == InsertedStored /\ CleanRunKeepsItsRows

\* The reader finds a run explicitly failed only by a failed receipt of it.
LEMMA FailureHasReceipt ==
    ASSUME NEW e, ExplicitFailure(e)
    PROVE  \E s \in Of(e) : s.status = "failed"
<1>1. PICK v \in Seen(e) : VariantStatus(e, v) = "failed"
  BY DEF ExplicitFailure
<1>2. PICK c \in LastAttempts(e, v) : AttemptStatus(e, c) = "failed"
  BY <1>1 DEF VariantStatus
<1> DEFINE terminal == {r \in Of(e) : r.call = c /\ r.status # "success"}
<1>3. {r \in {s \in Of(e) : s.call = c} : r.status # "success"} = terminal
  OBVIOUS
<1>4. terminal # {} /\ (CHOOSE r \in terminal : TRUE).status = "failed"
  BY <1>2, <1>3 DEF AttemptStatus
<1>5. (CHOOSE r \in terminal : TRUE) \in terminal
  BY <1>4
<1> QED BY <1>4, <1>5

\* A step that writes no rows, and whose new receipt inserts none.
LEMMA NoInsertKeepsClean ==
    ASSUME CleanInv, UNCHANGED facts, journal \subseteq journal',
           \A r \in journal' \ journal : r.inserted = {}
    PROVE  CleanInv'
BY DEF CleanInv, InsertedStored, CleanRunKeepsItsRows, Of

\* Rows that are written do not spoil what a clean run shows.
LEMMA IngestKeepsClean ==
    ASSUME StoreInv, CleanInv, NEW e \in Runs, NEW late \in BOOLEAN, Ingest(e, late)
    PROVE  CleanInv'
<1> DEFINE b == Current(e).batch
           ins == {j \in DOMAIN b : facts[j] = NoFact}
           upd == {j \in DOMAIN b : Changed(e, j, b[j])}
           n == Receipt(e, "rows", "success", b, ins, upd)
<1>1. run[e].stage = "saving" /\ Current(e).kind = "rows" /\ b \in Batches
  BY SavingFacts DEF Ingest
<1>2. \A k \in Keys : facts'[k] = IF k \in DOMAIN b THEN Written(e, k, b[k]) ELSE facts[k]
  BY DEF Ingest
<1>3. journal' = journal \union {n}
  BY DEF Ingest
<1>4. n.inserted = ins /\ n.run = e
  BY DEF Receipt
<1> HIDE DEF n
<1>5. ins \subseteq Keys /\ \A r \in journal : r.inserted \subseteq Keys
  BY <1>1, BatchFacts DEF StoreInv, TypeOK, Receipts
<1>6. \A k \in Keys : facts[k] # NoFact => facts'[k] # NoFact
  BY <1>1, <1>2, WrittenFacts
<1>7. \A k \in ins : facts'[k] # NoFact /\ facts'[k].run = e
  BY <1>1, <1>2, <1>5, WrittenFacts
<1>8. InsertedStored'
  BY <1>3, <1>4, <1>5, <1>6, <1>7 DEF CleanInv, InsertedStored
<1>9. CleanRunKeepsItsRows'
  <2> SUFFICES ASSUME NEW r \in journal', NEW k \in Keys, AppendOnly, k \in r.inserted,
                      ~\E s \in Of(r.run)' : s.status = "failed"
               PROVE  facts'[k].run = r.run
    BY DEF CleanRunKeepsItsRows, Of
  <2>1. CASE r = n
    BY <1>4, <1>7, <2>1
  <2>2. CASE r \in journal
    <3>1. ~\E s \in Of(r.run) : s.status = "failed"
      BY <1>3 DEF Of
    <3>2. facts[k] # NoFact /\ facts[k].run = r.run
      BY <2>2, <3>1 DEF CleanInv, InsertedStored, CleanRunKeepsItsRows
    <3>3. ~ExplicitFailure(facts[k].run)
      BY <3>1, <3>2, FailureHasReceipt
    <3>4. CASE k \in DOMAIN b
      BY <1>1, <1>2, <3>2, <3>3, <3>4, WrittenFacts
    <3>5. CASE k \notin DOMAIN b
      BY <1>2, <3>2, <3>5
    <3> QED BY <3>4, <3>5
  <2> QED BY <1>3, <2>1, <2>2
<1> QED BY <1>8, <1>9 DEF CleanInv

\* An append-only row never leaves a run none of whose attempts failed, so
\* repair takes rows from failed runs only.
THEOREM CleanRunsKeepTheirRows == Spec => []CleanRunKeepsItsRows
<1>1. Init => CleanInv
  BY DEF Init, CleanInv, InsertedStored, CleanRunKeepsItsRows
<1>2. StoreInv /\ CleanInv /\ [Next]_vars => CleanInv'
  <2> SUFFICES ASSUME StoreInv, CleanInv, [Next]_vars PROVE CleanInv'
    OBVIOUS
  <2>1. CASE \E e \in Runs, late \in BOOLEAN : Ingest(e, late)
    BY <2>1, IngestKeepsClean
  <2>2. CASE \E e \in Runs : SaveEmpty(e) \/ SaveFailed(e)
    BY <2>2, NoInsertKeepsClean DEF SaveEmpty, SaveFailed, Receipt
  <2>3. CASE UNCHANGED <<facts, journal>>
    BY <2>3, NoInsertKeepsClean
  <2> QED BY <2>1, <2>2, <2>3 DEF Next, vars, Deploy, Start, Fetch, Crash
<1>3. CleanInv => CleanRunKeepsItsRows
  BY DEF CleanInv
<1> QED BY StoreInvAlways, <1>1, <1>2, <1>3, PTL DEF Spec

-----------------------------------------------------------------------------
(* What the reader makes of a run.                                         *)

\* The reader goes by the receipts of the run and by nothing else.
LEMMA StatusByReceipts ==
    ASSUME NEW e, Of(e)' = Of(e)
    PROVE  /\ Seen(e)' = Seen(e)
           /\ \A v : VariantStatus(e, v)' = VariantStatus(e, v)
<1>1. ASSUME NEW c PROVE AttemptStatus(e, c)' = AttemptStatus(e, c)
  <2> DEFINE terminal == {r \in {s \in Of(e) : s.call = c} : r.status # "success"}
  <2>1. terminal' = terminal
    OBVIOUS
  <2>2. AttemptStatus(e, c) = IF terminal = {} THEN "success"
                              ELSE (CHOOSE r \in terminal : TRUE).status
    BY DEF AttemptStatus
  <2>3. AttemptStatus(e, c)' = IF terminal' = {} THEN "success"
                               ELSE (CHOOSE r \in terminal' : TRUE).status
    BY DEF AttemptStatus
  <2> HIDE DEF terminal
  <2> QED BY <2>1, <2>2, <2>3
<1>2. ASSUME NEW v PROVE LastAttempts(e, v)' = LastAttempts(e, v)
  BY Zenon DEF LastAttempts
<1>3. ASSUME NEW v PROVE VariantStatus(e, v)' = VariantStatus(e, v)
  <2>1. {AttemptStatus(e, c) : c \in LastAttempts(e, v)}'
          = {AttemptStatus(e, c) : c \in LastAttempts(e, v)}
    BY <1>1, <1>2
  <2> QED BY <2>1, Zenon DEF VariantStatus
<1>4. Seen(e)' = Seen(e)
  BY Zenon DEF Seen
<1> QED BY <1>3, <1>4

\* The receipts of a run decide whether its cohort is complete.
LEMMA CohortByReceipts ==
    ASSUME NEW e, NEW g, Of(e)' = Of(e)
    PROVE  Cohort(e, g)' = Cohort(e, g)
<1>1. {VariantStatus(e, v) : v \in Seen(e)}' = {VariantStatus(e, v) : v \in Seen(e)}
  BY StatusByReceipts
<1> QED BY <1>1, StatusByReceipts, Zenon DEF Cohort

\* The receipts of a run decide whether it failed.
LEMMA FailureByReceipts ==
    ASSUME NEW e, Of(e)' = Of(e), ExplicitFailure(e)'
    PROVE  ExplicitFailure(e)
<1>1. PICK v \in Seen(e)' : VariantStatus(e, v)' = "failed"
  BY DEF ExplicitFailure
<1>2. v \in Seen(e) /\ VariantStatus(e, v) = "failed"
  BY <1>1, StatusByReceipts
<1> QED BY <1>2 DEF ExplicitFailure

\* Who writes: a saving run, for itself.
LEMMA WritesOwnReceipt ==
    ASSUME Next
    PROVE  \/ UNCHANGED journal
           \/ \E e \in Runs : \E n :
                 /\ run[e].stage = "saving" /\ n.run = e /\ journal' = journal \union {n}
<1>1. ASSUME NEW e \in Runs, SaveEmpty(e) \/ SaveFailed(e) \/ Ingest(e, TRUE) \/ Ingest(e, FALSE)
      PROVE  \E n : /\ run[e].stage = "saving" /\ n.run = e
                    /\ journal' = journal \union {n}
  <2>1. CASE SaveEmpty(e)
    BY <2>1 DEF SaveEmpty, Receipt
  <2>2. CASE SaveFailed(e)
    BY <2>2 DEF SaveFailed, Receipt
  <2>3. ASSUME NEW late, Ingest(e, late)
        PROVE  \E n : /\ run[e].stage = "saving" /\ n.run = e
                      /\ journal' = journal \union {n}
    <3> DEFINE b == Current(e).batch
               n == Receipt(e, "rows", "success", b, {k \in DOMAIN b : facts[k] = NoFact},
                            {k \in DOMAIN b : Changed(e, k, b[k])})
    <3>1. run[e].stage = "saving" /\ journal' = journal \union {n}
      BY <2>3 DEF Ingest
    <3>2. n.run = e
      BY DEF Receipt
    <3> QED BY <3>1, <3>2
  <2> QED BY <1>1, <2>1, <2>2, <2>3
<1> QED BY <1>1 DEF Next, Deploy, Start, Fetch, Crash

\* No receipt is withdrawn, and what the reader makes of a run that has ended is
\* final under every release, whatever the other runs still write
\* (write_terminal_receipt and ingest_provider_native_rows only insert).
THEOREM OutcomesAreFinal == Spec => EndedRunsAreFinal
<1> DEFINE Final ==
      /\ journal \subseteq journal'
      /\ \A e \in Runs : run[e].stage \in {"finished", "dead"} =>
             \A g \in Generations : Cohort(e, g)' = Cohort(e, g)
<1>1. Next => Final
  <2> SUFFICES ASSUME Next PROVE Final
    OBVIOUS
  <2>1. journal \subseteq journal'
    BY WritesOwnReceipt
  <2>2. ASSUME NEW e \in Runs, run[e].stage \in {"finished", "dead"}
        PROVE  Of(e)' = Of(e)
    BY <2>2, WritesOwnReceipt DEF Of
  <2> QED BY <2>1, <2>2, CohortByReceipts
<1>2. [Next]_vars => [Final]_vars
  BY <1>1
<1> HIDE DEF Final
<1>3. [][Next]_vars => [][Final]_vars
  BY <1>2, PTL
<1> QED BY <1>3, PTL DEF Spec, EndedRunsAreFinal, Final

-----------------------------------------------------------------------------
(* Rows that are withheld.                                                 *)

\* Receipts are numbered as they are written.
Dated == \A r \in journal : r.at \in Nat /\ r.at <= Cardinality(journal)

\* A receipt that is not a failure never makes its run explicitly failed.
LEMMA NoNewFailure ==
    ASSUME NEW e, NEW n, n.run = e, journal' = journal \union {n},
           n.status # "failed", \A r \in Of(e) : r.call = n.call => r.status # "failed",
           ~ExplicitFailure(e)
    PROVE  ~ExplicitFailure(e)'
<1> SUFFICES ASSUME ExplicitFailure(e)' PROVE FALSE
  OBVIOUS
<1>1. Of(e)' = Of(e) \union {n}
  BY DEF Of
<1>2. PICK v \in Seen(e)' : VariantStatus(e, v)' = "failed"
  BY DEF ExplicitFailure
<1>3. PICK c \in LastAttempts(e, v)' : AttemptStatus(e, c)' = "failed"
  BY <1>2 DEF VariantStatus
<1>4. PICK s \in Of(e)' : /\ c = s.call /\ s.variant = v
                          /\ \A t \in Of(e)' : t.variant = v /\ t.req = s.req => t.call <= s.call
  BY <1>3 DEF LastAttempts
<1> DEFINE now == {r \in {q \in Of(e)' : q.call = c} : r.status # "success"}
<1>5. now # {} /\ (CHOOSE r \in now : TRUE).status = "failed"
  BY <1>3 DEF AttemptStatus
<1>6. c # n.call
  <2> SUFFICES ASSUME c = n.call PROVE FALSE
    OBVIOUS
  <2>1. (CHOOSE r \in now : TRUE) \in now
    BY <1>5
  <2>2. \A r \in now : r.status # "failed"
    BY <1>1
  <2> HIDE DEF now
  <2> QED BY <1>5, <2>1, <2>2
<1>7. s \in Of(e)
  BY <1>1, <1>4, <1>6
<1>8. now = {r \in {q \in Of(e) : q.call = c} : r.status # "success"}
  BY <1>1, <1>6
<1>9. AttemptStatus(e, c) = "failed"
  BY <1>3, <1>5, <1>8 DEF AttemptStatus
<1>10. c \in LastAttempts(e, v)
  BY <1>1, <1>4, <1>7 DEF LastAttempts
<1>11. VariantStatus(e, v) = "failed" /\ v \in Seen(e)
  BY <1>4, <1>7, <1>9, <1>10 DEF VariantStatus, Seen
<1> QED BY <1>11 DEF ExplicitFailure

\* Why a row that r returned may be another run's to vouch for.
Explained(k, r) ==
    \/ facts[k].run = r.run
    \/ ~ExplicitFailure(facts[k].run)
    \/ \E s \in journal : /\ s.status = "failed" /\ s.at > r.at
                          /\ \E q \in Of(s.run) : k \in DOMAIN q.batch
    \/ \E s \in Of(r.run) : s.status = "failed"

HiddenInv ==
    /\ Dated
    /\ \A k \in Keys : \A r \in journal :
          AppendOnly /\ k \in DOMAIN r.batch => facts[k] # NoFact /\ Explained(k, r)

\* The receipts a saving run has written for its current call are no failures.
LEMMA NoFailureYet ==
    ASSUME StoreInv, IdInv, NEW e \in Runs, run[e].stage = "saving",
           NEW r \in Of(e), r.call = CallIndex(e)
    PROVE  r.status # "failed"
<1>1. run[e].base \in Nat /\ run[e].next \in Nat
  BY DEF StoreInv, TypeOK, RunStates
<1>2. ~(r.call <= Done(run[e]))
  BY <1>1 DEF Done, CallIndex
<1>3. r.table = "rows"
  BY <1>2 DEF IdInv, Numbered, Of
<1> QED BY <1>3 DEF StoreInv, JournalTyped, Of

\* The number of a new receipt.
LEMMA DatedStep ==
    ASSUME StoreInv, Dated, NEW n, n.at = Cardinality(journal) + 1,
           journal' = journal \union {n}
    PROVE  Dated' /\ \A r \in journal : r.at \in Nat /\ r.at < n.at
<1>1. IsFiniteSet(journal) /\ Cardinality(journal) \in Nat
  BY FS_CardinalityType DEF StoreInv, JournalTyped
<1>2. \A r \in journal : r.at \in Nat /\ r.at < n.at
  BY <1>1 DEF Dated
<1>3. Cardinality(journal') = Cardinality(journal) + 1
  <2>1. n \notin journal
    BY <1>2
  <2> QED BY <1>1, <2>1, FS_AddElement
<1> QED BY <1>1, <1>2, <1>3 DEF Dated

\* What explained a row still does while its owner does not change and no
\* failure is added to the owner's receipts.
LEMMA ExplainedStays ==
    ASSUME StoreInv, IdInv, NEW e \in Runs, run[e].stage = "saving",
           NEW n, n.run = e, n.call = CallIndex(e), n.status # "failed",
           journal' = journal \union {n},
           NEW k \in Keys, facts'[k].run = facts[k].run, NEW r \in journal, Explained(k, r)
    PROVE  Explained(k, r)'
<1>1. CASE ~ExplicitFailure(facts[k].run)
  <2>1. ~ExplicitFailure(facts[k].run)'
    <3> DEFINE o == facts[k].run
    <3> SUFFICES ASSUME NEW w, w = facts[k].run, ~ExplicitFailure(w)
                 PROVE  ~ExplicitFailure(w)'
      BY <1>1
    <3>1. CASE w = e
      <4>1. \A q \in Of(e) : q.call = n.call => q.status # "failed"
        BY NoFailureYet
      <4> QED BY <3>1, <4>1, NoNewFailure
    <3>2. CASE w # e
      <4>1. Of(w)' = Of(w)
        BY <3>2 DEF Of
      <4> QED BY <4>1, FailureByReceipts
    <3> QED BY <3>1, <3>2
  <2> QED BY <2>1 DEF Explained
<1>2. CASE ExplicitFailure(facts[k].run)
  BY <1>2 DEF Explained, Of
<1> QED BY <1>1, <1>2

\* An empty or failed receipt.
LEMMA TerminalKeepsHidden ==
    ASSUME StoreInv, IdInv, FactsBacked, HiddenInv, NEW e \in Runs,
           SaveEmpty(e) \/ SaveFailed(e)
    PROVE  HiddenInv'
<1>1. /\ run[e].stage = "saving" /\ UNCHANGED facts
      /\ \E st \in {"empty", "failed"} :
            journal' = journal \union {Receipt(e, "none", st, NoRows, {}, {})}
  BY DEF SaveEmpty, SaveFailed
<1>2. PICK st \in {"empty", "failed"} :
          journal' = journal \union {Receipt(e, "none", st, NoRows, {}, {})}
  BY <1>1
<1>3. PICK n : n = Receipt(e, "none", st, NoRows, {}, {})
  OBVIOUS
<1>4. /\ n.run = e /\ n.call = CallIndex(e) /\ n.status = st /\ n.batch = NoRows
      /\ n.at = Cardinality(journal) + 1
      /\ journal' = journal \union {n}
  BY <1>2, <1>3 DEF Receipt
<1>5. Dated' /\ \A r \in journal : r.at \in Nat /\ r.at < n.at
  BY <1>3, <1>4, DatedStep DEF HiddenInv
<1>6. ASSUME NEW k \in Keys, NEW r \in journal', AppendOnly, k \in DOMAIN r.batch
      PROVE  facts'[k] # NoFact /\ Explained(k, r)'
  <2>1. r \in journal
    BY <1>4, <1>6 DEF NoRows
  <2>2. facts[k] # NoFact /\ Explained(k, r)
    BY <1>6, <2>1 DEF HiddenInv
  <2>3. CASE st # "failed"
    BY <1>1, <1>3, <1>4, <2>1, <2>2, <2>3, ExplainedStays
  <2>4. CASE st = "failed" /\ facts[k].run = e
    <3>1. PICK q \in journal : q.run = e /\ k \in DOMAIN q.batch
      BY <2>2, <2>4 DEF FactsBacked, Backs
    <3>2. n \in journal' /\ n.status = "failed" /\ n.at > r.at
      BY <1>3, <1>4, <1>5, <2>1, <2>4
    <3>3. q \in Of(n.run)'
      BY <1>3, <1>4, <3>1 DEF Of
    <3> QED BY <1>1, <2>2, <3>1, <3>2, <3>3 DEF Explained
  <2>5. CASE st = "failed" /\ facts[k].run # e
    <3>1. ~ExplicitFailure(facts[k].run) => ~ExplicitFailure(facts[k].run)'
      <4> SUFFICES ASSUME NEW w, w = facts[k].run, ~ExplicitFailure(w)
                   PROVE  ~ExplicitFailure(w)'
        BY <1>1
      <4>1. Of(w)' = Of(w)
        BY <1>3, <1>4, <2>5 DEF Of
      <4> QED BY <4>1, FailureByReceipts
    <3>2. CASE ~ExplicitFailure(facts[k].run)
      BY <1>1, <2>2, <3>1, <3>2 DEF Explained
    <3>3. CASE ExplicitFailure(facts[k].run)
      BY <1>1, <1>4, <2>2, <3>3 DEF Explained, Of
    <3> QED BY <3>2, <3>3
  <2> QED BY <1>1, <2>2, <2>3, <2>4, <2>5
<1> QED BY <1>5, <1>6 DEF HiddenInv

\* A row transaction: a row stays with its owner, unless that was failed.
LEMMA IngestKeepsHidden ==
    ASSUME StoreInv, IdInv, HiddenInv, NEW e \in Runs, NEW late \in BOOLEAN, Ingest(e, late)
    PROVE  HiddenInv'
<1> DEFINE b == Current(e).batch
           ins == {j \in DOMAIN b : facts[j] = NoFact}
           upd == {j \in DOMAIN b : Changed(e, j, b[j])}
           n == Receipt(e, "rows", "success", b, ins, upd)
<1>1. run[e].stage = "saving" /\ Current(e).kind = "rows" /\ b \in Batches
  BY SavingFacts DEF Ingest
<1>2. \A k \in Keys : facts'[k] = IF k \in DOMAIN b THEN Written(e, k, b[k]) ELSE facts[k]
  BY DEF Ingest
<1>3. journal' = journal \union {n}
  BY DEF Ingest
<1>4. /\ n.run = e /\ n.call = CallIndex(e) /\ n.status = "success" /\ n.batch = b
      /\ n.at = Cardinality(journal) + 1
  BY DEF Receipt
<1> HIDE DEF n
<1>5. Dated'
  BY <1>3, <1>4, DatedStep DEF HiddenInv
<1>6. ASSUME NEW k \in Keys, NEW r \in journal', AppendOnly, k \in DOMAIN r.batch
      PROVE  facts'[k] # NoFact /\ Explained(k, r)'
  <2>1. ASSUME r \in journal, facts'[k].run = facts[k].run
        PROVE  Explained(k, r)'
    BY <1>1, <1>3, <1>4, <1>6, <2>1, ExplainedStays DEF HiddenInv
  <2>2. CASE r \in journal /\ k \notin DOMAIN b
    BY <1>2, <1>6, <2>1, <2>2 DEF HiddenInv
  <2>3. CASE r \in journal /\ k \in DOMAIN b
    <3>1. facts[k] # NoFact /\ Explained(k, r)
      BY <1>6, <2>3 DEF HiddenInv
    <3>2. /\ facts'[k] # NoFact
          /\ facts'[k].run # facts[k].run => ExplicitFailure(facts[k].run)
      BY <1>1, <1>2, <1>6, <2>3, <3>1, WrittenFacts
    <3>3. CASE facts'[k].run = facts[k].run
      BY <2>1, <2>3, <3>2, <3>3
    <3>4. CASE facts'[k].run # facts[k].run
      <4>1. \/ \E s \in journal : /\ s.status = "failed" /\ s.at > r.at
                                  /\ \E q \in Of(s.run) : k \in DOMAIN q.batch
            \/ \E s \in Of(r.run) : s.status = "failed"
        BY <3>1, <3>2, <3>4, FailureHasReceipt DEF Explained
      <4> QED BY <1>3, <3>2, <4>1 DEF Explained, Of
    <3> QED BY <3>3, <3>4
  <2>4. CASE r = n
    <3>1. k \in DOMAIN b
      BY <1>4, <1>6, <2>4
    <3>2. facts'[k] = Written(e, k, b[k])
      BY <1>2, <3>1
    <3>3. CASE facts'[k].run = e
      BY <1>1, <1>4, <2>4, <3>1, <3>2, <3>3, WrittenFacts DEF Explained
    <3>4. CASE facts'[k].run # e
      <4>1. facts[k] # NoFact /\ facts'[k] = facts[k] /\ ~ExplicitFailure(facts[k].run)
        BY <1>1, <1>6, <3>1, <3>2, <3>4, WrittenFacts
      <4>2. ~ExplicitFailure(facts[k].run)'
        <5> SUFFICES ASSUME NEW w, w = facts[k].run, ~ExplicitFailure(w)
                     PROVE  ~ExplicitFailure(w)'
          BY <4>1
        <5>1. Of(w)' = Of(w)
          BY <1>3, <1>4, <3>4, <4>1 DEF Of
        <5> QED BY <5>1, FailureByReceipts
      <4> QED BY <4>1, <4>2 DEF Explained
    <3> QED BY <3>3, <3>4
  <2> QED BY <1>3, <2>2, <2>3, <2>4
<1> QED BY <1>5, <1>6 DEF HiddenInv

\* Steps that write nothing.
LEMMA IdleKeepsHidden ==
    ASSUME HiddenInv, UNCHANGED <<facts, journal>>
    PROVE  HiddenInv'
<1>1. Dated'
  BY DEF HiddenInv, Dated
<1>2. ASSUME NEW w, ~ExplicitFailure(w) PROVE ~ExplicitFailure(w)'
  <2>1. Of(w)' = Of(w)
    BY DEF Of
  <2> QED BY <1>2, <2>1, FailureByReceipts
<1>3. ASSUME NEW k \in Keys, NEW r \in journal, Explained(k, r) PROVE Explained(k, r)'
  <2>1. CASE ~ExplicitFailure(facts[k].run)
    <3>1. ~ExplicitFailure(facts[k].run)'
      <4> SUFFICES ASSUME NEW w, w = facts[k].run, ~ExplicitFailure(w)
                   PROVE  ~ExplicitFailure(w)'
        BY <2>1
      <4> QED BY <1>2
    <3> QED BY <3>1 DEF Explained
  <2>2. CASE ExplicitFailure(facts[k].run)
    BY <1>3, <2>2 DEF Explained, Of
  <2> QED BY <2>1, <2>2
<1> QED BY <1>1, <1>3 DEF HiddenInv

\* A hidden row always has a reason.
LEMMA HiddenAlways == Spec => []HiddenInv
<1>1. Init => HiddenInv
  BY DEF Init, HiddenInv, Dated
<1>2. StoreInv /\ IdInv /\ FactsBacked /\ HiddenInv /\ [Next]_vars => HiddenInv'
  <2> SUFFICES ASSUME StoreInv, IdInv, FactsBacked, HiddenInv, [Next]_vars PROVE HiddenInv'
    OBVIOUS
  <2>1. ASSUME NEW e \in Runs, SaveEmpty(e) \/ SaveFailed(e) PROVE HiddenInv'
    BY <2>1, TerminalKeepsHidden
  <2>2. ASSUME NEW e \in Runs, NEW late \in BOOLEAN, Ingest(e, late) PROVE HiddenInv'
    BY <2>2, IngestKeepsHidden
  <2>3. CASE UNCHANGED <<facts, journal>>
    BY <2>3, IdleKeepsHidden
  <2> QED BY <2>1, <2>2, <2>3 DEF Next, vars, Deploy, Start, Fetch, Crash
<1> QED BY <1>1, <1>2, StoreInvAlways, IdsAlways, EveryFactBacked, PTL DEF Spec

-----------------------------------------------------------------------------
(* What a run reports and what its receipts tell.                          *)

\* A set of numbers that is not empty has a least one.
LEMMA NatLeast ==
    ASSUME NEW T \in SUBSET Nat, T # {}
    PROVE  \E n \in T : \A m \in T : n <= m
<1>1. PICK n \in T : \A m \in T : ~(<<m, n>> \in OpToRel(<, Nat))
  BY NatLessThanWellFounded, WFMin
<1>2. \A m \in T : ~(m < n)
  BY <1>1 DEF OpToRel
<1> QED BY <1>2

\* After an answer of rows the provider is asked something new.
LEMMA RequestsGrow ==
    ASSUME NEW calls \in Seq(Calls), WellFormed(calls),
           NEW i \in 1..Len(calls), NEW j \in 1..Len(calls), i < j,
           calls[i].kind = "rows"
    PROVE  calls[i].req < calls[j].req
<1> DEFINE T == {n \in (i + 1)..Len(calls) : calls[n].req <= calls[i].req}
<1>0. Len(calls) \in Nat /\ \A n \in 1..Len(calls) : calls[n] \in Calls
  OBVIOUS
<1>1. Len(calls) \in Nat /\ \A n \in 1..Len(calls) : calls[n].req \in Nat
  BY <1>0 DEF Calls
<1>2. ASSUME T # {} PROVE FALSE
  <2>1. T \in SUBSET Nat
    BY <1>1
  <2>2. PICK n \in T : \A m \in T : n <= m
    BY <1>2, <2>1, NatLeast
  <2>3. n \in 2..Len(calls) /\ n - 1 \in 1..Len(calls) /\ n - 1 \in Nat /\ n \in 1..Len(calls)
    BY <1>1, <2>2
  <2>4. \/ Retried(calls[n - 1]) /\ calls[n].req = calls[n - 1].req
        \/ calls[n].req = calls[n - 1].req + 1
    BY <2>3 DEF WellFormed
  <2>5. CASE n = i + 1
    BY <1>1, <2>2, <2>3, <2>4, <2>5 DEF Retried
  <2>6. CASE n # i + 1
    <3>1. n - 1 \in (i + 1)..Len(calls) /\ n - 1 \notin T
      BY <1>1, <2>2, <2>3, <2>6
    <3>2. calls[i].req < calls[n - 1].req
      BY <1>1, <2>3, <3>1
    <3> QED BY <1>1, <2>2, <2>3, <2>4, <3>2
  <2> QED BY <2>5, <2>6
<1>3. j \in (i + 1)..Len(calls) /\ j \notin T
  BY <1>1, <1>2
<1> QED BY <1>1, <1>3

\* The variant a run is at.
Now(s) == VariantsOf[s.gen][s.variant]

\* In the receipts R of one run: no later attempt of f's request, or one.
LastOf(R, f) == \A t \in R : t.variant = f.variant /\ t.req = f.req => t.call <= f.call
Superseded(R, f) == \E t \in R : t.variant = f.variant /\ t.req = f.req /\ f.call < t.call

\* The calls a run is saving, and what was made of them.
CallsFit(s) ==
    /\ s.stage = "fetching" => s.next = 0 /\ ~s.late
    /\ s.stage = "saving" =>
          /\ WellFormed(s.calls)
          /\ s.verdict = "failed" /\ ~s.overflow => s.calls[Len(s.calls)].kind = "failed"
          /\ s.calls[Len(s.calls)].kind = "failed" => s.verdict \in {"failed", "rejected"}
          /\ s.verdict \in {"failed", "rejected"} => s.bad
          /\ s.late => s.bad /\ s.calls[s.next].kind = "rows"

\* Where the receipts of a run belong: to a variant it is past, or to one of the
\* calls it is saving.
Placed(s, R) ==
    \A r \in R :
        /\ r.call \in Nat
        /\ r.call <= s.base => \E j \in 1..s.variant - 1 : r.variant = VariantsOf[s.gen][j]
        /\ s.base < r.call =>
              \E i \in 1..s.next :
                  /\ r.call = s.base + i
                  /\ r.variant = Now(s) /\ r.req = s.calls[i].req
                  /\ r.status = "success" => s.calls[i].kind = "rows"

\* A receipt no later call of the run can supersede.
Settled(s, f) ==
    \/ f.call <= s.base
    \/ \E i \in 1..s.next : f.call = s.base + i /\ s.calls[i].kind = "rows"

Coherent(R) ==
    /\ \A r, t \in R : r.call = t.call => r.variant = t.variant /\ r.req = t.req
    /\ \A r \in R : r.status = "success" => LastOf(R, r)

\* A failure that counts, told of a run that is bad; of one that is not, failures
\* that were made good, and rows exactly when it has some.
FailureTold(R) == \E f \in R : f.status = "failed" /\ LastOf(R, f)
RowsTold(s, R) ==
    /\ s.rows <=> \E r \in R : r.status = "success"
    /\ \A r, t \in R : r.status = "success" /\ t.call = r.call => t.status = "success"

ToldIdle(s, R) ==
    /\ R = {} /\ s.variant = 1 /\ s.base = 0 /\ s.next = 0
    /\ ~s.late /\ ~s.bad /\ ~s.rows

ToldActive(s, R) ==
    /\ CallsFit(s) /\ Placed(s, R) /\ Coherent(R)
    /\ \A j \in 1..s.variant - 1 : \E r \in R : r.variant = VariantsOf[s.gen][j]
    /\ s.bad /\ ~s.overflow =>
          \/ \E f \in R : f.status = "failed" /\ LastOf(R, f) /\ Settled(s, f)
          \/ s.stage = "saving" /\ (s.verdict \in {"failed", "rejected"} \/ s.late)
    /\ ~s.bad =>
          /\ \A f \in R : f.status = "failed" =>
                \/ Superseded(R, f)
                \/ /\ s.stage = "saving" /\ s.next > 1 /\ f.call = s.base + s.next - 1
                   /\ s.calls[s.next - 1].kind = "failed"
          /\ RowsTold(s, R)

ToldEnd(s, R) ==
    /\ {r.variant : r \in R} = Requested(s.gen) /\ Coherent(R)
    /\ s.bad /\ ~s.overflow => FailureTold(R)
    /\ ~s.bad => (\A f \in R : f.status = "failed" => Superseded(R, f)) /\ RowsTold(s, R)

Told(s, R) ==
    /\ s.stage = "idle" => ToldIdle(s, R)
    /\ s.stage \in {"fetching", "saving"} => ToldActive(s, R)
    /\ s.stage = "finished" => ToldEnd(s, R)

ToldInv == \A e \in Runs : Told(run[e], Of(e))

\* The receipt n of the current call of s.
OfCurrent(s, n) ==
    /\ n.call = s.base + s.next /\ n.variant = Now(s) /\ n.req = s.calls[s.next].req
    /\ n.status = "success" => s.calls[s.next].kind = "rows"

\* A run in the middle of a variant.
Saving(s) ==
    /\ s \in RunStates /\ s.stage = "saving"
    /\ s.variant \in 1..Len(VariantsOf[s.gen]) /\ s.next \in 1..Len(s.calls)

\* The counters of a run that saves are numbers.
LEMMA SavingNats ==
    ASSUME NEW s, Saving(s)
    PROVE  /\ s.base \in Nat /\ s.next \in Nat /\ s.variant \in Nat
           /\ s.calls \in Seq(Calls) /\ Len(s.calls) \in Nat
           /\ s.gen \in Generations /\ Len(VariantsOf[s.gen]) \in Nat
           /\ s.variant <= Len(VariantsOf[s.gen]) /\ 1 <= s.variant
           /\ s.next <= Len(s.calls) /\ 1 <= s.next
<1>1. s.gen \in Generations /\ s.calls \in Seq(Calls)
  BY DEF Saving, RunStates
<1>2. Len(VariantsOf[s.gen]) \in Nat
  BY <1>1, StoreConstants
<1> QED BY <1>1, <1>2 DEF Saving, RunStates

\* The new receipt is the last of its request.
LEMMA NewIsLast ==
    ASSUME NEW s, Saving(s), NEW R, Placed(s, R), NEW n, OfCurrent(s, n)
    PROVE  /\ \A r \in R : r.call <= n.call
           /\ LastOf(R \union {n}, n)
<1>1. \A r \in R : r.call <= n.call
  BY SavingNats DEF Placed, OfCurrent
<1> QED BY <1>1, SavingNats DEF LastOf, OfCurrent

\* What is settled stays the last of its request.
LEMMA SettledStaysLast ==
    ASSUME NEW s, Saving(s), NEW R, Placed(s, R), CallsFit(s), NEW n, OfCurrent(s, n),
           NEW f \in R, LastOf(R, f), Settled(s, f)
    PROVE  LastOf(R \union {n}, f)
<1> SUFFICES ASSUME n.variant = f.variant, n.req = f.req, f.call < n.call PROVE FALSE
  BY SavingNats DEF LastOf, Placed, OfCurrent
<1>1. CASE f.call <= s.base
  <2>1. PICK j \in 1..s.variant - 1 : f.variant = VariantsOf[s.gen][j]
    BY <1>1 DEF Placed
  <2>2. j \in 1..Len(VariantsOf[s.gen]) /\ s.variant \in 1..Len(VariantsOf[s.gen]) /\ j # s.variant
    BY SavingNats
  <2>3. VariantsOf[s.gen][j] = VariantsOf[s.gen][s.variant]
    BY <2>1 DEF OfCurrent, Now
  <2> QED BY <2>2, <2>3, SavingNats, StoreConstants
<1>2. CASE ~(f.call <= s.base)
  <2>1. PICK i \in 1..s.next : f.call = s.base + i /\ s.calls[i].kind = "rows"
    BY <1>2 DEF Settled
  <2>2. f.req = s.calls[i].req
    BY <1>2, <2>1, SavingNats DEF Placed
  <2>3. i < s.next /\ i \in 1..Len(s.calls) /\ s.next \in 1..Len(s.calls)
    BY <2>1, SavingNats DEF OfCurrent
  <2>4. s.calls[i].req < s.calls[s.next].req
    BY <2>1, <2>3, SavingNats, RequestsGrow DEF CallsFit, Saving
  <2>5. s.calls[i].req \in Nat /\ s.calls[s.next].req \in Nat
    <3>1. s.calls[i] \in Calls /\ s.calls[s.next] \in Calls
      BY <2>3, SavingNats
    <3> QED BY <3>1 DEF Calls
  <2> QED BY <2>2, <2>4, <2>5 DEF OfCurrent
<1> QED BY <1>1, <1>2

\* A successful receipt is settled.
LEMMA SuccessIsSettled ==
    ASSUME NEW s, Saving(s), NEW R, Placed(s, R), NEW r \in R, r.status = "success"
    PROVE  Settled(s, r)
BY SavingNats DEF Placed, Settled

\* The receipts with the new one are where they belong.
LEMMA NewIsPlaced ==
    ASSUME NEW s, Saving(s), NEW R, Placed(s, R), CallsFit(s), Coherent(R),
           NEW n, OfCurrent(s, n)
    PROVE  Placed(s, R \union {n}) /\ Coherent(R \union {n})
<1>1. n.call \in Nat /\ s.base < n.call /\ s.next \in 1..s.next
  BY SavingNats DEF OfCurrent
<1>2. Placed(s, R \union {n})
  BY <1>1, SavingNats DEF Placed, OfCurrent
<1>3. \A r \in R : r.call = n.call => r.variant = n.variant /\ r.req = n.req
  BY SavingNats DEF Placed, OfCurrent
<1>4. \A r \in R : r.status = "success" => LastOf(R \union {n}, r)
  BY SettledStaysLast, SuccessIsSettled DEF Coherent
<1>5. LastOf(R \union {n}, n)
  BY NewIsLast
<1> QED BY <1>2, <1>3, <1>4, <1>5 DEF Coherent

\* The attempt that awaited a retry is superseded by it.
LEMMA RetrySupersedes ==
    ASSUME NEW s, Saving(s), NEW R, Placed(s, R), CallsFit(s), NEW n, OfCurrent(s, n),
           NEW f \in R, s.next > 1, f.call = s.base + s.next - 1,
           s.calls[s.next - 1].kind = "failed"
    PROVE  Superseded(R \union {n}, f)
<1>1. s.next \in 2..Len(s.calls) /\ s.next - 1 \in 1..Len(s.calls)
  BY SavingNats
<1>2. s.calls[s.next].req = s.calls[s.next - 1].req
  BY <1>1 DEF CallsFit, Saving, WellFormed
<1>3. f.variant = Now(s) /\ f.req = s.calls[s.next - 1].req
  BY <1>1, SavingNats, SMTT(60) DEF Placed
<1> QED BY <1>2, <1>3, SavingNats DEF OfCurrent, Superseded

\* The current call has been dealt with, and the run has not yet moved on.
Noted(s, R) ==
    /\ Saving(s) /\ CallsFit(s) /\ Placed(s, R) /\ Coherent(R)
    /\ \A j \in 1..s.variant : \E r \in R : r.variant = VariantsOf[s.gen][j]
    /\ s.bad /\ ~s.overflow =>
          \/ \E f \in R : /\ f.status = "failed" /\ LastOf(R, f)
                          /\ Settled(s, f) \/ s.next = Len(s.calls)
          \/ s.next < Len(s.calls) /\ s.verdict \in {"failed", "rejected"}
    /\ ~s.bad =>
          /\ \A f \in R : f.status = "failed" =>
                \/ Superseded(R, f)
                \/ /\ s.next < Len(s.calls) /\ f.call = s.base + s.next
                   /\ s.calls[s.next].kind = "failed"
          /\ RowsTold(s, R)

\* Moving on to the next call, the next variant or the end loses nothing.
LEMMA AdvancedTold ==
    ASSUME NEW s, NEW R, Noted(s, R), NEW a, a = Advanced(s)
    PROVE  Told(a, R)
<1> Saving(s) /\ CallsFit(s) /\ Placed(s, R) /\ Coherent(R)
  BY DEF Noted
<1> /\ s.base \in Nat /\ s.next \in Nat /\ s.variant \in Nat
    /\ Len(s.calls) \in Nat /\ Len(VariantsOf[s.gen]) \in Nat
    /\ s.variant <= Len(VariantsOf[s.gen]) /\ 1 <= s.variant
    /\ s.next <= Len(s.calls) /\ 1 <= s.next
  BY SavingNats
<1>0. s \in RunStates /\ s.stage = "saving"
  BY DEF Saving
<1>1. CASE s.next < Len(s.calls)
  <2>1. a = [s EXCEPT !.next = s.next + 1, !.late = FALSE]
    BY <1>1 DEF Advanced
  <2>2. /\ a.stage = "saving" /\ a.gen = s.gen /\ a.variant = s.variant /\ a.base = s.base
        /\ a.next = s.next + 1 /\ a.calls = s.calls /\ a.verdict = s.verdict /\ ~a.late
        /\ a.bad = s.bad /\ a.rows = s.rows /\ a.overflow = s.overflow
    BY <1>0, <2>1 DEF RunStates
  <2> HIDE DEF Advanced
  <2>3. CallsFit(a)
    BY <1>0, <2>2 DEF CallsFit
  <2>4. Placed(a, R)
    <3>1. Now(a) = Now(s) /\ 1..s.next \subseteq 1..a.next
      BY <2>2 DEF Now
    <3>2. ASSUME NEW r \in R, s.base < r.call
          PROVE  \E i \in 1..a.next :
                     /\ r.call = s.base + i
                     /\ r.variant = Now(a) /\ r.req = s.calls[i].req
                     /\ r.status = "success" => s.calls[i].kind = "rows"
      BY <3>1, <3>2 DEF Placed
    <3>3. \A r \in R : /\ r.call \in Nat
                      /\ r.call <= s.base =>
                            \E j \in 1..s.variant - 1 : r.variant = VariantsOf[s.gen][j]
      BY DEF Placed
    <3> QED BY <2>2, <3>2, <3>3 DEF Placed
  <2>5. \A f \in R : Settled(s, f) => Settled(a, f)
    BY <2>2 DEF Settled
  <2>6. a.bad /\ ~a.overflow =>
          \/ \E f \in R : f.status = "failed" /\ LastOf(R, f) /\ Settled(a, f)
          \/ a.verdict \in {"failed", "rejected"}
    BY <1>1, <2>2, <2>5 DEF Noted
  <2>7. ~a.bad =>
          /\ \A f \in R : f.status = "failed" =>
                \/ Superseded(R, f)
                \/ /\ a.next > 1 /\ f.call = a.base + a.next - 1
                   /\ a.calls[a.next - 1].kind = "failed"
          /\ RowsTold(a, R)
    BY <2>2 DEF Noted, RowsTold
  <2>8. \A j \in 1..a.variant - 1 : \E r \in R : r.variant = VariantsOf[a.gen][j]
    BY <2>2 DEF Noted
  <2>9. ToldActive(a, R)
    BY <2>2, <2>3, <2>4, <2>6, <2>7, <2>8 DEF ToldActive
  <2> QED BY <2>2, <2>9 DEF Told
<1>2. CASE ~(s.next < Len(s.calls)) /\ s.variant < Len(VariantsOf[s.gen])
  <2>1. a = [s EXCEPT !.stage = "fetching", !.variant = s.variant + 1, !.next = 0,
                      !.base = s.base + Len(s.calls), !.calls = <<>>,
                      !.verdict = "empty", !.late = FALSE]
    BY <1>2 DEF Advanced
  <2>2. /\ a.stage = "fetching" /\ a.gen = s.gen /\ a.variant = s.variant + 1
        /\ a.base = s.base + s.next /\ a.next = 0 /\ ~a.late
        /\ a.bad = s.bad /\ a.rows = s.rows /\ a.overflow = s.overflow
    BY <1>0, <1>2, <2>1 DEF RunStates
  <2>3. CallsFit(a)
    BY <2>2 DEF CallsFit
  <2>4. \A r \in R : r.call \in Nat /\ r.call <= a.base
    BY <2>2 DEF Placed
  <2>5. \A r \in R : \E j \in 1..s.variant : r.variant = VariantsOf[s.gen][j]
    <3> SUFFICES ASSUME NEW r \in R PROVE \E j \in 1..s.variant : r.variant = VariantsOf[s.gen][j]
      OBVIOUS
    <3>1. CASE r.call <= s.base
      <4>1. PICK j \in 1..s.variant - 1 : r.variant = VariantsOf[s.gen][j]
        BY <3>1 DEF Placed
      <4> QED BY <4>1
    <3>2. CASE s.base < r.call
      BY <3>2, SMTT(60) DEF Placed, Now
    <3> QED BY <2>4, <3>1, <3>2
  <2>6. Placed(a, R)
    BY <2>2, <2>4, <2>5 DEF Placed
  <2>7. a.bad /\ ~a.overflow =>
          \E f \in R : f.status = "failed" /\ LastOf(R, f) /\ Settled(a, f)
    BY <1>2, <2>2, <2>4 DEF Noted, Settled
  <2>8. ~a.bad => (\A f \in R : f.status = "failed" => Superseded(R, f)) /\ RowsTold(a, R)
    BY <1>2, <2>2 DEF Noted, RowsTold
  <2>9. \A j \in 1..a.variant - 1 : \E r \in R : r.variant = VariantsOf[a.gen][j]
    BY <2>2 DEF Noted
  <2>10. ToldActive(a, R)
    BY <2>2, <2>3, <2>6, <2>7, <2>8, <2>9 DEF ToldActive
  <2> QED BY <2>2, <2>10 DEF Told
<1>3. CASE ~(s.next < Len(s.calls)) /\ ~(s.variant < Len(VariantsOf[s.gen]))
  <2>1. a = [s EXCEPT !.stage = "finished", !.variant = 1, !.base = 0, !.next = 0,
                      !.calls = <<>>, !.verdict = "empty", !.late = FALSE]
    BY <1>3 DEF Advanced, Ended
  <2>2. /\ a.stage = "finished" /\ a.gen = s.gen
        /\ a.bad = s.bad /\ a.rows = s.rows /\ a.overflow = s.overflow
    BY <1>0, <2>1 DEF RunStates
  <2>3. \A r \in R : \E j \in 1..s.variant : r.variant = VariantsOf[s.gen][j]
    <3> SUFFICES ASSUME NEW r \in R PROVE \E j \in 1..s.variant : r.variant = VariantsOf[s.gen][j]
      OBVIOUS
    <3>1. CASE r.call <= s.base
      <4>1. PICK j \in 1..s.variant - 1 : r.variant = VariantsOf[s.gen][j]
        BY <3>1 DEF Placed
      <4> QED BY <4>1
    <3>2. CASE s.base < r.call
      BY <3>2, SMTT(60) DEF Placed, Now
    <3> QED BY <3>1, <3>2 DEF Placed
  <2>4. s.variant = Len(VariantsOf[s.gen])
    BY <1>3
  <2>5. {r.variant : r \in R} = Requested(a.gen)
    <3>1. \A j \in 1..Len(VariantsOf[s.gen]) : \E r \in R : r.variant = VariantsOf[s.gen][j]
      BY <2>4 DEF Noted
    <3>2. \A r \in R : \E j \in 1..Len(VariantsOf[s.gen]) : r.variant = VariantsOf[s.gen][j]
      BY <2>3, <2>4
    <3>3. {r.variant : r \in R} = {VariantsOf[s.gen][j] : j \in 1..Len(VariantsOf[s.gen])}
      <4> DEFINE A == {r.variant : r \in R}
                 B == {VariantsOf[s.gen][j] : j \in 1..Len(VariantsOf[s.gen])}
      <4>1. ASSUME NEW x \in A PROVE x \in B
        <5>1. PICK r \in R : x = r.variant
          OBVIOUS
        <5> QED BY <3>2, <5>1
      <4>2. ASSUME NEW x \in B PROVE x \in A
        <5>1. PICK j \in 1..Len(VariantsOf[s.gen]) : x = VariantsOf[s.gen][j]
          OBVIOUS
        <5>2. PICK r \in R : r.variant = VariantsOf[s.gen][j]
          BY <3>1, <5>1
        <5> QED BY <5>1, <5>2
      <4>3. A = B
        <5> HIDE DEF A, B
        <5> QED BY <4>1, <4>2
      <4> QED BY <4>3
    <3> QED BY <2>2, <3>3 DEF Requested
  <2>6. a.bad /\ ~a.overflow => FailureTold(R)
    BY <1>3, <2>2 DEF Noted, FailureTold
  <2>7. ~a.bad => (\A f \in R : f.status = "failed" => Superseded(R, f)) /\ RowsTold(a, R)
    BY <1>3, <2>2 DEF Noted, RowsTold
  <2>8. ToldEnd(a, R)
    BY <2>5, <2>6, <2>7 DEF ToldEnd
  <2> QED BY <2>2, <2>8 DEF Told
<1> QED BY <1>1, <1>2, <1>3

\* A run s with other marks: bad, or with rows.
Marked(s, m) ==
    /\ Saving(m) /\ m.gen = s.gen /\ m.variant = s.variant /\ m.base = s.base
    /\ m.next = s.next /\ m.calls = s.calls /\ m.verdict = s.verdict
    /\ m.late = s.late /\ m.overflow = s.overflow

\* What holds of the receipts with the new one, whatever it says.
StillTold(s, R, n, m) ==
    /\ CallsFit(m) /\ Placed(m, R \union {n}) /\ Coherent(R \union {n})
    /\ \A j \in 1..m.variant : \E r \in R \union {n} : r.variant = VariantsOf[m.gen][j]
    /\ \A f \in R : LastOf(R, f) /\ Settled(s, f) =>
           LastOf(R \union {n}, f) /\ Settled(m, f)

\* What a run told before is still told with a receipt more.
LEMMA NotedBase ==
    ASSUME NEW s, NEW R, Saving(s), ToldActive(s, R), NEW n, OfCurrent(s, n),
           NEW m, Marked(s, m), s.bad => m.bad
    PROVE  StillTold(s, R, n, m)
<1>1. CallsFit(s) /\ Placed(s, R) /\ Coherent(R)
  BY DEF ToldActive
<1>2. CallsFit(m)
  BY <1>1 DEF CallsFit, Marked, Saving
<1>3. Placed(s, R \union {n}) /\ Coherent(R \union {n})
  BY <1>1, NewIsPlaced
<1>4. Placed(m, R \union {n})
  BY <1>3 DEF Placed, Marked, Now
<1>5. \A j \in 1..m.variant : \E r \in R \union {n} : r.variant = VariantsOf[m.gen][j]
  <2> SUFFICES ASSUME NEW j \in 1..s.variant
               PROVE  \E r \in R \union {n} : r.variant = VariantsOf[s.gen][j]
    BY DEF Marked
  <2>1. CASE j = s.variant
    BY <2>1 DEF OfCurrent, Now
  <2>2. CASE j # s.variant
    <3>1. j \in 1..s.variant - 1
      BY <2>2, SavingNats
    <3> QED BY <3>1 DEF ToldActive
  <2> QED BY <2>1, <2>2
<1>6. \A f \in R : LastOf(R, f) /\ Settled(s, f) => LastOf(R \union {n}, f) /\ Settled(m, f)
  BY <1>1, SettledStaysLast DEF Settled, Marked
<1> QED BY <1>2, <1>3, <1>4, <1>5, <1>6 DEF StillTold

\* A failed receipt that was not superseded is, or is now.
LEMMA MadeGood ==
    ASSUME NEW s, NEW R, Saving(s), ToldActive(s, R), NEW n, OfCurrent(s, n), ~s.bad
    PROVE  \A f \in R : f.status = "failed" => Superseded(R \union {n}, f)
<1> SUFFICES ASSUME NEW f \in R, f.status = "failed" PROVE Superseded(R \union {n}, f)
  OBVIOUS
<1>1. CASE Superseded(R, f)
  BY <1>1 DEF Superseded
<1>2. CASE ~Superseded(R, f)
  <2>1. /\ s.next > 1 /\ f.call = s.base + s.next - 1
        /\ s.calls[s.next - 1].kind = "failed"
    BY <1>2 DEF ToldActive
  <2> QED BY <2>1, RetrySupersedes DEF ToldActive
<1> QED BY <1>1, <1>2

\* Receipts of the current call are of rows, if they tell of success.
LEMMA SuccessOfRows ==
    ASSUME NEW s, NEW R, Saving(s), Placed(s, R), NEW r \in R, r.status = "success",
           r.call = s.base + s.next
    PROVE  s.calls[s.next].kind = "rows"
BY SavingNats, SMTT(60) DEF Placed

\* A receipt of no rows tells of a call that found none.
LEMMA EmptyNoted ==
    ASSUME NEW s, NEW R, Saving(s), ToldActive(s, R), NEW n, OfCurrent(s, n),
           n.status = "empty", s.calls[s.next].kind = "empty", s.verdict # "rejected"
    PROVE  Noted(s, R \union {n})
<1>1. Marked(s, s)
  BY DEF Marked
<1>2. /\ CallsFit(s) /\ Placed(s, R \union {n}) /\ Coherent(R \union {n})
      /\ \A j \in 1..s.variant : \E r \in R \union {n} : r.variant = VariantsOf[s.gen][j]
      /\ \A f \in R : LastOf(R, f) /\ Settled(s, f) => LastOf(R \union {n}, f)
  <2>1. s.bad => s.bad
    OBVIOUS
  <2>2. StillTold(s, R, n, s)
    BY <1>1, <2>1, NotedBase, Zenon
  <2> QED BY <2>2 DEF StillTold
<1>3. ASSUME s.bad, ~s.overflow
      PROVE  \/ \E f \in R \union {n} : /\ f.status = "failed" /\ LastOf(R \union {n}, f)
                                        /\ Settled(s, f) \/ s.next = Len(s.calls)
             \/ s.next < Len(s.calls) /\ s.verdict \in {"failed", "rejected"}
  <2>1. CASE \E f \in R : f.status = "failed" /\ LastOf(R, f) /\ Settled(s, f)
    BY <1>2, <2>1
  <2>2. CASE s.verdict = "failed" \/ s.late
    <3>1. ~s.late
      BY <1>2 DEF CallsFit, Saving
    <3>2. s.next # Len(s.calls)
      BY <1>2, <1>3, <2>2, <3>1 DEF CallsFit, Saving
    <3> QED BY <2>2, <3>1, <3>2, SavingNats
  <2> QED BY <1>3, <2>1, <2>2 DEF ToldActive
<1>4. ASSUME ~s.bad
      PROVE  /\ \A f \in R \union {n} : f.status = "failed" => Superseded(R \union {n}, f)
             /\ RowsTold(s, R \union {n})
  <2>1. \A f \in R \union {n} : f.status = "failed" => Superseded(R \union {n}, f)
    BY <1>4, MadeGood
  <2>2. RowsTold(s, R)
    BY <1>4 DEF ToldActive
  <2>3. \A r \in R : r.status = "success" => r.call # n.call
    BY SuccessOfRows DEF ToldActive, OfCurrent
  <2> QED BY <2>1, <2>2, <2>3 DEF RowsTold
<1> QED BY <1>2, <1>3, <1>4 DEF Noted

\* A receipt of a failure tells of a call that failed.
LEMMA FailedNoted ==
    ASSUME NEW s, NEW R, Saving(s), ToldActive(s, R), NEW n, OfCurrent(s, n),
           n.status = "failed",
           s.calls[s.next].kind = "empty" => s.verdict \in {"failed", "rejected"},
           NEW m, Marked(s, m), m.rows = s.rows,
           m.bad <=> s.bad \/ s.calls[s.next].kind # "failed",
           s.calls[s.next].kind \in Kinds
    PROVE  Noted(m, R \union {n})
<1>1. /\ CallsFit(m) /\ Placed(m, R \union {n}) /\ Coherent(R \union {n})
      /\ \A j \in 1..m.variant : \E r \in R \union {n} : r.variant = VariantsOf[m.gen][j]
      /\ \A f \in R : LastOf(R, f) /\ Settled(s, f) =>
             LastOf(R \union {n}, f) /\ Settled(m, f)
  <2>1. s.bad => m.bad
    OBVIOUS
  <2>2. StillTold(s, R, n, m)
    BY <2>1, NotedBase, Zenon
  <2> QED BY <2>2 DEF StillTold
<1>2. LastOf(R \union {n}, n)
  BY NewIsLast DEF ToldActive
<1>3. ASSUME m.bad, ~m.overflow
      PROVE  \/ \E f \in R \union {n} : /\ f.status = "failed" /\ LastOf(R \union {n}, f)
                                        /\ Settled(m, f) \/ m.next = Len(m.calls)
             \/ m.next < Len(m.calls) /\ m.verdict \in {"failed", "rejected"}
  <2>1. CASE m.next = Len(m.calls)
    BY <1>2, <2>1
  <2>2. CASE m.next # Len(m.calls) /\ s.calls[s.next].kind = "rows"
    <3>1. Settled(m, n)
      BY <2>2, SavingNats DEF Settled, Marked, OfCurrent
    <3> QED BY <1>2, <3>1
  <2>3. CASE m.next # Len(m.calls) /\ s.calls[s.next].kind # "rows"
    <3>1. m.next < Len(m.calls)
      BY <2>3, SavingNats DEF Marked
    <3>2. s.bad \/ s.verdict \in {"failed", "rejected"}
      BY <1>3, <2>3 DEF Kinds
    <3>3. ~s.late
      BY <2>3 DEF ToldActive, CallsFit, Saving
    <3>4. \/ \E f \in R : f.status = "failed" /\ LastOf(R, f) /\ Settled(s, f)
          \/ s.verdict \in {"failed", "rejected"}
      BY <1>3, <3>2, <3>3 DEF ToldActive, Marked
    <3> QED BY <1>1, <3>1, <3>4 DEF Marked
  <2> QED BY <2>1, <2>2, <2>3
<1>4. ASSUME ~m.bad
      PROVE  /\ \A f \in R \union {n} : f.status = "failed" =>
                   \/ Superseded(R \union {n}, f)
                   \/ /\ m.next < Len(m.calls) /\ f.call = m.base + m.next
                      /\ m.calls[m.next].kind = "failed"
             /\ RowsTold(m, R \union {n})
  <2>1. ~s.bad /\ s.calls[s.next].kind = "failed"
    BY <1>4
  <2>2. \A f \in R : f.status = "failed" => Superseded(R \union {n}, f)
    BY <2>1, MadeGood
  <2>3. m.next < Len(m.calls)
    <3>1. s.next # Len(s.calls)
      BY <2>1 DEF ToldActive, CallsFit, Saving
    <3> QED BY <3>1, SavingNats DEF Marked
  <2>4. n.call = m.base + m.next /\ m.calls[m.next].kind = "failed"
    BY <2>1 DEF OfCurrent, Marked
  <2>5. RowsTold(s, R)
    BY <2>1 DEF ToldActive
  <2>6. \A r \in R : r.status = "success" => r.call # n.call
    BY <2>1, SuccessOfRows DEF ToldActive, OfCurrent
  <2>7. RowsTold(m, R \union {n})
    BY <2>5, <2>6 DEF RowsTold
  <2> QED BY <2>2, <2>3, <2>4, <2>7
<1> QED BY <1>1, <1>3, <1>4 DEF Noted, Marked

\* A receipt of rows tells of a call that brought some.
LEMMA RowsNoted ==
    ASSUME NEW s, NEW R, Saving(s), ToldActive(s, R), NEW n, OfCurrent(s, n),
           n.status = "success", s.calls[s.next].kind = "rows",
           s.verdict # "rejected", ~s.late, \A r \in R : r.call # n.call,
           NEW m, Marked(s, m), m.rows, m.bad = s.bad
    PROVE  Noted(m, R \union {n})
<1>1. /\ CallsFit(m) /\ Placed(m, R \union {n}) /\ Coherent(R \union {n})
      /\ \A j \in 1..m.variant : \E r \in R \union {n} : r.variant = VariantsOf[m.gen][j]
      /\ \A f \in R : LastOf(R, f) /\ Settled(s, f) =>
             LastOf(R \union {n}, f) /\ Settled(m, f)
  <2>1. s.bad => m.bad
    OBVIOUS
  <2>2. StillTold(s, R, n, m)
    BY <2>1, NotedBase, Zenon
  <2> QED BY <2>2 DEF StillTold
<1>2. ASSUME m.bad, ~m.overflow
      PROVE  \/ \E f \in R \union {n} : /\ f.status = "failed" /\ LastOf(R \union {n}, f)
                                        /\ Settled(m, f) \/ m.next = Len(m.calls)
             \/ m.next < Len(m.calls) /\ m.verdict \in {"failed", "rejected"}
  <2>1. CASE \E f \in R : f.status = "failed" /\ LastOf(R, f) /\ Settled(s, f)
    BY <1>1, <2>1
  <2>2. CASE s.verdict = "failed"
    <3>1. s.next # Len(s.calls)
      BY <1>2, <2>2 DEF ToldActive, CallsFit, Saving, Marked
    <3> QED BY <2>2, <3>1, SavingNats DEF Marked
  <2> QED BY <1>2, <2>1, <2>2 DEF ToldActive, Marked
<1>3. ASSUME ~m.bad
      PROVE  /\ \A f \in R \union {n} : f.status = "failed" => Superseded(R \union {n}, f)
             /\ RowsTold(m, R \union {n})
  <2>1. \A f \in R \union {n} : f.status = "failed" => Superseded(R \union {n}, f)
    BY <1>3, MadeGood
  <2>2. RowsTold(s, R)
    BY <1>3 DEF ToldActive
  <2>3. RowsTold(m, R \union {n})
    BY <2>2 DEF RowsTold
  <2> QED BY <2>1, <2>3
<1> QED BY <1>1, <1>2, <1>3 DEF Noted, Marked

-----------------------------------------------------------------------------
(* ToldInv is inductive.                                                   *)

\* A step of run e, which alone may have written a receipt.
LEMMA ToldMoves ==
    ASSUME StoreInv, ToldInv, NEW e \in Runs, NEW a, run' = [run EXCEPT ![e] = a],
           NEW new, journal' = journal \union new, \A r \in new : r.run = e,
           NEW R, R = Of(e) \union new, Told(a, R)
    PROVE  ToldInv'
<1>1. Of(e)' = R
  BY DEF Of
<1>2. run'[e] = a /\ \A g \in Runs \ {e} : run'[g] = run[g] /\ Of(g)' = Of(g)
  BY DEF StoreInv, TypeOK, Of
<1>3. ASSUME NEW g \in Runs, NEW x, x = run'[g], NEW Y, Y = Of(g)' PROVE Told(x, Y)
  <2>1. CASE g = e
    BY <1>1, <1>2, <1>3, <2>1
  <2>2. CASE g # e
    <3>1. x = run[g] /\ Y = Of(g)
      BY <1>2, <1>3, <2>2
    <3> QED BY <3>1 DEF ToldInv
  <2> QED BY <2>1, <2>2
<1> QED BY <1>3 DEF ToldInv

\* A run that starts has nothing to tell.
LEMMA StartKeepsTold ==
    ASSUME StoreInv, ToldInv, NEW e \in Runs, Start(e)
    PROVE  ToldInv'
<1>1. PICK s : s = run[e]
  OBVIOUS
<1>2. PICK R : R = Of(e)
  OBVIOUS
<1>3. PICK a : a = [s EXCEPT !.stage = "fetching", !.gen = registry]
  OBVIOUS
<1>4. s \in RunStates /\ s.stage = "idle" /\ Told(s, R)
  BY <1>1, <1>2 DEF StoreInv, TypeOK, ToldInv, Start
<1>5. ToldIdle(s, R)
  BY <1>4 DEF Told
<1>6. /\ a.stage = "fetching" /\ a.variant = 1 /\ a.base = 0 /\ a.next = 0
      /\ ~a.late /\ ~a.bad /\ ~a.rows
  BY <1>3, <1>4, <1>5 DEF RunStates, ToldIdle
<1>7. ToldActive(a, R)
  BY <1>5, <1>6 DEF ToldIdle, ToldActive, CallsFit, Placed, Coherent, RowsTold
<1>8. Told(a, R)
  BY <1>6, <1>7 DEF Told
<1>9. run' = [run EXCEPT ![e] = a]
  BY <1>1, <1>3, <1>4 DEF Start, StoreInv, TypeOK
<1>10. journal' = journal \union {} /\ R = Of(e) \union {} /\ \A r \in {} : r.run = e
  BY <1>2 DEF Start
<1> QED BY <1>8, <1>9, <1>10, ToldMoves

\* What the calls of a variant leave of a run that told everything.
Fetching(s, f, verdict, over, bad, a) ==
    /\ over = (s.overflow \/ f.overflow)
    /\ bad = (s.bad \/ verdict \in {"failed", "rejected"})
    /\ a = [s EXCEPT !.stage = "saving", !.calls = f.calls, !.next = 1,
                      !.verdict = verdict, !.overflow = over, !.bad = bad]

\* A run that fetched has told nothing yet.
LEMMA FetchedTold ==
    ASSUME NEW s \in RunStates, s.stage = "fetching", NEW R, ToldActive(s, R),
           NEW f \in Fetches, NEW verdict \in VerdictsOn(f, s.gen),
           NEW over, NEW bad, NEW a, Fetching(s, f, verdict, over, bad, a)
    PROVE  Told(a, R)
<1> /\ over = (s.overflow \/ f.overflow)
    /\ bad = (s.bad \/ verdict \in {"failed", "rejected"})
    /\ a = [s EXCEPT !.stage = "saving", !.calls = f.calls, !.next = 1,
                      !.verdict = verdict, !.overflow = over, !.bad = bad]
  BY DEF Fetching
<1>1. /\ a.stage = "saving" /\ a.gen = s.gen /\ a.variant = s.variant /\ a.base = s.base
      /\ a.next = 1 /\ a.calls = f.calls /\ a.verdict = verdict /\ a.late = s.late
      /\ a.bad = bad /\ a.overflow = over /\ a.rows = s.rows
  BY DEF RunStates
<1>2. s.next = 0 /\ ~s.late
  BY DEF ToldActive, CallsFit
<1>3. \A r \in R : r.call \in Nat /\ r.call <= s.base
  BY <1>2 DEF ToldActive, Placed, RunStates
<1>4. CallsFit(a)
  <2>1. WellFormed(a.calls)
    BY <1>1, FetchesAreCallSequences
  <2>2. verdict = "failed" /\ ~over => f.calls[Len(f.calls)].kind = "failed"
    BY DEF VerdictsOn, Outcome
  <2>3. f.calls[Len(f.calls)].kind = "failed" => verdict \in {"failed", "rejected"}
    BY DEF VerdictsOn, Outcome
  <2> QED BY <1>1, <1>2, <2>1, <2>2, <2>3 DEF CallsFit
<1>5. Placed(a, R)
  BY <1>1, <1>3 DEF ToldActive, Placed, RunStates
<1>6. a.bad /\ ~a.overflow =>
          \/ \E t \in R : t.status = "failed" /\ LastOf(R, t) /\ Settled(a, t)
          \/ a.verdict \in {"failed", "rejected"}
  BY <1>1, <1>3 DEF ToldActive, Settled
<1>7. ~a.bad => (\A t \in R : t.status = "failed" => Superseded(R, t)) /\ RowsTold(a, R)
  BY <1>1 DEF ToldActive, RowsTold
<1>8. Coherent(R) /\ \A j \in 1..a.variant - 1 : \E r \in R : r.variant = VariantsOf[a.gen][j]
  BY <1>1 DEF ToldActive
<1>9. ToldActive(a, R)
  BY <1>1, <1>4, <1>5, <1>6, <1>7, <1>8 DEF ToldActive
<1> QED BY <1>1, <1>9 DEF Told

\* A fetch writes no receipt.
LEMMA FetchKeepsTold ==
    ASSUME StoreInv, ToldInv, NEW e \in Runs, Fetch(e)
    PROVE  ToldInv'
<1>1. PICK s : s = run[e]
  OBVIOUS
<1>2. PICK R : R = Of(e)
  OBVIOUS
<1>3. s \in RunStates /\ s.stage = "fetching" /\ Told(s, R)
  BY <1>1, <1>2 DEF StoreInv, TypeOK, ToldInv, Fetch
<1>4. PICK f \in Fetches : \E verdict \in VerdictsOn(f, run[e].gen) :
          run' = [run EXCEPT ![e].stage = "saving", ![e].calls = f.calls,
                             ![e].next = 1, ![e].verdict = verdict,
                             ![e].overflow = @ \/ f.overflow,
                             ![e].bad = @ \/ verdict \in {"failed", "rejected"}]
  BY DEF Fetch
<1>5. PICK verdict \in VerdictsOn(f, run[e].gen) :
          run' = [run EXCEPT ![e].stage = "saving", ![e].calls = f.calls,
                             ![e].next = 1, ![e].verdict = verdict,
                             ![e].overflow = @ \/ f.overflow,
                             ![e].bad = @ \/ verdict \in {"failed", "rejected"}]
  BY <1>4
<1>6. PICK over : over = (s.overflow \/ f.overflow)
  OBVIOUS
<1>7. PICK bad : bad = (s.bad \/ verdict \in {"failed", "rejected"})
  OBVIOUS
<1>8. PICK a : a = [s EXCEPT !.stage = "saving", !.calls = f.calls, !.next = 1,
                             !.verdict = verdict, !.overflow = over, !.bad = bad]
  OBVIOUS
<1>9. Told(a, R)
  <2>1. ToldActive(s, R)
    BY <1>3 DEF Told
  <2>2. verdict \in VerdictsOn(f, s.gen)
    BY <1>1
  <2>3. s \in RunStates /\ s.stage = "fetching" /\ f \in Fetches
    BY <1>3
  <2>4. Fetching(s, f, verdict, over, bad, a)
    BY <1>6, <1>7, <1>8, Zenon DEF Fetching
  <2> QED BY <2>1, <2>2, <2>3, <2>4, FetchedTold, Zenon
<1>10. run' = [run EXCEPT ![e] = a]
  BY <1>1, <1>5, <1>6, <1>7, <1>8, Zenon DEF StoreInv, TypeOK
<1>11. journal' = journal \union {} /\ R = Of(e) \union {} /\ \A r \in {} : r.run = e
  BY <1>2 DEF Fetch
<1> QED BY <1>9, <1>10, <1>11, ToldMoves

\* A run that is killed tells no more.
LEMMA CrashKeepsTold ==
    ASSUME StoreInv, ToldInv, NEW e \in Runs, Crash(e)
    PROVE  ToldInv'
<1>1. PICK R : R = Of(e)
  OBVIOUS
<1>2. PICK a : a = Killed(run[e])
  OBVIOUS
<1>3. a.stage = "dead"
  BY <1>2 DEF Killed, Ended, StoreInv, TypeOK, RunStates
<1>4. Told(a, R)
  BY <1>3 DEF Told
<1>5. run' = [run EXCEPT ![e] = a]
  BY <1>2 DEF Crash
<1>6. journal' = journal \union {} /\ R = Of(e) \union {} /\ \A r \in {} : r.run = e
  BY <1>1 DEF Crash
<1> QED BY <1>4, <1>5, <1>6, ToldMoves

\* A saving run and a receipt of its current call.
LEMMA CurrentFacts ==
    ASSUME StoreInv, ToldInv, NEW e \in Runs, run[e].stage = "saving",
           NEW s, s = run[e], NEW R, R = Of(e)
    PROVE  /\ s \in RunStates /\ Saving(s) /\ ToldActive(s, R)
           /\ s.calls[s.next] = Current(e) /\ s.calls[s.next].kind \in Kinds
           /\ \A n : /\ n.call = CallIndex(e) /\ n.variant = Variant(e)
                     /\ n.req = Current(e).req
                     /\ n.status = "success" => Current(e).kind = "rows"
                     => OfCurrent(s, n)
<1>1. s \in RunStates /\ Saving(s)
  BY DEF StoreInv, TypeOK, Progress, Saving
<1>2. ToldActive(s, R)
  BY DEF ToldInv, Told
<1>3. s.calls[s.next] = Current(e)
  BY DEF Current
<1>4. Current(e).kind \in Kinds
  BY SavingFacts DEF Calls
<1> QED BY <1>1, <1>2, <1>3, <1>4 DEF OfCurrent, CallIndex, Variant, Now

\* A call that found nothing is told of.
LEMMA SaveEmptyKeepsTold ==
    ASSUME StoreInv, ToldInv, NEW e \in Runs, SaveEmpty(e)
    PROVE  ToldInv'
<1>1. PICK s : s = run[e]
  OBVIOUS
<1>2. PICK R : R = Of(e)
  OBVIOUS
<1>3. PICK n : n = Receipt(e, "none", "empty", NoRows, {}, {})
  OBVIOUS
<1>4. PICK a : a = Advanced(s)
  OBVIOUS
<1>5. /\ n.run = e /\ n.call = CallIndex(e) /\ n.variant = Variant(e)
      /\ n.req = Current(e).req /\ n.status = "empty"
  BY <1>3 DEF Receipt
<1>6. run[e].stage = "saving" /\ Current(e).kind = "empty" /\ s.verdict # "rejected"
  BY <1>1 DEF SaveEmpty, Preserved
<1>7. /\ Saving(s) /\ ToldActive(s, R) /\ OfCurrent(s, n)
      /\ s.calls[s.next].kind = "empty"
  BY <1>1, <1>2, <1>5, <1>6, CurrentFacts
<1>8. Noted(s, R \union {n})
  BY <1>5, <1>6, <1>7, EmptyNoted
<1>9. Told(a, R \union {n})
  BY <1>4, <1>8, AdvancedTold
<1>10. run' = [run EXCEPT ![e] = a] /\ journal' = journal \union {n}
  BY <1>1, <1>3, <1>4 DEF SaveEmpty
<1>11. R \union {n} = Of(e) \union {n} /\ \A r \in {n} : r.run = e
  BY <1>2, <1>5
<1> QED BY <1>9, <1>10, <1>11, ToldMoves

\* A call that failed is told of.
LEMMA SaveFailedKeepsTold ==
    ASSUME StoreInv, ToldInv, NEW e \in Runs, SaveFailed(e)
    PROVE  ToldInv'
<1>1. PICK s : s = run[e]
  OBVIOUS
<1>2. PICK R : R = Of(e)
  OBVIOUS
<1>3. PICK n : n = Receipt(e, "none", "failed", NoRows, {}, {})
  OBVIOUS
<1>4. PICK b : b = (s.bad \/ Current(e).kind # "failed")
  OBVIOUS
<1>5. PICK m : m = [s EXCEPT !.bad = b]
  OBVIOUS
<1>6. PICK a : a = Advanced(m)
  OBVIOUS
<1>7. /\ n.run = e /\ n.call = CallIndex(e) /\ n.variant = Variant(e)
      /\ n.req = Current(e).req /\ n.status = "failed"
  BY <1>3 DEF Receipt
<1>8. run[e].stage = "saving" /\ (Current(e).kind = "empty" => s.verdict \in {"failed", "rejected"})
  BY <1>1 DEF SaveFailed, Preserved
<1>9. /\ Saving(s) /\ ToldActive(s, R) /\ OfCurrent(s, n) /\ s \in RunStates
      /\ s.calls[s.next] = Current(e) /\ s.calls[s.next].kind \in Kinds
  BY <1>1, <1>2, <1>7, <1>8, CurrentFacts
<1>10. Marked(s, m) /\ m.rows = s.rows /\ m.bad = b
  <2>1. b \in BOOLEAN
    BY <1>4
  <2>2. m \in RunStates
    BY <1>5, <1>9, <2>1, Zenon DEF RunStates
  <2> QED BY <1>5, <1>9, <2>2 DEF Marked, Saving, RunStates
<1>11. Noted(m, R \union {n})
  <2>1. s.calls[s.next].kind = "empty" => s.verdict \in {"failed", "rejected"}
    BY <1>8, <1>9
  <2>2. m.bad <=> s.bad \/ s.calls[s.next].kind # "failed"
    BY <1>4, <1>9, <1>10
  <2> QED BY <1>7, <1>9, <1>10, <2>1, <2>2, FailedNoted
<1>12. Told(a, R \union {n})
  BY <1>6, <1>11, AdvancedTold
<1>13. run' = [run EXCEPT ![e] = a] /\ journal' = journal \union {n}
  BY <1>1, <1>3, <1>4, <1>5, <1>6 DEF SaveFailed
<1>14. R \union {n} = Of(e) \union {n} /\ \A r \in {n} : r.run = e
  BY <1>2, <1>7
<1> QED BY <1>12, <1>13, <1>14, ToldMoves

\* A transaction that committed and still raised: the run is bad for it.
LEMMA LateTold ==
    ASSUME NEW s \in RunStates, NEW R, Saving(s), ToldActive(s, R), NEW n,
           OfCurrent(s, n), s.calls[s.next].kind = "rows",
           NEW a, a = [s EXCEPT !.late = TRUE, !.bad = TRUE]
    PROVE  Told(a, R \union {n})
<1>1. /\ a.stage = "saving" /\ a.gen = s.gen /\ a.variant = s.variant /\ a.base = s.base
      /\ a.next = s.next /\ a.calls = s.calls /\ a.verdict = s.verdict /\ a.late
      /\ a.bad /\ a.overflow = s.overflow
  BY DEF RunStates, Saving
<1>2. CallsFit(a)
  BY <1>1 DEF ToldActive, CallsFit, Saving
<1>3. Placed(s, R \union {n}) /\ Coherent(R \union {n})
  BY NewIsPlaced DEF ToldActive
<1>4. Placed(a, R \union {n})
  BY <1>1, <1>3 DEF Placed, Now
<1>5. \A j \in 1..a.variant - 1 : \E r \in R \union {n} : r.variant = VariantsOf[a.gen][j]
  BY <1>1 DEF ToldActive
<1>6. ToldActive(a, R \union {n})
  BY <1>1, <1>2, <1>3, <1>4, <1>5 DEF ToldActive
<1> QED BY <1>1, <1>6 DEF Told

\* A call that brought rows is told of, with them.
LEMMA IngestKeepsTold ==
    ASSUME StoreInv, IdInv, ToldInv, NEW e \in Runs, NEW late \in BOOLEAN, Ingest(e, late)
    PROVE  ToldInv'
<1> DEFINE b == Current(e).batch
<1>1. PICK s : s = run[e]
  OBVIOUS
<1>2. PICK R : R = Of(e)
  OBVIOUS
<1>3. PICK n : n = Receipt(e, "rows", "success", b, {k \in DOMAIN b : facts[k] = NoFact},
                           {k \in DOMAIN b : Changed(e, k, b[k])})
  OBVIOUS
<1>4. /\ n.run = e /\ n.call = CallIndex(e) /\ n.variant = Variant(e)
      /\ n.req = Current(e).req /\ n.status = "success"
  BY <1>3 DEF Receipt
<1>5. /\ run[e].stage = "saving" /\ ~s.late /\ s.verdict # "rejected"
      /\ Current(e).kind = "rows"
  BY <1>1 DEF Ingest, Preserved
<1>6. /\ s \in RunStates /\ Saving(s) /\ ToldActive(s, R) /\ OfCurrent(s, n)
      /\ s.calls[s.next].kind = "rows"
  BY <1>1, <1>2, <1>4, <1>5, CurrentFacts
<1>7. journal' = journal \union {n}
  BY <1>3 DEF Ingest
<1>8. R \union {n} = Of(e) \union {n} /\ \A r \in {n} : r.run = e
  BY <1>2, <1>4
<1>9. CASE late
  <2>1. PICK a : a = [s EXCEPT !.late = TRUE, !.bad = TRUE]
    OBVIOUS
  <2>2. Told(a, R \union {n})
    BY <1>6, <2>1, LateTold
  <2>3. run' = [run EXCEPT ![e] = a]
    BY <1>1, <1>9, <2>1 DEF Ingest
  <2> QED BY <1>7, <1>8, <2>2, <2>3, ToldMoves
<1>10. CASE ~late
  <2>1. PICK m : m = [s EXCEPT !.rows = TRUE]
    OBVIOUS
  <2>2. PICK a : a = Advanced(m)
    OBVIOUS
  <2>3. Marked(s, m) /\ m.rows /\ m.bad = s.bad
    <3>1. m \in RunStates
      BY <1>6, <2>1, Zenon DEF RunStates
    <3> QED BY <1>6, <2>1, <3>1 DEF Marked, Saving, RunStates
  <2>4. \A r \in R : r.call # n.call
    <3>1. run[e].base \in Nat /\ run[e].next \in Nat
      BY DEF StoreInv, TypeOK, RunStates
    <3>2. ~(n.call <= Done(run[e]))
      BY <1>4, <1>5, <3>1 DEF Done, CallIndex
    <3> QED BY <1>1, <1>2, <1>5, <3>2 DEF IdInv, Numbered, Of
  <2>5. Noted(m, R \union {n})
    BY <1>4, <1>5, <1>6, <2>3, <2>4, RowsNoted
  <2>6. Told(a, R \union {n})
    BY <2>2, <2>5, AdvancedTold
  <2>7. run' = [run EXCEPT ![e] = a]
    BY <1>1, <1>10, <2>1, <2>2 DEF Ingest
  <2> QED BY <1>7, <1>8, <2>6, <2>7, ToldMoves
<1> QED BY <1>9, <1>10

\* Every call that a run is past has been told of.
LEMMA ToldAlways == Spec => []ToldInv
<1>1. Init => ToldInv
  <2> SUFFICES ASSUME Init, NEW e \in Runs, NEW s, s = run[e], NEW R, R = Of(e)
               PROVE  Told(s, R)
    BY DEF ToldInv
  <2>1. s.stage = "idle" /\ ToldIdle(s, R)
    BY DEF Init, Fresh, Of, ToldIdle
  <2> QED BY <2>1 DEF Told
<1>2. StoreInv /\ IdInv /\ ToldInv /\ [Next]_vars => ToldInv'
  <2> SUFFICES ASSUME StoreInv, IdInv, ToldInv, [Next]_vars PROVE ToldInv'
    OBVIOUS
  <2>1. ASSUME NEW e \in Runs, Start(e) PROVE ToldInv'
    BY <2>1, StartKeepsTold
  <2>2. ASSUME NEW e \in Runs, Fetch(e) PROVE ToldInv'
    BY <2>2, FetchKeepsTold
  <2>3. ASSUME NEW e \in Runs, Crash(e) PROVE ToldInv'
    BY <2>3, CrashKeepsTold
  <2>4. ASSUME NEW e \in Runs, SaveEmpty(e) PROVE ToldInv'
    BY <2>4, SaveEmptyKeepsTold
  <2>5. ASSUME NEW e \in Runs, SaveFailed(e) PROVE ToldInv'
    BY <2>5, SaveFailedKeepsTold
  <2>6. ASSUME NEW e \in Runs, NEW late \in BOOLEAN, Ingest(e, late) PROVE ToldInv'
    BY <2>6, IngestKeepsTold
  <2>7. CASE UNCHANGED <<run, journal>>
    <3> SUFFICES ASSUME NEW e \in Runs, NEW s, s = run'[e], NEW R, R = Of(e)'
                 PROVE  Told(s, R)
      BY DEF ToldInv
    <3>1. s = run[e] /\ R = Of(e)
      BY <2>7 DEF Of
    <3> QED BY <3>1 DEF ToldInv
  <2> QED BY <2>1, <2>2, <2>3, <2>4, <2>5, <2>6, <2>7 DEF Next, vars, Deploy
<1> QED BY StoreInvAlways, IdsAlways, <1>1, <1>2, PTL DEF Spec

-----------------------------------------------------------------------------
(* From what is told to the status the reader derives.                     *)

\* A call with an empty or failed receipt has that receipt's status.
LEMMA TerminalDecides ==
    ASSUME StoreInv, IdInv, NEW e, NEW r \in Of(e), r.status # "success"
    PROVE  AttemptStatus(e, r.call) = r.status
<1> DEFINE terminal == {t \in {q \in Of(e) : q.call = r.call} : t.status # "success"}
<1>1. \A t \in terminal : t = r
  <2>1. \A t \in journal : t.table \in {"rows", "none"}
    BY DEF StoreInv, TypeOK, Receipts
  <2> QED BY <2>1 DEF StoreInv, JournalTyped, IdInv, ReceiptIdsUnique, Of
<1>2. r \in terminal
  OBVIOUS
<1>3. AttemptStatus(e, r.call) = IF terminal = {} THEN "success"
                                 ELSE (CHOOSE t \in terminal : TRUE).status
  BY DEF AttemptStatus
<1> HIDE DEF terminal
<1>4. (CHOOSE t \in terminal : TRUE) = r
  BY <1>1, <1>2
<1> QED BY <1>2, <1>3, <1>4

\* A call whose receipts are all of success is one.
LEMMA SuccessDecides ==
    ASSUME NEW e, NEW c, \A t \in Of(e) : t.call = c => t.status = "success"
    PROVE  AttemptStatus(e, c) = "success"
<1>1. {t \in {q \in Of(e) : q.call = c} : t.status # "success"} = {}
  OBVIOUS
<1> QED BY <1>1 DEF AttemptStatus

\* The calls that count for a variant are those of its last receipts.
LEMMA LastAttemptsOf ==
    ASSUME NEW e, NEW v, NEW R, R = Of(e)
    PROVE  /\ \A c \in LastAttempts(e, v) : \E r \in R : r.call = c /\ r.variant = v /\ LastOf(R, r)
           /\ \A r \in R : r.variant = v /\ LastOf(R, r) => r.call \in LastAttempts(e, v)
BY DEF LastAttempts, LastOf

\* A failure that counts fails the cohort.
LEMMA FailureFails ==
    ASSUME StoreInv, IdInv, NEW e, NEW g, FailureTold(Of(e))
    PROVE  Cohort(e, g) = "failed"
<1>1. PICK f \in Of(e) : f.status = "failed" /\ LastOf(Of(e), f)
  BY DEF FailureTold
<1>2. AttemptStatus(e, f.call) = "failed" /\ f.call \in LastAttempts(e, f.variant)
  BY <1>1, TerminalDecides, LastAttemptsOf
<1>3. "failed" \in {AttemptStatus(e, c) : c \in LastAttempts(e, f.variant)}
  BY <1>2
<1>4. VariantStatus(e, f.variant) = "failed"
  BY <1>3, Zenon DEF VariantStatus
<1>5. "failed" \in {VariantStatus(e, v) : v \in Seen(e)}
  BY <1>4 DEF Seen
<1> QED BY <1>5, Zenon DEF Cohort

\* Failures that were all made good fail no variant.
LEMMA MadeGoodFailsNothing ==
    ASSUME StoreInv, IdInv, NEW e, Coherent(Of(e)),
           \A f \in Of(e) : f.status = "failed" => Superseded(Of(e), f),
           NEW v
    PROVE  "failed" \notin {AttemptStatus(e, c) : c \in LastAttempts(e, v)}
<1> SUFFICES ASSUME NEW c \in LastAttempts(e, v), AttemptStatus(e, c) = "failed"
             PROVE  FALSE
  OBVIOUS
<1>1. PICK s \in Of(e) : s.call = c /\ LastOf(Of(e), s)
  BY LastAttemptsOf
<1>2. ~\A t \in Of(e) : t.call = c => t.status = "success"
  BY SuccessDecides
<1>3. PICK t \in Of(e) : t.call = c /\ t.status # "success"
  BY <1>2
<1>4. t.status = "failed"
  BY <1>3, TerminalDecides
<1>5. PICK u \in Of(e) : u.variant = t.variant /\ u.req = t.req /\ t.call < u.call
  BY <1>4 DEF Superseded
<1>6. s.variant = t.variant /\ s.req = t.req
  BY <1>1, <1>3 DEF Coherent
<1>7. u.call <= s.call
  BY <1>1, <1>5, <1>6 DEF LastOf
<1>8. u.call \in Nat /\ t.call \in Nat
  BY DEF Of, StoreInv, TypeOK, Receipts
<1> QED BY <1>1, <1>3, <1>5, <1>7, <1>8

\* A run that has ended told its receipts what it reports.
LEMMA EndTellsOutcome ==
    ASSUME StoreInv, IdInv, NEW e \in Runs, ~run[e].overflow, ToldEnd(run[e], Of(e))
    PROVE  Cohort(e, run[e].gen) = Reported(e)
<1>1. CASE run[e].bad
  BY <1>1, FailureFails DEF ToldEnd, Reported
<1>2. CASE ~run[e].bad
  <2> DEFINE g == run[e].gen
             statuses == {VariantStatus(e, v) : v \in Seen(e)}
  <2>1. /\ Coherent(Of(e)) /\ RowsTold(run[e], Of(e))
        /\ \A f \in Of(e) : f.status = "failed" => Superseded(Of(e), f)
    BY <1>2 DEF ToldEnd
  <2>2. Seen(e) = Requested(g)
    BY DEF ToldEnd, Seen
  <2>3. \A v : "failed" \notin {AttemptStatus(e, c) : c \in LastAttempts(e, v)}
    BY <2>1, MadeGoodFailsNothing
  <2>4. \A v : VariantStatus(e, v) =
                  IF "success" \in {AttemptStatus(e, c) : c \in LastAttempts(e, v)}
                  THEN "success" ELSE "empty"
    BY <2>3, Zenon DEF VariantStatus
  <2>5. "failed" \notin statuses
    BY <2>4
  <2>6. Cohort(e, g) = IF "success" \in statuses THEN "success"
                       ELSE IF EmptyAllowed THEN "empty" ELSE "failed"
    BY <2>2, <2>5, Zenon DEF Cohort
  <2>7. CASE run[e].rows
    <3>1. PICK r \in Of(e) : r.status = "success"
      BY <2>1, <2>7 DEF RowsTold
    <3>2. r.call \in LastAttempts(e, r.variant)
      BY <2>1, <3>1, LastAttemptsOf DEF Coherent
    <3>3. AttemptStatus(e, r.call) = "success"
      BY <2>1, <3>1, SuccessDecides DEF RowsTold
    <3>4. VariantStatus(e, r.variant) = "success"
      BY <2>4, <3>2, <3>3
    <3>5. "success" \in statuses
      BY <3>4 DEF Seen
    <3> HIDE DEF statuses, g
    <3> QED BY <1>2, <2>6, <2>7, <3>5 DEF Reported, g
  <2>8. CASE ~run[e].rows
    <3>1. \A r \in Of(e) : r.status # "success"
      BY <2>1, <2>8 DEF RowsTold
    <3>2. ASSUME NEW v, NEW c \in LastAttempts(e, v) PROVE AttemptStatus(e, c) # "success"
      <4>1. PICK s \in Of(e) : s.call = c
        BY <3>2, LastAttemptsOf
      <4> QED BY <3>1, <4>1, TerminalDecides
    <3>3. "success" \notin statuses
      BY <2>4, <3>2
    <3> HIDE DEF statuses, g
    <3> QED BY <1>2, <2>6, <2>8, <3>3 DEF Reported, g
  <2> QED BY <2>7, <2>8
<1> QED BY <1>1, <1>2

\* The receipts alone tell a reader what every finished run reported to its
\* caller, through retries, rejections, partial variants and late commit errors;
\* and a row it withholds although a complete run returned it has one of three
\* explanations in the journal (storage/receipt_projection.py).
THEOREM ReceiptsTell == Spec => []ReceiptsTellAll
<1>1. StoreInv /\ IdInv /\ ToldInv => OutcomeAgrees
  BY EndTellsOutcome DEF OutcomeAgrees, ToldInv, Told
<1>2. HiddenInv => HiddenRowsExplained
  <2> SUFFICES ASSUME HiddenInv, NEW k \in Keys, NEW r \in journal,
                      AppendOnly, k \in DOMAIN r.batch, ~Served(k),
                      Cohort(r.run, registry) = "success"
               PROVE  \/ ~ExplicitFailure(facts[k].run)
                      \/ \E s \in journal : /\ s.status = "failed" /\ s.at > r.at
                                            /\ \E q \in Of(s.run) : k \in DOMAIN q.batch
                      \/ \E s \in Of(r.run) : s.status = "failed"
    BY DEF HiddenRowsExplained
  <2>1. facts[k] # NoFact /\ Explained(k, r)
    BY DEF HiddenInv
  <2>2. facts[k].run # r.run
    BY <2>1 DEF Served
  <2> QED BY <2>1, <2>2 DEF Explained
<1>3. StoreInv /\ IdInv /\ ToldInv /\ HiddenInv => ReceiptsTellAll
  BY <1>1, <1>2 DEF ReceiptsTellAll
<1> QED BY StoreInvAlways, IdsAlways, ToldAlways, HiddenAlways, <1>3, PTL

-----------------------------------------------------------------------------
(* The authority lock.                                                     *)

LockStill == UNCHANGED <<dir, store, version, usedDirs>>

\* The flock on a directory is exclusive, whoever has it for whatever sentinel.
DirectoriesLocked ==
    \A x, y \in Lock!Procs :
        /\ x # y /\ Lock!At(x) \in Lock!PastDirLock /\ Lock!At(y) \in Lock!PastDirLock
        /\ proc[x].dir = proc[y].dir
        => Lock!Compatible(x, y)

Stored(b) == \E d \in usedDirs : store[d] = b

\* A transaction has read the last commit, and it alone writes its database.
OneTransaction ==
    \A x \in Lock!Procs : Lock!InTransaction(x) =>
        /\ version[proc[x].db] = proc[x].seen
        /\ Stored(proc[x].db)
        /\ \A y \in Lock!Procs : y # x /\ Lock!InTransaction(y) => proc[y].db # proc[x].db

\* Checked writes are to the database of the locked directory.
CommitsBound ==
    \A x \in Lock!Procs :
        /\ Lock!At(x) \in {"checked", "committed"} =>
              proc[x].dir \in usedDirs /\ store[proc[x].dir] = proc[x].db
        /\ Lock!At(x) = "committed" => version[proc[x].db] >= proc[x].seen + 1

\* The named database holds what was acknowledged, so what a reader found does.
SeenAcked ==
    /\ version[store[dir]] >= acked
    /\ \A x \in Lock!Procs :
          /\ version[store[dir]] >= proc[x].atStart
          /\ Lock!At(x) \in {"verify", "body", "read"} => proc[x].seen >= proc[x].atStart

LockInv == Lock!TypeOK /\ DirectoriesLocked /\ OneTransaction /\ CommitsBound /\ SeenAcked

\* The new state of process x agrees with the others and with the world.
Fits(x, s) ==
    /\ s \in Lock!ProcStates
    /\ s.step \in Lock!PastDirLock =>
          \A y \in Lock!Procs :
             y # x /\ Lock!At(y) \in Lock!PastDirLock /\ proc[y].dir = s.dir =>
                Lock!Compatible(x, y)
    /\ s.step \in {"writing", "checked"} =>
          /\ version[s.db] = s.seen /\ Stored(s.db)
          /\ \A y \in Lock!Procs : y # x /\ Lock!InTransaction(y) => proc[y].db # s.db
    /\ s.step \in {"checked", "committed"} => s.dir \in usedDirs /\ store[s.dir] = s.db
    /\ s.step = "committed" => version[s.db] >= s.seen + 1
    /\ version[store[dir]] >= s.atStart
    /\ s.step \in {"verify", "body", "read"} => s.seen >= s.atStart

\* A step of one process that fits the locks keeps the invariant.
LEMMA FittingMove ==
    ASSUME LockInv, NEW x \in Lock!Procs, NEW s, Fits(x, s), proc' = [proc EXCEPT ![x] = s],
           LockStill, entry' \in [Dirs -> Files \union {NoFile}], usedFiles' \subseteq Files,
           acked' \in Nat, version[store[dir]] >= acked'
    PROVE  LockInv'
<1>1. proc \in [Lock!Procs -> Lock!ProcStates]
  BY DEF LockInv, Lock!TypeOK
<1>2. proc'[x] = s /\ \A y \in Lock!Procs \ {x} : proc'[y] = proc[y]
  BY <1>1
<1>3. Lock!TypeOK'
  BY <1>1 DEF LockInv, Lock!TypeOK, LockStill, Fits
<1>4. \A y, z \in Lock!Procs : Lock!Compatible(y, z)' = Lock!Compatible(y, z)
                               /\ Lock!Compatible(y, z) = Lock!Compatible(z, y)
  BY DEF Lock!Compatible
<1>5. DirectoriesLocked'
  <2> SUFFICES ASSUME NEW y \in Lock!Procs, NEW z \in Lock!Procs, y # z,
                      proc'[y].step \in Lock!PastDirLock, proc'[z].step \in Lock!PastDirLock,
                      proc'[y].dir = proc'[z].dir
               PROVE  Lock!Compatible(y, z)
    BY <1>4 DEF DirectoriesLocked, Lock!At, Lock!PastDirLock, Lock!Steps
  <2>1. CASE y = x
    BY <1>2, <2>1 DEF Fits, Lock!At
  <2>2. CASE z = x
    BY <1>2, <1>4, <2>2 DEF Fits, Lock!At
  <2>3. CASE y # x /\ z # x
    BY <1>2, <2>3 DEF LockInv, DirectoriesLocked, Lock!At
  <2> QED BY <2>1, <2>2, <2>3
<1>6. OneTransaction'
  <2>1. \A b : Stored(b)' = Stored(b)
    BY DEF Stored, LockStill
  <2> SUFFICES ASSUME NEW y \in Lock!Procs, proc'[y].step \in {"writing", "checked"}
               PROVE  /\ version[proc'[y].db] = proc'[y].seen
                      /\ Stored(proc'[y].db)
                      /\ \A z \in Lock!Procs : z # y /\ proc'[z].step \in {"writing", "checked"} =>
                             proc'[z].db # proc'[y].db
    BY <2>1 DEF OneTransaction, Lock!InTransaction, Lock!At, LockStill, Stored
  <2>2. CASE y = x
    BY <1>2, <2>2 DEF Fits, Lock!InTransaction, Lock!At
  <2>3. CASE y # x
    <3>1. /\ version[proc[y].db] = proc[y].seen /\ Stored(proc[y].db)
          /\ \A z \in Lock!Procs : z # y /\ Lock!InTransaction(z) => proc[z].db # proc[y].db
      BY <1>2, <2>3 DEF LockInv, OneTransaction, Lock!InTransaction, Lock!At
    <3>2. s.step \in {"writing", "checked"} => s.db # proc[y].db
      BY <1>2, <2>3 DEF Fits, Lock!InTransaction, Lock!At
    <3> QED BY <1>2, <2>3, <3>1, <3>2 DEF Lock!InTransaction, Lock!At
  <2> QED BY <2>2, <2>3
<1>7. CommitsBound'
  BY <1>2 DEF LockInv, CommitsBound, Fits, Lock!At, LockStill
<1>8. SeenAcked'
  BY <1>2 DEF LockInv, SeenAcked, Fits, Lock!At, LockStill
<1> QED BY <1>3, <1>5, <1>6, <1>7, <1>8 DEF LockInv

\* A process that gives up.
LEMMA ClosedFits ==
    ASSUME LockInv, NEW x \in Lock!Procs
    PROVE  Fits(x, Lock!Idle)
<1>1. Lock!Idle \in Lock!ProcStates
  BY LockInstanceAssumption DEF Lock!LockAssumption, Lock!Idle, Lock!ProcStates, Lock!Steps
<1>2. version[store[dir]] \in Nat
  BY DEF LockInv, Lock!TypeOK
<1> QED BY <1>1, <1>2 DEF Fits, Lock!Idle, Lock!PastDirLock

\* A process that goes on with its locks and what it has read.
LEMMA StepFits ==
    ASSUME LockInv, NEW x \in Lock!Procs, NEW s \in Lock!ProcStates,
           s.dir = proc[x].dir, s.db = proc[x].db, s.seen = proc[x].seen,
           s.atStart = proc[x].atStart,
           Lock!At(x) \in Lock!PastDirLock \/ s.step \notin Lock!PastDirLock,
           s.step \in {"writing", "checked"} => Lock!InTransaction(x),
           s.step \in {"checked", "committed"} =>
               proc[x].dir \in usedDirs /\ store[proc[x].dir] = proc[x].db,
           s.step = "committed" => version[proc[x].db] >= proc[x].seen + 1,
           s.step \in {"verify", "body", "read"} => proc[x].seen >= proc[x].atStart
    PROVE  Fits(x, s)
<1>1. s.step \in Lock!PastDirLock =>
          \A y \in Lock!Procs :
             y # x /\ Lock!At(y) \in Lock!PastDirLock /\ proc[y].dir = s.dir =>
                Lock!Compatible(x, y)
  BY DEF LockInv, DirectoriesLocked
<1>2. s.step \in {"writing", "checked"} =>
          /\ version[s.db] = s.seen /\ Stored(s.db)
          /\ \A y \in Lock!Procs : y # x /\ Lock!InTransaction(y) => proc[y].db # s.db
  BY DEF LockInv, OneTransaction
<1>3. version[store[dir]] >= s.atStart
  BY DEF LockInv, SeenAcked
<1> QED BY <1>1, <1>2, <1>3 DEF Fits

\* A move in an unchanged world.
LEMMA LocalMove ==
    ASSUME LockInv, NEW x \in Lock!Procs, NEW s, Fits(x, s), proc' = [proc EXCEPT ![x] = s],
           UNCHANGED Lock!world
    PROVE  LockInv'
<1>1. /\ entry' \in [Dirs -> Files \union {NoFile}] /\ usedFiles' \subseteq Files
      /\ acked' \in Nat /\ version[store[dir]] >= acked' /\ LockStill
  BY DEF LockInv, Lock!TypeOK, SeenAcked, Lock!world, LockStill
<1> QED BY <1>1, FittingMove

\* An error closes what is held.
LEMMA FailKeeps ==
    ASSUME LockInv, NEW x \in Lock!Procs, Lock!Fail(x)
    PROVE  LockInv'
BY ClosedFits, LocalMove DEF Lock!Fail, Lock!Close

\* Going on under the locks of before keeps the invariant.
LEMMA GoKeeps ==
    ASSUME LockInv, NEW x \in Lock!Procs, NEW st \in Lock!Steps, Lock!Go(x, st),
           UNCHANGED Lock!world, Lock!At(x) \in Lock!PastDirLock,
           st \in {"writing", "checked"} => Lock!InTransaction(x),
           st \in {"checked", "committed"} =>
               proc[x].dir \in usedDirs /\ store[proc[x].dir] = proc[x].db,
           st # "committed",
           st \in {"verify", "body", "read"} => proc[x].seen >= proc[x].atStart
    PROVE  LockInv'
<1>1. PICK s : s = [proc[x] EXCEPT !.step = st]
  OBVIOUS
<1>2. proc[x] \in Lock!ProcStates
  BY DEF LockInv, Lock!TypeOK
<1>3. s \in Lock!ProcStates
  BY <1>1, <1>2, Zenon DEF Lock!ProcStates
<1>4. /\ s.step = st /\ s.dir = proc[x].dir /\ s.db = proc[x].db /\ s.seen = proc[x].seen
      /\ s.atStart = proc[x].atStart
  BY <1>1, <1>2 DEF Lock!ProcStates
<1>5. Fits(x, s)
  BY <1>3, <1>4, StepFits
<1>6. proc' = [proc EXCEPT ![x] = s]
  BY <1>1, <1>2 DEF Lock!Go, LockInv, Lock!TypeOK
<1> QED BY <1>5, <1>6, LocalMove

\* An attempt made anew: no lock, and nothing read.
LEMMA AfreshFits ==
    ASSUME LockInv, NEW x \in Lock!Procs, NEW s \in Lock!ProcStates,
           s.step = "flockDir", version[store[dir]] >= s.atStart
    PROVE  Fits(x, s)
BY DEF Fits, Lock!PastDirLock

\* An attempt begins without a lock.
LEMMA BeginKeeps ==
    ASSUME LockInv, NEW x \in Lock!Procs, Lock!Begin(x)
    PROVE  LockInv'
<1>1. PICK s : s = [proc[x] EXCEPT !.step = "flockDir", !.dir = dir, !.attempts = 1,
                                   !.atStart = acked]
  OBVIOUS
<1>2. /\ proc[x] \in Lock!ProcStates /\ acked \in Nat /\ dir \in Dirs
      /\ version[store[dir]] >= acked
  BY DEF LockInv, Lock!TypeOK, SeenAcked
<1>3. s \in Lock!ProcStates
  <2>1. "flockDir" \in Lock!Steps /\ 1 \in Nat
    BY DEF Lock!Steps, Lock!Acquiring
  <2> QED BY <1>1, <1>2, <2>1, Zenon DEF Lock!ProcStates
<1>4. s.step = "flockDir" /\ s.atStart = acked
  BY <1>1, <1>2 DEF Lock!ProcStates
<1>5. Fits(x, s)
  BY <1>2, <1>3, <1>4, AfreshFits
<1>6. proc' = [proc EXCEPT ![x] = s] /\ UNCHANGED Lock!world
  BY <1>1, <1>2 DEF Lock!Begin, LockInv, Lock!TypeOK
<1> QED BY <1>5, <1>6, LocalMove

\* The lock of a directory is taken when nobody has it.
LEMMA FlockDirKeeps ==
    ASSUME LockInv, NEW x \in Lock!Procs, Lock!FlockDir(x)
    PROVE  LockInv'
<1>1. PICK s : s = [proc[x] EXCEPT !.step = "recheckDir"]
  OBVIOUS
<1>2. proc[x] \in Lock!ProcStates
  BY DEF LockInv, Lock!TypeOK
<1>3. s \in Lock!ProcStates
  <2>1. "recheckDir" \in Lock!Steps
    BY DEF Lock!Steps, Lock!Acquiring
  <2> QED BY <1>1, <1>2, <2>1, Zenon DEF Lock!ProcStates
<1>4. s.step = "recheckDir" /\ s.dir = proc[x].dir /\ s.atStart = proc[x].atStart
  BY <1>1, <1>2 DEF Lock!ProcStates
<1>5. \A y \in Lock!Procs :
          y # x /\ Lock!At(y) \in Lock!PastDirLock /\ proc[y].dir = s.dir =>
             Lock!Compatible(x, y)
  BY <1>4 DEF Lock!FlockDir, Lock!DirFree, Lock!HoldsDir
<1>6. Fits(x, s)
  BY <1>3, <1>4, <1>5 DEF Fits, LockInv, SeenAcked
<1>7. proc' = [proc EXCEPT ![x] = s] /\ UNCHANGED Lock!world
  BY <1>1, <1>2 DEF Lock!FlockDir, Lock!Go, LockInv, Lock!TypeOK
<1> QED BY <1>6, <1>7, LocalMove

\* The rest of the acquisition: the directory stays locked.
LEMMA AcquireKeeps ==
    ASSUME LockInv, NEW x \in Lock!Procs, Lock!Acquire(x)
    PROVE  LockInv'
<1> /\ {"statFile", "openFile", "validate", "flockFile", "checkFile", "begin",
        "primary"} \subseteq Lock!Steps
    /\ {"recheckDir", "statFile", "openFile", "validate", "flockFile", "checkFile"}
           \subseteq Lock!PastDirLock
  BY DEF Lock!Steps, Lock!Acquiring, Lock!Writing, Lock!Reading, Lock!PastDirLock
<1>0. /\ proc[x] \in Lock!ProcStates /\ dir \in Dirs
      /\ entry \in [Dirs -> Files \union {NoFile}] /\ usedFiles \subseteq Files
      /\ proc \in [Lock!Procs -> Lock!ProcStates]
      /\ acked \in Nat /\ version[store[dir]] >= acked
  BY DEF LockInv, Lock!TypeOK, SeenAcked
<1>1. CASE Lock!FlockDir(x)
  BY <1>1, FlockDirKeeps
<1>2. CASE Lock!RecheckDir(x)
  <2>1. CASE dir = proc[x].dir
    <3>1. Lock!Go(x, "statFile") /\ UNCHANGED Lock!world /\ Lock!At(x) = "recheckDir"
      BY <1>2, <2>1 DEF Lock!RecheckDir
    <3> QED BY <3>1, GoKeeps
  <2>2. CASE dir # proc[x].dir
    BY <1>2, <2>2, FailKeeps DEF Lock!RecheckDir
  <2> QED BY <2>1, <2>2
<1>3. CASE Lock!StatFile(x)
  <2>1. CASE Lock!Fail(x)
    BY <2>1, FailKeeps
  <2>2. CASE ~Lock!Fail(x)
    <3>1. /\ Lock!At(x) = "statFile" /\ UNCHANGED Lock!world
          /\ proc' = [proc EXCEPT ![x].step = "openFile", ![x].pre = entry[dir]]
      BY <1>3, <2>2 DEF Lock!StatFile
    <3>2. PICK s : s = [proc[x] EXCEPT !.step = "openFile", !.pre = entry[dir]]
      OBVIOUS
    <3>3. s \in Lock!ProcStates
      <4>1. entry[dir] \in Files \union {NoFile} /\ "openFile" \in Lock!Steps
        BY <1>0
      <4> QED BY <1>0, <3>2, <4>1, Zenon DEF Lock!ProcStates
    <3>4. /\ s.step = "openFile" /\ s.dir = proc[x].dir /\ s.db = proc[x].db
          /\ s.seen = proc[x].seen /\ s.atStart = proc[x].atStart
      BY <1>0, <3>2 DEF Lock!ProcStates
    <3>5. Fits(x, s)
      BY <3>1, <3>3, <3>4, StepFits
    <3>6. proc' = [proc EXCEPT ![x] = s]
      BY <1>0, <3>1, <3>2
    <3> QED BY <3>1, <3>5, <3>6, LocalMove
  <2> QED BY <2>1, <2>2
<1>4. CASE Lock!OpenFile(x)
  <2>1. CASE Lock!Fail(x)
    BY <2>1, FailKeeps
  <2>2. CASE ~Lock!Fail(x)
    <3>1. Lock!At(x) = "openFile"
      BY <1>4 DEF Lock!OpenFile
    <3>2. PICK f \in Files \union {NoFile} :
              proc' = [proc EXCEPT ![x].step = "validate", ![x].file = f]
      BY <1>0, <1>4, <2>2 DEF Lock!OpenFile
    <3>3. /\ entry' \in [Dirs -> Files \union {NoFile}] /\ usedFiles' \subseteq Files
          /\ LockStill /\ acked' = acked
      BY <1>0, <1>4, <2>2 DEF Lock!OpenFile, Lock!world, LockStill
    <3>4. PICK s : s = [proc[x] EXCEPT !.step = "validate", !.file = f]
      OBVIOUS
    <3>5. s \in Lock!ProcStates
      <4>1. "validate" \in Lock!Steps
        OBVIOUS
      <4> QED BY <1>0, <3>4, <4>1, Zenon DEF Lock!ProcStates
    <3>6. /\ s.step = "validate" /\ s.dir = proc[x].dir /\ s.db = proc[x].db
          /\ s.seen = proc[x].seen /\ s.atStart = proc[x].atStart
      BY <1>0, <3>4 DEF Lock!ProcStates
    <3>7. Fits(x, s)
      BY <3>1, <3>5, <3>6, StepFits
    <3>8. proc' = [proc EXCEPT ![x] = s]
      BY <1>0, <3>2, <3>4
    <3> QED BY <1>0, <3>3, <3>7, <3>8, FittingMove
  <2> QED BY <2>1, <2>2
<1>5. CASE Lock!Validate(x)
  <2>1. CASE Lock!Fail(x)
    BY <2>1, FailKeeps
  <2>2. CASE ~Lock!Fail(x)
    <3>1. Lock!Go(x, "flockFile") /\ UNCHANGED Lock!world /\ Lock!At(x) = "validate"
      BY <1>5, <2>2 DEF Lock!Validate
    <3> QED BY <3>1, GoKeeps
  <2> QED BY <2>1, <2>2
<1>6. CASE Lock!FlockFile(x)
  <2>1. Lock!Go(x, "checkFile") /\ UNCHANGED Lock!world /\ Lock!At(x) = "flockFile"
    BY <1>6 DEF Lock!FlockFile
  <2> QED BY <2>1, GoKeeps
<1>7. CASE Lock!CheckFile(x)
  <2>1. CASE Lock!Fail(x)
    BY <2>1, FailKeeps
  <2>2. CASE ~Lock!Fail(x)
    <3>1. PICK st \in {"begin", "primary"} : Lock!Go(x, st)
      BY <1>7, <2>2 DEF Lock!CheckFile
    <3>2. UNCHANGED Lock!world /\ Lock!At(x) = "checkFile"
      BY <1>7, <2>2 DEF Lock!CheckFile
    <3> QED BY <3>1, <3>2, GoKeeps
  <2> QED BY <2>1, <2>2
<1> QED BY <1>1, <1>2, <1>3, <1>4, <1>5, <1>6, <1>7 DEF Lock!Acquire

\* A transaction begins when the database has none.
LEMMA BeginImmediateKeeps ==
    ASSUME LockInv, NEW x \in Lock!Procs, Lock!BeginImmediate(x)
    PROVE  LockInv'
<1>1. PICK s : s = [proc[x] EXCEPT !.step = "writing", !.db = store[dir],
                                   !.seen = version[store[dir]]]
  OBVIOUS
<1>2. /\ proc[x] \in Lock!ProcStates /\ store[dir] \in Dbs /\ version[store[dir]] \in Nat
      /\ Lock!At(x) = "begin" /\ dir \in usedDirs
  BY LockInstanceAssumption DEF LockInv, Lock!TypeOK, Lock!BeginImmediate
<1>3. s \in Lock!ProcStates
  <2>1. "writing" \in Lock!Steps
    BY DEF Lock!Steps, Lock!Writing
  <2> QED BY <1>1, <1>2, <2>1, Zenon DEF Lock!ProcStates
<1>4. /\ s.step = "writing" /\ s.dir = proc[x].dir /\ s.atStart = proc[x].atStart
      /\ s.db = store[dir] /\ s.seen = version[store[dir]]
  BY <1>1, <1>2 DEF Lock!ProcStates
<1>5. \A y \in Lock!Procs :
          y # x /\ Lock!At(y) \in Lock!PastDirLock /\ proc[y].dir = s.dir =>
             Lock!Compatible(x, y)
  <2>1. Lock!At(x) \in Lock!PastDirLock
    BY <1>2 DEF Lock!PastDirLock, Lock!Steps, Lock!Writing
  <2> QED BY <1>4, <2>1 DEF LockInv, DirectoriesLocked
<1>6. \A y \in Lock!Procs : y # x /\ Lock!InTransaction(y) => proc[y].db # s.db
  BY <1>4 DEF Lock!BeginImmediate
<1>7. Fits(x, s)
  BY <1>2, <1>3, <1>4, <1>5, <1>6 DEF Fits, Stored, LockInv, SeenAcked
<1>8. proc' = [proc EXCEPT ![x] = s] /\ UNCHANGED Lock!world
  BY <1>1, <1>2 DEF Lock!BeginImmediate, LockInv, Lock!TypeOK
<1> QED BY <1>7, <1>8, LocalMove

\* The commit writes to the database the checks named, on top of what it read.
LEMMA CommitKeeps ==
    ASSUME LockInv, NEW x \in Lock!Procs, Lock!Commit(x)
    PROVE  LockInv'
<1>1. /\ proc[x] \in Lock!ProcStates /\ proc \in [Lock!Procs -> Lock!ProcStates]
      /\ Lock!At(x) = "checked" /\ version \in [Dbs -> Nat] /\ store \in [Dirs -> Dbs]
      /\ dir \in Dirs
  BY DEF LockInv, Lock!TypeOK, Lock!Commit
<1>2. proc[x].db \in Dbs /\ proc[x].seen \in Nat
  BY <1>1 DEF Lock!ProcStates
<1>3. /\ Lock!InTransaction(x) /\ version[proc[x].db] = proc[x].seen
      /\ proc[x].dir \in usedDirs /\ store[proc[x].dir] = proc[x].db
      /\ \A y \in Lock!Procs : y # x /\ Lock!InTransaction(y) => proc[y].db # proc[x].db
  BY <1>1 DEF LockInv, OneTransaction, CommitsBound, Lock!InTransaction
<1>4. PICK s : s = [proc[x] EXCEPT !.step = "committed"]
  OBVIOUS
<1>5. s \in Lock!ProcStates
  <2>1. "committed" \in Lock!Steps
    BY DEF Lock!Steps, Lock!Writing
  <2> QED BY <1>1, <1>4, <2>1, Zenon DEF Lock!ProcStates
<1>6. /\ s.step = "committed" /\ s.dir = proc[x].dir /\ s.db = proc[x].db
      /\ s.seen = proc[x].seen /\ s.atStart = proc[x].atStart
  BY <1>1, <1>4 DEF Lock!ProcStates
<1>7. proc'[x] = s /\ \A y \in Lock!Procs \ {x} : proc'[y] = proc[y]
  BY <1>1, <1>4 DEF Lock!Commit, Lock!Go
<1>8. /\ version' \in [Dbs -> Nat] /\ version'[proc[x].db] = proc[x].seen + 1
      /\ \A b \in Dbs : b # proc[x].db => version'[b] = version[b]
      /\ \A b \in Dbs : version'[b] >= version[b] /\ version'[b] \in Nat /\ version[b] \in Nat
      /\ UNCHANGED <<dir, entry, store, usedDirs, usedFiles, acked>>
  BY <1>1, <1>2, <1>3 DEF Lock!Commit
<1>9. proc' = [proc EXCEPT ![x] = s]
  BY <1>1, <1>4 DEF Lock!Commit, Lock!Go
<1>10. Lock!TypeOK'
  BY <1>1, <1>5, <1>8, <1>9 DEF LockInv, Lock!TypeOK
<1>11. DirectoriesLocked'
  <2>1. \A y \in Lock!Procs : /\ proc'[y].dir = proc[y].dir
                              /\ Lock!At(y)' \in Lock!PastDirLock <=> Lock!At(y) \in Lock!PastDirLock
    BY <1>1, <1>6, <1>7 DEF Lock!At, Lock!PastDirLock, Lock!Steps, Lock!Writing
  <2> QED BY <2>1 DEF LockInv, DirectoriesLocked, Lock!Compatible, Lock!PastDirLock, Lock!Steps
<1>12. OneTransaction'
  <2> SUFFICES ASSUME NEW y \in Lock!Procs, proc'[y].step \in {"writing", "checked"}
               PROVE  /\ version'[proc'[y].db] = proc'[y].seen
                      /\ Stored(proc'[y].db)
                      /\ \A z \in Lock!Procs : z # y /\ proc'[z].step \in {"writing", "checked"} =>
                             proc'[z].db # proc'[y].db
    BY <1>8 DEF OneTransaction, Lock!InTransaction, Lock!At, Stored
  <2>1. y # x
    BY <1>6, <1>7
  <2>2. /\ Lock!InTransaction(y) /\ version[proc[y].db] = proc[y].seen /\ Stored(proc[y].db)
        /\ \A z \in Lock!Procs : z # y /\ Lock!InTransaction(z) => proc[z].db # proc[y].db
    BY <1>7, <2>1 DEF LockInv, OneTransaction, Lock!InTransaction, Lock!At
  <2>3. proc[y].db # proc[x].db /\ proc[y].db \in Dbs
    BY <1>1, <1>3, <2>1, <2>2 DEF Lock!ProcStates
  <2> QED BY <1>6, <1>7, <1>8, <2>1, <2>2, <2>3 DEF Lock!InTransaction, Lock!At
<1>13. CommitsBound'
  <2> SUFFICES ASSUME NEW y \in Lock!Procs
               PROVE  /\ proc'[y].step \in {"checked", "committed"} =>
                            proc'[y].dir \in usedDirs /\ store[proc'[y].dir] = proc'[y].db
                      /\ proc'[y].step = "committed" => version'[proc'[y].db] >= proc'[y].seen + 1
    BY <1>8 DEF CommitsBound, Lock!At
  <2>1. CASE y = x
    BY <1>2, <1>3, <1>6, <1>7, <1>8, <2>1
  <2>2. CASE y # x
    <3>1. proc[y].db \in Dbs /\ proc[y].seen \in Nat
      BY <1>1 DEF Lock!ProcStates
    <3>2. /\ proc[y].step \in {"checked", "committed"} =>
                proc[y].dir \in usedDirs /\ store[proc[y].dir] = proc[y].db
          /\ proc[y].step = "committed" => version[proc[y].db] >= proc[y].seen + 1
      BY DEF LockInv, CommitsBound, Lock!At
    <3> QED BY <1>7, <1>8, <2>2, <3>1, <3>2
  <2> QED BY <2>1, <2>2
<1>14. SeenAcked'
  <2>1. store[dir] \in Dbs /\ acked \in Nat
    BY <1>1 DEF LockInv, Lock!TypeOK
  <2>2. version'[store'[dir']] >= acked'
    BY <1>8, <2>1 DEF LockInv, SeenAcked
  <2>3. ASSUME NEW y \in Lock!Procs
        PROVE  /\ version'[store'[dir']] >= proc'[y].atStart
               /\ proc'[y].step \in {"verify", "body", "read"} => proc'[y].seen >= proc'[y].atStart
    <3>1. proc[y].atStart \in Nat /\ proc'[y].atStart = proc[y].atStart
      BY <1>1, <1>6, <1>7 DEF Lock!ProcStates
    <3>2. version[store[dir]] >= proc[y].atStart
      BY DEF LockInv, SeenAcked
    <3>3. version'[store'[dir']] >= proc'[y].atStart
      BY <1>8, <2>1, <3>1, <3>2
    <3>4. proc'[y].step \in {"verify", "body", "read"} => proc'[y].seen >= proc'[y].atStart
      BY <1>6, <1>7 DEF LockInv, SeenAcked, Lock!At
    <3> QED BY <3>3, <3>4
  <2> QED BY <2>2, <2>3 DEF SeenAcked, Lock!At
<1> QED BY <1>10, <1>11, <1>12, <1>13, <1>14 DEF LockInv

\* Every step of a writer keeps the invariant.
LEMMA WriteKeeps ==
    ASSUME LockInv, NEW x \in Lock!Procs, Lock!Write(x)
    PROVE  LockInv'
<1>1. CASE Lock!BeginImmediate(x)
  BY <1>1, BeginImmediateKeeps
<1>2. CASE Lock!PreCommit(x)
  <2>1. CASE store[dir] = proc[x].db /\ Lock!Bound(x)
    <3>1. Lock!Go(x, "checked") /\ UNCHANGED Lock!world /\ Lock!At(x) = "writing"
      BY <1>2, <2>1 DEF Lock!PreCommit
    <3>2. proc[x].dir \in usedDirs /\ store[proc[x].dir] = proc[x].db
      BY <2>1 DEF Lock!Bound, LockInv, Lock!TypeOK
    <3>3. "checked" \in Lock!Steps /\ Lock!At(x) \in Lock!PastDirLock
      BY <3>1 DEF Lock!Steps, Lock!Writing, Lock!PastDirLock
    <3>4. Lock!InTransaction(x)
      BY <3>1 DEF Lock!InTransaction
    <3> QED BY <3>1, <3>2, <3>3, <3>4, GoKeeps
  <2>2. CASE ~(store[dir] = proc[x].db /\ Lock!Bound(x))
    BY <1>2, <2>2, FailKeeps DEF Lock!PreCommit
  <2> QED BY <2>1, <2>2
<1>3. CASE Lock!Commit(x)
  BY <1>3, CommitKeeps
<1>4. CASE Lock!ExitWrite(x)
  <2>1. CASE Lock!Bound(x)
    <3>1. /\ proc' = [proc EXCEPT ![x] = Lock!Idle] /\ acked' = proc[x].seen + 1
          /\ UNCHANGED <<dir, entry, store, version, usedDirs, usedFiles>>
          /\ Lock!At(x) = "committed"
      BY <1>4, <2>1 DEF Lock!ExitWrite, Lock!Close
    <3>2. proc[x].seen \in Nat
      BY DEF LockInv, Lock!TypeOK, Lock!ProcStates
    <3>3. version[store[dir]] >= acked'
      BY <2>1, <3>1 DEF Lock!Bound, LockInv, CommitsBound
    <3>4. /\ entry' \in [Dirs -> Files \union {NoFile}] /\ usedFiles' \subseteq Files
          /\ acked' \in Nat /\ LockStill
      BY <3>1, <3>2 DEF LockInv, Lock!TypeOK, LockStill
    <3> QED BY <3>1, <3>3, <3>4, ClosedFits, FittingMove
  <2>2. CASE ~Lock!Bound(x)
    BY <1>4, <2>2, FailKeeps DEF Lock!ExitWrite
  <2> QED BY <2>1, <2>2
<1> QED BY <1>1, <1>2, <1>3, <1>4 DEF Lock!Write

\* A process that starts another attempt, whether or not its body threw.
LEMMA AnewFits ==
    ASSUME LockInv, NEW x \in Lock!Procs, NEW thrown \in BOOLEAN, NEW s,
           s = [Lock!TryAgain(x) EXCEPT !.thrown = thrown]
    PROVE  Fits(x, s)
<1>1. /\ proc[x].attempts \in Nat /\ proc[x].atStart \in Nat /\ proc[x].thrown \in BOOLEAN
      /\ dir \in Dirs
  BY DEF LockInv, Lock!TypeOK, Lock!ProcStates
<1>2. proc[x].attempts + 1 \in Nat /\ "flockDir" \in Lock!Steps
  BY <1>1 DEF Lock!Steps, Lock!Acquiring
<1>3. Lock!Idle \in Lock!ProcStates
  BY LockInstanceAssumption DEF Lock!LockAssumption, Lock!Idle, Lock!ProcStates, Lock!Steps
<1>4. Lock!TryAgain(x) \in Lock!ProcStates
  BY <1>1, <1>2, <1>3, Zenon DEF Lock!TryAgain, Lock!ProcStates
<1>5. s \in Lock!ProcStates
  BY <1>4, Zenon DEF Lock!ProcStates
<1>6. s.step = "flockDir" /\ s.atStart = proc[x].atStart
  BY DEF Lock!TryAgain, Lock!Idle
<1> QED BY <1>5, <1>6, AfreshFits DEF LockInv, SeenAcked

\* A retry begins anew with nothing held.
LEMMA RetryKeeps ==
    ASSUME LockInv, NEW x \in Lock!Procs, Lock!Retry(x), UNCHANGED Lock!world
    PROVE  LockInv'
<1>1. CASE proc' = [proc EXCEPT ![x] = Lock!Idle]
  BY <1>1, ClosedFits, LocalMove
<1>2. CASE proc' = [proc EXCEPT ![x] = Lock!TryAgain(x)]
  <2>1. proc[x].thrown \in BOOLEAN
    BY DEF LockInv, Lock!TypeOK, Lock!ProcStates
  <2>2. Lock!TryAgain(x) = [Lock!TryAgain(x) EXCEPT !.thrown = proc[x].thrown]
    BY DEF Lock!TryAgain, Lock!Idle
  <2>3. PICK s : s = Lock!TryAgain(x)
    OBVIOUS
  <2>4. Fits(x, s)
    BY <2>1, <2>2, <2>3, AnewFits
  <2> QED BY <1>2, <2>3, <2>4, LocalMove
<1> QED BY <1>1, <1>2 DEF Lock!Retry, Lock!Close

\* Every step of a reader keeps the invariant.
LEMMA ReadKeeps ==
    ASSUME LockInv, NEW x \in Lock!Procs, Lock!Read(x)
    PROVE  LockInv'
<1> /\ {"verify", "body", "read", "secondBody"} \subseteq Lock!Steps
    /\ {"primary", "verify", "body"} \subseteq Lock!PastDirLock
  BY DEF Lock!Steps, Lock!Reading, Lock!PastDirLock
<1>0. /\ proc[x] \in Lock!ProcStates /\ store[dir] \in Dbs /\ version[store[dir]] \in Nat
      /\ proc \in [Lock!Procs -> Lock!ProcStates]
  BY DEF LockInv, Lock!TypeOK
<1>1. CASE Lock!OpenPrimary(x)
  <2>1. CASE Lock!Retry(x)
    BY <1>1, <2>1, RetryKeeps DEF Lock!OpenPrimary
  <2>2. CASE ~Lock!Retry(x)
    <3>1. /\ Lock!At(x) = "primary" /\ UNCHANGED Lock!world
          /\ proc' = [proc EXCEPT ![x].step = "verify", ![x].db = store[dir],
                                  ![x].seen = version[store[dir]]]
      BY <1>1, <2>2 DEF Lock!OpenPrimary
    <3>2. PICK s : s = [proc[x] EXCEPT !.step = "verify", !.db = store[dir],
                                       !.seen = version[store[dir]]]
      OBVIOUS
    <3>3. s \in Lock!ProcStates
      <4>1. "verify" \in Lock!Steps
        OBVIOUS
      <4> QED BY <1>0, <3>2, <4>1, Zenon DEF Lock!ProcStates
    <3>4. /\ s.step = "verify" /\ s.dir = proc[x].dir /\ s.atStart = proc[x].atStart
          /\ s.seen = version[store[dir]]
      BY <1>0, <3>2 DEF Lock!ProcStates
    <3>5. \A y \in Lock!Procs :
              y # x /\ Lock!At(y) \in Lock!PastDirLock /\ proc[y].dir = s.dir =>
                 Lock!Compatible(x, y)
      BY <3>1, <3>4 DEF LockInv, DirectoriesLocked
    <3>6. Fits(x, s)
      BY <3>3, <3>4, <3>5 DEF Fits, LockInv, SeenAcked
    <3>7. proc' = [proc EXCEPT ![x] = s]
      BY <1>0, <3>1, <3>2
    <3> QED BY <3>1, <3>6, <3>7, LocalMove
  <2> QED BY <2>1, <2>2
<1>2. CASE Lock!Verify(x)
  <2>1. CASE Lock!Retry(x)
    BY <1>2, <2>1, RetryKeeps DEF Lock!Verify
  <2>2. CASE ~Lock!Retry(x)
    <3>1. PICK st \in {"secondBody", "body"} : Lock!Go(x, st)
      BY <1>2, <2>2 DEF Lock!Verify
    <3>2. UNCHANGED Lock!world /\ Lock!At(x) = "verify"
      BY <1>2 DEF Lock!Verify
    <3>3. proc[x].seen >= proc[x].atStart
      BY <3>2 DEF LockInv, SeenAcked
    <3> QED BY <3>1, <3>2, <3>3, GoKeeps
  <2> QED BY <2>1, <2>2
<1>3. CASE Lock!Body(x)
  <2>0. UNCHANGED Lock!world /\ Lock!At(x) = "body"
    BY <1>3 DEF Lock!Body
  <2>1. CASE Lock!Go(x, "read")
    <3>1. proc[x].seen >= proc[x].atStart
      BY <2>0 DEF LockInv, SeenAcked
    <3> QED BY <2>0, <2>1, <3>1, GoKeeps
  <2>2. CASE Lock!Close(x)
    BY <2>0, <2>2, ClosedFits, LocalMove DEF Lock!Close
  <2>3. CASE proc' = [proc EXCEPT ![x] = [Lock!TryAgain(x) EXCEPT !.thrown = TRUE]]
    <3>1. PICK s : s = [Lock!TryAgain(x) EXCEPT !.thrown = TRUE]
      OBVIOUS
    <3>2. Fits(x, s)
      BY <3>1, AnewFits
    <3> QED BY <2>0, <2>3, <3>1, <3>2, LocalMove
  <2> QED BY <1>3, <2>1, <2>2, <2>3 DEF Lock!Body
<1>4. CASE Lock!ExitRead(x)
  BY <1>4, ClosedFits, LocalMove DEF Lock!ExitRead, Lock!Close
<1> QED BY <1>1, <1>2, <1>3, <1>4 DEF Lock!Read

\* The operator changes paths, not what was locked, committed or seen.
LEMMA ReplaceSentinelKeeps ==
    ASSUME LockInv, Lock!ReplaceSentinel
    PROVE  LockInv'
<1>1. /\ entry' \in [Dirs -> Files \union {NoFile}] /\ usedFiles' \subseteq Files
      /\ UNCHANGED <<dir, store, version, usedDirs, proc, acked>>
  BY DEF LockInv, Lock!TypeOK, Lock!ReplaceSentinel
<1>2. Lock!TypeOK'
  BY <1>1 DEF LockInv, Lock!TypeOK
<1>3. DirectoriesLocked' /\ OneTransaction' /\ CommitsBound' /\ SeenAcked'
  BY <1>1 DEF LockInv, DirectoriesLocked, OneTransaction, CommitsBound, SeenAcked, Stored,
              Lock!At, Lock!InTransaction, Lock!Compatible, Lock!PastDirLock, Lock!Steps
<1> QED BY <1>2, <1>3 DEF LockInv

\* A directory that is replaced leaves the locks of the old one.
LEMMA ReplaceDirectoryKeeps ==
    ASSUME LockInv, Lock!ReplaceDirectory
    PROVE  LockInv'
<1>1. PICK d \in Dirs \ usedDirs :
          /\ dir' = d /\ usedDirs' = usedDirs \union {d}
          /\ \/ store' = [store EXCEPT ![d] = store[dir]] /\ UNCHANGED version
             \/ \E b \in Dbs \ {store[e] : e \in usedDirs} :
                   /\ store' = [store EXCEPT ![d] = b]
                   /\ version' = [version EXCEPT ![b] = version[store[dir]]]
          /\ UNCHANGED <<entry, usedFiles, proc, acked>>
  BY DEF Lock!ReplaceDirectory
<1>2. /\ dir \in usedDirs /\ usedDirs \subseteq Dirs /\ store \in [Dirs -> Dbs]
      /\ version \in [Dbs -> Nat]
  BY DEF LockInv, Lock!TypeOK
<1>3. /\ store' \in [Dirs -> Dbs] /\ version' \in [Dbs -> Nat]
      /\ \A e \in usedDirs : store'[e] = store[e]
      /\ \A b \in Dbs : Stored(b) => version'[b] = version[b]
      /\ version'[store'[dir']] = version[store[dir]]
  BY <1>1, <1>2 DEF Stored
<1>4. Lock!TypeOK'
  BY <1>1, <1>3 DEF LockInv, Lock!TypeOK
<1>5. DirectoriesLocked'
  BY <1>1 DEF LockInv, DirectoriesLocked, Lock!At, Lock!Compatible, Lock!PastDirLock, Lock!Steps
<1>6. \A x \in Lock!Procs : proc[x].db \in Dbs
  BY DEF LockInv, Lock!TypeOK, Lock!ProcStates
<1>7. OneTransaction'
  <2>1. \A b : Stored(b) => Stored(b)'
    BY <1>1, <1>3 DEF Stored
  <2>2. \A x \in Lock!Procs : Lock!InTransaction(x)' = Lock!InTransaction(x)
    BY <1>1 DEF Lock!InTransaction, Lock!At
  <2> SUFFICES ASSUME NEW x \in Lock!Procs, Lock!InTransaction(x)
               PROVE  /\ version'[proc[x].db] = proc[x].seen
                      /\ Stored(proc[x].db)'
                      /\ \A y \in Lock!Procs : y # x /\ Lock!InTransaction(y) =>
                             proc[y].db # proc[x].db
    BY <1>1, <2>2 DEF OneTransaction, Stored
  <2>3. /\ version[proc[x].db] = proc[x].seen /\ Stored(proc[x].db)
        /\ \A y \in Lock!Procs : y # x /\ Lock!InTransaction(y) => proc[y].db # proc[x].db
    BY DEF LockInv, OneTransaction
  <2>4. Stored(proc[x].db)'
    BY <1>1, <1>3, <2>3 DEF Stored
  <2> QED BY <1>3, <1>6, <2>3, <2>4
<1>8. CommitsBound'
  <2> SUFFICES ASSUME NEW x \in Lock!Procs
               PROVE  /\ proc[x].step \in {"checked", "committed"} =>
                            proc[x].dir \in usedDirs' /\ store'[proc[x].dir] = proc[x].db
                      /\ proc[x].step = "committed" => version'[proc[x].db] >= proc[x].seen + 1
    BY <1>1 DEF CommitsBound, Lock!At
  <2>1. /\ proc[x].step \in {"checked", "committed"} =>
              proc[x].dir \in usedDirs /\ store[proc[x].dir] = proc[x].db
        /\ proc[x].step = "committed" => version[proc[x].db] >= proc[x].seen + 1
    BY DEF LockInv, CommitsBound, Lock!At
  <2>2. proc[x].step \in {"checked", "committed"} => Stored(proc[x].db)
    BY <2>1 DEF Stored
  <2> QED BY <1>1, <1>3, <1>6, <2>1, <2>2
<1>9. SeenAcked'
  BY <1>1, <1>3 DEF LockInv, SeenAcked, Lock!At
<1> QED BY <1>4, <1>5, <1>7, <1>8, <1>9 DEF LockInv

\* The locks always exclude and what was acknowledged is there.
LEMMA LockAlways == EitherSpec => [](part = "authority" => LockInv)
<1>1. EitherInit => (part = "authority" => LockInv)
  <2> SUFFICES ASSUME Lock!Init PROVE LockInv
    BY DEF EitherInit
  <2>1. Lock!Idle \in Lock!ProcStates
    BY LockInstanceAssumption DEF Lock!LockAssumption, Lock!Idle, Lock!ProcStates, Lock!Steps
  <2>2. Lock!TypeOK
    BY <2>1, LockInstanceAssumption DEF Lock!LockAssumption, Lock!Init, Lock!TypeOK
  <2>3. \A x \in Lock!Procs : proc[x].step = "idle" /\ proc[x].atStart = 0
    BY DEF Lock!Init, Lock!Idle
  <2>4. version[store[dir]] = 0 /\ acked = 0
    BY LockInstanceAssumption DEF Lock!LockAssumption, Lock!Init
  <2>5. DirectoriesLocked /\ OneTransaction /\ CommitsBound
    BY <2>3 DEF DirectoriesLocked, OneTransaction, CommitsBound, Lock!At, Lock!PastDirLock,
                Lock!InTransaction
  <2>6. SeenAcked
    BY <2>3, <2>4 DEF SeenAcked, Lock!At
  <2> QED BY <2>2, <2>5, <2>6 DEF LockInv
<1>2. LockInv /\ Lock!Next => LockInv'
  <2> SUFFICES ASSUME LockInv, Lock!Next PROVE LockInv'
    OBVIOUS
  <2>1. ASSUME NEW x \in Lock!Procs,
               Lock!Begin(x) \/ Lock!Acquire(x) \/ Lock!Write(x) \/ Lock!Read(x) \/ Lock!Abort(x)
        PROVE  LockInv'
    BY <2>1, BeginKeeps, AcquireKeeps, WriteKeeps, ReadKeeps, FailKeeps DEF Lock!Abort
  <2> QED BY <2>1, ReplaceSentinelKeeps, ReplaceDirectoryKeeps DEF Lock!Next
<1>3. LockInv /\ UNCHANGED authority => LockInv'
  <2> SUFFICES ASSUME LockInv, UNCHANGED authority PROVE LockInv'
    OBVIOUS
  <2>1. UNCHANGED <<dir, entry, store, version, usedDirs, usedFiles, proc, acked>>
    BY DEF authority
  <2>2. Lock!TypeOK'
    BY <2>1 DEF LockInv, Lock!TypeOK
  <2>3. DirectoriesLocked' /\ OneTransaction' /\ CommitsBound' /\ SeenAcked'
    BY <2>1 DEF LockInv, DirectoriesLocked, OneTransaction, CommitsBound, SeenAcked, Stored,
                Lock!At, Lock!InTransaction, Lock!Compatible, Lock!PastDirLock, Lock!Steps
  <2> QED BY <2>2, <2>3 DEF LockInv
<1>4. (part = "authority" => LockInv) /\ [EitherNext]_<<part, vars, authority, gate>>
        => (part = "authority" => LockInv)'
  <2> SUFFICES ASSUME part = "authority" => LockInv, [EitherNext]_<<part, vars, authority, gate>>,
                      part' = "authority"
               PROVE  LockInv'
    OBVIOUS
  <2>1. part = "authority" /\ (Lock!Next \/ UNCHANGED authority)
    BY DEF EitherNext
  <2> QED BY <1>2, <1>3, <2>1
<1> QED BY <1>1, <1>4, PTL DEF EitherSpec

\* Under one lock domain a writer is alone, whatever an operator does to the
\* sentinel; no committed write is overwritten, though a replaced directory gives
\* one database a second domain; what was acknowledged stays in the database the
\* path names; and a reader that returns saw everything acknowledged before its
\* call (storage/sqlite_authority_lock.py, open_verified_read_model_snapshot).
THEOREM AuthorityKept == EitherSpec => []AuthorityIsKept
<1>1. LockInv => Lock!DomainExclusive
  <2>1. ASSUME NEW x \in Lock!Procs, Lock!InBody(x) PROVE Lock!At(x) \in Lock!PastDirLock
    BY <2>1 DEF Lock!InBody, Lock!PastDirLock, Lock!Steps, Lock!Writing, Lock!Reading
  <2> QED BY <2>1 DEF LockInv, DirectoriesLocked, Lock!DomainExclusive
<1>2. LockInv => Lock!NoLostUpdate
  BY DEF LockInv, OneTransaction, Lock!NoLostUpdate, Lock!InTransaction, Lock!Procs
<1>3. LockInv => Lock!AckedDurable /\ Lock!ReadsSeeAcked
  BY DEF LockInv, SeenAcked, Lock!AckedDurable, Lock!ReadsSeeAcked, Lock!Returns, Lock!Procs
<1>4. (part = "authority" => LockInv) => AuthorityIsKept
  BY <1>1, <1>2, <1>3 DEF AuthorityIsKept, Lock!AuthorityIsKept, Lock!WritesAreSerial,
                          Lock!AckedWritesLast
<1> QED BY LockAlways, <1>4, PTL
-----------------------------------------------------------------------------
(* The transport gate.                                                      *)

\* An instance has operators of its own for what it extends.
LEMMA GateCardinality ==
    ASSUME NEW S
    PROVE  Gate!Cardinality(S) = Cardinality(S) /\ Gate!IsFiniteSet(S) = IsFiniteSet(S)
<1>1. Gate!Cardinality(S) = Cardinality(S)
  BY Zenon DEF Cardinality, Gate!Cardinality
<1>2. Gate!IsFiniteSet(S) = IsFiniteSet(S)
  BY Zenon DEF IsFiniteSet, Gate!IsFiniteSet
<1> QED BY <1>1, <1>2

\* What the code's limits are.
LEMMA GateFacts ==
    /\ IsFiniteSet(Threads)
    /\ MaxConcurrency \in Nat \ {0} /\ MaxRequests \in Nat \ {0} /\ Window \in Nat \ {0}
    /\ NoNode \notin Nodes
BY GateAssumption, GateCardinality DEF Gate!GateConstants

\* The gate starts as it says, and a step of another part is none of the gate.
LEMMA GateMoves ==
    /\ EitherInit => Gate!Init
    /\ [EitherNext]_<<part, vars, authority, gate>> => [Gate!Next]_Gate!vars
<1>1. UNCHANGED gate => UNCHANGED Gate!vars
  BY DEF gate, Gate!vars, Gate!callVars, Gate!gateVars, Gate!nodeVars
<1> QED BY <1>1 DEF EitherInit, EitherNext

\* The inductive form of LeaseConservation: it needs the shape of pc, and
\* nothing of the clock, the rate window or the node state.
LeaseInv ==
    /\ pc \in [Threads -> Gate!Steps]
    /\ inFlight \in Nat
    /\ Gate!LeaseConservation

-----------------------------------------------------------------------------
(* How the set of lease holders moves with pc.                             *)

\* Holders is finite, and so has a cardinality, in every state.
LEMMA HoldersFinite == IsFiniteSet(Gate!Holders) /\ Cardinality(Gate!Holders) \in Nat
BY GateFacts, FS_Subset, FS_CardinalityType DEF Gate!Holders

\* A thread that enters the holding part of its call is one more lease.
LEMMA Enter ==
    ASSUME NEW t \in Threads, t \notin Gate!Holders, Gate!Holders' = Gate!Holders \union {t}
    PROVE  Cardinality(Gate!Holders') = Cardinality(Gate!Holders) + 1
BY HoldersFinite, FS_AddElement

\* A thread that leaves it is one less.
LEMMA Leave ==
    ASSUME NEW t \in Threads, t \in Gate!Holders, Gate!Holders' = Gate!Holders \ {t}
    PROVE  /\ Cardinality(Gate!Holders') = Cardinality(Gate!Holders) - 1
           /\ Cardinality(Gate!Holders') \in Nat
BY HoldersFinite, FS_RemoveElement, FS_CardinalityType

\* Waking a parked thread does not change whether it holds a lease.
LEMMA ResumeKeepsLease ==
    ASSUME NEW q \in Gate!Parked
    PROVE  /\ Gate!Resume(q) \in Gate!Steps
           /\ Gate!Resume(q) \in Gate!Holding <=> q \in Gate!Holding
BY DEF Gate!Parked, Gate!Resume, Gate!Steps, Gate!Holding

\* release() frees exactly one lease, whichever sleeper it wakes.
LEMMA ReleaseKeepsLeaseInv ==
    ASSUME LeaseInv, NEW t \in Threads, pc[t] \in Gate!Holding \ Gate!Parked, Gate!Release(t)
    PROVE  LeaseInv'
<1>1. pc' \in [Threads -> Gate!Steps]
  BY ResumeKeepsLease DEF LeaseInv, Gate!Release, Gate!Sleepers, Gate!Steps
<1>2. Gate!Holders' = Gate!Holders \ {t}
  <2>1. CASE pc' = [pc EXCEPT ![t] = "idle"]
    BY <2>1 DEF LeaseInv, Gate!Holders, Gate!Holding
  <2>2. CASE \E u \in Gate!Sleepers : pc' = [pc EXCEPT ![t] = "idle", ![u] = Gate!Resume(pc[u])]
    <3>1. PICK u \in Gate!Sleepers : pc' = [pc EXCEPT ![t] = "idle", ![u] = Gate!Resume(pc[u])]
      BY <2>2
    <3>2. u \in Threads /\ u # t /\ pc[u] \in Gate!Parked
      BY DEF Gate!Sleepers
    <3>3. pc'[t] = "idle" /\ pc'[u] = Gate!Resume(pc[u])
          /\ \A v \in Threads \ {t, u} : pc'[v] = pc[v]
      BY <3>1, <3>2 DEF LeaseInv
    <3>4. pc'[u] \in Gate!Holding <=> pc[u] \in Gate!Holding
      BY <3>2, <3>3, ResumeKeepsLease
    <3>5. "idle" \notin Gate!Holding
      BY DEF Gate!Holding
    <3> QED BY <3>2, <3>3, <3>4, <3>5 DEF Gate!Holders
  <2> QED BY <2>1, <2>2 DEF Gate!Release
<1>3. t \in Gate!Holders
  BY DEF Gate!Holders
<1>4. /\ Cardinality(Gate!Holders') = Cardinality(Gate!Holders) - 1
      /\ Cardinality(Gate!Holders') \in Nat
  BY <1>2, <1>3, Leave
<1>5. inFlight' = inFlight - 1
  BY DEF Gate!Release
<1> QED BY <1>1, <1>4, <1>5, HoldersFinite, GateCardinality, GateFacts
        DEF LeaseInv, Gate!LeaseConservation

\* A step that changes no lease: pc moves within or outside Holding.
LEMMA SameHolders ==
    ASSUME LeaseInv, NEW t \in Threads, NEW q \in Gate!Steps,
           pc' = [pc EXCEPT ![t] = q], q \in Gate!Holding <=> pc[t] \in Gate!Holding,
           UNCHANGED inFlight
    PROVE  LeaseInv'
<1>1. pc' \in [Threads -> Gate!Steps]
  BY DEF LeaseInv
<1>2. Gate!Holders' = Gate!Holders
  BY DEF LeaseInv, Gate!Holders
<1> QED BY <1>1, <1>2 DEF LeaseInv, Gate!LeaseConservation

-----------------------------------------------------------------------------
\* The gate's in-flight counter equals the number of unreleased leases and
\* never exceeds the limit, however calls interleave, fail, time out or wake
\* each other.
THEOREM LeasesConserved == EitherSpec => []LeaseConservation
<1>1. Gate!Init => LeaseInv
  <2> SUFFICES ASSUME Gate!Init PROVE LeaseInv
    OBVIOUS
  <2>1. pc \in [Threads -> Gate!Steps]
    BY DEF Gate!Init, Gate!Steps
  <2>2. Gate!Holders = {}
    BY DEF Gate!Init, Gate!Holders, Gate!Holding
  <2> QED BY <2>1, <2>2, FS_EmptySet, GateCardinality, GateFacts
         DEF Gate!Init, LeaseInv, Gate!LeaseConservation
<1>2. LeaseInv /\ [Gate!Next]_Gate!vars => LeaseInv'
  <2> SUFFICES ASSUME LeaseInv, [Gate!Next]_Gate!vars PROVE LeaseInv'
    OBVIOUS
  <2>1. ASSUME NEW t \in Threads, Gate!Begin(t) PROVE LeaseInv'
    BY <2>1, SameHolders DEF Gate!Begin, Gate!gateVars, Gate!Steps, Gate!Holding
  <2>2. ASSUME NEW t \in Threads, Gate!Admit(t) PROVE LeaseInv'
    <3>1. pc' \in [Threads -> Gate!Steps]
      BY <2>2 DEF Gate!Admit, LeaseInv, Gate!Steps, Gate!Holding
    <3>2. t \notin Gate!Holders /\ Gate!Holders' = Gate!Holders \union {t}
      BY <2>2 DEF Gate!Admit, LeaseInv, Gate!Holders, Gate!Holding
    <3>3. Cardinality(Gate!Holders') = Cardinality(Gate!Holders) + 1
      BY <3>2, Enter
    <3> QED BY <2>2, <3>1, <3>3, HoldersFinite, GateCardinality, GateFacts
            DEF Gate!Admit, LeaseInv, Gate!LeaseConservation
  <2>3. ASSUME NEW t \in Threads, Gate!AdmitBlocked(t) PROVE LeaseInv'
    BY <2>3, SameHolders DEF Gate!AdmitBlocked, Gate!Park, Gate!Steps, Gate!Holding
  <2>4. ASSUME NEW t \in Threads, Gate!WaitElapsed(t) PROVE LeaseInv'
    BY <2>4, SameHolders, ResumeKeepsLease DEF Gate!WaitElapsed, Gate!gateVars
  <2>5. ASSUME NEW t \in Threads, Gate!Resolve(t) PROVE LeaseInv'
    <3>1. CASE Gate!Fail(t)
      BY <2>5, <3>1, ReleaseKeepsLeaseInv DEF Gate!Resolve, Gate!Fail, Gate!Holding, Gate!Parked
    <3>2. CASE pc' = [pc EXCEPT ![t] = "dial"] /\ UNCHANGED Gate!gateVars
      BY <2>5, <3>2, SameHolders DEF Gate!Resolve, Gate!gateVars, Gate!Steps, Gate!Holding
    <3> QED BY <2>5, <3>1, <3>2 DEF Gate!Resolve
  <2>6. ASSUME NEW t \in Threads, Gate!Dial(t) PROVE LeaseInv'
    <3>1. CASE Gate!Fail(t)
      BY <2>6, <3>1, ReleaseKeepsLeaseInv DEF Gate!Dial, Gate!Fail, Gate!Holding, Gate!Parked
    <3>2. CASE /\ \E q \in {"mark", "penalize"} : pc' = [pc EXCEPT ![t] = q]
               /\ UNCHANGED Gate!gateVars
      BY <2>6, <3>2, SameHolders DEF Gate!Dial, Gate!gateVars, Gate!Steps, Gate!Holding
    <3> QED BY <2>6, <3>1, <3>2 DEF Gate!Dial
  <2>7. ASSUME NEW t \in Threads, Gate!Penalize(t) PROVE LeaseInv'
    BY <2>7, SameHolders DEF Gate!Penalize, Gate!gateVars, Gate!Steps, Gate!Holding
  <2>8. ASSUME NEW t \in Threads, Gate!MarkStarted(t) PROVE LeaseInv'
    BY <2>8, SameHolders DEF Gate!MarkStarted, Gate!Steps, Gate!Holding
  <2>9. ASSUME NEW t \in Threads, Gate!MarkBlocked(t) PROVE LeaseInv'
    BY <2>9, SameHolders DEF Gate!MarkBlocked, Gate!Park, Gate!Steps, Gate!Holding
  <2>10. ASSUME NEW t \in Threads, Gate!MarkExpired(t) PROVE LeaseInv'
    <3>1. CASE Gate!Fail(t)
      BY <2>10, <3>1, ReleaseKeepsLeaseInv DEF Gate!MarkExpired, Gate!Fail, Gate!Holding, Gate!Parked
    <3>2. CASE pc' = [pc EXCEPT ![t] = "penalize"] /\ UNCHANGED Gate!gateVars
      BY <2>10, <3>2, SameHolders DEF Gate!MarkExpired, Gate!gateVars, Gate!Steps, Gate!Holding
    <3> QED BY <2>10, <3>1, <3>2 DEF Gate!MarkExpired
  <2>11. ASSUME NEW t \in Threads, Gate!Respond(t) PROVE LeaseInv'
    BY <2>11, SameHolders DEF Gate!Respond, Gate!gateVars, Gate!Steps, Gate!Holding
  <2>12. ASSUME NEW t \in Threads, Gate!Finish(t) PROVE LeaseInv'
    BY <2>12, ReleaseKeepsLeaseInv DEF Gate!Finish, Gate!Fail, Gate!Holding, Gate!Parked
  <2>13. CASE Gate!Tick
    BY <2>13 DEF Gate!Tick, LeaseInv, Gate!LeaseConservation, Gate!Holders
  <2>14. CASE UNCHANGED Gate!vars
    BY <2>14 DEF Gate!vars, Gate!callVars, Gate!gateVars, LeaseInv, Gate!LeaseConservation, Gate!Holders
  <2> QED BY <2>1, <2>2, <2>3, <2>4, <2>5, <2>6, <2>7, <2>8, <2>9, <2>10, <2>11,
             <2>12, <2>13, <2>14 DEF Gate!Next, Gate!Step
<1>3. LeaseInv => LeaseConservation
  BY DEF LeaseInv, LeaseConservation
<1> QED BY <1>1, <1>2, <1>3, GateMoves, PTL DEF EitherSpec

-----------------------------------------------------------------------------
(* No replay after the first byte.                                         *)

\* A started request is in the part of the call that follows the send.
StartedInv ==
    /\ pc \in [Threads -> Gate!Steps]
    /\ started \in [Threads -> BOOLEAN]
    /\ nodesLeft = [t \in Threads |-> nodesLeft[t]]
    /\ \A t \in Threads : started[t] => pc[t] \in {"sent", "abort", "reading"}

\* What a step may do to a started request of thread t.
KeepsRequest(t) ==
    \/ pc'[t] = "idle"
    \/ /\ nodesLeft'[t] = nodesLeft[t]
       /\ started'[t]
       /\ pc'[t] \in {"sent", "abort", "reading"}

\* A step keeps every started request, and the invariant.
RequestsKept ==
    /\ StartedInv'
    /\ \A t \in Threads : started[t] => KeepsRequest(t)

\* Releasing a lease ends the releasing call and at most wakes a sleeper,
\* which has not started a request.
LEMMA ReleaseKeepsRequests ==
    ASSUME StartedInv, NEW u \in Threads, pc[u] \in Gate!Holding \ Gate!Parked, Gate!Release(u)
    PROVE  RequestsKept
<1>1. \A v \in Gate!Sleepers :
         v \in Threads /\ v # u /\ ~started[v] /\ Gate!Resume(pc[v]) \in Gate!Steps
  BY ResumeKeepsLease DEF Gate!Sleepers, Gate!Parked, StartedInv
<1>2. pc' \in [Threads -> Gate!Steps] /\ pc'[u] = "idle"
  BY <1>1 DEF Gate!Release, StartedInv, Gate!Steps
<1>3. \A t \in Threads : started[t] => t = u \/ pc'[t] = pc[t]
  BY <1>1 DEF Gate!Release, StartedInv
<1>4. /\ started' = [started EXCEPT ![u] = FALSE]
      /\ nodesLeft' = [nodesLeft EXCEPT ![u] = <<>>]
  BY DEF Gate!Release
<1> QED BY <1>2, <1>3, <1>4 DEF StartedInv, KeepsRequest, RequestsKept

\* A step of a call whose request has not started touches no other request.
LEMMA EarlyStep ==
    ASSUME StartedInv, NEW u \in Threads, NEW q \in Gate!Steps, NEW s,
           pc[u] \notin {"sent", "abort", "reading"},
           pc' = [pc EXCEPT ![u] = q],
           UNCHANGED started,
           nodesLeft' = [nodesLeft EXCEPT ![u] = s]
    PROVE  RequestsKept
<1>1. ~started[u]
  BY DEF StartedInv
<1>2. pc' \in [Threads -> Gate!Steps] /\ \A t \in Threads : t # u => pc'[t] = pc[t]
  BY DEF StartedInv
<1>3. /\ nodesLeft' = [t \in Threads |-> nodesLeft'[t]]
      /\ \A t \in Threads : t # u => nodesLeft'[t] = nodesLeft[t]
  BY DEF StartedInv
<1> QED BY <1>1, <1>2, <1>3 DEF StartedInv, KeepsRequest, RequestsKept

\* The same for a step that leaves the addresses of the call alone.
LEMMA EarlyStepSameNodes ==
    ASSUME StartedInv, NEW u \in Threads, NEW q \in Gate!Steps,
           pc[u] \notin {"sent", "abort", "reading"},
           pc' = [pc EXCEPT ![u] = q],
           UNCHANGED <<started, nodesLeft>>
    PROVE  RequestsKept
<1>1. nodesLeft' = [nodesLeft EXCEPT ![u] = nodesLeft[u]]
  BY DEF StartedInv
<1> QED BY <1>1, EarlyStep

\* A provider request is never replayed: once a byte is sent, the call keeps
\* its address and its one request until it ends.
THEOREM NeverReplayed == EitherSpec => NoReplay
<1>1. Gate!Init => StartedInv
  BY DEF Gate!Init, StartedInv, Gate!Steps
<1>2. StartedInv /\ [Gate!Next]_Gate!vars => RequestsKept
  <2> SUFFICES ASSUME StartedInv, [Gate!Next]_Gate!vars PROVE RequestsKept
    OBVIOUS
  <2>1. ASSUME NEW u \in Threads, Gate!Begin(u) PROVE RequestsKept
    BY <2>1, EarlyStepSameNodes DEF Gate!Begin, Gate!Steps
  <2>2. ASSUME NEW u \in Threads, Gate!Admit(u) PROVE RequestsKept
    BY <2>2, EarlyStepSameNodes DEF Gate!Admit, Gate!Steps, Gate!Holding
  <2>3. ASSUME NEW u \in Threads, Gate!AdmitBlocked(u) PROVE RequestsKept
    BY <2>3, EarlyStepSameNodes DEF Gate!AdmitBlocked, Gate!Park, Gate!Steps
  <2>4. ASSUME NEW u \in Threads, Gate!WaitElapsed(u) PROVE RequestsKept
    BY <2>4, EarlyStepSameNodes, ResumeKeepsLease DEF Gate!WaitElapsed, Gate!Parked
  <2>5. ASSUME NEW u \in Threads, Gate!Resolve(u) PROVE RequestsKept
    <3>1. CASE Gate!Fail(u)
      BY <2>5, <3>1, ReleaseKeepsRequests DEF Gate!Resolve, Gate!Fail, Gate!Holding, Gate!Parked
    <3>2. ASSUME NEW s \in Snapshots,
                 pc' = [pc EXCEPT ![u] = "dial"],
                 nodesLeft' = [nodesLeft EXCEPT ![u] = Gate!Ordered(s)],
                 UNCHANGED started
          PROVE  RequestsKept
      BY <2>5, <3>2, EarlyStep DEF Gate!Resolve, Gate!Steps, Gate!Holding
    <3> QED BY <2>5, <3>1, <3>2 DEF Gate!Resolve
  <2>6. ASSUME NEW u \in Threads, Gate!Dial(u) PROVE RequestsKept
    <3>1. CASE Gate!Fail(u)
      BY <2>6, <3>1, ReleaseKeepsRequests DEF Gate!Dial, Gate!Fail, Gate!Holding, Gate!Parked
    <3>2. CASE /\ \E q \in {"mark", "penalize"} : pc' = [pc EXCEPT ![u] = q]
               /\ UNCHANGED <<started, nodesLeft>>
      BY <2>6, <3>2, EarlyStepSameNodes DEF Gate!Dial, Gate!Steps, Gate!Holding
    <3> QED BY <2>6, <3>1, <3>2 DEF Gate!Dial
  <2>7. ASSUME NEW u \in Threads, Gate!Penalize(u) PROVE RequestsKept
    BY <2>7, EarlyStep DEF Gate!Penalize, Gate!Steps, Gate!Holding
  <2>8. ASSUME NEW u \in Threads, Gate!MarkStarted(u) PROVE RequestsKept
    <3>1. ~started[u] /\ \A t \in Threads : t # u => started'[t] = started[t]
      BY <2>8 DEF Gate!MarkStarted, StartedInv
    <3>2. /\ pc' \in [Threads -> Gate!Steps] /\ started' \in [Threads -> BOOLEAN]
          /\ pc'[u] = "sent" /\ \A t \in Threads : t # u => pc'[t] = pc[t]
      BY <2>8 DEF Gate!MarkStarted, StartedInv, Gate!Steps, Gate!Holding
    <3> QED BY <2>8, <3>1, <3>2 DEF Gate!MarkStarted, StartedInv, KeepsRequest, RequestsKept
  <2>9. ASSUME NEW u \in Threads, Gate!MarkBlocked(u) PROVE RequestsKept
    BY <2>9, EarlyStepSameNodes DEF Gate!MarkBlocked, Gate!Park, Gate!Steps, Gate!Holding
  <2>10. ASSUME NEW u \in Threads, Gate!MarkExpired(u) PROVE RequestsKept
    <3>1. CASE Gate!Fail(u)
      BY <2>10, <3>1, ReleaseKeepsRequests DEF Gate!MarkExpired, Gate!Fail, Gate!Holding, Gate!Parked
    <3>2. CASE pc' = [pc EXCEPT ![u] = "penalize"] /\ UNCHANGED <<started, nodesLeft>>
      BY <2>10, <3>2, EarlyStepSameNodes DEF Gate!MarkExpired, Gate!Steps, Gate!Holding
    <3> QED BY <2>10, <3>1, <3>2 DEF Gate!MarkExpired
  <2>11. ASSUME NEW u \in Threads, Gate!Respond(u) PROVE RequestsKept
    <3>1. pc' \in [Threads -> Gate!Steps] /\ pc'[u] \in {"reading", "abort"}
          /\ \A t \in Threads : t # u => pc'[t] = pc[t]
      BY <2>11 DEF Gate!Respond, StartedInv, Gate!Steps, Gate!Holding
    <3> QED BY <2>11, <3>1 DEF Gate!Respond, StartedInv, KeepsRequest, RequestsKept
  <2>12. ASSUME NEW u \in Threads, Gate!Finish(u) PROVE RequestsKept
    BY <2>12, ReleaseKeepsRequests DEF Gate!Finish, Gate!Fail, Gate!Holding, Gate!Parked
  <2>13. CASE Gate!Tick
    BY <2>13 DEF Gate!Tick, StartedInv, KeepsRequest, RequestsKept
  <2>14. CASE UNCHANGED Gate!vars
    BY <2>14 DEF Gate!vars, Gate!callVars, StartedInv, KeepsRequest, RequestsKept
  <2> QED BY <2>1, <2>2, <2>3, <2>4, <2>5, <2>6, <2>7, <2>8, <2>9, <2>10,
             <2>11, <2>12, <2>13, <2>14 DEF Gate!Next, Gate!Step
<1>3. StartedInv /\ [Gate!Next]_Gate!vars => StartedInv'
  BY <1>2 DEF RequestsKept
<1>4. StartedInv /\ [Gate!Next]_Gate!vars =>
         [\A t \in Threads : started[t] =>
             \/ pc'[t] = "idle"
             \/ /\ nodesLeft'[t] = nodesLeft[t]
                /\ started'[t]
                /\ pc'[t] \in {"sent", "abort", "reading"}]_Gate!vars
  BY <1>2 DEF KeepsRequest, RequestsKept
<1> QED BY <1>1, <1>3, <1>4, GateMoves, PTL DEF EitherSpec, NoReplay, Gate!NoReplay

-----------------------------------------------------------------------------
(* The rate of the account and the preferred address.                       *)

\* k of the oldest starts have left the window, and no more in a row.
Drops(ages, k) ==
    /\ k \in 0..Len(ages)
    /\ \A i \in 1..k : ages[i] >= Window
    /\ k < Len(ages) => ages[k + 1] < Window

\* The loop of popleft ends, and at one place only.
LEMMA ExpiredIs ==
    ASSUME NEW ages \in Seq(Nat)
    PROVE  /\ Drops(ages, Gate!Expired(ages))
           /\ \A n : Drops(ages, n) => n = Gate!Expired(ages)
<1> DEFINE T == {n \in 0..Len(ages) : n = Len(ages) \/ ages[n + 1] < Window}
<1>1. Len(ages) \in Nat /\ \A i \in 1..Len(ages) : ages[i] \in Nat
  OBVIOUS
<1>2. T \in SUBSET Nat /\ Len(ages) \in T
  BY <1>1
<1>3. PICK k \in T : \A m \in T : k <= m
  BY <1>2, NatLeast
<1>4. Drops(ages, k)
  <2>1. ASSUME NEW i \in 1..k PROVE ages[i] >= Window
    <3>1. i - 1 \in 0..Len(ages) /\ i - 1 < k /\ (i - 1) + 1 = i /\ i - 1 # Len(ages)
      BY <1>1, <1>2
    <3>2. i - 1 \notin T
      <4> SUFFICES ASSUME i - 1 \in T PROVE FALSE
        OBVIOUS
      <4>1. k <= i - 1
        BY <1>3
      <4> QED BY <4>1, <3>1, <1>2, <1>3
    <3>3. ~(ages[(i - 1) + 1] < Window)
      BY <3>1, <3>2
    <3> QED BY <1>1, <3>1, <3>3, GateFacts
  <2> QED BY <2>1 DEF Drops
<1>5. Drops(ages, Gate!Expired(ages))
  BY <1>4 DEF Drops, Gate!Expired
<1>6. ASSUME NEW m \in 0..Len(ages), NEW n \in 0..Len(ages),
             Drops(ages, m), Drops(ages, n), m < n
      PROVE  FALSE
  <2>1. m + 1 \in 1..n /\ ages[m + 1] \in Nat
    BY <1>1, <1>6
  <2>2. ages[m + 1] < Window /\ ages[m + 1] >= Window
    BY <1>1, <1>6, <2>1 DEF Drops
  <2> QED BY <2>1, <2>2, GateFacts
<1>7. ASSUME NEW n \in 0..Len(ages), Drops(ages, n) PROVE n = Gate!Expired(ages)
  <2>1. Gate!Expired(ages) \in 0..Len(ages)
    BY <1>5 DEF Drops
  <2>2. ~(n < Gate!Expired(ages)) /\ ~(Gate!Expired(ages) < n)
    BY <1>5, <1>6, <1>7, <2>1
  <2> QED BY <1>1, <2>1, <2>2
<1> QED BY <1>5, <1>7 DEF Drops

\* What is left after the loop.
LEMMA LiveIs ==
    ASSUME NEW ages \in Seq(Nat), NEW k, Drops(ages, k)
    PROVE  /\ Gate!Live(ages) \in Seq(Nat)
           /\ Len(Gate!Live(ages)) = Len(ages) - k
           /\ \A i \in 1..Len(ages) - k : Gate!Live(ages)[i] = ages[k + i]
<1>1. Gate!Live(ages) = SubSeq(ages, k + 1, Len(ages))
  BY ExpiredIs DEF Gate!Live
<1>2. k \in Nat /\ k <= Len(ages) /\ Len(ages) \in Nat
  BY DEF Drops
<1>3. \A i \in k + 1..Len(ages) : ages[i] \in Nat
  BY <1>2
<1> QED BY <1>1, <1>2, <1>3, SubSeqProperties

\* Two lists of ages are the same when they agree at every place.
LEMMA SameAges ==
    ASSUME NEW s \in Seq(Nat), NEW t \in Seq(Nat), Len(s) = Len(t),
           \A i \in 1..Len(s) : s[i] = t[i]
    PROVE  s = t
OBVIOUS

\* What is left is not dropped again, nor is a start that is added to it.
LEMMA LiveStays ==
    ASSUME NEW ages \in Seq(Nat)
    PROVE  /\ Gate!Live(Gate!Live(ages)) = Gate!Live(ages)
           /\ Gate!Live(Append(Gate!Live(ages), 0)) = Append(Gate!Live(ages), 0)
<1> DEFINE k == Gate!Expired(ages)
           kept == Gate!Live(ages)
<1>1. Drops(ages, k)
  BY ExpiredIs
<1>2. /\ kept \in Seq(Nat) /\ Len(kept) = Len(ages) - k
      /\ \A i \in 1..Len(ages) - k : kept[i] = ages[k + i]
  BY <1>1, LiveIs
<1>3. k \in Nat /\ k <= Len(ages) /\ Len(ages) \in Nat /\ (k < Len(ages) => ages[k + 1] < Window)
  BY <1>1 DEF Drops
<1> HIDE DEF k, kept
<1>4. 0 < Len(kept) => kept[1] < Window
  BY <1>2, <1>3, SMTT(60)
<1>5. Drops(kept, 0)
  BY <1>2, <1>4 DEF Drops
<1>6. Gate!Live(kept) = kept
  <2>1. /\ Gate!Live(kept) \in Seq(Nat) /\ Len(Gate!Live(kept)) = Len(kept)
        /\ \A i \in 1..Len(kept) : Gate!Live(kept)[i] = kept[i]
    BY <1>2, <1>5, LiveIs
  <2> QED BY <1>2, <2>1, SameAges
<1> DEFINE more == Append(kept, 0)
<1>7. more \in Seq(Nat) /\ Len(more) = Len(kept) + 1 /\ more[Len(kept) + 1] = 0
      /\ \A i \in 1..Len(kept) : more[i] = kept[i]
  BY <1>2
<1> HIDE DEF more
<1>8. more[1] < Window
  <2>1. CASE Len(kept) = 0
    BY <1>7, <2>1, GateFacts
  <2>2. CASE Len(kept) > 0
    BY <1>2, <1>4, <1>7, <2>2
  <2> QED BY <1>2, <1>3, <2>1, <2>2
<1>9. Drops(more, 0)
  BY <1>2, <1>3, <1>7, <1>8 DEF Drops
<1>10. Gate!Live(more) = more
  <2>1. /\ Gate!Live(more) \in Seq(Nat) /\ Len(Gate!Live(more)) = Len(more)
        /\ \A i \in 1..Len(more) : Gate!Live(more)[i] = more[i]
    BY <1>7, <1>9, LiveIs
  <2> QED BY <1>7, <2>1, SameAges
<1> QED BY <1>6, <1>10 DEF kept, more

\* Every start grows older by itself.
LEMMA AgedIs ==
    ASSUME NEW ages \in Seq(Nat)
    PROVE  /\ Gate!Aged(ages) \in Seq(Nat) /\ Len(Gate!Aged(ages)) = Len(ages)
           /\ \A i \in 1..Len(ages) :
                 Gate!Aged(ages)[i] = IF ages[i] + 1 <= Window THEN ages[i] + 1 ELSE Window
BY GateFacts DEF Gate!Aged, Gate!Lesser

\* Growing older and being dropped come to the same in either order.
LEMMA AgedLive ==
    ASSUME NEW ages \in Seq(Nat)
    PROVE  Gate!Live(Gate!Aged(Gate!Live(ages))) = Gate!Live(Gate!Aged(ages))
<1> DEFINE k == Gate!Expired(ages)
           kept == Gate!Live(ages)
           older == Gate!Aged(ages)
           j == Gate!Expired(older)
           rest == Gate!Aged(kept)
<1>1. Drops(ages, k)
  BY ExpiredIs
<1>2. /\ kept \in Seq(Nat) /\ Len(kept) = Len(ages) - k
      /\ \A i \in 1..Len(ages) - k : kept[i] = ages[k + i]
  BY <1>1, LiveIs
<1>3. /\ older \in Seq(Nat) /\ Len(older) = Len(ages)
      /\ \A i \in 1..Len(ages) :
            older[i] = IF ages[i] + 1 <= Window THEN ages[i] + 1 ELSE Window
  BY AgedIs
<1>4. /\ rest \in Seq(Nat) /\ Len(rest) = Len(kept)
      /\ \A i \in 1..Len(kept) :
            rest[i] = IF kept[i] + 1 <= Window THEN kept[i] + 1 ELSE Window
  BY <1>2, AgedIs
<1>5. Drops(older, j)
  BY <1>3, ExpiredIs
<1>6. /\ Gate!Live(older) \in Seq(Nat) /\ Len(Gate!Live(older)) = Len(older) - j
      /\ \A i \in 1..Len(older) - j : Gate!Live(older)[i] = older[j + i]
  BY <1>3, <1>5, LiveIs
<1> HIDE DEF k, kept, older, j, rest
<1>7. k \in Nat /\ k <= Len(ages) /\ j \in Nat /\ j <= Len(ages) /\ Len(ages) \in Nat
  BY <1>1, <1>3, <1>5 DEF Drops
<1>8. ASSUME NEW i \in 1..Len(ages) - k PROVE rest[i] = older[k + i]
  <2>1. k + i \in 1..Len(ages) /\ i \in 1..Len(kept)
    BY <1>2, <1>7
  <2>2. kept[i] = ages[k + i]
    BY <1>2
  <2> QED BY <1>3, <1>4, <2>1, <2>2, SMTT(60)
<1>9. k <= j
  <2> SUFFICES ASSUME j < k PROVE FALSE
    BY <1>7
  <2>1. j + 1 \in 1..k /\ j + 1 \in 1..Len(ages) /\ j < Len(older)
    BY <1>3, <1>7
  <2>2. ages[j + 1] >= Window /\ ages[j + 1] \in Nat
    BY <1>1, <2>1 DEF Drops
  <2>3. older[j + 1] = Window
    BY <1>3, <2>1, <2>2, GateFacts
  <2>4. older[j + 1] < Window
    BY <1>5, <2>1 DEF Drops
  <2> QED BY <2>3, <2>4, GateFacts
<1>10. Drops(rest, j - k)
  <2>1. j - k \in 0..Len(rest)
    BY <1>2, <1>4, <1>7, <1>9
  <2>2. ASSUME NEW i \in 1..j - k PROVE rest[i] >= Window
    <3>1. k + i \in 1..j /\ i \in 1..Len(ages) - k
      BY <1>7, <1>9
    <3> QED BY <1>5, <1>8, <3>1 DEF Drops
  <2>3. ASSUME j - k < Len(rest) PROVE rest[j - k + 1] < Window
    <3>1. j - k + 1 \in 1..Len(ages) - k /\ k + (j - k + 1) = j + 1 /\ j < Len(older)
      BY <1>2, <1>3, <1>4, <1>7, <1>9, <2>3, SMTT(60)
    <3> QED BY <1>5, <1>8, <3>1 DEF Drops
  <2> QED BY <2>1, <2>2, <2>3 DEF Drops
<1>11. /\ Gate!Live(rest) \in Seq(Nat) /\ Len(Gate!Live(rest)) = Len(rest) - (j - k)
       /\ \A i \in 1..Len(rest) - (j - k) : Gate!Live(rest)[i] = rest[(j - k) + i]
  BY <1>4, <1>10, LiveIs
<1>12. Len(rest) - (j - k) = Len(older) - j
  BY <1>2, <1>3, <1>4, <1>7
<1>13. \A i \in 1..Len(older) - j : rest[(j - k) + i] = older[j + i]
  <2> SUFFICES ASSUME NEW i \in 1..Len(older) - j PROVE rest[(j - k) + i] = older[j + i]
    OBVIOUS
  <2>1. (j - k) + i \in 1..Len(ages) - k /\ k + ((j - k) + i) = j + i
    BY <1>3, <1>7, <1>9
  <2> QED BY <1>8, <2>1
<1>14. Gate!Live(rest) = Gate!Live(older)
  BY <1>6, <1>11, <1>12, <1>13, SameAges
<1> QED BY <1>14 DEF rest, kept, older

\* What the gate remembers is what was really put on the wire: the starts on
\* the wire in the last window are the remembered ones that have not expired.
RateInv ==
    /\ starts \in Seq(Nat)
    /\ recent = Gate!Live(starts)
    /\ Len(recent) <= MaxRequests

\* Steps that leave the record of starts alone.
LEMMA RateInvKept ==
    ASSUME RateInv, UNCHANGED <<starts, recent>>
    PROVE  RateInv'
BY DEF RateInv

\* Every step keeps the marks of the gate.
LEMMA RateInvStep ==
    ASSUME RateInv, [Gate!Next]_Gate!vars
    PROVE  RateInv'
<1>1. ASSUME NEW t \in Threads,
             \/ Gate!Begin(t) \/ Gate!Admit(t) \/ Gate!AdmitBlocked(t)
             \/ Gate!WaitElapsed(t) \/ Gate!Penalize(t) \/ Gate!Respond(t)
      PROVE  RateInv'
  BY <1>1, RateInvKept
     DEF Gate!Begin, Gate!Admit, Gate!AdmitBlocked, Gate!WaitElapsed, Gate!Penalize,
         Gate!Respond, Gate!gateVars
<1>2. ASSUME NEW t \in Threads, Gate!Fail(t) PROVE RateInv'
  BY <1>2, RateInvKept DEF Gate!Fail, Gate!Release
<1>3. ASSUME NEW t \in Threads, Gate!Resolve(t) \/ Gate!Dial(t) \/ Gate!MarkExpired(t) \/ Gate!Finish(t)
      PROVE  RateInv'
  BY <1>2, <1>3, RateInvKept DEF Gate!Resolve, Gate!Dial, Gate!MarkExpired, Gate!Finish, Gate!gateVars
<1>4. ASSUME NEW t \in Threads, Gate!MarkStarted(t) PROVE RateInv'
  <2> DEFINE kept == Gate!Live(starts)
  <2>1. kept \in Seq(Nat) /\ Gate!Live(Append(kept, 0)) = Append(kept, 0)
    BY ExpiredIs, LiveIs, LiveStays DEF RateInv
  <2>2. recent = kept /\ Len(kept) < MaxRequests
        /\ starts' = Append(kept, 0) /\ recent' = Append(recent, 0)
    BY <1>4 DEF Gate!MarkStarted, RateInv
  <2> HIDE DEF kept
  <2>3. starts' \in Seq(Nat) /\ Len(starts') <= MaxRequests
    BY <2>1, <2>2, GateFacts
  <2>4. recent' = Gate!Live(starts)'
    BY <2>1, <2>2
  <2> QED BY <2>2, <2>3, <2>4 DEF RateInv
<1>5. ASSUME NEW t \in Threads, Gate!MarkBlocked(t) PROVE RateInv'
  <2>1. starts' = Gate!Live(starts) /\ recent' = Gate!Live(starts)
    BY <1>5 DEF Gate!MarkBlocked, RateInv
  <2>2. Gate!Live(starts) \in Seq(Nat) /\ Gate!Live(Gate!Live(starts)) = Gate!Live(starts)
    BY ExpiredIs, LiveIs, LiveStays DEF RateInv
  <2>3. Gate!Live(starts)' = Gate!Live(starts)
    BY <2>1, <2>2
  <2> QED BY <2>1, <2>2, <2>3 DEF RateInv
<1>6. CASE Gate!Tick
  <2>1. starts' = Gate!Aged(starts) /\ recent' = Gate!Live(Gate!Aged(Gate!Live(starts)))
    BY <1>6 DEF Gate!Tick, RateInv
  <2>2. /\ starts' \in Seq(Nat) /\ recent' = Gate!Live(Gate!Aged(starts))
        /\ Gate!Live(starts) \in Seq(Nat)
    BY <2>1, AgedIs, AgedLive, ExpiredIs, LiveIs DEF RateInv
  <2>3. recent' = Gate!Live(starts)'
    BY <2>1, <2>2
  <2>4. Len(recent') <= Len(recent)
    <3> DEFINE older == Gate!Aged(Gate!Live(starts))
    <3>1. older \in Seq(Nat) /\ Len(older) = Len(Gate!Live(starts))
      BY <2>2, AgedIs
    <3>2. Drops(older, Gate!Expired(older))
      BY <3>1, ExpiredIs
    <3>3. /\ Len(Gate!Live(older)) = Len(older) - Gate!Expired(older)
          /\ Gate!Expired(older) \in 0..Len(older)
      BY <3>1, <3>2, LiveIs DEF Drops
    <3> HIDE DEF older
    <3>4. Len(Gate!Live(older)) <= Len(older)
      BY <3>1, <3>3
    <3> QED BY <2>1, <3>1, <3>4 DEF older, RateInv
  <2>5. Len(recent) \in Nat /\ Len(recent') \in Nat /\ Len(recent) <= MaxRequests
    BY <2>2, ExpiredIs, LiveIs, AgedIs DEF RateInv
  <2> QED BY <2>2, <2>3, <2>4, <2>5, GateFacts DEF RateInv
<1>7. CASE UNCHANGED Gate!vars
  BY <1>7, RateInvKept DEF Gate!vars, Gate!gateVars
<1> QED BY <1>1, <1>3, <1>4, <1>5, <1>6, <1>7 DEF Gate!Next, Gate!Step

\* The address that is preferred is not one that is cooling down. A step that
\* reports on an address keeps this whatever it reports.
LEMMA PreferredStep ==
    ASSUME Gate!PreferredIsUsable, [Gate!Next]_Gate!vars
    PROVE  Gate!PreferredIsUsable'
<1>1. ASSUME UNCHANGED Gate!nodeVars PROVE Gate!PreferredIsUsable'
  BY <1>1 DEF Gate!nodeVars, Gate!PreferredIsUsable
<1>2. ASSUME NEW n, Gate!RecordSuccess(n) PROVE Gate!PreferredIsUsable'
  BY <1>2 DEF Gate!RecordSuccess, Gate!PreferredIsUsable
<1>3. ASSUME NEW n, Gate!RecordPreSendFailure(n) PROVE Gate!PreferredIsUsable'
  BY <1>3 DEF Gate!RecordPreSendFailure, Gate!PreferredIsUsable
<1>4. ASSUME NEW t \in Threads, Gate!Begin(t) \/ Gate!Step(t) PROVE Gate!PreferredIsUsable'
  <2>1. ASSUME Gate!Fail(t) PROVE Gate!PreferredIsUsable'
    BY <1>1, <2>1 DEF Gate!Fail
  <2>2. ASSUME Gate!Begin(t) \/ Gate!Admit(t) \/ Gate!AdmitBlocked(t) \/ Gate!WaitElapsed(t)
               \/ Gate!MarkStarted(t) \/ Gate!MarkBlocked(t)
        PROVE  Gate!PreferredIsUsable'
    BY <1>1, <2>2 DEF Gate!Begin, Gate!Admit, Gate!AdmitBlocked, Gate!WaitElapsed,
                      Gate!MarkStarted, Gate!MarkBlocked
  <2>3. ASSUME Gate!Resolve(t) \/ Gate!Dial(t) \/ Gate!Finish(t) PROVE Gate!PreferredIsUsable'
    BY <1>1, <2>1, <2>3 DEF Gate!Resolve, Gate!Dial, Gate!Finish
  <2>4. ASSUME Gate!Penalize(t) PROVE Gate!PreferredIsUsable'
    BY <1>3, <2>4 DEF Gate!Penalize
  <2>5. ASSUME Gate!MarkExpired(t) \/ Gate!Respond(t) PROVE Gate!PreferredIsUsable'
    BY <1>2, <2>1, <2>5 DEF Gate!MarkExpired, Gate!Respond
  <2> QED BY <1>4, <2>2, <2>3, <2>4, <2>5 DEF Gate!Step
<1>5. CASE Gate!Tick
  BY <1>5 DEF Gate!Tick, Gate!PreferredIsUsable
<1> QED BY <1>1, <1>4, <1>5 DEF Gate!Next, Gate!vars

\* No window holds more request starts than the account is allowed, and no
\* call is sent first to an address that is cooling down, for any number of
\* threads, addresses and starts per window
\* (_QuickSyncTransportGate.mark_request_started_until, _QuickSyncNodeState).
THEOREM StartsSound == EitherSpec => []StartsAreSound
<1>1. Gate!Init => RateInv /\ Gate!PreferredIsUsable
  <2> SUFFICES ASSUME Gate!Init PROVE RateInv /\ Gate!PreferredIsUsable
    OBVIOUS
  <2>1. starts \in Seq(Nat) /\ Len(starts) = 0 /\ recent = starts
    BY DEF Gate!Init
  <2>2. Drops(starts, 0)
    BY <2>1 DEF Drops
  <2>3. Gate!Live(starts) \in Seq(Nat) /\ Len(Gate!Live(starts)) = Len(starts) - 0
    BY <2>1, <2>2, LiveIs
  <2>4. Len(Gate!Live(starts)) = 0
    BY <2>1, <2>3
  <2>5. starts = Gate!Live(starts)
    BY <2>1, <2>3, <2>4, SameAges
  <2> QED BY <2>1, <2>5, GateFacts DEF Gate!Init, RateInv, Gate!PreferredIsUsable
<1>2. RateInv /\ Gate!PreferredIsUsable /\ [Gate!Next]_Gate!vars => RateInv' /\ Gate!PreferredIsUsable'
  BY RateInvStep, PreferredStep
<1>3. RateInv /\ Gate!PreferredIsUsable => StartsAreSound
  BY DEF RateInv, StartsAreSound, Gate!StartsAreSound, Gate!RateHonoured
<1> QED BY <1>1, <1>2, <1>3, GateMoves, PTL DEF EitherSpec
=============================================================================

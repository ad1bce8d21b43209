--------------------------- MODULE TransportGate ---------------------------
(***************************************************************************)
(* The QuickSync transport of collectors/tushare/tushare_common.py: the    *)
(* process-wide concurrency and rate gate, the DNS node state, and one     *)
(* provider call (_provider_urlopen) per thread, from asking for a lease   *)
(* to the read that returns it.                                            *)
(*                                                                         *)
(* Time is relative: deadlines, cooldowns and timed waits count down and   *)
(* the recorded request starts age, so behaviours need no horizon. The      *)
(* deadline of a call that is over and the wait of a thread that was woken *)
(* are of no account: they are 0.                                           *)
(* release() calls Condition.notify(): it wakes one parked thread, without *)
(* regard to whether that thread waits for a lease or for a rate slot.     *)
(***************************************************************************)
EXTENDS Naturals, Sequences, FiniteSets, SequencesExt

CONSTANTS
    Threads,          \* threads of one collector process
    Nodes,            \* addresses the canonical host can resolve to
    Snapshots,        \* DNS answers: non-empty sequences of Nodes
    NoNode,           \* "no last-known-good address"
    MaxConcurrency,   \* _QUICKSYNC_MAX_CONCURRENCY
    MaxRequests,      \* _QUICKSYNC_MAX_REQUESTS
    Window,           \* _QUICKSYNC_REQUEST_WINDOW_SECONDS, in ticks
    Timeout,          \* the one deadline of a call, in ticks
    Cooldown          \* _QUICKSYNC_NODE_COOLDOWN_SECONDS, in ticks

ASSUME GateConstants ==
    /\ IsFiniteSet(Threads)
    /\ MaxConcurrency \in Nat \ {0}
    /\ MaxRequests \in Nat \ {0}
    /\ Window \in Nat \ {0}
    /\ Timeout \in Nat
    /\ Cooldown \in Nat \ {0}
    /\ Snapshots \subseteq Seq(Nodes) \ {<<>>}
    /\ NoNode \notin Nodes

VARIABLES
    pc,          \* where each thread stands in its call
    remaining,   \* ticks left until the call's deadline
    wake,        \* ticks left in the timed wait the thread is parked in
    started,     \* lease._request_started
    nodesLeft,   \* addresses the call has still to try, the current one first
    inFlight,    \* gate._in_flight
    starts,      \* gate._request_starts, as ages, oldest first
    recent,      \* ages of the requests really put on the wire (ghost)
    lkg,         \* _QuickSyncNodeState._last_known_good
    cooldown     \* _QuickSyncNodeState._cooldowns: of the addresses cooling
                 \* down, the ticks left

gateVars == <<inFlight, starts, recent>>
nodeVars == <<lkg, cooldown>>
callVars == <<pc, remaining, wake, started, nodesLeft>>
vars == <<callVars, gateVars, nodeVars>>

Parked == {"admitWait", "markWait"}
Holding == {"resolve", "dial", "penalize", "mark", "markWait",
            "sent", "abort", "reading"}
Steps == {"idle", "admit", "admitWait"} \union Holding

\* The threads that own an unreleased lease.
Holders == {t \in Threads : pc[t] \in Holding}

Lesser(a, b) == IF a <= b THEN a ELSE b
Dec(n) == IF n = 0 THEN 0 ELSE n - 1
Aged(ages) == [i \in DOMAIN ages |-> Lesser(ages[i] + 1, Window)]

\* The loop of popleft: the oldest starts are dropped while they have left the
\* window.
Expired(ages) ==
    CHOOSE k \in 0..Len(ages) :
        /\ \A i \in 1..k : ages[i] >= Window
        /\ k < Len(ages) => ages[k + 1] < Window
Live(ages) == SubSeq(ages, Expired(ages) + 1, Len(ages))

\* A thread woken on the condition re-evaluates the loop it was parked in.
Resume(p) == IF p = "admitWait" THEN "admit" ELSE "mark"

TypeOK ==
    /\ pc \in [Threads -> Steps]
    /\ remaining \in [Threads -> 0..Timeout]
    /\ wake \in [Threads -> Nat]
    /\ started \in [Threads -> BOOLEAN]
    /\ nodesLeft \in [Threads -> Seq(Nodes)]
    /\ inFlight \in Nat
    /\ starts \in Seq(Nat)
    /\ recent \in Seq(Nat)
    /\ lkg \in Nodes \union {NoNode}
    /\ cooldown \in UNION {[cooling -> 1..Cooldown] : cooling \in SUBSET Nodes}

Init ==
    /\ pc = [t \in Threads |-> "idle"]
    /\ remaining = [t \in Threads |-> 0]
    /\ wake = [t \in Threads |-> 0]
    /\ started = [t \in Threads |-> FALSE]
    /\ nodesLeft = [t \in Threads |-> <<>>]
    /\ inFlight = 0
    /\ starts = <<>>
    /\ recent = <<>>
    /\ lkg = NoNode
    /\ cooldown = [n \in {} |-> 0]

-----------------------------------------------------------------------------
(* The gate: acquire_until, mark_request_started_until, release.           *)

\* The threads asleep on the gate's condition.
Sleepers == {t \in Threads : pc[t] \in Parked}

\* Park t until it is notified or `ticks' have passed.
Park(t, as, ticks) ==
    /\ pc' = [pc EXCEPT ![t] = as]
    /\ wake' = [wake EXCEPT ![t] = ticks]

\* release(): free the slot and notify one sleeper, if any; the call is over.
Release(t) ==
    /\ inFlight' = inFlight - 1
    /\ \/ /\ Sleepers = {}
          /\ pc' = [pc EXCEPT ![t] = "idle"]
          /\ UNCHANGED wake
       \/ \E u \in Sleepers :
             /\ pc' = [pc EXCEPT ![t] = "idle", ![u] = Resume(pc[u])]
             /\ wake' = [wake EXCEPT ![u] = 0]
    /\ remaining' = [remaining EXCEPT ![t] = 0]
    /\ started' = [started EXCEPT ![t] = FALSE]
    /\ nodesLeft' = [nodesLeft EXCEPT ![t] = <<>>]
    /\ UNCHANGED <<starts, recent>>

Begin(t) ==
    /\ pc[t] = "idle"
    /\ pc' = [pc EXCEPT ![t] = "admit"]
    /\ remaining' = [remaining EXCEPT ![t] = Timeout]
    /\ UNCHANGED <<wake, started, nodesLeft, gateVars, nodeVars>>

\* A free slot is taken even when the deadline has just passed.
Admit(t) ==
    /\ pc[t] = "admit"
    /\ inFlight < MaxConcurrency
    /\ inFlight' = inFlight + 1
    /\ pc' = [pc EXCEPT ![t] = "resolve"]
    /\ UNCHANGED <<remaining, wake, started, nodesLeft, starts, recent, nodeVars>>

\* Fault: the admission loop never looks at the deadline.
AdmitBlockedForever(t) ==
    /\ pc[t] = "admit"
    /\ inFlight >= MaxConcurrency
    /\ Park(t, "admitWait", remaining[t])
    /\ UNCHANGED <<remaining, started, nodesLeft, inFlight, starts, recent, nodeVars>>

AdmitBlocked(t) ==
    /\ pc[t] = "admit"
    /\ inFlight >= MaxConcurrency
    /\ \/ /\ remaining[t] = 0
          /\ pc' = [pc EXCEPT ![t] = "idle"]
          /\ UNCHANGED wake
       \/ /\ remaining[t] > 0
          /\ Park(t, "admitWait", remaining[t])
    /\ UNCHANGED <<remaining, started, nodesLeft, inFlight, starts, recent, nodeVars>>

\* Condition.wait(timeout) returns on its own when the timeout elapses.
WaitElapsed(t) ==
    /\ pc[t] \in Parked
    /\ wake[t] = 0
    /\ pc' = [pc EXCEPT ![t] = Resume(pc[t])]
    /\ UNCHANGED <<remaining, wake, started, nodesLeft, gateVars, nodeVars>>

-----------------------------------------------------------------------------
(* Node state: ordered, record_success, record_pre_send_failure.           *)

Ordered(snapshot) ==
    LET alive == SelectSeq(snapshot, LAMBDA n : n \notin DOMAIN cooldown)
        candidates == IF alive = <<>> THEN snapshot ELSE alive
    IN  IF lkg \in ToSet(candidates)
        THEN <<lkg>> \o SelectSeq(candidates, LAMBDA n : n # lkg)
        ELSE candidates

RecordSuccess(n) ==
    /\ lkg' = n
    /\ cooldown' = [m \in DOMAIN cooldown \ {n} |-> cooldown[m]]

\* Fault: a failed address stays the preferred one.
RecordPreSendFailureKeepsPreferred(n) ==
    /\ cooldown' = [m \in DOMAIN cooldown \union {n} |->
                        IF m = n THEN Cooldown ELSE cooldown[m]]
    /\ lkg' = lkg

RecordPreSendFailure(n) ==
    /\ cooldown' = [m \in DOMAIN cooldown \union {n} |->
                        IF m = n THEN Cooldown ELSE cooldown[m]]
    /\ lkg' = IF lkg = n THEN NoNode ELSE lkg

-----------------------------------------------------------------------------
(* One provider call: _provider_urlopen and the managed response.          *)

\* Fault: an exception leaves the node loop without releasing the lease.
FailLeaksLease(t) ==
    /\ pc' = [pc EXCEPT ![t] = "idle"]
    /\ started' = [started EXCEPT ![t] = FALSE]
    /\ nodesLeft' = [nodesLeft EXCEPT ![t] = <<>>]
    /\ UNCHANGED <<remaining, wake, gateVars, nodeVars>>

\* An exception that leaves the node loop: the lease is released.
Fail(t) == Release(t) /\ UNCHANGED nodeVars

\* DNS resolution under the deadline, then the node order of the moment.
Resolve(t) ==
    /\ pc[t] = "resolve"
    /\ \/ Fail(t)
       \/ \E snapshot \in Snapshots :
             /\ remaining[t] > 0
             /\ pc' = [pc EXCEPT ![t] = "dial"]
             /\ nodesLeft' = [nodesLeft EXCEPT ![t] = Ordered(snapshot)]
             /\ UNCHANGED <<remaining, wake, started, gateVars, nodeVars>>

\* Connect to the next address and complete TLS, or give the address up.
Dial(t) ==
    /\ pc[t] = "dial"
    /\ IF nodesLeft[t] = <<>> \/ remaining[t] = 0
       THEN Fail(t)
       ELSE /\ \E p \in {"mark", "penalize"} : pc' = [pc EXCEPT ![t] = p]
            /\ UNCHANGED <<remaining, wake, started, nodesLeft, gateVars, nodeVars>>

\* Failover: only reached while no request byte has been sent.
Penalize(t) ==
    /\ pc[t] = "penalize"
    /\ RecordPreSendFailure(Head(nodesLeft[t]))
    /\ nodesLeft' = [nodesLeft EXCEPT ![t] = Tail(@)]
    /\ pc' = [pc EXCEPT ![t] = "dial"]
    /\ UNCHANGED <<remaining, wake, started, gateVars>>

\* Fault: the window admits one start too many.
MarkStartedOffByOne(t) ==
    /\ pc[t] = "mark"
    /\ remaining[t] > 0
    /\ Len(Live(starts)) <= MaxRequests
    /\ starts' = Append(Live(starts), 0)
    /\ recent' = Append(recent, 0)
    /\ started' = [started EXCEPT ![t] = TRUE]
    /\ pc' = [pc EXCEPT ![t] = "sent"]
    /\ UNCHANGED <<remaining, wake, nodesLeft, inFlight, nodeVars>>

\* A rate slot: the request start is recorded and the first byte goes out.
MarkStarted(t) ==
    /\ pc[t] = "mark"
    /\ remaining[t] > 0
    /\ Len(Live(starts)) < MaxRequests
    /\ starts' = Append(Live(starts), 0)
    /\ recent' = Append(recent, 0)
    /\ started' = [started EXCEPT ![t] = TRUE]
    /\ pc' = [pc EXCEPT ![t] = "sent"]
    /\ UNCHANGED <<remaining, wake, nodesLeft, inFlight, nodeVars>>

\* The window is full: wait for its oldest start to expire, or the deadline.
MarkBlocked(t) ==
    /\ pc[t] = "mark"
    /\ remaining[t] > 0
    /\ Len(Live(starts)) >= MaxRequests
    /\ starts' = Live(starts)
    /\ Park(t, "markWait", Lesser(remaining[t], Window - Head(Live(starts))))
    /\ UNCHANGED <<remaining, started, nodesLeft, inFlight, recent, nodeVars>>

\* Past the deadline: a full window is a rate-limit error of the gate and
\* blames no address; otherwise the TLS-proven address is recorded good and
\* then penalised as a pre-send failure.
MarkExpired(t) ==
    /\ pc[t] = "mark"
    /\ remaining[t] = 0
    /\ IF Len(Live(starts)) >= MaxRequests
       THEN Fail(t)
       ELSE /\ RecordSuccess(Head(nodesLeft[t]))
            /\ pc' = [pc EXCEPT ![t] = "penalize"]
            /\ UNCHANGED <<remaining, wake, started, nodesLeft, gateVars>>

\* Fault: an error after the send also fails over to the next address.
RespondFailsOver(t) ==
    /\ pc[t] = "sent"
    /\ RecordSuccess(Head(nodesLeft[t]))
    /\ \/ remaining[t] > 0 /\ pc' = [pc EXCEPT ![t] = "reading"]
       \/ pc' = [pc EXCEPT ![t] = "penalize"]
    /\ UNCHANGED <<remaining, wake, started, nodesLeft, gateVars>>

\* The response headers arrive, or the exchange fails after the send; either
\* way the address spoke TLS and is recorded good.
Respond(t) ==
    /\ pc[t] = "sent"
    /\ RecordSuccess(Head(nodesLeft[t]))
    /\ \/ remaining[t] > 0 /\ pc' = [pc EXCEPT ![t] = "reading"]
       \/ pc' = [pc EXCEPT ![t] = "abort"]
    /\ UNCHANGED <<remaining, wake, started, nodesLeft, gateVars>>

\* The error propagates, or the bounded body read ends: the lease is returned.
Finish(t) ==
    /\ pc[t] \in {"abort", "reading"}
    /\ Fail(t)

\* One tick of the monotonic clock.
Tick ==
    /\ remaining' = [t \in Threads |-> Dec(remaining[t])]
    /\ wake' = [t \in Threads |-> Dec(wake[t])]
    /\ starts' = Aged(starts)
    /\ recent' = Live(Aged(recent))
    /\ cooldown' = [n \in {m \in DOMAIN cooldown : cooldown[m] > 1} |-> cooldown[n] - 1]
    /\ UNCHANGED <<pc, started, nodesLeft, inFlight, lkg>>

Step(t) ==
    \/ Admit(t) \/ AdmitBlocked(t) \/ WaitElapsed(t)
    \/ Resolve(t) \/ Dial(t) \/ Penalize(t)
    \/ MarkStarted(t) \/ MarkBlocked(t) \/ MarkExpired(t)
    \/ Respond(t) \/ Finish(t)

Next ==
    \/ \E t \in Threads : Begin(t) \/ Step(t)
    \/ Tick

Spec == Init /\ [][Next]_vars

\* A thread that can run is scheduled, sockets honour their timeouts, and
\* time passes; no caller is obliged to issue a call.
FairSpec == Spec /\ WF_vars(Tick) /\ \A t \in Threads : WF_vars(Step(t))

-----------------------------------------------------------------------------
(* Properties.                                                             *)

\* The gate's counter is exactly the number of unreleased leases, and never
\* exceeds the concurrency limit: no exit of a call leaks a lease or returns
\* one twice.
LeaseConservation ==
    /\ inFlight = Cardinality(Holders)
    /\ inFlight <= MaxConcurrency

\* No window of `Window' ticks contains more than MaxRequests request starts.
RateHonoured == Len(recent) <= MaxRequests

\* The preferred address is never one that is cooling down, whatever the
\* order in which concurrent calls report on their addresses.
PreferredIsUsable == lkg # NoNode => lkg \notin DOMAIN cooldown

\* What a request that is about to start goes by: the rate of the account and
\* the address that is preferred.
StartsAreSound == RateHonoured /\ PreferredIsUsable

\* Once a request byte is on the wire the call neither changes address nor
\* sends again: a provider request is never replayed by failover.
NoReplay ==
    [][\A t \in Threads : started[t] =>
          \/ pc'[t] = "idle"
          \/ /\ nodesLeft'[t] = nodesLeft[t]
             /\ started'[t]
             /\ pc'[t] \in {"sent", "abort", "reading"}]_vars

\* Every call ends, with or without a response, and so returns its lease:
\* again and again each thread is out of any call.
EveryCallEnds == \A t \in Threads : []<>(pc[t] = "idle")
=============================================================================

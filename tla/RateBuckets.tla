----------------------------- MODULE RateBuckets -----------------------------
(***************************************************************************)
(* The rates of the account plane (public-web/worker/email-identity.js,     *)
(* takeRate, takeCoupledRates and pruneExpired; account-continuity.js,      *)
(* rate): rows of one table that count the requests of a fixed window.      *)
(*                                                                         *)
(* A request reads the clock when it begins; its statements come later, and *)
(* in between others take from the same buckets or delete rows that have    *)
(* expired. A request of one of the callers takes from the bucket all share *)
(* and from its caller's own, or from its caller's alone.                   *)
(***************************************************************************)
EXTENDS Integers, FiniteSets

CONSTANTS
    Callers,
    Shared,      \* the key of the bucket all callers share
    Requests,
    Limit,       \* of each key
    Window,      \* of each key, in ticks
    LastTime     \* bound of the clock

BucketAssumption ==
    /\ Shared \notin Callers /\ LastTime \in Nat
    /\ Limit \in [Callers \cup {Shared} -> Nat \ {0}]
    /\ Window \in [Callers \cup {Shared} -> Nat \ {0}]

VARIABLES
    hits,        \* identity_rate_buckets: 0 is no row
    request,
    granted,     \* history: what the requests that were let in took
    clock

vars == <<hits, request, granted, clock>>

BucketKeys == Callers \cup {Shared}
Times == 0..LastTime
Idle == [at |-> "idle"]

(* rateBucket *)
Start(k, time) == (time \div Window[k]) * Window[k]
Expires(k, start) == start + Window[k]
Bucket(k, time) == <<k, Start(k, time)>>

Buckets == {Bucket(k, t) : k \in BucketKeys, t \in Times}

Init ==
    /\ hits = [b \in Buckets |-> 0] /\ granted = hits
    /\ request = [r \in Requests |-> Idle]
    /\ clock = 0

Ask(r, keys) ==
    /\ request[r] = Idle
    /\ request' = [request EXCEPT ![r] = [at |-> "asked", keys |-> keys, time |-> clock]]
    /\ UNCHANGED <<hits, granted, clock>>

Counted(h, buckets) == [b \in Buckets |-> IF b \in buckets THEN h[b] + 1 ELSE h[b]]

Room(b) == hits[b] < Limit[b[1]]

(* Fault: one statement for each bucket, the shared one first.              *)
TakeFault(r) ==
    /\ request[r].at = "asked"
    /\ LET wanted == {Bucket(k, request[r].time) : k \in request[r].keys}
           shared == {b \in wanted : b[1] = Shared}
       IN  /\ hits' = IF \E b \in shared : ~Room(b) THEN hits
                      ELSE Counted(hits, shared \cup {b \in wanted : Room(b)})
           /\ granted' = IF \A b \in wanted : Room(b) THEN Counted(granted, wanted) ELSE granted
    /\ request' = [request EXCEPT ![r].at = "taken"]
    /\ UNCHANGED clock

(* takeRate, or takeCoupledRates: one statement counts in every bucket that *)
(* is asked for, or in none. Rows that are not there begin.                 *)
Take(r) ==
    /\ request[r].at = "asked"
    /\ LET wanted == {Bucket(k, request[r].time) : k \in request[r].keys}
       IN  IF \A b \in wanted : Room(b)
           THEN hits' = Counted(hits, wanted) /\ granted' = Counted(granted, wanted)
           ELSE UNCHANGED <<hits, granted>>
    /\ request' = [request EXCEPT ![r].at = "taken"]
    /\ UNCHANGED clock

(* Fault: what expires within the window goes too.                          *)
PruneFault(r) ==
    /\ request[r].at = "taken"
    /\ hits' = [b \in Buckets |->
                   IF Expires(b[1], b[2]) <= request[r].time + 1 THEN 0 ELSE hits[b]]
    /\ request' = [request EXCEPT ![r] = Idle]
    /\ UNCHANGED <<granted, clock>>

(* pruneExpired, by a request that was let in, or the hourly run.           *)
Prune(r) ==
    /\ request[r].at = "taken"
    /\ hits' = [b \in Buckets |->
                   IF Expires(b[1], b[2]) <= request[r].time THEN 0 ELSE hits[b]]
    /\ request' = [request EXCEPT ![r] = Idle]
    /\ UNCHANGED <<granted, clock>>

(* It goes on without, or ends anywhere. *)
Leave(r) ==
    /\ request[r] # Idle
    /\ request' = [request EXCEPT ![r] = Idle]
    /\ UNCHANGED <<hits, granted, clock>>

Tick ==
    /\ clock < LastTime
    /\ clock' = clock + 1
    /\ UNCHANGED <<hits, request, granted>>

Next ==
    \/ Tick
    \/ \E r \in Requests :
          \/ \E c \in Callers : Ask(r, {c}) \/ Ask(r, {Shared, c})
          \/ Take(r) \/ Prune(r) \/ Leave(r)

Spec == Init /\ [][Next]_vars

-----------------------------------------------------------------------------
(* Properties *)

(* Until a window is over its rows count exactly the requests that were let *)
(* in, never more than the limit, although other requests delete expired    *)
(* rows at a time they read earlier; and a request that is refused for one  *)
(* bucket has not taken from the other (email-identity.js:70-72). (A        *)
(* request that is served after its own window may find its row deleted,    *)
(* and be let in beyond the limit of a window that is over.)                *)
RatesCountTheAdmitted ==
    \A b \in Buckets :
        clock < Expires(b[1], b[2]) => hits[b] = granted[b] /\ granted[b] <= Limit[b[1]]
=============================================================================

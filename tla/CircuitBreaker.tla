--------------------------- MODULE CircuitBreaker ---------------------------
(***************************************************************************)
(* The counters of the circuit breaker for one endpoint: a ring of         *)
(* buckets, one per second, that worker goroutines update without a lock   *)
(* (UnixAggregation.Record), and the Flush that adds what the buckets      *)
(* hold to the hour and minute hashes in Redis.                            *)
(*                                                                         *)
(* A step is one atomic load, store, add or compare-and-swap.  An event is *)
(* one call of Record.  A counter is the set of events it has counted: a   *)
(* Store forgets the others, an Add adds one.                              *)
(***************************************************************************)
EXTENDS Integers, FiniteSets

CONSTANTS
    Events,             \* calls of Record
    Kind,               \* event -> "success" or "error"
    Size,               \* buckets of the ring (60)
    MinuteLen, HourLen, \* seconds of the units
    StartTime,          \* when the recorder is made
    MaxTime,            \* bound on the clock
    MaxFaults           \* bound on pipelines that fail

Kinds == {"success", "error"}
Units == {"hour", "minute"}
Length(u) == IF u = "hour" THEN HourLen ELSE MinuteLen
Slots == 0 .. Size - 1
Times == StartTime .. MaxTime
updating == -1

ASSUME CircuitBreakerAssumption ==
    /\ Kind \in [Events -> Kinds]
    /\ Size \in Nat \ {0}
    /\ MinuteLen \in Nat \ {0} /\ HourLen \in Nat \ {0}
    /\ StartTime \in Nat \ {0} /\ MaxTime \in Nat /\ StartTime <= MaxTime
    /\ MaxFaults \in Nat

VARIABLES
    now,
    unix,               \* slot -> its second, or updating
    count,              \* slot -> kind -> the events counted
    pc,                 \* event -> the next step of its Record
    ts,                 \* event -> its second
    seen,               \* event -> the second that its compare-and-swap expects
    lastSync,
    fpc,                \* the next step of Flush
    window,             \* the seconds it covers
    unit, slot,         \* where its Aggregate stands
    snap,               \* the Snapshot being read
    data,               \* what it will add: [unit, key, event]
    redis,              \* unit -> event -> key -> how often it was counted
    faults,
    \* history
    prompt,             \* events whose Record ended within their second
    repeated,           \* events in a pipeline that failed
    wrapped             \* the ring came round on a Flush or Record under way

ring == <<unix, count>>
recorders == <<pc, ts, seen>>
flush == <<fpc, window, unit, slot, snap, data>>
hist == <<prompt, repeated, wrapped>>
vars == <<now, ring, recorders, lastSync, flush, redis, faults, hist>>

Bucket(t) == t % Size
KeyOf(u, t) == t - (t % Length(u))
Keys == 0 .. MaxTime
NoSnap == [start |-> 0, success |-> {}, error |-> {}]
NoWindow == [from |-> 1, to |-> 0]

Init ==
    /\ now = StartTime
    /\ unix = [s \in Slots |-> 0]
    /\ count = [s \in Slots |-> [k \in Kinds |-> {}]]
    /\ pc = [e \in Events |-> "new"]
    /\ ts = [e \in Events |-> 0]
    /\ seen = [e \in Events |-> 0]
    /\ lastSync = 0
    /\ fpc = "idle" /\ window = NoWindow
    /\ unit = "hour" /\ slot = 0 /\ snap = NoSnap /\ data = {}
    /\ redis = [u \in Units |-> [e \in Events |-> [k \in Keys |-> 0]]]
    /\ faults = MaxFaults
    /\ prompt = {} /\ repeated = {} /\ wrapped = FALSE

-----------------------------------------------------------------------------
(* Record *)

\* The call, with the time of the clock.
Record(e) ==
    /\ pc[e] = "new"
    /\ pc' = [pc EXCEPT ![e] = "load"]
    /\ ts' = [ts EXCEPT ![e] = now]
    /\ UNCHANGED <<now, ring, seen, lastSync, flush, redis, faults, hist>>

Return(e) ==
    /\ pc' = [pc EXCEPT ![e] = "done"]
    /\ prompt' = IF now = ts[e] THEN prompt \cup {e} ELSE prompt
    /\ UNCHANGED <<repeated, wrapped>>

\* Load of the second: add, discard, or try to reset.
LoadUnix(e) ==
    LET u == unix[Bucket(ts[e])] IN
    /\ pc[e] = "load" /\ u # updating
    /\ seen' = [seen EXCEPT ![e] = IF u < ts[e] THEN u ELSE 0]
    /\ pc' = [pc EXCEPT ![e] = IF u = ts[e] THEN "add"
                               ELSE IF u > ts[e] THEN "done" ELSE "cas"]
    /\ UNCHANGED <<now, ring, ts, lastSync, flush, redis, faults, hist>>

Add(e) ==
    LET s == Bucket(ts[e]) IN
    /\ pc[e] = "add"
    /\ count' = [count EXCEPT ![s][Kind[e]] = @ \cup {e}]
    /\ Return(e)
    /\ UNCHANGED <<now, unix, ts, seen, lastSync, flush, redis, faults>>

CompareAndSwap(e) ==
    LET s == Bucket(ts[e]) IN
    /\ pc[e] = "cas"
    /\ IF unix[s] = seen[e]
         THEN /\ unix' = [unix EXCEPT ![s] = updating]
              /\ pc' = [pc EXCEPT ![e] = "success"]
         ELSE /\ pc' = [pc EXCEPT ![e] = "load"]
              /\ UNCHANGED unix
    /\ seen' = [seen EXCEPT ![e] = 0]
    /\ UNCHANGED <<now, count, ts, lastSync, flush, redis, faults, hist>>

\* Store of the counter k: the event, if it is of that kind.
Store(e, k, next) ==
    /\ pc[e] = k
    /\ pc' = [pc EXCEPT ![e] = next]
    /\ count' = [count EXCEPT ![Bucket(ts[e])][k] = {f \in {e} : Kind[f] = k}]
    /\ UNCHANGED <<now, unix, ts, seen, lastSync, flush, redis, faults, hist>>

StoreUnix(e) ==
    /\ pc[e] = "unix"
    /\ unix' = [unix EXCEPT ![Bucket(ts[e])] = ts[e]]
    /\ Return(e)
    /\ UNCHANGED <<now, count, ts, seen, lastSync, flush, redis, faults>>

RecordStep(e) ==
    \/ LoadUnix(e) \/ Add(e) \/ CompareAndSwap(e)
    \/ Store(e, "success", "error") \/ Store(e, "error", "unix")
    \/ StoreUnix(e)

-----------------------------------------------------------------------------
(* Flush, which holds flushMux to its end *)

\* Mutant: the current second is flushed too.
FlushToNow ==
    /\ fpc = "idle"
    /\ window' = [from |-> lastSync + 1, to |-> now]
    /\ fpc' = "start"
    /\ UNCHANGED <<now, ring, recorders, lastSync, unit, slot, snap, data, redis,
                   faults, hist>>

Flush ==
    /\ fpc = "idle"
    /\ window' = [from |-> lastSync + 1, to |-> now - 1]
    /\ fpc' = "start"
    /\ UNCHANGED <<now, ring, recorders, lastSync, unit, slot, snap, data, redis,
                   faults, hist>>

\* Snapshot: three loads.
SnapStart ==
    /\ fpc = "start" /\ unix[slot] # updating
    /\ snap' = [NoSnap EXCEPT !.start = unix[slot]]
    /\ fpc' = "success"
    /\ UNCHANGED <<now, ring, recorders, lastSync, window, unit, slot, data,
                   redis, faults, hist>>

SnapSuccess ==
    /\ fpc = "success"
    /\ snap' = [snap EXCEPT !.success = count[slot]["success"]]
    /\ fpc' = "error"
    /\ UNCHANGED <<now, ring, recorders, lastSync, window, unit, slot, data,
                   redis, faults, hist>>

SnapError ==
    /\ fpc = "error"
    /\ snap' = [snap EXCEPT !.error = count[slot]["error"]]
    /\ fpc' = "aggregate"
    /\ UNCHANGED <<now, ring, recorders, lastSync, window, unit, slot, data,
                   redis, faults, hist>>

Covered(t) == window.from <= t /\ t <= window.to
SnapEvents == snap.success \cup snap.error

\* Mutant: the second Aggregate goes on where the first one ended.
AggregateRunsOn ==
    /\ fpc = "aggregate" /\ fpc' = "start"
    /\ slot' = slot + 1
    /\ UNCHANGED <<now, ring, recorders, lastSync, window, unit, snap, data, redis,
                   faults, hist>>

\* The snapshot goes to its key; on to the next bucket, or the next unit.
Aggregate ==
    /\ fpc = "aggregate"
    /\ data' = IF Covered(snap.start)
                 THEN data \cup [unit : {unit}, key : {KeyOf(unit, snap.start)},
                                 event : SnapEvents]
                 ELSE data
    /\ snap' = NoSnap
    /\ slot' = (slot + 1) % Size
    /\ IF slot < Size - 1   THEN fpc' = "start" /\ UNCHANGED unit
       ELSE IF unit = "hour" THEN fpc' = "start" /\ unit' = "minute"
                             ELSE fpc' = "exec" /\ UNCHANGED unit
    /\ UNCHANGED <<now, ring, recorders, lastSync, window, redis, faults, hist>>

\* HINCRBY of the counts in D.
Increment(D) ==
    redis' = [u \in Units |-> [e \in Events |-> [k \in Keys |->
        redis[u][e][k] + Cardinality({d \in D : d = [unit |-> u, key |-> k, event |-> e]})]]]

\* Flush returns.
FlushReturns ==
    /\ fpc = "exec" /\ fpc' = "idle"
    /\ window' = NoWindow /\ unit' = "hour" /\ data' = {}
    /\ UNCHANGED <<slot, snap>>

\* Mutant: the time of the last sync is kept.
ExecNoSync ==
    /\ FlushReturns
    /\ Increment(data)
    /\ UNCHANGED <<now, ring, recorders, lastSync, faults, hist>>

Exec ==
    /\ FlushReturns
    /\ Increment(data)
    /\ lastSync' = window.to
    /\ UNCHANGED <<now, ring, recorders, faults, hist>>

\* The HINCRBY command that d is part of.
Command(d) == <<d.unit, d.key, Kind[d.event]>>

\* Some of the commands take effect, and the error ends the Flush.
ExecFails ==
    /\ FlushReturns /\ data # {}
    /\ faults > 0 /\ faults' = faults - 1
    /\ \E C \in SUBSET {Command(d) : d \in data} :
        Increment({d \in data : Command(d) \in C})
    /\ repeated' = repeated \cup {d.event : d \in data}
    /\ UNCHANGED <<now, ring, recorders, lastSync, prompt, wrapped>>

FlushStep ==
    SnapStart \/ SnapSuccess \/ SnapError \/ Aggregate \/ Exec

-----------------------------------------------------------------------------
\* The first second that no flush has covered.
Oldest == IF lastSync = 0 THEN StartTime ELSE lastSync + 1

\* A second passes.  The ring comes round on whatever has not been flushed, and
\* on a Record that is not over, when its bucket's next second begins.
Behind(t) ==
    \/ t >= Oldest + Size
    \/ \E e \in Events : pc[e] \notin {"new", "done"} /\ t >= ts[e] + Size

Tick ==
    /\ now < MaxTime
    /\ now' = now + 1
    /\ wrapped' = (wrapped \/ Behind(now + 1))
    /\ UNCHANGED <<ring, recorders, lastSync, flush, redis, faults, prompt, repeated>>

Next ==
    \/ Tick
    \/ \E e \in Events : Record(e) \/ RecordStep(e)
    \/ Flush \/ FlushStep \/ ExecFails

Spec == Init /\ [][Next]_vars

-----------------------------------------------------------------------------
(* Properties *)

TypeOK ==
    /\ now \in Times
    /\ unix \in [Slots -> Times \cup {0, updating}]
    /\ count \in [Slots -> [Kinds -> SUBSET Events]]
    /\ pc \in [Events -> {"new", "load", "add", "cas", "success", "error", "unix", "done"}]
    /\ ts \in [Events -> Times \cup {0}]
    /\ seen \in [Events -> Times \cup {0}]
    /\ lastSync \in 0 .. MaxTime
    /\ fpc \in {"idle", "start", "success", "error", "aggregate", "exec"}
    /\ window \in [from : Nat, to : 0 .. MaxTime]
    /\ unit \in Units /\ slot \in Slots
    /\ snap \in [start : Times \cup {0}, success : SUBSET Events, error : SUBSET Events]
    /\ data \subseteq [unit : Units, key : Keys, event : Events]
    /\ redis \in [Units -> [Events -> [Keys -> Nat]]]
    /\ faults \in 0 .. MaxFaults
    /\ prompt \subseteq Events /\ repeated \subseteq Events
    /\ wrapped \in BOOLEAN

\* The ring is large enough and the lock-free reset right: as long as a flush
\* comes within one turn of the ring, no event is counted in Redis twice, or
\* under another minute or hour than its own, though buckets are reset while
\* others add to them and while they are read.  Only a pipeline that failed may
\* be counted again.
CountedOnce ==
    wrapped \/ \A u \in Units : \A e \in Events \ repeated : \A k \in Keys :
        redis[u][e][k] <= IF k = KeyOf(u, ts[e]) THEN 1 ELSE 0

\* Nothing falls between two flushes: an event recorded within its second is in
\* both hashes once a flush has passed that second (it leaves out the current
\* one, and the next flush starts where it ended).
SyncedIsCounted ==
    wrapped \/ \A u \in Units : \A e \in prompt :
        ts[e] <= lastSync => redis[u][e][KeyOf(u, ts[e])] > 0

-----------------------------------------------------------------------------
(* The inductive invariant *)

Active(e) == pc[e] \notin {"new", "done"}
Resetting(e) == pc[e] \in {"success", "error", "unix"}

\* Events and flushes are of the past, and a flush starts at the first bucket.
ClockIsAhead ==
    /\ lastSync < now
    /\ \A e \in Events : pc[e] # "new" => StartTime <= ts[e] /\ ts[e] <= now
    /\ \A e \in prompt : pc[e] = "done"
    /\ fpc # "idle" => /\ window.from = lastSync + 1
                       /\ lastSync <= window.to /\ StartTime - 1 <= window.to /\ window.to < now
    /\ fpc = "idle" => unit = "hour" /\ data = {}
    /\ fpc = "exec" => unit = "minute"
    /\ fpc \in {"idle", "exec"} => slot = 0

\* The ring has not come round on what is not flushed, nor on a Record.
RingIsLarge ==
    /\ now < Oldest + Size
    /\ \A e \in Events : Active(e) => now < ts[e] + Size

\* A bucket is reset by one Record at a time, and nobody adds to it meanwhile.
ResetIsExclusive ==
    /\ \A s \in Slots : unix[s] > 0 => Bucket(unix[s]) = s /\ unix[s] <= now
    /\ \A e \in Events :
          /\ Resetting(e) => unix[Bucket(ts[e])] = updating
          /\ pc[e] = "add" => unix[Bucket(ts[e])] = ts[e]
          /\ pc[e] = "cas" => seen[e] < ts[e]
    /\ \A e, f \in Events :
          Resetting(e) /\ Resetting(f) /\ Bucket(ts[e]) = Bucket(ts[f]) => e = f

\* A bucket that is not being reset has counted events of its second only, and all
\* of them while that second is not flushed; what is reset is reset to its event.
BucketsAreOfTheirSecond ==
    /\ \A s \in Slots : unix[s] # updating =>
          \A k \in Kinds : \A e \in count[s][k] : ts[e] = unix[s] /\ pc[e] = "done"
    /\ \A e \in Events :
          LET c == count[Bucket(ts[e])] IN
          /\ pc[e] \in {"error", "unix"} => c["success"] = {f \in {e} : Kind[f] = "success"}
          /\ pc[e] = "unix" => c["error"] = {f \in {e} : Kind[f] = "error"}
          /\ pc[e] = "done" /\ Oldest <= ts[e] =>
                unix[Bucket(ts[e])] = ts[e] /\ e \in c[Kind[e]]

Reading == fpc \in {"success", "error", "aggregate"}

\* A snapshot that will be used is of one second, and data is of the window and
\* under its keys.
SnapshotsAreClean ==
    /\ Reading /\ Covered(snap.start) =>
          /\ unix[slot] = snap.start
          /\ \A e \in SnapEvents : ts[e] = snap.start /\ pc[e] = "done"
    /\ \A d \in data :
          /\ Covered(ts[d.event]) /\ pc[d.event] = "done"
          /\ d.key = KeyOf(d.unit, ts[d.event])

\* The walk of the unit u has passed the bucket s.
Passed(u, s) ==
    \/ fpc = "exec" \/ (unit = "minute" /\ u = "hour")
    \/ u = unit /\ s < slot

\* No event that was there when the flush began is left out.
SnapshotsAreComplete ==
    \A e \in prompt : fpc # "idle" /\ Covered(ts[e]) =>
        /\ \A u \in Units : Passed(u, Bucket(ts[e])) =>
              [unit |-> u, key |-> KeyOf(u, ts[e]), event |-> e] \in data
        /\ Reading /\ slot = Bucket(ts[e]) =>
              /\ snap.start = ts[e]
              /\ fpc # "success" /\ Kind[e] = "success" => e \in snap.success
              /\ fpc = "aggregate" /\ Kind[e] = "error" => e \in snap.error

\* An event that no flush has covered is not in Redis.
OpenIsUncounted ==
    \A e \in Events \ repeated : pc[e] = "new" \/ ts[e] > lastSync =>
        \A u \in Units : \A k \in Keys : redis[u][e][k] = 0

IndInv ==
    /\ TypeOK /\ ClockIsAhead
    /\ wrapped \/ /\ RingIsLarge /\ ResetIsExclusive /\ BucketsAreOfTheirSecond
                  /\ SnapshotsAreClean /\ SnapshotsAreComplete /\ OpenIsUncounted
                  /\ CountedOnce /\ SyncedIsCounted
=============================================================================

------------------------ MODULE CircuitBreakerProofs ------------------------
(***************************************************************************)
(* Proofs about CircuitBreaker: as long as a flush comes within one turn   *)
(* of the ring, every event is counted in Redis once and under its key,    *)
(* for any number of events and failures, and all sizes of ring and units. *)
(***************************************************************************)
EXTENDS CircuitBreaker, FiniteSetTheorems, TLAPS

-----------------------------------------------------------------------------
(* Buckets and keys *)

\* Division with remainder.
LEMMA Division ==
  ASSUME NEW a \in Int, NEW n \in Int, n > 0
  PROVE  /\ a = (a \div n) * n + (a % n) /\ a % n \in 0 .. n - 1
         /\ a \div n \in Int /\ (a >= 0 => a \div n >= 0)
  <1>1. a = (a \div n) * n + (a % n)
    BY SMTT(30)
  <1>2. a % n \in 0 .. n - 1 /\ a \div n \in Int
    OBVIOUS
  <1>3. a >= 0 => a \div n >= 0
    OBVIOUS
  <1> QED
    BY <1>1, <1>2, <1>3

\* Every second has a bucket.
LEMMA BucketType ==
  ASSUME NEW t \in Nat
  PROVE  Bucket(t) \in Slots
  BY CircuitBreakerAssumption, Division DEF Bucket, Slots

\* Two seconds with the same bucket are a turn of the ring apart.
LEMMA BucketGap ==
  ASSUME NEW a \in Nat, NEW b \in Nat, a < b, Bucket(a) = Bucket(b)
  PROVE  a + Size <= b
  <1>0. Size \in Int /\ Size > 0
    BY CircuitBreakerAssumption
  <1>1. PICK q \in Int, r \in Int : q = a \div Size /\ r = b \div Size
    BY <1>0, Division
  <1>2. a = q * Size + (a % Size) /\ b = r * Size + (b % Size) /\ a % Size \in Int
    BY <1>0, <1>1, Division
  <1>3. b - a = (r - q) * Size
    BY <1>0, <1>2 DEF Bucket
  <1>4. r - q >= 1
    BY <1>0, <1>3
  <1>5. (r - q) * Size >= Size
    BY <1>0, <1>4
  <1> QED
    BY <1>0, <1>3, <1>5

\* The key of a second is a second.
LEMMA KeyType ==
  ASSUME NEW u \in Units, NEW t \in 0 .. MaxTime
  PROVE  KeyOf(u, t) \in Keys
  <1>0. Length(u) \in Int /\ Length(u) > 0 /\ MaxTime \in Nat
    BY CircuitBreakerAssumption DEF Length, Units
  <1>a. t \in Int /\ t >= 0 /\ t <= MaxTime
    BY <1>0
  <1>1. PICK q \in Int : q = t \div Length(u)
    BY <1>0, <1>a, Division
  <1>2. t = q * Length(u) + (t % Length(u)) /\ q >= 0 /\ t % Length(u) \in 0 .. Length(u) - 1
    BY <1>0, <1>1, <1>a, Division
  <1>3. q * Length(u) >= 0
    BY <1>0, <1>2
  <1> QED
    BY <1>0, <1>2, <1>3, <1>a DEF KeyOf, Keys

\* An increment counts an event once.
LEMMA CountOne ==
  ASSUME NEW D, NEW x
  PROVE  Cardinality({d \in D : d = x}) = IF x \in D THEN 1 ELSE 0
  <1>1. CASE x \in D
    <2>1. {d \in D : d = x} = {x}
      BY <1>1
    <2> QED
      BY <1>1, <2>1, FS_Singleton
  <1>2. CASE x \notin D
    <2>1. {d \in D : d = x} = {}
      BY <1>2
    <2> QED
      BY <1>2, <2>1, FS_EmptySet
  <1> QED
    BY <1>1, <1>2

\* What the increments of D do to Redis.
LEMMA Incremented ==
  ASSUME NEW D, Increment(D), NEW u \in Units, NEW e \in Events, NEW k \in Keys
  PROVE  redis'[u][e][k] =
            redis[u][e][k] + IF [unit |-> u, key |-> k, event |-> e] \in D THEN 1 ELSE 0
  <1> DEFINE x == [unit |-> u, key |-> k, event |-> e]
  <1>1. redis'[u][e][k] = redis[u][e][k] + Cardinality({d \in D : d = x})
    BY DEF Increment
  <1>2. Cardinality({d \in D : d = x}) = IF x \in D THEN 1 ELSE 0
    BY CountOne
  <1> QED
    BY <1>1, <1>2

\* What is incremented stays a number.
LEMMA IncrementType ==
  ASSUME NEW D, Increment(D), redis \in [Units -> [Events -> [Keys -> Nat]]]
  PROVE  redis' \in [Units -> [Events -> [Keys -> Nat]]]
  <1>1. ASSUME NEW u \in Units, NEW e \in Events, NEW k \in Keys
        PROVE  redis[u][e][k]
                 + Cardinality({d \in D : d = [unit |-> u, key |-> k, event |-> e]}) \in Nat
    <2>1. redis[u][e][k] \in Nat
      OBVIOUS
    <2>2. Cardinality({d \in D : d = [unit |-> u, key |-> k, event |-> e]}) \in {0, 1}
      BY CountOne
    <2> QED
      BY <2>1, <2>2
  <1> QED
    BY <1>1 DEF Increment
-----------------------------------------------------------------------------
(* Types and the clock *)

\* Init satisfies the inductive invariant.
LEMMA Initially == Init => IndInv
  <1> SUFFICES ASSUME Init PROVE IndInv
    OBVIOUS
  <1> USE CircuitBreakerAssumption
  <1>1. wrapped \in BOOLEAN
    BY Zenon DEF Init
  <1>2. NoSnap \in [start : Times \cup {0}, success : SUBSET Events, error : SUBSET Events]
    BY DEF NoSnap
  <1>3. NoWindow \in [from : Nat, to : 0 .. MaxTime]
    BY DEF NoWindow
  <1>4. TypeOK
    BY <1>1, <1>2, <1>3 DEF Init, TypeOK, Times, Slots, Units
  <1>5. ClockIsAhead
    BY DEF Init, ClockIsAhead
  <1>6. RingIsLarge /\ ResetIsExclusive
    BY DEF Init, RingIsLarge, ResetIsExclusive, Oldest, Active, Resetting
  <1>7. BucketsAreOfTheirSecond
    BY DEF Init, BucketsAreOfTheirSecond
  <1>8. SnapshotsAreClean /\ SnapshotsAreComplete
    BY DEF Init, SnapshotsAreClean, SnapshotsAreComplete, Reading
  <1>9. OpenIsUncounted /\ CountedOnce /\ SyncedIsCounted
    BY DEF Init, OpenIsUncounted, CountedOnce, SyncedIsCounted
  <1> QED
    BY <1>4, <1>5, <1>6, <1>7, <1>8, <1>9, Zenon DEF IndInv

\* Only a second that passes makes the ring come round, for good.
LEMMA WrappedStep ==
  ASSUME TypeOK, [Next]_vars
  PROVE  wrapped' \in BOOLEAN /\ (wrapped => wrapped') /\ (Tick \/ wrapped' = wrapped)
  <1>1. CASE Tick
    BY <1>1, Zenon DEF Tick, TypeOK
  <1>2. CASE UNCHANGED wrapped
    BY <1>2, Zenon DEF TypeOK
  <1>3. Tick \/ UNCHANGED wrapped
    BY ZenonT(60) DEF Next, Record, RecordStep, LoadUnix, Add, CompareAndSwap, Store, StoreUnix, Return,
       Flush, FlushStep, SnapStart, SnapSuccess, SnapError, Aggregate, Exec, ExecFails, vars, hist
  <1> QED
    BY <1>1, <1>2, <1>3, Zenon

\* What a step of a Record leaves alone.
LEMMA RecordLeaves ==
  ASSUME NEW e \in Events, Record(e) \/ RecordStep(e)
  PROVE  UNCHANGED <<now, lastSync, fpc, window, unit, slot, snap, data, redis, faults,
                     repeated, wrapped>>
  BY ZenonT(60) DEF Record, RecordStep, LoadUnix, Add, CompareAndSwap, Store, StoreUnix, Return,
     flush, hist

\* The steps of the flush.
Flushes == Flush \/ FlushStep \/ ExecFails

\* What a step of the flush leaves alone.
LEMMA FlushLeaves ==
  ASSUME Flushes
  PROVE  UNCHANGED <<now, unix, count, pc, ts, seen, prompt, wrapped>>
  BY ZenonT(60) DEF Flushes, Flush, FlushStep, SnapStart, SnapSuccess, SnapError, Aggregate, Exec,
     ExecFails, ring, recorders, hist

\* Every step is one of these.
LEMMA Steps ==
  ASSUME [Next]_vars
  PROVE  \/ Tick \/ Flushes \/ UNCHANGED vars
         \/ \E e \in Events : Record(e) \/ RecordStep(e)
  BY Zenon DEF Next, Flushes

\* The steps of a Record keep the types.
LEMMA RecordTypes ==
  ASSUME TypeOK, NEW e \in Events, Record(e) \/ RecordStep(e)
  PROVE  /\ unix' \in [Slots -> Times \cup {0, updating}]
         /\ count' \in [Slots -> [Kinds -> SUBSET Events]]
         /\ pc' \in [Events -> {"new", "load", "add", "cas", "success", "error", "unix", "done"}]
         /\ ts' \in [Events -> Times \cup {0}] /\ seen' \in [Events -> Times \cup {0}]
         /\ prompt' \subseteq Events
  <1> DEFINE Goal ==
         /\ unix' \in [Slots -> Times \cup {0, updating}]
         /\ count' \in [Slots -> [Kinds -> SUBSET Events]]
         /\ pc' \in [Events -> {"new", "load", "add", "cas", "success", "error", "unix", "done"}]
         /\ ts' \in [Events -> Times \cup {0}] /\ seen' \in [Events -> Times \cup {0}]
         /\ prompt' \subseteq Events
  <1> DEFINE s == Bucket(ts[e])
  <1>0. /\ unix \in [Slots -> Times \cup {0, updating}]
        /\ count \in [Slots -> [Kinds -> SUBSET Events]]
        /\ pc \in [Events -> {"new", "load", "add", "cas", "success", "error", "unix", "done"}]
        /\ ts \in [Events -> Times \cup {0}] /\ seen \in [Events -> Times \cup {0}]
        /\ prompt \subseteq Events /\ now \in Times /\ Kind[e] \in Kinds
    BY CircuitBreakerAssumption DEF TypeOK
  <1>1. s \in Slots
    <2>1. ts[e] \in Nat
      BY <1>0, CircuitBreakerAssumption DEF Times
    <2> QED
      BY <2>1, BucketType
  <1> HIDE DEF s
  <1>2. CASE Record(e)
    BY <1>0, <1>2 DEF Record, ring, hist
  <1>3. CASE LoadUnix(e)
    BY <1>0, <1>1, <1>3 DEF LoadUnix, ring, hist, s
  <1>4. CASE Add(e)
    <2>1. count' = [count EXCEPT ![s][Kind[e]] = @ \cup {e}]
      BY <1>4 DEF Add, s
    <2>2. count' \in [Slots -> [Kinds -> SUBSET Events]]
      BY <1>0, <1>1, <2>1
    <2> QED
      BY <1>0, <1>4, <2>2 DEF Add, Return
  <1>5. CASE CompareAndSwap(e)
    BY <1>0, <1>1, <1>5 DEF CompareAndSwap, hist, s
  <1>6. ASSUME NEW k \in Kinds, NEW n \in {"error", "unix"}, Store(e, k, n) PROVE Goal
    <2>1. count' = [count EXCEPT ![s][k] = {f \in {e} : Kind[f] = k}]
      BY <1>6 DEF Store, s
    <2>2. count' \in [Slots -> [Kinds -> SUBSET Events]]
      BY <1>0, <1>1, <2>1
    <2> QED
      BY <1>0, <1>6, <2>2 DEF Store, hist
  <1>7. CASE StoreUnix(e)
    BY <1>0, <1>1, <1>7 DEF StoreUnix, Return, s
  <1> QED
    BY <1>2, <1>3, <1>4, <1>5, <1>6, <1>7 DEF RecordStep, Kinds

\* The steps of the flush keep the types.
LEMMA FlushTypes ==
  ASSUME TypeOK, Flushes
  PROVE  /\ lastSync' \in 0 .. MaxTime
         /\ fpc' \in {"idle", "start", "success", "error", "aggregate", "exec"}
         /\ window' \in [from : Nat, to : 0 .. MaxTime]
         /\ unit' \in Units /\ slot' \in Slots
         /\ snap' \in [start : Times \cup {0}, success : SUBSET Events, error : SUBSET Events]
         /\ data' \subseteq [unit : Units, key : Keys, event : Events]
         /\ redis' \in [Units -> [Events -> [Keys -> Nat]]]
         /\ faults' \in 0 .. MaxFaults /\ repeated' \subseteq Events
  <1> USE CircuitBreakerAssumption
  <1>1. CASE Flush
    <2>1. window' \in [from : Nat, to : 0 .. MaxTime]
      BY <1>1 DEF Flush, TypeOK, Times
    <2> QED
      BY <1>1, <2>1 DEF Flush, TypeOK, hist
  <1>2. CASE SnapStart
    <2>1. snap' = [start |-> unix[slot], success |-> {}, error |-> {}]
      BY <1>2 DEF SnapStart, NoSnap
    <2>2. unix[slot] \in Times \cup {0}
      BY <1>2 DEF SnapStart, TypeOK
    <2>3. snap' \in [start : Times \cup {0}, success : SUBSET Events, error : SUBSET Events]
      BY <2>1, <2>2
    <2> QED
      BY <1>2, <2>3 DEF SnapStart, TypeOK, hist
  <1>3. CASE SnapSuccess
    <2>1. count[slot]["success"] \in SUBSET Events
      BY DEF TypeOK, Kinds
    <2>2. snap' \in [start : Times \cup {0}, success : SUBSET Events, error : SUBSET Events]
      BY <1>3, <2>1 DEF SnapSuccess, TypeOK
    <2> QED
      BY <1>3, <2>2 DEF SnapSuccess, TypeOK, hist
  <1>4. CASE SnapError
    <2>1. count[slot]["error"] \in SUBSET Events
      BY DEF TypeOK, Kinds
    <2>2. snap' \in [start : Times \cup {0}, success : SUBSET Events, error : SUBSET Events]
      BY <1>4, <2>1 DEF SnapError, TypeOK
    <2> QED
      BY <1>4, <2>2 DEF SnapError, TypeOK, hist
  <1>5. CASE Aggregate
    <2>1. SnapEvents \subseteq Events /\ snap.start \in 0 .. MaxTime
      BY DEF SnapEvents, TypeOK, Times
    <2>2. KeyOf(unit, snap.start) \in Keys
      BY <2>1, KeyType DEF TypeOK
    <2>3. data' \subseteq [unit : Units, key : Keys, event : Events]
      BY <1>5, <2>1, <2>2 DEF Aggregate, TypeOK
    <2>4. slot' \in Slots
      BY <1>5, Division DEF Aggregate, TypeOK, Slots
    <2>5. snap' \in [start : Times \cup {0}, success : SUBSET Events, error : SUBSET Events]
      BY <1>5 DEF Aggregate, NoSnap
    <2>6. unit' \in Units
      BY <1>5 DEF Aggregate, TypeOK, Units
    <2>7. fpc' \in {"idle", "start", "success", "error", "aggregate", "exec"}
      BY <1>5 DEF Aggregate
    <2> QED
      BY <1>5, <2>3, <2>4, <2>5, <2>6, <2>7 DEF Aggregate, TypeOK, hist
  <1>6. ASSUME FlushReturns, NEW D, Increment(D)
        PROVE  /\ fpc' = "idle" /\ window' \in [from : Nat, to : 0 .. MaxTime]
               /\ unit' \in Units /\ slot' \in Slots
               /\ snap' \in [start : Times \cup {0}, success : SUBSET Events, error : SUBSET Events]
               /\ data' = {} /\ redis' \in [Units -> [Events -> [Keys -> Nat]]]
    <2>1. redis' \in [Units -> [Events -> [Keys -> Nat]]]
      BY <1>6, IncrementType DEF TypeOK
    <2>2. window' \in [from : Nat, to : 0 .. MaxTime]
      BY <1>6 DEF FlushReturns, NoWindow
    <2> QED
      BY <1>6, <2>1, <2>2 DEF FlushReturns, TypeOK, Units
  <1>7. CASE Exec
    <2>1. FlushReturns /\ Increment(data) /\ lastSync' = window.to /\ UNCHANGED <<faults, repeated>>
      BY <1>7 DEF Exec, hist
    <2>2. lastSync' \in 0 .. MaxTime
      BY <2>1 DEF TypeOK
    <2> QED
      BY <1>6, <2>1, <2>2 DEF TypeOK
  <1>8. CASE ExecFails
    <2>1. /\ FlushReturns /\ \E D : Increment(D)
          /\ faults > 0 /\ faults' = faults - 1 /\ UNCHANGED lastSync
          /\ repeated' = repeated \cup {d.event : d \in data}
      BY <1>8 DEF ExecFails
    <2>2. repeated' \subseteq Events /\ faults' \in 0 .. MaxFaults
      BY <2>1 DEF TypeOK
    <2> QED
      BY <1>6, <2>1, <2>2 DEF TypeOK
  <1> QED
    BY <1>1, <1>2, <1>3, <1>4, <1>5, <1>7, <1>8 DEF Flushes, FlushStep

\* Every step keeps the types.
LEMMA TypeStep == TypeOK /\ [Next]_vars => TypeOK'
  <1> SUFFICES ASSUME TypeOK, [Next]_vars PROVE TypeOK'
    OBVIOUS
  <1>0. wrapped' \in BOOLEAN
    BY WrappedStep
  <1>1. CASE Tick
    <2>1. now' \in Times
      BY <1>1, CircuitBreakerAssumption DEF Tick, TypeOK, Times
    <2> QED
      BY <1>0, <1>1, <2>1 DEF Tick, TypeOK, ring, recorders, flush
  <1>2. ASSUME NEW e \in Events, Record(e) \/ RecordStep(e) PROVE TypeOK'
    BY <1>0, <1>2, RecordTypes, RecordLeaves DEF TypeOK
  <1>3. CASE Flushes
    BY <1>0, <1>3, FlushTypes, FlushLeaves DEF TypeOK
  <1>4. CASE UNCHANGED vars
    BY <1>0, <1>4 DEF TypeOK, vars, ring, recorders, flush, hist
  <1> QED
    BY <1>1, <1>2, <1>3, <1>4, Steps
\* A step of a Record that has begun is its own.
LEMMA RecordMoves ==
  ASSUME TypeOK, NEW e \in Events, RecordStep(e)
  PROVE  /\ Active(e) /\ pc'[e] # "new" /\ UNCHANGED ts
         /\ \A f \in Events \ {e} : pc'[f] = pc[f] /\ seen'[f] = seen[f]
         /\ \A f \in prompt' : f \in prompt \/ (f = e /\ pc'[e] = "done" /\ ts[e] = now)
  <1>1. CASE LoadUnix(e)
    BY <1>1 DEF LoadUnix, Active, TypeOK, hist
  <1>2. CASE Add(e)
    BY <1>2 DEF Add, Return, Active, TypeOK
  <1>3. CASE CompareAndSwap(e)
    BY <1>3 DEF CompareAndSwap, Active, TypeOK, hist
  <1>4. CASE Store(e, "success", "error") \/ Store(e, "error", "unix")
    BY <1>4 DEF Store, Active, TypeOK, hist
  <1>5. CASE StoreUnix(e)
    BY <1>5 DEF StoreUnix, Return, Active, TypeOK
  <1> QED
    BY <1>1, <1>2, <1>3, <1>4, <1>5 DEF RecordStep

\* A Record begins now.
LEMMA RecordBegins ==
  ASSUME TypeOK, NEW e \in Events, Record(e)
  PROVE  /\ pc[e] = "new" /\ pc'[e] = "load" /\ ts'[e] = now
         /\ \A f \in Events \ {e} : pc'[f] = pc[f] /\ ts'[f] = ts[f]
         /\ UNCHANGED <<unix, count, seen, prompt>>
  BY DEF Record, TypeOK, ring, hist

\* Times are numbers.
LEMMA Numbers ==
  ASSUME TypeOK
  PROVE  /\ now \in Nat /\ now >= StartTime /\ lastSync \in Nat /\ Oldest \in Nat /\ Size \in Nat
         /\ StartTime \in Nat /\ StartTime > 0 /\ MaxTime \in Nat
         /\ window.from \in Nat /\ window.to \in Nat /\ snap.start \in Nat
         /\ \A e \in Events : /\ ts[e] \in Nat /\ ts[e] <= MaxTime /\ seen[e] \in Nat
                              /\ Bucket(ts[e]) \in Slots
         /\ \A s \in Slots : unix[s] # updating => unix[s] \in Nat
  <1>1. \A e \in Events : ts[e] \in Nat /\ ts[e] <= MaxTime /\ seen[e] \in Nat
    BY CircuitBreakerAssumption DEF TypeOK, Times
  <1>2. \A e \in Events : Bucket(ts[e]) \in Slots
    BY <1>1, BucketType
  <1>3. \A s \in Slots : unix[s] # updating => unix[s] \in Nat
    BY CircuitBreakerAssumption DEF TypeOK, Times
  <1>4. snap.start \in Nat /\ window.from \in Nat /\ window.to \in Nat
    BY CircuitBreakerAssumption DEF TypeOK, Times
  <1>5. /\ now \in Nat /\ now >= StartTime /\ lastSync \in Nat /\ Oldest \in Nat /\ Size \in Nat
        /\ StartTime \in Nat /\ StartTime > 0 /\ MaxTime \in Nat
    BY CircuitBreakerAssumption DEF TypeOK, Times, Oldest
  <1> QED
    BY <1>1, <1>2, <1>3, <1>4, <1>5

\* Every step keeps events and flushes in the past.
LEMMA ClockStep == IndInv /\ [Next]_vars => ClockIsAhead'
  <1> SUFFICES ASSUME IndInv, [Next]_vars PROVE ClockIsAhead'
    OBVIOUS
  <1>0. TypeOK /\ ClockIsAhead
    BY DEF IndInv
  <1>n. /\ now \in Nat /\ now >= StartTime /\ lastSync \in Nat /\ StartTime \in Nat
        /\ window.to \in Nat /\ \A e \in Events : ts[e] \in Nat
    BY <1>0, Numbers
  <1>1. CASE Tick
    <2>1. now' = now + 1 /\ UNCHANGED <<pc, ts, lastSync, fpc, window, unit, slot, data, prompt>>
      BY <1>1 DEF Tick, recorders, flush
    <2> QED
      BY <1>0, <1>n, <2>1 DEF ClockIsAhead
  <1>2. ASSUME NEW e \in Events, Record(e) PROVE ClockIsAhead'
    <2>1. UNCHANGED <<now, lastSync, fpc, window, unit, slot, data>>
      BY <1>2, RecordLeaves
    <2>2. \A f \in Events : pc'[f] # "new" => StartTime <= ts'[f] /\ ts'[f] <= now'
      BY <1>0, <1>2, <1>n, <2>1, RecordBegins DEF ClockIsAhead
    <2>3. \A f \in prompt' : pc'[f] = "done"
      <3>1. prompt \subseteq Events
        BY <1>0 DEF TypeOK
      <3> QED
        BY <1>0, <1>2, <3>1, RecordBegins DEF ClockIsAhead
    <2> QED
      BY <1>0, <2>1, <2>2, <2>3 DEF ClockIsAhead
  <1>3. ASSUME NEW e \in Events, RecordStep(e) PROVE ClockIsAhead'
    <2>1. UNCHANGED <<now, lastSync, fpc, window, unit, slot, data>>
      BY <1>3, RecordLeaves
    <2>2. \A f \in Events : pc'[f] # "new" => StartTime <= ts'[f] /\ ts'[f] <= now'
      BY <1>0, <1>3, <2>1, RecordMoves DEF ClockIsAhead, Active
    <2>3. \A f \in prompt' : pc'[f] = "done"
      <3>1. prompt \subseteq Events
        BY <1>0 DEF TypeOK
      <3> QED
        BY <1>0, <1>3, <3>1, RecordMoves DEF ClockIsAhead, Active
    <2> QED
      BY <1>0, <2>1, <2>2, <2>3 DEF ClockIsAhead
  <1>4. CASE Flushes
    <2>1. UNCHANGED <<now, pc, ts, prompt>>
      BY <1>4, FlushLeaves
    <2>2. CASE Flush
      BY <1>0, <1>n, <2>1, <2>2 DEF Flush, ClockIsAhead
    <2>3. CASE SnapStart \/ SnapSuccess \/ SnapError
      BY <1>0, <2>1, <2>3 DEF SnapStart, SnapSuccess, SnapError, ClockIsAhead
    <2>4. CASE Aggregate
      <3>1. /\ fpc = "aggregate" /\ UNCHANGED <<lastSync, window>>
            /\ slot' = (slot + 1) % Size
            /\ IF slot < Size - 1   THEN fpc' = "start" /\ UNCHANGED unit
               ELSE IF unit = "hour" THEN fpc' = "start" /\ unit' = "minute"
                                     ELSE fpc' = "exec" /\ UNCHANGED unit
        BY <2>4 DEF Aggregate
      <3>2. fpc' = "exec" => slot' = 0
        <4>1. slot \in 0 .. Size - 1 /\ Size \in Nat /\ Size > 0
          BY <1>0, CircuitBreakerAssumption DEF TypeOK, Slots
        <4>2. Size % Size = 0
          BY <4>1
        <4> QED
          BY <3>1, <4>1, <4>2
      <3>3. fpc' \in {"start", "exec"} /\ (fpc' = "exec" => unit' = "minute")
        BY <1>0, <3>1 DEF TypeOK, Units
      <3> QED
        BY <1>0, <2>1, <3>1, <3>2, <3>3 DEF ClockIsAhead
    <2>5. CASE Exec \/ ExecFails
      <3>1. /\ fpc = "exec" /\ fpc' = "idle" /\ unit' = "hour" /\ data' = {} /\ UNCHANGED slot
            /\ lastSync' \in {lastSync, window.to}
        BY <2>5 DEF Exec, ExecFails, FlushReturns
      <3> QED
        BY <1>0, <1>n, <2>1, <3>1 DEF ClockIsAhead
    <2> QED
      BY <1>4, <2>2, <2>3, <2>4, <2>5 DEF Flushes, FlushStep
  <1>5. CASE UNCHANGED vars
    BY <1>0, <1>5 DEF ClockIsAhead, vars, recorders, flush, hist
  <1> QED
    BY <1>1, <1>2, <1>3, <1>4, <1>5, Steps
-----------------------------------------------------------------------------
(* The ring *)

\* While the ring has not come round, the invariant holds in full.
LEMMA Unwrapped ==
  ASSUME IndInv, [Next]_vars, ~wrapped'
  PROVE  /\ ~wrapped /\ TypeOK /\ ClockIsAhead /\ RingIsLarge /\ ResetIsExclusive
         /\ BucketsAreOfTheirSecond /\ SnapshotsAreClean /\ SnapshotsAreComplete
         /\ OpenIsUncounted /\ CountedOnce /\ SyncedIsCounted
  BY WrappedStep, Zenon DEF IndInv

\* What is not flushed moves forward only.
LEMMA OldestStep ==
  ASSUME TypeOK, ClockIsAhead, [Next]_vars
  PROVE  /\ Oldest' \in Nat /\ lastSync' \in Nat
         /\ Oldest <= Oldest' /\ lastSync <= lastSync'
         /\ (lastSync' = lastSync \/ Exec)
  <1>n. now \in Nat /\ lastSync \in Nat /\ StartTime \in Nat /\ StartTime > 0 /\ window.to \in Nat
    BY Numbers
  <1>1. UNCHANGED lastSync \/ Exec
    BY ZenonT(60) DEF Next, Tick, Record, RecordStep, LoadUnix, Add, CompareAndSwap, Store,
       StoreUnix, Return, Flush, FlushStep, SnapStart, SnapSuccess, SnapError, Aggregate, ExecFails,
       vars
  <1>2. CASE UNCHANGED lastSync
    BY <1>2, <1>n DEF Oldest
  <1>3. CASE Exec
    <2>1. fpc = "exec" /\ lastSync' = window.to
      BY <1>3 DEF Exec, FlushReturns
    <2>2. lastSync <= window.to /\ StartTime - 1 <= window.to
      BY <2>1 DEF ClockIsAhead
    <2> QED
      BY <1>3, <1>n, <2>1, <2>2 DEF Oldest
  <1> QED
    BY <1>1, <1>2, <1>3

\* What is large enough for a second is so for a later one.
LEMMA Later ==
  ASSUME NEW a \in Nat, NEW b \in Nat, NEW c \in Nat, NEW n \in Nat, a < b + n, b <= c
  PROVE  a < c + n
  OBVIOUS

\* Every step keeps the ring ahead of what it holds.
LEMMA RingStep ==
  ASSUME IndInv, [Next]_vars, ~wrapped'
  PROVE  RingIsLarge'
  <1>0. TypeOK /\ ClockIsAhead /\ RingIsLarge
    BY Unwrapped
  <1>n. /\ now \in Nat /\ Oldest \in Nat /\ Size \in Nat /\ Size > 0
        /\ \A e \in Events : ts[e] \in Nat
    BY <1>0, Numbers, CircuitBreakerAssumption
  <1>1. CASE Tick
    <2>1. now' = now + 1 /\ UNCHANGED <<pc, ts, lastSync>> /\ ~Behind(now + 1)
      BY <1>1, Zenon DEF Tick, recorders
    <2>2. now + 1 < Oldest + Size /\ \A e \in Events : Active(e) => now + 1 < ts[e] + Size
      BY <1>n, <2>1 DEF Behind, Active
    <2> QED
      BY <2>1, <2>2 DEF RingIsLarge, Active, Oldest
  <1>2. ASSUME NEW e \in Events, Record(e) PROVE RingIsLarge'
    <2>1. UNCHANGED <<now, lastSync>>
      BY <1>2, RecordLeaves
    <2> QED
      BY <1>0, <1>2, <1>n, <2>1, RecordBegins DEF RingIsLarge, Active, Oldest
  <1>3. ASSUME NEW e \in Events, RecordStep(e) PROVE RingIsLarge'
    <2>1. UNCHANGED <<now, lastSync>>
      BY <1>3, RecordLeaves
    <2> QED
      BY <1>0, <1>3, <2>1, RecordMoves DEF RingIsLarge, Active, Oldest
  <1>4. CASE Flushes
    <2>1. UNCHANGED <<now, pc, ts>>
      BY <1>4, FlushLeaves
    <2>2. Oldest' \in Nat /\ Oldest <= Oldest'
      BY <1>0, OldestStep
    <2>3. now < Oldest' + Size
      <3>1. now \in Nat /\ Size \in Nat /\ Oldest \in Nat
        BY <1>n
      <3>2. now < Oldest + Size
        BY <1>0 DEF RingIsLarge
      <3> QED
        BY <2>2, <3>1, <3>2, Later
    <2> QED
      BY <1>0, <2>1, <2>3 DEF RingIsLarge, Active
  <1>5. CASE UNCHANGED vars
    BY <1>0, <1>5 DEF RingIsLarge, Active, Oldest, vars, recorders
  <1> QED
    BY <1>1, <1>2, <1>3, <1>4, <1>5, Steps

\* A bucket that is taken over has been flushed, and no Record is at work on it.
LEMMA NoTakeover ==
  ASSUME TypeOK, ClockIsAhead, RingIsLarge, ResetIsExclusive,
         NEW e \in Events, Active(e), NEW t \in Nat, t < ts[e], Bucket(t) = Bucket(ts[e])
  PROVE  t < Oldest /\ \A f \in Events : Active(f) => ts[f] # t
  <1>n. now \in Nat /\ Oldest \in Nat /\ Size \in Nat /\ \A f \in Events : ts[f] \in Nat
    BY Numbers
  <1>1. t + Size <= ts[e]
    BY <1>n, BucketGap
  <1>2. ts[e] <= now /\ now < Oldest + Size
    BY DEF ClockIsAhead, RingIsLarge, Active
  <1>3. \A f \in Events : Active(f) => now < ts[f] + Size
    BY DEF RingIsLarge
  <1> QED
    BY <1>n, <1>1, <1>2, <1>3

\* No Record comes too late: its bucket has no later second.
LEMMA NoLaterSecond ==
  ASSUME TypeOK, ClockIsAhead, RingIsLarge, ResetIsExclusive, NEW e \in Events, Active(e)
  PROVE  ~(unix[Bucket(ts[e])] > ts[e])
  <1> DEFINE s == Bucket(ts[e])
  <1>n. /\ now \in Nat /\ Size \in Nat /\ ts[e] \in Nat /\ s \in Slots
        /\ (unix[s] # updating => unix[s] \in Nat)
    BY Numbers
  <1> HIDE DEF s
  <1> SUFFICES ASSUME unix[s] > ts[e] PROVE FALSE
    BY DEF s
  <1>1. unix[s] \in Nat /\ unix[s] > 0
    BY <1>n DEF updating
  <1>2. Bucket(unix[s]) = s /\ unix[s] <= now
    BY <1>n, <1>1 DEF ResetIsExclusive
  <1>3. ts[e] + Size <= unix[s]
    BY <1>n, <1>1, <1>2, BucketGap DEF s
  <1>4. now < ts[e] + Size
    BY DEF RingIsLarge
  <1> QED
    BY <1>n, <1>1, <1>2, <1>3, <1>4
\* A bucket changes hands when it is taken over and when its reset ends.
LEMMA UnixMoves ==
  ASSUME TypeOK, ClockIsAhead, RingIsLarge, ResetIsExclusive, NEW e \in Events, RecordStep(e)
  PROVE  /\ \A s \in Slots \ {Bucket(ts[e])} : unix'[s] = unix[s]
         /\ \/ UNCHANGED unix /\ (Resetting(e) = Resetting(e)') /\ pc[e] # "unix"
            \/ /\ pc[e] = "cas" /\ pc'[e] = "success"
               /\ unix[Bucket(ts[e])] = seen[e] /\ unix'[Bucket(ts[e])] = updating
            \/ /\ pc[e] = "unix" /\ pc'[e] = "done"
               /\ unix'[Bucket(ts[e])] = ts[e]
  <1>0. Bucket(ts[e]) \in Slots
    BY Numbers
  <1>t. unix \in [Slots -> Times \cup {0, updating}] /\ pc \in [Events -> {"new", "load", "add", "cas", "success", "error", "unix", "done"}]
    BY DEF TypeOK
  <1> DEFINE s == Bucket(ts[e])
  <1> HIDE DEF s
  <1>1. CASE LoadUnix(e)
    BY <1>1, <1>t DEF LoadUnix, Resetting, ring
  <1>2. CASE Add(e)
    BY <1>2, <1>t DEF Add, Return, Resetting
  <1>3. CASE CompareAndSwap(e)
    <2>1. /\ pc[e] = "cas"
          /\ IF unix[s] = seen[e]
               THEN unix' = [unix EXCEPT ![s] = updating] /\ pc' = [pc EXCEPT ![e] = "success"]
               ELSE pc' = [pc EXCEPT ![e] = "load"] /\ UNCHANGED unix
      BY <1>3 DEF CompareAndSwap, s
    <2>2. s \in Slots
      BY <1>0 DEF s
    <2> QED
      BY <1>t, <2>1, <2>2 DEF Resetting, s
  <1>4. CASE Store(e, "success", "error") \/ Store(e, "error", "unix")
    BY <1>4, <1>t DEF Store, Resetting
  <1>5. CASE StoreUnix(e)
    <2>1. pc[e] = "unix" /\ unix' = [unix EXCEPT ![s] = ts[e]] /\ pc' = [pc EXCEPT ![e] = "done"]
      BY <1>5 DEF StoreUnix, Return, s
    <2>2. s \in Slots
      BY <1>0 DEF s
    <2> QED
      BY <1>t, <2>1, <2>2 DEF s
  <1> QED
    BY <1>1, <1>2, <1>3, <1>4, <1>5 DEF RecordStep

\* What a Record is about to do with its bucket.
LEMMA RecordKnows ==
  ASSUME TypeOK, NEW e \in Events, RecordStep(e)
  PROVE  /\ pc'[e] = "add" => unix'[Bucket(ts[e])] = ts[e]
         /\ pc'[e] = "cas" => seen'[e] < ts[e]
  <1>1. CASE LoadUnix(e)
    <2> DEFINE u == unix[Bucket(ts[e])]
    <2>1. /\ u # updating /\ UNCHANGED unix
          /\ seen' = [seen EXCEPT ![e] = IF u < ts[e] THEN u ELSE 0]
          /\ pc' = [pc EXCEPT ![e] = IF u = ts[e] THEN "add"
                                     ELSE IF u > ts[e] THEN "done" ELSE "cas"]
      BY <1>1 DEF LoadUnix, ring
    <2>2. u \in Nat /\ ts[e] \in Nat
      BY <2>1, Numbers
    <2> HIDE DEF u
    <2>3. /\ seen'[e] = IF u < ts[e] THEN u ELSE 0
          /\ pc'[e] = IF u = ts[e] THEN "add" ELSE IF u > ts[e] THEN "done" ELSE "cas"
      BY <2>1 DEF TypeOK
    <2> QED
      BY <2>1, <2>2, <2>3 DEF u
  <1>2. CASE Add(e) \/ StoreUnix(e)
    BY <1>2 DEF Add, StoreUnix, Return, TypeOK
  <1>3. CASE CompareAndSwap(e)
    BY <1>3 DEF CompareAndSwap, TypeOK
  <1>4. CASE Store(e, "success", "error") \/ Store(e, "error", "unix")
    BY <1>4 DEF Store, TypeOK
  <1> QED
    BY <1>1, <1>2, <1>3, <1>4 DEF RecordStep

\* Nobody adds to a bucket that is taken over, and nobody resets it.
LEMMA TakeoverIsExclusive ==
  ASSUME TypeOK, ClockIsAhead, RingIsLarge, ResetIsExclusive,
         NEW e \in Events, pc[e] = "cas", unix[Bucket(ts[e])] = seen[e],
         NEW f \in Events, Bucket(ts[f]) = Bucket(ts[e])
  PROVE  pc[f] # "add" /\ ~Resetting(f)
  <1>n. seen[e] \in Nat /\ ts[f] \in Nat
    BY Numbers
  <1>1. seen[e] < ts[e]
    BY DEF ResetIsExclusive
  <1>2. ~Resetting(f)
    BY <1>n DEF ResetIsExclusive, updating
  <1>3. ASSUME pc[f] = "add" PROVE FALSE
    <2>1. ts[f] = seen[e]
      BY <1>3 DEF ResetIsExclusive
    <2>2. Active(f) /\ Active(e)
      BY <1>3 DEF Active
    <2> QED
      BY <1>1, <1>n, <2>1, <2>2, NoTakeover
  <1> QED
    BY <1>2, <1>3
\* A step of a Record keeps resets exclusive.
LEMMA ResetRecordStep ==
  ASSUME TypeOK, ClockIsAhead, RingIsLarge, ResetIsExclusive, NEW e \in Events, RecordStep(e)
  PROVE  ResetIsExclusive'
  <1> DEFINE s == Bucket(ts[e])
  <1>0. /\ \A t \in Slots \ {s} : unix'[t] = unix[t]
        /\ \/ UNCHANGED unix /\ (Resetting(e) = Resetting(e)') /\ pc[e] # "unix"
           \/ /\ pc[e] = "cas" /\ pc'[e] = "success" /\ unix[s] = seen[e] /\ unix'[s] = updating
           \/ /\ pc[e] = "unix" /\ pc'[e] = "done" /\ unix'[s] = ts[e]
    BY UnixMoves
  <1>n. /\ now \in Nat /\ \A f \in Events : ts[f] \in Nat /\ seen[f] \in Nat /\ Bucket(ts[f]) \in Slots
    BY Numbers
  <1>m. /\ UNCHANGED <<ts, now>> /\ \A f \in Events \ {e} : pc'[f] = pc[f] /\ seen'[f] = seen[f]
    BY RecordMoves, RecordLeaves
  <1>u. ts[e] <= now
    BY RecordMoves DEF ClockIsAhead, Active
  <1>1. \A t \in Slots : unix'[t] > 0 => Bucket(unix'[t]) = t /\ unix'[t] <= now'
    <2>1. ASSUME NEW t \in Slots, unix'[t] > 0 PROVE Bucket(unix'[t]) = t /\ unix'[t] <= now'
      <3>1. CASE unix'[t] = unix[t]
        BY <1>m, <2>1, <3>1 DEF ResetIsExclusive
      <3>2. CASE unix'[t] # unix[t]
        <4>1. t = s /\ (unix'[s] = updating \/ unix'[s] = ts[e])
          BY <1>0, <3>2
        <4> QED
          BY <1>m, <1>n, <1>u, <2>1, <4>1 DEF updating
      <3> QED
        BY <3>1, <3>2
    <2> QED
      BY <2>1
  <1>2. ASSUME NEW f \in Events, Resetting(f)' PROVE unix'[Bucket(ts'[f])] = updating
    <2>1. Bucket(ts'[f]) = Bucket(ts[f]) /\ Bucket(ts[f]) \in Slots
      BY <1>m, <1>n
    <2>2. CASE f = e
      <3>1. (UNCHANGED unix /\ Resetting(e)) \/ unix'[s] = updating
        BY <1>0, <1>2, <2>2 DEF Resetting
      <3> QED
        BY <2>1, <2>2, <3>1 DEF ResetIsExclusive
    <2>3. CASE f # e
      <3>1. Resetting(f) /\ unix[Bucket(ts[f])] = updating
        BY <1>2, <1>m, <2>3 DEF Resetting, ResetIsExclusive
      <3>2. CASE Bucket(ts[f]) = s
        <4>1. ~(pc[e] = "cas" /\ unix[s] = seen[e])
          BY <1>n, <3>1, <3>2 DEF updating
        <4>2. pc[e] # "unix"
          BY <2>3, <3>1, <3>2 DEF Resetting, ResetIsExclusive
        <4> QED
          BY <1>0, <2>1, <3>1, <4>1, <4>2
      <3>3. CASE Bucket(ts[f]) # s
        BY <1>0, <2>1, <3>1, <3>3
      <3> QED
        BY <3>2, <3>3
    <2> QED
      BY <2>2, <2>3
  <1>3. ASSUME NEW f \in Events, pc'[f] = "add" PROVE unix'[Bucket(ts'[f])] = ts'[f]
    <2>1. CASE f = e
      BY <1>3, <1>m, <2>1, RecordKnows
    <2>2. CASE f # e
      <3>1. pc[f] = "add" /\ unix[Bucket(ts[f])] = ts[f]
        BY <1>3, <1>m, <2>2 DEF ResetIsExclusive
      <3>2. CASE Bucket(ts[f]) = s
        <4>1. ~(pc[e] = "cas" /\ unix[s] = seen[e])
          BY <3>1, <3>2, TakeoverIsExclusive
        <4>2. pc[e] # "unix"
          BY <1>n, <3>1, <3>2 DEF Resetting, ResetIsExclusive, updating
        <4> QED
          BY <1>0, <1>m, <3>1, <4>1, <4>2
      <3>3. CASE Bucket(ts[f]) # s
        BY <1>0, <1>m, <1>n, <3>1, <3>3
      <3> QED
        BY <3>2, <3>3
    <2> QED
      BY <2>1, <2>2
  <1>4. ASSUME NEW f \in Events, pc'[f] = "cas" PROVE seen'[f] < ts'[f]
    <2>1. CASE f = e
      BY <1>4, <1>m, <2>1, RecordKnows
    <2>2. CASE f # e
      BY <1>4, <1>m, <2>2 DEF ResetIsExclusive
    <2> QED
      BY <2>1, <2>2
  <1>5. ASSUME NEW f \in Events, Resetting(f)', f # e, Bucket(ts'[f]) = Bucket(ts'[e])
        PROVE  ~Resetting(e)'
    <2>1. Resetting(f) /\ Bucket(ts[f]) = s
      BY <1>5, <1>m DEF Resetting
    <2>2. ~Resetting(e)
      BY <1>5, <2>1 DEF ResetIsExclusive
    <2>3. ~(pc[e] = "cas" /\ unix[s] = seen[e])
      BY <2>1, TakeoverIsExclusive
    <2> QED
      BY <1>0, <2>2, <2>3 DEF Resetting
  <1>6. ASSUME NEW f \in Events, NEW g \in Events, Resetting(f)', Resetting(g)',
               Bucket(ts'[f]) = Bucket(ts'[g])
        PROVE  f = g
    <2>1. CASE f = e \/ g = e
      BY <1>5, <1>6, <2>1
    <2>2. CASE f # e /\ g # e
      BY <1>6, <1>m, <2>2 DEF Resetting, ResetIsExclusive
    <2> QED
      BY <2>1, <2>2
  <1> QED
    BY <1>1, <1>2, <1>3, <1>4, <1>6 DEF ResetIsExclusive

\* Every step keeps resets exclusive.
LEMMA ResetStep ==
  ASSUME IndInv, [Next]_vars, ~wrapped'
  PROVE  ResetIsExclusive'
  <1>0. TypeOK /\ ClockIsAhead /\ RingIsLarge /\ ResetIsExclusive
    BY Unwrapped
  <1>1. CASE Tick
    <2>1. now' = now + 1 /\ UNCHANGED <<unix, pc, ts, seen>>
      BY <1>1 DEF Tick, ring, recorders
    <2>2. now \in Nat /\ \A s \in Slots : unix[s] # updating => unix[s] \in Nat
      BY <1>0, Numbers
    <2>3. \A s \in Slots : unix'[s] > 0 => Bucket(unix'[s]) = s /\ unix'[s] <= now'
      BY <1>0, <2>1, <2>2 DEF ResetIsExclusive, updating
    <2> QED
      BY <1>0, <2>1, <2>3 DEF ResetIsExclusive, Resetting
  <1>2. ASSUME NEW e \in Events, Record(e) PROVE ResetIsExclusive'
    <2>1. /\ pc'[e] = "load" /\ \A f \in Events \ {e} : pc'[f] = pc[f] /\ ts'[f] = ts[f]
          /\ UNCHANGED <<now, unix, seen>>
      BY <1>0, <1>2, RecordBegins, RecordLeaves
    <2> QED
      BY <1>0, <2>1 DEF ResetIsExclusive, Resetting
  <1>3. ASSUME NEW e \in Events, RecordStep(e) PROVE ResetIsExclusive'
    BY <1>0, <1>3, ResetRecordStep
  <1>4. CASE UNCHANGED <<now, unix, pc, ts, seen>>
    BY <1>0, <1>4 DEF ResetIsExclusive, Resetting
  <1> QED
    BY <1>1, <1>2, <1>3, <1>4, FlushLeaves, Steps DEF vars, ring, recorders
-----------------------------------------------------------------------------
(* What the buckets have counted *)

\* A bucket is unlike the others only if it is written.
LEMMA CountMoves ==
  ASSUME TypeOK, NEW e \in Events, RecordStep(e)
  PROVE  /\ \A s \in Slots \ {Bucket(ts[e])} : count'[s] = count[s]
         /\ \/ UNCHANGED count /\ pc[e] \in {"load", "cas", "unix"}
            \/ /\ pc[e] = "add" /\ pc'[e] = "done" /\ UNCHANGED unix
               /\ count'[Bucket(ts[e])] = [count[Bucket(ts[e])] EXCEPT ![Kind[e]] = @ \cup {e}]
            \/ /\ pc[e] = "success" /\ pc'[e] = "error" /\ UNCHANGED unix
               /\ count'[Bucket(ts[e])] = [count[Bucket(ts[e])] EXCEPT !["success"] =
                                              {f \in {e} : Kind[f] = "success"}]
            \/ /\ pc[e] = "error" /\ pc'[e] = "unix" /\ UNCHANGED unix
               /\ count'[Bucket(ts[e])] = [count[Bucket(ts[e])] EXCEPT !["error"] =
                                              {f \in {e} : Kind[f] = "error"}]
  <1> DEFINE s == Bucket(ts[e])
  <1>0. s \in Slots
    BY Numbers
  <1>t. /\ count \in [Slots -> [Kinds -> SUBSET Events]]
        /\ pc \in [Events -> {"new", "load", "add", "cas", "success", "error", "unix", "done"}]
    BY DEF TypeOK
  <1> HIDE DEF s
  <1>1. CASE LoadUnix(e) \/ CompareAndSwap(e) \/ StoreUnix(e)
    BY <1>1 DEF LoadUnix, CompareAndSwap, StoreUnix, ring
  <1>2. CASE Add(e)
    <2>1. /\ pc[e] = "add" /\ UNCHANGED unix /\ pc' = [pc EXCEPT ![e] = "done"]
          /\ count' = [count EXCEPT ![s][Kind[e]] = @ \cup {e}]
      BY <1>2 DEF Add, Return, s
    <2> QED
      BY <1>0, <1>t, <2>1 DEF s
  <1>3. CASE Store(e, "success", "error")
    <2>1. /\ pc[e] = "success" /\ UNCHANGED unix /\ pc' = [pc EXCEPT ![e] = "error"]
          /\ count' = [count EXCEPT ![s]["success"] = {f \in {e} : Kind[f] = "success"}]
      BY <1>3 DEF Store, s
    <2> QED
      BY <1>0, <1>t, <2>1 DEF s
  <1>4. CASE Store(e, "error", "unix")
    <2>1. /\ pc[e] = "error" /\ UNCHANGED unix /\ pc' = [pc EXCEPT ![e] = "unix"]
          /\ count' = [count EXCEPT ![s]["error"] = {f \in {e} : Kind[f] = "error"}]
      BY <1>4 DEF Store, s
    <2> QED
      BY <1>0, <1>t, <2>1 DEF s
  <1> QED
    BY <1>1, <1>2, <1>3, <1>4 DEF RecordStep

\* A bucket whose second is not flushed stays.
LEMMA OpenBucketStays ==
  ASSUME TypeOK, ClockIsAhead, RingIsLarge, ResetIsExclusive, NEW e \in Events, RecordStep(e),
         NEW s \in Slots, unix[s] # updating, Oldest <= unix[s]
  PROVE  unix'[s] = unix[s]
  <1>n. /\ unix[s] \in Nat /\ Oldest \in Nat /\ ts[e] \in Nat
    BY Numbers
  <1>1. CASE s # Bucket(ts[e])
    BY <1>1, UnixMoves
  <1>2. CASE s = Bucket(ts[e])
    <2>1. ~(pc[e] = "cas" /\ unix[s] = seen[e])
      <3> SUFFICES ASSUME pc[e] = "cas", unix[s] = seen[e] PROVE FALSE
        OBVIOUS
      <3>1. unix[s] < ts[e] /\ Active(e)
        BY DEF ResetIsExclusive, Active
      <3>2. unix[s] > 0
        BY <1>n, CircuitBreakerAssumption DEF Oldest, TypeOK
      <3>3. Bucket(unix[s]) = s
        BY <3>2 DEF ResetIsExclusive
      <3>4. unix[s] < Oldest
        BY <1>2, <1>n, <3>1, <3>3, NoTakeover
      <3> QED
        BY <1>n, <3>4
    <2>2. pc[e] # "unix"
      BY <1>2 DEF ResetIsExclusive, Resetting
    <2> QED
      BY <1>2, <2>1, <2>2, UnixMoves
  <1> QED
    BY <1>1, <1>2

\* An event that a Record discards would have come after the ring.
LEMMA NoDiscard ==
  ASSUME TypeOK, ClockIsAhead, RingIsLarge, ResetIsExclusive, NEW e \in Events, RecordStep(e),
         pc'[e] = "done"
  PROVE  pc[e] \in {"add", "unix"}
  <1>1. CASE LoadUnix(e)
    <2>1. pc[e] = "load" /\ ~(unix[Bucket(ts[e])] > ts[e])
      BY <1>1, NoLaterSecond DEF LoadUnix, Active
    <2> QED
      BY <1>1, <2>1 DEF LoadUnix, TypeOK
  <1>2. CASE CompareAndSwap(e)
    BY <1>2 DEF CompareAndSwap, TypeOK
  <1>3. CASE Store(e, "success", "error") \/ Store(e, "error", "unix")
    BY <1>3 DEF Store, TypeOK
  <1>4. CASE Add(e) \/ StoreUnix(e)
    BY <1>4 DEF Add, StoreUnix
  <1> QED
    BY <1>1, <1>2, <1>3, <1>4 DEF RecordStep
\* A bucket that a Record leaves open has counted events of its second only.
LEMMA CleanRecordStep ==
  ASSUME TypeOK, ClockIsAhead, RingIsLarge, ResetIsExclusive, BucketsAreOfTheirSecond,
         NEW e \in Events, RecordStep(e),
         NEW s \in Slots, unix'[s] # updating, NEW k \in Kinds, NEW f \in count'[s][k]
  PROVE  ts'[f] = unix'[s] /\ pc'[f] = "done"
  <1>m. /\ Active(e) /\ UNCHANGED ts /\ \A g \in Events \ {e} : pc'[g] = pc[g]
    BY RecordMoves
  <1>t. count[s][k] \subseteq Events /\ Bucket(ts[e]) \in Slots
    BY Numbers DEF TypeOK
  <1>1. ASSUME f \in count[s][k], unix[s] # updating, unix'[s] = unix[s]
        PROVE  ts'[f] = unix'[s] /\ pc'[f] = "done"
    BY <1>1, <1>m, <1>t DEF BucketsAreOfTheirSecond, Active
  <1>2. CASE s # Bucket(ts[e])
    <2>1. count'[s] = count[s]
      BY <1>2, CountMoves
    <2>2. unix'[s] = unix[s]
      BY <1>2, UnixMoves
    <2> QED
      BY <1>1, <2>1, <2>2
  <1>3. CASE s = Bucket(ts[e]) /\ pc[e] = "unix"
    <2>1. UNCHANGED count /\ unix'[s] = ts[e] /\ pc'[e] = "done"
      BY <1>3, CountMoves, UnixMoves DEF Resetting
    <2>2. count[s]["success"] \subseteq {e} /\ count[s]["error"] \subseteq {e}
      BY <1>3 DEF BucketsAreOfTheirSecond
    <2>3. f = e
      BY <2>1, <2>2 DEF Kinds
    <2> QED
      BY <1>m, <2>1, <2>3
  <1>4. CASE s = Bucket(ts[e]) /\ pc[e] # "unix"
    <2>1. UNCHANGED unix
      BY <1>4, UnixMoves
    <2>2. pc[e] \notin {"success", "error"}
      BY <1>4, <2>1 DEF ResetIsExclusive, Resetting
    <2>3. CASE pc[e] = "add"
      <3>1. /\ pc'[e] = "done"
            /\ count'[s] = [count[s] EXCEPT ![Kind[e]] = @ \cup {e}]
        BY <1>4, <2>3, CountMoves
      <3>2. f = e \/ f \in count[s][k]
        BY <3>1 DEF TypeOK
      <3>3. unix[s] = ts[e]
        BY <1>4, <2>3 DEF ResetIsExclusive
      <3> QED
        BY <1>1, <1>m, <2>1, <3>1, <3>2, <3>3
    <2>4. CASE pc[e] # "add"
      <3>1. UNCHANGED count
        BY <1>4, <2>2, <2>4, CountMoves
      <3> QED
        BY <1>1, <2>1, <3>1
    <2> QED
      BY <2>3, <2>4
  <1> QED
    BY <1>2, <1>3, <1>4

\* A reset leaves its own event only.
LEMMA ResetCounts ==
  ASSUME TypeOK, ClockIsAhead, RingIsLarge, ResetIsExclusive, BucketsAreOfTheirSecond,
         NEW e \in Events, RecordStep(e), NEW f \in Events, pc'[f] \in {"error", "unix"}
  PROVE  /\ count'[Bucket(ts[f])]["success"] = {g \in {f} : Kind[g] = "success"}
         /\ pc'[f] = "unix" => count'[Bucket(ts[f])]["error"] = {g \in {f} : Kind[g] = "error"}
  <1>m. \A g \in Events \ {e} : pc'[g] = pc[g]
    BY RecordMoves
  <1>t. Bucket(ts[f]) \in Slots /\ count[Bucket(ts[f])] \in [Kinds -> SUBSET Events]
        /\ {"success", "error"} = Kinds
    BY Numbers DEF TypeOK, Kinds
  <1>1. CASE f # e
    <2>1. Resetting(f) /\ pc[f] = pc'[f] /\ unix[Bucket(ts[f])] = updating
      BY <1>1, <1>m DEF Resetting, ResetIsExclusive
    <2>2. count'[Bucket(ts[f])] = count[Bucket(ts[f])]
      <3>1. CASE Bucket(ts[f]) # Bucket(ts[e])
        BY <1>t, <3>1, CountMoves
      <3>2. CASE Bucket(ts[f]) = Bucket(ts[e])
        <4>1. pc[e] \notin {"success", "error"}
          BY <1>1, <2>1, <3>2 DEF ResetIsExclusive, Resetting
        <4>2. pc[e] # "add"
          <5>1. ts[e] \in Nat
            BY Numbers
          <5> QED
            BY <2>1, <3>2, <5>1 DEF ResetIsExclusive, updating
        <4> QED
          BY <4>1, <4>2, CountMoves
      <3> QED
        BY <3>1, <3>2
    <2> QED
      BY <2>1, <2>2 DEF BucketsAreOfTheirSecond
  <1>2. CASE f = e
    <2> DEFINE c == count[Bucket(ts[e])]
    <2>1. \/ /\ pc[e] = "success" /\ pc'[e] = "error"
             /\ count'[Bucket(ts[e])] = [c EXCEPT !["success"] = {g \in {e} : Kind[g] = "success"}]
          \/ /\ pc[e] = "error" /\ pc'[e] = "unix"
             /\ count'[Bucket(ts[e])] = [c EXCEPT !["error"] = {g \in {e} : Kind[g] = "error"}]
      <3>1. Resetting(e) /\ pc[e] # "unix"
        <4>1. Resetting(e)' /\ pc'[e] # "success" /\ pc'[e] # "done"
          BY <1>2 DEF Resetting
        <4> QED
          BY <4>1, UnixMoves, CountMoves DEF Resetting
      <3> QED
        BY <3>1, CountMoves DEF Resetting
    <2>2. pc[e] = "error" => c["success"] = {g \in {e} : Kind[g] = "success"}
      BY DEF BucketsAreOfTheirSecond
    <2>3. c \in [Kinds -> SUBSET Events]
      BY <1>2, <1>t
    <2> HIDE DEF c
    <2> QED
      BY <1>2, <1>t, <2>1, <2>2, <2>3
  <1> QED
    BY <1>1, <1>2
\* Every event of a second that is not flushed is in its bucket.
LEMMA DoneCounts ==
  ASSUME TypeOK, ClockIsAhead, RingIsLarge, ResetIsExclusive, BucketsAreOfTheirSecond,
         NEW e \in Events, RecordStep(e), NEW f \in Events, pc'[f] = "done", Oldest <= ts[f]
  PROVE  unix'[Bucket(ts[f])] = ts[f] /\ f \in count'[Bucket(ts[f])][Kind[f]]
  <1>m. \A g \in Events \ {e} : pc'[g] = pc[g]
    BY RecordMoves
  <1>t. /\ Bucket(ts[f]) \in Slots /\ count[Bucket(ts[f])] \in [Kinds -> SUBSET Events]
        /\ Kind[f] \in Kinds /\ ts[f] \in Nat
    BY Numbers, CircuitBreakerAssumption DEF TypeOK
  <1>1. CASE f # e
    <2>1. unix[Bucket(ts[f])] = ts[f] /\ f \in count[Bucket(ts[f])][Kind[f]]
      BY <1>1, <1>m DEF BucketsAreOfTheirSecond
    <2>2. unix[Bucket(ts[f])] # updating
      BY <1>t, <2>1 DEF updating
    <2>3. unix'[Bucket(ts[f])] = ts[f]
      BY <1>t, <2>1, <2>2, OpenBucketStays
    <2>4. CASE Bucket(ts[f]) # Bucket(ts[e])
      BY <1>t, <2>1, <2>3, <2>4, CountMoves
    <2>5. CASE Bucket(ts[f]) = Bucket(ts[e])
      <3>1. pc[e] \notin {"success", "error"}
        BY <2>2, <2>5 DEF ResetIsExclusive, Resetting
      <3>2. \/ UNCHANGED count
            \/ count'[Bucket(ts[f])] = [count[Bucket(ts[f])] EXCEPT ![Kind[e]] = @ \cup {e}]
        BY <2>5, <3>1, CountMoves
      <3> QED
        BY <1>t, <2>1, <2>3, <3>2
    <2> QED
      BY <2>4, <2>5
  <1>2. CASE f = e
    <2>1. CASE pc[e] = "add"
      <3>1. /\ UNCHANGED unix
            /\ count'[Bucket(ts[e])] = [count[Bucket(ts[e])] EXCEPT ![Kind[e]] = @ \cup {e}]
        BY <2>1, CountMoves
      <3>2. unix[Bucket(ts[e])] = ts[e]
        BY <2>1 DEF ResetIsExclusive
      <3> QED
        BY <1>2, <1>t, <3>1, <3>2
    <2>2. CASE pc[e] = "unix"
      <3>1. UNCHANGED count /\ unix'[Bucket(ts[e])] = ts[e]
        BY <2>2, CountMoves, UnixMoves
      <3>2. /\ count[Bucket(ts[e])]["success"] = {g \in {e} : Kind[g] = "success"}
            /\ count[Bucket(ts[e])]["error"] = {g \in {e} : Kind[g] = "error"}
        BY <2>2 DEF BucketsAreOfTheirSecond
      <3> QED
        BY <1>2, <1>t, <3>1, <3>2 DEF Kinds
    <2> QED
      BY <1>2, <2>1, <2>2, NoDiscard
  <1> QED
    BY <1>1, <1>2

\* Every step keeps the buckets to their seconds.
LEMMA BucketsStep ==
  ASSUME IndInv, [Next]_vars, ~wrapped'
  PROVE  BucketsAreOfTheirSecond'
  <1>0. TypeOK /\ ClockIsAhead /\ RingIsLarge /\ ResetIsExclusive /\ BucketsAreOfTheirSecond
    BY Unwrapped
  <1>1. ASSUME NEW e \in Events, Record(e) PROVE BucketsAreOfTheirSecond'
    <2>1. /\ pc[e] = "new" /\ pc'[e] = "load"
          /\ \A f \in Events \ {e} : pc'[f] = pc[f] /\ ts'[f] = ts[f]
          /\ UNCHANGED <<unix, count, lastSync>>
      BY <1>0, <1>1, RecordBegins, RecordLeaves
    <2>2. \A s \in Slots : \A k \in Kinds : count[s][k] \subseteq Events
      BY <1>0 DEF TypeOK
    <2>3. ASSUME NEW s \in Slots, unix'[s] # updating, NEW k \in Kinds, NEW f \in count'[s][k]
          PROVE  ts'[f] = unix'[s] /\ pc'[f] = "done"
      BY <1>0, <2>1, <2>2, <2>3 DEF BucketsAreOfTheirSecond
    <2>4. ASSUME NEW f \in Events
          PROVE  LET c == count'[Bucket(ts'[f])] IN
                 /\ pc'[f] \in {"error", "unix"} => c["success"] = {g \in {f} : Kind[g] = "success"}
                 /\ pc'[f] = "unix" => c["error"] = {g \in {f} : Kind[g] = "error"}
                 /\ pc'[f] = "done" /\ Oldest' <= ts'[f] =>
                       unix'[Bucket(ts'[f])] = ts'[f] /\ f \in c[Kind[f]]
      <3>1. CASE f = e
        BY <2>1, <3>1
      <3>2. CASE f # e
        <4>1. pc'[f] = pc[f] /\ ts'[f] = ts[f] /\ Oldest' = Oldest
          BY <2>1, <3>2 DEF Oldest
        <4> QED
          BY <1>0, <2>1, <4>1 DEF BucketsAreOfTheirSecond
      <3> QED
        BY <3>1, <3>2
    <2> QED
      BY <2>3, <2>4 DEF BucketsAreOfTheirSecond
  <1>2. ASSUME NEW e \in Events, RecordStep(e) PROVE BucketsAreOfTheirSecond'
    <2>1. UNCHANGED <<ts, lastSync>>
      BY <1>0, <1>2, RecordMoves, RecordLeaves
    <2>2. Oldest' = Oldest
      BY <2>1 DEF Oldest
    <2>3. ASSUME NEW s \in Slots, unix'[s] # updating, NEW k \in Kinds, NEW f \in count'[s][k]
          PROVE  ts'[f] = unix'[s] /\ pc'[f] = "done"
      BY <1>0, <1>2, <2>3, CleanRecordStep
    <2>4. ASSUME NEW f \in Events
          PROVE  LET c == count'[Bucket(ts'[f])] IN
                 /\ pc'[f] \in {"error", "unix"} => c["success"] = {g \in {f} : Kind[g] = "success"}
                 /\ pc'[f] = "unix" => c["error"] = {g \in {f} : Kind[g] = "error"}
                 /\ pc'[f] = "done" /\ Oldest' <= ts'[f] =>
                       unix'[Bucket(ts'[f])] = ts'[f] /\ f \in c[Kind[f]]
      <3>1. ts'[f] = ts[f]
        BY <2>1
      <3>2. pc'[f] = "done" /\ Oldest <= ts[f] =>
              unix'[Bucket(ts[f])] = ts[f] /\ f \in count'[Bucket(ts[f])][Kind[f]]
        BY <1>0, <1>2, DoneCounts
      <3>3. pc'[f] \in {"error", "unix"} =>
               /\ count'[Bucket(ts[f])]["success"] = {g \in {f} : Kind[g] = "success"}
               /\ pc'[f] = "unix" => count'[Bucket(ts[f])]["error"] = {g \in {f} : Kind[g] = "error"}
        BY <1>0, <1>2, ResetCounts
      <3> QED
        BY <2>2, <3>1, <3>2, <3>3
    <2> QED
      BY <2>3, <2>4 DEF BucketsAreOfTheirSecond
  <1>3. CASE UNCHANGED <<unix, count, pc, ts>>
    <2>1. Oldest' \in Nat /\ Oldest <= Oldest' /\ Oldest \in Nat /\ \A f \in Events : ts[f] \in Nat
      BY <1>0, OldestStep, Numbers
    <2>2. \A f \in Events : Oldest' <= ts[f] => Oldest <= ts[f]
      BY <2>1
    <2> QED
      BY <1>0, <1>3, <2>2 DEF BucketsAreOfTheirSecond
  <1>4. CASE Tick \/ Flushes \/ UNCHANGED vars
    BY <1>3, <1>4, FlushLeaves DEF Tick, vars, ring, recorders
  <1> QED
    BY <1>1, <1>2, <1>4, Steps
-----------------------------------------------------------------------------
(* What a flush reads *)

\* A second that a flush covers has not been flushed.
LEMMA CoveredIsOpen ==
  ASSUME TypeOK, ClockIsAhead, fpc # "idle", NEW t \in Times \cup {0}, Covered(t)
  PROVE  Oldest <= t /\ lastSync < t /\ t < now
  <1>n. /\ now \in Nat /\ lastSync \in Nat /\ StartTime \in Nat /\ window.to \in Nat /\ MaxTime \in Nat
    BY Numbers
  <1>1. window.from = lastSync + 1 /\ window.to < now
    BY DEF ClockIsAhead
  <1> QED
    BY <1>n, <1>1 DEF Covered, Oldest, Times

\* What a Flush under way has read of a bucket.
LEMMA SnapParts ==
  ASSUME TypeOK
  PROVE  /\ SnapEvents \subseteq Events /\ snap.start \in Times \cup {0} /\ slot \in Slots
         /\ \A d \in data : d.event \in Events /\ d.unit \in Units /\ d.key \in Keys
         /\ \A e \in Events : ts[e] \in Times \cup {0}
         /\ prompt \subseteq Events
  BY DEF TypeOK, SnapEvents

\* Every step keeps the snapshots clean.
LEMMA CleanStep ==
  ASSUME IndInv, [Next]_vars, ~wrapped'
  PROVE  SnapshotsAreClean'
  <1>0. /\ TypeOK /\ ClockIsAhead /\ RingIsLarge /\ ResetIsExclusive /\ BucketsAreOfTheirSecond
        /\ SnapshotsAreClean
    BY Unwrapped
  <1>t. /\ SnapEvents \subseteq Events /\ snap.start \in Times \cup {0} /\ slot \in Slots
        /\ \A d \in data : d.event \in Events /\ d.unit \in Units
    BY <1>0, SnapParts
  <1>1. ASSUME UNCHANGED <<fpc, window, snap, slot, data>>,
               \A f \in Events : pc[f] = "done" => pc'[f] = "done" /\ ts'[f] = ts[f],
               Reading /\ Covered(snap.start) => unix'[slot] = unix[slot]
        PROVE  SnapshotsAreClean'
    <2>1. Reading' = Reading /\ SnapEvents' = SnapEvents /\ \A t : Covered(t)' = Covered(t)
      BY <1>1 DEF Reading, SnapEvents, Covered
    <2>2. Reading' /\ Covered(snap.start)' =>
            /\ unix'[slot'] = snap'.start
            /\ \A e \in SnapEvents' : ts'[e] = snap'.start /\ pc'[e] = "done"
      BY <1>0, <1>1, <1>t, <2>1 DEF SnapshotsAreClean
    <2>3. ASSUME NEW d \in data'
          PROVE  /\ Covered(ts[d.event])' /\ pc'[d.event] = "done"
                 /\ d.key = KeyOf(d.unit, ts'[d.event])
      <3>1. /\ d \in data /\ d.event \in Events /\ Covered(ts[d.event]) /\ pc[d.event] = "done"
            /\ d.key = KeyOf(d.unit, ts[d.event])
        BY <1>0, <1>1, <1>t, <2>3 DEF SnapshotsAreClean
      <3>2. ts'[d.event] = ts[d.event] /\ pc'[d.event] = "done"
        BY <1>1, <3>1
      <3> QED
        BY <1>1, <3>1, <3>2 DEF Covered
    <2> QED
      BY <2>2, <2>3 DEF SnapshotsAreClean
  <1>2. CASE Tick \/ UNCHANGED vars
    BY <1>1, <1>2 DEF Tick, vars, ring, recorders, flush
  <1>3. ASSUME NEW e \in Events, Record(e) PROVE SnapshotsAreClean'
    BY <1>0, <1>1, <1>3, RecordBegins, RecordLeaves
  <1>4. ASSUME NEW e \in Events, RecordStep(e) PROVE SnapshotsAreClean'
    <2>1. /\ UNCHANGED <<fpc, window, snap, slot, data, ts>>
          /\ \A f \in Events : pc[f] = "done" => pc'[f] = "done"
      BY <1>0, <1>4, RecordMoves, RecordLeaves DEF Active
    <2>2. ASSUME Reading, Covered(snap.start) PROVE unix'[slot] = unix[slot]
      <3>1. Oldest <= snap.start /\ unix[slot] = snap.start
        BY <1>0, <1>t, <2>2, CoveredIsOpen DEF Reading, SnapshotsAreClean
      <3>2. snap.start # updating
        BY <1>t, CircuitBreakerAssumption DEF Times, updating
      <3> QED
        BY <1>0, <1>4, <1>t, <3>1, <3>2, OpenBucketStays
    <2> QED
      BY <1>1, <2>1, <2>2
  <1>5. CASE Flushes
    <2>0. UNCHANGED <<unix, count, pc, ts>>
      BY <1>5, FlushLeaves
    <2>1. ASSUME data' \subseteq data, UNCHANGED window \/ data' = {},
                 Reading' /\ Covered(snap.start)' =>
                    /\ unix[slot'] = snap'.start
                    /\ \A e \in SnapEvents' : ts[e] = snap'.start /\ pc[e] = "done"
          PROVE  SnapshotsAreClean'
      <3>1. ASSUME NEW d \in data'
            PROVE  /\ Covered(ts[d.event])' /\ pc'[d.event] = "done"
                   /\ d.key = KeyOf(d.unit, ts'[d.event])
        BY <1>0, <2>0, <2>1, <3>1 DEF SnapshotsAreClean, Covered
      <3> QED
        BY <2>0, <2>1, <3>1 DEF SnapshotsAreClean
    <2>2. CASE Flush
      <3>1. fpc = "idle" /\ fpc' = "start" /\ UNCHANGED data
        BY <2>2 DEF Flush
      <3>2. data' = {} /\ ~Reading'
        BY <1>0, <3>1 DEF ClockIsAhead, Reading
      <3> QED
        BY <2>1, <3>2
    <2>3. CASE SnapStart
      <3>1. /\ snap' = [start |-> unix[slot], success |-> {}, error |-> {}]
            /\ UNCHANGED <<window, slot, data>>
        BY <2>3 DEF SnapStart, NoSnap
      <3>2. snap'.start = unix[slot] /\ SnapEvents' = {}
        BY <3>1 DEF SnapEvents
      <3> QED
        BY <2>1, <3>1, <3>2
    <2>4. CASE SnapSuccess \/ SnapError
      <3>1. /\ Reading /\ UNCHANGED <<window, slot, data>>
            /\ \/ snap' = [snap EXCEPT !.success = count[slot]["success"]]
               \/ snap' = [snap EXCEPT !.error = count[slot]["error"]]
        BY <2>4 DEF SnapSuccess, SnapError, Reading
      <3>2. /\ snap'.start = snap.start
            /\ SnapEvents' \subseteq SnapEvents \cup count[slot]["success"] \cup count[slot]["error"]
        BY <1>0, <3>1 DEF SnapEvents, TypeOK
      <3>3. ASSUME Covered(snap.start)'
            PROVE  /\ unix[slot'] = snap'.start
                   /\ \A e \in SnapEvents' : ts[e] = snap'.start /\ pc[e] = "done"
        <4>1. Covered(snap.start)
          BY <3>1, <3>2, <3>3 DEF Covered
        <4>2. unix[slot] = snap.start /\ \A e \in SnapEvents : ts[e] = snap.start /\ pc[e] = "done"
          BY <1>0, <3>1, <4>1 DEF SnapshotsAreClean
        <4>3. snap.start # updating
          BY <1>t, CircuitBreakerAssumption DEF Times, updating
        <4>4. \A e \in count[slot]["success"] \cup count[slot]["error"] :
                 ts[e] = snap.start /\ pc[e] = "done"
          BY <1>0, <1>t, <4>2, <4>3 DEF BucketsAreOfTheirSecond, Kinds
        <4> QED
          BY <3>1, <3>2, <4>2, <4>4
      <3> QED
        BY <2>1, <3>1, <3>3
    <2>5. CASE Aggregate
      <3>1. /\ fpc = "aggregate" /\ fpc' \in {"start", "exec"} /\ UNCHANGED window
            /\ data' = IF Covered(snap.start)
                         THEN data \cup [unit : {unit}, key : {KeyOf(unit, snap.start)},
                                         event : SnapEvents]
                         ELSE data
        BY <2>5 DEF Aggregate
      <3>2. ~Reading'
        BY <3>1 DEF Reading
      <3>3. ASSUME NEW d \in data'
            PROVE  /\ Covered(ts[d.event])' /\ pc'[d.event] = "done"
                   /\ d.key = KeyOf(d.unit, ts'[d.event])
        <4>1. CASE d \in data
          BY <1>0, <2>0, <3>1, <4>1 DEF SnapshotsAreClean, Covered
        <4>2. CASE d \notin data
          <5>1. /\ Covered(snap.start) /\ d.unit = unit /\ d.key = KeyOf(unit, snap.start)
                /\ d.event \in SnapEvents
            BY <3>1, <3>3, <4>2
          <5>2. ts[d.event] = snap.start /\ pc[d.event] = "done"
            BY <1>0, <3>1, <5>1 DEF SnapshotsAreClean, Reading
          <5> QED
            BY <2>0, <3>1, <5>1, <5>2 DEF Covered
        <4> QED
          BY <4>1, <4>2
      <3> QED
        BY <3>2, <3>3 DEF SnapshotsAreClean
    <2>6. CASE Exec \/ ExecFails
      <3>1. data' = {} /\ ~Reading'
        BY <2>6 DEF Exec, ExecFails, FlushReturns, Reading
      <3> QED
        BY <2>1, <3>1
    <2> QED
      BY <1>5, <2>2, <2>3, <2>4, <2>5, <2>6 DEF Flushes, FlushStep
  <1> QED
    BY <1>2, <1>3, <1>4, <1>5, Steps
\* The walk passes one bucket at a time.
LEMMA WalkStep ==
  ASSUME TypeOK, ClockIsAhead, Aggregate, NEW u \in Units, NEW s \in Slots, Passed(u, s)'
  PROVE  Passed(u, s) \/ (u = unit /\ s = slot)
  <1>1. /\ fpc = "aggregate" /\ slot' = (slot + 1) % Size
        /\ IF slot < Size - 1   THEN fpc' = "start" /\ unit' = unit
           ELSE IF unit = "hour" THEN fpc' = "start" /\ unit' = "minute"
                                 ELSE fpc' = "exec" /\ unit' = unit
    BY DEF Aggregate
  <1>2. /\ Size \in Nat /\ Size > 0 /\ slot \in 0 .. Size - 1 /\ s \in 0 .. Size - 1
        /\ unit \in {"hour", "minute"} /\ u \in {"hour", "minute"}
    BY CircuitBreakerAssumption DEF TypeOK, Slots, Units
  <1>3. fpc' = "exec" \/ (unit' = "minute" /\ u = "hour") \/ (u = unit' /\ s < slot')
    BY DEF Passed
  <1>4. CASE slot < Size - 1
    <2>1. (slot + 1) % Size = slot + 1
      BY <1>2, <1>4
    <2> QED
      BY <1>1, <1>2, <1>3, <1>4, <2>1 DEF Passed
  <1>5. CASE ~(slot < Size - 1)
    <2>1. slot = Size - 1 /\ Size % Size = 0
      BY <1>2, <1>5
    <2>2. slot' = 0 /\ s <= slot
      BY <1>1, <1>2, <2>1
    <2>3. s < slot \/ s = slot
      BY <1>2, <2>2
    <2>4. ~(s < slot')
      BY <1>2, <2>2
    <2> QED
      BY <1>1, <1>2, <1>3, <1>5, <2>3, <2>4 DEF Passed
  <1> QED
    BY <1>4, <1>5

\* What the invariant says of one event.
Complete(e) ==
    fpc # "idle" /\ Covered(ts[e]) =>
        /\ \A u \in Units : Passed(u, Bucket(ts[e])) =>
              [unit |-> u, key |-> KeyOf(u, ts[e]), event |-> e] \in data
        /\ Reading /\ slot = Bucket(ts[e]) =>
              /\ snap.start = ts[e]
              /\ fpc # "success" /\ Kind[e] = "success" => e \in snap.success
              /\ fpc = "aggregate" /\ Kind[e] = "error" => e \in snap.error

\* A step of the flush leaves out no event of its window.
LEMMA CompleteFlushStep ==
  ASSUME TypeOK, ClockIsAhead, BucketsAreOfTheirSecond, SnapshotsAreComplete, Flushes,
         NEW e \in prompt
  PROVE  Complete(e)'
  <1> DEFINE s == Bucket(ts[e])
  <1>t. /\ e \in Events /\ Kind[e] \in Kinds /\ ts[e] \in Times \cup {0} /\ s \in Slots
        /\ slot \in Slots /\ unit \in Units
    BY Numbers, SnapParts, CircuitBreakerAssumption DEF TypeOK
  <1>0. UNCHANGED <<unix, count, pc, ts, now>>
    BY FlushLeaves
  <1>1. Complete(e)
    BY DEF SnapshotsAreComplete, Complete
  <1>2. pc[e] = "done"
    BY DEF ClockIsAhead
  <1>3. ASSUME fpc # "idle", Covered(ts[e]) PROVE unix[s] = ts[e] /\ e \in count[s][Kind[e]]
    <2>1. Oldest <= ts[e]
      BY <1>3, <1>t, CoveredIsOpen
    <2> QED
      BY <1>2, <1>t, <2>1 DEF BucketsAreOfTheirSecond
  <1>4. CASE Flush
    <2>1. fpc' = "start" /\ unit' = "hour" /\ slot' = 0
      BY <1>4 DEF Flush, ClockIsAhead
    <2>2. ~Reading' /\ ~(s < slot')
      BY <1>t, <2>1, CircuitBreakerAssumption DEF Reading, Slots
    <2>3. \A u \in Units : ~Passed(u, s)'
      BY <1>0, <2>1, <2>2 DEF Passed
    <2> QED
      BY <1>0, <2>2, <2>3 DEF Complete
  <1>5. CASE SnapStart
    <2>1. /\ fpc = "start" /\ fpc' = "success" /\ UNCHANGED <<window, unit, slot, data>>
          /\ snap' = [start |-> unix[slot], success |-> {}, error |-> {}]
      BY <1>5 DEF SnapStart, NoSnap
    <2>2. snap'.start = unix[slot]
      BY <2>1
    <2>3. Covered(ts[e])' = Covered(ts[e]) /\ \A u \in Units : Passed(u, s)' = Passed(u, s)
      BY <1>0, <2>1 DEF Covered, Passed
    <2> QED
      BY <1>0, <1>1, <1>3, <2>1, <2>2, <2>3 DEF Complete
  <1>6. CASE SnapSuccess
    <2>1. /\ fpc = "success" /\ fpc' = "error" /\ UNCHANGED <<window, unit, slot, data>>
          /\ snap' = [snap EXCEPT !.success = count[slot]["success"]]
      BY <1>6 DEF SnapSuccess
    <2>2. snap'.start = snap.start /\ snap'.success = count[slot]["success"]
      BY <2>1 DEF TypeOK
    <2>3. /\ Covered(ts[e])' = Covered(ts[e]) /\ (\A u \in Units : Passed(u, s)' = Passed(u, s))
          /\ Reading
      BY <1>0, <2>1 DEF Covered, Passed, Reading
    <2> QED
      BY <1>0, <1>1, <1>3, <2>1, <2>2, <2>3 DEF Complete
  <1>7. CASE SnapError
    <2>1. /\ fpc = "error" /\ fpc' = "aggregate" /\ UNCHANGED <<window, unit, slot, data>>
          /\ snap' = [snap EXCEPT !.error = count[slot]["error"]]
      BY <1>7 DEF SnapError
    <2>2. /\ snap'.start = snap.start /\ snap'.success = snap.success
          /\ snap'.error = count[slot]["error"]
      BY <2>1 DEF TypeOK
    <2>3. /\ Covered(ts[e])' = Covered(ts[e]) /\ (\A u \in Units : Passed(u, s)' = Passed(u, s))
          /\ Reading
      BY <1>0, <2>1 DEF Covered, Passed, Reading
    <2> QED
      BY <1>0, <1>1, <1>3, <2>1, <2>2, <2>3 DEF Complete
  <1>8. CASE Aggregate
    <2>1. /\ fpc = "aggregate" /\ fpc' \in {"start", "exec"} /\ UNCHANGED window
          /\ data' = IF Covered(snap.start)
                       THEN data \cup [unit : {unit}, key : {KeyOf(unit, snap.start)},
                                       event : SnapEvents]
                       ELSE data
      BY <1>8 DEF Aggregate
    <2>2. ~Reading' /\ Reading /\ (Covered(ts[e])' = Covered(ts[e]))
      BY <1>0, <2>1 DEF Reading, Covered
    <2>3. ASSUME Covered(ts[e]), NEW u \in Units, Passed(u, s)'
          PROVE  [unit |-> u, key |-> KeyOf(u, ts[e]), event |-> e] \in data'
      <3>1. CASE Passed(u, s)
        BY <1>1, <2>1, <2>3, <3>1 DEF Complete
      <3>2. CASE u = unit /\ s = slot
        <4>1. /\ snap.start = ts[e] /\ (Kind[e] = "success" => e \in snap.success)
              /\ (Kind[e] = "error" => e \in snap.error)
          BY <1>1, <2>1, <2>2, <2>3, <3>2 DEF Complete
        <4>2. e \in SnapEvents
          BY <1>t, <4>1 DEF SnapEvents, Kinds
        <4> QED
          BY <2>1, <2>3, <3>2, <4>1, <4>2
      <3>3. Passed(u, s)' => Passed(u, s) \/ (u = unit /\ s = slot)
        <4>1. PICK r \in Slots : r = s
          BY <1>t
        <4>2. Passed(u, r)'
          BY <1>0, <2>3, <4>1 DEF Passed
        <4>3. Passed(u, r) \/ (u = unit /\ r = slot)
          BY <1>8, <4>2, WalkStep
        <4> QED
          BY <4>1, <4>3 DEF Passed
      <3> QED
        BY <2>3, <3>1, <3>2, <3>3
    <2>4. Bucket(ts[e])' = s
      BY <1>0 DEF Bucket
    <2> QED
      BY <1>0, <2>2, <2>3, <2>4 DEF Complete
  <1>9. CASE Exec \/ ExecFails
    BY <1>9 DEF Exec, ExecFails, FlushReturns, Complete
  <1> QED
    BY <1>4, <1>5, <1>6, <1>7, <1>8, <1>9 DEF Flushes, FlushStep

\* Every step keeps the snapshots complete.
LEMMA CompleteStep ==
  ASSUME IndInv, [Next]_vars, ~wrapped'
  PROVE  SnapshotsAreComplete'
  <1>0. TypeOK /\ ClockIsAhead /\ BucketsAreOfTheirSecond /\ SnapshotsAreComplete
    BY Unwrapped
  <1>p. prompt \subseteq Events /\ \A e \in prompt : pc[e] = "done"
    BY <1>0, SnapParts DEF ClockIsAhead
  <1>n. now \in Nat /\ window.to \in Nat
    BY <1>0, Numbers
  <1> SUFFICES ASSUME NEW e \in prompt' PROVE Complete(e)'
    BY DEF SnapshotsAreComplete, Complete
  <1>1. ASSUME e \in prompt, ts'[e] = ts[e], UNCHANGED <<fpc, window, unit, slot, snap, data>>
        PROVE  Complete(e)'
    <2>1. Complete(e)
      BY <1>0, <1>1 DEF SnapshotsAreComplete, Complete
    <2> QED
      BY <1>1, <2>1 DEF Complete, Covered, Passed, Reading
  <1>2. CASE Tick \/ UNCHANGED vars
    BY <1>1, <1>2 DEF Tick, vars, recorders, flush, hist
  <1>3. ASSUME NEW f \in Events, Record(f) PROVE Complete(e)'
    BY <1>0, <1>1, <1>3, <1>p, RecordBegins, RecordLeaves
  <1>4. ASSUME NEW f \in Events, RecordStep(f) PROVE Complete(e)'
    <2>1. UNCHANGED <<ts, now, fpc, window, unit, slot, snap, data>>
      BY <1>0, <1>4, RecordMoves, RecordLeaves
    <2>2. CASE e \in prompt
      BY <1>1, <2>1, <2>2
    <2>3. CASE e \notin prompt
      <3>1. ts[e] = now
        BY <1>0, <1>4, <2>3, RecordMoves
      <3>2. fpc # "idle" => ~Covered(ts[e])
        BY <1>0, <1>n, <3>1 DEF ClockIsAhead, Covered
      <3>3. fpc' # "idle" => ~Covered(ts[e])'
        BY <2>1, <3>2 DEF Covered
      <3> QED
        BY <3>3 DEF Complete
    <2> QED
      BY <2>2, <2>3
  <1>5. CASE Flushes
    <2>1. e \in prompt
      BY <1>5, FlushLeaves
    <2> QED
      BY <1>0, <1>5, <2>1, CompleteFlushStep
  <1> QED
    BY <1>2, <1>3, <1>4, <1>5, Steps
-----------------------------------------------------------------------------
(* What Redis has counted *)

\* The end of a flush, as far as the counts are concerned: an event is counted
\* once more if it was in the flush, which it is for one key of each unit.
LEMMA FlushCounts ==
  ASSUME TypeOK, ClockIsAhead, SnapshotsAreClean, Exec \/ ExecFails,
         NEW u \in Units, NEW e \in Events, NEW k \in Keys
  PROVE  /\ redis[u][e][k] \in Nat /\ redis'[u][e][k] \in Nat
         /\ redis[u][e][k] <= redis'[u][e][k] /\ redis'[u][e][k] <= redis[u][e][k] + 1
         /\ redis'[u][e][k] # redis[u][e][k] =>
               /\ k = KeyOf(u, ts[e]) /\ Covered(ts[e]) /\ pc[e] = "done"
               /\ e \in repeated' \/ Exec
         /\ Exec /\ [unit |-> u, key |-> k, event |-> e] \in data =>
               redis'[u][e][k] = redis[u][e][k] + 1
  <1> DEFINE x == [unit |-> u, key |-> k, event |-> e]
  <1>1. PICK D \in SUBSET data : Increment(D) /\ (Exec => D = data)
    <2>1. CASE Exec
      BY <2>1 DEF Exec
    <2>2. CASE ~Exec
      BY <2>2 DEF ExecFails
    <2> QED
      BY <2>1, <2>2
  <1>2. redis'[u][e][k] = redis[u][e][k] + IF x \in D THEN 1 ELSE 0
    BY <1>1, Incremented
  <1>3. redis[u][e][k] \in Nat
    BY DEF TypeOK
  <1>4. ASSUME x \in data
        PROVE  k = KeyOf(u, ts[e]) /\ Covered(ts[e]) /\ pc[e] = "done" /\ (e \in repeated' \/ Exec)
    <2>1. x.event = e /\ x.unit = u /\ x.key = k
      OBVIOUS
    <2>2. Covered(ts[x.event]) /\ pc[x.event] = "done" /\ x.key = KeyOf(x.unit, ts[x.event])
      BY <1>4 DEF SnapshotsAreClean
    <2>3. x.event \in repeated' \/ Exec
      BY <1>4 DEF ExecFails
    <2> QED
      BY <2>1, <2>2, <2>3
  <1> HIDE DEF x
  <1>5. x \in D => x \in data
    BY <1>1
  <1>6. redis'[u][e][k] = redis[u][e][k] \/ (redis'[u][e][k] = redis[u][e][k] + 1 /\ x \in D)
    <2>1. CASE x \in D
      BY <1>2, <2>1
    <2>2. CASE x \notin D
      BY <1>2, <1>3, <2>2
    <2> QED
      BY <2>1, <2>2
  <1>7. redis'[u][e][k] \in Nat /\ redis[u][e][k] <= redis'[u][e][k]
        /\ redis'[u][e][k] <= redis[u][e][k] + 1
    BY <1>3, <1>6
  <1>8. Exec /\ x \in data => redis'[u][e][k] = redis[u][e][k] + 1
    BY <1>1, <1>2
  <1> QED
    BY <1>3, <1>4, <1>5, <1>6, <1>7, <1>8 DEF x

\* Redis changes at the end of a flush only.
LEMMA RedisMoves ==
  ASSUME [Next]_vars
  PROVE  Exec \/ ExecFails \/ UNCHANGED <<redis, lastSync, repeated>>
  BY ZenonT(90) DEF Next, Tick, Record, RecordStep, LoadUnix, Add, CompareAndSwap, Store,
     StoreUnix, Return, Flush, FlushStep, SnapStart, SnapSuccess, SnapError, Aggregate, vars, hist

\* An event changes when its Record begins, and is done within its second at
\* the current second only.
LEMMA EventMoves ==
  ASSUME TypeOK, ClockIsAhead, [Next]_vars, NEW e \in Events
  PROVE  /\ \/ pc[e] = "new" /\ ts'[e] = now
            \/ ts'[e] = ts[e] /\ (pc[e] # "new" => pc'[e] # "new")
         /\ e \in prompt' => ts'[e] = ts[e] /\ (e \in prompt \/ ts[e] = now)
  <1>1. CASE Tick \/ Flushes \/ UNCHANGED vars
    <2>1. UNCHANGED <<pc, ts, prompt>>
      BY <1>1, FlushLeaves DEF Tick, vars, recorders, hist
    <2> QED
      BY <2>1
  <1>2. ASSUME NEW f \in Events, Record(f)
        PROVE  /\ \/ pc[e] = "new" /\ ts'[e] = now
                  \/ ts'[e] = ts[e] /\ (pc[e] # "new" => pc'[e] # "new")
               /\ e \in prompt' => ts'[e] = ts[e] /\ (e \in prompt \/ ts[e] = now)
    <2>1. e \in prompt => pc[e] = "done"
      BY DEF ClockIsAhead
    <2> QED
      BY <1>2, <2>1, RecordBegins
  <1>3. ASSUME NEW f \in Events, RecordStep(f)
        PROVE  /\ ts'[e] = ts[e] /\ (pc[e] # "new" => pc'[e] # "new")
               /\ e \in prompt' => e \in prompt \/ ts[e] = now
    BY <1>3, RecordMoves
  <1> QED
    BY <1>1, <1>2, <1>3, Steps
\* Every step counts the events of flushed seconds only.
LEMMA UncountedStep ==
  ASSUME IndInv, [Next]_vars, ~wrapped'
  PROVE  OpenIsUncounted'
  <1>0. TypeOK /\ ClockIsAhead /\ SnapshotsAreClean /\ OpenIsUncounted
    BY Unwrapped
  <1>n. /\ now \in Nat /\ lastSync \in Nat /\ lastSync' \in Nat /\ lastSync <= lastSync'
        /\ window.to \in Nat /\ \A e \in Events : ts[e] \in Nat
    BY <1>0, Numbers, OldestStep
  <1> SUFFICES ASSUME NEW e \in Events \ repeated', pc'[e] = "new" \/ ts'[e] > lastSync',
                      NEW u \in Units, NEW k \in Keys
               PROVE  redis'[u][e][k] = 0
    BY DEF OpenIsUncounted
  <1>1. repeated \subseteq repeated'
    BY RedisMoves DEF Exec, ExecFails, hist
  <1>2. pc[e] = "new" \/ ts[e] > lastSync
    <2>1. CASE pc[e] # "new"
      <3>1. ts'[e] = ts[e] /\ pc'[e] # "new"
        BY <1>0, <2>1, EventMoves
      <3> QED
        BY <1>n, <3>1
    <2> QED
      BY <2>1
  <1>3. redis[u][e][k] = 0
    BY <1>0, <1>1, <1>2 DEF OpenIsUncounted
  <1>4. CASE Exec \/ ExecFails
    <2> SUFFICES ASSUME redis'[u][e][k] # redis[u][e][k] PROVE FALSE
      BY <1>3
    <2>1. Covered(ts[e]) /\ pc[e] = "done" /\ (e \in repeated' \/ Exec)
      BY <1>0, <1>4, FlushCounts
    <2>2. Exec
      BY <2>1
    <2>3. lastSync' = window.to /\ UNCHANGED <<pc, ts>>
      BY <2>2 DEF Exec, recorders
    <2> QED
      BY <1>n, <2>1, <2>3 DEF Covered
  <1>5. CASE UNCHANGED redis
    BY <1>3, <1>5
  <1> QED
    BY <1>4, <1>5, RedisMoves

\* Every step counts an event once, under its key.
LEMMA CountedStep ==
  ASSUME IndInv, [Next]_vars, ~wrapped'
  PROVE  \A u \in Units : \A e \in Events \ repeated' : \A k \in Keys :
            redis'[u][e][k] <= IF k = KeyOf(u, ts'[e]) THEN 1 ELSE 0
  <1>0. TypeOK /\ ClockIsAhead /\ SnapshotsAreClean /\ OpenIsUncounted /\ CountedOnce /\ ~wrapped
    BY Unwrapped
  <1> SUFFICES ASSUME NEW u \in Units, NEW e \in Events \ repeated', NEW k \in Keys
               PROVE  redis'[u][e][k] <= IF k = KeyOf(u, ts'[e]) THEN 1 ELSE 0
    OBVIOUS
  <1>n. /\ lastSync \in Nat /\ window.to \in Nat /\ ts[e] \in Nat /\ redis[u][e][k] \in Nat
    BY <1>0, Numbers DEF TypeOK
  <1>1. e \in Events \ repeated
    BY RedisMoves DEF Exec, ExecFails, hist
  <1>2. redis[u][e][k] <= IF k = KeyOf(u, ts[e]) THEN 1 ELSE 0
    BY <1>0, <1>1, Zenon DEF CountedOnce
  <1>3. CASE UNCHANGED redis
    <2>1. CASE ts'[e] = ts[e]
      BY <1>2, <1>3, <2>1
    <2>2. CASE ts'[e] # ts[e]
      <3>1. redis[u][e][k] = 0
        BY <1>0, <1>1, <2>2, EventMoves DEF OpenIsUncounted
      <3> QED
        BY <1>3, <3>1
    <2> QED
      BY <2>1, <2>2
  <1>4. CASE Exec \/ ExecFails
    <2>0. UNCHANGED ts
      BY <1>4 DEF Exec, ExecFails, recorders
    <2>1. CASE redis'[u][e][k] = redis[u][e][k]
      BY <1>2, <2>0, <2>1
    <2>2. CASE redis'[u][e][k] # redis[u][e][k]
      <3>1. /\ k = KeyOf(u, ts[e]) /\ Covered(ts[e]) /\ redis'[u][e][k] <= redis[u][e][k] + 1
        BY <1>0, <1>4, <2>2, FlushCounts
      <3>2. fpc = "exec"
        BY <1>4 DEF Exec, ExecFails, FlushReturns
      <3>3. ts[e] > lastSync
        BY <1>0, <1>n, <3>1, <3>2 DEF ClockIsAhead, Covered
      <3>4. redis[u][e][k] = 0
        BY <1>0, <1>1, <3>3 DEF OpenIsUncounted
      <3>5. redis'[u][e][k] <= 1
        BY <3>1, <3>4
      <3> QED
        BY <2>0, <3>1, <3>5
    <2> QED
      BY <2>1, <2>2
  <1> QED
    BY <1>3, <1>4, RedisMoves

\* Every step that ends a flush has counted all that it covers.
LEMMA SyncedStep ==
  ASSUME IndInv, [Next]_vars, ~wrapped'
  PROVE  \A u \in Units : \A e \in prompt' :
            ts'[e] <= lastSync' => redis'[u][e][KeyOf(u, ts'[e])] > 0
  <1>0. /\ TypeOK /\ ClockIsAhead /\ SnapshotsAreClean /\ SnapshotsAreComplete /\ SyncedIsCounted
        /\ ~wrapped
    BY Unwrapped
  <1>t. TypeOK'
    BY <1>0, TypeStep
  <1> SUFFICES ASSUME NEW u \in Units, NEW e \in prompt', ts'[e] <= lastSync'
               PROVE  redis'[u][e][KeyOf(u, ts'[e])] > 0
    OBVIOUS
  <1> DEFINE k == KeyOf(u, ts[e])
  <1>e. e \in Events
    BY <1>t DEF TypeOK
  <1>n. /\ now \in Nat /\ lastSync \in Nat /\ window.to \in Nat /\ window.from \in Nat
        /\ ts[e] \in Nat /\ ts[e] <= MaxTime
        /\ lastSync < now
    BY <1>0, <1>e, Numbers DEF ClockIsAhead
  <1>k. k \in Keys /\ redis[u][e][k] \in Nat
    <2>1. ts[e] \in 0 .. MaxTime
      BY <1>n, CircuitBreakerAssumption
    <2>2. k \in Keys
      BY <2>1, KeyType
    <2> QED
      BY <1>0, <1>e, <2>2 DEF TypeOK
  <1>1. ts'[e] = ts[e] /\ (e \in prompt \/ ts[e] = now)
    BY <1>0, <1>e, EventMoves
  <1>2. lastSync' < now
    <2>1. CASE UNCHANGED lastSync
      BY <1>n, <2>1
    <2>2. CASE Exec
      BY <1>0, <2>2 DEF Exec, FlushReturns, ClockIsAhead
    <2> QED
      BY <1>0, <2>1, <2>2, OldestStep
  <1>3. e \in prompt
    BY <1>1, <1>2, <1>n, <1>0, OldestStep
  <1>4. ASSUME ts[e] <= lastSync PROVE redis[u][e][k] > 0
    BY <1>0, <1>3, <1>4, Zenon DEF SyncedIsCounted
  <1> HIDE DEF k
  <1>5. CASE UNCHANGED <<redis, lastSync>>
    BY <1>1, <1>4, <1>5 DEF k
  <1>6. CASE ExecFails \/ Exec
    <2>1. /\ redis'[u][e][k] \in Nat /\ redis[u][e][k] <= redis'[u][e][k]
          /\ Exec /\ [unit |-> u, key |-> k, event |-> e] \in data =>
                redis'[u][e][k] = redis[u][e][k] + 1
      BY <1>0, <1>6, <1>e, <1>k, FlushCounts
    <2>2. CASE ts[e] <= lastSync
      <3>1. redis[u][e][k] > 0
        BY <1>4, <2>2
      <3>2. redis'[u][e][k] > 0
        BY <1>k, <2>1, <3>1
      <3> QED
        BY <1>1, <3>2 DEF k
    <2>3. CASE ~(ts[e] <= lastSync)
      <3>1. Exec
        BY <1>1, <1>6, <2>3 DEF ExecFails
      <3>2. fpc = "exec" /\ lastSync' = window.to
        BY <3>1 DEF Exec, FlushReturns
      <3>3. Covered(ts[e])
        BY <1>0, <1>1, <1>n, <2>3, <3>2 DEF ClockIsAhead, Covered
      <3>4. [unit |-> u, key |-> k, event |-> e] \in data
        BY <1>0, <1>3, <3>2, <3>3 DEF SnapshotsAreComplete, Passed, k
      <3>5. redis'[u][e][k] > 0
        BY <1>k, <2>1, <3>1, <3>4
      <3> QED
        BY <1>1, <3>5 DEF k
    <2> QED
      BY <2>2, <2>3
  <1> QED
    BY <1>5, <1>6, RedisMoves

-----------------------------------------------------------------------------
(* The theorems *)

\* The inductive invariant: events and flushes are of the past, and unless the
\* ring came round, buckets, snapshots and Redis agree on what was counted.
THEOREM Invariance == Spec => []IndInv
  <1>1. Init => IndInv
    BY Initially
  <1>2. IndInv /\ [Next]_vars => IndInv'
    <2> SUFFICES ASSUME IndInv, [Next]_vars PROVE IndInv'
      OBVIOUS
    <2>1. TypeOK'
      BY TypeStep DEF IndInv
    <2>2. ClockIsAhead'
      BY ClockStep
    <2>3. ASSUME ~wrapped'
          PROVE  /\ RingIsLarge' /\ ResetIsExclusive' /\ BucketsAreOfTheirSecond'
                 /\ SnapshotsAreClean' /\ SnapshotsAreComplete' /\ OpenIsUncounted'
      BY <2>3, RingStep, ResetStep, BucketsStep, CleanStep, CompleteStep, UncountedStep
    <2>4. ASSUME ~wrapped' PROVE CountedOnce' /\ SyncedIsCounted'
      BY <2>4, CountedStep, SyncedStep, Zenon DEF CountedOnce, SyncedIsCounted
    <2> QED
      BY <2>1, <2>2, <2>3, <2>4, Zenon DEF IndInv
  <1> QED
    BY <1>1, <1>2, PTL DEF Spec

\* The variables keep their types.
THEOREM TypeCorrectness == Spec => []TypeOK
  <1>1. IndInv => TypeOK
    BY DEF IndInv
  <1> QED
    BY <1>1, Invariance, PTL

\* The lock-free ring never counts an event twice, nor under another minute or
\* hour than its own, as long as a flush comes within one turn of the ring; only
\* a pipeline that failed may be repeated.
THEOREM EventsAreCountedOnce == Spec => []CountedOnce
  <1>1. IndInv => CountedOnce
    BY Zenon DEF IndInv, CountedOnce
  <1> QED
    BY <1>1, Invariance, PTL

\* An event recorded within its second is in both hashes once a flush that
\* succeeded has passed that second.
THEOREM FlushedSecondsAreComplete == Spec => []SyncedIsCounted
  <1>1. IndInv => SyncedIsCounted
    BY Zenon DEF IndInv, SyncedIsCounted
  <1> QED
    BY <1>1, Invariance, PTL
=============================================================================

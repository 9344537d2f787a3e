--------------------------- MODULE BasaVideoProofs ---------------------------
(***************************************************************************)
(* Proofs about a video channel in zero-copy mode, for any number of       *)
(* buffers and any thresholds.  The channel that is started with all of    *)
(* its buffers never lends the engine a place whose buffer is elsewhere.   *)
(***************************************************************************)
EXTENDS BasaVideo, FiniteSetTheorems, WellFoundedInduction, TLAPS

Places == 0..(N - 1)

\* How many places the DMA table has from a to b.
D(a, b) == IF b >= a THEN b - a ELSE N + b - a

\* The tasklet has taken a buffer.
Busy == rpc \in {"check", "return"}

\* The trigger follows the process except while a reset of its stream waits.
TriggerKept == want /\ (wpc = "idle" \/ ~streaming) => trig

\* A reset that waits still has its fault to repair.
FaultKept == wpc = "sleep" => chanFault \/ camFault

\* What belongs to each phase of a stream: there is a table, and a tasklet at
\* work, only while it runs.
Phases ==
    /\ streaming <=> upc = "streaming"
    /\ upc # "streaming" => slots = 0 /\ rpc = "idle"
    /\ upc = "streaming" => slots = N /\ total = N
    /\ upc = "starting" => list = Bufs /\ pending = {} /\ avail = N /\ total = N
    /\ upc = "stopping" => avail = Cardinality(list)
    /\ upc \in {"idle", "waiting"} => list = {} /\ pending = {} /\ avail = 0
    /\ upc = "idle" => total = 0
    /\ wpc = "idle" => retry = 0

\* What the driver has of a stream vb2 knows to be with the driver.
Active ==
    /\ \A b \in list \cup pending : vb[b] = "active"
    /\ Busy => vb[work] = "active"

\* Table and offsets are inverse to each other.
Bound ==
    upc = "streaming" =>
        /\ \A s \in Places : mapped[s] \in Bufs /\ offset[mapped[s]] = s
        /\ \A b \in Bufs : mapped[offset[b]] = b

\* From the head on, the table has the places that are lent, then the frames that
\* the tasklet has not come to, then what the engine may fill.
Layout ==
    upc = "streaming" =>
        /\ D(head, off) <= D(head, tail)
        /\ rpc # "idle" => D(head, off) < D(head, rxTail) /\ D(head, rxTail) <= D(head, tail)
        /\ \A b \in Bufs :
              b \in list <=> D(head, offset[b]) >= D(head, off) /\ ~(Busy /\ b = work)
        /\ \A b \in pending : D(head, offset[b]) < D(head, off)
        /\ Busy => work \in Bufs /\ offset[work] = off
        /\ avail = N - D(head, off) - (IF Busy THEN 1 ELSE 0)

IInv == TypeOK /\ TriggerKept /\ FaultKept /\ Phases /\ Active /\ Bound /\ Layout

-----------------------------------------------------------------------------
(* Places of the table. *)

\* There is a buffer.
LEMMA SomeBufs == N \in Nat /\ N >= 1
BY BufAssumption, FS_CardinalityType DEF N

\* Distances are places.
LEMMA DistanceType == ASSUME NEW a \in Places, NEW b \in Places PROVE D(a, b) \in Places
BY SomeBufs DEF Places, D

\* A place is told by its distance, and only a place has none from itself.
LEMMA SameDistance ==
    ASSUME NEW h \in Places, NEW a \in Places, NEW b \in Places
    PROVE  /\ D(h, a) = D(h, b) => a = b
           /\ D(h, h) = 0
           /\ D(h, a) = 0 => a = h
BY SomeBufs DEF Places, D

\* The place k after h is k away.
LEMMA PlaceAfter ==
    ASSUME NEW h \in Places, NEW k \in Places
    PROVE  (h + k) % N \in Places /\ D(h, (h + k) % N) = k
BY SomeBufs DEF Places, D

\* A place that is not the last before h is followed by one that is further from h.
LEMMA NextPlace ==
    ASSUME NEW h \in Places, NEW a \in Places
    PROVE  /\ (a + 1) % N \in Places
           /\ (a + 1) % N # h => D(h, (a + 1) % N) = D(h, a) + 1
           /\ D(h, a) < N - 1 => (a + 1) % N # h
BY SomeBufs DEF Places, D

\* Going on from a place goes on from the head.
LEMMA PlaceFurther ==
    ASSUME NEW h \in Places, NEW a \in Places, NEW i \in Places, D(h, a) + i < N
    PROVE  (a + i) % N \in Places /\ D(h, (a + i) % N) = D(h, a) + i
BY SomeBufs DEF Places, D

\* When the head moves k places on, what was behind it becomes the furthest.
LEMMA HeadMoves ==
    ASSUME NEW h \in Places, NEW a \in Places, NEW k \in Places
    PROVE  D((h + k) % N, a) = IF D(h, a) >= k THEN D(h, a) - k ELSE D(h, a) + N - k
BY SomeBufs DEF Places, D

\* The differences that the properties are stated with are distances.
LEMMA Differences ==
    ASSUME NEW a \in Places, NEW b \in Places
    PROVE  /\ (b + N - a) % N = D(a, b)
           /\ (b + N - a - 1 + N) % N = IF a = b THEN N - 1 ELSE D(a, b) - 1
BY SomeBufs DEF Places, D

\* A set of numbers has a least one.
LEMMA LeastNumber ==
    ASSUME NEW T, T \subseteq Nat, T # {}
    PROVE  \E x \in T : \A y \in T : y >= x
<1>1. IsWellFoundedOn(OpToRel(<,Nat), Nat)
  BY NatLessThanWellFounded
<1>2. PICK x \in T : \A y \in T : ~ (<<y, x>> \in OpToRel(<,Nat))
  BY <1>1, WFMin
<1>3. ASSUME NEW y \in T, y < x PROVE FALSE
  <2>1. <<y, x>> \in OpToRel(<,Nat)
    BY <1>3 DEF OpToRel
  <2> QED BY <2>1, <1>2
<1> QED BY <1>3

-----------------------------------------------------------------------------
(* What zvideo_check_pending does. *)

\* With the buffers in p all before the place L, the run of places that are back
\* ends there at the latest.
LEMMA ReturnedRun ==
    ASSUME slots = N, head \in Places, NEW p \in SUBSET Bufs, NEW L \in Places,
           \A b \in p : D(head, offset[b]) < L
    PROVE  /\ Returned(p) \in 0..L
           /\ \A i \in 0..(Returned(p) - 1) : \E b \in p : offset[b] = Slot(head + i)
<1> DEFINE T == {k \in 0..N : k < N => \A b \in p : offset[b] # Slot(head + k)}
<1>1. T \subseteq Nat
  BY SomeBufs
<1>2. N \in T
  BY SomeBufs
<1>3. PICK k \in T : \A y \in T : y >= k
  BY <1>1, <1>2, LeastNumber
<1>4. k \in 0..N /\ (k < N => \A b \in p : offset[b] # Slot(head + k))
  OBVIOUS
<1>5. ASSUME NEW i \in 0..(k - 1) PROVE \E b \in p : offset[b] = Slot(head + i)
  <2>1. i \in 0..N /\ i < N /\ i < k
    BY <1>4, SomeBufs
  <2>2. i \notin T
    BY <1>3, <2>1, <1>4, SomeBufs
  <2> QED BY <2>1, <2>2
<1> DEFINE P(j) == /\ \A i \in 0..(j - 1) : \E b \in p : offset[b] = Slot(head + i)
                   /\ j < slots => \A b \in p : offset[b] # Slot(head + j)
<1>6. k \in 0..slots /\ P(k)
  BY <1>4, <1>5
<1>7. Returned(p) \in 0..slots /\ P(Returned(p))
  <2>1. \E j \in 0..slots : P(j)
    BY <1>6
  <2>2. Returned(p) = CHOOSE j \in 0..slots : P(j)
    BY Zenon DEF Returned
  <2> HIDE DEF P
  <2> QED BY <2>1, <2>2, Zenon
<1> DEFINE r == Returned(p)
<1> HIDE DEF r
<1>8. r \in 0..N /\ \A i \in 0..(r - 1) : \E b \in p : offset[b] = Slot(head + i)
  BY <1>7 DEF r
<1>9. r <= L
  <2> SUFFICES ASSUME r > L PROVE FALSE
    BY <1>8, SomeBufs DEF Places
  <2>1. L \in 0..(r - 1)
    BY <1>8, SomeBufs DEF Places
  <2>2. PICK b \in p : offset[b] = Slot(head + L)
    BY <1>8, <2>1
  <2>3. D(head, offset[b]) = L
    BY <2>2, PlaceAfter DEF Slot
  <2>4. L \in Nat
    BY SomeBufs DEF Places
  <2> QED BY <2>3, <2>4
<1>10. r \in 0..L
  BY <1>8, <1>9, SomeBufs DEF Places
<1> QED BY <1>8, <1>10 DEF r

\* The head moves past k places, and exactly their buffers are available again.
Moved(p, L, a) ==
    /\ meta' \in [Bufs -> {"invalid", "good", "bad"}]
    /\ list' \subseteq Bufs /\ pending' \subseteq Bufs
    /\ \E k \in 0..L :
         /\ head' = (head + k) % N
         /\ avail' = a + k
         /\ \A b \in Bufs : b \in list' <=> b \in list \/ D(head, offset[b]) < k
         /\ \A b \in Bufs : b \in pending' <=> b \in p /\ ~(D(head, offset[b]) < k)
         /\ \A b \in Bufs : D(head, offset[b]) < k => b \in p

\* That is what zvideo_check_pending does.
LEMMA PendingChecked ==
    ASSUME slots = N, BufType, TableType,
           \A b, c \in Bufs : offset[b] = offset[c] => b = c,
           NEW p \in SUBSET Bufs, NEW L \in Places, NEW a,
           \A b \in p : D(head, offset[b]) < L,
           zvideo_check_pending(p, a)
    PROVE  Moved(p, L, a)
<1> DEFINE k == Returned(p)
           moved == {At(p, Slot(head + i)) : i \in 0..(k - 1)}
<1>1. head \in Places /\ offset \in [Bufs -> Places]
  BY DEF TableType, Places
<1>2. k \in 0..L /\ \A i \in 0..(k - 1) : \E b \in p : offset[b] = Slot(head + i)
  BY <1>1, ReturnedRun
<1>3. /\ list' = list \cup moved
      /\ pending' = p \ moved
      /\ avail' = a + k
      /\ head' = Slot(head + k)
      /\ zvideo_reset_meta_data({Slot(head + i) : i \in 0..(k - 1)})
  BY Zenon DEF zvideo_check_pending
<1> HIDE DEF k, moved
<1>4. meta' \in [Bufs -> {"invalid", "good", "bad"}]
  BY <1>3 DEF zvideo_reset_meta_data, BufType
<1>5. \A i \in 0..(k - 1) : At(p, Slot(head + i)) \in p /\ offset[At(p, Slot(head + i))] = Slot(head + i)
  BY <1>2 DEF At
<1>6. ASSUME NEW b \in Bufs PROVE b \in moved <=> D(head, offset[b]) < k
  <2>0. k \in 0..N /\ k - 1 < N - 1
    BY <1>2, SomeBufs DEF Places
  <2>1. ASSUME b \in moved PROVE D(head, offset[b]) < k
    <3>1. PICK i \in 0..(k - 1) : b = At(p, Slot(head + i))
      BY <2>1 DEF moved
    <3>2. offset[b] = (head + i) % N /\ i \in Places
      BY <3>1, <1>5, <2>0, SomeBufs DEF Slot, Places
    <3>3. D(head, offset[b]) = i
      BY <3>2, <1>1, PlaceAfter
    <3> QED BY <3>3, <2>0
  <2>2. ASSUME D(head, offset[b]) < k PROVE b \in moved
    <3> DEFINE i == D(head, offset[b])
    <3>1. i \in Places
      BY <1>1, DistanceType
    <3>2. i \in 0..(k - 1)
      BY <2>2, <3>1, <2>0, SomeBufs DEF Places
    <3>3. (head + i) % N \in Places /\ D(head, (head + i) % N) = i
      BY <3>1, <1>1, PlaceAfter
    <3>4. offset[b] = (head + i) % N
      BY <3>3, <1>1, SameDistance
    <3>5. offset[At(p, Slot(head + i))] = offset[b] /\ At(p, Slot(head + i)) \in Bufs
      BY <3>2, <3>4, <1>5 DEF Slot
    <3>6. At(p, Slot(head + i)) = b
      BY <3>5
    <3> QED BY <3>2, <3>6 DEF moved
  <2> QED BY <2>1, <2>2
<1>7. moved \subseteq p
  BY <1>5 DEF moved
<1>8. list' \subseteq Bufs /\ pending' \subseteq Bufs
  BY <1>3, <1>7 DEF BufType
<1>9. /\ head' = (head + k) % N
      /\ \A b \in Bufs : b \in list' <=> b \in list \/ D(head, offset[b]) < k
      /\ \A b \in Bufs : b \in pending' <=> b \in p /\ ~(D(head, offset[b]) < k)
      /\ \A b \in Bufs : D(head, offset[b]) < k => b \in p
  BY <1>3, <1>6, <1>7 DEF Slot
<1> QED BY <1>2, <1>3, <1>4, <1>8, <1>9 DEF Moved

-----------------------------------------------------------------------------
\* The freshly probed channel satisfies the invariant.
LEMMA InitIInv == Init => IInv
<1> SUFFICES ASSUME Init PROVE IInv
  OBVIOUS
<1> USE SomeBufs, BufAssumption, LimitAssumption DEF Init
<1>1. FlagType
  BY Zenon DEF FlagType
<1>2. BufType /\ StepType
  BY DEF BufType, StepType
<1>3. TableType
  BY DEF TableType
<1>4. TriggerKept /\ FaultKept /\ Phases /\ Active /\ Bound /\ Layout
  BY DEF TriggerKept, FaultKept, Phases, Active, Bound, Layout, Busy
<1> QED BY <1>1, <1>2, <1>3, <1>4 DEF IInv, TypeOK

\* Flags stay Boolean.
LEMMA StepFlag == FlagType /\ [Next]_vars => FlagType'
<1> SUFFICES ASSUME FlagType, [Next]_vars PROVE FlagType'
  OBVIOUS
<1> USE DEF FlagType, vars, userVars, rxVars
<1>1. ASSUME NEW b \in Bufs, QbufEarly(b) \/ zvideo_buffer_queue(b) \/ Dqbuf(b) PROVE FlagType'
  BY <1>1, Zenon DEF QbufEarly, zvideo_buffer_queue, Dqbuf
<1>2. CASE StreamOn \/ StartStreaming \/ StopStreaming
  BY <1>2, Zenon DEF StreamOn, StartStreaming, StopStreaming
<1>3. CASE zvideo_return_all_buffers \/ StopDone \/ IoctlCamReset \/ HwFrame
  BY <1>3, Zenon DEF zvideo_return_all_buffers, StopDone, IoctlCamReset, HwFrame
<1>4. ASSUME NEW on \in BOOLEAN, zvideo_trigger(on) PROVE FlagType'
  BY <1>4, Zenon DEF zvideo_trigger
<1>5. CASE RxBegin \/ RxTake
  BY <1>5, Zenon DEF RxBegin, RxTake
<1>6. CASE zvideo_check_meta_data
  BY <1>6, Zenon DEF zvideo_check_meta_data
<1>7. CASE RxReturn
  BY <1>7, Zenon DEF RxReturn
<1>8. CASE ResetBegin \/ ResetRetry
  <2>1. \E t \in BOOLEAN : ResetChannel(t) \/ ResetSleep(t) \/ ResetGiveUp
    BY <1>8, Zenon DEF ResetBegin, ResetRetry
  <2>2. UNCHANGED <<streaming, want, bad>>
    BY <1>8, Zenon DEF ResetBegin, ResetRetry
  <2>3. camFault' \in BOOLEAN /\ chanFault' \in BOOLEAN /\ trig' \in BOOLEAN
    BY <2>1, Zenon DEF ResetChannel, ResetSleep, ResetGiveUp
  <2> QED BY <2>2, <2>3, Zenon
<1>9. CASE UNCHANGED vars
  BY <1>9, Zenon
<1> QED BY <1>1, <1>2, <1>3, <1>4, <1>5, <1>6, <1>7, <1>8, <1>9
        DEF Next, User, Tasklet, Watchdog

\* A reset that ends turns the trigger of a stream on again, and one that finds the
\* stream stopped leaves the trigger to the process.
LEMMA StepTrigger == FlagType /\ StepType /\ TriggerKept /\ [Next]_vars => TriggerKept'
<1> SUFFICES ASSUME FlagType, StepType, TriggerKept, [Next]_vars PROVE TriggerKept'
  OBVIOUS
<1> USE DEF TriggerKept, vars, userVars, wdVars
<1>1. ASSUME NEW b \in Bufs, QbufEarly(b) \/ zvideo_buffer_queue(b) \/ Dqbuf(b) PROVE TriggerKept'
  BY <1>1, Zenon DEF QbufEarly, zvideo_buffer_queue, Dqbuf
<1>2. CASE StreamOn \/ StartStreaming \/ StopStreaming
  BY <1>2, Zenon DEF StreamOn, StartStreaming, StopStreaming
<1>3. CASE zvideo_return_all_buffers \/ StopDone \/ IoctlCamReset \/ HwFrame
  BY <1>3, Zenon DEF zvideo_return_all_buffers, StopDone, IoctlCamReset, HwFrame
<1>4. ASSUME NEW on \in BOOLEAN, zvideo_trigger(on) PROVE TriggerKept'
  BY <1>4, Zenon DEF zvideo_trigger
<1>5. CASE Tasklet
  BY <1>5, Zenon DEF Tasklet, RxBegin, RxTake, zvideo_check_meta_data, RxReturn
<1>6. CASE Watchdog
  <2>1. \/ trig' = TRUE
        \/ trig' = trig /\ ~streaming
        \/ wpc' = "sleep" /\ (streaming \/ trig' = trig)
    BY <1>6, Zenon DEF Watchdog, ResetBegin, ResetRetry, ResetChannel, ResetSleep, ResetGiveUp
  <2>2. want' = want /\ streaming' = streaming /\ "sleep" # "idle"
    BY <1>6 DEF Watchdog, ResetBegin, ResetRetry
  <2> QED BY <2>1, <2>2, Zenon
<1>7. CASE UNCHANGED vars
  BY <1>7, Zenon
<1> QED BY <1>1, <1>2, <1>3, <1>4, <1>5, <1>6, <1>7 DEF Next, User

\* Faults add up until a reset succeeds.
LEMMA StepFault == FlagType /\ FaultKept /\ [Next]_vars => FaultKept'
<1> SUFFICES ASSUME FlagType, FaultKept, [Next]_vars PROVE FaultKept'
  OBVIOUS
<1> USE DEF FaultKept, vars, userVars, wdVars
<1>1. ASSUME NEW b \in Bufs, QbufEarly(b) \/ zvideo_buffer_queue(b) \/ Dqbuf(b) PROVE FaultKept'
  BY <1>1, Zenon DEF QbufEarly, zvideo_buffer_queue, Dqbuf
<1>2. CASE StreamOn \/ StartStreaming \/ StopStreaming
  BY <1>2, Zenon DEF StreamOn, StartStreaming, StopStreaming
<1>3. CASE zvideo_return_all_buffers \/ StopDone \/ IoctlCamReset \/ HwFrame
  BY <1>3, Zenon DEF zvideo_return_all_buffers, StopDone, IoctlCamReset, HwFrame
<1>4. ASSUME NEW on \in BOOLEAN, zvideo_trigger(on) PROVE FaultKept'
  BY <1>4, Zenon DEF zvideo_trigger
<1>5. CASE Tasklet
  <2>1. chanFault => chanFault'
    BY <1>5, Zenon DEF Tasklet, RxBegin, RxTake, zvideo_check_meta_data, RxReturn
  <2>2. camFault' = camFault /\ wpc' = wpc
    BY <1>5, Zenon DEF Tasklet, RxBegin, RxTake, zvideo_check_meta_data, RxReturn
  <2> QED BY <2>1, <2>2, Zenon
<1>6. CASE Watchdog
  <2>1. wpc' = "idle" \/ UNCHANGED <<camFault, chanFault>>
    BY <1>6, Zenon DEF Watchdog, ResetBegin, ResetRetry, ResetChannel, ResetSleep, ResetGiveUp
  <2>2. (chanFault \/ camFault \/ wpc = "sleep") /\ "idle" # "sleep"
    BY <1>6 DEF Watchdog, ResetBegin, ResetRetry
  <2> QED BY <2>1, <2>2, Zenon
<1>7. CASE UNCHANGED vars
  BY <1>7, Zenon
<1> QED BY <1>1, <1>2, <1>3, <1>4, <1>5, <1>6, <1>7 DEF Next, User

-----------------------------------------------------------------------------
(* The buffers and the table, action by action. *)

Shape == BufType /\ TableType /\ StepType /\ Phases /\ Active /\ Bound /\ Layout

shapeVars == <<streaming, bufVars, mapVars, ringVars, rpc, rxTail, work, wdVars>>

\* Buffers that are not with the driver may change hands.
LEMMA ShapeVb ==
    ASSUME Shape, UNCHANGED <<shapeVars, upc, meta, errCnt, fails>>,
           vb' \in [Bufs -> {"dequeued", "queued", "active", "done"}],
           \A b \in Bufs : vb[b] = "active" => vb'[b] = "active"
    PROVE  Shape'
<1> USE DEF Shape, shapeVars, bufVars, mapVars, ringVars, wdVars
<1>1. BufType' /\ TableType' /\ StepType'
  BY DEF BufType, TableType, StepType
<1>2. Phases' /\ Bound'
  BY DEF Phases, Bound
<1>3. Layout'
  BY DEF Layout, Busy, D
<1>4. Busy' = Busy /\ (Busy => work \in Bufs)
  BY DEF Busy, Layout, Phases, StepType
<1>5. Active'
  BY <1>4 DEF Active, BufType
<1> QED BY <1>1, <1>2, <1>3, <1>5

\* The process and the camera: nothing of the table changes.
LEMMA ShapeUser ==
    ASSUME Shape, \/ \E b \in Bufs : QbufEarly(b) \/ Dqbuf(b)
                  \/ \E on \in BOOLEAN : zvideo_trigger(on)
                  \/ IoctlCamReset
                  \/ UNCHANGED vars
    PROVE  Shape'
<1>1. UNCHANGED <<shapeVars, upc, meta, errCnt, fails>>
  BY DEF QbufEarly, Dqbuf, zvideo_trigger, IoctlCamReset, vars, shapeVars, userVars, rxVars
<1>2. /\ vb' \in [Bufs -> {"dequeued", "queued", "active", "done"}]
      /\ \A b \in Bufs : vb[b] = "active" => vb'[b] = "active"
  BY DEF QbufEarly, Dqbuf, zvideo_trigger, IoctlCamReset, vars, userVars, Shape, BufType
<1> QED BY <1>1, <1>2, ShapeVb

\* VIDIOC_STREAMON with all buffers.
LEMMA ShapeStreamOn ==
    ASSUME AllQueued, Shape, StreamOn
    PROVE  Shape'
<1> USE SomeBufs, LimitAssumption DEF Shape, StreamOn, wdVars, ringVars, mapVars
<1>1. /\ list' = Bufs /\ avail' = N /\ total' = N
      /\ vb' = [b \in Bufs |-> "active"]
  <2>1. {b \in Bufs : vb[b] = "queued"} = Bufs
    BY AllQueued
  <2>2. avail = 0 /\ list = {}
    BY DEF Phases
  <2>3. list' = Bufs /\ avail' = 0 + N /\ total' = N
    BY <2>1, <2>2 DEF N
  <2>4. vb' = [b \in Bufs |-> "active"]
    BY <2>1
  <2> QED BY <2>3, <2>4
<1>2. pending' = {} /\ upc' = "starting" /\ rpc' = "idle" /\ slots' = 0 /\ ~streaming'
  BY DEF Phases
<1>3. BufType'
  BY <1>1, <1>2 DEF BufType
<1>4. TableType' /\ StepType'
  BY <1>2 DEF TableType, StepType
<1>5. Phases'
  BY <1>1, <1>2 DEF Phases
<1>6. Active' /\ Bound' /\ Layout'
  BY <1>1, <1>2 DEF Active, Bound, Layout, Busy
<1> QED BY <1>3, <1>4, <1>5, <1>6

\* zvideo_init_rx binds each buffer to a place: there are as many of one as of the
\* other.
LEMMA ShapeStart ==
    ASSUME Shape, StartStreaming
    PROVE  Shape'
<1> USE SomeBufs DEF Shape, StartStreaming, rxVars, wdVars, bufVars
<1>1. list = Bufs /\ pending = {} /\ avail = N /\ total = N /\ rpc = "idle"
  BY DEF Phases
<1>2. PICK f \in [Bufs -> Places] :
        /\ \A b, c \in Bufs : f[b] = f[c] => b = c
        /\ offset' = [b \in Bufs |-> IF b \in list THEN f[b] ELSE offset[b]]
        /\ mapped' = [s \in 0..(N - 1) |-> IF s < total THEN CHOOSE b \in list : f[b] = s ELSE NoBuf]
  BY <1>1 DEF zvideo_init_rx, Places
<1>3. \A s \in Places : \E b \in Bufs : f[b] = s
  <2>1. f \in Injection(Bufs, Places)
    BY <1>2 DEF Injection, IsInjective
  <2>2. IsFiniteSet(Places) /\ Cardinality(Places) = N
    BY FS_Interval DEF Places
  <2>3. f \in Surjection(Bufs, Places)
    BY <2>1, <2>2, BufAssumption, FS_Injection DEF N
  <2> QED BY <2>3 DEF Surjection
<1>4. offset' = f
  BY <1>1, <1>2
<1>5. \A s \in Places : mapped'[s] = CHOOSE b \in Bufs : f[b] = s
  BY <1>1, <1>2 DEF Places
<1>6. \A s \in Places : mapped'[s] \in Bufs /\ f[mapped'[s]] = s
  BY <1>3, <1>5
<1>7. \A b \in Bufs : mapped'[f[b]] = b
  BY ZenonT(60), <1>2, <1>6
<1>8. head' = 0 /\ off' = 0 /\ tail' = 0 /\ slots' = N
  BY <1>1 DEF zchan_rx_start, zvideo_init_rx
<1>9. BufType' /\ StepType'
  BY DEF BufType, StepType
<1>10. TableType'
  <2>1. mapped' \in [0..(N - 1) -> Bufs \cup {NoBuf}]
    BY <1>2, <1>6 DEF Places
  <2> QED BY <2>1, <1>4, <1>8 DEF TableType, Places
<1>11. Phases'
  BY <1>1, <1>8 DEF Phases
<1>12. Bound'
  BY <1>4, <1>6, <1>7 DEF Bound
<1>13. Active'
  BY <1>1 DEF Active, Busy
<1>14. Layout'
  <2>1. ~Busy'
    BY <1>1 DEF Busy
  <2>2. D(head', off') = 0 /\ D(head', tail') = 0
    BY <1>8 DEF D
  <2>3. \A b \in Bufs : D(head', offset'[b]) >= 0
    BY <1>4, <1>8 DEF D, Places
  <2> QED BY <1>1, <2>1, <2>2, <2>3 DEF Layout
<1> QED BY <1>9, <1>10, <1>11, <1>12, <1>13, <1>14

\* While the tasklet is idle, buf_avail is the length of buf_list: the distance from
\* the head numbers the buffers of the list.
LEMMA AvailCounts ==
    ASSUME Shape, upc = "streaming", rpc = "idle"
    PROVE  avail = Cardinality(list)
<1> DEFINE L == D(head, off)
           g == [b \in list |-> D(head, offset[b])]
<1>1. head \in Places /\ off \in Places /\ offset \in [Bufs -> Places] /\ list \subseteq Bufs
  BY DEF Shape, TableType, BufType, Places
<1>2. L \in Places
  BY <1>1, DistanceType
<1> HIDE DEF L
<1>3. \A b \in Bufs : b \in list <=> D(head, offset[b]) >= L
  BY DEF Shape, Layout, Busy, L
<1>4. \A b \in Bufs : D(head, offset[b]) \in Places
  BY <1>1, DistanceType
<1>5. g \in [list -> L..(N - 1)]
  BY <1>1, <1>2, <1>3, <1>4, SomeBufs DEF Places
<1>6. \A b, c \in Bufs : offset[b] = offset[c] => b = c
  BY DEF Shape, Bound
<1>7. \A b, c \in list : g[b] = g[c] => b = c
  BY <1>1, <1>6, SameDistance
<1>8. ASSUME NEW d \in L..(N - 1) PROVE \E b \in list : g[b] = d
  <2>1. d \in Places
    BY <1>2, SomeBufs DEF Places
  <2>2. (head + d) % N \in Places /\ D(head, (head + d) % N) = d
    BY <2>1, <1>1, PlaceAfter
  <2>3. PICK b \in Bufs : offset[b] = (head + d) % N
    BY <2>2 DEF Shape, Bound
  <2>4. D(head, offset[b]) = d
    BY <2>2, <2>3
  <2>5. b \in list
    BY <2>4, <1>2, <1>3, SomeBufs DEF Places
  <2> QED BY <2>4, <2>5
<1>9. g \in Bijection(list, L..(N - 1))
  BY <1>5, <1>7, <1>8 DEF Bijection, Injection, Surjection, IsInjective
<1>10. IsFiniteSet(list)
  BY <1>1, BufAssumption, FS_Subset
<1>11. Cardinality(L..(N - 1)) = Cardinality(list)
  BY <1>9, <1>10, FS_Bijection DEF ExistsBijection
<1>12. Cardinality(L..(N - 1)) = N - L
  BY <1>2, SomeBufs, FS_Interval DEF Places
<1>13. avail = N - L
  BY <1>2, SomeBufs DEF Shape, Layout, Busy, L, Places
<1> QED BY <1>11, <1>12, <1>13

\* VIDIOC_STREAMOFF takes the table away and the buffers of the driver back.
LEMMA ShapeStop ==
    ASSUME Shape, StopStreaming \/ zvideo_return_all_buffers \/ StopDone
    PROVE  Shape'
<1> USE SomeBufs DEF Shape
<1>1. CASE StopStreaming
  <2> USE <1>1 DEF StopStreaming, bufVars, rxVars, wdVars, rlockFree
  <2>1. avail = Cardinality(list)
    BY AvailCounts
  <2>2. slots' = 0 /\ upc' = "stopping" /\ ~streaming' /\ rpc' = "idle"
    BY DEF zvideo_fini_rx
  <2>3. BufType' /\ StepType'
    BY DEF BufType, StepType
  <2>4. TableType'
    BY DEF TableType, zvideo_fini_rx, zchan_rx_stop
  <2>5. Phases'
    BY <2>1, <2>2 DEF Phases
  <2>6. Active' /\ Bound' /\ Layout'
    BY <2>2 DEF Active, Bound, Layout, Busy
  <2> QED BY <2>3, <2>4, <2>5, <2>6
<1>2. CASE zvideo_return_all_buffers
  <2> USE <1>2 DEF zvideo_return_all_buffers, mapVars, ringVars, rxVars, wdVars
  <2>1. upc' = "waiting" /\ slots' = 0 /\ rpc' = "idle" /\ ~streaming' /\ rpc = "idle"
    BY DEF Phases
  <2>2. list' = {} /\ pending' = {} /\ avail' = 0
    BY DEF Phases, BufType
  <2>3. vb' \in [Bufs -> {"dequeued", "queued", "active", "done"}]
    BY DEF BufType
  <2>4. BufType'
    BY <2>2, <2>3 DEF BufType
  <2>5. TableType' /\ StepType'
    BY DEF TableType, StepType
  <2>6. Phases'
    BY <2>1, <2>2 DEF Phases
  <2>7. Active' /\ Bound' /\ Layout'
    BY <2>1, <2>2 DEF Active, Bound, Layout, Busy
  <2> QED BY <2>4, <2>5, <2>6, <2>7
<1>3. CASE StopDone
  <2> USE <1>3 DEF StopDone, mapVars, ringVars, rxVars, wdVars
  <2>1. upc' = "idle" /\ slots' = 0 /\ rpc' = "idle" /\ ~streaming' /\ list' = {} /\ pending' = {}
    BY DEF Phases
  <2>2. BufType'
    BY DEF BufType
  <2>3. TableType' /\ StepType'
    BY DEF TableType, StepType
  <2>4. Phases'
    BY <2>1 DEF Phases
  <2>5. Active' /\ Bound' /\ Layout'
    BY <2>1 DEF Active, Bound, Layout, Busy
  <2> QED BY <2>2, <2>3, <2>4, <2>5
<1> QED BY <1>1, <1>2, <1>3

\* The engine keeps one place free: its tail does not reach the head.
LEMMA ShapeHw ==
    ASSUME Shape, HwFrame
    PROVE  Shape'
<1> USE SomeBufs DEF Shape, HwFrame, userVars, bufVars, mapVars, rxVars, wdVars
<1>1. upc = "streaming" /\ slots = N
  BY DEF Phases, StepType
<1>2. head \in Places /\ tail \in Places /\ off \in Places /\ rxTail \in Places
  BY DEF TableType, Places
<1>3. tail' \in Places /\ D(head, tail') = D(head, tail) + 1
  BY <1>1, <1>2, NextPlace DEF Slot
<1>4. D(head, tail) \in Places /\ D(head, off) \in Places /\ D(head, rxTail) \in Places
  BY <1>2, DistanceType
<1>5. meta' \in [Bufs -> {"invalid", "good", "bad"}]
  <2>1. mapped[tail] \in Bufs
    BY <1>1, <1>2 DEF Bound
  <2> QED BY <2>1 DEF BufType
<1>6. BufType' /\ StepType'
  BY <1>5 DEF BufType, StepType
<1>7. TableType'
  BY <1>3 DEF TableType, Places
<1>8. Phases' /\ Active' /\ Bound'
  BY DEF Phases, Active, Bound, Busy
<1>9. Layout'
  BY <1>1, <1>3, <1>4 DEF Layout, Busy, Places
<1> QED BY <1>6, <1>7, <1>8, <1>9

\* A head that moves on, not further than the offset o, keeps what is before o apart
\* from the rest; the places it passes join the rest.
LEMMA HeadFollows ==
    ASSUME NEW h \in Places, NEW o \in Places, NEW k \in 0..D(h, o), NEW x \in Places
    PROVE  LET g == (h + k) % N
           IN  /\ g \in Places
               /\ D(g, o) = D(h, o) - k
               /\ D(g, x) >= D(g, o) <=> D(h, x) >= D(h, o) \/ D(h, x) < k
               /\ D(h, x) >= D(h, o) => D(g, x) = D(h, x) - k
<1>1. D(h, o) \in Places /\ D(h, x) \in Places
  BY DistanceType
<1>2. k \in Places
  BY <1>1, SomeBufs DEF Places
<1>3. (h + k) % N \in Places
  BY <1>2, PlaceAfter
<1>4. /\ D((h + k) % N, o) = IF D(h, o) >= k THEN D(h, o) - k ELSE D(h, o) + N - k
      /\ D((h + k) % N, x) = IF D(h, x) >= k THEN D(h, x) - k ELSE D(h, x) + N - k
  BY <1>2, HeadMoves
<1> QED BY <1>1, <1>2, <1>3, <1>4, SomeBufs DEF Places

\* The tasklet begins and finds the buffer of its offset.
LEMMA ShapeTake ==
    ASSUME Shape, RxBegin \/ RxTake
    PROVE  Shape'
<1> USE SomeBufs DEF Shape, userVars, mapVars, ringVars, wdVars
<1>1. upc = "streaming" /\ slots = N /\ upc' = upc
  BY DEF Phases, StepType, RxBegin, RxTake
<1>2. head \in Places /\ tail \in Places /\ off \in Places /\ rxTail \in Places
      /\ offset \in [Bufs -> Places]
  BY DEF TableType, Places
<1>3. D(head, tail) \in Places /\ D(head, off) \in Places /\ D(head, rxTail) \in Places
  BY <1>2, DistanceType
<1>4. CASE RxBegin
  <2> USE <1>4 DEF RxBegin, bufVars
  <2>1. D(head, off) # D(head, tail)
    BY <1>2, SameDistance
  <2>2. BufType' /\ TableType' /\ StepType'
    BY DEF BufType, TableType, StepType
  <2>3. Phases' /\ Active' /\ Bound'
    BY <1>1 DEF Phases, Active, Bound, Busy
  <2>4. Layout'
    BY <1>1, <1>3, <2>1 DEF Layout, Busy, Places
  <2> QED BY <2>2, <2>3, <2>4
<1>5. CASE RxTake /\ rpc' = "idle"
  <2> USE <1>5 DEF RxTake
  <2>1. UNCHANGED <<vb, list, pending, avail, total, work, rxTail, meta, errCnt, fails>>
    OBVIOUS
  <2>2. BufType' /\ TableType' /\ StepType'
    BY <2>1 DEF BufType, TableType, StepType
  <2>3. Phases' /\ Active' /\ Bound'
    BY <1>1, <2>1 DEF Phases, Active, Bound, Busy
  <2>4. Layout'
    BY <1>1, <2>1 DEF Layout, Busy
  <2> QED BY <2>2, <2>3, <2>4
<1>6. CASE RxTake /\ rpc' # "idle"
  <2> USE <1>6 DEF RxTake
  <2>1. PICK b \in list : offset[b] = off /\ list' = list \ {b} /\ work' = b
    OBVIOUS
  <2>2. /\ avail' = avail - 1 /\ rpc' = "check" /\ rpc = "take"
        /\ UNCHANGED <<vb, pending, total, rxTail, meta, errCnt, fails>>
    OBVIOUS
  <2>3. b \in Bufs /\ list' \subseteq Bufs
    BY <2>1 DEF BufType
  <2>4. avail' = N - D(head, off) - 1 /\ D(head, off) < N - 1
    BY <1>1, <1>3, <2>2 DEF Layout, Busy, Places
  <2>5. BufType'
    BY <1>3, <2>1, <2>2, <2>3, <2>4 DEF BufType, Places
  <2>6. TableType' /\ StepType'
    BY <2>2 DEF TableType, StepType
  <2>7. Phases' /\ Bound'
    BY <1>1, <2>2 DEF Phases, Bound
  <2>8. Active'
    BY <2>1, <2>2 DEF Active, Busy
  <2>9. Busy' /\ ~Busy
    BY <2>2 DEF Busy
  <2>10. Layout'
    BY <1>1, <2>1, <2>2, <2>3, <2>4, <2>9 DEF Layout
  <2> QED BY <2>5, <2>6, <2>7, <2>8, <2>10
<1> QED BY <1>4, <1>5, <1>6

\* Checking the metadata of a frame moves no buffer.
LEMMA ShapeCheck ==
    ASSUME Shape, zvideo_check_meta_data
    PROVE  Shape'
<1> USE DEF Shape, userVars, bufVars, mapVars, ringVars, wdVars
<1>1. /\ UNCHANGED <<vb, upc, fails, streaming, list, pending, avail, total, offset, slots, mapped,
                     head, off, tail, meta, rxTail, work, wpc, retry>>
      /\ rpc = "check" /\ rpc' = "return"
  BY DEF zvideo_check_meta_data
<1>2. errCnt' \in 0..(ErrThresh - 1)
  BY LimitAssumption DEF zvideo_check_meta_data, StepType
<1>3. Busy' /\ Busy
  BY <1>1 DEF Busy
<1>4. BufType' /\ TableType' /\ StepType'
  BY <1>1, <1>2 DEF BufType, TableType, StepType
<1>5. Phases' /\ Active' /\ Bound'
  BY <1>1, <1>3 DEF Phases, Active, Bound
<1>6. Layout'
  BY <1>1, <1>3 DEF Layout
<1> QED BY <1>4, <1>5, <1>6

\* VIDIOC_QBUF: a buffer of the process is one of those before the offset, and the
\* head moves past what is back.
LEMMA ShapeQueue ==
    ASSUME Shape, NEW c \in Bufs, zvideo_buffer_queue(c)
    PROVE  Shape'
<1> USE SomeBufs DEF Shape, zvideo_buffer_queue, mapVars, rxVars, wdVars
<1>1. upc = "streaming" /\ slots = N /\ upc' = upc
  BY DEF Phases
<1>2. head \in Places /\ tail \in Places /\ off \in Places /\ rxTail \in Places
      /\ offset \in [Bufs -> Places]
  BY DEF TableType, Places
<1>3. D(head, tail) \in Places /\ D(head, off) \in Places /\ D(head, rxTail) \in Places
      /\ \A b \in Bufs : D(head, offset[b]) \in Places
  BY <1>2, DistanceType
<1>4. c \notin list /\ ~(Busy /\ c = work)
  BY DEF Active
<1>5. \A b \in pending \cup {c} : D(head, offset[b]) < D(head, off)
  BY <1>1, <1>3, <1>4 DEF Layout, Places
<1>6. \A a, b \in Bufs : offset[a] = offset[b] => a = b
  BY <1>1 DEF Bound
<1>7. pending \cup {c} \in SUBSET Bufs
  BY DEF BufType
<1> DEFINE L == D(head, off)
           p == pending \cup {c}
<1>8. Moved(p, L, avail)
  <2>1. zvideo_check_pending(p, avail) /\ p \in SUBSET Bufs /\ L \in Places
    BY <1>3, <1>7
  <2>2. \A b \in p : D(head, offset[b]) < L
    BY <1>5
  <2>3. BufType /\ TableType
    OBVIOUS
  <2> HIDE DEF p, L, Shape, zvideo_buffer_queue
  <2> QED BY <1>1, <1>6, <2>1, <2>2, <2>3, PendingChecked
<1>9. PICK k \in 0..L :
        /\ head' = (head + k) % N
        /\ avail' = avail + k
        /\ \A b \in Bufs : b \in list' <=> b \in list \/ D(head, offset[b]) < k
        /\ \A b \in Bufs : b \in pending' <=> b \in p /\ ~(D(head, offset[b]) < k)
        /\ \A b \in Bufs : D(head, offset[b]) < k => b \in p
  BY <1>8 DEF Moved
<1>a. /\ meta' \in [Bufs -> {"invalid", "good", "bad"}]
      /\ list' \subseteq Bufs /\ pending' \subseteq Bufs
  BY <1>8 DEF Moved
<1>10. /\ head' \in Places /\ D(head', off) = D(head, off) - k
       /\ \A x \in Places : /\ D(head', x) >= D(head', off)
                                 <=> D(head, x) >= D(head, off) \/ D(head, x) < k
                            /\ D(head, x) >= D(head, off) => D(head', x) = D(head, x) - k
  BY <1>2, <1>9, HeadFollows
<1>11. avail' = N - D(head', off) - (IF Busy THEN 1 ELSE 0)
  BY <1>1, <1>3, <1>9, <1>10 DEF Layout, Places
<1>12. D(head', off) \in Places /\ (Busy => D(head', off) < N - 1)
  <2>1. D(head', off) \in Places
    BY <1>2, <1>10, DistanceType
  <2>2. Busy => D(head, off) < N - 1
    BY <1>1, <1>3 DEF Layout, Busy, Places
  <2> QED BY <2>1, <2>2, <1>3, <1>9, <1>10 DEF Places
<1>13. BufType'
  <2>1. avail' \in 0..N
    BY <1>11, <1>12 DEF Places
  <2>2. vb' \in [Bufs -> {"dequeued", "queued", "active", "done"}]
    BY DEF BufType
  <2> QED BY <1>a, <2>1, <2>2 DEF BufType
<1>14. TableType' /\ StepType' /\ Phases' /\ Bound'
  BY <1>1, <1>10 DEF TableType, StepType, Phases, Bound, Places
<1>15. Busy' = Busy
  BY DEF Busy
<1>16. Active'
  <2>1. \A b \in Bufs : b \in list' \cup pending' => b \in list \cup pending \cup {c}
    BY <1>9
  <2>2. \A b \in list \cup pending \cup {c} : vb'[b] = "active"
    BY DEF Active, BufType
  <2>3. Busy => vb'[work] = "active"
    BY <1>1 DEF Active, BufType, Layout
  <2> QED BY <2>1, <2>2, <2>3, <1>a, <1>15 DEF Active
<1>17. Layout'
  <2>1. D(head', off) <= D(head', tail)
        /\ (rpc # "idle" => D(head', off) < D(head', rxTail) /\ D(head', rxTail) <= D(head', tail))
    BY <1>1, <1>2, <1>3, <1>9, <1>10 DEF Layout, Places
  <2>2. ASSUME NEW b \in Bufs
        PROVE  b \in list' <=> D(head', offset[b]) >= D(head', off) /\ ~(Busy /\ b = work)
    <3>1. D(head', offset[b]) >= D(head', off)
            <=> D(head, offset[b]) >= D(head, off) \/ D(head, offset[b]) < k
      BY <1>2, <1>10
    <3>2. D(head, offset[b]) < k => ~(Busy /\ b = work)
      BY <1>1, <1>3, <1>9 DEF Layout, Places
    <3> QED BY <1>1, <1>9, <3>1, <3>2 DEF Layout
  <2>3. ASSUME NEW b \in pending' PROVE D(head', offset[b]) < D(head', off)
    <3>1. b \in Bufs /\ b \in p /\ ~(D(head, offset[b]) < k)
      BY <1>a, <1>9
    <3>2. D(head, offset[b]) < D(head, off)
      BY <3>1, <1>5
    <3>3. ~(D(head', offset[b]) >= D(head', off))
      BY <1>2, <1>3, <1>10, <3>1, <3>2 DEF Places
    <3>4. D(head', offset[b]) \in Places
      BY <1>2, <1>10, <3>1, DistanceType
    <3> QED BY <1>12, <3>3, <3>4 DEF Places
  <2> QED BY <1>1, <1>11, <1>15, <2>1, <2>2, <2>3 DEF Layout
<1> QED BY <1>13, <1>14, <1>16, <1>17

\* The tasklet is done with a frame: its place is lent, and given back with others
\* if the frame was bad.
LEMMA ShapeReturn ==
    ASSUME Shape, RxReturn
    PROVE  Shape'
<1> USE SomeBufs DEF Shape, RxReturn, mapVars, wdVars
<1>1. upc = "streaming" /\ slots = N /\ upc' = upc /\ Busy /\ ~Busy'
  BY DEF Phases, StepType, Busy
<1>2. head \in Places /\ tail \in Places /\ off \in Places /\ rxTail \in Places
      /\ offset \in [Bufs -> Places]
  BY DEF TableType, Places
<1>3. D(head, tail) \in Places /\ D(head, off) \in Places /\ D(head, rxTail) \in Places
      /\ \A b \in Bufs : D(head, offset[b]) \in Places
  BY <1>2, DistanceType
<1>4. work \in Bufs /\ offset[work] = off /\ D(head, off) < D(head, rxTail)
      /\ D(head, rxTail) <= D(head, tail) /\ avail = N - D(head, off) - 1
  BY <1>1 DEF Layout, Busy
<1>5. off' \in Places /\ D(head, off') = D(head, off) + 1
  BY <1>1, <1>2, <1>3, <1>4, NextPlace DEF Slot, Places
<1>6. \A a, b \in Bufs : offset[a] = offset[b] => a = b
  BY <1>1 DEF Bound
<1>7. \A b \in Bufs : b \in list <=> D(head, offset[b]) >= D(head, off')
  <2> SUFFICES ASSUME NEW b \in Bufs PROVE b \in list <=> D(head, offset[b]) >= D(head, off')
    OBVIOUS
  <2>1. b \in list <=> D(head, offset[b]) >= D(head, off) /\ b # work
    BY <1>1 DEF Layout
  <2>2. b = work <=> D(head, offset[b]) = D(head, off)
    BY <1>2, <1>4, <1>6, SameDistance
  <2> QED BY <1>3, <1>5, <2>1, <2>2 DEF Places
<1> DEFINE p == pending \cup {work}
           L == D(head, off')
<1>8. p \in SUBSET Bufs /\ L \in Places /\ \A b \in p : D(head, offset[b]) < L
  <2>1. p \in SUBSET Bufs
    BY <1>4 DEF BufType
  <2>2. L \in Places
    BY <1>2, <1>5, DistanceType
  <2>3. \A b \in pending : b \in Bufs /\ D(head, offset[b]) < D(head, off)
    BY <1>1 DEF Layout, BufType
  <2> QED BY <1>3, <1>4, <1>5, <2>1, <2>2, <2>3 DEF Places
<1>9. /\ meta' \in [Bufs -> {"invalid", "good", "bad"}]
      /\ list' \subseteq Bufs /\ pending' \subseteq Bufs
      /\ \E k \in 0..L :
           /\ head' = (head + k) % N
           /\ avail' = avail + k
           /\ \A b \in Bufs : b \in list' <=> b \in list \/ D(head, offset[b]) < k
           /\ \A b \in Bufs : b \in pending' => b \in p /\ ~(D(head, offset[b]) < k)
           /\ \A b \in Bufs : D(head, offset[b]) < k => b \in p /\ bad
  <2>1. CASE bad /\ zvideo_check_pending(p, avail)
    <3>1. BufType /\ TableType
      OBVIOUS
    <3> HIDE DEF p, L, Shape, RxReturn
    <3>2. Moved(p, L, avail)
      BY <1>1, <1>6, <1>8, <2>1, <3>1, PendingChecked
    <3> QED BY <2>1, <3>2 DEF Moved
  <2>2. CASE ~bad /\ UNCHANGED <<list, pending, avail, meta, head>>
    <3>1. head' = (head + 0) % N
      BY <1>2, <2>2 DEF Places
    <3>2. 0 \in 0..L /\ avail' = avail + 0
      BY <1>8, <2>2 DEF Places, BufType
    <3>3. \A b \in Bufs : ~(D(head, offset[b]) < 0)
      BY <1>3 DEF Places
    <3>4. \A b \in Bufs : b \in pending' => b \in p
      BY <2>2
    <3>5. list' = list
      BY <2>2
    <3> HIDE DEF p, L
    <3>6. \E k \in 0..L :
           /\ head' = (head + k) % N
           /\ avail' = avail + k
           /\ \A b \in Bufs : b \in list' <=> b \in list \/ D(head, offset[b]) < k
           /\ \A b \in Bufs : b \in pending' => b \in p /\ ~(D(head, offset[b]) < k)
           /\ \A b \in Bufs : D(head, offset[b]) < k => b \in p /\ bad
      BY <3>1, <3>2, <3>3, <3>4, <3>5
    <3> QED BY <2>2, <3>6 DEF BufType
  <2> QED BY <2>1, <2>2 DEF ReturnBuf
<1>10. PICK k \in 0..L :
         /\ head' = (head + k) % N
         /\ avail' = avail + k
         /\ \A b \in Bufs : b \in list' <=> b \in list \/ D(head, offset[b]) < k
         /\ \A b \in Bufs : b \in pending' => b \in p /\ ~(D(head, offset[b]) < k)
         /\ \A b \in Bufs : D(head, offset[b]) < k => b \in p /\ bad
  BY <1>9
<1>11. /\ head' \in Places /\ D(head', off') = D(head, off') - k
       /\ \A x \in Places : /\ D(head', x) >= D(head', off')
                                 <=> D(head, x) >= D(head, off') \/ D(head, x) < k
                            /\ D(head, x) >= D(head, off') => D(head', x) = D(head, x) - k
  BY <1>2, <1>5, <1>10, HeadFollows
<1>12. D(head', off') \in Places /\ avail' = N - D(head', off')
  BY <1>3, <1>4, <1>5, <1>10, <1>11, DistanceType DEF Places
<1>13. BufType'
  <2>1. vb' \in [Bufs -> {"dequeued", "queued", "active", "done"}]
    BY <1>4 DEF ReturnBuf, BufType
  <2>2. avail' \in 0..N
    BY <1>12 DEF Places
  <2> QED BY <1>9, <2>1, <2>2 DEF BufType
<1>14. TableType' /\ StepType' /\ Phases' /\ Bound'
  BY <1>1, <1>5, <1>11 DEF TableType, StepType, Phases, Bound, Places
<1>15. Active'
  <2>1. CASE bad
    <3>1. \A b \in Bufs : b \in list' \cup pending' => b \in list \cup pending \cup {work}
      BY <1>10
    <3>2. vb' = vb
      BY <2>1 DEF ReturnBuf
    <3> QED BY <1>1, <1>9, <3>1, <3>2 DEF Active
  <2>2. CASE ~bad
    <3>1. list' = list /\ pending' = pending /\ vb' = [vb EXCEPT ![work] = "done"]
      BY <2>2 DEF ReturnBuf
    <3>2. work \notin list
      BY <1>1, <1>4 DEF Layout
    <3>3. work \notin pending
      BY <1>1, <1>3, <1>4 DEF Layout, Places
    <3> QED BY <1>1, <3>1, <3>2, <3>3 DEF Active, BufType
  <2> QED BY <2>1, <2>2
<1>16. Layout'
  <2>1. D(head, rxTail) >= D(head, off') /\ D(head, tail) >= D(head, off')
    BY <1>3, <1>4, <1>5 DEF Places
  <2>2. /\ D(head', rxTail) = D(head, rxTail) - k /\ D(head', tail) = D(head, tail) - k
    BY <1>2, <1>11, <2>1
  <2>3. D(head', off') <= D(head', rxTail) /\ D(head', rxTail) <= D(head', tail)
    BY <1>3, <1>4, <1>8, <1>10, <1>11, <2>1, <2>2 DEF Places
  <2>4. rpc' # "idle" => D(head', off') # D(head', rxTail)
    BY <1>2, <1>5, <1>11, SameDistance
  <2>5. D(head', rxTail) \in Places /\ D(head', tail) \in Places
    BY <1>2, <1>11, DistanceType
  <2>6. ASSUME NEW b \in Bufs PROVE b \in list' <=> D(head', offset[b]) >= D(head', off')
    BY <1>2, <1>7, <1>10, <1>11
  <2>7. ASSUME NEW b \in pending' PROVE D(head', offset[b]) < D(head', off')
    <3>1. b \in Bufs /\ b \in p /\ ~(D(head, offset[b]) < k)
      BY <1>9, <1>10
    <3>2. D(head, offset[b]) < L
      BY <3>1, <1>8
    <3>3. ~(D(head', offset[b]) >= D(head', off'))
      BY <1>2, <1>3, <1>8, <1>11, <3>1, <3>2 DEF Places
    <3>4. D(head', offset[b]) \in Places
      BY <1>2, <1>11, <3>1, DistanceType
    <3> QED BY <1>12, <3>3, <3>4 DEF Places
  <2>8. tail' = tail /\ rxTail' = rxTail /\ offset' = offset
    OBVIOUS
  <2>9. D(head', off') <= D(head', tail)
        /\ (rpc' # "idle" => D(head', off') < D(head', rxTail))
    BY <1>12, <2>3, <2>4, <2>5 DEF Places
  <2> HIDE DEF RxReturn, p, L, Shape
  <2> QED BY <1>1, <1>12, <2>3, <2>6, <2>7, <2>8, <2>9 DEF Layout
<1> QED BY <1>13, <1>14, <1>15, <1>16

\* When buf_avail is buf_total, every buffer of a stream is in the list.
LEMMA AllBack ==
    ASSUME Shape, streaming, rlockFree, avail = total
    PROVE  list = Bufs /\ pending = {} /\ upc = "streaming"
<1>1. upc = "streaming" /\ total = N /\ ~Busy
  BY DEF Shape, Phases, rlockFree, Busy
<1>2. head \in Places /\ off \in Places /\ offset \in [Bufs -> Places]
  BY DEF Shape, TableType, Places
<1>3. D(head, off) \in Places /\ \A b \in Bufs : D(head, offset[b]) \in Places
  BY <1>2, DistanceType
<1>4. D(head, off) = 0
  BY <1>1, <1>3, SomeBufs DEF Shape, Layout, Places
<1>5. \A b \in Bufs : b \in list
  BY <1>1, <1>3, <1>4, SomeBufs DEF Shape, Layout, Places
<1>6. \A b \in Bufs : b \notin pending
  BY <1>1, <1>3, <1>4, SomeBufs DEF Shape, Layout, Places
<1> QED BY <1>1, <1>5, <1>6 DEF Shape, BufType

\* The watchdog restarts the engine only on a table that is all its own.
LEMMA ShapeReset ==
    ASSUME Shape, Watchdog
    PROVE  Shape'
<1> USE SomeBufs DEF Shape, userVars, bufVars, mapVars, rxVars
<1>1. /\ UNCHANGED <<vb, upc, fails, streaming, list, pending, avail, total, offset, slots, mapped,
                     meta, rpc, rxTail, work, errCnt>>
      /\ rlockFree
  BY DEF Watchdog, ResetBegin, ResetRetry
<1>2. wpc' \in {"idle", "sleep"} /\ retry' \in 0..MaxRetry /\ (wpc' = "idle" => retry' = 0)
  BY LimitAssumption
  DEF Watchdog, ResetBegin, ResetRetry, ResetChannel, ResetSleep, ResetGiveUp, StepType, Phases
<1>3. \/ UNCHANGED ringVars
      \/ streaming /\ avail = total /\ zchan_rx_start
  BY DEF Watchdog, ResetBegin, ResetRetry, ResetChannel, ResetSleep, ResetGiveUp
<1>4. BufType' /\ StepType'
  BY <1>1, <1>2 DEF BufType, StepType
<1>5. TableType'
  BY <1>1, <1>3 DEF TableType, ringVars, zchan_rx_start
<1>6. Phases' /\ Active' /\ Bound'
  BY <1>1, <1>2 DEF Phases, Active, Bound, Busy
<1>7. Layout'
  <2>1. CASE UNCHANGED ringVars
    BY <1>1, <2>1 DEF Layout, Busy, ringVars
  <2>2. CASE streaming /\ avail = total /\ zchan_rx_start
    <3>1. list = Bufs /\ pending = {} /\ total = N /\ ~Busy' /\ rpc = "idle"
      BY <1>1, <2>2, AllBack DEF Phases, Busy, rlockFree
    <3>2. head' = 0 /\ off' = 0 /\ tail' = 0
      BY <2>2 DEF zchan_rx_start
    <3>3. D(head', off') = 0 /\ D(head', tail') = 0
      BY <3>2 DEF D
    <3>4. \A b \in Bufs : D(head', offset[b]) >= 0
      BY <3>2 DEF D, TableType
    <3> QED BY <1>1, <2>2, <3>1, <3>3, <3>4 DEF Layout
  <2> QED BY <1>3, <2>1, <2>2
<1> QED BY <1>4, <1>5, <1>6, <1>7

-----------------------------------------------------------------------------
\* A stream that is started with all buffers keeps the layout of its table, whatever
\* process, engine, tasklet and watchdog do.
THEOREM Invariance == ASSUME AllQueued PROVE Spec => []IInv
<1>1. ASSUME IInv, [Next]_vars PROVE IInv'
  <2>1. Shape
    BY <1>1 DEF IInv, TypeOK, Shape
  <2>2. FlagType' /\ TriggerKept' /\ FaultKept'
    BY <1>1, StepFlag, StepTrigger, StepFault DEF IInv, TypeOK
  <2>3. Shape'
    BY <1>1, <2>1, ShapeUser, ShapeStreamOn, ShapeStart, ShapeStop, ShapeHw, ShapeTake, ShapeCheck,
       ShapeQueue, ShapeReturn, ShapeReset
    DEF Next, User, Tasklet
  <2> QED BY <2>2, <2>3 DEF IInv, TypeOK, Shape
<1> QED BY <1>1, InitIInv, PTL DEF Spec

\* However a reset ends, and whatever the process does meanwhile, the camera of a
\* stream whose trigger is enabled is not left off.
THEOREM CameraKept == ASSUME AllQueued PROVE Spec => []CameraNotLeftOff
<1>1. IInv => CameraNotLeftOff
  BY Zenon DEF IInv, TriggerKept, CameraNotLeftOff
<1> QED BY <1>1, Invariance, PTL

\* The engine never gets a place whose buffer is with the process, with the tasklet
\* or waiting for its turn; a frame it has written is found; a stop leaves nothing.
THEOREM DmaKept == ASSUME AllQueued PROVE Spec => []DmaSafe
<1>1. ASSUME IInv PROVE DmaSafe
  <2> USE <1>1, SomeBufs
  <2>1. TypeOK /\ Shape
    BY DEF IInv, TypeOK, Shape
  <2>2. StopAssert
    BY DEF IInv, Phases, StopAssert
  <2>3. ASSUME slots > 0
        PROVE  /\ upc = "streaming" /\ slots = N
               /\ head \in Places /\ tail \in Places /\ off \in Places
               /\ D(head, tail) \in Places /\ D(head, off) \in Places
               /\ D(head, off) <= D(head, tail)
               /\ \A s \in Places : mapped[s] \in Bufs /\ offset[mapped[s]] = s
    <3>1. upc = "streaming" /\ slots = N
      BY <2>3 DEF IInv, Phases
    <3>2. head \in Places /\ tail \in Places /\ off \in Places
      BY DEF IInv, TypeOK, TableType, Places
    <3>3. D(head, tail) \in Places /\ D(head, off) \in Places
      BY <3>2, DistanceType
    <3>4. D(head, off) <= D(head, tail)
      BY <3>1 DEF IInv, Layout
    <3> QED BY <3>1, <3>2, <3>3, <3>4 DEF IInv, Bound
  <2>4. DmaOwned
    <3> SUFFICES ASSUME slots > 0, NEW i \in 0..(slots - 1),
                        i < Slot(head + slots - tail - 1 + slots)
                 PROVE  mapped[Slot(tail + i)] \in list
      BY DEF DmaOwned
    <3>0. Slot(head + slots - tail - 1 + slots) = IF tail = head THEN N - 1 ELSE D(tail, head) - 1
      <4>1. Slot(head + slots - tail - 1 + slots) = (head + N - tail - 1 + N) % N
        BY <2>3 DEF Slot
      <4> QED BY <2>3, <4>1, Differences
    <3>1. i \in Places /\ i < (IF tail = head THEN N - 1 ELSE D(tail, head) - 1)
      BY <2>3, <3>0 DEF Places
    <3>2. D(head, tail) + i < N
      BY <2>3, <3>1 DEF D, Places
    <3>3. (tail + i) % N \in Places /\ D(head, (tail + i) % N) = D(head, tail) + i
      BY <2>3, <3>1, <3>2, PlaceFurther
    <3> DEFINE b == mapped[(tail + i) % N]
    <3>4. b \in Bufs /\ D(head, offset[b]) = D(head, tail) + i
      BY <2>3, <3>3
    <3>5. Busy => D(head, offset[work]) < D(head, tail)
      BY <2>3 DEF IInv, Layout, Busy, TypeOK, TableType, Places, D
    <3>6. D(head, offset[b]) >= D(head, off) /\ ~(Busy /\ b = work)
      BY <2>3, <3>1, <3>4, <3>5 DEF Places
    <3>7. b \in list
      BY <2>3, <3>4, <3>6 DEF IInv, Layout
    <3> QED BY <2>3, <3>7 DEF Slot
  <2>5. FrameFound
    <3> SUFFICES ASSUME slots > 0, rpc \in {"idle", "take"}, NEW i \in 0..(slots - 1),
                        i < Slot(tail + slots - off)
                 PROVE  \E b \in list : offset[b] = Slot(off + i) /\ mapped[Slot(off + i)] = b
      BY DEF FrameFound
    <3>1. i \in Places /\ i < D(off, tail)
      BY <2>3, Differences DEF Slot, Places
    <3>2. D(head, off) + i < N
      BY <2>3, <3>1 DEF D, Places
    <3>3. (off + i) % N \in Places /\ D(head, (off + i) % N) = D(head, off) + i
      BY <2>3, <3>1, <3>2, PlaceFurther
    <3> DEFINE b == mapped[(off + i) % N]
    <3>4. b \in Bufs /\ offset[b] = (off + i) % N /\ D(head, offset[b]) = D(head, off) + i
      BY <2>3, <3>3
    <3>5. D(head, offset[b]) >= D(head, off) /\ ~Busy
      BY <2>3, <3>1, <3>4 DEF Places, Busy
    <3>6. b \in list
      BY <2>3, <3>4, <3>5 DEF IInv, Layout
    <3> QED BY <2>3, <3>4, <3>6 DEF Slot
  <2> QED BY <2>1, <2>2, <2>4, <2>5 DEF DmaSafe
<1> QED BY <1>1, Invariance, PTL

\* zvideo_reset restarts the engine only when each buffer of the table is in the
\* list, though it gives up its locks while it waits for them.
THEOREM ResetKept == ASSUME AllQueued PROVE Spec => ResetOwnsAll
<1> DEFINE A == Watchdog /\ streaming /\ wpc' = "idle" /\ ~chanFault' /\ ~camFault'
                  => \A s \in 0..(slots - 1) : mapped[s] \in list
<1>1. ASSUME IInv, [Next]_vars PROVE [A]_vars
  <2> SUFFICES ASSUME Watchdog, streaming, wpc' = "idle", ~chanFault', ~camFault'
               PROVE  \A s \in 0..(slots - 1) : mapped[s] \in list
    OBVIOUS
  <2>1. Shape /\ rlockFree /\ upc = "streaming" /\ slots = N
    BY <1>1 DEF IInv, TypeOK, Shape, Watchdog, ResetBegin, ResetRetry, Phases
  <2>2. chanFault \/ camFault
    BY <1>1, Zenon DEF IInv, FaultKept, Watchdog, ResetBegin, ResetRetry
  <2>3. ~ResetGiveUp /\ \A t : ~ResetSleep(t)
    BY <2>2 DEF ResetSleep, ResetGiveUp
  <2>4. avail = total
    BY <2>3, Zenon DEF Watchdog, ResetBegin, ResetRetry
  <2>5. list = Bufs
    BY <2>1, <2>4, AllBack
  <2> QED BY <2>1, <2>5 DEF Shape, Bound, Places
<1> QED BY <1>1, Invariance, PTL DEF Spec, ResetOwnsAll

=============================================================================

----------------------- MODULE ThreadParallel_proofs -----------------------
(* Theorems about ThreadParallel for every set of workers, number of chunks
   and queue size, whenever the lost-chunk timeout elapses. *)
EXTENDS ThreadParallel, SequenceTheorems, FiniteSetTheorems, TLAPS

USE BoundsAssumption, NoChunkAssumption

(* A worker holds a chunk exactly while it processes it or puts it, so what it
   puts in the output queue is a chunk. *)
HoldersOK ==
    \A w \in Workers : w_chunk[w] \in Chunks <=> w_pc[w] \in {"process", "put"}

TypeInv == TypeOK /\ HoldersOK

(* Appending an element of S to a sequence over S. *)
LEMMA AppendToSeq ==
    ASSUME NEW S, NEW s \in Seq(S), NEW e \in S
    PROVE  /\ Append(s, e) \in Seq(S)
           /\ Len(Append(s, e)) = Len(s) + 1
           /\ \A i \in 1 .. Len(s) : Append(s, e)[i] = s[i]
           /\ Append(s, e)[Len(s) + 1] = e
OBVIOUS

LEMMA ChunksFacts ==
    /\ Chunks \subseteq Nat
    /\ NoChunk \notin Chunks
    /\ \A c \in Chunks : c + 1 \in 0 .. NChunks /\ c + 1 \in 0 .. MaxExpected
BY DEF Chunks

LEMMA ChunkSetsFinite ==
    ASSUME NEW S \in SUBSET Chunks
    PROVE  IsFiniteSet(S) /\ Cardinality(S) \in Nat
<1>1. NChunks - 1 \in Int
  OBVIOUS
<1>2. IsFiniteSet(Chunks)
  BY <1>1, FS_Interval DEF Chunks
<1>. QED  BY <1>2, FS_Subset, FS_CardinalityType

LEMMA InitTypeInv == Init => TypeInv
<1> SUFFICES ASSUME Init PROVE TypeInv
  OBVIOUS
<1> USE ChunksFacts DEF Init
<1>1. Cardinality(Workers) \in Nat \ {0}
  BY WorkersAssumption, FS_CardinalityType, FS_EmptySet
<1>2. /\ chunk_queue \in Seq(Chunks) /\ output_queue \in Seq(Chunks)
      /\ written \in Seq(Chunks)
  BY EmptySeq
<1>3. next_expected \in 0 .. MaxExpected /\ chunk_index \in 0 .. NChunks
  OBVIOUS
<1>4. outcome \in [Chunks -> Outcomes \cup {"none"}] /\ fate \in [Chunks -> Fates]
  BY DEF Fates, Outcomes
<1>5. /\ w_pc \in [Workers -> {"top", "get", "process", "put", "exited"}]
      /\ w_chunk \in [Workers -> Chunks \cup {NoChunk}]
  OBVIOUS
<1>6. /\ concurrency_target \in Nat \ {0}
      /\ results \subseteq Chunks /\ pending \subseteq Chunks
  BY <1>1
<1>7. stop_event \in BOOLEAN
  OBVIOUS
<1>8. /\ in_pc \in {"top", "read", "put", "exited"}
      /\ in_pc = "put" => chunk_index < NChunks
      /\ active_chunks \in Int /\ unfinished \in Int
      /\ mon_pc \in {"top", "adapt", "exited"}
      /\ out_pc \in {"top", "get", "drain", "idle", "exited"}
      /\ chunks_processed \in Nat /\ chunks_failed \in Nat
  OBVIOUS
<1>9. TypeOK
  BY <1>2, <1>3, <1>4, <1>5, <1>6, <1>7, <1>8 DEF TypeOK
<1>10. HoldersOK
  BY DEF HoldersOK
<1>. QED  BY <1>9, <1>10 DEF TypeInv

LEMMA StepTypeInv == TypeInv /\ [Next]_vars => TypeInv'
<1> SUFFICES ASSUME TypeInv, [Next]_vars PROVE TypeInv'
  OBVIOUS
<1> USE ChunksFacts DEF TypeInv, TypeOK, HoldersOK
<1>1. CASE UNCHANGED vars
  BY <1>1 DEF vars, input_vars, worker_vars, monitor_vars, output_vars, queue_vars
<1>2. CASE Stop
  BY <1>2 DEF Stop, input_vars, worker_vars, monitor_vars, output_vars, queue_vars
<1>3. CASE Input
  <2> USE DEF worker_vars, monitor_vars, output_vars, queue_vars
  <2>1. CASE InputTop
    BY <2>1 DEF InputTop
  <2>2. CASE InputIdle
    BY <2>2 DEF InputIdle
  <2>3. CASE InputRead
    BY <2>3 DEF InputRead, Chunks
  <2>4. CASE InputCrash
    BY <2>4 DEF InputCrash
  <2>5. CASE InputPut
    <3>1. chunk_index \in Chunks
      BY <2>5 DEF InputPut, Chunks
    <3>2. chunk_queue' \in Seq(Chunks)
      BY <2>5, <3>1, AppendToSeq DEF InputPut
    <3>. QED  BY <2>5, <3>1, <3>2 DEF InputPut, NextNumber
  <2>6. CASE InputDrop
    <3>1. chunk_index \in Chunks
      BY <2>6 DEF InputDrop, Chunks
    <3>. QED  BY <2>6, <3>1 DEF InputDrop, NextNumber, Fates
  <2>. QED  BY <1>3, <2>1, <2>2, <2>3, <2>4, <2>5, <2>6 DEF Input
<1>4. ASSUME NEW w \in Workers, Worker(w) PROVE TypeInv'
  <2> USE DEF input_vars, monitor_vars, output_vars, queue_vars
  <2>1. CASE WorkerTop(w)
    BY <2>1 DEF WorkerTop
  <2>2. CASE WorkerEmpty(w)
    BY <2>2 DEF WorkerEmpty
  <2>3. CASE WorkerGet(w)
    <3>1. Head(chunk_queue) \in Chunks /\ chunk_queue' \in Seq(Chunks)
      BY <2>3, HeadTailProperties DEF WorkerGet
    <3>. QED  BY <2>3, <3>1 DEF WorkerGet
  <2>4. CASE WorkerProcess(w)
    BY <2>4 DEF WorkerProcess, Outcomes
  <2>5. CASE WorkerPut(w)
    <3>1. w_chunk[w] \in Chunks
      BY <2>5 DEF WorkerPut
    <3>2. output_queue' \in Seq(Chunks)
      BY <2>5, <3>1, AppendToSeq DEF WorkerPut, HandOver
    <3>. QED  BY <2>5, <3>1, <3>2 DEF WorkerPut, HandOver, ReleaseSlot
  <2>. QED  BY <1>4, <2>1, <2>2, <2>3, <2>4, <2>5 DEF Worker
<1>5. CASE Monitor
  <2> USE DEF input_vars, worker_vars, output_vars, queue_vars
  <2>1. CASE MonitorTop
    BY <2>1 DEF MonitorTop
  <2>2. CASE MonitorAdapt
    <3>1. \A t \in NewTargets : t \in Nat \ {0}
      BY DEF NewTargets, Larger, Smaller
    <3>. QED  BY <2>2, <3>1 DEF MonitorAdapt
  <2>. QED  BY <1>5, <2>1, <2>2 DEF Monitor
<1>6. CASE Output
  <2> USE DEF input_vars, worker_vars, monitor_vars, queue_vars
  <2>1. CASE OutputTop
    BY <2>1 DEF OutputTop
  <2>2. CASE OutputExit
    <3>1. Cardinality(pending) \in Nat
      BY ChunkSetsFinite
    <3>. QED  BY <2>2, <3>1 DEF OutputExit, TaskDoneForPending, Fates
  <2>3. CASE OutputGet
    <3>1. Head(output_queue) \in Chunks /\ output_queue' \in Seq(Chunks)
      BY <2>3, HeadTailProperties DEF OutputGet
    <3>. QED  BY <2>3, <3>1 DEF OutputGet
  <2>4. CASE OutputEmpty
    BY <2>4 DEF OutputEmpty
  <2>5. CASE OutputDeliver
    <3>1. PICK c \in Chunks :
             /\ Due(c) /\ pending' = pending \ {c} /\ WriteToSink(c)
             /\ PopResult(c) /\ IF HasError(c) THEN CountFailed ELSE CountProcessed
      BY <2>5 DEF OutputDeliver
    <3>2. next_expected' \in 0 .. MaxExpected
      BY <2>5, <3>1 DEF OutputDeliver, Due
    <3>3. fate' \in [Chunks -> Fates]
      BY <3>1 DEF WriteToSink, Fates
    <3>4. written' \in Seq(Chunks)
      <4>1. Append(written, c) \in Seq(Chunks)
        BY AppendToSeq
      <4>. QED  BY <3>1, <4>1 DEF WriteToSink
    <3>5. chunks_processed' \in Nat /\ chunks_failed' \in Nat
      BY <3>1 DEF CountFailed, CountProcessed
    <3>. QED  BY <2>5, <3>1, <3>2, <3>3, <3>4, <3>5 DEF OutputDeliver, PopResult
  <2>6. CASE OutputLoop
    BY <2>6 DEF OutputLoop
  <2>7. CASE OutputSkip
    BY <2>7 DEF OutputSkip, PopResult, CountFailed, SkipTo
  <2>. QED  BY <1>6, <2>1, <2>2, <2>3, <2>4, <2>5, <2>6, <2>7 DEF Output
<1>. QED  BY <1>1, <1>2, <1>3, <1>4, <1>5, <1>6 DEF Next

(* Every reachable state of the strategy is well typed. *)
THEOREM TypeCorrect == Spec => []TypeOK
<1>1. Spec => []TypeInv
  BY InitTypeInv, StepTypeInv, PTL DEF Spec
<1>2. TypeInv => TypeOK
  BY DEF TypeInv
<1>. QED  BY <1>1, <1>2, PTL
-----------------------------------------------------------------------------
(* The output thread is the only one that touches written, next_expected and
   the metrics: any other step leaves them alone. *)
frontier_vars == <<next_expected, written, chunks_processed, chunks_failed>>

LEMMA FrontierSteps ==
    ASSUME [Next]_vars
    PROVE  UNCHANGED frontier_vars \/ OutputDeliver \/ OutputSkip
<1> USE DEF frontier_vars, input_vars, worker_vars, monitor_vars, output_vars, queue_vars
<1>1. CASE UNCHANGED vars
  BY <1>1 DEF vars
<1>2. CASE Stop
  BY <1>2 DEF Stop
<1>3. CASE Input
  BY <1>3 DEF Input, InputTop, InputIdle, InputRead, InputCrash, InputPut, InputDrop
<1>4. ASSUME NEW w \in Workers, Worker(w) PROVE UNCHANGED frontier_vars
  BY <1>4 DEF Worker, WorkerTop, WorkerEmpty, WorkerGet, WorkerProcess, WorkerPut
<1>5. CASE Monitor
  BY <1>5 DEF Monitor, MonitorTop, MonitorAdapt
<1>6. CASE Output
  BY <1>6 DEF Output, OutputTop, OutputExit, OutputGet, OutputEmpty, OutputLoop
<1>. QED  BY <1>1, <1>2, <1>3, <1>4, <1>5, <1>6 DEF Next

(* A delivery writes the chunk at the frontier, if it writes one at all. *)
LEMMA DeliverStep ==
    ASSUME TypeOK, OutputDeliver
    PROVE  /\ next_expected' = next_expected + 1
           /\ next_expected \in Chunks
           /\ written' = written \/ written' = Append(written, next_expected)
<1>1. PICK c \in Chunks : Due(c) /\ WriteToSink(c)
  BY DEF OutputDeliver
<1>2. c = next_expected
  BY <1>1 DEF Due
<1>. QED  BY <1>1, <1>2 DEF OutputDeliver, WriteToSink

LEMMA StepOrderedOutput ==
    TypeOK /\ OrderedOutput /\ [Next]_vars => OrderedOutput'
<1> SUFFICES ASSUME TypeOK, OrderedOutput, [Next]_vars PROVE OrderedOutput'
  OBVIOUS
<1> USE ChunksFacts
<1>1. /\ written \in Seq(Chunks) /\ next_expected \in Nat /\ Len(written) \in Nat
      /\ \A i \in 1 .. Len(written) : written[i] \in Nat
  <2>1. written \in Seq(Chunks) /\ next_expected \in Nat
    BY DEF TypeOK
  <2>2. \A i \in 1 .. Len(written) : written[i] \in Chunks
    BY <2>1, ElementOfSeq
  <2>. QED  BY <2>1, <2>2, LenProperties
<1>2. CASE UNCHANGED frontier_vars
  BY <1>2 DEF frontier_vars, OrderedOutput
<1>3. CASE OutputSkip
  <2>1. written' = written /\ next_expected' = next_expected + 1
    BY <1>3 DEF OutputSkip, SkipTo
  <2>. QED  BY <1>1, <2>1 DEF OrderedOutput
<1>4. CASE OutputDeliver
  <2>1. CASE written' = written
    BY <1>1, <1>4, <2>1, DeliverStep DEF OrderedOutput
  <2>2. CASE written' = Append(written, next_expected)
    <3>1. /\ Len(written') = Len(written) + 1
          /\ \A i \in 1 .. Len(written) : written'[i] = written[i]
          /\ written'[Len(written) + 1] = next_expected
          /\ next_expected' = next_expected + 1
      BY <1>1, <1>4, <2>2, DeliverStep, AppendToSeq
    <3>2. \A i \in 1 .. Len(written') : i \in 1 .. Len(written) \/ i = Len(written) + 1
      BY <1>1, <3>1
    <3>3. \A i \in 1 .. Len(written') : written'[i] < next_expected'
      BY <1>1, <3>1, <3>2 DEF OrderedOutput
    <3>4. ASSUME NEW i \in 1 .. Len(written'), NEW j \in 1 .. Len(written'), i < j
          PROVE  written'[i] < written'[j]
      <4>1. i \in 1 .. Len(written)
        BY <1>1, <3>1, <3>4
      <4>2. CASE j \in 1 .. Len(written)
        BY <3>1, <3>4, <4>1, <4>2 DEF OrderedOutput
      <4>3. CASE j = Len(written) + 1
        BY <3>1, <4>1, <4>3 DEF OrderedOutput
      <4>. QED  BY <3>2, <4>2, <4>3
    <3>. QED  BY <3>3, <3>4 DEF OrderedOutput
  <2>. QED  BY <1>4, <2>1, <2>2, DeliverStep
<1>. QED  BY <1>2, <1>3, <1>4, FrontierSteps

(* The sink receives the chunks at most once and in increasing order, for any
   number of workers, any interleaving and any lost-chunk timeout. *)
THEOREM OutputIsOrdered == Spec => []OrderedOutput
<1>1. Init => OrderedOutput
  BY DEF Init, OrderedOutput
<1>2. Spec => []OrderedOutput
  BY <1>1, TypeCorrect, StepOrderedOutput, PTL DEF Spec
<1>. QED  BY <1>2

(* Every number the output thread has passed is counted exactly once. *)
THEOREM MetricsAddUp == Spec => []MetricsCoverFrontier
<1>1. Init => MetricsCoverFrontier
  BY DEF Init, MetricsCoverFrontier
<1>2. TypeOK /\ MetricsCoverFrontier /\ [Next]_vars => MetricsCoverFrontier'
  <2> SUFFICES ASSUME TypeOK, MetricsCoverFrontier, [Next]_vars
               PROVE  MetricsCoverFrontier'
    OBVIOUS
  <2> USE DEF TypeOK, MetricsCoverFrontier, CountFailed, CountProcessed
  <2>1. CASE UNCHANGED frontier_vars
    BY <2>1 DEF frontier_vars
  <2>2. CASE OutputSkip
    BY <2>2 DEF OutputSkip, SkipTo
  <2>3. CASE OutputDeliver
    BY <2>3 DEF OutputDeliver
  <2>. QED  BY <2>1, <2>2, <2>3, FrontierSteps
<1>. QED  BY <1>1, <1>2, TypeCorrect, PTL DEF Spec

(* The threads implement the abstract ordered delivery. *)
THEOREM ImplementsOrderedDelivery == Spec => ODSpec
<1>1. Init => OD!Init
  BY DEF Init, OD!Init
<1>2. TypeOK /\ [Next]_vars => [OD!Next]_(OD!odvars)
  <2> SUFFICES ASSUME TypeOK, [Next]_vars PROVE [OD!Next]_(OD!odvars)
    OBVIOUS
  <2> USE DEF OD!Next, OD!Deliver, OD!GiveUp, OD!odvars
  <2>1. CASE UNCHANGED frontier_vars
    BY <2>1 DEF frontier_vars
  <2>2. CASE OutputSkip
    BY <2>2 DEF OutputSkip, SkipTo
  <2>3. CASE OutputDeliver
    BY <2>3, DeliverStep
  <2>. QED  BY <2>1, <2>2, <2>3, FrontierSteps
<1>. QED  BY <1>1, <1>2, TypeCorrect, PTL DEF Spec, ODSpec, OD!Spec
-----------------------------------------------------------------------------
(* The elements of a sequence, and that none occurs twice. *)
Elements(s) == {s[i] : i \in 1 .. Len(s)}
Distinct(s) == \A i, j \in 1 .. Len(s) : s[i] = s[j] => i = j

(* Appending a new element, and taking the first one away. *)
LEMMA AppendDistinct ==
    ASSUME NEW S, NEW s \in Seq(S), NEW e \in S, Distinct(s), e \notin Elements(s)
    PROVE  /\ Elements(Append(s, e)) = Elements(s) \cup {e}
           /\ Distinct(Append(s, e))
<1>1. /\ Len(Append(s, e)) = Len(s) + 1 /\ Len(s) \in Nat
      /\ \A i \in 1 .. Len(s) : Append(s, e)[i] = s[i]
      /\ Append(s, e)[Len(s) + 1] = e
  BY AppendToSeq, LenProperties
<1>2. \A i \in 1 .. Len(s) + 1 : i \in 1 .. Len(s) \/ i = Len(s) + 1
  BY <1>1
<1>3. \A i \in 1 .. Len(s) : i \in 1 .. Len(s) + 1 /\ Len(s) + 1 \in 1 .. Len(s) + 1
  BY <1>1
<1>4. Len(s) + 1 \in 1 .. Len(s) + 1
  BY <1>1
<1>5. Elements(Append(s, e)) = Elements(s) \cup {e}
  BY <1>1, <1>2, <1>3, <1>4 DEF Elements
<1>6. Distinct(Append(s, e))
  BY <1>1, <1>2, <1>3 DEF Distinct, Elements
<1>. QED  BY <1>5, <1>6

LEMMA TailDistinct ==
    ASSUME NEW S, NEW s \in Seq(S), s # <<>>, Distinct(s)
    PROVE  /\ Head(s) \in Elements(s)
           /\ Elements(Tail(s)) = Elements(s) \ {Head(s)}
           /\ Distinct(Tail(s))
<1>1. /\ Len(s) \in Nat \ {0} /\ Head(s) = s[1] /\ Len(Tail(s)) = Len(s) - 1
      /\ \A i \in 1 .. Len(s) - 1 : Tail(s)[i] = s[i + 1]
  <2>1. Len(s) \in Nat /\ Len(s) # 0
    BY LenProperties, EmptySeq
  <2>. QED  BY <2>1, HeadTailProperties
<1>2. \A i \in 1 .. Len(s) - 1 : i + 1 \in 1 .. Len(s) /\ i + 1 # 1
  BY <1>1
<1>3. \A j \in 1 .. Len(s) : j = 1 \/ \E i \in 1 .. Len(s) - 1 : j = i + 1
  <2>1. ASSUME NEW j \in 1 .. Len(s), j # 1
        PROVE  j - 1 \in 1 .. Len(s) - 1 /\ j = (j - 1) + 1
    BY <1>1, <2>1
  <2>. QED  BY <2>1
<1>4. 1 \in 1 .. Len(s)
  BY <1>1
<1>5. Elements(Tail(s)) = {s[i + 1] : i \in 1 .. Len(s) - 1}
  BY <1>1 DEF Elements
<1>6. Elements(Tail(s)) = Elements(s) \ {Head(s)}
  <2>1. \A x \in Elements(Tail(s)) : x \in Elements(s) /\ x # Head(s)
    BY <1>1, <1>2, <1>4, <1>5 DEF Elements, Distinct
  <2>2. \A x \in Elements(s) : x # Head(s) => x \in Elements(Tail(s))
    BY <1>1, <1>3, <1>5 DEF Elements
  <2>. QED  BY <2>1, <2>2
<1>7. Distinct(Tail(s))
  <2>1. ASSUME NEW i \in 1 .. Len(s) - 1, NEW j \in 1 .. Len(s) - 1,
               Tail(s)[i] = Tail(s)[j]
        PROVE  i = j
    <3>1. i + 1 = j + 1
      BY <1>1, <1>2, <2>1 DEF Distinct
    <3>. QED  BY <1>1, <3>1
  <2>. QED  BY <1>1, <2>1 DEF Distinct
<1>. QED  BY <1>1, <1>4, <1>6, <1>7 DEF Elements

(* The places of a chunk as sets of chunks. *)
AtInput == {c \in Chunks : in_pc = "put" /\ c = chunk_index}
AtWorkers == {c \in Chunks : \E w \in Workers : w_chunk[w] = c}
Ended == {c \in Chunks : fate[c] # "none"}
ReadChunks == {c \in Chunks : Read(c)}

(* R is the disjoint union of the six other sets. *)
Split(R, A, B, C, D, E, F) ==
    /\ R = A \cup B \cup C \cup D \cup E \cup F
    /\ A \cap (B \cup C \cup D \cup E \cup F) = {}
    /\ B \cap (C \cup D \cup E \cup F) = {}
    /\ C \cap (D \cup E \cup F) = {}
    /\ D \cap (E \cup F) = {}
    /\ E \cap F = {}

(* No two workers hold the same chunk. *)
OneWorkerEach ==
    \A v, w \in Workers : w_chunk[v] \in Chunks /\ w_chunk[v] = w_chunk[w] => v = w

(* What has been read is split among the places, without overlap. *)
PlaceInv ==
    /\ TypeInv
    /\ Distinct(chunk_queue) /\ Distinct(output_queue) /\ OneWorkerEach
    /\ Split(ReadChunks, AtInput, Elements(chunk_queue), AtWorkers,
             Elements(output_queue), pending, Ended)

LEMMA InitPlaceInv == Init => PlaceInv
<1> SUFFICES ASSUME Init PROVE PlaceInv
  OBVIOUS
<1>1. TypeInv
  BY InitTypeInv
<1>2. Distinct(chunk_queue) /\ Distinct(output_queue)
  BY DEF Init, Distinct
<1>3. Elements(chunk_queue) = {} /\ Elements(output_queue) = {} /\ pending = {}
  BY DEF Init, Elements
<1>4. AtInput = {} /\ Ended = {}
  BY DEF Init, AtInput, Ended
<1>5. AtWorkers = {} /\ OneWorkerEach
  BY ChunksFacts DEF Init, AtWorkers, OneWorkerEach
<1>6. ReadChunks = {}
  <2>1. chunk_index = 0 /\ in_pc = "top"
    BY DEF Init
  <2>2. ASSUME NEW c \in Chunks PROVE ~Read(c)
    <3>1. c \in Nat
      BY ChunksFacts
    <3>. QED  BY <2>1, <3>1 DEF Read
  <2>. QED  BY <2>2 DEF ReadChunks
<1>. QED  BY <1>1, <1>2, <1>3, <1>4, <1>5, <1>6 DEF PlaceInv, Split

(* A step that moves no chunk. *)
still_vars == <<chunk_index, chunk_queue, w_chunk, output_queue, pending, fate>>

LEMMA StillStep ==
    ASSUME PlaceInv, TypeInv', UNCHANGED still_vars, in_pc' = "put" <=> in_pc = "put"
    PROVE  PlaceInv'
<1> USE DEF still_vars
<1>1. AtInput' = AtInput
  BY DEF AtInput
<1>2. AtWorkers' = AtWorkers
  BY DEF AtWorkers
<1>3. Ended' = Ended
  BY DEF Ended
<1>4. ReadChunks' = ReadChunks
  BY DEF ReadChunks, Read
<1>5. /\ Elements(chunk_queue)' = Elements(chunk_queue)
      /\ Elements(output_queue)' = Elements(output_queue)
  BY DEF Elements
<1>6. OneWorkerEach'
  BY DEF PlaceInv, OneWorkerEach
<1>7. Distinct(chunk_queue)' /\ Distinct(output_queue)'
  BY DEF PlaceInv, Distinct
<1>. QED  BY <1>1, <1>2, <1>3, <1>4, <1>5, <1>6, <1>7 DEF PlaceInv, Split

(* One lemma for each step that moves a chunk. get_next_chunk hands out a number
   that is nowhere yet. *)
LEMMA ReadPlaces == ASSUME PlaceInv, TypeInv', InputRead PROVE PlaceInv'
<1> USE DEF InputRead, worker_vars, output_vars, queue_vars
<1>1. AtInput = {} /\ AtInput' = {chunk_index}
  BY DEF AtInput, Chunks, PlaceInv, TypeInv, TypeOK
<1>2. ReadChunks' = ReadChunks \cup {chunk_index} /\ chunk_index \notin ReadChunks
  BY DEF ReadChunks, Read, Chunks, PlaceInv, TypeInv, TypeOK
<1>3. /\ AtWorkers' = AtWorkers /\ Ended' = Ended /\ pending' = pending
      /\ chunk_queue' = chunk_queue /\ output_queue' = output_queue
  BY DEF AtWorkers, Ended
<1>4. /\ Elements(chunk_queue)' = Elements(chunk_queue)
      /\ Elements(output_queue)' = Elements(output_queue)
  BY <1>3 DEF Elements
<1>5. OneWorkerEach'
  BY DEF PlaceInv, OneWorkerEach
<1>6. Distinct(chunk_queue)' /\ Distinct(output_queue)'
  BY DEF PlaceInv, Distinct
<1>. QED  BY <1>1, <1>2, <1>3, <1>4, <1>5, <1>6 DEF PlaceInv, Split

(* The put, or its time-out, ends the stay of a chunk at the input thread. *)
LEMMA BelowNChunks ==
    ASSUME NEW n \in 0 .. NChunks, n < NChunks PROVE n \in Chunks
BY DEF Chunks

LEMMA LeavesInput ==
    ASSUME PlaceInv, in_pc = "put", in_pc' = "top", NextNumber
    PROVE  /\ chunk_index \in Chunks
           /\ AtInput = {chunk_index} /\ AtInput' = {}
           /\ ReadChunks' = ReadChunks
<1>1. chunk_index \in 0 .. NChunks /\ chunk_index < NChunks
  BY DEF PlaceInv, TypeInv, TypeOK
<1>2. chunk_index \in Chunks
  BY <1>1, BelowNChunks
<1>3. AtInput = {chunk_index} /\ AtInput' = {}
  BY <1>2 DEF AtInput
<1>4. chunk_index' = chunk_index + 1
  BY DEF NextNumber
<1>5. ASSUME NEW c \in Chunks PROVE Read(c)' <=> Read(c)
  <2>1. c \in Nat
    BY ChunksFacts
  <2>. QED  BY <1>1, <1>4, <2>1 DEF Read
<1>6. ReadChunks' = ReadChunks
  BY <1>5 DEF ReadChunks
<1>. QED  BY <1>2, <1>3, <1>6

LEMMA PutPlaces == ASSUME PlaceInv, TypeInv', InputPut PROVE PlaceInv'
<1> USE DEF InputPut, worker_vars, output_vars
<1>1. /\ chunk_index \in Chunks /\ AtInput = {chunk_index} /\ AtInput' = {}
      /\ ReadChunks' = ReadChunks
  BY LeavesInput
<1>2. /\ AtWorkers' = AtWorkers /\ Ended' = Ended /\ pending' = pending
      /\ output_queue' = output_queue
  BY DEF AtWorkers, Ended
<1>3. chunk_index \notin Elements(chunk_queue) /\ chunk_queue \in Seq(Chunks)
  BY <1>1 DEF PlaceInv, Split, TypeInv, TypeOK
<1>4. /\ Elements(chunk_queue') = Elements(chunk_queue) \cup {chunk_index}
      /\ Distinct(chunk_queue')
  BY <1>1, <1>3, AppendDistinct DEF PlaceInv
<1>5. OneWorkerEach'
  BY DEF PlaceInv, OneWorkerEach
<1>6. Elements(output_queue') = Elements(output_queue) /\ Distinct(output_queue')
  BY <1>2 DEF PlaceInv
<1>. QED  BY <1>1, <1>2, <1>4, <1>5, <1>6 DEF PlaceInv, Split

LEMMA DropPlaces == ASSUME PlaceInv, TypeInv', InputDrop PROVE PlaceInv'
<1> USE DEF InputDrop, worker_vars, output_vars, queue_vars
<1>1. /\ chunk_index \in Chunks /\ AtInput = {chunk_index} /\ AtInput' = {}
      /\ ReadChunks' = ReadChunks
  BY LeavesInput
<1>2. /\ AtWorkers' = AtWorkers /\ pending' = pending
      /\ chunk_queue' = chunk_queue /\ output_queue' = output_queue
  BY DEF AtWorkers
<1>3. Ended' = Ended \cup {chunk_index}
  BY <1>1 DEF Ended, PlaceInv, TypeInv, TypeOK
<1>4. OneWorkerEach'
  BY DEF PlaceInv, OneWorkerEach
<1>5. /\ Elements(chunk_queue') = Elements(chunk_queue) /\ Distinct(chunk_queue')
      /\ Elements(output_queue') = Elements(output_queue) /\ Distinct(output_queue')
  BY <1>2 DEF PlaceInv
<1>. QED  BY <1>1, <1>2, <1>3, <1>4, <1>5 DEF PlaceInv, Split

LEMMA GetPlaces ==
    ASSUME PlaceInv, TypeInv', NEW w \in Workers, WorkerGet(w) PROVE PlaceInv'
<1> USE DEF WorkerGet, input_vars, output_vars
<1> DEFINE c == Head(chunk_queue)
<1>1. /\ c \in Elements(chunk_queue)
      /\ Elements(chunk_queue') = Elements(chunk_queue) \ {c} /\ Distinct(chunk_queue')
  BY TailDistinct DEF PlaceInv, TypeInv, TypeOK
<1>2. c \in Chunks
  BY HeadTailProperties DEF PlaceInv, TypeInv, TypeOK
<1>3. w_chunk[w] = NoChunk
  BY DEF PlaceInv, TypeInv, TypeOK, HoldersOK
<1>4. /\ w_chunk' = [w_chunk EXCEPT ![w] = c]
      /\ w_chunk \in [Workers -> Chunks \cup {NoChunk}]
  BY DEF PlaceInv, TypeInv, TypeOK
<1>5. AtWorkers' = AtWorkers \cup {c}
  BY <1>2, <1>3, <1>4, ChunksFacts DEF AtWorkers
<1>6. c \notin AtWorkers
  BY <1>1 DEF PlaceInv, Split
<1>7. OneWorkerEach'
  BY <1>2, <1>4, <1>6 DEF PlaceInv, OneWorkerEach, AtWorkers
<1>8. /\ AtInput' = AtInput /\ ReadChunks' = ReadChunks /\ Ended' = Ended
      /\ pending' = pending /\ output_queue' = output_queue
  BY DEF AtInput, ReadChunks, Read, Ended
<1>9. Elements(output_queue') = Elements(output_queue) /\ Distinct(output_queue')
  BY <1>8 DEF PlaceInv
<1> HIDE DEF c
<1>. QED  BY <1>1, <1>5, <1>7, <1>8, <1>9 DEF PlaceInv, Split

LEMMA HandOverPlaces ==
    ASSUME PlaceInv, TypeInv', NEW w \in Workers, WorkerPut(w) PROVE PlaceInv'
<1> USE DEF WorkerPut, input_vars, output_vars
<1> DEFINE c == w_chunk[w]
<1>1. c \in Chunks
  BY DEF PlaceInv, TypeInv, TypeOK, HoldersOK
<1>2. c \in AtWorkers
  BY <1>1 DEF AtWorkers
<1>3. c \notin Elements(output_queue) /\ output_queue \in Seq(Chunks)
  BY <1>2 DEF PlaceInv, Split, TypeInv, TypeOK
<1>4. output_queue' = Append(output_queue, c)
  BY DEF HandOver
<1>5. /\ Elements(output_queue') = Elements(output_queue) \cup {c}
      /\ Distinct(output_queue')
  BY <1>1, <1>3, <1>4, AppendDistinct DEF PlaceInv
<1>6. /\ w_chunk' = [w_chunk EXCEPT ![w] = NoChunk]
      /\ w_chunk \in [Workers -> Chunks \cup {NoChunk}]
  BY DEF PlaceInv, TypeInv, TypeOK
<1>7. AtWorkers' = AtWorkers \ {c}
  BY <1>1, <1>6, ChunksFacts DEF AtWorkers, PlaceInv, OneWorkerEach
<1>8. OneWorkerEach'
  BY <1>6, ChunksFacts DEF PlaceInv, OneWorkerEach
<1>9. /\ AtInput' = AtInput /\ ReadChunks' = ReadChunks /\ Ended' = Ended
      /\ pending' = pending /\ chunk_queue' = chunk_queue
  BY DEF AtInput, ReadChunks, Read, Ended
<1>10. Elements(chunk_queue') = Elements(chunk_queue) /\ Distinct(chunk_queue')
  BY <1>9 DEF PlaceInv
<1> HIDE DEF c
<1>. QED  BY <1>2, <1>5, <1>7, <1>8, <1>9, <1>10 DEF PlaceInv, Split

LEMMA OutputGetPlaces == ASSUME PlaceInv, TypeInv', OutputGet PROVE PlaceInv'
<1> USE DEF OutputGet, input_vars, worker_vars
<1> DEFINE c == Head(output_queue)
<1>1. /\ c \in Elements(output_queue)
      /\ Elements(output_queue') = Elements(output_queue) \ {c} /\ Distinct(output_queue')
  BY TailDistinct DEF PlaceInv, TypeInv, TypeOK
<1>2. pending' = pending \cup {c}
  OBVIOUS
<1>3. /\ AtInput' = AtInput /\ ReadChunks' = ReadChunks /\ Ended' = Ended
      /\ AtWorkers' = AtWorkers /\ chunk_queue' = chunk_queue
  BY DEF AtInput, ReadChunks, Read, Ended, AtWorkers
<1>4. Elements(chunk_queue') = Elements(chunk_queue) /\ Distinct(chunk_queue')
  BY <1>3 DEF PlaceInv
<1>5. OneWorkerEach'
  BY DEF PlaceInv, OneWorkerEach
<1> HIDE DEF c
<1>. QED  BY <1>1, <1>2, <1>3, <1>4, <1>5 DEF PlaceInv, Split

LEMMA DeliverPlaces == ASSUME PlaceInv, TypeInv', OutputDeliver PROVE PlaceInv'
<1> USE DEF OutputDeliver, input_vars, worker_vars
<1>1. PICK c \in Chunks : Due(c) /\ pending' = pending \ {c} /\ WriteToSink(c)
  OBVIOUS
<1>2. c \in pending
  BY <1>1 DEF Due
<1>3. Ended' = Ended \cup {c}
  BY <1>1 DEF Ended, WriteToSink, PlaceInv, TypeInv, TypeOK
<1>4. /\ AtInput' = AtInput /\ ReadChunks' = ReadChunks /\ AtWorkers' = AtWorkers
      /\ chunk_queue' = chunk_queue /\ output_queue' = output_queue
  BY DEF AtInput, ReadChunks, Read, AtWorkers
<1>5. /\ Elements(chunk_queue') = Elements(chunk_queue) /\ Distinct(chunk_queue')
      /\ Elements(output_queue') = Elements(output_queue) /\ Distinct(output_queue')
  BY <1>4 DEF PlaceInv
<1>6. OneWorkerEach'
  BY DEF PlaceInv, OneWorkerEach
<1>. QED  BY <1>1, <1>2, <1>3, <1>4, <1>5, <1>6 DEF PlaceInv, Split

LEMMA ExitPlaces == ASSUME PlaceInv, TypeInv', OutputExit PROVE PlaceInv'
<1> USE DEF OutputExit, input_vars, worker_vars
<1>1. pending' = {} /\ pending \subseteq Chunks
  BY DEF PlaceInv, TypeInv, TypeOK
<1>2. Ended' = Ended \cup pending
  BY <1>1 DEF Ended, PlaceInv, TypeInv, TypeOK
<1>3. /\ AtInput' = AtInput /\ ReadChunks' = ReadChunks /\ AtWorkers' = AtWorkers
      /\ chunk_queue' = chunk_queue /\ output_queue' = output_queue
  BY DEF AtInput, ReadChunks, Read, AtWorkers
<1>4. /\ Elements(chunk_queue') = Elements(chunk_queue) /\ Distinct(chunk_queue')
      /\ Elements(output_queue') = Elements(output_queue) /\ Distinct(output_queue')
  BY <1>3 DEF PlaceInv
<1>5. OneWorkerEach'
  BY DEF PlaceInv, OneWorkerEach
<1>. QED  BY <1>1, <1>2, <1>3, <1>4, <1>5 DEF PlaceInv, Split

LEMMA StepPlaceInv == PlaceInv /\ [Next]_vars => PlaceInv'
<1> SUFFICES ASSUME PlaceInv, [Next]_vars PROVE PlaceInv'
  OBVIOUS
<1>0. TypeInv'
  BY StepTypeInv DEF PlaceInv
<1> USE DEF still_vars, input_vars, worker_vars, monitor_vars, output_vars, queue_vars
<1>1. CASE UNCHANGED vars
  BY <1>0, <1>1, StillStep DEF vars
<1>2. CASE Stop
  BY <1>0, <1>2, StillStep DEF Stop
<1>3. CASE Input
  <2>1. CASE InputTop \/ InputIdle \/ InputCrash
    <3>1. UNCHANGED still_vars /\ in_pc # "put" /\ in_pc' # "put"
      BY <2>1 DEF InputTop, InputIdle, InputCrash
    <3>. QED  BY <1>0, <3>1, StillStep
  <2>. QED  BY <1>0, <1>3, <2>1, ReadPlaces, PutPlaces, DropPlaces DEF Input
<1>4. ASSUME NEW w \in Workers, Worker(w) PROVE PlaceInv'
  <2>1. CASE WorkerTop(w) \/ WorkerEmpty(w) \/ WorkerProcess(w)
    <3>1. UNCHANGED still_vars /\ in_pc' = in_pc
      BY <2>1 DEF WorkerTop, WorkerEmpty, WorkerProcess
    <3>. QED  BY <1>0, <3>1, StillStep
  <2>. QED  BY <1>0, <1>4, <2>1, GetPlaces, HandOverPlaces DEF Worker
<1>5. CASE Monitor
  <2>1. UNCHANGED still_vars /\ in_pc' = in_pc
    BY <1>5 DEF Monitor, MonitorTop, MonitorAdapt
  <2>. QED  BY <1>0, <2>1, StillStep
<1>6. CASE Output
  <2>1. CASE OutputTop \/ OutputEmpty \/ OutputLoop \/ OutputSkip
    <3>1. UNCHANGED still_vars /\ in_pc' = in_pc
      BY <2>1 DEF OutputTop, OutputEmpty, OutputLoop, OutputSkip
    <3>. QED  BY <1>0, <3>1, StillStep
  <2>. QED  BY <1>0, <1>6, <2>1, OutputGetPlaces, DeliverPlaces, ExitPlaces DEF Output
<1>. QED  BY <1>1, <1>2, <1>3, <1>4, <1>5, <1>6 DEF Next

LEMMA PlacesInductive == Spec => []PlaceInv
BY InitPlaceInv, StepPlaceInv, PTL DEF Spec

(* The places of c in a queue, named by tag: none if c is not in it, and one if
   the queue holds it, since it holds nothing twice. *)
PlacesIn(tag, s, c) == {<<tag, i>> : i \in {j \in DOMAIN s : s[j] = c}}

LEMMA InSequence ==
    ASSUME NEW s, NEW c, NEW tag, Distinct(s), DOMAIN s = 1 .. Len(s)
    PROVE  /\ c \notin Elements(s) => PlacesIn(tag, s, c) = {}
           /\ c \in Elements(s) => \E x : PlacesIn(tag, s, c) = {x}
<1>1. ASSUME c \notin Elements(s) PROVE PlacesIn(tag, s, c) = {}
  BY <1>1 DEF Elements, PlacesIn
<1>2. ASSUME c \in Elements(s) PROVE \E x : PlacesIn(tag, s, c) = {x}
  <2>1. PICK i \in 1 .. Len(s) : s[i] = c
    BY <1>2 DEF Elements
  <2>2. {j \in DOMAIN s : s[j] = c} = {i}
    BY <2>1 DEF Distinct
  <2>3. PlacesIn(tag, s, c) = {<<tag, i>>}
    BY <2>2 DEF PlacesIn
  <2>. QED  BY <2>3
<1>. QED  BY <1>1, <1>2

(* A chunk that was read is in exactly one place and no other chunk is in any,
   for any number of workers and chunks: no thread copies, loses or invents one. *)
THEOREM EachChunkInOnePlace == Spec => []ChunkInOnePlace
<1>1. ASSUME PlaceInv PROVE ChunkInOnePlace
  <2> SUFFICES ASSUME NEW c \in Chunks
               PROVE  Cardinality(Places(c)) = IF Read(c) THEN 1 ELSE 0
    BY DEF ChunkInOnePlace
  <2> DEFINE A == {<<"input", 0>> : x \in {y \in {chunk_index} : in_pc = "put" /\ y = c}}
             B == {<<"chunk_queue", i>> :
                     i \in {j \in DOMAIN chunk_queue : chunk_queue[j] = c}}
             C == {<<"worker", w>> : w \in {v \in Workers : w_chunk[v] = c}}
             D == {<<"output_queue", i>> :
                     i \in {j \in DOMAIN output_queue : output_queue[j] = c}}
             E == {<<"pending", 0>> : x \in pending \cap {c}}
             F == {<<fate[c], 0>> : x \in {y \in {c} : fate[y] # "none"}}
  <2>1. Places(c) = A \cup B \cup C \cup D \cup E \cup F
    BY DEF Places
  <2>2. (c \notin AtInput => A = {}) /\ (c \in AtInput => \E x : A = {x})
    <3>1. c \in AtInput <=> in_pc = "put" /\ c = chunk_index
      BY DEF AtInput
    <3>2. c \notin AtInput => A = {}
      BY <3>1
    <3>3. c \in AtInput => A = {<<"input", 0>>}
      BY <3>1
    <3>. QED  BY <3>2, <3>3
  <2>3. /\ DOMAIN chunk_queue = 1 .. Len(chunk_queue)
        /\ DOMAIN output_queue = 1 .. Len(output_queue)
    BY <1>1, LenProperties DEF PlaceInv, TypeInv, TypeOK
  <2>3a. Distinct(chunk_queue) /\ Distinct(output_queue)
    BY <1>1 DEF PlaceInv
  <2>4. /\ c \notin Elements(chunk_queue) => B = {}
        /\ c \in Elements(chunk_queue) => \E x : B = {x}
    <3>1. B = PlacesIn("chunk_queue", chunk_queue, c)
      BY DEF PlacesIn
    <3> HIDE DEF B
    <3>. QED  BY <2>3a, <2>3, <3>1, InSequence
  <2>5. (c \notin AtWorkers => C = {}) /\ (c \in AtWorkers => \E x : C = {x})
    <3>1. c \notin AtWorkers => C = {}
      BY DEF AtWorkers
    <3>2. ASSUME c \in AtWorkers PROVE \E x : C = {x}
      <4>1. PICK w \in Workers : w_chunk[w] = c
        BY <3>2 DEF AtWorkers
      <4>2. {v \in Workers : w_chunk[v] = c} = {w}
        BY <1>1, <4>1 DEF PlaceInv, OneWorkerEach
      <4>3. C = {<<"worker", w>>}
        BY <4>2
      <4>. QED  BY <4>3
    <3>. QED  BY <3>1, <3>2
  <2>6. /\ c \notin Elements(output_queue) => D = {}
        /\ c \in Elements(output_queue) => \E x : D = {x}
    <3>1. D = PlacesIn("output_queue", output_queue, c)
      BY DEF PlacesIn
    <3> HIDE DEF D
    <3>. QED  BY <2>3a, <2>3, <3>1, InSequence
  <2>7. (c \notin pending => E = {}) /\ (c \in pending => \E x : E = {x})
    <3>1. c \notin pending => E = {}
      OBVIOUS
    <3>2. c \in pending => E = {<<"pending", 0>>}
      OBVIOUS
    <3>. QED  BY <3>1, <3>2
  <2>8. (c \notin Ended => F = {}) /\ (c \in Ended => \E x : F = {x})
    <3>1. c \in Ended <=> fate[c] # "none"
      BY DEF Ended
    <3>2. c \notin Ended => F = {}
      BY <3>1
    <3>3. c \in Ended => F = {<<fate[c], 0>>}
      BY <3>1
    <3>. QED  BY <3>2, <3>3
  <2>9. c \in ReadChunks <=> Read(c)
    BY DEF ReadChunks
  <2> HIDE DEF A, B, C, D, E, F
  <2>10. CASE ~Read(c)
    <3>1. Places(c) = {}
      BY <1>1, <2>1, <2>2, <2>4, <2>5, <2>6, <2>7, <2>8, <2>9, <2>10 DEF PlaceInv, Split
    <3>. QED  BY <2>10, <3>1, FS_EmptySet
  <2>11. CASE Read(c)
    <3>1. \E x : Places(c) = {x}
      BY <1>1, <2>1, <2>2, <2>4, <2>5, <2>6, <2>7, <2>8, <2>9, <2>11 DEF PlaceInv, Split
    <3>. QED  BY <2>11, <3>1, FS_Singleton
  <2>. QED  BY <2>10, <2>11
<1>. QED  BY <1>1, PlacesInductive, PTL

(* The workers that hold a chunk. *)
Holders == {w \in Workers : w_chunk[w] # NoChunk}

(* The counters of tasks, of active chunks and of passed numbers agree with
   what they count, whatever path each chunk takes. *)
THEOREM CountersAreRight == Spec => []CountersAgree
<1> DEFINE Inv == TaskDoneBalance /\ ActiveCountsHolders
<1>1. Init => Inv
  <2> SUFFICES ASSUME Init PROVE Inv
    OBVIOUS
  <2>1. Holders = {} /\ pending = {} /\ Len(output_queue) = 0
    BY DEF Init, Holders
  <2>2. Cardinality(Holders) = 0 /\ Cardinality(pending) = 0
    BY <2>1, FS_EmptySet
  <2>3. TaskDoneBalance
    BY <2>1, <2>2 DEF Init, TaskDoneBalance
  <2>4. ActiveCountsHolders
    BY <2>2 DEF Init, ActiveCountsHolders, Holders
  <2>. QED  BY <2>3, <2>4
<1>2. PlaceInv /\ Inv /\ [Next]_vars => Inv'
  <2> SUFFICES ASSUME PlaceInv, Inv, [Next]_vars PROVE Inv'
    OBVIOUS
  <2>0. /\ IsFiniteSet(pending) /\ Cardinality(pending) \in Nat
        /\ IsFiniteSet(Holders) /\ Cardinality(Holders) \in Nat
        /\ Len(output_queue) \in Nat /\ output_queue \in Seq(Chunks)
        /\ unfinished \in Int /\ active_chunks \in Int
    <3>1. IsFiniteSet(pending) /\ Cardinality(pending) \in Nat
      BY ChunkSetsFinite DEF PlaceInv, TypeInv, TypeOK
    <3>2. IsFiniteSet(Holders) /\ Cardinality(Holders) \in Nat
      BY WorkersAssumption, FS_Subset, FS_CardinalityType DEF Holders
    <3>. QED  BY <3>1, <3>2, LenProperties DEF PlaceInv, TypeInv, TypeOK
  <2> USE DEF input_vars, worker_vars, monitor_vars, output_vars, queue_vars
  <2>1. CASE UNCHANGED <<w_chunk, active_chunks, output_queue, unfinished, pending>>
    BY <2>1 DEF TaskDoneBalance, ActiveCountsHolders
  <2>2. ASSUME NEW w \in Workers, WorkerGet(w) PROVE Inv'
    <3>1. w_chunk[w] = NoChunk /\ Head(chunk_queue) \in Chunks
      BY <2>2, HeadTailProperties DEF WorkerGet, PlaceInv, TypeInv, TypeOK, HoldersOK
    <3>2. /\ w_chunk' = [w_chunk EXCEPT ![w] = Head(chunk_queue)]
          /\ w_chunk \in [Workers -> Chunks \cup {NoChunk}]
      BY <2>2 DEF WorkerGet, PlaceInv, TypeInv, TypeOK
    <3>3. w \notin Holders /\ Holders' = Holders \cup {w}
      BY <3>1, <3>2, ChunksFacts DEF Holders
    <3>4. Cardinality(Holders') = Cardinality(Holders) + 1
      BY <2>0, <3>3, FS_AddElement
    <3>5. ActiveCountsHolders'
      BY <2>0, <2>2, <3>4 DEF WorkerGet, ActiveCountsHolders, Holders
    <3>. QED  BY <2>2, <3>5 DEF WorkerGet, TaskDoneBalance
  <2>3. ASSUME NEW w \in Workers, WorkerPut(w) PROVE Inv'
    <3>1. w_chunk[w] \in Chunks
      BY <2>3 DEF WorkerPut, PlaceInv, TypeInv, TypeOK, HoldersOK
    <3>2. /\ w_chunk' = [w_chunk EXCEPT ![w] = NoChunk]
          /\ w_chunk \in [Workers -> Chunks \cup {NoChunk}]
      BY <2>3 DEF WorkerPut, PlaceInv, TypeInv, TypeOK
    <3>3. w \in Holders /\ Holders' = Holders \ {w}
      BY <3>1, <3>2, ChunksFacts DEF Holders
    <3>4. Cardinality(Holders') = Cardinality(Holders) - 1
      BY <2>0, <3>3, FS_RemoveElement
    <3>5. ActiveCountsHolders'
      BY <2>0, <2>3, <3>4 DEF WorkerPut, ReleaseSlot, ActiveCountsHolders, Holders
    <3>6. Len(output_queue') = Len(output_queue) + 1
      BY <2>0, <2>3, <3>1, AppendToSeq DEF WorkerPut, HandOver
    <3>7. TaskDoneBalance'
      BY <2>0, <2>3, <3>6 DEF WorkerPut, HandOver, TaskDoneBalance
    <3>. QED  BY <3>5, <3>7
  <2>4. CASE OutputGet
    <3>1. Head(output_queue) \in Elements(output_queue)
      BY <2>0, <2>4, TailDistinct DEF OutputGet, PlaceInv
    <3>2. Head(output_queue) \notin pending
      BY <3>1 DEF PlaceInv, Split
    <3>3. Cardinality(pending') = Cardinality(pending) + 1
      BY <2>0, <2>4, <3>2, FS_AddElement DEF OutputGet
    <3>4. Len(output_queue') = Len(output_queue) - 1
      BY <2>0, <2>4, HeadTailProperties DEF OutputGet
    <3>5. TaskDoneBalance'
      BY <2>0, <2>4, <3>3, <3>4 DEF OutputGet, TaskDoneBalance
    <3>. QED  BY <2>4, <3>5 DEF OutputGet, ActiveCountsHolders
  <2>5. CASE OutputDeliver
    <3>1. PICK c \in pending : pending' = pending \ {c}
      BY <2>5 DEF OutputDeliver, Due
    <3>2. Cardinality(pending') = Cardinality(pending) - 1
      BY <2>0, <3>1, FS_RemoveElement
    <3>3. TaskDoneBalance'
      BY <2>0, <2>5, <3>2 DEF OutputDeliver, TaskDoneBalance
    <3>. QED  BY <2>5, <3>3 DEF OutputDeliver, ActiveCountsHolders
  <2>6. CASE OutputExit
    <3>1. TaskDoneBalance'
      BY <2>0, <2>6, FS_EmptySet DEF OutputExit, TaskDoneForPending, TaskDoneBalance
    <3>. QED  BY <2>6, <3>1 DEF OutputExit, ActiveCountsHolders
  <2>7. CASE Input
    BY <2>1, <2>7
    DEF Input, InputTop, InputIdle, InputRead, InputCrash, InputPut, InputDrop
  <2>8. CASE Monitor \/ Stop \/ UNCHANGED vars
    BY <2>1, <2>8 DEF Monitor, MonitorTop, MonitorAdapt, Stop, vars
  <2>9. ASSUME NEW w \in Workers, Worker(w) PROVE Inv'
    BY <2>1, <2>2, <2>3, <2>9 DEF Worker, WorkerTop, WorkerEmpty, WorkerProcess
  <2>10. CASE Output
    BY <2>1, <2>4, <2>5, <2>6, <2>10
    DEF Output, OutputTop, OutputEmpty, OutputLoop, OutputSkip
  <2>. QED  BY <2>7, <2>8, <2>9, <2>10 DEF Next
<1>3. Spec => []Inv
  <2>. HIDE DEF Inv
  <2>. QED  BY <1>1, <1>2, PlacesInductive, PTL DEF Spec
<1>4. Inv /\ MetricsCoverFrontier => CountersAgree
  BY DEF CountersAgree
<1>5. Spec => []CountersAgree
  <2>. HIDE DEF Inv
  <2>. QED  BY <1>3, <1>4, MetricsAddUp, PTL
<1>. QED  BY <1>5
=============================================================================

----------------------------- MODULE TpuProofs -----------------------------
(***************************************************************************)
(* Proofs about module Tpu, for every set of jobs and every buffer depth.  *)
(*   - Types, and the controller's timing: write buffer and array run in   *)
(*     step with it (Lockstep).                                            *)
(*   - The product, as far as a job fits the buffers.  The invariant       *)
(*     follows the bytes: where the controller is in the walk over the     *)
(*     tiles (Position), which byte is in which stage of the array         *)
(*     (Pipes), which products each PE has added (Sums), what the write    *)
(*     buffer holds (Buffered) and which words of C are final (Written).   *)
(***************************************************************************)
EXTENDS Tpu, SequenceTheorems, TLAPS

-----------------------------------------------------------------------------
(* Type correctness.                                                       *)

(* A byte or its absence enters a pipe and the others move one stage on.   *)
LEMMA ShiftType ==
  ASSUME NEW S, NEW pipe \in [Stage -> S], NEW in \in S
  PROVE  Shift(pipe, in) \in [Stage -> S]
<1>1. ASSUME NEW s \in Stage, s[2] # 1
      PROVE  <<s[1], s[2]-1>> \in Stage
  BY <1>1 DEF Stage, Lane, Dim
<1>. QED BY <1>1 DEF Shift

(* A PE adds at most one product.                                          *)
LEMMA MultiType ==
  ASSUME ArrayTypeOK, NEW i \in Lane, NEW j \in Lane
  PROVE  Multi(i, j) \in Seq(Product)
<1>1. <<i, 1+i+j>> \in Stage /\ <<j, 1+i+j>> \in Stage
  BY DEF Stage, Lane, Dim
<1>2. /\ Left(i, j) \in Byte
      /\ Top(i, j) \in Byte
      /\ Mask(i, j) \in BOOLEAN
  <2>1. \A s \in Stage : /\ aPipe[s] \in Byte
                         /\ bPipe[s] \in Byte
                         /\ mPipe[s] \in BOOLEAN
    BY DEF ArrayTypeOK
  <2>. QED BY <1>1, <2>1, Zenon DEF Left, Top, Mask
<1>3. CASE Left(i, j) = Zero
  BY <1>3 DEF Multi
<1>4. CASE Left(i, j) # Zero
  <2>1. [a |-> Left(i, j), b |-> Top(i, j), offset |-> Mask(i, j)] \in Product
    BY <1>2, <1>4 DEF Product, Byte
  <2>. QED BY <2>1 DEF Multi
<1>. QED BY <1>3, <1>4

(* All that the proofs need to know of the width of an index.              *)
LEMMA IndexSpanType == IndexSpan \in Nat \ {0}
BY DEF IndexSpan

(* What every action has in common.                                        *)
LEMMA NextClk ==
  ASSUME Next
  PROVE  Clk /\ tpu_state' \in {"IDLE", "PASS_DATA", "WAIT_6", "WAIT_FOR_WRITE"}
BY DEF Next, Start, Idle, PassData, Wait6, WaitForWrite

(* The job's dimensions are natural numbers, before the first job too.     *)
LEMMA JobType ==
  ASSUME job \in Jobs \cup {NoJob}
  PROVE  job.K \in Nat /\ job.M \in Nat /\ job.N \in Nat
<1>1. CASE job \in Jobs
  <2>1. job \in [K : 0 .. 255, M : 0 .. 255, N : 0 .. 255]
    BY <1>1, JobsAssumption
  <2>. QED BY <2>1
<1>2. CASE job = NoJob
  BY <1>2 DEF NoJob
<1>. QED BY <1>1, <1>2

(* The controller's registers stay within their widths.                    *)
LEMMA TileType ==
  ASSUME n \in 0 .. 255, m \in 0 .. 255, TileClk
  PROVE  n' \in 0 .. 255 /\ m' \in 0 .. 255
<1>1. n' \in 0 .. 255
  BY DEF TileClk
<1>2. m' \in 0 .. 255
  BY DEF TileClk
<1>. QED BY <1>1, <1>2

(* The read index of A or B stays 16 bits wide.                            *)
LEMMA NextIndexType ==
  ASSUME NEW index \in 0 .. IndexSpan-1, NEW start \in Nat
  PROVE  NextIndex(index, start) \in 0 .. IndexSpan-1
BY IndexSpanType DEF NextIndex

(* Every edge keeps all the controller's registers within their widths.    *)
LEMMA ControlType ==
  ASSUME ControlTypeOK, Next
  PROVE  ControlTypeOK'
<1>1. /\ counter \in 0 .. 511
      /\ n \in 0 .. 255 /\ m \in 0 .. 255
      /\ job \in Jobs \cup {NoJob}
      /\ A_index \in 0 .. IndexSpan-1 /\ B_index \in 0 .. IndexSpan-1
      /\ C_index \in 0 .. IndexSpan-1
  BY DEF ControlTypeOK
<1>2. job.K \in Nat /\ job.M \in Nat
  BY <1>1, JobType
<1>3. TileClk /\ IndexClk /\ CounterClk
  BY NextClk DEF Clk
<1>4. job' \in Jobs \cup {NoJob}
  BY <1>1 DEF Next, Start, Idle, PassData, Wait6, WaitForWrite
<1>5. counter' \in 0 .. 511
  BY <1>1, <1>3 DEF CounterClk
<1>6. n' \in 0 .. 255 /\ m' \in 0 .. 255
  BY <1>1, <1>3, TileType
<1>7. m * job.K \in Nat /\ n * job.K \in Nat /\ n * job.M + m * Dim \in Nat
  BY <1>1, <1>2 DEF Dim
<1>8. A_index' \in 0 .. IndexSpan-1 /\ B_index' \in 0 .. IndexSpan-1
  BY <1>1, <1>3, <1>7, NextIndexType DEF IndexClk
<1>9. C_index' \in 0 .. IndexSpan-1
  BY <1>1, <1>3, <1>7, IndexSpanType DEF IndexClk, NextCIndex
<1>. QED BY <1>4, <1>5, <1>6, <1>8, <1>9, NextClk DEF ControlTypeOK

(* Every edge keeps the pipes and accumulators of the array well typed.    *)
LEMMA ArrayType ==
  ASSUME ArrayTypeOK, NEW read \in BOOLEAN, NEW a \in Nat, NEW b \in Nat,
         ArrayClk(read, a, b)
  PROVE  ArrayTypeOK'
<1>1. aPipe' \in [Stage -> Byte] /\ bPipe' \in [Stage -> Byte]
  <2>1. (IF read THEN a ELSE Zero) \in Byte /\ (IF read THEN b ELSE Zero) \in Byte
    BY DEF Byte
  <2>. QED BY <2>1, ShiftType DEF ArrayClk, ArrayTypeOK
<1>2. mPipe' \in [Stage -> BOOLEAN]
  BY ShiftType DEF ArrayClk, ArrayTypeOK
<1>3. acc' \in [Lane \X Lane -> Seq(Product)]
  <2>1. ASSUME NEW p \in Lane \X Lane
        PROVE  /\ Multi(p[1], p[2]) \in Seq(Product)
               /\ acc[p] \o Multi(p[1], p[2]) \in Seq(Product)
    <3>1. p[1] \in Lane /\ p[2] \in Lane
      OBVIOUS
    <3>2. acc[p] \in Seq(Product)
      BY DEF ArrayTypeOK
    <3>3. Multi(p[1], p[2]) \in Seq(Product)
      BY <3>1, MultiType
    <3>. QED BY <3>2, <3>3
  <2>. QED BY <2>1 DEF ArrayClk, Accumulate
<1>4. PE_clear' \in BOOLEAN /\ read_ff' \in BOOLEAN
  BY DEF ArrayClk, ClearPulse, ArrayTypeOK
<1>. QED BY <1>1, <1>2, <1>3, <1>4 DEF ArrayTypeOK

(* Every edge keeps the write buffer well typed, whichever side of the edge*)
(* its capture sees.                                                       *)
LEMMA WriteBufferType ==
  ASSUME NEW Rows, WriteBufferTypeOK(Rows), NEW in_valid \in BOOLEAN,
         NEW start \in 0 .. IndexSpan-1, NEW pe \in Rows, NEW peNext \in Rows,
         WriteBufferClk(in_valid, start, pe, peNext)
  PROVE  WriteBufferTypeOK(Rows)'
<1>1. wb_state' \in {"IDLE", "LOAD_DATA", "WRITE"}
  BY DEF WriteBufferClk, NextWriteState
<1>2. wb_counter' \in 0 .. LastRow
  BY DEF WriteBufferClk, RowAdvance, WriteBufferTypeOK, LastRow
<1>3. write_index' \in 0 .. IndexSpan-1
  BY IndexSpanType DEF WriteBufferClk, WriteBufferTypeOK
<1>4. data_buffer' \in Rows
  BY DEF WriteBufferClk, Capture, WriteBufferTypeOK
<1>. QED BY <1>1, <1>2, <1>3, <1>4 DEF WriteBufferTypeOK

(* Every reachable state is well typed.                                    *)
THEOREM TypeCorrect == Spec => []TypeOK
<1>1. Init => TypeOK
  <2>. SUFFICES ASSUME Init PROVE TypeOK
    OBVIOUS
  <2>1. ControlTypeOK
    BY IndexSpanType DEF Init, ControlTypeOK
  <2>2. ArrayTypeOK
    <3>1. ArrayInit
      BY DEF Init
    <3>2. aPipe \in [Stage -> Byte] /\ bPipe \in [Stage -> Byte]
      BY <3>1 DEF ArrayInit, Byte
    <3>3. mPipe \in [Stage -> BOOLEAN] /\ read_ff \in BOOLEAN /\ PE_clear \in BOOLEAN
      BY <3>1, Zenon DEF ArrayInit
    <3>4. acc \in [Lane \X Lane -> Seq(Product)]
      BY <3>1 DEF ArrayInit
    <3>. QED BY <3>2, <3>3, <3>4 DEF ArrayTypeOK
  <2>3. WriteBufferTypeOK([Lane \X Lane -> Seq(Product)])
    <3>1. WriteBufferInit
      BY DEF Init
    <3>. QED BY <3>1, IndexSpanType
             DEF WriteBufferInit, WriteBufferTypeOK, LastRow, Lane, Dim
  <2>4. buffer_C \in [0 .. Depth-1 -> [Lane -> Seq(Product)]]
    BY DEF Init
  <2>. QED BY <2>1, <2>2, <2>3, <2>4 DEF TypeOK
<1>2. TypeOK /\ [Next]_vars => TypeOK'
  <2>1. ASSUME TypeOK, Next PROVE TypeOK'
    <3>1. Clk
      BY <2>1 DEF Next, Start, Idle, PassData, Wait6, WaitForWrite
    <3>2. ControlTypeOK'
      BY <2>1, ControlType DEF TypeOK
    <3>3. ArrayTypeOK'
      <4>1. A_index % Depth \in Nat /\ B_index % Depth \in Nat
        BY <2>1, DepthAssumption DEF TypeOK, ControlTypeOK
      <4>. QED BY <2>1, <3>1, <4>1, ArrayType DEF Clk, TypeOK
    <3>4. WriteBufferTypeOK([Lane \X Lane -> Seq(Product)])'
      <4>1. acc \in [Lane \X Lane -> Seq(Product)] /\ C_index \in 0 .. IndexSpan-1
        BY <2>1 DEF TypeOK, ArrayTypeOK, ControlTypeOK
      <4>2. acc' \in [Lane \X Lane -> Seq(Product)]
        BY <3>3 DEF ArrayTypeOK
      <4>3. SA_done \in BOOLEAN
        BY DEF SA_done
      <4>. QED BY <2>1, <3>1, <4>1, <4>2, <4>3, WriteBufferType DEF Clk, TypeOK
    <3>5. buffer_C' \in [0 .. Depth-1 -> [Lane -> Seq(Product)]]
      <4>1. CASE wr_en
        <5>1. [l \in Lane |-> data_buffer[<<wb_counter, l>>]] \in [Lane -> Seq(Product)]
          BY <2>1 DEF TypeOK, WriteBufferTypeOK, LastRow, Lane, Dim
        <5>. QED BY <2>1, <3>1, <4>1, <5>1 DEF Clk, StoreRow, TypeOK
      <4>2. CASE ~wr_en
        BY <2>1, <3>1, <4>2 DEF Clk, StoreRow, TypeOK
      <4>. QED BY <4>1, <4>2
    <3>. QED BY <3>2, <3>3, <3>4, <3>5 DEF TypeOK
  <2>2. ASSUME TypeOK, UNCHANGED vars PROVE TypeOK'
    BY <2>2 DEF TypeOK, vars, controlVars, arrayVars, writeBufferVars, ControlTypeOK,
                ArrayTypeOK, WriteBufferTypeOK
  <2>. QED BY <2>1, <2>2
<1>. QED BY <1>1, <1>2, PTL DEF Spec

-----------------------------------------------------------------------------
(* The controller and the write buffer run in lockstep.                    *)

(* A job comes from three 8-bit ports.                                     *)
LEMMA JobBounds ==
  ASSUME NEW j \in Jobs
  PROVE  j.K \in 0 .. 255 /\ j.M \in 0 .. 255 /\ j.N \in 0 .. 255
BY JobsAssumption

(* After reset both state machines are idle.                               *)
LEMMA InitLockstep == Init => Lockstep
BY DEF Init, WriteBufferInit, Lockstep, NoJob

(* What a clock edge does to the write buffer's state machine.             *)
LEMMA WriteBufferStep ==
  ASSUME Clk
  PROVE  /\ wb_state' = NextWriteState(SA_done)
         /\ wb_counter' = IF RowAdvance THEN wb_counter + 1 ELSE 0
         /\ counter' = IF tpu_state = "IDLE" \/ tpu_state' # tpu_state
                         THEN 0 ELSE (counter + 1) % 512
BY DEF Clk, WriteBufferClk, CounterClk

(* Every edge keeps the write buffer in step with the controller.          *)
LEMMA NextLockstep ==
  ASSUME TypeOK, Lockstep, Next
  PROVE  Lockstep'
<1>1. /\ counter \in 0 .. 511
      /\ wb_state \in {"IDLE", "LOAD_DATA", "WRITE"}
      /\ wb_counter \in 0 .. LastRow
  BY DEF TypeOK, ControlTypeOK, WriteBufferTypeOK
<1>2. /\ wb_state' = NextWriteState(SA_done)
      /\ wb_counter' = IF RowAdvance THEN wb_counter + 1 ELSE 0
      /\ counter' = IF tpu_state = "IDLE" \/ tpu_state' # tpu_state
                      THEN 0 ELSE (counter + 1) % 512
  BY NextClk, WriteBufferStep
<1>. USE DEF Lockstep, elapsed, NextWriteState, RowAdvance, SA_done, LastRow
<1>3. CASE \E j \in Jobs : Start(j)
  BY <1>1, <1>2, <1>3, JobBounds DEF Start
<1>4. CASE Idle
  BY <1>1, <1>2, <1>4 DEF Idle
<1>5. CASE PassData
  BY <1>1, <1>2, <1>5, JobBounds DEF PassData, lastWord
<1>6. CASE Wait6
  BY <1>1, <1>2, <1>6, JobBounds DEF Wait6
<1>7. CASE WaitForWrite
  BY <1>1, <1>2, <1>7 DEF WaitForWrite, WriteBusy
<1>. QED BY <1>3, <1>4, <1>5, <1>6, <1>7 DEF Next

(* Lockstep is inductive relative to the types: it needs no more than what *)
(* the two state machines and their counters are.                          *)
THEOREM LockstepInvariant == Spec => []Lockstep
<1>1. TypeOK /\ Lockstep /\ UNCHANGED vars => Lockstep'
  BY DEF vars, controlVars, arrayVars, writeBufferVars, Lockstep, elapsed
<1>2. TypeOK /\ Lockstep /\ [Next]_vars => Lockstep'
  BY <1>1, NextLockstep
<1>. QED BY <1>2, InitLockstep, TypeCorrect, PTL DEF Spec

(* A finished tile never finds the write buffer at work on another.        *)
THEOREM WriteBufferNeverOverrun == Spec => []NoOverrun
<1>1. TypeOK /\ Lockstep => NoOverrun
  <2>. SUFFICES ASSUME TypeOK, Lockstep, SA_done
                PROVE  wb_state = "IDLE"
    BY DEF NoOverrun
  <2>1. /\ wb_state \in {"IDLE", "LOAD_DATA", "WRITE"}
        /\ wb_counter \in 0 .. LastRow
    BY DEF TypeOK, WriteBufferTypeOK
  <2>2. job.K \in 0 .. 255
    BY JobBounds DEF Lockstep, SA_done
  <2>. QED BY <2>1, <2>2 DEF Lockstep, SA_done, elapsed, LastRow
<1>. QED BY <1>1, TypeCorrect, LockstepInvariant, PTL

-----------------------------------------------------------------------------
(* The array drains between two tiles.                                     *)

(* No byte of a tile is in stage s of the pipes.                           *)
QuietAt(s) == aPipe[s] = Zero /\ bPipe[s] = Zero /\ mPipe[s] = FALSE

(* What is left in the array when nothing is streaming: while the          *)
(* controller waits, one more stage has drained with every cycle.          *)
Quiet ==
  /\ tpu_state \in {"IDLE", "WAIT_FOR_WRITE"} =>
       read_ff = FALSE /\ \A s \in Stage : QuietAt(s)
  /\ tpu_state = "PASS_DATA" /\ read_ff = FALSE =>
       \A s \in Stage : QuietAt(s)
  /\ tpu_state = "WAIT_6" =>
       /\ read_ff = TRUE => counter = 0
       /\ PE_clear = TRUE => counter = 0
       /\ \A s \in Stage : s[2] <= counter => QuietAt(s)

(* The pipes are at most 7 stages long, and a stage but the first is fed by*)
(* the one before it.                                                      *)
LEMMA StageBefore ==
  ASSUME NEW s \in Stage
  PROVE  /\ s[1] \in Lane /\ s[2] \in 1 .. 7
         /\ s[2] # 1 => /\ <<s[1], s[2]-1>> \in Stage
                        /\ <<s[1], s[2]-1>>[2] = s[2]-1
BY DEF Stage, Lane, Dim

(* What an edge shifts into the pipes.                                     *)
LEMMA ArrayStep ==
  ASSUME Next
  PROVE  ArrayClk(tpu_state = "PASS_DATA", A_index % Depth, B_index % Depth)
BY NextClk DEF Clk

(* While nothing is read, a stage is quiet when the one before it was.     *)
LEMMA QuietShift ==
  ASSUME Next, tpu_state # "PASS_DATA",
         NEW s \in Stage, s[2] # 1 => QuietAt(<<s[1], s[2]-1>>)
  PROVE  QuietAt(s)'
<1>1. /\ aPipe' = Shift(aPipe, Zero)
      /\ bPipe' = Shift(bPipe, Zero)
      /\ mPipe' = Shift(mPipe, FALSE)
  BY ArrayStep DEF ArrayClk
<1>. QED BY <1>1 DEF Shift, QuietAt

(* What an edge does to the controller's state.                            *)
LEMMA StateStep ==
  ASSUME TypeOK, Lockstep, Next
  PROVE  /\ tpu_state = "IDLE" => tpu_state' \in {"IDLE", "PASS_DATA"}
         /\ tpu_state = "PASS_DATA" => tpu_state' \in {"PASS_DATA", "WAIT_6"}
         /\ tpu_state = "WAIT_FOR_WRITE" =>
              tpu_state' \in {"WAIT_FOR_WRITE", "IDLE"}
         /\ tpu_state = "WAIT_6" =>
              /\ counter \in 0 .. 6
              /\ counter # 6 => tpu_state' = "WAIT_6" /\ counter' = counter + 1
              /\ counter = 6 => tpu_state' \in {"WAIT_FOR_WRITE", "PASS_DATA"}
         /\ tpu_state # tpu_state' => counter' = 0
<1>1. counter \in 0 .. 511
  BY DEF TypeOK, ControlTypeOK
<1>2. counter' = IF tpu_state = "IDLE" \/ tpu_state' # tpu_state
                   THEN 0 ELSE (counter + 1) % 512
  BY NextClk, WriteBufferStep
<1>3. tpu_state = "WAIT_6" => counter <= 6
  BY DEF Lockstep
<1>. QED BY <1>1, <1>2, <1>3 DEF Next, Start, Idle, PassData, Wait6, WaitForWrite

(* Every edge keeps what has drained, drained.                             *)
LEMMA NextQuiet ==
  ASSUME TypeOK, Lockstep, Quiet, Next
  PROVE  Quiet'
<1>1. /\ read_ff' = (tpu_state = "PASS_DATA")
      /\ PE_clear' = ((tpu_state = "PASS_DATA") /\ ~read_ff)
  BY ArrayStep DEF ArrayClk, ClearPulse
<1>2. CASE tpu_state \in {"IDLE", "WAIT_FOR_WRITE"}
  <2>1. \A s \in Stage : QuietAt(s)'
    BY <1>2, StageBefore, QuietShift DEF Quiet
  <2>. QED BY <1>1, <1>2, <2>1, StateStep DEF Quiet
<1>3. CASE tpu_state = "PASS_DATA"
  <2>1. read_ff' = TRUE
    BY <1>1, <1>3
  <2>2. ASSUME NEW s \in Stage
        PROVE  ~(s[2] <= 0)
    <3>1. s[2] \in 1 .. 7
      BY StageBefore
    <3>. QED BY <3>1
  <2>. QED BY <1>3, <2>1, <2>2, StateStep DEF Quiet
<1>4. CASE tpu_state = "WAIT_6"
  <2>1. read_ff' = FALSE /\ PE_clear' = FALSE
    BY <1>1, <1>4
  <2>2. counter \in 0 .. 6
    BY <1>4, StateStep
  <2>3. ASSUME NEW s \in Stage, s[2] <= counter + 1
        PROVE  QuietAt(s)'
    <3>1. s[2] \in 1 .. 7
      BY StageBefore
    <3>2. ASSUME s[2] # 1
          PROVE  QuietAt(<<s[1], s[2]-1>>)
      <4>1. s[2]-1 <= counter
        BY <2>2, <2>3, <3>1
      <4>. QED BY <1>4, <3>2, <4>1, StageBefore DEF Quiet
    <3>. QED BY <1>4, <3>2, QuietShift
  <2>4. CASE counter = 6
    <3>1. ASSUME NEW s \in Stage
          PROVE  QuietAt(s)'
      <4>1. s[2] \in 1 .. 7
        BY StageBefore
      <4>2. s[2] <= counter + 1
        BY <2>4, <4>1
      <4>. QED BY <2>3, <4>2
    <3>. QED BY <1>4, <2>1, <2>4, <3>1, StateStep DEF Quiet
  <2>5. CASE counter # 6
    BY <1>4, <2>1, <2>3, <2>5, StateStep DEF Quiet
  <2>. QED BY <2>4, <2>5
<1>. QED BY <1>2, <1>3, <1>4, NextClk DEF TypeOK, ControlTypeOK

(* Quiet is an invariant.                                                  *)
LEMMA QuietInvariant == Spec => []Quiet
<1>1. Init => Quiet
  BY DEF Init, ArrayInit, Quiet, QuietAt
<1>2. Quiet /\ UNCHANGED vars => Quiet'
  BY DEF vars, controlVars, arrayVars, Quiet, QuietAt
<1>3. TypeOK /\ Lockstep /\ Quiet /\ [Next]_vars => Quiet'
  BY <1>2, NextQuiet
<1>. QED BY <1>1, <1>3, TypeCorrect, LockstepInvariant, PTL DEF Spec

(* Nothing of a tile is left in the array when the next one begins to      *)
(* stream in: for every job, an empty one included.                        *)
THEOREM ArrayDrains == Spec => []Drained
<1>1. Quiet => Drained
  BY DEF Quiet, QuietAt, Drained
<1>. QED BY <1>1, QuietInvariant, PTL

(* When a tile is captured only PE (3,3) still has a product to add.       *)
LEMMA LastProduct ==
  ASSUME TypeOK, Lockstep, Quiet, Next, SA_done,
         NEW p \in (Lane \X Lane) \ {<<Dim-1, Dim-1>>}
  PROVE  acc'[p] = acc[p]
<1>1. p[1] \in Lane /\ p[2] \in Lane
  OBVIOUS
<1>2. <<p[1], 1+p[1]+p[2]>> \in Stage /\ 1+p[1]+p[2] <= 6
  BY <1>1 DEF Stage, Lane, Dim
<1>3. Left(p[1], p[2]) = Zero
  BY <1>2 DEF Quiet, QuietAt, SA_done, Left
<1>4. PE_clear = FALSE
  BY DEF Quiet, SA_done, TypeOK, ArrayTypeOK
<1>5. acc[p] \in Seq(Product)
  BY DEF TypeOK, ArrayTypeOK
<1>6. acc'[p] = acc[p] \o << >>
  BY <1>3, <1>4, ArrayStep DEF ArrayClk, Accumulate, Multi
<1>. QED BY <1>5, <1>6

(* Every edge: what the capture saw of the finished PEs is their sum.      *)
LEMMA NextRaceConfined ==
  ASSUME TypeOK, Lockstep, Quiet, Next
  PROVE  RaceConfined'
<1>. SUFFICES ASSUME wb_state' = "LOAD_DATA",
                     NEW p \in (Lane \X Lane) \ {<<Dim-1, Dim-1>>}
              PROVE  data_buffer'[p] = acc'[p]
  BY DEF RaceConfined
<1>1. wb_state = "IDLE" /\ SA_done
  BY NextClk, WriteBufferStep DEF NextWriteState
<1>2. data_buffer' = acc' \/ data_buffer' = acc
  BY <1>1, NextClk DEF Clk, WriteBufferClk, Capture
<1>. QED BY <1>1, <1>2, LastProduct

(* Whichever side of the clock edge the capture of the write buffer sees,  *)
(* it can lose no product but the last one of PE (3,3).                    *)
THEOREM RaceIsConfined == Spec => []RaceConfined
<1>1. Init => RaceConfined
  BY DEF Init, WriteBufferInit, RaceConfined
<1>2. RaceConfined /\ UNCHANGED vars => RaceConfined'
  BY DEF vars, arrayVars, writeBufferVars, RaceConfined
<1>3. TypeOK /\ Lockstep /\ Quiet /\ RaceConfined /\ [Next]_vars => RaceConfined'
  BY <1>2, NextRaceConfined
<1>. QED BY <1>1, <1>3, TypeCorrect, LockstepInvariant, QuietInvariant, PTL DEF Spec

-----------------------------------------------------------------------------
(* The product.                                                            *)

running == tpu_state \in {"PASS_DATA", "WAIT_6"}

(* The tile before (n, m), and the one in the array: the controller moves  *)
(* n and m on one cycle before the last product is added.                  *)
lastN == IF m = 0 THEN n - 1 ELSE n
lastM == IF m = 0 THEN M_tiles - 1 ELSE m - 1
tileN == IF SA_done THEN lastN ELSE n
tileM == IF SA_done THEN lastM ELSE m

(* The word of C where row 0 of a tile goes.                               *)
TileStart(t, u) == t * job.M + u * Dim

Position ==
  /\ tpu_state # "IDLE" => n \in 0 .. N_tiles /\ m \in 0 .. M_tiles-1
  /\ running =>
       /\ tileN \in 0 .. N_tiles-1 /\ tileM \in 0 .. M_tiles-1
       /\ C_index = TileStart(tileN, tileM)
  /\ tpu_state = "PASS_DATA" =>
       A_index = m * job.K + counter /\ B_index = n * job.K + counter
  /\ SA_done => (n = N_tiles => m = 0)
  /\ tpu_state = "WAIT_FOR_WRITE" =>
       n = N_tiles /\ m = 0 /\ C_index = TileStart(n, m)

(* The word of the tile that is in stage s, if it is one of its K words.   *)
Word(s) == elapsed - s[2]

HoldsWord(s, w) ==
  aPipe[s] = tileM * job.K + w /\ bPipe[s] = tileN * job.K + w /\ mPipe[s] = TRUE

Pipes ==
  running => \A s \in Stage :
    /\ Word(s) \in 0 .. job.K-1 => HoldsWord(s, Word(s))
    /\ Word(s) \notin 0 .. job.K-1 => QuietAt(s)

(* The first q products of the tile whose words begin at a and at b.       *)
PartialSum(a, b, q) ==
  [k \in 1 .. q |-> [a |-> a + k-1, b |-> b + k-1, offset |-> TRUE]]

(* How many of K products have been added after x cycles.                  *)
Clamp(x) == IF x < 0 THEN 0 ELSE IF x > job.K THEN job.K ELSE x

Sums ==
  running =>
    /\ PE_clear = (elapsed = 1)
    /\ tpu_state = "PASS_DATA" => read_ff = (counter > 0)
    /\ elapsed > 1 => \A p \in Lane \X Lane :
         acc[p] = PartialSum(tileM * job.K, tileN * job.K, Clamp(elapsed-1-p[1]-p[2]))

Buffered ==
  wb_state # "IDLE" =>
    /\ lastN \in 0 .. N_tiles-1 /\ lastM \in 0 .. M_tiles-1
    /\ write_index = TileStart(lastN, lastM) + wb_counter
    /\ \A p \in Lane \X Lane : data_buffer[p] = DotProduct(job, lastN, lastM * Dim)

(* The words of C before the tile being computed are final, as far as the  *)
(* write buffer has stored them.                                           *)
Final(w) == w < C_index /\ (wb_state # "IDLE" => w < write_index)

Written ==
  /\ tpu_state = "IDLE" => HoldsProduct(buffer_C, job)
  /\ tpu_state # "IDLE" =>
       \A t \in 0 .. N_tiles-1, r \in 0 .. job.M-1, l \in Lane :
         Final(t * job.M + r) => buffer_C[t * job.M + r][l] = DotProduct(job, t, r)

TileInv == Position /\ Pipes /\ Sums /\ Buffered /\ Written

-----------------------------------------------------------------------------
(* Arithmetic.                                                             *)

(* Multiplication is monotonic.                                            *)
LEMMA MulMono ==
  ASSUME NEW a \in Nat, NEW b \in Nat, NEW c \in Nat, a <= b
  PROVE  a * c <= b * c /\ a * c \in Nat
<1>1. b * c = a * c + (b - a) * c
  OBVIOUS
<1>2. (b - a) * c >= 0 /\ a * c >= 0
  OBVIOUS
<1>. QED BY <1>1, <1>2

(* One more row of a product.                                              *)
LEMMA MulNext ==
  ASSUME NEW a \in Nat, NEW c \in Nat
  PROVE  (a + 1) * c = a * c + c
OBVIOUS

(* A number of columns or rows and its number of tiles.                    *)
LEMMA TilesBounds ==
  ASSUME NEW size \in 1 .. 255
  PROVE  /\ Tiles(size) \in 1 .. 64
         /\ size <= Dim * Tiles(size) /\ Dim * (Tiles(size) - 1) < size
BY DEF Tiles, Dim

(* What a job that fits is.                                                *)
LEMMA FitsBounds ==
  ASSUME job \in Jobs, Fits(job)
  PROVE  /\ job.K \in 1 .. 255 /\ job.M \in 1 .. 255 /\ job.N \in 1 .. 255
         /\ N_tiles \in 1 .. 64 /\ M_tiles \in 1 .. 64
         /\ job.M <= 4 * M_tiles /\ 4 * (M_tiles - 1) < job.M
         /\ M_tiles * job.K <= Depth /\ N_tiles * job.K <= Depth
         /\ (N_tiles - 1) * job.M + 4 * M_tiles <= Depth
<1>1. job.K \in 1 .. 255 /\ job.M \in 1 .. 255 /\ job.N \in 1 .. 255
  BY JobBounds DEF Fits, NonEmpty
<1>. QED BY <1>1, TilesBounds DEF N_tiles, M_tiles, Dim, Fits, StoredWords

(* So is the job after an edge.                                            *)
LEMMA FitsBoundsNext ==
  ASSUME job' \in Jobs, Fits(job)'
  PROVE  /\ job'.K \in 1 .. 255 /\ job'.M \in 1 .. 255
         /\ N_tiles' \in 1 .. 64 /\ M_tiles' \in 1 .. 64
<1>1. job'.K \in 1 .. 255 /\ job'.M \in 1 .. 255 /\ job'.N \in 1 .. 255
  BY JobBounds DEF Fits, NonEmpty
<1>. QED BY <1>1, TilesBounds DEF N_tiles, M_tiles

(* An index has 16 bits.                                                   *)
LEMMA IndexRange ==
  ASSUME NEW x \in Nat, x < 65536
  PROVE  x \in 0 .. IndexSpan-1
<1>1. PICK span \in Nat : span = 65536
  OBVIOUS
<1>2. IndexSpan = span
  BY <1>1 DEF IndexSpan
<1>3. x < span
  BY <1>1
<1>4. x \in 0 .. span-1
  BY <1>3
<1>. QED BY <1>2, <1>4

(* An index below the depth of a buffer does not wrap.                     *)
LEMMA SmallMod ==
  ASSUME NEW x \in Nat, NEW d \in Nat, x < d
  PROVE  x % d = x
OBVIOUS

(* A word of a tile is in the buffer, and its index within 16 bits.        *)
LEMMA WordBounds ==
  ASSUME NEW K \in 1 .. 255, NEW count \in 1 .. 64, count * K <= Depth,
         NEW t \in 0 .. count-1, NEW q \in 0 .. K-1
  PROVE  /\ t * K \in 0 .. IndexSpan-1 /\ t * K + q \in 0 .. IndexSpan-1
         /\ (t * K + q) % Depth = t * K + q
<1>1. t * K + K = (t + 1) * K
  OBVIOUS
<1>2. (t + 1) * K <= count * K /\ count * K <= 64 * 255 /\ t * K \in Nat
  BY MulMono
<1>3. t * K + q \in Nat /\ t * K + q < count * K
  BY <1>1, <1>2
<1>4. t * K + q < Depth /\ (t * K + q) % Depth = t * K + q
  BY <1>3, SmallMod, DepthAssumption
<1>5. count * K < 65536
  BY <1>2
<1>6. t * K < 65536 /\ t * K + q < 65536
  BY <1>2, <1>3, <1>5
<1>7. t * K \in 0 .. IndexSpan-1 /\ t * K + q \in 0 .. IndexSpan-1
  BY <1>2, <1>3, <1>6, IndexRange
<1>. QED BY <1>4, <1>7

(* So it is for the row tiles in A and the column tiles in B.              *)
LEMMA JobWords ==
  ASSUME job \in Jobs, Fits(job), NEW q \in 0 .. job.K-1
  PROVE  /\ \A u \in 0 .. M_tiles-1 :
              /\ u * job.K \in 0 .. IndexSpan-1
              /\ u * job.K + q \in 0 .. IndexSpan-1
              /\ (u * job.K + q) % Depth = u * job.K + q
         /\ \A t \in 0 .. N_tiles-1 :
              /\ t * job.K \in 0 .. IndexSpan-1
              /\ t * job.K + q \in 0 .. IndexSpan-1
              /\ (t * job.K + q) % Depth = t * job.K + q
<1>1. /\ job.K \in 1 .. 255 /\ N_tiles \in 1 .. 64 /\ M_tiles \in 1 .. 64
      /\ M_tiles * job.K <= Depth /\ N_tiles * job.K <= Depth
  BY FitsBounds
<1>2. PICK K \in 1 .. 255 : K = job.K
  BY <1>1
<1>3. PICK rows \in 1 .. 64 : rows = M_tiles
  BY <1>1
<1>4. PICK columns \in 1 .. 64 : columns = N_tiles
  BY <1>1
<1>5. q \in 0 .. K-1 /\ rows * K <= Depth /\ columns * K <= Depth
  BY <1>1, <1>2, <1>3, <1>4
<1>6. ASSUME NEW u \in 0 .. rows-1
      PROVE  /\ u * K \in 0 .. IndexSpan-1
             /\ u * K + q \in 0 .. IndexSpan-1
             /\ (u * K + q) % Depth = u * K + q
  BY <1>5, WordBounds
<1>7. ASSUME NEW t \in 0 .. columns-1
      PROVE  /\ t * K \in 0 .. IndexSpan-1
             /\ t * K + q \in 0 .. IndexSpan-1
             /\ (t * K + q) % Depth = t * K + q
  BY <1>5, WordBounds
<1>. QED BY <1>2, <1>3, <1>4, <1>6, <1>7, Zenon

(* The rows of a tile are words that belong to the job.                    *)
LEMMA RowBounds ==
  ASSUME job \in Jobs, Fits(job),
         NEW t \in 0 .. N_tiles-1, NEW u \in 0 .. M_tiles-1, NEW c \in 0 .. LastRow
  PROVE  /\ TileStart(t, u) \in Nat
         /\ TileStart(t, u) + c \in 0 .. Depth-1
         /\ TileStart(t, u) + c \in 0 .. IndexSpan-1
         /\ TileStart(t, u) + c < StoredWords(job)
<1>1. /\ job.M \in 1 .. 255
      /\ N_tiles \in 1 .. 64 /\ M_tiles \in 1 .. 64
      /\ (N_tiles - 1) * job.M + 4 * M_tiles <= Depth
  BY FitsBounds
<1>2. t * job.M \in Nat /\ t * job.M <= (N_tiles - 1) * job.M
  BY <1>1, MulMono
<1>3. (N_tiles - 1) * job.M <= 63 * 255
  BY <1>1, MulMono
<1>4. StoredWords(job) = (N_tiles - 1) * job.M + 4 * M_tiles
  BY DEF StoredWords, N_tiles, M_tiles, Dim
<1>5. PICK x \in Nat : x = t * job.M
  BY <1>2
<1>6. PICK y \in Nat : y = (N_tiles - 1) * job.M
  BY <1>1, MulMono
<1>7. x + 4 * u + c < y + 4 * M_tiles /\ y + 4 * M_tiles <= 65535
  BY <1>1, <1>2, <1>3, <1>5, <1>6 DEF LastRow
<1>8. TileStart(t, u) = x + 4 * u /\ TileStart(t, u) \in Nat
  BY <1>5 DEF TileStart, Dim
<1>9. TileStart(t, u) + c < StoredWords(job) /\ StoredWords(job) <= Depth
  BY <1>1, <1>4, <1>6, <1>7, <1>8
<1>10. StoredWords(job) <= 65535 /\ StoredWords(job) \in Nat /\ c \in Nat
  BY <1>1, <1>4, <1>6, <1>7
<1>11. TileStart(t, u) + c \in Nat /\ TileStart(t, u) + c < Depth
  BY <1>8, <1>9, <1>10, DepthAssumption
<1>12. TileStart(t, u) + c \in 0 .. IndexSpan-1
  BY <1>9, <1>10, <1>11, IndexRange
<1>. QED BY <1>8, <1>9, <1>11, <1>12, DepthAssumption

(* A word of C belongs to one column tile and row.                         *)
LEMMA WordIsUnique ==
  ASSUME NEW M \in Nat, NEW t \in Nat, NEW u \in Nat,
         NEW r \in 0 .. M-1, NEW q \in 0 .. M-1, t * M + r = u * M + q
  PROVE  t = u /\ r = q
<1>1. ASSUME NEW x \in Nat, NEW y \in Nat, x < y
      PROVE  x * M + M <= y * M
  <2>1. (x + 1) * M <= y * M
    BY <1>1, MulMono
  <2>. QED BY <2>1
<1>2. ~(t < u) /\ ~(u < t)
  BY <1>1, MulMono
<1>. QED BY <1>2

-----------------------------------------------------------------------------
(* The walk over the tiles.                                                *)

(* While the TPU is busy the job does not change.                          *)
LEMMA JobKept ==
  ASSUME Next, tpu_state # "IDLE"
  PROVE  /\ job' = job /\ N_tiles' = N_tiles /\ M_tiles' = M_tiles
         /\ Fits(job)' = Fits(job)
<1>1. job' = job
  BY DEF Next, Start, Idle, PassData, Wait6, WaitForWrite
<1>. QED BY <1>1 DEF N_tiles, M_tiles

(* A job in progress is one of the processor's.                            *)
LEMMA JobInProgress ==
  ASSUME TypeOK, Lockstep, tpu_state # "IDLE"
  PROVE  job \in Jobs /\ counter \in 0 .. 511 /\ elapsed \in Nat
<1>1. job \in Jobs /\ counter \in 0 .. 511
  BY DEF Lockstep, TypeOK, ControlTypeOK
<1>. QED BY <1>1, JobBounds DEF elapsed

(* What an edge does to n and m, which never wrap.                         *)
LEMMA TileStep ==
  ASSUME TypeOK, Lockstep, Position, Next, Fits(job), running
  PROVE  /\ ~(tpu_state = "WAIT_6" /\ counter = 5) => n' = n /\ m' = m
         /\ tpu_state = "WAIT_6" /\ counter = 5 =>
              /\ n' = IF m = M_tiles - 1 THEN n + 1 ELSE n
              /\ m' = IF m = M_tiles - 1 THEN 0 ELSE m + 1
<1>1. job \in Jobs
  BY JobInProgress DEF running
<1>2. N_tiles \in 1 .. 64 /\ M_tiles \in 1 .. 64
  BY <1>1, FitsBounds
<1>3. n \in 0 .. N_tiles /\ m \in 0 .. M_tiles-1
  BY DEF Position, running
<1>4. (n + 1) % 256 = n + 1 /\ (m + 1) % 256 = m + 1
  BY <1>2, <1>3
<1>5. TileClk
  BY NextClk DEF Clk
<1>. QED BY <1>4, <1>5 DEF TileClk, prev_next_tile, m_reset, running

(* Until its last product is added, a tile advances by one cycle.          *)
LEMMA Advance ==
  ASSUME TypeOK, Lockstep, Position, Next, Fits(job), running, ~SA_done
  PROVE  /\ running' /\ elapsed' = elapsed + 1
         /\ tileN' = tileN /\ tileM' = tileM
         /\ C_index' = C_index
<1>1. job \in Jobs /\ counter \in 0 .. 511 /\ job.K \in 1 .. 255
  BY JobInProgress, FitsBounds DEF running
<1>2. job' = job /\ M_tiles' = M_tiles
  BY JobKept DEF running
<1>3. counter' = IF tpu_state' # tpu_state THEN 0 ELSE (counter + 1) % 512
  BY NextClk, WriteBufferStep DEF running
<1>4. IndexClk
  BY NextClk DEF Clk
<1>5. C_index' = C_index
  BY <1>4 DEF IndexClk, NextCIndex, next_tile, SA_done, running
<1>6. M_tiles \in 1 .. 64 /\ n \in 0 .. N_tiles /\ m \in 0 .. M_tiles-1 /\ N_tiles \in 1 .. 64
  BY <1>1, FitsBounds DEF Position, running
<1>7. CASE tpu_state = "PASS_DATA"
  <2>1. PassData
    BY <1>7 DEF Next, Start, Idle, PassData, Wait6, WaitForWrite
  <2>2. counter < job.K
    BY <1>1, <1>7 DEF Lockstep
  <2>3. tpu_state' = IF counter = job.K - 1 THEN "WAIT_6" ELSE "PASS_DATA"
    BY <1>1, <2>1, <2>2 DEF PassData, lastWord
  <2>4. running' /\ elapsed' = elapsed + 1
    BY <1>1, <1>2, <1>3, <1>7, <2>2, <2>3 DEF running, elapsed
  <2>5. ~SA_done'
    BY <1>3, <1>7, <2>3 DEF SA_done
  <2>. QED BY <1>5, <1>7, <2>4, <2>5, TileStep DEF tileN, tileM
<1>8. CASE tpu_state = "WAIT_6"
  <2>1. counter \in 0 .. 5 /\ tpu_state' = "WAIT_6" /\ counter' = counter + 1
    BY <1>8, StateStep DEF SA_done
  <2>2. running' /\ elapsed' = elapsed + 1
    BY <1>1, <1>2, <1>8, <2>1 DEF running, elapsed
  <2>3. CASE counter # 5
    <3>1. ~SA_done'
      BY <2>1, <2>3 DEF SA_done
    <3>. QED BY <1>5, <2>2, <2>3, <3>1, TileStep DEF tileN, tileM
  <2>4. CASE counter = 5
    <3>1. SA_done'
      BY <2>1, <2>4 DEF SA_done
    <3>2. /\ n' = IF m = M_tiles - 1 THEN n + 1 ELSE n
          /\ m' = IF m = M_tiles - 1 THEN 0 ELSE m + 1
      BY <1>8, <2>4, TileStep
    <3>3. lastN' = n /\ lastM' = m
      BY <1>2, <1>6, <3>2 DEF lastN, lastM
    <3>. QED BY <1>5, <2>2, <3>1, <3>3 DEF tileN, tileM
  <2>. QED BY <2>3, <2>4
<1>. QED BY <1>7, <1>8 DEF running

(* The next word of A and of B is read with every cycle of streaming.      *)
LEMMA NextWord ==
  ASSUME TypeOK, Lockstep, Position, Next, Fits(job),
         tpu_state = "PASS_DATA", tpu_state' = "PASS_DATA"
  PROVE  A_index' = m * job.K + counter' /\ B_index' = n * job.K + counter'
<1>1. job \in Jobs /\ counter \in 0 .. 511 /\ job.K \in 1 .. 255
  BY JobInProgress, FitsBounds
<1>2. PassData /\ IndexClk
  BY NextClk DEF Next, Start, Idle, PassData, Wait6, WaitForWrite, Clk
<1>3. counter < job.K
  BY <1>1 DEF Lockstep
<1>4. ~lastWord /\ counter + 1 <= job.K - 1
  BY <1>1, <1>2, <1>3 DEF PassData, lastWord
<1>5. counter' = counter + 1
  BY <1>1, <1>3, NextClk, WriteBufferStep
<1>6. A_index = m * job.K + counter /\ B_index = n * job.K + counter
  BY DEF Position
<1>7. /\ A_index' = (A_index + 1) % IndexSpan
      /\ B_index' = (B_index + 1) % IndexSpan
  BY <1>2, <1>4 DEF IndexClk, NextIndex, next_tile
<1>8. /\ m * job.K \in Nat /\ m * job.K + (counter + 1) \in 0 .. IndexSpan-1
      /\ n * job.K \in Nat /\ n * job.K + (counter + 1) \in 0 .. IndexSpan-1
  <2>1. n \in 0 .. N_tiles-1 /\ m \in 0 .. M_tiles-1
    BY DEF Position, running, tileN, tileM, SA_done
  <2>2. counter + 1 \in 0 .. job.K - 1
    BY <1>1, <1>4
  <2>3. m * job.K \in 0 .. IndexSpan-1 /\ m * job.K + (counter + 1) \in 0 .. IndexSpan-1
    BY <1>1, <2>1, <2>2, JobWords
  <2>4. n * job.K \in 0 .. IndexSpan-1 /\ n * job.K + (counter + 1) \in 0 .. IndexSpan-1
    BY <1>1, <2>1, <2>2, JobWords
  <2>. QED BY <2>3, <2>4, IndexSpanType
<1>9. /\ A_index + 1 = m * job.K + (counter + 1)
      /\ B_index + 1 = n * job.K + (counter + 1)
  BY <1>1, <1>6, <1>8
<1>. QED BY <1>5, <1>7, <1>8, <1>9, SmallMod, IndexSpanType

(* A finished tile is followed by the one that n and m name.               *)
LEMMA NextTile ==
  ASSUME TypeOK, Lockstep, Position, Next, Fits(job), SA_done
  PROVE  /\ tpu_state' = IF n = N_tiles THEN "WAIT_FOR_WRITE" ELSE "PASS_DATA"
         /\ counter' = 0 /\ n' = n /\ m' = m
         /\ C_index' = TileStart(n, m)
         /\ tpu_state' = "PASS_DATA" => A_index' = m * job.K /\ B_index' = n * job.K
<1>1. job \in Jobs /\ running
  BY JobInProgress DEF SA_done, running
<1>2. /\ job.K \in 1 .. 255 /\ job.M \in 1 .. 255
      /\ N_tiles \in 1 .. 64 /\ M_tiles \in 1 .. 64
      /\ M_tiles * job.K <= Depth /\ N_tiles * job.K <= Depth
  BY <1>1, FitsBounds
<1>3. n \in 0 .. N_tiles /\ m \in 0 .. M_tiles-1 /\ (n = N_tiles => m = 0)
  BY DEF Position, SA_done
<1>4. tpu_state' = IF n = N_tiles THEN "WAIT_FOR_WRITE" ELSE "PASS_DATA"
  BY DEF Next, Start, Idle, PassData, Wait6, WaitForWrite, SA_done, all_done
<1>5. counter' = 0 /\ n' = n /\ m' = m
  BY <1>1, <1>4, StateStep, TileStep DEF SA_done
<1>6. next_tile /\ IndexClk
  BY NextClk DEF Clk, next_tile, SA_done
<1>7. TileStart(n, m) \in Nat /\ TileStart(n, m) < IndexSpan
  <2>1. n * job.M \in Nat /\ n * job.M <= 64 * 255
    <3>1. n * job.M <= 64 * job.M /\ n * job.M \in Nat
      BY <1>2, <1>3, MulMono
    <3>. QED BY <1>2, <3>1
  <2>2. TileStart(n, m) \in Nat /\ TileStart(n, m) < 65536
    BY <1>2, <1>3, <2>1 DEF TileStart, Dim
  <2>. QED BY <2>2, IndexRange, IndexSpanType
<1>8. C_index' = TileStart(n, m)
  <2>1. C_index' = TileStart(n, m) % IndexSpan
    BY <1>6 DEF IndexClk, NextCIndex, TileStart
  <2>. QED BY <1>7, <2>1, SmallMod, IndexSpanType
<1>9. ASSUME n # N_tiles
      PROVE  A_index' = m * job.K /\ B_index' = n * job.K
  <2>1. A_index' = (m * job.K) % IndexSpan /\ B_index' = (n * job.K) % IndexSpan
    BY <1>6 DEF IndexClk, NextIndex
  <2>2. n \in 0 .. N_tiles-1 /\ 0 \in 0 .. job.K-1
    BY <1>2, <1>3, <1>9
  <2>3. m * job.K \in 0 .. IndexSpan-1 /\ n * job.K \in 0 .. IndexSpan-1
    BY <1>2, <1>3, <2>2, WordBounds
  <2>. QED BY <2>1, <2>3, SmallMod, IndexSpanType
<1>. QED BY <1>4, <1>5, <1>8, <1>9

(* There is a first tile.                                                  *)
LEMMA FirstOfTiles ==
  ASSUME NEW count \in 1 .. 64
  PROVE  0 \in 0 .. count /\ 0 \in 0 .. count-1
OBVIOUS

(* A job begins at the first tile.                                         *)
LEMMA FirstTile ==
  ASSUME TypeOK, Lockstep, Next, tpu_state = "IDLE"
  PROVE  /\ n' = 0 /\ m' = 0 /\ counter' = 0
         /\ A_index' = 0 /\ B_index' = 0 /\ C_index' = 0
<1>1. counter = 0
  BY DEF Lockstep
<1>2. TileClk /\ IndexClk /\ CounterClk
  BY NextClk DEF Clk
<1>. QED BY <1>1, <1>2
         DEF TileClk, IndexClk, CounterClk, NextIndex, NextCIndex, prev_next_tile, next_tile

(* Every edge keeps the controller's place in the walk.                    *)
LEMMA NextPosition ==
  ASSUME TypeOK, Lockstep, Fits(job) => Position, Next, Fits(job)',
         tpu_state' # "IDLE", Lockstep'
  PROVE  Position'
<1>1. CASE tpu_state = "IDLE"
  <2>1. tpu_state' = "PASS_DATA" /\ job' \in Jobs
    BY <1>1, StateStep DEF Lockstep
  <2>2. N_tiles' \in 1 .. 64 /\ M_tiles' \in 1 .. 64 /\ job'.K \in 1 .. 255 /\ job'.M \in 1 .. 255
    BY <2>1, FitsBoundsNext
  <2>3. ~SA_done'
    BY <2>1 DEF SA_done
  <2>4. tileN' = 0 /\ tileM' = 0
    BY <1>1, <2>3, FirstTile DEF tileN, tileM
  <2>5. 0 * job'.K = 0 /\ 0 * job'.M = 0
    BY <2>2
  <2>6. C_index' = TileStart(tileN, tileM)'
    BY <1>1, <2>4, <2>5, FirstTile DEF TileStart, Dim
  <2>7. n' \in 0 .. N_tiles' /\ m' \in 0 .. M_tiles'-1
    BY <1>1, <2>2, FirstTile, FirstOfTiles
  <2>8. tileN' \in 0 .. N_tiles'-1 /\ tileM' \in 0 .. M_tiles'-1
    BY <2>2, <2>4, FirstOfTiles
  <2>9. A_index' = (m * job.K + counter)' /\ B_index' = (n * job.K + counter)'
    BY <1>1, <2>5, FirstTile
  <2>. QED BY <2>1, <2>3, <2>6, <2>7, <2>8, <2>9 DEF Position
<1>2. CASE SA_done
  <2>. USE <1>2
  <2>1. job' = job /\ N_tiles' = N_tiles /\ M_tiles' = M_tiles /\ Fits(job) /\ job \in Jobs
    BY JobKept, JobInProgress DEF SA_done
  <2>2. n \in 0 .. N_tiles /\ m \in 0 .. M_tiles-1 /\ (n = N_tiles => m = 0)
    BY <2>1 DEF Position, SA_done
  <2>3. TileStart(n, m)' = TileStart(n, m)
    BY <2>1, NextTile DEF TileStart
  <2>4. ~SA_done'
    BY <2>1, NextTile DEF SA_done
  <2>5. N_tiles \in 1 .. 64 /\ job.K \in 1 .. 255
    BY <2>1, FitsBounds
  <2>6. CASE n = N_tiles
    BY <2>1, <2>2, <2>3, <2>4, <2>6, NextTile DEF Position, running
  <2>7. CASE n # N_tiles
    <3>1. m * job.K + 0 = m * job.K /\ n * job.K + 0 = n * job.K
      BY <2>2, <2>5, MulMono
    <3>2. n \in 0 .. N_tiles-1
      BY <2>2, <2>5, <2>7
    <3>. QED BY <2>1, <2>2, <2>3, <2>4, <2>7, <3>1, <3>2, NextTile
             DEF Position, running, tileN, tileM
  <2>. QED BY <2>6, <2>7
<1>3. CASE running /\ ~SA_done
  <2>1. job' = job /\ N_tiles' = N_tiles /\ M_tiles' = M_tiles /\ Fits(job) /\ job \in Jobs
    BY <1>3, JobKept, JobInProgress DEF running
  <2>2. running' /\ tileN' = tileN /\ tileM' = tileM /\ C_index' = C_index
    BY <1>3, <2>1, Advance
  <2>3. N_tiles \in 1 .. 64 /\ M_tiles \in 1 .. 64
    BY <2>1, FitsBounds
  <2>4. n \in 0 .. N_tiles-1 /\ m \in 0 .. M_tiles-1
    BY <1>3, <2>1 DEF Position, tileN, tileM
  <2>5. /\ n' \in 0 .. N_tiles /\ m' \in 0 .. M_tiles-1
        /\ n' = N_tiles => m' = 0
    BY <1>3, <2>1, <2>3, <2>4, TileStep
  <2>6. C_index' = TileStart(tileN, tileM)'
    BY <1>3, <2>1, <2>2 DEF Position, TileStart
  <2>7. tileN' \in 0 .. N_tiles-1 /\ tileM' \in 0 .. M_tiles-1
    BY <1>3, <2>1, <2>2 DEF Position
  <2>8. ASSUME tpu_state' = "PASS_DATA"
        PROVE  A_index' = (m * job.K + counter)' /\ B_index' = (n * job.K + counter)'
    <3>1. tpu_state = "PASS_DATA"
      BY <1>3, <2>8, StateStep DEF running, SA_done
    <3>. QED BY <1>3, <2>1, <2>8, <3>1, NextWord, TileStep
  <2>. QED BY <2>1, <2>2, <2>5, <2>6, <2>7, <2>8 DEF Position, running
<1>4. CASE tpu_state = "WAIT_FOR_WRITE"
  <2>1. job' = job /\ N_tiles' = N_tiles /\ M_tiles' = M_tiles /\ Fits(job) /\ job \in Jobs
    BY <1>4, JobKept, JobInProgress
  <2>2. tpu_state' = "WAIT_FOR_WRITE"
    BY <1>4, StateStep
  <2>3. counter < 5
    <3>1. wb_state # "IDLE"
      BY <1>4, <2>2 DEF Next, Start, Idle, PassData, Wait6, WaitForWrite, WriteBusy, SA_done
    <3>. QED BY <1>4, <3>1, JobInProgress DEF Lockstep
  <2>4. n' = n /\ m' = m /\ C_index' = C_index
    <3>1. TileClk /\ IndexClk /\ ~prev_next_tile /\ ~next_tile
      BY <1>4, <2>3, NextClk, JobInProgress DEF Clk, prev_next_tile, next_tile
    <3>. QED BY <1>4, <3>1 DEF TileClk, IndexClk, NextCIndex
  <2>5. TileStart(n, m)' = TileStart(n, m)
    BY <2>1, <2>4 DEF TileStart
  <2>. QED BY <1>4, <2>1, <2>2, <2>4, <2>5 DEF Position, running, SA_done
<1>. QED BY <1>1, <1>2, <1>3, <1>4 DEF TypeOK, ControlTypeOK, running

-----------------------------------------------------------------------------
(* The bytes in the pipes.                                                 *)

(* A word moves on by one stage.                                           *)
LEMMA WordMoves ==
  ASSUME elapsed \in Nat, elapsed' = elapsed + 1, NEW s \in Stage
  PROVE  /\ s[2] = 1 => Word(s)' = elapsed
         /\ s[2] # 1 => Word(s)' = Word(<<s[1], s[2]-1>>)
<1>1. s[2] \in 1 .. 7 /\ <<s[1], s[2]-1>>[2] = s[2]-1
  BY StageBefore
<1>. QED BY <1>1 DEF Word

(* The word that enters the pipes is the next one of the tile.             *)
LEMMA WordEnters ==
  ASSUME TypeOK, Lockstep, Position, Next, Fits(job),
         tpu_state = "PASS_DATA", NEW s \in Stage, s[2] = 1
  PROVE  /\ counter \in 0 .. job.K-1
         /\ aPipe'[s] = tileM' * job'.K + counter
         /\ bPipe'[s] = tileN' * job'.K + counter
         /\ mPipe'[s] = TRUE
<1>1. job \in Jobs /\ job.K \in 1 .. 255 /\ counter \in 0 .. job.K-1
  <2>1. job \in Jobs /\ job.K \in 1 .. 255 /\ counter \in 0 .. 511
    BY JobInProgress, FitsBounds
  <2>2. counter < job.K
    BY <2>1 DEF Lockstep
  <2>. QED BY <2>1, <2>2
<1>2. tileN' = n /\ tileM' = m /\ job' = job
  BY Advance, JobKept DEF running, SA_done, tileN, tileM
<1>3. n \in 0 .. N_tiles-1 /\ m \in 0 .. M_tiles-1
  BY DEF Position, running, tileN, tileM, SA_done
<1>4. A_index % Depth = m * job.K + counter /\ B_index % Depth = n * job.K + counter
  BY <1>1, <1>3, JobWords DEF Position
<1>5. /\ aPipe' = Shift(aPipe, A_index % Depth)
      /\ bPipe' = Shift(bPipe, B_index % Depth)
      /\ mPipe' = Shift(mPipe, TRUE)
  BY ArrayStep DEF ArrayClk
<1>6. /\ aPipe'[s] = m * job.K + counter
      /\ bPipe'[s] = n * job.K + counter
      /\ mPipe'[s] = TRUE
  BY <1>4, <1>5 DEF Shift
<1>. QED BY <1>1, <1>2, <1>6

(* Every edge moves the words of the tile through the pipes.               *)
LEMMA NextPipes ==
  ASSUME TypeOK, Lockstep, Quiet', Fits(job) => Position /\ Pipes, Next, Fits(job)'
  PROVE  Pipes'
<1>. SUFFICES ASSUME running', NEW s \in Stage
              PROVE  /\ Word(s)' \in 0 .. job'.K-1 => HoldsWord(s, Word(s))'
                     /\ Word(s)' \notin 0 .. job'.K-1 => QuietAt(s)'
  BY DEF Pipes
<1>1. CASE running /\ ~SA_done
  <2>1. job' = job /\ Fits(job) /\ elapsed \in Nat
    BY <1>1, JobKept, JobInProgress DEF running
  <2>2. elapsed' = elapsed + 1 /\ tileN' = tileN /\ tileM' = tileM
    BY <1>1, <2>1, Advance
  <2>3. CASE s[2] = 1
    <3>1. Word(s)' = elapsed
      BY <2>1, <2>2, <2>3, WordMoves
    <3>2. CASE tpu_state = "PASS_DATA"
      <4>1. /\ counter \in 0 .. job.K-1
            /\ aPipe'[s] = tileM' * job'.K + counter
            /\ bPipe'[s] = tileN' * job'.K + counter
            /\ mPipe'[s] = TRUE
        BY <1>1, <2>1, <2>3, <3>2, WordEnters
      <4>2. Word(s)' = counter
        BY <3>1, <3>2 DEF elapsed
      <4>3. HoldsWord(s, Word(s))'
        BY <4>1, <4>2 DEF HoldsWord
      <4>. QED BY <2>1, <4>1, <4>2, <4>3
    <3>3. CASE tpu_state = "WAIT_6"
      <4>1. QuietAt(s)'
        BY <2>3, <3>3, QuietShift
      <4>2. counter \in 0 .. 6 /\ job.K \in 1 .. 255
        BY <2>1, <3>3, StateStep, JobInProgress, FitsBounds
      <4>3. Word(s)' \notin 0 .. job.K-1
        BY <3>1, <3>3, <4>2 DEF elapsed
      <4>. QED BY <2>1, <4>1, <4>3
    <3>. QED BY <1>1, <3>2, <3>3 DEF running
  <2>4. CASE s[2] # 1
    <3>. DEFINE before == <<s[1], s[2]-1>>
    <3>1. before \in Stage /\ Word(s)' = Word(before)
      BY <2>1, <2>2, <2>4, StageBefore, WordMoves
    <3>2. aPipe'[s] = aPipe[before] /\ bPipe'[s] = bPipe[before] /\ mPipe'[s] = mPipe[before]
      BY <2>4, ArrayStep DEF ArrayClk, Shift
    <3>3. /\ Word(before) \in 0 .. job.K-1 => HoldsWord(before, Word(before))
          /\ Word(before) \notin 0 .. job.K-1 => QuietAt(before)
      BY <1>1, <2>1, <3>1 DEF Pipes
    <3>. HIDE DEF before
    <3>4. QuietAt(s)' = QuietAt(before)
      BY <3>2 DEF QuietAt
    <3>5. HoldsWord(s, Word(s))' = HoldsWord(before, Word(before))
      BY <2>1, <2>2, <3>1, <3>2 DEF HoldsWord
    <3>. QED BY <2>1, <3>1, <3>3, <3>4, <3>5
  <2>. QED BY <2>3, <2>4
<1>2. CASE ~(running /\ ~SA_done)
  <2>1. tpu_state' = "PASS_DATA" /\ counter' = 0 /\ tpu_state # "PASS_DATA"
    BY <1>2, NextClk, StateStep DEF running, SA_done, TypeOK, ControlTypeOK
  <2>2. read_ff' = FALSE
    BY <2>1, ArrayStep DEF ArrayClk
  <2>3. QuietAt(s)'
    BY <2>1, <2>2 DEF Quiet
  <2>4. Word(s)' \notin 0 .. job'.K-1
    <3>1. s[2] \in 1 .. 7
      BY StageBefore
    <3>2. Word(s)' = 0 - s[2]
      BY <2>1 DEF Word, elapsed
    <3>. QED BY <3>1, <3>2
  <2>. QED BY <2>3, <2>4
<1>. QED BY <1>1, <1>2

-----------------------------------------------------------------------------
(* The sums in the PEs.                                                    *)

(* A product of word q of a row tile and of a column tile.                 *)
Term(a, b, q) == [a |-> a + q, b |-> b + q, offset |-> TRUE]

(* The first q products, as a sequence.                                    *)
LEMMA PartialSumType ==
  ASSUME NEW a \in Nat, NEW b \in Nat, NEW q \in Nat
  PROVE  /\ PartialSum(a, b, q) \in Seq(Product)
         /\ Len(PartialSum(a, b, q)) = q
         /\ \A k \in 1 .. q : PartialSum(a, b, q)[k] = Term(a, b, k-1)
<1>1. \A k \in 1 .. q : PartialSum(a, b, q)[k] = Term(a, b, k-1)
  BY DEF PartialSum, Term
<1>2. \A k \in 1 .. q : Term(a, b, k-1) \in Product
  BY DEF Term, Product, Byte
<1>3. PartialSum(a, b, q) \in [1 .. q -> Product]
  BY <1>1, <1>2 DEF PartialSum
<1>4. PartialSum(a, b, q) \in Seq(Product) /\ DOMAIN PartialSum(a, b, q) = 1 .. q
  BY <1>3, SeqDef
<1>5. Len(PartialSum(a, b, q)) = q
  BY <1>4, LenProperties
<1>. QED BY <1>1, <1>4, <1>5

(* One more product.                                                       *)
LEMMA PartialSumNext ==
  ASSUME NEW a \in Nat, NEW b \in Nat, NEW q \in Nat
  PROVE  PartialSum(a, b, q) \o <<Term(a, b, q)>> = PartialSum(a, b, q + 1)
<1>1. PICK s \in Seq(Product) : s = PartialSum(a, b, q)
  BY PartialSumType
<1>2. PICK longer \in Seq(Product) : longer = PartialSum(a, b, q + 1)
  BY PartialSumType
<1>3. PICK last \in Product : last = Term(a, b, q)
  <2>1. a + q \in Nat /\ b + q \in Nat
    OBVIOUS
  <2>2. Term(a, b, q) \in Product
    BY <2>1 DEF Term, Product, Byte
  <2>. QED BY <2>2
<1>4. /\ Len(s) = q /\ \A k \in 1 .. q : s[k] = Term(a, b, k-1)
      /\ Len(longer) = q + 1 /\ \A k \in 1 .. q+1 : longer[k] = Term(a, b, k-1)
  <2>1. q + 1 \in Nat
    OBVIOUS
  <2>2. /\ Len(PartialSum(a, b, q + 1)) = q + 1
        /\ \A k \in 1 .. q+1 : PartialSum(a, b, q + 1)[k] = Term(a, b, k-1)
    BY <2>1, PartialSumType
  <2>3. /\ Len(PartialSum(a, b, q)) = q
        /\ \A k \in 1 .. q : PartialSum(a, b, q)[k] = Term(a, b, k-1)
    BY PartialSumType
  <2>. QED BY <1>1, <1>2, <2>2, <2>3
<1>5. PICK joined : joined = Append(s, last)
  OBVIOUS
<1>6. /\ joined \in Seq(Product) /\ Len(joined) = q + 1
      /\ \A k \in 1 .. q : joined[k] = s[k]
      /\ joined[q + 1] = last
  BY <1>4, <1>5, AppendProperties
<1>7. ASSUME NEW k \in 1 .. q + 1
      PROVE  joined[k] = longer[k]
  <2>1. CASE k \in 1 .. q
    BY <1>4, <1>6, <2>1
  <2>2. CASE k = q + 1
    <3>1. longer[k] = Term(a, b, k-1) /\ k-1 = q
      BY <1>4, <2>2
    <3>. QED BY <1>3, <1>6, <2>2, <3>1
  <2>. QED BY <2>1, <2>2
<1>8. joined = longer
  BY <1>4, <1>6, <1>7, SeqEqual
<1>9. s \o <<last>> = joined
  BY <1>5, AppendIsConcat
<1>. QED BY <1>1, <1>2, <1>3, <1>8, <1>9

(* No product yet.                                                         *)
LEMMA PartialSumEmpty ==
  ASSUME NEW a \in Nat, NEW b \in Nat
  PROVE  PartialSum(a, b, 0) = << >>
BY PartialSumType, EmptySeq

(* What a PE computes in the cycle when its inputs are the words w.        *)
LEMMA MultiOfTile ==
  ASSUME Pipes, running, elapsed \in Nat, NEW i \in Lane, NEW j \in Lane,
         tileM * job.K \in Nat, tileN * job.K \in Nat
  PROVE  Multi(i, j) = IF elapsed-1-i-j \in 0 .. job.K-1
                         THEN <<Term(tileM * job.K, tileN * job.K, elapsed-1-i-j)>>
                         ELSE << >>
<1>. <<i, 1+i+j>> \in Stage /\ <<j, 1+i+j>> \in Stage
  BY DEF Stage, Lane, Dim
<1>1. PICK left \in Stage : left = <<i, 1+i+j>>
  OBVIOUS
<1>2. PICK top \in Stage : top = <<j, 1+i+j>>
  OBVIOUS
<1>3. PICK w : w = elapsed-1-i-j
  OBVIOUS
<1>4. Word(left) = w /\ Word(top) = w /\ w \in Int
  BY <1>1, <1>2, <1>3 DEF Word, Lane, Dim
<1>5. Left(i, j) = aPipe[left] /\ Top(i, j) = bPipe[top] /\ Mask(i, j) = mPipe[top]
  BY <1>1, <1>2 DEF Left, Top, Mask
<1>6. CASE w \in 0 .. job.K-1
  <2>1. HoldsWord(left, w) /\ HoldsWord(top, w)
    BY <1>4, <1>6 DEF Pipes
  <2>2. /\ Left(i, j) = tileM * job.K + w
        /\ Top(i, j) = tileN * job.K + w
        /\ Mask(i, j) = TRUE
    BY <1>5, <2>1 DEF HoldsWord
  <2>3. Left(i, j) # Zero
    BY <1>6, <2>2 DEF Zero
  <2>4. Multi(i, j) = <<Term(tileM * job.K, tileN * job.K, w)>>
    BY <2>2, <2>3 DEF Multi, Term
  <2>. QED BY <1>3, <1>6, <2>4
<1>7. CASE w \notin 0 .. job.K-1
  <2>1. QuietAt(left)
    BY <1>4, <1>7 DEF Pipes
  <2>2. Multi(i, j) = << >>
    BY <1>5, <2>1 DEF QuietAt, Multi
  <2>. QED BY <1>3, <1>7, <2>2
<1>. QED BY <1>6, <1>7

(* How many products a PE has after a cycle with inputs w, or none.        *)
LEMMA ClampNext ==
  ASSUME NEW w \in Int, job.K \in 1 .. 255
  PROVE  /\ w \in 0 .. job.K-1 => Clamp(w) = w /\ Clamp(w + 1) = w + 1
         /\ w \notin 0 .. job.K-1 => Clamp(w + 1) = Clamp(w)
         /\ Clamp(w) \in Nat
         /\ w <= 0 => Clamp(w) = 0
BY DEF Clamp

(* Every PE adds its products in order.                                    *)
LEMMA SumAfterEdge ==
  ASSUME TypeOK, Lockstep, Position, Pipes, Sums, Next, Fits(job), running,
         elapsed >= 1, NEW p \in Lane \X Lane
  PROVE  acc'[p] = PartialSum(tileM * job.K, tileN * job.K, Clamp(elapsed-p[1]-p[2]))
<1>1. job \in Jobs /\ elapsed \in Nat /\ job.K \in 1 .. 255
  BY JobInProgress, FitsBounds DEF running
<1>2. p[1] \in Lane /\ p[2] \in Lane /\ p[1] \in 0 .. 3 /\ p[2] \in 0 .. 3
  BY DEF Lane, Dim
<1>3. PICK a \in Nat : a = tileM * job.K
  BY <1>1, FitsBounds, MulMono DEF Position
<1>4. PICK b \in Nat : b = tileN * job.K
  BY <1>1, FitsBounds, MulMono DEF Position
<1>5. PICK w \in Int : w = elapsed-1-p[1]-p[2]
  BY <1>1, <1>2
<1>6. elapsed-p[1]-p[2] = w + 1
  BY <1>1, <1>2, <1>5
<1>7. acc'[p] = (IF PE_clear THEN << >> ELSE acc[p]) \o Multi(p[1], p[2])
  <2>1. Multi(p[1], p[2]) \in Seq(Product)
    BY <1>2, MultiType DEF TypeOK
  <2>2. acc'[p] = IF PE_clear THEN Multi(p[1], p[2]) ELSE acc[p] \o Multi(p[1], p[2])
    BY ArrayStep DEF ArrayClk, Accumulate
  <2>. QED BY <2>1, <2>2, ConcatEmptySeq
<1>8. (IF PE_clear THEN << >> ELSE acc[p]) = PartialSum(a, b, Clamp(w))
  <2>1. CASE elapsed = 1
    <3>1. PE_clear = TRUE
      BY <2>1 DEF Sums
    <3>2. Clamp(w) = 0
      BY <1>1, <1>2, <1>5, <2>1, ClampNext
    <3>. QED BY <3>1, <3>2, PartialSumEmpty
  <2>2. CASE elapsed # 1
    <3>1. PE_clear = FALSE
      BY <2>2 DEF Sums
    <3>. QED BY <1>1, <1>3, <1>4, <1>5, <2>2, <3>1 DEF Sums
  <2>. QED BY <2>1, <2>2
<1>9. Multi(p[1], p[2]) = IF w \in 0 .. job.K-1 THEN <<Term(a, b, w)>> ELSE << >>
  BY <1>1, <1>2, <1>3, <1>4, <1>5, MultiOfTile
<1>10. CASE w \in 0 .. job.K-1
  <2>1. acc'[p] = PartialSum(a, b, w) \o <<Term(a, b, w)>>
    BY <1>1, <1>7, <1>8, <1>9, <1>10, ClampNext
  <2>2. acc'[p] = PartialSum(a, b, w + 1)
    BY <1>1, <1>10, <2>1, PartialSumNext
  <2>. QED BY <1>1, <1>3, <1>4, <1>6, <1>10, <2>2, ClampNext
<1>11. CASE w \notin 0 .. job.K-1
  <2>1. acc'[p] = PartialSum(a, b, Clamp(w)) \o << >>
    BY <1>7, <1>8, <1>9, <1>11
  <2>2. PartialSum(a, b, Clamp(w)) \in Seq(Product)
    BY <1>1, ClampNext, PartialSumType
  <2>3. acc'[p] = PartialSum(a, b, Clamp(w))
    BY <2>1, <2>2, ConcatEmptySeq
  <2>. QED BY <1>1, <1>3, <1>4, <1>6, <1>11, <2>3, ClampNext
<1>. QED BY <1>10, <1>11

(* A finished tile: its four rows and columns are sums of the same words.  *)
LEMMA DotProductOfTile ==
  ASSUME NEW t \in Nat, NEW u \in Nat, NEW c \in Lane
  PROVE  DotProduct(job, t, u * Dim + c) = PartialSum(u * job.K, t * job.K, job.K)
<1>1. (u * Dim + c) \div Dim = u
  BY DEF Lane, Dim
<1>. QED BY <1>1 DEF DotProduct, PartialSum

(* What a PE holds after the edge that ends its tile.                      *)
LEMMA SumComplete ==
  ASSUME TypeOK, Lockstep, Position, Pipes, Sums, Next, Fits(job), SA_done,
         NEW p \in Lane \X Lane
  PROVE  acc'[p] = DotProduct(job, lastN, lastM * Dim)
<1>1. running /\ counter = 6 /\ tileN = lastN /\ tileM = lastM
  BY DEF running, SA_done, tileN, tileM
<1>2. job \in Jobs /\ job.K \in 1 .. 255 /\ elapsed = job.K + 6
  BY <1>1, JobInProgress, FitsBounds DEF running, SA_done, elapsed
<1>3. p[1] \in 0 .. 3 /\ p[2] \in 0 .. 3
  BY DEF Lane, Dim
<1>4. Clamp(elapsed-p[1]-p[2]) = job.K
  <2>1. PICK x \in Int : x = elapsed-p[1]-p[2]
    BY <1>2, <1>3
  <2>2. x >= job.K
    BY <1>2, <1>3, <2>1
  <2>3. Clamp(x) = job.K
    BY <1>2, <2>2 DEF Clamp
  <2>. QED BY <2>1, <2>3
<1>5. acc'[p] = PartialSum(lastM * job.K, lastN * job.K, job.K)
  <2>1. elapsed >= 1
    BY <1>2
  <2>. QED BY <1>1, <1>4, <2>1, SumAfterEdge
<1>6. lastN \in Nat /\ lastM \in Nat
  BY <1>1, <1>2, FitsBounds DEF Position
<1>7. 0 \in Lane /\ lastM * Dim + 0 = lastM * Dim
  BY <1>6 DEF Lane, Dim
<1>. QED BY <1>5, <1>6, <1>7, DotProductOfTile

(* Every edge keeps the sums.                                              *)
LEMMA NextSums ==
  ASSUME TypeOK, Lockstep, Fits(job) => Position /\ Pipes /\ Sums, Next, Fits(job)'
  PROVE  Sums'
<1>. SUFFICES ASSUME running'
              PROVE  /\ PE_clear' = (elapsed' = 1)
                     /\ tpu_state' = "PASS_DATA" => read_ff' = (counter' > 0)
                     /\ elapsed' > 1 => \A p \in Lane \X Lane :
                          acc'[p] = PartialSum(tileM' * job'.K, tileN' * job'.K,
                                               Clamp(elapsed-1-p[1]-p[2])')
  BY DEF Sums
<1>1. /\ read_ff' = (tpu_state = "PASS_DATA")
      /\ PE_clear' = ((tpu_state = "PASS_DATA") /\ ~read_ff)
  BY ArrayStep DEF ArrayClk, ClearPulse
<1>2. CASE running /\ ~SA_done
  <2>1. job' = job /\ Fits(job) /\ elapsed \in Nat /\ job \in Jobs /\ counter \in 0 .. 511
    BY <1>2, JobKept, JobInProgress DEF running
  <2>2. elapsed' = elapsed + 1 /\ tileN' = tileN /\ tileM' = tileM /\ job.K \in 1 .. 255
    BY <1>2, <2>1, Advance, FitsBounds
  <2>3. ASSUME elapsed' > 1, NEW p \in Lane \X Lane
        PROVE  acc'[p] = PartialSum(tileM' * job'.K, tileN' * job'.K,
                                    Clamp(elapsed-1-p[1]-p[2])')
    <3>1. p[1] \in 0 .. 3 /\ p[2] \in 0 .. 3
      BY DEF Lane, Dim
    <3>2. elapsed'-1-p[1]-p[2] = elapsed-p[1]-p[2] /\ elapsed >= 1
      BY <2>1, <2>2, <2>3, <3>1
    <3>3. Clamp(elapsed-1-p[1]-p[2])' = Clamp(elapsed-p[1]-p[2])
      BY <2>1, <3>2 DEF Clamp
    <3>4. acc'[p] = PartialSum(tileM * job.K, tileN * job.K, Clamp(elapsed-p[1]-p[2]))
      BY <1>2, <2>1, <3>2, SumAfterEdge
    <3>. QED BY <2>1, <2>2, <3>3, <3>4
  <2>4. CASE tpu_state = "PASS_DATA"
    <3>1. elapsed = counter /\ read_ff = (counter > 0)
      BY <1>2, <2>1, <2>4 DEF elapsed, Sums
    <3>2. PE_clear' = (elapsed' = 1)
      <4>1. CASE counter = 0
        <5>1. (counter > 0) = FALSE /\ elapsed' = 1
          BY <2>2, <3>1, <4>1
        <5>. QED BY <1>1, <2>4, <3>1, <5>1
      <4>2. CASE counter # 0
        <5>1. (counter > 0) = TRUE /\ elapsed' # 1
          BY <2>1, <2>2, <3>1, <4>2
        <5>. QED BY <1>1, <2>4, <3>1, <5>1
      <4>. QED BY <4>1, <4>2
    <3>3. tpu_state' = "PASS_DATA" => counter' = counter + 1
      BY <2>2, <3>1 DEF elapsed
    <3>4. tpu_state' = "PASS_DATA" => read_ff' = (counter' > 0)
      BY <1>1, <2>1, <2>4, <3>3
    <3>. QED BY <2>3, <3>2, <3>4
  <2>5. CASE tpu_state = "WAIT_6"
    <3>1. tpu_state' = "WAIT_6" /\ elapsed >= 1
      BY <1>2, <2>1, <2>2, <2>5, StateStep DEF SA_done, elapsed
    <3>2. PE_clear' = FALSE
      BY <1>1, <2>5
    <3>3. elapsed' # 1
      BY <2>1, <2>2, <3>1
    <3>. QED BY <2>3, <3>1, <3>2, <3>3
  <2>. QED BY <1>2, <2>4, <2>5 DEF running
<1>3. CASE ~(running /\ ~SA_done)
  <2>1. tpu_state' = "PASS_DATA" /\ counter' = 0 /\ tpu_state # "PASS_DATA"
    BY <1>3, NextClk, StateStep DEF running, SA_done, TypeOK, ControlTypeOK
  <2>2. elapsed' = 0
    BY <2>1 DEF elapsed
  <2>. QED BY <1>1, <2>1, <2>2
<1>. QED BY <1>2, <1>3

-----------------------------------------------------------------------------
(* The write buffer.                                                       *)

(* While it stores a tile, n and m stay where they are.                    *)
LEMMA BusyTile ==
  ASSUME TypeOK, Lockstep, Position, Next, Fits(job), wb_state # "IDLE"
  PROVE  /\ tpu_state # "IDLE" /\ ~SA_done
         /\ n' = n /\ m' = m /\ C_index' = C_index
         /\ tpu_state' # "IDLE" /\ job' = job
<1>1. wb_state \in {"LOAD_DATA", "WRITE"} /\ wb_counter \in 0 .. 3
  BY DEF TypeOK, WriteBufferTypeOK, LastRow
<1>2. tpu_state # "IDLE"
  BY DEF Lockstep
<1>3. job \in Jobs /\ counter \in 0 .. 511 /\ job.K \in 1 .. 255
  BY <1>2, JobInProgress, FitsBounds
<1>4. elapsed <= 4
  BY <1>1 DEF Lockstep
<1>5. tpu_state = "WAIT_6" => counter <= 3
  BY <1>3, <1>4 DEF elapsed
<1>6. tpu_state # "PASS_DATA" => counter <= 4
  BY <1>3, <1>4, <1>5, <1>2 DEF elapsed
<1>7. ~prev_next_tile /\ ~next_tile /\ ~SA_done
  BY <1>3, <1>6 DEF prev_next_tile, next_tile, SA_done
<1>8. TileClk /\ IndexClk
  BY NextClk DEF Clk
<1>9. n' = n /\ m' = m /\ C_index' = C_index
  BY <1>2, <1>7, <1>8 DEF TileClk, IndexClk, NextCIndex
<1>10. tpu_state' # "IDLE"
  BY <1>2 DEF Next, Start, Idle, PassData, Wait6, WaitForWrite, WriteBusy
<1>. QED BY <1>2, <1>7, <1>9, <1>10, JobKept

(* Every edge keeps the rows to be stored and where they go.               *)
LEMMA NextBuffered ==
  ASSUME CaptureSees = {"after"}, TypeOK, Lockstep,
         Fits(job) => Position /\ Pipes /\ Sums /\ Buffered, Next, Fits(job)'
  PROVE  Buffered'
<1>. SUFFICES ASSUME wb_state' # "IDLE"
              PROVE  /\ lastN' \in 0 .. N_tiles'-1 /\ lastM' \in 0 .. M_tiles'-1
                     /\ write_index' = TileStart(lastN, lastM)' + wb_counter'
                     /\ \A p \in Lane \X Lane :
                          data_buffer'[p] = DotProduct(job, lastN, lastM * Dim)'
  BY DEF Buffered
<1>1. WriteBufferClk(SA_done, C_index, acc, acc')
  BY NextClk DEF Clk
<1>2. wb_state = "IDLE" => SA_done
  BY <1>1 DEF WriteBufferClk, NextWriteState
<1>3. tpu_state # "IDLE"
  BY <1>2 DEF Lockstep, SA_done
<1>4. job' = job /\ N_tiles' = N_tiles /\ M_tiles' = M_tiles /\ Fits(job) /\ job \in Jobs
  BY <1>3, JobKept, JobInProgress
<1>5. CASE wb_state = "IDLE"
  <2>. USE <1>2, <1>4, <1>5
  <2>1. n' = n /\ m' = m
    BY NextTile
  <2>2. lastN' = lastN /\ lastM' = lastM /\ TileStart(lastN, lastM)' = TileStart(lastN, lastM)
    BY <2>1 DEF lastN, lastM, TileStart
  <2>3. /\ lastN \in 0 .. N_tiles-1 /\ lastM \in 0 .. M_tiles-1
        /\ C_index = TileStart(lastN, lastM)
    BY DEF Position, running, SA_done, tileN, tileM
  <2>4. write_index' = C_index /\ wb_counter' = 0 /\ wb_state' = "LOAD_DATA"
    BY <1>1 DEF WriteBufferClk, RowAdvance, NextWriteState
  <2>5. data_buffer' = acc'
    BY <1>1, <2>4 DEF WriteBufferClk, Capture
  <2>6. C_index = C_index + 0
    BY DEF TypeOK, ControlTypeOK
  <2>7. DotProduct(job, lastN, lastM * Dim)' = DotProduct(job, lastN, lastM * Dim)
    BY <2>2 DEF DotProduct
  <2>. QED BY <2>2, <2>3, <2>4, <2>5, <2>6, <2>7, SumComplete
<1>6. CASE wb_state # "IDLE"
  <2>. USE <1>4, <1>6
  <2>1. ~SA_done /\ n' = n /\ m' = m
    BY BusyTile
  <2>2. /\ lastN' = lastN /\ lastM' = lastM /\ TileStart(lastN, lastM)' = TileStart(lastN, lastM)
        /\ DotProduct(job, lastN, lastM * Dim)' = DotProduct(job, lastN, lastM * Dim)
    BY <2>1 DEF lastN, lastM, TileStart, DotProduct
  <2>3. data_buffer' = data_buffer
    BY <1>1 DEF WriteBufferClk, Capture, NextWriteState
  <2>4. /\ lastN \in 0 .. N_tiles-1 /\ lastM \in 0 .. M_tiles-1
        /\ write_index = TileStart(lastN, lastM) + wb_counter
        /\ \A p \in Lane \X Lane : data_buffer[p] = DotProduct(job, lastN, lastM * Dim)
    BY DEF Buffered
  <2>5. write_index' = TileStart(lastN, lastM) + wb_counter'
    <3>1. CASE wb_state = "WRITE"
      <4>1. wb_counter \in 0 .. 2 /\ RowAdvance
        BY <1>1, <3>1 DEF WriteBufferClk, NextWriteState, RowAdvance, LastRow,
                          TypeOK, WriteBufferTypeOK
      <4>2. wb_counter' = wb_counter + 1 /\ write_index' = (write_index + 1) % IndexSpan
        BY <1>1, <2>1, <4>1 DEF WriteBufferClk
      <4>3. wb_counter + 1 \in 0 .. LastRow
        BY <4>1 DEF LastRow
      <4>4. /\ TileStart(lastN, lastM) \in Nat
            /\ TileStart(lastN, lastM) + (wb_counter + 1) \in 0 .. IndexSpan-1
        BY <2>4, <4>3, RowBounds
      <4>5. write_index + 1 = TileStart(lastN, lastM) + (wb_counter + 1)
        BY <2>4, <4>1, <4>4
      <4>. QED BY <4>2, <4>4, <4>5, SmallMod, IndexSpanType
    <3>2. CASE wb_state = "LOAD_DATA"
      <4>1. wb_counter = 0 /\ wb_counter' = 0 /\ write_index' = write_index
        BY <1>1, <2>1, <3>2 DEF WriteBufferClk, RowAdvance, Lockstep
      <4>. QED BY <2>4, <4>1
    <3>. QED BY <3>1, <3>2 DEF TypeOK, WriteBufferTypeOK
  <2>. QED BY <2>2, <2>3, <2>4, <2>5
<1>. QED BY <1>5, <1>6

-----------------------------------------------------------------------------
(* Buffer C.                                                               *)

(* Nothing is stored but by the write buffer.                              *)
LEMMA NoStore ==
  ASSUME Next, wb_state # "WRITE"
  PROVE  buffer_C' = buffer_C
BY NextClk DEF Clk, StoreRow, wr_en

(* The write buffer stores a row of its tile, in a word of the job.        *)
LEMMA Store ==
  ASSUME TypeOK, Lockstep, Buffered, Next, Fits(job), wb_state = "WRITE"
  PROVE  /\ write_index \in 0 .. StoredWords(job)-1 /\ write_index < Depth
         /\ \A l \in Lane :
              buffer_C'[write_index][l] = DotProduct(job, lastN, lastM * Dim)
         /\ \A w \in 0 .. Depth-1 : w # write_index => buffer_C'[w] = buffer_C[w]
<1>1. job \in Jobs
  BY JobInProgress DEF Lockstep
<1>2. wb_counter \in 0 .. LastRow /\ wb_counter \in Lane
  BY DEF TypeOK, WriteBufferTypeOK, LastRow, Lane, Dim
<1>3. /\ write_index \in 0 .. Depth-1 /\ write_index < StoredWords(job)
  BY <1>1, <1>2, RowBounds DEF Buffered
<1>4. write_index % Depth = write_index
  BY <1>3, SmallMod, DepthAssumption
<1>5. buffer_C' = [buffer_C EXCEPT ![write_index] =
                     [l \in Lane |-> data_buffer[<<wb_counter, l>>]]]
  BY <1>4, NextClk DEF Clk, StoreRow, wr_en
<1>6. \A l \in Lane : data_buffer[<<wb_counter, l>>] = DotProduct(job, lastN, lastM * Dim)
  BY <1>2 DEF Buffered
<1>7. DOMAIN buffer_C = 0 .. Depth-1
  BY DEF TypeOK
<1>8. StoredWords(job) \in Int
  <2>1. N_tiles \in 1 .. 64 /\ M_tiles \in 1 .. 64 /\ job.M \in 1 .. 255
    BY <1>1, FitsBounds
  <2>2. StoredWords(job) = (N_tiles - 1) * job.M + 4 * M_tiles
    BY DEF StoredWords, N_tiles, M_tiles, Dim
  <2>. QED BY <2>1, <2>2
<1>. QED BY <1>3, <1>5, <1>6, <1>7, <1>8, DepthAssumption

(* The last word the write buffer stores of a tile that counts: the rest,  *)
(* past row M, belongs to the next column tile.                            *)
LEMMA StoredRow ==
  ASSUME TypeOK, Lockstep, Position, Buffered, Next, Fits(job), wb_state = "WRITE"
  PROVE  /\ write_index = lastN * job.M + (lastM * Dim + wb_counter)
         /\ lastN \in Nat /\ lastM \in Nat /\ wb_counter \in Lane
         /\ write_index < C_index => lastM * Dim + wb_counter \in 0 .. job.M-1
         /\ wb_counter = LastRow => C_index <= write_index + 1
<1>1. /\ ~SA_done /\ tpu_state # "IDLE" /\ job \in Jobs
  BY BusyTile, JobInProgress
<1>2. /\ job.M \in 1 .. 255 /\ N_tiles \in 1 .. 64 /\ M_tiles \in 1 .. 64
      /\ job.M <= 4 * M_tiles /\ 4 * (M_tiles - 1) < job.M
  BY <1>1, FitsBounds
<1>3. wb_counter \in 0 .. 3
  BY DEF TypeOK, WriteBufferTypeOK, LastRow
<1>4. n \in 0 .. N_tiles /\ m \in 0 .. M_tiles-1 /\ C_index = n * job.M + m * 4
  BY <1>1 DEF TypeOK, ControlTypeOK, Position, running, tileN, tileM, TileStart, Dim
<1>5. /\ lastN \in 0 .. N_tiles-1 /\ lastM \in 0 .. M_tiles-1
      /\ write_index = lastN * job.M + lastM * 4 + wb_counter
  BY DEF Buffered, TileStart, Dim
<1>6. PICK x \in Nat : x = lastN * job.M
  BY <1>2, <1>5, MulMono
<1>7. lastM * Dim = 4 * lastM /\ lastM \in Nat /\ lastN \in Nat
  BY <1>2, <1>5 DEF Dim
<1>8. write_index = x + 4 * lastM + wb_counter /\ lastM * Dim + wb_counter = 4 * lastM + wb_counter
  BY <1>3, <1>5, <1>6, <1>7
<1>9. /\ write_index = lastN * job.M + (lastM * Dim + wb_counter)
       /\ lastN \in Nat /\ lastM \in Nat /\ wb_counter \in Lane
  BY <1>3, <1>5, <1>6, <1>7, <1>8 DEF Lane, Dim
<1>10. CASE m = 0
  <2>1. lastM = M_tiles - 1 /\ n = lastN + 1
    BY <1>4, <1>10 DEF lastM, lastN
  <2>2. n * job.M = x + job.M
    <3>1. (lastN + 1) * job.M = lastN * job.M + job.M
      BY <1>2, <1>7, MulNext
    <3>. QED BY <1>6, <2>1, <3>1
  <2>3. C_index = x + job.M
    BY <1>2, <1>4, <1>6, <1>10, <2>2
  <2>. QED BY <1>2, <1>3, <1>8, <1>9, <2>1, <2>3 DEF LastRow
<1>11. CASE m # 0
  <2>1. lastM = m - 1 /\ n = lastN
    BY <1>11 DEF lastM, lastN
  <2>2. C_index = x + 4 * (lastM + 1)
    BY <1>4, <1>6, <1>7, <2>1
  <2>3. 4 * lastM + 4 < job.M
    BY <1>2, <1>4, <1>9, <2>1
  <2>4. 4 * lastM + wb_counter \in 0 .. job.M-1
    BY <1>2, <1>3, <1>9, <2>3
  <2>5. wb_counter = LastRow => C_index <= write_index + 1
    BY <1>3, <1>8, <1>9, <2>2 DEF LastRow
  <2>. QED BY <1>8, <1>9, <2>4, <2>5
<1>. QED BY <1>10, <1>11

(* A word that is final stays so, and a row that is stored becomes final   *)
(* with the product in it.                                                 *)
LEMMA StoreIsFinal ==
  ASSUME TypeOK, Lockstep, Position, Buffered, Written, Next, Fits(job),
         wb_state = "WRITE",
         NEW t \in 0 .. N_tiles-1, NEW r \in 0 .. job.M-1, NEW l \in Lane,
         Final(t * job.M + r)'
  PROVE  buffer_C'[t * job.M + r][l] = DotProduct(job, t, r)
<1>1. /\ tpu_state # "IDLE" /\ ~SA_done /\ job' = job /\ C_index' = C_index
      /\ job \in Jobs
  BY BusyTile, JobInProgress
<1>2. job.M \in 1 .. 255 /\ N_tiles \in 1 .. 64 /\ t \in Nat /\ r \in Nat
  BY <1>1, FitsBounds
<1>3. PICK w \in Nat : w = t * job.M + r
  <2>1. t * job.M \in Nat
    BY <1>2, MulMono
  <2>. QED BY <1>2, <2>1
<1>4. w < C_index /\ (wb_state' # "IDLE" => w < write_index')
  BY <1>1, <1>3 DEF Final
<1>5. write_index \in Nat /\ write_index < Depth /\ C_index \in Nat
  BY Store DEF TypeOK, ControlTypeOK, WriteBufferTypeOK
<1>6. CASE w < write_index
  <2>1. buffer_C'[w] = buffer_C[w]
    BY <1>3, <1>5, <1>6, Store, DepthAssumption
  <2>2. Final(t * job.M + r)
    BY <1>3, <1>4, <1>6 DEF Final
  <2>3. buffer_C[t * job.M + r][l] = DotProduct(job, t, r)
    BY <1>1, <2>2 DEF Written
  <2>. QED BY <1>3, <2>1, <2>3
<1>7. CASE ~(w < write_index)
  <2>1. w = write_index
    <3>1. WriteBufferClk(SA_done, C_index, acc, acc') /\ wb_counter \in 0 .. LastRow
      BY NextClk DEF Clk, TypeOK, WriteBufferTypeOK
    <3>2. CASE wb_counter = LastRow
      BY <1>3, <1>4, <1>5, <1>7, <3>2, StoredRow
    <3>3. CASE wb_counter # LastRow
      <4>1. wb_state' = "WRITE" /\ write_index' = (write_index + 1) % IndexSpan
        BY <1>1, <3>1, <3>3 DEF WriteBufferClk, NextWriteState, RowAdvance
      <4>2. (write_index + 1) % IndexSpan <= write_index + 1
        BY <1>5, IndexSpanType
      <4>. QED BY <1>3, <1>4, <1>5, <1>7, <4>1, <4>2, IndexSpanType
    <3>. QED BY <3>2, <3>3
  <2>2. PICK q \in 0 .. job.M-1 : q = lastM * Dim + wb_counter
    BY <1>4, <2>1, StoredRow
  <2>3. lastN \in Nat /\ t * job.M + r = lastN * job.M + q
    BY <1>3, <2>1, <2>2, StoredRow
  <2>4. t = lastN /\ r = q
    BY <1>2, <2>3, WordIsUnique
  <2>5. DotProduct(job, t, r) = DotProduct(job, lastN, lastM * Dim)
    <3>1. 0 \in Lane /\ lastM \in Nat /\ wb_counter \in Lane /\ lastM * Dim + 0 = lastM * Dim
      BY StoredRow DEF Lane, Dim
    <3>. QED BY <2>2, <2>3, <2>4, <3>1, DotProductOfTile
  <2>. QED BY <1>3, <2>1, <2>5, Store
<1>. QED BY <1>6, <1>7

(* The controller leaves WAIT_FOR_WRITE when nothing is left to store.     *)
LEMMA WaitIsBusy ==
  ASSUME Next, tpu_state = "WAIT_FOR_WRITE", tpu_state' # "IDLE"
  PROVE  wb_state # "IDLE"
BY DEF Next, Start, Idle, PassData, Wait6, WaitForWrite, WriteBusy, SA_done

(* A job that starts is one of the processor's.                            *)
LEMMA JobStarts ==
  ASSUME Next, tpu_state = "IDLE", tpu_state' # "IDLE"
  PROVE  job' \in Jobs
BY DEF Next, Start, Idle, PassData, Wait6, WaitForWrite

(* The last edge of a job: all words of C are final.                       *)
LEMMA AllFinal ==
  ASSUME TypeOK, Lockstep, Position, Written, Next, Fits(job),
         tpu_state # "IDLE", tpu_state' = "IDLE"
  PROVE  HoldsProduct(buffer_C, job) /\ wb_state = "IDLE"
<1>1. tpu_state = "WAIT_FOR_WRITE" /\ wb_state = "IDLE"
  BY DEF Next, Start, Idle, PassData, Wait6, WaitForWrite, WriteBusy
<1>2. job \in Jobs
  BY JobInProgress
<1>3. N_tiles \in 1 .. 64 /\ job.M \in 1 .. 255
  BY <1>2, FitsBounds
<1>4. C_index = N_tiles * job.M
  <2>1. C_index = N_tiles * job.M + 0 * Dim
    BY <1>1 DEF Position, TileStart
  <2>. QED BY <1>3, <2>1 DEF Dim
<1>5. ASSUME NEW t \in 0 .. N_tiles-1, NEW r \in 0 .. job.M-1, NEW l \in Lane
      PROVE  buffer_C[t * job.M + r][l] = DotProduct(job, t, r)
  <2>1. (t + 1) * job.M <= N_tiles * job.M /\ (t + 1) * job.M = t * job.M + job.M
    <3>1. t + 1 \in Nat /\ t + 1 <= N_tiles /\ t \in Nat /\ job.M \in Nat /\ N_tiles \in Nat
      BY <1>3
    <3>. QED BY <3>1, MulMono, MulNext
  <2>2. t * job.M + r < C_index
    <3>1. t * job.M \in Nat /\ N_tiles * job.M \in Nat
      BY <1>3, MulMono
    <3>. QED BY <1>3, <1>4, <2>1, <3>1
  <2>3. Final(t * job.M + r)
    BY <1>1, <2>2 DEF Final
  <2>. QED BY <1>1, <2>3 DEF Written
<1>. QED BY <1>1, <1>5 DEF HoldsProduct, N_tiles

(* Every edge keeps the finished words of C.                               *)
LEMMA NextWritten ==
  ASSUME TypeOK, Lockstep, NoOverrun,
         Fits(job) => Position /\ Buffered /\ Written, Next, Fits(job)'
  PROVE  Written'
<1>1. CASE tpu_state = "IDLE"
  <2>1. buffer_C' = buffer_C
    BY <1>1, NoStore DEF Lockstep
  <2>2. CASE tpu_state' = "IDLE"
    <3>1. job' = job
      BY <1>1, <2>2 DEF Next, Start, Idle, PassData, Wait6, WaitForWrite
    <3>. QED BY <1>1, <2>1, <2>2, <3>1 DEF Written, HoldsProduct
  <2>3. CASE tpu_state' # "IDLE"
    <3>1. ASSUME NEW t \in 0 .. N_tiles'-1, NEW r \in 0 .. job'.M-1
          PROVE  ~Final(t * job.M + r)'
      <4>1. C_index' = 0 /\ job'.M \in 1 .. 255 /\ N_tiles' \in 1 .. 64
        BY <1>1, <2>3, FirstTile, FitsBoundsNext, JobStarts
      <4>2. t * job'.M \in Nat
        BY <4>1, MulMono
      <4>3. ~(t * job'.M + r < 0)
        BY <4>1, <4>2
      <4>. QED BY <4>1, <4>3 DEF Final
    <3>. QED BY <2>3, <3>1 DEF Written
  <2>. QED BY <2>2, <2>3
<1>2. CASE tpu_state # "IDLE"
  <2>1. /\ job' = job /\ N_tiles' = N_tiles /\ Fits(job) /\ job \in Jobs
        /\ Position /\ Buffered /\ Written
    BY <1>2, JobKept, JobInProgress
  <2>2. CASE tpu_state' = "IDLE"
    <3>1. HoldsProduct(buffer_C, job) /\ buffer_C' = buffer_C
      BY <1>2, <2>1, <2>2, AllFinal, NoStore
    <3>. QED BY <2>1, <2>2, <3>1 DEF Written, HoldsProduct
  <2>3. CASE tpu_state' # "IDLE"
    <3>. SUFFICES ASSUME NEW t \in 0 .. N_tiles-1, NEW r \in 0 .. job.M-1, NEW l \in Lane,
                         Final(t * job.M + r)'
                  PROVE  buffer_C'[t * job.M + r][l] = DotProduct(job, t, r)
      BY <2>1, <2>3 DEF Written, DotProduct
    <3>1. CASE wb_state = "WRITE"
      BY <2>1, <3>1, StoreIsFinal
    <3>2. CASE wb_state # "WRITE"
      <4>1. buffer_C' = buffer_C /\ WriteBufferClk(SA_done, C_index, acc, acc')
        BY <3>2, NoStore, NextClk DEF Clk
      <4>2. Final(t * job.M + r)
        <5>1. CASE SA_done
          <6>1. wb_state = "IDLE" /\ wb_state' # "IDLE" /\ write_index' = C_index
            BY <4>1, <5>1 DEF NoOverrun, WriteBufferClk, NextWriteState
          <6>. QED BY <2>1, <6>1 DEF Final
        <5>2. CASE ~SA_done
          <6>1. C_index' = C_index
            BY <1>2, <2>1, <2>3, <5>2, Advance, BusyTile, WaitIsBusy
               DEF running, TypeOK, ControlTypeOK
          <6>2. wb_state # "IDLE" => wb_state' # "IDLE" /\ write_index' = write_index
            BY <3>2, <4>1, <5>2 DEF WriteBufferClk, NextWriteState, RowAdvance
          <6>. QED BY <2>1, <6>1, <6>2 DEF Final
        <5>. QED BY <5>1, <5>2
      <4>. QED BY <1>2, <2>1, <4>1, <4>2 DEF Written
    <3>. QED BY <3>1, <3>2
  <2>. QED BY <2>2, <2>3
<1>. QED BY <1>1, <1>2

-----------------------------------------------------------------------------
(* The theorems.  A job that does not fit reads or stores wrapped words, of*)
(* which nothing is claimed but types and timing.                          *)

ProductInv == Fits(job) => TileInv

(* Nothing to show before the first job, which is the empty one.           *)
LEMMA InitProduct == Init => ProductInv
BY DEF Init, NoJob, ProductInv, Fits, NonEmpty

(* Every edge keeps the whole invariant.                                   *)
LEMMA NextProduct ==
  ASSUME CaptureSees = {"after"}, TypeOK, Lockstep, NoOverrun, Lockstep', Quiet',
         ProductInv, Next
  PROVE  ProductInv'
<1>. SUFFICES ASSUME Fits(job)'
              PROVE  TileInv'
  BY DEF ProductInv
<1>1. Fits(job) => Position /\ Pipes /\ Sums /\ Buffered /\ Written
  BY DEF ProductInv, TileInv
<1>2. Position'
  <2>1. CASE tpu_state' = "IDLE"
    BY <2>1 DEF Position, running, SA_done
  <2>2. CASE tpu_state' # "IDLE"
    BY <1>1, <2>2, NextPosition
  <2>. QED BY <2>1, <2>2
<1>3. Pipes'
  BY <1>1, NextPipes
<1>4. Sums'
  BY <1>1, NextSums
<1>5. Buffered'
  BY <1>1, NextBuffered
<1>6. Written'
  BY <1>1, NextWritten
<1>. QED BY <1>2, <1>3, <1>4, <1>5, <1>6 DEF TileInv

(* A stutter changes nothing the invariant looks at.                       *)
LEMMA StutterProduct ==
  ASSUME ProductInv, UNCHANGED vars
  PROVE  ProductInv'
<1>. SUFFICES ASSUME Fits(job)
              PROVE  TileInv'
  BY DEF ProductInv, vars, controlVars
<1>1. /\ UNCHANGED controlVars /\ UNCHANGED arrayVars
      /\ UNCHANGED writeBufferVars /\ UNCHANGED buffer_C
  BY DEF vars
<1>2. UNCHANGED <<running, SA_done, N_tiles, M_tiles, lastN, lastM, elapsed>>
  BY <1>1 DEF controlVars, running, SA_done, N_tiles, M_tiles, lastN, lastM, elapsed
<1>3. UNCHANGED <<tileN, tileM>>
  BY <1>1, <1>2 DEF controlVars, tileN, tileM
<1>4. TileInv
  BY DEF ProductInv
<1>5. Position'
  BY <1>1, <1>2, <1>3, <1>4 DEF TileInv, Position, TileStart, controlVars
<1>6. Pipes'
  BY <1>1, <1>2, <1>3, <1>4
     DEF TileInv, Pipes, Word, HoldsWord, QuietAt, controlVars, arrayVars
<1>7. Sums'
  BY <1>1, <1>2, <1>3, <1>4 DEF TileInv, Sums, Clamp, controlVars, arrayVars
<1>8. Buffered'
  BY <1>1, <1>2, <1>4
     DEF TileInv, Buffered, TileStart, DotProduct, controlVars, writeBufferVars
<1>9. Written'
  BY <1>1, <1>2, <1>4
     DEF TileInv, Written, Final, HoldsProduct, DotProduct, controlVars, writeBufferVars
<1>. QED BY <1>5, <1>6, <1>7, <1>8, <1>9 DEF TileInv

(* The bytes, the sums and the stored words are where they should be in    *)
(* every reachable state.                                                  *)
THEOREM ProductInvariant ==
  ASSUME CaptureSees = {"after"}
  PROVE  Spec => []ProductInv
<1>1. TypeOK /\ Lockstep /\ NoOverrun /\ Lockstep' /\ Quiet' /\ ProductInv /\ [Next]_vars
        => ProductInv'
  BY NextProduct, StutterProduct
<1>. QED BY <1>1, InitProduct, TypeCorrect, LockstepInvariant, WriteBufferNeverOverrun,
            QuietInvariant, PTL DEF Spec

(* Whenever the TPU is idle, buffer C holds the product of the last job:   *)
(* for all sizes of the job and of the buffers it fits, if the capture     *)
(* sees the accumulators after the clock edge.                             *)
THEOREM ProductIsStored ==
  ASSUME CaptureSees = {"after"}
  PROVE  Spec => []ProductStored
<1>1. ProductInv => ProductStored
  BY DEF ProductInv, TileInv, Written, ProductStored
<1>. QED BY <1>1, ProductInvariant, PTL

-----------------------------------------------------------------------------
(* The refinement of MatMul.                                               *)

(* Both share the geometry of the buffers.                                 *)
LEMMA AbstractGeometry ==
  ASSUME NEW j, NEW C
  PROVE  /\ Abstract!NoJob = NoJob /\ Abstract!Lane = Lane
         /\ Abstract!Fits(j) = Fits(j)
         /\ Abstract!StoredWords(j) = StoredWords(j)
         /\ Abstract!HoldsProduct(C, j) = HoldsProduct(C, j)
<1>. USE DEF Abstract!Lane, Lane, Abstract!Dim, Dim
<1>1. \A size : Abstract!Tiles(size) = Tiles(size)
  BY DEF Abstract!Tiles, Tiles
<1>2. Abstract!NoJob = NoJob
  BY DEF Abstract!NoJob, NoJob
<1>3. Abstract!StoredWords(j) = StoredWords(j)
  BY <1>1 DEF Abstract!StoredWords, StoredWords
<1>4. Abstract!Fits(j) = Fits(j)
  BY <1>1, <1>3 DEF Abstract!Fits, Fits, Abstract!NonEmpty, NonEmpty
<1>5. \A t, r : Abstract!DotProduct(j, t, r) = DotProduct(j, t, r)
  BY DEF Abstract!DotProduct, DotProduct
<1>6. Abstract!HoldsProduct(C, j) = HoldsProduct(C, j)
  BY <1>1, <1>5 DEF Abstract!HoldsProduct, HoldsProduct
<1>. QED BY <1>2, <1>3, <1>4, <1>6

(* After reset the TPU is an idle MatMul.                                  *)
LEMMA AbstractInit == Init => Abstract!Init
BY AbstractGeometry DEF Init, Abstract!Init

(* No edge stores outside the words of the job.                            *)
LEMMA OthersAreKept ==
  ASSUME TypeOK, Lockstep, ProductInv, Next
  PROVE  Abstract!OthersKept
<1>. SUFFICES ASSUME Fits(job), NEW w \in StoredWords(job) .. Depth-1
              PROVE  buffer_C'[w] = buffer_C[w]
  BY AbstractGeometry DEF Abstract!OthersKept
<1>1. CASE wb_state = "WRITE"
  <2>1. /\ write_index \in 0 .. StoredWords(job)-1
        /\ \A x \in 0 .. Depth-1 : x # write_index => buffer_C'[x] = buffer_C[x]
    BY <1>1, Store DEF ProductInv, TileInv
  <2>2. StoredWords(job) \in Int
    <3>1. job \in Jobs
      BY <1>1, JobInProgress DEF Lockstep
    <3>2. N_tiles \in 1 .. 64 /\ M_tiles \in 1 .. 64 /\ job.M \in 1 .. 255
      BY <3>1, FitsBounds
    <3>3. StoredWords(job) = (N_tiles - 1) * job.M + 4 * M_tiles
      BY DEF StoredWords, N_tiles, M_tiles, Dim
    <3>. QED BY <3>2, <3>3
  <2>3. w \in 0 .. Depth-1 /\ w # write_index
    BY <2>1, <2>2, DepthAssumption
  <2>. QED BY <2>1, <2>3
<1>2. CASE wb_state # "WRITE"
  BY <1>2, NoStore
<1>. QED BY <1>1, <1>2

(* Every edge is a step of MatMul, or none.                                *)
LEMMA AbstractNext ==
  ASSUME CaptureSees = {"after"}, TypeOK, Lockstep, ProductInv, ProductInv', Next
  PROVE  Abstract!Next \/ UNCHANGED Abstract!vars
<1>1. CASE tpu_state = "IDLE"
  <2>1. buffer_C' = buffer_C
    BY <1>1, NoStore DEF Lockstep
  <2>2. CASE \E j \in Jobs : Start(j)
    <3>1. PICK j \in Jobs : Start(j)
      BY <2>2
    <3>2. Abstract!Start(j)
      BY <1>1, <2>1, <3>1 DEF Start, Abstract!Start
    <3>. QED BY <3>2 DEF Abstract!Next
  <2>3. CASE Idle
    BY <1>1, <2>1, <2>3 DEF Idle, Abstract!vars
  <2>. QED BY <1>1, <2>2, <2>3 DEF Next, PassData, Wait6, WaitForWrite
<1>2. CASE tpu_state # "IDLE"
  <2>1. job' = job /\ Abstract!OthersKept
    BY <1>2, JobKept, OthersAreKept
  <2>2. CASE tpu_state' # "IDLE"
    BY <1>2, <2>1, <2>2 DEF Abstract!Next, Abstract!Work
  <2>3. CASE tpu_state' = "IDLE"
    <3>1. Fits(job) => HoldsProduct(buffer_C', job)
      BY <2>1, <2>3 DEF ProductInv, TileInv, Written, HoldsProduct, Fits, NonEmpty, StoredWords
    <3>2. Abstract!Finish
      BY <1>2, <2>1, <2>3, <3>1, AbstractGeometry DEF Abstract!Finish
    <3>. QED BY <3>2 DEF Abstract!Next
  <2>. QED BY <2>2, <2>3
<1>. QED BY <1>1, <1>2

(* The register-level TPU implements the safety part of MatMul: a job is   *)
(* accepted only when the TPU is idle, nothing outside its words of C is   *)
(* touched, and when the TPU becomes idle C holds the product.             *)
THEOREM ImplementsSafety ==
  ASSUME CaptureSees = {"after"}
  PROVE  Spec => Abstract!Safe
<1>1. UNCHANGED vars => UNCHANGED Abstract!vars
  BY DEF vars, controlVars, Abstract!vars
<1>2. TypeOK /\ Lockstep /\ ProductInv /\ ProductInv' /\ [Next]_vars
        => [Abstract!Next]_(Abstract!vars)
  BY <1>1, AbstractNext
<1>. QED BY <1>2, AbstractInit, TypeCorrect, LockstepInvariant, ProductInvariant, PTL
         DEF Spec, Abstract!Safe
=============================================================================

--------------------------------- MODULE Tpu ---------------------------------
(***************************************************************************)
(* Module TPU of cfu.v: the controller that walks the tiles of the result, *)
(* feeds the systolic array from buffers A and B and drains it through the *)
(* write buffer into buffer C.  One step is one rising clock edge.         *)
(*                                                                         *)
(* The values in A and B are not state here: the TPU only reads them.      *)
(***************************************************************************)
EXTENDS SystolicArray, WriteBuffer

VARIABLES
  tpu_state,
  counter,   \* cycles spent in tpu_state
  n, m,      \* the tile being computed, then the next one
  job,       \* reg_K, reg_M, reg_N
  A_index, B_index, C_index,
  buffer_C   \* gbuff of gbuff_C: row of 4 results per word

controlVars == <<tpu_state, counter, n, m, job, A_index, B_index, C_index>>
vars == <<controlVars, arrayVars, writeBufferVars, buffer_C>>

N_tiles == Tiles(job.N)
M_tiles == Tiles(job.M)

all_done == n = N_tiles
m_reset  == m = M_tiles - 1
SA_done_Early == tpu_state = "WAIT_6" /\ counter = 5
SA_done_Held == tpu_state = "WAIT_6"
SA_done  == tpu_state = "WAIT_6" /\ counter = 6
prev_next_tile_Late == tpu_state # "PASS_DATA" /\ counter = 7
prev_next_tile == tpu_state # "PASS_DATA" /\ counter = 5
next_tile      == tpu_state # "PASS_DATA" /\ counter = 6

(* reg_K-1 is computed without a sign: for K = 0 it is never reached.      *)
lastWord == job.K # 0 /\ counter >= job.K - 1

Init ==
  /\ tpu_state = "IDLE"
  /\ counter = 0 /\ n = 0 /\ m = 0
  /\ job = NoJob
  /\ A_index = 0 /\ B_index = 0 /\ C_index = 0
  /\ ArrayInit
  /\ WriteBufferInit
  /\ buffer_C = [w \in 0 .. Depth-1 |-> [l \in Lane |-> << >>]]

-----------------------------------------------------------------------------
(* What every clock edge does besides the state transition.                *)

TileClk ==
  IF prev_next_tile
    THEN /\ n' = IF m_reset THEN (n + 1) % 256 ELSE n
         /\ m' = IF m_reset THEN 0 ELSE (m + 1) % 256
    ELSE /\ n' = IF tpu_state = "IDLE" THEN 0 ELSE n
         /\ m' = IF tpu_state = "IDLE" THEN 0 ELSE m

NextIndex(index, tileStart) ==
  IF next_tile THEN tileStart % IndexSpan
  ELSE IF tpu_state = "PASS_DATA" /\ ~lastWord THEN (index + 1) % IndexSpan
  ELSE IF tpu_state = "IDLE" THEN 0
  ELSE index

NextCIndex ==
  IF next_tile THEN (n * job.M + m * Dim) % IndexSpan
  ELSE IF tpu_state = "IDLE" THEN 0
  ELSE C_index

IndexClk ==
  /\ A_index' = NextIndex(A_index, m * job.K)
  /\ B_index' = NextIndex(B_index, n * job.K)
  /\ C_index' = NextCIndex

CounterClk ==
  counter' = IF tpu_state = "IDLE" \/ tpu_state' # tpu_state
               THEN 0 ELSE (counter + 1) % 512

StoreRow ==
  buffer_C' = IF wr_en
                THEN [buffer_C EXCEPT ![write_index % Depth] =
                        [l \in Lane |-> data_buffer[<<wb_counter, l>>]]]
                ELSE buffer_C

Clk ==
  /\ TileClk
  /\ IndexClk
  /\ CounterClk
  /\ ArrayClk(tpu_state = "PASS_DATA", A_index % Depth, B_index % Depth)
  /\ WriteBufferClk(SA_done, C_index, acc, acc')
  /\ StoreRow

-----------------------------------------------------------------------------
(* The state machine; in_valid is high in Start only.                      *)

Start(j) ==
  /\ tpu_state = "IDLE"
  /\ tpu_state' = "PASS_DATA"
  /\ job' = j
  /\ Clk

Idle ==
  /\ tpu_state = "IDLE"
  /\ tpu_state' = "IDLE"
  /\ job' = job
  /\ Clk

PassData ==
  /\ tpu_state = "PASS_DATA"
  /\ tpu_state' = IF lastWord THEN "WAIT_6" ELSE "PASS_DATA"
  /\ job' = job
  /\ Clk

Wait6_Short ==
  /\ tpu_state = "WAIT_6"
  /\ tpu_state' = IF counter # 5 THEN "WAIT_6"
                  ELSE IF all_done THEN "WAIT_FOR_WRITE" ELSE "PASS_DATA"
  /\ job' = job
  /\ Clk

Wait6 ==
  /\ tpu_state = "WAIT_6"
  /\ tpu_state' = IF counter # 6 THEN "WAIT_6"
                  ELSE IF all_done THEN "WAIT_FOR_WRITE" ELSE "PASS_DATA"
  /\ job' = job
  /\ Clk

WaitForWrite ==
  /\ tpu_state = "WAIT_FOR_WRITE"
  /\ tpu_state' = IF WriteBusy(SA_done) THEN "WAIT_FOR_WRITE" ELSE "IDLE"
  /\ job' = job
  /\ Clk

Next ==
  \/ \E j \in Jobs : Start(j)
  \/ Idle
  \/ PassData
  \/ Wait6
  \/ WaitForWrite

(* The clock keeps running.                                                *)
Spec == Init /\ [][Next]_vars /\ WF_vars(Next)

-----------------------------------------------------------------------------
ControlTypeOK ==
  /\ tpu_state \in {"IDLE", "PASS_DATA", "WAIT_6", "WAIT_FOR_WRITE"}
  /\ counter \in 0 .. 511
  /\ n \in 0 .. 255 /\ m \in 0 .. 255
  /\ job \in Jobs \cup {NoJob}
  /\ A_index \in 0 .. IndexSpan-1
  /\ B_index \in 0 .. IndexSpan-1
  /\ C_index \in 0 .. IndexSpan-1

(* Every register of the TPU stays within its width, and a word of C is a  *)
(* row of four sums of products.                                           *)
TypeOK ==
  /\ ControlTypeOK
  /\ ArrayTypeOK
  /\ WriteBufferTypeOK([Lane \X Lane -> Seq(Product)])
  /\ buffer_C \in [0 .. Depth-1 -> [Lane -> Seq(Product)]]

(* Cycles since the array began to receive the tile now in it.             *)
elapsed == IF tpu_state = "WAIT_6" THEN job.K + counter ELSE counter

(* The write buffer runs in step with the controller: it is loaded in the  *)
(* first cycle after a tile and stores its last row in the fifth, sooner   *)
(* than the next tile of even a single word can be finished.               *)
Lockstep ==
  /\ tpu_state # "IDLE" => job \in Jobs
  /\ tpu_state = "IDLE" => counter = 0 /\ wb_state = "IDLE"
  /\ job.K = 0 => tpu_state \in {"IDLE", "PASS_DATA"} /\ wb_state = "IDLE"
  /\ tpu_state = "PASS_DATA" /\ job.K # 0 => counter < job.K
  /\ tpu_state = "WAIT_6" => counter <= 6
  /\ tpu_state = "WAIT_FOR_WRITE" =>
       /\ counter <= 5
       /\ wb_state = "IDLE" <=> counter = 5
  /\ wb_state = "LOAD_DATA" => elapsed = 0
  /\ wb_state = "WRITE" => elapsed = wb_counter + 1
  /\ wb_state # "WRITE" => wb_counter = 0

(* A finished tile never reaches the write buffer while it still drains    *)
(* the tile before: the array never waits for it, so the rows not yet      *)
(* stored would be lost.                                                   *)
NoOverrun == SA_done => wb_state = "IDLE"

(* When the first word of a tile is about to enter the array, nothing of   *)
(* the tile before is left in it: no stale byte is added to the new sums.  *)
Drained ==
  tpu_state = "PASS_DATA" /\ ~read_ff =>
    \A s \in Stage : aPipe[s] = Zero /\ bPipe[s] = Zero /\ ~mPipe[s]

(* The last product of PE (3,3) is the only one the race of the capture    *)
(* can lose: the rest of the array was finished a cycle before.            *)
RaceConfined ==
  wb_state = "LOAD_DATA" =>
    \A p \in (Lane \X Lane) \ {<<Dim-1, Dim-1>>} : data_buffer[p] = acc[p]

(* When the TPU is not busy, buffer C holds the product of the last job,   *)
(* although the rows past M of a last row tile were stored over the next   *)
(* column tile.                                                            *)
ProductStored ==
  tpu_state = "IDLE" /\ Fits(job) => HoldsProduct(buffer_C, job)

(* The register-level TPU implements the abstract one, so every job ends.  *)
Abstract == INSTANCE MatMul WITH busy <- tpu_state # "IDLE", C <- buffer_C
ImplementsMatMul == Abstract!Spec
=============================================================================

--------------------------------- MODULE Cfu ---------------------------------
(***************************************************************************)
(* Module Cfu of cfu.v: the command FSM, the operand registers, the SIMD   *)
(* unit, the buffers and the multiplexers in front of them.  One step is   *)
(* one rising clock edge; the buffers work on the falling edge before it,  *)
(* with the wires of the cycle.                                            *)
(*                                                                         *)
(* The TPU appears as its abstract specification (MatMul) describes it: it *)
(* is busy for any number of cycles and C then holds the product.  Which   *)
(* word of A and B it addresses at a given moment is left open.            *)
(***************************************************************************)
EXTENDS CfuIsa

VARIABLES
  cfu_state,
  in0_ff, in1_ff,   \* cmd_payload_inputs_0_ff and _1_ff
  simd_offset,      \* simd_input_offset
  simd_acc,         \* rsp_payload_outputs_simd
  buffer_A, buffer_B, buffer_C,
  C_data_out,       \* output register of gbuff_C
  tpu_busy,
  tpu_job           \* what the TPU is computing: job, offset and operands

cfuVars == <<cfu_state, in0_ff, in1_ff, simd_offset, simd_acc, buffer_A,
             buffer_B, buffer_C, C_data_out, tpu_busy, tpu_job>>

NoJob == [in0 |-> 0, in1 |-> 0, A |-> << >>, B |-> << >>]

CfuInit ==
  /\ cfu_state = "IDLE"
  /\ in0_ff = 0 /\ in1_ff = 0
  /\ simd_offset = Unset
  /\ simd_acc = << >>
  /\ buffer_A = [w \in Word |-> Unset]
  /\ buffer_B = [w \in Word |-> Unset]
  /\ buffer_C = [w \in Word |-> UnsetRow]
  /\ C_data_out = UnsetRow
  /\ tpu_busy = FALSE
  /\ tpu_job = NoJob

-----------------------------------------------------------------------------
(* Wires.  cmd is [valid, f7, in0, in1].                                   *)

in0_comb(cmd) == IF cmd.valid THEN cmd.in0 ELSE in0_ff
in1_comb(cmd) == IF cmd.valid THEN cmd.in1 ELSE in1_ff

Asks(cmd, f7) == cmd.valid /\ cmd.f7 = f7
AsksImmediate(cmd) == cmd.valid /\ cmd.f7 \in Immediate

rsp_valid(cmd) ==
  \/ cfu_state \in {"DONE", "CAL_PREPARE"}
  \/ cfu_state = "IDLE" /\ AsksImmediate(cmd)

cmd_ready_NotImmediate(cmd) == cfu_state \in {"DONE", "CAL_PREPARE"}
cmd_ready(cmd) == rsp_valid(cmd)

simd_comb(cmd) ==
  IF Asks(cmd, Mac) THEN Append(simd_acc, <<cmd.in0, cmd.in1, simd_offset>>)
  ELSE IF Asks(cmd, SetZero) THEN << >>
  ELSE simd_acc

(* The word that gbuff_C puts out on the falling edge.  While the TPU      *)
(* computes it has the port and what comes out is not looked at.           *)
C_data(cmd) ==
  IF cfu_state = "CAL" THEN C_data_out ELSE buffer_C[Index(in1_comb(cmd))]

rsp_payload(cmd) ==
  IF Asks(cmd, SetZero) \/ Asks(cmd, Mac) THEN Sum(simd_comb(cmd))
  ELSE Column(C_data(cmd), in0_comb(cmd))

-----------------------------------------------------------------------------
(* Clocked behaviour.                                                      *)

NextState_NoWait(cmd) ==
  CASE cfu_state = "IDLE" ->
         IF ~cmd.valid \/ AsksImmediate(cmd) THEN "IDLE"
         ELSE IF cmd.f7 = Execute THEN "CAL_PREPARE" ELSE "DONE"
    [] cfu_state = "CAL_PREPARE" -> "CAL"
    [] cfu_state = "CAL"  -> "DONE"
    [] cfu_state = "DONE" -> "IDLE"

NextState(cmd) ==
  CASE cfu_state = "IDLE" ->
         IF ~cmd.valid \/ AsksImmediate(cmd) THEN "IDLE"
         ELSE IF cmd.f7 = Execute THEN "CAL_PREPARE" ELSE "DONE"
    [] cfu_state = "CAL_PREPARE" -> "CAL"
    [] cfu_state = "CAL"  -> IF tpu_busy THEN "CAL" ELSE "DONE"
    [] cfu_state = "DONE" -> "IDLE"

InputClk(cmd) ==
  /\ in0_ff' = in0_comb(cmd)
  /\ in1_ff' = in1_comb(cmd)

SimdClk(cmd) ==
  /\ simd_offset' = IF Asks(cmd, SetOffset) THEN cmd.in0 % 512 ELSE simd_offset
  /\ simd_acc' = simd_comb(cmd)

Store_WhenSeen(buffer, cmd, f7, tpuIndex) ==
  IF Asks(cmd, f7) /\ cfu_state = "IDLE"
    THEN [buffer EXCEPT ![Index(in1_comb(cmd))] = in0_ff]
    ELSE buffer

(* A buffer stores the operand register, not the operand on the bus, and   *)
(* does so in every cycle that the command is there.                       *)
Store(buffer, cmd, f7, tpuIndex) ==
  IF Asks(cmd, f7)
    THEN [buffer EXCEPT ![IF cfu_state = "CAL" THEN tpuIndex
                          ELSE Index(in1_comb(cmd))] = in0_ff]
    ELSE buffer

BufferClk(cmd, tpuIndex) ==
  /\ buffer_A' = Store(buffer_A, cmd, WriteA, tpuIndex)
  /\ buffer_B' = Store(buffer_B, cmd, WriteB, tpuIndex)
  /\ C_data_out' = C_data(cmd)

(* The TPU latches its job in CAL_PREPARE and stops when it chooses to; if *)
(* its operands were changed under it the outcome is no product.           *)
TpuStart ==
  /\ cfu_state = "CAL_PREPARE"
  /\ tpu_busy' = TRUE
  /\ tpu_job' = [in0 |-> in0_ff, in1 |-> in1_ff, A |-> buffer_A', B |-> buffer_B']
  /\ buffer_C' = buffer_C

TpuWork(finish) ==
  /\ cfu_state # "CAL_PREPARE"
  /\ tpu_busy' = (tpu_busy /\ ~finish)
  /\ tpu_job' = IF tpu_busy /\ <<buffer_A', buffer_B'>> # <<tpu_job.A, tpu_job.B>>
                  THEN [tpu_job EXCEPT !.A = << >>, !.B = << >>] ELSE tpu_job
  /\ buffer_C' = IF tpu_busy /\ finish
                   THEN Product(tpu_job'.A, tpu_job'.B, tpu_job.in0, tpu_job.in1)
                   ELSE buffer_C

CfuClk(cmd, tpuIndex, finish) ==
  /\ cfu_state' = NextState(cmd)
  /\ InputClk(cmd)
  /\ SimdClk(cmd)
  /\ BufferClk(cmd, tpuIndex)
  /\ TpuStart \/ TpuWork(finish)
=============================================================================

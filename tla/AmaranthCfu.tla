----------------------------- MODULE AmaranthCfu -----------------------------
(***************************************************************************)
(* The CFU base class of python/amaranth_cfu/cfu.py: the handshake that    *)
(* every CFU written in Amaranth gets.  Eight instructions are chosen from *)
(* by funct3; one step is one rising clock edge.                           *)
(*                                                                         *)
(* Of an instruction only the protocol of InstructionBase matters: it is   *)
(* combinational (done in every cycle, its output a function of the        *)
(* operands on the bus) or multi-cycle (it takes the operands when start   *)
(* is high and signals done for one cycle, later).  A result is named by   *)
(* the instruction and the operands it was computed from.                  *)
(***************************************************************************)
EXTENDS Integers, Sequences

CONSTANT MultiCycle   \* the instructions that are not combinational

ASSUME MultiCycleAssumption == MultiCycle \subseteq 0 .. 7

VARIABLES
  fsm,                  \* the FSM of elab
  stored_function_id,
  stored_output,
  started               \* the command of the multi-cycle instruction that runs

amaranthVars == <<fsm, stored_function_id, stored_output, started>>

Value(op) == [f3 |-> op.f3, in0 |-> op.in0, in1 |-> op.in1]
NoValue == [f3 |-> 0, in0 |-> 0, in1 |-> 0]

AmaranthInit ==
  /\ fsm = "WAIT_CMD"
  /\ stored_function_id = 0
  /\ stored_output = NoValue
  /\ started = NoValue

-----------------------------------------------------------------------------
(* Wires.  finish: a multi-cycle instruction signals done in this cycle.   *)

cmd_ready_UnlessBusy == fsm # "WAIT_INSTRUCTION"
cmd_ready == fsm = "WAIT_CMD"

start(cmd) == cmd_ready /\ cmd.valid

current_function_id(cmd) == IF cmd_ready THEN cmd.f3 ELSE stored_function_id

current_function_done(cmd, finish) ==
  \/ current_function_id(cmd) \notin MultiCycle
  \/ fsm = "WAIT_INSTRUCTION" /\ finish

instruction_output(cmd) ==
  IF current_function_id(cmd) \in MultiCycle THEN started
  ELSE [Value(cmd) EXCEPT !.f3 = current_function_id(cmd)]

Responds(cmd, finish) ==
  /\ start(cmd) \/ fsm = "WAIT_INSTRUCTION"
  /\ current_function_done(cmd, finish)

rsp_valid(cmd, finish) == Responds(cmd, finish) \/ fsm = "WAIT_TRANSFER"

rsp_out_Live(cmd) == instruction_output(cmd)

rsp_out(cmd) ==
  IF fsm = "WAIT_TRANSFER" THEN stored_output ELSE instruction_output(cmd)

-----------------------------------------------------------------------------
(* Clocked behaviour.                                                      *)

(* check_instruction_done                                                  *)
NextFsm_NoTransfer(cmd, rspReady, finish) ==
  IF Responds(cmd, finish) \/ fsm = "WAIT_TRANSFER" THEN "WAIT_CMD"
  ELSE IF start(cmd) THEN "WAIT_INSTRUCTION"
  ELSE fsm

NextFsm(cmd, rspReady, finish) ==
  IF rsp_valid(cmd, finish) THEN IF rspReady THEN "WAIT_CMD" ELSE "WAIT_TRANSFER"
  ELSE IF start(cmd) THEN "WAIT_INSTRUCTION"
  ELSE fsm

AmaranthClk(cmd, rspReady, finish) ==
  /\ fsm' = NextFsm(cmd, rspReady, finish)
  /\ stored_function_id' = IF start(cmd) THEN cmd.f3 ELSE stored_function_id
  /\ stored_output' = IF Responds(cmd, finish) /\ ~rspReady
                        THEN instruction_output(cmd) ELSE stored_output
  /\ started' = IF start(cmd) /\ cmd.f3 \in MultiCycle THEN Value(cmd) ELSE started
=============================================================================

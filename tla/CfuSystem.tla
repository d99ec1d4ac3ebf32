------------------------------ MODULE CfuSystem ------------------------------
(***************************************************************************)
(* The processor and the CFU on the CFU bus: both are clocked together and *)
(* see each other's wires in the same cycle.                               *)
(***************************************************************************)
EXTENDS Cfu, CfuPlugin

vars == <<cfuVars, pluginVars>>

(* What a non-custom instruction would put on the bus.                     *)
Stray == [f3 |-> 0, f7 |-> Stall, in0 |-> 0, in1 |-> 0]
cmd == Command(Stray)
rsp == [valid |-> rsp_valid(cmd), payload |-> rsp_payload(cmd)]

Init == CfuInit /\ PluginInit(Sum(<< >>))

Clk(access, redo, dividing, finish, tpuIndex) ==
  /\ CfuClk(cmd, tpuIndex, finish)
  /\ PluginClk(access, redo, dividing, cmd_ready(cmd), rsp)

Next ==
  \E access, redo, dividing, finish \in BOOLEAN, w \in Word :
    Clk(access, redo, dividing, finish, w)

(* No bus access, division or job lasts for ever.                          *)
Unhindered == \E w \in Word : Clk(FALSE, FALSE, FALSE, TRUE, w)

Spec == Init /\ [][Next]_vars /\ WF_vars(Unhindered)

-----------------------------------------------------------------------------
(* The state a program has built up when its first k instructions have     *)
(* been executed one after the other.                                      *)
StateAfter[k \in 0 .. Len(Program)] ==
  IF k = 0 THEN ResetState ELSE Effect(StateAfter[k-1], Program[k])

(* Every result is the one the instruction has when the program is         *)
(* executed one instruction at a time: no command is lost, run twice after *)
(* a flush, or run before the data it needs is there.                      *)
ResultsCorrect ==
  \A k \in 1 .. Len(retired) :
    HasResult(Program[k]) =>
      retired[k].value = Result(StateAfter[k-1], Program[k])

(* "Stall until TPU is idle": once the instruction has left the processor  *)
(* the buffers are the processor's until the next Execute.                 *)
StallWaits ==
  retired # << >> /\ Program[Len(retired)].f7 = Stall /\ tpu_busy =>
    \E k \in Len(retired)+1 .. pc-1 : Program[k].f7 = Execute
=============================================================================

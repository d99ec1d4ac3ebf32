---------------------------- MODULE AmaranthSystem ----------------------------
(***************************************************************************)
(* The processor and a CFU built on the Amaranth base class, on the same   *)
(* CFU bus as module CfuSystem puts cfu.v on.  Optionally the clocks of     *)
(* both are gated by CfuCpuClockCtrl of soc/clock_control.py, which looks  *)
(* at nothing but the handshake signals.                                   *)
(***************************************************************************)
EXTENDS AmaranthCfu, CfuPlugin

VARIABLE clock   \* the FSM of CfuCpuClockCtrl, or "free" without it

vars == <<amaranthVars, pluginVars, clock>>

(* What a non-custom instruction would put on the bus.                     *)
Stray == [f3 |-> 0, f7 |-> 0, in0 |-> 0, in1 |-> 0]
cmd == Command(Stray)
rsp(finish) == [valid |-> rsp_valid(cmd, finish), payload |-> rsp_out(cmd)]

-----------------------------------------------------------------------------
(* CfuCpuClockCtrl: the clock enables, and the next state of its FSM.       *)

cfu_cen == clock # "CPU_ENABLED" \/ cmd.valid

\* Mutant: the CFU's answer does not wake the processor.
cpu_cen_Asleep(rspValid) == clock # "CFU_ENABLED" \/ cmd.valid \/ cmd_ready

cpu_cen(rspValid) == clock # "CFU_ENABLED" \/ rspValid \/ cmd.valid \/ cmd_ready

NextClock(rspValid) ==
  CASE clock = "CPU_ENABLED" /\ cmd.valid -> "CFU_ENABLED"
    [] clock = "CFU_ENABLED" /\ ~rspValid /\ ~cmd.valid /\ cmd_ready -> "CPU_ENABLED"
    [] OTHER -> clock

-----------------------------------------------------------------------------
Init == AmaranthInit /\ PluginInit(NoValue) /\ clock \in {"free", "CPU_ENABLED"}

Clk(access, redo, dividing, finish) ==
  /\ IF cfu_cen THEN AmaranthClk(cmd, rsp_ready, finish) ELSE UNCHANGED amaranthVars
  /\ IF cpu_cen(rsp(finish).valid)
       THEN PluginClk(access, redo, dividing, cmd_ready, rsp(finish))
       ELSE UNCHANGED pluginVars
  /\ clock' = NextClock(rsp(finish).valid)

Next == \E access, redo, dividing, finish \in BOOLEAN :
          Clk(access, redo, dividing, finish)

(* No bus access, division or instruction lasts for ever.                  *)
Unhindered == Clk(FALSE, FALSE, FALSE, TRUE)

Spec == Init /\ [][Next]_vars /\ WF_vars(Unhindered)

-----------------------------------------------------------------------------
(* Every custom instruction gets the result computed from its own function *)
(* and operands, although a response the processor cannot take yet waits   *)
(* while other operands are on the bus.                                    *)
ResultsCorrect ==
  \A k \in 1 .. Len(retired) : retired[k].value = Value(Program[k])
=============================================================================

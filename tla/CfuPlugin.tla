------------------------------ MODULE CfuPlugin ------------------------------
(***************************************************************************)
(* The processor's side of the CFU bus: the CfuPlugin of VexRiscv and the  *)
(* execute, memory and writeback stages around it, as generated in         *)
(* soc/vexriscv/VexRiscv_PerfCfu.v.  One step is one rising clock edge.    *)
(*                                                                         *)
(* The program is the sequence of custom instructions.  Between them run   *)
(* other instructions, of which only the way they halt or flush the stages *)
(* matters: "plain" does neither (a bubble is one, too), "load" halts      *)
(* writeback for as long as its bus access lasts or misses the cache and   *)
(* is run again (as "replay", which hits), "div" halts memory until the    *)
(* divider is done.  Interrupts are left out; branches flush decode only.  *)
(***************************************************************************)
EXTENDS Integers, Sequences

CONSTANTS
  Programs,  \* a program is a record of
             \*   ops      a sequence of custom instructions [f3, f7, in0, in1],
             \*   fillers  the other kinds of instructions that may run between,
             \*   gap      slots between two custom instructions, at the least
  MaxGap     \* slots between two custom instructions, at the most

ASSUME ProgramsAssumption ==
  /\ MaxGap \in Nat
  /\ \A p \in Programs : p.fillers \subseteq {"plain", "load", "div"} /\ p.gap \in 0 .. MaxGap
                         /\ Len(p.ops) \in Nat

VARIABLES
  program,   \* the program that runs
  pc,        \* the next custom instruction to enter execute
  gap,       \* slots since the last one entered
  ex, mem, wb,        \* what is in the three stages: [kind, op]
  hold, fired,        \* execute_CfuPlugin_hold and _fired
  in_flight,          \* execute_to_memory_CfuPlugin_CFU_IN_FLIGHT
  rValid, rData,      \* the response register
  retired             \* what left the memory stage with a response, in order

pluginVars == <<program, pc, gap, ex, mem, wb, hold, fired, in_flight, rValid, rData, retired>>

Program == program.ops
Fillers == program.fillers
MinGap  == program.gap

Other(kind) == [kind |-> kind, op |-> 0]
Custom(k)   == [kind |-> "cfu", op |-> k]
Bubble      == Other("plain")

(* The response register is not reset: garbage is what it powers up with.  *)
PluginInit(garbage) ==
  /\ program \in Programs
  /\ pc = 1 /\ gap = MinGap
  /\ ex = Bubble /\ mem = Bubble /\ wb = Bubble
  /\ hold = FALSE /\ fired = FALSE
  /\ in_flight = FALSE
  /\ rValid = FALSE /\ rData = garbage
  /\ retired = << >>

-----------------------------------------------------------------------------
(* Wires.                                                                  *)

HasSideEffect(stage) == stage.kind \in {"load", "replay"}

hazard_MemoryOnly == HasSideEffect(mem)
hazard == HasSideEffect(mem) \/ HasSideEffect(wb)
scheduleWish == ex.kind = "cfu"
schedule == scheduleWish /\ ~hazard
cmd_valid == (schedule \/ hold) /\ ~fired
rsp_ready == ~rValid

(* The operands are those of the instruction in execute, whatever it is:   *)
(* stray is what an instruction that is not a custom one looks like.       *)
Command(stray) ==
  LET op == IF ex.kind = "cfu" THEN Program[ex.op] ELSE stray
  IN  [valid |-> cmd_valid, f3 |-> op.f3, f7 |-> op.f7,
       in0 |-> op.in0, in1 |-> op.in1]

(* access and dividing: the bus access of a load, or the division, is not  *)
(* over yet.                                                               *)
WbStuck(access) == HasSideEffect(wb) /\ access
MemStuck(access, dividing, rsp) ==
  \/ WbStuck(access)
  \/ mem.kind = "div" /\ dividing
  \/ in_flight /\ ~(rsp.valid \/ rValid)
ExStuck(access, dividing, ready, rsp) ==
  \/ MemStuck(access, dividing, rsp)
  \/ scheduleWish /\ hazard
  \/ cmd_valid /\ ~ready

-----------------------------------------------------------------------------
(* Clocked behaviour.  ready and rsp come from the CFU in the same cycle.  *)

HandshakeClk(stuck, ready) ==
  /\ hold' = IF ready THEN FALSE ELSE (schedule \/ hold)
  /\ fired' = (stuck /\ (fired \/ (cmd_valid /\ ready)))

ResponseClk(wbStuck, rsp) ==
  /\ rValid' = ((rsp.valid \/ rValid) /\ ~(in_flight /\ ~wbStuck))
  /\ rData' = IF rsp_ready THEN rsp.payload ELSE rData

InFlightClk_EvenStuck(memStuck, exStuck) ==
  in_flight' = IF memStuck THEN in_flight ELSE (schedule \/ hold \/ fired)

InFlightClk(memStuck, exStuck) ==
  in_flight' = IF memStuck THEN in_flight
               ELSE ~exStuck /\ (schedule \/ hold \/ fired)

Retire(memStuck, rsp) ==
  retired' = IF in_flight /\ ~memStuck
               THEN Append(retired, [op |-> mem.op,
                                     value |-> IF rValid THEN rData ELSE rsp.payload])
               ELSE retired

DecodeCustom ==
  /\ gap >= MinGap /\ pc <= Len(Program)
  /\ ex' = Custom(pc)
  /\ pc' = pc + 1
  /\ gap' = 0

DecodeOther ==
  /\ gap < MaxGap \/ pc > Len(Program)
  /\ \E kind \in Fillers : ex' = Other(kind)
  /\ pc' = pc
  /\ gap' = IF gap < MaxGap THEN gap + 1 ELSE gap

Advance(wbStuck, memStuck, exStuck) ==
  /\ wb' = IF wbStuck THEN wb ELSE IF memStuck THEN Bubble ELSE mem
  /\ mem' = IF memStuck THEN mem ELSE IF exStuck THEN Bubble ELSE ex
  /\ IF exStuck THEN UNCHANGED <<ex, pc, gap>> ELSE DecodeCustom \/ DecodeOther

(* The cache missed: the load in writeback and all behind it are flushed   *)
(* and fetched again.                                                      *)
Redo ==
  LET flushed == {s.op : s \in {s \in {ex, mem} : s.kind = "cfu"}}
  IN  /\ wb.kind = "load"
      /\ ex' = Other("replay") /\ mem' = Bubble /\ wb' = Bubble
      /\ pc' = IF flushed = {} THEN pc ELSE CHOOSE k \in flushed : \A l \in flushed : k <= l
      /\ gap' = IF flushed = {} THEN gap ELSE MaxGap

PluginClk(access, redo, dividing, ready, rsp) ==
  LET wbStuck  == WbStuck(access)
      memStuck == MemStuck(access, dividing, rsp)
      exStuck  == ExStuck(access, dividing, ready, rsp)
  IN  /\ HandshakeClk(exStuck, ready)
      /\ ResponseClk(wbStuck, rsp)
      /\ InFlightClk(memStuck, exStuck)
      /\ Retire(memStuck, rsp)
      /\ UNCHANGED program
      /\ IF redo THEN access /\ Redo ELSE Advance(wbStuck, memStuck, exStuck)

-----------------------------------------------------------------------------
(* Responses reach the instructions they answer: in program order, one     *)
(* each, and none to an instruction that is not a custom one.              *)
ResponsesInOrder ==
  \A k \in 1 .. Len(retired) : retired[k].op = k

(* An instruction that may still be flushed has sent no command, and an    *)
(* instruction that is not a custom one sends none.                        *)
CommandsAreFinal ==
  /\ cmd_valid => ex.kind = "cfu"
  /\ HasSideEffect(wb) => ~fired /\ ~hold /\ mem.kind # "cfu"

(* The program comes to its end: no instruction waits for ever.            *)
Completes == <>(Len(retired) = Len(Program))
=============================================================================

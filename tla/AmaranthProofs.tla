---------------------------- MODULE AmaranthProofs ----------------------------
(***************************************************************************)
(* For any programs and any choice of multi-cycle instructions, with and   *)
(* without gated clocks: a CFU on the Amaranth base class gives every      *)
(* custom instruction its own result, in order, and gets no command that   *)
(* may be flushed.  Programs in which a division runs before a multi-cycle *)
(* instruction are excluded (SafePrograms); for them it is not so.         *)
(*                                                                         *)
(* The argument: at most one response is on its way, and where it is tells *)
(* whose it is (BusInv).  If mem holds a custom instruction, it is mem's:  *)
(* in the response register or still in the CFU.  Otherwise it is ex's,    *)
(* which has fired and waits behind a division.                            *)
(***************************************************************************)
EXTENDS AmaranthSystem, SequenceTheorems, TLAPS

Combinational(p) == \A k \in 1 .. Len(p.ops) : p.ops[k].f3 \notin MultiCycle
SafePrograms == \A p \in Programs : "div" \in p.fillers => Combinational(p)

-----------------------------------------------------------------------------
InMem == mem.kind = "cfu"
InEx  == ex.kind = "cfu"
Done  == Len(retired)
Results(n) == [k \in 1 .. n |-> [op |-> k, value |-> Value(Program[k])]]

(* The stages hold the next instructions, in order; what is retired is     *)
(* right.                                                                  *)
OrderInv ==
  /\ Done \in Nat /\ retired = Results(Done)
  /\ InMem => mem.op = Done + 1
  /\ InEx => ex.op = Done + (IF InMem THEN 2 ELSE 1) /\ ex.op <= Len(Program)
  /\ pc = Done + 1 + (IF InMem THEN 1 ELSE 0) + (IF InEx THEN 1 ELSE 0)

Kinds == {"plain", "load", "div", "replay", "cfu"}

StagesInv ==
  /\ program \in Programs
  /\ {ex.kind, mem.kind, wb.kind} \subseteq Kinds
  /\ "div" \in {ex.kind, mem.kind} => "div" \in Fillers
  /\ hold => InEx /\ ~fired
  /\ hold \/ fired => ~hazard
  /\ HasSideEffect(wb) => ~InMem

(* Where the response is that is on its way.                               *)
None     == ~InMem /\ ~fired /\ ~rValid /\ fsm = "WAIT_CMD"
Received == InMem /\ ~fired /\ rValid /\ fsm = "WAIT_CMD"
           /\ rData = Value(Program[mem.op])
Running  == InMem /\ ~fired /\ ~rValid /\ fsm = "WAIT_INSTRUCTION"
           /\ stored_function_id \in MultiCycle /\ started = Value(Program[mem.op])
Waiting  == InMem /\ ~fired /\ ~rValid /\ fsm = "WAIT_TRANSFER"
           /\ stored_output = Value(Program[mem.op])
Early    == mem.kind = "div" /\ InEx /\ fired /\ rValid /\ fsm = "WAIT_CMD"
           /\ rData = Value(Program[ex.op])

BusInv == /\ in_flight = InMem
          /\ None \/ Received \/ Running \/ Waiting \/ Early

ClockInv == /\ clock \in {"free", "CPU_ENABLED", "CFU_ENABLED"}
            /\ clock = "CPU_ENABLED" => fsm = "WAIT_CMD"

IInv == OrderInv /\ StagesInv /\ BusInv /\ ClockInv

-----------------------------------------------------------------------------
(* Wires.                                                                  *)

(* What is on the bus.                                                     *)
LEMMA CommandIs ==
  /\ cmd.valid = cmd_valid
  /\ InEx => cmd.f3 = Program[ex.op].f3 /\ Value(cmd) = Value(Program[ex.op])
<1>1. PICK op : op = IF ex.kind = "cfu" THEN Program[ex.op] ELSE Stray
  OBVIOUS
<1>2. cmd = [valid |-> cmd_valid, f3 |-> op.f3, f7 |-> op.f7, in0 |-> op.in0, in1 |-> op.in1]
  BY <1>1, Zenon DEF cmd, Command
<1>3. cmd.valid = cmd_valid /\ cmd.f3 = op.f3 /\ cmd.in0 = op.in0 /\ cmd.in1 = op.in1
  BY <1>2
<1>4. Value(cmd) = Value(op)
  BY <1>3, Zenon DEF Value
<1> QED
  BY <1>1, <1>3, <1>4, Zenon DEF InEx

(* What a combinational instruction in execute answers with.               *)
LEMMA OutputIs ==
  ASSUME fsm = "WAIT_CMD", InEx, cmd.f3 \notin MultiCycle
  PROVE  instruction_output(cmd) = Value(Program[ex.op])
<1>1. current_function_id(cmd) = cmd.f3
  BY DEF current_function_id, cmd_ready
<1>2. PICK v : v = Value(cmd)
  OBVIOUS
<1>3. v = [f3 |-> cmd.f3, in0 |-> cmd.in0, in1 |-> cmd.in1]
  BY <1>2, Zenon DEF Value
<1>4. [v EXCEPT !.f3 = cmd.f3] = v
  BY <1>3
<1> QED
  BY <1>1, <1>2, <1>4, CommandIs, Zenon DEF instruction_output

(* Either both are clocked, or neither changes.                            *)
LEMMA Gated ==
  ASSUME IInv, NEW access, NEW redo, NEW dividing, NEW finish, Clk(access, redo, dividing, finish)
  PROVE  \/ UNCHANGED <<amaranthVars, pluginVars>>
         \/ /\ AmaranthClk(cmd, rsp_ready, finish)
            /\ PluginClk(access, redo, dividing, cmd_ready, rsp(finish))
<1>1. CASE ~cfu_cen
  <2>1. clock = "CPU_ENABLED" /\ ~cmd.valid /\ fsm = "WAIT_CMD"
    BY <1>1, Zenon DEF cfu_cen, IInv, ClockInv
  <2>2. cpu_cen(rsp(finish).valid)
    BY <2>1 DEF cpu_cen
  <2>3. ~start(cmd) /\ ~Responds(cmd, finish) /\ ~rsp_valid(cmd, finish)
    BY <2>1 DEF start, Responds, rsp_valid
  <2>4. UNCHANGED amaranthVars
    BY <1>1, Zenon DEF Clk
  <2>5. AmaranthClk(cmd, rsp_ready, finish)
    BY <2>3, <2>4 DEF AmaranthClk, NextFsm, amaranthVars
  <2> QED
    BY <2>2, <2>5, Zenon DEF Clk
<1>2. CASE cfu_cen /\ ~cpu_cen(rsp(finish).valid)
  <2>1. rsp(finish).valid = rsp_valid(cmd, finish)
    BY DEF rsp
  <2>2. ~rsp_valid(cmd, finish) /\ ~cmd.valid
    BY <1>2, <2>1, Zenon DEF cpu_cen
  <2>3. ~start(cmd) /\ ~Responds(cmd, finish)
    BY <2>2, Zenon DEF start, rsp_valid
  <2>4. UNCHANGED amaranthVars
    BY <1>2, <2>2, <2>3 DEF Clk, AmaranthClk, NextFsm, amaranthVars
  <2> QED
    BY <1>2, <2>4, Zenon DEF Clk
<1> QED
  BY <1>1, <1>2 DEF Clk

(* The clocks keep their part of the invariant.                            *)
LEMMA ClockKept ==
  ASSUME IInv, NEW access, NEW redo, NEW dividing, NEW finish, Clk(access, redo, dividing, finish)
  PROVE  ClockInv'
<1>1. clock' \in {"free", "CPU_ENABLED", "CFU_ENABLED"}
  BY DEF IInv, ClockInv, Clk, NextClock
<1>2. ASSUME clock' = "CPU_ENABLED"
      PROVE  fsm' = "WAIT_CMD"
  <2>1. rsp(finish).valid = rsp_valid(cmd, finish)
    BY DEF rsp
  <2>2. ~cmd.valid /\ fsm = "WAIT_CMD"
    BY <1>2, <2>1 DEF IInv, ClockInv, Clk, NextClock, cmd_ready
  <2>3. ~start(cmd) /\ ~rsp_valid(cmd, finish)
    BY <2>2 DEF start, rsp_valid, Responds
  <2> QED
    BY <2>2, <2>3 DEF Clk, AmaranthClk, NextFsm, amaranthVars
<1> QED
  BY <1>1, <1>2 DEF ClockInv

-----------------------------------------------------------------------------
(* The stages.                                                             *)

Flushed  == /\ wb.kind = "load" /\ mem' = Bubble /\ wb' = Bubble /\ ex' = Other("replay")
Stuck    == mem' = mem /\ ex' = ex /\ pc' = pc
Bubbling == mem' = Bubble /\ ex' = ex /\ pc' = pc /\ wb' = mem
Moving   == /\ mem' = ex /\ wb' = mem
            /\ \/ pc <= Len(Program) /\ ex' = Custom(pc) /\ pc' = pc + 1
               \/ \E kind \in Fillers : ex' = Other(kind) /\ pc' = pc

(* What a clock edge does to the stages.                                   *)
LEMMA StagesMove ==
  ASSUME NEW access, NEW redo, NEW dividing, NEW ready, NEW r,
         PluginClk(access, redo, dividing, ready, r)
  PROVE  \/ redo /\ access /\ Flushed
         \/ /\ ~redo /\ MemStuck(access, dividing, r) /\ ExStuck(access, dividing, ready, r)
            /\ Stuck /\ ((wb' = wb /\ WbStuck(access)) \/ wb' = Bubble)
         \/ /\ ~redo /\ ~MemStuck(access, dividing, r) /\ ExStuck(access, dividing, ready, r)
            /\ Bubbling
         \/ /\ ~redo /\ ~MemStuck(access, dividing, r) /\ ~ExStuck(access, dividing, ready, r)
            /\ Moving
  BY Zenon DEF PluginClk, Redo, Advance, MemStuck, ExStuck, WbStuck, Flushed, Stuck, Bubbling, Moving,
     DecodeCustom, DecodeOther

(* A command is that of the custom instruction in execute, no load is      *)
(* ahead of it, and it is not flushed.                                     *)
LEMMA CommandIsSafe ==
  ASSUME StagesInv
  PROVE  /\ schedule \/ hold \/ fired => ~hazard
         /\ schedule \/ hold => InEx
         /\ ~hazard => /\ wb.kind # "load" /\ mem.kind # "load" /\ ~HasSideEffect(wb)
                       /\ ~HasSideEffect(mem)
         /\ ~hazard /\ InEx => schedule
  BY DEF StagesInv, schedule, scheduleWish, hazard, HasSideEffect, InEx

(* Whatever holds execute in place keeps the instruction there, unless it  *)
(* is flushed.                                                             *)
LEMMA HeldOrFired ==
  ASSUME IInv, NEW stuck, NEW ready, ready = cmd_ready, HandshakeClk(stuck, ready),
         cmd_valid /\ ~ready => stuck
  PROVE  /\ hold' => (schedule \/ hold) /\ stuck /\ ~fired'
         /\ fired' => stuck /\ (schedule \/ hold \/ fired)
         /\ ~stuck => ~fired'
<1>1. ~ready => ~fired
  BY DEF IInv, BusInv, None, Received, Running, Waiting, Early, cmd_ready
<1> QED
  BY <1>1 DEF HandshakeClk, cmd_valid

(* A step of both components, as the lemmas below see it.                  *)
Step(access, redo, dividing, finish) ==
  /\ AmaranthClk(cmd, rsp_ready, finish)
  /\ PluginClk(access, redo, dividing, cmd_ready, rsp(finish))

(* What moves keeps its kind and stays away from loads.                    *)
LEMMA StagesKept ==
  ASSUME IInv, NEW access, NEW redo, NEW dividing, NEW finish,
         Step(access, redo, dividing, finish)
  PROVE  StagesInv'
<1> DEFINE m == MemStuck(access, dividing, rsp(finish))
           e == ExStuck(access, dividing, cmd_ready, rsp(finish))
<1>1. StagesInv /\ HandshakeClk(e, cmd_ready) /\ program' = program
  BY Zenon DEF IInv, Step, PluginClk
<1>2. /\ cmd_valid /\ ~cmd_ready => e
      /\ InEx /\ hazard => e
  BY DEF ExStuck, InEx, scheduleWish
<1>3. \/ redo /\ access /\ Flushed
      \/ e /\ Stuck /\ (wb' = wb \/ wb' = Bubble)
      \/ e /\ Bubbling
      \/ ~e /\ Moving
  BY StagesMove, Zenon DEF Step
<1> HIDE DEF m, e
<1>4. /\ hold' => (schedule \/ hold) /\ e /\ ~fired'
      /\ fired' => e /\ (schedule \/ hold \/ fired)
  BY <1>1, <1>2, HeldOrFired
<1>5. hold' => InEx' /\ ~fired'
  BY <1>1, <1>3, <1>4, CommandIsSafe, Zenon DEF InEx, Flushed, Stuck, Bubbling
<1>6. ASSUME hold' \/ fired' PROVE ~hazard'
  <2>1. ~hazard /\ wb.kind # "load" /\ ~HasSideEffect(mem) /\ ~HasSideEffect(wb) /\ e
    BY <1>1, <1>4, <1>6, CommandIsSafe, Zenon
  <2>2. ~HasSideEffect(Bubble)
    BY DEF HasSideEffect, Bubble, Other
  <2>3. mem' \in {mem, Bubble} /\ wb' \in {wb, mem, Bubble}
    BY <1>3, <2>1, Zenon DEF Flushed, Stuck, Bubbling
  <2> QED
    BY <2>1, <2>2, <2>3 DEF hazard
<1>7. HasSideEffect(wb') => ~InMem'
  <2>1. ~HasSideEffect(Bubble) /\ Bubble.kind # "cfu"
    BY DEF HasSideEffect, Bubble, Other
  <2>2. HasSideEffect(mem) => hazard
    BY DEF hazard
  <2>3. HasSideEffect(wb) => ~InMem
    BY <1>1 DEF StagesInv
  <2> QED
    BY <1>2, <1>3, <2>1, <2>2, <2>3, Zenon DEF Flushed, Stuck, Bubbling, Moving, InMem, InEx
<1>8. Fillers' = Fillers /\ Fillers \subseteq Kinds
  BY <1>1, ProgramsAssumption DEF Fillers, StagesInv, Kinds
<1>9. /\ {ex'.kind, mem'.kind, wb'.kind} \subseteq Kinds
      /\ "div" \in {ex'.kind, mem'.kind} => "div" \in Fillers
  <2>1. Bubble.kind = "plain" /\ \A kind : Other(kind).kind = kind /\ Custom(kind).kind = "cfu"
    BY DEF Bubble, Other, Custom
  <2>2. /\ {ex.kind, mem.kind, wb.kind} \subseteq Kinds
        /\ "div" \in {ex.kind, mem.kind} => "div" \in Fillers
    BY <1>1 DEF StagesInv
  <2>3. "plain" \in Kinds /\ "replay" \in Kinds /\ "cfu" \in Kinds
    BY DEF Kinds
  <2>4. CASE redo /\ access /\ Flushed
    BY <2>1, <2>3, <2>4 DEF Flushed
  <2>5. CASE e /\ Stuck /\ (wb' = wb \/ wb' = Bubble)
    BY <2>1, <2>2, <2>3, <2>5 DEF Stuck
  <2>6. CASE e /\ Bubbling
    BY <2>1, <2>2, <2>3, <2>6 DEF Bubbling
  <2>7. CASE ~e /\ Moving
    <3>1. ex'.kind \in Fillers \/ ex'.kind = "cfu"
      BY <2>1, <2>7 DEF Moving
    <3>2. mem' = ex /\ wb' = mem
      BY <2>7 DEF Moving
    <3> QED
      BY <2>2, <2>3, <3>1, <3>2, <1>8
  <2> QED
    BY <1>3, <2>4, <2>5, <2>6, <2>7, Zenon
<1> QED
  BY <1>1, <1>5, <1>6, <1>7, <1>8, <1>9 DEF StagesInv

-----------------------------------------------------------------------------
(* The bus: what becomes of the response that is on its way.               *)

(* The registers of the CFU after a step.                                  *)
LEMMA CfuRegisters ==
  ASSUME NEW finish, NEW rr, AmaranthClk(cmd, rr, finish)
  PROVE  /\ ~cmd_valid /\ fsm = "WAIT_CMD" => fsm' = "WAIT_CMD" /\ ~rsp(finish).valid
         /\ cmd_valid /\ fsm = "WAIT_CMD" /\ cmd.f3 \notin MultiCycle =>
              /\ rsp(finish).valid
              /\ rsp(finish).payload = instruction_output(cmd)
              /\ fsm' = IF rr THEN "WAIT_CMD" ELSE "WAIT_TRANSFER"
              /\ ~rr => stored_output' = instruction_output(cmd)
         /\ cmd_valid /\ fsm = "WAIT_CMD" /\ cmd.f3 \in MultiCycle =>
              /\ ~rsp(finish).valid /\ fsm' = "WAIT_INSTRUCTION"
              /\ stored_function_id' = cmd.f3 /\ started' = Value(cmd)
         /\ fsm = "WAIT_INSTRUCTION" /\ stored_function_id \in MultiCycle =>
              /\ rsp(finish).valid = (finish = TRUE)
              /\ rsp(finish).payload = started
              /\ finish /\ rr => fsm' = "WAIT_CMD"
              /\ ~finish => /\ fsm' = fsm /\ stored_function_id' = stored_function_id
                            /\ started' = started
         /\ fsm = "WAIT_TRANSFER" =>
              /\ rsp(finish).valid
              /\ rsp(finish).payload = stored_output
              /\ rr => fsm' = "WAIT_CMD"
<1>1. cmd.valid = cmd_valid
  BY CommandIs
<1>2. rsp(finish).valid = rsp_valid(cmd, finish) /\ rsp(finish).payload = rsp_out(cmd)
  BY DEF rsp
<1> USE DEF AmaranthClk, NextFsm, rsp_valid, Responds, start, cmd_ready, current_function_done,
        current_function_id
<1>3. fsm = "WAIT_CMD" => rsp_out(cmd) = instruction_output(cmd)
  BY DEF rsp_out
<1>4. fsm = "WAIT_INSTRUCTION" /\ stored_function_id \in MultiCycle => rsp_out(cmd) = started
  BY DEF rsp_out, instruction_output
<1>5. fsm = "WAIT_TRANSFER" => rsp_out(cmd) = stored_output
  BY DEF rsp_out
<1>6. ~cmd_valid /\ fsm = "WAIT_CMD" => fsm' = "WAIT_CMD" /\ ~rsp_valid(cmd, finish)
  BY <1>1
<1>7. cmd_valid /\ fsm = "WAIT_CMD" /\ cmd.f3 \notin MultiCycle =>
        /\ rsp_valid(cmd, finish)
        /\ fsm' = IF rr THEN "WAIT_CMD" ELSE "WAIT_TRANSFER"
        /\ ~rr => stored_output' = instruction_output(cmd)
  BY <1>1
<1>8. cmd_valid /\ fsm = "WAIT_CMD" /\ cmd.f3 \in MultiCycle =>
        /\ ~rsp_valid(cmd, finish) /\ fsm' = "WAIT_INSTRUCTION"
        /\ stored_function_id' = cmd.f3 /\ started' = Value(cmd)
  BY <1>1
<1>9. fsm = "WAIT_INSTRUCTION" /\ stored_function_id \in MultiCycle =>
        /\ rsp_valid(cmd, finish) = (finish = TRUE)
        /\ finish /\ rr => fsm' = "WAIT_CMD"
        /\ ~finish => /\ fsm' = fsm /\ stored_function_id' = stored_function_id
                      /\ started' = started
  BY <1>1
<1>10. fsm = "WAIT_TRANSFER" => rsp_valid(cmd, finish) /\ (rr => fsm' = "WAIT_CMD")
  OBVIOUS
<1> HIDE DEF AmaranthClk, NextFsm, rsp_valid, Responds, start, cmd_ready, current_function_done,
        current_function_id
<1> QED
  BY <1>2, <1>3, <1>4, <1>5, <1>6, <1>7, <1>8, <1>9, <1>10, Zenon

(* The registers of the processor after a step, and what moves.            *)
Registers(m, e, w, r) ==
  /\ fired' = (e /\ (fired \/ (cmd_valid /\ cmd_ready)))
  /\ rValid' = ((r.valid \/ rValid) /\ ~(in_flight /\ ~w))
  /\ rData' = IF ~rValid THEN r.payload ELSE rData
  /\ in_flight' = IF m THEN in_flight ELSE ~e /\ (schedule \/ hold \/ fired)

Moves(m, e) ==
  \/ m /\ e /\ Stuck
  \/ ~m /\ e /\ Bubbling
  \/ ~m /\ ~e /\ Moving

(* Behind a load in writeback the CFU is idle: flushing loses nothing.     *)
LEMMA LoadsAreAlone ==
  ASSUME IInv, HasSideEffect(wb)
  PROVE  None /\ ~cmd_valid
<1>1. hazard /\ ~InMem /\ ~fired
  BY DEF IInv, StagesInv, hazard
<1>2. ~schedule /\ ~hold
  BY <1>1 DEF IInv, StagesInv, schedule
<1> QED
  BY <1>1, <1>2 DEF IInv, BusInv, Received, Running, Waiting, Early, cmd_valid

(* A step as its registers and moves; flushing happens behind loads only.  *)
LEMMA StepIs ==
  ASSUME IInv, NEW access, NEW redo, NEW dividing, NEW finish,
         Step(access, redo, dividing, finish),
         NEW m, m = MemStuck(access, dividing, rsp(finish)),
         NEW e, e = ExStuck(access, dividing, cmd_ready, rsp(finish))
  PROVE  /\ Registers(m, e, WbStuck(access), rsp(finish)) /\ program' = program
         /\ m => e
         /\ Moves(m, e) \/ (HasSideEffect(wb) /\ redo /\ m /\ Flushed)
         /\ redo => HasSideEffect(wb)
         /\ ~redo => Moves(m, e)
<1>1. Registers(m, e, WbStuck(access), rsp(finish)) /\ program' = program
  BY Zenon DEF Step, PluginClk, HandshakeClk, ResponseClk, InFlightClk, Registers, rsp_ready
<1>2. m => e
  BY DEF ExStuck
<1>3. redo => wb.kind = "load" /\ access /\ Flushed
  BY StagesMove, Zenon DEF Step, Flushed
<1>4. wb.kind = "load" /\ access => HasSideEffect(wb) /\ m
  BY DEF HasSideEffect, MemStuck, WbStuck
<1>5. ~redo => Moves(m, e)
  <2>1. \/ redo
        \/ /\ MemStuck(access, dividing, rsp(finish))
           /\ ExStuck(access, dividing, cmd_ready, rsp(finish)) /\ Stuck
        \/ /\ ~MemStuck(access, dividing, rsp(finish))
           /\ ExStuck(access, dividing, cmd_ready, rsp(finish)) /\ Bubbling
        \/ /\ ~MemStuck(access, dividing, rsp(finish))
           /\ ~ExStuck(access, dividing, cmd_ready, rsp(finish)) /\ Moving
    <3>1. PluginClk(access, redo, dividing, cmd_ready, rsp(finish))
      BY Zenon DEF Step
    <3> QED
      BY <3>1, StagesMove
  <2>2. \/ redo \/ (m /\ e /\ Stuck) \/ (~m /\ e /\ Bubbling) \/ (~m /\ ~e /\ Moving)
    BY <2>1
  <2> QED
    BY <2>2, Zenon DEF Moves
<1> QED
  BY <1>1, <1>2, <1>3, <1>4, <1>5, Zenon

(* An instruction that has fired or fires is one of the program.           *)
LEMMA InExIsOfTheProgram ==
  ASSUME IInv, InEx
  PROVE  ex.op \in 1 .. Len(Program)
<1>1. Len(Program) \in Nat
  BY ProgramsAssumption DEF IInv, StagesInv, Program
<1> QED
  BY <1>1 DEF IInv, OrderInv

(* Before a multi-cycle instruction nothing divides.                       *)
LEMMA NoDivisionBefore ==
  ASSUME IInv, SafePrograms, InEx, cmd.f3 \in MultiCycle
  PROVE  mem.kind # "div"
<1>1. Program[ex.op].f3 \in MultiCycle
  BY CommandIs
<1>2. ~Combinational(program)
  BY <1>1, InExIsOfTheProgram DEF Combinational, Program
<1> QED
  BY <1>2 DEF SafePrograms, IInv, StagesInv, Fillers

(* Nothing is on its way: a command may be sent and answered at once,      *)
(* before or after the instruction enters memory, or start an instruction. *)
LEMMA FromNone ==
  ASSUME IInv, SafePrograms, None,
         NEW access, NEW redo, NEW dividing, NEW finish,
         Step(access, redo, dividing, finish)
  PROVE  BusInv'
<1>1. PICK m : m = MemStuck(access, dividing, rsp(finish))
  OBVIOUS
<1>2. PICK e : e = ExStuck(access, dividing, cmd_ready, rsp(finish))
  OBVIOUS
<1>3. PICK r : r = rsp(finish)
  OBVIOUS
<1>4. Registers(m, e, WbStuck(access), r) /\ program' = program
  BY <1>1, <1>2, <1>3, StepIs
<1>5. /\ ~InMem /\ ~fired /\ ~rValid /\ fsm = "WAIT_CMD" /\ in_flight = FALSE /\ cmd_ready
      /\ cmd_valid = (schedule \/ hold)
  BY DEF None, IInv, BusInv, cmd_ready, cmd_valid
<1>6. StagesInv /\ AmaranthClk(cmd, TRUE, finish)
  BY <1>5 DEF IInv, Step, rsp_ready
<1>7. CASE ~cmd_valid
  <2>1. fsm' = "WAIT_CMD" /\ ~r.valid
    BY <1>3, <1>6, <1>5, <1>7, CfuRegisters
  <2>2. ~rValid' /\ ~fired' /\ in_flight' = FALSE
    BY <1>4, <1>5, <1>7, <2>1 DEF Registers
  <2>3. InEx => e
    BY <1>2, <1>5, <1>6, <1>7, CommandIsSafe DEF ExStuck, scheduleWish, InEx
  <2>0. Moves(m, e) \/ Flushed
    BY <1>1, <1>2, StepIs
  <2>4. (e /\ Stuck) \/ Bubbling \/ (~e /\ Moving) \/ Flushed
    BY <2>0, Zenon DEF Moves
  <2>5. Bubble.kind # "cfu"
    BY DEF Bubble, Other
  <2>6. ~InMem'
    BY <1>5, <2>3, <2>4, <2>5, Zenon DEF Stuck, Bubbling, Moving, Flushed, InMem, InEx
  <2> QED
    BY <2>1, <2>2, <2>6 DEF BusInv, None, InMem
<1>8. CASE cmd_valid
  <2>1. InEx /\ ~HasSideEffect(wb) /\ ~hazard
    BY <1>5, <1>6, <1>8, CommandIsSafe
  <2>2. m = (mem.kind = "div" /\ dividing) /\ e = m
    BY <1>1, <1>2, <1>5, <2>1 DEF MemStuck, ExStuck, WbStuck
  <2>3. Moves(m, e)
    BY <1>1, <1>2, <2>1, StepIs, Zenon
  <2>4. cmd.f3 = Program[ex.op].f3 /\ Value(cmd) = Value(Program[ex.op])
    BY <2>1, CommandIs
  <2>5. ~m => mem' = ex /\ InMem' /\ ~fired' /\ in_flight'
    BY <1>4, <1>5, <1>8, <2>1, <2>2, <2>3 DEF Moves, Moving, Registers, InMem, InEx
  <2>6. CASE cmd.f3 \notin MultiCycle
    <3>1. r.valid /\ r.payload = Value(Program[ex.op]) /\ fsm' = "WAIT_CMD"
      BY <1>3, <1>5, <1>6, <1>8, <2>1, <2>6, CfuRegisters, OutputIs
    <3>2. rValid' /\ rData' = Value(Program[ex.op])
      BY <1>4, <1>5, <3>1 DEF Registers
    <3>3. CASE ~m
      BY <1>4, <2>5, <3>1, <3>2, <3>3 DEF BusInv, Received, Program
    <3>4. CASE m
      <4>1. mem.kind = "div" /\ Stuck
        BY <2>2, <2>3, <3>4 DEF Moves
      <4>2. fired' /\ in_flight' = FALSE /\ mem'.kind = "div" /\ InEx' /\ ex' = ex /\ ~InMem'
        BY <1>4, <1>5, <1>8, <2>1, <2>2, <3>4, <4>1 DEF Registers, Stuck, InEx, InMem
      <4> QED
        BY <1>4, <3>1, <3>2, <4>2 DEF BusInv, Early, InMem, InEx, Program
    <3> QED
      BY <2>2, <3>3, <3>4
  <2>7. CASE cmd.f3 \in MultiCycle
    <3>1. ~m
      BY <2>1, <2>2, <2>7, NoDivisionBefore
    <3>2. /\ ~r.valid /\ fsm' = "WAIT_INSTRUCTION"
          /\ stored_function_id' = cmd.f3 /\ started' = Value(Program[ex.op])
      BY <1>3, <1>5, <1>6, <1>8, <2>4, <2>7, CfuRegisters
    <3>3. ~rValid'
      BY <1>4, <1>5, <3>2 DEF Registers
    <3>4. stored_function_id' \in MultiCycle
      BY <2>7, <3>2
    <3> QED
      BY <1>4, <2>5, <3>1, <3>2, <3>3, <3>4 DEF BusInv, Running, Program
  <2> QED
    BY <2>6, <2>7
<1> QED
  BY <1>7, <1>8

(* The response is in the register when the instruction is in memory: it   *)
(* leaves, and the next command goes out in the same cycle.                *)
LEMMA FromReceived ==
  ASSUME IInv, Received,
         NEW access, NEW redo, NEW dividing, NEW finish,
         Step(access, redo, dividing, finish)
  PROVE  /\ BusInv'
         /\ ~MemStuck(access, dividing, rsp(finish))
<1>1. PICK m : m = MemStuck(access, dividing, rsp(finish))
  OBVIOUS
<1>2. PICK e : e = ExStuck(access, dividing, cmd_ready, rsp(finish))
  OBVIOUS
<1>3. PICK r : r = rsp(finish)
  OBVIOUS
<1>4. Registers(m, e, WbStuck(access), r) /\ program' = program
  BY <1>1, <1>2, <1>3, StepIs
<1>5. /\ InMem /\ ~fired /\ rValid /\ fsm = "WAIT_CMD" /\ in_flight /\ cmd_ready
      /\ cmd_valid = (schedule \/ hold)
  BY DEF Received, IInv, BusInv, cmd_ready, cmd_valid
<1>6. StagesInv /\ AmaranthClk(cmd, FALSE, finish)
  BY <1>5 DEF IInv, Step, rsp_ready
<1>7. ~HasSideEffect(wb) /\ ~hazard /\ mem.kind # "div"
  BY <1>5, <1>6 DEF StagesInv, hazard, HasSideEffect, InMem
<1>8. cmd_valid = InEx
  BY <1>5, <1>6, <1>7, CommandIsSafe DEF schedule, scheduleWish, InEx, StagesInv
<1>9. ~m
  BY <1>1, <1>5, <1>7 DEF MemStuck, WbStuck
<1>10. ~e
  BY <1>2, <1>1, <1>5, <1>7, <1>9 DEF ExStuck
<1>11. Moving
  <2>1. Moves(m, e)
    BY <1>1, <1>2, <1>7, StepIs
  <2> QED
    BY <1>9, <1>10, <2>1, Zenon DEF Moves
<1>12. mem' = ex /\ InMem' = InEx /\ ~fired' /\ ~rValid' /\ in_flight' = InEx
  BY <1>4, <1>5, <1>7, <1>8, <1>9, <1>10, <1>11 DEF Registers, Moving, InMem, InEx, WbStuck
<1>13. CASE ~InEx
  <2>0. ~cmd_valid
    BY <1>8, <1>13
  <2>1. fsm' = "WAIT_CMD"
    BY <1>5, <1>6, <2>0, CfuRegisters, Zenon
  <2> QED
    BY <1>1, <1>9, <1>12, <1>13, <2>1 DEF BusInv, None
<1>14. CASE InEx
  <2>1. cmd.f3 = Program[ex.op].f3 /\ Value(cmd) = Value(Program[ex.op])
    BY <1>14, CommandIs
  <2>2. CASE cmd.f3 \notin MultiCycle
    <3>1. stored_output' = Value(Program[ex.op]) /\ fsm' = "WAIT_TRANSFER"
      BY <1>5, <1>6, <1>8, <1>14, <2>2, CfuRegisters, OutputIs
    <3> QED
      BY <1>1, <1>4, <1>9, <1>12, <1>14, <3>1 DEF BusInv, Waiting, Program
  <2>3. CASE cmd.f3 \in MultiCycle
    <3>1. /\ fsm' = "WAIT_INSTRUCTION"
          /\ stored_function_id' = cmd.f3 /\ started' = Value(Program[ex.op])
      BY <1>5, <1>6, <1>8, <1>14, <2>1, <2>3, CfuRegisters
    <3>2. stored_function_id' \in MultiCycle
      BY <2>3, <3>1
    <3> QED
      BY <1>1, <1>4, <1>9, <1>12, <1>14, <3>1, <3>2 DEF BusInv, Running, Program
  <2> QED
    BY <2>2, <2>3
<1> QED
  BY <1>13, <1>14

(* An instruction waits in memory while its multi-cycle computation runs.  *)
LEMMA FromRunning ==
  ASSUME IInv, Running,
         NEW access, NEW redo, NEW dividing, NEW finish,
         Step(access, redo, dividing, finish)
  PROVE  /\ BusInv'
         /\ ~MemStuck(access, dividing, rsp(finish)) =>
              rsp(finish).payload = Value(Program[mem.op])
<1>1. PICK m : m = MemStuck(access, dividing, rsp(finish))
  OBVIOUS
<1>2. PICK e : e = ExStuck(access, dividing, cmd_ready, rsp(finish))
  OBVIOUS
<1>3. PICK r : r = rsp(finish)
  OBVIOUS
<1>4. Registers(m, e, WbStuck(access), r) /\ program' = program
  BY <1>1, <1>2, <1>3, StepIs
<1>5. /\ InMem /\ ~fired /\ ~rValid /\ fsm = "WAIT_INSTRUCTION" /\ in_flight = TRUE /\ ~cmd_ready
      /\ cmd_valid = (schedule \/ hold) /\ stored_function_id \in MultiCycle
      /\ started = Value(Program[mem.op])
  BY DEF Running, IInv, BusInv, cmd_ready, cmd_valid, InMem
<1>6. StagesInv /\ AmaranthClk(cmd, TRUE, finish)
  BY <1>5 DEF IInv, Step, rsp_ready
<1>7. ~HasSideEffect(wb) /\ ~hazard /\ mem.kind # "div"
  BY <1>5, <1>6 DEF StagesInv, hazard, HasSideEffect, InMem
<1>8. cmd_valid = InEx
  BY <1>5, <1>6, <1>7, CommandIsSafe DEF schedule, scheduleWish, InEx, StagesInv
<1>9. m = (finish # TRUE) /\ r.valid = (finish = TRUE) /\ r.payload = Value(Program[mem.op])
  <2>1. r.valid = (finish = TRUE) /\ r.payload = Value(Program[mem.op])
    BY <1>3, <1>5, <1>6, CfuRegisters
  <2>2. m = ~(rsp(finish).valid \/ rValid)
    BY <1>1, <1>5, <1>7 DEF MemStuck, WbStuck
  <2> QED
    BY <1>3, <1>5, <2>1, <2>2
<1>10. Moves(m, e)
  BY <1>1, <1>2, <1>7, StepIs
<1>11. CASE finish
  <2>1. ~m /\ r.valid /\ fsm' = "WAIT_CMD"
    BY <1>5, <1>6, <1>9, <1>11, CfuRegisters
  <2>2. e = InEx
    BY <1>1, <1>2, <1>5, <1>7, <1>8, <2>1 DEF ExStuck, scheduleWish, InEx
  <2>3. ~rValid' /\ ~fired'
    BY <1>4, <1>5, <1>7, <2>1 DEF Registers, WbStuck
  <2>4. in_flight' = FALSE
    BY <1>4, <1>5, <1>8, <2>1, <2>2 DEF Registers, InEx
  <2>5. Bubble.kind # "cfu"
    BY DEF Bubble, Other
  <2>6. ~InMem'
    BY <1>10, <2>1, <2>2, <2>5, Zenon DEF Moves, Bubbling, Moving, InMem, InEx
  <2> QED
    BY <1>3, <1>9, <2>1, <2>3, <2>4, <2>6 DEF BusInv, None, InMem
<1>12. CASE ~finish
  <2>1. m = TRUE /\ ~r.valid /\ fsm' = fsm /\ stored_function_id' = stored_function_id
        /\ started' = started
    BY <1>3, <1>5, <1>6, <1>9, <1>12, CfuRegisters
  <2>2. Stuck
    BY <1>10, <2>1 DEF Moves
  <2>3. ~rValid' /\ ~fired' /\ in_flight' = TRUE
    BY <1>4, <1>5, <2>1 DEF Registers
  <2> QED
    BY <1>1, <1>4, <1>5, <2>1, <2>2, <2>3 DEF BusInv, Running, InMem, Stuck, Program
<1> QED
  BY <1>11, <1>12

(* The stored response is taken in the next cycle.                         *)
LEMMA FromWaiting ==
  ASSUME IInv, Waiting,
         NEW access, NEW redo, NEW dividing, NEW finish,
         Step(access, redo, dividing, finish)
  PROVE  /\ BusInv'
         /\ ~MemStuck(access, dividing, rsp(finish))
         /\ rsp(finish).payload = Value(Program[mem.op])
<1>1. PICK m : m = MemStuck(access, dividing, rsp(finish))
  OBVIOUS
<1>2. PICK e : e = ExStuck(access, dividing, cmd_ready, rsp(finish))
  OBVIOUS
<1>3. PICK r : r = rsp(finish)
  OBVIOUS
<1>4. Registers(m, e, WbStuck(access), r) /\ program' = program
  BY <1>1, <1>2, <1>3, StepIs
<1>5. /\ InMem /\ ~fired /\ ~rValid /\ fsm = "WAIT_TRANSFER" /\ in_flight = TRUE /\ ~cmd_ready
      /\ cmd_valid = (schedule \/ hold)
      /\ stored_output = Value(Program[mem.op])
  BY DEF Waiting, IInv, BusInv, cmd_ready, cmd_valid, InMem
<1>6. StagesInv /\ AmaranthClk(cmd, TRUE, finish)
  BY <1>5 DEF IInv, Step, rsp_ready
<1>7. ~HasSideEffect(wb) /\ ~hazard /\ mem.kind # "div"
  BY <1>5, <1>6 DEF StagesInv, hazard, HasSideEffect, InMem
<1>8. cmd_valid = InEx
  BY <1>5, <1>6, <1>7, CommandIsSafe DEF schedule, scheduleWish, InEx, StagesInv
<1>9. r.valid /\ r.payload = Value(Program[mem.op]) /\ fsm' = "WAIT_CMD"
  BY <1>3, <1>5, <1>6, CfuRegisters
<1>10. ~m
  BY <1>1, <1>3, <1>5, <1>7, <1>9 DEF MemStuck, WbStuck
<1>11. e = InEx
  BY <1>1, <1>2, <1>5, <1>7, <1>8, <1>10 DEF ExStuck, scheduleWish, InEx
<1>12. ~rValid' /\ ~fired'
  BY <1>4, <1>5, <1>7, <1>9 DEF Registers, WbStuck
<1>13. in_flight' = FALSE
  BY <1>4, <1>5, <1>8, <1>10, <1>11 DEF Registers, InEx
<1>14. Moves(m, e) /\ Bubble.kind # "cfu"
  BY <1>1, <1>2, <1>7, StepIs DEF Bubble, Other
<1>15. ~InMem'
  BY <1>10, <1>11, <1>14, Zenon DEF Moves, Bubbling, Moving, InMem, InEx
<1> QED
  BY <1>1, <1>3, <1>9, <1>10, <1>12, <1>13, <1>15 DEF BusInv, None, InMem

(* The answer was there before the instruction could leave execute: it     *)
(* stays in the register until the division ahead is done.                 *)
LEMMA FromEarly ==
  ASSUME IInv, Early,
         NEW access, NEW redo, NEW dividing, NEW finish,
         Step(access, redo, dividing, finish)
  PROVE  BusInv'
<1>1. PICK m : m = MemStuck(access, dividing, rsp(finish))
  OBVIOUS
<1>2. PICK e : e = ExStuck(access, dividing, cmd_ready, rsp(finish))
  OBVIOUS
<1>3. PICK r : r = rsp(finish)
  OBVIOUS
<1>4. Registers(m, e, WbStuck(access), r) /\ program' = program
  BY <1>1, <1>2, <1>3, StepIs
<1>5. /\ mem.kind = "div" /\ InEx /\ fired /\ rValid /\ fsm = "WAIT_CMD" /\ in_flight = FALSE
      /\ rData = Value(Program[ex.op]) /\ ~cmd_valid
  BY DEF Early, IInv, BusInv, cmd_valid, InMem
<1>6. StagesInv /\ AmaranthClk(cmd, FALSE, finish)
  BY <1>5 DEF IInv, Step, rsp_ready
<1>7. ~HasSideEffect(wb) /\ ~hazard
  BY <1>5, <1>6, CommandIsSafe
<1>8. fsm' = "WAIT_CMD"
  BY <1>5, <1>6, CfuRegisters
<1>9. rValid' /\ rData' = rData
  BY <1>4, <1>5 DEF Registers
<1>10. Moves(m, e)
  BY <1>1, <1>2, <1>7, StepIs
<1>11. e = m
  BY <1>1, <1>2, <1>5, <1>7 DEF ExStuck, MemStuck
<1>12. CASE m
  <2>1. Stuck /\ fired' /\ in_flight' = FALSE
    BY <1>4, <1>5, <1>10, <1>11, <1>12 DEF Moves, Registers
  <2> QED
    BY <1>4, <1>5, <1>8, <1>9, <2>1 DEF BusInv, Early, InMem, InEx, Stuck, Program
<1>13. CASE ~m
  <2>1. Moving /\ ~fired' /\ in_flight' = TRUE
    BY <1>4, <1>5, <1>10, <1>11, <1>13 DEF Moves, Registers
  <2> QED
    BY <1>4, <1>5, <1>8, <1>9, <2>1 DEF BusInv, Received, InMem, InEx, Moving, Program
<1> QED
  BY <1>12, <1>13

(* The bus keeps its part of the invariant.                                *)
LEMMA BusKept ==
  ASSUME IInv, SafePrograms, NEW access, NEW redo, NEW dividing, NEW finish,
         Step(access, redo, dividing, finish)
  PROVE  BusInv'
  BY FromNone, FromReceived, FromRunning, FromWaiting, FromEarly, Zenon DEF IInv, BusInv

-----------------------------------------------------------------------------
(* The order of the instructions, and what is retired.                     *)

(* The next result extends the results.                                    *)
LEMMA ResultsExtend ==
  ASSUME NEW n \in Nat
  PROVE  /\ Len(Results(n)) = n
         /\ Append(Results(n), [op |-> n + 1, value |-> Value(Program[n + 1])]) = Results(n + 1)
<1> DEFINE R == {[op |-> k, value |-> Value(Program[k])] : k \in 1 .. n + 1}
           last == [op |-> n + 1, value |-> Value(Program[n + 1])]
<1>1. last \in R
  OBVIOUS
<1>2. \A k \in 1 .. n : Results(n)[k] \in R
  BY DEF Results
<1>3. Results(n) \in [1 .. n -> R]
  BY <1>2 DEF Results
<1>4. Results(n) \in Seq(R) /\ DOMAIN Results(n) = 1 .. n
  BY <1>3, SeqDef
<1>5. Len(Results(n)) = n
  BY <1>4, LenProperties
<1> HIDE DEF last, R
<1>6. PICK longer : longer = Append(Results(n), last)
  OBVIOUS
<1>7. /\ longer \in Seq(R) /\ Len(longer) = n + 1
      /\ \A k \in 1 .. n : longer[k] = Results(n)[k]
      /\ longer[n + 1] = last
  BY <1>1, <1>4, <1>5, <1>6, AppendProperties
<1>8. longer \in [1 .. n + 1 -> R]
  BY <1>7, LenProperties
<1>9. \A k \in 1 .. n + 1 : longer[k] = [op |-> k, value |-> Value(Program[k])]
  <2>1. SUFFICES ASSUME NEW k \in 1 .. n + 1
                 PROVE  longer[k] = [op |-> k, value |-> Value(Program[k])]
    OBVIOUS
  <2>2. k \in 1 .. n \/ k = n + 1
    OBVIOUS
  <2>3. CASE k \in 1 .. n
    BY <1>7, <2>3, Zenon DEF Results
  <2>4. CASE k = n + 1
    BY <1>7, <2>4, Zenon DEF last
  <2> QED
    BY <2>2, <2>3, <2>4
<1>10. longer = [k \in 1 .. n + 1 |-> [op |-> k, value |-> Value(Program[k])]]
  BY <1>8, <1>9
<1> QED
  BY <1>5, <1>6, <1>10 DEF Results, last

(* The instruction that leaves memory takes its own result along.          *)
LEMMA Retires ==
  ASSUME IInv, NEW access, NEW redo, NEW dividing, NEW finish,
         Step(access, redo, dividing, finish),
         NEW m, m = MemStuck(access, dividing, rsp(finish))
  PROVE  /\ InMem /\ ~m => Done' = Done + 1 /\ retired' = Results(Done + 1)
         /\ ~InMem \/ m => retired' = retired
<1>1. Retire(m, rsp(finish)) /\ in_flight = InMem
  BY Zenon DEF Step, PluginClk, IInv, BusInv
<1>2. ~InMem \/ m => retired' = retired
  BY <1>1 DEF Retire, InMem
<1>3. ASSUME InMem, ~m
      PROVE  Done' = Done + 1 /\ retired' = Results(Done + 1)
  <2>1. PICK value : value = IF rValid THEN rData ELSE rsp(finish).payload
    OBVIOUS
  <2>2. Received \/ Running \/ Waiting
    BY <1>3 DEF IInv, BusInv, None, Early, InMem
  <2>4. value = Value(Program[mem.op])
    BY <1>3, <2>1, <2>2, FromRunning, FromWaiting DEF Received, Running, Waiting
  <2>5. mem.op = Done + 1 /\ Done \in Nat /\ retired = Results(Done)
    BY <1>3 DEF IInv, OrderInv
  <2>6. retired' = Append(retired, [op |-> mem.op, value |-> value])
    BY <1>1, <1>3, <2>1 DEF Retire, InMem
  <2>7. retired' = Results(Done + 1)
    BY <2>4, <2>5, <2>6, ResultsExtend, Zenon
  <2>8. Done + 1 \in Nat
    BY <2>5
  <2> QED
    BY <2>7, <2>8, ResultsExtend DEF Done
<1> QED
  BY <1>2, <1>3

(* The stages keep the order.                                              *)
LEMMA OrderKept ==
  ASSUME IInv, NEW access, NEW redo, NEW dividing, NEW finish,
         Step(access, redo, dividing, finish)
  PROVE  OrderInv'
<1>1. PICK m : m = MemStuck(access, dividing, rsp(finish))
  OBVIOUS
<1>2. PICK e : e = ExStuck(access, dividing, cmd_ready, rsp(finish))
  OBVIOUS
<1>3. OrderInv /\ program' = program
  BY <1>1, <1>2, StepIs DEF IInv
<1>4. PICK n : n = Done
  OBVIOUS
<1>5. /\ n \in Nat /\ retired = Results(n)
      /\ InMem => mem.op = n + 1
      /\ InEx => ex.op = n + (IF InMem THEN 2 ELSE 1) /\ ex.op <= Len(Program)
      /\ pc = n + 1 + (IF InMem THEN 1 ELSE 0) + (IF InEx THEN 1 ELSE 0)
  BY <1>3, <1>4 DEF OrderInv
<1>6. Results(n)' = Results(n) /\ Results(n + 1)' = Results(n + 1) /\ Len(Program)' = Len(Program)
  BY <1>3 DEF Results, Program
<1>7. /\ InMem /\ ~m => Done' = n + 1 /\ retired' = Results(n + 1)
      /\ ~InMem \/ m => Done' = n /\ retired' = Results(n)
  BY <1>1, <1>4, <1>5, Retires DEF Done
<1>8. Done' \in Nat /\ retired' = Results(Done)'
  <2>1. CASE InMem /\ ~m
    BY <1>5, <1>6, <1>7, <2>1
  <2>2. CASE ~InMem \/ m
    BY <1>5, <1>6, <1>7, <2>2
  <2> QED
    BY <2>1, <2>2
<1>9. PICK n1 : n1 = Done'
  OBVIOUS
<1> DEFINE Ordered == /\ InMem' => mem'.op = n1 + 1
                      /\ InEx' => ex'.op = n1 + (IF InMem' THEN 2 ELSE 1) /\ ex'.op <= Len(Program)
                      /\ pc' = n1 + 1 + (IF InMem' THEN 1 ELSE 0) + (IF InEx' THEN 1 ELSE 0)
<1>10. n1 = n + (IF InMem /\ ~m THEN 1 ELSE 0)
  BY <1>5, <1>7, <1>9
<1>11. /\ Bubble.kind # "cfu" /\ Other("replay").kind # "cfu"
       /\ \A k : Custom(k).kind = "cfu" /\ Custom(k).op = k
       /\ \A kind \in Fillers : Other(kind).kind # "cfu"
  BY <1>3, ProgramsAssumption DEF Bubble, Other, Custom, Fillers, IInv, StagesInv
<1>12. ASSUME m, e, Stuck
       PROVE  Ordered
  BY <1>5, <1>10, <1>12 DEF Stuck, InMem, InEx
<1>13. ASSUME ~m, e, Bubbling
       PROVE  Ordered
  BY <1>5, <1>10, <1>11, <1>13 DEF Bubbling, InMem, InEx
<1>14. ASSUME ~m, ~e, Moving
       PROVE  Ordered
  <2>1. mem' = ex
    BY <1>14 DEF Moving
  <2>2. CASE pc <= Len(Program) /\ ex' = Custom(pc) /\ pc' = pc + 1
    BY <1>5, <1>10, <1>11, <1>14, <2>1, <2>2 DEF InMem, InEx
  <2>3. ASSUME NEW kind \in Fillers, ex' = Other(kind), pc' = pc
        PROVE  Ordered
    BY <1>5, <1>10, <1>11, <1>14, <2>1, <2>3 DEF InMem, InEx
  <2> QED
    BY <1>14, <2>2, <2>3 DEF Moving
<1>15. ASSUME HasSideEffect(wb), redo, m, Flushed
       PROVE  Ordered
  <2>1. ~InMem
    BY <1>15, LoadsAreAlone DEF None
  <2>2. pc' = n + 1
    <3>1. PICK flushed : flushed = {s.op : s \in {s \in {ex, mem} : s.kind = "cfu"}}
      OBVIOUS
    <3>2. pc' = IF flushed = {} THEN pc ELSE CHOOSE k \in flushed : \A l \in flushed : k <= l
      BY <1>15, <3>1 DEF Step, PluginClk, Redo
    <3>3. CASE InEx
      <4>1. flushed = {n + 1}
        BY <1>5, <2>1, <3>1, <3>3 DEF InEx, InMem
      <4> QED
        BY <1>5, <3>2, <4>1
    <3>4. CASE ~InEx
      <4>1. flushed = {}
        BY <2>1, <3>1, <3>4 DEF InEx, InMem
      <4> QED
        BY <1>5, <2>1, <3>2, <3>4, <4>1
    <3> QED
      BY <3>3, <3>4
  <2> QED
    BY <1>5, <1>10, <1>11, <1>15, <2>1, <2>2 DEF Flushed, InMem, InEx
<1>16. Ordered
  <2>1. Moves(m, e) \/ (HasSideEffect(wb) /\ redo /\ m /\ Flushed)
    BY <1>1, <1>2, StepIs
  <2> QED
    BY <2>1, <1>12, <1>13, <1>14, <1>15 DEF Moves
<1> QED
  BY <1>6, <1>8, <1>9, <1>16 DEF OrderInv

-----------------------------------------------------------------------------
(* The invariant.                                                          *)

(* After reset the stages are empty and nothing is on its way.             *)
LEMMA Initially ==
  ASSUME Init
  PROVE  IInv
<1>1. /\ program \in Programs /\ pc = 1 /\ ex = Bubble /\ mem = Bubble /\ wb = Bubble
      /\ hold = FALSE /\ fired = FALSE /\ in_flight = FALSE /\ rValid = FALSE
      /\ retired = << >> /\ fsm = "WAIT_CMD"
      /\ clock \in {"free", "CPU_ENABLED"}
  BY DEF Init, PluginInit, AmaranthInit
<1>2. Bubble.kind = "plain"
  BY DEF Bubble, Other
<1>3. InMem = FALSE /\ InEx = FALSE
  BY <1>1, <1>2 DEF InMem, InEx
<1>4. StagesInv
  BY <1>1, <1>2, <1>3 DEF StagesInv, Kinds, hazard, HasSideEffect
<1>5. BusInv /\ ClockInv
  BY <1>1, <1>3 DEF BusInv, None, ClockInv
<1>6. Results(0) = << >>
  BY DEF Results
<1>7. OrderInv
  BY <1>1, <1>3, <1>6 DEF OrderInv, Done
<1> QED
  BY <1>4, <1>5, <1>7 DEF IInv

(* A change of the clocks alone leaves the rest as it is.                  *)
LEMMA OnlyTheClocks ==
  ASSUME IInv, UNCHANGED <<amaranthVars, pluginVars>>
  PROVE  OrderInv' /\ StagesInv' /\ BusInv'
<1> USE DEF amaranthVars, pluginVars
<1>1. OrderInv'
  BY DEF IInv, OrderInv, Done, Results, Program, InMem, InEx
<1>2. StagesInv'
  BY DEF IInv, StagesInv, hazard, HasSideEffect, InMem, InEx, Fillers
<1>3. BusInv'
  BY DEF IInv, BusInv, None, Received, Running, Waiting, Early, InMem, InEx, Program
<1> QED
  BY <1>1, <1>2, <1>3

(* Every step keeps the invariant.                                         *)
LEMMA Inductive ==
  ASSUME IInv, SafePrograms, [Next]_vars
  PROVE  IInv'
<1>1. CASE UNCHANGED vars
  <2>1. UNCHANGED <<amaranthVars, pluginVars>> /\ clock' = clock
    BY <1>1 DEF vars
  <2>2. ClockInv'
    BY <2>1 DEF IInv, ClockInv, amaranthVars
  <2> QED
    BY <2>1, <2>2, OnlyTheClocks DEF IInv
<1>2. ASSUME NEW access \in BOOLEAN, NEW redo \in BOOLEAN, NEW dividing \in BOOLEAN,
             NEW finish \in BOOLEAN, Clk(access, redo, dividing, finish)
      PROVE  IInv'
  <2>1. ClockInv'
    BY <1>2, ClockKept
  <2>2. CASE UNCHANGED <<amaranthVars, pluginVars>>
    BY <2>1, <2>2, OnlyTheClocks DEF IInv
  <2>3. CASE Step(access, redo, dividing, finish)
    BY <2>1, <2>3, StagesKept, BusKept, OrderKept, Zenon DEF IInv
  <2> QED
    BY <1>2, <2>2, <2>3, Gated, Zenon DEF Step
<1> QED
  BY <1>1, <1>2 DEF Next

(* The invariant holds: the stages are in order, and the one response on   *)
(* its way belongs to the instruction in memory, or to one that has fired   *)
(* and waits behind a division (CfuPlugin and the FSM of Cfu.elab).         *)
THEOREM InvariantHolds == SafePrograms => (Spec => []IInv)
<1>1. Init => IInv
  BY Initially
<1>2. SafePrograms /\ IInv /\ [Next]_vars => IInv'
  BY Inductive
<1>3. SUFFICES ASSUME SafePrograms PROVE Spec => []IInv
  OBVIOUS
<1>4. IInv /\ [Next]_vars => IInv'
  BY <1>2, <1>3
<1> QED
  BY <1>1, <1>4, PTL DEF Spec

(* Responses reach the instructions they answer, in program order, one     *)
(* each: the CfuPlugin's single in-flight bit and response register suffice. *)
THEOREM OrderHolds == SafePrograms => (Spec => []ResponsesInOrder)
<1>1. IInv => ResponsesInOrder
  <2>1. SUFFICES ASSUME IInv, NEW k \in 1 .. Len(retired)
                 PROVE  retired[k].op = k
    BY DEF ResponsesInOrder
  <2>2. retired = Results(Done)
    BY <2>1 DEF IInv, OrderInv
  <2>3. Results(Done)[k].op = k
    BY DEF Results, Done
  <2> QED
    BY <2>2, <2>3, Zenon
<1> QED
  BY <1>1, InvariantHolds, PTL

(* A command that has been sent is never flushed, whatever load misses the *)
(* cache: the hazard logic of the CfuPlugin holds it back.                 *)
THEOREM NothingFlushed == SafePrograms => (Spec => []CommandsAreFinal)
<1>1. IInv => CommandsAreFinal
  <2>1. SUFFICES ASSUME IInv PROVE CommandsAreFinal
    OBVIOUS
  <2>2. StagesInv
    BY <2>1 DEF IInv
  <2>3. cmd_valid => ex.kind = "cfu"
    BY <2>2, CommandIsSafe DEF cmd_valid, InEx
  <2>4. HasSideEffect(wb) => ~fired /\ ~hold /\ mem.kind # "cfu"
    BY <2>2 DEF StagesInv, hazard, InMem
  <2> QED
    BY <2>3, <2>4 DEF CommandsAreFinal
<1> QED
  BY <1>1, InvariantHolds, PTL

(* Every custom instruction gets the result computed from its own function *)
(* and operands, although a response may wait in the FSM of the base class *)
(* while other operands are on the bus.                                    *)
THEOREM ResultsHold == SafePrograms => (Spec => []ResultsCorrect)
<1>1. IInv => ResultsCorrect
  <2>1. SUFFICES ASSUME IInv, NEW k \in 1 .. Len(retired)
                 PROVE  retired[k].value = Value(Program[k])
    BY DEF ResultsCorrect
  <2>2. retired = Results(Done)
    BY <2>1 DEF IInv, OrderInv
  <2>3. Results(Done)[k].value = Value(Program[k])
    BY DEF Results, Done
  <2> QED
    BY <2>2, <2>3, Zenon
<1> QED
  BY <1>1, InvariantHolds, PTL
=============================================================================

--------------------------- MODULE CfuSystemProofs ---------------------------
(***************************************************************************)
(* For buffers of every depth, any programs and any timing of the TPU and  *)
(* of loads: cfu.v behind the pipeline of the processor gives every custom *)
(* instruction the result that it has when the program is executed one     *)
(* instruction at a time.  The programs are those the kernels are made of  *)
(* (SafePrograms): no division may run before a custom instruction, two    *)
(* instructions of the SIMD unit do not follow each other directly, and    *)
(* the instruction after Execute is Stall.                                 *)
(*                                                                         *)
(* The argument: the registers of the CFU are always those of sequential   *)
(* execution up to the last instruction that was answered (Now), but for   *)
(* what the instruction at hand, or the TPU, is about to change.  What is  *)
(* about to change is told by the state of the command FSM (CfuInv).       *)
(***************************************************************************)
EXTENDS CfuSystem, SequenceTheorems, WellFoundedInduction, TLAPS

SafeProgram(p) ==
  /\ "div" \notin p.fillers
  /\ \A k \in 1 .. Len(p.ops) :
       /\ p.ops[k].f7 \in Immediate => p.gap > 0
       /\ p.ops[k].f7 = Execute /\ k < Len(p.ops) => p.ops[k+1].f7 = Stall
SafePrograms == \A p \in Programs : SafeProgram(p)

-----------------------------------------------------------------------------
InMem == mem.kind = "cfu"
InEx  == ex.kind = "cfu"
Done  == Len(retired)
Sent  == IF InMem THEN Done + 1 ELSE Done     \* instructions that were answered
Now   == StateAfter[Sent]
Op    == Program[ex.op]
Executed == Sent # 0 /\ Program[Sent].f7 = Execute

Answers(k, value) == HasResult(Program[k]) => value = Result(StateAfter[k-1], Program[k])

(* The stages hold the next instructions, in order; what is retired is     *)
(* right.                                                                  *)
OrderInv ==
  /\ Done \in Nat /\ retired = [k \in 1 .. Done |-> retired[k]]
  /\ \A k \in 1 .. Done : retired[k].op = k /\ Answers(k, retired[k].value)
  /\ InMem => mem.op = Sent
  /\ InEx => ex.op = Sent + 1
  /\ pc = IF InEx THEN Sent + 2 ELSE Sent + 1
  /\ pc <= Len(Program) + 1

Kinds == {"plain", "load", "replay", "cfu"}

StagesInv ==
  /\ program \in Programs
  /\ {ex.kind, mem.kind, wb.kind} \subseteq Kinds
  /\ gap \in Nat /\ (InEx => gap = 0)
  /\ InEx /\ InMem => MinGap = 0
  /\ HasSideEffect(wb) => ~InMem
  /\ hold => InEx /\ ~hazard
  /\ ~fired

(* The instruction in memory has been answered.                            *)
BusInv == /\ in_flight = InMem
          /\ InMem => rValid /\ Answers(Sent, rData)

OperandsAreNow == buffer_A = Now.A /\ buffer_B = Now.B
Stored(buffer, now, f7) ==
  LET i == Index(Op.in1)
  IN IF Op.f7 = f7 THEN [buffer EXCEPT ![i] = Op.in0] = [now EXCEPT ![i] = Op.in0]
     ELSE buffer = now

(* What the CFU is doing.  A response register that holds something while  *)
(* nothing is in memory holds what the CFU showed when it left CAL: the    *)
(* instruction that takes it is a Stall, whose result nobody looks at.     *)
Idle ==
  /\ cfu_state = "IDLE" /\ ~hold /\ ~tpu_busy
  /\ OperandsAreNow /\ buffer_C = Now.C
  /\ Executed => ~InMem
  /\ rValid => InMem \/ Executed
Answering ==
  /\ cfu_state = "DONE" /\ hold /\ ~InMem /\ ~tpu_busy
  /\ Op.f7 \notin Immediate /\ Op.f7 # Execute
  /\ in0_ff = Op.in0
  /\ Stored(buffer_A, Now.A, WriteA) /\ Stored(buffer_B, Now.B, WriteB) /\ buffer_C = Now.C
  /\ rValid => Executed
Preparing ==
  /\ cfu_state = "CAL_PREPARE" /\ hold /\ ~InMem /\ ~tpu_busy /\ ~rValid
  /\ Op.f7 = Execute /\ in0_ff = Op.in0 /\ in1_ff = Op.in1
  /\ OperandsAreNow /\ buffer_C = Now.C
Computing ==
  /\ cfu_state = "CAL" /\ tpu_busy /\ Executed
  /\ OperandsAreNow /\ tpu_job.A = Now.A /\ tpu_job.B = Now.B
  /\ Product(Now.A, Now.B, tpu_job.in0, tpu_job.in1) = Now.C
  /\ rValid => InMem
Over ==
  /\ cfu_state \in {"CAL", "DONE"} /\ ~tpu_busy /\ Executed /\ ~InMem /\ ~rValid
  /\ OperandsAreNow /\ buffer_C = Now.C

CfuInv == /\ simd_offset = Now.offset /\ simd_acc = Now.acc
          /\ Idle \/ Answering \/ Preparing \/ Computing \/ Over

IInv == OrderInv /\ StagesInv /\ BusInv /\ CfuInv

-----------------------------------------------------------------------------
(* Sequential execution: the recursive definition has the values it says.  *)

(* A set of numbers has a least one.                                       *)
LEMMA LeastNatural ==
  ASSUME NEW T, T \subseteq Nat, T # {}
  PROVE  \E n \in T : \A m \in T : n <= m
<1>1. IsWellFoundedOn(OpToRel(<, Nat), Nat)
  BY NatLessThanWellFounded
<1>2. PICK R : R = OpToRel(<, Nat)
  OBVIOUS
<1>3. \A x, y \in Nat : x < y => <<x, y>> \in R
  BY <1>2 DEF OpToRel
<1>4. IsWellFoundedOn(R, Nat)
  BY <1>1, <1>2, Zenon
<1>5. \E x \in T : \A y \in T : ~ (<<y, x>> \in R)
  BY <1>4, WFMin, Zenon
<1>6. \A x, y \in Nat : ~(x <= y) => y < x
  OBVIOUS
<1> QED
  BY <1>3, <1>5, <1>6, Zenon

(* There is a function with the equations of StateAfter.                   *)
LEMMA RecursionDefines ==
  ASSUME NEW N \in Nat, NEW ops
  PROVE  \E f : f = [k \in 0 .. N |-> IF k = 0 THEN ResetState ELSE Effect(f[k-1], ops[k])]
<1> DEFINE Equations(f, n) ==
             f = [k \in 0 .. n |-> IF k = 0 THEN ResetState ELSE Effect(f[k-1], ops[k])]
<1>1. PICK T : T = {n \in Nat : ~ \E f : Equations(f, n)}
  OBVIOUS
<1>2. CASE T = {}
  BY <1>1, <1>2
<1>3. CASE T # {}
  <2>1. PICK n \in T : \A m \in T : n <= m
    BY <1>1, <1>3, LeastNatural
  <2>2. n \in Nat /\ ~ \E f : Equations(f, n)
    BY <1>1
  <2>3. CASE n = 0
    <3>1. PICK f : f = [k \in 0 .. 0 |-> ResetState]
      OBVIOUS
    <3>2. Equations(f, 0)
      BY <3>1
    <3> QED
      BY <2>2, <2>3, <3>2
  <2>4. CASE n > 0
    <3>1. n - 1 \in Nat /\ n - 1 \notin T
      BY <2>1, <2>2, <2>4
    <3>2. PICK g : Equations(g, n - 1)
      BY <1>1, <3>1
    <3>3. PICK f : f = [k \in 0 .. n |-> IF k = n THEN Effect(g[n-1], ops[n]) ELSE g[k]]
      OBVIOUS
    <3>4. \A k \in 0 .. n-1 : f[k] = g[k]
      BY <2>2, <3>3
    <3>5. ASSUME NEW k \in 0 .. n
          PROVE  f[k] = IF k = 0 THEN ResetState ELSE Effect(f[k-1], ops[k])
      <4>1. CASE k = n
        BY <2>2, <2>4, <3>3, <3>4, <4>1
      <4>2. CASE k \in 0 .. n-1
        <5>1. g[k] = IF k = 0 THEN ResetState ELSE Effect(g[k-1], ops[k])
          BY <3>2, <4>2, Zenon
        <5>2. k # 0 => k - 1 \in 0 .. n-1
          BY <2>2, <4>2
        <5>3. k # 0 => f[k-1] = g[k-1]
          BY <3>4, <5>2
        <5> QED
          BY <3>4, <4>2, <5>1, <5>3, Zenon
      <4> QED
        BY <2>2, <3>5, <4>1, <4>2
    <3>6. f = [k \in 0 .. n |-> f[k]]
      BY <3>3
    <3>7. Equations(f, n)
      BY <3>5, <3>6, Zenon
    <3> QED
      BY <2>2, <3>7
  <2> QED
    BY <2>2, <2>3, <2>4
<1> QED
  BY <1>2, <1>3

(* And StateAfter is one.                                                  *)
LEMMA Sequentially ==
  ASSUME Len(Program) \in Nat
  PROVE  /\ StateAfter[0] = ResetState
         /\ \A k \in 1 .. Len(Program) : StateAfter[k] = Effect(StateAfter[k-1], Program[k])
<1>1. PICK N : N = Len(Program)
  OBVIOUS
<1>2. PICK ops : ops = Program
  OBVIOUS
<1>3. \E f : f = [k \in 0 .. N |-> IF k = 0 THEN ResetState ELSE Effect(f[k-1], ops[k])]
  <2>1. N \in Nat
    BY <1>1
  <2> QED
    BY <2>1, RecursionDefines, Zenon
<1>4. StateAfter = [k \in 0 .. N |-> IF k = 0 THEN ResetState ELSE Effect(StateAfter[k-1], ops[k])]
  BY <1>1, <1>2, <1>3, Zenon DEF StateAfter
<1>5. \A k \in 0 .. N :
        StateAfter[k] = IF k = 0 THEN ResetState ELSE Effect(StateAfter[k-1], ops[k])
  BY <1>4, Zenon
<1>6. 0 \in 0 .. N /\ \A k \in 1 .. N : k \in 0 .. N /\ k # 0
  BY <1>1
<1> QED
  BY <1>1, <1>2, <1>5, <1>6, Zenon

(* The program does not change, and neither does what it computes.         *)
LEMMA SameProgram ==
  ASSUME Len(Program) \in Nat, program' = program
  PROVE  \A k \in 0 .. Len(Program) : StateAfter'[k] = StateAfter[k]
<1>1. PICK ops : ops = Program
  OBVIOUS
<1>2. Program' = ops
  BY <1>1 DEF Program
<1>3. PICK N \in Nat : N = Len(ops)
  BY <1>1
<1>4. PICK f : f = StateAfter
  OBVIOUS
<1>5. PICK g : g = StateAfter'
  OBVIOUS
<1>6. f[0] = ResetState /\ \A k \in 1 .. N : f[k] = Effect(f[k-1], ops[k])
  BY <1>1, <1>3, <1>4, Sequentially, Zenon
<1>7. g[0] = ResetState /\ \A k \in 1 .. N : g[k] = Effect(g[k-1], ops[k])
  <2>1. \E h : h = [k \in 0 .. N |-> IF k = 0 THEN ResetState ELSE Effect(h[k-1], ops[k])]
    BY <1>3, RecursionDefines
  <2>2. g = [k \in 0 .. N |-> IF k = 0 THEN ResetState ELSE Effect(g[k-1], ops[k])]
    BY <1>2, <1>3, <1>5, <2>1, Zenon DEF StateAfter
  <2>3. \A k \in 0 .. N : g[k] = IF k = 0 THEN ResetState ELSE Effect(g[k-1], ops[k])
    BY <2>2, Zenon
  <2>4. 0 \in 0 .. N /\ \A k \in 1 .. N : k \in 0 .. N /\ k # 0
    BY <1>3
  <2> QED
    BY <2>3, <2>4, Zenon
<1>8. PICK T : T = {k \in 0 .. N : g[k] # f[k]}
  OBVIOUS
<1>9. T = {}
  <2>1. SUFFICES ASSUME T # {} PROVE FALSE
    OBVIOUS
  <2>2. PICK k \in T : \A m \in T : k <= m
    <3>1. T \subseteq Nat
      BY <1>3, <1>8
    <3> QED
      BY <2>1, <3>1, LeastNatural, Zenon
  <2>3. k \in 0 .. N /\ g[k] # f[k] /\ k # 0
    BY <1>6, <1>7, <1>8
  <2>4. k - 1 \in 0 .. N /\ k - 1 \notin T /\ k \in 1 .. N
    BY <1>3, <2>2, <2>3
  <2>5. g[k-1] = f[k-1]
    BY <1>8, <2>4
  <2> QED
    BY <1>6, <1>7, <2>3, <2>4, <2>5, Zenon
<1> QED
  BY <1>1, <1>3, <1>4, <1>5, <1>8, <1>9


-----------------------------------------------------------------------------
(* Wires.                                                                  *)

(* What is on the bus.                                                     *)
LEMMA CommandIs ==
  /\ cmd.valid = cmd_valid
  /\ InEx => cmd.f7 = Op.f7 /\ cmd.in0 = Op.in0 /\ cmd.in1 = Op.in1
<1>1. PICK op : op = IF ex.kind = "cfu" THEN Program[ex.op] ELSE Stray
  OBVIOUS
<1>2. cmd = [valid |-> cmd_valid, f3 |-> op.f3, f7 |-> op.f7, in0 |-> op.in0, in1 |-> op.in1]
  BY <1>1, Zenon DEF cmd, Command
<1>3. cmd.valid = cmd_valid /\ cmd.f7 = op.f7 /\ cmd.in0 = op.in0 /\ cmd.in1 = op.in1
  BY <1>2
<1> QED
  BY <1>1, <1>3, Zenon DEF InEx, Op

(* A command is that of the custom instruction in execute, and no load is  *)
(* ahead of it.                                                            *)
LEMMA CommandIsSafe ==
  ASSUME StagesInv
  PROVE  /\ cmd_valid => InEx /\ ~hazard
         /\ ~cmd_valid => ~schedule /\ ~hold /\ (InEx => hazard)
         /\ ~hazard => ~HasSideEffect(wb) /\ ~HasSideEffect(mem)
  BY DEF StagesInv, schedule, scheduleWish, hazard, InEx, cmd_valid

(* The instruction at hand and what the program says of it.                *)
LEMMA Instruction ==
  ASSUME IInv, SafePrograms
  PROVE  /\ Len(Program) \in Nat /\ MinGap \in Nat /\ MaxGap \in Nat
         /\ Fillers \subseteq {"plain", "load"}
         /\ Sent \in 0 .. Len(Program)
         /\ InEx => /\ ex.op = Sent + 1 /\ ex.op \in 1 .. Len(Program)
                    /\ Op.f7 \in Immediate => ~InMem
                    /\ Executed => Op.f7 = Stall
<1>1. program \in Programs /\ SafeProgram(program)
  BY DEF IInv, StagesInv, SafePrograms
<1>2. Len(Program) \in Nat /\ MinGap \in Nat /\ MaxGap \in Nat
  BY <1>1, ProgramsAssumption DEF Program, MinGap
<1>3. Fillers \subseteq {"plain", "load"}
  <2>1. Fillers \subseteq {"plain", "load", "div"} /\ "div" \notin Fillers
    BY <1>1, ProgramsAssumption DEF Fillers, SafeProgram
  <2> QED
    BY <2>1
<1>4. Sent \in 0 .. Len(Program)
  BY <1>2 DEF IInv, OrderInv, Sent
<1>5. \A k \in 1 .. Len(Program) :
        /\ Program[k].f7 \in Immediate => MinGap > 0
        /\ Program[k].f7 = Execute /\ k < Len(Program) => Program[k+1].f7 = Stall
  BY <1>1, Zenon DEF SafeProgram, Program, MinGap
<1>6. ASSUME InEx
      PROVE  /\ ex.op = Sent + 1 /\ ex.op \in 1 .. Len(Program)
             /\ Op.f7 \in Immediate => ~InMem
             /\ Executed => Op.f7 = Stall
  <2>1. ex.op = Sent + 1 /\ ex.op \in 1 .. Len(Program)
    BY <1>2, <1>4, <1>6 DEF IInv, OrderInv
  <2>2. InMem => MinGap = 0
    BY <1>6 DEF IInv, StagesInv
  <2>3. Op.f7 \in Immediate => ~InMem
    BY <1>2, <1>5, <2>1, <2>2 DEF Op
  <2>4. Executed => Sent \in 1 .. Len(Program) /\ Sent < Len(Program) /\ Program[Sent].f7 = Execute
    BY <1>2, <1>4, <2>1 DEF Executed
  <2>5. Executed => Op.f7 = Stall
    BY <1>5, <2>1, <2>4, Zenon DEF Op
  <2> QED
    BY <2>1, <2>3, <2>5
<1> QED
  BY <1>2, <1>3, <1>4, <1>6

(* The CFU answers only when the instruction before has left memory: the   *)
(* response register is free for the next response.                        *)
LEMMA AnswersAreApart ==
  ASSUME IInv, SafePrograms, cmd_ready(cmd)
  PROVE  ~InMem
<1>1. \/ cfu_state \in {"DONE", "CAL_PREPARE"}
      \/ cfu_state = "IDLE" /\ cmd_valid /\ cmd.f7 \in Immediate
  BY CommandIs DEF cmd_ready, rsp_valid, AsksImmediate
<1>2. CASE cfu_state \in {"DONE", "CAL_PREPARE"}
  BY <1>2 DEF IInv, CfuInv, Idle, Answering, Preparing, Computing, Over
<1>3. CASE cmd_valid /\ cmd.f7 \in Immediate
  <2>1. InEx
    BY <1>3, CommandIsSafe DEF IInv
  <2>2. Op.f7 \in Immediate
    BY <1>3, <2>1, CommandIs
  <2> QED
    BY <2>1, <2>2, Instruction
<1> QED
  BY <1>1, <1>2, <1>3

-----------------------------------------------------------------------------
(* The pipeline.                                                           *)

Flushed  == /\ mem' = Bubble /\ wb' = Bubble /\ ex' = Other("replay")
            /\ gap' \in {gap, MaxGap}
            /\ pc' = IF InEx THEN ex.op ELSE pc
Stuck    == mem' = mem /\ wb' = wb /\ ex' = ex /\ pc' = pc /\ gap' = gap
Bubbling == mem' = Bubble /\ wb' = mem /\ ex' = ex /\ pc' = pc /\ gap' = gap
Moving   == mem' = ex /\ wb' = mem /\ (DecodeCustom \/ DecodeOther)

(* What holds memory and execute in place: in memory nothing but a load in *)
(* writeback, for what is in memory has been answered.                     *)
LEMMA StuckIs ==
  ASSUME IInv, NEW access, NEW dividing
  PROVE  /\ MemStuck(access, dividing, rsp) = WbStuck(access)
         /\ ExStuck(access, dividing, cmd_ready(cmd), rsp)
              = (WbStuck(access) \/ (InEx /\ hazard) \/ (cmd_valid /\ ~cmd_ready(cmd)))
         /\ WbStuck(access) => HasSideEffect(wb) /\ hazard /\ ~InMem
<1>1. mem.kind # "div"
  BY DEF IInv, StagesInv, Kinds
<1>2. in_flight => rValid
  BY DEF IInv, BusInv
<1>3. MemStuck(access, dividing, rsp) = WbStuck(access)
  <2>1. MemStuck(access, dividing, rsp) <=> WbStuck(access)
    BY <1>1, <1>2, Zenon DEF MemStuck
  <2> QED
    BY <2>1 DEF MemStuck, WbStuck
<1>4. ExStuck(access, dividing, cmd_ready(cmd), rsp)
        = (WbStuck(access) \/ (InEx /\ hazard) \/ (cmd_valid /\ ~cmd_ready(cmd)))
  BY <1>3, Zenon DEF ExStuck, scheduleWish, InEx
<1>5. WbStuck(access) => HasSideEffect(wb) /\ hazard /\ ~InMem
  BY DEF WbStuck, hazard, IInv, StagesInv
<1> QED
  BY <1>3, <1>4, <1>5, Zenon

Answered == cmd_valid /\ cmd_ready(cmd)

(* A clock edge: an instruction is answered and goes on to memory, or waits *)
(* in execute, or sends no command.  What is in memory retires.            *)
LEMMA Pipeline ==
  ASSUME IInv, SafePrograms, NEW access, NEW redo, NEW dividing,
         PluginClk(access, redo, dividing, cmd_ready(cmd), rsp)
  PROVE  /\ program' = program /\ ~fired'
         /\ in_flight' = Answered
         /\ hold' <=> cmd_valid /\ ~cmd_ready(cmd)
         /\ rValid' <=> (cmd_ready(cmd) \/ rValid) /\ ~InMem
         /\ rData' = IF ~rValid THEN rsp_payload(cmd) ELSE rData
         /\ retired' = IF InMem THEN Append(retired, [op |-> mem.op, value |-> rData])
                       ELSE retired
         /\ \/ Answered /\ InEx /\ ~InMem /\ ~hazard /\ Moving
            \/ cmd_valid /\ ~cmd_ready(cmd) /\ InEx /\ ~hazard /\ Bubbling
            \/ /\ ~cmd_valid
               /\ \/ HasSideEffect(wb) /\ ~InMem /\ redo /\ Flushed
                  \/ HasSideEffect(wb) /\ ~InMem /\ Stuck
                  \/ InEx /\ Bubbling
                  \/ ~InEx /\ Moving
<1>1. PICK w : w = WbStuck(access)
  OBVIOUS
<1>2. PICK m : m = MemStuck(access, dividing, rsp)
  OBVIOUS
<1>3. PICK e : e = ExStuck(access, dividing, cmd_ready(cmd), rsp)
  OBVIOUS
<1>4. PICK ready : ready = cmd_ready(cmd)
  OBVIOUS
<1>5. /\ m = w
      /\ e = (w \/ (InEx /\ hazard) \/ (cmd_valid /\ ~ready))
      /\ w => HasSideEffect(wb) /\ hazard /\ ~InMem
  BY <1>1, <1>2, <1>3, <1>4, StuckIs, Zenon
<1>6. /\ HandshakeClk(e, ready) /\ ResponseClk(w, rsp) /\ InFlightClk(m, e) /\ Retire(m, rsp)
      /\ program' = program
      /\ IF redo THEN access /\ Redo ELSE Advance(w, m, e)
  BY <1>1, <1>2, <1>3, <1>4, Zenon DEF PluginClk
<1>7. /\ cmd_valid => InEx /\ ~hazard
      /\ ~cmd_valid => ~schedule /\ ~hold /\ (InEx => hazard)
      /\ cmd_valid = (schedule \/ hold) /\ ~fired
      /\ in_flight = InMem /\ (InMem => rValid)
  BY CommandIsSafe DEF IInv, StagesInv, BusInv, cmd_valid
<1>8. ready => ~InMem
  BY <1>4, AnswersAreApart
<1>9. rsp.valid = ready /\ rsp.payload = rsp_payload(cmd)
  BY <1>4 DEF rsp, cmd_ready
<1>10. hold' <=> cmd_valid /\ ~ready
  BY <1>6, <1>7, Zenon DEF HandshakeClk
<1>11. ~fired'
  BY <1>5, <1>6, <1>7, Zenon DEF HandshakeClk
<1>12. in_flight' = Answered
  <2>1. CASE w
    <3>1. ~InMem /\ ~cmd_valid
      BY <1>5, <1>7, <2>1
    <3>2. in_flight' = in_flight
      BY <1>5, <1>6, <2>1 DEF InFlightClk
    <3>3. in_flight = FALSE
      BY <1>7, <3>1
    <3> QED
      BY <3>1, <3>2, <3>3 DEF Answered
  <2>2. CASE ~w
    BY <1>4, <1>5, <1>6, <1>7, <2>2 DEF InFlightClk, Answered
  <2> QED
    BY <2>1, <2>2
<1>13. rValid' <=> (ready \/ rValid) /\ ~InMem
  BY <1>5, <1>6, <1>7, <1>9, Zenon DEF ResponseClk
<1>14. rData' = IF ~rValid THEN rsp_payload(cmd) ELSE rData
  BY <1>6, <1>9, Zenon DEF ResponseClk, rsp_ready
<1>15. retired' = IF InMem THEN Append(retired, [op |-> mem.op, value |-> rData]) ELSE retired
  BY <1>5, <1>6, <1>7 DEF Retire
<1>16. ASSUME redo
       PROVE  ~cmd_valid /\ HasSideEffect(wb) /\ ~InMem /\ Flushed
  <2>1. wb.kind = "load" /\ access
    BY <1>6, <1>16 DEF Redo
  <2>2. w
    BY <1>1, <2>1 DEF WbStuck, HasSideEffect
  <2>3. Flushed
    <3>1. Redo /\ ~InMem
      BY <1>5, <1>6, <1>16, <2>2
    <3>2. PICK flushed : flushed = {s.op : s \in {s \in {ex, mem} : s.kind = "cfu"}}
      OBVIOUS
    <3>3. /\ gap' = IF flushed = {} THEN gap ELSE MaxGap
          /\ pc' = IF flushed = {} THEN pc ELSE CHOOSE k \in flushed : \A l \in flushed : k <= l
      BY <3>1, <3>2 DEF Redo
    <3>4. ~InEx => flushed = {}
      BY <3>1, <3>2 DEF InEx, InMem
    <3>5. InEx => flushed = {ex.op} /\ ex.op \in Int
      BY <3>1, <3>2, Instruction DEF InEx, InMem
    <3>6. InEx => pc' = ex.op
      BY <3>3, <3>5
    <3>7. gap' \in {gap, MaxGap}
      BY <3>3
    <3>8. mem' = Bubble /\ wb' = Bubble /\ ex' = Other("replay")
      BY <3>1, Zenon DEF Redo
    <3> QED
      BY <3>3, <3>4, <3>6, <3>7, <3>8, Zenon DEF Flushed
  <2> QED
    BY <1>5, <1>7, <2>2, <2>3
<1>17. ASSUME ~redo
       PROVE  \/ Answered /\ InEx /\ ~InMem /\ ~hazard /\ Moving
              \/ cmd_valid /\ ~ready /\ InEx /\ ~hazard /\ Bubbling
              \/ /\ ~cmd_valid
                 /\ \/ HasSideEffect(wb) /\ ~InMem /\ Stuck
                    \/ InEx /\ Bubbling
                    \/ ~InEx /\ Moving
  <2>1. Advance(w, m, e)
    BY <1>6, <1>17
  <2>2. CASE w
    <3>1. Stuck
      BY <1>5, <2>1, <2>2 DEF Advance, Stuck
    <3> QED
      BY <1>5, <1>7, <2>2, <3>1
  <2>3. CASE ~w /\ e
    <3>1. Bubbling
      BY <1>5, <2>1, <2>3 DEF Advance, Bubbling
    <3> QED
      BY <1>5, <1>7, <2>3, <3>1
  <2>4. CASE ~w /\ ~e
    <3>1. Moving
      BY <1>5, <2>1, <2>4 DEF Advance, Moving
    <3> QED
      BY <1>4, <1>5, <1>7, <1>8, <2>4, <3>1 DEF Answered
  <2> QED
    BY <2>2, <2>3, <2>4
<1> QED
  BY <1>4, <1>6, <1>10, <1>11, <1>12, <1>13, <1>14, <1>15, <1>16, <1>17, Zenon


(* Whatever is decoded next has a known kind, and if instructions must keep *)
(* apart it is no custom one right behind another.                         *)
LEMMA Decoded ==
  ASSUME IInv, SafePrograms, DecodeCustom \/ DecodeOther
  PROVE  /\ ex'.kind \in Kinds /\ gap' \in Nat
         /\ ex'.kind = "cfu" => /\ gap' = 0 /\ gap >= MinGap
                                /\ ex'.op = pc /\ pc <= Len(Program) /\ pc' = pc + 1
         /\ ex'.kind # "cfu" => pc' = pc
<1>1. Fillers \subseteq {"plain", "load"} /\ MaxGap \in Nat
  BY Instruction
<1>2. gap \in Nat
  BY DEF IInv, StagesInv
<1>3. CASE DecodeCustom
  <2>1. ex'.kind = "cfu" /\ ex'.op = pc
    BY <1>3 DEF DecodeCustom, Custom
  <2> QED
    BY <1>3, <2>1 DEF DecodeCustom, Kinds
<1>4. CASE DecodeOther
  <2>1. PICK kind \in Fillers : ex' = Other(kind)
    BY <1>4 DEF DecodeOther
  <2>2. ex'.kind = kind /\ kind \in {"plain", "load"}
    BY <1>1, <2>1 DEF Other
  <2>3. gap' \in Nat /\ pc' = pc
    BY <1>2, <1>4 DEF DecodeOther
  <2> QED
    BY <2>2, <2>3 DEF Kinds
<1> QED
  BY <1>3, <1>4

(* The stages after a step.                                                *)
LEMMA StagesKept ==
  ASSUME IInv, SafePrograms, NEW access, NEW redo, NEW dividing,
         PluginClk(access, redo, dividing, cmd_ready(cmd), rsp)
  PROVE  StagesInv'
<1>1. StagesInv /\ MinGap \in Nat /\ MaxGap \in Nat
  BY Instruction DEF IInv
<1>2. /\ program' = program /\ ~fired'
      /\ hold' <=> cmd_valid /\ ~cmd_ready(cmd)
  BY Pipeline
<1>3. MinGap' = MinGap /\ program' \in Programs
  BY <1>1, <1>2 DEF MinGap, StagesInv
<1>4. /\ Bubble.kind = "plain" /\ Other("replay").kind = "replay"
      /\ ~HasSideEffect(Bubble)
  BY DEF Bubble, Other, HasSideEffect
<1> DEFINE Kept == /\ {ex'.kind, mem'.kind, wb'.kind} \subseteq Kinds
                   /\ gap' \in Nat /\ (ex'.kind = "cfu" => gap' = 0)
                   /\ ex'.kind = "cfu" /\ mem'.kind = "cfu" => MinGap = 0
                   /\ HasSideEffect(wb') => mem'.kind # "cfu"
                   /\ hold' => ex'.kind = "cfu" /\ ~HasSideEffect(mem') /\ ~HasSideEffect(wb')
<1>5. /\ {ex.kind, mem.kind, wb.kind} \subseteq Kinds
      /\ gap \in Nat /\ (ex.kind = "cfu" => gap = 0)
      /\ ex.kind = "cfu" /\ mem.kind = "cfu" => MinGap = 0
      /\ HasSideEffect(wb) => mem.kind # "cfu"
      /\ ~hazard => ~HasSideEffect(wb) /\ ~HasSideEffect(mem)
  BY <1>1, CommandIsSafe DEF StagesInv, InEx, InMem
<1>6. ASSUME Answered, InEx, ~hazard, Moving
      PROVE  Kept
  <2>1. ~hold' /\ mem' = ex /\ wb' = mem /\ ex.kind = "cfu"
    BY <1>2, <1>6 DEF Answered, Moving, InEx
  <2> QED
    BY <1>1, <1>5, <1>6, <2>1, Decoded DEF Moving
<1>7. ASSUME InEx, ~hazard, Bubbling
      PROVE  Kept
  BY <1>4, <1>5, <1>7 DEF Bubbling, InEx, Kinds
<1>8. ASSUME ~cmd_valid, HasSideEffect(wb), ~InMem, Flushed
      PROVE  Kept
  BY <1>1, <1>2, <1>4, <1>5, <1>8 DEF Flushed, Kinds
<1>9. ASSUME ~cmd_valid, HasSideEffect(wb), ~InMem, Stuck
      PROVE  Kept
  BY <1>2, <1>5, <1>9 DEF Stuck
<1>10. ASSUME ~cmd_valid, InEx, Bubbling
       PROVE  Kept
  BY <1>2, <1>4, <1>5, <1>10 DEF Bubbling, Kinds
<1>11. ASSUME ~cmd_valid, ~InEx, Moving
       PROVE  Kept
  <2>1. ~hold' /\ mem' = ex /\ wb' = mem /\ ex.kind # "cfu"
    BY <1>2, <1>11 DEF Moving, InEx
  <2> QED
    BY <1>5, <1>11, <2>1, Decoded DEF Moving
<1>12. Kept
  BY Pipeline, <1>6, <1>7, <1>8, <1>9, <1>10, <1>11
<1> QED
  BY <1>2, <1>3, <1>12 DEF StagesInv, InEx, InMem, hazard, HasSideEffect


-----------------------------------------------------------------------------
(* The order.                                                              *)

(* A sequence with one more element.                                       *)
LEMMA OneMore ==
  ASSUME NEW s, Len(s) \in Nat, s = [k \in 1 .. Len(s) |-> s[k]], NEW e
  PROVE  /\ Len(Append(s, e)) = Len(s) + 1
         /\ Append(s, e) = [k \in 1 .. Len(s) + 1 |-> Append(s, e)[k]]
         /\ \A k \in 1 .. Len(s) : Append(s, e)[k] = s[k]
         /\ Append(s, e)[Len(s) + 1] = e
<1>1. PICK n \in Nat : n = Len(s)
  OBVIOUS
<1>2. PICK T : T = {s[k] : k \in 1 .. n} \cup {e}
  OBVIOUS
<1>3. s \in [1 .. n -> T]
  BY <1>1, <1>2
<1>4. s \in Seq(T) /\ e \in T
  BY <1>2, <1>3, SeqDef
<1>5. PICK t : t = Append(s, e)
  OBVIOUS
<1>6. /\ t \in Seq(T) /\ Len(t) = n + 1
      /\ \A k \in 1 .. n : t[k] = s[k]
      /\ t[n + 1] = e
  BY <1>1, <1>4, <1>5, AppendProperties
<1>7. t = [k \in 1 .. n + 1 |-> t[k]]
  <2>1. t \in [1 .. Len(t) -> T]
    BY <1>6, LenProperties
  <2> QED
    BY <1>6, <2>1
<1> QED
  BY <1>1, <1>5, <1>6, <1>7, Zenon

(* What is in memory retires, what is answered goes to memory, and         *)
(* sequential execution takes a step with it.                              *)
LEMMA Progress ==
  ASSUME IInv, SafePrograms, NEW access, NEW redo, NEW dividing,
         PluginClk(access, redo, dividing, cmd_ready(cmd), rsp)
  PROVE  /\ InMem' <=> Answered
         /\ Done' = Sent
         /\ Sent' = IF Answered THEN Sent + 1 ELSE Sent
         /\ Sent' \in 0 .. Len(Program)
         /\ Now' = IF Answered THEN Effect(Now, Op) ELSE Now
         /\ \A k \in 1 .. Len(Program) : \A value : Answers(k, value)' = Answers(k, value)
<1>1. PICK n : n = Done
  OBVIOUS
<1>2. PICK s : s = Sent
  OBVIOUS
<1>3. n \in Nat /\ s \in 0 .. Len(Program) /\ s = IF InMem THEN n + 1 ELSE n
  BY <1>1, <1>2, Instruction DEF IInv, OrderInv, Sent
<1>4. Bubble.kind # "cfu" /\ (InEx => ex.op = s + 1 /\ ex.op \in 1 .. Len(Program))
  BY <1>2, Instruction DEF Bubble, Other
<1>5. InMem' <=> Answered
  BY <1>4, Pipeline DEF InMem, InEx, Answered, Flushed, Stuck, Bubbling, Moving
<1>6. Done' = s
  <2>1. CASE InMem
    <3>1. PICK e : e = [op |-> mem.op, value |-> rData]
      OBVIOUS
    <3>2. retired' = Append(retired, e)
      BY <2>1, <3>1, Pipeline
    <3>3. Len(retired) \in Nat /\ retired = [k \in 1 .. Len(retired) |-> retired[k]]
      BY DEF IInv, OrderInv, Done
    <3>4. Len(Append(retired, e)) = Len(retired) + 1
      BY <3>3, OneMore
    <3> QED
      BY <1>1, <1>3, <2>1, <3>2, <3>4 DEF Done
  <2>2. CASE ~InMem
    BY <1>1, <1>3, <2>2, Pipeline DEF Done
  <2> QED
    BY <2>1, <2>2
<1>7. Sent' = IF Answered THEN s + 1 ELSE s
  BY <1>3, <1>5, <1>6 DEF Sent
<1>8. Answered => InEx
  BY CommandIsSafe DEF IInv, Answered
<1>9. PICK s1 : s1 = Sent'
  OBVIOUS
<1>10. s1 \in 0 .. Len(Program) /\ s1 = IF Answered THEN s + 1 ELSE s
  BY <1>3, <1>4, <1>7, <1>8, <1>9, Instruction
<1>11. program' = program /\ Len(Program) \in Nat
  BY Pipeline, Instruction
<1>12. \A k \in 0 .. Len(Program) : StateAfter'[k] = StateAfter[k]
  BY <1>11, SameProgram
<1>13. Now' = StateAfter[s1]
  BY <1>9, <1>10, <1>12, Zenon DEF Now
<1>14. Answered => StateAfter[s1] = Effect(StateAfter[s], Op)
  <2>1. SUFFICES ASSUME Answered PROVE StateAfter[s1] = Effect(StateAfter[s], Op)
    OBVIOUS
  <2>2. s1 \in 1 .. Len(Program) /\ s1 = ex.op /\ s1 - 1 = s
    BY <1>3, <1>4, <1>8, <1>10, <2>1
  <2>3. StateAfter[s1] = Effect(StateAfter[s1-1], Program[s1])
    BY <1>11, <2>2, Sequentially, Zenon
  <2> QED
    BY <2>2, <2>3, Zenon DEF Op
<1>15. Now' = IF Answered THEN Effect(Now, Op) ELSE Now
  BY <1>2, <1>10, <1>13, <1>14, Zenon DEF Now
<1>16. ASSUME NEW k \in 1 .. Len(Program), NEW value
       PROVE  Answers(k, value)' = Answers(k, value)
  <2>1. Program'[k] = Program[k]
    BY <1>11 DEF Program
  <2>2. k - 1 \in 0 .. Len(Program)
    BY <1>11
  <2>3. StateAfter'[k-1] = StateAfter[k-1]
    BY <1>12, <2>2
  <2> QED
    BY <2>1, <2>3, Zenon DEF Answers
<1> QED
  BY <1>2, <1>5, <1>6, <1>7, <1>9, <1>10, <1>15, <1>16, Zenon


(* The order after a step.                                                 *)
LEMMA OrderKept ==
  ASSUME IInv, SafePrograms, NEW access, NEW redo, NEW dividing,
         PluginClk(access, redo, dividing, cmd_ready(cmd), rsp)
  PROVE  OrderInv'
<1>1. PICK s : s = Sent
  OBVIOUS
<1>2. PICK s1 : s1 = Sent'
  OBVIOUS
<1>3. /\ s \in 0 .. Len(Program) /\ Len(Program) \in Nat
      /\ InMem => mem.op = s
      /\ InEx => ex.op = s + 1 /\ ex.op \in 1 .. Len(Program)
      /\ pc = IF InEx THEN s + 2 ELSE s + 1
      /\ pc <= Len(Program) + 1
  BY <1>1, Instruction DEF IInv, OrderInv
<1>4. /\ InMem' <=> Answered
      /\ Done' = s
      /\ s1 = IF Answered THEN s + 1 ELSE s
      /\ s1 \in 0 .. Len(Program)
      /\ \A k \in 1 .. Len(Program) : \A value : Answers(k, value)' = Answers(k, value)
  BY <1>1, <1>2, Progress
<1>5. Len(Program)' = Len(Program)
  BY Pipeline DEF Program
<1>6. /\ retired' = [k \in 1 .. s |-> retired'[k]]
      /\ \A k \in 1 .. s : retired'[k].op = k /\ Answers(k, retired'[k].value)
  <2>1. /\ Len(retired) \in Nat /\ retired = [k \in 1 .. Len(retired) |-> retired[k]]
        /\ \A k \in 1 .. Len(retired) : retired[k].op = k /\ Answers(k, retired[k].value)
    BY DEF IInv, OrderInv, Done
  <2>2. CASE InMem
    <3>1. PICK e : e = [op |-> mem.op, value |-> rData]
      OBVIOUS
    <3>2. retired' = Append(retired, e) /\ s = Len(retired) + 1
      BY <1>1, <2>2, <3>1, Pipeline DEF Sent, Done
    <3>3. e.op = s /\ Answers(s, e.value)
      BY <1>1, <1>3, <2>2, <3>1 DEF IInv, BusInv
    <3>4. /\ retired' = [k \in 1 .. s |-> retired'[k]]
          /\ \A k \in 1 .. Len(retired) : retired'[k] = retired[k]
          /\ retired'[s] = e
      BY <2>1, <3>2, OneMore
    <3>5. \A k \in 1 .. s : k = s \/ k \in 1 .. Len(retired)
      BY <2>1, <3>2
    <3> QED
      BY <2>1, <3>3, <3>4, <3>5, Zenon
  <2>3. CASE ~InMem
    <3>1. retired' = retired /\ s = Len(retired)
      BY <1>1, <2>3, Pipeline DEF Sent, Done
    <3> QED
      BY <2>1, <3>1
  <2> QED
    BY <2>2, <2>3
<1>7. (\A k \in 1 .. Done : retired[k].op = k /\ Answers(k, retired[k].value))'
  <2>1. SUFFICES ASSUME NEW k \in 1 .. s
                 PROVE  retired'[k].op = k /\ Answers(k, retired[k].value)'
    BY <1>4, Zenon
  <2>2. k \in 1 .. Len(Program)
    BY <1>3
  <2>3. PICK value : value = retired'[k].value
    OBVIOUS
  <2>4. Answers(k, value)'
    BY <1>4, <1>6, <2>2, <2>3, Zenon
  <2> QED
    BY <1>6, <2>3, <2>4, Zenon DEF Answers
<1> DEFINE Ordered == /\ mem'.kind = "cfu" => mem'.op = s1
                      /\ ex'.kind = "cfu" => ex'.op = s1 + 1
                      /\ pc' = IF ex'.kind = "cfu" THEN s1 + 2 ELSE s1 + 1
                      /\ pc' <= Len(Program) + 1
<1>8. Bubble.kind # "cfu" /\ Other("replay").kind # "cfu"
  BY DEF Bubble, Other
<1>9. ASSUME Moving, Answered, InEx
      PROVE  Ordered
  BY <1>3, <1>4, <1>9, Decoded DEF Moving, InEx
<1>10. ASSUME Moving, ~Answered, ~InEx
       PROVE  Ordered
  BY <1>3, <1>4, <1>10, Decoded DEF Moving, InEx
<1>11. ASSUME Bubbling, ~Answered, InEx
       PROVE  Ordered
  BY <1>3, <1>4, <1>8, <1>11 DEF Bubbling, InEx
<1>12. ASSUME Stuck, ~Answered, ~InMem
       PROVE  Ordered
  BY <1>3, <1>4, <1>12 DEF Stuck, InEx, InMem
<1>13. ASSUME Flushed, ~Answered, ~InMem
       PROVE  Ordered
  <2>1. pc' = s + 1
    BY <1>3, <1>13 DEF Flushed
  <2> QED
    BY <1>3, <1>4, <1>8, <1>13, <2>1 DEF Flushed
<1>14. Ordered
  BY Pipeline, <1>9, <1>10, <1>11, <1>12, <1>13 DEF Answered
<1>15. InMem' = (mem'.kind = "cfu") /\ InEx' = (ex'.kind = "cfu")
  BY DEF InMem, InEx
<1> QED
  <2>1. Done' \in Nat /\ retired' = [k \in 1 .. Done |-> retired[k]]'
    BY <1>3, <1>4, <1>6
  <2>2. /\ InMem' => mem'.op = Sent'
        /\ InEx' => ex'.op = Sent' + 1
        /\ pc' = IF InEx' THEN Sent' + 2 ELSE Sent' + 1
        /\ pc' <= Len(Program)' + 1
    BY <1>2, <1>5, <1>14, <1>15
  <2> QED
    BY <1>7, <2>1, <2>2, Zenon DEF OrderInv


-----------------------------------------------------------------------------
(* The CFU.                                                                *)

Fields == {"A", "B", "C", "acc", "offset"}

(* What an instruction changes.                                            *)
LEMMA EffectIs ==
  ASSUME NEW s, DOMAIN s = Fields, NEW op
  PROVE  /\ DOMAIN Effect(s, op) = Fields
         /\ Effect(s, op).A = IF op.f7 = WriteA THEN [s.A EXCEPT ![Index(op.in1)] = op.in0]
                              ELSE s.A
         /\ Effect(s, op).B = IF op.f7 = WriteB THEN [s.B EXCEPT ![Index(op.in1)] = op.in0]
                              ELSE s.B
         /\ Effect(s, op).C = IF op.f7 = Execute THEN Product(s.A, s.B, op.in0, op.in1)
                              ELSE s.C
         /\ Effect(s, op).acc = IF op.f7 = SetZero THEN << >>
                                ELSE IF op.f7 = Mac THEN MultiplyAdd(s, op) ELSE s.acc
         /\ Effect(s, op).offset = IF op.f7 = SetOffset THEN op.in0 % 512 ELSE s.offset
<1>1. PICK C : C = Product(s.A, s.B, op.in0, op.in1)
  OBVIOUS
<1>2. PICK A : A = [s.A EXCEPT ![Index(op.in1)] = op.in0]
  OBVIOUS
<1>3. PICK B : B = [s.B EXCEPT ![Index(op.in1)] = op.in0]
  OBVIOUS
<1>4. PICK acc : acc = MultiplyAdd(s, op)
  OBVIOUS
<1>5. PICK offset : offset = op.in0 % 512
  OBVIOUS
<1>6. Effect(s, op) =
        CASE op.f7 = Execute   -> [s EXCEPT !.C = C]
          [] op.f7 = WriteA    -> [s EXCEPT !.A = A]
          [] op.f7 = WriteB    -> [s EXCEPT !.B = B]
          [] op.f7 = SetZero   -> [s EXCEPT !.acc = << >>]
          [] op.f7 = Mac       -> [s EXCEPT !.acc = acc]
          [] op.f7 = SetOffset -> [s EXCEPT !.offset = offset]
          [] OTHER             -> s
  BY <1>1, <1>2, <1>3, <1>4, <1>5, Zenon DEF Effect
<1>7. PICK e : e = Effect(s, op)
  OBVIOUS
<1> USE DEF Execute, WriteA, WriteB, SetZero, Mac, SetOffset, Fields
<1>8. DOMAIN e = Fields
  BY <1>6, <1>7
<1>9. e.A = IF op.f7 = WriteA THEN A ELSE s.A
  BY <1>6, <1>7
<1>10. e.B = IF op.f7 = WriteB THEN B ELSE s.B
  BY <1>6, <1>7
<1>11. e.C = IF op.f7 = Execute THEN C ELSE s.C
  BY <1>6, <1>7
<1>12. e.acc = IF op.f7 = SetZero THEN << >> ELSE IF op.f7 = Mac THEN acc ELSE s.acc
  BY <1>6, <1>7
<1>13. e.offset = IF op.f7 = SetOffset THEN offset ELSE s.offset
  BY <1>6, <1>7
<1> HIDE DEF Execute, WriteA, WriteB, SetZero, Mac, SetOffset, Fields
<1> QED
  BY <1>1, <1>2, <1>3, <1>4, <1>5, <1>7, <1>8, <1>9, <1>10, <1>11, <1>12, <1>13, Zenon

(* Sequential execution keeps the five fields.                             *)
LEMMA NowHasFields ==
  ASSUME IInv, SafePrograms
  PROVE  DOMAIN Now = Fields
<1>1. Len(Program) \in Nat /\ Sent \in 0 .. Len(Program)
  BY Instruction
<1>2. PICK N \in Nat : N = Len(Program)
  BY <1>1
<1>3. PICK f : f = StateAfter
  OBVIOUS
<1>4. f[0] = ResetState /\ \A k \in 1 .. N : f[k] = Effect(f[k-1], Program[k])
  BY <1>1, <1>2, <1>3, Sequentially, Zenon
<1>5. PICK T : T = {k \in 0 .. N : DOMAIN f[k] # Fields}
  OBVIOUS
<1>6. T = {}
  <2>1. SUFFICES ASSUME T # {} PROVE FALSE
    OBVIOUS
  <2>2. PICK k \in T : \A m \in T : k <= m
    <3>1. T \subseteq Nat
      BY <1>2, <1>5
    <3> QED
      BY <2>1, <3>1, LeastNatural, Zenon
  <2>3. DOMAIN f[0] = Fields
    BY <1>4 DEF ResetState, Fields
  <2>4. k \in 0 .. N /\ DOMAIN f[k] # Fields /\ k # 0
    BY <1>5, <2>2, <2>3
  <2>5. k - 1 \in 0 .. N /\ k - 1 \notin T /\ k \in 1 .. N
    BY <1>2, <2>2, <2>4
  <2>6. DOMAIN f[k-1] = Fields
    BY <1>5, <2>5
  <2>7. DOMAIN Effect(f[k-1], Program[k]) = Fields
    BY <2>6, EffectIs
  <2> QED
    BY <1>4, <2>4, <2>5, <2>7, Zenon
<1>7. DOMAIN f[Sent] = Fields
  BY <1>1, <1>2, <1>5, <1>6
<1> QED
  BY <1>3, <1>7, Zenon DEF Now

(* What the CFU is doing bears on the instruction at hand: one of the SIMD  *)
(* unit finds it idle, and what comes after Execute is Stall.              *)
LEMMA AtHand ==
  ASSUME IInv, SafePrograms, cmd_valid
  PROVE  /\ InEx /\ cmd.f7 = Op.f7 /\ cmd.in0 = Op.in0 /\ cmd.in1 = Op.in1 /\ cmd.valid
         /\ Op.f7 \in Immediate => cfu_state = "IDLE" /\ Answered
         /\ Op.f7 # Stall => ~Executed
         /\ rValid /\ ~InMem => Executed
<1>1. InEx
  BY CommandIsSafe DEF IInv
<1>2. cmd.f7 = Op.f7 /\ cmd.in0 = Op.in0 /\ cmd.in1 = Op.in1 /\ cmd.valid
  BY <1>1, CommandIs, Zenon
<1>3. Executed => Op.f7 = Stall
  BY <1>1, Instruction
<1>4. Stall \notin Immediate /\ Execute \notin Immediate
  BY DEF Stall, Execute, Immediate, SetZero, Mac, SetOffset
<1>5. Op.f7 \in Immediate => cfu_state = "IDLE"
  BY <1>3, <1>4 DEF IInv, CfuInv, Idle, Answering, Preparing, Computing, Over
<1>6. Op.f7 \in Immediate => Answered
  BY <1>2, <1>5 DEF Answered, cmd_ready, rsp_valid, AsksImmediate
<1>7. rValid /\ ~InMem => Executed
  BY DEF IInv, CfuInv, Idle, Answering, Preparing, Computing, Over
<1> QED
  BY <1>1, <1>2, <1>3, <1>5, <1>6, <1>7, Zenon


(* The SIMD unit does what sequential execution does, when it does.        *)
LEMMA SimdKept ==
  ASSUME IInv, SafePrograms, NEW access, NEW redo, NEW dividing, SimdClk(cmd),
         PluginClk(access, redo, dividing, cmd_ready(cmd), rsp)
  PROVE  simd_offset' = Now'.offset /\ simd_acc' = Now'.acc
<1>1. PICK now : now = Now
  OBVIOUS
<1>2. simd_offset = now.offset /\ simd_acc = now.acc
  BY <1>1 DEF IInv, CfuInv
<1>3. Now' = IF Answered THEN Effect(now, Op) ELSE now
  BY <1>1, Progress
<1>4. DOMAIN now = Fields
  BY <1>1, NowHasFields
<1>5. cmd.valid = cmd_valid
  BY CommandIs
<1>6. SetZero # Mac /\ SetZero # SetOffset /\ Mac # SetOffset
      /\ SetZero \in Immediate /\ Mac \in Immediate /\ SetOffset \in Immediate
  BY DEF Immediate, SetZero, Mac, SetOffset
<1>7. CASE ~cmd_valid
  <2>1. ~Asks(cmd, SetOffset) /\ ~Asks(cmd, Mac) /\ ~Asks(cmd, SetZero) /\ ~Answered
    BY <1>5, <1>7 DEF Asks, Answered
  <2> QED
    BY <1>2, <1>3, <2>1, Zenon DEF SimdClk, simd_comb
<1>8. CASE cmd_valid
  <2>1. PICK op : op = Op
    OBVIOUS
  <2>2. /\ cmd.f7 = op.f7 /\ cmd.in0 = op.in0 /\ cmd.in1 = op.in1 /\ cmd.valid
        /\ op.f7 \in Immediate => Answered
    BY <1>8, <2>1, AtHand
  <2>3. PICK acc : acc = MultiplyAdd(now, op)
    OBVIOUS
  <2>4. acc = Append(simd_acc, <<cmd.in0, cmd.in1, simd_offset>>)
    BY <1>2, <2>2, <2>3, Zenon DEF MultiplyAdd
  <2>5. simd_comb(cmd) = IF op.f7 = Mac THEN acc ELSE IF op.f7 = SetZero THEN << >> ELSE now.acc
    BY <1>2, <2>2, <2>4, Zenon DEF simd_comb, Asks
  <2>6. simd_offset' = IF op.f7 = SetOffset THEN op.in0 % 512 ELSE now.offset
    BY <1>2, <2>2, Zenon DEF SimdClk, Asks
  <2>7. simd_acc' = simd_comb(cmd)
    BY DEF SimdClk
  <2>8. PICK e : e = Effect(now, op)
    OBVIOUS
  <2>9. /\ e.acc = IF op.f7 = SetZero THEN << >> ELSE IF op.f7 = Mac THEN acc ELSE now.acc
        /\ e.offset = IF op.f7 = SetOffset THEN op.in0 % 512 ELSE now.offset
    BY <1>4, <2>3, <2>8, EffectIs, Zenon
  <2>10. CASE Answered
    <3>1. Now' = e
      BY <1>3, <2>1, <2>8, <2>10
    <3>2. Now'.acc = simd_comb(cmd)
      BY <1>6, <2>5, <2>9, <3>1, Zenon
    <3> QED
      BY <2>6, <2>7, <2>9, <3>1, <3>2, Zenon
  <2>11. CASE ~Answered
    <3>1. op.f7 # Mac /\ op.f7 # SetZero /\ op.f7 # SetOffset
      BY <1>6, <2>2, <2>11
    <3> QED
      BY <1>3, <2>5, <2>6, <2>7, <2>11, <3>1, Zenon
  <2> QED
    BY <2>10, <2>11
<1> QED
  BY <1>7, <1>8

(* The operand and the buffers of A and B after a step.                    *)
LEMMA OperandsAfter ==
  ASSUME IInv, SafePrograms, NEW index, InputClk(cmd), BufferClk(cmd, index)
  PROVE  /\ ~cmd_valid => buffer_A' = buffer_A /\ buffer_B' = buffer_B
         /\ cmd_valid => in0_ff' = Op.in0 /\ in1_ff' = Op.in1
         /\ cmd_valid /\ Op.f7 # WriteA => buffer_A' = buffer_A
         /\ cmd_valid /\ Op.f7 # WriteB => buffer_B' = buffer_B
         /\ cmd_valid /\ Op.f7 = WriteA /\ cfu_state # "CAL" =>
              buffer_A' = [buffer_A EXCEPT ![Index(Op.in1)] = in0_ff]
         /\ cmd_valid /\ Op.f7 = WriteB /\ cfu_state # "CAL" =>
              buffer_B' = [buffer_B EXCEPT ![Index(Op.in1)] = in0_ff]
<1>1. CASE ~cmd_valid
  <2>1. ~cmd.valid
    BY <1>1, CommandIs
  <2> QED
    BY <1>1, <2>1, Zenon DEF BufferClk, Store, Asks
<1>2. CASE cmd_valid
  <2>1. cmd.f7 = Op.f7 /\ cmd.in0 = Op.in0 /\ cmd.in1 = Op.in1 /\ cmd.valid
    BY <1>2, AtHand
  <2>2. in0_comb(cmd) = Op.in0 /\ in1_comb(cmd) = Op.in1
    BY <2>1, Zenon DEF in0_comb, in1_comb
  <2>3. in0_ff' = Op.in0 /\ in1_ff' = Op.in1
    BY <2>2 DEF InputClk
  <2>4. /\ Op.f7 # WriteA => buffer_A' = buffer_A
        /\ Op.f7 # WriteB => buffer_B' = buffer_B
    BY <2>1, Zenon DEF BufferClk, Store, Asks
  <2>5. /\ Op.f7 = WriteA /\ cfu_state # "CAL" =>
             buffer_A' = [buffer_A EXCEPT ![Index(Op.in1)] = in0_ff]
        /\ Op.f7 = WriteB /\ cfu_state # "CAL" =>
             buffer_B' = [buffer_B EXCEPT ![Index(Op.in1)] = in0_ff]
    BY <2>1, <2>2, Zenon DEF BufferClk, Store, Asks
  <2> QED
    BY <1>2, <2>3, <2>4, <2>5, Zenon
<1> QED
  BY <1>1, <1>2


(* What the phases of the CFU refer to, after a step.                      *)
LEMMA After ==
  ASSUME IInv, SafePrograms, NEW access, NEW redo, NEW dividing,
         PluginClk(access, redo, dividing, cmd_ready(cmd), rsp)
  PROVE  /\ InMem' <=> Answered
         /\ hold' <=> cmd_valid /\ ~cmd_ready(cmd)
         /\ rValid' <=> (cmd_ready(cmd) \/ rValid) /\ ~InMem
         /\ Executed' <=> IF Answered THEN Op.f7 = Execute ELSE Executed
         /\ cmd_valid /\ ~cmd_ready(cmd) => Op' = Op
         /\ Now' = IF Answered THEN Effect(Now, Op) ELSE Now
         /\ DOMAIN Now = Fields
<1>1. /\ InMem' <=> Answered
      /\ Now' = IF Answered THEN Effect(Now, Op) ELSE Now
      /\ Sent' = IF Answered THEN Sent + 1 ELSE Sent
  BY Progress, Zenon
<1>2. Program' = Program
  BY Pipeline DEF Program
<1>3. Answered => Sent \in Nat /\ ex.op = Sent + 1
  BY CommandIsSafe, Instruction DEF Answered, IInv
<1>4. Executed' <=> IF Answered THEN Op.f7 = Execute ELSE Executed
  <2>1. PICK n : n = Sent'
    OBVIOUS
  <2>2. Executed' <=> n # 0 /\ Program[n].f7 = Execute
    BY <1>2, <2>1, Zenon DEF Executed
  <2>3. CASE Answered
    <3>1. n = ex.op /\ n # 0
      BY <1>1, <1>3, <2>1, <2>3
    <3> QED
      BY <2>2, <2>3, <3>1, Zenon DEF Op
  <2>4. CASE ~Answered
    BY <1>1, <2>1, <2>2, <2>4, Zenon DEF Executed
  <2> QED
    BY <2>3, <2>4
<1>5. cmd_valid /\ ~cmd_ready(cmd) => Op' = Op
  <2>1. cmd_valid /\ ~cmd_ready(cmd) => ex' = ex
    BY Pipeline DEF Bubbling, Answered
  <2> QED
    BY <1>2, <2>1, Zenon DEF Op
<1> QED
  BY <1>1, <1>4, <1>5, Pipeline, NowHasFields, Zenon

(* The states of the FSM.                                                  *)
LEMMA FsmIs ==
  ASSUME cfu_state \in {"IDLE", "CAL_PREPARE", "CAL", "DONE"}, cmd_valid => cmd.f7 = Op.f7
  PROVE  /\ cmd_ready(cmd) <=> \/ cfu_state \in {"DONE", "CAL_PREPARE"}
                               \/ cfu_state = "IDLE" /\ cmd_valid /\ Op.f7 \in Immediate
         /\ cfu_state = "IDLE" =>
              NextState(cmd) = IF ~cmd_valid \/ Op.f7 \in Immediate THEN "IDLE"
                               ELSE IF Op.f7 = Execute THEN "CAL_PREPARE" ELSE "DONE"
         /\ cfu_state = "CAL_PREPARE" => NextState(cmd) = "CAL"
         /\ cfu_state = "CAL" => NextState(cmd) = IF tpu_busy THEN "CAL" ELSE "DONE"
         /\ cfu_state = "DONE" => NextState(cmd) = "IDLE"
<1>1. cmd.valid = cmd_valid
  BY CommandIs
<1>2. cmd_ready(cmd) <=> \/ cfu_state \in {"DONE", "CAL_PREPARE"}
                         \/ cfu_state = "IDLE" /\ cmd_valid /\ Op.f7 \in Immediate
  BY <1>1, Zenon DEF cmd_ready, rsp_valid, AsksImmediate
<1>3. cfu_state = "IDLE" =>
        NextState(cmd) = IF ~cmd_valid \/ Op.f7 \in Immediate THEN "IDLE"
                         ELSE IF Op.f7 = Execute THEN "CAL_PREPARE" ELSE "DONE"
  BY <1>1 DEF NextState, AsksImmediate
<1>4. /\ cfu_state = "CAL_PREPARE" => NextState(cmd) = "CAL"
      /\ cfu_state = "CAL" => NextState(cmd) = IF tpu_busy THEN "CAL" ELSE "DONE"
      /\ cfu_state = "DONE" => NextState(cmd) = "IDLE"
  BY DEF NextState
<1> QED
  BY <1>2, <1>3, <1>4, Zenon

(* The TPU does nothing unless it is started or busy.                      *)
LEMMA TpuRests ==
  ASSUME ~tpu_busy, cfu_state # "CAL_PREPARE", NEW finish, TpuStart \/ TpuWork(finish)
  PROVE  ~tpu_busy' /\ buffer_C' = buffer_C
  BY DEF TpuStart, TpuWork

(* Nothing was sent: a command starts the SIMD unit, which answers at once, *)
(* the TPU, or the answer of the next cycle.                               *)
LEMMA FromIdle ==
  ASSUME IInv, SafePrograms, Idle, NEW access, NEW redo, NEW dividing, NEW finish, NEW index,
         Clk(access, redo, dividing, finish, index)
  PROVE  (Idle \/ Answering \/ Preparing)'
<1>1. PluginClk(access, redo, dividing, cmd_ready(cmd), rsp) /\ CfuClk(cmd, index, finish)
  BY Zenon DEF Clk
<1>2. /\ InputClk(cmd) /\ BufferClk(cmd, index) /\ (TpuStart \/ TpuWork(finish))
      /\ cfu_state' = NextState(cmd)
  BY <1>1, Zenon DEF CfuClk
<1>3. cmd_valid => cmd.f7 = Op.f7
  BY AtHand
<1>4. PICK now : now = Now
  OBVIOUS
<1>5. /\ cfu_state = "IDLE" /\ ~tpu_busy /\ buffer_A = now.A /\ buffer_B = now.B
      /\ buffer_C = now.C
      /\ Executed => ~InMem
      /\ rValid => InMem \/ Executed
  BY <1>4, Zenon DEF Idle, OperandsAreNow
<1>6. ~tpu_busy' /\ buffer_C' = now.C
  BY <1>2, <1>5, TpuRests
<1>7. /\ cmd_ready(cmd) <=> cmd_valid /\ Op.f7 \in Immediate
      /\ cfu_state' = IF ~cmd_valid \/ Op.f7 \in Immediate THEN "IDLE"
                      ELSE IF Op.f7 = Execute THEN "CAL_PREPARE" ELSE "DONE"
  BY <1>2, <1>3, <1>5, FsmIs
<1>8. /\ InMem' <=> Answered
      /\ hold' <=> cmd_valid /\ ~cmd_ready(cmd)
      /\ rValid' <=> (cmd_ready(cmd) \/ rValid) /\ ~InMem
      /\ Executed' <=> IF Answered THEN Op.f7 = Execute ELSE Executed
      /\ cmd_valid /\ ~cmd_ready(cmd) => Op' = Op
      /\ Now' = IF Answered THEN Effect(now, Op) ELSE now
      /\ DOMAIN now = Fields
  BY <1>1, <1>4, After, Zenon
<1>9. CASE ~cmd_valid
  <2>1. ~Answered /\ Now' = now /\ buffer_A' = now.A /\ buffer_B' = now.B
    BY <1>2, <1>5, <1>8, <1>9, OperandsAfter DEF Answered
  <2> QED
    BY <1>5, <1>6, <1>7, <1>8, <1>9, <2>1 DEF Idle, OperandsAreNow
<1>10. CASE cmd_valid /\ Op.f7 \in Immediate
  <2>1. Op.f7 # Execute /\ Op.f7 # WriteA /\ Op.f7 # WriteB
    BY <1>10 DEF Immediate, SetZero, Mac, SetOffset, Execute, WriteA, WriteB
  <2>2. Answered
    BY <1>7, <1>10 DEF Answered
  <2>3. buffer_A' = now.A /\ buffer_B' = now.B
    BY <1>2, <1>5, <1>10, <2>1, OperandsAfter
  <2>4. Now'.A = now.A /\ Now'.B = now.B /\ Now'.C = now.C
    BY <1>8, <2>1, <2>2, EffectIs
  <2> QED
    BY <1>6, <1>7, <1>8, <1>10, <2>1, <2>2, <2>3, <2>4 DEF Idle, OperandsAreNow
<1>11. CASE cmd_valid /\ Op.f7 \notin Immediate
  <2>1. /\ ~Answered /\ ~cmd_ready(cmd) /\ hold' /\ ~InMem' /\ Now' = now
        /\ Executed' <=> Executed
    BY <1>7, <1>8, <1>11 DEF Answered
  <2>2. Op' = Op
    BY <1>8, <1>11, <2>1
  <2>3. in0_ff' = Op.in0 /\ in1_ff' = Op.in1
    BY <1>2, <1>11, OperandsAfter
  <2>4. rValid' => Executed
    BY <1>5, <1>8, <2>1
  <2>5. CASE Op.f7 = Execute
    <3>1. buffer_A' = now.A /\ buffer_B' = now.B
      BY <1>2, <1>5, <1>11, <2>5, OperandsAfter DEF Execute, WriteA, WriteB
    <3>2. ~rValid'
      BY <1>11, <2>4, <2>5, AtHand DEF Execute, Stall
    <3> QED
      BY <1>6, <1>7, <1>11, <2>1, <2>2, <2>3, <2>5, <3>1, <3>2 DEF Preparing, OperandsAreNow
  <2>6. CASE Op.f7 # Execute
    <3>1. Stored(buffer_A, Now.A, WriteA)'
      <4>1. Op.f7 # WriteA => buffer_A' = now.A
        BY <1>2, <1>5, <1>11, OperandsAfter
      <4>2. Op.f7 = WriteA => [buffer_A' EXCEPT ![Index(Op.in1)] = Op.in0]
                                = [now.A EXCEPT ![Index(Op.in1)] = Op.in0]
        <5>1. Op.f7 = WriteA => buffer_A' = [now.A EXCEPT ![Index(Op.in1)] = in0_ff]
          BY <1>2, <1>5, <1>11, OperandsAfter
        <5> QED
          BY <5>1
      <4> QED
        BY <2>1, <2>2, <4>1, <4>2, Zenon DEF Stored
    <3>2. Stored(buffer_B, Now.B, WriteB)'
      <4>1. Op.f7 # WriteB => buffer_B' = now.B
        BY <1>2, <1>5, <1>11, OperandsAfter
      <4>2. Op.f7 = WriteB => [buffer_B' EXCEPT ![Index(Op.in1)] = Op.in0]
                                = [now.B EXCEPT ![Index(Op.in1)] = Op.in0]
        <5>1. Op.f7 = WriteB => buffer_B' = [now.B EXCEPT ![Index(Op.in1)] = in0_ff]
          BY <1>2, <1>5, <1>11, OperandsAfter
        <5> QED
          BY <5>1
      <4> QED
        BY <2>1, <2>2, <4>1, <4>2, Zenon DEF Stored
    <3> QED
      BY <1>6, <1>7, <1>11, <2>1, <2>2, <2>3, <2>4, <2>6, <3>1, <3>2 DEF Answering
  <2> QED
    BY <2>5, <2>6
<1> QED
  BY <1>9, <1>10, <1>11


(* The answer of the next cycle: by then the operand has been stored.      *)
LEMMA FromAnswering ==
  ASSUME IInv, SafePrograms, Answering, NEW access, NEW redo, NEW dividing, NEW finish, NEW index,
         Clk(access, redo, dividing, finish, index)
  PROVE  Idle'
<1>1. PluginClk(access, redo, dividing, cmd_ready(cmd), rsp) /\ CfuClk(cmd, index, finish)
  BY Zenon DEF Clk
<1>2. /\ InputClk(cmd) /\ BufferClk(cmd, index) /\ (TpuStart \/ TpuWork(finish))
      /\ cfu_state' = NextState(cmd)
  BY <1>1, Zenon DEF CfuClk
<1>3. PICK now : now = Now
  OBVIOUS
<1>4. /\ cfu_state = "DONE" /\ hold /\ ~InMem /\ ~tpu_busy /\ buffer_C = now.C
      /\ Op.f7 \notin Immediate /\ Op.f7 # Execute /\ in0_ff = Op.in0
      /\ Stored(buffer_A, now.A, WriteA) /\ Stored(buffer_B, now.B, WriteB)
  BY <1>3, Zenon DEF Answering
<1>5. cmd_valid
  BY <1>4, CommandIsSafe DEF IInv
<1>6. ~tpu_busy' /\ buffer_C' = now.C
  BY <1>2, <1>4, TpuRests
<1>7. cmd_ready(cmd) /\ cfu_state' = "IDLE" /\ Answered
  BY <1>2, <1>4, <1>5, AtHand, FsmIs DEF Answered
<1>8. /\ InMem' /\ ~hold' /\ ~Executed' /\ Now' = Effect(now, Op) /\ DOMAIN now = Fields
  BY <1>1, <1>3, <1>4, <1>7, After
<1>9. /\ Now'.C = now.C
      /\ Now'.A = IF Op.f7 = WriteA THEN [now.A EXCEPT ![Index(Op.in1)] = Op.in0] ELSE now.A
      /\ Now'.B = IF Op.f7 = WriteB THEN [now.B EXCEPT ![Index(Op.in1)] = Op.in0] ELSE now.B
  BY <1>4, <1>8, EffectIs
<1>10. buffer_A' = Now'.A
  <2>1. CASE Op.f7 = WriteA
    <3>1. buffer_A' = [buffer_A EXCEPT ![Index(Op.in1)] = Op.in0]
      BY <1>2, <1>4, <1>5, <2>1, OperandsAfter
    <3> QED
      BY <1>4, <1>9, <2>1, <3>1, Zenon DEF Stored
  <2>2. CASE Op.f7 # WriteA
    BY <1>2, <1>4, <1>5, <1>9, <2>2, OperandsAfter, Zenon DEF Stored
  <2> QED
    BY <2>1, <2>2
<1>11. buffer_B' = Now'.B
  <2>1. CASE Op.f7 = WriteB
    <3>1. buffer_B' = [buffer_B EXCEPT ![Index(Op.in1)] = Op.in0]
      BY <1>2, <1>4, <1>5, <2>1, OperandsAfter
    <3> QED
      BY <1>4, <1>9, <2>1, <3>1, Zenon DEF Stored
  <2>2. CASE Op.f7 # WriteB
    BY <1>2, <1>4, <1>5, <1>9, <2>2, OperandsAfter, Zenon DEF Stored
  <2> QED
    BY <2>1, <2>2
<1> QED
  BY <1>6, <1>7, <1>8, <1>9, <1>10, <1>11 DEF Idle, OperandsAreNow

(* The TPU is started with the operands of Execute and the buffers as they  *)
(* are.                                                                    *)
LEMMA FromPreparing ==
  ASSUME IInv, SafePrograms, Preparing, NEW access, NEW redo, NEW dividing, NEW finish, NEW index,
         Clk(access, redo, dividing, finish, index)
  PROVE  Computing'
<1>1. PluginClk(access, redo, dividing, cmd_ready(cmd), rsp) /\ CfuClk(cmd, index, finish)
  BY Zenon DEF Clk
<1>2. /\ InputClk(cmd) /\ BufferClk(cmd, index) /\ (TpuStart \/ TpuWork(finish))
      /\ cfu_state' = NextState(cmd)
  BY <1>1, Zenon DEF CfuClk
<1>3. PICK now : now = Now
  OBVIOUS
<1>4. /\ cfu_state = "CAL_PREPARE" /\ hold /\ Op.f7 = Execute
      /\ in0_ff = Op.in0 /\ in1_ff = Op.in1
      /\ buffer_A = now.A /\ buffer_B = now.B /\ buffer_C = now.C
  BY <1>3, Zenon DEF Preparing, OperandsAreNow
<1>5. cmd_valid
  BY <1>4, CommandIsSafe DEF IInv
<1>6. cmd_ready(cmd) /\ cfu_state' = "CAL" /\ Answered
  BY <1>2, <1>4, <1>5, AtHand, FsmIs DEF Answered
<1>7. /\ InMem' /\ Executed' /\ Now' = Effect(now, Op) /\ DOMAIN now = Fields
  BY <1>1, <1>3, <1>4, <1>6, After
<1>8. /\ Now'.A = now.A /\ Now'.B = now.B
      /\ Now'.C = Product(now.A, now.B, Op.in0, Op.in1)
  <2>1. Execute # WriteA /\ Execute # WriteB
    BY DEF Execute, WriteA, WriteB
  <2> QED
    BY <1>4, <1>7, <2>1, EffectIs
<1>9. buffer_A' = now.A /\ buffer_B' = now.B
  BY <1>2, <1>4, <1>5, OperandsAfter DEF Execute, WriteA, WriteB
<1>10. TpuStart
  BY <1>2, <1>4 DEF TpuWork
<1>11. /\ tpu_busy' /\ tpu_job'.A = now.A /\ tpu_job'.B = now.B
       /\ tpu_job'.in0 = Op.in0 /\ tpu_job'.in1 = Op.in1
  BY <1>4, <1>9, <1>10 DEF TpuStart
<1>12. Product(Now'.A, Now'.B, tpu_job'.in0, tpu_job'.in1) = Now'.C
  BY <1>8, <1>11, Zenon
<1>13. Product(Now.A, Now.B, tpu_job.in0, tpu_job.in1)' = Now'.C
  BY <1>12 DEF Product, Word
<1> QED
  BY <1>6, <1>7, <1>8, <1>9, <1>11, <1>13, Zenon DEF Computing, OperandsAreNow

(* While the TPU is busy, and until the CFU is idle again, the only command *)
(* there may be is Stall.                                                  *)
LEMMA NothingChanges ==
  ASSUME IInv, SafePrograms, Executed, NEW index, BufferClk(cmd, index), InputClk(cmd)
  PROVE  buffer_A' = buffer_A /\ buffer_B' = buffer_B
<1>1. CASE ~cmd_valid
  BY <1>1, OperandsAfter
<1>2. CASE cmd_valid
  <2>1. Op.f7 # WriteA /\ Op.f7 # WriteB
    BY <1>2, AtHand DEF Stall, WriteA, WriteB
  <2> QED
    BY <1>2, <2>1, OperandsAfter
<1> QED
  BY <1>1, <1>2

(* The TPU goes on or stops.                                               *)
LEMMA FromComputing ==
  ASSUME IInv, SafePrograms, Computing, NEW access, NEW redo, NEW dividing, NEW finish, NEW index,
         Clk(access, redo, dividing, finish, index)
  PROVE  (Computing \/ Over)'
<1>1. PluginClk(access, redo, dividing, cmd_ready(cmd), rsp) /\ CfuClk(cmd, index, finish)
  BY Zenon DEF Clk
<1>2. /\ InputClk(cmd) /\ BufferClk(cmd, index) /\ (TpuStart \/ TpuWork(finish))
      /\ cfu_state' = NextState(cmd)
  BY <1>1, Zenon DEF CfuClk
<1>3. PICK now : now = Now
  OBVIOUS
<1>4. /\ cfu_state = "CAL" /\ tpu_busy /\ Executed
      /\ buffer_A = now.A /\ buffer_B = now.B
      /\ tpu_job.A = now.A /\ tpu_job.B = now.B
      /\ Product(now.A, now.B, tpu_job.in0, tpu_job.in1) = now.C
      /\ rValid => InMem
  BY <1>3, Zenon DEF Computing, OperandsAreNow
<1>5. ~cmd_ready(cmd) /\ cfu_state' = "CAL"
  BY <1>2, <1>4, AtHand, FsmIs
<1>6. ~Answered
  BY <1>5 DEF Answered
<1>7. ~InMem' /\ Executed' /\ ~rValid' /\ Now' = now
  BY <1>1, <1>3, <1>4, <1>5, <1>6, After
<1>8. buffer_A' = now.A /\ buffer_B' = now.B
  BY <1>2, <1>4, NothingChanges
<1>9. TpuWork(finish)
  BY <1>2, <1>4 DEF TpuStart
<1>10. tpu_job' = tpu_job
  BY <1>4, <1>8, <1>9 DEF TpuWork
<1>11. tpu_busy' <=> ~finish
  BY <1>4, <1>9, Zenon DEF TpuWork
<1>12. CASE finish
  <2>1. buffer_C' = Product(tpu_job'.A, tpu_job'.B, tpu_job.in0, tpu_job.in1)
    BY <1>4, <1>9, <1>12, Zenon DEF TpuWork
  <2>2. buffer_C' = now.C
    BY <1>4, <1>10, <2>1, Zenon
  <2> QED
    BY <1>5, <1>7, <1>8, <1>11, <1>12, <2>2 DEF Over, OperandsAreNow
<1>13. CASE ~finish
  <2>1. Product(Now.A, Now.B, tpu_job.in0, tpu_job.in1)' = now.C
    BY <1>4, <1>7, <1>10 DEF Product, Word
  <2> QED
    BY <1>4, <1>5, <1>7, <1>8, <1>10, <1>11, <1>13, <2>1, Zenon DEF Computing, OperandsAreNow
<1> QED
  BY <1>12, <1>13

(* The CFU leaves CAL: it answers in passing, to a Stall if one waits.     *)
LEMMA FromOver ==
  ASSUME IInv, SafePrograms, Over, NEW access, NEW redo, NEW dividing, NEW finish, NEW index,
         Clk(access, redo, dividing, finish, index)
  PROVE  (Over \/ Idle)'
<1>1. PluginClk(access, redo, dividing, cmd_ready(cmd), rsp) /\ CfuClk(cmd, index, finish)
  BY Zenon DEF Clk
<1>2. /\ InputClk(cmd) /\ BufferClk(cmd, index) /\ (TpuStart \/ TpuWork(finish))
      /\ cfu_state' = NextState(cmd)
  BY <1>1, Zenon DEF CfuClk
<1>3. PICK now : now = Now
  OBVIOUS
<1>4. /\ cfu_state \in {"CAL", "DONE"} /\ ~tpu_busy /\ Executed /\ ~InMem /\ ~rValid
      /\ buffer_A = now.A /\ buffer_B = now.B /\ buffer_C = now.C
  BY <1>3, Zenon DEF Over, OperandsAreNow
<1>5. ~tpu_busy' /\ buffer_C' = now.C
  BY <1>2, <1>4, TpuRests
<1>6. buffer_A' = now.A /\ buffer_B' = now.B
  BY <1>2, <1>4, NothingChanges
<1>7. /\ InMem' <=> Answered
      /\ hold' <=> cmd_valid /\ ~cmd_ready(cmd)
      /\ rValid' <=> cmd_ready(cmd)
      /\ Executed' <=> IF Answered THEN Op.f7 = Execute ELSE Executed
      /\ Now' = IF Answered THEN Effect(now, Op) ELSE now
      /\ DOMAIN now = Fields
  BY <1>1, <1>3, <1>4, After
<1>8. cmd_valid => cmd.f7 = Op.f7
  BY AtHand
<1>9. CASE cfu_state = "CAL"
  <2>1. ~cmd_ready(cmd) /\ cfu_state' = "DONE" /\ ~Answered
    BY <1>2, <1>4, <1>8, <1>9, FsmIs DEF Answered
  <2> QED
    BY <1>4, <1>5, <1>6, <1>7, <2>1 DEF Over, OperandsAreNow
<1>10. CASE cfu_state = "DONE"
  <2>1. cmd_ready(cmd) /\ cfu_state' = "IDLE" /\ (Answered <=> cmd_valid)
    BY <1>2, <1>8, <1>10, FsmIs DEF Answered
  <2>2. CASE cmd_valid
    <3>1. Op.f7 # Execute /\ Op.f7 # WriteA /\ Op.f7 # WriteB
      BY <1>4, <2>2, AtHand DEF Stall, Execute, WriteA, WriteB
    <3>2. Now'.A = now.A /\ Now'.B = now.B /\ Now'.C = now.C
      BY <1>7, <2>1, <2>2, <3>1, EffectIs
    <3> QED
      BY <1>5, <1>6, <1>7, <2>1, <2>2, <3>1, <3>2 DEF Idle, OperandsAreNow
  <2>3. CASE ~cmd_valid
    BY <1>4, <1>5, <1>6, <1>7, <2>1, <2>3 DEF Idle, OperandsAreNow
  <2> QED
    BY <2>2, <2>3
<1> QED
  BY <1>4, <1>9, <1>10


(* What the CFU answers with is the result.                                *)
LEMMA AnswerIsResult ==
  ASSUME IInv, SafePrograms, Answered, HasResult(Op)
  PROVE  ~rValid /\ rsp_payload(cmd) = Result(Now, Op)
<1>1. PICK op : op = Op
  OBVIOUS
<1>2. PICK now : now = Now
  OBVIOUS
<1>3. /\ InEx /\ cmd.f7 = op.f7 /\ cmd.in0 = op.in0 /\ cmd.in1 = op.in1 /\ cmd.valid
      /\ op.f7 \in Immediate => cfu_state = "IDLE"
      /\ op.f7 # Stall => ~Executed
      /\ rValid /\ ~InMem => Executed
  BY <1>1, AtHand DEF Answered
<1>4. op.f7 = ReadC \/ op.f7 = SetZero \/ op.f7 = Mac
  BY <1>1 DEF HasResult
<1>5. ~rValid
  <2>1. ~InMem
    BY AnswersAreApart DEF Answered
  <2> QED
    BY <1>3, <1>4, <2>1 DEF Stall, ReadC, SetZero, Mac
<1>6. simd_acc = now.acc /\ simd_offset = now.offset
  BY <1>2 DEF IInv, CfuInv
<1>7. ReadC # SetZero /\ ReadC # Mac /\ SetZero # Mac
  BY DEF ReadC, SetZero, Mac
<1>8. CASE op.f7 = ReadC
  <2>1. rsp_payload(cmd) = Column(C_data(cmd), in0_comb(cmd))
    BY <1>3, <1>7, <1>8, Zenon DEF rsp_payload, Asks
  <2>2. cfu_state # "CAL" /\ buffer_C = now.C
    <3>1. cfu_state # "CAL"
      BY <1>3, <1>8, FsmIs DEF Answered, cmd_ready, rsp_valid
    <3>2. ~Computing
      BY <3>1 DEF Computing
    <3> QED
      BY <1>2, <3>1, <3>2 DEF IInv, CfuInv, Idle, Answering, Preparing, Over
  <2>3. C_data(cmd) = now.C[Index(op.in1)] /\ in0_comb(cmd) = op.in0
    BY <1>3, <2>2, Zenon DEF C_data, in0_comb, in1_comb
  <2>4. Result(now, op) = Column(now.C[Index(op.in1)], op.in0)
    BY <1>7, <1>8 DEF Result
  <2> QED
    BY <1>1, <1>2, <1>5, <2>1, <2>3, <2>4, Zenon
<1>9. CASE op.f7 = SetZero
  <2>1. rsp_payload(cmd) = Sum(<< >>)
    BY <1>3, <1>7, <1>9, Zenon DEF rsp_payload, simd_comb, Asks
  <2>2. Result(now, op) = Sum(<< >>)
    BY <1>7, <1>9 DEF Result
  <2> QED
    BY <1>1, <1>2, <1>5, <2>1, <2>2, Zenon
<1>10. CASE op.f7 = Mac
  <2>1. rsp_payload(cmd) = Sum(Append(now.acc, <<op.in0, op.in1, now.offset>>))
    BY <1>3, <1>6, <1>10, Zenon DEF rsp_payload, simd_comb, Asks
  <2>2. Result(now, op) = Sum(MultiplyAdd(now, op))
    <3>1. PICK sum : sum = Sum(MultiplyAdd(now, op))
      OBVIOUS
    <3> QED
      BY <1>7, <1>10, <3>1 DEF Result
  <2> QED
    BY <1>1, <1>2, <1>5, <2>1, <2>2, Zenon DEF MultiplyAdd
<1> QED
  BY <1>4, <1>8, <1>9, <1>10

(* What is in memory after a step has its answer.                          *)
LEMMA BusKept ==
  ASSUME IInv, SafePrograms, NEW access, NEW redo, NEW dividing,
         PluginClk(access, redo, dividing, cmd_ready(cmd), rsp)
  PROVE  BusInv'
<1>1. PICK n : n = Sent'
  OBVIOUS
<1>2. /\ in_flight' = Answered /\ (InMem' <=> Answered)
      /\ rData' = IF ~rValid THEN rsp_payload(cmd) ELSE rData
      /\ rValid' <=> (cmd_ready(cmd) \/ rValid) /\ ~InMem
  BY Pipeline, Progress, Zenon
<1>3. in_flight' = InMem'
  BY <1>2 DEF InMem, Answered
<1>4. ASSUME Answered
      PROVE  rValid' /\ Answers(Sent, rData)'
  <2>1. rValid'
    BY <1>2, <1>4, AnswersAreApart DEF Answered
  <2>2. n = Sent + 1 /\ ex.op = Sent + 1 /\ n \in 1 .. Len(Program) /\ Sent \in Nat
    <3>1. InEx
      BY <1>4, CommandIsSafe DEF IInv, Answered
    <3>2. ex.op = Sent + 1 /\ ex.op \in 1 .. Len(Program) /\ Sent \in 0 .. Len(Program)
      BY <3>1, Instruction
    <3>3. n = Sent + 1
      BY <1>1, <1>4, Progress, Zenon
    <3> QED
      BY <3>2, <3>3
  <2>3. PICK value : value = rData'
    OBVIOUS
  <2>4. Answers(n, value)
    <3>1. Program[n] = Op /\ StateAfter[n-1] = Now
      <4>1. n = ex.op /\ n - 1 = Sent
        BY <2>2
      <4> QED
        BY <4>1, Zenon DEF Op, Now
    <3>2. HasResult(Op) => value = Result(Now, Op)
      BY <1>2, <1>4, <2>3, AnswerIsResult
    <3> QED
      BY <3>1, <3>2, Zenon DEF Answers
  <2>5. Answers(n, value)'
    BY <2>2, <2>4, Progress, Zenon
  <2> QED
    BY <1>1, <2>1, <2>3, <2>5, Zenon DEF Answers
<1> QED
  BY <1>2, <1>3, <1>4, Zenon DEF BusInv

-----------------------------------------------------------------------------
(* The invariant.                                                          *)

(* After reset the stages are empty and the CFU is idle.                   *)
LEMMA Initially ==
  ASSUME Init
  PROVE  IInv
<1>1. /\ program \in Programs /\ pc = 1 /\ ex = Bubble /\ mem = Bubble /\ wb = Bubble
      /\ ~hold /\ ~fired /\ in_flight = FALSE /\ ~rValid
      /\ retired = << >> /\ gap = MinGap
  BY DEF Init, PluginInit
<1>2. Bubble.kind = "plain" /\ ~HasSideEffect(Bubble)
  BY DEF Bubble, Other, HasSideEffect
<1>3. InMem = FALSE /\ InEx = FALSE
  BY <1>1, <1>2 DEF InMem, InEx
<1>4. Len(Program) \in Nat /\ MinGap \in Nat
  BY <1>1, ProgramsAssumption DEF Program, MinGap
<1>5. Sent = 0 /\ Done = 0
  BY <1>1, <1>3 DEF Sent, Done
<1>6. OrderInv
  <2>1. retired = [k \in 1 .. 0 |-> retired[k]]
    BY <1>1
  <2> QED
    BY <1>1, <1>3, <1>4, <1>5, <2>1 DEF OrderInv
<1>7. StagesInv
  BY <1>1, <1>2, <1>3, <1>4 DEF StagesInv, Kinds
<1>8. BusInv
  BY <1>1, <1>3 DEF BusInv
<1>9. Now = ResetState
  BY <1>4, <1>5, Sequentially, Zenon DEF Now
<1>10. CfuInv
  BY <1>1, <1>3, <1>5, <1>9
     DEF Init, CfuInit, CfuInv, Idle, Executed, OperandsAreNow, ResetState
<1> QED
  BY <1>6, <1>7, <1>8, <1>10 DEF IInv

(* Every step keeps the invariant.                                         *)
LEMMA Inductive ==
  ASSUME IInv, SafePrograms, [Next]_vars
  PROVE  IInv'
<1>1. CASE UNCHANGED vars
  <2>1. UNCHANGED <<cfuVars, pluginVars>>
    BY <1>1 DEF vars
  <2> USE <2>1 DEF cfuVars, pluginVars
  <2>2. program' = program /\ Program' = Program /\ Sent' = Sent /\ Len(Program) \in Nat
    BY Instruction DEF Program, Sent, InMem, Done
  <2>3. \A k \in 0 .. Len(Program) : StateAfter'[k] = StateAfter[k]
    BY <2>2, SameProgram
  <2>4. Now' = Now
    BY <2>2, <2>3, Instruction DEF Now
  <2>5. \A k \in 1 .. Len(Program) : \A value : Answers(k, value)' = Answers(k, value)
    <3>1. SUFFICES ASSUME NEW k \in 1 .. Len(Program), NEW value
                   PROVE  Answers(k, value)' = Answers(k, value)
      OBVIOUS
    <3>2. StateAfter'[k-1] = StateAfter[k-1]
      BY <2>2, <2>3
    <3> QED
      BY <2>2, <3>2, Zenon DEF Answers
  <2>6. InMem' = InMem /\ InEx' = InEx /\ Op' = Op /\ Executed' = Executed /\ Done' = Done
    BY <2>2 DEF InMem, InEx, Op, Executed, Done
  <2> QED
    <3>1. OrderInv'
      <4>1. (\A k \in 1 .. Done : retired[k].op = k /\ Answers(k, retired[k].value))'
        <5>1. SUFFICES ASSUME NEW k \in 1 .. Done
                       PROVE  retired'[k].op = k /\ Answers(k, retired[k].value)'
          BY <2>6
        <5>2. PICK value : value = retired[k].value
          OBVIOUS
        <5>3. k \in 1 .. Len(Program)
          BY <2>2, Instruction DEF IInv, OrderInv, Sent
        <5>4. retired[k].op = k /\ Answers(k, value)
          BY <5>2 DEF IInv, OrderInv
        <5>5. Answers(k, value)'
          BY <2>5, <5>3, <5>4, Zenon
        <5> QED
          BY <5>2, <5>4, <5>5 DEF Answers
      <4> QED
        BY <2>2, <2>6, <4>1 DEF IInv, OrderInv
    <3>2. StagesInv'
      BY <2>6 DEF IInv, StagesInv, MinGap, hazard, HasSideEffect
    <3>3. BusInv'
      <4>1. InMem => Sent \in 1 .. Len(Program) /\ Answers(Sent, rData)
        BY <2>2, Instruction DEF IInv, BusInv, OrderInv, Sent
      <4>2. PICK n : n = Sent
        OBVIOUS
      <4>3. PICK value : value = rData
        OBVIOUS
      <4>4. InMem => Answers(n, value)'
        BY <2>5, <4>1, <4>2, <4>3, Zenon
      <4>5. InMem => Answers(Sent, rData)'
        BY <2>2, <4>2, <4>3, <4>4, Zenon DEF Answers
      <4> QED
        BY <2>6, <4>5 DEF IInv, BusInv
    <3>4. CfuInv'
      BY <2>4, <2>6 DEF IInv, CfuInv, Idle, Answering, Preparing, Computing, Over,
         OperandsAreNow, Stored, Product, Word
    <3> QED
      BY <3>1, <3>2, <3>3, <3>4 DEF IInv
<1>2. ASSUME NEW access \in BOOLEAN, NEW redo \in BOOLEAN, NEW dividing \in BOOLEAN,
             NEW finish \in BOOLEAN, NEW w \in Word, Clk(access, redo, dividing, finish, w)
      PROVE  IInv'
  <2>1. PluginClk(access, redo, dividing, cmd_ready(cmd), rsp) /\ SimdClk(cmd)
    BY <1>2, Zenon DEF Clk, CfuClk
  <2>2. OrderInv' /\ StagesInv' /\ BusInv'
    BY <2>1, OrderKept, StagesKept, BusKept
  <2>3. (Idle \/ Answering \/ Preparing \/ Computing \/ Over)'
    <3>1. Idle \/ Answering \/ Preparing \/ Computing \/ Over
      BY DEF IInv, CfuInv
    <3> QED
      BY <1>2, <3>1, FromIdle, FromAnswering, FromPreparing, FromComputing, FromOver, Zenon
  <2>4. CfuInv'
    BY <2>1, <2>3, SimdKept, Zenon DEF CfuInv
  <2> QED
    BY <2>2, <2>4, Zenon DEF IInv
<1> QED
  BY <1>1, <1>2 DEF Next


(* The invariant holds: the CFU has computed what sequential execution has *)
(* up to the last answer, and one answer at most is on its way.            *)
THEOREM InvariantHolds == SafePrograms => (Spec => []IInv)
<1>1. Init => IInv
  BY Initially
<1>2. SafePrograms /\ IInv /\ [Next]_vars => IInv'
  BY Inductive
<1>3. SUFFICES ASSUME SafePrograms PROVE Spec => []IInv
  OBVIOUS
<1>4. IInv /\ [Next]_vars => IInv'
  BY <1>2, <1>3
<1> QED
  BY <1>1, <1>4, PTL DEF Spec

(* Every custom instruction of cfu.v gives the result it has when the      *)
(* program is executed one instruction at a time, although an operand is   *)
(* stored a cycle late and commands wait, or are flushed, behind loads.    *)
THEOREM SequentialResults == SafePrograms => (Spec => []ResultsCorrect)
<1>1. IInv => ResultsCorrect
  BY DEF IInv, OrderInv, ResultsCorrect, Answers, Done
<1> QED
  BY <1>1, InvariantHolds, PTL

(* Responses reach the instructions they answer, in program order, although *)
(* cfu.v also answers, when it leaves CAL, without being asked.            *)
THEOREM OrderHolds == SafePrograms => (Spec => []ResponsesInOrder)
<1>1. IInv => ResponsesInOrder
  BY DEF IInv, OrderInv, ResponsesInOrder, Done
<1> QED
  BY <1>1, InvariantHolds, PTL

(* A command that has been sent is never flushed, whatever load misses the *)
(* cache.                                                                  *)
THEOREM NothingFlushed == SafePrograms => (Spec => []CommandsAreFinal)
<1>1. IInv => CommandsAreFinal
  <2>1. SUFFICES ASSUME IInv PROVE CommandsAreFinal
    OBVIOUS
  <2>2. StagesInv
    BY <2>1 DEF IInv
  <2>3. cmd_valid => ex.kind = "cfu"
    BY <2>2, CommandIsSafe DEF InEx
  <2>4. HasSideEffect(wb) => ~fired /\ ~hold /\ mem.kind # "cfu"
    BY <2>2 DEF StagesInv, hazard, InMem
  <2> QED
    BY <2>3, <2>4 DEF CommandsAreFinal
<1> QED
  BY <1>1, InvariantHolds, PTL

(* Once Stall has left the processor the TPU is not working: the buffers   *)
(* are the processor's until the next Execute.                             *)
THEOREM StallHolds == SafePrograms => (Spec => []StallWaits)
<1>1. SafePrograms /\ IInv => StallWaits
  <2>1. SUFFICES ASSUME SafePrograms, IInv, retired # << >>,
                        Program[Len(retired)].f7 = Stall, tpu_busy
                 PROVE  \E k \in Len(retired)+1 .. pc-1 : Program[k].f7 = Execute
    BY DEF StallWaits
  <2>2. Executed
    BY <2>1 DEF IInv, CfuInv, Idle, Answering, Preparing, Computing, Over
  <2>3. Done \in Nat /\ Sent \in Nat /\ (pc = Sent + 1 \/ pc = Sent + 2)
    BY <2>1, Instruction DEF IInv, OrderInv
  <2>4. Sent # Done
    BY <2>1, <2>2 DEF Executed, Done, Stall, Execute
  <2>5. Sent = Done + 1 /\ Sent \in Done + 1 .. pc - 1
    BY <2>3, <2>4 DEF Sent
  <2>6. Program[Sent].f7 = Execute
    BY <2>2 DEF Executed
  <2> QED
    BY <2>5, <2>6 DEF Done
<1>2. SUFFICES ASSUME SafePrograms PROVE Spec => []StallWaits
  OBVIOUS
<1>3. IInv => StallWaits
  BY <1>1, <1>2
<1> QED
  BY <1>2, <1>3, InvariantHolds, PTL
=============================================================================

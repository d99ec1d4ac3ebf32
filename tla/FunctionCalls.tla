---------------------------- MODULE FunctionCalls ----------------------------
(***************************************************************************)
(* Calls of the functions of the program that compute something, one after *)
(* another, with what each returns.  All of them take one step but         *)
(* perf_get_mcycle64, which reads the two halves of a counter that goes on *)
(* counting.                                                               *)
(***************************************************************************)
EXTENDS DeviceArithmetic, TrainingUtils

CONSTANTS
  DenseLayers,      \* fully connected layers: [weights |-> , input |-> ]
  Rows,        \* convolutions of a row: [input |-> , filter |-> ]
  Offsets,     \* offsets of the input
  Bits,        \* width of the registers that are divided
  StackWords,  \* words of the interrupted program's stack, above and below its top
  Half,        \* values of one half of the cycle counter, 2^32 in the processor
  MaxSamples, MaxWorld,
  MaxSide      \* of an image

ASSUME HalfAssumption == Half \in Nat \ {0}
ASSUME BitsAssumption == Bits \in Nat \ {0} /\ StackWords \subseteq 0..(2^Bits - 1)

\* A layer fits into the 64x64 scratch arrays of the kernel, and the offset is
\* that of an 8-bit zero point.
ASSUME LayersAssumption ==
  \A layer \in DenseLayers : \E M, K \in 1..64 :
    /\ layer.weights \in [1..M -> [1..K -> -128..127]]
    /\ layer.input \in [1..K -> -128..127]

\* Points have the channels of the filter.  Positions fit the comparison of 16 bits,
\* and the products of a row the accumulator of 32 (65536 * 32640 < 2^31).
RowSides == 1..16384
RowPoints(X, D) == [1..X -> [1..D -> -128..127]]
IsRow(row, X, F, D) == /\ X \in RowSides /\ F \in RowSides /\ D \in Nat \ {0} /\ F * D <= 65536
                       /\ row.input \in RowPoints(X, D) /\ row.filter \in RowPoints(F, D)
ASSUME RowsAssumption ==
  \A row \in Rows : IsRow(row, Len(row.input), Len(row.filter), Len(row.filter[1]))
ASSUME OffsetsAssumption == Offsets \subseteq -127..128

VARIABLES call, result, mcycle
vars == <<call, result, mcycle>>

None == [of |-> "none"]

Init == call = None /\ result = {} /\ mcycle = 0

Returns(c, r) == call' = c /\ result' = r /\ UNCHANGED mcycle

-----------------------------------------------------------------------------
CallFullyConnected ==
  /\ call = None
  /\ \E layer \in DenseLayers, offset \in Offsets :
       Returns([of |-> "fully_connected", layer |-> layer, offset |-> offset],
               FullyConnected(layer.weights, layer.input, offset))

CallConv ==
  /\ call = None
  /\ \E row \in Rows, offset \in Offsets, stride \in 1..2, pad \in 0..2, dilation \in 1..2, out_x \in 0..2 :
       /\ out_x * stride - pad < Len(row.input)
       /\ Returns([of |-> "conv", row |-> row, offset |-> offset, first |-> out_x * stride - pad,
                   dilation |-> dilation],
                  ConvRow(row.input, row.filter, out_x, stride, pad, dilation, offset))

\* Registers 0 and 2 are zero and the stack pointer: their words are the stack's.
CallTrap ==
  /\ call = None
  /\ \E op \in {"mul", "div", "divu", "rem", "remu"}, rd \in 0..3, rs1 \in 0..3, rs2 \in 0..3,
        a \in 0..(2^Bits - 1), b \in 0..(2^Bits - 1), top \in StackWords, under \in StackWords :
       LET frame == [r \in 0..3 |-> CASE r = 0 -> top [] r = 1 -> a [] r = 2 -> under [] r = 3 -> b]
       IN \E after \in DivInstructionHandler(op, rd, rs1, rs2, frame, Bits) :
            Returns([of |-> "trap", op |-> op, rd |-> rd, rs1 |-> rs1, rs2 |-> rs2, frame |-> frame], after)

\* The assertion of the padded length fails if it would be more than doubled.
CallSampler ==
  /\ call = None
  /\ \E n \in 1..MaxSamples, reps \in 1..3, world \in 1..MaxWorld, chunk \in 1..3 :
       /\ num_samples(n, reps, world) * world <= 2 * n * reps
       /\ Returns([of |-> "RASampler", n |-> n, reps |-> reps, world |-> world, chunk |-> chunk],
                  [rank \in 0..(world - 1) |-> RepeatedShard(n, reps, rank, world, chunk)])

CallCutMix ==
  /\ call = None
  /\ \E W \in 1..MaxSide, H \in 1..MaxSide, k \in 0..5 : \E rx \in 0..(W - 1), ry \in 0..(H - 1) :
       Returns([of |-> "RandomCutMix", W |-> W, H |-> H], CutBox(W, H, rx, ry, k, 5))

-----------------------------------------------------------------------------
(* perf_get_mcycle64 *)

High(cycles) == cycles \div Half
Low(cycles) == cycles % Half
LastCycle == Half * Half - 1

CallCycles ==
  /\ call = None
  /\ \E now \in mcycle..LastCycle :
       /\ mcycle' = now
       /\ call' = [of |-> "perf_get_mcycle64", since |-> now]
       /\ result' = [next |-> "mcycleh", high |-> 0, low |-> 0]

ReadHigh ==
  /\ call.of = "perf_get_mcycle64" /\ result.next = "mcycleh"
  /\ result' = [result EXCEPT !.next = "mcycle", !.high = High(mcycle)]
  /\ UNCHANGED <<call, mcycle>>

ReadLow ==
  /\ call.of = "perf_get_mcycle64" /\ result.next = "mcycle"
  /\ result' = [result EXCEPT !.next = "mcycleh again", !.low = Low(mcycle)]
  /\ UNCHANGED <<call, mcycle>>

\* Mutant: one try only.
ReadHighAgain_Once ==
  /\ call.of = "perf_get_mcycle64" /\ result.next = "mcycleh again"
  /\ result' = [result EXCEPT !.next = "bne"]
  /\ UNCHANGED <<call, mcycle>>

\* Read again, and try again if it has changed.
ReadHighAgain ==
  /\ call.of = "perf_get_mcycle64" /\ result.next = "mcycleh again"
  /\ result' = [result EXCEPT !.next = IF High(mcycle) = result.high THEN "bne" ELSE "mcycleh"]
  /\ UNCHANGED <<call, mcycle>>

Tick ==
  /\ call.of = "perf_get_mcycle64" /\ result.next # "bne" /\ mcycle < LastCycle
  /\ mcycle' = mcycle + 1
  /\ UNCHANGED <<call, result>>

\* The counter starts from zero again only so that the next call finds any value.
Return ==
  /\ call # None
  /\ call.of = "perf_get_mcycle64" => result.next = "bne"
  /\ call' = None /\ result' = {} /\ mcycle' = 0

Next ==
  \/ CallFullyConnected \/ CallConv \/ CallTrap \/ CallSampler \/ CallCutMix
  \/ CallCycles \/ ReadHigh \/ ReadLow \/ ReadHighAgain \/ Tick
  \/ Return

Spec == Init /\ [][Next]_vars

-----------------------------------------------------------------------------
\* The TPU computes the layer's sums, but where the offset is negative: of those
\* its 8-bit port takes away the sign, and only a row of weights whose sum is
\* zero has the right sum.
FullyConnectedIsExact ==
  call.of = "fully_connected" =>
    \A m \in DOMAIN result :
      LET row == call.layer.weights[m]
      IN result[m] = Total([k \in DOMAIN row |-> row[k] * (call.layer.input[k] + call.offset)])
         <=> call.offset >= 0 \/ Total(row) = 0

\* The SIMD unit, with its 9-bit offset and 16-bit products, computes the
\* convolution of the row with the zero point on both sides of it.
ConvolutionIsExact ==
  call.of = "conv" =>
    LET padded(x) == IF x \in 0..(Len(call.row.input) - 1) THEN call.row.input[x + 1]
                     ELSE [c \in DOMAIN call.row.filter[1] |-> -call.offset]
        term(fx, c) == (padded(call.first + call.dilation * (fx - 1))[c] + call.offset) * call.row.filter[fx][c]
    IN result = Total([fx \in DOMAIN call.row.filter |->
                         Total([c \in DOMAIN call.row.filter[fx] |-> term(fx, c)])])

\* Whatever division is trapped, the word of rd in the frame gets the quotient or
\* remainder, as the M extension has it, of the words of rs1 and rs2: the quotient
\* rounds towards zero, is -1 for a divisor of zero, and wraps at its limit.  No other
\* word changes, and none in a multiplication.  It is the instruction of the ISA only
\* if it names neither x0 nor sp: for those the words are the stack's, of which the one
\* on top is overwritten if rd is x0.  Of a remainder of zero, which is the library's,
\* nothing is said but that it stays in its word (div_instruction_handler, trap_entry).
DivisionsInFrame ==
  call.of = "trap" =>
    LET signed == call.op \in {"div", "rem"}
        word(r) == IF signed THEN Signed(call.frame[r], Bits) ELSE call.frame[r]
        a == word(call.rs1)
        b == word(call.rs2)
        value == IF signed THEN Signed(result[call.rd], Bits) ELSE result[call.rd]
    IN /\ \A r \in DOMAIN call.frame : r # call.rd \/ call.op = "mul" => result[r] = call.frame[r]
       /\ call.op \in {"div", "divu"} =>
            \/ b = 0 /\ result[call.rd] = 2^Bits - 1
            \/ b # 0 /\ Abs(a - value * b) < Abs(b) /\ (a - value * b) * a >= 0
            \/ a = -2^(Bits - 1) /\ b = -1 /\ value = a
       /\ call.op \in {"rem", "remu"} /\ b # 0 =>
            /\ Abs(value) < Abs(b) /\ value * a >= 0
            /\ \E q \in -2^Bits..2^Bits : a = q * b + value

\* RASampler: as long as there are as many processes as repetitions (and samples
\* as processes, for the padding is taken from the samples once), what an epoch
\* selects never gives one process two copies of a sample, and all processes get
\* as many.
CopiesApart ==
  call.of = "RASampler" /\ call.reps <= call.world /\ call.world <= call.n =>
    \A r \in DOMAIN result :
      /\ \A i, j \in DOMAIN result[r] : result[r][i] = result[r][j] => i = j
      /\ Len(result[r]) = num_selected_samples(call.n, call.world, call.chunk)

\* RandomCutMix: the share of the label given to the other image is the share of
\* its pixels, wherever the box is cut off by the edge of the image.
LabelsMatchPixels ==
  call.of = "RandomCutMix" =>
    /\ Pasted(result) \subseteq (0..(call.W - 1)) \X (0..(call.H - 1))
    /\ OtherLabel(result) = Cardinality(Pasted(result))

\* perf_get_mcycle64 returns a value the counter had during the call, although
\* its low half may overflow between any two of the reads.
CyclesAreOfTheCall ==
  call.of = "perf_get_mcycle64" /\ result.next = "bne" =>
    result.high * Half + result.low \in call.since..mcycle
=============================================================================

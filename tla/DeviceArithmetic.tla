--------------------------- MODULE DeviceArithmetic ---------------------------
(***************************************************************************)
(* What the kernels and the trap handler compute, with the widths of their *)
(* registers: the fully connected kernel through the TPU, the convolution  *)
(* kernel through the SIMD unit, and the divisions of the M extension in   *)
(* software.  Vectors are sequences of bytes, -128..127.                   *)
(***************************************************************************)
EXTENDS Integers, Sequences, Folds, Functions

Signed(x, bits) ==
  LET u == x % 2^bits IN IF u >= 2^(bits-1) THEN u - 2^bits ELSE u

CeilDiv4(n) == (n + 3) \div 4

Total(f) == FoldFunction(+, 0, f)

-----------------------------------------------------------------------------
(* fully_connected.h: output_depth rows of accum_depth weights, and the     *)
(* same number of inputs.                                                   *)

\* A byte that nobody chose: what lies behind the end of filter_data.
Unknown == 10^6

\* Four bytes are copied at a time, from the flat filter data.
Scratch(weights) ==
  LET K == Len(weights[1])
      flat(i) == IF i < Len(weights) * K THEN weights[(i \div K) + 1][(i % K) + 1] ELSE Unknown
  IN [m \in 0..63 |-> [k \in 0..63 |->
        IF m < Len(weights) /\ k < 4 * CeilDiv4(K) THEN flat(m * K + k) ELSE 0]]

\* send_blockA: word depth holds column k of the rows m to m + 3.
\* Mutant: the words of a row of blocks start anew for every m.
BlockA_Overlapping(weights) ==
  LET K == Len(weights[1])
      S == Scratch(weights)
  IN [depth \in 0..(CeilDiv4(Len(weights)) * K - 1) |->
        [lane \in 0..3 |-> S[depth \div 4 + lane][depth % K]]]

BlockA(weights) ==
  LET K == Len(weights[1])
      S == Scratch(weights)
  IN [depth \in 0..(CeilDiv4(Len(weights)) * K - 1) |->
        [lane \in 0..3 |-> S[(depth \div K) * 4 + lane][depth % K]]]

\* PE: the offset has come through an 8-bit port, without its sign.  The sum of
\* at most 64 such products is far from the limits of 32 bits.
Multi(left, top, offset) == ((offset % 256) + top) * left

\* Row m of the result, which receive_blockC reads.
FullyConnected(weights, input, offset) ==
  LET K == Len(input)
      A == BlockA(weights)
  IN [m \in 1..Len(weights) |->
        Total([k \in 1..K |-> Multi(A[((m-1) \div 4) * K + k - 1][(m-1) % 4], input[k], offset)])]

\* Words of buffers A, B and C that a layer takes.
WordsA(output_depth, accum_depth) == CeilDiv4(output_depth) * accum_depth
WordsB(accum_depth) == accum_depth
WordsC(output_depth) == output_depth

-----------------------------------------------------------------------------
(* conv.h, along one row of the image: input[x] and filter[x] are the       *)
(* vectors of channels.                                                     *)

\* is_a_ge_zero_and_a_lt_b, of integers that wide.
InImage(a, b, bits) == (a % 2^bits) < (b % 2^bits)

\* One lane of instruction 6: a product of 16 bits, of a sum with the 9-bit offset.
\* Mutant: the offset register is as wide as a byte.
SimdProduct_ByteOffset(x, f, offset) == Signed((x + Signed(offset, 8)) * f, 16)

SimdProduct(x, f, offset) == Signed((x + Signed(offset, 9)) * f, 16)

SimdProducts(in, f, offset) == Total([i \in DOMAIN in |-> SimdProduct(in[i], f[i], offset)])

\* The channels four at a time; the left-over ones with zeros in the other lanes.
Lanes(v, i) == [lane \in 0..3 |-> IF i + lane <= Len(v) THEN v[i + lane] ELSE 0]
Pixel(v, f, offset) ==
  Total([i \in {j \in 1..Len(v) : j % 4 = 1} |-> SimdProducts(Lanes(v, i), Lanes(f, i), offset)])

ConvRow(input, filter, out_x, stride, pad, dilation, offset) ==
  LET in_x(fx) == out_x * stride - pad + dilation * fx
      inside == {fx \in 0..(Len(filter) - 1) : InImage(in_x(fx), Len(input), 16)}
  IN Total([fx \in inside |-> Pixel(input[in_x(fx) + 1], filter[fx + 1], offset)])

-----------------------------------------------------------------------------
(* instruction_handler.cc.  The frame that trap_entry leaves: the value of  *)
(* every register, but in the place of x0 the word that was on top of the   *)
(* interrupted program's stack, and in the place of sp what lay there.      *)

Abs(x) == IF x < 0 THEN -x ELSE x
Sign(x) == IF x < 0 THEN -1 ELSE 1

\* __divdi3 and __moddi3 round towards zero.
Quotient(a, b) == Sign(a) * Sign(b) * (Abs(a) \div Abs(b))
Remainder(a, b) == Sign(a) * (Abs(a) % Abs(b))

\* The values rd may get: __moddi3 and __umoddi3 of zero are not defined.
\* Mutant: div and divu without their test for zero.
Divided_Unchecked(op, src1, src2, bits) ==
  IF src2 = 0 THEN 0..(2^bits - 1)
  ELSE CASE op = "div"  -> {Quotient(Signed(src1, bits), Signed(src2, bits)) % 2^bits}
         [] op = "divu" -> {Quotient(src1, src2)}
         [] op = "rem"  -> {Remainder(Signed(src1, bits), Signed(src2, bits)) % 2^bits}
         [] op = "remu" -> {Remainder(src1, src2)}

Divided(op, src1, src2, bits) ==
  IF src2 = 0 THEN IF op \in {"div", "divu"} THEN {2^bits - 1} ELSE 0..(2^bits - 1)
  ELSE CASE op = "div"  -> {Quotient(Signed(src1, bits), Signed(src2, bits)) % 2^bits}
         [] op = "divu" -> {Quotient(src1, src2)}
         [] op = "rem"  -> {Remainder(Signed(src1, bits), Signed(src2, bits)) % 2^bits}
         [] op = "remu" -> {Remainder(src1, src2)}

\* The frames after an instruction of the M extension; the multiplications fall
\* through the switch.
DivInstructionHandler(op, rd, rs1, rs2, frame, bits) ==
  IF op \in {"div", "divu", "rem", "remu"}
  THEN {[frame EXCEPT ![rd] = value] : value \in Divided(op, frame[rs1], frame[rs2], bits)}
  ELSE {frame}
=============================================================================

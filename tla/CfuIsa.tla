------------------------------- MODULE CfuIsa -------------------------------
(***************************************************************************)
(* What the custom instructions of cfu.v compute when they are executed    *)
(* one after the other: the meaning the kernels rely on (fully_connected.h *)
(* and conv.h).  An instruction is [f3, f7, in0, in1], the fields of a     *)
(* cfu_op0 call.                                                           *)
(*                                                                         *)
(* Data is symbolic: a matrix product is named by the operands it was      *)
(* computed from and the accumulator of the SIMD unit is the sequence of   *)
(* the multiply-adds since it was cleared.                                 *)
(***************************************************************************)
EXTENDS Integers, Sequences

CONSTANT Depth    \* words in each of the buffers A, B and C

ASSUME DepthAssumption == Depth \in Nat \ {0}

Execute == 0
WriteA  == 1
WriteB  == 2
ReadC   == 3
Stall   == 4
SetZero == 5
Mac     == 6
SetOffset == 7

(* The instructions answered by the SIMD unit in the cycle they arrive.    *)
Immediate == {SetZero, Mac, SetOffset}

Word == 0 .. Depth-1
Index(in1) == in1 % Depth

(* A word or register, and a word of C, that nothing has written yet.      *)
Unset == -1
UnsetRow == [A |-> << >>, B |-> << >>, job |-> Unset, offset |-> Unset, word |-> Unset]

(* The contents of C after a job: in0 packs K, M and N, in1 is the offset, *)
(* of which the TPU has an 8-bit port.                                     *)
Product(A, B, in0, in1) ==
  [w \in Word |-> [A |-> A, B |-> B, job |-> in0, offset |-> in1 % 256, word |-> w]]

(* A result is the accumulator or one of the 4 columns of a word of C.     *)
Sum(products) == [sum |-> products]
Column(row, in0) == [row |-> row, column |-> in0 % 4]

ResetState ==
  [A |-> [w \in Word |-> Unset],
   B |-> [w \in Word |-> Unset],
   C |-> [w \in Word |-> UnsetRow],
   acc |-> << >>,
   offset |-> Unset]

MultiplyAdd(s, op) == Append(s.acc, <<op.in0, op.in1, s.offset>>)

Effect(s, op) ==
  CASE op.f7 = Execute   -> [s EXCEPT !.C = Product(s.A, s.B, op.in0, op.in1)]
    [] op.f7 = WriteA    -> [s EXCEPT !.A[Index(op.in1)] = op.in0]
    [] op.f7 = WriteB    -> [s EXCEPT !.B[Index(op.in1)] = op.in0]
    [] op.f7 = SetZero   -> [s EXCEPT !.acc = << >>]
    [] op.f7 = Mac       -> [s EXCEPT !.acc = MultiplyAdd(s, op)]
    [] op.f7 = SetOffset -> [s EXCEPT !.offset = op.in0 % 512]
    [] OTHER             -> s

(* The instructions whose result the kernels use, and the result.          *)
HasResult(op) == op.f7 \in {ReadC, SetZero, Mac}

Result(s, op) ==
  CASE op.f7 = ReadC   -> Column(s.C[Index(op.in1)], op.in0)
    [] op.f7 = SetZero -> Sum(<< >>)
    [] op.f7 = Mac     -> Sum(MultiplyAdd(s, op))
=============================================================================

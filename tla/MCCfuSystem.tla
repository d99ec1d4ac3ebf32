----------------------------- MODULE MCCfuSystem -----------------------------
EXTENDS CfuSystem

Op(f7, in0, in1) == [f3 |-> 0, f7 |-> f7, in0 |-> in0, in1 |-> in1]

(* fully_connected.h: FullyConnected, two blocks of operands, the second   *)
(* replacing the first.                                                    *)
Block(a, b) ==
  << Op(WriteA, a, 0), Op(WriteA, a+1, 1), Op(WriteB, b, 0), Op(WriteB, b+1, 1),
     Op(Execute, 9, 3), Op(Stall, 0, 0), Op(ReadC, 0, 0), Op(ReadC, 0, 1) >>

FullyConnected == Block(11, 21) \o Block(31, 41)

(* conv.h: ConvPerChannel, two output values.                              *)
Conv ==
  << Op(SetOffset, 5, 0),
     Op(SetZero, 0, 0), Op(Mac, 1, 2), Op(Mac, 3, 4),
     Op(SetZero, 0, 0), Op(Mac, 5, 6) >>

NoDivision == {"plain", "load"}
AllFillers == {"plain", "load", "div"}

FullyConnectedProgram == [ops |-> FullyConnected, fillers |-> NoDivision, gap |-> 0]
ConvProgram           == [ops |-> Conv, fillers |-> NoDivision, gap |-> 1]
Kernels               == {FullyConnectedProgram, ConvProgram}

(* With divisions.                                                        *)
ConvWithDivision == {[ConvProgram EXCEPT !.fillers = AllFillers]}
=============================================================================

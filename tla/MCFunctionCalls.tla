--------------------------- MODULE MCFunctionCalls ---------------------------
(* Up to five rows of up to five weights, and rows of up to three points of    *)
(* up to five channels: all bytes different, or all of one extreme value.      *)
EXTENDS FunctionCalls

Mixed == 0  \* stands for bytes that are all different
ByteAt(b, i, j) == IF b = Mixed THEN ((37 * i + 11 * j) % 256) - 128 ELSE b
Matrix(b, n, m) == [i \in 1..n |-> [j \in 1..m |-> ByteAt(b, i, j)]]
ZeroSum == << <<1, -1>>, <<5, 3>> >>

LayerSet ==
  {[weights |-> Matrix(w, M, K), input |-> Matrix(x, 1, K)[1]] :
     w \in {Mixed, -128}, x \in {Mixed, 127}, M \in 1..5, K \in 1..5}
  \cup {[weights |-> ZeroSum, input |-> <<7, -9>>]}
RowSet ==
  {[input |-> Matrix(x, X, D), filter |-> Matrix(f, F, D)] :
     x \in {-128, 127}, f \in {Mixed, -128, 127}, X \in 1..3, F \in 1..3, D \in {1, 4, 5}}
OffsetSet == {-127, -1, 0, 128}
=============================================================================

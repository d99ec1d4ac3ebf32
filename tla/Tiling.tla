------------------------------- MODULE Tiling -------------------------------
(***************************************************************************)
(* The geometry of a matrix product on the TPU of cfu.v, shared by the     *)
(* abstract specification and the register-level one.                      *)
(*                                                                         *)
(* C = A * B for A of M rows, B of N columns and inner dimension K, cut    *)
(* into tiles of 4 rows by 4 columns: word m*K+k of buffer A holds element *)
(* k of the 4 rows of row tile m, word n*K+k of B element k of the 4       *)
(* columns of column tile n, and word n*M+r of C the 4 results of row r in *)
(* column tile n.                                                          *)
(***************************************************************************)
EXTENDS Integers

CONSTANTS
  Jobs,    \* the (K, M, N) that the processor asks for
  Depth    \* words in each of the buffers A, B and C

ASSUME DepthAssumption == Depth \in Nat \ {0}
ASSUME JobsAssumption ==
  Jobs \subseteq [K : 0 .. 255, M : 0 .. 255, N : 0 .. 255]

Dim == 4
Lane == 0 .. Dim-1

NoJob == [K |-> 0, M |-> 0, N |-> 0]

Tiles(size) == size \div Dim + (IF size % Dim = 0 THEN 0 ELSE 1)

(* The words of C a job stores, those past M of the last row tile included.*)
StoredWords(j) == (Tiles(j.N) - 1) * j.M + Dim * Tiles(j.M)

NonEmpty(j) == j.K > 0 /\ j.M > 0 /\ j.N > 0

(* The job is not empty, and the last words of A and B it reads and the    *)
(* last it stores in C exist.                                              *)
Fits(j) ==
  /\ NonEmpty(j)
  /\ Tiles(j.M) * j.K <= Depth
  /\ Tiles(j.N) * j.K <= Depth
  /\ StoredWords(j) <= Depth

(* Result l of row r of column tile t: element k of row r of A times       *)
(* element k of column 4*t+l of B plus the offset, once for every k.       *)
DotProduct(j, t, r) ==
  [k \in 1 .. j.K |-> [a |-> (r \div Dim) * j.K + k-1,
                       b |-> t * j.K + k-1, offset |-> TRUE]]

(* Buffer C holds the whole product of job j.                              *)
HoldsProduct(C, j) ==
  \A t \in 0 .. Tiles(j.N)-1, r \in 0 .. j.M-1, l \in Lane :
    C[t * j.M + r][l] = DotProduct(j, t, r)
=============================================================================

-------------------------------- MODULE MCTpu --------------------------------
(* Every alignment of M with the tile size, one and two tiles per side,    *)
(* one and several words per tile, and one job too large for the buffers.  *)
(* No empty job: one of K = 0 adds products for ever.                      *)
EXTENDS Tpu

MCJob(k, rows, cols) == [K |-> k, M |-> rows, N |-> cols]

MCJobs ==
  { MCJob(1, 1, 9), MCJob(2, 5, 5), MCJob(5, 3, 1), MCJob(1, 4, 4),
    MCJob(9, 6, 1) }
=============================================================================

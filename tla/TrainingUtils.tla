---------------------------- MODULE TrainingUtils ----------------------------
(***************************************************************************)
(* The helpers of the training scripts that compute something: the two     *)
(* samplers that split a data set among the processes (sampler.py and the  *)
(* library's DistributedSampler), the meters of utils.py and their sums    *)
(* over all processes, and the boxes and labels of transforms.py.  Samples *)
(* are the numbers 1..n in the order of the shuffle; processes are         *)
(* 0..world - 1.                                                           *)
(***************************************************************************)
EXTENDS Integers, Sequences, FiniteSets, FiniteSetsExt, SequencesExt

CeilDiv(a, b) == (a + b - 1) \div b

\* indices[rank : total_size : num_replicas]
\* Mutant: one stretch after another.
Strided_Stretches(s, rank, world) ==
  [i \in 1..CeilDiv(Len(s) - rank, world) |-> s[rank * (Len(s) \div world) + i]]

Strided(s, rank, world) ==
  [i \in 1..CeilDiv(Len(s) - rank, world) |-> s[rank + 1 + (i - 1) * world]]

-----------------------------------------------------------------------------
\* DistributedSampler of the library: the first samples again at the end, so
\* that every process gets as many.
DistributedShard(n, rank, world) ==
  LET total == CeilDiv(n, world) * world
  IN Strided([i \in 1..total |-> ((i - 1) % n) + 1], rank, world)

\* RASampler: every sample repetitions times, padded, split, and cut to the
\* number of samples of one epoch, a multiple of chunk in all.
num_samples(n, reps, world) == CeilDiv(n * reps, world)
num_selected_samples(n, world, chunk) == ((n \div chunk) * chunk) \div world

RepeatedIndices(n, reps, world) ==
  LET repeated == [i \in 1..(n * reps) |-> CeilDiv(i, reps)]
      extra == num_samples(n, reps, world) * world - n * reps
  IN repeated \o SubSeq(repeated, 1, extra)

RepeatedShard(n, reps, rank, world, chunk) ==
  LET all == Strided(RepeatedIndices(n, reps, world), rank, world)
  IN SubSeq(all, 1, IF num_selected_samples(n, world, chunk) < Len(all)
                    THEN num_selected_samples(n, world, chunk) ELSE Len(all))

-----------------------------------------------------------------------------
\* SmoothedValue, as evaluate uses it: the accuracy of a batch, weighted with
\* the size of the batch, is the number of its samples that are right.  Then
\* the sums over all processes.

EmptyMeter == [count |-> 0, total |-> 0]
\* Mutant: every batch counts once, as evaluate does with the loss.
Update_Unweighted(meter, batch, right) ==
  [count |-> meter.count + 1,
   total |-> meter.total + Cardinality({i \in DOMAIN batch : batch[i] \in right})]

Update(meter, batch, right) ==
  [count |-> meter.count + Len(batch),
   total |-> meter.total + Cardinality({i \in DOMAIN batch : batch[i] \in right})]
Synchronized(meters) ==
  LET sum(f(_)) == FoldFunction(LAMBDA m, n : f(m) + n, 0, meters)
  IN [count |-> sum(LAMBDA m : m.count), total |-> sum(LAMBDA m : m.total)]

\* The batches of a process.
Batches(s, size) ==
  [b \in 1..CeilDiv(Len(s), size) |->
     SubSeq(s, (b - 1) * size + 1, IF b * size < Len(s) THEN b * size ELSE Len(s))]
EvaluateShard(s, right, size) ==
  FoldLeft(LAMBDA meter, batch : Update(meter, batch, right), EmptyMeter, Batches(s, size))

\* evaluate: global_avg after synchronize_between_processes, as a fraction.
Evaluate(n, right, world, size) ==
  Synchronized([r \in 0..(world - 1) |-> EvaluateShard(DistributedShard(n, r, world), right, size)])

-----------------------------------------------------------------------------
\* RandomCutMix: the box around <<rx, ry>> with half sides int(r * W) and
\* int(r * H), r = k / (2 * steps), clamped to the image.
\* Mutant: the lower edges are not clamped.
CutBox_Unclamped(W, H, rx, ry, k, steps) ==
  LET half(n) == (k * n) \div (2 * steps)
      above(a, n) == IF a > n THEN n ELSE a
  IN [x1 |-> rx - half(W), x2 |-> above(rx + half(W), W),
      y1 |-> ry - half(H), y2 |-> above(ry + half(H), H)]

CutBox(W, H, rx, ry, k, steps) ==
  LET half(n) == (k * n) \div (2 * steps)
      below(a) == IF a < 0 THEN 0 ELSE a
      above(a, n) == IF a > n THEN n ELSE a
  IN [x1 |-> below(rx - half(W)), x2 |-> above(rx + half(W), W),
      y1 |-> below(ry - half(H)), y2 |-> above(ry + half(H), H)]

\* batch[:, :, y1:y2, x1:x2] = batch_rolled: the pixels of the other image.
Pasted(box) == (box.x1..(box.x2 - 1)) \X (box.y1..(box.y2 - 1))

\* 1 - lambda_param as a number of pixels: what the other image's label gets.
OtherLabel(box) == (box.x2 - box.x1) * (box.y2 - box.y1)
=============================================================================

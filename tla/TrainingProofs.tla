--------------------------- MODULE TrainingProofs ---------------------------
(***************************************************************************)
(* For any numbers of processes, epochs and crashes: a job started again   *)
(* goes on as if it had not been interrupted (ImplementsEpochLog), and     *)
(* jobs fail for no other reasons than those RestartsWork names.  The      *)
(* accuracy counts every sample (AccuracyCountsAll), and the best model of *)
(* a launch is kept (BestSinceLaunch).                                     *)
(*                                                                         *)
(* What a process holds is a function of the number of epochs it has been  *)
(* trained for (ProcessInv), what a file holds of the number in its name   *)
(* (DiskInv).  The files model_{epoch}.pth that are whole are those of the *)
(* first epochs, up to the one the master is at (TrainInv), for it writes   *)
(* them one after the other, each before the checkpoint.pth of its epoch.  *)
(***************************************************************************)
EXTENDS Training, Sums, SequenceTheorems

-----------------------------------------------------------------------------
\* The state after n epochs without interruption.

EpochRecord(e) == [epoch |-> e, lr |-> e, shuffle |-> e]
NetAfter(n) == [i \in 1..n |-> EpochRecord(i - 1)]
EmaAfter(n) == [n |-> IF n <= Warmup THEN 0 ELSE n - Warmup,
                of |-> IF n = 0 THEN {} ELSE IF n <= Warmup THEN {n - 1} ELSE Warmup..(n - 1)]

ProcAfter(n, pc, epoch, first, best) ==
  [pc |-> pc, epoch |-> epoch, first |-> first, net |-> NetAfter(n), lr |-> n, ema |-> EmaAfter(n),
   best |-> best]

\* The checkpoint of epoch e.
CheckpointOf(pruned, e) ==
  [kind |-> "checkpoint", net |-> NetAfter(e + 1), lr |-> e + 1, epoch |-> e,
   ema |-> EmaAfter(e + 1), pruned |-> pruned]
The(e) == CheckpointOf(job.pruned, e)

\* What a launch starts from when k epochs are saved.
ResumeOf(k) == IF k = 0 THEN IF job.pruned THEN PrunedModel ELSE NoFile ELSE The(k - 1)

-----------------------------------------------------------------------------
\* The inductive invariant.

Loading == {"train data", "cache train", "val data", "cache val", "create", "dead"}
Looping == {"epoch", "done"}
Saving == {"save model", "saving model", "save checkpoint", "saving checkpoint",
           "best", "saving best"}

JobInv ==
  /\ script \in {"train", "quantization"}
  /\ job \in [world : Worlds, model : {"torchvision", "resnet8"}, cache : BOOLEAN, pruned : BOOLEAN]
  /\ job.pruned => script = "train" /\ job.model = "resnet8"
  /\ crashes \in Nat
  /\ resume \in {ResumeOf(0)} \cup {The(e) : e \in Epochs}

Trained(p) == IF p.pc \in Loading THEN 0 ELSE IF p.pc \in Saving THEN p.epoch + 1 ELSE p.epoch

IsProcess(p) ==
  /\ p.pc \in Loading \cup Looping \cup Saving
  /\ p.epoch \in 0..NumEpochs
  /\ p.pc \in Saving => p.epoch < NumEpochs
  /\ p = ProcAfter(Trained(p), p.pc, p.epoch, p.first, p.best)
ProcessInv == /\ proc = [r \in Ranks |-> proc[r]]
              /\ \A r \in Ranks : IsProcess(proc[r])

DiskInv ==
  /\ disk = [checkpoint |-> disk.checkpoint, best |-> disk.best, model |-> disk.model,
             cache |-> disk.cache]
  /\ disk.model = [e \in Epochs |-> disk.model[e]]
  /\ \A e \in Epochs : disk.model[e] \in {NoFile, Torn, The(e)}
  /\ disk.checkpoint \in {NoFile, Torn} \cup {The(e) : e \in Epochs}

\* The epochs of which model_{epoch}.pth is whole are the first k.
Kept(models, k) == \A e \in Epochs : IsCheckpoint(models[e]) <=> e < k

WholeInv == \A e \in Epochs : The(e) \in {disk.checkpoint, resume} => IsCheckpoint(disk.model[e])

\* Before and after the master has written the model of its epoch.
Firsts == Looping \cup {"save model", "saving model"}
Lasts == Saving \ {"save model", "saving model"}

MasterInv ==
  /\ proc[0].pc \in Firsts => Kept(disk.model, proc[0].epoch)
  /\ proc[0].pc \in Lasts => Kept(disk.model, proc[0].epoch + 1)
  /\ proc[0].pc \in Loading \ {"dead"} => \E k \in 0..NumEpochs : Kept(disk.model, k) /\ resume = ResumeOf(k)

TrainInv == WholeInv /\ (\E k \in 0..NumEpochs : Kept(disk.model, k)) /\ MasterInv

InLoop == \A r \in Ranks : proc[r].pc \in Looping \cup Saving

\* Where a job whose network can be run is in its launch.
PlaceInv == /\ (\E r \in Ranks : proc[r].pc \in Saving) => InLoop
            /\ crashes = 0 => ~IsCheckpoint(resume) /\ (Checkpoints # {} => InLoop)

RestartInv == (~NoForward => PlaceInv) /\ RestartsWork

IInv == JobInv /\ ProcessInv /\ DiskInv /\ TrainInv /\ RestartInv

-----------------------------------------------------------------------------
\* Training for one more epoch.

\* A process that has been trained for no epoch has what Fresh says.
LEMMA FreshIsZero ==
  NetAfter(0) = <<>> /\ EmaAfter(0) = [n |-> 0, of |-> {}]
<1> USE TrainingAssumption DEF TrainingAssumption
<1>1. NetAfter(0) = <<>>
  BY DEF NetAfter
<1>2. EmaAfter(0) = [n |-> 0, of |-> {}]
  BY DEF EmaAfter
<1> QED
  BY <1>1, <1>2

\* The list of the epochs grows at its end.
LEMMA NetGrows ==
  ASSUME NEW n \in Nat
  PROVE  /\ Append(NetAfter(n), EpochRecord(n)) = NetAfter(n + 1)
         /\ Len(NetAfter(n)) = n
<1>1. /\ NetAfter(n) = [i \in 1..n |-> EpochRecord(i - 1)]
      /\ NetAfter(n + 1) = [i \in 1..(n + 1) |-> EpochRecord(i - 1)]
  BY DEF NetAfter
<1>2. Len(NetAfter(n)) = n
  BY <1>1
<1> QED
  BY <1>1, <1>2

\* AverageOver steps from the moving average after n epochs to the next.
LEMMA EmaGrows ==
  ASSUME NEW n \in Nat
  PROVE  AverageOver(EmaAfter(n), n) = EmaAfter(n + 1)
<1> USE TrainingAssumption DEF TrainingAssumption
<1>1. Warmup \in Nat
  OBVIOUS
<1>2. AverageOver(EmaAfter(n), n) =
        [n |-> IF n < Warmup THEN 0 ELSE EmaAfter(n).n + 1,
         of |-> IF EmaAfter(n).n = 0 THEN {n} ELSE EmaAfter(n).of \cup {n}]
  BY DEF AverageOver
<1>5. EmaAfter(n + 1) = [n |-> EmaAfter(n + 1).n, of |-> EmaAfter(n + 1).of]
  BY DEF EmaAfter
<1>3. CASE n <= Warmup
  <2>1. EmaAfter(n).n = 0
    BY <1>3 DEF EmaAfter
  <2>2. EmaAfter(n + 1).n = IF n < Warmup THEN 0 ELSE 1
    BY <1>1, <1>3 DEF EmaAfter
  <2>3. EmaAfter(n + 1).of = {n}
    BY <1>1, <1>3 DEF EmaAfter
  <2> QED
    BY <1>2, <1>5, <2>1, <2>2, <2>3
<1>4. CASE n > Warmup
  <2>1. EmaAfter(n).n = n - Warmup /\ EmaAfter(n).n # 0 /\ EmaAfter(n).of = Warmup..(n - 1)
    BY <1>1, <1>4 DEF EmaAfter
  <2>2. EmaAfter(n + 1).n = n + 1 - Warmup /\ EmaAfter(n + 1).of = Warmup..n
    BY <1>1, <1>4 DEF EmaAfter
  <2>3. (Warmup..(n - 1)) \cup {n} = Warmup..n
    BY <1>1, <1>4
  <2>4. ~(n < Warmup) /\ n - Warmup + 1 = n + 1 - Warmup
    BY <1>1, <1>4
  <2>5. (IF n < Warmup THEN 0 ELSE EmaAfter(n).n + 1) = EmaAfter(n + 1).n
    BY <2>1, <2>2, <2>4
  <2>6. (IF EmaAfter(n).n = 0 THEN {n} ELSE EmaAfter(n).of \cup {n}) = EmaAfter(n + 1).of
    BY <2>1, <2>2, <2>3
  <2> QED
    BY <1>2, <1>5, <2>5, <2>6, Zenon
<1> QED
  BY <1>1, <1>3, <1>4

-----------------------------------------------------------------------------
\* What each step makes of a process.

\* A step that only moves the program counter within one phase, or from the
\* loading into the loop with epoch 0, keeps what the process holds.
LEMMA Moves ==
  ASSUME NEW p, IsProcess(p), NEW to,
         \/ p.pc \in Loading /\ to \in Loading
         \/ p.pc \in Loading /\ p.epoch = 0 /\ to \in Looping
         \/ p.pc \in Looping /\ to \in Looping
         \/ p.pc \in Saving /\ to \in Saving
  PROVE  /\ IsProcess([p EXCEPT !.pc = to])
         /\ [p EXCEPT !.pc = to].pc = to
         /\ [p EXCEPT !.pc = to].epoch = p.epoch
<1> DEFINE q == [p EXCEPT !.pc = to]
<1>1. p = ProcAfter(Trained(p), p.pc, p.epoch, p.first, p.best)
  BY DEF IsProcess
<1>2. /\ q.pc = to /\ q.epoch = p.epoch /\ q.first = p.first /\ q.best = p.best
      /\ q = ProcAfter(Trained(p), to, p.epoch, p.first, p.best)
  BY <1>1 DEF ProcAfter
<1>3. Trained(q) = Trained(p)
  <2> HIDE DEF q
  <2> QED
    BY <1>2 DEF Trained, Loading, Looping, Saving
<1> SUFFICES IsProcess(q) /\ q.pc = to /\ q.epoch = p.epoch
  OBVIOUS
<1> HIDE DEF q
<1> QED
  BY <1>2, <1>3 DEF IsProcess, Loading, Looping, Saving

\* A process that starts anew, wherever its program counter is.
LEMMA Starts ==
  ASSUME NEW to \in Loading \cup Looping
  PROVE  /\ IsProcess(Fresh) /\ IsProcess([Fresh EXCEPT !.pc = to])
         /\ [Fresh EXCEPT !.pc = to].pc = to
         /\ [Fresh EXCEPT !.pc = to].epoch = 0
<1>1. Fresh = ProcAfter(0, "train data", 0, 0, 0)
  BY FreshIsZero, Zenon DEF Fresh, ProcAfter
<1>2. Fresh.pc = "train data"
  BY DEF Fresh
<1>3. Fresh.epoch = 0 /\ Fresh.first = 0 /\ Fresh.best = 0
  BY DEF Fresh
<1>4. Fresh.pc \in Loading /\ Fresh.pc \notin Saving
  BY <1>2 DEF Loading, Saving
<1>5. Trained(Fresh) = 0
  BY <1>4 DEF Trained
<1>6. Fresh = ProcAfter(Trained(Fresh), Fresh.pc, Fresh.epoch, Fresh.first, Fresh.best)
  BY <1>1, <1>2, <1>3, <1>5, Zenon
<1>7. Fresh.epoch \in 0..NumEpochs
  BY <1>3, TrainingAssumption DEF TrainingAssumption
<1>8. IsProcess(Fresh)
  BY <1>4, <1>6, <1>7, Zenon DEF IsProcess
<1>9. CASE to \in Loading
  BY <1>3, <1>4, <1>8, <1>9, Moves
<1>10. CASE to \in Looping
  BY <1>3, <1>4, <1>8, <1>10, Moves
<1> QED
  BY <1>8, <1>9, <1>10

\* From a checkpoint.
LEMMA Resumes ==
  ASSUME NEW f, NEW pruned, NEW e \in Epochs, f = CheckpointOf(pruned, e)
  PROVE  /\ IsProcess(Resumed(f))
         /\ Resumed(f).pc = "epoch" /\ Resumed(f).epoch = e + 1
<1> DEFINE q == Resumed(f)
<1>1. f.epoch = e /\ f.net = NetAfter(e + 1) /\ f.lr = e + 1 /\ f.ema = EmaAfter(e + 1)
  BY DEF CheckpointOf
<1>2. PICK p : p = Fresh
  OBVIOUS
<1>3. p = ProcAfter(0, "train data", 0, 0, 0)
  BY <1>2, FreshIsZero, Zenon DEF Fresh, ProcAfter
<1>4. q = [p EXCEPT !.pc = "epoch", !.epoch = e + 1, !.first = e + 1,
                    !.net = NetAfter(e + 1), !.lr = e + 1, !.ema = EmaAfter(e + 1)]
  BY <1>1, <1>2, Zenon DEF Resumed
<1>6. q = ProcAfter(e + 1, "epoch", e + 1, e + 1, 0)
  BY <1>3, <1>4 DEF ProcAfter
<1>7. q.pc = "epoch"
  BY <1>6 DEF ProcAfter
<1>8. q.epoch = e + 1 /\ q.first = e + 1 /\ q.best = 0
  BY <1>6 DEF ProcAfter
<1> SUFFICES IsProcess(q)
  BY <1>7, <1>8
<1> HIDE DEF q
<1>9. q.pc \in Looping /\ q.pc \notin Saving /\ q.pc \notin Loading
  BY <1>7 DEF Looping, Loading, Saving
<1>10. Trained(q) = e + 1
  BY <1>8, <1>9 DEF Trained
<1>11. q.epoch \in 0..NumEpochs
  BY <1>8, TrainingAssumption DEF TrainingAssumption, Epochs
<1>12. q = ProcAfter(Trained(q), q.pc, q.epoch, q.first, q.best)
  BY <1>6, <1>7, <1>8, <1>10, Zenon
<1> QED
  BY <1>9, <1>11, <1>12, Zenon DEF IsProcess

\* An epoch.
AfterEpoch(p) ==
  [p EXCEPT !.pc = "save model", !.net = Append(p.net, TrainedBy(p)),
            !.lr = p.lr + 1, !.ema = AverageOver(p.ema, p.epoch)]

\* One epoch of training makes of a process what one more epoch makes.
LEMMA Trains ==
  ASSUME NEW p, IsProcess(p), p.pc = "epoch", p.epoch < NumEpochs
  PROVE  /\ IsProcess(AfterEpoch(p))
         /\ AfterEpoch(p).pc = "save model" /\ AfterEpoch(p).epoch = p.epoch
<1> DEFINE n == p.epoch
           q == AfterEpoch(p)
<1>1. p.pc \in Looping /\ p.pc \notin Saving /\ p.pc \notin Loading
  BY DEF Looping, Loading, Saving
<1>2. p = ProcAfter(n, "epoch", n, p.first, p.best) /\ n \in Nat
  <2>1. Trained(p) = n
    BY <1>1 DEF Trained
  <2>2. n \in Nat
    BY DEF IsProcess
  <2> QED
    BY <2>1, <2>2, Zenon DEF IsProcess
<1>3. p.net = NetAfter(n) /\ p.lr = n /\ p.ema = EmaAfter(n)
  BY <1>2 DEF ProcAfter
<1>5. TrainedBy(p) = EpochRecord(n)
  BY <1>2, <1>3, Zenon DEF TrainedBy, EpochRecord
<1>6. /\ Append(p.net, TrainedBy(p)) = NetAfter(n + 1)
      /\ AverageOver(p.ema, p.epoch) = EmaAfter(n + 1)
  BY <1>2, <1>3, <1>5, NetGrows, EmaGrows
<1>8. q = [p EXCEPT !.pc = "save model", !.net = NetAfter(n + 1), !.lr = n + 1,
                    !.ema = EmaAfter(n + 1)]
  BY <1>3, <1>6, Zenon DEF AfterEpoch
<1>9. q = ProcAfter(n + 1, "save model", n, p.first, p.best)
  BY <1>2, <1>8 DEF ProcAfter
<1> SUFFICES IsProcess(q) /\ q.pc = "save model" /\ q.epoch = p.epoch
  OBVIOUS
<1> HIDE DEF q
<1>10. q.pc = "save model"
  BY <1>9 DEF ProcAfter
<1>11. q.epoch = n /\ q.first = p.first /\ q.best = p.best
  BY <1>9 DEF ProcAfter
<1>12. q.pc \in Saving /\ q.pc \notin Loading
  BY <1>10 DEF Loading, Saving
<1>13. Trained(q) = n + 1
  BY <1>11, <1>12 DEF Trained
<1>14. q = ProcAfter(Trained(q), q.pc, q.epoch, q.first, q.best)
  BY <1>9, <1>10, <1>11, <1>13, Zenon
<1>15. q.epoch \in 0..NumEpochs /\ q.epoch < NumEpochs
  BY <1>11 DEF IsProcess
<1> QED
  BY <1>10, <1>11, <1>12, <1>14, <1>15, Zenon DEF IsProcess

\* The end of an epoch.
Ended(p, q, b) == \/ q = [p EXCEPT !.pc = "epoch", !.epoch = p.epoch + 1]
                  \/ q = [p EXCEPT !.pc = "epoch", !.best = b, !.epoch = p.epoch + 1]
                  \/ q = [p EXCEPT !.pc = "saving best", !.best = b, !.epoch = p.epoch]

Follows(p, q) == /\ IsProcess(q)
                    /\ \/ q.pc = "epoch" /\ q.epoch = p.epoch + 1
                       \/ q.pc = "saving best" /\ q.epoch = p.epoch

\* Whatever becomes of the best accuracy, a process goes on with the next epoch,
\* or first saves the best model.
LEMMA Ends ==
  ASSUME NEW p, IsProcess(p), p.pc \in Saving, NEW b, NEW q, Ended(p, q, b)
  PROVE  Follows(p, q)
<1>1. p.pc \notin Loading
  BY DEF Saving, Loading
<1>2. Trained(p) = p.epoch + 1 /\ p.epoch \in Nat /\ p.epoch < NumEpochs
  BY <1>1 DEF Trained, IsProcess
<1>3. p = ProcAfter(Trained(p), p.pc, p.epoch, p.first, p.best)
  BY Zenon DEF IsProcess
<1>6. PICK m, pc, e, f, c : p = ProcAfter(m, pc, e, f, c) /\ m = p.epoch + 1 /\ f = p.first
  BY <1>2, <1>3
<1>4. ASSUME NEW c2, q = ProcAfter(p.epoch + 1, "epoch", p.epoch + 1, p.first, c2)
      PROVE  IsProcess(q) /\ q.pc = "epoch" /\ q.epoch = p.epoch + 1
  <2>2. q.pc = "epoch"
    BY <1>4 DEF ProcAfter
  <2>3. q.epoch = p.epoch + 1 /\ q.first = p.first /\ q.best = c2
    BY <1>4 DEF ProcAfter
  <2>4. q.pc \in Looping /\ q.pc \notin Saving /\ q.pc \notin Loading
    BY <2>2 DEF Looping, Loading, Saving
  <2>5. Trained(q) = p.epoch + 1
    BY <2>3, <2>4 DEF Trained
  <2>6. q = ProcAfter(Trained(q), q.pc, q.epoch, q.first, q.best)
    BY <1>4, <2>2, <2>3, <2>5, Zenon
  <2>7. q.epoch \in 0..NumEpochs
    BY <1>2, <2>3, TrainingAssumption DEF TrainingAssumption
  <2> QED
    BY <2>2, <2>3, <2>4, <2>6, <2>7, Zenon DEF IsProcess
<1>5. CASE q = [p EXCEPT !.pc = "saving best", !.best = b, !.epoch = p.epoch]
  <2>1. q = ProcAfter(p.epoch + 1, "saving best", p.epoch, p.first, b)
    <3>1. PICK d : d = p.epoch
      OBVIOUS
    <3>2. q = [p EXCEPT !.pc = "saving best", !.best = b, !.epoch = d]
      BY <1>5, <3>1
    <3>3. q = ProcAfter(m, "saving best", d, f, b)
      BY <1>6, <3>2 DEF ProcAfter
    <3> QED
      BY <1>6, <3>1, <3>3
  <2>2. q.pc = "saving best"
    BY <2>1 DEF ProcAfter
  <2>3. q.epoch = p.epoch /\ q.first = p.first /\ q.best = b
    BY <2>1 DEF ProcAfter
  <2>4. q.pc \in Saving /\ q.pc \notin Loading
    BY <2>2 DEF Loading, Saving
  <2>5. Trained(q) = p.epoch + 1
    BY <2>3, <2>4 DEF Trained
  <2>6. q = ProcAfter(Trained(q), q.pc, q.epoch, q.first, q.best)
    BY <2>1, <2>2, <2>3, <2>5, Zenon
  <2>7. q.epoch \in 0..NumEpochs /\ q.epoch < NumEpochs
    BY <1>2, <2>3, TrainingAssumption DEF TrainingAssumption
  <2> QED
    BY <2>2, <2>3, <2>4, <2>6, <2>7, Zenon DEF IsProcess, Follows
<1>7. CASE q = [p EXCEPT !.pc = "epoch", !.best = b, !.epoch = p.epoch + 1]
  <2>1. PICK d : d = p.epoch + 1
    OBVIOUS
  <2>2. q = [p EXCEPT !.pc = "epoch", !.best = b, !.epoch = d]
    BY <1>7, <2>1
  <2>3. q = ProcAfter(m, "epoch", d, f, b)
    BY <1>6, <2>2 DEF ProcAfter
  <2>4. IsProcess(q) /\ q.pc = "epoch" /\ q.epoch = p.epoch + 1
    BY <1>4, <1>6, <2>1, <2>3
  <2> QED
    BY <2>4, Zenon DEF Follows
<1>8. CASE q = [p EXCEPT !.pc = "epoch", !.epoch = p.epoch + 1]
  <2>1. PICK d : d = p.epoch + 1
    OBVIOUS
  <2>2. q = [p EXCEPT !.pc = "epoch", !.epoch = d]
    BY <1>8, <2>1
  <2>3. q = ProcAfter(m, "epoch", d, f, c)
    BY <1>6, <2>2 DEF ProcAfter
  <2>4. IsProcess(q) /\ q.pc = "epoch" /\ q.epoch = p.epoch + 1
    BY <1>4, <1>6, <2>1, <2>3
  <2> QED
    BY <2>4, Zenon DEF Follows
<1> QED
  BY <1>5, <1>7, <1>8, Zenon DEF Ended, Follows

-----------------------------------------------------------------------------
\* The files.

\* Which files are checkpoints, and that a checkpoint knows its epoch.
LEMMA Kinds ==
  /\ ~IsCheckpoint(NoFile) /\ ~IsCheckpoint(Torn) /\ ~IsCheckpoint(ResumeOf(0))
  /\ \A e : IsCheckpoint(The(e)) /\ The(e).epoch = e
<1>1. ~IsCheckpoint(NoFile) /\ ~IsCheckpoint(Torn) /\ ~IsCheckpoint(PrunedModel)
  BY DEF IsCheckpoint, NoFile, Torn, PrunedModel
<1>2. ASSUME NEW e
      PROVE  IsCheckpoint(The(e)) /\ The(e).epoch = e
  BY DEF IsCheckpoint, The, CheckpointOf
<1> QED
  BY <1>1, <1>2, Zenon DEF ResumeOf

-----------------------------------------------------------------------------
\* What no step changes.

\* The arguments are those of the first launch, but for the cache.
LEMMA JobFixed ==
  ASSUME JobInv, Next
  PROVE  /\ script' = script /\ job'.world = job.world /\ job'.model = job.model
         /\ job'.pruned = job.pruned
         /\ job' \in [world : Worlds, model : {"torchvision", "resnet8"}, cache : BOOLEAN, pruned : BOOLEAN]
         /\ Ranks' = Ranks /\ 0 \in Ranks
         /\ \A e : The(e)' = The(e)
<1>1. UNCHANGED <<script, job>> \/ Relaunch
  BY Zenon DEF Next, Job, Rank, MissingArguments, LoadFromCache, BuildDataset, CacheSaved, CreateModel,
     NotMaster, EndEpoch, Finish, Epoch, SaveModel, SaveCheckpoint, BestSaved, Crash, Raise, Step
<1>2. script' = script /\ (job' = job \/ \E c : job' = [job EXCEPT !.cache = job.cache /\ c])
  BY <1>1, Zenon DEF Relaunch
<1>3. /\ job'.world = job.world /\ job'.model = job.model /\ job'.pruned = job.pruned
      /\ job' \in [world : Worlds, model : {"torchvision", "resnet8"}, cache : BOOLEAN, pruned : BOOLEAN]
  BY <1>2 DEF JobInv
<1>4. job.world \in Worlds
  BY DEF JobInv
<1>5. job.world \in Nat \ {0}
  BY <1>4, TrainingAssumption, Zenon DEF TrainingAssumption
<1>6. PICK w : w = job.world /\ w = job'.world
  BY <1>3
<1>7. Ranks' = Ranks /\ 0 \in Ranks
  BY <1>5, <1>6 DEF Ranks
<1> QED
  BY <1>2, <1>3, <1>7 DEF The

-----------------------------------------------------------------------------
\* What a step does to the processes.

Moved(r, from, to, e) == /\ proc[r].pc = from /\ proc'[r].pc = to /\ proc'[r].epoch = e
                         /\ \A t \in Ranks \ {r} : proc'[t] = proc[t]

\* A process that gets another state, of which one knows that it fits.
LEMMA OneMoves ==
  ASSUME ProcessInv, Ranks' = Ranks, NEW r \in Ranks, NEW q, IsProcess(q),
         proc' = [proc EXCEPT ![r] = q]
  PROVE  ProcessInv' /\ proc'[r] = q /\ \A t \in Ranks \ {r} : proc'[t] = proc[t]
<1>1. proc' = [t \in Ranks |-> proc'[t]] /\ proc'[r] = q /\ \A t \in Ranks \ {r} : proc'[t] = proc[t]
  BY DEF ProcessInv
<1>2. ASSUME NEW t \in Ranks
      PROVE  IsProcess(proc'[t])
  BY <1>1, Zenon DEF ProcessInv
<1>3. IsProcess(proc'[r])
  BY <1>2
<1> QED
  <2>1. ASSUME NEW t \in Ranks
        PROVE  IsProcess(proc'[t])
    BY <1>2, Zenon
  <2> QED
    BY <1>1, <2>1, Zenon DEF ProcessInv

\* All processes get another state at once.
LEMMA AllMove ==
  ASSUME Ranks' = Ranks, NEW f, f = [r \in Ranks |-> f[r]],
         \A r \in Ranks : IsProcess(f[r]), proc' = f
  PROVE  ProcessInv'
  BY Zenon DEF ProcessInv

\* A step that only changes the files, within one phase.
LEMMA StepMoves ==
  ASSUME ProcessInv, Ranks' = Ranks, NEW r \in Ranks, NEW from, NEW to, NEW files,
         Step(r, from, to, files),
         {from, to} \subseteq Loading \/ {from, to} \subseteq Looping \/ {from, to} \subseteq Saving
  PROVE  ProcessInv' /\ Moved(r, from, to, proc[r].epoch)
<1>1. PICK p : p = proc[r]
  OBVIOUS
<1>2. p.pc = from /\ IsProcess(p)
  BY <1>1, Zenon DEF Step, At, ProcessInv
<1>3. PICK q : q = [p EXCEPT !.pc = to]
  OBVIOUS
<1>4. proc' = [proc EXCEPT ![r] = q]
  BY <1>1, <1>3 DEF Step, Goto
<1>5. IsProcess(q) /\ q.pc = to /\ q.epoch = p.epoch
  BY <1>2, <1>3, Moves
<1> QED
  BY <1>1, <1>2, <1>4, <1>5, OneMoves, Zenon DEF Moved

SameFiles == disk'.model = disk.model /\ disk'.checkpoint = disk.checkpoint

\* Nothing fails.
Quiet == UNCHANGED <<job, resume, raised, crashes>>

Failed ==
  \/ NoForward /\ Raise("shapes")
  \/ /\ \E r \in Ranks : proc[r].pc \in Loading
     /\ \/ job.cache /\ Raise("torn cache")
        \/ NotAModel /\ Raise("not a model")
        \/ script = "quantization" /\ Raise("no argument")

Effect ==
  \/ (Crash \/ Failed) /\ (\A r \in Ranks : proc'[r].pc = "dead") /\ SameFiles
  \/ Relaunch /\ (\A r \in Ranks : proc'[r].pc = "train data") /\ SameFiles
  \/ /\ Quiet /\ SameFiles
     /\ \/ \E r \in Ranks, from \in Loading \ {"dead"}, to \in Loading \ {"dead"} :
             Moved(r, from, to, proc[r].epoch)
        \/ \E r \in Ranks :
             \/ Moved(r, "create", "epoch", IF IsCheckpoint(resume) THEN resume.epoch + 1 ELSE 0)
             \/ r # 0 /\ Moved(r, "save model", "best", proc[r].epoch)
             \/ Moved(r, "best", "saving best", proc[r].epoch)
             \/ Moved(r, "best", "epoch", proc[r].epoch + 1)
             \/ Moved(r, "saving best", "epoch", proc[r].epoch + 1)
             \/ Moved(r, "epoch", "done", proc[r].epoch)
        \/ \A r \in Ranks : /\ proc[r].pc = "epoch" /\ proc'[r].pc = "save model"
                            /\ proc'[r].epoch = proc[r].epoch
  \/ Quiet /\ SaveModel /\ proc[0].epoch \in Epochs
     /\ \/ Moved(0, "save model", "saving model", proc[0].epoch)
        \/ Moved(0, "saving model", "save checkpoint", proc[0].epoch)
  \/ Quiet /\ SaveCheckpoint /\ proc[0].epoch \in Epochs
     /\ \/ Moved(0, "save checkpoint", "saving checkpoint", proc[0].epoch)
        \/ Moved(0, "saving checkpoint", "best", proc[0].epoch)

\* The steps of load_data.
LEMMA LoadingMoves ==
  ASSUME ProcessInv, DiskInv, Ranks' = Ranks, NEW r \in Ranks, NEW from, NEW to, NEW files,
         Step(r, from, to, files), {from, to} \subseteq Loading \ {"dead"},
         files = disk \/ \E c : files = [disk EXCEPT !.cache = c]
  PROVE  ProcessInv' /\ Effect
<1>1. ProcessInv' /\ Moved(r, from, to, proc[r].epoch)
  BY StepMoves, Zenon
<1>2. disk' = files /\ Quiet
  BY DEF Step, Quiet
<1>3. SameFiles
  BY <1>2 DEF DiskInv, SameFiles
<1> QED
  BY <1>1, <1>2, <1>3, Zenon DEF Effect

\* An exception or a kill ends all processes.
LEMMA DeathKeeps ==
  ASSUME Ranks' = Ranks, Crash \/ Failed
  PROVE  ProcessInv' /\ Effect
<1>0. proc' = AllDead /\ disk' = disk
  BY Zenon DEF Crash, Failed, Raise
<1>1. \A r \in Ranks : IsProcess(AllDead[r]) /\ AllDead[r].pc = "dead"
  BY Starts DEF AllDead, Loading
<1>2. AllDead = [r \in Ranks |-> AllDead[r]]
  BY DEF AllDead
<1>3. ProcessInv'
  BY <1>0, <1>1, <1>2, AllMove, Zenon
<1>4. \A r \in Ranks : proc'[r].pc = "dead"
  BY <1>0, <1>1
<1> QED
  BY <1>0, <1>3, <1>4 DEF Effect, SameFiles

\* While a process saves, its epoch is one of those to train.
LEMMA MasterSaves ==
  ASSUME ProcessInv, NEW r \in Ranks, proc[r].pc \in Saving
  PROVE  proc[r].epoch \in Epochs
  BY TrainingAssumption DEF ProcessInv, IsProcess, Epochs, TrainingAssumption

\* Every step of the job has one of the effects listed in Effect.
LEMMA Effects ==
  ASSUME JobInv, ProcessInv, DiskInv, Next
  PROVE  ProcessInv' /\ Effect
<1> USE JobFixed
<1>1. ASSUME NEW r \in Ranks, NEW part \in Parts, LoadFromCache(r, part)
      PROVE  ProcessInv' /\ Effect
  <2>1. CASE Step(r, Before(part), After(part), disk)
    <3>1. {Before(part), After(part)} \subseteq Loading \ {"dead"}
      BY DEF Before, After, Loading
    <3> QED
      BY <2>1, <3>1, LoadingMoves
  <2>2. CASE Raise("torn cache")
    <3>1. proc[r].pc \in Loading /\ job.cache
      BY <1>1 DEF LoadFromCache, At, Before, Loading
    <3> QED
      BY <2>2, <3>1, DeathKeeps, Zenon DEF Failed
  <2> QED
    BY <1>1, <2>1, <2>2 DEF LoadFromCache
<1>2. ASSUME NEW r \in Ranks, NEW part \in Parts, BuildDataset(r, part)
      PROVE  ProcessInv' /\ Effect
  <2>1. {Before(part), After(part), Caching(part)} \subseteq Loading \ {"dead"}
    BY DEF Before, After, Caching, Loading
  <2>2. CASE Step(r, Before(part), After(part), disk)
    BY <2>1, <2>2, LoadingMoves
  <2>3. CASE Step(r, Before(part), Caching(part), [disk EXCEPT !.cache[part] = Torn])
    <3>1. PICK c : [disk EXCEPT !.cache[part] = Torn] = [disk EXCEPT !.cache = c]
      OBVIOUS
    <3> QED
      BY <2>1, <2>3, <3>1, LoadingMoves
  <2> QED
    BY <1>2, <2>2, <2>3 DEF BuildDataset
<1>3. ASSUME NEW r \in Ranks, NEW part \in Parts, CacheSaved(r, part)
      PROVE  ProcessInv' /\ Effect
  <2>1. {After(part), Caching(part)} \subseteq Loading \ {"dead"}
    BY DEF After, Caching, Loading
  <2>2. PICK c : [disk EXCEPT !.cache[part] = Dataset] = [disk EXCEPT !.cache = c]
    OBVIOUS
  <2> QED
    BY <1>3, <2>1, <2>2, LoadingMoves DEF CacheSaved
<1>4. ASSUME NEW r \in Ranks, CreateModel(r)
      PROVE  ProcessInv' /\ Effect
  <2>1. CASE NotAModel /\ Raise("not a model")
    <3>1. proc[r].pc \in Loading
      BY <1>4 DEF CreateModel, At, Loading
    <3> QED
      BY <2>1, <3>1, DeathKeeps, Zenon DEF Failed
  <2>2. ASSUME disk' = disk /\ Quiet, At(r, "create"), NEW q, proc' = [proc EXCEPT ![r] = q],
               IsProcess(q), q.pc = "epoch",
               q.epoch = IF IsCheckpoint(resume) THEN resume.epoch + 1 ELSE 0
        PROVE  ProcessInv' /\ Effect
    <3>1. ProcessInv' /\ Moved(r, "create", "epoch", IF IsCheckpoint(resume) THEN resume.epoch + 1 ELSE 0)
      BY <2>2, OneMoves, Zenon DEF Moved, At
    <3> QED
      BY <2>2, <3>1, Zenon DEF Effect, SameFiles
  <2>3. CASE proc' = [proc EXCEPT ![r] = Resumed(resume)] /\ IsCheckpoint(resume)
             /\ disk' = disk /\ Quiet
    <3>1. PICK e \in Epochs : resume = The(e)
      BY <2>3, Kinds, Zenon DEF JobInv
    <3>3. IsProcess(Resumed(resume)) /\ Resumed(resume).pc = "epoch"
          /\ Resumed(resume).epoch = e + 1
      BY <3>1, Resumes, Zenon DEF The
    <3>4. resume.epoch = e
      BY <3>1, Kinds
    <3> QED
      BY <1>4, <2>2, <2>3, <3>3, <3>4, Zenon DEF CreateModel, Quiet
  <2>4. CASE /\ proc' = [proc EXCEPT ![r] = [Fresh EXCEPT !.pc = "epoch"]]
             /\ ~IsCheckpoint(resume) /\ disk' = disk /\ Quiet
    <3>1. PICK q : q = [Fresh EXCEPT !.pc = "epoch"]
      OBVIOUS
    <3>2. IsProcess(q) /\ q.pc = "epoch" /\ q.epoch = 0
      BY <3>1, Starts DEF Looping
    <3>3. q.epoch = IF IsCheckpoint(resume) THEN resume.epoch + 1 ELSE 0
      BY <2>4, <3>2, Zenon
    <3>4. At(r, "create")
      BY <1>4, Zenon DEF CreateModel, Quiet
    <3> QED
      BY <2>2, <2>4, <3>1, <3>2, <3>3, <3>4, Zenon
  <2> QED
    BY <1>4, <2>1, <2>3, <2>4, Zenon DEF CreateModel, Quiet
<1>5. ASSUME Epoch
      PROVE  ProcessInv' /\ Effect
  <2>1. CASE NoForward /\ Raise("shapes")
    BY <2>1, DeathKeeps, Zenon DEF Failed
  <2>2. CASE /\ proc' = [r \in Ranks |-> AfterEpoch(proc[r])] /\ disk' = disk /\ Quiet
    <3>1. ASSUME NEW r \in Ranks
          PROVE  /\ proc[r].pc = "epoch"
                 /\ IsProcess(AfterEpoch(proc[r])) /\ AfterEpoch(proc[r]).pc = "save model"
                 /\ AfterEpoch(proc[r]).epoch = proc[r].epoch
      <4>1. PICK p : p = proc[r]
        OBVIOUS
      <4>2. IsProcess(p) /\ p.pc = "epoch" /\ p.epoch < NumEpochs
        BY <1>5, <4>1, Zenon DEF Epoch, At, ProcessInv
      <4> QED
        BY <4>1, <4>2, Trains, Zenon
    <3>2. \A r \in Ranks : proc'[r] = AfterEpoch(proc[r])
      BY <2>2, Zenon
    <3>3. ProcessInv'
      <4>1. PICK f : f = [r \in Ranks |-> AfterEpoch(proc[r])]
        OBVIOUS
      <4>2. f = [r \in Ranks |-> f[r]] /\ proc' = f
        BY <2>2, <4>1, Zenon
      <4>3. \A r \in Ranks : IsProcess(f[r])
        BY <3>1, <4>1, Zenon
      <4> QED
        BY <4>2, <4>3, AllMove, Zenon
    <3>4. SameFiles /\ Quiet
      BY <2>2 DEF SameFiles
    <3>5. \A r \in Ranks : /\ proc[r].pc = "epoch" /\ proc'[r].pc = "save model"
                            /\ proc'[r].epoch = proc[r].epoch
      BY <3>1, <3>2, Zenon
    <3> QED
      BY <3>3, <3>4, <3>5, Zenon DEF Effect
  <2> QED
    BY <1>5, <2>1, <2>2, Zenon DEF Epoch, AfterEpoch, Quiet
<1>6. ASSUME SaveModel
      PROVE  ProcessInv' /\ Effect
  <2>1. {"save model", "saving model", "save checkpoint"} \subseteq Saving
    BY DEF Saving
  <2>2. ProcessInv' /\ (\/ Moved(0, "save model", "saving model", proc[0].epoch)
                        \/ Moved(0, "saving model", "save checkpoint", proc[0].epoch))
    <3>1. \E files : \/ Step(0, "save model", "saving model", files)
                      \/ Step(0, "saving model", "save checkpoint", files)
      BY <1>6, Zenon DEF SaveModel
    <3> QED
      BY <2>1, <3>1, StepMoves
  <2>3. proc[0].epoch \in Epochs
    BY <2>1, <2>2, MasterSaves DEF Moved
  <2>4. Quiet
    BY <1>6 DEF SaveModel, Step, Quiet
  <2> QED
    BY <1>6, <2>2, <2>3, <2>4, Zenon DEF Effect
<1>7. ASSUME SaveCheckpoint
      PROVE  ProcessInv' /\ Effect
  <2>1. {"save checkpoint", "saving checkpoint", "best"} \subseteq Saving
    BY DEF Saving
  <2>2. ProcessInv' /\ (\/ Moved(0, "save checkpoint", "saving checkpoint", proc[0].epoch)
                        \/ Moved(0, "saving checkpoint", "best", proc[0].epoch))
    BY <1>7, <2>1, StepMoves DEF SaveCheckpoint
  <2>3. proc[0].epoch \in Epochs
    BY <2>1, <2>2, MasterSaves DEF Moved
  <2>4. Quiet
    BY <1>7 DEF SaveCheckpoint, Step, Quiet
  <2> QED
    BY <1>7, <2>2, <2>3, <2>4, Zenon DEF Effect
<1>8. ASSUME NEW r \in Ranks, NotMaster(r)
      PROVE  ProcessInv' /\ Effect
  <2>1. {"save model", "best"} \subseteq Saving
    BY DEF Saving
  <2>2. r # 0 /\ ProcessInv' /\ Moved(r, "save model", "best", proc[r].epoch)
    BY <1>8, <2>1, StepMoves DEF NotMaster
  <2>3. SameFiles /\ Quiet
    BY <1>8 DEF NotMaster, Step, SameFiles, Quiet
  <2> QED
    BY <2>2, <2>3, Zenon DEF Effect
<1>9. ASSUME NEW r \in Ranks, EndEpoch(r)
      PROVE  ProcessInv' /\ Effect
  <2> DEFINE b == IF IsBetter(proc[r]) THEN Accuracy(proc[r].epoch).total ELSE proc[r].best
  <2>1. PICK p, q, c : p = proc[r] /\ proc' = [proc EXCEPT ![r] = q] /\ Ended(p, q, c)
    BY <1>9, Zenon DEF EndEpoch, Ended
  <2>2. p.pc = "best" /\ p.pc \in Saving /\ IsProcess(p)
    BY <1>9, <2>1 DEF EndEpoch, At, ProcessInv, Saving
  <2>3. /\ IsProcess(q)
        /\ \/ q.pc = "epoch" /\ q.epoch = p.epoch + 1
           \/ q.pc = "saving best" /\ q.epoch = p.epoch
    <3>1. Follows(p, q)
      BY <2>1, <2>2, Ends, Zenon
    <3> QED
      BY <3>1, Zenon DEF Follows
  <2>4. ProcessInv' /\ proc'[r] = q /\ \A t \in Ranks \ {r} : proc'[t] = proc[t]
    BY <2>1, <2>3, OneMoves, Zenon
  <2>5. \/ Moved(r, "best", "saving best", proc[r].epoch)
        \/ Moved(r, "best", "epoch", proc[r].epoch + 1)
    BY <2>1, <2>2, <2>3, <2>4, Zenon DEF Moved
  <2>6. Quiet /\ (disk' = disk \/ disk' = [disk EXCEPT !.best = Torn])
    BY <1>9, Zenon DEF EndEpoch, Quiet
  <2>7. SameFiles
    BY <2>6 DEF SameFiles, DiskInv
  <2> QED
    BY <2>4, <2>5, <2>6, <2>7, Zenon DEF Effect
<1>10. ASSUME BestSaved
       PROVE  ProcessInv' /\ Effect
  <2>1. PICK p, q : /\ p = proc[0] /\ proc' = [proc EXCEPT ![0] = q]
                    /\ q = [p EXCEPT !.pc = "epoch", !.epoch = p.epoch + 1]
    <3>1. proc' = [proc EXCEPT ![0] = [proc[0] EXCEPT !.pc = "epoch", !.epoch = proc[0].epoch + 1]]
      BY <1>10 DEF BestSaved
    <3> QED
      BY <3>1, Zenon
  <2>2. p.pc = "saving best" /\ p.pc \in Saving /\ IsProcess(p)
    BY <1>10, <2>1 DEF BestSaved, At, ProcessInv, Saving
  <2>3. IsProcess(q) /\ q.pc = "epoch" /\ q.epoch = p.epoch + 1
    <3>1. q.pc = "epoch"
      <4>1. PICK d : q = [p EXCEPT !.pc = "epoch", !.epoch = d]
        BY <2>1, Zenon
      <4>2. p = ProcAfter(Trained(p), p.pc, p.epoch, p.first, p.best)
        BY <2>2, Zenon DEF IsProcess
      <4> QED
        BY <4>1, <4>2 DEF ProcAfter
    <3>2. /\ IsProcess(q)
          /\ \/ q.pc = "epoch" /\ q.epoch = p.epoch + 1
             \/ q.pc = "saving best" /\ q.epoch = p.epoch
      <4>1. Ended(p, q, 0)
        BY <2>1, Zenon DEF Ended
      <4>2. Follows(p, q)
        BY <2>2, <4>1, Ends, Zenon
      <4> QED
        BY <4>2, Zenon DEF Follows
    <3> QED
      BY <3>1, <3>2
  <2>4. ProcessInv' /\ proc'[0] = q /\ \A t \in Ranks \ {0} : proc'[t] = proc[t]
    BY <2>1, <2>3, OneMoves, Zenon
  <2>5. Moved(0, "saving best", "epoch", proc[0].epoch + 1)
    BY <2>1, <2>2, <2>3, <2>4, Zenon DEF Moved
  <2>6. Quiet /\ disk' = [disk EXCEPT !.best = Checkpoint(proc[0])]
    BY <1>10, Zenon DEF BestSaved, Quiet
  <2>7. SameFiles
    BY <2>6 DEF SameFiles, DiskInv
  <2> QED
    BY <2>4, <2>5, <2>6, <2>7, Zenon DEF Effect
<1>11. ASSUME NEW r \in Ranks, Finish(r)
       PROVE  ProcessInv' /\ Effect
  <2>1. {"epoch", "done"} \subseteq Looping
    BY DEF Looping
  <2>2. ProcessInv' /\ Moved(r, "epoch", "done", proc[r].epoch)
    BY <1>11, <2>1, StepMoves DEF Finish
  <2>3. SameFiles /\ Quiet
    BY <1>11 DEF Finish, Step, SameFiles, Quiet
  <2> QED
    BY <2>2, <2>3, Zenon DEF Effect
<1>12. ASSUME Crash
       PROVE  ProcessInv' /\ Effect
  BY <1>12, DeathKeeps
<1>13. ASSUME Relaunch
       PROVE  ProcessInv' /\ Effect
  <2>1. proc' = [r \in Ranks |-> Fresh] /\ UNCHANGED disk
    BY <1>13 DEF Relaunch
  <2>2. IsProcess(Fresh) /\ Fresh.pc = "train data"
    BY Starts DEF Loading, Fresh
  <2>3. ProcessInv'
    <3>1. PICK f : f = [r \in Ranks |-> Fresh]
      OBVIOUS
    <3>2. f = [r \in Ranks |-> f[r]] /\ \A r \in Ranks : IsProcess(f[r])
      BY <2>2, <3>1, Zenon
    <3> QED
      BY <2>1, <3>1, <3>2, AllMove, Zenon
  <2>4. (\A r \in Ranks : proc'[r].pc = "train data") /\ SameFiles
    BY <2>1, <2>2, Zenon DEF SameFiles
  <2> QED
    BY <1>13, <2>3, <2>4, Zenon DEF Effect
<1>14. ASSUME NEW r \in Ranks, MissingArguments(r)
       PROVE  ProcessInv' /\ Effect
  <2>1. proc[r].pc \in Loading
    BY <1>14 DEF MissingArguments, At, Loading
  <2> QED
    BY <1>14, <2>1, DeathKeeps, Zenon DEF MissingArguments, Failed
<1> QED
  BY <1>1, <1>2, <1>3, <1>4, <1>5, <1>6, <1>7, <1>8, <1>9, <1>10, <1>11, <1>12, <1>13, <1>14, Zenon
     DEF Next, Job, Rank

-----------------------------------------------------------------------------
\* The newest checkpoint.

\* Every checkpoint on the disk is that of an epoch.
LEMMA CheckpointsAre ==
  ASSUME DiskInv
  PROVE  \A f \in Checkpoints : \E e \in Epochs :
           f = The(e) /\ (disk.model[e] = f \/ disk.checkpoint = f)
<1>1. ASSUME NEW f \in Checkpoints, f = disk.checkpoint
      PROVE  \E e \in Epochs : f = The(e)
  BY <1>1, Kinds, Zenon DEF Checkpoints, DiskInv
<1>2. ASSUME NEW e \in Epochs, disk.model[e] \in Checkpoints
      PROVE  disk.model[e] = The(e)
  BY <1>2, Kinds, Zenon DEF Checkpoints, DiskInv
<1> QED
  BY <1>1, <1>2, Zenon DEF Checkpoints

\* There is a newest checkpoint, if there is one at all.
LEMMA NewestIs ==
  ASSUME DiskInv, Checkpoints # {}
  PROVE  /\ Newest \in Checkpoints
         /\ \A g \in Checkpoints : g.epoch <= Newest.epoch
<1> DEFINE T == {n \in Nat : NumEpochs - 1 - n \in Epochs /\ The(NumEpochs - 1 - n) \in Checkpoints}
<1>1. T \subseteq Nat
  OBVIOUS
<1>2. T # {}
  <2>1. PICK f \in Checkpoints, e \in Epochs : f = The(e)
    BY CheckpointsAre, Zenon
  <2>2. NumEpochs - 1 - e \in Nat /\ NumEpochs - 1 - (NumEpochs - 1 - e) = e
    BY TrainingAssumption DEF TrainingAssumption, Epochs
  <2> QED
    BY <2>1, <2>2
<1>3. PICK m \in T : \A k \in T : ~(k < m)
  <2>1. PICK m \in T : \A k \in T : ~(<<k, m>> \in OpToRel(<, Nat))
    <3> HIDE DEF T
    <3> QED
      BY <1>1, <1>2, WFMin, NatLessThanWellFounded, Zenon
  <2> QED
    BY <2>1 DEF OpToRel
<1>4. PICK f : f = The(NumEpochs - 1 - m)
  OBVIOUS
<1>5. f \in Checkpoints /\ f.epoch = NumEpochs - 1 - m
  BY <1>3, <1>4, Kinds
<1>6. ASSUME NEW g \in Checkpoints
      PROVE  g.epoch <= f.epoch
  <2>5. PICK e \in Epochs : g = The(e)
    BY CheckpointsAre, Zenon
  <2>1. g = The(e) /\ g.epoch = e
    BY <2>5, Kinds, Zenon
  <2>2. NumEpochs - 1 - e \in Nat /\ NumEpochs - 1 - (NumEpochs - 1 - e) = e
    BY TrainingAssumption DEF TrainingAssumption, Epochs
  <2>3. NumEpochs - 1 - e \in T
    BY <2>1, <2>2
  <2>4. ~(NumEpochs - 1 - e < m) /\ m \in Nat
    BY <1>3, <2>3
  <2> HIDE DEF T
  <2> QED
    BY <1>5, <2>1, <2>2, <2>4, TrainingAssumption DEF TrainingAssumption, Epochs
<1> QED
  BY <1>5, <1>6, Zenon DEF Newest

\* What a saving process writes is the checkpoint of its epoch.
LEMMA SavesThe ==
  ASSUME ProcessInv, NEW r \in Ranks, proc[r].pc \in Saving
  PROVE  Checkpoint(proc[r]) = The(proc[r].epoch)
<1>1. PICK p : p = proc[r]
  OBVIOUS
<1>2. IsProcess(p) /\ p.pc \in Saving
  BY <1>1, Zenon DEF ProcessInv
<1>3. Trained(p) = p.epoch + 1
  BY <1>2 DEF Trained, Loading, Saving
<1>4. p = ProcAfter(p.epoch + 1, p.pc, p.epoch, p.first, p.best)
  BY <1>2, <1>3, Zenon DEF IsProcess
<1>5. p.net = NetAfter(p.epoch + 1) /\ p.lr = p.epoch + 1 /\ p.ema = EmaAfter(p.epoch + 1)
  BY <1>4 DEF ProcAfter
<1> QED
  BY <1>1, <1>5, Zenon DEF Checkpoint, The, CheckpointOf

-----------------------------------------------------------------------------
\* Each part of the invariant is kept.

\* The steps keep JobInv.
LEMMA JobKept ==
  ASSUME JobInv, DiskInv, Next
  PROVE  JobInv'
<1> USE JobFixed
<1>1. ResumeOf(0)' = ResumeOf(0)
  BY DEF ResumeOf
<1>2. resume' \in {ResumeOf(0)} \cup {The(e) : e \in Epochs}
  <2>1. CASE resume' = resume
    BY <2>1 DEF JobInv
  <2>2. CASE Relaunch
    <3>1. CASE Newest # NoFile
      BY <2>2, <3>1, NewestIs, CheckpointsAre, Zenon DEF Relaunch, Newest
    <3>2. CASE Newest = NoFile
      BY <2>1, <2>2, <3>2, Zenon DEF Relaunch
    <3> QED
      BY <3>1, <3>2, Zenon
  <2>3. resume' = resume \/ Relaunch
    BY Zenon DEF Next, Job, Rank, MissingArguments, LoadFromCache, BuildDataset, CacheSaved, CreateModel,
       NotMaster, EndEpoch, Finish, Epoch, SaveModel, SaveCheckpoint, BestSaved, Crash, Raise, Step
  <2> QED
    BY <2>1, <2>2, <2>3, Zenon
<1>3. crashes' \in Nat
  <2>1. crashes' = crashes \/ crashes' = crashes + 1
    BY Zenon DEF Next, Job, Rank, MissingArguments, LoadFromCache, BuildDataset, CacheSaved, CreateModel,
       NotMaster, EndEpoch, Finish, Epoch, SaveModel, SaveCheckpoint, BestSaved, Crash, Raise, Step, Relaunch
  <2> QED
    BY <2>1 DEF JobInv
<1> QED
  BY <1>1, <1>2, <1>3 DEF JobInv

\* What SaveModel and SaveCheckpoint make of the files.
WritesModel(e, x) == /\ disk'.model = [disk.model EXCEPT ![e] = x] /\ disk'.checkpoint = disk.checkpoint
                     /\ disk' = [checkpoint |-> disk'.checkpoint, best |-> disk'.best,
                                 model |-> disk'.model, cache |-> disk'.cache]
WritesCheckpoint(x) == /\ disk'.model = disk.model /\ disk'.checkpoint = x
                       /\ disk' = [checkpoint |-> disk'.checkpoint, best |-> disk'.best,
                                   model |-> disk'.model, cache |-> disk'.cache]

\* SaveModel writes model_{epoch}.pth.
LEMMA ModelWritten ==
  ASSUME DiskInv, ProcessInv, 0 \in Ranks, SaveModel
  PROVE  /\ proc[0].epoch \in Epochs
         /\ \/ /\ proc[0].pc = "save model" /\ WritesModel(proc[0].epoch, Torn)
            \/ /\ proc[0].pc = "saving model" /\ WritesModel(proc[0].epoch, The(proc[0].epoch))
<1>1. PICK e, m, x, to : /\ e = proc[0].epoch /\ Step(0, m, to, [disk EXCEPT !.model[e] = x])
                         /\ \/ m = "save model" /\ x = Torn
                            \/ m = "saving model" /\ x = Checkpoint(proc[0])
  BY Zenon DEF SaveModel
<1>2. proc[0].pc = m /\ disk' = [disk EXCEPT !.model[e] = x]
  BY <1>1, Zenon DEF Step, At
<1>3. WritesModel(e, x)
  BY <1>2 DEF WritesModel, DiskInv
<1>4. proc[0].pc \in Saving
  BY <1>1, <1>2 DEF Saving
<1>5. e \in Epochs /\ Checkpoint(proc[0]) = The(e)
  BY <1>1, <1>4, SavesThe, MasterSaves, Zenon
<1> QED
  BY <1>1, <1>2, <1>3, <1>5, Zenon

\* SaveCheckpoint writes checkpoint.pth.
LEMMA CheckpointWritten ==
  ASSUME DiskInv, ProcessInv, 0 \in Ranks, SaveCheckpoint
  PROVE  /\ proc[0].epoch \in Epochs
         /\ \/ /\ proc[0].pc = "save checkpoint" /\ WritesCheckpoint(Torn)
            \/ /\ proc[0].pc = "saving checkpoint" /\ WritesCheckpoint(The(proc[0].epoch))
<1>1. PICK m, x, to : /\ Step(0, m, to, [disk EXCEPT !.checkpoint = x])
                      /\ \/ m = "save checkpoint" /\ x = Torn
                         \/ m = "saving checkpoint" /\ x = Checkpoint(proc[0])
  BY Zenon DEF SaveCheckpoint
<1>2. proc[0].pc = m /\ disk' = [disk EXCEPT !.checkpoint = x]
  BY <1>1, Zenon DEF Step, At
<1>3. WritesCheckpoint(x)
  BY <1>2 DEF WritesCheckpoint, DiskInv
<1>4. proc[0].pc \in Saving
  BY <1>1, <1>2 DEF Saving
<1>5. proc[0].epoch \in Epochs /\ Checkpoint(proc[0]) = The(proc[0].epoch)
  BY <1>4, SavesThe, MasterSaves, Zenon
<1> QED
  BY <1>1, <1>2, <1>3, <1>5, Zenon

\* The steps keep DiskInv.
LEMMA DiskKept ==
  ASSUME JobInv, ProcessInv, DiskInv, Next
  PROVE  DiskInv'
<1> USE JobFixed
<1>1. \/ disk' = disk
      \/ \E c : disk' = [disk EXCEPT !.cache = c]
      \/ \E b : disk' = [disk EXCEPT !.best = b]
      \/ SaveModel
      \/ SaveCheckpoint
  BY Zenon DEF Next, Job, Rank, MissingArguments, LoadFromCache, BuildDataset, CacheSaved, CreateModel,
     NotMaster, EndEpoch, Finish, Epoch, BestSaved, Crash, Raise, Step, Relaunch
<1>2. CASE SaveModel
  <2>1. PICK e, x : e \in Epochs /\ x \in {Torn, The(e)} /\ WritesModel(e, x)
    BY <1>2, ModelWritten, Zenon
  <2> QED
    BY <2>1 DEF DiskInv, WritesModel
<1>3. CASE SaveCheckpoint
  <2>1. PICK e, x : e \in Epochs /\ x \in {Torn, The(e)} /\ WritesCheckpoint(x)
    BY <1>3, CheckpointWritten, Zenon
  <2> QED
    BY <2>1 DEF DiskInv, WritesCheckpoint
<1>4. ASSUME disk' = disk \/ (\E c : disk' = [disk EXCEPT !.cache = c]) \/ (\E b : disk' = [disk EXCEPT !.best = b])
      PROVE  DiskInv'
  <2>1. /\ SameFiles
        /\ disk' = [checkpoint |-> disk'.checkpoint, best |-> disk'.best, model |-> disk'.model,
                    cache |-> disk'.cache]
    BY <1>4 DEF DiskInv, SameFiles
  <2> QED
    BY <2>1 DEF DiskInv, SameFiles
<1> QED
  BY <1>1, <1>2, <1>3, <1>4, Zenon

\* With the models of the first k epochs whole, the newest checkpoint is that
\* of epoch k - 1.
LEMMA NewestKept ==
  ASSUME DiskInv, \A e \in Epochs : disk.checkpoint = The(e) => IsCheckpoint(disk.model[e]),
         NEW k \in 0..NumEpochs, Kept(disk.model, k)
  PROVE  Newest = IF k = 0 THEN NoFile ELSE The(k - 1)
<1>1. CASE Checkpoints = {}
  <2>1. ASSUME k # 0
        PROVE  FALSE
    <3>1. k - 1 \in Epochs /\ k - 1 < k
      BY <2>1, TrainingAssumption DEF Epochs, TrainingAssumption
    <3>2. IsCheckpoint(disk.model[k - 1])
      BY <3>1, Zenon DEF Kept
    <3> QED
      BY <1>1, <3>1, <3>2, Zenon DEF Checkpoints
  <2> QED
    BY <1>1, <2>1, Zenon DEF Newest
<1>2. CASE Checkpoints # {}
  <2>1. PICK e \in Epochs : Newest = The(e) /\ (disk.model[e] = Newest \/ disk.checkpoint = Newest)
    BY <1>2, NewestIs, CheckpointsAre, Zenon
  <2>2. IsCheckpoint(disk.model[e])
    BY <2>1, Kinds, Zenon
  <2>3. e < k
    BY <2>2, Zenon DEF Kept
  <2>4. k - 1 \in Epochs /\ k - 1 < k /\ k # 0
    BY <2>3, TrainingAssumption DEF Epochs, TrainingAssumption
  <2>5. IsCheckpoint(disk.model[k - 1])
    BY <2>4, Zenon DEF Kept
  <2>6. disk.model[k - 1] = The(k - 1) /\ disk.model[k - 1] \in Checkpoints
    BY <2>4, <2>5, Kinds, Zenon DEF DiskInv, Checkpoints
  <2>7. The(k - 1).epoch <= The(e).epoch
    BY <1>2, <2>1, <2>6, NewestIs, Zenon
  <2>8. k - 1 <= e
    BY <2>7, Kinds
  <2>9. e = k - 1
    BY <2>3, <2>8 DEF Epochs
  <2> QED
    BY <2>1, <2>4, <2>9, Zenon
<1> QED
  BY <1>1, <1>2, Zenon

\* A launch begins with the epoch after the one it resumes.
LEMMA ResumesAfter ==
  ASSUME JobInv, NEW k \in 0..NumEpochs, resume = ResumeOf(k)
  PROVE  k = IF IsCheckpoint(resume) THEN resume.epoch + 1 ELSE 0
<1>1. CASE k = 0
  BY <1>1, Kinds
<1>2. CASE k # 0
  <2>1. resume = The(k - 1)
    BY <1>2 DEF ResumeOf
  <2>2. IsCheckpoint(resume) /\ resume.epoch = k - 1
    BY <2>1, Kinds, Zenon
  <2> QED
    BY <2>2
<1> QED
  BY <1>1, <1>2

\* The steps keep TrainInv: here the order of the writes matters.
LEMMA TrainKept ==
  ASSUME JobInv, ProcessInv, DiskInv, TrainInv, Next
  PROVE  TrainInv'
<1> USE JobFixed
<1>0. ResumeOf(0)' = ResumeOf(0) /\ \A k : ResumeOf(k)' = ResumeOf(k)
  BY DEF ResumeOf
<1>1. ASSUME SameFiles
      PROVE  /\ \A k : Kept(disk'.model, k) = Kept(disk.model, k)
             /\ \A e \in Epochs : disk'.model[e] = disk.model[e]
  BY <1>1 DEF SameFiles
<1>2. ASSUME SameFiles, UNCHANGED resume,
             \/ proc'[0] = proc[0]
             \/ proc'[0].pc = "dead"
             \/ {proc[0].pc, proc'[0].pc} \subseteq Loading \ {"dead"}
             \/ Kept(disk.model, proc'[0].epoch) /\ proc'[0].pc \in Firsts
             \/ Kept(disk.model, proc'[0].epoch + 1) /\ proc'[0].pc \in Lasts
      PROVE  TrainInv'
  <2>1. WholeInv'
    BY <1>1, <1>2 DEF TrainInv, WholeInv, SameFiles
  <2>2. \E k \in 0..NumEpochs : Kept(disk'.model, k)
    BY <1>1, <1>2, Zenon DEF TrainInv
  <2>3. ASSUME proc'[0] = proc[0]
        PROVE  MasterInv'
    BY <1>0, <1>1, <1>2, <2>3, Zenon DEF TrainInv, MasterInv
  <2>4. ASSUME {proc[0].pc, proc'[0].pc} \subseteq Loading \ {"dead"}
        PROVE  MasterInv'
    <3>1. PICK k \in 0..NumEpochs : Kept(disk.model, k) /\ resume = ResumeOf(k)
      BY <2>4, Zenon DEF TrainInv, MasterInv
    <3>2. Kept(disk'.model, k) /\ resume' = ResumeOf(k)'
      BY <1>0, <1>1, <1>2, <3>1, Zenon
    <3>3. proc'[0].pc \notin Firsts /\ proc'[0].pc \notin Lasts
      BY <2>4 DEF Firsts, Lasts, Loading, Looping, Saving
    <3> QED
      BY <3>2, <3>3, Zenon DEF MasterInv
  <2>5. ASSUME proc'[0].pc = "dead"
        PROVE  MasterInv'
    BY <2>5 DEF MasterInv, Firsts, Lasts, Looping, Saving
  <2>6. ASSUME Kept(disk.model, proc'[0].epoch) /\ proc'[0].pc \in Firsts
        PROVE  MasterInv'
    <3>1. proc'[0].pc \notin Lasts /\ proc'[0].pc \notin Loading
      BY <2>6 DEF Firsts, Lasts, Loading, Looping, Saving
    <3> QED
      BY <1>1, <1>2, <2>6, <3>1, Zenon DEF MasterInv
  <2>7. ASSUME Kept(disk.model, proc'[0].epoch + 1) /\ proc'[0].pc \in Lasts
        PROVE  MasterInv'
    <3>1. proc'[0].pc \notin Firsts /\ proc'[0].pc \notin Loading
      BY <2>7 DEF Firsts, Lasts, Loading, Looping, Saving
    <3> QED
      BY <1>1, <1>2, <2>7, <3>1, Zenon DEF MasterInv
  <2>8. MasterInv'
    BY <1>2, <2>3, <2>4, <2>5, <2>6, <2>7, Zenon
  <2> QED
    BY <2>1, <2>2, <2>8, Zenon DEF TrainInv
<1>3. ASSUME NEW r \in Ranks, NEW from, NEW to, NEW e, Moved(r, from, to, e), r # 0
      PROVE  proc'[0] = proc[0]
  BY <1>3 DEF Moved
<1>4. CASE Relaunch /\ (\A r \in Ranks : proc'[r].pc = "train data") /\ SameFiles
  <2>1. PICK k \in 0..NumEpochs : Kept(disk.model, k)
    BY DEF TrainInv
  <2>2. Newest = IF k = 0 THEN NoFile ELSE The(k - 1)
    <3>1. \A e \in Epochs : disk.checkpoint = The(e) => IsCheckpoint(disk.model[e])
      BY Zenon DEF TrainInv, WholeInv
    <3> QED
      BY <2>1, <3>1, NewestKept, Zenon
  <2>4. resume' = ResumeOf(k)
    <3>1. CASE k = 0
      <4>1. \A e \in Epochs : ~IsCheckpoint(disk.model[e])
        BY <2>1, <3>1 DEF Kept, Epochs
      <4>2. resume = ResumeOf(0)
        BY <4>1, Zenon DEF TrainInv, WholeInv, JobInv
      <4> QED
        BY <1>4, <2>2, <3>1, <4>2, Zenon DEF Relaunch
    <3>2. CASE k # 0
      <4>1. Newest = The(k - 1) /\ Newest # NoFile
        BY <2>2, <3>2, Kinds, Zenon
      <4>2. resume' = The(k - 1)
        BY <1>4, <4>1, Zenon DEF Relaunch
      <4> QED
        BY <3>2, <4>2, Zenon DEF ResumeOf
    <3> QED
      BY <3>1, <3>2, Zenon
  <2>5. WholeInv'
    <3>1. ASSUME NEW e \in Epochs, The(e) = resume'
          PROVE  IsCheckpoint(disk.model[e])
      <4>1. k = e + 1
        <5>1. k # 0
          <6>1. IsCheckpoint(The(e)) /\ ~IsCheckpoint(ResumeOf(0))
            BY Kinds, Zenon
          <6> QED
            BY <2>4, <3>1, <6>1
        <5>2. The(e) = The(k - 1)
          BY <2>4, <3>1, <5>1, Zenon DEF ResumeOf
        <5>3. The(e).epoch = e /\ The(k - 1).epoch = k - 1
          BY Kinds
        <5> QED
          BY <5>2, <5>3
      <4>2. e < k
        BY <4>1 DEF Epochs
      <4> QED
        BY <2>1, <4>2, Zenon DEF Kept
    <3>2. disk'.checkpoint = disk.checkpoint
      BY <1>4 DEF SameFiles
    <3> QED
      BY <1>1, <1>4, <3>1, <3>2, Zenon DEF TrainInv, WholeInv
  <2>6. Kept(disk'.model, k) /\ resume' = ResumeOf(k)'
    BY <1>0, <1>1, <1>4, <2>1, <2>4, Zenon
  <2>7. proc'[0].pc \notin Firsts /\ proc'[0].pc \notin Lasts
    BY <1>4 DEF Firsts, Lasts, Looping, Saving
  <2>8. MasterInv'
    BY <2>6, <2>7, Zenon DEF MasterInv
  <2> QED
    BY <2>5, <2>6, <2>8, Zenon DEF TrainInv
<1>5. CASE /\ UNCHANGED resume /\ SaveModel
           /\ \/ Moved(0, "save model", "saving model", proc[0].epoch)
              \/ Moved(0, "saving model", "save checkpoint", proc[0].epoch)
  <2>1. PICK e \in Epochs : e = proc[0].epoch
    BY <1>5, ModelWritten, Zenon
  <2>2. proc[0].pc \in {"save model", "saving model"} /\ proc[0].pc \in Firsts
    BY <1>5, Zenon DEF Moved, Firsts
  <2>3. Kept(disk.model, e)
    BY <2>1, <2>2, Zenon DEF TrainInv, MasterInv
  <2>4. e \in 0..NumEpochs /\ e + 1 \in 0..NumEpochs
    BY TrainingAssumption DEF TrainingAssumption, Epochs
  <2>5. CASE proc[0].pc = "save model"
    <3>1. WritesModel(e, Torn)
      BY <1>5, <2>1, <2>5, ModelWritten, Zenon
    <3>2. proc'[0].pc = "saving model" /\ proc'[0].epoch = e
      BY <1>5, <2>1, <2>5 DEF Moved
    <3>3. \A f \in Epochs : disk'.model[f] = IF f = e THEN Torn ELSE disk.model[f]
      BY <3>1 DEF WritesModel, DiskInv
    <3>4. Kept(disk'.model, e)
      BY <2>3, <3>3, Kinds DEF Kept, Epochs
    <3>5. WholeInv'
      <4>1. ASSUME NEW f \in Epochs, The(f) \in {disk.checkpoint, resume}
            PROVE  IsCheckpoint(disk'.model[f])
        <5>1. IsCheckpoint(disk.model[f])
          BY <4>1, Zenon DEF TrainInv, WholeInv
        <5>2. f < e
          BY <2>3, <5>1, Zenon DEF Kept
        <5> QED
          BY <3>4, <5>2, Zenon DEF Kept
      <4>2. disk'.checkpoint = disk.checkpoint
        BY <3>1 DEF WritesModel
      <4> QED
        BY <1>5, <4>1, <4>2, Zenon DEF WholeInv
    <3>6. MasterInv'
      <4>1. proc'[0].pc \notin Lasts /\ proc'[0].pc \notin Loading
        BY <3>2 DEF Lasts, Loading
      <4> QED
        BY <3>2, <3>4, <4>1, Zenon DEF MasterInv
    <3> QED
      BY <2>4, <3>4, <3>5, <3>6, Zenon DEF TrainInv
  <2>6. CASE proc[0].pc = "saving model"
    <3>1. WritesModel(e, The(e))
      BY <1>5, <2>1, <2>6, ModelWritten, Zenon
    <3>2. proc'[0].pc = "save checkpoint" /\ proc'[0].epoch = e
      BY <1>5, <2>1, <2>6 DEF Moved
    <3>3. \A f \in Epochs : disk'.model[f] = IF f = e THEN The(e) ELSE disk.model[f]
      BY <3>1 DEF WritesModel, DiskInv
    <3>4. Kept(disk'.model, e + 1)
      BY <2>3, <3>3, Kinds DEF Kept, Epochs
    <3>5. WholeInv'
      <4>1. ASSUME NEW f \in Epochs, The(f) \in {disk.checkpoint, resume}
            PROVE  IsCheckpoint(disk'.model[f])
        <5>1. IsCheckpoint(disk.model[f]) /\ IsCheckpoint(The(e))
          BY <4>1, Kinds, Zenon DEF TrainInv, WholeInv
        <5> QED
          BY <3>3, <5>1
      <4>2. disk'.checkpoint = disk.checkpoint
        BY <3>1 DEF WritesModel
      <4> QED
        BY <1>5, <4>1, <4>2, Zenon DEF WholeInv
    <3>6. MasterInv'
      <4>1. proc'[0].pc \notin Firsts /\ proc'[0].pc \notin Loading
        BY <3>2 DEF Firsts, Looping, Loading
      <4> QED
        BY <3>2, <3>4, <4>1, Zenon DEF MasterInv
    <3> QED
      BY <2>4, <3>4, <3>5, <3>6, Zenon DEF TrainInv
  <2> QED
    BY <2>2, <2>5, <2>6
<1>6. CASE /\ UNCHANGED resume /\ SaveCheckpoint
           /\ \/ Moved(0, "save checkpoint", "saving checkpoint", proc[0].epoch)
              \/ Moved(0, "saving checkpoint", "best", proc[0].epoch)
  <2>1. PICK e \in Epochs : e = proc[0].epoch
    BY <1>6, CheckpointWritten, Zenon
  <2>2. proc[0].pc \in Lasts /\ proc'[0].pc \in Lasts /\ proc'[0].epoch = e
    BY <1>6, <2>1 DEF Moved, Lasts, Saving
  <2>3. Kept(disk.model, e + 1)
    BY <2>1, <2>2, Zenon DEF TrainInv, MasterInv
  <2>4. e + 1 \in 0..NumEpochs /\ e < e + 1
    BY TrainingAssumption DEF TrainingAssumption, Epochs
  <2>5. disk'.model = disk.model /\ disk'.checkpoint \in {Torn, The(e)}
    BY <1>6, <2>1, CheckpointWritten, Zenon DEF WritesCheckpoint
  <2>6. WholeInv'
    <3>1. IsCheckpoint(disk.model[e])
      BY <2>3, <2>4, Zenon DEF Kept
    <3>2. ASSUME NEW f \in Epochs, The(f) = disk'.checkpoint
          PROVE  f = e
      <4>1. IsCheckpoint(The(f)) /\ ~IsCheckpoint(Torn)
        BY Kinds, Zenon
      <4>2. The(f) = The(e)
        BY <2>5, <3>2, <4>1
      <4>3. The(f).epoch = f /\ The(e).epoch = e
        BY Kinds
      <4> QED
        BY <4>2, <4>3
    <3> QED
      BY <1>6, <2>5, <3>1, <3>2, Zenon DEF TrainInv, WholeInv
  <2>7. MasterInv'
    <3>1. proc'[0].pc \notin Firsts /\ proc'[0].pc \notin Loading
      BY <2>2 DEF Firsts, Lasts, Looping, Saving, Loading
    <3> QED
      BY <2>2, <2>3, <2>5, <3>1, Zenon DEF MasterInv
  <2> QED
    BY <2>3, <2>4, <2>5, <2>6, <2>7, Zenon DEF TrainInv
<1>7. ASSUME NEW r \in Ranks, UNCHANGED resume, SameFiles,
             \/ Moved(r, "create", "epoch", IF IsCheckpoint(resume) THEN resume.epoch + 1 ELSE 0)
             \/ r # 0 /\ Moved(r, "save model", "best", proc[r].epoch)
             \/ Moved(r, "best", "saving best", proc[r].epoch)
             \/ Moved(r, "best", "epoch", proc[r].epoch + 1)
             \/ Moved(r, "saving best", "epoch", proc[r].epoch + 1)
             \/ Moved(r, "epoch", "done", proc[r].epoch)
      PROVE  TrainInv'
  <2>1. CASE r # 0
    BY <1>2, <1>3, <1>7, <2>1, Zenon
  <2>2. CASE Moved(0, "create", "epoch", IF IsCheckpoint(resume) THEN resume.epoch + 1 ELSE 0)
    <3>1. proc[0].pc = "create" /\ proc[0].pc \in Loading \ {"dead"}
      BY <2>2 DEF Moved, Loading
    <3>2. PICK k \in 0..NumEpochs : Kept(disk.model, k) /\ resume = ResumeOf(k)
      BY <3>1, Zenon DEF TrainInv, MasterInv
    <3>3. proc'[0].epoch = k
      BY <2>2, <3>2, ResumesAfter, Zenon DEF Moved
    <3>4. proc'[0].pc \in Firsts
      BY <2>2 DEF Moved, Firsts, Looping
    <3> QED
      BY <1>2, <1>7, <3>2, <3>3, <3>4, Zenon
  <2>3. CASE Moved(0, "best", "saving best", proc[0].epoch)
    <3>1. proc[0].pc \in Lasts /\ proc'[0].pc \in Lasts /\ proc'[0].epoch = proc[0].epoch
      BY <2>3 DEF Moved, Lasts, Saving
    <3> QED
      BY <1>2, <1>7, <3>1, Zenon DEF TrainInv, MasterInv
  <2>4. CASE \/ Moved(0, "best", "epoch", proc[0].epoch + 1)
             \/ Moved(0, "saving best", "epoch", proc[0].epoch + 1)
    <3>1. proc[0].pc \in Lasts /\ proc'[0].pc \in Firsts
      BY <2>4 DEF Moved, Firsts, Lasts, Saving, Looping
    <3>2. proc'[0].epoch = proc[0].epoch + 1
      BY <2>4, Zenon DEF Moved
    <3> QED
      BY <1>2, <1>7, <3>1, <3>2, Zenon DEF TrainInv, MasterInv
  <2>5. CASE Moved(0, "epoch", "done", proc[0].epoch)
    <3>1. proc[0].pc \in Firsts /\ proc'[0].pc \in Firsts /\ proc'[0].epoch = proc[0].epoch
      BY <2>5 DEF Moved, Firsts, Looping
    <3> QED
      BY <1>2, <1>7, <3>1, Zenon DEF TrainInv, MasterInv
  <2> QED
    BY <1>7, <2>1, <2>2, <2>3, <2>4, <2>5, Zenon
<1>8. ASSUME NEW r \in Ranks, NEW from \in Loading \ {"dead"}, NEW to \in Loading \ {"dead"},
             UNCHANGED resume, SameFiles, Moved(r, from, to, proc[r].epoch)
      PROVE  TrainInv'
  <2>1. CASE r # 0
    BY <1>2, <1>3, <1>8, <2>1, Zenon
  <2>2. CASE r = 0
    <3>1. {proc[0].pc, proc'[0].pc} \subseteq Loading \ {"dead"}
      BY <1>8, <2>2 DEF Moved
    <3> QED
      BY <1>2, <1>8, <3>1, Zenon
  <2> QED
    BY <2>1, <2>2
<1>9. ASSUME UNCHANGED resume, SameFiles,
             \A r \in Ranks : /\ proc[r].pc = "epoch" /\ proc'[r].pc = "save model"
                              /\ proc'[r].epoch = proc[r].epoch
      PROVE  TrainInv'
  <2>1. proc[0].pc \in Firsts /\ proc'[0].pc \in Firsts /\ proc'[0].epoch = proc[0].epoch
    BY <1>9 DEF Firsts, Looping
  <2> QED
    BY <1>2, <1>9, <2>1, Zenon DEF TrainInv, MasterInv
<1>10. ASSUME Crash \/ Failed, SameFiles, \A r \in Ranks : proc'[r].pc = "dead"
       PROVE  TrainInv'
  <2>1. UNCHANGED resume
    BY <1>10, Zenon DEF Crash, Failed, Raise
  <2> QED
    BY <1>2, <1>10, <2>1
<1>11. Effect
  BY Effects
<1>12. Quiet => UNCHANGED resume
  BY DEF Quiet
<1> QED
  BY <1>4, <1>5, <1>6, <1>7, <1>8, <1>9, <1>10, <1>11, <1>12, Zenon DEF Effect

\* The steps of a job that can succeed keep PlaceInv.
LEMMA PlaceKept ==
  ASSUME JobInv, ProcessInv, DiskInv, ~NoForward, PlaceInv, Next
  PROVE  PlaceInv'
<1> USE JobFixed
<1>1. ASSUME SameFiles
      PROVE  Checkpoints' = Checkpoints
  BY <1>1 DEF SameFiles, Checkpoints
<1>2. ASSUME NEW t \in Ranks, proc[t].pc \in Loading
      PROVE  ~InLoop
  BY <1>2 DEF InLoop, Loading, Looping, Saving
<1>3. ASSUME SameFiles, Quiet,
             /\ InLoop => InLoop'
             /\ (\E t \in Ranks : proc'[t].pc \in Saving) => InLoop'
      PROVE  PlaceInv'
  BY <1>1, <1>3 DEF PlaceInv, Quiet
<1>4. CASE (Crash \/ Failed) /\ (\A r \in Ranks : proc'[r].pc = "dead") /\ SameFiles
  <2>1. \A t \in Ranks : proc'[t].pc \notin Saving
    BY <1>4 DEF Saving
  <2>2. CASE Crash
    <3>1. crashes' # 0
      <4>1. crashes' = crashes + 1 /\ crashes \in Nat
        BY <2>2, Zenon DEF Crash, JobInv
      <4> QED
        BY <4>1
    <3> QED
      BY <2>1, <3>1, Zenon DEF PlaceInv
  <2>3. CASE Failed
    <3>1. resume' = resume /\ crashes' = crashes
      BY <2>3, Zenon DEF Failed, Raise
    <3>2. crashes = 0 => \E r \in Ranks : proc[r].pc \in Loading
      BY <2>3, Zenon DEF Failed
    <3>3. crashes = 0 => Checkpoints = {}
      BY <1>2, <3>2, Zenon DEF PlaceInv
    <3> QED
      BY <1>1, <1>4, <2>1, <3>1, <3>3, Zenon DEF PlaceInv
  <2> QED
    BY <1>4, <2>2, <2>3
<1>5. CASE Relaunch /\ (\A r \in Ranks : proc'[r].pc = "train data") /\ SameFiles
  <2>1. \A t \in Ranks : proc'[t].pc \notin Saving
    BY <1>5 DEF Saving
  <2>2. ~InLoop
    BY <1>2, <1>5 DEF Relaunch, At, Loading
  <2>3. crashes = 0 => Checkpoints = {}
    BY <2>2, Zenon DEF PlaceInv
  <2>4. crashes = 0 => resume' \in {resume, NoFile}
    <3>1. crashes = 0 => Newest = NoFile
      BY <2>3, Zenon DEF Newest
    <3> QED
      BY <1>5, <3>1 DEF Relaunch
  <2>5. crashes' = crashes
    BY <1>5 DEF Relaunch
  <2> QED
    BY <1>1, <1>5, <2>1, <2>3, <2>4, <2>5, Kinds, Zenon DEF PlaceInv
<1>6. ASSUME NEW r \in Ranks, NEW from \in Loading \ {"dead"}, NEW to \in Loading \ {"dead"},
             Quiet, SameFiles, Moved(r, from, to, proc[r].epoch)
      PROVE  PlaceInv'
  <2>1. ~InLoop /\ \A t \in Ranks : proc[t].pc \notin Saving
    BY <1>2, <1>6, Zenon DEF Moved, PlaceInv
  <2>2. proc'[r].pc \notin Saving
    BY <1>6 DEF Moved, Loading, Saving
  <2>3. \A t \in Ranks : proc'[t].pc \notin Saving
    BY <1>6, <2>1, <2>2, Zenon DEF Moved
  <2> QED
    BY <1>3, <1>6, <2>1, <2>3, Zenon
<1>7. ASSUME NEW r \in Ranks, Quiet, SameFiles, NEW e, Moved(r, "create", "epoch", e)
      PROVE  PlaceInv'
  <2>1. proc[r].pc \in Loading /\ proc'[r].pc \notin Saving
    BY <1>7 DEF Moved, Loading, Saving
  <2>2. ~InLoop /\ \A t \in Ranks : proc[t].pc \notin Saving
    BY <1>2, <2>1, Zenon DEF PlaceInv
  <2>3. \A t \in Ranks : proc'[t].pc \notin Saving
    BY <1>7, <2>1, <2>2, Zenon DEF Moved
  <2> QED
    BY <1>3, <1>7, <2>2, <2>3, Zenon
<1>8. ASSUME NEW r \in Ranks, NEW from \in Looping \cup Saving, NEW to \in Looping \cup Saving, NEW e,
             Moved(r, from, to, e), to \in Saving => from \in Saving
      PROVE  /\ InLoop => InLoop'
             /\ (\E t \in Ranks : proc'[t].pc \in Saving) => InLoop'
  <2>1. InLoop => InLoop'
    BY <1>8, Zenon DEF Moved, InLoop
  <2>2. (\E t \in Ranks : proc'[t].pc \in Saving) => \E t \in Ranks : proc[t].pc \in Saving
    BY <1>8, Zenon DEF Moved
  <2> QED
    BY <2>1, <2>2, Zenon DEF PlaceInv
<1>9. ASSUME NEW r \in Ranks, Quiet, SameFiles,
             \/ r # 0 /\ Moved(r, "save model", "best", proc[r].epoch)
             \/ Moved(r, "best", "saving best", proc[r].epoch)
             \/ Moved(r, "best", "epoch", proc[r].epoch + 1)
             \/ Moved(r, "saving best", "epoch", proc[r].epoch + 1)
             \/ Moved(r, "epoch", "done", proc[r].epoch)
      PROVE  PlaceInv'
  <2>1. PICK from \in Looping \cup Saving, to \in Looping \cup Saving :
          (to \in Saving => from \in Saving) /\ \E e : Moved(r, from, to, e)
    <3>1. /\ {"save model", "best", "saving best", "epoch", "done"} \subseteq Looping \cup Saving
          /\ {"save model", "best", "saving best"} \subseteq Saving
          /\ "epoch" \notin Saving /\ "done" \notin Saving
      BY DEF Looping, Saving
    <3> QED
      BY <1>9, <3>1, Zenon
  <2> QED
    BY <1>3, <1>8, <1>9, <2>1, Zenon
<1>10. ASSUME Quiet, SameFiles,
              \A r \in Ranks : /\ proc[r].pc = "epoch" /\ proc'[r].pc = "save model"
                               /\ proc'[r].epoch = proc[r].epoch
       PROVE  PlaceInv'
  <2>1. InLoop'
    BY <1>10 DEF InLoop, Saving
  <2> QED
    BY <1>3, <1>10, <2>1, Zenon
<1>11. ASSUME NEW from \in Saving, NEW to \in Saving, NEW e, Moved(0, from, to, e), Quiet
       PROVE  PlaceInv'
  <2>1. InLoop
    BY <1>11, Zenon DEF Moved, PlaceInv
  <2>2. InLoop'
    BY <1>8, <1>11, <2>1, Zenon
  <2> QED
    BY <1>11, <2>2, Zenon DEF PlaceInv, Quiet
<1>12. {"save model", "saving model", "save checkpoint", "saving checkpoint", "best"} \subseteq Saving
  BY DEF Saving
<1>13. Effect
  BY Effects
<1> QED
  BY <1>4, <1>5, <1>6, <1>7, <1>9, <1>10, <1>11, <1>12, <1>13, Zenon DEF Effect

\* The steps keep RestartInv.
LEMMA RestartKept ==
  ASSUME JobInv, ProcessInv, DiskInv, RestartInv, Next
  PROVE  RestartInv'
<1> USE JobFixed
<1>0. NoForward' = NoForward
  BY DEF NoForward
<1>1. ~NoForward' => PlaceInv'
  BY <1>0, PlaceKept, Zenon DEF RestartInv
<1>2. Quiet \/ Crash \/ Failed \/ Relaunch
  BY Effects, Zenon DEF Effect
<1>3. RestartsWork'
  <2>1. CASE Quiet
    BY <1>0, <2>1, Zenon DEF Quiet, RestartInv, RestartsWork
  <2>2. CASE Crash \/ Relaunch
    BY <2>2, Zenon DEF Crash, Relaunch, RestartsWork
  <2>3. CASE NoForward /\ Raise("shapes")
    BY <1>0, <2>3, Zenon DEF Raise, RestartsWork
  <2>4. CASE job.cache /\ Raise("torn cache")
    BY <2>4, Zenon DEF Raise, RestartsWork
  <2>5. CASE script = "quantization" /\ Raise("no argument")
    BY <2>5, Zenon DEF Raise, RestartsWork
  <2>6. CASE NotAModel /\ Raise("not a model")
    <3>1. job.pruned /\ IsCheckpoint(resume) /\ ~NoForward
      BY <2>6, Zenon DEF NotAModel, NoForward
    <3>2. crashes # 0
      BY <3>1, Zenon DEF RestartInv, PlaceInv
    <3>3. crashes > 0
      BY <3>2 DEF JobInv
    <3>4. raised' = "not a model" /\ job' = job /\ crashes' = crashes
      BY <2>6, Zenon DEF Raise
    <3> QED
      BY <3>1, <3>3, <3>4 DEF RestartsWork
  <2> QED
    BY <1>2, <2>1, <2>2, <2>3, <2>4, <2>5, <2>6, Zenon DEF Failed
<1> QED
  BY <1>1, <1>3, Zenon DEF RestartInv

-----------------------------------------------------------------------------
\* The invariant, and what follows from it.

\* The invariant holds at the first launch.
LEMMA Initially ==
  ASSUME Init
  PROVE  IInv
<1>1. resume = ResumeOf(0)
  BY DEF Init, ResumeOf
<1>2. JobInv
  BY <1>1 DEF Init, JobInv
<1>3. job.world \in Nat \ {0}
  BY <1>2, TrainingAssumption DEF JobInv, TrainingAssumption
<1>4. 0 \in Ranks
  BY <1>3 DEF Ranks
<1>5. proc = [r \in Ranks |-> Fresh] /\ \A r \in Ranks : proc[r] = Fresh
  BY Zenon DEF Init
<1>6. ProcessInv
  <2>1. "train data" \in Loading
    BY DEF Loading
  <2>2. IsProcess(Fresh)
    BY <2>1, Starts
  <2> QED
    BY <1>5, <2>2, Zenon DEF ProcessInv
<1>7. DiskInv
  BY DEF Init, DiskInv
<1>8. /\ \A e \in Epochs : disk.model[e] = NoFile
      /\ disk.checkpoint = NoFile
  BY DEF Init
<1>9. Checkpoints = {}
  BY <1>8, Kinds DEF Checkpoints
<1>10. TrainInv
  <2>1. WholeInv
    BY <1>1, <1>8, Kinds, Zenon DEF WholeInv
  <2>2. Kept(disk.model, 0) /\ 0 \in 0..NumEpochs
    BY <1>8, Kinds, TrainingAssumption DEF Kept, Epochs, TrainingAssumption
  <2>3. proc[0].pc \notin Firsts /\ proc[0].pc \notin Lasts
    BY <1>4, <1>5 DEF Fresh, Firsts, Lasts, Looping, Saving
  <2>4. MasterInv
    BY <1>1, <2>2, <2>3, Zenon DEF MasterInv
  <2> QED
    BY <2>1, <2>2, <2>4, Zenon DEF TrainInv
<1>11. RestartInv
  <2>1. \A r \in Ranks : proc[r].pc \notin Saving
    BY <1>5 DEF Fresh, Saving
  <2>2. ~IsCheckpoint(resume)
    BY <1>1, Kinds, Zenon
  <2>3. raised = ""
    BY DEF Init
  <2> QED
    BY <1>9, <2>1, <2>2, <2>3, Zenon DEF RestartInv, PlaceInv, RestartsWork
<1> QED
  BY <1>2, <1>6, <1>7, <1>10, <1>11, Zenon DEF IInv

\* Every step keeps the invariant.
LEMMA Inductive ==
  ASSUME IInv, [Next]_vars
  PROVE  IInv'
<1>1. CASE Next
  BY <1>1, JobKept, Effects, DiskKept, TrainKept, RestartKept, Zenon DEF IInv
<1>2. CASE UNCHANGED vars
  <2>1. JobInv'
    BY <1>2 DEF vars, IInv, JobInv, The, ResumeOf
  <2>2. ProcessInv'
    BY <1>2 DEF vars, IInv, ProcessInv, Ranks
  <2>3. DiskInv'
    BY <1>2 DEF vars, IInv, DiskInv, The
  <2>4. TrainInv'
    BY <1>2 DEF vars, IInv, TrainInv, WholeInv, MasterInv, The, ResumeOf
  <2>5. RestartInv'
    BY <1>2 DEF vars, IInv, RestartInv, PlaceInv, RestartsWork, NoForward, InLoop, Ranks, Checkpoints
  <2> QED
    BY <2>1, <2>2, <2>3, <2>4, <2>5 DEF IInv
<1> QED
  BY <1>1, <1>2

\* The inductive invariant holds in every reachable state of the job.
THEOREM InvariantHolds == Spec => []IInv
<1>1. Init => IInv
  BY Initially
<1>2. IInv /\ [Next]_vars => IInv'
  BY Inductive
<1> QED
  BY <1>1, <1>2, PTL DEF Spec

\* Whatever the numbers of processes, epochs and crashes: train.py fails for no
\* other reasons than a torn cache that it was told to use, a network that cannot
\* be run, or a checkpoint of a pruned model after a crash; the arguments are
\* missing only in train_quantization.py (main, load_data, save_on_master).
THEOREM AlwaysRestarts == Spec => []RestartsWork
<1>1. IInv => RestartsWork
  BY DEF IInv, RestartInv, RestartsWork
<1> QED
  BY <1>1, InvariantHolds, PTL

-----------------------------------------------------------------------------
\* The refinement: the log has as many epochs as models are whole.

LogAfter(k) == [i \in 1..k |-> [epoch |-> i - 1, lr |-> i - 1, shuffle |-> i - 1]]

\* With the models of the first k epochs whole, k epochs are in the log.
LEMMA SavedIs ==
  ASSUME IInv, NEW k \in 0..NumEpochs, Kept(disk.model, k)
  PROVE  SavedLog = LogAfter(k) /\ SavedAverage = EmaAfter(k).of
<1>1. Newest = IF k = 0 THEN NoFile ELSE The(k - 1)
  <2>1. \A e \in Epochs : disk.checkpoint = The(e) => IsCheckpoint(disk.model[e])
    BY Zenon DEF IInv, TrainInv, WholeInv
  <2> QED
    BY <2>1, NewestKept, Zenon DEF IInv
<1>2. CASE k = 0
  <2>1. Saved.net = <<>> /\ Saved.ema.of = {}
    <3>1. ~IsCheckpoint(Newest)
      BY <1>1, <1>2, Kinds
    <3> QED
      BY <3>1 DEF Saved
  <2> QED
    BY <1>2, <2>1 DEF SavedLog, SavedAverage, LogAfter, EmaAfter
<1>3. CASE k # 0
  <2>1. Saved = The(k - 1)
    BY <1>1, <1>3, Kinds, Zenon DEF Saved
  <2>2. Saved.net = NetAfter(k) /\ Saved.ema = EmaAfter(k)
    <3>1. (k - 1) + 1 = k
      BY <1>3
    <3>2. Saved.net = NetAfter((k - 1) + 1) /\ Saved.ema = EmaAfter((k - 1) + 1)
      BY <2>1 DEF The, CheckpointOf
    <3> QED
      BY <3>1, <3>2
  <2>3. SavedLog = LogAfter(k)
    BY <2>2, Zenon DEF SavedLog, LogAfter, NetAfter, EpochRecord
  <2> QED
    BY <2>2, <2>3, Zenon DEF SavedAverage
<1> QED
  BY <1>2, <1>3

SavedRight == IInv =>
  \A k \in 0..NumEpochs : Kept(disk.model, k) =>
    SavedLog = LogAfter(k) /\ SavedAverage = EmaAfter(k).of

\* The same of the state after a step.
LEMMA SavedIsThen == SavedRight'
<1>1. SavedRight
  BY SavedIs DEF SavedRight
<1> QED
  BY <1>1, PTL

\* The models that are whole are as many as before, or one more.
LEMMA KeptSteps ==
  ASSUME IInv, IInv', Next
  PROVE  \E k \in 0..NumEpochs :
           /\ Kept(disk.model, k)
           /\ Kept(disk'.model, k) \/ (k < NumEpochs /\ Kept(disk'.model, k + 1))
<1>1. CASE disk'.model = disk.model
  BY <1>1, Zenon DEF IInv, TrainInv
<1>2. CASE /\ SaveModel /\ proc[0].epoch \in Epochs
           /\ \/ Moved(0, "save model", "saving model", proc[0].epoch)
              \/ Moved(0, "saving model", "save checkpoint", proc[0].epoch)
  <2>1. PICK e \in Epochs : e = proc[0].epoch /\ e = proc'[0].epoch
    BY <1>2, Zenon DEF Moved
  <2>2. proc[0].pc \in Firsts
    BY <1>2 DEF Moved, Firsts
  <2>3. Kept(disk.model, e)
    BY <2>1, <2>2, Zenon DEF IInv, TrainInv, MasterInv
  <2>4. proc'[0].pc \in Firsts \/ proc'[0].pc \in Lasts
    BY <1>2 DEF Moved, Firsts, Lasts, Saving
  <2>6. Kept(disk'.model, e) \/ Kept(disk'.model, e + 1)
    BY <2>1, <2>4, Zenon DEF IInv, TrainInv, MasterInv
  <2>7. e \in 0..NumEpochs /\ e < NumEpochs
    BY TrainingAssumption DEF TrainingAssumption, Epochs
  <2> QED
    BY <2>3, <2>6, <2>7, Zenon
<1>3. ASSUME SaveCheckpoint
      PROVE  disk'.model = disk.model
  BY <1>3, CheckpointWritten, JobFixed, Zenon DEF IInv, WritesCheckpoint
<1> QED
  BY <1>1, <1>2, <1>3, Effects, Zenon DEF IInv, Effect, SameFiles

\* One more epoch in the log is one step of the promise.
LEMMA LogGrows ==
  ASSUME NEW k \in Nat
  PROVE  /\ Len(LogAfter(k)) = k
         /\ LogAfter(k + 1) = Append(LogAfter(k), [epoch |-> k, lr |-> k, shuffle |-> k])
         /\ EmaAfter(k + 1).of = Promise!Averaged(k + 1)
<1>1. Len(LogAfter(k)) = k
  BY DEF LogAfter
<1>2. LogAfter(k + 1) = Append(LogAfter(k), [epoch |-> k, lr |-> k, shuffle |-> k])
  BY DEF LogAfter
<1>3. EmaAfter(k + 1).of = Promise!Averaged(k + 1)
  BY DEF EmaAfter, Promise!Averaged
<1> QED
  BY <1>1, <1>2, <1>3

\* Whatever the numbers of processes, epochs and crashes: what is saved is what
\* the uninterrupted job would have saved, and only grows (main: the order of
\* the writes, start_epoch, the states of the scheduler and of model_ema).
THEOREM ResumesTheLog == Spec => ImplementsEpochLog
<1>1. Init => Promise!Init
  <2> SUFFICES ASSUME Init
               PROVE  SavedLog = <<>> /\ SavedAverage = {}
    BY DEF Promise!Init
  <2>1. IInv
    BY Initially
  <2>2. \A e \in Epochs : disk.model[e] = NoFile
    BY DEF Init
  <2>3. Kept(disk.model, 0) /\ 0 \in 0..NumEpochs
    BY <2>2, Kinds, TrainingAssumption DEF Kept, Epochs, TrainingAssumption
  <2>4. SavedLog = LogAfter(0) /\ SavedAverage = EmaAfter(0).of
    BY <2>1, <2>3, SavedIs, Zenon
  <2>5. LogAfter(0) = <<>> /\ EmaAfter(0).of = {}
    BY DEF LogAfter, EmaAfter
  <2> QED
    BY <2>4, <2>5
<1>2. ASSUME IInv, IInv', [Next]_vars
      PROVE  [Promise!Epoch]_<<SavedLog, SavedAverage>>
  <2>1. CASE UNCHANGED vars
    BY <2>1 DEF vars, SavedLog, SavedAverage, Saved, Newest, Checkpoints
  <2>2. CASE Next
    <3>1. PICK k \in 0..NumEpochs :
            /\ Kept(disk.model, k)
            /\ Kept(disk'.model, k) \/ (k < NumEpochs /\ Kept(disk'.model, k + 1))
      BY <1>2, <2>2, KeptSteps
    <3>2. SavedLog = LogAfter(k) /\ SavedAverage = EmaAfter(k).of
      BY <1>2, <3>1, SavedIs, Zenon
    <3>4. CASE Kept(disk'.model, k)
      <4>1. SavedLog' = LogAfter(k) /\ SavedAverage' = EmaAfter(k).of
        BY <1>2, <3>1, <3>4, SavedIsThen, Zenon DEF SavedRight
      <4> QED
        BY <3>2, <4>1
    <3>5. CASE k < NumEpochs /\ Kept(disk'.model, k + 1)
      <4>1. k + 1 \in 0..NumEpochs /\ k \in Nat
        BY <3>1, <3>5, TrainingAssumption DEF TrainingAssumption
      <4>2. SavedLog' = LogAfter(k + 1) /\ SavedAverage' = EmaAfter(k + 1).of
        BY <1>2, <3>5, <4>1, SavedIsThen, Zenon DEF SavedRight
      <4>3. Len(SavedLog) = k
        BY <3>2, <4>1, LogGrows, Zenon
      <4>4. /\ SavedLog' = Append(SavedLog, [epoch |-> k, lr |-> k, shuffle |-> k])
            /\ SavedAverage' = Promise!Averaged(k + 1)
        BY <3>2, <4>1, <4>2, LogGrows, Zenon
      <4>5. Promise!Epoch
        BY <3>5, <4>3, <4>4, Zenon DEF Promise!Epoch
      <4> QED
        BY <4>5
    <3> QED
      BY <3>1, <3>4, <3>5
  <2> QED
    BY <1>2, <2>1, <2>2
<1> QED
  BY <1>1, <1>2, InvariantHolds, PTL DEF Spec, ImplementsEpochLog, Promise!Spec

-----------------------------------------------------------------------------
\* The evaluation: what the meters of all processes count together.

Metered(B, good, g, t) == IF t = {} THEN EmptyMeter ELSE Update(g[t \ {Max(t)}], B[Max(t)], good)
Meters(B, good) == CHOOSE g : g = [t \in SUBSET (DOMAIN B) |-> Metered(B, good, g, t)]

LEMMA ShardFold ==
  ASSUME NEW s, NEW good, NEW size
  PROVE  EvaluateShard(s, good, size) = Meters(Batches(s, size), good)[DOMAIN Batches(s, size)]
  BY Zenon DEF EvaluateShard, FoldLeft, MapThenFoldSet, Meters, Metered

Counted(m, g, t) == IF t = {} THEN 0 ELSE m[CHOOSE x \in t : TRUE].count + g[t \ {CHOOSE x \in t : TRUE}]
Counts(m) == CHOOSE g : g = [t \in SUBSET (DOMAIN m) |-> Counted(m, g, t)]
Totaled(m, g, t) == IF t = {} THEN 0 ELSE m[CHOOSE x \in t : TRUE].total + g[t \ {CHOOSE x \in t : TRUE}]
Totaleds(m) == CHOOSE g : g = [t \in SUBSET (DOMAIN m) |-> Totaled(m, g, t)]

LEMMA SyncFold ==
  ASSUME NEW m
  PROVE  Synchronized(m) = [count |-> Counts(m)[DOMAIN m], total |-> Totaleds(m)[DOMAIN m]]
  BY Zenon DEF Synchronized, FoldFunction, FoldFunctionOnSet, MapThenFoldSet, Counts, Counted, Totaleds, Totaled


\* The sums over the processes are the totals of their meters.
LEMMA SyncTotals ==
  ASSUME NEW S, NEW m, NEW c, NEW d, DOMAIN m = S, Values(c, S), Values(d, S),
         \A r \in S : m[r].count = c[r] /\ m[r].total = d[r]
  PROVE  Synchronized(m) = [count |-> TotalOf(c), total |-> TotalOf(d)]
<1>1. ASSUME NEW g, NEW s \in SUBSET S
      PROVE  Counted(m, g, s) = Added(c, g, s) /\ Totaled(m, g, s) = Added(d, g, s)
  <2>1. CASE s = {}
    BY <2>1, Zenon DEF Counted, Totaled, Added
  <2>2. CASE s # {}
    <3>1. PICK x \in S : x = First(s) /\ x = CHOOSE y \in s : TRUE
      <4>1. First(s) \in s
        BY <2>2 DEF First
      <4> QED
        BY <4>1 DEF First
    <3>2. Counted(m, g, s) = m[x].count + g[s \ {x}] /\ Totaled(m, g, s) = m[x].total + g[s \ {x}]
      BY <2>2, <3>1, Zenon DEF Counted, Totaled
    <3>3. Added(c, g, s) = c[x] + g[s \ {x}] /\ Added(d, g, s) = d[x] + g[s \ {x}]
      BY <2>2, <3>1, Zenon DEF Added
    <3> QED
      BY <3>2, <3>3, Zenon
  <2> QED
    BY <2>1, <2>2
<1>2. PICK F : F = [s \in SUBSET S |-> Added(c, F, s)]
  BY TotalsExist DEF Values
<1>3. F = [s \in SUBSET S |-> Counted(m, F, s)]
  <2>1. \A s \in SUBSET S : Counted(m, F, s) = Added(c, F, s)
    BY <1>1, Zenon
  <2>2. [s \in SUBSET S |-> Added(c, F, s)] = [s \in SUBSET S |-> Counted(m, F, s)]
    BY <2>1, Zenon
  <2> QED
    BY <1>2, <2>2, Zenon
<1>4. PICK C : C = Counts(m) /\ C = [s \in SUBSET S |-> Counted(m, C, s)]
  <2>1. \E g : g = [s \in SUBSET (DOMAIN m) |-> Counted(m, g, s)]
    BY <1>3, Zenon
  <2> QED
    BY <2>1, Zenon DEF Counts
<1>5. PICK H : H = [s \in SUBSET S |-> Added(d, H, s)]
  BY TotalsExist DEF Values
<1>6. H = [s \in SUBSET S |-> Totaled(m, H, s)]
  <2>1. \A s \in SUBSET S : Totaled(m, H, s) = Added(d, H, s)
    BY <1>1, Zenon
  <2>2. [s \in SUBSET S |-> Added(d, H, s)] = [s \in SUBSET S |-> Totaled(m, H, s)]
    BY <2>1, Zenon
  <2> QED
    BY <1>5, <2>2, Zenon
<1>7. PICK D : D = Totaleds(m) /\ D = [s \in SUBSET S |-> Totaled(m, D, s)]
  <2>1. \E g : g = [s \in SUBSET (DOMAIN m) |-> Totaled(m, g, s)]
    BY <1>6, Zenon
  <2> QED
    BY <2>1, Zenon DEF Totaleds
<1>8. C[S] = TotalOf(c)
  <2>1. \A s \in SUBSET S : C[s] = Added(c, C, s)
    BY <1>1, <1>4, Zenon
  <2>2. \A s \in SUBSET S : C[s] = Totals(c)[s]
    BY <2>1, OneTotal
  <2> QED
    BY <2>2, Zenon DEF TotalOf, Values
<1>9. D[S] = TotalOf(d)
  <2>1. \A s \in SUBSET S : D[s] = Added(d, D, s)
    BY <1>1, <1>7, Zenon
  <2>2. \A s \in SUBSET S : D[s] = Totals(d)[s]
    BY <2>1, OneTotal
  <2> QED
    BY <2>2, Zenon DEF TotalOf, Values
<1> QED
  BY <1>4, <1>7, <1>8, <1>9, SyncFold, Zenon

\* The greatest of some of the first numbers.
LEMMA Greatest ==
  ASSUME NEW n \in Nat, NEW t \in SUBSET (1..n), t # {}
  PROVE  Max(t) \in t
<1>1. PICK T : T = {n - x : x \in t}
  OBVIOUS
<1>2. T \subseteq Nat /\ T # {}
  <2>1. \A x \in t : x \in Int /\ 1 <= x /\ x <= n
    OBVIOUS
  <2>2. \A x \in t : n - x \in Nat
    BY <2>1
  <2> QED
    BY <1>1, <2>2
<1>3. PICK k \in T : \A j \in T : k <= j
  BY <1>2, LeastNatural, Zenon
<1>4. PICK x \in t : k = n - x
  BY <1>1
<1>5. \A y \in t : n - x <= n - y
  BY <1>1, <1>3, <1>4
<1>6. \A y \in t : x >= y
  BY <1>5
<1>7. \E z \in t : \A y \in t : z >= y
  BY <1>6
<1> QED
  BY <1>7, Zenon DEF Max

Hits(batch, good) == Cardinality({i \in DOMAIN batch : batch[i] \in good})

\* The meter of a process is the total over its batches.
LEMMA ShardTotals ==
  ASSUME NEW n \in Nat, NEW B, DOMAIN B = 1..n, NEW good,
         NEW c, NEW d, Values(c, 1..n), Values(d, 1..n),
         \A b \in 1..n : Len(B[b]) = c[b] /\ Hits(B[b], good) = d[b]
  PROVE  Meters(B, good)[DOMAIN B] = [count |-> TotalOf(c), total |-> TotalOf(d)]
<1>0. PICK S : S = 1..n
  OBVIOUS
<1>1. PICK E : E = [t \in SUBSET S |-> [count |-> Totals(c)[t], total |-> Totals(d)[t]]]
  OBVIOUS
<1>2. ASSUME NEW t \in SUBSET S, t # {}
      PROVE  /\ Max(t) \in t /\ t \ {Max(t)} \in SUBSET S
             /\ Update(E[t \ {Max(t)}], B[Max(t)], good) = E[t]
  <2>1. PICK x \in t : x = Max(t)
    BY <1>0, <1>2, Greatest
  <2>2. t \ {x} \in SUBSET S /\ x \in S
    OBVIOUS
  <2>3. PICK a, b, p, q : a = Totals(c)[t] /\ b = Totals(c)[t \ {x}] /\ p = Totals(d)[t] /\ q = Totals(d)[t \ {x}]
    OBVIOUS
  <2>4. a = c[x] + b /\ p = d[x] + q /\ b \in Int /\ q \in Int /\ c[x] \in Int /\ d[x] \in Int
    <3>0. Values(c, S) /\ Values(d, S)
      BY <1>0
    <3>1. a = c[x] + b /\ b \in Int
      <4>1. Totals(c)[t] = c[x] + Totals(c)[t \ {x}]
        BY <3>0, TotalsWithout
      <4>2. Totals(c)[t \ {x}] \in Int
        BY <2>2, <3>0, TotalsWithout
      <4> QED
        BY <2>3, <4>1, <4>2
    <3>2. p = d[x] + q /\ q \in Int
      <4>1. Totals(d)[t] = d[x] + Totals(d)[t \ {x}]
        BY <3>0, TotalsWithout
      <4>2. Totals(d)[t \ {x}] \in Int
        BY <2>2, <3>0, TotalsWithout
      <4> QED
        BY <2>3, <4>1, <4>2
    <3>3. c[x] \in Int /\ d[x] \in Int
      BY <1>0, <2>2 DEF Values
    <3> QED
      BY <3>1, <3>2, <3>3
  <2>5. E[t] = [count |-> a, total |-> p] /\ E[t \ {x}] = [count |-> b, total |-> q]
    BY <1>1, <2>2, <2>3
  <2>6. Update([count |-> b, total |-> q], B[x], good) = [count |-> b + c[x], total |-> q + d[x]]
    <3>1. Len(B[x]) = c[x] /\ Cardinality({i \in DOMAIN B[x] : B[x][i] \in good}) = d[x]
      BY <1>0, <2>2, Zenon DEF Hits
    <3> QED
      BY <3>1 DEF Update
  <2>7. b + c[x] = a /\ q + d[x] = p
    BY <2>4
  <2> QED
    BY <2>1, <2>2, <2>5, <2>6, <2>7
<1>3. E[{}] = EmptyMeter
  <2>1. Totals(c)[{}] = 0 /\ Totals(d)[{}] = 0
    BY TotalsWithout
  <2>2. {} \in SUBSET S
    OBVIOUS
  <2> QED
    BY <1>1, <2>1, <2>2 DEF EmptyMeter
<1>4. \A t \in SUBSET S : E[t] = Metered(B, good, E, t)
  BY <1>2, <1>3, Zenon DEF Metered
<1>5. E = [t \in SUBSET S |-> Metered(B, good, E, t)]
  <2>1. E = [t \in SUBSET S |-> E[t]]
    BY <1>1
  <2> QED
    BY <1>4, <2>1, Zenon
<1>6. PICK G : G = Meters(B, good) /\ G = [t \in SUBSET S |-> Metered(B, good, G, t)]
  <2>1. \E g : g = [t \in SUBSET (DOMAIN B) |-> Metered(B, good, g, t)]
    BY <1>0, <1>5, Zenon
  <2> QED
    BY <1>0, <2>1, Zenon DEF Meters
<1>7. PICK Bad : Bad = {t \in SUBSET S : G[t] # E[t]}
  OBVIOUS
<1>8. ASSUME Bad # {} PROVE FALSE
  <2>1. Bad \subseteq SUBSET S /\ IsFiniteSet(S)
    BY <1>0, <1>7 DEF Values
  <2>2. PICK t \in Bad : \A x \in t : t \ {x} \notin Bad
    BY <1>8, <2>1, SmallestSet, Zenon
  <2>3. t \in SUBSET S /\ G[t] # E[t]
    BY <1>7
  <2>4. G[t] = Metered(B, good, G, t)
    BY <1>6, <2>3, Zenon
  <2>5. CASE t = {}
    BY <1>3, <2>3, <2>4, <2>5, Zenon DEF Metered
  <2>6. CASE t # {}
    <3>1. t \ {Max(t)} \notin Bad /\ t \ {Max(t)} \in SUBSET S
      BY <1>2, <2>2, <2>3, <2>6
    <3>2. G[t \ {Max(t)}] = E[t \ {Max(t)}]
      BY <1>7, <3>1
    <3>3. G[t] = Update(E[t \ {Max(t)}], B[Max(t)], good)
      BY <2>4, <2>6, <3>2, Zenon DEF Metered
    <3> QED
      BY <1>2, <2>3, <2>6, <3>3
  <2> QED
    BY <2>5, <2>6
<1>9. G[S] = E[S] /\ S \in SUBSET S
  BY <1>7, <1>8
<1>10. DOMAIN c = S /\ DOMAIN d = S
  BY <1>0 DEF Values
<1>11. E[S] = [count |-> TotalOf(c), total |-> TotalOf(d)]
  BY <1>1, <1>9, <1>10 DEF TotalOf
<1> QED
  BY <1>0, <1>6, <1>9, <1>11, Zenon


\* The places of batch b.
LEMMA BatchBounds ==
  ASSUME NEW L \in Nat, NEW size \in Nat \ {0}, NEW b \in 1..CeilDiv(L, size)
  PROVE  \E o \in Nat, e \in Nat :
           /\ o = (b - 1) * size /\ e = IF b * size < L THEN b * size ELSE L
           /\ o < e /\ e <= L
           /\ \A i \in 1..L : (i - 1) \div size + 1 = b <=> o < i /\ i <= e
<1>1. PICK c \in Nat : c = L + size - 1
  OBVIOUS
<1>2. PICK q \in Nat, r \in 0..(size - 1) : c = q * size + r /\ q = CeilDiv(L, size)
  <2>1. PICK q \in Nat, r \in 0..(size - 1) : c = q * size + r /\ c \div size = q
    BY Division
  <2> QED
    BY <1>1, <2>1 DEF CeilDiv
<1>3. b \in Nat /\ b - 1 \in Nat /\ b <= q
  BY <1>2
<1>4. PICK o \in Nat, u \in Nat, w \in Nat : o = (b - 1) * size /\ u = b * size /\ w = q * size
  BY <1>3, Products
<1>5. u = o + size /\ u <= w
  <2>1. (b - 1) * size = b * size - size
    BY <1>3, Products
  <2>2. b * size <= q * size
    BY <1>3, Products
  <2> QED
    BY <1>4, <2>1, <2>2
<1>6. o < L
  BY <1>1, <1>2, <1>4, <1>5
<1>7. PICK e \in Nat : e = (IF b * size < L THEN b * size ELSE L) /\ e = (IF u < L THEN u ELSE L)
  BY <1>4
<1>8. ASSUME NEW i \in 1..L PROVE (i - 1) \div size + 1 = b <=> o < i /\ i <= e
  <2>1. PICK k \in Nat, t \in 0..(size - 1) : i - 1 = k * size + t /\ (i - 1) \div size = k
    <3>1. i - 1 \in Nat
      OBVIOUS
    <3> QED
      BY <3>1, Division
  <2>2. ASSUME k + 1 = b PROVE o < i /\ i <= e
    <3>1. k = b - 1
      BY <1>3, <2>2
    <3>2. i - 1 = o + t
      BY <1>4, <2>1, <3>1
    <3> QED
      BY <1>5, <1>7, <3>2
  <2>3. ASSUME o < i, i <= e PROVE k + 1 = b
    <3>1. PICK d \in 0..(size - 1) : i - 1 = o + d
      <4>1. i - 1 - o \in 0..(size - 1)
        BY <1>5, <1>7, <2>3
      <4> QED
        BY <4>1
    <3>2. (o + d) \div size = b - 1
      BY <1>3, <1>4, QuotientIs
    <3> QED
      BY <1>3, <2>1, <3>1, <3>2
  <2> QED
    BY <2>1, <2>2, <2>3
<1>9. o < e /\ e <= L
  BY <1>5, <1>6, <1>7
<1> QED
  BY <1>4, <1>7, <1>8, <1>9

\* Every place is in a batch.
LEMMA BatchOf ==
  ASSUME NEW L \in Nat, NEW size \in Nat \ {0}, NEW i \in 1..L
  PROVE  (i - 1) \div size + 1 \in 1..CeilDiv(L, size)
<1>1. PICK c \in Nat : c = L + size - 1
  OBVIOUS
<1>2. PICK q \in Nat, r \in 0..(size - 1) : c = q * size + r /\ q = CeilDiv(L, size)
  <2>1. PICK q \in Nat, r \in 0..(size - 1) : c = q * size + r /\ c \div size = q
    BY Division
  <2> QED
    BY <1>1, <2>1 DEF CeilDiv
<1>3. PICK k \in Nat, t \in 0..(size - 1) : i - 1 = k * size + t /\ (i - 1) \div size = k
  <2>1. i - 1 \in Nat
    OBVIOUS
  <2> QED
    BY <2>1, Division
<1>4. ASSUME q <= k PROVE FALSE
  <2>1. q * size <= k * size /\ q * size \in Nat /\ k * size \in Nat
    BY <1>4, Products
  <2>2. PICK a \in Nat, b \in Nat : a = q * size /\ b = k * size
    BY <2>1
  <2> QED
    BY <1>1, <1>2, <1>3, <2>1, <2>2
<1> QED
  BY <1>2, <1>3, <1>4

\* The places of V in a stretch, and as they are counted from its start.
Stretch(V, o, e) == {i \in V : o < i /\ i <= e}
Within(V, o, e) == {j \in 1..(e - o) : o + j \in V}

LEMMA StretchCount ==
  ASSUME NEW o \in Nat, NEW e \in Nat, o <= e, NEW V, V \subseteq Nat
  PROVE  Cardinality(Within(V, o, e)) = Cardinality(Stretch(V, o, e))
<1>0. PICK U : U = Stretch(V, o, e) /\ U = {i \in V : o < i /\ i <= e}
  BY DEF Stretch
<1>1. PICK A : A = Within(V, o, e) /\ A = {j \in 1..(e - o) : o + j \in V}
  BY DEF Within
<1>2. IsFiniteSet(A)
  <2>1. A \subseteq 1..(e - o) /\ IsFiniteSet(1..(e - o))
    BY <1>1, FS_Interval
  <2> QED
    BY <2>1, FS_Subset
<1>3. PICK m : m = [j \in A |-> o + j]
  OBVIOUS
<1>4. \A x \in A : x \in Nat /\ m[x] = o + x /\ m[x] \in U
  BY <1>0, <1>1, <1>3
<1>5. \A x, y \in A : m[x] = m[y] => x = y
  BY <1>4
<1>6. \A b \in U : \E x \in A : m[x] = b
  <2> SUFFICES ASSUME NEW b \in U PROVE \E x \in A : m[x] = b
    OBVIOUS
  <2>1. b \in Nat /\ b \in V /\ o < b /\ b <= e
    BY <1>0
  <2>2. PICK x \in Int : x = b - o
    BY <2>1
  <2>3. x \in 1..(e - o) /\ o + x = b
    BY <2>1, <2>2
  <2> QED
    BY <1>1, <1>4, <2>1, <2>3
<1>7. Cardinality(U) = Cardinality(A)
  BY <1>2, <1>4, <1>5, <1>6, SameCount
<1> QED
  BY <1>0, <1>1, <1>7

IsList(s, L) == s = [i \in 1..L |-> s[i]]

\* So the meter of a process counts its samples, and those that are right,
\* whatever the size of its batches.
LEMMA ShardCount ==
  ASSUME NEW L \in Nat, NEW s, IsList(s, L), NEW good, NEW size \in Nat \ {0}
  PROVE  EvaluateShard(s, good, size) = [count |-> L, total |-> Cardinality({i \in 1..L : s[i] \in good})]
<1>1. PICK n \in Nat : n = CeilDiv(L, size)
  <2>1. PICK c \in Nat : c = L + size - 1
    OBVIOUS
  <2>2. PICK q \in Nat, r \in 0..(size - 1) : c = q * size + r /\ c \div size = q
    BY Division
  <2> QED
    BY <2>1, <2>2 DEF CeilDiv
<1>2. PICK S, W : S = 1..L /\ W = {i \in S : s[i] \in good}
  OBVIOUS
<1>3. IsFiniteSet(S) /\ IsFiniteSet(W) /\ Cardinality(S) = L
  <2>1. IsFiniteSet(S) /\ Cardinality(S) = L
    BY <1>2, FS_Interval
  <2> QED
    BY <1>2, <2>1, FS_Subset
<1>4. PICK p : p = [i \in S |-> (i - 1) \div size + 1]
  OBVIOUS
<1>5. Sends(p, S, 1..n) /\ Sends(p, W, 1..n)
  BY <1>1, <1>2, <1>4, BatchOf DEF Sends
<1>6. IsFiniteSet(1..n)
  BY FS_Interval
<1>7. PICK c, d : c = [b \in 1..n |-> Cardinality(Part(S, p, b))] /\ d = [b \in 1..n |-> Cardinality(Part(W, p, b))]
  OBVIOUS
<1>8. TotalOf(c) = L /\ TotalOf(d) = Cardinality(W)
  <2>1. TotalOf([b \in 1..n |-> Cardinality(Part(S, p, b))]) = Cardinality(S)
    BY <1>3, <1>5, <1>6, CountByParts
  <2>2. TotalOf([b \in 1..n |-> Cardinality(Part(W, p, b))]) = Cardinality(W)
    BY <1>3, <1>5, <1>6, CountByParts
  <2> QED
    BY <1>3, <1>7, <2>1, <2>2
<1>9. Values(c, 1..n) /\ Values(d, 1..n)
  <2>1. \A b \in 1..n : Part(S, p, b) \subseteq S /\ Part(W, p, b) \subseteq W
    BY DEF Part
  <2>2. \A b \in 1..n : Cardinality(Part(S, p, b)) \in Nat /\ Cardinality(Part(W, p, b)) \in Nat
    BY <1>3, <2>1, FS_Subset, FS_CardinalityType
  <2> QED
    BY <1>6, <1>7, <2>2 DEF Values
<1>10. PICK B : B = Batches(s, size) /\ DOMAIN B = 1..n /\ Len(s) = L
  <2>1. Len(s) = L
    BY DEF IsList
  <2>2. DOMAIN Batches(s, size) = 1..CeilDiv(Len(s), size)
    BY DEF Batches
  <2> QED
    BY <1>1, <2>1, <2>2
<1>11. ASSUME NEW b \in 1..n PROVE Len(B[b]) = c[b] /\ Hits(B[b], good) = d[b]
  <2>1. PICK o \in Nat, e \in Nat :
          /\ o = (b - 1) * size /\ e = IF b * size < L THEN b * size ELSE L
          /\ o < e /\ e <= L
          /\ \A i \in 1..L : (i - 1) \div size + 1 = b <=> o < i /\ i <= e
    BY <1>1, BatchBounds
  <2>0. o < e /\ e <= L /\ \A i \in S : p[i] = b <=> o < i /\ i <= e
    <3>1. \A i \in S : p[i] = b <=> o < i /\ i <= e
      BY <1>2, <1>4, <2>1, Zenon
    <3> QED
      BY <2>1, <3>1
  <2>2. B[b] = SubSeq(s, o + 1, e)
    <3>1. B[b] = SubSeq(s, (b - 1) * size + 1, IF b * size < Len(s) THEN b * size ELSE Len(s))
      <4>1. b \in 1..CeilDiv(Len(s), size)
        BY <1>1, <1>10
      <4> QED
        BY <1>10, <4>1, Zenon DEF Batches
    <3> QED
      BY <1>10, <2>1, <3>1, Zenon
  <2>3. PICK t : t = SubSeq(s, o + 1, e)
    OBVIOUS
  <2>4. Len(t) = e - o /\ DOMAIN t = 1..(e - o) /\ \A j \in 1..(e - o) : t[j] = s[o + j]
    <3>1. PICK X : \A i \in (o + 1)..e : s[i] \in X
      <4>1. PICK X : X = {s[i] : i \in (o + 1)..e}
        OBVIOUS
      <4> QED
        BY <4>1
    <3>2. o + 1 \in Int /\ e \in Int /\ o + 1 <= e
      BY <2>0
    <3>3. /\ t \in Seq(X) /\ Len(t) = (IF o + 1 <= e THEN e - (o + 1) + 1 ELSE 0)
          /\ \A i \in 1..(e - (o + 1) + 1) : t[i] = s[o + 1 + i - 1]
      BY <2>3, <3>1, <3>2, SubSeqProperties
    <3>4. e - (o + 1) + 1 = e - o /\ \A j \in 1..(e - o) : o + 1 + j - 1 = o + j
      OBVIOUS
    <3>5. Len(t) = e - o /\ \A j \in 1..(e - o) : t[j] = s[o + j]
      BY <3>2, <3>3, <3>4
    <3>6. DOMAIN t = 1..(e - o)
      BY <3>3, <3>5
    <3> QED
      BY <3>5, <3>6
  <2>5. \A V : V \subseteq S => Cardinality(Within(V, o, e)) = Cardinality(Part(V, p, b))
    <3> SUFFICES ASSUME NEW V, V \subseteq S
                 PROVE  Cardinality(Within(V, o, e)) = Cardinality(Part(V, p, b))
      OBVIOUS
    <3>1. Part(V, p, b) = Stretch(V, o, e)
      <4>1. \A i \in V : p[i] = b <=> o < i /\ i <= e
        BY <2>0
      <4> QED
        BY <4>1 DEF Part, Stretch
    <3>2. V \subseteq Nat /\ o <= e
      BY <1>2, <2>0
    <3>3. Cardinality(Within(V, o, e)) = Cardinality(Stretch(V, o, e))
      BY <3>2, StretchCount
    <3> QED
      BY <3>1, <3>3
  <2>6. Within(S, o, e) = 1..(e - o)
    BY <1>2, <2>0 DEF Within
  <2>7. Cardinality(1..(e - o)) = e - o
    <3>1. PICK k \in Nat : k = e - o
      BY <2>0
    <3>2. Cardinality(1..k) = k
      BY FS_Interval
    <3> QED
      BY <3>1, <3>2
  <2>8. Len(B[b]) = c[b]
    <3>1. Cardinality(Within(S, o, e)) = Cardinality(Part(S, p, b))
      BY <2>5
    <3> QED
      BY <1>7, <2>2, <2>3, <2>4, <2>6, <2>7, <3>1
  <2>9. {j \in DOMAIN B[b] : B[b][j] \in good} = Within(W, o, e)
    <3>1. \A j \in 1..(e - o) : o + j \in S
      BY <1>2, <2>0
    <3> QED
      BY <1>2, <2>2, <2>3, <2>4, <3>1 DEF Within
  <2>10. Hits(B[b], good) = d[b]
    <3>1. Cardinality(Within(W, o, e)) = Cardinality(Part(W, p, b))
      BY <1>2, <2>5
    <3> QED
      BY <1>7, <2>9, <3>1 DEF Hits
  <2> QED
    BY <2>8, <2>10
<1>12. Meters(B, good)[DOMAIN B] = [count |-> TotalOf(c), total |-> TotalOf(d)]
  <2>1. DOMAIN B = 1..n
    BY <1>10
  <2> QED
    BY <1>9, <1>11, <2>1, ShardTotals
<1> QED
  BY <1>2, <1>8, <1>10, <1>12, ShardFold, Zenon


\* The samples of all processes: the first ones again behind the last.
Padding(n, world) == [k \in 1..(CeilDiv(n, world) * world) |-> ((k - 1) % n) + 1]

\* Process r has every world-th of the total of q * world places.
Places(q, world, r) ==
  /\ \A i \in 1..q : /\ r + 1 + (i - 1) * world \in 1..(q * world)
                     /\ (r + (i - 1) * world) % world = r
  /\ \A i, j \in 1..q : r + 1 + (i - 1) * world = r + 1 + (j - 1) * world => i = j
  /\ \A k \in 1..(q * world) : (k - 1) % world = r => \E i \in 1..q : k = r + 1 + (i - 1) * world

LEMMA ShardPlaces ==
  ASSUME NEW q \in Nat, NEW world \in Nat \ {0}, NEW r \in 0..(world - 1)
  PROVE  CeilDiv(q * world - r, world) = q /\ Places(q, world, r)
<1>1. PICK t \in Nat : t = q * world
  BY Products
<1>2. CeilDiv(q * world - r, world) = q
  <2>1. PICK d \in 0..(world - 1) : d = world - 1 - r
    OBVIOUS
  <2>2. (q * world + d) \div world = q
    BY QuotientIs
  <2>3. q * world - r + world - 1 = q * world + d
    BY <1>1, <2>1
  <2> QED
    BY <2>2, <2>3 DEF CeilDiv
<1>3. ASSUME NEW i \in 1..q
      PROVE  \E u \in Nat : /\ u = (i - 1) * world /\ u + world <= t
                            /\ (u + r) % world = r /\ (u + r) \div world = i - 1
  <2>1. i - 1 \in Nat /\ i \in Nat /\ i <= q
    OBVIOUS
  <2>2. PICK u \in Nat, v \in Nat : u = (i - 1) * world /\ v = i * world
    BY <2>1, Products
  <2>3. v = u + world /\ v <= t
    <3>1. (i - 1) * world = i * world - world /\ i * world <= q * world
      BY <2>1, Products
    <3> QED
      BY <1>1, <2>2, <3>1
  <2>4. ((i - 1) * world + r) \div world = i - 1 /\ ((i - 1) * world + r) % world = r
    BY <2>1, QuotientIs
  <2> QED
    BY <2>2, <2>3, <2>4
<1>4. ASSUME NEW i \in 1..q
      PROVE  /\ r + 1 + (i - 1) * world \in 1..(q * world)
             /\ (r + (i - 1) * world) % world = r
  <2>1. PICK u \in Nat : u = (i - 1) * world /\ u + world <= t /\ (u + r) % world = r
    BY <1>3
  <2>2. r + u = u + r /\ r + 1 + u \in 1..t
    BY <2>1
  <2>3. r + (i - 1) * world = u + r
    BY <2>1, <2>2
  <2> QED
    BY <1>1, <2>1, <2>2, <2>3
<1>5. ASSUME NEW i \in 1..q, NEW j \in 1..q, r + 1 + (i - 1) * world = r + 1 + (j - 1) * world
      PROVE  i = j
  <2>1. PICK u \in Nat : u = (i - 1) * world /\ (u + r) \div world = i - 1
    BY <1>3
  <2>2. PICK v \in Nat : v = (j - 1) * world /\ (v + r) \div world = j - 1
    BY <1>3
  <2>3. u = v
    BY <1>5, <2>1, <2>2
  <2>4. i - 1 = j - 1
    BY <2>1, <2>2, <2>3
  <2> QED
    BY <2>4
<1>6. ASSUME NEW k \in 1..(q * world), (k - 1) % world = r
      PROVE  \E i \in 1..q : k = r + 1 + (i - 1) * world
  <2>1. k - 1 \in Nat /\ k <= t
    BY <1>1
  <2>2. PICK a \in Nat, b \in 0..(world - 1) : k - 1 = a * world + b /\ (k - 1) % world = b
    BY <2>1, Division
  <2>3. a < q
    <3>1. q <= a => q * world <= a * world
      BY Products
    <3>2. PICK c \in Nat : c = a * world
      BY Products
    <3> QED
      BY <1>1, <2>1, <2>2, <3>1, <3>2
  <2>4. PICK i \in 1..q : i = a + 1 /\ i - 1 = a
    BY <2>3
  <2>5. PICK c \in Nat : c = a * world /\ c = (i - 1) * world
    BY <2>4, Products
  <2> QED
    BY <1>6, <2>2, <2>5
<1>7. Places(q, world, r)
  <2>1. \A i, j \in 1..q : r + 1 + (i - 1) * world = r + 1 + (j - 1) * world => i = j
    BY <1>5, Zenon
  <2>2. \A i \in 1..q : /\ r + 1 + (i - 1) * world \in 1..(q * world)
                        /\ (r + (i - 1) * world) % world = r
    BY <1>4, Zenon
  <2>3. \A k \in 1..(q * world) : (k - 1) % world = r => \E i \in 1..q : k = r + 1 + (i - 1) * world
    BY <1>6, Zenon
  <2> QED
    BY <2>1, <2>2, <2>3, Zenon DEF Places
<1> QED
  BY <1>2, <1>7

\* The meters together count every place, and those that are right.
LEMMA EvaluateIs ==
  ASSUME NEW n \in Nat \ {0}, NEW world \in Nat \ {0}, NEW size \in Nat \ {0}, NEW good,
         NEW total, total = CeilDiv(n, world) * world, NEW V, V = {k \in 1..total : Padding(n, world)[k] \in good}
  PROVE  Evaluate(n, good, world, size) = [count |-> total, total |-> Cardinality(V)]
<1>1. PICK q \in Nat : q = CeilDiv(n, world)
  <2>1. PICK c \in Nat : c = n + world - 1
    OBVIOUS
  <2>2. PICK q \in Nat, r \in 0..(world - 1) : c = q * world + r /\ c \div world = q
    BY Division
  <2> QED
    BY <2>1, <2>2 DEF CeilDiv
<1>2. total = q * world /\ total \in Nat
  BY <1>1, Products
<1>3. PICK K, R : K = 1..total /\ R = 0..(world - 1) /\ IsFiniteSet(K) /\ IsFiniteSet(R) /\ Cardinality(K) = total
  <2>1. IsFiniteSet(1..total) /\ Cardinality(1..total) = total
    BY <1>2, FS_Interval
  <2>2. IsFiniteSet(0..(world - 1))
    <3>1. world - 1 \in Int
      OBVIOUS
    <3> QED
      BY <3>1, FS_Interval
  <2> QED
    BY <2>1, <2>2
<1>4. V \subseteq K /\ IsFiniteSet(V)
  BY <1>3, FS_Subset
<1>5. PICK p : p = [k \in K |-> (k - 1) % world]
  OBVIOUS
<1>6. Sends(p, K, R) /\ Sends(p, V, R)
  <2>1. \A k \in Int : (k - 1) % world \in 0..(world - 1)
    OBVIOUS
  <2> QED
    BY <1>3, <1>4, <1>5, <2>1 DEF Sends
<1>7. PICK c, d : c = [r \in R |-> Cardinality(Part(K, p, r))] /\ d = [r \in R |-> Cardinality(Part(V, p, r))]
  OBVIOUS
<1>8. TotalOf(c) = total /\ TotalOf(d) = Cardinality(V)
  <2>1. TotalOf([r \in R |-> Cardinality(Part(K, p, r))]) = Cardinality(K)
    BY <1>3, <1>6, CountByParts
  <2>2. TotalOf([r \in R |-> Cardinality(Part(V, p, r))]) = Cardinality(V)
    BY <1>3, <1>4, <1>6, CountByParts
  <2> QED
    BY <1>3, <1>7, <2>1, <2>2
<1>9. Values(c, R) /\ Values(d, R)
  <2>1. \A r \in R : Part(K, p, r) \subseteq K /\ Part(V, p, r) \subseteq V
    BY DEF Part
  <2>2. \A r \in R : Cardinality(Part(K, p, r)) \in Nat /\ Cardinality(Part(V, p, r)) \in Nat
    BY <1>3, <1>4, <2>1, FS_Subset, FS_CardinalityType
  <2> QED
    <3>1. \A r \in R : c[r] \in Int /\ d[r] \in Int
      BY <1>7, <2>2
    <3> QED
      BY <1>3, <1>7, <3>1 DEF Values
<1>10. PICK m : m = [r \in R |-> EvaluateShard(DistributedShard(n, r, world), good, size)]
  OBVIOUS
<1>11. ASSUME NEW r \in R PROVE m[r].count = c[r] /\ m[r].total = d[r]
  <2>1. PICK s : s = DistributedShard(n, r, world) /\ s = [i \in 1..q |-> Padding(n, world)[r + 1 + (i - 1) * world]]
    <3>1. Len(Padding(n, world)) = total
      BY <1>2 DEF Padding
    <3>2. CeilDiv(q * world - r, world) = q
      BY <1>3, ShardPlaces
    <3>3. DistributedShard(n, r, world) = Strided(Padding(n, world), r, world)
      BY Zenon DEF DistributedShard, Padding
    <3>4. Strided(Padding(n, world), r, world) = [i \in 1..q |-> Padding(n, world)[r + 1 + (i - 1) * world]]
      BY <1>2, <3>1, <3>2, Zenon DEF Strided
    <3> QED
      BY <3>3, <3>4
  <2>2. IsList(s, q) /\ \A i \in 1..q : s[i] = Padding(n, world)[r + 1 + (i - 1) * world]
    BY <2>1 DEF IsList
  <2>3. m[r] = [count |-> q, total |-> Cardinality({i \in 1..q : s[i] \in good})]
    <3>1. m[r] = EvaluateShard(s, good, size)
      BY <1>10, <2>1
    <3> QED
      BY <2>2, <3>1, ShardCount
  <2>4. PICK g : g = [i \in 1..q |-> r + 1 + (i - 1) * world]
    OBVIOUS
  <2>5. /\ \A i \in 1..q : g[i] \in K /\ p[g[i]] = r /\ s[i] = Padding(n, world)[g[i]]
        /\ \A i, j \in 1..q : g[i] = g[j] => i = j
        /\ \A k \in K : p[k] = r => \E i \in 1..q : g[i] = k
    <3>1. /\ \A i \in 1..q : /\ r + 1 + (i - 1) * world \in 1..(q * world)
                             /\ (r + (i - 1) * world) % world = r
          /\ \A i, j \in 1..q : r + 1 + (i - 1) * world = r + 1 + (j - 1) * world => i = j
          /\ \A k \in 1..(q * world) : (k - 1) % world = r => \E i \in 1..q : k = r + 1 + (i - 1) * world
      <4>1. r \in 0..(world - 1)
        BY <1>3
      <4>2. Places(q, world, r)
        BY <4>1, ShardPlaces, Zenon
      <4> QED
        BY <4>2, Zenon DEF Places
    <3>2. \A i \in 1..q : g[i] = r + 1 + (i - 1) * world
      BY <2>4
    <3>3. \A i \in 1..q : g[i] \in K /\ p[g[i]] = r
      <4> SUFFICES ASSUME NEW i \in 1..q PROVE g[i] \in K /\ p[g[i]] = r
        OBVIOUS
      <4>1. g[i] \in K
        BY <1>2, <1>3, <3>1, <3>2
      <4>2. g[i] - 1 = r + (i - 1) * world
        <5>1. i - 1 \in Int
          OBVIOUS
        <5>2. PICK u \in Int : u = (i - 1) * world
          BY <5>1, Products
        <5>3. r \in Int
          BY <1>3
        <5>4. g[i] = r + 1 + u
          BY <3>2, <5>2
        <5> QED
          BY <5>2, <5>3, <5>4
      <4>3. p[g[i]] = (g[i] - 1) % world
        BY <1>5, <4>1
      <4> QED
        BY <3>1, <4>1, <4>2, <4>3
    <3>4. \A i, j \in 1..q : g[i] = g[j] => i = j
      <4>1. \A i, j \in 1..q : r + 1 + (i - 1) * world = r + 1 + (j - 1) * world => i = j
        BY <3>1
      <4> QED
        BY <3>2, <4>1
    <3>5. \A k \in K : p[k] = r => \E i \in 1..q : g[i] = k
      <4>1. \A k \in K : p[k] = (k - 1) % world
        BY <1>5
      <4> QED
        <5>1. \A k \in 1..(q * world) : (k - 1) % world = r => \E i \in 1..q : k = r + 1 + (i - 1) * world
          BY <3>1
        <5> SUFFICES ASSUME NEW k \in K, p[k] = r PROVE \E i \in 1..q : g[i] = k
          OBVIOUS
        <5>2. k \in 1..(q * world) /\ (k - 1) % world = r
          BY <1>2, <1>3, <4>1
        <5>3. PICK i \in 1..q : k = r + 1 + (i - 1) * world
          BY <5>1, <5>2, Zenon
        <5> QED
          BY <3>2, <5>3, Zenon
    <3> QED
      BY <2>2, <3>2, <3>3, <3>4, <3>5, Zenon
  <2>6. Cardinality(Part(K, p, r)) = q
    <3>1. IsFiniteSet(1..q) /\ Cardinality(1..q) = q
      BY FS_Interval
    <3>2. \A k \in Part(K, p, r) : \E i \in 1..q : g[i] = k
      BY <2>5, Zenon DEF Part
    <3>3. \A i \in 1..q : g[i] \in Part(K, p, r)
      BY <2>5, Zenon DEF Part
    <3>4. Cardinality(Part(K, p, r)) = Cardinality(1..q)
      <4>1. \A i, j \in 1..q : g[i] = g[j] => i = j
        BY <2>5
      <4> QED
        BY <3>1, <3>2, <3>3, <4>1, SameCount
    <3> QED
      BY <3>1, <3>4
  <2>7. Cardinality({i \in 1..q : s[i] \in good}) = Cardinality(Part(V, p, r))
    <3>1. PICK A : A = {i \in 1..q : s[i] \in good}
      OBVIOUS
    <3>2. IsFiniteSet(A) /\ A \subseteq 1..q
      <4>1. IsFiniteSet(1..q) /\ A \subseteq 1..q
        BY <3>1, FS_Interval
      <4> QED
        BY <4>1, FS_Subset
    <3>3. \A k \in K : k \in V <=> Padding(n, world)[k] \in good
      BY <1>3
    <3>4. \A i \in A : g[i] \in Part(V, p, r)
      <4>1. \A i \in A : g[i] \in V /\ p[g[i]] = r
        BY <2>5, <3>1, <3>3
      <4> QED
        BY <4>1 DEF Part
    <3>5. \A k \in Part(V, p, r) : \E i \in A : g[i] = k
      <4> SUFFICES ASSUME NEW k \in Part(V, p, r) PROVE \E i \in A : g[i] = k
        OBVIOUS
      <4>1. k \in V /\ p[k] = r /\ k \in K
        BY <1>4 DEF Part
      <4>2. PICK i \in 1..q : g[i] = k
        BY <2>5, <4>1
      <4>3. s[i] \in good
        BY <2>5, <3>3, <4>1, <4>2
      <4> QED
        BY <3>1, <4>2, <4>3
    <3>6. \A i, j \in A : g[i] = g[j] => i = j
      BY <2>5, <3>2
    <3>7. Cardinality(Part(V, p, r)) = Cardinality(A)
      BY <3>2, <3>4, <3>5, <3>6, SameCount
    <3> QED
      BY <3>1, <3>7
  <2> QED
    BY <1>7, <2>3, <2>6, <2>7
<1>12. Synchronized(m) = [count |-> TotalOf(c), total |-> TotalOf(d)]
  <2>1. DOMAIN m = R
    BY <1>10
  <2> QED
    BY <1>9, <1>11, <2>1, SyncTotals
<1>13. Evaluate(n, good, world, size) = Synchronized(m)
  BY <1>3, <1>10, Zenon DEF Evaluate
<1> QED
  BY <1>8, <1>12, <1>13, Zenon

\* The samples that are right are counted once, and those of the padding again.
LEMMA AccuracyIs ==
  ASSUME NEW n \in Nat \ {0}, NEW world \in Nat \ {0}, NEW size \in Nat \ {0}, NEW good, good \subseteq 1..n,
         NEW a, a = Evaluate(n, good, world, size)
  PROVE  /\ a.count = CeilDiv(n, world) * world /\ a.total \in Nat
         /\ a.total - Cardinality(good) \in 0..(a.count - n)
<1>1. PICK q \in Nat, t \in Nat : q = CeilDiv(n, world) /\ t = q * world /\ n <= t
  <2>1. PICK c \in Nat : c = n + world - 1
    OBVIOUS
  <2>2. PICK q \in Nat, r \in 0..(world - 1) : c = q * world + r /\ c \div world = q
    BY Division
  <2>3. PICK t \in Nat : t = q * world
    BY Products
  <2> QED
    BY <2>1, <2>2, <2>3 DEF CeilDiv
<1>2. PICK V : V = {k \in 1..t : Padding(n, world)[k] \in good}
  OBVIOUS
<1>3. a = [count |-> t, total |-> Cardinality(V)]
  <2>1. t = CeilDiv(n, world) * world
    BY <1>1
  <2> QED
    BY <1>2, <2>1, EvaluateIs
<1>4. \A k \in 1..n : Padding(n, world)[k] = k
  <2> SUFFICES ASSUME NEW k \in 1..n PROVE Padding(n, world)[k] = k
    OBVIOUS
  <2>1. PICK j \in 0..(n - 1) : j = k - 1
    OBVIOUS
  <2>2. (0 * n + j) % n = j
    BY QuotientIs
  <2>3. k \in 1..(CeilDiv(n, world) * world)
    BY <1>1
  <2>4. Padding(n, world)[k] = (j % n) + 1
    BY <2>1, <2>3 DEF Padding
  <2>5. 0 * n + j = j
    OBVIOUS
  <2> QED
    BY <2>1, <2>2, <2>4, <2>5
<1>5. PICK W : W = {k \in V : n < k}
  OBVIOUS
<1>6. V = good \cup W /\ good \cap W = {}
  <2>1. \A k \in good : k \in 1..n /\ k \in 1..t
    BY <1>1
  <2>2. \A k \in good : k \in V /\ ~(n < k)
    BY <1>2, <1>4, <2>1
  <2>3. \A k \in V : n < k \/ k \in good
    <3>1. \A k \in V : k \in 1..t /\ Padding(n, world)[k] \in good
      BY <1>2
    <3>2. \A k \in V : ~(n < k) => k \in 1..n
      BY <1>1, <3>1
    <3> QED
      BY <1>4, <3>1, <3>2
  <2> QED
    BY <1>5, <2>2, <2>3
<1>7. IsFiniteSet(good) /\ IsFiniteSet(W) /\ Cardinality(W) <= t - n
  <2>1. IsFiniteSet(1..n) /\ IsFiniteSet((n + 1)..t) /\ Cardinality((n + 1)..t) = t - n
    <3>1. IsFiniteSet(1..n) /\ IsFiniteSet((n + 1)..t)
      BY FS_Interval
    <3>2. Cardinality((n + 1)..t) = IF n + 1 > t THEN 0 ELSE t - (n + 1) + 1
      <4>1. n + 1 \in Int /\ t \in Int
        OBVIOUS
      <4> QED
        BY <4>1, FS_Interval
    <3> QED
      BY <1>1, <3>1, <3>2
  <2>2. W \subseteq (n + 1)..t
    BY <1>1, <1>2, <1>5
  <2> QED
    BY <2>1, <2>2, FS_Subset
<1>8. Cardinality(V) = Cardinality(good) + Cardinality(W) /\ Cardinality(good) \in Nat /\ Cardinality(W) \in Nat
  <2>1. Cardinality(good \cup W) = Cardinality(good) + Cardinality(W) - Cardinality(good \cap W)
    BY <1>7, FS_Union
  <2>2. Cardinality(good \cap W) = 0
    BY <1>6, FS_EmptySet
  <2>3. Cardinality(good) \in Nat /\ Cardinality(W) \in Nat
    BY <1>7, FS_CardinalityType
  <2> QED
    BY <1>6, <2>1, <2>2, <2>3
<1>9. a.count = t /\ a.total = Cardinality(V)
  BY <1>3
<1> QED
  BY <1>1, <1>7, <1>8, <1>9

-----------------------------------------------------------------------------
\* The accuracies of the run.

RightInv == right \in [Epochs -> Outcomes]

\* What a network gets right after an epoch is given.
LEMMA RightKept ==
  ASSUME RightInv, [Next]_vars
  PROVE  RightInv'
<1>1. right' = right
  BY Zenon DEF vars, Next, Job, Rank, MissingArguments, LoadFromCache, BuildDataset, CacheSaved, CreateModel,
     NotMaster, EndEpoch, Finish, Epoch, SaveModel, SaveCheckpoint, BestSaved, Crash, Relaunch, Raise, Step
<1> QED
  BY <1>1 DEF RightInv, Epochs

\* The accuracy of an epoch.
LEMMA AccuracyIn ==
  ASSUME JobInv, RightInv, NEW e \in Epochs
  PROVE  /\ Accuracy(e).count = CeilDiv(TestSize, job.world) * job.world /\ Accuracy(e).total \in Nat
         /\ Accuracy(e).total - Cardinality(right[e]) \in 0..(Accuracy(e).count - TestSize)
<1>1. job.world \in Worlds /\ right[e] \in Outcomes
  BY DEF JobInv, RightInv
<1>2. Accuracy(e) = Evaluate(TestSize, right[e], job.world, BatchSize)
  BY <1>1, Zenon DEF Accuracy, AccuracyOf
<1>3. TestSize \in Nat \ {0} /\ BatchSize \in Nat \ {0} /\ job.world \in Nat \ {0} /\ right[e] \subseteq 1..TestSize
  BY <1>1, TrainingAssumption, Zenon DEF TrainingAssumption
<1> QED
  BY <1>2, <1>3, AccuracyIs, Zenon

\* For any test set, number of processes and batch size: the accuracy that is
\* printed and that decides about the best model counts every sample that the
\* network gets right, and beyond them at most those of the padding (evaluate,
\* DistributedSampler, synchronize_between_processes).
THEOREM AccuracyComplete == Spec => []AccuracyCountsAll
<1>1. Init => RightInv
  BY DEF Init, RightInv
<1>2. RightInv /\ [Next]_vars => RightInv'
  BY RightKept
<1>3. IInv /\ RightInv => AccuracyCountsAll
  <2> SUFFICES ASSUME IInv, RightInv, NEW r \in Ranks, At(r, "best"), NEW e, e = proc[r].epoch
               PROVE  /\ Accuracy(e).count = CeilDiv(TestSize, job.world) * job.world
                      /\ Accuracy(e).total - Cardinality(right[e]) \in 0..(Accuracy(e).count - TestSize)
    BY Zenon DEF AccuracyCountsAll
  <2>1. proc[r].pc \in Saving /\ ProcessInv /\ JobInv
    BY DEF IInv, At, Saving
  <2>2. e \in Epochs
    BY <2>1, MasterSaves
  <2> QED
    BY <2>1, <2>2, AccuracyIn, Zenon
<1> QED
  BY <1>1, <1>2, <1>3, InvariantHolds, PTL DEF Spec

-----------------------------------------------------------------------------
\* The best model of a launch.

Scores == [e \in Epochs |-> Accuracy(e).total]

\* The highest of the scores g of the epochs E, or 0, and the file with the
\* first network that has it.
IsBest(g, file, best, E) ==
  /\ best \in Nat /\ \A e \in E : g[e] <= best
  /\ \/ best = 0
     \/ /\ IsCheckpoint(file) /\ file.epoch \in E /\ g[file.epoch] = best
        /\ \A e \in E : e < file.epoch => g[e] < best

\* While the best model is written it is better than all before it.
Behind(p) == p.first..(p.epoch - 1)
Scored(g, E) == \A e \in E : g[e] \in Nat
Plain == Looping \cup (Saving \ {"saving best"})
BestOf(g, p, file) ==
  /\ p.pc \notin Loading => p.first \in Nat /\ p.epoch \in Nat /\ p.first <= p.epoch
  /\ p.pc \in Plain => IsBest(g, file, p.best, Behind(p))
  /\ p.pc = "saving best" => /\ p.best \in Nat \ {0} /\ p.best = g[p.epoch]
                             /\ \A e \in Behind(p) : g[e] < p.best

BestInv == BestOf(Scores, proc[0], disk.best)
\* A process that stays in its epoch and away from the best model.
Alike(p, q) == q.first = p.first /\ q.epoch = p.epoch /\ q.best = p.best

LEMMA BestUntouched ==
  ASSUME NEW g, NEW p, NEW q, NEW file, BestOf(g, p, file), Alike(p, q), p.pc \in Plain, q.pc \in Plain
  PROVE  BestOf(g, q, file)
<1>1. p.pc \notin Loading /\ q.pc # "saving best"
  BY DEF Plain, Loading, Looping, Saving
<1>2. p.first \in Nat /\ p.epoch \in Nat /\ p.first <= p.epoch /\ IsBest(g, file, p.best, Behind(p))
  BY <1>1, Zenon DEF BestOf
<1>3. Behind(q) = Behind(p)
  BY Zenon DEF Behind, Alike
<1>4. q.first \in Nat /\ q.epoch \in Nat /\ q.first <= q.epoch /\ IsBest(g, file, q.best, Behind(q))
  BY <1>2, <1>3, Zenon DEF Alike
<1> QED
  BY <1>1, <1>4, Zenon DEF BestOf

\* A process that does not train has nothing to promise.
LEMMA BestOfNone ==
  ASSUME NEW g, NEW q, NEW file, q.pc \in Loading
  PROVE  BestOf(g, q, file)
  BY DEF BestOf, Loading, Plain, Looping, Saving

\* A launch begins with an accuracy of zero.
LEMMA BestAtLaunch ==
  ASSUME NEW g, NEW q, NEW file, q.pc = "epoch", q.epoch \in Nat, q.first = q.epoch, q.best = 0
  PROVE  BestOf(g, q, file)
<1>1. Behind(q) = {}
  BY DEF Behind
<1>2. IsBest(g, file, q.best, Behind(q))
  BY <1>1 DEF IsBest
<1>3. q.pc # "saving best"
  OBVIOUS
<1> QED
  BY <1>2, <1>3 DEF BestOf

\* The epochs behind the next one.
LEMMA OneMoreBehind ==
  ASSUME NEW p, NEW q, p.first \in Nat, p.epoch \in Nat, p.first <= p.epoch,
         q.first = p.first, q.epoch = p.epoch + 1
  PROVE  /\ q.first \in Nat /\ q.epoch \in Nat /\ q.first <= q.epoch
         /\ Behind(q) = Behind(p) \cup {p.epoch} /\ \A e \in Behind(p) : e \in Nat /\ e < p.epoch
<1>1. PICK f \in Nat, n \in Nat : f = p.first /\ n = p.epoch /\ f <= n
  OBVIOUS
<1>2. f..n = (f..(n - 1)) \cup {n}
  BY <1>1
<1>3. Behind(p) = f..(n - 1) /\ Behind(q) = f..n
  <2>1. n + 1 - 1 = n
    OBVIOUS
  <2> QED
    BY <1>1, <2>1 DEF Behind
<1> QED
  BY <1>1, <1>2, <1>3

\* An epoch that is not better.
LEMMA BestStays ==
  ASSUME NEW g, NEW p, NEW q, NEW file, BestOf(g, p, file), p.pc = "best", g[p.epoch] \in Nat,
         ~(g[p.epoch] > p.best), q.pc = "epoch", q.first = p.first, q.epoch = p.epoch + 1, q.best = p.best
  PROVE  BestOf(g, q, file)
<1>1. p.pc \in Plain /\ p.pc \notin Loading
  BY DEF Plain, Saving, Looping, Loading
<1>2. p.first \in Nat /\ p.epoch \in Nat /\ p.first <= p.epoch /\ IsBest(g, file, p.best, Behind(p))
  BY <1>1, Zenon DEF BestOf
<1>3. /\ q.first \in Nat /\ q.epoch \in Nat /\ q.first <= q.epoch
      /\ Behind(q) = Behind(p) \cup {p.epoch} /\ \A e \in Behind(p) : e \in Nat /\ e < p.epoch
  BY <1>2, OneMoreBehind
<1>4. IsBest(g, file, q.best, Behind(q))
  <2>1. g[p.epoch] <= p.best /\ p.best \in Nat
    BY <1>2 DEF IsBest
  <2>2. \A e \in Behind(q) : g[e] <= p.best
    BY <1>2, <1>3, <2>1 DEF IsBest
  <2>3. CASE p.best = 0
    BY <2>1, <2>2, <2>3, Zenon DEF IsBest
  <2>4. CASE /\ IsCheckpoint(file) /\ file.epoch \in Behind(p) /\ g[file.epoch] = p.best
             /\ \A e \in Behind(p) : e < file.epoch => g[e] < p.best
    <3>1. file.epoch \in Behind(q) /\ ~(p.epoch < file.epoch)
      BY <1>2, <1>3, <2>4
    <3>2. \A e \in Behind(q) : e < file.epoch => g[e] < p.best
      BY <1>3, <2>4, <3>1, Zenon
    <3> QED
      BY <2>1, <2>2, <2>4, <3>1, <3>2, Zenon DEF IsBest
  <2> QED
    BY <1>2, <2>3, <2>4, Zenon DEF IsBest
<1> QED
  BY <1>3, <1>4 DEF BestOf

\* An epoch that is better, before its model is saved.
Better(g, p, q) == /\ p.pc = "best" /\ g[p.epoch] \in Nat /\ g[p.epoch] > p.best
                   /\ q.pc = "saving best" /\ q.first = p.first /\ q.epoch = p.epoch /\ q.best = g[p.epoch]

LEMMA BestFound ==
  ASSUME NEW g, NEW p, NEW q, NEW file, NEW torn, BestOf(g, p, file), Better(g, p, q), Scored(g, Behind(p))
  PROVE  BestOf(g, q, torn)
<1>1. p.pc \in Plain /\ p.pc \notin Loading
  BY DEF Plain, Saving, Looping, Loading, Better
<1>2. p.first \in Nat /\ p.epoch \in Nat /\ p.first <= p.epoch /\ IsBest(g, file, p.best, Behind(p))
  BY <1>1, Zenon DEF BestOf
<1>3. Behind(q) = Behind(p) /\ q.first = p.first /\ q.epoch = p.epoch /\ q.best = g[p.epoch]
  BY Zenon DEF Behind, Better
<1>4. PICK b \in Nat, c \in Nat : b = p.best /\ c = q.best /\ b < c
  <2>1. p.best \in Nat
    BY <1>2 DEF IsBest
  <2>2. q.best \in Nat /\ q.best > p.best
    BY DEF Better
  <2> QED
    BY <2>1, <2>2
<1>5. \A e \in Behind(p) : \E x \in Nat : x = g[e] /\ x <= b
  BY <1>2, <1>4, Zenon DEF IsBest, Scored
<1>6. c # 0 /\ \A x \in Nat : x <= b => x < c
  BY <1>4
<1>7. q.best \in Nat \ {0} /\ \A e \in Behind(q) : g[e] < q.best
  BY <1>3, <1>4, <1>5, <1>6, Zenon
<1>8. q.pc = "saving best" /\ q.pc \notin Plain
  BY DEF Plain, Looping, Better
<1> QED
  BY <1>2, <1>3, <1>7, <1>8, Zenon DEF BestOf

\* The better model is saved.
Keeps(p, q, saved) ==
  /\ p.pc = "saving best" /\ q.pc = "epoch" /\ q.first = p.first /\ q.epoch = p.epoch + 1 /\ q.best = p.best
  /\ IsCheckpoint(saved) /\ saved.epoch = p.epoch

LEMMA BestKept ==
  ASSUME NEW g, NEW p, NEW q, NEW file, NEW saved, BestOf(g, p, file), Keeps(p, q, saved), Scored(g, Behind(p))
  PROVE  BestOf(g, q, saved)
<1>1. p.pc = "saving best" /\ p.pc \notin Loading /\ q.pc = "epoch" /\ q.pc # "saving best"
  BY DEF Loading, Keeps
<1>2. /\ p.first \in Nat /\ p.epoch \in Nat /\ p.first <= p.epoch
      /\ p.best \in Nat \ {0} /\ p.best = g[p.epoch] /\ \A e \in Behind(p) : g[e] < p.best
  BY <1>1, Zenon DEF BestOf
<1>3. q.first = p.first /\ q.epoch = p.epoch + 1 /\ q.best = p.best /\ IsCheckpoint(saved) /\ saved.epoch = p.epoch
  BY Zenon DEF Keeps
<1>4. /\ q.first \in Nat /\ q.epoch \in Nat /\ q.first <= q.epoch
      /\ Behind(q) = Behind(p) \cup {p.epoch} /\ \A e \in Behind(p) : e \in Nat /\ e < p.epoch
  BY <1>2, <1>3, OneMoreBehind, Zenon
<1>5. PICK n \in Nat, b \in Nat : n = p.epoch /\ b = q.best /\ g[n] = b
  BY <1>2, <1>3
<1>6. \A e \in Behind(p) : \E x \in Nat : x = g[e] /\ x < b
  BY <1>2, <1>3, <1>5, Zenon DEF Scored
<1>7. b <= b /\ ~(n < n) /\ \A x \in Nat : x < b => x <= b
  BY <1>5
<1>8. \A e \in Behind(q) : g[e] <= b /\ (e < n => g[e] < b)
  BY <1>4, <1>5, <1>6, <1>7, Zenon
<1>9. saved.epoch = n /\ n \in Behind(q)
  BY <1>3, <1>4, <1>5, Zenon
<1>10. IsBest(g, saved, q.best, Behind(q))
  BY <1>3, <1>5, <1>8, <1>9, Zenon DEF IsBest
<1> QED
  BY <1>1, <1>4, <1>10, Zenon DEF BestOf
\* What the changes of a process leave alone.
LEMMA MovesAlike ==
  ASSUME NEW p, IsProcess(p), NEW pc, NEW q, q = [p EXCEPT !.pc = pc]
  PROVE  Alike(p, q) /\ q.pc = pc
<1>1. PICK n, a, x, y, z : p = ProcAfter(n, a, x, y, z)
  BY Zenon DEF IsProcess
<1> QED
  BY <1>1 DEF ProcAfter, Alike

LEMMA TrainsAlike ==
  ASSUME NEW p, IsProcess(p), NEW q, q = AfterEpoch(p)
  PROVE  Alike(p, q) /\ q.pc = "save model"
<1>1. PICK n, a, x, y, z : p = ProcAfter(n, a, x, y, z)
  BY Zenon DEF IsProcess
<1>2. PICK net, lr, ema : q = [p EXCEPT !.pc = "save model", !.net = net, !.lr = lr, !.ema = ema]
  BY Zenon DEF AfterEpoch
<1> QED
  BY <1>1, <1>2 DEF ProcAfter, Alike

Turns(p, q, pc, c, e) == q = [p EXCEPT !.pc = pc, !.best = c, !.epoch = e]
Passes(p, q, pc, e) == q = [p EXCEPT !.pc = pc, !.epoch = e]
Became(p, q, pc, c, e) == q.pc = pc /\ q.first = p.first /\ q.epoch = e /\ q.best = c

LEMMA EndsAlike ==
  ASSUME NEW p, IsProcess(p), NEW pc, NEW e, NEW c, NEW q, Turns(p, q, pc, c, e)
  PROVE  Became(p, q, pc, c, e)
<1>1. PICK n, a, x, y, z : p = ProcAfter(n, a, x, y, z)
  BY Zenon DEF IsProcess
<1> QED
  BY <1>1 DEF ProcAfter, Turns, Became

LEMMA GoesOn ==
  ASSUME NEW p, IsProcess(p), NEW pc, NEW e, NEW q, Passes(p, q, pc, e)
  PROVE  Became(p, q, pc, p.best, e)
<1>1. PICK n, a, x, y, z : p = ProcAfter(n, a, x, y, z)
  BY Zenon DEF IsProcess
<1> QED
  BY <1>1 DEF ProcAfter, Passes, Became

LEMMA FreshLoads == Fresh.pc \in Loading
<1>1. Fresh.pc = "train data"
  BY DEF Fresh
<1> QED
  BY <1>1 DEF Loading

\* A step that only changes other files and not the master's epoch.
LEMMA StepKeepsBest ==
  ASSUME JobInv, ProcessInv, NEW r \in Ranks, NEW from, NEW to, NEW files, Step(r, from, to, files),
         files.best = disk.best, r = 0 => to \in Loading \/ {from, to} \subseteq Plain,
         0 \in Ranks, NEW g, BestOf(g, proc[0], disk.best)
  PROVE  BestOf(g, proc'[0], disk'.best)
<1>1. PICK p : p = proc[r] /\ IsProcess(p) /\ p.pc = from
  BY Zenon DEF ProcessInv, Step, At
<1>2. PICK q : q = [p EXCEPT !.pc = to] /\ proc' = [proc EXCEPT ![r] = q]
  BY <1>1, Zenon DEF Step, Goto
<1>3. disk'.best = disk.best
  BY Zenon DEF Step
<1>4. Alike(p, q) /\ q.pc = to
  BY <1>1, <1>2, MovesAlike, Zenon
<1>5. proc'[r] = q /\ (r # 0 => proc'[0] = proc[0])
  BY <1>2 DEF ProcessInv
<1>6. CASE r # 0
  BY <1>3, <1>5, <1>6, Zenon
<1>7. CASE r = 0 /\ to \in Loading
  BY <1>4, <1>5, <1>7, BestOfNone, Zenon
<1>8. CASE r = 0 /\ {from, to} \subseteq Plain
  <2>1. p.pc \in Plain /\ q.pc \in Plain
    BY <1>1, <1>4, <1>8
  <2>2. BestOf(g, p, disk.best)
    BY <1>1, <1>8
  <2>3. BestOf(g, q, disk.best)
    BY <1>4, <2>1, <2>2, BestUntouched
  <2> QED
    BY <1>3, <1>5, <1>8, <2>3
<1> QED
  BY <1>6, <1>7, <1>8, Zenon

\* The accuracies are those of the same networks, counted in the same way.
LEMMA ScoresKept ==
  ASSUME JobInv, Next
  PROVE  Scores' = Scores
<1>1. right' = right
  BY Zenon DEF Next, Job, Rank, MissingArguments, LoadFromCache, BuildDataset, CacheSaved, CreateModel,
     NotMaster, EndEpoch, Finish, Epoch, SaveModel, SaveCheckpoint, BestSaved, Crash, Relaunch, Raise, Step
<1>2. job'.world = job.world
  BY JobFixed
<1> QED
  BY <1>1, <1>2, Zenon DEF Scores, Accuracy

\* Every epoch behind a process has an accuracy.
LEMMA AllScored ==
  ASSUME JobInv, RightInv, ProcessInv, NEW r \in Ranks, proc[r].pc \notin Loading, proc[r].first \in Nat
  PROVE  /\ Behind(proc[r]) \subseteq Epochs /\ Scored(Scores, Behind(proc[r]))
         /\ \A e \in Epochs : Scores[e] = Accuracy(e).total /\ Scores[e] \in Nat
<1>1. PICK n \in 0..NumEpochs : n = proc[r].epoch
  BY DEF ProcessInv, IsProcess
<1>2. PICK f \in Nat : f = proc[r].first
  OBVIOUS
<1>3. f..(n - 1) \subseteq 0..(NumEpochs - 1)
  BY <1>1, <1>2, TrainingAssumption DEF TrainingAssumption
<1>4. Behind(proc[r]) \subseteq Epochs
  BY <1>1, <1>2, <1>3 DEF Behind, Epochs
<1>5. \A e \in Epochs : Accuracy(e).total \in Nat
  BY AccuracyIn, Zenon
<1>6. \A e \in Epochs : Scores[e] = Accuracy(e).total
  BY Zenon DEF Scores
<1> QED
  BY <1>4, <1>5, <1>6, Zenon DEF Scored
\* Every step keeps what is promised of the best model.
LEMMA BestInvKept ==
  ASSUME IInv, RightInv, BestInv, Next
  PROVE  BestInv'
<1>1. JobInv /\ ProcessInv /\ DiskInv
  BY Zenon DEF IInv
<1>2. /\ 0 \in Ranks /\ Scores' = Scores
      /\ BestOf(Scores, proc'[0], disk'.best) => BestInv'
  BY <1>1, JobFixed, ScoresKept, Zenon DEF BestInv
<1>3. PICK g : g = Scores
  OBVIOUS
<1> SUFFICES BestOf(g, proc'[0], disk'.best)
  BY <1>2, <1>3, Zenon
<1>4. BestOf(g, proc[0], disk.best)
  BY <1>3, Zenon DEF BestInv
<1>5. ASSUME NEW why, Raise(why) \/ Crash PROVE BestOf(g, proc'[0], disk'.best)
  <2>1. proc'[0].pc = "dead"
    <3>1. proc' = AllDead
      BY <1>5, Zenon DEF Raise, Crash
    <3>2. AllDead[0] = [Fresh EXCEPT !.pc = "dead"]
      BY <1>2, Zenon DEF AllDead
    <3> QED
      BY <3>1, <3>2 DEF Fresh
  <2>2. proc'[0].pc \in Loading
    BY <2>1 DEF Loading
  <2> QED
    BY <2>2, BestOfNone, Zenon
<1>6. ASSUME NEW r \in Ranks, NEW from, NEW to, NEW files, Step(r, from, to, files), files.best = disk.best,
             r = 0 => to \in Loading \/ {from, to} \subseteq Plain
      PROVE  BestOf(g, proc'[0], disk'.best)
  BY <1>1, <1>2, <1>4, <1>6, StepKeepsBest, Zenon
<1>7. disk = [checkpoint |-> disk.checkpoint, best |-> disk.best, model |-> disk.model, cache |-> disk.cache]
  BY <1>1, Zenon DEF DiskInv
<1>8. ASSUME NEW r \in Ranks, NEW part \in Parts,
             LoadFromCache(r, part) \/ BuildDataset(r, part) \/ CacheSaved(r, part)
      PROVE  BestOf(g, proc'[0], disk'.best)
  <2>1. Caching(part) \in Loading /\ After(part) \in Loading
    BY DEF Caching, After, Loading
  <2>2. CASE LoadFromCache(r, part)
    BY <1>5, <1>6, <2>1, <2>2, Zenon DEF LoadFromCache
  <2>3. CASE BuildDataset(r, part)
    <3>1. PICK files : files = [disk EXCEPT !.cache[part] = Torn]
      OBVIOUS
    <3>2. files.best = disk.best
      BY <1>7, <3>1
    <3> QED
      BY <1>6, <2>1, <2>3, <3>1, <3>2, Zenon DEF BuildDataset
  <2>4. CASE CacheSaved(r, part)
    <3>1. PICK files : files = [disk EXCEPT !.cache[part] = Dataset]
      OBVIOUS
    <3>2. files.best = disk.best
      BY <1>7, <3>1
    <3> QED
      BY <1>6, <2>1, <2>4, <3>1, <3>2, Zenon DEF CacheSaved
  <2> QED
    BY <1>8, <2>2, <2>3, <2>4, Zenon
<1>9. ASSUME NEW r \in Ranks, CreateModel(r)
      PROVE  BestOf(g, proc'[0], disk'.best)
  <2>1. CASE \E why : Raise(why)
    BY <1>5, <2>1, Zenon
  <2>2. ASSUME disk' = disk, NEW q, proc' = [proc EXCEPT ![r] = q], q.pc = "epoch", q.epoch \in Nat,
               q.first = q.epoch, q.best = 0
        PROVE  BestOf(g, proc'[0], disk'.best)
    <3>1. proc'[0] = IF r = 0 THEN q ELSE proc[0]
      BY <1>1, <1>2, <2>2 DEF ProcessInv
    <3>2. BestOf(g, q, disk.best)
      BY <2>2, BestAtLaunch
    <3> QED
      BY <1>4, <2>2, <3>1, <3>2, Zenon
  <2>3. CASE IsCheckpoint(resume) /\ proc' = [proc EXCEPT ![r] = Resumed(resume)] /\ disk' = disk
    <3>1. PICK e \in Epochs : resume = The(e)
      BY <1>1, <2>3, Kinds, Zenon DEF JobInv
    <3>2. resume.epoch = e /\ e \in Nat
      BY <3>1, Kinds DEF Epochs
    <3>3. PICK q, net, lr, ema : /\ q = Resumed(resume)
                                 /\ q = [Fresh EXCEPT !.pc = "epoch", !.epoch = e + 1, !.first = e + 1,
                                                      !.net = net, !.lr = lr, !.ema = ema]
      <4>1. PICK net, lr, ema : net = resume.net /\ lr = resume.lr /\ ema = resume.ema
        OBVIOUS
      <4>2. Resumed(resume) = [Fresh EXCEPT !.pc = "epoch", !.epoch = e + 1, !.first = e + 1,
                                            !.net = net, !.lr = lr, !.ema = ema]
        BY <3>2, <4>1, Zenon DEF Resumed
      <4> QED
        BY <4>2, Zenon
    <3>4. q.pc = "epoch" /\ q.epoch = e + 1 /\ q.first = e + 1 /\ q.best = 0
      BY <3>3 DEF Fresh
    <3>5. q.epoch \in Nat /\ q.first = q.epoch
      BY <3>2, <3>4
    <3> QED
      BY <2>2, <2>3, <3>3, <3>4, <3>5, Zenon
  <2>4. CASE proc' = [proc EXCEPT ![r] = [Fresh EXCEPT !.pc = "epoch"]] /\ disk' = disk
    <3>1. PICK q : q = [Fresh EXCEPT !.pc = "epoch"]
      OBVIOUS
    <3>2. q.pc = "epoch" /\ q.epoch = 0 /\ q.first = 0 /\ q.best = 0
      BY <3>1 DEF Fresh
    <3>3. q.epoch \in Nat /\ q.first = q.epoch
      BY <3>2
    <3> QED
      BY <2>2, <2>4, <3>1, <3>2, <3>3, Zenon
  <2> QED
    BY <1>9, <2>1, <2>3, <2>4, Zenon DEF CreateModel
<1>10. ASSUME Epoch
       PROVE  BestOf(g, proc'[0], disk'.best)
  <2>1. CASE Raise("shapes")
    BY <1>5, <2>1, Zenon
  <2>2. CASE proc' = [r \in Ranks |-> AfterEpoch(proc[r])] /\ disk' = disk
    <3>1. PICK p : p = proc[0] /\ IsProcess(p) /\ p.pc = "epoch"
      BY <1>1, <1>2, <1>10, Zenon DEF ProcessInv, Epoch, At
    <3>2. PICK q : q = AfterEpoch(p) /\ proc'[0] = q
      BY <1>2, <2>2, <3>1, Zenon
    <3>3. Alike(p, q) /\ q.pc = "save model"
      BY <3>1, <3>2, TrainsAlike, Zenon
    <3>4. p.pc \in Plain /\ q.pc \in Plain
      BY <3>1, <3>3 DEF Plain, Looping, Saving
    <3> QED
      BY <1>4, <2>2, <3>1, <3>2, <3>3, <3>4, BestUntouched, Zenon
  <2> QED
    BY <1>10, <2>1, <2>2, Zenon DEF Epoch, AfterEpoch
<1>11. ASSUME SaveModel
       PROVE  BestOf(g, proc'[0], disk'.best)
  <2>1. {"save model", "saving model", "save checkpoint"} \subseteq Plain
    BY DEF Plain, Saving
  <2>2. \A e, x : [disk EXCEPT !.model[e] = x].best = disk.best
    BY <1>7
  <2> QED
    BY <1>2, <1>6, <1>11, <2>1, <2>2 DEF SaveModel
<1>12. ASSUME SaveCheckpoint
       PROVE  BestOf(g, proc'[0], disk'.best)
  <2>1. {"save checkpoint", "saving checkpoint", "best"} \subseteq Plain
    BY DEF Plain, Saving
  <2>2. \A x : [disk EXCEPT !.checkpoint = x].best = disk.best
    BY <1>7
  <2> QED
    BY <1>2, <1>6, <1>12, <2>1, <2>2 DEF SaveCheckpoint
<1>13. ASSUME NEW r \in Ranks, NotMaster(r) \/ Finish(r)
       PROVE  BestOf(g, proc'[0], disk'.best)
  <2>1. {"epoch", "done"} \subseteq Plain
    BY DEF Plain, Looping
  <2> QED
    BY <1>6, <1>13, <2>1, Zenon DEF NotMaster, Finish
<1>14. ASSUME NEW r \in Ranks, EndEpoch(r)
       PROVE  BestOf(g, proc'[0], disk'.best)
  <2>1. PICK p : p = proc[r] /\ IsProcess(p) /\ p.pc = "best"
    BY <1>1, <1>14, Zenon DEF ProcessInv, EndEpoch, At
  <2>2. CASE r # 0
    <3>1. proc'[0] = proc[0] /\ disk' = disk
      BY <1>1, <1>2, <1>14, <2>2 DEF EndEpoch, ProcessInv
    <3> QED
      BY <1>4, <3>1, Zenon
  <2>3. CASE r = 0
    <3>1. p.pc \in Plain /\ p.pc \notin Loading /\ p.pc \in Saving
      BY <2>1 DEF Plain, Loading, Saving
    <3>2. BestOf(g, p, disk.best)
      BY <1>4, <2>1, <2>3
    <3>3. p.first \in Nat /\ p.epoch \in Nat /\ IsBest(g, disk.best, p.best, Behind(p))
      BY <3>1, <3>2, Zenon DEF BestOf
    <3>4. p.epoch \in Epochs
      BY <1>1, <2>1, <3>1, MasterSaves, Zenon
    <3>5. Scored(g, Behind(p)) /\ g[p.epoch] = Accuracy(p.epoch).total /\ g[p.epoch] \in Nat
      BY <1>1, <1>3, <2>1, <3>1, <3>3, <3>4, AllScored, Zenon
    <3>6. IsBetter(p) <=> g[p.epoch] > p.best
      BY <3>5, Zenon DEF IsBetter
    <3>7. CASE IsBetter(p)
      <4>1. PICK q : /\ q = [p EXCEPT !.pc = "saving best", !.best = g[p.epoch], !.epoch = p.epoch]
                     /\ proc' = [proc EXCEPT ![0] = q]
        BY <1>14, <2>1, <2>3, <3>5, <3>7 DEF EndEpoch
      <4>2. Better(g, p, q)
        <5>1. q.pc = "saving best" /\ q.first = p.first /\ q.epoch = p.epoch /\ q.best = g[p.epoch]
          <6>1. IsProcess(p)
            BY <2>1, Zenon
          <6>2. Turns(p, q, "saving best", g[p.epoch], p.epoch)
            BY <4>1, Zenon DEF Turns
          <6>3. Became(p, q, "saving best", g[p.epoch], p.epoch)
            BY <6>1, <6>2, EndsAlike, Zenon
          <6> QED
            BY <6>3, Zenon DEF Became
        <5> QED
          BY <2>1, <3>5, <3>6, <3>7, <5>1, Zenon DEF Better
      <4>3. proc'[0] = q
        BY <1>1, <1>2, <4>1 DEF ProcessInv
      <4> QED
        BY <3>2, <3>5, <4>2, <4>3, BestFound, Zenon
    <3>8. CASE ~IsBetter(p)
      <4>1. PICK q : /\ q = [p EXCEPT !.pc = "epoch", !.best = p.best, !.epoch = p.epoch + 1]
                     /\ proc' = [proc EXCEPT ![0] = q] /\ disk' = disk
        BY <1>14, <2>1, <2>3, <3>8 DEF EndEpoch
      <4>2. q.pc = "epoch" /\ q.first = p.first /\ q.epoch = p.epoch + 1 /\ q.best = p.best
        <5>1. IsProcess(p)
          BY <2>1, Zenon
        <5>2. Turns(p, q, "epoch", p.best, p.epoch + 1)
          BY <4>1, Zenon DEF Turns
        <5>3. Became(p, q, "epoch", p.best, p.epoch + 1)
          BY <5>1, <5>2, EndsAlike, Zenon
        <5> QED
          BY <5>3, Zenon DEF Became
      <4>3. proc'[0] = q
        BY <1>1, <1>2, <4>1 DEF ProcessInv
      <4>4. BestOf(g, q, disk.best)
        BY <2>1, <3>2, <3>5, <3>6, <3>8, <4>2, BestStays, Zenon
      <4> QED
        BY <4>1, <4>3, <4>4, Zenon
    <3> QED
      BY <3>7, <3>8, Zenon
  <2> QED
    BY <2>2, <2>3
<1>15. ASSUME BestSaved
       PROVE  BestOf(g, proc'[0], disk'.best)
  <2>1. PICK p : p = proc[0] /\ IsProcess(p) /\ p.pc = "saving best"
    BY <1>1, <1>2, <1>15, Zenon DEF ProcessInv, BestSaved, At
  <2>2. PICK q : q = [p EXCEPT !.pc = "epoch", !.epoch = p.epoch + 1] /\ proc' = [proc EXCEPT ![0] = q]
    BY <1>15, <2>1 DEF BestSaved
  <2>3. PICK saved : saved = Checkpoint(p) /\ disk' = [disk EXCEPT !.best = saved]
    BY <1>15, <2>1, Zenon DEF BestSaved
  <2>4. disk'.best = saved
    BY <1>7, <2>3
  <2>5. IsCheckpoint(saved) /\ saved.epoch = p.epoch
    BY <2>3 DEF IsCheckpoint, Checkpoint
  <2>6. Keeps(p, q, saved)
    <3>1. q.pc = "epoch" /\ q.first = p.first /\ q.epoch = p.epoch + 1 /\ q.best = p.best
      <4>1. IsProcess(p)
        BY <2>1, Zenon
      <4>2. Passes(p, q, "epoch", p.epoch + 1)
        BY <2>2, Zenon DEF Passes
      <4>3. Became(p, q, "epoch", p.best, p.epoch + 1)
        BY <4>1, <4>2, GoesOn, Zenon
      <4> QED
        BY <4>3, Zenon DEF Became
    <3> QED
      BY <2>1, <2>5, <3>1, Zenon DEF Keeps
  <2>7. proc'[0] = q
    BY <1>1, <1>2, <2>2 DEF ProcessInv
  <2>8. BestOf(g, p, disk.best) /\ p.pc \notin Loading
    BY <1>4, <2>1 DEF Loading
  <2>9. p.first \in Nat
    BY <2>8, Zenon DEF BestOf
  <2>10. Scored(g, Behind(p))
    BY <1>1, <1>2, <1>3, <2>1, <2>8, <2>9, AllScored, Zenon
  <2> QED
    BY <2>4, <2>6, <2>7, <2>8, <2>10, BestKept, Zenon
<1>16. ASSUME Relaunch
       PROVE  BestOf(g, proc'[0], disk'.best)
  <2>1. proc'[0] = Fresh
    BY <1>2, <1>16, Zenon DEF Relaunch
  <2>2. proc'[0].pc \in Loading
    BY <2>1, FreshLoads
  <2> QED
    BY <2>2, BestOfNone, Zenon
<1>17. ASSUME Crash
       PROVE  BestOf(g, proc'[0], disk'.best)
  BY <1>5, <1>17, Zenon
<1>18. ASSUME NEW r \in Ranks, MissingArguments(r)
       PROVE  BestOf(g, proc'[0], disk'.best)
  BY <1>5, <1>18, Zenon DEF MissingArguments
<1> QED
  BY <1>8, <1>9, <1>10, <1>11, <1>12, <1>13, <1>14, <1>15, <1>16, <1>17, <1>18, Zenon DEF Next, Job, Rank

\* For any numbers of processes, epochs and crashes, and any outcomes of the
\* training: model_best.pth has the first of the best networks of the epochs
\* since the last launch, whenever the master is between two epochs (main of
\* train.py, whose best_accuracy begins with zero at every launch).
THEOREM BestIsKept == Spec => []BestSinceLaunch
<1>1. Init => RightInv /\ BestInv
  <2>1. Init => RightInv
    BY DEF Init, RightInv
  <2>2. Init => BestInv
    <3> SUFFICES ASSUME Init PROVE BestOf(Scores, proc[0], disk.best)
      BY DEF BestInv
    <3>1. job.world \in Worlds
      BY DEF Init
    <3>2. 0 \in Ranks
      <4>1. job.world \in Nat \ {0}
        BY <3>1, TrainingAssumption, Zenon DEF TrainingAssumption
      <4> QED
        BY <4>1 DEF Ranks
    <3>3. proc[0] = Fresh
      BY <3>2, Zenon DEF Init
    <3>4. proc[0].pc \in Loading
      BY <3>3, FreshLoads
    <3> QED
      BY <3>4, BestOfNone, Zenon
  <2> QED
    BY <2>1, <2>2
<1>2. IInv /\ RightInv /\ BestInv /\ [Next]_vars => (RightInv /\ BestInv)'
  <2> SUFFICES ASSUME IInv, RightInv, BestInv, [Next]_vars PROVE RightInv' /\ BestInv'
    OBVIOUS
  <2>1. RightInv'
    BY RightKept
  <2>2. CASE Next
    BY <2>1, <2>2, BestInvKept
  <2>3. CASE UNCHANGED vars
    <3>1. BestInv'
      BY <2>3 DEF vars, BestInv, Scores, Accuracy
    <3> QED
      BY <2>1, <3>1
  <2> QED
    BY <2>2, <2>3
<1>3. IInv /\ RightInv /\ BestInv => BestSinceLaunch
  <2> SUFFICES ASSUME IInv, RightInv, BestInv, proc[0].pc \in {"epoch", "done"},
                      \E e \in Behind(proc[0]) : Accuracy(e).total > 0
               PROVE  /\ IsCheckpoint(disk.best) /\ disk.best.epoch \in Behind(proc[0])
                      /\ \A e \in Behind(proc[0]) :
                           \/ Accuracy(e).total < Accuracy(disk.best.epoch).total
                           \/ Accuracy(e).total = Accuracy(disk.best.epoch).total /\ e >= disk.best.epoch
    BY Zenon DEF BestSinceLaunch, Behind
  <2>1. PICK p, g, f : p = proc[0] /\ g = Scores /\ f = disk.best /\ BestOf(g, p, f)
    BY Zenon DEF BestInv
  <2>2. p.pc \in Plain /\ p.pc \notin Loading
    BY <2>1 DEF Plain, Looping, Loading
  <2>3. p.first \in Nat /\ p.epoch \in Nat /\ IsBest(g, f, p.best, Behind(p))
    BY <2>1, <2>2, Zenon DEF BestOf
  <2>4. JobInv /\ ProcessInv /\ 0 \in Ranks
    <3>1. JobInv /\ ProcessInv
      BY Zenon DEF IInv
    <3>2. job.world \in Worlds
      BY <3>1 DEF JobInv
    <3> QED
      <4>1. job.world \in Nat \ {0}
        BY <3>2, TrainingAssumption, Zenon DEF TrainingAssumption
      <4> QED
        BY <3>1, <4>1 DEF Ranks
  <2>5. /\ Behind(p) \subseteq Epochs
        /\ \A e \in Epochs : g[e] = Accuracy(e).total /\ g[e] \in Nat
    BY <2>1, <2>2, <2>3, <2>4, AllScored, Zenon
  <2>6. p.best # 0
    <3>1. PICK e \in Behind(p) : Accuracy(e).total > 0
      BY <2>1
    <3>2. PICK x \in Nat, b \in Nat : x = Accuracy(e).total /\ x = g[e] /\ b = p.best /\ x <= b
      BY <2>3, <2>5, <3>1, Zenon DEF IsBest
    <3>3. x > 0
      BY <3>1, <3>2, Zenon
    <3> QED
      BY <3>2, <3>3
  <2>7. /\ IsCheckpoint(f) /\ f.epoch \in Behind(p) /\ g[f.epoch] = p.best
        /\ \A e \in Behind(p) : g[e] <= p.best
        /\ \A e \in Behind(p) : e < f.epoch => g[e] < p.best
    BY <2>3, <2>6, Zenon DEF IsBest
  <2>8. ASSUME NEW e, e \in Behind(p)
        PROVE  \/ Accuracy(e).total < Accuracy(f.epoch).total
               \/ Accuracy(e).total = Accuracy(f.epoch).total /\ e >= f.epoch
    <3>1. PICK x \in Nat, b \in Nat : x = Accuracy(e).total /\ b = Accuracy(f.epoch).total /\ x <= b
                                      /\ (e < f.epoch => x < b)
      BY <2>5, <2>7, <2>8, Zenon
    <3>2. PICK m \in Nat, n \in Nat : m = e /\ n = f.epoch
      BY <2>5, <2>7, <2>8 DEF Epochs
    <3>3. x < b \/ (x = b /\ m >= n)
      BY <3>1, <3>2
    <3> QED
      BY <3>1, <3>2, <3>3, Zenon
  <2> QED
    BY <2>1, <2>7, <2>8, Zenon
<1> QED
  BY <1>1, <1>2, <1>3, InvariantHolds, PTL DEF Spec
=============================================================================

------------------------------ MODULE Training ------------------------------
(***************************************************************************)
(* The main function of train.py as torchrun starts it: one process per    *)
(* rank, a data set cache and checkpoints on a shared disk, and a person   *)
(* who starts the job again when it has died, from the newest checkpoint   *)
(* that is whole.  A file that is being written is Torn until the write    *)
(* ends, and stays so if the job dies before.  train_quantization.py       *)
(* shares load_data, and every launch of it ends there.                    *)
(*                                                                         *)
(* A network is the list of the epochs it was trained for.  An epoch       *)
(* (training, the step of the schedule and the evaluation) is one step of  *)
(* all processes, for they meet in its collectives.                        *)
(***************************************************************************)
EXTENDS TrainingUtils

CONSTANTS Worlds,          \* the numbers of processes to try
          NumEpochs,       \* --epochs
          Warmup,          \* --lr-warmup-epochs
          TestSize,        \* samples of the test set
          BatchSize,
          Outcomes,        \* sets of test samples that a network may get right
          MaxCrashes       \* how often the job is killed from outside

ASSUME TrainingAssumption ==
  /\ Worlds \subseteq Nat \ {0}
  /\ {NumEpochs, Warmup, MaxCrashes} \subseteq Nat
  /\ {TestSize, BatchSize} \subseteq Nat \ {0}
  /\ Outcomes \subseteq SUBSET (1..TestSize)

VARIABLES script,   \* "train" or "quantization"
          job,      \* its other arguments: world, model, cache, pruned
          right,    \* right[e]: the test samples the network gets right after epoch e
          disk,     \* the files
          resume,   \* --resume: what the launch starts from
          proc,     \* the processes of the job
          raised,   \* why the last launch failed, "" if it did not
          crashes

vars == <<script, job, right, disk, resume, proc, raised, crashes>>

Epochs == 0..(NumEpochs - 1)
Ranks == 0..(job.world - 1)
Parts == {"train", "val"}

-----------------------------------------------------------------------------
\* Files.

NoFile == [kind |-> "none"]
Torn == [kind |-> "torn"]
Dataset == [kind |-> "dataset"]
PrunedModel == [kind |-> "module"]    \* torch.save(model) of the pruning tool

IsCheckpoint(f) == f.kind = "checkpoint"
Checkpoint(p) == [kind |-> "checkpoint", net |-> p.net, lr |-> p.lr, epoch |-> p.epoch,
                  ema |-> p.ema, pruned |-> job.pruned]

Checkpoints == {f \in {disk.checkpoint} \cup {disk.model[e] : e \in Epochs} : IsCheckpoint(f)}
Newest == IF Checkpoints = {} THEN NoFile
          ELSE CHOOSE f \in Checkpoints : \A g \in Checkpoints : g.epoch <= f.epoch

-----------------------------------------------------------------------------
\* One process.  first is the epoch this launch begins with.

Fresh == [pc |-> "train data", epoch |-> 0, first |-> 0, net |-> <<>>, lr |-> 0,
          ema |-> [n |-> 0, of |-> {}], best |-> 0]

At(r, pc) == proc[r].pc = pc
Goto(r, pc) == proc' = [proc EXCEPT ![r].pc = pc]
AllDead == [r \in Ranks |-> [Fresh EXCEPT !.pc = "dead"]]

\* An exception in one process: torchrun kills the others.
Raise(why) == /\ raised' = why
              /\ proc' = AllDead
              /\ UNCHANGED <<script, job, right, disk, resume, crashes>>

\* A step that only changes the files.
Step(r, from, to, files) == /\ At(r, from)
                            /\ Goto(r, to)
                            /\ disk' = files
                            /\ UNCHANGED <<script, job, right, resume, raised, crashes>>

Init == /\ script \in {"train", "quantization"}
        /\ job \in [world : Worlds, model : {"torchvision", "resnet8"},
                    cache : BOOLEAN, pruned : BOOLEAN]
        /\ job.pruned => script = "train" /\ job.model = "resnet8"
        /\ right \in [Epochs -> Outcomes]
        /\ disk = [checkpoint |-> NoFile, best |-> NoFile, model |-> [e \in Epochs |-> NoFile],
                   cache |-> [p \in Parts |-> NoFile]]
        /\ resume = IF job.pruned THEN PrunedModel ELSE NoFile
        /\ proc = [r \in Ranks |-> Fresh]
        /\ raised = ""
        /\ crashes = 0

-----------------------------------------------------------------------------
\* load_data: for the training and then for the validation set.  What it reads
\* first, the sizes of the images, are options of train.py alone.

MissingArguments(r) == script = "quantization" /\ At(r, "train data") /\ Raise("no argument")

Before(part) == IF part = "train" THEN "train data" ELSE "val data"
Caching(part) == IF part = "train" THEN "cache train" ELSE "cache val"
After(part) == IF part = "train" THEN "val data" ELSE "create"

\* Mutant: a cache that is there is used, asked for or not.
LoadFromCache_Always(r, part) ==
  /\ script = "train"
  /\ At(r, Before(part)) /\ disk.cache[part] # NoFile
  /\ IF disk.cache[part] = Torn THEN Raise("torn cache")
     ELSE Step(r, Before(part), After(part), disk)

LoadFromCache(r, part) ==
  /\ script = "train"
  /\ At(r, Before(part)) /\ job.cache /\ disk.cache[part] # NoFile
  /\ IF disk.cache[part] = Torn THEN Raise("torn cache")
     ELSE Step(r, Before(part), After(part), disk)

BuildDataset(r, part) ==
  /\ script = "train"
  /\ job.cache => disk.cache[part] = NoFile
  /\ IF job.cache /\ r = 0
     THEN Step(r, Before(part), Caching(part), [disk EXCEPT !.cache[part] = Torn])
     ELSE Step(r, Before(part), After(part), disk)

CacheSaved(r, part) ==
  Step(r, Caching(part), After(part), [disk EXCEPT !.cache[part] = Dataset])

-----------------------------------------------------------------------------
\* Model, optimizer and schedule, and what a checkpoint puts into them.

\* Mutant: the moving average starts anew.
Resumed_NoAverage(f) == [Fresh EXCEPT !.pc = "epoch", !.epoch = f.epoch + 1,
                                      !.first = f.epoch + 1, !.net = f.net, !.lr = f.lr]

Resumed(f) == [Fresh EXCEPT !.pc = "epoch", !.epoch = f.epoch + 1, !.first = f.epoch + 1,
                            !.net = f.net, !.lr = f.lr, !.ema = f.ema]

\* With --load-pruned, --resume has to be a whole model, and is no checkpoint
\* whatever is in it; a checkpoint is a dict, on which model.to fails.  (That a
\* whole model can be loaded is up to a library whose torch.load does so.)
NotAModel == job.pruned /\ IsCheckpoint(resume)

CreateModel(r) ==
  /\ At(r, "create")
  /\ IF NotAModel THEN Raise("not a model")
     ELSE /\ proc' = [proc EXCEPT ![r] = IF IsCheckpoint(resume) THEN Resumed(resume)
                                         ELSE [Fresh EXCEPT !.pc = "epoch"]]
          /\ UNCHANGED <<script, job, right, disk, resume, raised, crashes>>

-----------------------------------------------------------------------------
\* The loop over the epochs.

\* The number of test samples counted as right, and the number counted.
AccuracyOf == [world \in Worlds |-> [good \in Outcomes |-> Evaluate(TestSize, good, world, BatchSize)]]
Accuracy(e) == AccuracyOf[job.world][right[e]]

\* update_parameters copies when nothing has been averaged yet, and the
\* counter is cleared during the warm-up.
AverageOver(ema, e) ==
  [n |-> IF e < Warmup THEN 0 ELSE ema.n + 1, of |-> IF ema.n = 0 THEN {e} ELSE ema.of \cup {e}]

TrainedBy(p) == [epoch |-> p.epoch, lr |-> p.lr, shuffle |-> p.epoch]

\* ResNet8 as it is in this repository cannot be run, its maps do not fit (see
\* ResidualNets); a pruned model that was saved whole can.
NoForward == job.model = "resnet8" /\ ~job.pruned

\* train_one_epoch, lr_scheduler.step and evaluate.
Epoch ==
  /\ \A r \in Ranks : At(r, "epoch") /\ proc[r].epoch < NumEpochs
  /\ \A r, q \in Ranks : proc[r].epoch = proc[q].epoch
  /\ IF NoForward THEN Raise("shapes")
     ELSE /\ proc' = [r \in Ranks |->
               LET p == proc[r]
               IN [p EXCEPT !.pc = "save model", !.net = Append(p.net, TrainedBy(p)),
                            !.lr = p.lr + 1, !.ema = AverageOver(p.ema, p.epoch)]]
          /\ UNCHANGED <<script, job, right, disk, resume, raised, crashes>>

\* save_on_master: only rank 0 writes, first model_{epoch}.pth, then
\* checkpoint.pth.
SaveModel ==
  LET e == proc[0].epoch
  IN \/ Step(0, "save model", "saving model", [disk EXCEPT !.model[e] = Torn])
     \/ Step(0, "saving model", "save checkpoint", [disk EXCEPT !.model[e] = Checkpoint(proc[0])])

SaveCheckpoint ==
  \/ Step(0, "save checkpoint", "saving checkpoint", [disk EXCEPT !.checkpoint = Torn])
  \/ Step(0, "saving checkpoint", "best", [disk EXCEPT !.checkpoint = Checkpoint(proc[0])])

NotMaster(r) == r # 0 /\ Step(r, "save model", "best", disk)

\* Mutant: an epoch as good as the best replaces it.
IsBetter_OrEqual(p) == Accuracy(p.epoch).total >= p.best

\* The end of the loop's body: the best model is kept.
IsBetter(p) == Accuracy(p.epoch).total > p.best

EndEpoch(r) ==
  LET p == proc[r]
      better == IsBetter(p)
  IN /\ At(r, "best")
     /\ proc' = [proc EXCEPT ![r] =
                   [p EXCEPT !.pc = IF better /\ r = 0 THEN "saving best" ELSE "epoch",
                             !.best = IF better THEN Accuracy(p.epoch).total ELSE p.best,
                             !.epoch = IF better /\ r = 0 THEN p.epoch ELSE p.epoch + 1]]
     /\ disk' = IF better /\ r = 0 THEN [disk EXCEPT !.best = Torn] ELSE disk
     /\ UNCHANGED <<script, job, right, resume, raised, crashes>>

\* Mutant: the next epoch is skipped, by the master alone.
BestSaved_Skips ==
  /\ At(0, "saving best")
  /\ proc' = [proc EXCEPT ![0] = [@ EXCEPT !.pc = "epoch", !.epoch = proc[0].epoch + 2]]
  /\ disk' = [disk EXCEPT !.best = Checkpoint(proc[0])]
  /\ UNCHANGED <<script, job, right, resume, raised, crashes>>

BestSaved ==
  /\ At(0, "saving best")
  /\ proc' = [proc EXCEPT ![0] = [@ EXCEPT !.pc = "epoch", !.epoch = proc[0].epoch + 1]]
  /\ disk' = [disk EXCEPT !.best = Checkpoint(proc[0])]
  /\ UNCHANGED <<script, job, right, resume, raised, crashes>>

Finish(r) == proc[r].epoch = NumEpochs /\ Step(r, "epoch", "done", disk)

-----------------------------------------------------------------------------
\* From outside: the machine, and the person.

Running == \E r \in Ranks : ~At(r, "dead") /\ ~At(r, "done")

Crash == /\ Running /\ crashes < MaxCrashes
         /\ proc' = AllDead
         /\ crashes' = crashes + 1
         /\ raised' = ""
         /\ UNCHANGED <<script, job, right, disk, resume>>

\* A torn cache is not asked for again; the other failures are final.
Relaunch == /\ \A r \in Ranks : At(r, "dead")
            /\ raised \in {"", "torn cache"}
            /\ resume' = IF Newest # NoFile THEN Newest ELSE resume
            /\ job' = [job EXCEPT !.cache = @ /\ raised # "torn cache"]
            /\ proc' = [r \in Ranks |-> Fresh]
            /\ raised' = ""
            /\ UNCHANGED <<script, right, disk, crashes>>

Rank(r) == \/ \E part \in Parts : LoadFromCache(r, part) \/ BuildDataset(r, part) \/ CacheSaved(r, part)
           \/ MissingArguments(r) \/ CreateModel(r) \/ NotMaster(r) \/ EndEpoch(r) \/ Finish(r)

Job == Epoch \/ SaveModel \/ SaveCheckpoint \/ BestSaved \/ \E r \in Ranks : Rank(r)

Next == Job \/ Crash \/ Relaunch

\* The processes run and meet, and the person does not give up.
Spec == Init /\ [][Next]_vars /\ WF_vars(Job) /\ WF_vars(Relaunch)

-----------------------------------------------------------------------------
AllDone == \A r \in Ranks : At(r, "done")

\* What is saved is always what the uninterrupted job would have saved: after
\* a crash at any point, in the middle of a write included, the newest whole
\* checkpoint continues the same epochs at the same learning rate, with the
\* same moving average, and no checkpoint is ever lost (main: the two files
\* of every epoch, start_epoch, the states of the scheduler and of model_ema).
Saved == IF IsCheckpoint(Newest) THEN Newest ELSE [net |-> <<>>, ema |-> [of |-> {}]]
SavedLog == Saved.net
SavedAverage == Saved.ema.of
Promise == INSTANCE EpochLog WITH log <- SavedLog, ema <- SavedAverage
ImplementsEpochLog == Promise!Spec

\* model_best.pth is the best network of the epochs since the last launch, the
\* first of them if several are as good: best_accuracy starts at zero again, and
\* a worse network may replace a better one of the launch before.
BestSinceLaunch ==
  LET p == proc[0]
      score(e) == Accuracy(e).total
      since == p.first..(p.epoch - 1)
  IN p.pc \in {"epoch", "done"} /\ (\E e \in since : score(e) > 0) =>
       /\ IsCheckpoint(disk.best) /\ disk.best.epoch \in since
       /\ \A e \in since : \/ score(e) < score(disk.best.epoch)
                           \/ score(e) = score(disk.best.epoch) /\ e >= disk.best.epoch

\* Where the number of processes divides the test set, the accuracy that decides
\* about the best model is exact; otherwise the padding of DistributedSampler
\* counts samples twice, fewer than there are processes.
AccuracyCountsAll ==
  \A r \in Ranks : At(r, "best") =>
    LET e == proc[r].epoch
        a == Accuracy(e)
    IN /\ a.count = CeilDiv(TestSize, job.world) * job.world
       /\ a.total - Cardinality(right[e]) \in 0..(a.count - TestSize)

\* Whatever is killed when, in the middle of a write included, train.py fails for
\* three reasons only, and none of them is a file it has saved: the cache it was
\* asked to use is torn; its network cannot be run; or it fine-tunes a pruned
\* model and was killed, for its checkpoints are no models.
RestartsWork == raised # "" =>
  \/ raised = "torn cache" /\ job.cache
  \/ raised = "shapes" /\ NoForward
  \/ raised = "not a model" /\ job.pruned /\ crashes > 0
  \/ raised = "no argument" /\ script = "quantization"

\* A job of train.py whose network can be run ends with all its epochs trained,
\* unless it fine-tunes a pruned model and is killed.
Finishes == script = "train" /\ ~NoForward => <>(AllDone \/ (job.pruned /\ crashes > 0))

\* load_data can be called by both scripts: its arguments "may come from
\* train_quantization.py", and it has defaults for those "which [it] doesn't
\* define", says the comment at train.py:168.
BothScriptsLoad == script = "quantization" => raised # "no argument"
=============================================================================

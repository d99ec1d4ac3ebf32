# A TLA+ model of the AAML CFU accelerator

The repository is a fork of CFU-Playground with one project in it,
`proj/AAML_final_proj`: a custom function unit (CFU) for a VexRiscv processor
that speeds up a quantised ResNet-8 for CIFAR-10, run under the MLPerf Tiny
harness. Three things in it are its own and hard to test, and are modelled here:
the hardware in `cfu.v` and its meeting with the processor's pipeline; the
evaluation, a script on the host and a command interpreter on the device joined
by a serial line, which produces the numbers the accelerator is judged by; and
the tools that make the network: the training scripts, killed and resumed, and
the many networks of the pruning tool.

## 1. The system and its parts

| Part | State | Operations | Talks to |
|---|---|---|---|
| **TPU** (`cfu.v`, module TPU): walks the tiles of C = A·B | FSM `state`, `counter`, tile numbers `n`, `m`, `reg_K/M/N`, the indices into A, B and C | start of a job; one clock edge | array, write buffer, buffers A, B, C |
| **Systolic array** (systolic_array, diag_buffer, mask_buffer, PE) | skewing registers, forwarding registers and accumulator of 16 PEs, `read_ff`, `PE_clear` | one clock edge | fed by A and B, read by the write buffer |
| **Write buffer** (write_buffer) | FSM, row `counter`, `write_index`, four rows of data | capture of a tile, one row per clock | array, buffer C |
| **CFU top level** (module Cfu) and **global buffers** | command FSM, operand registers, SIMD offset and accumulator, A, B and C | instructions 0-7: Execute, Write A, Write B, Read C, Stall, SetZero, Mac, SetOffset | processor through the CFU bus |
| **CfuPlugin** of the processor (`soc/vexriscv/VexRiscv_PerfCfu.v`) | `hold`, `fired`, in-flight bit, response register, three pipeline stages | issue, response, stall, flush | CFU |
| **Amaranth base class** (`python/amaranth_cfu/cfu.py`) and **clock gate** (`soc/clock_control.py`) | FSM, stored function and output; FSM of the gate | command, wait, transfer; wake and sleep | the same bus |
| **Amaranth utilities** (`util.py`) | addresses and data of the cycle before | next, restart | memories |
| **Kernels** (`fully_connected.h`, `conv.h`, `add.h`) | scratch arrays | sequences of CFU instructions, packing, requantisation | CFU |
| **MLPerf Tiny harness** (`internally_implemented.cpp`, `submmiter_implemented.cpp`) | command line buffer, byte buffer with size and position | `name`, `db load`, `db`, `infer`, `results` | serial line, TFLite glue |
| **Evaluation script** (`eval_script.py`) | sample, bytes sent, results so far | enter the harness, ask for the name; per sample load, send, infer, read | serial line |
| **TFLite glue** (`tflite.cc`) | interpreter, tensors | load, set input, invoke, get output | interpreter (third party) |
| **Runtime** (`common/src`): performance counters, menus, division trap handler, software CFU, tests | counters, `mcycle`, saved registers | enable, print; div/rem | - |
| **Networks** (`model_compression/pruning/registry.py`, `engine/models`, three `resnet8.py`) | the activation | forward, module by module | - |
| **Training scripts** (`train.py`, `train_quantization.py`, `utils.py`, `sampler.py`, `transforms.py`) | per process network, schedule, moving average, best accuracy; shared checkpoints and data set cache | load, epoch, evaluate, save, resume | each other through collectives and the disk |

In the hardware, interaction is by shared wires in the same clock cycle, except
where a buffer works on the falling edge. Nothing is persisted there, so there is
nothing to recover; what makes it hard is that five state machines advance
together and nearly all hand-overs between them rely on counting cycles rather
than on a handshake. Script and device exchange text over a serial line: every
command is answered with text that ends in `m-ready`, nothing says which command
an answer belongs to, and the device outlives the script: a run that is
stopped leaves half a line, half a sample and unread answers to the next. Training
is the part with persistence: files are written in place, by one of several
processes, and a job may be killed in the middle of a write.

What makes each part correct:

* TPU, array and write buffer: when the TPU gets idle, C holds the product of
  the job whatever its shape, nothing else in C was touched, and it does get
  idle. Underneath: no tile is lost in the write buffer, no byte of one tile
  enters another.
* CFU and CfuPlugin: a program of custom instructions, with whatever runs in
  between, has the results it has when executed one instruction at a time. No
  command is sent twice or for an instruction that is later flushed, no
  response goes to another instruction, nothing waits for ever, gated clocks
  included.
* Kernels: the sums packed into narrow registers are those of the reference kernel.
* Harness and script: `infer` runs on the bytes that were loaded, and the result
  the script counts for a sample is the network's for that sample.
* Networks: wherever two maps meet they fit, and the network for the device fits
  the device.
* Training: a job that is resumed goes on as if it had never been interrupted,
  and what is saved is never lost.

## 2. Modules

| Module | Contents |
|---|---|
| `Tiling` | geometry of tiles and words, shared by the next two; what "C holds the product" means |
| `MatMul` | abstract specification of the TPU: accept a job, be busy, finish with the product in C |
| `SystolicArray`, `WriteBuffer` | one clock edge of each, as operators with the control wires as parameters |
| `Tpu`, `MCTpu` | the controller and the composition, which extends both; the jobs for TLC |
| `TpuProofs` | theorems about `Tpu`: registers and timing; the product and the refinement |
| `CfuIsa` | what the eight instructions do when executed one after the other |
| `Cfu` | module Cfu: command FSM, SIMD unit, buffers; the TPU as `MatMul` describes it |
| `CfuPlugin` | the processor's side of the bus, with the properties of the bus |
| `CfuSystem`, `MCCfuSystem` | `Cfu` and `CfuPlugin` clocked together; the kernels' programs |
| `CfuSystemProofs` | theorems about `CfuSystem` |
| `AmaranthCfu`, `AmaranthSystem`, `MCAmaranthSystem` | a CFU on the Amaranth base class, and the same processor with it, with and without the clock gate |
| `AmaranthProofs` | theorems about `AmaranthSystem` |
| `MemoryReader`, `MemoryReaderProofs` | SequentialMemoryReader on a memory that is written meanwhile; theorems about it |
| `MlperfDevice` | menus, command interpreter, byte buffer and tensors of the device |
| `MlperfEval`, `MCMlperfEval` | the evaluation script with the device, and its restarts |
| `MlperfEvalProofs` | theorems about `MlperfEval` |
| `MlperfConsole`, `MCMlperfConsole` | a person typing lines at the device |
| `DeviceArithmetic` | the two kernels and the division trap as operators, with the widths of their registers |
| `FunctionCalls`, `MCFunctionCalls` | calls of everything that computes something, and the reads of the running cycle counter |
| `FunctionCallsProofs` | theorems about `FunctionCalls`: cycle counter, CutMix, sampler, both kernels, trap handler |
| `Sums` | lemmas about finite sums and division, for the proofs about the kernels and the evaluation |
| `Layers` | shapes of activations and what the library's layers make of them |
| `ResidualNets`, `InceptionNets`, `OtherNets`, `TransformerNets` | the networks, family by family |
| `CifarNetworks`, `MCCifarNetworks` | the registry and the forward pass, one module per step |
| `TrainingUtils` | samplers, meters, evaluation, boxes and labels |
| `EpochLog` | abstract specification of a training job |
| `Training`, `MCTraining` | train.py, its processes, files, crashes and relaunches, and train_quantization.py as far as it gets |
| `TrainingProofs` | theorems about `Training` |

**One step is one rising clock edge** in every hardware module. Wires are operators of
the state; registers are variables with the names of the source.

*TPU.* `Start`, `Idle`, `PassData`, `Wait6`, `WaitForWrite` are the arms of the
FSM (cfu.v:431-445); `Clk` is what every edge does besides. Data is symbolic: a
byte is the index of the word it was read from (the lane is fixed wiring), an
accumulator the sequence of products added since it was cleared. This tells
apart every misrouted, missing, doubled or stale byte, and makes the state
independent of the values. `Zero` is the byte that the skewing buffers feed
when nothing is read; a product with it adds nothing unless the input offset
is added to it, which the mask pipeline decides. The word width of an index
(16), of n and m (8) and of the counter (9) is kept. `reg_K-1` and `M_tiles-1`
are evaluated in 32 unsigned bits by Verilog, so for 0 they are never reached:
a job with K = 0 or M = 0 keeps the TPU busy for ever. `MatMul` promises an end
only to the other jobs (`NonEmpty`), and the product only to those that fit
(`Fits`, which includes it). The safety theorems cover jobs of both kinds; the
run has only non-empty ones.

*Write buffer.* `always @(posedge state)` is an edge of the low bit of `state`,
so the capture happens when the FSM enters LOAD_DATA, on the clock edge that
also writes the accumulators. Nothing orders the two; `CaptureSees` is the set
of outcomes the build can have.

*CFU.* The buffers work on the falling edge, with the wires of the cycle that
the next rising edge ends; a Write stores the *operand register*, as cfu.v:231
does, in every cycle in which the command is on the bus. Which word the TPU
addresses is left open (`tpuIndex`), and when it finishes, too: any number of
cycles. `Product` names a result by the operands of the job, so a job whose
buffers change under it has no product. Execute is answered at once and once
more at the end of the job, and an immediate result is offered for one cycle,
whether `rsp_ready` is high or not; both are in the model.

*CfuPlugin.* Of instructions that are not custom ones only the way they stall
or flush is kept: `plain` not at all, `load` holds writeback while its access
lasts or misses and is run again, flushing what is behind it, `div` holds
memory. The `gap` of a program to `MaxGap` such instructions may separate two custom
ones; a custom instruction that was flushed is fetched again. `Stray` stands
for the operands an instruction that is not a custom one would put on the bus.

*Amaranth base class.* An instruction is the protocol of InstructionBase:
combinational, or multi-cycle with one `start` and one `done`. `clock` is the
FSM of CfuCpuClockCtrl, or "free" where clocks are not gated; a component whose
clock is off keeps its registers while its wires go on.

*Memory reader.* A word is named by its address and how often it was written.
`Follow` keeps beside the circuit what a reader without pipeline would show.

*Harness.* The serial line is a queue each way, `rx` of characters grouped into
tokens (`g_cmd_buf` holds tokens, too, and `CmdSize` counts them), `tx` of
messages, of which those are kept that somebody tells apart. One step is one
token received, or one command executed with all it prints. `Words` is strtok,
a token glued to another makes a different word. The text of `print`, `help`
and the like is left out. The output tensor is named by the input it was
computed from; the interpreter may overwrite the input tensor while it runs,
and is taken to succeed. An empty command passes a null pointer to strncmp,
which is undefined; what it reads is taken to be none of the keywords. Input
values are real bytes and become int8 as th_load_tensor makes them.

*Script.* Each action is the code between two points where the script can wait.
`read_all` takes any number of the messages that the device has sent, since the
rest may still be on its way. The 0.5 s sleep is modelled in two ways:
`longSleep` says that the device has answered all it was sent when the sleep
ends; without it the sleep says nothing. `Restart` stops the script anywhere
and starts it again: what it wrote may be cut anywhere, even within a byte or the
size in `db load`, and any part of what it did not read is still to come.

*Function calls.* A call takes one step and leaves its result beside its
arguments; the properties compare the two. perf_get_mcycle64 takes a step per
read, with any number of ticks of the counter in between. Kernel operators keep
the 8-bit offset port, the 9-bit SIMD offset, 16-bit products and the copy of
rows four bytes at a time; bytes that come from behind the filter are `Unknown`.
The trap handler runs on registers of `Bits` bits; words of the frame that no
register owns are separate.

*Networks.* An activation is its shape; a layer that does not fit turns it into
`Bad`, as the library would raise. Weights and values are left out, except in
Swin's shifted windows, where the masks decide which place attends to which.

*Training.* A network is the list of the epochs it was trained for, with the
learning rate and the shuffle each was trained with; so whatever a resumed job
forgets shows in the list. An epoch (training, the step
of the schedule, the evaluation) is one step of all processes, for they meet in
its collectives; loading, saving and the rest of the loop are steps of single
processes. A file that is being written is `Torn` until the write ends. Which
test samples a network gets right is chosen at the start (`right`); the accuracy
is computed from them through sampler, batches, meters and their sum over the
processes. `Crash` kills all processes anywhere; `Relaunch` is the person: the
newest whole checkpoint, without the cache if that was what failed. train.py's
`torch.load` is taken to load whole objects by default, as it did in the
library's releases before 2.6. A job of train_quantization.py (`script`) begins
as one of train.py does and fails in load_data (`MissingArguments`), whatever its
other arguments; nothing behind that line of it is modelled.

*Refinements.* `Tpu!ImplementsMatMul` maps the controller to `MatMul`.
`Training!ImplementsEpochLog` maps the disk to `EpochLog`: the log is the list
of epochs in the newest whole checkpoint, the average the epochs its moving
average has seen. Killing, relaunching and training without saving are
stutters; a completed write of `model_{epoch}.pth` is the abstract epoch, and
that of `checkpoint.pth`, with the same contents, is a stutter again.

## 3. Runs

| Run | Question | Instance |
|---|---|---|
| `tpu` | Is the product right, is nothing lost, does every job end, does `Tpu` implement `MatMul`? | jobs (K,M,N) = (1,1,9), (2,5,5), (5,3,1), (1,4,4) and (9,6,1), in any order and any number; 16 words |
| `tpu_race` | What can the capture race lose? | the same with both outcomes |
| `kernels` | Do the kernels' sequences of instructions work through the pipeline? | fully connected: two blocks of 8 instructions, 2 words, 0-3 others between two; convolution: 6 instructions, 1-3 others between two; loads that stall or miss |
| `amaranth` | Does a CFU on the base class keep the bus protocol, back to back, with free and with gated clocks? | 7 instructions, gaps 0-2; one function multi-cycle, or all combinational and divisions in between |
| `reader` | Does the memory reader deliver the right word under any sequence of next, restart and writes? | up to 3 words, 2 writes to each |
| `eval` | Does the script stay in step with the device, and evaluate every sample? | 2 samples of 4 bytes, 3 bytes to a line, any menu open, 2 restarts anywhere, a sleep that is long enough or may be too short |
| `console` | Does infer use just the bytes typed? | 14 lines, malformed ones included, in any order; inputs of 3 bytes, a buffer of 4 |
| `networks` | Do the networks run on their samples, and does the one for the device fit it? | the 44 names of MODEL_DICT and GRAPH_MODEL_DICT, the Vision Transformers, the three ResNet8 and others of the same files, at full size, on their data sets; not torchvision's networks in IMAGENET_MODEL_DICT |
| `training` | Is a killed and resumed job as good as an uninterrupted one, and does it end? | 1 and 2 processes, 3 epochs, 1 of warm-up, 3 test samples, 2 crashes anywhere |
| `functions` | Do kernels, trap handler, sampler, CutMix and the cycle counter compute what they should? | layers up to 5 by 5, rows of 3 points of up to 5 channels, registers of 3 bits, two different words of the stack, 7 samples, 4 processes, images up to 4 by 4, counter halves of 4 |

Why these bounds are enough: the jobs have every alignment of M to the tile
size, one and more tiles on each side, K = 1 (tiles as close together as they
get), K longer than the array's skew, and one job that does not fit and wraps;
job after job covers what one leaves behind for the next. Depth 16 is the
smallest in which the others fit. For the bus, no interaction is longer than
the pipeline: three stages, one response register, one instruction in the CFU;
gaps of 0 to 3 give every alignment of them. Two blocks make stale operands
and results of the first block visible in the second. For the script, a second
sample makes what the first left behind visible, 4 bytes at 3 to a line give a
full and a short line, a command buffer of 8 tokens is overrun by the halves of
lines that two restarts leave, as 80 characters are by the real ones, and 2 keys
`x` leave the deepest menu of the instance. The console never types past
`gp_buff` (the bound in `Type`), nor a line longer than the command buffer: the
device cuts a longer `db` line in the middle of a byte, which tokens do not show. Networks have no bounds but those of the shifted
windows (2 to 7 wide, up to 3 in a row; the arithmetic is periodic). In training,
3 epochs have one inside and one behind the warm-up and one more after a
relaunch; 3 samples on 2 processes need padding, and the two outcomes are worse,
better and, through the padding, as good. That two crashes suffice is not
obvious; the theorems of `TrainingProofs` hold for any number. In
`functions`, 5 is one more than the tile, the word and the group of channels;
4-value halves overflow within a call, at each of its reads.

What the properties say is stated above each of them. The deepest:

* `ProductStored`: the rows past M that a partial tile stores over the next
  column tile are always overwritten in time;
* `ImplementsMatMul`: every step of the register-level TPU is a step of
  `MatMul`, including that words which do not belong to the job are left
  alone, and every job that is not empty ends;
* `NoOverrun`, `Lockstep`: the write buffer has no back-pressure and needs none;
* `RaceConfined`: whichever way the capture race goes, only the last product of
  PE (3,3) can be missing from the captured rows;
* `ResultsCorrect`: pipelined execution has the results of sequential execution;
* `CommandsAreFinal`: an instruction that may be flushed has sent nothing;
* `Completes`: no lost response or command stops the processor, and no gated
  clock either;
* `ReadsInOrder`: the reader shows the word a circular reader without pipeline
  would show, as it was in the memory when it was asked for;
* `ResultsMatch`: if the sleep is long enough, and after two restarts however
  short it is, the script never counts a result that is not that of its sample.
  It holds even where `InStep` does not: after a restart with a short sleep the
  script can take the name that an earlier run asked for as its own answer, is
  then out of step, and raises at the first inference, as the answer it reads
  has no result in it. With a short sleep the number of restarts matters: each
  can leave one more answer unread, until a run reads the answer to an earlier
  run's `infer` for its own. With samples of three commands TLC finds that at
  the fourth restart and not before, with samples of four at the fifth;
* `InferIsOfTyped`: a single inference on a whole input is of just the bytes typed,
  whatever was typed, refused or inferred before; warm-ups and further inferences
  of one `infer` may compute from an overwritten tensor, never from another input;
* `AllEvaluated`, `ScriptEnds`: read_until, which waits without limit, gets its
  m-ready;
* `ImplementsEpochLog`: wherever a job is killed, no epoch is lost, repeated or
  trained at another learning rate, shuffle or moving average. checkpoint.pth is
  overwritten in place, and a kill in the middle destroys it: the epoch is then
  still in `model_{epoch}.pth`;
* `BestSinceLaunch`: the best model is the best of its launch, and no more;
* `ShiftedWindowsAreLocal`: Swin's masks separate exactly what the cyclic shift
  brought together;
* `CyclesAreOfTheCall`: the two halves that perf_get_mcycle64 returns belong
  together;
* `FullyConnectedIsExact`, `ConvolutionIsExact`: the accelerator's sums are those
  of the reference kernels, but for negative offsets on the TPU.

### Runs that find a disagreement

* `conv_division`: `hold` of the CfuPlugin is set again while a fired
  instruction waits behind a division, and cleared only by `cmd_ready`, which
  cfu.v raises only for a command: the next instruction, whatever it is, sends
  a command and takes a response. A CFU that keeps to the protocol is exposed as
  soon as one of its instructions takes several cycles, which is why `amaranth`
  has divisions only in the program without such instructions.
* `quantization`: load_data of train.py is called by train_quantization.py, too,
  and has defaults for arguments which that script, as a comment says, does not
  define (train.py:168). But it begins with three others that the script does not
  define either (`val_resize_size`, `val_crop_size`, `train_crop_size`,
  train.py:151), and every launch ends in an AttributeError. Behind it waits a
  second one: `evaluate` reads a global `args` (train.py:128) that exists only
  when train.py is the script that was started.

### Observations without a run

The passing properties state these as what the code does, or exclude them by a
precondition they name:

* K = 0 or M = 0 keeps the TPU busy for ever; the functional CFU tests issue such
  operands.
* The capture of the write buffer races with the last product of PE (3,3)
  (`RaceConfined`).
* Execute is answered twice; the kernel survives it because Stall follows. A Mac
  result is withdrawn when the processor cannot take it at once; with one other
  instruction between two Macs, as compiled, it always can (`kernels`).
* A Write or Mac that arrives while the TPU computes takes effect in every cycle
  it waits; the kernel's Stall keeps them away (`StallWaits`).
* A negative input offset loses its sign in the TPU's 8-bit port; such a fully
  connected layer is right only where the weights of a row add up to zero
  (`FullyConnectedIsExact`).
* rem and remu by zero reach the library's function, which leaves the result
  open, and an instruction that names x0 or sp reads a word of the interrupted
  program's stack for it; one with rd = x0 overwrites the word on top of that
  stack (`DivisionsInFrame`).
* With fewer processes than repetitions (the default is 3) RASampler gives a
  process two copies of a sample, against its docstring; `CopiesApart` says what
  holds with as many.
* infer on an incomplete buffer prints a result, that of what the tensor held
  before; `db` data is stored after N bytes, too; infer without W does ten warmup
  loops. If Invoke fails, a line is printed and the results of the inference
  before are reported.
* A script restarted often enough with a sleep that is too short can count the
  result of another sample (`ResultsMatch`); with the lines and samples of
  eval_script.py that takes about as many restarts as a sample has commands.
* The fine-tuning of a pruned model cannot be resumed from the checkpoints it
  writes (`RestartsWork`), and train.py's own ResNet8 cannot be run.
* A relaunch forgets the best accuracy, and may replace model_best.pth by a worse
  network (`BestSinceLaunch`).
* A cache torn by a crash makes every launch that asks for it fail.
* Two of the three ResNet8 add maps of different sizes; Swin's window of 7 does
  not divide its 8 by 8 map; PointNet cannot take a batch of one
  (`NoShapeError`).

### Fairness

`Tpu!Spec` has `WF_vars(Next)`: the clock keeps running, nothing else (a job
may never be started). `CfuSystem` and `AmaranthSystem` have weak fairness of
`Unhindered`, a clock edge on which no bus access, division, job or multi-cycle
instruction is still running: each of them ends. That jobs end is what `tpu`
checks; the divider counts 32 cycles and the bus answers.

`MlperfEval!Spec` has weak fairness of the device and of the script: the
firmware loop takes the next character, the script goes on to its next call.
Restarts are not fair, they need not happen, and there are at most `MaxRestarts`.

`Training!Spec` has weak fairness of `Job`, the processes run and their writes
end, and of `Relaunch`, the person does not give up on a job that can be
continued. Crashes are not fair and at most `MaxCrashes`.

`ImplementsMatMul`, `Completes`, `AllEvaluated`, `ScriptEnds` and `Finishes` need
it; everything else is safety, and so is `EpochLog`. Deadlock is checked except
where the system stops: the script, a forward pass and a training job end.

## 4. Proofs

`TpuProofs` proves, for every set of jobs (`JobsAssumption`: three 8-bit
numbers, zero included), every buffer depth (`DepthAssumption`) and both
orders of the capture (`CaptureSeesAssumption`):

* `TypeCorrect`: `Spec => []TypeOK`. The width of an index is used only as
  `IndexSpan \in Nat \ {0}` (lemma `IndexSpanType`), for the provers choke on
  65536.
* `LockstepInvariant`: `Spec => []Lockstep`. Lockstep relates controller and
  write buffer: loaded in the first cycle after a tile, row r stored in cycle
  r + 1. It is inductive together with TypeOK; `NoOverrun` alone is not, since
  it says nothing of the cycles in which a tile is on its way.
* `WriteBufferNeverOverrun`: `Spec => []NoOverrun`. From Lockstep: a tile is
  done K + 6 cycles after it began, and the write buffer is idle again after 5.

* `ArrayDrains`: `Spec => []Drained`. The invariant `Quiet` names the registers
  of the array that are behind the last word fed, and says that they are empty.
* `RaceIsConfined`: `Spec => []RaceConfined`, for both outcomes of the race.

The argument is one lemma per component (`ShiftType`, `MultiType`,
`ArrayType`, `WriteBufferType`, `ControlType`), then one case per arm of the
FSM.

Its second part goes on from there, with the same assumptions:

* `ProductIsStored`: `ProductStored`, if the capture follows the accumulators
  (`CaptureSees = {"after"}`; with the other outcome it is false, PE (3,3)
  loses a product).
* `ImplementsSafety`: every step of `Tpu` is a step or a stutter of `MatMul`,
  words of C that do not belong to the job included.

The invariant `ProductInv` (theorem `ProductInvariant`) follows the bytes through
the machine. `Position`: n, m and the three indices are those of one walk over
the tiles. `Pipes`: register s of a skewing buffer holds the word read s cycles
ago. `Sums`: each accumulator holds the first words of its tile, as many as the
time since PE_clear and its distance from the corner allow. `Buffered`: the write
buffer holds the finished tile until its last row. `Written`: the words of C that
are never stored again are right. The last is the hard one: a tile at the lower
edge stores rows past M into the next column of tiles, so a word is final only
when the walk has passed it (`StoreIsFinal`).

`CfuSystemProofs` proves `ResultsCorrect`, `ResponsesInOrder`, `CommandsAreFinal`
and `StallWaits` (`SequentialResults`, `OrderHolds`, `NothingFlushed`,
`StallHolds`) for buffers of every depth, programs of every length and any timing
of loads and of the TPU, under the hypothesis `SafePrograms`: no division runs
before a custom instruction, an instruction of the SIMD unit has another
instruction in front of it, and Stall follows Execute. Both programs of run
`kernels` are safe; that of `conv_division` is not, and does fail. The invariant
says that the registers of the CFU are those of sequential execution up to the
last instruction that was answered, but for what is just about to change, which
the state of the command FSM tells (`CfuInv`); and, as below, which instruction
is where and whether its response is on the way. One lemma per state of the FSM
(`FromIdle` to `FromOver`) says where it goes.

`AmaranthProofs` proves `ResponsesInOrder`, `CommandsAreFinal` and
`ResultsCorrect` (`OrderHolds`, `NothingFlushed`, `ResultsHold`) for programs of
any length, any choice of multi-cycle functions, any gaps and both clock schemes,
from `ProgramsAssumption` and the hypothesis `SafePrograms`: a program with
divisions has combinational instructions only. The hypothesis is needed, all
three fail without it (see `conv_division`). None of the properties is
inductive. The invariant adds where the one response on its way is (`BusInv`):
nowhere, in the response register, in a running instruction, in the output
register of the FSM, or in the response register before its instruction has
left execute; and which instruction is in which stage (`OrderInv`). One lemma
per place (`FromNone` to `FromEarly`) says where it goes next. `Gated` reduces
gated clocks to free ones: when a clock is off, the step would not have changed
the component.

`MemoryReaderProofs` proves `TypeOK`, `ReadsInOrder` and `OneAhead`
(`TypeCorrect`, `DeliversInOrder`, `AddressAhead`) for every size of memory and every limit, from
`MemoryAssumption`.

`MlperfEvalProofs` proves `InStep` and `ResultsMatch` of the script
(`StaysInStep`, `ResultsOfSamples`; the second for a sleep that is long enough)
for any number of samples, of any size, sent in lines of any length, and any
number of restarts. The assumption on the command buffer (`EvalAssumption`) is
that it holds a line of the script; it has 80 characters, and the longest line,
`db` and 64 digits, has 67. The argument: nothing that a run leaves behind
survives the start of the next, for what the device was sent last always ends a
command, so that its command buffer is empty when it has read everything
(`Clean`); and then everything is known. A line is being received, its first k
tokens in the command buffer and the rest on the way (`Receiving`), or its answer
is waiting, with the only m-ready at its end (`Answering`), while the buffer
holds so many bytes of the sample (`Holds`). The lemmas on the words of a
line (`WordsOfThree`, `WordsOfData`) say which command each line is, and `LoadDone`,
`DataStored`, `InferDone` what it does.

`StaysInBuffers` is `TypeOK` of the script, and holds however short the sleep
is: no byte of a `db` line is stored outside `gp_buff`, which the device itself does
not check. With a short sleep nothing is known of what is on the line: commands
cut in the middle, half a byte or size, the tail of one command and the keys of the next
run in one word. What is known is how far it can take the position (`Bounded`). Lay
the tokens of the open command and those on the line in a row: each carries a
bound, the first the present position; a byte raises the bound by one, only the
number of a whole `db load` lowers it, to zero, and it never exceeds the bytes of
an input; at the end of the row it is at most what the script has sent of the
sample (`Reaches`, `Pending`). A restart keeps a part of the row (`Shortened`), a
line of the script extends it (`Extended`), and a command takes its tokens off
(`CommandBounded`): what it stores is a run of bytes in one word of the line
(`WordsAre`, `StoresDigits`), so the position is within the bound of its end, and
if the row lowers the bound, the command is a load of the whole size
(`LoadsFirst`, `LoadWords`). For this `EvalAssumption` says two more things of the
constants: the script sends at least two `x` (it sends eight), so that no menu is
deeper than it leaves, and an input has more than three bytes (it has 3072),
so that the key 3 is a smaller size when it lands in a `db load`.

`FunctionCallsProofs` proves the six properties of `FunctionCalls`, each for
every size of its arguments:

* `CyclesCorrect`: `CyclesAreOfTheCall`, for halves of every width. The invariant
  says at each read at which moments of the call the counter had the halves read
  so far.
* `LabelsAreShares`: `LabelsMatchPixels`, for images of every size.
* `CopiesDistributed`: `CopiesApart`, for all numbers of samples, processes and
  repetitions: position k of the repeated list is sample k / reps, and a process
  takes every world-th position.
* `FullyConnectedSums`: `FullyConnectedIsExact`, both directions of it, for every
  layer the 64x64 scratch arrays hold (`LayersAssumption`) and the offsets of
  8-bit zero points (`OffsetsAssumption`).
* `ConvolutionSums`: `ConvolutionIsExact`, for a row of any number of points,
  channels and filter points and any dilation, with zero points of 8 bits. Of the
  sizes `RowsAssumption` asks that a filter has at most 65536 products, so that
  its sum fits the 32-bit accumulator, and that the numbers of points fit 16384,
  which no layer of the network comes near. One Mac is the sum of its four
  products (`SimdIsExact`); the blocks of four channels, the last one padded,
  make up the products of a point, and the points of the filter that fall
  outside the row add zero.
* `DivisionsAreOfTheFrame`: `DivisionsInFrame`, for registers of every width and
  any words of the stack (`BitsAssumption`). It says which word gets the result
  for x0 and sp, too, and nothing of the value of a remainder of zero.

These are about recursive definitions: a sum over a set takes out a number by
CHOOSE, a list repeats its elements, 2^n doubles. The library's induction
theorems cannot be used, for they take a predicate as a parameter; but a
set of numbers has a least element (`LeastNatural`, from the library's theorem
that < is well founded), and the least counterexample of a claim contradicts it.
`TotalsExist`, `Powers` and `RecursionDefines` are proved so, and what `Sums` says
of any finite sum: it does not depend on the order in which CHOOSE takes the
values (`TotalsWithout`), it is linear (`TotalsAreLinear`), and it can be taken
by parts (`TotalsByParts`), of which counting the members of a set part by part
is a special case (`CountByParts`).

`TrainingProofs` proves, for any numbers of processes, epochs, warm-up epochs and
crashes, any test set that is not empty and batches of any size
(`TrainingAssumption`):

* `InvariantHolds`: what a process holds is a function of the number of epochs
  behind it, what a file holds of the number in its name; the whole files
  `model_{epoch}.pth` are those of the first epochs, up to the one the master
  is at, and that of the epoch in `checkpoint.pth` or in `--resume` is among
  them.
* `ResumesTheLog`: `Spec => ImplementsEpochLog`, the refinement, step by step:
  only the end of `SaveModel` moves the log (`KeptSteps`, `LogGrows`).
* `AlwaysRestarts`: `RestartsWork`, from the same invariant: a torn cache that was
  asked for, a network that cannot be run, or a pruned model after a crash are all
  that makes train.py fail; missing arguments make only train_quantization.py fail.
* `AccuracyComplete`: `AccuracyCountsAll`. The meters of a process add up its
  batches, and the batches are its share cut into stretches (`ShardCount`);
  every place of the padded list is in the share of one process
  (`ShardPlaces`), so the meters together count each once (`EvaluateIs`); the
  first places are the samples, the others the padding (`AccuracyIs`).
* `BestIsKept`: `BestSinceLaunch`. The invariant `BestInv` goes on where the
  property is silent: best_accuracy is the highest score of the epochs behind
  the master, or zero, and model_best.pth has the first network with that score,
  except while it is written, when the score of the current epoch is above all
  others.

Only model-checked: that the TPU ends its jobs, and all other liveness, which is
out of the prover's reach, as is ENABLED; `ResultsMatch` after restarts with a
short sleep; `InferIsOfTyped` of the console; the three properties of the
networks, which are one finite computation each.

## 5. Not modelled, and why

* Requantisation in the kernels and `add.h`: fixed-point arithmetic of the
  library, without state. The second dimension of the convolution repeats the
  first.
* Interrupts and traps in the processor; the rest of the core.
* ValueBuffer and the tree helpers of `util.py`: wiring without a state to get
  wrong. The eight counters of the CFU, what the other menus run, `read_val`,
  peripherals: sequential and without interaction. The counter of the `z` keys
  of the menu only wraps.
* A reset of the board while the script runs (the script then waits for ever),
  and characters lost on the serial line, which has no flow control: the script
  sends one short line at a time. A `db load` larger than the buffer.
* Training: optimizers and losses are the library's; the loop of
  train_quantization.py is never reached; test-only runs are a straight line
  through the same functions; MixUp; the tools of `utils.py` that average or
  convert checkpoints.
* The pruning tool (`main.py`, evaluation) and the conversion scripts: sequential
  scripts around torch_pruning and TinyNeuralNetwork; what they read and write is
  in `Training` as a pruned model and in `CifarNetworks` as a network.
* Third-party and generated code (TFLite Micro, Embench, the SoC generator, the
  CPU cores except the CfuPlugin), documentation.

## 6. What could follow

1. `Cfu` with the register-level `Tpu` in place of its abstraction, to check
   what the abstraction assumes (addresses used only in CAL).
2. `ResultsMatch` with a short sleep for fewer restarts than a sample has commands.

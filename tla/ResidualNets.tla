---------------------------- MODULE ResidualNets ----------------------------
(***************************************************************************)
(* The networks made of residual blocks: resnet.py, preactresnet.py,       *)
(* resnext.py, resnet_tiny.py, senet.py, mobilenetv2.py, xception.py and   *)
(* the three copies of resnet8.py.  A block is its forward method: from    *)
(* the shape of its input and the arguments of its constructor to the      *)
(* shape of its output.  A network is the sequence of the modules that its *)
(* forward method calls; a block in it is a record of its arguments.       *)
(***************************************************************************)
EXTENDS Layers

Block(op, i, o, s) == [op |-> op, in |-> i, out |-> o, s |-> s]

\* _make_layer: n blocks, the first from i channels with stride s, each
\* with o * e channels at its output.
Stack(op, i, o, e, n, s) ==
  [j \in 1..n |-> IF j = 1 THEN Block(op, i, o, s) ELSE Block(op, o * e, o, 1)]

Projection(x, i, o, s) == Apply(Apply(x, Conv(i, o, 1, s, 0)), Norm(o))

\* The shortcut of the blocks that project whenever the shape changes.
Shortcut(x, i, o, s) == IF s # 1 \/ i # o THEN Projection(x, i, o, s) ELSE x

-----------------------------------------------------------------------------
\* resnet.py, and with the same blocks resnet_tiny.py

TwoConvs(x, i, o, s) ==
  Apply(Apply(Apply(Apply(x, Conv(i, o, 3, s, 1)), Norm(o)), Conv3(o, o)), Norm(o))

BasicBlock(x, i, o, s) == Add(TwoConvs(x, i, o, s), Shortcut(x, i, o, s))

Bottleneck(x, i, o, s) ==
  Add(Sequential(x, <<Conv1(i, o), Norm(o), Conv(o, o, 3, s, 1), Norm(o),
                      Conv1(o, 4 * o), Norm(4 * o)>>),
      Shortcut(x, i, 4 * o, s))

Expansion(op) == IF op \in {"Bottleneck", "PreActBottleNeck", "ResNextBottleNeckC"}
                 THEN 4 ELSE 1

\* Four stacks of doubling width behind a convolution, as three files have it.
FourStacks(op, n, classes) ==
  LET e == Expansion(op)
  IN <<Conv3(3, 64), Norm(64)>>
     \o Stack(op, 64, 64, e, n[1], 1)
     \o Stack(op, 64 * e, 128, e, n[2], 2)
     \o Stack(op, 128 * e, 256, e, n[3], 2)
     \o Stack(op, 256 * e, 512, e, n[4], 2)
     \o <<GlobalPool, Linear(512 * e, classes)>>

ResNet(op, n, classes) == FourStacks(op, n, classes)

\* resnet_tiny.py: 6 n + 2 layers, and a pool that takes the whole 8 x 8 map.
TinyResNet(depth, f, classes) ==
  LET n == (depth - 2) \div 6
  IN IF (depth - 2) % 6 # 0 THEN <<[op |-> "raise"]>>
     ELSE <<Conv3(3, f[1]), Norm(f[1])>>
          \o Stack("BasicBlock", f[1], f[2], 1, n, 1)
          \o Stack("BasicBlock", f[2], f[3], 1, n, 2)
          \o Stack("BasicBlock", f[3], f[4], 1, n, 2)
          \o <<Pool(8, 8, 0), Flatten, Linear(f[4], classes)>>

-----------------------------------------------------------------------------
\* preactresnet.py

PreActBasic(x, i, o, s) ==
  Add(Sequential(x, <<Norm(i), Conv(i, o, 3, s, 1), Norm(o), Conv3(o, o)>>),
      IF s # 1 \/ i # o THEN Apply(x, Conv(i, o, 1, s, 0)) ELSE x)

\* Here the stride is on the first convolution, of 1 x 1.
PreActBottleNeck(x, i, o, s) ==
  Add(Sequential(x, <<Norm(i), Conv(i, o, 1, s, 0), Norm(o), Conv3(o, o),
                      Norm(o), Conv1(o, 4 * o)>>),
      IF s # 1 \/ i # 4 * o THEN Apply(x, Conv(i, 4 * o, 1, s, 0)) ELSE x)

PreActResNet(op, n, classes) == FourStacks(op, n, classes)

-----------------------------------------------------------------------------
\* resnext.py: 32 groups of D channels

CARDINALITY == 32
DEPTH == 4
BASEWIDTH == 64

ResNextBottleNeckC(x, i, o, s) ==
  LET D == (DEPTH * o) \div BASEWIDTH
      w == CARDINALITY * D
  IN Add(Sequential(x, <<Grouped(Conv1(i, w), CARDINALITY), Norm(w),
                         Grouped(Conv(w, w, 3, s, 1), CARDINALITY), Norm(w),
                         Conv1(w, 4 * o), Norm(4 * o)>>),
         Shortcut(x, i, 4 * o, s))

ResNext(n, classes) == FourStacks("ResNextBottleNeckC", n, classes)

-----------------------------------------------------------------------------
\* senet.py

\* x * fc(avg_pool(x)), one factor per channel.
SqueezeExcitation(x, c) ==
  LET y == Sequential(x, <<GlobalPool, Linear(c, c \div 16), Linear(c \div 16, c)>>)
  IN IF y = Bad \/ x[1] # c THEN Bad ELSE x

\* The shortcut projects only where the width changes, whatever the stride.
SeShortcut(x, i, o, s) == IF i # o THEN Projection(x, i, o, s) ELSE x

SeBasicBlock(x, i, o, s) ==
  Add(SqueezeExcitation(TwoConvs(x, i, o, s), o), SeShortcut(x, i, o, s))

PlainBasicBlock(x, i, o, s) == Add(TwoConvs(x, i, o, s), SeShortcut(x, i, o, s))

\* Mutant: the constructor keeps the default of ten classes.
CifarNet(op, n, classes) ==
  <<Conv3(3, 16), Norm(16)>>
  \o Stack(op, 16, 16, 1, n, 1) \o Stack(op, 16, 32, 1, n, 2) \o Stack(op, 32, 64, 1, n, 2)
  \o <<GlobalPool, Linear(64, classes)>>

-----------------------------------------------------------------------------
\* mobilenetv2.py: t times as many channels inside the block; the input is
\* added only where it fits.

LinearBottleNeck(x, i, o, s, t) ==
  LET w == i * t
      residual == Sequential(x, <<Conv1(i, w), Norm(w), Grouped(Conv(w, w, 3, s, 1), w),
                                  Norm(w), Conv1(w, o), Norm(o)>>)
  IN IF s = 1 /\ i = o THEN Add(residual, x) ELSE residual

LinearBlock(i, o, s, t) == [op |-> "LinearBottleNeck", in |-> i, out |-> o, s |-> s, t |-> t]

MobileStage(n, i, o, s) ==
  [j \in 1..n |-> IF j = 1 THEN LinearBlock(i, o, s, 6) ELSE LinearBlock(o, o, 1, 6)]

MobileNetV2(classes) ==
  <<Conv(3, 32, 1, 1, 1), Norm(32), LinearBlock(32, 16, 1, 1)>>
  \o MobileStage(2, 16, 24, 2) \o MobileStage(3, 24, 32, 2) \o MobileStage(4, 32, 64, 2)
  \o MobileStage(3, 64, 96, 1) \o MobileStage(3, 96, 160, 1)
  \o <<LinearBlock(160, 320, 1, 6), Conv1(320, 1280), Norm(1280), GlobalPool,
       Linear(1280, classes)>>     \* a 1 x 1 convolution on the pooled map

-----------------------------------------------------------------------------
\* xception.py

Separable(i, o, k, s, p) == <<Grouped(Conv(i, i, k, s, p), i), Conv1(i, o)>>

\* Two separable convolutions and a pool beside a strided projection; the
\* width changes in the first of the two, in the exit flow in the second.
XceptionDown(x, i, m, o, s) ==
  Add(Sequential(x, Separable(i, m, 3, 1, 1) \o <<Norm(m)>>
                    \o Separable(m, o, 3, 1, 1) \o <<Norm(o), Pool(3, s, 1)>>),
      Projection(x, i, o, s))

MiddleFlowBlock(x) ==
  LET step == Separable(728, 728, 3, 1, 1) \o <<Norm(728)>>
  IN Add(x, Sequential(x, step \o step \o step))

Down(i, m, o, s) == [op |-> "XceptionDown", in |-> i, mid |-> m, out |-> o, s |-> s]

EntryFlow == <<Conv3(3, 32), Norm(32), Conv3(32, 64), Norm(64),
               Down(64, 128, 128, 2), Down(128, 256, 256, 2), Down(256, 728, 728, 1)>>

MiddleFlow == [j \in 1..8 |-> [op |-> "MiddleFlowBlock"]]

ExitFlow == <<Down(728, 728, 1024, 2)>>
            \o Separable(1024, 1536, 3, 1, 1) \o <<Norm(1536)>>
            \o Separable(1536, 2048, 3, 1, 1) \o <<Norm(2048), GlobalPool>>

Xception(classes) == EntryFlow \o MiddleFlow \o ExitFlow \o <<Linear(2048, classes)>>

-----------------------------------------------------------------------------
\* resnet8.py, the network that runs on the device.  Its three copies differ
\* in the padding p of the first convolution of a block of stride 2.

ResNetBlock(x, i, o, s, p) ==
  Add(Apply(Apply(Apply(Apply(x, Conv(i, o, 3, s, IF s = 2 THEN p ELSE 1)), Norm(o)),
                  Conv3(o, o)), Norm(o)),
      IF i = o THEN x ELSE Apply(x, Conv(i, o, 1, s, 0)))

Eight(i, o, s, p) == [op |-> "ResNetBlock", in |-> i, out |-> o, s |-> s, p |-> p]

\* Mutant: a wider last stage.
ResNet8_Wide(p) == <<Conv3(3, 16), Norm(16), Eight(16, 16, 1, p), Eight(16, 32, 2, p),
                     Eight(32, 72, 2, p), GlobalPool, Linear(72, 10)>>

ResNet8(p) == <<Conv3(3, 16), Norm(16), Eight(16, 16, 1, p), Eight(16, 32, 2, p),
                Eight(32, 64, 2, p), GlobalPool, Linear(64, 10)>>

TrainingResNet8 == ResNet8(0)
PruningResNet8 == ResNet8(0)
\* Mutant: without the padding, like the copies it was made from.
QatResNet8_Unpadded == ResNet8(0)

QatResNet8 == ResNet8(1)

-----------------------------------------------------------------------------
\* What a module of one of these networks returns for an input of shape x.
ResidualForward(x, l) ==
  CASE l.op = "BasicBlock"         -> BasicBlock(x, l.in, l.out, l.s)
    [] l.op = "Bottleneck"         -> Bottleneck(x, l.in, l.out, l.s)
    [] l.op = "PreActBasic"        -> PreActBasic(x, l.in, l.out, l.s)
    [] l.op = "PreActBottleNeck"   -> PreActBottleNeck(x, l.in, l.out, l.s)
    [] l.op = "ResNextBottleNeckC" -> ResNextBottleNeckC(x, l.in, l.out, l.s)
    [] l.op = "SEBasicBlock"       -> SeBasicBlock(x, l.in, l.out, l.s)
    [] l.op = "PlainBasicBlock"    -> PlainBasicBlock(x, l.in, l.out, l.s)
    [] l.op = "LinearBottleNeck"   -> LinearBottleNeck(x, l.in, l.out, l.s, l.t)
    [] l.op = "XceptionDown"       -> XceptionDown(x, l.in, l.mid, l.out, l.s)
    [] l.op = "MiddleFlowBlock"    -> MiddleFlowBlock(x)
    [] l.op = "ResNetBlock"        -> ResNetBlock(x, l.in, l.out, l.s, l.p)
    [] OTHER                       -> Apply(x, l)
=============================================================================

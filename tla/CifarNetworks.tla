---------------------------- MODULE CifarNetworks ----------------------------
(***************************************************************************)
(* registry.py: the networks the pruning tool can be asked for and the     *)
(* repository defines (of those for ImageNet the Vision Transformers, the  *)
(* others are the library's), on the samples of the data set they are      *)
(* asked for with.  One step is the forward method of the next module of   *)
(* the network; a module that raises ends the run with the shape Bad.      *)
(***************************************************************************)
EXTENDS ResidualNets, InceptionNets, OtherNets, TransformerNets

CONSTANTS Models,      \* the names of the networks of this instance
          WindowSize,  \* the side of Swin's windows
          MAX_CHANNEL, ACCUM_DEPTH  \* the scratch arrays of the device's kernel

VARIABLES model,       \* the name given to get_model
          sample,      \* what get_dataset answers: classes, shape and batch
          todo,        \* the modules of the network still to run
          x,           \* the shape of the activation
          prev         \* for NasNet, the activation before x

vars == <<model, sample, todo, x, prev>>

-----------------------------------------------------------------------------
\* MODEL_DICT, GRAPH_MODEL_DICT, the Vision Transformers of IMAGENET_MODEL_DICT,
\* and the three ResNet8.

Counts == [n18 |-> <<2, 2, 2, 2>>, n34 |-> <<3, 4, 6, 3>>, n50 |-> <<3, 4, 6, 3>>,
           n101 |-> <<3, 4, 23, 3>>, n152 |-> <<3, 8, 36, 3>>]

Network(name, classes, h) ==
  LET R(op, n) == ResNet(op, n, classes)
      P(op, n) == PreActResNet(op, n, classes)
      T(depth) == TinyResNet(depth, <<16, 16, 32, 64>>, classes)
      S(n) == CifarNet("SEBasicBlock", n, classes)
      B(n) == CifarNet("PlainBasicBlock", n, classes)
      V(c) == VGG(VggCfg[c], classes, h)
  IN CASE name = "resnet18"  -> R("BasicBlock", Counts.n18)
       [] name = "resnet34"  -> R("BasicBlock", Counts.n34)
       [] name = "resnet50"  -> R("Bottleneck", Counts.n50)
       [] name = "resnet101" -> R("Bottleneck", Counts.n101)
       [] name = "resnet152" -> R("Bottleneck", Counts.n152)
       [] name = "preactresnet18"  -> P("PreActBasic", Counts.n18)
       [] name = "preactresnet34"  -> P("PreActBasic", Counts.n34)
       [] name = "preactresnet50"  -> P("PreActBottleNeck", Counts.n50)
       [] name = "preactresnet101" -> P("PreActBottleNeck", Counts.n101)
       [] name = "preactresnet152" -> P("PreActBottleNeck", Counts.n152)
       [] name = "resnext50"  -> ResNext(Counts.n50, classes)
       [] name = "resnext101" -> ResNext(Counts.n101, classes)
       [] name = "resnext152" -> ResNext(<<3, 4, 36, 3>>, classes)
       [] name = "resnet20" -> T(20)
       [] name = "resnet32" -> T(32)
       [] name = "resnet44" -> T(44)
       [] name = "resnet56" -> T(56)
       [] name = "resnet110" -> T(110)
       [] name = "se_resnet20" -> S(3)
       [] name = "se_resnet32" -> S(5)
       [] name = "se_resnet56" -> S(9)
       [] name = "se_resnet110" -> S(18)
       [] name = "se_resnet164" -> S(27)
       [] name = "senet/resnet20" -> B(3)
       [] name = "senet/resnet110" -> B(18)
       [] name = "vgg11" -> V("A")
       [] name = "vgg13" -> V("B")
       [] name = "vgg16" -> V("D")
       [] name = "vgg19" -> V("E")
       [] name = "densenet121" -> DenseNet(<<6, 12, 24, 16>>, 32, classes)
       [] name = "densenet169" -> DenseNet(<<6, 12, 32, 32>>, 32, classes)
       [] name = "densenet201" -> DenseNet(<<6, 12, 48, 32>>, 32, classes)
       [] name = "densenet161" -> DenseNet(<<6, 12, 36, 24>>, 48, classes)
       [] name = "googlenet" -> GoogleNet(classes)
       [] name = "inceptionv3" -> Inception3(classes)
       [] name = "inceptionv4" -> InceptionV4(classes)
       [] name = "inception_resnet_v2" -> InceptionResNetV2(classes)
       [] name = "nasnet" -> NasNetA(4, 2, 44, 44, classes)
       [] name = "mobilenetv2" -> MobileNetV2(classes)
       [] name = "xception" -> Xception(classes)
       [] name = "vit_cifar" -> ViT(32, 4, 512, 6, 8, 512, classes)
       [] name = "swin_t" -> SwinTransformer(96, <<2, 2, 6, 2>>)
       [] name = "swin_s" -> SwinTransformer(96, <<2, 2, 18, 2>>)
       [] name = "swin_b" -> SwinTransformer(128, <<2, 2, 18, 2>>)
       [] name = "swin_l" -> SwinTransformer(192, <<2, 2, 18, 2>>)
       [] name = "pointnet" -> PointNet(classes)
       [] name = "dgcnn" -> DGCNN(classes)
       [] name \in DOMAIN VisionTransformerOf -> VisionTransformer(VisionTransformerOf[name], h, classes)
       [] name = "training/resnet8" -> TrainingResNet8
       [] name = "pruning/resnet8"  -> PruningResNet8
       [] name = "qat_convert/resnet8" -> QatResNet8

Swins == {"swin_t", "swin_s", "swin_b", "swin_l"}
Transformers == Swins \cup {"vit_cifar"} \cup DOMAIN WeightSizes
Inceptions == {"googlenet", "inceptionv3", "inceptionv4", "inception_resnet_v2"}
DenseAndOthers == {"densenet121", "densenet161", "densenet169", "densenet201",
                   "nasnet", "pointnet", "dgcnn"}
Resnet8s == {"training/resnet8", "pruning/resnet8", "qat_convert/resnet8"}

-----------------------------------------------------------------------------
\* get_dataset, as the networks are used with it: the shape of one sample, the
\* number of classes, and how many samples a batch holds (main takes 10 samples
\* as example and the batch size from the command line).

Sample(classes, shape, batch) == [classes |-> classes, shape |-> shape, batch |-> batch]

Datasets(name) ==
  CASE name \in {"pointnet", "dgcnn"} -> {Sample(40, <<3, 1024>>, b) : b \in {1, 10}}
    [] name \in DOMAIN WeightSizes    -> {Sample(1000, <<3, s, s>>, 10) : s \in WeightSizes[name]}
    [] name \in Resnet8s              -> {Sample(10, <<3, 32, 32>>, 10)}
    [] OTHER                          -> {Sample(c, <<3, 32, 32>>, 10) : c \in {10, 100}}

-----------------------------------------------------------------------------
Init == /\ model \in Models
        /\ sample \in Datasets(model)
        /\ todo = Network(model, sample.classes, sample.shape[2])
        /\ x = sample.shape
        /\ prev = Bad

\* model(x): the forward method of the next module.
Forward ==
  LET l == Head(todo)
      y == CASE model \in Transformers    -> TransformerForward(x, WindowSize, l)
             [] model \in Inceptions      -> InceptionForward(x, l)
             [] model \in DenseAndOthers  -> OtherForward(x, prev, sample.batch, l)
             [] OTHER                     -> ResidualForward(x, l)
  IN /\ todo # <<>> /\ x # Bad
     /\ x' = y
     /\ todo' = Tail(todo)
     /\ prev' = IF l.op \in {"NormalCell", "ReductionCell"} THEN x ELSE prev
     /\ UNCHANGED <<model, sample>>

Next == Forward

Spec == Init /\ [][Next]_vars

-----------------------------------------------------------------------------
\* The networks that cannot run on the samples they are registered for: Swin's
\* windows of 7 do not divide its 8 x 8 map, the two copies of ResNet8 without
\* padding add a 15 x 15 map to a 16 x 16 one, and PointNet squeezes away a
\* batch of one.
Misfits == {"swin_t", "swin_s", "swin_b", "swin_l", "training/resnet8", "pruning/resnet8"}
Misfit == model \in Misfits \/ (model = "pointnet" /\ sample.batch = 1)

\* No other of these networks ever meets a map of the wrong width or
\* size: the branches of every residual sum and of every concatenation agree,
\* each layer gets the channels it was built for, and no map shrinks below a
\* window (the constructors and forward methods of models/cifar, graph and
\* imagenet).
\* A network that runs to its end is no misfit and answers with one number for
\* every class of its data set (the heads of all constructors, get_dataset).
NoShapeError == IF x = Bad THEN Misfit
                ELSE todo = <<>> => x = <<sample.classes>> /\ ~Misfit

\* Where a layer finds its input: the scratch arrays of fully_connected.h hold
\* MAX_CHANNEL rows of ACCUM_DEPTH weights and are indexed without a check, and
\* the copy of a row moves four bytes at a time.
FitsScratch(l) == /\ l.out <= MAX_CHANNEL
                  /\ l.in <= ACCUM_DEPTH
                  /\ l.in % 4 = 0

\* The network that quantisation exports for the device meets, in every fully
\* connected layer it reaches, what the kernel on the device takes for granted
\* about the layer's size, and reaches that layer with one row of features.
FitsAccelerator ==
  model = "qat_convert/resnet8" /\ todo # <<>> /\ Head(todo).op = "linear" =>
    FitsScratch(Head(todo)) /\ x = <<Head(todo).in>>

\* The masks of Swin's shifted windows (create_mask and their use in
\* WindowAttention.forward): two places of one window attend to each other
\* exactly when they are as far apart in the map as in the window, that is,
\* when the cyclic shift did not wrap between them.
ShiftedWindowsAreLocal ==
  model \in Swins =>
    \A w \in 2..WindowSize, n \in 1..3 :
      \A k \in 0..(n - 1), a \in 0..(w - 1), b \in 0..(w - 1) :
        LET cell(i) == CyclicShift(k * w + i, w \div 2, n * w)
        IN Masked(a, b, k, n, w) <=> cell(a) - cell(b) # a - b
=============================================================================

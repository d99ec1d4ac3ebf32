---------------------------- MODULE InceptionNets ----------------------------
(***************************************************************************)
(* The networks whose blocks concatenate branches of the same input:       *)
(* googlenet.py, inceptionv3.py and inceptionv4.py, which also holds       *)
(* Inception-ResNet-v2.  Every convolution of these files is followed by a *)
(* normalisation of its own width (BasicConv2d), which is left out.        *)
(***************************************************************************)
EXTENDS Layers

\* torch.cat([branch(x) for branch in branches], 1)
Branches(x, branches) == Cat([b \in DOMAIN branches |-> Sequential(x, branches[b])])

Strided3(i, o) == Conv(i, o, 3, 2, 0)
Near == Pool(3, 1, 1)

Module(op, i) == [op |-> op, in |-> i]

-----------------------------------------------------------------------------
\* googlenet.py

Inception(x, i, n1x1, n3x3_reduce, n3x3, n5x5_reduce, n5x5, pool_proj) ==
  Branches(x, <<
    <<Conv1(i, n1x1)>>,
    <<Conv1(i, n3x3_reduce), Conv3(n3x3_reduce, n3x3)>>,
    <<Conv1(i, n5x5_reduce), Conv3(n5x5_reduce, n5x5), Conv3(n5x5, n5x5)>>,
    <<Near, Conv1(i, pool_proj)>> >>)

Inc(n) == [op |-> "Inception", n |-> n]

GoogleNet(classes) ==
  LET maxpool == Pool(3, 2, 1)
  IN <<Conv3(3, 64), Conv3(64, 64), Conv3(64, 192), maxpool,
       Inc(<<192, 64, 96, 128, 16, 32, 32>>),     Inc(<<256, 128, 128, 192, 32, 96, 64>>),
       maxpool,
       Inc(<<480, 192, 96, 208, 16, 48, 64>>),    Inc(<<512, 160, 112, 224, 24, 64, 64>>),
       Inc(<<512, 128, 128, 256, 24, 64, 64>>),   Inc(<<512, 112, 144, 288, 32, 64, 64>>),
       Inc(<<528, 256, 160, 320, 32, 128, 128>>),
       maxpool,
       Inc(<<832, 256, 160, 320, 32, 128, 128>>), Inc(<<832, 384, 192, 384, 48, 128, 128>>),
       GlobalPool, Linear(1024, classes)>>

-----------------------------------------------------------------------------
\* inceptionv3.py

V3A(x, i, pool_features) ==
  Branches(x, <<
    <<Conv1(i, 64)>>,
    <<Conv1(i, 48), Conv(48, 64, 5, 1, 2)>>,
    <<Conv1(i, 64), Conv3(64, 96), Conv3(96, 96)>>,
    <<Near, Conv1(i, pool_features)>> >>)

V3B(x, i) ==
  Branches(x, <<
    <<Strided3(i, 384)>>,
    <<Conv1(i, 64), Conv3(64, 96), Strided3(96, 96)>>,
    <<Pool(3, 2, 0)>> >>)

V3C(x, i, c7) ==
  Branches(x, <<
    <<Conv1(i, 192)>>,
    <<Conv1(i, c7), ConvRect(c7, c7, 1, 7), ConvRect(c7, 192, 7, 1)>>,
    <<Conv1(i, c7), ConvRect(c7, c7, 7, 1), ConvRect(c7, c7, 1, 7),
      ConvRect(c7, c7, 7, 1), ConvRect(c7, 192, 1, 7)>>,
    <<Near, Conv1(i, 192)>> >>)

V3D(x, i) ==
  Branches(x, <<
    <<Conv1(i, 192), Strided3(192, 320)>>,
    <<Conv1(i, 192), ConvRect(192, 192, 1, 7), ConvRect(192, 192, 7, 1), Strided3(192, 192)>>,
    <<Pool(3, 2, 0)>> >>)

\* Two of the branches fork again.
Fork(x, i, o) == Branches(x, << <<ConvRect(i, o, 1, 3)>>, <<ConvRect(i, o, 3, 1)>> >>)

V3E(x, i) ==
  Cat(<<Apply(x, Conv1(i, 320)),
        Fork(Apply(x, Conv1(i, 384)), 384, 384),
        Fork(Sequential(x, <<Conv1(i, 448), Conv3(448, 384)>>), 384, 384),
        Sequential(x, <<Near, Conv1(i, 192)>>)>>)

\* aux_logits is False: the auxiliary classifier is never built.
Inception3(classes) ==
  LET A(i, f) == [op |-> "V3A", in |-> i, n |-> f]
      C(c7) == [op |-> "V3C", in |-> 768, n |-> c7]
  IN <<Conv3(3, 192), A(192, 32), A(256, 64), A(288, 64), Module("V3B", 288),
       C(128), C(160), C(160), C(192), Module("V3D", 768),
       Module("V3E", 1280), Module("V3E", 2048), GlobalPool, Linear(2048, classes)>>

-----------------------------------------------------------------------------
\* inceptionv4.py

Inception_Stem(x, i) ==
  LET a == Sequential(x, <<Conv(i, 32, 3, 1, 0), Conv3(32, 32), Conv3(32, 64)>>)
      b == Branches(a, << <<Conv3(64, 96)>>, <<Near>> >>)
      c == Branches(b, <<
             <<Conv1(160, 64), ConvRect(64, 64, 7, 1), ConvRect(64, 64, 1, 7), Conv3(64, 96)>>,
             <<Conv1(160, 64), Conv3(64, 96)>> >>)
  IN Branches(c, << <<Near>>, <<Conv3(192, 192)>> >>)

V4A(x, i) ==
  Branches(x, <<
    <<Conv1(i, 64), Conv3(64, 96), Conv3(96, 96)>>,
    <<Conv1(i, 64), Conv3(64, 96)>>,
    <<Conv1(i, 96)>>,
    <<Near, Conv1(i, 96)>> >>)

\* The reduction of both networks; it widens to i + n + m channels.
ReductionA(x, i, k, l, m, n) ==
  Branches(x, << <<Conv1(i, k), Conv3(k, l), Strided3(l, m)>>,
                 <<Strided3(i, n)>>, <<Pool(3, 2, 0)>> >>)

V4B(x, i) ==
  Branches(x, <<
    <<Conv1(i, 384)>>,
    <<Conv1(i, 192), ConvRect(192, 224, 1, 7), ConvRect(224, 256, 7, 1)>>,
    <<Conv1(i, 192), ConvRect(192, 192, 1, 7), ConvRect(192, 224, 7, 1),
      ConvRect(224, 224, 1, 7), ConvRect(224, 256, 7, 1)>>,
    <<Near, Conv1(i, 128)>> >>)

V4ReductionB(x, i) ==
  Branches(x, <<
    <<Conv1(i, 192), Conv(192, 192, 3, 2, 1)>>,
    <<Conv1(i, 256), ConvRect(256, 256, 1, 7), ConvRect(256, 320, 7, 1), Conv(320, 320, 3, 2, 1)>>,
    <<Pool(3, 2, 1)>> >>)

V4C(x, i) ==
  Cat(<<Apply(x, Conv1(i, 256)),
        Fork(Apply(x, Conv1(i, 384)), 384, 256),
        Fork(Sequential(x, <<Conv1(i, 384), ConvRect(384, 448, 1, 3), ConvRect(448, 512, 3, 1)>>),
             512, 256),
        Sequential(x, <<Near, Conv1(i, 256)>>)>>)

\* _generate_inception_module: n blocks, the later ones with o channels.
Generate(op, i, o, n) == [j \in 1..n |-> Module(op, IF j = 1 THEN i ELSE o)]

Reduce(i, k, l, m, n) == [op |-> "ReductionA", in |-> i, n |-> <<k, l, m, n>>]

InceptionV4(classes) ==
  <<Module("Inception_Stem", 3)>> \o Generate("V4A", 384, 384, 4)
  \o <<Reduce(384, 192, 224, 256, 384)>> \o Generate("V4B", 384 + 384 + 256, 1024, 7)
  \o <<Module("V4ReductionB", 1024)>> \o Generate("V4C", 1536, 1536, 3)
  \o <<Pool(7, 7, 0), Flatten, Linear(1536, classes)>>

\* The residual of three blocks: branches, brought back to width o and added
\* to a projection of the input.
ResidualOf(x, i, inner, o, branches) ==
  Add(Apply(Branches(x, branches), Conv1(inner, o)), Apply(x, Conv1(i, o)))

InceptionResNetA(x, i) ==
  ResidualOf(x, i, 128, 384, << <<Conv1(i, 32)>>, <<Conv1(i, 32), Conv3(32, 32)>>,
                                <<Conv1(i, 32), Conv3(32, 48), Conv3(48, 64)>> >>)

InceptionResNetB(x, i) ==
  ResidualOf(x, i, 384, 1154, <<
    <<Conv1(i, 192)>>,
    <<Conv1(i, 128), ConvRect(128, 160, 1, 7), ConvRect(160, 192, 7, 1)>> >>)

InceptionResNetC(x, i) ==
  ResidualOf(x, i, 448, 2048, <<
    <<Conv1(i, 192)>>,
    <<Conv1(i, 192), ConvRect(192, 224, 1, 3), ConvRect(224, 256, 3, 1)>> >>)

InceptionResNetReductionB(x, i) ==
  Branches(x, << <<Conv1(i, 256), Strided3(256, 384)>>, <<Conv1(i, 256), Strided3(256, 288)>>,
                 <<Conv1(i, 256), Conv3(256, 288), Strided3(288, 320)>>, <<Pool(3, 2, 0)>> >>)

InceptionResNetV2(classes) ==
  <<Module("Inception_Stem", 3)>> \o Generate("InceptionResNetA", 384, 384, 5)
  \o <<Reduce(384, 256, 256, 384, 384)>> \o Generate("InceptionResNetB", 384 + 384 + 384, 1154, 10)
  \o <<Module("InceptionResNetReductionB", 1154)>> \o Generate("InceptionResNetC", 2146, 2048, 5)
  \o <<GlobalPool, Linear(2048, classes)>>

-----------------------------------------------------------------------------
\* What a module of one of these networks returns for an input of shape x.
InceptionForward(x, l) ==
  CASE l.op = "Inception" -> Inception(x, l.n[1], l.n[2], l.n[3], l.n[4], l.n[5], l.n[6], l.n[7])
    [] l.op = "V3A" -> V3A(x, l.in, l.n)
    [] l.op = "V3B" -> V3B(x, l.in)
    [] l.op = "V3C" -> V3C(x, l.in, l.n)
    [] l.op = "V3D" -> V3D(x, l.in)
    [] l.op = "V3E" -> V3E(x, l.in)
    [] l.op = "Inception_Stem" -> Inception_Stem(x, l.in)
    [] l.op = "V4A" -> V4A(x, l.in)
    [] l.op = "V4B" -> V4B(x, l.in)
    [] l.op = "V4C" -> V4C(x, l.in)
    [] l.op = "ReductionA" -> ReductionA(x, l.in, l.n[1], l.n[2], l.n[3], l.n[4])
    [] l.op = "V4ReductionB" -> V4ReductionB(x, l.in)
    [] l.op = "InceptionResNetA" -> InceptionResNetA(x, l.in)
    [] l.op = "InceptionResNetB" -> InceptionResNetB(x, l.in)
    [] l.op = "InceptionResNetC" -> InceptionResNetC(x, l.in)
    [] l.op = "InceptionResNetReductionB" -> InceptionResNetReductionB(x, l.in)
    [] OTHER -> Apply(x, l)
=============================================================================

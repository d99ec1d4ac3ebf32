--------------------------- MODULE TransformerNets ---------------------------
(***************************************************************************)
(* vit.py, swin.py and vision_transformer.py: tokens of a width, attention *)
(* in heads, and for Swin the windows in which tokens attend to each other *)
(* and the masks of the shifted windows.                                   *)
(***************************************************************************)
EXTENDS Layers

Token(n, d) == <<n, d>>

\* Residual and PreNorm around a linear map there and one back.
FeedForward(x, dim, hidden) == Add(Sequential(x, <<Linear(dim, hidden), Linear(hidden, dim)>>), x)

\* to_qkv, three chunks split into heads, and to_out.
Attention(x, dim, heads, dim_head) ==
  LET qkv == Apply(x, Linear(dim, 3 * heads * dim_head))
      out == IF qkv = Bad \/ (Last(qkv) \div 3) % heads # 0 THEN Bad
             ELSE [qkv EXCEPT ![Len(qkv)] = Last(qkv) \div 3]
  IN Add(Apply(out, Linear(heads * dim_head, dim)), x)

TransformerBlock(x, dim, heads, dim_head, mlp) ==
  FeedForward(Attention(x, dim, heads, dim_head), dim, mlp)

\* Patches of side p, embedded in dim, behind a class token; the position
\* embedding has one row for every patch of an image of the declared size.
PatchEmbedding(x, size, p, dim) ==
  IF size % p # 0 \/ ~IsImage(x) THEN Bad
  ELSE IF x[1] # 3 \/ x[2] % p # 0 \/ x[3] % p # 0 THEN Bad
  ELSE LET n == (x[2] \div p) * (x[3] \div p)
       IN IF n + 1 <= (size \div p) * (size \div p) + 1 THEN Token(n + 1, dim) ELSE Bad

\* Classification reads the first token.
ClassToken(x) == IF Len(x) = 2 THEN <<x[2]>> ELSE Bad

EncoderLayer(dim, heads, dim_head, mlp) ==
  [op |-> "TransformerBlock", in |-> dim, heads |-> heads, head |-> dim_head, mlp |-> mlp]

Embed(size, p, dim) == [op |-> "PatchEmbedding", size |-> size, p |-> p, dim |-> dim]

ViT(size, p, dim, depth, heads, mlp, classes) ==
  <<Embed(size, p, dim)>> \o [j \in 1..depth |-> EncoderLayer(dim, heads, 64, mlp)]
  \o <<[op |-> "ClassToken"], Linear(dim, classes)>>

-----------------------------------------------------------------------------
\* vision_transformer.py: heads must divide the width, and the image must
\* have exactly the size the model was built for.

\* The sides of the images of the published weights.
WeightSizes == [vit_b_16 |-> {224, 384}, vit_b_32 |-> {224}, vit_l_16 |-> {224, 512},
                vit_l_32 |-> {224}, vit_h_14 |-> {224, 518}]

VisionTransformerOf ==
  LET V(p, n, heads, dim, mlp) == [p |-> p, layers |-> n, heads |-> heads, dim |-> dim, mlp |-> mlp]
  IN [vit_b_16 |-> V(16, 12, 12, 768, 3072), vit_b_32 |-> V(32, 12, 12, 768, 3072),
      vit_l_16 |-> V(16, 24, 16, 1024, 4096), vit_l_32 |-> V(32, 24, 16, 1024, 4096),
      vit_h_14 |-> V(14, 32, 16, 1280, 5120)]

VisionTransformer(v, size, classes) ==
  IF size % v.p # 0 \/ v.dim % v.heads # 0 THEN <<[op |-> "raise"]>>
  ELSE <<[op |-> "exact", size |-> size], Embed(size, v.p, v.dim)>>
       \o [j \in 1..v.layers |-> EncoderLayer(v.dim, v.heads, v.dim \div v.heads, v.mlp)]
       \o <<[op |-> "ClassToken"], Linear(v.dim, classes)>>

-----------------------------------------------------------------------------
\* swin.py: an image stays <<channels, h, w>> between its blocks.

PatchMerging(x, i, o, factor) ==
  IF IsImage(x) /\ x[1] = i /\ x[2] >= factor /\ x[3] >= factor
  THEN <<o, x[2] \div factor, x[3] \div factor>> ELSE Bad

\* The map must split into whole windows.
WindowAttention(x, dim, w) ==
  IF IsImage(x) /\ x[1] = dim /\ x[2] % w = 0 /\ x[3] % w = 0 THEN x ELSE Bad

\* Residual attention and MLP; the shifted and the plain block differ only in
\* which tokens share a window.
SwinBlock(x, dim, w) == WindowAttention(x, dim, w)

SwinStage(i, o, layers, factor) ==
  <<[op |-> "PatchMerging", in |-> i, out |-> o, factor |-> factor]>>
  \o [j \in 1..(2 * (layers \div 2)) |-> [op |-> "SwinBlock", in |-> o]]

\* num_classes of the constructors is not passed on: the head has 1000 outputs.
SwinTransformer(hidden, layers) ==
  SwinStage(3, hidden, layers[1], 4)
  \o SwinStage(hidden, 2 * hidden, layers[2], 2)
  \o SwinStage(2 * hidden, 4 * hidden, layers[3], 2)
  \o SwinStage(4 * hidden, 8 * hidden, layers[4], 2)
  \o <<GlobalPool, Linear(8 * hidden, 1000)>>

\* CyclicShift: the cell of the original map that the shift by -d moves to i.
CyclicShift(i, d, n) == (i + d) % n

\* Mutant: the mask begins one row late.
MaskApart_Late(a, b, w, d) == (a <= w - d) # (b <= w - d)

\* create_mask: whether one side of the mask separates places a and b of a
\* window of side w, d from the end.
MaskApart(a, b, w, d) == (a < w - d) # (b < w - d)

\* forward: which pairs of places in window number k of n are masked; the mask
\* of a side is added in the last window of that side only.
Masked(a, b, k, n, w) == k = n - 1 /\ MaskApart(a, b, w, w \div 2)

-----------------------------------------------------------------------------
\* What a module of one of these networks returns for an input of shape x.
TransformerForward(x, window_size, l) ==
  CASE l.op = "PatchEmbedding"   -> PatchEmbedding(x, l.size, l.p, l.dim)
    [] l.op = "exact"            -> IF IsImage(x) /\ x[2] = l.size /\ x[3] = l.size THEN x ELSE Bad
    [] l.op = "TransformerBlock" -> TransformerBlock(x, l.in, l.heads, l.head, l.mlp)
    [] l.op = "ClassToken"       -> ClassToken(x)
    [] l.op = "PatchMerging"     -> PatchMerging(x, l.in, l.out, l.factor)
    [] l.op = "SwinBlock"        -> SwinBlock(x, l.in, window_size)
    [] OTHER                     -> Apply(x, l)
=============================================================================

---------------------------- MODULE TensorStore ----------------------------
(***************************************************************************)
(* How one quantised weight tensor of the MoE engine (MoeAFTensor) is      *)
(* written by the registrar that packs it and how moe_decode_af reads it   *)
(* back.  The bytes are abstracted to the name of their layout: a reader   *)
(* that takes a layout for another one returns garbage without any error.  *)
(*                                                                         *)
(*   affine   4-bit codes with a scale and a bias per 64 columns           *)
(*   nibbles  4-bit codes around 8 with a scale per 64 columns             *)
(*   int8     one signed byte per column with a scale per 64 columns       *)
(*   planes   bit planes, n * 8 bytes per 64 columns with a scale          *)
(*   f16, f32, mxfp4   the value itself, or the block of 32 of MXFP4       *)
(***************************************************************************)
EXTENDS Naturals, Sequences

CONSTANT Experts    \* the routed experts of a layer, 1..Experts

ASSUME ExpertsAssumption == Experts \in Nat \ {0}

Layouts == {"affine", "nibbles", "int8", "planes", "f16", "f32", "mxfp4"}

MxFp4Bits == 40     \* MOE_BITS_GGUF_MXFP4, a tag and not a width

\* The widths the bit-plane decoder reads; 4 has a format of its own.
QNg64Supported(n) == n \in {2, 3} \cup 5 .. 15

RoleWidths == {2, 3, 4, 5, 6, 7, 8, 16, 32}

(***************************************************************************)
(* A tensor: its declared width, the widths of its experts when they       *)
(* differ (<<>> otherwise), the layout its registrar wrote for each        *)
(* expert, whether codes are symmetric and whether it is a qNg64 tensor.   *)
(***************************************************************************)
Tensor(bits, ebits, packs, sym, qng) ==
  [bits |-> bits, ebits |-> ebits, packs |-> packs, sym |-> sym, qng |-> qng]

Uniform(layout) == [e \in 1 .. Experts |-> layout]

AffineTensor     == Tensor(4, <<>>, Uniform("affine"), FALSE, FALSE)
Q4Tensor         == Tensor(4, <<>>, Uniform("nibbles"), TRUE, FALSE)
Q8Tensor         == Tensor(8, <<>>, Uniform("int8"), TRUE, FALSE)
QNg64Tensor(n)   == Tensor(n, <<>>, Uniform("planes"), TRUE, TRUE)
F16Tensor        == Tensor(16, <<>>, Uniform("f16"), FALSE, FALSE)
F32Tensor        == Tensor(32, <<>>, Uniform("f32"), FALSE, FALSE)
MxFp4Tensor      == Tensor(MxFp4Bits, <<>>, Uniform("mxfp4"), FALSE, FALSE)

\* Variant: the packer of mixed experts before it learned the plane format.
MixedLayoutWithoutPlanes(b) ==
  CASE b = 32 -> "f32"
    [] b = 16 -> "f16"
    [] b = 8  -> "int8"
    [] OTHER  -> "nibbles"

\* What the mixed-width packer writes for an expert of b bits.
MixedLayout(b) ==
  CASE b = 32 -> "f32"
    [] b = 16 -> "f16"
    [] b = 8  -> "int8"
    [] b = 4  -> "nibbles"
    [] OTHER  -> "planes"

MixedTensor(ebits) ==
  Tensor(4, ebits, [e \in 1 .. Experts |-> MixedLayout(ebits[e])], TRUE, FALSE)

\* A width of the role table for a tensor that is not stacked by expert.
DenseTensor(b) ==
  CASE b = 32 -> F32Tensor
    [] b = 16 -> F16Tensor
    [] b = 8  -> Q8Tensor
    [] b = 4  -> Q4Tensor
    [] OTHER  -> QNg64Tensor(b)

(***************************************************************************)
(* moe_decode_af: the layout the reader assumes for expert e of t.         *)
(***************************************************************************)
Width(t, e) == IF t.ebits = <<>> THEN t.bits ELSE t.ebits[e]

\* Variant: the int8 branch taken for every 8-bit tensor.
DecodedAsAlwaysInt8(t, e) ==
  LET b == Width(t, e) IN
  CASE b = 32        -> "f32"
    [] b = 16        -> "f16"
    [] b = MxFp4Bits -> "mxfp4"
    [] b = 8         -> "int8"
    [] OTHER         -> IF t.sym /\ QNg64Supported(b) THEN "planes"
                        ELSE IF t.sym THEN "nibbles" ELSE "affine"

DecodedAs(t, e) ==
  LET b == Width(t, e) IN
  CASE b = 32             -> "f32"
    [] b = 16             -> "f16"
    [] b = MxFp4Bits      -> "mxfp4"
    [] b = 8 /\ ~ t.qng   -> "int8"
    [] OTHER              -> IF t.sym /\ QNg64Supported(b) THEN "planes"
                             ELSE IF t.sym THEN "nibbles" ELSE "affine"

\* Every expert of t is read in the layout it was written in.
ReadAsWritten(t) == \A e \in 1 .. Experts : DecodedAs(t, e) = t.packs[e]

\* The vDSP row kernel knows the two 4-bit layouts and stops the program on
\* every other it recognises; it has no test for MXFP4.
VdspRefuses(t) ==
  \/ t.bits \in {16, 32}
  \/ t.bits = 8 /\ ~ t.qng
  \/ t.sym /\ QNg64Supported(t.bits)
  \/ t.ebits # <<>>
=============================================================================

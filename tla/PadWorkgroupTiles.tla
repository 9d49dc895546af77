------------------------- MODULE PadWorkgroupTiles -------------------------
(***************************************************************************)
(* MatmulWorkgroupTilesPadding of src/iree/compiler/Conversion/           *)
(* LinalgToLLVM/PadLinalgWorkgroupTiles.cpp under the greedy rewrite      *)
(* driver.  The function holds the linalg.matmul of one workgroup: its    *)
(* operands are flow.dispatch.tensor.loads of a tile of the full lhs      *)
(* (M x K) and rhs (K x N), and it accumulates into a linalg.fill of zero *)
(* or a loaded tile of the output.  The pattern pads M and N up to the    *)
(* workgroup or vector tile size and K up to the vector size with         *)
(* linalg.pad_tensor, and cuts the padded product back with a subtensor.  *)
(*                                                                         *)
(* An IR value is a record: a load, a pad, a fill, a matmul or a          *)
(* subtensor.  What it computes (Val) is symbolic: an element is the set  *)
(* of products that are summed into it, so padding with zeros is exactly  *)
(* adding no terms.                                                        *)
(***************************************************************************)
EXTENDS Integers, Sequences, FiniteSets

CONSTANTS
    Problems,   \* the full sizes <<M, N, K>> of the matmul
    Configs,    \* [wg |-> <<M, N>> workgroup tiles, vec |-> <<M, N, K>> vector tiles]
    OutKinds,   \* what the matmul accumulates into: "fill" (zero) or "load"
    LoadKinds   \* "tile": loads carry sizes; "whole": a load without sizes

VARIABLES
    op,     \* the value that replaces the matmul's result
    input   \* the matmul as the function started

vars == <<op, input>>

Load(src, full, off, sizes) ==
    [k |-> "load", src |-> src, full |-> full, off |-> off, sizes |-> sizes]
Fill(shape) == [k |-> "fill", shape |-> shape]
Matmul(l, r, o, type, cfg) ==
    [k |-> "matmul", lhs |-> l, rhs |-> r, out |-> o, type |-> type, cfg |-> cfg]
SubTensor(x, sizes) == [k |-> "subtensor", src |-> x, sizes |-> sizes]

\* createPadTensorOpWithStaticPadding: zero low padding, the given high
\* padding, the given static result type.
PadTensor(x, shape, high) == [k |-> "pad", src |-> x, shape |-> shape, high |-> high]

-----------------------------------------------------------------------------
(* The float arithmetic of ceil((float)dim / (float)size) * size.         *)

Log2Floor(n) == CHOOSE e \in 0..29 : 2^e <= n /\ n < 2^(e + 1)

\* num / den rounded to the nearest integer, ties to even.
RoundNearestEven(num, den) ==
    LET q == num \div den
        r == num % den
    IN  IF 2 * r > den \/ (2 * r = den /\ q % 2 = 1) THEN q + 1 ELSE q

\* A non-negative int converted to float: 24 significant bits.
ToFloat(n) ==
    IF n < 2^24 THEN n
    ELSE LET u == 2^(Log2Floor(n) - 23) IN RoundNearestEven(n, u) * u

\* ceil of the float quotient of a >= b >= 1, times b, rounded to float.
CeilDivFloatTimes(a, b) ==
    LET fa == ToFloat(a)
        fb == ToFloat(b)
        e == Log2Floor(fa \div fb)
        s == 2^(23 - e)
        c == IF e >= 23 THEN RoundNearestEven(fa, fb * 2^(e - 23)) * 2^(e - 23)
             ELSE (RoundNearestEven(fa * s, fb) + s - 1) \div s
    IN  ToFloat(c * fb)

\* Mutant: the quotient is rounded down instead of up.
GetVectorPaddingSizeFloor(dim, vecSize) ==
    LET size == IF dim < vecSize THEN vecSize ELSE (dim \div vecSize) * vecSize
    IN  [size |-> size, pad |-> size - dim]

\* Mutant: the small case returns the dim as the padded size.
GetVectorPaddingSizeKeepSmall(dim, vecSize) ==
    IF dim < vecSize THEN [size |-> dim, pad |-> vecSize - dim]
    ELSE LET size == CeilDivFloatTimes(dim, vecSize) IN [size |-> size, pad |-> size - dim]

\* getVectorPaddingSize: <<padded size, high padding>> of a dim.
GetVectorPaddingSize(dim, vecSize) ==
    IF dim < vecSize THEN [size |-> vecSize, pad |-> vecSize - dim]
    ELSE LET size == CeilDivFloatTimes(dim, vecSize) IN [size |-> size, pad |-> size - dim]

\* getWorkgroupPaddedTileSize: a dim over the workgroup tile is padded to a
\* multiple of it and tiled at the workgroup size; a smaller one is padded
\* to the vector size.
GetWorkgroupPaddedTileSize(dim, workgroupSize, vecSize) ==
    IF dim > workgroupSize
    THEN [size |-> workgroupSize,
          pad |-> CeilDivFloatTimes(dim, workgroupSize) - dim]
    ELSE GetVectorPaddingSize(dim, vecSize)

-----------------------------------------------------------------------------
\* getFullSize: the static full shape of a dispatch.tensor.load's source,
\* or none for any other defining op.
GetFullSize(x) == IF x.k = "load" THEN x.full ELSE <<>>

\* getPaddedOperand: the operand itself when no dim is padded.
PaddedOperand(x, shape, high) ==
    IF high = <<0, 0>> THEN x ELSE PadTensor(x, shape, high)

\* Mutant: the N size of the result is taken from the back of the lhs
\* sizes (K) instead of the rhs sizes.
ResultSizesSwapped(lhs, rhs, pm, pn) ==
    <<IF lhs.sizes = <<>> THEN pm.size ELSE lhs.sizes[1],
      IF lhs.sizes = <<>> THEN pn.size ELSE lhs.sizes[2]>>

\* The sizes of the subtensor: the loads' actual tile sizes, or the padded
\* sizes for a load without sizes.
ResultSizes(lhs, rhs, pm, pn) ==
    <<IF lhs.sizes = <<>> THEN pm.size ELSE lhs.sizes[1],
      IF rhs.sizes = <<>> THEN pn.size ELSE rhs.sizes[2]>>

\* Mutant: the init_tensor takes the padded M size for both dims.
PaddedResultSquare(pm, pn) == Fill(<<pm.size, pm.size>>)

\* init_tensor of the padded result type filled with zero.
PaddedResult(pm, pn) == Fill(<<pm.size, pn.size>>)

\* MatmulWorkgroupTilesPadding.  A matmul whose lhs or rhs is a pad, or
\* not a load, does not match; after a rewrite one operand is a pad, so the
\* driver stops.
MatmulWorkgroupTilesPadding ==
    /\ op.k = "matmul"
    /\ op.lhs.k # "pad" /\ op.rhs.k # "pad"
    /\ GetFullSize(op.lhs) # <<>> /\ GetFullSize(op.rhs) # <<>>
    /\ LET M == GetFullSize(op.lhs)[1]
           N == GetFullSize(op.rhs)[2]
           K == GetFullSize(op.lhs)[2]
           pm == GetWorkgroupPaddedTileSize(M, op.cfg.wg[1], op.cfg.vec[1])
           pn == GetWorkgroupPaddedTileSize(N, op.cfg.wg[2], op.cfg.vec[2])
           pk == GetVectorPaddingSize(K, op.cfg.vec[3])
           lhs == PaddedOperand(op.lhs, <<pm.size, pk.size>>, <<pm.pad, pk.pad>>)
           rhs == PaddedOperand(op.rhs, <<pk.size, pn.size>>, <<pk.pad, pn.pad>>)
           type == <<pm.size, pn.size>>
       IN  /\ ~(pm.pad = 0 /\ pn.pad = 0 /\ pk.pad = 0)
           /\ op' = IF pm.pad = 0 /\ pn.pad = 0
                    THEN Matmul(lhs, rhs, op.out, type, op.cfg)
                    ELSE SubTensor(Matmul(lhs, rhs, PaddedResult(pm, pn), type, op.cfg),
                                   ResultSizes(op.lhs, op.rhs, pm, pn))
    /\ UNCHANGED input

\* The tile of a dim of size n at tile index t, for a tile size w.
TileSize(n, w, t) == IF n - t * w < w THEN n - t * w ELSE w
\* The first and the last tile of a dim: the interior ones are like the first.
TileIndices(n, w) == {0, (n + w - 1) \div w - 1}

Init ==
    /\ \E p \in Problems, c \in Configs, o \in OutKinds, lk \in LoadKinds :
         \E ti \in TileIndices(p[1], c.wg[1]), tj \in TileIndices(p[2], c.wg[2]) :
           LET tm == TileSize(p[1], c.wg[1], ti)
               tn == TileSize(p[2], c.wg[2], tj)
               whole == lk = "whole" /\ tm = p[1] /\ tn = p[2]
               lhs == Load("A", <<p[1], p[3]>>, <<ti * c.wg[1], 0>>,
                           IF whole THEN <<>> ELSE <<tm, p[3]>>)
               rhs == Load("B", <<p[3], p[2]>>, <<0, tj * c.wg[2]>>,
                           IF whole THEN <<>> ELSE <<p[3], tn>>)
               out == IF o = "fill" THEN Fill(<<tm, tn>>)
                      ELSE Load("C", <<p[1], p[2]>>, <<ti * c.wg[1], tj * c.wg[2]>>, <<tm, tn>>)
           IN  op = Matmul(lhs, rhs, out, <<tm, tn>>, c)
    /\ input = op

Next == MatmulWorkgroupTilesPadding

\* applyPatternsAndFoldGreedily: the pattern is applied while it matches.
Spec == Init /\ [][Next]_vars /\ WF_vars(Next)

-----------------------------------------------------------------------------
(* What the IR computes.                                                   *)

Shape(x) ==
    CASE x.k = "load" -> IF x.sizes = <<>> THEN x.full ELSE x.sizes
      [] x.k = "subtensor" -> x.sizes
      [] x.k \in {"pad", "fill"} -> x.shape
      [] OTHER -> x.type

Cells(s) == (1..s[1]) \X (1..s[2])

\* The terms summed into each element; out of the value's shape, nothing.
RECURSIVE Val(_)
Val(x) ==
    LET at(v, c) == IF c \in DOMAIN v THEN v[c] ELSE {}
    IN
    CASE x.k = "load" ->
            [c \in Cells(Shape(x)) |-> {<<x.src, x.off[1] + c[1], x.off[2] + c[2]>>}]
      [] x.k = "fill" -> [c \in Cells(Shape(x)) |-> {}]
      [] x.k \in {"pad", "subtensor"} ->
            LET v == Val(x.src) IN [c \in Cells(Shape(x)) |-> at(v, c)]
      [] OTHER ->
            LET l == Val(x.lhs)
                r == Val(x.rhs)
                o == Val(x.out)
            IN  [c \in Cells(x.type) |->
                   at(o, c) \cup UNION {{<<a, b>> : a \in at(l, <<c[1], k>>),
                                                    b \in at(r, <<k, c[2]>>)} :
                                        k \in 1..Shape(x.lhs)[2]}]

Matmuls(x) ==
    CASE x.k = "matmul" -> {x}
      [] x.k = "subtensor" -> {x.src}
      [] OTHER -> {}

Pads(x) == {y \in {x.lhs, x.rhs} : y.k = "pad"}

-----------------------------------------------------------------------------
TypeOK ==
    /\ op.k \in {"matmul", "subtensor"}
    /\ \A m \in Matmuls(op) : \A p \in Pads(m) :
         /\ p.high \in Nat \X Nat
         /\ p.shape \in (Nat \ {0}) \X (Nat \ {0})

(* The rewrite keeps what the matmul's result holds: the same shape and   *)
(* in every element the same products.  The zeros the pad_tensors add in  *)
(* K contribute nothing, the rows and columns added in M and N are cut    *)
(* off again by the subtensor at the loads' actual tile sizes, and a       *)
(* matmul padded only in K keeps accumulating into its own output.        *)
RewritePreservesProduct == Val(op) = Val(input)

(* In the rewritten IR the padded matmul is well typed: the lhs columns   *)
(* and the rhs rows are the same padded K, the output and the result type *)
(* agree with the lhs rows and the rhs columns, and the subtensor cuts at *)
(* most the padded result.                                                 *)
ShapesConsistent ==
    \A m \in Matmuls(op) :
        /\ Shape(m.lhs)[2] = Shape(m.rhs)[1]
        /\ Shape(m.out) = m.type
        /\ m.type = <<Shape(m.lhs)[1], Shape(m.rhs)[2]>>
        /\ op.k = "subtensor" => \A i \in 1..2 : op.sizes[i] <= m.type[i]

(* The pass pads workgroup tiles "into an integer multiple of tiling      *)
(* parameters" (its registration): where the workgroup tile is a multiple *)
(* of the vector tile, every padded dim of the rewritten matmul is a      *)
(* multiple of its vector tile size, so vectorization leaves no remainder.*)
PaddedToTileMultiples ==
    op # input =>
    \A m \in Matmuls(op) :
        LET v == m.cfg.vec
            w == m.cfg.wg
            dims == <<Shape(m.lhs)[1], Shape(m.rhs)[2], Shape(m.lhs)[2]>>
        IN  \A i \in 1..3 :
              (i = 3 \/ w[i] % v[i] = 0) => dims[i] % v[i] = 0

=============================================================================

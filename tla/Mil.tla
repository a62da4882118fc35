--------------------------------- MODULE Mil ---------------------------------
(***************************************************************************)
(* The MIL program builder of rust/ane-bridge-mil/src/program.rs.          *)
(*                                                                         *)
(* A Graph is a record g and every method of it an operator from graphs to *)
(* graphs with an operator of its own for its assertions: a call whose     *)
(* assertions fail panics and ends the program, so it is not a step.  The  *)
(* client calls the methods in any order on any values it was handed.  The *)
(* text of a statement is abstracted to what it binds, the operation, the  *)
(* values it names and, for a convolution, its geometry.                   *)
(*                                                                         *)
(* A name is a pair: <<p, i>> is the string p_i.  The strings format!      *)
(* gives for two different pairs differ, because i has no underscore.      *)
(***************************************************************************)
EXTENDS Integers, SequencesExt, Weights

CONSTANTS
  InputNames, NewNames,
                  (* names a client gives to input and to rename          *)
  InputShapes, WeightShapes, RawShapes, Reshapes, Perms, Cuts, Convs,
                  (* arguments a client uses                              *)
  Axes,           (* axis arguments, negative ones included               *)
  InputTypes,     (* element types of inputs                              *)
  CastTypes,      (* element types a client casts to                      *)
  UnaryOps,       (* of relu, sigmoid, tanh and silu                      *)
  BinaryOps,      (* of add, sub, mul and real_div                        *)
  IntRange,       (* number of values of an i64                           *)
  MaxSources,     (* bound of the model: parameters, weights and scalars  *)
  MaxOps          (* bound of the model: recorded ops, except that one    *)
                  (* call may go past it                                  *)

ASSUME MilAssumption ==
  /\ IntRange \in Nat \ {0} /\ IntRange % 2 = 0
  /\ MaxSources \in Nat /\ MaxOps \in Nat /\ Axes \subseteq Int
  /\ InputShapes \cup WeightShapes \cup RawShapes \cup Reshapes \cup Perms
       \subseteq Seq(Int)
  /\ Cuts \subseteq [begin : Seq(Int), end : Seq(Int)]
  /\ UnaryOps \subseteq {"relu", "sigmoid", "tanh", "silu"}
  /\ BinaryOps \subseteq {"add", "sub", "mul", "real_div"}
  /\ InputTypes \cup CastTypes \subseteq {"Fp16", "Fp32", "Int32"}
  /\ Convs \subseteq [strides : Int \X Int, dilations : Int \X Int,
                      pad : Int \X Int \X Int \X Int, groups : Int]

VARIABLES
  g,      (* the Graph, its blob apart                                     *)
  vals,   (* the Vals the client holds                                     *)
  own,    (* the client uses a BlobWriter by itself, without a Graph       *)
  disk    (* the directory that save writes, and whether the last save     *)
          (* returned Ok                                                   *)

vars == <<blob, g, vals, own, disk>>

WIDTH_ALIGN == 32
MAX_CONV_KERNEL == 15

Val(n, t, s) == [name |-> n, dtype |-> t, shape |-> s]
Names(vs) == [i \in DOMAIN vs |-> vs[i].name]
Attribute(n) == Val(n, "attribute", <<>>)
Op(v, reads, bytes) ==
  [result |-> v.name, reads |-> Names(reads), readBytes |-> bytes]
Moved(ops, written, read) == [ops |-> ops, written |-> written, read |-> read]
Norm(axis, gamma, beta) == [axis |-> axis, gamma |-> gamma, beta |-> beta]

(* SequencesExt!FoldLeft as a recursive function: TLC evaluates it once    *)
(* per element.                                                            *)
Fold(op(_, _), base, s) ==
  LET f[i \in 0..Len(s)] == IF i = 0 THEN base ELSE op(f[i - 1], s[i])
  IN f[Len(s)]

(* i64 products wrap in a release build, what the code calls saturating_   *)
(* is clamped; usize is unsigned of that width.                            *)
I64_MAX == IntRange \div 2 - 1
I64_MIN == -(IntRange \div 2)
Wrap(n) == ((n + IntRange \div 2) % IntRange) - IntRange \div 2
Clamp(n) == IF n > I64_MAX THEN I64_MAX ELSE IF n < I64_MIN THEN I64_MIN ELSE n
USIZE_MAX == IntRange - 1
Saturate(n) == IF n > USIZE_MAX THEN USIZE_MAX ELSE n
Larger(a, b) == IF a > b THEN a ELSE b

SumOf(s) == Fold(LAMBDA a, n : a + n, 0, s)
SaturatingSum(s) == Fold(LAMBDA a, n : Saturate(a + n), 0, s)
Product(s) == Fold(LAMBDA a, d : Wrap(a * d), 1, s)
Numel(v) == Product(v.shape)

(* Division of integers as Rust does it: toward zero.                      *)
DivTrunc(a, b) == IF a >= 0 THEN a \div b ELSE -((-a) \div b)

(* A definition whose comment says "Wrong variant" is not part of the      *)
(* specification: it is the definition after it with a plausible bug, kept *)
(* to show that the properties below can fail.                             *)
-----------------------------------------------------------------------------
(* Bookkeeping of a Graph.                                                 *)

(* Graph::new.                                                             *)
NewGraph ==
  [params |-> <<>>, stmts |-> <<>>, ops |-> <<>>, sizes |-> <<>>,
   nextId |-> 0, taken |-> {}, raw |-> FALSE]

(* Wrong variant: the counter alone is trusted to give a new name.         *)
FreshUnchecked(gr, prefix) ==
  [gr EXCEPT !.nextId = @ + 1, !.taken = @ \cup {<<prefix, gr.nextId>>}]

(* fresh: the first id from the counter on whose name is not taken.  The   *)
(* name it returns is Minted of the graph it leaves.                       *)
Fresh(gr, prefix) ==
  LET free == {i \in gr.nextId..(gr.nextId + Cardinality(gr.taken)) :
                 <<prefix, i>> \notin gr.taken}
      id == CHOOSE i \in free : \A j \in free : i <= j
  IN [gr EXCEPT !.nextId = id + 1, !.taken = @ \cup {<<prefix, id>>}]
Minted(gr, prefix) == <<prefix, gr.nextId - 1>>

(* stmts.push of a statement that binds v.                                 *)
Push(gr, v, op, uses, attr) ==
  [gr EXCEPT !.stmts = Append(@, [binds |-> v, op |-> op,
                                  uses |-> uses, attr |-> attr])]

(* const_i32, const_scalar, const_bool, const_str, const_i32_vec: an       *)
(* attribute under a minted name.                                          *)
AddConst(gr, prefix) ==
  LET m == Fresh(gr, prefix)
  IN Push(m, Attribute(Minted(m, prefix)), "const", <<>>, 0)

(* What size_of prices a value at.                                         *)
ByteSize(v) ==
  Saturate(Larger(Numel(v), 1) * (IF v.dtype = "Fp16" THEN 2 ELSE 4))

SizeOf(gr, v) ==
  [gr EXCEPT !.sizes = [n \in DOMAIN @ \cup {v.name} |->
                          IF n = v.name THEN ByteSize(v) ELSE @[n]]]

(* sizes.get(name), or 0.                                                  *)
Priced(gr, n) == IF n \in DOMAIN gr.sizes THEN gr.sizes[n] ELSE 0

NoteReading(gr, out, reads, bytes) ==
  [SizeOf(gr, out) EXCEPT !.ops = Append(@, Op(out, reads, bytes))]

Note(gr, out, reads) ==
  NoteReading(gr, out, reads,
    SaturatingSum([i \in DOMAIN reads |-> Priced(gr, reads[i].name)]))

(* Graph::traffic.                                                         *)
Traffic(gr) ==
  Moved(Len(gr.ops),
        SaturatingSum([i \in DOMAIN gr.ops |-> Priced(gr, gr.ops[i].result)]),
        SaturatingSum([i \in DOMAIN gr.ops |-> gr.ops[i].readBytes]))
Total(t) == Saturate(t.written + t.read)

(* What a method hands back: the graph, and the Val it returns.            *)
Out(gr, v) == [g |-> gr, v |-> v]

(* The common tail of every op: its minted result, its statement and its   *)
(* note.                                                                   *)
EmitNamed(gr, v, op, reads, attr) ==
  Out(Note(Push(gr, v, op, reads, attr), v, reads), v)
Emit(gr, prefix, op, dtype, shape, reads, attr) ==
  LET m == Fresh(gr, prefix)
  IN EmitNamed(m, Val(Minted(m, prefix), dtype, shape), op, reads, attr)
-----------------------------------------------------------------------------
(* Shapes.                                                                 *)

(* axis_index: the 0-based dimension, and whether there is one.            *)
Resolved(shape, axis) == IF axis < 0 THEN Len(shape) + axis ELSE axis
AxisOK(shape, axis) == Resolved(shape, axis) \in 0..(Len(shape) - 1)

WidthAligned(shape) ==
  shape # <<>> /\ Last(shape) >= WIDTH_ALIGN /\ Last(shape) % WIDTH_ALIGN = 0

(* broadcast: the shorter shape is padded with leading 1s.                 *)
Align(s, rank) == [i \in 1..(rank - Len(s)) |-> 1] \o s
BroadcastOK(a, b) ==
  LET rank == Larger(Len(a), Len(b))
  IN \A i \in 1..rank :
       Cardinality({Align(a, rank)[i], Align(b, rank)[i]} \ {1}) <= 1
(* Wrong variant: the shapes are aligned at their first dimensions.        *)
BroadcastLeft(a, b) ==
  LET rank == Larger(Len(a), Len(b))
  IN [i \in 1..rank |-> Larger(IF i <= Len(a) THEN a[i] ELSE 1,
                               IF i <= Len(b) THEN b[i] ELSE 1)]
Broadcast(a, b) ==
  LET rank == Larger(Len(a), Len(b))
  IN [i \in 1..rank |-> Larger(Align(a, rank)[i], Align(b, rank)[i])]

(* mat_dims.                                                               *)
Batch(s) == SubSeq(s, 1, Len(s) - 2)
Rows(s) == s[Len(s) - 1]
Cols(s) == s[Len(s)]

(* conv_extent.                                                            *)
Span(dilation, kernel) == Clamp(Clamp(dilation * Clamp(kernel - 1)) + 1)
ConvExtent(extent, lo, hi, dilation, kernel, stride) ==
  LET room == Clamp(Clamp(Clamp(extent + lo) + hi) - Span(dilation, kernel))
  IN Clamp(DivTrunc(room, stride) + 1)

(* ConvOpts: its default and its constructors.  strides and dilations are  *)
(* <<h, w>>, pad is <<top, bottom, left, right>>.                          *)
DefaultConv ==
  [strides |-> <<1, 1>>, dilations |-> <<1, 1>>, pad |-> <<0, 0, 0, 0>>,
   groups |-> 1]
Conv1d(left, right) == [DefaultConv EXCEPT !.pad = <<0, 0, left, right>>]
DecimatingFir(taps, factor, groups) ==
  [Conv1d(taps - 1, 0) EXCEPT !.strides = <<1, factor>>, !.groups = groups]

IsNchw(v) == Len(v.shape) = 4

(* check_conv.                                                             *)
CheckConv(x, w, o) ==
  /\ IsNchw(x) /\ IsNchw(w)
  /\ x.dtype = w.dtype /\ x.dtype # "Fp32"
  /\ o.groups > 0
  /\ \A i \in 1..2 : o.strides[i] > 0 /\ o.dilations[i] > 0
  /\ w.shape[4] <= MAX_CONV_KERNEL
  /\ o.strides[2] > 1 => o.groups > 1
  /\ x.shape[2] % o.groups = 0
  /\ w.shape[1] % o.groups = 0
  /\ w.shape[2] = x.shape[2] \div o.groups
ConvShape(x, w, o) ==
  <<x.shape[1], w.shape[1],
    ConvExtent(x.shape[3], o.pad[1], o.pad[2], o.dilations[1], w.shape[3],
               o.strides[1]),
    ConvExtent(x.shape[4], o.pad[3], o.pad[4], o.dilations[2], w.shape[4],
               o.strides[2])>>

(* Norm::channels and Norm::check, for one axis; epsilon is positive.      *)
Channels(gamma, beta) == Norm(1, gamma, beta)
NormOK(x, n) ==
  /\ AxisOK(x.shape, n.axis)
  /\ \A v \in {n.gamma, n.beta} :
       /\ v.shape = <<x.shape[Resolved(x.shape, n.axis) + 1]>>
       /\ v.dtype = x.dtype
-----------------------------------------------------------------------------
(* The methods of Graph.  What they assert is the operator named ...OK.    *)

Input(gr, name, dtype, shape) ==
  LET v == Val(name, dtype, shape)
  IN Out([SizeOf(gr, v) EXCEPT !.taken = @ \cup {name},
                               !.params = Append(@, v)], v)
InputOK(gr, name, shape) ==
  name \notin gr.taken /\ (\A i \in DOMAIN shape : shape[i] > 0)
  /\ WidthAligned(shape)

(* A value with a payload or a scalar: a statement, but not an op.         *)
Constant(gr, prefix, op, shape, attr) ==
  LET m == Fresh(gr, prefix)
      v == Val(Minted(m, prefix), "Fp16", shape)
  IN Out(SizeOf(Push(m, v, op, <<>>, attr), v), v)
ScalarFp16(gr) == Constant(gr, "k", "scalar", <<>>, 0)
WeightFp16(gr, shape, offset) == Constant(gr, "w", "weight", shape, offset)

(* raw_op: the caller's text binds the minted name.                        *)
RawOp(gr, shape, reads) == Emit(gr, "raw", "raw_op", "Fp16", shape, reads, 0)

Cast(gr, x, dtype) ==
  Emit(AddConst(gr, "cs"), "cast", "cast", dtype, x.shape, <<x>>, 0)

BinaryOK(x, y) ==
  x.dtype = y.dtype /\ x.dtype # "Fp32" /\ BroadcastOK(x.shape, y.shape)
Binary(gr, op, x, y) ==
  Emit(gr, op, op, x.dtype, Broadcast(x.shape, y.shape), <<x, y>>, 0)

Unary(gr, op, x) == Emit(gr, op, op, x.dtype, x.shape, <<x>>, 0)

Softmax(gr, x) ==
  Emit(AddConst(gr, "ci"), "sm", "softmax", x.dtype, x.shape, <<x>>, 0)

LayerNorm(gr, x, n) ==
  Emit(AddConst(AddConst(gr, "cv"), "ck"), "ln", "layer_norm", x.dtype,
       x.shape, <<x, n.gamma, n.beta>>, 0)

(* rename: an identity under a name of the caller.                         *)
RenameTo(gr, name, x) ==
  EmitNamed([gr EXCEPT !.taken = @ \cup {name}],
            Val(name, x.dtype, x.shape), "identity", <<x>>, 0)

(* max is y + relu(x - y) and min is x - relu(x - y); they assert what the *)
(* ops they are composed of assert.                                        *)
Positive(gr, x, y) ==
  LET d == Binary(gr, "sub", x, y) IN Unary(d.g, "relu", d.v)
MaxOf(gr, x, y) == LET r == Positive(gr, x, y) IN Binary(r.g, "add", y, r.v)
MinOf(gr, x, y) == LET r == Positive(gr, x, y) IN Binary(r.g, "sub", x, r.v)
ComposedOK(x, y) ==
  BinaryOK(x, y) /\ BroadcastOK(x.shape, Broadcast(x.shape, y.shape))

(* conv; bias is a sequence of at most one value.                          *)
ConvOK(x, w, bias, o) ==
  /\ CheckConv(x, w, o)
  /\ \A i \in DOMAIN bias : bias[i].shape = <<w.shape[1]>>
  /\ ConvShape(x, w, o)[3] > 0 /\ ConvShape(x, w, o)[4] > 0
ConvConsts(gr) ==
  AddConst(AddConst(AddConst(AddConst(AddConst(gr,
    "cv"), "ci"), "cv"), "cs"), "cv")
Conv(gr, x, w, bias, o) ==
  Emit(ConvConsts(gr), "conv", "conv", "Fp16", ConvShape(x, w, o),
       <<x, w>> \o bias, o)

Inner(s, transposed, first) ==
  IF transposed = first THEN Rows(s) ELSE Cols(s)
MatmulOK(x, y, tx, ty) ==
  /\ x.dtype = y.dtype
  /\ Len(x.shape) >= 2 /\ Len(y.shape) >= 2
  /\ BroadcastOK(Batch(x.shape), Batch(y.shape))
  /\ Inner(x.shape, tx, TRUE) = Inner(y.shape, ty, FALSE)
Matmul(gr, x, y, tx, ty) ==
  Emit(AddConst(AddConst(gr, "cb"), "cb"), "mm", "matmul", "Fp16",
       Broadcast(Batch(x.shape), Batch(y.shape))
         \o <<Inner(x.shape, tx, FALSE), Inner(y.shape, ty, TRUE)>>,
       <<x, y>>, <<tx, ty>>)

ReshapeOK(x, shape) ==
  (\A i \in DOMAIN shape : shape[i] > 0) /\ Numel(x) = Product(shape)
Reshape(gr, x, shape) ==
  Emit(AddConst(gr, "cv"), "rs", "reshape", x.dtype, shape, <<x>>, 0)

(* perm is 0-based.                                                        *)
TransposeOK(x, perm) ==
  Len(perm) = Len(x.shape) /\ Range(perm) = 0..(Len(perm) - 1)
Transpose(gr, x, perm) ==
  Emit(AddConst(gr, "cv"), "tp", "transpose", x.dtype,
       [i \in DOMAIN perm |-> x.shape[perm[i] + 1]], <<x>>, perm)

ConcatOK(vs, axis) ==
  LET s == vs[1].shape
  IN /\ AxisOK(s, axis)
     /\ \A i \in DOMAIN vs :
          /\ Len(vs[i].shape) = Len(s) /\ vs[i].dtype = vs[1].dtype
          /\ \A d \in DOMAIN s :
               d # Resolved(s, axis) + 1 => vs[i].shape[d] = s[d]
ConcatShape(vs, axis) ==
  LET ax == Resolved(vs[1].shape, axis) + 1
  IN [vs[1].shape EXCEPT ![ax] =
        Fold(LAMBDA a, v : Clamp(a + v.shape[ax]), @, Tail(vs))]
Concat(gr, vs, axis) ==
  Emit(AddConst(AddConst(gr, "ci"), "cb"), "cat", "concat", vs[1].dtype,
       ConcatShape(vs, axis), vs, axis)

SliceOK(x, begin, end) ==
  /\ Len(begin) = Len(x.shape) /\ Len(end) = Len(x.shape)
  /\ \A d \in DOMAIN begin :
       0 <= begin[d] /\ begin[d] < end[d] /\ end[d] <= x.shape[d]

SliceConsts(gr) ==
  AddConst(AddConst(AddConst(AddConst(gr, "cv"), "cv"), "cv"), "cm")
(* Wrong variant: a slice is charged for the whole of what it points into. *)
SliceWholeRead(gr, x, begin, end) ==
  Emit(SliceConsts(gr), "sl", "slice", x.dtype,
       [d \in DOMAIN begin |-> end[d] - begin[d]], <<x>>, 0)

(* slice moves what it takes, so it is noted with its own size.            *)
Slice(gr, x, begin, end) ==
  LET m == Fresh(SliceConsts(gr), "sl")
      v == Val(Minted(m, "sl"), x.dtype,
               [d \in DOMAIN begin |-> end[d] - begin[d]])
  IN Out(NoteReading(Push(m, v, "slice", <<x>>, 0), v, <<x>>, ByteSize(v)), v)

(* assert_no_dead_ops: the names found live from the outputs, last op      *)
(* first.                                                                  *)
Visit(live, o) ==
  IF o.result \in live THEN live \cup Range(o.reads) ELSE live
(* Wrong variant: the ops are visited in the order they were emitted.      *)
LiveForward(gr, outs) == Fold(Visit, Range(Names(outs)), gr.ops)
Live(gr, outs) == Fold(Visit, Range(Names(outs)), Reverse(gr.ops))
NoDeadOps(gr, outs) ==
  gr.raw \/ {gr.ops[i].result : i \in DOMAIN gr.ops} \subseteq Live(gr, outs)

(* finish: it refuses these outputs or returns the text, which has the     *)
(* statements in the order they were emitted, and the file.                *)
FinishOK(gr, outs) ==
  /\ outs # <<>>
  /\ \A i, j \in DOMAIN outs : outs[i].name = outs[j].name => i = j
  /\ \A i \in DOMAIN outs : WidthAligned(outs[i].shape)
  /\ NoDeadOps(gr, outs)

(* What the text says of the weights file: each reference's offset and the *)
(* size of its tensor.                                                     *)
References(gr) ==
  {[offset |-> s.attr, bytes |-> 2 * Numel(s.binds)] :
     s \in {st \in Range(gr.stmts) : st.op = "weight"}}
Finish(gr, b) ==
  [mil |-> [whole |-> TRUE, refs |-> References(gr)],
   weights |-> [whole |-> TRUE, file |-> FinishBlob(b)]]
-----------------------------------------------------------------------------
(* The client.  It holds every Val it was handed; a writer of its own and  *)
(* a graph are separate objects, so one behaviour uses one of them.        *)

MilInit ==
  /\ WInit
  /\ g = NewGraph /\ vals = {} /\ own \in BOOLEAN
  /\ disk = [mil |-> [whole |-> FALSE, refs |-> {}],
             weights |-> [whole |-> FALSE, file |-> FinishBlob(EmptyBlob)],
             ok |-> FALSE]

(* One write_* call on a writer of its own.                                *)
OwnWrite == own /\ (\E n \in Counts : Write(n)) /\ UNCHANGED <<g, vals, own, disk>>

(* Bounds of the model besides MaxSources and MaxOps: parameters come      *)
(* before other statements, and weights and scalars before ops (rename     *)
(* takes a caller's name at any time); a raw statement comes after the     *)
(* last op (where its opaque text stands makes no difference to the        *)
(* Graph); programs of at most MaxSavedOps ops are saved, and only sources *)
(* are added between one save and the next.                                *)
MaxSavedOps == 1
Saved == disk.mil.whole \/ disk.weights.whole
Building == ~own /\ ~g.raw /\ Len(g.ops) < MaxOps

SourceOps == {"scalar", "weight"}
Sources == Len(g.params)
           + Cardinality({i \in DOMAIN g.stmts : g.stmts[i].op \in SourceOps})

(* The client calls a method that returns r.                               *)
Keep(r) == g' = r.g /\ vals' = vals \cup {r.v} /\ UNCHANGED <<own, disk>>
Call(r) == Building /\ ~Saved /\ Keep(r) /\ UNCHANGED blob
Declare(r) == Building /\ g.ops = <<>> /\ Sources < MaxSources /\ Keep(r)

CallInput ==
  \E n \in InputNames, t \in InputTypes, s \in InputShapes :
    /\ g.stmts = <<>> /\ InputOK(g, n, s)
    /\ Declare(Input(g, n, t, s)) /\ UNCHANGED blob

CallScalar == Declare(ScalarFp16(g)) /\ UNCHANGED blob

(* weight_fp16: the payload goes to the blob, its offset into the text.    *)
CallWeight ==
  \E s \in WeightShapes :
    /\ Product(s) >= 0
    /\ blob' = WriteFp16(blob, Product(s))
    /\ Declare(WeightFp16(g, s, Last(blob'.offsets)))

(* raw_stmt: opaque text; all the Graph keeps of it is that it is there.   *)
CallRawStmt ==
  /\ ~own /\ ~g.raw /\ ~Saved /\ Len(g.ops) >= MaxOps
  /\ g' = [g EXCEPT !.raw = TRUE] /\ UNCHANGED <<blob, vals, own, disk>>

CallRawOp == \E x \in vals, s \in RawShapes : Call(RawOp(g, s, <<x>>))

CallCast == \E x \in vals, t \in CastTypes : x.dtype # t /\ Call(Cast(g, x, t))

CallBinary ==
  \E x, y \in vals, op \in BinaryOps :
    BinaryOK(x, y) /\ Call(Binary(g, op, x, y))

CallUnary == \E x \in vals, op \in UnaryOps : Call(Unary(g, op, x))

CallSoftmax ==
  \E x \in vals, a \in Axes : AxisOK(x.shape, a) /\ Call(Softmax(g, x))

CallLayerNorm ==
  \E x, gamma, beta \in vals :
    \E n \in {Norm(a, gamma, beta) : a \in Axes} \cup {Channels(gamma, beta)} :
      NormOK(x, n) /\ Call(LayerNorm(g, x, n))

CallRename ==
  \E x \in vals, n \in NewNames :
    n \notin g.taken /\ Call(RenameTo(g, n, x))

CallMax == \E x, y \in vals : ComposedOK(x, y) /\ Call(MaxOf(g, x, y))
CallMin == \E x, y \in vals : ComposedOK(x, y) /\ Call(MinOf(g, x, y))

CallConv ==
  \E x, w \in vals, o \in Convs :
    \E bias \in {<<>>} \cup {<<b>> : b \in vals} :
      ConvOK(x, w, bias, o) /\ Call(Conv(g, x, w, bias, o))

CallMatmul ==
  \E x, y \in vals, tx, ty \in BOOLEAN :
    MatmulOK(x, y, tx, ty) /\ Call(Matmul(g, x, y, tx, ty))

CallReshape ==
  \E x \in vals, s \in Reshapes :
    ReshapeOK(x, s) /\ Call(Reshape(g, x, s))

CallTranspose ==
  \E x \in vals, p \in Perms : TransposeOK(x, p) /\ Call(Transpose(g, x, p))

CallConcat ==
  \E x \in vals, a \in Axes :
    \E vs \in {<<x, y>> : y \in vals} :
      ConcatOK(vs, a) /\ Call(Concat(g, vs, a))

CallSlice ==
  \E x \in vals, c \in Cuts :
    SliceOK(x, c.begin, c.end) /\ Call(Slice(g, x, c.begin, c.end))

(* Wrong variant: the result of the second write is ignored.               *)
SaveReturnsEarly(text, file) == text.whole

(* save returns Ok when both writes succeeded.                             *)
SaveReturns(text, file) == text.whole /\ file.whole

(* The lists of one or two outputs that finish accepts.                    *)
Finishable ==
  {outs \in {<<a>> : a \in vals} \cup (vals \X vals) : FinishOK(g, outs)}

(* save: the directory cannot be created and nothing changes; or           *)
(* model.mil is truncated and written, and then weights.bin; a write that  *)
(* fails leaves a part of its file and ends the call.                      *)
CallSave ==
  /\ ~own /\ Len(g.ops) <= MaxSavedOps
  /\ Finishable # {}
  /\ \/ disk' = [disk EXCEPT !.ok = FALSE]
     \/ disk' = [disk EXCEPT !.mil.whole = FALSE, !.ok = FALSE]
     \/ \E whole \in BOOLEAN :
          LET new == Finish(g, blob)
              file == IF whole THEN new.weights
                      ELSE [disk.weights EXCEPT !.whole = FALSE]
          IN disk' = [mil |-> new.mil, weights |-> file,
                      ok |-> SaveReturns(new.mil, file)]
  /\ UNCHANGED <<blob, g, vals, own>>

MilNext ==
  \/ OwnWrite
  \/ CallInput \/ CallScalar \/ CallWeight
  \/ CallRawStmt \/ CallRawOp \/ CallCast \/ CallBinary \/ CallUnary
  \/ CallSoftmax \/ CallLayerNorm \/ CallRename \/ CallMax \/ CallMin
  \/ CallConv \/ CallMatmul \/ CallReshape \/ CallTranspose
  \/ CallConcat \/ CallSlice \/ CallSave

MilSpec == MilInit /\ [][MilNext]_vars

-----------------------------------------------------------------------------
(* Properties.                                                             *)

Bound == g.params \o [i \in DOMAIN g.stmts |-> g.stmts[i].binds]
BoundNames == {v.name : v \in Range(Bound)}

(* The program is in SSA form: no two of its parameters, attributes and    *)
(* results have one name, whatever names the caller chose before or after  *)
(* the builder minted its own (program.rs:561-566), and a statement names  *)
(* only what is bound before it.                                           *)
SingleAssignment ==
  LET b == Bound
  IN /\ Cardinality(BoundNames) = Len(b)
     /\ \A i \in DOMAIN g.stmts : \A x \in Range(g.stmts[i].uses) :
          x \in Range(SubSeq(b, 1, Len(g.params) + i - 1))

(* A set of ops is dead if no result of it is an output or is read by an   *)
(* op outside the set.                                                     *)
DeadSet(dead, outs) ==
  LET results == {g.ops[i].result : i \in dead}
  IN /\ dead # {}
     /\ results \cap {v.name : v \in outs} = {}
     /\ \A i \in DOMAIN g.ops \ dead : results \cap Range(g.ops[i].reads) = {}

(* finish refuses for a dead op exactly the outputs that leave a dead set  *)
(* (program.rs:712-735): its one backward pass over the ops finds every op *)
(* that the outputs need through any number of others, and no other.       *)
DeadOpsExact ==
  ~g.raw => \A a, b \in vals :
    NoDeadOps(g, <<a, b>>)
      <=> \A dead \in SUBSET DOMAIN g.ops : ~DeadSet(dead, {a, b})

(* n windows of a kernel that spans s positions, stride apart, fit in      *)
(* padded positions and one more does not.                                 *)
WindowsFit(n, padded, s, stride) ==
  (n - 1) * stride + s <= padded /\ padded < n * stride + s
Padded(x, o, axis) == x.shape[2 + axis] + o.pad[2 * axis - 1] + o.pad[2 * axis]
KernelSpan(w, o, axis) == o.dilations[axis] * (w.shape[2 + axis] - 1) + 1

(* The geometry of an axis is in the range where saturating arithmetic is  *)
(* exact.                                                                  *)
InRange(x, w, o, axis) ==
  LET span == KernelSpan(w, o, axis)
      padded == Padded(x, o, axis)
  IN {w.shape[2 + axis] - 1, span - 1, span, padded - span + 1, padded,
      x.shape[2 + axis] + o.pad[2 * axis - 1]} \subseteq I64_MIN..I64_MAX

(* numpy: counted from the last, every dimension of s is that of each      *)
(* operand, or that operand's is 1 or missing; and one of them has it.     *)
(* weight_fp16 and raw_op let a caller declare extents below 1, which no   *)
(* tensor has; nothing is said of those.                                   *)
AllPositive(s) == \A i \in DOMAIN s : s[i] > 0
IsBroadcast(a, b, s) ==
  LET at(t, k) == IF k < Len(t) THEN t[Len(t) - k] ELSE 1
  IN /\ Len(s) = Larger(Len(a), Len(b))
     /\ AllPositive(a) /\ AllPositive(b) => \A k \in 0..(Len(s) - 1) :
          /\ {at(a, k), at(b, k)} \subseteq {1, at(s, k)}
          /\ at(s, k) \in {at(a, k), at(b, k)}

(* What the declared shape of statement st has to be, given its operands.  *)
ShapeTrue(st) ==
  LET v == st.binds
      arg(i) == st.uses[i]
  IN CASE st.op \in {"add", "sub", "mul", "real_div"} ->
            IsBroadcast(arg(1).shape, arg(2).shape, v.shape)
       [] st.op = "conv" ->
            /\ <<v.shape[1], v.shape[2]>> = <<arg(1).shape[1], arg(2).shape[1]>>
            /\ \A axis \in 1..2 :
                 LET padded == Padded(arg(1), st.attr, axis)
                     span == KernelSpan(arg(2), st.attr, axis)
                 IN InRange(arg(1), arg(2), st.attr, axis) /\ span <= padded =>
                      WindowsFit(v.shape[2 + axis], padded, span,
                                 st.attr.strides[axis])
       [] st.op = "matmul" ->
            /\ IsBroadcast(Batch(arg(1).shape), Batch(arg(2).shape),
                           Batch(v.shape))
            /\ \E k \in Range(arg(1).shape) :
                 /\ Rows(arg(1).shape) * Cols(arg(1).shape) = Rows(v.shape) * k
                 /\ Rows(arg(2).shape) * Cols(arg(2).shape) = k * Cols(v.shape)
       [] OTHER -> TRUE

(* An op that only rearranges has as many elements as its operands, in the *)
(* arithmetic of numel (which wraps): reshape and transpose have those of  *)
(* their operand, and a concat the sum (program.rs:91-95, 1187-1191,       *)
(* 1230-1236, 1290-1322).                                                  *)
CountKept(st) ==
  LET ax == Resolved(st.uses[1].shape, st.attr) + 1
      extents == [k \in DOMAIN st.uses |-> st.uses[k].shape[ax]]
  IN /\ st.op \in {"reshape", "transpose"} =>
          Numel(st.binds) = Numel(st.uses[1])
     /\ st.op = "concat" /\ AllPositive(extents) /\ SumOf(extents) <= I64_MAX =>
          Numel(st.binds)
            = Wrap(SumOf([k \in DOMAIN st.uses |-> Numel(st.uses[k])]))

(* The static shape each op declares is the one its operands give it: the  *)
(* windows that fit for a convolution, numpy's rules for a broadcast, the  *)
(* products of a matmul, the elements of what is rearranged.  Nothing but  *)
(* the device would find a wrong one.  Of a slice, a cast and an op of one *)
(* operand, whose shape is copied or given by the caller, it says nothing. *)
ShapesTrue ==
  \A i \in DOMAIN g.stmts : ShapeTrue(g.stmts[i]) /\ CountKept(g.stmts[i])

(* traffic, which works on the table of sizes and the list of ops, agrees  *)
(* with the text: every op's result is written once and every operand read *)
(* once per use, except that a slice reads what it takes                   *)
(* (program.rs:614-643).                                                   *)
IsOp(st) == st.op \notin SourceOps \cup {"const"}
BytesWritten(st) == IF IsOp(st) THEN ByteSize(st.binds) ELSE 0
BytesRead(st) ==
  IF ~IsOp(st) THEN 0
  ELSE IF st.op = "slice" THEN ByteSize(st.binds)
  ELSE SumOf([k \in DOMAIN st.uses |-> ByteSize(st.uses[k])])
TrafficExact ==
  LET text == DOMAIN g.stmts
      written == SumOf([i \in text |-> BytesWritten(g.stmts[i])])
      read == SumOf([i \in text |-> BytesRead(g.stmts[i])])
  IN /\ Traffic(g) = Moved(Cardinality({i \in text : IsOp(g.stmts[i])}),
                           Saturate(written), Saturate(read))
     /\ Total(Traffic(g)) = Saturate(written + read)

(* After a save that returned Ok the two files on disk belong together:    *)
(* weights.bin reads back, and every BLOBFILE offset in model.mil is that  *)
(* of a record with as many bytes as the tensor it is read into, whatever  *)
(* earlier saves left in the directory (program.rs:1465-1484).             *)
SavedPairReads ==
  disk.ok =>
    /\ ReadsBack(disk.weights.file)
    /\ \A ref \in disk.mil.refs :
         \E r \in Range(disk.weights.file.recs) :
           r.at = ref.offset /\ r.size = ref.bytes

(* conv "panics ... if the geometry produces an empty output"              *)
(* (program.rs:1061-1065): every convolution in the program has room for   *)
(* at least one window on both axes.                                       *)
EmptyConvRefused ==
  \A i \in DOMAIN g.stmts :
    LET st == g.stmts[i]
    IN st.op = "conv" => \A axis \in 1..2 :
         KernelSpan(st.uses[2], st.attr, axis)
           <= Padded(st.uses[1], st.attr, axis)
=============================================================================

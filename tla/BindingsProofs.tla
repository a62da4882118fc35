---------------------------- MODULE BindingsProofs ----------------------------
(* Proofs about Bindings for any models, buffers, surfaces and byte counts. *)
EXTENDS Bindings, Recursion, FiniteSetTheorems, SequenceTheorems, TLAPS

(* The schema.                                                              *)
Positive == Nat \ {0}

(* The product that C checks by division: when it fits, so did every        *)
(* product before it, and each is the one before it times an extent.        *)
LEMMA Checked ==
  ASSUME SizeRange \in Nat \ {0}, NEW elt \in Positive, NEW shape \in Seq(Positive),
         CheckedBytes(elt, shape) < SizeRange
  PROVE  \E f \in [0..Len(shape) -> Positive] :
           /\ f[0] = elt /\ CheckedBytes(elt, shape) = f[Len(shape)]
           /\ \A k \in 1..Len(shape) : f[k] = f[k - 1] * shape[k] /\ f[k] < SizeRange
<1> DEFINE n == Len(shape)
           F(f) == [k \in 0..n |->
                      IF k = 0 THEN elt
                      ELSE IF f[k - 1] > (SizeRange - 1) \div shape[k] THEN SizeRange
                      ELSE f[k - 1] * shape[k]]
           f == CHOOSE h : h = F(h)
           step == [k \in 1..n |-> [p \in Positive |->
                      IF p > (SizeRange - 1) \div shape[k] THEN SizeRange
                      ELSE p * shape[k]]]
<1>0. n \in Nat /\ \A k \in 1..n : shape[k] \in Positive
  OBVIOUS
<1>1. step \in [1..n -> [Positive -> Positive]]
  BY DEF Positive
<1>2. PICK g \in [0..n -> Positive] : Upto(g, n, elt, step)
  <2> HIDE DEF step, n, f, F
  <2> QED  BY <1>0, <1>1, RecursiveFunction
<1>3. \A i \in 1..n : g[i] = IF g[i - 1] > (SizeRange - 1) \div shape[i] THEN SizeRange
                             ELSE g[i - 1] * shape[i]
  <2> SUFFICES ASSUME NEW i \in 1..n
               PROVE  step[i][g[i - 1]] = IF g[i - 1] > (SizeRange - 1) \div shape[i] THEN SizeRange
                                              ELSE g[i - 1] * shape[i]
    BY <1>2 DEF Upto
  <2>1. g[i - 1] \in Positive
    <3>1. i - 1 \in 0..n
      BY <1>0
    <3> QED  BY <3>1
  <2> QED  BY <2>1
<1> HIDE DEF step
<1>4. g = F(g)
  <2> DEFINE G == F(g)
  <2>1. G \in [0..n -> Positive]
    <3> SUFFICES ASSUME NEW k \in 0..n PROVE G[k] = g[k]
      OBVIOUS
    <3>1. k = 0 \/ k \in 1..n
      BY <1>0
    <3> QED  BY <3>1, <1>2, <1>3 DEF Upto
  <2>2. ASSUME NEW k \in 0..n PROVE G[k] = g[k]
    <3>1. k = 0 \/ k \in 1..n
      BY <1>0
    <3> QED  BY <3>1, <1>2, <1>3 DEF Upto
  <2> HIDE DEF G
  <2>3. g = G
    BY <2>1, <2>2
  <2> QED  BY <2>3 DEF G
<1>5. f = F(f)
  <2> HIDE DEF F
  <2> QED  BY <1>4
<1>6. CheckedBytes(elt, shape) = f[n]
  BY DEF CheckedBytes
<1> HIDE DEF f
<1>7. /\ f[0] = elt
      /\ \A k \in 1..n : f[k] = IF f[k - 1] > (SizeRange - 1) \div shape[k] THEN SizeRange
                                ELSE f[k - 1] * shape[k]
  <2>1. \A k \in 0..n : f[k] = F(f)[k]
    BY <1>5
  <2> QED  BY <2>1, <1>0
<1> HIDE DEF n, F
<1>8. \A k \in 0..n : f[k] \in Positive
  <2> DEFINE S == {k \in 0..n : f[k] \in Positive}
  <2>1. 0 \in S
    BY <1>0, <1>7
  <2>2. ASSUME NEW k \in 1..n, k - 1 \in S PROVE k \in S
    <3>1. f[k - 1] \in Positive /\ shape[k] \in Positive
      BY <2>2, <1>0
    <3>2. f[k - 1] * shape[k] \in Positive /\ SizeRange \in Positive
      BY <3>1 DEF Positive
    <3>3. f[k] = SizeRange \/ f[k] = f[k - 1] * shape[k]
      BY <1>7
    <3>4. f[k] \in Positive
      BY <3>2, <3>3
    <3> QED  BY <3>4, <1>0
  <2> HIDE DEF S
  <2>3. 0..n \subseteq S
    BY <1>0, <2>1, <2>2, IntervalInduction
  <2> QED  BY <2>3 DEF S
<1>9. ASSUME NEW k \in 1..n, f[k] < SizeRange
      PROVE  f[k] = f[k - 1] * shape[k] /\ f[k - 1] < SizeRange
  <2>1. f[k - 1] \in Positive /\ shape[k] \in Positive
    <3>1. k - 1 \in 0..n
      BY <1>0
    <3> QED  BY <1>0, <1>8, <3>1
  <2>2. ~ (f[k - 1] > (SizeRange - 1) \div shape[k])
    BY <1>7, <1>9
  <2>3. f[k] = f[k - 1] * shape[k]
    BY <1>7, <2>2
  <2>4. ASSUME NEW a \in Positive, NEW d \in Positive, a * d < SizeRange PROVE a < SizeRange
    <3>1. a * d >= a
      BY DEF Positive
    <3> QED  BY <3>1, <2>4 DEF Positive
  <2> QED  BY <2>1, <2>3, <2>4, <1>9
<1>10. \A k \in 0..n : f[k] < SizeRange
  <2> DEFINE S == {i \in 0..n : f[n - i] < SizeRange}
  <2>1. 0 \in S
    BY <1>0, <1>6
  <2>2. ASSUME NEW i \in 1..n, i - 1 \in S PROVE i \in S
    <3>1. n - (i - 1) \in 1..n /\ n - (i - 1) - 1 = n - i /\ f[n - (i - 1)] < SizeRange
      BY <1>0, <2>2
    <3>2. f[n - i] < SizeRange
      BY <1>9, <3>1
    <3> QED  BY <3>2, <1>0
  <2> HIDE DEF S
  <2>3. 0..n \subseteq S
    BY <1>0, <2>1, <2>2, IntervalInduction
  <2>4. \A k \in 0..n : n - k \in S /\ n - (n - k) = k
    BY <1>0, <2>3
  <2> QED  BY <2>4 DEF S
<1>11. f \in [0..n -> Positive]
  <2>1. f = [k \in 0..n |-> F(f)[k]]
    BY <1>5 DEF F
  <2> QED  BY <1>8, <2>1
<1>12. \A k \in 1..n : k \in 0..n
  BY <1>0
<1> QED  BY <1>6, <1>7, <1>9, <1>10, <1>11, <1>12 DEF n

(* Rust computes the same number from the type and the shape.               *)
LEMMA RustAgrees ==
  ASSUME SizeRange \in Nat \ {0}, NEW t, DtypeSize[t.dtype] \in Positive,
         t.shape \in Seq(Positive),
         CheckedBytes(DtypeSize[t.dtype], t.shape) < SizeRange
  PROVE  TensorNbytes(t) = CheckedBytes(DtypeSize[t.dtype], t.shape)
<1> DEFINE elt == DtypeSize[t.dtype]
           shape == t.shape
           n == Len(shape)
           F(h) == [k \in 0..n |->
                      IF k = 0 THEN elt
                      ELSE IF h[k - 1] = -1 \/ shape[k] < 0
                              \/ h[k - 1] * shape[k] >= SizeRange THEN -1
                      ELSE h[k - 1] * shape[k]]
           g == CHOOSE h : h = F(h)
<1>0. n \in Nat /\ \A k \in 1..n : shape[k] \in Positive
  OBVIOUS
<1>1. TensorNbytes(t) = IF g[n] = -1 THEN 0 ELSE g[n]
  BY DEF TensorNbytes
<1>2. PICK f \in [0..n -> Positive] :
        /\ f[0] = elt /\ CheckedBytes(elt, shape) = f[n]
        /\ \A k \in 1..n : f[k] = f[k - 1] * shape[k] /\ f[k] < SizeRange
  <2> HIDE DEF g, F
  <2> QED  BY Checked
<1> HIDE DEF elt, shape
<1>3. \A k \in 1..n : /\ f[k - 1] # -1 /\ ~ (shape[k] < 0)
                      /\ ~ (f[k - 1] * shape[k] >= SizeRange)
  <2> SUFFICES ASSUME NEW k \in 1..n
               PROVE  /\ f[k - 1] # -1 /\ ~ (shape[k] < 0)
                      /\ ~ (f[k - 1] * shape[k] >= SizeRange)
    OBVIOUS
  <2>1. k - 1 \in 0..n /\ k \in 0..n
    BY <1>0
  <2>2. f[k - 1] \in Positive /\ shape[k] \in Positive /\ f[k] \in Positive
    BY <1>0, <1>2, <2>1
  <2>3. f[k] < SizeRange /\ f[k] = f[k - 1] * shape[k]
    BY <1>2
  <2> QED  BY <2>2, <2>3 DEF Positive
<1>4. f = F(f)
  <2> DEFINE G == F(f)
  <2>1. ASSUME NEW k \in 0..n PROVE G[k] = f[k]
    <3>1. k = 0 \/ k \in 1..n
      BY <1>0
    <3> QED  BY <3>1, <1>2, <1>3
  <2>2. G = [k \in 0..n |-> G[k]]
    OBVIOUS
  <2> HIDE DEF G
  <2>3. f = G
    BY <1>2, <2>1, <2>2
  <2> QED  BY <2>3 DEF G
<1>5. g = F(g)
  <2> HIDE DEF F
  <2> QED  BY <1>4
<1> HIDE DEF g
<1>6. /\ g[0] = elt
      /\ \A k \in 1..n : g[k] = IF g[k - 1] = -1 \/ shape[k] < 0
                                   \/ g[k - 1] * shape[k] >= SizeRange THEN -1
                                ELSE g[k - 1] * shape[k]
  <2>1. \A k \in 0..n : g[k] = F(g)[k]
    BY <1>5
  <2> QED  BY <2>1, <1>0
<1> HIDE DEF F, n
<1>7. g[n] = f[n]
  <2> DEFINE S == {k \in 0..n : g[k] = f[k]}
  <2>1. 0 \in S
    BY <1>0, <1>2, <1>6
  <2>2. ASSUME NEW k \in 1..n, k - 1 \in S PROVE k \in S
    <3>1. g[k - 1] = f[k - 1]
      BY <2>2
    <3>2. g[k] = f[k]
      BY <1>2, <1>3, <1>6, <3>1
    <3> QED  BY <1>0, <3>2
  <2> HIDE DEF S
  <2>3. 0..n \subseteq S
    BY <1>0, <2>1, <2>2, IntervalInduction
  <2> QED  BY <1>0, <2>3 DEF S
<1>8. f[n] \in Positive
  BY <1>0, <1>2
<1> QED  BY <1>1, <1>2, <1>7, <1>8 DEF Positive, elt, shape

(* What C says the tensor of an entry needs is a dense tensor, one size_t   *)
(* can say.                                                                 *)
LEMMA EntryExact ==
  ASSUME SizeRange \in Nat \ {0}, NEW e \in TensorEntry, EntryOK(e)
  PROVE  /\ EntryBytes(e) = DenseBytes(e)
         /\ EntryBytes(e) \in 1..(SizeRange - 1)
         /\ TensorNbytes(TensorSpec(e.type, Shape(e.dims))) = DenseBytes(e)
<1> DEFINE elt == DtypeSize[e.type]
           d == e.dims
           shape == Shape(d)
<1>1. elt \in Positive
  BY DEF EntryOK, DtypeSize, Positive
<1>2. d \in [1..5 -> Positive] /\ d[3] >= 1
  BY DEF EntryOK, TensorEntry, Positive
<1>3. d[1] \in Positive /\ d[2] \in Positive /\ d[3] \in Positive
      /\ d[4] \in Positive /\ d[5] \in Positive
  BY <1>2
<1> HIDE DEF elt
<1>4. EntryBytes(e) = CheckedBytes(elt, shape) /\ EntryBytes(e) < SizeRange
  BY DEF EntryBytes, EntryOK, elt
<1>5. DenseBytes(e) = elt * d[1] * d[2] * d[3] * d[4] * d[5]
  BY DEF DenseBytes, elt
<1> HIDE DEF d
<1>6. shape \in Seq(Positive) /\ EntryBytes(e) = DenseBytes(e) /\ EntryBytes(e) \in Positive
  <2>1. CASE d[3] > 1
    <3>1. shape = d
      BY <2>1 DEF Shape
    <3>2. d \in Seq(Positive) /\ Len(d) = 5
      <4>1. d \in Seq(Positive)
        BY <1>2, SeqDef
      <4> QED  BY <1>2, <4>1
    <3> HIDE DEF shape
    <3>3. PICK f \in [0..5 -> Positive] :
            /\ f[0] = elt /\ EntryBytes(e) = f[5]
            /\ \A k \in 1..5 : f[k] = f[k - 1] * d[k] /\ f[k] < SizeRange
      <4>1. CheckedBytes(elt, d) < SizeRange /\ CheckedBytes(elt, d) = EntryBytes(e)
        BY <1>4, <3>1
      <4>2. \E f \in [0..Len(d) -> Positive] :
              /\ f[0] = elt /\ CheckedBytes(elt, d) = f[Len(d)]
              /\ \A k \in 1..Len(d) : f[k] = f[k - 1] * d[k] /\ f[k] < SizeRange
        BY <1>1, <3>2, <4>1, Checked
      <4> QED  BY <3>2, <4>1, <4>2
    <3>4. /\ f[1] = f[0] * d[1] /\ f[2] = f[1] * d[2] /\ f[3] = f[2] * d[3]
          /\ f[4] = f[3] * d[4] /\ f[5] = f[4] * d[5]
      BY <3>3
    <3>5. f[5] = elt * d[1] * d[2] * d[3] * d[4] * d[5]
      BY <3>3, <3>4
    <3> QED  BY <1>5, <3>1, <3>2, <3>3, <3>5
  <2>2. CASE d[3] = 1
    <3> DEFINE q == <<d[1], d[2], d[4], d[5]>>
    <3>1. shape = q
      BY <2>2 DEF Shape
    <3>2. q \in Seq(Positive) /\ Len(q) = 4
      BY <1>3
    <3>3. q[1] = d[1] /\ q[2] = d[2] /\ q[3] = d[4] /\ q[4] = d[5]
      OBVIOUS
    <3> HIDE DEF shape, q
    <3>4. PICK f \in [0..4 -> Positive] :
            /\ f[0] = elt /\ EntryBytes(e) = f[4]
            /\ \A k \in 1..4 : f[k] = f[k - 1] * q[k] /\ f[k] < SizeRange
      BY <1>1, <1>4, <3>1, <3>2, Checked, SMTT(30)
    <3>5. /\ f[1] = f[0] * d[1] /\ f[2] = f[1] * d[2]
          /\ f[3] = f[2] * d[4] /\ f[4] = f[3] * d[5]
      BY <3>3, <3>4
    <3>6. elt * d[1] * d[2] * d[3] = elt * d[1] * d[2]
      <4>1. \A x \in Positive : x * 1 = x
        BY DEF Positive
      <4>2. elt * d[1] * d[2] \in Positive
        <5>1. \A x, y \in Positive : x * y \in Positive
          BY DEF Positive
        <5> QED  BY <1>1, <1>3, <5>1
      <4> QED  BY <2>2, <4>1, <4>2
    <3>7. f[4] = elt * d[1] * d[2] * d[4] * d[5]
      BY <3>4, <3>5
    <3> QED  BY <1>5, <3>1, <3>2, <3>4, <3>6, <3>7
  <2> QED  BY <1>2, <1>3, <2>1, <2>2 DEF Positive
<1>7. TensorNbytes(TensorSpec(e.type, shape)) = CheckedBytes(elt, shape)
  <2> DEFINE t == TensorSpec(e.type, shape)
  <2>1. t.shape = shape /\ DtypeSize[t.dtype] = elt
    BY DEF TensorSpec, elt
  <2> HIDE DEF t, shape
  <2>2. TensorNbytes(t) = CheckedBytes(elt, shape)
    BY <1>1, <1>4, <1>6, <2>1, RustAgrees
  <2> QED  BY <2>2 DEF t
<1>8. EntryBytes(e) \in 1..(SizeRange - 1)
  BY <1>4, <1>6 DEF Positive
<1> QED  BY <1>4, <1>6, <1>7, <1>8 DEF shape, d

(* The specs of a procedure are one for each entry, and what they say of a  *)
(* tensor is what its entry says.                                           *)
LEMMA DeriveExact ==
  ASSUME SizeRange \in Nat \ {0}, NEW report \in Seq(Procedures), DeriveOK(report),
         NEW p \in 0..(Len(report) - 1), report[p + 1] # Malformed,
         NEW kind \in {"inputs", "outputs"}
  PROVE  LET procs == Derive(report)
             live == report[p + 1][kind]
         IN /\ live \in Entries /\ CountFor(procs, p, kind) = Len(live)
            /\ \A i \in 0..(Len(live) - 1) :
                 /\ NbytesFor(procs, p, kind, i) = DenseBytes(live[i + 1])
                 /\ NbytesFor(procs, p, kind, i) \in 1..(SizeRange - 1)
                 /\ TensorNbytes(TensorFor(procs, p, kind, i)) = DenseBytes(live[i + 1])
<1> DEFINE procs == Derive(report)
           live == report[p + 1][kind]
<1>1. /\ Len(report) \in Nat /\ DOMAIN report = 1..Len(report)
      /\ p + 1 \in DOMAIN report /\ p \in Int
      /\ report[p + 1] \in [inputs : Entries, outputs : Entries]
  BY DEF Procedures
<1>2. live \in Entries /\ BuildOK(live)
  <2>1. BuildOK(report[p + 1].inputs) /\ BuildOK(report[p + 1].outputs)
    BY <1>1 DEF DeriveOK
  <2> QED  BY <1>1, <2>1
<1>3. /\ Len(procs) = Len(report) /\ procs[p + 1] = ProcSpecs(report[p + 1])
  BY <1>1 DEF Derive
<1>4. ProcAt(procs, p) = ProcSpecs(report[p + 1])
  <2> HIDE DEF procs
  <2> QED  BY <1>1, <1>3 DEF ProcAt
<1>5. ProcSpecs(report[p + 1])[kind] = BuildSpecs(live)
  <2>1. ProcSpecs(report[p + 1])
          = [inputs |-> BuildSpecs(report[p + 1].inputs),
             outputs |-> BuildSpecs(report[p + 1].outputs), states |-> <<>>]
    BY DEF ProcSpecs, NoTensors
  <2> QED  BY <2>1
<1>6. SpecsAt(procs, p, kind) = BuildSpecs(live)
  BY <1>4, <1>5 DEF SpecsAt
<1> HIDE DEF procs, live
<1>7. /\ Len(live) \in Nat /\ DOMAIN live = 1..Len(live)
      /\ Len(BuildSpecs(live)) = Len(live)
      /\ \A i \in 1..Len(live) : BuildSpecs(live)[i] = OwnedSpec(live[i])
  BY <1>2 DEF Entries, BuildSpecs
<1>8. CountFor(procs, p, kind) = Len(live)
  BY <1>6, <1>7 DEF CountFor
<1>9. ASSUME NEW i \in 0..(Len(live) - 1)
      PROVE  /\ NbytesFor(procs, p, kind, i) = DenseBytes(live[i + 1])
             /\ NbytesFor(procs, p, kind, i) \in 1..(SizeRange - 1)
             /\ TensorNbytes(TensorFor(procs, p, kind, i)) = DenseBytes(live[i + 1])
  <2> DEFINE e == live[i + 1]
  <2>1. i + 1 \in 1..Len(live) /\ InRange(procs, p, kind, i)
    BY <1>6, <1>7 DEF InRange
  <2>2. EntryOK(e) /\ e \in TensorEntry
    BY <1>2, <1>7, <2>1 DEF Entries, BuildOK, EntryOK
  <2>3. /\ NbytesFor(procs, p, kind, i) = OwnedSpec(e).nbytes
        /\ TensorFor(procs, p, kind, i) = TensorSpec(OwnedSpec(e).dtype, OwnedSpec(e).shape)
    BY <1>6, <1>7, <2>1 DEF NbytesFor, TensorFor
  <2>4. /\ OwnedSpec(e).dtype = e.type /\ OwnedSpec(e).shape = Shape(e.dims)
        /\ OwnedSpec(e).nbytes = EntryBytes(e)
    BY DEF OwnedSpec
  <2> HIDE DEF e
  <2>5. /\ EntryBytes(e) = DenseBytes(e) /\ EntryBytes(e) \in 1..(SizeRange - 1)
        /\ TensorNbytes(TensorSpec(e.type, Shape(e.dims))) = DenseBytes(e)
    BY <2>2, EntryExact
  <2> QED  BY <2>3, <2>4, <2>5 DEF e
<1> QED  BY <1>2, <1>8, <1>9 DEF procs, live

(* A model that can be opened says of its tensors what they are: the checked *)
(* products of C (ane_bridge.m:561-579) and Rust (lib.rs:303-337) let no     *)
(* overflow pass.                                                            *)
THEOREM SchemaIsExact ==
  ASSUME SizeRange \in Nat \ {0}, NEW report \in Seq(Procedures), DeriveOK(report)
  PROVE  SchemaExact(report)
<1> SUFFICES ASSUME NEW p \in 0..(Len(report) - 1), report[p + 1] # Malformed,
                    NEW kind \in {"inputs", "outputs"}
             PROVE  LET procs == Derive(report)
                        live == report[p + 1][kind]
                    IN /\ CountFor(procs, p, kind) = Len(live)
                       /\ \A i \in 0..(Len(live) - 1) :
                            /\ NbytesFor(procs, p, kind, i) = DenseBytes(live[i + 1])
                            /\ TensorNbytes(TensorFor(procs, p, kind, i)) = DenseBytes(live[i + 1])
  BY DEF SchemaExact
<1> QED  BY DeriveExact
-----------------------------------------------------------------------------

(* The heap is a record; a surface is retained once for each AneBuffer that *)
(* has it, and there is one.                                                *)
OfSurface(h, s) == {b \in DOMAIN h.bufs : h.bufs[b].surface = s}
HeapOK(h) ==
  /\ h = [bufs |-> h.bufs, surfs |-> h.surfs, handles |-> h.handles]
  /\ DOMAIN h.bufs \subseteq Buffers /\ DOMAIN h.surfs \subseteq Surfaces
  /\ h.handles \subseteq Handles
  /\ \A b \in DOMAIN h.bufs : h.bufs[b].surface \in DOMAIN h.surfs
  /\ \A s \in DOMAIN h.surfs :
       /\ h.surfs[s] = [retains |-> h.surfs[s].retains, size |-> h.surfs[s].size]
       /\ h.surfs[s].retains = Cardinality(OfSurface(h, s))
       /\ OfSurface(h, s) # {}

(* What is allocated is what somebody owns, and nobody owns it twice.       *)
OwnInv ==
  /\ \A x \in Buffers \cup Handles :
       x \in Alive(heap) <=> \/ x \in hand
                             \/ \E s \in Slots : rq.bound[s] = x
                             \/ \E s \in Slots : rq.own[s] = x
  /\ \A s \in Slots : rq.bound[s] # Nil =>
       /\ rq.bound[s] \notin hand
       /\ \A t \in Slots : /\ rq.own[t] # rq.bound[s]
                           /\ rq.bound[t] = rq.bound[s] => t = s
  /\ \A s \in Slots : rq.own[s] # Nil =>
       /\ rq.own[s] \notin hand
       /\ \A t \in Slots : rq.own[t] = rq.own[s] => t = s

(* A pointer of C is what Rust or the request owns for the slot.            *)
PtrInv ==
  /\ \A s \in Slots :
       /\ rq.ptr[s] # Nil => rq.ptr[s] \in {rq.bound[s], rq.own[s]}
       /\ s \notin Inputs /\ rq.bound[s] # Nil => rq.ptr[s] = rq.bound[s]
  /\ rq.at = "none" => rq = NoRequest

(* What the engine has is still in its slot.                                *)
UseInv ==
  /\ flight # NoUse => rq.at # "none"
  /\ \A s \in Slots :
       /\ flight[s] # Nil => rq.ptr[s] = flight[s]
       /\ chain.uses[s] # Nil => rq.ptr[s] = chain.uses[s]
  /\ ~chain.live => chain = NoChain

(* A guard is on a buffer in hand or in a slot; if it is in a slot, the     *)
(* request stays with the client and out of flight.                         *)
BoundTensors == {rq.bound[s] : s \in Tensors}
GuardInv ==
  /\ guard = [buf |-> guard.buf, flags |-> guard.flags]
  /\ guard.buf = Nil => guard = NoGuard
  /\ guard.flags \in {{}, {"ReadOnly"}, {"AvoidSync"}}
  /\ guard.buf # Nil => guard.buf \in hand \cup BoundTensors
  /\ guard.buf # Nil /\ guard.buf \in BoundTensors =>
       rq.at = "client" /\ flight = NoUse

(* Only a guard that will publish leaves the CPU ahead of a surface.        *)
AheadInv ==
  /\ WritesPublished
  /\ "ReadOnly" \in guard.flags => ahead = {}

(* One Arc for the client's Model and one for its request.                  *)
ArcInv ==
  /\ model.arcs = (IF model.held THEN 1 ELSE 0) + (IF rq.at # "none" THEN 1 ELSE 0)
  /\ model.open <=> model.arcs > 0
  /\ model.report = 0 => ~model.held /\ rq.at = "none"

BInv == /\ BindTypeOK /\ HeapOK(heap) /\ OwnInv /\ PtrInv /\ UseInv
        /\ GuardInv /\ AheadInv /\ ArcInv
-----------------------------------------------------------------------------
(* The heap.                                                                *)

LEMMA SurfaceCount ==
  ASSUME NEW h, HeapOK(h), NEW s
  PROVE  /\ IsFiniteSet(OfSurface(h, s)) /\ Cardinality(OfSurface(h, s)) \in Nat
<1>1. OfSurface(h, s) \in SUBSET Buffers
  BY DEF OfSurface, HeapOK
<1> QED  BY <1>1, FS_Subset, FS_CardinalityType, BindingsAssumption

(* Releasing takes what it is given, leaves the other structs as they are,  *)
(* and keeps every surface that one of them has.                            *)
LEMMA ReleaseOK ==
  ASSUME NEW h, HeapOK(h), NEW xs
  PROVE  /\ HeapOK(Release(h, xs))
         /\ Alive(Release(h, xs)) = Alive(h) \ xs
         /\ \A b \in DOMAIN h.bufs \ xs :
              /\ b \in DOMAIN Release(h, xs).bufs
              /\ Release(h, xs).bufs[b] = h.bufs[b]
<1> DEFINE freed(s) == Cardinality({b \in xs \cap DOMAIN h.bufs : h.bufs[b].surface = s})
           kept == {s \in DOMAIN h.surfs : h.surfs[s].retains > freed(s)}
           g == Release(h, xs)
<1>1. g = [bufs    |-> [b \in DOMAIN h.bufs \ xs |-> h.bufs[b]],
           surfs   |-> [s \in kept |-> [h.surfs[s] EXCEPT !.retains = @ - freed(s)]],
           handles |-> h.handles \ xs]
  BY DEF Release
<1>2. /\ g.bufs = [b \in DOMAIN h.bufs \ xs |-> h.bufs[b]]
      /\ g.surfs = [s \in kept |-> [h.surfs[s] EXCEPT !.retains = @ - freed(s)]]
      /\ g.handles = h.handles \ xs
      /\ g = [bufs |-> g.bufs, surfs |-> g.surfs, handles |-> g.handles]
  BY <1>1
<1> HIDE DEF g
<1>3. \A s : OfSurface(g, s) = OfSurface(h, s) \ xs
  BY <1>2 DEF OfSurface
<1>4. \A s \in DOMAIN h.surfs :
        /\ Cardinality(OfSurface(g, s)) = h.surfs[s].retains - freed(s)
        /\ s \in kept <=> OfSurface(g, s) # {}
        /\ Cardinality(OfSurface(g, s)) \in Nat
  <2> SUFFICES ASSUME NEW s \in DOMAIN h.surfs
               PROVE  /\ Cardinality(OfSurface(g, s)) = h.surfs[s].retains - freed(s)
                      /\ s \in kept <=> OfSurface(g, s) # {}
                      /\ Cardinality(OfSurface(g, s)) \in Nat
    OBVIOUS
  <2>1. IsFiniteSet(OfSurface(h, s)) /\ h.surfs[s].retains = Cardinality(OfSurface(h, s))
    BY SurfaceCount DEF HeapOK
  <2>2. OfSurface(h, s) \cap xs = {b \in xs \cap DOMAIN h.bufs : h.bufs[b].surface = s}
    BY DEF OfSurface
  <2>3. /\ IsFiniteSet(OfSurface(h, s) \ xs)
        /\ Cardinality(OfSurface(h, s) \ xs) = h.surfs[s].retains - freed(s)
    <3>1. /\ IsFiniteSet(OfSurface(h, s) \ xs)
          /\ Cardinality(OfSurface(h, s) \ xs)
               = Cardinality(OfSurface(h, s)) - Cardinality(OfSurface(h, s) \cap xs)
      BY <2>1, FS_Difference
    <3>2. Cardinality(OfSurface(h, s) \cap xs) = freed(s)
      BY <2>2
    <3> HIDE DEF freed
    <3> QED  BY <2>1, <3>1, <3>2
  <2>4. /\ Cardinality(OfSurface(h, s) \ xs) \in Nat
        /\ Cardinality(OfSurface(h, s) \ xs) = 0 <=> OfSurface(h, s) \ xs = {}
    BY <2>3, FS_CardinalityType, FS_EmptySet
  <2>5. freed(s) \in Nat /\ h.surfs[s].retains \in Nat
    <3>1. IsFiniteSet(OfSurface(h, s) \cap xs)
      BY <2>1, FS_Intersection
    <3> QED  BY <2>1, <2>2, <3>1, FS_CardinalityType
  <2> HIDE DEF freed
  <2>6. s \in kept <=> OfSurface(g, s) # {}
    BY <1>3, <2>3, <2>4, <2>5
  <2> QED  BY <1>3, <2>3, <2>4, <2>6
<1>5. \A s \in DOMAIN g.surfs :
        /\ s \in DOMAIN h.surfs
        /\ g.surfs[s] = [retains |-> h.surfs[s].retains - freed(s), size |-> h.surfs[s].size]
  <2> HIDE DEF freed
  <2>1. \A s \in DOMAIN h.surfs :
          [h.surfs[s] EXCEPT !.retains = @ - freed(s)]
            = [retains |-> h.surfs[s].retains - freed(s), size |-> h.surfs[s].size]
    BY DEF HeapOK
  <2> QED  BY <1>2, <2>1
<1>6. HeapOK(g)
  <2>1. /\ DOMAIN g.bufs \subseteq Buffers /\ DOMAIN g.surfs \subseteq Surfaces
        /\ g.handles \subseteq Handles
    BY <1>2 DEF HeapOK
  <2>2. \A b \in DOMAIN g.bufs : g.bufs[b].surface \in DOMAIN g.surfs
    <3> SUFFICES ASSUME NEW b \in DOMAIN g.bufs PROVE g.bufs[b].surface \in kept
      BY <1>2
    <3>1. g.bufs[b] = h.bufs[b] /\ h.bufs[b].surface \in DOMAIN h.surfs
      BY <1>2 DEF HeapOK
    <3>2. b \in OfSurface(g, h.bufs[b].surface)
      BY <3>1 DEF OfSurface
    <3> HIDE DEF kept
    <3> QED  BY <1>4, <3>1, <3>2
  <2>3. \A s \in DOMAIN g.surfs :
          /\ g.surfs[s] = [retains |-> g.surfs[s].retains, size |-> g.surfs[s].size]
          /\ g.surfs[s].retains = Cardinality(OfSurface(g, s))
          /\ OfSurface(g, s) # {}
    <3>1. DOMAIN g.surfs = kept
      BY <1>2
    <3> SUFFICES ASSUME NEW s \in DOMAIN g.surfs
                 PROVE  /\ g.surfs[s] = [retains |-> g.surfs[s].retains, size |-> g.surfs[s].size]
                        /\ g.surfs[s].retains = Cardinality(OfSurface(g, s))
                        /\ OfSurface(g, s) # {}
      OBVIOUS
    <3> HIDE DEF kept, freed
    <3>2. /\ s \in DOMAIN h.surfs
          /\ g.surfs[s] = [retains |-> h.surfs[s].retains - freed(s), size |-> h.surfs[s].size]
      BY <1>5
    <3>3. g.surfs[s].retains = h.surfs[s].retains - freed(s)
      BY <3>2
    <3> QED  BY <1>4, <3>1, <3>2, <3>3
  <2> QED  BY <1>2, <2>1, <2>2, <2>3 DEF HeapOK
<1>7. Alive(g) = Alive(h) \ xs
  BY <1>2 DEF Alive
<1> QED  BY <1>2, <1>6, <1>7 DEF g

(* New buffers go where nothing is, and each has a surface to itself.       *)
LEMMA PlacesOK ==
  ASSUME NEW h, NEW count \in Nat, NEW place \in Places(h, count)
  PROVE  /\ DOMAIN place \subseteq Buffers \ DOMAIN h.bufs
         /\ IsFiniteSet(DOMAIN place) /\ Cardinality(DOMAIN place) = count
         /\ \A b \in DOMAIN place : /\ place[b] \in Surfaces \ DOMAIN h.surfs
                                    /\ \A c \in DOMAIN place : place[c] = place[b] => c = b
<1> DEFINE bs == DOMAIN place
           ss == {place[b] : b \in bs}
<1>1. /\ bs \subseteq Buffers \ DOMAIN h.bufs
      /\ place \in [bs -> Surfaces \ DOMAIN h.surfs]
      /\ Cardinality(bs) = count /\ Cardinality(ss) = count
  BY DEF Places
<1>2. IsFiniteSet(bs)
  BY <1>1, FS_Subset, BindingsAssumption
<1>3. place \in Surjection(bs, ss)
  BY <1>1 DEF Surjection
<1> HIDE DEF bs, ss
<1>4. place \in Injection(bs, ss)
  BY <1>1, <1>2, <1>3, FS_SurjSameCardinalityImpliesInj
<1>5. \A b, c \in bs : place[c] = place[b] => c = b
  BY <1>4 DEF Injection, IsInjective
<1> QED  BY <1>1, <1>2, <1>5 DEF bs

LEMMA FreshOK ==
  ASSUME NEW h, HeapOK(h), NEW count \in Nat, NEW place \in Places(h, count), NEW n
  PROVE  /\ HeapOK(FreshEach(h, place, n))
         /\ Alive(FreshEach(h, place, n)) = Alive(h) \cup DOMAIN place
         /\ \A b \in DOMAIN h.bufs :
              /\ b \in DOMAIN FreshEach(h, place, n).bufs
              /\ FreshEach(h, place, n).bufs[b] = h.bufs[b]
<1> DEFINE g == FreshEach(h, place, n)
           size(s) == AllocSize(n[CHOOSE b \in DOMAIN place : place[b] = s])
           new == {place[b] : b \in DOMAIN place}
<1>1. /\ DOMAIN place \subseteq Buffers \ DOMAIN h.bufs
      /\ \A b \in DOMAIN place : /\ place[b] \in Surfaces \ DOMAIN h.surfs
                                 /\ \A c \in DOMAIN place : place[c] = place[b] => c = b
  BY PlacesOK
<1>2. /\ g.bufs = [b \in DOMAIN h.bufs \cup DOMAIN place |->
                     IF b \in DOMAIN place THEN Struct(place[b], n[b], FALSE) ELSE h.bufs[b]]
      /\ g.surfs = [s \in DOMAIN h.surfs \cup new |->
                      IF s \in DOMAIN h.surfs THEN h.surfs[s]
                      ELSE [retains |-> 1, size |-> size(s)]]
      /\ g.handles = h.handles
      /\ g = [bufs |-> g.bufs, surfs |-> g.surfs, handles |-> g.handles]
  <2> HIDE DEF size, new
  <2>1. g = [bufs |-> [b \in DOMAIN h.bufs \cup DOMAIN place |->
                         IF b \in DOMAIN place THEN Struct(place[b], n[b], FALSE) ELSE h.bufs[b]],
             surfs |-> [s \in DOMAIN h.surfs \cup new |->
                          IF s \in DOMAIN h.surfs THEN h.surfs[s]
                          ELSE [retains |-> 1, size |-> size(s)]],
             handles |-> h.handles]
    BY DEF FreshEach, size, new
  <2> HIDE DEF g
  <2> QED  BY <2>1
<1> HIDE DEF g, size
<1>3. /\ \A b \in DOMAIN h.bufs : g.bufs[b] = h.bufs[b]
      /\ \A b \in DOMAIN place : g.bufs[b].surface = place[b]
  BY <1>1, <1>2 DEF Struct
<1>4. \A s \in DOMAIN h.surfs : OfSurface(g, s) = OfSurface(h, s)
  <2> SUFFICES ASSUME NEW s \in DOMAIN h.surfs, NEW b
               PROVE  b \in OfSurface(g, s) <=> b \in OfSurface(h, s)
    OBVIOUS
  <2>1. b \in DOMAIN place => g.bufs[b].surface # s /\ b \notin DOMAIN h.bufs
    BY <1>1, <1>3
  <2>2. b \in DOMAIN g.bufs <=> b \in DOMAIN h.bufs \/ b \in DOMAIN place
    BY <1>2
  <2> QED  BY <1>3, <2>1, <2>2 DEF OfSurface
<1>5. \A b \in DOMAIN place : OfSurface(g, place[b]) = {b}
  <2> SUFFICES ASSUME NEW b \in DOMAIN place, NEW c
               PROVE  c \in OfSurface(g, place[b]) <=> c = b
    OBVIOUS
  <2>1. c \in DOMAIN h.bufs => g.bufs[c].surface # place[b] /\ c \notin DOMAIN place
    BY <1>1, <1>3 DEF HeapOK
  <2>2. c \in DOMAIN g.bufs <=> c \in DOMAIN h.bufs \/ c \in DOMAIN place
    BY <1>2
  <2> QED  BY <1>1, <1>3, <2>1, <2>2 DEF OfSurface
<1>6. HeapOK(g)
  <2>1. \A b \in DOMAIN g.bufs : g.bufs[b].surface \in DOMAIN g.surfs
    <3>1. DOMAIN g.surfs = DOMAIN h.surfs \cup new /\ DOMAIN g.bufs = DOMAIN h.bufs \cup DOMAIN place
      BY <1>2
    <3>2. \A b \in DOMAIN h.bufs : h.bufs[b].surface \in DOMAIN h.surfs
      BY DEF HeapOK
    <3> QED  BY <1>3, <3>1, <3>2
  <2>2. ASSUME NEW s \in DOMAIN h.surfs
        PROVE  /\ g.surfs[s] = [retains |-> g.surfs[s].retains, size |-> g.surfs[s].size]
               /\ g.surfs[s].retains = Cardinality(OfSurface(g, s))
               /\ OfSurface(g, s) # {}
    <3>1. g.surfs[s] = h.surfs[s]
      BY <1>2
    <3> QED  BY <1>4, <3>1 DEF HeapOK
  <2>3. ASSUME NEW b \in DOMAIN place
        PROVE  LET s == place[b]
               IN /\ g.surfs[s] = [retains |-> g.surfs[s].retains, size |-> g.surfs[s].size]
                  /\ g.surfs[s].retains = Cardinality(OfSurface(g, s))
                  /\ OfSurface(g, s) # {}
    <3>1. g.surfs[place[b]] = [retains |-> 1, size |-> size(place[b])]
      BY <1>1, <1>2
    <3>2. Cardinality({b}) = 1
      BY FS_Singleton
    <3> QED  BY <1>5, <3>1, <3>2
  <2>4. \A s \in DOMAIN g.surfs : s \in DOMAIN h.surfs \/ \E b \in DOMAIN place : s = place[b]
    BY <1>2
  <2>5. /\ DOMAIN g.bufs \subseteq Buffers /\ DOMAIN g.surfs \subseteq Surfaces
        /\ g.handles \subseteq Handles
    BY <1>1, <1>2 DEF HeapOK
  <2>6. \A s \in DOMAIN g.surfs :
          /\ g.surfs[s] = [retains |-> g.surfs[s].retains, size |-> g.surfs[s].size]
          /\ g.surfs[s].retains = Cardinality(OfSurface(g, s))
          /\ OfSurface(g, s) # {}
    BY <2>2, <2>3, <2>4
  <2> QED  BY <1>2, <2>1, <2>5, <2>6 DEF HeapOK
<1>7. Alive(g) = Alive(h) \cup DOMAIN place
  BY <1>2 DEF Alive
<1> QED  BY <1>2, <1>3, <1>6, <1>7 DEF g

(* A second buffer of a surface retains it once more.                       *)
LEMMA AdoptOK ==
  ASSUME NEW h, HeapOK(h), NEW t \in DOMAIN h.surfs, NEW b \in Buffers \ DOMAIN h.bufs, NEW n
  PROVE  /\ HeapOK(Adopt(h, b, t, n))
         /\ Alive(Adopt(h, b, t, n)) = Alive(h) \cup {b}
         /\ \A y \in DOMAIN h.bufs : /\ y \in DOMAIN Adopt(h, b, t, n).bufs
                                     /\ Adopt(h, b, t, n).bufs[y] = h.bufs[y]
<1> DEFINE g == Adopt(h, b, t, n)
<1>2. /\ g.bufs = [y \in DOMAIN h.bufs \cup {b} |->
                     IF y = b THEN Struct(t, n, TRUE) ELSE h.bufs[y]]
      /\ g.surfs = [h.surfs EXCEPT ![t].retains = @ + 1]
      /\ g.handles = h.handles
      /\ g = [bufs |-> g.bufs, surfs |-> g.surfs, handles |-> g.handles]
  <2>1. g = [bufs |-> [y \in DOMAIN h.bufs \cup {b} |->
                         IF y = b THEN Struct(t, n, TRUE) ELSE h.bufs[y]],
             surfs |-> [h.surfs EXCEPT ![t].retains = @ + 1],
             handles |-> h.handles]
    BY DEF Adopt
  <2> HIDE DEF g
  <2> QED  BY <2>1
<1> HIDE DEF g
<1>3. /\ \A y \in DOMAIN h.bufs : g.bufs[y] = h.bufs[y]
      /\ g.bufs[b].surface = t
  BY <1>2 DEF Struct
<1>4. /\ OfSurface(g, t) = OfSurface(h, t) \cup {b} /\ b \notin OfSurface(h, t)
      /\ \A s : s # t => OfSurface(g, s) = OfSurface(h, s)
  <2>1. \A y : y \in DOMAIN g.bufs <=> y \in DOMAIN h.bufs \/ y = b
    BY <1>2
  <2>2. OfSurface(g, t) = OfSurface(h, t) \cup {b}
    BY <1>3, <2>1 DEF OfSurface
  <2>3. ASSUME NEW s, s # t
        PROVE  OfSurface(g, s) = OfSurface(h, s)
    BY <1>3, <2>1, <2>3 DEF OfSurface
  <2> QED  BY <2>2, <2>3 DEF OfSurface
<1>5. Cardinality(OfSurface(g, t)) = Cardinality(OfSurface(h, t)) + 1
  BY <1>4, SurfaceCount, FS_AddElement
<1>6. HeapOK(g)
  <2>1. \A y \in DOMAIN g.bufs : g.bufs[y].surface \in DOMAIN g.surfs
    BY <1>2, <1>3 DEF HeapOK
  <2>2. ASSUME NEW s \in DOMAIN h.surfs, s # t
        PROVE  /\ g.surfs[s] = [retains |-> g.surfs[s].retains, size |-> g.surfs[s].size]
               /\ g.surfs[s].retains = Cardinality(OfSurface(g, s))
               /\ OfSurface(g, s) # {}
    <3>1. g.surfs[s] = h.surfs[s]
      BY <1>2, <2>2
    <3> QED  BY <1>4, <2>2, <3>1 DEF HeapOK
  <2>3. /\ g.surfs[t] = [retains |-> g.surfs[t].retains, size |-> g.surfs[t].size]
        /\ g.surfs[t].retains = Cardinality(OfSurface(g, t))
        /\ OfSurface(g, t) # {}
    <3> DEFINE q == h.surfs[t]
    <3>1. /\ q = [retains |-> q.retains, size |-> q.size]
          /\ q.retains = Cardinality(OfSurface(h, t))
      BY DEF HeapOK
    <3>2. g.surfs[t] = [q EXCEPT !.retains = @ + 1]
      BY <1>2
    <3> HIDE DEF q
    <3>3. g.surfs[t] = [retains |-> q.retains + 1, size |-> q.size]
      BY <3>1, <3>2
    <3> QED  BY <1>4, <1>5, <3>1, <3>3
  <2>4. DOMAIN g.surfs = DOMAIN h.surfs
    BY <1>2
  <2>5. /\ DOMAIN g.bufs \subseteq Buffers /\ DOMAIN g.surfs \subseteq Surfaces
        /\ g.handles \subseteq Handles
    BY <1>2 DEF HeapOK
  <2> QED  BY <1>2, <2>1, <2>2, <2>3, <2>4, <2>5 DEF HeapOK
<1>7. Alive(g) = Alive(h) \cup {b}
  BY <1>2 DEF Alive
<1> QED  BY <1>2, <1>3, <1>6, <1>7 DEF g
-----------------------------------------------------------------------------
(* Steps.                                                                   *)

LEMMA NoUseFacts ==
  /\ NoUse \in Pointers /\ \A s \in Slots : NoUse[s] = Nil
  /\ NoRequest.at = "none" /\ NoRequest.bound = NoUse
  /\ NoRequest.ptr = NoUse /\ NoRequest.own = NoUse
  /\ NoRequest \in [at : {"none", "client", "chain"}, bound : Pointers,
                    ptr : Pointers, own : Pointers]
  /\ NoChain.live = FALSE /\ NoChain.busy = FALSE /\ NoChain.uses = NoUse
  /\ NoGuard.buf = Nil /\ NoGuard.flags = {}
<1>1. NoUse \in Pointers
  BY DEF NoUse, Pointers, Objects
<1> QED  BY <1>1 DEF NoUse, NoRequest, NoChain, NoGuard

(* What a guard is on is alive.                                             *)
LEMMA GuardAlive ==
  ASSUME BInv, guard # NoGuard
  PROVE  /\ guard.buf # Nil /\ guard.buf \in DOMAIN heap.bufs
         /\ guard.buf \in Alive(heap)
BY DEF BInv, BindTypeOK, GuardInv, Alive

(* Nothing gets ahead of a surface while the guard stays what it is.        *)
LEMMA AheadKept ==
  ASSUME BInv, guard' = guard, ahead' \subseteq ahead,
         guard # NoGuard => heap'.bufs[guard.buf] = heap.bufs[guard.buf]
  PROVE  AheadInv'
BY DEF BInv, AheadInv, WritesPublished

(* The invariant holds at the start.                                        *)
LEMMA InitBInv == BInit => BInv
<1> SUFFICES ASSUME BInit PROVE BInv
  OBVIOUS
<1> USE NoUseFacts
<1>1. BindTypeOK
  <2>1. model \in [report : 0..Len(Reports), arcs : 0..2, held : BOOLEAN, open : BOOLEAN]
    BY BindingsAssumption DEF BInit
  <2>2. /\ DOMAIN heap.bufs \subseteq Buffers /\ DOMAIN heap.surfs \subseteq Surfaces
        /\ heap.handles \subseteq Handles /\ hand \subseteq Buffers \cup Handles
        /\ guard.buf \in DOMAIN heap.bufs \cup {Nil}
    BY DEF BInit
  <2>3. rq = NoRequest /\ flight = NoUse /\ chain = NoChain
    BY DEF BInit
  <2> QED  BY <2>1, <2>2, <2>3 DEF BindTypeOK
<1>2. HeapOK(heap)
  BY DEF BInit, HeapOK
<1>3. OwnInv
  BY BindingsAssumption DEF BInit, OwnInv, Alive
<1>4. PtrInv /\ UseInv
  BY DEF BInit, PtrInv, UseInv
<1>5. GuardInv /\ AheadInv
  BY DEF BInit, GuardInv, AheadInv, WritesPublished, NoGuard
<1>6. ArcInv
  BY DEF BInit, ArcInv
<1> QED  BY <1>1, <1>2, <1>3, <1>4, <1>5, <1>6 DEF BInv

(* One Arc of a model that has one goes.                                    *)
ModelType == [report : 0..Len(Reports), arcs : 0..2, held : BOOLEAN, open : BOOLEAN]
LEMMA LessOneIs ==
  ASSUME BindTypeOK, model.arcs # 0
  PROVE  /\ LessOne(model) \in ModelType
         /\ LessOne(model).report = model.report
         /\ LessOne(model).arcs = model.arcs - 1
         /\ LessOne(model).held = model.held
         /\ LessOne(model).open <=> model.arcs > 1
<1> DEFINE o == model.arcs > 1
<1>1. model \in ModelType /\ o \in BOOLEAN
  BY DEF BindTypeOK, ModelType
<1>2. LessOne(model) = [model EXCEPT !.arcs = model.arcs - 1, !.open = o]
  BY DEF LessOne
<1>3. model.arcs - 1 \in 0..2
  BY <1>1 DEF ModelType
<1> HIDE DEF o
<1>4. /\ LessOne(model) \in ModelType
      /\ LessOne(model).report = model.report
      /\ LessOne(model).arcs = model.arcs - 1
      /\ LessOne(model).held = model.held
      /\ LessOne(model).open = o
  BY <1>1, <1>2, <1>3 DEF ModelType
<1> QED  BY <1>4 DEF o

LEMMA ModelIInv ==
  ASSUME BInv, OpenModel \/ DropModel
  PROVE  BInv'
<1> USE DEF BInv
<1>1. UNCHANGED <<heap, hand, guard, ahead, rq, flight, chain>>
  BY DEF OpenModel, DropModel
<1>2. model' \in [report : 0..Len(Reports), arcs : 0..2, held : BOOLEAN, open : BOOLEAN]
      /\ ArcInv'
  <2>1. CASE OpenModel
    <3>1. PICK r \in DOMAIN Reports :
            model' = IF DeriveOK(Reports[r])
                       THEN [report |-> r, arcs |-> 1, held |-> TRUE, open |-> TRUE]
                       ELSE model
      BY <2>1 DEF OpenModel
    <3>2. r \in 1..Len(Reports) /\ Len(Reports) \in Nat
      BY BindingsAssumption
    <3>3. ~model.held /\ rq.at = "none"
      BY <2>1 DEF OpenModel, ArcInv
    <3> HIDE DEF BInv
    <3>4. model' = model \/ model' = [report |-> r, arcs |-> 1, held |-> TRUE, open |-> TRUE]
      BY <3>1
    <3>5. CASE model' = model
      BY <1>1, <3>5 DEF BInv, BindTypeOK, ArcInv
    <3>6. CASE model' = [report |-> r, arcs |-> 1, held |-> TRUE, open |-> TRUE]
      <4>1. model'.report = r /\ model'.arcs = 1 /\ model'.held /\ model'.open
        BY <3>6
      <4>2. r \in 0..Len(Reports) /\ r # 0
        BY <3>2
      <4> QED  BY <1>1, <3>3, <3>6, <4>1, <4>2 DEF ArcInv
    <3> QED  BY <3>4, <3>5, <3>6
  <2>2. CASE DropModel
    <3>1. model.held /\ model.arcs \in {1, 2} /\ model.arcs # 0
      BY <2>2 DEF DropModel, ArcInv
    <3>2. /\ LessOne(model) \in ModelType
          /\ LessOne(model).report = model.report
          /\ LessOne(model).arcs = model.arcs - 1
          /\ LessOne(model).open <=> model.arcs > 1
      BY <3>1, LessOneIs
    <3>3. model' = [LessOne(model) EXCEPT !.held = FALSE]
      BY <2>2 DEF DropModel
    <3>4. /\ model' \in ModelType /\ model'.report = model.report
          /\ model'.arcs = model.arcs - 1 /\ ~model'.held
          /\ model'.open <=> model.arcs > 1
      BY <3>2, <3>3 DEF ModelType
    <3> QED  BY <1>1, <3>1, <3>4 DEF ArcInv, ModelType
  <2> QED  BY <2>1, <2>2
<1>3. BindTypeOK'
  BY <1>1, <1>2 DEF BindTypeOK
<1>4. OwnInv' /\ PtrInv' /\ UseInv' /\ GuardInv'
  BY <1>1 DEF OwnInv, PtrInv, UseInv, GuardInv, BoundTensors
<1>5. AheadInv'
  BY <1>1, AheadKept
<1> QED  BY <1>1, <1>2, <1>3, <1>4, <1>5

(* The client gets a value.                                                 *)
LEMMA TakeStep ==
  ASSUME BInv, NEW x \in (Buffers \cup Handles) \ Alive(heap), HeapOK(heap'),
         Alive(heap') = Alive(heap) \cup {x}, hand' = hand \cup {x},
         \A b \in DOMAIN heap.bufs : b \in DOMAIN heap'.bufs /\ heap'.bufs[b] = heap.bufs[b],
         UNCHANGED <<model, guard, ahead, rq, flight, chain>>
  PROVE  BInv'
<1> USE DEF BInv
<1>1. BindTypeOK'
  BY DEF BindTypeOK, HeapOK
<1>2. OwnInv'
  <2>1. \A s \in Slots : rq.bound[s] # x /\ rq.own[s] # x
    BY DEF OwnInv
  <2> QED  BY <2>1 DEF OwnInv
<1>3. PtrInv' /\ UseInv' /\ ArcInv'
  BY DEF PtrInv, UseInv, ArcInv
<1>4. GuardInv'
  BY DEF GuardInv, BoundTensors
<1>5. AheadInv'
  BY GuardAlive, AheadKept
<1> QED  BY <1>1, <1>2, <1>3, <1>4, <1>5

LEMMA TakeIInv ==
  ASSUME BInv, NewBuffer \/ NewTensorBuffer \/ Alias \/ NewHandle
  PROVE  BInv'
<1>1. ASSUME NEW n, HandOut(n)
      PROVE  BInv'
  <2>1. PICK place \in Places(heap, 1) : \E b \in DOMAIN place :
          /\ heap' = FreshEach(heap, place, [c \in DOMAIN place |-> n])
          /\ hand' = hand \cup {b}
          /\ UNCHANGED <<model, guard, ahead, rq, flight, chain>>
    BY <1>1 DEF HandOut, Fresh, Take
  <2>2. PICK b \in DOMAIN place :
          /\ heap' = FreshEach(heap, place, [c \in DOMAIN place |-> n])
          /\ hand' = hand \cup {b}
          /\ UNCHANGED <<model, guard, ahead, rq, flight, chain>>
    BY <2>1
  <2>3. /\ DOMAIN place \subseteq Buffers \ DOMAIN heap.bufs
        /\ DOMAIN place = {b}
    <3>1. IsFiniteSet(DOMAIN place) /\ Cardinality(DOMAIN place) = 1
          /\ DOMAIN place \subseteq Buffers \ DOMAIN heap.bufs
      BY PlacesOK
    <3> QED  BY <3>1, FS_Singleton
  <2>4. /\ HeapOK(heap') /\ Alive(heap') = Alive(heap) \cup {b}
        /\ \A c \in DOMAIN heap.bufs : c \in DOMAIN heap'.bufs /\ heap'.bufs[c] = heap.bufs[c]
    BY <2>2, <2>3, FreshOK DEF BInv
  <2>5. b \in (Buffers \cup Handles) \ Alive(heap)
    BY <2>3, BindingsAssumption DEF Alive, BInv, HeapOK
  <2> QED  BY <2>2, <2>4, <2>5, TakeStep
<1>2. CASE Alias
  <2>1. PICK x \in Reachable \cap DOMAIN heap.bufs, b \in Buffers \ DOMAIN heap.bufs, n \in Claims :
          /\ heap' = Adopt(heap, b, heap.bufs[x].surface, n) /\ hand' = hand \cup {b}
          /\ UNCHANGED <<model, guard, ahead, rq, flight, chain>>
    BY <1>2 DEF Alias, Take
  <2>2. /\ HeapOK(heap') /\ Alive(heap') = Alive(heap) \cup {b}
        /\ \A c \in DOMAIN heap.bufs : c \in DOMAIN heap'.bufs /\ heap'.bufs[c] = heap.bufs[c]
    <3> DEFINE g == Adopt(heap, b, heap.bufs[x].surface, n)
    <3>1. HeapOK(heap) /\ heap.bufs[x].surface \in DOMAIN heap.surfs /\ heap' = g
      BY <2>1 DEF BInv, HeapOK
    <3>2. /\ HeapOK(g) /\ Alive(g) = Alive(heap) \cup {b}
          /\ \A c \in DOMAIN heap.bufs : c \in DOMAIN g.bufs /\ g.bufs[c] = heap.bufs[c]
      BY <2>1, <3>1, AdoptOK
    <3> QED  BY <3>1, <3>2
  <2>3. b \in (Buffers \cup Handles) \ Alive(heap)
    BY BindingsAssumption DEF Alive, BInv, HeapOK
  <2> QED  BY <2>1, <2>2, <2>3, TakeStep
<1>3. CASE NewHandle
  <2>1. PICK x \in Handles \ heap.handles :
          /\ heap' = [bufs |-> heap.bufs, surfs |-> heap.surfs, handles |-> heap.handles \cup {x}]
          /\ hand' = hand \cup {x}
          /\ UNCHANGED <<model, guard, ahead, rq, flight, chain>>
    BY <1>3 DEF NewHandle, Take
  <2>2. heap'.bufs = heap.bufs /\ heap'.surfs = heap.surfs /\ heap'.handles = heap.handles \cup {x}
        /\ heap' = [bufs |-> heap'.bufs, surfs |-> heap'.surfs, handles |-> heap'.handles]
    BY <2>1
  <2>3. HeapOK(heap')
    BY <2>2 DEF BInv, HeapOK, OfSurface
  <2>4. x \in (Buffers \cup Handles) \ Alive(heap)
    BY BindingsAssumption DEF Alive, BInv, HeapOK
  <2> QED  BY <2>1, <2>2, <2>3, <2>4, TakeStep DEF Alive
<1> QED  BY <1>1, <1>2, <1>3 DEF NewBuffer, NewTensorBuffer

(* The client loses a value: it drops it, or a call that failed did.        *)
LEMMA LoseStep ==
  ASSUME BInv, NEW x \in InHand \cup {Nil}, heap' = Release(heap, {x}),
         hand' = hand \ {x}, ahead' \subseteq ahead,
         UNCHANGED <<model, guard, rq, flight, chain>>
  PROVE  BInv'
<1> USE DEF BInv
<1>1. /\ HeapOK(heap') /\ Alive(heap') = Alive(heap) \ {x}
      /\ \A b \in DOMAIN heap.bufs \ {x} : b \in DOMAIN heap'.bufs /\ heap'.bufs[b] = heap.bufs[b]
  BY ReleaseOK
<1>2. guard # NoGuard => guard.buf # x /\ guard.buf \in DOMAIN heap.bufs
  BY GuardAlive DEF InHand
<1>3. guard.buf \in DOMAIN heap'.bufs \cup {Nil}
  BY <1>1, <1>2, NoUseFacts
<1>4. BindTypeOK'
  BY <1>1, <1>3 DEF BindTypeOK, HeapOK
<1>5. OwnInv'
  <2>1. x # Nil => x \in hand
    BY DEF InHand
  <2>2. \A s \in Slots : x # Nil => rq.bound[s] # x /\ rq.own[s] # x
    BY <2>1 DEF OwnInv
  <2>3. Nil \notin Buffers \cup Handles
    BY BindingsAssumption
  <2>4. \A y \in Buffers \cup Handles :
          y \in Alive(heap)' <=> \/ y \in hand'
                                 \/ \E s \in Slots : rq'.bound[s] = y
                                 \/ \E s \in Slots : rq'.own[s] = y
    <3>1. Alive(heap)' = Alive(heap) \ {x}
      BY <1>1 DEF Alive
    <3> QED  BY <2>1, <2>2, <2>3, <3>1 DEF OwnInv
  <2> QED  BY <2>4 DEF OwnInv
<1>6. PtrInv' /\ UseInv' /\ ArcInv'
  BY DEF PtrInv, UseInv, ArcInv
<1>7. GuardInv'
  BY <1>2, NoUseFacts DEF GuardInv, BoundTensors
<1>8. AheadInv'
  BY <1>1, <1>2, AheadKept
<1> QED  BY <1>1, <1>4, <1>5, <1>6, <1>7, <1>8

(* A guard outside the slots is on a value in hand.                         *)
LEMMA GuardInHand ==
  ASSUME BInv, RequestFree \/ rq.at = "chain", guard # NoGuard
  PROVE  guard.buf \in hand /\ guard.buf \notin BoundTensors
BY GuardAlive DEF BInv, GuardInv, RequestFree, BoundTensors

(* C accepts x for slot s: the slot's old value is dropped.                 *)
LEMMA AcceptStep ==
  ASSUME BInv, NEW s \in Slots, NEW x \in InHand \cup {Nil}, RequestFree, ~InFlight,
         rq' = [rq EXCEPT !.ptr[s] = x, !.bound[s] = x],
         heap' = Release(heap, {rq.bound[s]}), hand' = hand \ {x},
         ahead' \subseteq ahead, UNCHANGED <<model, guard, flight, chain>>
  PROVE  BInv'
<1> USE DEF BInv
<1>0. /\ rq.bound \in Pointers /\ rq.ptr \in Pointers /\ rq.own \in Pointers
      /\ rq.at = "client" /\ flight = NoUse /\ x \in Objects
      /\ x # Nil => x \in hand
  BY DEF BindTypeOK, RequestFree, InFlight, InHand, Objects
<1>1. /\ rq' \in [at : {"none", "client", "chain"}, bound : Pointers, ptr : Pointers,
                  own : Pointers]
      /\ rq'.at = rq.at /\ rq'.own = rq.own
      /\ rq'.bound = [rq.bound EXCEPT ![s] = x] /\ rq'.ptr = [rq.ptr EXCEPT ![s] = x]
  BY <1>0 DEF BindTypeOK, Pointers
<1>2. /\ rq'.bound[s] = x /\ rq'.ptr[s] = x
      /\ \A t \in Slots \ {s} : rq'.bound[t] = rq.bound[t] /\ rq'.ptr[t] = rq.ptr[t]
  BY <1>0, <1>1 DEF Pointers
<1>3. /\ HeapOK(heap') /\ Alive(heap') = Alive(heap) \ {rq.bound[s]}
      /\ \A b \in DOMAIN heap.bufs \ {rq.bound[s]} :
           b \in DOMAIN heap'.bufs /\ heap'.bufs[b] = heap.bufs[b]
  BY ReleaseOK
<1>4. guard # NoGuard => /\ guard.buf # rq.bound[s] /\ guard.buf \in DOMAIN heap.bufs
                         /\ guard.buf \in hand \ {x}
                         /\ guard.buf \notin BoundTensors
  BY GuardAlive, GuardInHand DEF InHand, OwnInv
<1>5. BindTypeOK'
  <2>1. guard.buf \in DOMAIN heap'.bufs \cup {Nil}
    BY <1>3, <1>4, NoUseFacts
  <2> QED  BY <1>1, <1>3, <2>1 DEF BindTypeOK, HeapOK
<1>6. OwnInv'
  <2>1. ASSUME NEW y \in Buffers \cup Handles
        PROVE  y \in Alive(heap)' <=> \/ y \in hand'
                                      \/ \E t \in Slots : rq'.bound[t] = y
                                      \/ \E t \in Slots : rq'.own[t] = y
    <3>1. y # Nil
      BY BindingsAssumption
    <3>2. y \in Alive(heap)' <=> y \in Alive(heap) /\ y # rq.bound[s]
      BY <1>3 DEF Alive
    <3>3. y = rq.bound[s] => /\ y \notin hand /\ y # x
                             /\ \A t \in Slots \ {s} : rq.bound[t] # y
                             /\ \A t \in Slots : rq.own[t] # y
      BY <1>0, <3>1 DEF OwnInv
    <3> QED  BY <1>0, <1>1, <1>2, <3>1, <3>2, <3>3 DEF OwnInv
  <2>2. \A t \in Slots : x # Nil => rq.own[t] # x /\ rq.bound[t] # x
    BY <1>0 DEF OwnInv
  <2>3. \A t \in Slots : rq'.bound[t] # Nil =>
          /\ rq'.bound[t] \notin hand'
          /\ \A u \in Slots : /\ rq'.own[u] # rq'.bound[t]
                              /\ rq'.bound[u] = rq'.bound[t] => u = t
    BY <1>1, <1>2, <2>2 DEF OwnInv
  <2>4. \A t \in Slots : rq'.own[t] # Nil =>
          /\ rq'.own[t] \notin hand'
          /\ \A u \in Slots : rq'.own[u] = rq'.own[t] => u = t
    BY <1>1 DEF OwnInv
  <2> QED  BY <2>1, <2>3, <2>4 DEF OwnInv
<1>7. PtrInv'
  BY <1>0, <1>1, <1>2 DEF PtrInv
<1>8. UseInv'
  <2>1. chain = NoChain
    BY <1>0 DEF BindTypeOK, UseInv
  <2> QED  BY <1>0, <2>1, NoUseFacts DEF UseInv
<1>9. GuardInv'
  <2>1. guard # NoGuard => guard.buf \notin BoundTensors'
    <3>1. \A t \in Tensors : t \in Slots
      BY DEF Slots
    <3> QED  BY <1>2, <1>4, <3>1, GuardAlive DEF BoundTensors
  <2> QED  BY <1>4, <2>1, NoUseFacts DEF GuardInv
<1>10. AheadInv'
  BY <1>3, <1>4, AheadKept
<1>11. ArcInv'
  BY <1>1 DEF ArcInv
<1> QED  BY <1>3, <1>5, <1>6, <1>7, <1>8, <1>9, <1>10, <1>11

LEMMA MoveIInv ==
  ASSUME BInv, DropValue \/ BindTensor \/ BindState \/ SetAttachment
  PROVE  BInv'
<1>1. CASE DropValue
  <2>1. PICK x \in InHand : /\ heap' = Release(heap, {x}) /\ hand' = hand \ {x}
                            /\ ahead' \subseteq ahead
                            /\ UNCHANGED <<model, guard, rq, flight, chain>>
    BY <1>1 DEF DropValue
  <2> QED  BY <2>1, LoseStep
<1>2. ASSUME NEW s \in Slots, NEW x \in InHand \cup {Nil}, RequestFree,
             NEW c, Move(s, x, c),
             \/ c = [ok |-> FALSE, r |-> rq]
             \/ ~InFlight /\ c = [ok |-> TRUE, r |-> [rq EXCEPT !.ptr[s] = x]]
      PROVE  BInv'
  <2>1. /\ hand' = hand \ {x} /\ ahead' \subseteq ahead
        /\ UNCHANGED <<model, guard, flight, chain>>
    BY <1>2 DEF Move
  <2>2. CASE c = [ok |-> FALSE, r |-> rq]
    <3>1. rq' = rq /\ heap' = Release(heap, {x})
      BY <1>2, <2>2 DEF Move
    <3> QED  BY <1>2, <2>1, <3>1, LoseStep
  <2>3. CASE ~InFlight /\ c = [ok |-> TRUE, r |-> [rq EXCEPT !.ptr[s] = x]]
    <3>1. /\ rq' = [[rq EXCEPT !.ptr[s] = x] EXCEPT !.bound[s] = x]
          /\ heap' = Release(heap, {rq.bound[s]})
      BY <1>2, <2>3 DEF Move
    <3>2. rq' = [rq EXCEPT !.ptr[s] = x, !.bound[s] = x]
      BY <3>1
    <3> QED  BY <1>2, <2>1, <2>3, <3>1, <3>2, AcceptStep
  <2> QED  BY <1>2, <2>2, <2>3
<1>3. CASE BindTensor
  <2>1. PICK s \in Tensors, b \in InHand \cap DOMAIN heap.bufs :
          RequestFree /\ Move(s, b, Bind(rq, s, b))
    BY <1>3 DEF BindTensor
  <2>2. \/ Bind(rq, s, b) = [ok |-> FALSE, r |-> rq]
        \/ ~InFlight /\ Bind(rq, s, b) = [ok |-> TRUE, r |-> [rq EXCEPT !.ptr[s] = b]]
    BY DEF Bind
  <2> QED  BY <1>2, <2>1, <2>2 DEF Slots
<1>4. CASE BindState
  <2>1. PICK b \in InHand \cap DOMAIN heap.bufs :
          RequestFree /\ Move(Weights, b, [ok |-> FALSE, r |-> rq])
    BY <1>4 DEF BindState
  <2>2. Weights \in Slots
    BY DEF Weights, Slots, Attachments
  <2> QED  BY <1>2, <2>1, <2>2
<1>5. CASE SetAttachment
  <2>1. PICK s \in Attachments, x \in InHand \cup {Nil} :
          RequestFree /\ Move(s, x, Set(rq, s, x))
    BY <1>5 DEF SetAttachment
  <2>2. \/ Set(rq, s, x) = [ok |-> FALSE, r |-> rq]
        \/ ~InFlight /\ Set(rq, s, x) = [ok |-> TRUE, r |-> [rq EXCEPT !.ptr[s] = x]]
    BY DEF Set
  <2> QED  BY <1>2, <2>1, <2>2 DEF Slots
<1> QED  BY <1>1, <1>3, <1>4, <1>5

(* Locks, writes and unlocks.                                               *)
LEMMA GuardIInv ==
  ASSUME BInv, Lock \/ WriteLocked \/ Unlock
  PROVE  BInv'
<1> USE DEF BInv
<1>1. UNCHANGED <<model, heap, hand, rq, flight, chain>>
  BY DEF Lock, WriteLocked, Unlock
<1>2. HeapOK(heap') /\ OwnInv' /\ PtrInv' /\ UseInv' /\ ArcInv'
  BY <1>1 DEF OwnInv, PtrInv, UseInv, ArcInv, Alive
<1>3. CASE Lock
  <2>1. PICK b \in Reachable \cap DOMAIN heap.bufs, access \in {"read", "write", "nosync"} :
          /\ guard = NoGuard /\ guard' = [buf |-> b, flags |-> LockFlags(access)]
          /\ UNCHANGED ahead
    BY <1>3 DEF Lock
  <2>2. LockFlags(access) \in {{}, {"ReadOnly"}, {"AvoidSync"}}
    BY DEF LockFlags
  <2>3. b # Nil /\ b \in DOMAIN heap.bufs
    BY <2>1, BindingsAssumption DEF BindTypeOK
  <2>4. /\ b \in hand \cup BoundTensors
        /\ b \in BoundTensors => rq.at = "client" /\ flight = NoUse
    <3>1. b \in hand => b \notin BoundTensors
      BY <2>3 DEF OwnInv, BoundTensors, Slots
    <3> QED  BY <2>1, <3>1 DEF Reachable, InHand, RequestFree, InFlight, BoundTensors
  <2>5. guard'.buf = b /\ guard'.flags = LockFlags(access)
    BY <2>1
  <2>6. ahead' = {}
    BY <2>1 DEF AheadInv, WritesPublished
  <2>7. GuardInv'
    BY <1>1, <2>1, <2>2, <2>3, <2>4, <2>5 DEF GuardInv, BoundTensors
  <2>8. AheadInv'
    BY <2>6 DEF AheadInv, WritesPublished
  <2>9. BindTypeOK'
    BY <1>1, <2>3, <2>5 DEF BindTypeOK
  <2> QED  BY <1>2, <2>7, <2>8, <2>9
<1>4. CASE WriteLocked
  <2>1. /\ guard # NoGuard /\ "ReadOnly" \notin guard.flags /\ UNCHANGED guard
        /\ ahead' = ahead \cup {heap.bufs[guard.buf].surface}
    BY <1>4 DEF WriteLocked
  <2> QED  BY <1>1, <1>2, <2>1 DEF BindTypeOK, GuardInv, BoundTensors, AheadInv, WritesPublished
<1>5. CASE Unlock
  <2>1. /\ guard # NoGuard /\ guard' = NoGuard
        /\ ahead' = IF UnlockFlags(guard.flags) = {}
                      THEN ahead \ {heap.bufs[guard.buf].surface} ELSE ahead
    BY <1>5 DEF Unlock
  <2>2. ahead' = {}
    <3>1. CASE "ReadOnly" \in guard.flags
      BY <2>1, <3>1 DEF AheadInv
    <3>2. CASE "ReadOnly" \notin guard.flags
      <4>1. guard.flags \in {{}, {"AvoidSync"}}
        BY <3>2 DEF GuardInv
      <4>2. UnlockFlags(guard.flags) = {}
        BY <4>1 DEF UnlockFlags
      <4> QED  BY <2>1, <4>2 DEF AheadInv, WritesPublished
    <3> QED  BY <3>1, <3>2
  <2>3. guard'.buf = Nil /\ guard'.flags = {}
    BY <2>1, NoUseFacts
  <2>4. GuardInv' /\ AheadInv'
    BY <1>1, <2>1, <2>2, <2>3 DEF GuardInv, AheadInv, WritesPublished, NoGuard
  <2>5. BindTypeOK'
    BY <1>1, <2>3 DEF BindTypeOK
  <2> QED  BY <1>2, <2>4, <2>5
<1> QED  BY <1>3, <1>4, <1>5

LEMMA NewRequestIInv ==
  ASSUME BInv, NewRequest
  PROVE  BInv'
<1> USE DEF BInv
<1>1. /\ model.held /\ rq.at = "none" /\ model' = [model EXCEPT !.arcs = @ + 1]
      /\ rq' = [NoRequest EXCEPT !.at = "client"]
      /\ UNCHANGED <<heap, hand, guard, ahead, flight, chain>>
  BY DEF NewRequest
<1>2. /\ rq = NoRequest /\ rq'.at = "client" /\ rq'.bound = NoUse /\ rq'.ptr = NoUse
      /\ rq'.own = NoUse /\ rq.bound = NoUse /\ rq.own = NoUse /\ rq.ptr = NoUse
      /\ rq' \in [at : {"none", "client", "chain"}, bound : Pointers, ptr : Pointers,
                  own : Pointers]
  BY <1>1, NoUseFacts DEF PtrInv
<1>3. /\ model.arcs = 1 /\ model' \in ModelType
      /\ model'.arcs = 2 /\ model'.held = model.held /\ model'.open = model.open
      /\ model'.report = model.report
  <2>1. model.arcs = 1 /\ model \in ModelType
    BY <1>1 DEF ArcInv, BindTypeOK, ModelType
  <2>2. model' = [model EXCEPT !.arcs = 2]
    BY <1>1, <2>1
  <2> QED  BY <2>1, <2>2 DEF ModelType
<1>4. BindTypeOK'
  BY <1>1, <1>2, <1>3 DEF BindTypeOK, ModelType
<1>5. OwnInv' /\ PtrInv'
  BY <1>1, <1>2, NoUseFacts DEF OwnInv, PtrInv, Alive
<1>6. UseInv'
  <2>1. flight = NoUse
    BY <1>1 DEF UseInv
  <2> QED  BY <1>1, <1>2, <2>1, NoUseFacts DEF UseInv
<1>7. GuardInv'
  BY <1>1, <1>2 DEF GuardInv, BoundTensors
<1>8. AheadInv'
  BY <1>1, AheadKept
<1>9. ArcInv'
  BY <1>1, <1>2, <1>3 DEF ArcInv
<1> QED  BY <1>1, <1>4, <1>5, <1>6, <1>7, <1>8, <1>9

(* The request gets buffers of its own, those of at for the slots of N, and *)
(* C points to what the request owns where ptr says so.                     *)
GetsOwn(N, at, ptr, own) ==
  /\ RequestFree /\ ~InFlight
  /\ N \in SUBSET Slots /\ at \in [N -> Buffers]
  /\ \A s \in N : /\ rq.own[s] = Nil /\ at[s] \notin Alive(heap)
                  /\ \A t \in N : at[t] = at[s] => t = s
  /\ HeapOK(heap') /\ Alive(heap') = Alive(heap) \cup {at[s] : s \in N}
  /\ \A b \in DOMAIN heap.bufs : b \in DOMAIN heap'.bufs /\ heap'.bufs[b] = heap.bufs[b]
  /\ ptr \in Pointers /\ own \in Pointers
  /\ own = [s \in Slots |-> IF s \in N THEN at[s] ELSE rq.own[s]]
  /\ \A s \in Slots : \/ ptr[s] = rq.ptr[s]
                      \/ ptr[s] = own[s] /\ (s \in Inputs \/ rq.bound[s] = Nil)
  /\ rq' = [rq EXCEPT !.own = own, !.ptr = ptr] /\ flight' \in {NoUse, ptr}
  /\ UNCHANGED <<model, hand, guard, ahead, chain>>

LEMMA OwnStep ==
  ASSUME BInv, NEW N, NEW at, NEW ptr, NEW own, GetsOwn(N, at, ptr, own)
  PROVE  BInv'
<1> USE DEF BInv, GetsOwn
<1>0. /\ rq.bound \in Pointers /\ rq.ptr \in Pointers /\ rq.own \in Pointers
      /\ rq.at = "client" /\ flight = NoUse
  BY DEF BindTypeOK, RequestFree, InFlight
<1>1. /\ rq' \in [at : {"none", "client", "chain"}, bound : Pointers, ptr : Pointers,
                  own : Pointers]
      /\ rq'.at = rq.at /\ rq'.bound = rq.bound /\ rq'.own = own /\ rq'.ptr = ptr
  BY <1>0 DEF BindTypeOK
<1>2. /\ \A s \in N : own[s] = at[s] /\ at[s] \in Buffers /\ at[s] # Nil
      /\ \A s \in Slots \ N : own[s] = rq.own[s]
  BY BindingsAssumption
<1>3. \A s \in N : /\ at[s] \notin hand
                   /\ \A t \in Slots : rq.bound[t] # at[s] /\ rq.own[t] # at[s]
  BY <1>2 DEF OwnInv
<1>4. BindTypeOK'
  <2>1. guard.buf \in DOMAIN heap'.bufs \cup {Nil}
    BY DEF BindTypeOK
  <2>2. flight' \in Pointers
    BY NoUseFacts
  <2> QED  BY <1>1, <2>1, <2>2 DEF BindTypeOK, HeapOK
<1>5. OwnInv'
  <2>1. ASSUME NEW y \in Buffers \cup Handles
        PROVE  y \in Alive(heap)' <=> \/ y \in hand'
                                      \/ \E t \in Slots : rq'.bound[t] = y
                                      \/ \E t \in Slots : rq'.own[t] = y
    <3>1. y \in Alive(heap)' <=> y \in Alive(heap) \/ \E s \in N : at[s] = y
      BY DEF Alive
    <3>2. y # Nil
      BY BindingsAssumption
    <3>3. (\E t \in Slots : own[t] = y) <=> (\E t \in Slots : rq.own[t] = y) \/ \E s \in N : at[s] = y
      BY <1>2, <3>2
    <3> QED  BY <1>1, <3>1, <3>3 DEF OwnInv
  <2>2. \A t \in Slots : rq'.bound[t] # Nil =>
          /\ rq'.bound[t] \notin hand'
          /\ \A u \in Slots : /\ rq'.own[u] # rq'.bound[t]
                              /\ rq'.bound[u] = rq'.bound[t] => u = t
    BY <1>1, <1>2, <1>3 DEF OwnInv
  <2>3. \A t \in Slots : rq'.own[t] # Nil =>
          /\ rq'.own[t] \notin hand'
          /\ \A u \in Slots : rq'.own[u] = rq'.own[t] => u = t
    BY <1>1, <1>2, <1>3 DEF OwnInv
  <2> QED  BY <2>1, <2>2, <2>3 DEF OwnInv
<1>6. PtrInv'
  <2>1. ASSUME NEW s \in Slots
        PROVE  /\ ptr[s] # Nil => ptr[s] \in {rq.bound[s], own[s]}
               /\ s \notin Inputs /\ rq.bound[s] # Nil => ptr[s] = rq.bound[s]
    BY <1>2 DEF PtrInv
  <2> QED  BY <1>0, <1>1, <2>1 DEF PtrInv
<1>7. UseInv'
  <2>1. chain = NoChain
    BY <1>0 DEF BindTypeOK, UseInv
  <2> QED  BY <1>0, <1>1, <2>1, NoUseFacts DEF UseInv
<1>8. GuardInv'
  <2>1. guard # NoGuard => guard.buf \in hand /\ guard.buf \notin BoundTensors
    BY GuardInHand
  <2>2. BoundTensors' = BoundTensors
    BY <1>1 DEF BoundTensors
  <2> QED  BY <2>1, <2>2, NoUseFacts DEF GuardInv
<1>9. AheadInv'
  BY GuardAlive, AheadKept
<1>10. ArcInv'
  BY <1>1 DEF ArcInv
<1> QED  BY <1>4, <1>5, <1>6, <1>7, <1>8, <1>9, <1>10

LEMMA SetInputBytesIInv ==
  ASSUME BInv, SetInputBytes
  PROVE  BInv'
<1>1. PICK s \in Inputs :
        /\ RequestFree /\ ~InFlight
        /\ \/ /\ rq.own[s] # Nil
              /\ rq' = [rq EXCEPT !.ptr[s] = rq.own[s]] /\ UNCHANGED heap
           \/ /\ rq.own[s] = Nil
              /\ \E place \in Places(heap, 1) : \E b \in DOMAIN place :
                   /\ heap' = Fresh(heap, place, Need(s))
                   /\ rq' = [rq EXCEPT !.own[s] = b, !.ptr[s] = b]
        /\ UNCHANGED <<model, hand, guard, ahead, flight, chain>>
  BY DEF SetInputBytes
<1>2. /\ rq \in [at : {"none", "client", "chain"}, bound : Pointers, ptr : Pointers,
                 own : Pointers]
      /\ HeapOK(heap) /\ flight = NoUse /\ s \in Slots
  BY <1>1 DEF BInv, BindTypeOK, InFlight, Slots, Tensors
<1>3. CASE rq.own[s] # Nil /\ rq' = [rq EXCEPT !.ptr[s] = rq.own[s]] /\ UNCHANGED heap
  <2> DEFINE N == {}
             at == [t \in {} |-> Nil]
             own == [t \in Slots |-> IF t \in N THEN at[t] ELSE rq.own[t]]
             ptr == [rq.ptr EXCEPT ![s] = rq.own[s]]
  <2>1. N \in SUBSET Slots /\ at \in [N -> Buffers]
    OBVIOUS
  <2>2. own = rq.own /\ own \in Pointers /\ ptr \in Pointers
    BY <1>2 DEF Pointers
  <2>3. \A t \in Slots : \/ ptr[t] = rq.ptr[t]
                         \/ ptr[t] = own[t] /\ (t \in Inputs \/ rq.bound[t] = Nil)
    BY <1>2, <2>2 DEF Pointers
  <2>4. rq' = [rq EXCEPT !.own = own, !.ptr = ptr]
    <3>1. rq = [at |-> rq.at, bound |-> rq.bound, ptr |-> rq.ptr, own |-> rq.own]
      BY <1>2
    <3>2. rq' = [rq EXCEPT !.ptr = ptr]
      BY <1>3
    <3> HIDE DEF own, ptr
    <3> QED  BY <2>2, <3>1, <3>2
  <2>5. /\ HeapOK(heap') /\ Alive(heap') = Alive(heap) \cup {at[t] : t \in N}
        /\ \A b \in DOMAIN heap.bufs : b \in DOMAIN heap'.bufs /\ heap'.bufs[b] = heap.bufs[b]
    BY <1>2, <1>3 DEF Alive
  <2>6. \A t \in N : /\ rq.own[t] = Nil /\ at[t] \notin Alive(heap)
                     /\ \A u \in N : at[u] = at[t] => u = t
    OBVIOUS
  <2>7. own = [t \in Slots |-> IF t \in N THEN at[t] ELSE rq.own[t]]
    OBVIOUS
  <2>8. /\ RequestFree /\ ~InFlight /\ flight' \in {NoUse, ptr}
        /\ UNCHANGED <<model, hand, guard, ahead, chain>>
    BY <1>1, <1>2
  <2> HIDE DEF N, at, own, ptr
  <2>9. GetsOwn(N, at, ptr, own)
    BY <2>1, <2>2, <2>3, <2>4, <2>5, <2>6, <2>7, <2>8 DEF GetsOwn
  <2> QED  BY <2>9, OwnStep
<1>4. CASE /\ rq.own[s] = Nil
           /\ \E place \in Places(heap, 1) : \E b \in DOMAIN place :
                /\ heap' = Fresh(heap, place, Need(s))
                /\ rq' = [rq EXCEPT !.own[s] = b, !.ptr[s] = b]
  <2>0. PICK place \in Places(heap, 1) : \E b \in DOMAIN place :
          /\ heap' = Fresh(heap, place, Need(s))
          /\ rq' = [rq EXCEPT !.own[s] = b, !.ptr[s] = b]
    BY <1>4
  <2>1. PICK b \in DOMAIN place :
          /\ heap' = FreshEach(heap, place, [c \in DOMAIN place |-> Need(s)])
          /\ rq' = [rq EXCEPT !.own[s] = b, !.ptr[s] = b]
    BY <2>0 DEF Fresh
  <2>2. DOMAIN place = {b} /\ b \in Buffers \ DOMAIN heap.bufs
    <3>1. IsFiniteSet(DOMAIN place) /\ Cardinality(DOMAIN place) = 1
          /\ DOMAIN place \subseteq Buffers \ DOMAIN heap.bufs
      BY PlacesOK
    <3> QED  BY <2>1, <3>1, FS_Singleton
  <2> DEFINE N == {s}
             at == [t \in {s} |-> b]
             own == [t \in Slots |-> IF t \in N THEN at[t] ELSE rq.own[t]]
             ptr == [rq.ptr EXCEPT ![s] = b]
  <2>3. N \in SUBSET Slots /\ at \in [N -> Buffers] /\ {at[t] : t \in N} = {b}
    BY <1>2, <2>2
  <2>4. own = [rq.own EXCEPT ![s] = b] /\ own \in Pointers /\ ptr \in Pointers
    BY <1>2, <2>2 DEF Pointers, Objects
  <2>5. \A t \in Slots : \/ ptr[t] = rq.ptr[t]
                         \/ ptr[t] = own[t] /\ (t \in Inputs \/ rq.bound[t] = Nil)
    BY <1>2, <2>2 DEF Pointers
  <2>6. rq' = [rq EXCEPT !.own = own, !.ptr = ptr]
    <3>1. rq' = [rq EXCEPT !.own = [rq.own EXCEPT ![s] = b], !.ptr = ptr]
      BY <2>1
    <3> HIDE DEF own, ptr
    <3> QED  BY <2>4, <3>1
  <2>7. /\ HeapOK(heap') /\ Alive(heap') = Alive(heap) \cup {at[t] : t \in N}
        /\ \A c \in DOMAIN heap.bufs : c \in DOMAIN heap'.bufs /\ heap'.bufs[c] = heap.bufs[c]
    BY <1>2, <2>1, <2>2, <2>3, FreshOK
  <2>8. \A t \in N : /\ rq.own[t] = Nil /\ at[t] \notin Alive(heap)
                     /\ \A u \in N : at[u] = at[t] => u = t
    BY <1>2, <1>4, <2>2, BindingsAssumption DEF Alive, HeapOK
  <2>9. own = [t \in Slots |-> IF t \in N THEN at[t] ELSE rq.own[t]]
    OBVIOUS
  <2>10. /\ RequestFree /\ ~InFlight /\ flight' \in {NoUse, ptr}
         /\ UNCHANGED <<model, hand, guard, ahead, chain>>
    BY <1>1, <1>2
  <2> HIDE DEF N, at, own, ptr
  <2>11. GetsOwn(N, at, ptr, own)
    BY <2>3, <2>4, <2>5, <2>6, <2>7, <2>8, <2>9, <2>10 DEF GetsOwn
  <2> QED  BY <2>11, OwnStep
<1> QED  BY <1>1, <1>3, <1>4

(* There are finitely many outputs.                                         *)
LEMMA OutputsFinite == IsFiniteSet(Outputs)
<1> DEFINE I == 0..(NumOut - 1)
           f == [i \in I |-> <<"out", i>>]
<1>1. IsFiniteSet(I)
  BY FS_Interval, BindingsAssumption
<1>2. f \in Surjection(I, Outputs)
  BY DEF Surjection, Outputs
<1> QED  BY <1>1, <1>2, FS_Surjection

LEMMA FallbackStep ==
  ASSUME BInv, RequestFree, ~InFlight, NEW k, Fallback(k), flight' \in {NoUse, rq'.ptr},
         UNCHANGED <<model, hand, guard, ahead, chain>>
  PROVE  BInv'
<1> DEFINE N == {s \in Unbound(k) : rq.own[s] = Nil}
<1>0. /\ rq \in [at : {"none", "client", "chain"}, bound : Pointers, ptr : Pointers,
                 own : Pointers]
      /\ HeapOK(heap)
  BY DEF BInv, BindTypeOK
<1>1. N \in SUBSET Outputs /\ N \in SUBSET Slots /\ IsFiniteSet(N) /\ Cardinality(N) \in Nat
  <2>1. N \in SUBSET Outputs /\ N \in SUBSET Slots
    BY DEF Unbound, Slots, Tensors
  <2> HIDE DEF N
  <2> QED  BY <2>1, OutputsFinite, FS_Subset, FS_CardinalityType
<1>2. PICK place \in Places(heap, Cardinality(N)) : \E at \in [N -> DOMAIN place] :
        LET own == [s \in Slots |-> IF s \in N THEN at[s] ELSE rq.own[s]]
        IN /\ Cardinality({at[s] : s \in N}) = Cardinality(N)
           /\ heap' = FreshEach(heap, place, [b \in DOMAIN place |->
                        Need(CHOOSE s \in N : at[s] = b)])
           /\ rq' = [rq EXCEPT
                       !.own = own,
                       !.ptr = [s \in Slots |-> IF s \in Unbound(k) THEN own[s] ELSE @[s]]]
  BY DEF Fallback
<1>3. PICK at \in [N -> DOMAIN place] :
        LET own == [s \in Slots |-> IF s \in N THEN at[s] ELSE rq.own[s]]
        IN /\ Cardinality({at[s] : s \in N}) = Cardinality(N)
           /\ heap' = FreshEach(heap, place, [b \in DOMAIN place |->
                        Need(CHOOSE s \in N : at[s] = b)])
           /\ rq' = [rq EXCEPT
                       !.own = own,
                       !.ptr = [s \in Slots |-> IF s \in Unbound(k) THEN own[s] ELSE @[s]]]
  BY <1>2
<1> DEFINE own == [s \in Slots |-> IF s \in N THEN at[s] ELSE rq.own[s]]
           ptr == [s \in Slots |-> IF s \in Unbound(k) THEN own[s] ELSE rq.ptr[s]]
           T == {at[s] : s \in N}
<1>4. /\ DOMAIN place \subseteq Buffers \ DOMAIN heap.bufs
      /\ IsFiniteSet(DOMAIN place) /\ Cardinality(DOMAIN place) = Cardinality(N)
  BY <1>1, PlacesOK
<1>5. at \in [N -> Buffers] /\ at \in [N -> DOMAIN place]
  <2>1. at \in [N -> DOMAIN place]
    BY <1>3
  <2> HIDE DEF N
  <2> QED  BY <1>4, <2>1
<1>6. T = DOMAIN place /\ \A s, t \in N : at[t] = at[s] => t = s
  <2>1. Cardinality(T) = Cardinality(N)
    BY <1>3
  <2>2. T \subseteq DOMAIN place /\ at \in Surjection(N, T)
    <3> HIDE DEF N
    <3> QED  BY <1>5 DEF Surjection
  <2> HIDE DEF N, T
  <2>3. T = DOMAIN place
    BY <1>4, <2>1, <2>2, FS_Subset
  <2>4. at \in Injection(N, T)
    BY <1>1, <2>1, <2>2, FS_SurjSameCardinalityImpliesInj
  <2> QED  BY <2>3, <2>4 DEF Injection, IsInjective
<1>7. /\ HeapOK(heap') /\ Alive(heap') = Alive(heap) \cup {at[s] : s \in N}
      /\ \A b \in DOMAIN heap.bufs : b \in DOMAIN heap'.bufs /\ heap'.bufs[b] = heap.bufs[b]
  <2> DEFINE n == [b \in DOMAIN place |-> Need(CHOOSE s \in N : at[s] = b)]
  <2>1. heap' = FreshEach(heap, place, n)
    BY <1>3
  <2> HIDE DEF n, N
  <2> QED  BY <1>0, <1>1, <1>2, <1>6, <2>1, FreshOK
<1>8. own \in Pointers /\ ptr \in Pointers
  <2> HIDE DEF N
  <2> QED  BY <1>0, <1>5 DEF Pointers, Objects
<1>9. \A s \in N : /\ rq.own[s] = Nil /\ at[s] \notin Alive(heap)
                   /\ \A t \in N : at[t] = at[s] => t = s
  <2>1. \A b \in DOMAIN place : b \notin Alive(heap)
    BY <1>0, <1>4, BindingsAssumption DEF Alive, HeapOK
  <2>2. \A s \in N : rq.own[s] = Nil
    OBVIOUS
  <2> HIDE DEF N
  <2> QED  BY <1>5, <1>6, <2>1, <2>2
<1>10. \A s \in Slots : \/ ptr[s] = rq.ptr[s]
                        \/ ptr[s] = own[s] /\ (s \in Inputs \/ rq.bound[s] = Nil)
  <2>1. ASSUME NEW s \in Unbound(k)
        PROVE  s \in Slots /\ s \notin Inputs /\ rq.ptr[s] = Nil
    BY DEF Unbound, Slots, Tensors, Inputs, Outputs
  <2>2. \A s \in Unbound(k) : rq.bound[s] = Nil
    BY <2>1 DEF BInv, PtrInv
  <2> HIDE DEF own
  <2> QED  BY <2>2
<1>11. rq' = [rq EXCEPT !.own = own, !.ptr = ptr]
  BY <1>3
<1>12. flight' \in {NoUse, ptr}
  <2> HIDE DEF own, ptr
  <2>1. rq'.ptr = ptr
    BY <1>0, <1>11
  <2> QED  BY <2>1
<1>13. own = [s \in Slots |-> IF s \in N THEN at[s] ELSE rq.own[s]]
  OBVIOUS
<1> HIDE DEF N, own, ptr
<1>14. GetsOwn(N, at, ptr, own)
  BY <1>1, <1>5, <1>7, <1>8, <1>9, <1>10, <1>11, <1>12, <1>13 DEF GetsOwn
<1> QED  BY <1>14, OwnStep

LEMMA SubmitIInv ==
  ASSUME BInv, Submit \/ Run \/ SubmitFails
  PROVE  BInv'
<1>1. PICK k : /\ CanBuild /\ Fallback(k) /\ flight' \in {flight, rq'.ptr}
               /\ UNCHANGED <<model, hand, guard, ahead, chain>>
  BY DEF Submit, Run, SubmitFails
<1> QED  BY <1>1, FallbackStep DEF CanBuild, InFlight

(* Evaluations and enqueues end; a request is moved into a chain.           *)
LEMMA ChainIInv ==
  ASSUME BInv, EvalEnds \/ ChainNew \/ ChainEnqueue \/ ChainEnds
  PROVE  BInv'
<1> USE DEF BInv
<1>1. UNCHANGED <<model, heap, hand, guard, ahead>>
  BY DEF EvalEnds, ChainNew, ChainEnqueue, ChainEnds
<1>2. CASE EvalEnds
  <2>1. flight' = NoUse /\ UNCHANGED <<rq, chain>>
    BY <1>2 DEF EvalEnds
  <2>2. BindTypeOK'
    BY <1>1, <2>1, NoUseFacts DEF BindTypeOK
  <2>3. OwnInv' /\ PtrInv' /\ ArcInv'
    BY <1>1, <2>1 DEF OwnInv, PtrInv, ArcInv
  <2>4. UseInv'
    BY <1>1, <2>1, NoUseFacts DEF UseInv
  <2>5. GuardInv'
    BY <1>1, <2>1 DEF GuardInv, BoundTensors
  <2>6. AheadInv'
    BY <1>1, AheadKept
  <2> QED  BY <1>1, <2>2, <2>3, <2>4, <2>5, <2>6
<1>3. CASE ChainNew
  <2> DEFINE uses == [s \in Slots |-> IF s \in Tensors THEN rq.ptr[s] ELSE Nil]
  <2>1. /\ RequestFree /\ chain' = [live |-> TRUE, busy |-> FALSE, uses |-> uses]
        /\ rq' = [rq EXCEPT !.at = "chain"] /\ UNCHANGED flight
    BY <1>3 DEF ChainNew
  <2>2. uses \in Pointers /\ \A s \in Slots : uses[s] # Nil => uses[s] = rq.ptr[s]
    BY DEF BindTypeOK, Pointers, Objects
  <2> HIDE DEF uses
  <2>3. chain'.live = TRUE /\ chain'.uses = uses
    BY <2>1
  <2>4. /\ rq' \in [at : {"none", "client", "chain"}, bound : Pointers, ptr : Pointers,
                    own : Pointers]
        /\ rq'.at = "chain" /\ rq'.bound = rq.bound /\ rq'.ptr = rq.ptr /\ rq'.own = rq.own
        /\ rq.at = "client"
    BY <2>1 DEF BindTypeOK, RequestFree
  <2>5. BindTypeOK'
    BY <1>1, <2>1, <2>2, <2>3, <2>4 DEF BindTypeOK
  <2>6. OwnInv' /\ PtrInv' /\ ArcInv'
    BY <1>1, <2>4 DEF OwnInv, PtrInv, ArcInv
  <2>7. UseInv'
    BY <2>1, <2>2, <2>3, <2>4 DEF UseInv
  <2>8. GuardInv'
    BY <1>1, <2>1, <2>4, GuardInHand, NoUseFacts DEF GuardInv, BoundTensors
  <2>9. AheadInv'
    BY <1>1, AheadKept
  <2> QED  BY <1>1, <2>5, <2>6, <2>7, <2>8, <2>9
<1>4. CASE ChainEnqueue \/ ChainEnds
  <2>1. PICK y \in BOOLEAN : chain' = [chain EXCEPT !.busy = y] /\ UNCHANGED <<rq, flight>>
    BY <1>4 DEF ChainEnqueue, ChainEnds
  <2>2. chain.live
    BY <1>4, NoUseFacts DEF ChainEnqueue, ChainEnds, UseInv
  <2>3. chain'.live = chain.live /\ chain'.uses = chain.uses
    BY <2>1
  <2>4. BindTypeOK'
    BY <1>1, <2>1, <2>3 DEF BindTypeOK
  <2>5. OwnInv' /\ PtrInv' /\ UseInv' /\ GuardInv' /\ ArcInv'
    BY <1>1, <2>1, <2>2, <2>3 DEF OwnInv, PtrInv, UseInv, GuardInv, BoundTensors, ArcInv
  <2>6. AheadInv'
    BY <1>1, AheadKept
  <2> QED  BY <1>1, <2>4, <2>5, <2>6
<1> QED  BY <1>2, <1>3, <1>4

(* A request goes, with the chain or without one.                           *)
LEMMA GoneIInv ==
  ASSUME BInv, DropRequest \/ DropChain
  PROVE  BInv'
<1> USE DEF BInv
<1>1. /\ RequestFree \/ rq.at = "chain"
      /\ flight = NoUse /\ chain' = NoChain
      /\ heap' = Release(heap, Owned(rq)) /\ model' = LessOne(model) /\ rq' = NoRequest
      /\ ahead' \subseteq ahead /\ UNCHANGED <<hand, guard, flight>>
  <2>1. CASE DropRequest
    <3>1. rq.at = "client" /\ UNCHANGED chain
      BY <2>1 DEF DropRequest, RequestFree
    <3>2. chain = NoChain
      BY <3>1 DEF BindTypeOK, UseInv
    <3> QED  BY <2>1, <3>1, <3>2 DEF DropRequest, Gone, Drained, InFlight
  <2>2. CASE DropChain
    <3>1. rq.at = "chain"
      BY <2>2 DEF DropChain, BindTypeOK
    <3> QED  BY <2>2, <3>1 DEF DropChain, Gone, Drained, InFlight
  <2> QED  BY <2>1, <2>2
<1>2. rq.at # "none"
  BY <1>1 DEF RequestFree
<1>3. /\ HeapOK(heap') /\ Alive(heap') = Alive(heap) \ Owned(rq)
      /\ \A b \in DOMAIN heap.bufs \ Owned(rq) :
           b \in DOMAIN heap'.bufs /\ heap'.bufs[b] = heap.bufs[b]
  BY <1>1, ReleaseOK
<1>4. \A x \in Owned(rq) : x \notin hand
  BY DEF Owned, OwnInv
<1>5. guard # NoGuard => /\ guard.buf \in hand /\ guard.buf \notin Owned(rq)
                         /\ guard.buf \in DOMAIN heap.bufs
  BY <1>1, <1>4, GuardInHand, GuardAlive
<1>6. /\ model' \in ModelType /\ model'.report = model.report
      /\ model'.arcs = model.arcs - 1 /\ model'.held = model.held
      /\ model'.open <=> model.arcs > 1
  <2>1. model.arcs # 0
    BY <1>2 DEF ArcInv
  <2>2. /\ LessOne(model) \in ModelType /\ LessOne(model).report = model.report
        /\ LessOne(model).arcs = model.arcs - 1 /\ LessOne(model).held = model.held
        /\ LessOne(model).open <=> model.arcs > 1
    BY <2>1, LessOneIs
  <2> QED  BY <1>1, <2>2
<1>7. BindTypeOK'
  <2>1. guard.buf \in DOMAIN heap'.bufs \cup {Nil}
    BY <1>3, <1>5, NoUseFacts
  <2> QED  BY <1>1, <1>3, <1>6, <2>1, NoUseFacts DEF BindTypeOK, HeapOK, ModelType
<1>8. OwnInv'
  <2>1. ASSUME NEW y \in Buffers \cup Handles
        PROVE  y \in Alive(heap)' <=> y \in hand'
    <3>1. y \in Alive(heap)' <=> y \in Alive(heap) /\ y \notin Owned(rq)
      BY <1>3 DEF Alive
    <3>2. y \in Owned(rq) <=> \/ \E s \in Slots : rq.bound[s] = y
                              \/ \E s \in Slots : rq.own[s] = y
      BY BindingsAssumption DEF Owned
    <3> QED  BY <1>1, <1>4, <3>1, <3>2 DEF OwnInv
  <2> QED  BY <1>1, <2>1, NoUseFacts, BindingsAssumption DEF OwnInv
<1>9. PtrInv' /\ UseInv'
  BY <1>1, NoUseFacts DEF PtrInv, UseInv
<1>10. GuardInv'
  <2>1. guard # NoGuard => guard.buf # Nil
    BY GuardAlive
  <2>2. BoundTensors' \subseteq {Nil}
    BY <1>1, NoUseFacts DEF BoundTensors, Slots
  <2> QED  BY <1>1, <1>5, <2>1, <2>2, NoUseFacts DEF GuardInv
<1>11. AheadInv'
  BY <1>1, <1>3, <1>5, AheadKept
<1>12. ArcInv'
  BY <1>1, <1>2, <1>6, NoUseFacts DEF ArcInv, BindTypeOK
<1> QED  BY <1>3, <1>7, <1>8, <1>9, <1>10, <1>11, <1>12

-----------------------------------------------------------------------------
LEMMA NextBInv == BInv /\ [BNext]_vars => BInv'
<1> SUFFICES ASSUME BInv, [BNext]_vars PROVE BInv'
  OBVIOUS
<1>1. CASE UNCHANGED vars
  <2>1. UNCHANGED <<model, heap, hand, guard, ahead, rq, flight, chain>>
    BY <1>1 DEF vars
  <2>2. /\ BindTypeOK' /\ HeapOK(heap') /\ OwnInv' /\ PtrInv'
    BY <2>1 DEF BInv, BindTypeOK, OwnInv, PtrInv, Alive
  <2>3. UseInv' /\ GuardInv' /\ AheadInv' /\ ArcInv'
    BY <2>1 DEF BInv, UseInv, GuardInv, BoundTensors, AheadInv, WritesPublished, ArcInv
  <2> QED  BY <2>2, <2>3 DEF BInv
<1> QED  BY <1>1, ModelIInv, TakeIInv, MoveIInv, GuardIInv, NewRequestIInv,
            SetInputBytesIInv, SubmitIInv, ChainIInv, GoneIInv DEF BNext

(* The types, the heap, its owners and the pointers into it: the            *)
(* strengthening that the theorems below rest on.                           *)
THEOREM BindInvariant == BSpec => []BInv
<1>1. BInit => BInv
  BY InitBInv
<1>2. BInv /\ [BNext]_vars => BInv'
  BY NextBInv
<1> QED  BY <1>1, <1>2, PTL DEF BSpec

(* Every variable keeps its type.                                           *)
THEOREM BindTypes == BSpec => []BindTypeOK
<1>1. BInv => BindTypeOK
  BY DEF BInv
<1> QED  BY <1>1, BindInvariant, PTL

(* Every pointer C keeps refers to something alive that Rust or the request *)
(* holds for the same slot.                                                 *)
THEOREM BindPointersLive == BSpec => []PointersLive
<1>1. BInv => PointersLive
  <2> SUFFICES ASSUME BInv, NEW s \in Slots
               PROVE  /\ rq.ptr[s] # Nil => /\ rq.ptr[s] \in Alive(heap)
                                            /\ rq.ptr[s] \in {rq.bound[s], rq.own[s]}
                      /\ s \notin Inputs /\ rq.bound[s] # Nil => rq.ptr[s] = rq.bound[s]
    BY DEF PointersLive
  <2>1. rq.ptr[s] \in Buffers \cup Handles \cup {Nil}
    BY DEF BInv, BindTypeOK, Pointers, Objects
  <2> QED  BY <2>1 DEF BInv, PtrInv, OwnInv
<1> QED  BY <1>1, BindInvariant, PTL

(* Everything allocated has one owner, and every surface a buffer.          *)
THEOREM BindOneOwner == BSpec => []OneOwner
<1> DEFINE holders(x) == {s \in Slots : rq.bound[s] = x}
                           \cup {<<"own", s>> : s \in {t \in Slots : rq.own[t] = x}}
                           \cup {<<"hand", y>> : y \in hand \cap {x}}
<1>1. BInv => OneOwner
  <2> SUFFICES ASSUME BInv PROVE OneOwner
    OBVIOUS
  <2> USE DEF BInv
  <2>1. ASSUME NEW x \in Buffers \cup Handles
        PROVE  Cardinality(holders(x)) = IF x \in Alive(heap) THEN 1 ELSE 0
    <3>1. x # Nil
      BY BindingsAssumption
    <3>2. CASE x \notin Alive(heap)
      <4>1. holders(x) = {}
        BY <3>2 DEF OwnInv
      <4> QED  BY <3>2, <4>1, FS_EmptySet
    <3>3. ASSUME x \in Alive(heap), NEW w, holders(x) = {w}
          PROVE  Cardinality(holders(x)) = IF x \in Alive(heap) THEN 1 ELSE 0
      BY <3>3, FS_Singleton
    <3>4. CASE x \in hand
      <4>1. \A s \in Slots : rq.bound[s] # x /\ rq.own[s] # x
        BY <3>1, <3>4 DEF OwnInv
      <4>2. holders(x) = {<<"hand", x>>}
        BY <3>4, <4>1
      <4>3. x \in Alive(heap)
        BY <3>4 DEF OwnInv
      <4> HIDE DEF holders
      <4> QED  BY <3>3, <4>2, <4>3
    <3>5. ASSUME NEW s \in Slots, rq.bound[s] = x
          PROVE  Cardinality(holders(x)) = IF x \in Alive(heap) THEN 1 ELSE 0
      <4>1. /\ x \notin hand /\ x \in Alive(heap)
            /\ \A t \in Slots : rq.own[t] # x /\ (rq.bound[t] = x => t = s)
        BY <3>1, <3>5 DEF OwnInv
      <4>2. holders(x) = {s}
        BY <3>5, <4>1
      <4> HIDE DEF holders
      <4> QED  BY <3>3, <4>1, <4>2
    <3>6. ASSUME NEW s \in Slots, rq.own[s] = x
          PROVE  Cardinality(holders(x)) = IF x \in Alive(heap) THEN 1 ELSE 0
      <4>1. /\ x \notin hand /\ x \in Alive(heap)
            /\ \A t \in Slots : rq.bound[t] # x /\ (rq.own[t] = x => t = s)
        BY <3>1, <3>6 DEF OwnInv
      <4>2. holders(x) = {<<"own", s>>}
        BY <3>6, <4>1
      <4> HIDE DEF holders
      <4> QED  BY <3>3, <4>1, <4>2
    <3>7. x \in Alive(heap) => \/ x \in hand
                               \/ \E s \in Slots : rq.bound[s] = x
                               \/ \E s \in Slots : rq.own[s] = x
      BY DEF OwnInv
    <3> HIDE DEF holders
    <3> QED  BY <3>2, <3>4, <3>5, <3>6, <3>7
  <2>2. DOMAIN heap.surfs = {heap.bufs[b].surface : b \in DOMAIN heap.bufs}
    <3>1. \A s \in DOMAIN heap.surfs : \E b \in DOMAIN heap.bufs : heap.bufs[b].surface = s
      BY DEF HeapOK, OfSurface
    <3> QED  BY <3>1 DEF HeapOK
  <2> QED  BY <2>1, <2>2 DEF OneOwner
<1> QED  BY <1>1, BindInvariant, PTL

(* What the engine was given stays alive and in its slots until it is done, *)
(* and no guard of the client is on it.                                     *)
THEOREM BindEngineUndisturbed == BSpec => []EngineUndisturbed
<1>1. BInv => EngineUndisturbed
  <2> SUFFICES ASSUME BInv PROVE EngineUndisturbed
    OBVIOUS
  <2>1. \A s \in Slots : rq.ptr[s] # Nil => /\ rq.ptr[s] \in Alive(heap)
                                            /\ rq.ptr[s] \in {rq.bound[s], rq.own[s]}
    <3>1. \A s \in Slots : rq.ptr[s] \in Buffers \cup Handles \cup {Nil}
      BY DEF BInv, BindTypeOK, Pointers, Objects
    <3> QED  BY <3>1 DEF BInv, PtrInv, OwnInv
  <2>2. EngineBuffersStay
    BY <2>1 DEF EngineBuffersStay, BInv, UseInv
  <2>3. ASSUME guard # NoGuard
        PROVE  /\ \A s \in Slots : flight[s] # guard.buf
               /\ chain.busy => \A s \in Slots : chain.uses[s] # guard.buf
    <3>1. guard.buf # Nil
      BY <2>3, GuardAlive
    <3>2. CASE guard.buf \in BoundTensors
      <4>1. rq.at = "client" /\ flight = NoUse /\ chain = NoChain
        BY <3>1, <3>2 DEF BInv, GuardInv, BindTypeOK, UseInv
      <4> QED  BY <3>1, <4>1, NoUseFacts
    <3>3. CASE guard.buf \notin BoundTensors
      <4>1. guard.buf \in hand
        BY <3>1, <3>3 DEF BInv, GuardInv
      <4>2. \A s \in Slots : rq.ptr[s] # guard.buf
        BY <2>1, <3>1, <4>1 DEF BInv, OwnInv
      <4> QED  BY <3>1, <4>2 DEF BInv, UseInv
    <3> QED  BY <3>2, <3>3
  <2> QED  BY <2>2, <2>3 DEF EngineUndisturbed, NoHostAccess
<1> QED  BY <1>1, BindInvariant, PTL

(* A client's writes are published when its guard goes.                     *)
THEOREM BindWritesPublished == BSpec => []WritesPublished
<1>1. BInv => WritesPublished
  BY DEF BInv, AheadInv
<1> QED  BY <1>1, BindInvariant, PTL

(* The model is closed by the last of the Model and its request.            *)
THEOREM BindModelOutlives == BSpec => []ModelOutlives
<1>1. BInv => ModelOutlives
  BY DEF BInv, ArcInv, ModelOutlives
<1> QED  BY <1>1, BindInvariant, PTL
-----------------------------------------------------------------------------
(* The sizes, by an invariant of their own that needs the one above.        *)

(* Of every buffer the byte count is one a size_t can say, and a surface    *)
(* that was made for the buffer is as large.                                *)
Sized(h) ==
  \A b \in DOMAIN h.bufs :
    /\ h.bufs[b].nbytes \in 0..(SizeRange - 1)
    /\ \/ h.bufs[b].adopted
       \/ /\ h.surfs[h.bufs[b].surface].size \in Nat
          /\ h.surfs[h.bufs[b].surface].size >= h.bufs[b].nbytes

(* What a slot of a tensor has, and what the request made for it, is large  *)
(* enough for the model, which was derived from a report that is in order.  *)
Fits(x, s) == x # Nil => x \in DOMAIN heap.bufs /\ heap.bufs[x].nbytes >= Need(s)
SizeInv ==
  /\ Sized(heap)
  /\ \A s \in Tensors : Fits(rq.ptr[s], s) /\ Fits(rq.own[s], s)
  /\ model.report # 0 => DeriveOK(Reports[model.report])

(* A size that wraps is 0, and nothing is made of that.                     *)
LEMMA AllocHolds ==
  ASSUME NEW n \in 0..(SizeRange - 1), AllocSize(n) > 0
  PROVE  AllocSize(n) \in Nat /\ AllocSize(n) >= n
<1> DEFINE m == n + (RowWidth - 1)
           r == m % SizeRange
           q == r \div RowWidth
<1>0. /\ RowWidth \in Nat \ {0} /\ SizeRange \in Nat \ {0} /\ SingleRow \in Nat
      /\ n \in Nat /\ n < SizeRange /\ m \in Nat
  BY BindingsAssumption
<1>1. r \in Nat /\ r < SizeRange /\ (m < SizeRange => r = m)
  <2> HIDE DEF m
  <2> QED  BY <1>0
<1>2. q \in Nat /\ RowWidth * q <= r /\ r < RowWidth * q + RowWidth
  <2> HIDE DEF r
  <2> QED  BY <1>0, <1>1
<1>3. CASE n = 0 \/ n <= SingleRow
  BY <1>0, <1>3 DEF AllocSize
<1>4. CASE n # 0 /\ ~ (n <= SingleRow)
  <2>1. AllocSize(n) = RowWidth * q
    BY <1>4 DEF AllocSize
  <2> HIDE DEF q
  <2>2. RowWidth * q \in Nat
    BY <1>0, <1>2
  <2>3. CASE m < SizeRange
    <3>1. r = m
      BY <1>1, <2>3
    <3> HIDE DEF r
    <3> QED  BY <1>0, <1>2, <2>1, <2>2, <3>1
  <2>4. CASE ~ (m < SizeRange)
    <3>1. r <= m - SizeRange
      <4> HIDE DEF m
      <4> QED  BY <1>0, <2>4
    <3> HIDE DEF r
    <3>2. r < RowWidth - 1
      BY <1>0, <1>1, <3>1
    <3>3. q # 0 => RowWidth * q >= RowWidth
      BY <1>0, <1>2
    <3>4. q = 0
      BY <1>0, <1>1, <1>2, <2>2, <3>2, <3>3
    <3> QED  BY <1>0, <2>1, <3>4
  <2> QED  BY <2>3, <2>4
<1> QED  BY <1>3, <1>4

(* A surface that outlives a release keeps its size.                        *)
LEMMA ReleaseSized ==
  ASSUME NEW h, HeapOK(h), Sized(h), NEW xs
  PROVE  Sized(Release(h, xs))
<1> DEFINE freed(s) == Cardinality({b \in xs \cap DOMAIN h.bufs : h.bufs[b].surface = s})
           kept == {s \in DOMAIN h.surfs : h.surfs[s].retains > freed(s)}
           g == Release(h, xs)
<1>1. /\ g.bufs = [b \in DOMAIN h.bufs \ xs |-> h.bufs[b]]
      /\ g.surfs = [s \in kept |-> [h.surfs[s] EXCEPT !.retains = @ - freed(s)]]
  BY DEF Release
<1>2. HeapOK(g)
  BY ReleaseOK
<1> HIDE DEF g
<1>3. \A s \in DOMAIN g.surfs : g.surfs[s].size = h.surfs[s].size
  <2> HIDE DEF freed
  <2>1. \A s \in DOMAIN h.surfs :
          [h.surfs[s] EXCEPT !.retains = @ - freed(s)]
            = [retains |-> h.surfs[s].retains - freed(s), size |-> h.surfs[s].size]
    BY DEF HeapOK
  <2> QED  BY <1>1, <2>1
<1>4. \A b \in DOMAIN g.bufs : /\ b \in DOMAIN h.bufs /\ g.bufs[b] = h.bufs[b]
                               /\ g.bufs[b].surface \in DOMAIN g.surfs
  BY <1>1, <1>2 DEF HeapOK
<1>5. Sized(g)
  BY <1>3, <1>4 DEF Sized
<1> QED  BY <1>5 DEF g

(* A new buffer has the byte count it was asked for.                        *)
LEMMA FreshSized ==
  ASSUME NEW h, HeapOK(h), Sized(h), NEW count \in Nat, NEW place \in Places(h, count),
         NEW n, \A b \in DOMAIN place : n[b] \in 0..(SizeRange - 1) /\ AllocSize(n[b]) > 0
  PROVE  /\ Sized(FreshEach(h, place, n))
         /\ \A b \in DOMAIN place : /\ b \in DOMAIN FreshEach(h, place, n).bufs
                                    /\ FreshEach(h, place, n).bufs[b].nbytes = n[b]
<1> DEFINE g == FreshEach(h, place, n)
           size(s) == AllocSize(n[CHOOSE b \in DOMAIN place : place[b] = s])
           new == {place[b] : b \in DOMAIN place}
<1>1. /\ DOMAIN place \subseteq Buffers \ DOMAIN h.bufs
      /\ \A b \in DOMAIN place : /\ place[b] \in Surfaces \ DOMAIN h.surfs
                                 /\ \A c \in DOMAIN place : place[c] = place[b] => c = b
  BY PlacesOK
<1>2. /\ g.bufs = [b \in DOMAIN h.bufs \cup DOMAIN place |->
                     IF b \in DOMAIN place THEN Struct(place[b], n[b], FALSE) ELSE h.bufs[b]]
      /\ g.surfs = [s \in DOMAIN h.surfs \cup new |->
                      IF s \in DOMAIN h.surfs THEN h.surfs[s]
                      ELSE [retains |-> 1, size |-> size(s)]]
  BY DEF FreshEach
<1> HIDE DEF g, size
<1>3. ASSUME NEW b \in DOMAIN h.bufs
      PROVE  /\ g.bufs[b] = h.bufs[b]
             /\ g.surfs[h.bufs[b].surface] = h.surfs[h.bufs[b].surface]
  BY <1>1, <1>2 DEF HeapOK
<1>4. ASSUME NEW b \in DOMAIN place
      PROVE  /\ b \in DOMAIN g.bufs /\ g.bufs[b].surface = place[b]
             /\ g.bufs[b].nbytes = n[b]
             /\ g.surfs[place[b]].size = AllocSize(n[b])
  <2>1. (CHOOSE c \in DOMAIN place : place[c] = place[b]) = b
    BY <1>1
  <2>2. size(place[b]) = AllocSize(n[b])
    BY <2>1 DEF size
  <2>3. g.surfs[place[b]] = [retains |-> 1, size |-> size(place[b])]
    BY <1>1, <1>2
  <2>4. b \in DOMAIN g.bufs /\ g.bufs[b] = Struct(place[b], n[b], FALSE)
    BY <1>2
  <2> QED  BY <2>2, <2>3, <2>4 DEF Struct
<1>5. \A b \in DOMAIN g.bufs : b \in DOMAIN h.bufs \/ b \in DOMAIN place
  BY <1>2
<1>6. \A b \in DOMAIN place : AllocSize(n[b]) \in Nat /\ AllocSize(n[b]) >= n[b]
  BY AllocHolds
<1>7. Sized(g)
  BY <1>3, <1>4, <1>5, <1>6 DEF Sized
<1> QED  BY <1>4, <1>7 DEF g

LEMMA AdoptSized ==
  ASSUME NEW h, HeapOK(h), Sized(h), NEW t \in DOMAIN h.surfs,
         NEW b \in Buffers \ DOMAIN h.bufs, NEW n \in 0..(SizeRange - 1)
  PROVE  Sized(Adopt(h, b, t, n))
<1> DEFINE g == Adopt(h, b, t, n)
<1>1. /\ g.bufs = [y \in DOMAIN h.bufs \cup {b} |->
                     IF y = b THEN Struct(t, n, TRUE) ELSE h.bufs[y]]
      /\ g.surfs = [h.surfs EXCEPT ![t].retains = @ + 1]
  BY DEF Adopt
<1> HIDE DEF g
<1>2. \A s \in DOMAIN h.surfs : g.surfs[s].size = h.surfs[s].size
  <2>1. h.surfs[t] = [retains |-> h.surfs[t].retains, size |-> h.surfs[t].size]
    BY DEF HeapOK
  <2>2. [h.surfs[t] EXCEPT !.retains = @ + 1].size = h.surfs[t].size
    BY <2>1
  <2> QED  BY <1>1, <2>2
<1>3. \A y \in DOMAIN h.bufs : /\ g.bufs[y] = h.bufs[y]
                               /\ h.bufs[y].surface \in DOMAIN h.surfs
  BY <1>1 DEF HeapOK
<1>4. g.bufs[b].nbytes = n /\ g.bufs[b].adopted = TRUE
  BY <1>1 DEF Struct
<1>5. DOMAIN g.bufs = DOMAIN h.bufs \cup {b}
  BY <1>1
<1>6. Sized(g)
  BY <1>2, <1>3, <1>4, <1>5 DEF Sized
<1> QED  BY <1>6 DEF g

(* What the opened model says of a tensor.                                  *)
LEMMA NeedIs ==
  ASSUME BInv, SizeInv, model.report # 0, NEW s \in Tensors
  PROVE  /\ Need(s) = Dense(s) /\ Need(s) \in 1..(SizeRange - 1)
         /\ SchemaExact(Reports[model.report])
<1> DEFINE report == Reports[model.report]
           kind == Kind(s)
           i == s[2]
           live == report[1][kind]
<1>1. /\ model.report \in DOMAIN Reports /\ report \in Seq(Procedures)
      /\ DeriveOK(report) /\ SizeRange \in Nat \ {0}
      /\ Count(Derive(report), "inputs") = NumIn
      /\ Count(Derive(report), "outputs") = NumOut
  BY BindingsAssumption DEF BInv, BindTypeOK, SizeInv
<1>2. Need(s) = NbytesFor(Derive(report), 0, kind, i)
  BY <1>1 DEF Need, Procs, Nbytes
<1> HIDE DEF report
<1>3. /\ kind = (IF s[1] = "in" THEN "inputs" ELSE "outputs")
      /\ kind \in {"inputs", "outputs"}
      /\ i \in 0..((IF s[1] = "in" THEN NumIn ELSE NumOut) - 1)
  BY DEF Kind, Tensors, Inputs, Outputs
<1>4. report[1] # Malformed /\ Len(report) \in Nat /\ Len(report) # 0
  BY <1>1 DEF DeriveOK
<1> HIDE DEF kind, i
<1>5. /\ CountFor(Derive(report), 0, kind) = Len(live)
      /\ \A j \in 0..(Len(live) - 1) :
           /\ NbytesFor(Derive(report), 0, kind, j) = DenseBytes(live[j + 1])
           /\ NbytesFor(Derive(report), 0, kind, j) \in 1..(SizeRange - 1)
  <2>1. 0 \in 0..(Len(report) - 1) /\ 0 + 1 = 1
    BY <1>4
  <2> QED  BY <1>1, <1>3, <1>4, <2>1, DeriveExact
<1>6. i \in 0..(Len(live) - 1)
  BY <1>1, <1>3, <1>5 DEF Count
<1>7. Dense(s) = DenseBytes(live[i + 1])
  <2>1. live = IF s[1] = "in" THEN report[1].inputs ELSE report[1].outputs
    BY <1>3
  <2> QED  BY <2>1 DEF Dense, report, i
<1>8. SchemaExact(report)
  BY <1>1, SchemaIsExact
<1> HIDE DEF live
<1>9. Need(s) = DenseBytes(live[i + 1]) /\ Need(s) \in 1..(SizeRange - 1)
  BY <1>2, <1>5, <1>6
<1> QED  BY <1>7, <1>8, <1>9 DEF report

(* What the property needs of the invariant.                                *)
LEMMA SizeInvHolds == BInv /\ SizeInv => SurfaceHoldsTensor
<1> SUFFICES ASSUME BInv, SizeInv PROVE SurfaceHoldsTensor
  OBVIOUS
<1>1. ASSUME model.report # 0 PROVE Exact[model.report]
  <2>1. model.report \in DOMAIN Reports /\ Reports[model.report] \in Seq(Procedures)
    BY <1>1, BindingsAssumption DEF BInv, BindTypeOK
  <2>2. DeriveOK(Reports[model.report])
    BY <1>1 DEF SizeInv
  <2>3. SchemaExact(Reports[model.report])
    BY <2>1, <2>2, SchemaIsExact, BindingsAssumption
  <2> QED  BY <2>1, <2>3 DEF Exact
<1>2. ASSUME NEW s \in Tensors, rq.ptr[s] # Nil
      PROVE  LET b == heap.bufs[rq.ptr[s]]
             IN /\ b.nbytes >= Dense(s)
                /\ b.adopted \/ heap.surfs[b.surface].size >= Dense(s)
  <2>1. model.report # 0
    <3>1. rq.at = "none" => rq.ptr[s] = Nil
      BY NoUseFacts DEF BInv, PtrInv, Slots
    <3> QED  BY <1>2, <3>1 DEF BInv, ArcInv
  <2>2. Need(s) = Dense(s) /\ Need(s) \in 1..(SizeRange - 1)
    BY <2>1, NeedIs
  <2>3. rq.ptr[s] \in DOMAIN heap.bufs /\ heap.bufs[rq.ptr[s]].nbytes >= Need(s)
    BY <1>2 DEF SizeInv, Fits
  <2> QED  BY <2>2, <2>3 DEF SizeInv, Sized
<1> QED  BY <1>1, <1>2 DEF SurfaceHoldsTensor

(* The buffers that stay keep their struct, and no slot of C loses one.     *)
LEMMA SizeKept ==
  ASSUME SizeInv, Sized(heap'), model'.report = model.report,
         \A s \in Tensors : \A x \in {rq'.ptr[s], rq'.own[s]} : x # Nil =>
           \/ /\ x \in {rq.ptr[s], rq.own[s]}
              /\ x \in DOMAIN heap'.bufs /\ heap'.bufs[x] = heap.bufs[x]
           \/ x \in DOMAIN heap'.bufs /\ heap'.bufs[x].nbytes >= Need(s)
  PROVE  SizeInv'
<1>1. \A s \in Tensors : Need(s)' = Need(s)
  BY DEF Need
<1>2. ASSUME NEW s \in Tensors, NEW x \in {rq'.ptr[s], rq'.own[s]}, x # Nil
      PROVE  x \in DOMAIN heap'.bufs /\ heap'.bufs[x].nbytes >= Need(s)
  BY <1>2 DEF SizeInv, Fits
<1>3. \A s \in Tensors : Fits(rq.ptr[s], s)' /\ Fits(rq.own[s], s)'
  BY <1>1, <1>2 DEF Fits
<1>4. model'.report # 0 => DeriveOK(Reports[model'.report])
  BY DEF SizeInv
<1> QED  BY <1>3, <1>4 DEF SizeInv, Sized

(* Calls that leave the heap and the slots of C alone.                      *)
LEMMA SizeSame ==
  ASSUME SizeInv, UNCHANGED heap, model'.report = model.report,
         \A s \in Tensors : rq'.ptr[s] = rq.ptr[s] /\ rq'.own[s] = rq.own[s]
  PROVE  SizeInv'
<1>1. \A s \in Tensors : Need(s)' = Need(s)
  BY DEF Need
<1>2. \A s \in Tensors : Fits(rq.ptr[s], s)' /\ Fits(rq.own[s], s)'
  BY <1>1 DEF SizeInv, Fits
<1> QED  BY <1>2 DEF SizeInv, Sized

(* A request that has nothing.                                              *)
LEMMA SizeNone ==
  ASSUME SizeInv, Sized(heap'), rq'.ptr = NoUse, rq'.own = NoUse,
         model'.report # 0 => DeriveOK(Reports[model'.report])
  PROVE  SizeInv'
<1>1. \A s \in Tensors : Fits(rq.ptr[s], s)' /\ Fits(rq.own[s], s)'
  BY NoUseFacts DEF Fits, Slots
<1> QED  BY <1>1 DEF SizeInv, Sized

LEMMA ModelSize ==
  ASSUME BInv, SizeInv, OpenModel \/ DropModel \/ NewRequest
  PROVE  SizeInv'
<1>1. CASE OpenModel
  <2>1. PICK r \in DOMAIN Reports :
          model' = IF DeriveOK(Reports[r])
                     THEN [report |-> r, arcs |-> 1, held |-> TRUE, open |-> TRUE]
                     ELSE model
    BY <1>1 DEF OpenModel
  <2>2. rq = NoRequest /\ UNCHANGED <<rq, heap>>
    BY <1>1 DEF OpenModel, BInv, ArcInv, PtrInv
  <2>3. model'.report # 0 => DeriveOK(Reports[model'.report])
    BY <2>1 DEF SizeInv
  <2> QED  BY <2>2, <2>3, NoUseFacts, SizeNone DEF SizeInv
<1>2. CASE DropModel
  <2>1. LessOne(model).report = model.report /\ LessOne(model) \in ModelType
    <3>1. model.arcs # 0
      BY <1>2 DEF DropModel, BInv, ArcInv
    <3> QED  BY <3>1, LessOneIs DEF BInv
  <2>2. model'.report = model.report /\ UNCHANGED <<rq, heap>>
    BY <1>2, <2>1 DEF DropModel, ModelType
  <2> QED  BY <2>2, SizeSame
<1>3. CASE NewRequest
  <2>1. rq'.ptr = NoUse /\ rq'.own = NoUse /\ UNCHANGED heap /\ model'.report = model.report
    BY <1>3, NoUseFacts DEF NewRequest, BInv, BindTypeOK
  <2> QED  BY <2>1, SizeNone DEF SizeInv
<1> QED  BY <1>1, <1>2, <1>3

(* What the client has in hand is in no slot.                               *)
LEMMA HandNotInSlot ==
  ASSUME BInv, NEW x \in hand, NEW s \in Slots, x # Nil
  PROVE  rq.ptr[s] # x /\ rq.own[s] # x /\ rq.bound[s] # x
BY DEF BInv, OwnInv, PtrInv

LEMMA TakeSize ==
  ASSUME BInv, SizeInv, NewBuffer \/ NewTensorBuffer \/ Alias \/ NewHandle \/ DropValue
  PROVE  SizeInv'
<1> USE DEF BInv
<1>1. ASSUME NEW n \in 0..(SizeRange - 1), HandOut(n)
      PROVE  SizeInv'
  <2>1. PICK place \in Places(heap, 1) :
          /\ heap' = FreshEach(heap, place, [b \in DOMAIN place |-> n])
          /\ UNCHANGED <<model, rq>> /\ AllocSize(n) > 0
    BY <1>1 DEF HandOut, Fresh
  <2>2. /\ Sized(heap')
        /\ \A b \in DOMAIN heap.bufs : b \in DOMAIN heap'.bufs /\ heap'.bufs[b] = heap.bufs[b]
    BY <2>1, FreshSized, FreshOK DEF SizeInv
  <2>3. \A s \in Tensors : Fits(rq.ptr[s], s) /\ Fits(rq.own[s], s)
    BY DEF SizeInv
  <2> HIDE DEF BInv
  <2> QED  BY <2>1, <2>2, <2>3, SizeKept DEF Fits
<1>2. CASE NewBuffer
  BY <1>1, <1>2, BindingsAssumption DEF NewBuffer
<1>3. CASE NewTensorBuffer
  <2>1. PICK s \in Tensors : model.held /\ HandOut(Need(s))
    BY <1>3 DEF NewTensorBuffer
  <2>2. Need(s) \in 1..(SizeRange - 1)
    BY <2>1, NeedIs DEF ArcInv
  <2> QED  BY <1>1, <2>1, <2>2
<1>4. CASE Alias
  <2>1. PICK x \in Reachable \cap DOMAIN heap.bufs, b \in Buffers \ DOMAIN heap.bufs, n \in Claims :
          /\ heap' = Adopt(heap, b, heap.bufs[x].surface, n) /\ UNCHANGED <<model, rq>>
    BY <1>4 DEF Alias
  <2>2. heap.bufs[x].surface \in DOMAIN heap.surfs /\ n \in 0..(SizeRange - 1)
    BY BindingsAssumption DEF HeapOK
  <2>3. /\ Sized(heap')
        /\ \A c \in DOMAIN heap.bufs : c \in DOMAIN heap'.bufs /\ heap'.bufs[c] = heap.bufs[c]
    BY <2>1, <2>2, AdoptSized, AdoptOK DEF SizeInv
  <2>4. \A s \in Tensors : Fits(rq.ptr[s], s) /\ Fits(rq.own[s], s)
    BY DEF SizeInv
  <2> HIDE DEF BInv
  <2> QED  BY <2>1, <2>3, <2>4, SizeKept, SMTT(30) DEF Fits
<1>5. CASE NewHandle
  <2>1. /\ heap'.bufs = heap.bufs /\ heap'.surfs = heap.surfs
        /\ UNCHANGED <<model, rq>>
    BY <1>5 DEF NewHandle
  <2>2. Sized(heap')
    BY <2>1 DEF SizeInv, Sized
  <2>3. \A s \in Tensors : Fits(rq.ptr[s], s) /\ Fits(rq.own[s], s)
    BY DEF SizeInv
  <2> HIDE DEF BInv
  <2> QED  BY <2>1, <2>2, <2>3, SizeKept DEF Fits
<1>6. CASE DropValue
  <2>1. PICK x \in InHand : heap' = Release(heap, {x}) /\ UNCHANGED <<model, rq>>
    BY <1>6 DEF DropValue
  <2>2. /\ Sized(heap')
        /\ \A b \in DOMAIN heap.bufs \ {x} : b \in DOMAIN heap'.bufs /\ heap'.bufs[b] = heap.bufs[b]
    BY <2>1, ReleaseSized, ReleaseOK DEF SizeInv
  <2>3. \A s \in Tensors : /\ Fits(rq.ptr[s], s) /\ Fits(rq.own[s], s)
                           /\ rq.ptr[s] # x /\ rq.own[s] # x
    <3>1. x \in hand /\ x # Nil
      BY BindingsAssumption DEF InHand, BindTypeOK
    <3> QED  BY <3>1, HandNotInSlot DEF SizeInv, Slots
  <2> HIDE DEF BInv
  <2>4. rq' = rq /\ model' = model
    BY <2>1
  <2>5. ASSUME NEW s \in Tensors, NEW c \in {rq.ptr[s], rq.own[s]}, c # Nil
        PROVE  c \in DOMAIN heap'.bufs /\ heap'.bufs[c] = heap.bufs[c]
    <3>1. c \in DOMAIN heap.bufs \ {x}
      BY <2>3, <2>5 DEF Fits
    <3> QED  BY <2>2, <3>1
  <2> QED  BY <2>2, <2>4, <2>5, SizeKept
<1> QED  BY <1>2, <1>3, <1>4, <1>5, <1>6

(* A call that moves a value into a slot: C takes a buffer for a tensor     *)
(* only when it is large enough, and drops what no slot of C refers to.     *)
LEMMA MoveSize ==
  ASSUME BInv, SizeInv, BindTensor \/ BindState \/ SetAttachment
  PROVE  SizeInv'
<1> USE DEF BInv
<1>0. /\ rq.bound \in Pointers /\ rq.ptr \in Pointers /\ rq.own \in Pointers
      /\ rq \in [at : {"none", "client", "chain"}, bound : Pointers, ptr : Pointers,
                 own : Pointers]
  BY DEF BindTypeOK
<1>1. ASSUME NEW s \in Slots, NEW x \in InHand \cup {Nil}, NEW c, Move(s, x, c),
             \/ c = [ok |-> FALSE, r |-> rq]
             \/ /\ c = [ok |-> TRUE, r |-> [rq EXCEPT !.ptr[s] = x]]
                /\ s \in Tensors => x \in DOMAIN heap.bufs /\ heap.bufs[x].nbytes >= Need(s)
      PROVE  SizeInv'
  <2>1. x # Nil => x \in hand
    BY DEF InHand
  <2>2. CASE c = [ok |-> FALSE, r |-> rq]
    <3>1. rq' = rq /\ heap' = Release(heap, {x}) /\ UNCHANGED model
      BY <1>1, <2>2 DEF Move
    <3>2. /\ Sized(heap')
          /\ \A b \in DOMAIN heap.bufs \ {x} : b \in DOMAIN heap'.bufs /\ heap'.bufs[b] = heap.bufs[b]
      BY <3>1, ReleaseSized, ReleaseOK DEF SizeInv
    <3>3. \A t \in Tensors : /\ Fits(rq.ptr[t], t) /\ Fits(rq.own[t], t)
                             /\ x # Nil => rq.ptr[t] # x /\ rq.own[t] # x
      BY <2>1, HandNotInSlot DEF SizeInv, Slots
    <3>4. ASSUME NEW t \in Tensors, NEW y \in {rq'.ptr[t], rq'.own[t]}, y # Nil
          PROVE  /\ y \in {rq.ptr[t], rq.own[t]}
                 /\ y \in DOMAIN heap'.bufs /\ heap'.bufs[y] = heap.bufs[y]
      <4>1. y \in {rq.ptr[t], rq.own[t]}
        BY <3>1, <3>4
      <4>2. y \in DOMAIN heap.bufs \ {x}
        BY <3>3, <3>4, <4>1 DEF Fits
      <4> QED  BY <3>2, <4>1, <4>2
    <3> HIDE DEF BInv
    <3> QED  BY <3>1, <3>2, <3>4, SizeKept
  <2>3. CASE /\ c = [ok |-> TRUE, r |-> [rq EXCEPT !.ptr[s] = x]]
             /\ s \in Tensors => x \in DOMAIN heap.bufs /\ heap.bufs[x].nbytes >= Need(s)
    <3> DEFINE old == rq.bound[s]
    <3>1. /\ rq' = [[rq EXCEPT !.ptr[s] = x] EXCEPT !.bound[s] = x]
          /\ heap' = Release(heap, {old}) /\ UNCHANGED model
      BY <1>1, <2>3 DEF Move
    <3>2. /\ Sized(heap')
          /\ \A b \in DOMAIN heap.bufs \ {old} : b \in DOMAIN heap'.bufs /\ heap'.bufs[b] = heap.bufs[b]
      BY <3>1, ReleaseSized, ReleaseOK DEF SizeInv
    <3>3. rq'.own = rq.own /\ rq'.ptr = [rq.ptr EXCEPT ![s] = x]
      BY <1>0, <3>1
    <3>4. rq'.ptr[s] = x /\ \A t \in Slots \ {s} : rq'.ptr[t] = rq.ptr[t]
      BY <1>0, <3>3 DEF Pointers
    <3>5. \A t \in Slots : /\ old # Nil => rq.own[t] # old
                           /\ old # Nil /\ t # s => rq.ptr[t] # old
      BY DEF OwnInv, PtrInv
    <3>6. x # Nil => x # old
      BY <2>1 DEF OwnInv
    <3>7. \A t \in Tensors : t \in Slots /\ Fits(rq.ptr[t], t) /\ Fits(rq.own[t], t)
      BY DEF SizeInv, Slots
    <3>8. ASSUME NEW t \in Tensors, NEW y \in {rq'.ptr[t], rq'.own[t]}, y # Nil
          PROVE  \/ /\ y \in {rq.ptr[t], rq.own[t]}
                    /\ y \in DOMAIN heap'.bufs /\ heap'.bufs[y] = heap.bufs[y]
                 \/ y \in DOMAIN heap'.bufs /\ heap'.bufs[y].nbytes >= Need(t)
      <4> HIDE DEF old
      <4>1. CASE y = x /\ t = s
        BY <2>3, <3>2, <3>6, <3>8, <4>1
      <4>2. CASE y \in {rq.ptr[t], rq.own[t]} /\ y # old
        BY <3>2, <3>7, <3>8, <4>2 DEF Fits
      <4> QED  BY <3>3, <3>4, <3>5, <3>7, <3>8, <4>1, <4>2
    <3> HIDE DEF BInv
    <3> QED  BY <3>1, <3>2, <3>8, SizeKept
  <2> QED  BY <1>1, <2>2, <2>3
<1>2. CASE BindTensor
  <2>1. PICK s \in Tensors, b \in InHand \cap DOMAIN heap.bufs : Move(s, b, Bind(rq, s, b))
    BY <1>2 DEF BindTensor
  <2>2. \/ Bind(rq, s, b) = [ok |-> FALSE, r |-> rq]
        \/ /\ Bind(rq, s, b) = [ok |-> TRUE, r |-> [rq EXCEPT !.ptr[s] = b]]
           /\ ~ (heap.bufs[b].nbytes < Need(s))
    BY DEF Bind
  <2>3. ~ (heap.bufs[b].nbytes < Need(s)) => heap.bufs[b].nbytes >= Need(s)
    <3>1. heap.bufs[b].nbytes \in Int
      BY DEF SizeInv, Sized
    <3>2. model.report # 0
      <4>1. rq.at = "client"
        BY <1>2 DEF BindTensor, RequestFree
      <4> QED  BY <4>1 DEF ArcInv
    <3>3. Need(s) \in Int
      BY <3>2, NeedIs
    <3> QED  BY <3>1, <3>3
  <2> QED  BY <1>1, <2>1, <2>2, <2>3 DEF Slots
<1>3. CASE BindState
  <2>1. PICK b \in InHand \cap DOMAIN heap.bufs : Move(Weights, b, [ok |-> FALSE, r |-> rq])
    BY <1>3 DEF BindState
  <2>2. Weights \in Slots
    BY DEF Weights, Slots, Attachments
  <2> QED  BY <1>1, <2>1, <2>2
<1>4. CASE SetAttachment
  <2>1. PICK s \in Attachments, x \in InHand \cup {Nil} : Move(s, x, Set(rq, s, x))
    BY <1>4 DEF SetAttachment
  <2>2. \/ Set(rq, s, x) = [ok |-> FALSE, r |-> rq]
        \/ Set(rq, s, x) = [ok |-> TRUE, r |-> [rq EXCEPT !.ptr[s] = x]]
    BY DEF Set
  <2>3. s \in Slots /\ s \notin Tensors
    BY DEF Attachments, Slots, Tensors, Inputs, Outputs
  <2> QED  BY <1>1, <2>1, <2>2, <2>3
<1> QED  BY <1>2, <1>3, <1>4

(* The request gets a buffer for each slot of N, of the size it needs.      *)
LEMMA OwnSize ==
  ASSUME BInv, SizeInv, NEW N \in SUBSET Tensors, NEW count \in Nat,
         NEW place \in Places(heap, count), NEW at \in [N -> DOMAIN place], NEW n,
         \A s \in N : n[at[s]] = Need(s),
         \A b \in DOMAIN place : n[b] \in 0..(SizeRange - 1) /\ AllocSize(n[b]) > 0,
         heap' = FreshEach(heap, place, n), UNCHANGED model,
         \A s \in Slots : /\ rq'.own[s] = (IF s \in N THEN at[s] ELSE rq.own[s])
                          /\ rq'.ptr[s] \in {rq.ptr[s], rq'.own[s]}
  PROVE  SizeInv'
<1>1. /\ Sized(heap')
      /\ \A b \in DOMAIN place : b \in DOMAIN heap'.bufs /\ heap'.bufs[b].nbytes = n[b]
  BY FreshSized DEF SizeInv, BInv
<1>2. \A b \in DOMAIN heap.bufs : b \in DOMAIN heap'.bufs /\ heap'.bufs[b] = heap.bufs[b]
  BY FreshOK DEF BInv
<1>4. ASSUME NEW s \in Tensors, NEW x \in {rq'.ptr[s], rq'.own[s]}, x # Nil
      PROVE  \/ /\ x \in {rq.ptr[s], rq.own[s]}
                /\ x \in DOMAIN heap'.bufs /\ heap'.bufs[x] = heap.bufs[x]
             \/ x \in DOMAIN heap'.bufs /\ heap'.bufs[x].nbytes >= Need(s)
  <2>1. s \in Slots /\ Fits(rq.ptr[s], s) /\ Fits(rq.own[s], s)
    BY DEF SizeInv, Slots
  <2>2. CASE x \in {rq.ptr[s], rq.own[s]}
    BY <1>2, <1>4, <2>1, <2>2 DEF Fits
  <2>3. CASE s \in N /\ x = at[s]
    <3>1. n[x] = Need(s) /\ n[x] \in Int /\ x \in DOMAIN place
      BY <2>3
    <3> QED  BY <1>1, <3>1
  <2> QED  BY <1>4, <2>1, <2>2, <2>3
<1> QED  BY <1>1, <1>4, SizeKept

LEMMA OwnBufferSize ==
  ASSUME BInv, SizeInv, SetInputBytes
  PROVE  SizeInv'
<1>1. PICK s \in Inputs :
        /\ RequestFree
        /\ \/ /\ rq.own[s] # Nil
              /\ rq' = [rq EXCEPT !.ptr[s] = rq.own[s]] /\ UNCHANGED heap
           \/ /\ rq.own[s] = Nil /\ AllocSize(Need(s)) > 0
              /\ \E place \in Places(heap, 1) : \E b \in DOMAIN place :
                   /\ heap' = Fresh(heap, place, Need(s))
                   /\ rq' = [rq EXCEPT !.own[s] = b, !.ptr[s] = b]
        /\ UNCHANGED model
  BY DEF SetInputBytes
<1>2. /\ rq \in [at : {"none", "client", "chain"}, bound : Pointers, ptr : Pointers,
                 own : Pointers]
      /\ s \in Slots /\ s \in Tensors
  BY DEF BInv, BindTypeOK, Slots, Tensors
<1>3. Need(s) \in 0..(SizeRange - 1)
  <2>1. model.report # 0
    BY <1>1 DEF BInv, ArcInv, RequestFree
  <2> QED  BY <1>2, <2>1, NeedIs
<1>4. CASE rq' = [rq EXCEPT !.ptr[s] = rq.own[s]] /\ UNCHANGED heap
  <2>1. \A t \in Slots : /\ rq'.own[t] = rq.own[t]
                         /\ rq'.ptr[t] \in {rq.ptr[t], rq.own[t]}
    BY <1>2, <1>4 DEF Pointers
  <2>2. \A t \in Tensors : t \in Slots /\ Fits(rq.ptr[t], t) /\ Fits(rq.own[t], t)
    BY DEF SizeInv, Slots
  <2>3. ASSUME NEW t \in Tensors, NEW x \in {rq'.ptr[t], rq'.own[t]}, x # Nil
        PROVE  /\ x \in {rq.ptr[t], rq.own[t]}
               /\ x \in DOMAIN heap'.bufs /\ heap'.bufs[x] = heap.bufs[x]
    BY <1>4, <2>1, <2>2, <2>3 DEF Fits
  <2>4. Sized(heap')
    BY <1>4 DEF SizeInv
  <2> QED  BY <1>1, <2>3, <2>4, SizeKept
<1>5. ASSUME NEW place \in Places(heap, 1), NEW b \in DOMAIN place, AllocSize(Need(s)) > 0,
             heap' = Fresh(heap, place, Need(s)), rq' = [rq EXCEPT !.own[s] = b, !.ptr[s] = b]
      PROVE  SizeInv'
  <2> DEFINE n == [c \in DOMAIN place |-> Need(s)]
             at == [t \in {s} |-> b]
  <2>1. heap' = FreshEach(heap, place, n)
    BY <1>5 DEF Fresh
  <2>2. /\ at \in [{s} -> DOMAIN place] /\ {s} \in SUBSET Tensors
        /\ \A t \in {s} : n[at[t]] = Need(t)
        /\ \A c \in DOMAIN place : n[c] \in 0..(SizeRange - 1) /\ AllocSize(n[c]) > 0
    BY <1>2, <1>3, <1>5
  <2>3. \A t \in Slots : /\ rq'.own[t] = (IF t \in {s} THEN at[t] ELSE rq.own[t])
                         /\ rq'.ptr[t] \in {rq.ptr[t], rq'.own[t]}
    BY <1>2, <1>5 DEF Pointers
  <2> HIDE DEF n, at
  <2> QED  BY <1>1, <2>1, <2>2, <2>3, OwnSize
<1> QED  BY <1>1, <1>4, <1>5

LEMMA FallbackSize ==
  ASSUME BInv, SizeInv, RequestFree, NEW k, Fallback(k), UNCHANGED model
  PROVE  SizeInv'
<1> DEFINE N == {s \in Unbound(k) : rq.own[s] = Nil}
<1>0. /\ rq \in [at : {"none", "client", "chain"}, bound : Pointers, ptr : Pointers,
                 own : Pointers]
      /\ model.report # 0
  BY DEF BInv, BindTypeOK, ArcInv, RequestFree
<1>1. N \in SUBSET Outputs /\ N \in SUBSET Tensors /\ N \in SUBSET Slots
  BY DEF Unbound, Slots, Tensors
<1>2. Cardinality(N) \in Nat
  <2> HIDE DEF N
  <2> QED  BY <1>1, OutputsFinite, FS_Subset, FS_CardinalityType
<1>3. PICK place \in Places(heap, Cardinality(N)) : \E at \in [N -> DOMAIN place] :
        LET own == [s \in Slots |-> IF s \in N THEN at[s] ELSE rq.own[s]]
        IN /\ Cardinality({at[s] : s \in N}) = Cardinality(N)
           /\ heap' = FreshEach(heap, place, [b \in DOMAIN place |->
                        Need(CHOOSE s \in N : at[s] = b)])
           /\ rq' = [rq EXCEPT
                       !.own = own,
                       !.ptr = [s \in Slots |-> IF s \in Unbound(k) THEN own[s] ELSE @[s]]]
  BY DEF Fallback
<1>4. PICK at \in [N -> DOMAIN place] :
        LET own == [s \in Slots |-> IF s \in N THEN at[s] ELSE rq.own[s]]
        IN /\ Cardinality({at[s] : s \in N}) = Cardinality(N)
           /\ heap' = FreshEach(heap, place, [b \in DOMAIN place |->
                        Need(CHOOSE s \in N : at[s] = b)])
           /\ rq' = [rq EXCEPT
                       !.own = own,
                       !.ptr = [s \in Slots |-> IF s \in Unbound(k) THEN own[s] ELSE @[s]]]
  BY <1>3
<1> DEFINE T == {at[s] : s \in N}
           n == [b \in DOMAIN place |-> Need(CHOOSE s \in N : at[s] = b)]
<1>5. IsFiniteSet(DOMAIN place) /\ Cardinality(DOMAIN place) = Cardinality(N)
  BY <1>2, PlacesOK
<1>6. IsFiniteSet(N)
  <2> HIDE DEF N
  <2> QED  BY <1>1, OutputsFinite, FS_Subset
<1>7. T = DOMAIN place /\ \A s, t \in N : at[t] = at[s] => t = s
  <2>1. Cardinality(T) = Cardinality(N)
    BY <1>4
  <2>2. T \subseteq DOMAIN place /\ at \in Surjection(N, T)
    <3> HIDE DEF N
    <3> QED  BY DEF Surjection
  <2> HIDE DEF N, T
  <2>3. T = DOMAIN place
    BY <1>5, <2>1, <2>2, FS_Subset
  <2>4. at \in Injection(N, T)
    BY <1>6, <2>1, <2>2, FS_SurjSameCardinalityImpliesInj
  <2> QED  BY <2>3, <2>4 DEF Injection, IsInjective
<1>8. \A s \in N : Need(s) \in 0..(SizeRange - 1) /\ AllocSize(Need(s)) > 0
  <2>1. \A s \in N : AllocSize(Need(s)) > 0
    BY DEF Fallback
  <2>2. \A s \in N : Need(s) \in 1..(SizeRange - 1)
    <3> HIDE DEF N
    <3> QED  BY <1>0, <1>1, NeedIs
  <2> HIDE DEF N
  <2> QED  BY <2>1, <2>2
<1>9. /\ heap' = FreshEach(heap, place, n)
      /\ \A s \in Slots : /\ rq'.own[s] = (IF s \in N THEN at[s] ELSE rq.own[s])
                          /\ rq'.ptr[s] \in {rq.ptr[s], rq'.own[s]}
  <2> DEFINE own == [s \in Slots |-> IF s \in N THEN at[s] ELSE rq.own[s]]
             ptr == [s \in Slots |-> IF s \in Unbound(k) THEN own[s] ELSE rq.ptr[s]]
  <2>1. rq' = [rq EXCEPT !.own = own, !.ptr = ptr] /\ heap' = FreshEach(heap, place, n)
    BY <1>4
  <2> HIDE DEF n, N
  <2>2. \A s \in Slots : /\ own[s] = (IF s \in N THEN at[s] ELSE rq.own[s])
                         /\ ptr[s] \in {rq.ptr[s], own[s]}
    OBVIOUS
  <2> HIDE DEF own, ptr
  <2>3. rq'.own = own /\ rq'.ptr = ptr
    BY <1>0, <2>1
  <2> QED  BY <2>1, <2>2, <2>3
<1> HIDE DEF N
<1>10. \A s \in N : (CHOOSE t \in N : at[t] = at[s]) = s
  BY <1>7
<1>11. \A s \in N : n[at[s]] = Need(s)
  BY <1>10
<1>12. \A b \in DOMAIN place : n[b] \in 0..(SizeRange - 1) /\ AllocSize(n[b]) > 0
  <2>1. \A b \in DOMAIN place : \E s \in N : b = at[s]
    BY <1>7
  <2> HIDE DEF n
  <2> QED  BY <1>8, <1>11, <2>1
<1> HIDE DEF n
<1> QED  BY <1>1, <1>2, <1>9, <1>11, <1>12, OwnSize

LEMMA GoneSize ==
  ASSUME BInv, SizeInv, DropRequest \/ DropChain
  PROVE  SizeInv'
<1>1. /\ heap' = Release(heap, Owned(rq)) /\ model' = LessOne(model) /\ rq' = NoRequest
      /\ rq.at # "none"
  BY DEF DropRequest, DropChain, Gone, RequestFree, BInv, BindTypeOK
<1>2. model'.report = model.report
  <2>1. model.arcs # 0
    BY <1>1 DEF BInv, ArcInv
  <2> QED  BY <1>1, <2>1, LessOneIs DEF BInv
<1>3. Sized(heap')
  BY <1>1, ReleaseSized DEF BInv, SizeInv
<1> QED  BY <1>1, <1>2, <1>3, NoUseFacts, SizeNone DEF SizeInv

LEMMA NextSizeInv ==
  ASSUME BInv, SizeInv, [BNext]_vars
  PROVE  SizeInv'
<1>1. CASE \/ UNCHANGED vars \/ Lock \/ WriteLocked \/ Unlock
           \/ EvalEnds \/ ChainEnqueue \/ ChainEnds
  <2>1. UNCHANGED <<model, heap, rq>>
    BY <1>1 DEF vars, Lock, WriteLocked, Unlock, EvalEnds, ChainEnqueue, ChainEnds
  <2> QED  BY <2>1, SizeSame
<1>2. CASE ChainNew
  <2>1. UNCHANGED <<model, heap>> /\ rq' = [rq EXCEPT !.at = "chain"]
    BY <1>2 DEF ChainNew
  <2>2. rq'.ptr = rq.ptr /\ rq'.own = rq.own
    BY <2>1 DEF BInv, BindTypeOK
  <2> QED  BY <2>1, <2>2, SizeSame
<1>3. CASE Submit \/ Run \/ SubmitFails
  <2>1. PICK k : RequestFree /\ Fallback(k) /\ UNCHANGED model
    BY <1>3 DEF Submit, Run, SubmitFails, CanBuild
  <2> QED  BY <2>1, FallbackSize
<1> QED  BY <1>1, <1>2, <1>3, ModelSize, TakeSize, MoveSize, OwnBufferSize, GoneSize DEF BNext

(* A buffer that the engine may be given holds a dense tensor of what the   *)
(* framework reported, and C and Rust agree what that takes.                *)
THEOREM BindSurfaceHoldsTensor == BSpec => []SurfaceHoldsTensor
<1>1. BInit => SizeInv
  BY NoUseFacts DEF BInit, SizeInv, Sized, Fits, Slots
<1>2. BInv /\ SizeInv /\ [BNext]_vars => SizeInv'
  BY NextSizeInv
<1>3. BInv /\ SizeInv => SurfaceHoldsTensor
  BY SizeInvHolds
<1> QED  BY <1>1, <1>2, <1>3, BindInvariant, PTL DEF BSpec
=============================================================================

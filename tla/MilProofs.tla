------------------------------- MODULE MilProofs -------------------------------
(* Proofs about Mil for all arguments a client may use and any number of    *)
(* calls.                                                                   *)
EXTENDS Mil, WeightsProofs, Recursion, FiniteSetTheorems, SequenceTheorems, TLAPS

-----------------------------------------------------------------------------
(* Sums and products of sequences.                                          *)

(* Two functions built up by the same steps are equal.                      *)
LEMMA UptoUnique ==
  ASSUME NEW n \in Nat, NEW base, NEW step, NEW g1, NEW g2,
         Upto(g1, n, base, step), Upto(g2, n, base, step)
  PROVE  \A i \in 0..n : g1[i] = g2[i]
<1> DEFINE S == {i \in 0..n : g1[i] = g2[i]}
<1>1. 0 \in S
  BY DEF Upto
<1>2. ASSUME NEW i \in 1..n, i - 1 \in S PROVE i \in S
  BY <1>2 DEF Upto
<1> HIDE DEF S
<1>3. 0..n \subseteq S
  BY <1>1, <1>2, IntervalInduction
<1> QED  BY <1>3 DEF S

(* An i64 is an integer.                                                    *)
LEMMA WrapInt ==
  ASSUME IntRange \in Nat \ {0}, NEW n \in Int
  PROVE  Wrap(n) \in Int
  BY DEF Wrap

(* SumOf as a function built up to the length of its sequence.              *)
AddStep(s) == [i \in 1..Len(s) |-> [a \in Int |-> a + s[i]]]
LEMMA SumUpto ==
  ASSUME NEW s \in Seq(Int)
  PROVE  \E t \in [0..Len(s) -> Int] :
           Upto(t, Len(s), 0, AddStep(s)) /\ SumOf(s) = t[Len(s)]
<1> DEFINE n == Len(s)
           F(f) == [k \in 0..n |-> IF k = 0 THEN 0 ELSE f[k - 1] + s[k]]
           f == CHOOSE h : h = F(h)
<1>0. n \in Nat /\ \A k \in 1..n : s[k] \in Int
  OBVIOUS
<1>1. AddStep(s) \in [1..n -> [Int -> Int]]
  BY <1>0 DEF AddStep
<1>2. PICK u \in [0..n -> Int] : Upto(u, n, 0, AddStep(s))
  <2> DEFINE base == 0
             step == AddStep(s)
  <2>1. n \in Nat /\ base \in Int /\ step \in [1..n -> [Int -> Int]]
    BY <1>0, <1>1
  <2> HIDE DEF n, f, F, base, step
  <2>2. \E u \in [0..n -> Int] : Upto(u, n, base, step)
    BY <2>1, RecursiveFunction
  <2> QED  BY <2>2 DEF base, step
<1>3. u[0] = 0 /\ \A k \in 1..n : u[k] = u[k - 1] + s[k]
  <2> SUFFICES ASSUME NEW k \in 1..n PROVE AddStep(s)[k][u[k - 1]] = u[k - 1] + s[k]
    BY <1>2 DEF Upto
  <2>1. u[k - 1] \in Int
    <3>1. k - 1 \in 0..n
      BY <1>0
    <3> QED  BY <3>1
  <2> QED  BY <2>1 DEF AddStep
<1>4. u = F(u)
  BY <1>0, <1>3
<1>5. f = F(f)
  <2> HIDE DEF F
  <2> QED  BY <1>4
<1>6. SumOf(s) = f[n]
  BY DEF SumOf, Fold
<1> HIDE DEF f
<1>7. f[0] = 0 /\ \A k \in 1..n : f[k] = f[k - 1] + s[k]
  <2>1. \A k \in 0..n : f[k] = F(f)[k]
    BY <1>5
  <2> QED  BY <2>1, <1>0
<1>8. f[n] = u[n]
  <2> DEFINE S == {k \in 0..n : f[k] = u[k]}
  <2>1. 0 \in S
    BY <1>0, <1>3, <1>7
  <2>2. ASSUME NEW k \in 1..n, k - 1 \in S PROVE k \in S
    BY <2>2, <1>3, <1>7
  <2> HIDE DEF S, n, F
  <2>3. 0..n \subseteq S
    BY <1>0, <2>1, <2>2, IntervalInduction
  <2> QED  BY <1>0, <2>3 DEF S
<1> QED  BY <1>2, <1>6, <1>8

(* SaturatingSum, likewise.                                                 *)
SaturatingStep(s) == [i \in 1..Len(s) |-> [a \in Nat |-> Saturate(a + s[i])]]
LEMMA SaturatingUpto ==
  ASSUME NEW s \in Seq(Nat), IntRange \in Nat \ {0}
  PROVE  \E t \in [0..Len(s) -> Nat] :
           Upto(t, Len(s), 0, SaturatingStep(s)) /\ SaturatingSum(s) = t[Len(s)]
<1> DEFINE n == Len(s)
           F(f) == [k \in 0..n |-> IF k = 0 THEN 0 ELSE Saturate(f[k - 1] + s[k])]
           f == CHOOSE h : h = F(h)
<1>0. n \in Nat /\ \A k \in 1..n : s[k] \in Nat
  OBVIOUS
<1>1. SaturatingStep(s) \in [1..n -> [Nat -> Nat]]
  BY <1>0 DEF SaturatingStep, Saturate, USIZE_MAX
<1>2. PICK u \in [0..n -> Nat] : Upto(u, n, 0, SaturatingStep(s))
  <2> DEFINE base == 0
             step == SaturatingStep(s)
  <2>1. n \in Nat /\ base \in Nat /\ step \in [1..n -> [Nat -> Nat]]
    BY <1>0, <1>1
  <2> HIDE DEF n, f, F, base, step
  <2>2. \E u \in [0..n -> Nat] : Upto(u, n, base, step)
    BY <2>1, RecursiveFunction
  <2> QED  BY <2>2 DEF base, step
<1>3. u[0] = 0 /\ \A k \in 1..n : u[k] = Saturate(u[k - 1] + s[k])
  <2> SUFFICES ASSUME NEW k \in 1..n PROVE SaturatingStep(s)[k][u[k - 1]] = Saturate(u[k - 1] + s[k])
    BY <1>2 DEF Upto
  <2>1. u[k - 1] \in Nat
    <3>1. k - 1 \in 0..n
      BY <1>0
    <3> QED  BY <3>1
  <2> QED  BY <2>1 DEF SaturatingStep
<1>4. u = F(u)
  BY <1>0, <1>3
<1>5. f = F(f)
  <2> HIDE DEF F
  <2> QED  BY <1>4
<1>6. SaturatingSum(s) = f[n]
  BY DEF SaturatingSum, Fold
<1> HIDE DEF f
<1>7. f[0] = 0 /\ \A k \in 1..n : f[k] = Saturate(f[k - 1] + s[k])
  <2>1. \A k \in 0..n : f[k] = F(f)[k]
    BY <1>5
  <2> QED  BY <2>1, <1>0
<1>8. f[n] = u[n]
  <2> DEFINE S == {k \in 0..n : f[k] = u[k]}
  <2>1. 0 \in S
    BY <1>0, <1>3, <1>7
  <2>2. ASSUME NEW k \in 1..n, k - 1 \in S PROVE k \in S
    BY <2>2, <1>3, <1>7
  <2> HIDE DEF S, n, F
  <2>3. 0..n \subseteq S
    BY <1>0, <2>1, <2>2, IntervalInduction
  <2> QED  BY <1>0, <2>3 DEF S
<1> QED  BY <1>2, <1>6, <1>8

(* Product, likewise.                                                       *)
MultiplyStep(s) == [i \in 1..Len(s) |-> [a \in Int |-> Wrap(a * s[i])]]
LEMMA ProductUpto ==
  ASSUME NEW s \in Seq(Int), IntRange \in Nat \ {0}
  PROVE  \E t \in [0..Len(s) -> Int] :
           Upto(t, Len(s), 1, MultiplyStep(s)) /\ Product(s) = t[Len(s)]
<1> DEFINE n == Len(s)
           F(f) == [k \in 0..n |-> IF k = 0 THEN 1 ELSE Wrap(f[k - 1] * s[k])]
           f == CHOOSE h : h = F(h)
<1>0. n \in Nat /\ \A k \in 1..n : s[k] \in Int
  OBVIOUS
<1>1. MultiplyStep(s) \in [1..n -> [Int -> Int]]
  <2> SUFFICES ASSUME NEW k \in 1..n, NEW a \in Int PROVE Wrap(a * s[k]) \in Int
    BY DEF MultiplyStep
  <2>1. a * s[k] \in Int
    BY <1>0
  <2> QED  BY <2>1, WrapInt
<1>2. PICK u \in [0..n -> Int] : Upto(u, n, 1, MultiplyStep(s))
  <2> DEFINE base == 1
             step == MultiplyStep(s)
  <2>1. n \in Nat /\ base \in Int /\ step \in [1..n -> [Int -> Int]]
    BY <1>0, <1>1
  <2> HIDE DEF n, f, F, base, step
  <2>2. \E u \in [0..n -> Int] : Upto(u, n, base, step)
    BY <2>1, RecursiveFunction
  <2> QED  BY <2>2 DEF base, step
<1>3. u[0] = 1 /\ \A k \in 1..n : u[k] = Wrap(u[k - 1] * s[k])
  <2> SUFFICES ASSUME NEW k \in 1..n PROVE MultiplyStep(s)[k][u[k - 1]] = Wrap(u[k - 1] * s[k])
    BY <1>2 DEF Upto
  <2>1. u[k - 1] \in Int
    <3>1. k - 1 \in 0..n
      BY <1>0
    <3> QED  BY <3>1
  <2> QED  BY <2>1 DEF MultiplyStep
<1>4. u = F(u)
  BY <1>0, <1>3
<1>5. f = F(f)
  <2> HIDE DEF F
  <2> QED  BY <1>4
<1>6. Product(s) = f[n]
  BY DEF Product, Fold
<1> HIDE DEF f
<1>7. f[0] = 1 /\ \A k \in 1..n : f[k] = Wrap(f[k - 1] * s[k])
  <2>1. \A k \in 0..n : f[k] = F(f)[k]
    BY <1>5
  <2> QED  BY <2>1, <1>0
<1>8. f[n] = u[n]
  <2> DEFINE S == {k \in 0..n : f[k] = u[k]}
  <2>1. 0 \in S
    BY <1>0, <1>3, <1>7
  <2>2. ASSUME NEW k \in 1..n, k - 1 \in S PROVE k \in S
    BY <2>2, <1>3, <1>7
  <2> HIDE DEF S, n, F
  <2>3. 0..n \subseteq S
    BY <1>0, <2>1, <2>2, IntervalInduction
  <2> QED  BY <1>0, <2>3 DEF S
<1> QED  BY <1>2, <1>6, <1>8


LEMMA SumAppend ==
  ASSUME NEW s \in Seq(Int), NEW x \in Int
  PROVE  SumOf(s) \in Int /\ SumOf(Append(s, x)) = SumOf(s) + x
<1> DEFINE u == Append(s, x)
           n == Len(s)
<1>1. u \in Seq(Int) /\ Len(u) = n + 1 /\ n \in Nat /\ u[n + 1] = x
      /\ \A i \in 1..n : u[i] = s[i]
  OBVIOUS
<1>2. PICK t \in [0..n -> Int] : Upto(t, n, 0, AddStep(s)) /\ SumOf(s) = t[n]
  BY SumUpto
<1> HIDE DEF u
<1>3. PICK w \in [0..(n + 1) -> Int] :
        Upto(w, n + 1, 0, AddStep(u)) /\ SumOf(u) = w[n + 1]
  BY <1>1, SumUpto
<1>4. \A i \in 1..n : AddStep(u)[i] = AddStep(s)[i]
  <2> SUFFICES ASSUME NEW i \in 1..n PROVE AddStep(u)[i] = AddStep(s)[i]
    OBVIOUS
  <2>1. i \in 1..Len(u) /\ i \in 1..Len(s) /\ u[i] = s[i]
    BY <1>1
  <2> QED  BY <2>1 DEF AddStep
<1>5. Upto(w, n, 0, AddStep(s))
  <2>1. \A i \in 1..n : i \in 1..(n + 1)
    BY <1>1
  <2> HIDE DEF n
  <2> QED  BY <1>3, <1>4, <2>1 DEF Upto
<1>6. w[n] = t[n]
  BY <1>1, <1>2, <1>5, UptoUnique
<1>7. w[n + 1] = w[n] + x
  <2>1. w[n + 1] = AddStep(u)[n + 1][w[n]]
    BY <1>1, <1>3 DEF Upto
  <2>2. w[n] \in Int
    BY <1>1
  <2> QED  BY <2>1, <2>2, <1>1 DEF AddStep
<1> QED  BY <1>1, <1>2, <1>3, <1>6, <1>7 DEF u

(* The empty sum.                                                           *)
LEMMA SumEmpty == SumOf(<<>>) = 0
<1> DEFINE e == <<>>
<1>1. e \in Seq(Int) /\ Len(e) = 0
  OBVIOUS
<1> HIDE DEF e
<1>2. PICK t \in [0..Len(e) -> Int] :
        Upto(t, Len(e), 0, AddStep(e)) /\ SumOf(e) = t[Len(e)]
  BY <1>1, SumUpto
<1> QED  BY <1>1, <1>2 DEF Upto, e

(* A sum of naturals is one.                                                *)
LEMMA SumNat ==
  ASSUME NEW s \in Seq(Nat)
  PROVE  SumOf(s) \in Nat
<1> DEFINE n == Len(s)
<1>0. n \in Nat /\ s \in Seq(Int) /\ \A i \in 1..n : s[i] \in Nat
  OBVIOUS
<1>1. PICK t \in [0..n -> Int] : Upto(t, n, 0, AddStep(s)) /\ SumOf(s) = t[n]
  BY <1>0, SumUpto
<1> DEFINE S == {i \in 0..n : t[i] \in Nat}
<1>2. 0 \in S
  BY <1>0, <1>1 DEF Upto
<1>3. ASSUME NEW i \in 1..n, i - 1 \in S PROVE i \in S
  <2>1. t[i - 1] \in Nat /\ t[i - 1] \in Int /\ s[i] \in Nat
    BY <1>3, <1>0
  <2>2. t[i] = AddStep(s)[i][t[i - 1]]
    BY <1>1 DEF Upto
  <2>3. t[i] = t[i - 1] + s[i]
    BY <2>1, <2>2 DEF AddStep
  <2>4. t[i] \in Nat /\ i \in 0..n
    BY <2>1, <2>3
  <2> QED  BY <2>4
<1> HIDE DEF S
<1>4. 0..n \subseteq S
  BY <1>0, <1>2, <1>3, IntervalInduction
<1> QED  BY <1>0, <1>1, <1>4 DEF S

(* Adding up with saturation is adding up and then saturating.              *)
LEMMA SaturatingSumIs ==
  ASSUME NEW s \in Seq(Nat), IntRange \in Nat \ {0}
  PROVE  SaturatingSum(s) = Saturate(SumOf(s))
<1> DEFINE n == Len(s)
<1>0. n \in Nat /\ s \in Seq(Int) /\ \A i \in 1..n : s[i] \in Nat
  OBVIOUS
<1>1. PICK t \in [0..n -> Int] : Upto(t, n, 0, AddStep(s)) /\ SumOf(s) = t[n]
  BY <1>0, SumUpto
<1>2. PICK u \in [0..n -> Nat] :
        Upto(u, n, 0, SaturatingStep(s)) /\ SaturatingSum(s) = u[n]
  BY SaturatingUpto
<1> DEFINE S == {i \in 0..n : t[i] \in Nat /\ u[i] = Saturate(t[i])}
<1>3. 0 \in S
  BY <1>0, <1>1, <1>2 DEF Upto, Saturate, USIZE_MAX
<1>4. ASSUME NEW i \in 1..n, i - 1 \in S PROVE i \in S
  <2>1. t[i - 1] \in Nat /\ u[i - 1] = Saturate(t[i - 1]) /\ u[i - 1] \in Nat
    BY <1>4, <1>0
  <2>2. t[i] = t[i - 1] + s[i]
    <3>1. t[i] = AddStep(s)[i][t[i - 1]]
      BY <1>1 DEF Upto
    <3>2. t[i - 1] \in Int
      BY <2>1
    <3> QED  BY <3>1, <3>2 DEF AddStep
  <2>3. u[i] = Saturate(u[i - 1] + s[i])
    BY <1>2, <2>1 DEF Upto, SaturatingStep
  <2>4. s[i] \in Nat
    BY <1>0
  <2> HIDE DEF n
  <2>5. Saturate(Saturate(t[i - 1]) + s[i]) = Saturate(t[i - 1] + s[i])
    BY <2>1, <2>4 DEF Saturate, USIZE_MAX
  <2> QED  BY <2>1, <2>2, <2>3, <2>4, <2>5
<1> HIDE DEF S
<1>5. 0..n \subseteq S
  BY <1>0, <1>3, <1>4, IntervalInduction
<1> QED  BY <1>0, <1>1, <1>2, <1>5 DEF S

(* One number more at the end of a sequence of naturals adds it to the sum. *)
LEMMA SumGrows ==
  ASSUME NEW n \in Nat, NEW s \in [1..n -> Nat], NEW t \in [1..(n + 1) -> Nat],
         \A i \in 1..n : t[i] = s[i]
  PROVE  SumOf(t) = SumOf(s) + t[n + 1] /\ SumOf(s) \in Nat /\ SumOf(t) \in Nat
<1> DEFINE x == t[n + 1]
<1>1. s \in Seq(Nat) /\ t \in Seq(Nat) /\ s \in Seq(Int) /\ x \in Nat /\ x \in Int
  OBVIOUS
<1>2. t = Append(s, x)
  OBVIOUS
<1> HIDE DEF x
<1>3. SumOf(Append(s, x)) = SumOf(s) + x /\ SumOf(s) \in Int
  BY <1>1, SumAppend
<1>4. SumOf(s) \in Nat /\ SumOf(t) \in Nat
  BY <1>1, SumNat
<1>5. SumOf(t) = SumOf(s) + x
  BY <1>2, <1>3
<1> QED  BY <1>4, <1>5 DEF x

-----------------------------------------------------------------------------
(* The types of a Graph's fields.                                           *)
Words == {"const", "scalar", "weight", "raw_op", "cast", "softmax", "layer_norm",
          "identity", "conv", "matmul", "reshape", "transpose", "concat", "slice",
          "relu", "sigmoid", "tanh", "silu", "add", "sub", "mul", "real_div",
          "cv", "ci", "ck", "cs", "cb", "cm", "k", "w", "raw", "sm", "ln", "mm",
          "rs", "tp", "cat", "sl"}
Name == (Words \X Nat) \cup InputNames \cup NewNames
Tensor == [name : Name, dtype : {"Fp16", "Fp32", "Int32", "attribute"},
           shape : Seq(Int)]
Stmt == [binds : Tensor, op : Words, uses : Seq(Tensor),
         attr : Int \cup Convs \cup Perms \cup (BOOLEAN \X BOOLEAN)]
OpRecord == [result : Name, reads : Seq(Name), readBytes : Nat]
Sizes == UNION {[D -> Nat] : D \in SUBSET Name}
Graph == [params : Seq(Tensor), stmts : Seq(Stmt), ops : Seq(OpRecord),
          sizes : Sizes, nextId : Nat, taken : SUBSET Name, raw : BOOLEAN]

(* The values that are bound, their names, and those that are tensors.      *)
BoundVals(gr) == Range(gr.params) \cup {st.binds : st \in Range(gr.stmts)}
NamesOf(gr) == {v.name : v \in BoundVals(gr)}
Usable(gr) == {v \in BoundVals(gr) : v.dtype # "attribute"}

TypedInv(gr) == gr \in Graph /\ IsFiniteSet(gr.taken)

(* A name that fresh minted and no statement has bound yet.                 *)
Reserved(gr, n) == n \in gr.taken \ NamesOf(gr)

(* fresh finds a name: of one more than there are taken names, one is free. *)
LEMMA FreshIs ==
  ASSUME NEW gr, TypedInv(gr), NEW p \in Words
  PROVE  \E id \in Nat :
           /\ <<p, id>> \notin gr.taken
           /\ Fresh(gr, p) = [gr EXCEPT !.nextId = id + 1,
                                        !.taken = @ \cup {<<p, id>>}]
           /\ Minted(Fresh(gr, p), p) = <<p, id>>
<1> DEFINE k == Cardinality(gr.taken)
           D == gr.nextId..(gr.nextId + k)
           free == {i \in D : <<p, i>> \notin gr.taken}
<1>1. gr.nextId \in Nat /\ k \in Nat /\ IsFiniteSet(gr.taken) /\ gr \in Graph
  BY FS_CardinalityType DEF TypedInv, Graph
<1>2. free # {}
  <2> SUFFICES ASSUME \A i \in D : <<p, i>> \in gr.taken PROVE FALSE
    OBVIOUS
  <2> DEFINE f == [i \in D |-> <<p, i>>]
  <2>1. f \in [D -> gr.taken]
    OBVIOUS
  <2>2. IsFiniteSet(D) /\ Cardinality(D) = k + 1
    <3>1. gr.nextId \in Int /\ gr.nextId + k \in Int
          /\ ~(gr.nextId > gr.nextId + k) /\ (gr.nextId + k) - gr.nextId + 1 = k + 1
      BY <1>1
    <3> HIDE DEF k
    <3> QED  BY <3>1, FS_Interval
  <2>3. Cardinality(gr.taken) < Cardinality(D)
    BY <1>1, <2>2
  <2>4. \E x, y \in D : x # y /\ f[x] = f[y]
    <3> HIDE DEF f, D, k
    <3> QED  BY <1>1, <2>1, <2>2, <2>3, FS_PigeonHole
  <2> QED  BY <2>4
<1>3. free \in SUBSET Nat
  BY <1>1
<1> DEFINE id == CHOOSE i \in free : \A j \in free : i <= j
<1>4. id \in free
  <2> HIDE DEF free
  <2>1. \E i \in free : \A j \in free : i <= j
    BY <1>2, <1>3, Least
  <2> QED  BY <2>1
<1>5. Fresh(gr, p) = [gr EXCEPT !.nextId = id + 1, !.taken = @ \cup {<<p, id>>}]
  BY DEF Fresh
<1> HIDE DEF id, free
<1>6. id \in Nat /\ <<p, id>> \notin gr.taken
  BY <1>1, <1>4 DEF free
<1>7. Minted(Fresh(gr, p), p) = <<p, id>>
  <2>1. Fresh(gr, p).nextId = id + 1
    BY <1>1, <1>5 DEF Graph
  <2> QED  BY <1>6, <2>1 DEF Minted
<1> QED  BY <1>5, <1>6, <1>7

-----------------------------------------------------------------------------
(* Arithmetic of i64s: what wrapping at every step of a product comes to.   *)

(* The remainder is the one number below the divisor that leaves a multiple *)
(* of it.                                                                   *)
LEMMA Remainder ==
  ASSUME NEW M \in Nat, M > 0, NEW x \in Int, NEW q \in Int, NEW r \in 0..(M - 1),
         x = q * M + r
  PROVE  x % M = r
<1> DEFINE p == x \div M
           s == x % M
<1>1. p \in Int /\ s \in 0..(M - 1) /\ x = p * M + s
  OBVIOUS
<1> HIDE DEF p, s
<1>2. (p - q) * M = r - s
  BY <1>1
<1>3. CASE p > q
  <2>1. (p - q) * M >= M
    BY <1>1, <1>3
  <2> QED  BY <1>1, <1>2, <2>1
<1>4. CASE p < q
  <2>1. (p - q) * M <= -M
    BY <1>1, <1>4
  <2> QED  BY <1>1, <1>2, <2>1
<1>5. CASE p = q
  BY <1>1, <1>2, <1>5 DEF s
<1> QED  BY <1>1, <1>3, <1>4, <1>5

(* Integers that differ by a multiple of IntRange wrap to the same i64.     *)
LEMMA WrapMultiple ==
  ASSUME IntRange \in Nat \ {0}, NEW a \in Int, NEW k \in Int
  PROVE  Wrap(a + k * IntRange) = Wrap(a)
<1> DEFINE M == IntRange
           h == M \div 2
           x == a + h
           q == x \div M
           r == x % M
           c == k * M
<1>1. M \in Nat /\ M > 0 /\ h \in Int /\ c \in Int
  OBVIOUS
<1>2. x \in Int
  BY <1>1
<1> HIDE DEF h
<1>3. q \in Int /\ r \in 0..(M - 1) /\ x = q * M + r
  BY <1>1, <1>2
<1> HIDE DEF x, q, r
<1>4. x + c = (q + k) * M + r
  BY <1>1, <1>3
<1>5. (x + c) % M = r
  <2> DEFINE y == x + c
             z == q + k
  <2>1. y \in Int /\ z \in Int /\ y = z * M + r
    BY <1>1, <1>2, <1>3, <1>4
  <2> HIDE DEF y, z
  <2>2. y % M = r
    BY <1>1, <1>3, <2>1, Remainder
  <2> QED  BY <2>2 DEF y
<1>6. Wrap(a) = r - h
  BY DEF Wrap, r, x, h
<1>7. (a + c) + h = x + c
  BY <1>1 DEF x
<1>8. Wrap(a + c) = (((a + c) + h) % M) - h
  BY DEF Wrap, h
<1> QED  BY <1>5, <1>6, <1>7, <1>8

(* Wrap is a difference by a multiple.                                      *)
LEMMA WrapIs ==
  ASSUME IntRange \in Nat \ {0}, NEW a \in Int
  PROVE  \E k \in Int : Wrap(a) = a + k * IntRange
<1> DEFINE M == IntRange
           h == M \div 2
           x == a + h
           q == x \div M
           r == x % M
<1>1. M \in Nat /\ M > 0 /\ h \in Int /\ x \in Int
  OBVIOUS
<1> HIDE DEF h
<1>2. Wrap(a) = r - h
  BY DEF Wrap, h
<1> HIDE DEF x
<1>3. q \in Int /\ r \in 0..(M - 1) /\ x = q * M + r
  BY <1>1
<1> HIDE DEF q, r
<1> DEFINE k == -q
<1>4. k \in Int /\ r - h = a + k * M
  BY <1>1, <1>3 DEF x
<1> HIDE DEF k
<1> QED  BY <1>2, <1>4

(* Wrapping before a product or a sum makes no difference after it.         *)
LEMMA WrapTimes ==
  ASSUME IntRange \in Nat \ {0}, NEW a \in Int, NEW d \in Int
  PROVE  Wrap(Wrap(a) * d) = Wrap(a * d)
<1> DEFINE M == IntRange
<1>1. PICK k \in Int : Wrap(a) = a + k * M
  BY WrapIs
<1>2. M \in Int
  OBVIOUS
<1> HIDE DEF M
<1> DEFINE b == a * d
           c == k * d
<1>3. b \in Int /\ c \in Int
  OBVIOUS
<1>4. (a + k * M) * d = b + c * M
  <2>1. \A u, v, w, z \in Int : (u + v * w) * z = u * z + (v * z) * w
    OBVIOUS
  <2> QED  BY <1>2, <2>1
<1> HIDE DEF b, c
<1>5. Wrap(b + c * M) = Wrap(b)
  BY <1>3, WrapMultiple DEF M
<1> QED  BY <1>1, <1>4, <1>5 DEF b

LEMMA WrapPlus ==
  ASSUME IntRange \in Nat \ {0}, NEW a \in Int, NEW b \in Int
  PROVE  Wrap(Wrap(a) + Wrap(b)) = Wrap(a + b)
<1> DEFINE M == IntRange
<1>1. PICK j \in Int : Wrap(a) = a + j * M
  BY WrapIs
<1>2. PICK k \in Int : Wrap(b) = b + k * M
  BY WrapIs
<1>3. M \in Int
  OBVIOUS
<1> HIDE DEF M
<1> DEFINE s == a + b
           c == j + k
<1>4. s \in Int /\ c \in Int
  OBVIOUS
<1>5. (a + j * M) + (b + k * M) = s + c * M
  <2>1. \A u, v, w, y, z \in Int : (u + w * z) + (v + y * z) = (u + v) + (w + y) * z
    OBVIOUS
  <2> QED  BY <1>3, <2>1
<1> HIDE DEF s, c
<1>6. Wrap(s + c * M) = Wrap(s)
  BY <1>4, WrapMultiple DEF M
<1> QED  BY <1>1, <1>2, <1>5, <1>6 DEF s

(* The running products of f up to n, and the last of them.                 *)
Running(t, f, n) ==
  /\ t \in [0..n -> Int] /\ t[0] = 1
  /\ \A k \in 1..n : t[k] = t[k - 1] * f[k]
Times(f, n) == (CHOOSE t : Running(t, f, n))[n]

Integers(f, n) == \A i \in 1..n : f[i] \in Int

LEMMA RunningIs ==
  ASSUME NEW n \in Nat, NEW f, Integers(f, n)
  PROVE  \E t : Running(t, f, n)
<1> DEFINE step == [i \in 1..n |-> [a \in Int |-> a * f[i]]]
           base == 1
<1>1. step \in [1..n -> [Int -> Int]]
  BY DEF Integers
<1>2. base \in Int /\ n \in Nat
  OBVIOUS
<1> HIDE DEF step, base
<1>3. PICK t \in [0..n -> Int] : Upto(t, n, base, step)
  BY <1>1, <1>2, RecursiveFunction
<1>4. \A k \in 1..n : t[k - 1] \in Int
  OBVIOUS
<1> USE DEF step, base
<1>5. \A k \in 1..n : t[k] = t[k - 1] * f[k]
  BY <1>3, <1>4 DEF Upto
<1> QED  BY <1>3, <1>5 DEF Upto, Running

(* The last running product does not depend on what f is after n.           *)
LEMMA RunningSame ==
  ASSUME NEW n \in Nat, NEW f, NEW h, \A i \in 1..n : f[i] = h[i],
         NEW t, NEW u, Running(t, f, n), Running(u, h, n)
  PROVE  \A k \in 0..n : t[k] = u[k]
<1> DEFINE S == {k \in 0..n : t[k] = u[k]}
<1>1. 0 \in S
  BY DEF Running
<1>2. ASSUME NEW k \in 1..n, k - 1 \in S PROVE k \in S
  BY <1>2 DEF Running
<1> HIDE DEF S
<1>3. 0..n \subseteq S
  BY <1>1, <1>2, IntervalInduction
<1> QED  BY <1>3 DEF S

LEMMA TimesIs ==
  ASSUME NEW n \in Nat, NEW f, Integers(f, n), NEW t, Running(t, f, n)
  PROVE  Times(f, n) = t[n] /\ Times(f, n) \in Int
<1> DEFINE u == CHOOSE v : Running(v, f, n)
<1>1. Running(u, f, n)
  OBVIOUS
<1> HIDE DEF u
<1>2. \A i \in 1..n : f[i] = f[i]
  OBVIOUS
<1>3. \A k \in 0..n : u[k] = t[k]
  BY <1>1, <1>2, RunningSame
<1>4. n \in 0..n /\ t[n] \in Int
  BY DEF Running
<1> QED  BY <1>3, <1>4 DEF Times, u

LEMMA TimesZero ==
  ASSUME NEW f
  PROVE  Times(f, 0) = 1
<1> DEFINE n == 0
<1>1. n \in Nat /\ Integers(f, n)
  BY DEF Integers
<1> HIDE DEF n
<1>2. PICK t : Running(t, f, n)
  BY <1>1, RunningIs
<1>3. Times(f, n) = t[n]
  BY <1>1, <1>2, TimesIs
<1> QED  BY <1>2, <1>3 DEF n, Running

LEMMA TimesNext ==
  ASSUME NEW n \in Nat, NEW f, Integers(f, n + 1)
  PROVE  /\ Times(f, n + 1) = Times(f, n) * f[n + 1]
         /\ Times(f, n) \in Int /\ Times(f, n + 1) \in Int /\ f[n + 1] \in Int
<1> DEFINE m == n + 1
<1>1. m \in Nat /\ Integers(f, m) /\ Integers(f, n) /\ f[m] \in Int
  BY DEF Integers
<1>2. n \in 0..m /\ m \in 1..m /\ m - 1 = n /\ n \in 0..n
  OBVIOUS
<1>3. \A k \in 1..n : k \in 1..m
  OBVIOUS
<1> HIDE DEF m
<1>4. PICK t : Running(t, f, m)
  BY <1>1, RunningIs
<1>5. PICK u : Running(u, f, n)
  BY <1>1, RunningIs
<1>6. Times(f, m) = t[m] /\ Times(f, n) = u[n] /\ Times(f, m) \in Int /\ Times(f, n) \in Int
  BY <1>1, <1>4, <1>5, TimesIs
<1>7. t[n] = u[n]
  <2> DEFINE S == {k \in 0..n : t[k] = u[k]}
  <2>1. 0 \in S
    BY <1>4, <1>5 DEF Running
  <2>2. ASSUME NEW k \in 1..n, k - 1 \in S PROVE k \in S
    BY <1>3, <1>4, <1>5, <2>2 DEF Running
  <2> HIDE DEF S
  <2>3. 0..n \subseteq S
    BY <2>1, <2>2, IntervalInduction
  <2> QED  BY <1>2, <2>3 DEF S
<1>8. t[m] = t[n] * f[m]
  BY <1>2, <1>4 DEF Running
<1> QED  BY <1>1, <1>6, <1>7, <1>8 DEF m

LEMMA TimesSame ==
  ASSUME NEW n \in Nat, NEW f, NEW h, Integers(f, n), \A i \in 1..n : f[i] = h[i]
  PROVE  Times(f, n) = Times(h, n) /\ Times(f, n) \in Int
<1>1. Integers(h, n)
  BY DEF Integers
<1>2. PICK t : Running(t, f, n)
  BY RunningIs
<1>3. PICK u : Running(u, h, n)
  BY <1>1, RunningIs
<1>4. n \in 0..n
  OBVIOUS
<1>5. t[n] = u[n]
  BY <1>2, <1>3, <1>4, RunningSame
<1> QED  BY <1>1, <1>2, <1>3, <1>5, TimesIs

(* One factor can be taken out.                                             *)
LEMMA TimesFactor ==
  ASSUME NEW n \in Nat, NEW f, Integers(f, n), NEW j \in 1..n, NEW h,
         h[j] = 1, \A i \in 1..n : i # j => h[i] = f[i]
  PROVE  Times(f, n) = f[j] * Times(h, n) /\ Times(h, n) \in Int /\ f[j] \in Int
<1>1. Integers(h, n) /\ f[j] \in Int
  BY DEF Integers
<1>2. PICK t : Running(t, f, n)
  BY RunningIs
<1>3. PICK u : Running(u, h, n)
  BY <1>1, RunningIs
<1>4. Times(f, n) = t[n] /\ Times(h, n) = u[n] /\ Times(h, n) \in Int
  BY <1>1, <1>2, <1>3, TimesIs
<1> DEFINE S == {k \in 0..n : t[k] = IF k < j THEN u[k] ELSE f[j] * u[k]}
<1>5. 0 \in S
  BY <1>2, <1>3 DEF Running
<1>6. ASSUME NEW k \in 1..n, k - 1 \in S PROVE k \in S
  <2>1. /\ t[k] = t[k - 1] * f[k] /\ u[k] = u[k - 1] * h[k]
        /\ t[k - 1] \in Int /\ u[k - 1] \in Int /\ f[k] \in Int /\ h[k] \in Int
        /\ u[k] \in Int
    <3>1. k - 1 \in 0..n /\ k \in 0..n
      OBVIOUS
    <3> QED  BY <1>1, <1>2, <1>3, <3>1 DEF Running, Integers
  <2>2. CASE k < j
    BY <1>6, <2>1, <2>2
  <2>3. CASE k = j
    <3>1. t[k - 1] = u[k - 1]
      BY <1>6, <2>3
    <3>2. u[k] = u[k - 1]
      BY <2>1, <2>3
    <3>3. t[k] = f[j] * u[k]
      BY <2>1, <2>3, <3>1, <3>2
    <3> QED  BY <2>3, <3>3
  <2>4. CASE k > j
    <3>1. t[k - 1] = f[j] * u[k - 1] /\ h[k] = f[k]
      BY <1>6, <2>4
    <3>2. \A a, b, c \in Int : (a * b) * c = a * (b * c)
      OBVIOUS
    <3>3. t[k] = f[j] * u[k]
      BY <1>1, <2>1, <3>1, <3>2
    <3> QED  BY <2>4, <3>3
  <2> QED  BY <2>2, <2>3, <2>4
<1> HIDE DEF S
<1>7. 0..n \subseteq S
  BY <1>5, <1>6, IntervalInduction
<1>8. n \in 0..n /\ ~(n < j)
  OBVIOUS
<1>9. t[n] = f[j] * u[n]
  BY <1>7, <1>8 DEF S
<1> QED  BY <1>1, <1>4, <1>9

(* Exchanging the last factor with another makes no difference.             *)
LEMMA TimesExchange ==
  ASSUME NEW n \in Nat, NEW f, NEW v, Integers(v, n + 1), NEW j \in 1..n,
         f[j] = v[n + 1], f[n + 1] = v[j],
         \A i \in 1..n : i # j => f[i] = v[i]
  PROVE  Times(f, n + 1) = Times(v, n + 1)
<1> DEFINE h == [i \in 1..n |-> IF i = j THEN 1 ELSE v[i]]
<1>1. Integers(v, n) /\ v[n + 1] \in Int /\ v[j] \in Int
  BY DEF Integers
<1>2. Integers(f, n) /\ Integers(f, n + 1)
  <2>1. \A i \in 1..(n + 1) : i \in 1..n \/ i = n + 1
    OBVIOUS
  <2> QED  BY <1>1, <2>1 DEF Integers
<1>3. /\ h[j] = 1 /\ \A i \in 1..n : i # j => h[i] = v[i]
      /\ \A i \in 1..n : i # j => h[i] = f[i]
  OBVIOUS
<1> HIDE DEF h
<1>4. Times(v, n) = v[j] * Times(h, n) /\ Times(h, n) \in Int
  BY <1>1, <1>3, TimesFactor
<1>5. Times(f, n) = f[j] * Times(h, n)
  BY <1>2, <1>3, TimesFactor
<1>6. Times(v, n + 1) = Times(v, n) * v[n + 1] /\ Times(f, n + 1) = Times(f, n) * f[n + 1]
  BY <1>2, TimesNext
<1>7. \A a, b, c \in Int : (a * c) * b = (b * c) * a
  OBVIOUS
<1> QED  BY <1>1, <1>4, <1>5, <1>6, <1>7

(* The factors taken in another order: u is v rearranged by q.              *)
Rearranged(u, v, q, n) ==
  /\ \A i, k \in 1..n : q[i] = q[k] => i = k
  /\ \A i \in 1..n : u[i] = v[q[i]]

LEMMA Permute ==
  ASSUME NEW n \in Nat, NEW u \in [1..n -> Int], NEW v \in [1..n -> Int],
         NEW q \in [1..n -> 1..n], Rearranged(u, v, q, n)
  PROVE  Times(u, n) = Times(v, n)
<1> DEFINE S == {k \in Nat : \A a, b \in [1..k -> Int], r \in [1..k -> 1..k] :
                   Rearranged(a, b, r, k) => Times(a, k) = Times(b, k)}
<1>1. 0 \in S
  <2> SUFFICES ASSUME NEW a, NEW b PROVE Times(a, 0) = Times(b, 0)
    OBVIOUS
  <2> QED  BY TimesZero
<1>2. ASSUME NEW k \in Nat, k \in S PROVE k + 1 \in S
  <2> DEFINE m == k + 1
  <2>1. m \in Nat /\ m \in 1..m /\ m \notin 1..k
        /\ (\A i \in 1..m : i \in 1..k \/ i = m) /\ \A i \in 1..k : i \in 1..m /\ i # m
    OBVIOUS
  <2> SUFFICES ASSUME NEW a \in [1..m -> Int], NEW b \in [1..m -> Int],
                      NEW r \in [1..m -> 1..m], Rearranged(a, b, r, m)
               PROVE  Times(a, m) = Times(b, m)
    BY <2>1
  <2> DEFINE j == r[m]
             c == [i \in 1..k |-> a[i]]
             w == [i \in 1..k |-> IF i = j THEN b[m] ELSE b[i]]
             p == [i \in 1..k |-> IF r[i] = m THEN j ELSE r[i]]
             f == [i \in 1..m |-> IF i = m THEN b[j] ELSE IF i = j THEN b[m] ELSE b[i]]
  <2>2. j \in 1..m /\ a[m] = b[j] /\ b[j] \in Int /\ b[m] \in Int
    BY <2>1 DEF Rearranged
  <2>3. \A i \in 1..k : r[i] # j /\ r[i] \in 1..m /\ a[i] = b[r[i]]
    BY <2>1 DEF Rearranged
  <2>4. c \in [1..k -> Int] /\ w \in [1..k -> Int] /\ f \in [1..m -> Int]
    <3> HIDE DEF m
    <3> QED  BY <2>1, <2>2
  <2>5. p \in [1..k -> 1..k]
    <3> HIDE DEF m
    <3>1. \A i \in 1..k : r[i] = m => j \in 1..k
      BY <2>1, <2>2, <2>3
    <3>2. \A i \in 1..k : r[i] # m => r[i] \in 1..k
      BY <2>1, <2>3
    <3> QED  BY <3>1, <3>2
  <2>6. Rearranged(c, w, p, k)
    <3>1. ASSUME NEW i \in 1..k, NEW l \in 1..k, p[i] = p[l] PROVE i = l
      <4>1. r[i] = r[l] => i = l
        BY <2>1 DEF Rearranged
      <4> HIDE DEF m, j
      <4> QED  BY <2>3, <3>1, <4>1
    <3>2. ASSUME NEW i \in 1..k PROVE c[i] = w[p[i]]
      <4>1. p[i] \in 1..k
        BY <2>5
      <4>2. w[p[i]] = IF p[i] = j THEN b[m] ELSE b[p[i]]
        BY <4>1
      <4>3. c[i] = b[r[i]] /\ r[i] # j /\ p[i] = IF r[i] = m THEN j ELSE r[i]
        BY <2>3
      <4> HIDE DEF m, j, w, p, c
      <4> QED  BY <4>2, <4>3
    <3> HIDE DEF c, w, p
    <3> QED  BY <3>1, <3>2 DEF Rearranged
  <2>7. Times(c, k) = Times(w, k)
    <3> HIDE DEF c, w, p
    <3> QED  BY <1>2, <2>4, <2>5, <2>6
  <2>8. Integers(a, m) /\ Integers(b, m) /\ Integers(f, m) /\ Integers(a, k)
        /\ Integers(b, k) /\ Integers(f, k) /\ Integers(w, k) /\ Integers(c, k)
    <3> HIDE DEF m, f, w, c
    <3> QED  BY <2>1, <2>4 DEF Integers
  <2>9. \A i \in 1..k : a[i] = c[i]
    OBVIOUS
  <2>10. Times(a, k) = Times(w, k)
    <3> HIDE DEF c, w
    <3> QED  BY <2>7, <2>8, <2>9, TimesSame
  <2>11. Times(a, m) = Times(w, k) * b[j]
    BY <2>2, <2>8, <2>10, TimesNext
  <2>12. CASE j = m
    <3>1. \A i \in 1..k : w[i] = b[i]
      <4> HIDE DEF m, j
      <4> QED  BY <2>1, <2>12
    <3> HIDE DEF w
    <3>2. Times(w, k) = Times(b, k)
      BY <2>8, <3>1, TimesSame
    <3>3. Times(b, m) = Times(b, k) * b[m]
      BY <2>8, TimesNext
    <3> QED  BY <2>11, <2>12, <3>2, <3>3
  <2>13. CASE j \in 1..k
    <3>1. f[j] = b[m] /\ f[m] = b[j] /\ \A i \in 1..k : i # j => f[i] = b[i]
      <4> HIDE DEF m, j
      <4> QED  BY <2>1, <2>2, <2>13
    <3>2. \A i \in 1..k : f[i] = w[i]
      <4> HIDE DEF m, j
      <4> QED  BY <2>1
    <3> HIDE DEF f, w
    <3>3. Times(f, m) = Times(b, m)
      <4> HIDE DEF j
      <4> QED  BY <2>8, <2>13, <3>1, TimesExchange
    <3>4. Times(f, k) = Times(w, k)
      BY <2>8, <3>2, TimesSame
    <3>5. Times(f, m) = Times(f, k) * f[m]
      BY <2>8, TimesNext
    <3> QED  BY <2>11, <3>1, <3>3, <3>4, <3>5
  <2> QED  BY <2>1, <2>2, <2>12, <2>13
<1> HIDE DEF S
<1>3. Nat \subseteq S
  BY <1>1, <1>2, SetInduction
<1> QED  BY <1>3 DEF S

(* numel is the product, wrapped.                                           *)
LEMMA ProductIs ==
  ASSUME NEW s \in Seq(Int), s # <<>>, IntRange \in Nat \ {0}
  PROVE  Product(s) = Wrap(Times(s, Len(s))) /\ Times(s, Len(s)) \in Int
<1> DEFINE n == Len(s)
<1>0. n \in Nat /\ n # 0 /\ \A i \in 1..n : s[i] \in Int
  OBVIOUS
<1>1. PICK t \in [0..n -> Int] : Upto(t, n, 1, MultiplyStep(s)) /\ Product(s) = t[n]
  BY ProductUpto
<1>2. Integers(s, n)
  BY <1>0 DEF Integers
<1> HIDE DEF n
<1>3. PICK u : Running(u, s, n)
  BY <1>0, <1>2, RunningIs
<1>4. t[0] = 1 /\ \A k \in 1..n : t[k] = Wrap(t[k - 1] * s[k])
  <2> SUFFICES ASSUME NEW k \in 1..n PROVE MultiplyStep(s)[k][t[k - 1]] = Wrap(t[k - 1] * s[k])
    BY <1>1 DEF Upto
  <2>1. t[k - 1] \in Int
    <3>1. k - 1 \in 0..n
      BY <1>0
    <3> QED  BY <3>1
  <2> QED  BY <2>1 DEF MultiplyStep, n
<1> DEFINE S == {k \in 0..n : k # 0 => t[k] = Wrap(u[k])}
<1>5. 0 \in S
  BY <1>0
<1>6. ASSUME NEW k \in 1..n, k - 1 \in S PROVE k \in S
  <2>1. u[k] = u[k - 1] * s[k] /\ u[k - 1] \in Int /\ s[k] \in Int
    <3>1. k - 1 \in 0..n
      BY <1>0
    <3> QED  BY <1>0, <1>3, <3>1 DEF Running
  <2>2. t[k] = Wrap(t[k - 1] * s[k])
    BY <1>4
  <2>3. CASE k = 1
    BY <1>3, <1>4, <2>1, <2>2, <2>3 DEF Running
  <2>4. CASE k # 1
    <3>1. t[k - 1] = Wrap(u[k - 1])
      BY <1>6, <2>4
    <3> DEFINE a == u[k - 1]
               d == s[k]
    <3> HIDE DEF a, d
    <3>2. Wrap(Wrap(a) * d) = Wrap(a * d)
      BY <2>1, WrapTimes DEF a, d
    <3> QED  BY <2>1, <2>2, <3>1, <3>2 DEF a, d
  <2> QED  BY <2>3, <2>4
<1> HIDE DEF S
<1>7. 0..n \subseteq S
  BY <1>0, <1>5, <1>6, IntervalInduction
<1>8. t[n] = Wrap(u[n])
  BY <1>0, <1>7 DEF S
<1>9. Times(s, n) = u[n] /\ Times(s, n) \in Int
  BY <1>0, <1>2, <1>3, TimesIs
<1> QED  BY <1>1, <1>8, <1>9 DEF n

(* A shape with its dimensions in another order has as many elements.       *)
LEMMA ProductPermuted ==
  ASSUME NEW s \in Seq(Int), NEW p \in Seq(Int), Len(p) = Len(s),
         Range(p) = 0..(Len(p) - 1), IntRange \in Nat \ {0}
  PROVE  Product([i \in DOMAIN p |-> s[p[i] + 1]]) = Product(s)
<1> DEFINE n == Len(s)
           D == 1..n
           u == [i \in D |-> s[p[i] + 1]]
           q == [i \in D |-> p[i] + 1]
<1>1. n \in Nat /\ DOMAIN p = D /\ s \in [D -> Int] /\ (s = <<>> <=> n = 0)
  OBVIOUS
<1>2. Range(p) = 0..(n - 1)
  OBVIOUS
<1>3. \A i \in D : p[i] \in 0..(n - 1)
  BY <1>1, <1>2 DEF Range
<1>4. q \in [D -> D]
  <2>1. \A i \in D : p[i] + 1 \in D
    BY <1>1, <1>3
  <2> HIDE DEF D
  <2> QED  BY <2>1
<1>5. u \in Seq(Int) /\ Len(u) = n /\ u \in [D -> Int] /\ \A i \in D : u[i] = s[q[i]]
  <2>1. \A i \in D : s[p[i] + 1] \in Int
    BY <1>1, <1>3
  <2> HIDE DEF n
  <2> QED  BY <1>1, <2>1
<1>6. CASE n = 0
  <2>1. u = <<>> /\ s = <<>>
    BY <1>1, <1>5, <1>6
  <2> QED  BY <1>1, <2>1
<1>7. CASE n # 0
  <2>1. \A i, k \in D : q[i] = q[k] => i = k
    <3>1. IsFiniteSet(D) /\ Cardinality(D) = n
      <4> HIDE DEF n
      <4> QED  BY <1>1, FS_Interval
    <3>2. q \in Surjection(D, D)
      <4>1. \A y \in D : \E i \in D : q[i] = y
        <5> SUFFICES ASSUME NEW y \in D PROVE \E i \in D : q[i] = y
          OBVIOUS
        <5>1. y - 1 \in Range(p)
          BY <1>1, <1>2
        <5>2. PICK i \in D : p[i] = y - 1
          BY <1>1, <5>1 DEF Range
        <5>3. q[i] = y
          BY <1>1, <5>2
        <5> QED  BY <5>3
      <4> HIDE DEF q, D
      <4> QED  BY <1>4, <4>1 DEF Surjection
    <3> HIDE DEF q, D
    <3>3. q \in Injection(D, D)
      BY <3>1, <3>2, FS_SurjSameCardinalityImpliesInj
    <3> QED  BY <3>3 DEF Injection, IsInjective
  <2> HIDE DEF u, q
  <2>2. Times(u, n) = Times(s, n)
    <3>1. Rearranged(u, s, q, n)
      BY <1>5, <2>1 DEF Rearranged
    <3> HIDE DEF n
    <3> QED  BY <1>1, <1>4, <1>5, <3>1, Permute
  <2>3. Product(u) = Wrap(Times(u, n)) /\ Product(s) = Wrap(Times(s, n))
    <3>1. s # <<>> /\ u # <<>>
      BY <1>1, <1>5, <1>7
    <3> QED  BY <1>5, <3>1, ProductIs
  <2>4. Product(u) = Product(s)
    BY <2>2, <2>3
  <2> QED  BY <1>1, <2>4 DEF u
<1> QED  BY <1>6, <1>7

(* Shapes that differ in one dimension, put together along it.              *)
LEMMA ProductConcat ==
  ASSUME NEW x \in Seq(Int), NEW y \in Seq(Int), Len(y) = Len(x),
         NEW j \in 1..Len(x), \A d \in 1..Len(x) : d # j => y[d] = x[d],
         IntRange \in Nat \ {0}
  PROVE  Product([x EXCEPT ![j] = x[j] + y[j]]) = Wrap(Product(x) + Product(y))
<1> DEFINE n == Len(x)
           h == [i \in 1..n |-> IF i = j THEN 1 ELSE x[i]]
           z == [x EXCEPT ![j] = x[j] + y[j]]
           H == Times(h, n)
           a == Times(x, n)
           b == Times(y, n)
<1>1. n \in Nat /\ n # 0 /\ x # <<>> /\ y # <<>> /\ x[j] \in Int /\ y[j] \in Int
  OBVIOUS
<1>2. z \in Seq(Int) /\ Len(z) = n /\ z # <<>> /\ z[j] = x[j] + y[j]
      /\ \A i \in 1..n : i # j => z[i] = x[i]
  OBVIOUS
<1>3. Integers(x, n) /\ Integers(y, n) /\ Integers(z, n)
  <2> HIDE DEF z
  <2> QED  BY <1>2 DEF Integers
<1>4. h[j] = 1 /\ \A i \in 1..n : i # j => h[i] = x[i] /\ h[i] = y[i] /\ h[i] = z[i]
  <2> HIDE DEF z
  <2> QED  BY <1>2
<1>5. Product(x) = Wrap(a) /\ Product(y) = Wrap(b) /\ Product(z) = Wrap(Times(z, n))
      /\ a \in Int /\ b \in Int
  <2> HIDE DEF z
  <2> QED  BY <1>1, <1>2, ProductIs
<1> HIDE DEF h, z, H, a, b
<1>6. a = x[j] * H /\ b = y[j] * H /\ Times(z, n) = z[j] * H /\ H \in Int
  <2>1. j \in 1..n
    OBVIOUS
  <2> HIDE DEF n
  <2>2. Times(x, n) = x[j] * Times(h, n) /\ Times(h, n) \in Int
    BY <1>1, <1>3, <1>4, <2>1, TimesFactor, SMTT(30)
  <2>3. Times(y, n) = y[j] * Times(h, n)
    BY <1>1, <1>3, <1>4, <2>1, TimesFactor
  <2>4. Times(z, n) = z[j] * Times(h, n)
    BY <1>1, <1>3, <1>4, <2>1, TimesFactor
  <2> QED  BY <2>2, <2>3, <2>4 DEF H, a, b
<1>7. Times(z, n) = a + b
  <2>1. \A c, d, e \in Int : (c + d) * e = c * e + d * e
    OBVIOUS
  <2> QED  BY <1>1, <1>2, <1>6, <2>1, SMTT(30)
<1>8. Wrap(Wrap(a) + Wrap(b)) = Wrap(a + b)
  BY <1>5, WrapPlus
<1> QED  BY <1>5, <1>7, <1>8 DEF z

LEMMA SumTwo ==
  ASSUME NEW a \in Int, NEW b \in Int
  PROVE  SumOf(<<a, b>>) = a + b
<1> DEFINE e == <<>>
           s == <<a>>
           t == <<a, b>>
<1>1. e \in Seq(Int) /\ s \in Seq(Int) /\ s = Append(e, a) /\ t = Append(s, b)
  OBVIOUS
<1>2. SumOf(e) = 0
  BY SumEmpty
<1> HIDE DEF e
<1>3. SumOf(s) = SumOf(e) + a
  BY <1>1, SumAppend
<1> HIDE DEF s, t
<1>4. SumOf(t) = SumOf(s) + b
  BY <1>1, SumAppend
<1> QED  BY <1>2, <1>3, <1>4 DEF t
(* What one statement more does to a graph.                                 *)
Stated(gr, h, st) ==
  /\ h \in Graph /\ st \in Stmt
  /\ h.params = gr.params /\ h.taken = gr.taken
  /\ h.stmts = Append(gr.stmts, st)
  /\ Reserved(gr, st.binds.name)
  /\ Range(st.uses) \subseteq Usable(gr)

(* The invariant of a Graph.  Every name that is bound is taken, and bound  *)
(* once.                                                                    *)
NamedInv(gr) ==
  /\ NamesOf(gr) \subseteq gr.taken
  /\ \A i, j \in DOMAIN gr.params : gr.params[i].name = gr.params[j].name => i = j
  /\ \A i, j \in DOMAIN gr.stmts :
       gr.stmts[i].binds.name = gr.stmts[j].binds.name => i = j
  /\ \A i \in DOMAIN gr.params, j \in DOMAIN gr.stmts :
       gr.params[i].name # gr.stmts[j].binds.name

(* A statement uses what is bound before it.                                *)
UsesInv(gr) ==
  \A i \in DOMAIN gr.stmts :
    Range(gr.stmts[i].uses)
      \subseteq Range(gr.params) \cup {gr.stmts[j].binds : j \in 1..(i - 1)}

(* An op's result and operands are bound, and no op up to it reads its      *)
(* result.                                                                  *)
ReadsInv(gr) ==
  \A i \in DOMAIN gr.ops :
    /\ gr.ops[i].result \in NamesOf(gr) /\ Range(gr.ops[i].reads) \subseteq NamesOf(gr)
    /\ \A j \in 1..i : gr.ops[i].result \notin Range(gr.ops[j].reads)

(* The table of sizes has the price of every tensor.                        *)
PricedInv(gr) ==
  \A v \in Usable(gr) : v.name \in DOMAIN gr.sizes /\ gr.sizes[v.name] = ByteSize(v)

(* The list of ops and the table of sizes cost what the statements cost.    *)
TrafficInv(gr) ==
  /\ Len(gr.ops) = Cardinality({i \in DOMAIN gr.stmts : IsOp(gr.stmts[i])})
  /\ SumOf([i \in DOMAIN gr.ops |-> Priced(gr, gr.ops[i].result)])
       = SumOf([i \in DOMAIN gr.stmts |-> BytesWritten(gr.stmts[i])])
  /\ Saturate(SumOf([i \in DOMAIN gr.ops |-> gr.ops[i].readBytes]))
       = Saturate(SumOf([i \in DOMAIN gr.stmts |-> BytesRead(gr.stmts[i])]))

(* Every statement declares a shape that is true and has as many elements   *)
(* as its operands, if it only rearranges them.                             *)
StmtTrue(st) == ShapeTrue(st) /\ CountKept(st)
ShapesInv(gr) == \A i \in DOMAIN gr.stmts : StmtTrue(gr.stmts[i])

GraphInv(gr) ==
  /\ TypedInv(gr) /\ NamedInv(gr) /\ UsesInv(gr)
  /\ ReadsInv(gr) /\ PricedInv(gr) /\ TrafficInv(gr) /\ ShapesInv(gr)

(* One element more in a sequence is one more in its range.                 *)
LEMMA RangeAppended ==
  ASSUME NEW S, NEW s \in Seq(S), NEW e \in S
  PROVE  /\ Range(Append(s, e)) = Range(s) \cup {e}
         /\ DOMAIN s = 1..Len(s) /\ DOMAIN Append(s, e) = 1..(Len(s) + 1)
         /\ Len(s) \in Nat
         /\ Len(Append(s, e)) = Len(s) + 1 /\ Append(s, e)[Len(s) + 1] = e
         /\ \A i \in 1..Len(s) : Append(s, e)[i] = s[i] /\ s[i] \in S
<1> DEFINE t == Append(s, e)
<1>1. /\ DOMAIN s = 1..Len(s) /\ DOMAIN t = 1..(Len(s) + 1) /\ Len(s) \in Nat
      /\ Len(t) = Len(s) + 1 /\ t[Len(s) + 1] = e
      /\ \A i \in 1..Len(s) : t[i] = s[i] /\ s[i] \in S
  OBVIOUS
<1> DEFINE n == Len(s)
<1> HIDE DEF n, t
<1>2. \A x : x \in Range(t) <=> x \in Range(s) \cup {e}
  <2>1. \A x : x \in Range(t) <=> \E i \in 1..(n + 1) : t[i] = x
    BY <1>1 DEF Range, n
  <2>2. \A x : x \in Range(s) <=> \E i \in 1..n : s[i] = x
    BY <1>1 DEF Range, n
  <2>3. n \in Nat /\ t[n + 1] = e /\ \A i \in 1..n : t[i] = s[i]
    BY <1>1 DEF n
  <2>4. \A i : i \in 1..(n + 1) <=> i \in 1..n \/ i = n + 1
    BY <2>3
  <2> QED  BY <2>1, <2>2, <2>3, <2>4
<1> QED  BY <1>1, <1>2 DEF t

(* A statement under a reserved name keeps names apart and uses earlier.    *)
LEMMA StatedNames ==
  ASSUME NEW gr, NEW h, NEW st, TypedInv(gr), Stated(gr, h, st)
  PROVE  /\ TypedInv(h)
         /\ BoundVals(h) = BoundVals(gr) \cup {st.binds}
         /\ NamesOf(h) = NamesOf(gr) \cup {st.binds.name}
         /\ st.binds.name \notin NamesOf(gr)
         /\ Usable(gr) \subseteq Usable(h)
         /\ st.binds.dtype # "attribute" => st.binds \in Usable(h)
         /\ NamedInv(gr) => NamedInv(h)
         /\ UsesInv(gr) => UsesInv(h)
<1> DEFINE n == Len(gr.stmts)
<1>1. gr.stmts \in Seq(Stmt) /\ st \in Stmt /\ h.stmts = Append(gr.stmts, st)
  BY DEF TypedInv, Stated, Graph
<1>2. /\ Range(h.stmts) = Range(gr.stmts) \cup {st}
      /\ DOMAIN gr.stmts = 1..n /\ DOMAIN h.stmts = 1..(n + 1) /\ n \in Nat
      /\ h.stmts[n + 1] = st
      /\ \A i \in 1..n : h.stmts[i] = gr.stmts[i]
  BY <1>1, RangeAppended
<1> HIDE DEF n
<1>3. BoundVals(h) = BoundVals(gr) \cup {st.binds}
  BY <1>2 DEF BoundVals, Stated
<1>4. NamesOf(h) = NamesOf(gr) \cup {st.binds.name}
  BY <1>3 DEF NamesOf
<1>5. st.binds.name \notin NamesOf(gr) /\ st.binds.name \in gr.taken
      /\ h.params = gr.params /\ h.taken = gr.taken /\ h \in Graph
  BY DEF Stated, Reserved
<1>6. TypedInv(h)
  BY <1>5 DEF TypedInv
<1>7. Usable(gr) \subseteq Usable(h) /\ (st.binds.dtype # "attribute" => st.binds \in Usable(h))
  BY <1>3 DEF Usable
<1>8. \A i \in 1..n : gr.stmts[i].binds.name # st.binds.name
  <2>1. \A i \in 1..n : gr.stmts[i].binds \in BoundVals(gr)
    BY <1>2 DEF BoundVals, Range
  <2> QED  BY <2>1, <1>5 DEF NamesOf
<1>9. \A i \in DOMAIN gr.params : gr.params[i].name # st.binds.name
  <2>1. \A i \in DOMAIN gr.params : gr.params[i] \in BoundVals(gr)
    BY DEF BoundVals, Range
  <2> QED  BY <2>1, <1>5 DEF NamesOf
<1>10. \A i : i \in 1..(n + 1) <=> i \in 1..n \/ i = n + 1
  BY <1>2
<1>11. ASSUME NamedInv(gr) PROVE NamedInv(h)
  <2>1. NamesOf(h) \subseteq h.taken
    BY <1>4, <1>5, <1>11 DEF NamedInv
  <2>2. \A i, j \in 1..(n + 1) : h.stmts[i].binds.name = h.stmts[j].binds.name => i = j
    BY <1>2, <1>8, <1>10, <1>11 DEF NamedInv
  <2>3. \A i \in DOMAIN h.params, j \in 1..(n + 1) :
          h.params[i].name # h.stmts[j].binds.name
    BY <1>2, <1>5, <1>9, <1>10, <1>11 DEF NamedInv
  <2>4. \A i, j \in DOMAIN h.params : h.params[i].name = h.params[j].name => i = j
    BY <1>5, <1>11 DEF NamedInv
  <2> QED  BY <1>2, <2>1, <2>2, <2>3, <2>4 DEF NamedInv
<1>12. ASSUME UsesInv(gr) PROVE UsesInv(h)
  <2> SUFFICES ASSUME NEW i \in 1..(n + 1), NEW x \in Range(h.stmts[i].uses)
               PROVE  x \in Range(h.params)
                        \cup {h.stmts[j].binds : j \in 1..(i - 1)}
    BY <1>2 DEF UsesInv
  <2>1. CASE i \in 1..n
    <3>1. x \in Range(gr.params) \/ \E j \in 1..(i - 1) : x = gr.stmts[j].binds
      BY <1>2, <1>12, <2>1, SMTT(30) DEF UsesInv
    <3>2. \A j \in 1..(i - 1) : j \in 1..n
      BY <1>2, <2>1
    <3> QED  BY <1>2, <1>5, <3>1, <3>2
  <2>2. CASE i = n + 1
    <3>1. x \in BoundVals(gr)
      BY <1>2, <2>2 DEF Stated, Usable
    <3>2. x \in Range(gr.params) \/ \E j \in 1..n : x = gr.stmts[j].binds
      BY <3>1, <1>2 DEF BoundVals, Range
    <3>3. i - 1 = n
      BY <1>2, <2>2
    <3> QED  BY <1>2, <1>5, <3>2, <3>3
  <2> QED  BY <1>10, <2>1, <2>2
<1> QED  BY <1>3, <1>4, <1>5, <1>6, <1>7, <1>11, <1>12

-----------------------------------------------------------------------------
(* What a statement costs.                                                  *)
LEMMA ProductInt ==
  ASSUME NEW s \in Seq(Int)
  PROVE  Product(s) \in Int
<1>1. IntRange \in Nat \ {0} /\ Len(s) \in Nat
  BY MilAssumption
<1>2. PICK t \in [0..Len(s) -> Int] :
        Upto(t, Len(s), 1, MultiplyStep(s)) /\ Product(s) = t[Len(s)]
  BY <1>1, ProductUpto
<1> QED  BY <1>1, <1>2

LEMMA SaturateNat ==
  ASSUME NEW n \in Nat
  PROVE  /\ Saturate(n) \in Nat /\ Saturate(Saturate(n)) = Saturate(n)
         /\ \A m \in Nat : Saturate(Saturate(n) + m) = Saturate(n + m)
         /\ Saturate(0) = 0
  BY MilAssumption DEF Saturate, USIZE_MAX

LEMMA ByteSizeNat ==
  ASSUME NEW v \in Tensor
  PROVE  ByteSize(v) \in Nat /\ Saturate(ByteSize(v)) = ByteSize(v)
<1>1. Numel(v) \in Int
  BY ProductInt DEF Numel, Tensor
<1>2. Larger(Numel(v), 1) \in Nat
  BY <1>1 DEF Larger
<1> DEFINE w == IF v.dtype = "Fp16" THEN 2 ELSE 4
<1>3. Larger(Numel(v), 1) * w \in Nat
  BY <1>2
<1> QED  BY <1>3, SaturateNat DEF ByteSize

LEMMA BytesNat ==
  ASSUME NEW st \in Stmt
  PROVE  BytesWritten(st) \in Nat /\ BytesRead(st) \in Nat
<1>1. st.binds \in Tensor /\ st.uses \in Seq(Tensor)
  BY DEF Stmt
<1> DEFINE costs == [k \in DOMAIN st.uses |-> ByteSize(st.uses[k])]
<1>2. costs \in Seq(Nat)
  <2>1. \A k \in DOMAIN st.uses : ByteSize(st.uses[k]) \in Nat
    BY <1>1, ByteSizeNat
  <2>2. DOMAIN st.uses = 1..Len(st.uses) /\ Len(st.uses) \in Nat
    BY <1>1
  <2> QED  BY <2>1, <2>2
<1>3. SumOf(costs) \in Nat
  BY <1>2, SumNat
<1> QED  BY <1>1, <1>3, ByteSizeNat DEF BytesWritten, BytesRead

(* What size_of does to the table.                                          *)
Sized(gr, h, v) == h.sizes = SizeOf(gr, v).sizes

LEMMA SizedPrices ==
  ASSUME NEW gr \in Graph, NEW h, NEW v, Sized(gr, h, v)
  PROVE  /\ \A n : n # v.name => Priced(h, n) = Priced(gr, n)
         /\ Priced(h, v.name) = ByteSize(v)
         /\ DOMAIN h.sizes = DOMAIN gr.sizes \cup {v.name}
         /\ h.sizes[v.name] = ByteSize(v)
         /\ \A n \in DOMAIN gr.sizes : n # v.name => h.sizes[n] = gr.sizes[n]
<1>1. h.sizes = [n \in DOMAIN gr.sizes \cup {v.name} |->
                   IF n = v.name THEN ByteSize(v) ELSE gr.sizes[n]]
  BY DEF Sized, SizeOf, Graph
<1> QED  BY <1>1 DEF Priced

LEMMA StatedPrices ==
  ASSUME NEW gr, NEW h, NEW st, TypedInv(gr), Stated(gr, h, st), PricedInv(gr),
         \/ st.binds.dtype = "attribute" /\ h.sizes = gr.sizes
         \/ Sized(gr, h, st.binds)
  PROVE  /\ PricedInv(h)
         /\ \A n \in NamesOf(gr) : Priced(h, n) = Priced(gr, n)
<1>1. BoundVals(h) = BoundVals(gr) \cup {st.binds} /\ st.binds.name \notin NamesOf(gr)
  BY StatedNames
<1>2. gr \in Graph
  BY DEF TypedInv
<1>3. \A v \in Usable(gr) : v.name # st.binds.name /\ v.name \in NamesOf(gr)
  BY <1>1 DEF NamesOf, Usable
<1>4. \A v \in Usable(h) :
        v \in Usable(gr) \/ (v = st.binds /\ st.binds.dtype # "attribute")
  BY <1>1 DEF Usable
<1>5. CASE st.binds.dtype = "attribute" /\ h.sizes = gr.sizes
  BY <1>3, <1>4, <1>5 DEF PricedInv, Priced
<1>6. CASE Sized(gr, h, st.binds)
  <2>1. /\ \A n : n # st.binds.name => Priced(h, n) = Priced(gr, n)
        /\ DOMAIN h.sizes = DOMAIN gr.sizes \cup {st.binds.name}
        /\ h.sizes[st.binds.name] = ByteSize(st.binds)
        /\ \A n \in DOMAIN gr.sizes :
             n # st.binds.name => h.sizes[n] = gr.sizes[n]
    BY <1>2, <1>6, SizedPrices
  <2>2. \A n \in NamesOf(gr) : n # st.binds.name
    BY <1>1
  <2>3. PricedInv(h)
    BY <1>3, <1>4, <2>1 DEF PricedInv
  <2> QED  BY <2>1, <2>2, <2>3
<1> QED  BY <1>5, <1>6

(* What a statement that is not an op leaves of the list of ops.            *)
LEMMA StatedQuiet ==
  ASSUME NEW gr, NEW h, NEW st, TypedInv(gr), ReadsInv(gr), TrafficInv(gr),
         Stated(gr, h, st), ~IsOp(st), h.ops = gr.ops,
         \A n \in NamesOf(gr) : Priced(h, n) = Priced(gr, n)
  PROVE  ReadsInv(h) /\ TrafficInv(h)
<1> DEFINE n == Len(gr.stmts)
           D(x) == {i \in DOMAIN x.stmts : IsOp(x.stmts[i])}
           price(x) == [i \in DOMAIN x.ops |-> Priced(x, x.ops[i].result)]
           written(x) == [i \in DOMAIN x.stmts |-> BytesWritten(x.stmts[i])]
           read(x) == [i \in DOMAIN x.stmts |-> BytesRead(x.stmts[i])]
<1>1. /\ DOMAIN gr.stmts = 1..n /\ DOMAIN h.stmts = 1..(n + 1) /\ n \in Nat
      /\ h.stmts[n + 1] = st
      /\ \A i \in 1..n : h.stmts[i] = gr.stmts[i] /\ gr.stmts[i] \in Stmt
  <2>1. gr.stmts \in Seq(Stmt) /\ st \in Stmt /\ h.stmts = Append(gr.stmts, st)
    BY DEF TypedInv, Stated, Graph
  <2> QED  BY <2>1, RangeAppended
<1> HIDE DEF n
<1>2. NamesOf(gr) \subseteq NamesOf(h)
  BY StatedNames
<1>3. ReadsInv(h)
  BY <1>2 DEF ReadsInv
<1>4. \A i : i \in 1..(n + 1) <=> i \in 1..n \/ i = n + 1
  BY <1>1
<1>5. D(h) = D(gr)
  BY <1>1, <1>4
<1>6. price(h) = price(gr)
  BY DEF ReadsInv
<1>7. BytesWritten(st) = 0 /\ BytesRead(st) = 0
  BY DEF BytesWritten, BytesRead
<1>8. /\ written(gr) \in [1..n -> Nat] /\ written(h) \in [1..(n + 1) -> Nat]
      /\ \A i \in 1..n : written(h)[i] = written(gr)[i]
      /\ written(h)[n + 1] = 0
  <2>1. \A i \in 1..(n + 1) : h.stmts[i] \in Stmt
    BY <1>1, <1>4 DEF Stated
  <2>2. \A i \in 1..(n + 1) : BytesWritten(h.stmts[i]) \in Nat
    BY <2>1, BytesNat
  <2>3. \A i \in 1..n : BytesWritten(gr.stmts[i]) \in Nat
    BY <1>1, BytesNat
  <2> QED  BY <1>1, <1>4, <1>7, <2>2, <2>3
<1>9. /\ read(gr) \in [1..n -> Nat] /\ read(h) \in [1..(n + 1) -> Nat]
      /\ \A i \in 1..n : read(h)[i] = read(gr)[i]
      /\ read(h)[n + 1] = 0
  <2>1. \A i \in 1..(n + 1) : h.stmts[i] \in Stmt
    BY <1>1, <1>4 DEF Stated
  <2>2. \A i \in 1..(n + 1) : BytesRead(h.stmts[i]) \in Nat
    BY <2>1, BytesNat
  <2>3. \A i \in 1..n : BytesRead(gr.stmts[i]) \in Nat
    BY <1>1, BytesNat
  <2> QED  BY <1>1, <1>4, <1>7, <2>2, <2>3
<1>10. TrafficInv(gr) =>
         /\ Len(gr.ops) = Cardinality(D(gr))
         /\ SumOf(price(gr)) = SumOf(written(gr))
         /\ Saturate(SumOf([i \in DOMAIN gr.ops |-> gr.ops[i].readBytes]))
              = Saturate(SumOf(read(gr)))
  BY DEF TrafficInv
<1>11. TrafficInv(h) <=>
         /\ Len(h.ops) = Cardinality(D(h))
         /\ SumOf(price(h)) = SumOf(written(h))
         /\ Saturate(SumOf([i \in DOMAIN h.ops |-> h.ops[i].readBytes]))
              = Saturate(SumOf(read(h)))
  BY DEF TrafficInv
<1> HIDE DEF D, price, written, read
<1>12. SumOf(written(h)) = SumOf(written(gr)) + 0 /\ SumOf(written(gr)) \in Nat
  BY <1>1, <1>8, SumGrows
<1>13. SumOf(read(h)) = SumOf(read(gr)) + 0 /\ SumOf(read(gr)) \in Nat
  BY <1>1, <1>9, SumGrows
<1>14. SumOf(written(h)) = SumOf(written(gr)) /\ SumOf(read(h)) = SumOf(read(gr))
  BY <1>12, <1>13
<1> QED  BY <1>3, <1>5, <1>6, <1>10, <1>11, <1>14

(* What an op adds to the list of ops.                                      *)
LEMMA StatedOp ==
  ASSUME NEW gr, NEW h, NEW st, NEW o \in OpRecord,
         TypedInv(gr), ReadsInv(gr), TrafficInv(gr),
         Stated(gr, h, st), IsOp(st), h.ops = Append(gr.ops, o),
         o.result = st.binds.name, o.reads = Names(st.uses),
         Saturate(o.readBytes) = Saturate(BytesRead(st)),
         Priced(h, st.binds.name) = ByteSize(st.binds),
         \A n \in NamesOf(gr) : Priced(h, n) = Priced(gr, n)
  PROVE  ReadsInv(h) /\ TrafficInv(h)
<1> DEFINE n == Len(gr.stmts)
           k == Len(gr.ops)
           D(x) == {i \in DOMAIN x.stmts : IsOp(x.stmts[i])}
           price(x) == [i \in DOMAIN x.ops |-> Priced(x, x.ops[i].result)]
           bytes(x) == [i \in DOMAIN x.ops |-> x.ops[i].readBytes]
           written(x) == [i \in DOMAIN x.stmts |-> BytesWritten(x.stmts[i])]
           read(x) == [i \in DOMAIN x.stmts |-> BytesRead(x.stmts[i])]
<1>1. /\ DOMAIN gr.stmts = 1..n /\ DOMAIN h.stmts = 1..(n + 1) /\ n \in Nat
      /\ h.stmts[n + 1] = st
      /\ \A i \in 1..n : h.stmts[i] = gr.stmts[i] /\ gr.stmts[i] \in Stmt
  <2>1. gr.stmts \in Seq(Stmt) /\ st \in Stmt /\ h.stmts = Append(gr.stmts, st)
    BY DEF TypedInv, Stated, Graph
  <2> QED  BY <2>1, RangeAppended
<1>2. /\ DOMAIN gr.ops = 1..k /\ DOMAIN h.ops = 1..(k + 1) /\ k \in Nat
      /\ h.ops[k + 1] = o /\ Len(h.ops) = k + 1
      /\ \A i \in 1..k : h.ops[i] = gr.ops[i] /\ gr.ops[i] \in OpRecord
  <2>1. gr.ops \in Seq(OpRecord)
    BY DEF TypedInv, Graph
  <2> QED  BY <2>1, RangeAppended
<1> HIDE DEF n
<1>3. NamesOf(h) = NamesOf(gr) \cup {o.result} /\ o.result \notin NamesOf(gr)
  BY StatedNames
<1>4. Range(o.reads) \subseteq NamesOf(gr)
  <2>1. \A x \in Range(st.uses) : x.name \in NamesOf(gr)
    BY DEF Stated, Usable, NamesOf
  <2>2. \A y \in Range(Names(st.uses)) : \E x \in Range(st.uses) : y = x.name
    BY DEF Names, Range
  <2> QED  BY <2>1, <2>2
<1>5. \A i : i \in 1..(n + 1) <=> i \in 1..n \/ i = n + 1
  BY <1>1
<1>6. ReadsInv(h)
  <2> HIDE DEF k
  <2>1. \A i : i \in 1..(k + 1) <=> i \in 1..k \/ i = k + 1
    BY <1>2
  <2>2. \A i \in 1..k : gr.ops[i].result \in NamesOf(gr) /\ Range(gr.ops[i].reads) \subseteq NamesOf(gr)
    BY <1>2 DEF ReadsInv
  <2>3. \A i \in 1..(k + 1) : Range(h.ops[i].reads) \subseteq NamesOf(gr)
    BY <1>2, <1>4, <2>1, <2>2
  <2>4. \A i \in 1..k : \A j \in 1..i : gr.ops[i].result \notin Range(gr.ops[j].reads)
    BY <1>2 DEF ReadsInv
  <2>5. \A i \in 1..k : \A j \in 1..i : h.ops[i].result \notin Range(h.ops[j].reads)
    <3>1. \A i \in 1..k : \A j \in 1..i : j \in 1..k
      BY <1>2
    <3> QED  BY <1>2, <2>4, <3>1
  <2>6. \A j \in 1..(k + 1) : h.ops[k + 1].result \notin Range(h.ops[j].reads)
    BY <1>2, <1>3, <2>3
  <2>7. \A i \in 1..(k + 1) : h.ops[i].result \in NamesOf(h)
    BY <1>2, <1>3, <2>1, <2>2
  <2> QED  BY <1>2, <1>3, <2>1, <2>3, <2>5, <2>6, <2>7 DEF ReadsInv
<1>7. Cardinality(D(h)) = Cardinality(D(gr)) + 1
  <2>1. D(h) = D(gr) \cup {n + 1} /\ n + 1 \notin D(gr) /\ D(gr) \in SUBSET (1..n)
    BY <1>1, <1>5
  <2>2. IsFiniteSet(1..n)
    BY <1>1, FS_Interval
  <2> HIDE DEF D
  <2>3. IsFiniteSet(D(gr))
    BY <2>1, <2>2, FS_Subset
  <2> QED  BY <2>1, <2>3, FS_AddElement
<1>8. BytesWritten(st) = ByteSize(st.binds) /\ BytesRead(st) \in Nat /\ st \in Stmt
  BY BytesNat DEF BytesWritten, Stated
<1>9. /\ written(gr) \in [1..n -> Nat] /\ written(h) \in [1..(n + 1) -> Nat]
      /\ \A i \in 1..n : written(h)[i] = written(gr)[i]
      /\ written(h)[n + 1] = ByteSize(st.binds)
  <2>1. \A i \in 1..(n + 1) : h.stmts[i] \in Stmt
    BY <1>1, <1>5, <1>8
  <2>2. \A i \in 1..(n + 1) : BytesWritten(h.stmts[i]) \in Nat
    BY <2>1, BytesNat
  <2>3. \A i \in 1..n : BytesWritten(gr.stmts[i]) \in Nat
    BY <1>1, BytesNat
  <2> QED  BY <1>1, <1>5, <1>8, <2>2, <2>3
<1>10. /\ read(gr) \in [1..n -> Nat] /\ read(h) \in [1..(n + 1) -> Nat]
       /\ \A i \in 1..n : read(h)[i] = read(gr)[i]
       /\ read(h)[n + 1] = BytesRead(st)
  <2>1. \A i \in 1..(n + 1) : h.stmts[i] \in Stmt
    BY <1>1, <1>5, <1>8
  <2>2. \A i \in 1..(n + 1) : BytesRead(h.stmts[i]) \in Nat
    BY <2>1, BytesNat
  <2>3. \A i \in 1..n : BytesRead(gr.stmts[i]) \in Nat
    BY <1>1, BytesNat
  <2> QED  BY <1>1, <1>5, <2>2, <2>3
<1> HIDE DEF k
<1>11. \A i : i \in 1..(k + 1) <=> i \in 1..k \/ i = k + 1
  BY <1>2
<1>12. /\ price(gr) \in [1..k -> Nat] /\ price(h) \in [1..(k + 1) -> Nat]
       /\ \A i \in 1..k : price(h)[i] = price(gr)[i]
       /\ price(h)[k + 1] = ByteSize(st.binds)
  <2>1. gr \in Graph /\ h \in Graph
    BY DEF TypedInv, Stated
  <2>2. \A m : Priced(gr, m) \in Nat /\ Priced(h, m) \in Nat
    BY <2>1 DEF Priced, Graph, Sizes
  <2>3. \A i \in 1..k : Priced(h, h.ops[i].result) = Priced(gr, gr.ops[i].result)
    BY <1>2 DEF ReadsInv
  <2>4. Priced(h, h.ops[k + 1].result) = ByteSize(st.binds)
    BY <1>2
  <2> QED  BY <1>2, <1>11, <2>2, <2>3, <2>4
<1>13. /\ bytes(gr) \in [1..k -> Nat] /\ bytes(h) \in [1..(k + 1) -> Nat]
       /\ \A i \in 1..k : bytes(h)[i] = bytes(gr)[i]
       /\ bytes(h)[k + 1] = o.readBytes
  <2>1. \A i \in 1..(k + 1) : h.ops[i] \in OpRecord
    BY <1>2, <1>11
  <2> QED  BY <1>2, <1>11, <2>1 DEF OpRecord
<1>14. TrafficInv(gr) =>
         /\ Len(gr.ops) = Cardinality(D(gr))
         /\ SumOf(price(gr)) = SumOf(written(gr))
         /\ Saturate(SumOf(bytes(gr))) = Saturate(SumOf(read(gr)))
  BY DEF TrafficInv
<1>15. TrafficInv(h) <=>
         /\ Len(h.ops) = Cardinality(D(h))
         /\ SumOf(price(h)) = SumOf(written(h))
         /\ Saturate(SumOf(bytes(h))) = Saturate(SumOf(read(h)))
  BY DEF TrafficInv
<1> HIDE DEF D, price, written, read, bytes
<1>16. /\ SumOf(written(h)) = SumOf(written(gr)) + ByteSize(st.binds)
       /\ SumOf(written(gr)) \in Nat
  BY <1>1, <1>9, SumGrows
<1>17. SumOf(read(h)) = SumOf(read(gr)) + BytesRead(st) /\ SumOf(read(gr)) \in Nat
  BY <1>1, <1>10, SumGrows
<1>18. /\ SumOf(price(h)) = SumOf(price(gr)) + ByteSize(st.binds)
       /\ SumOf(price(gr)) \in Nat
  BY <1>2, <1>12, SumGrows
<1>19. SumOf(bytes(h)) = SumOf(bytes(gr)) + o.readBytes /\ SumOf(bytes(gr)) \in Nat
  BY <1>2, <1>13, SumGrows
<1>20. Saturate(SumOf(bytes(h))) = Saturate(SumOf(read(h)))
  <2>1. o.readBytes \in Nat
    BY DEF OpRecord
  <2>2. \A a, b, c, d \in Nat : Saturate(a) = Saturate(b) /\ Saturate(c) = Saturate(d)
                                  => Saturate(a + c) = Saturate(b + d)
    BY MilAssumption DEF Saturate, USIZE_MAX
  <2> DEFINE a == SumOf(bytes(gr))
             b == SumOf(read(gr))
             c == o.readBytes
             d == BytesRead(st)
  <2>3. /\ a \in Nat /\ b \in Nat /\ c \in Nat /\ d \in Nat
        /\ Saturate(a) = Saturate(b) /\ Saturate(c) = Saturate(d)
        /\ SumOf(bytes(h)) = a + c /\ SumOf(read(h)) = b + d
    BY <1>8, <1>14, <1>17, <1>19, <2>1
  <2> HIDE DEF a, b, c, d
  <2> QED  BY <2>2, <2>3
<1> QED  BY <1>2, <1>6, <1>7, <1>14, <1>15, <1>16, <1>18, <1>20 DEF k

-----------------------------------------------------------------------------
(* How a method changes a graph: the invariant holds after it, every tensor *)
(* stays usable, and the text refers to the weights file where it did.      *)
Grows(gr, h) ==
  GraphInv(h) /\ Usable(gr) \subseteq Usable(h) /\ References(h) = References(gr)

LEMMA GrowsTwice ==
  ASSUME NEW a, NEW b, NEW c, Grows(a, b), Grows(b, c)
  PROVE  Grows(a, c)
  BY DEF Grows

(* The empty graph.                                                         *)
LEMMA NewGraphInv == GraphInv(NewGraph) /\ References(NewGraph) = {}
<1> DEFINE e == <<>>
<1>1. e \in Seq(Tensor) /\ e \in Seq(Stmt) /\ e \in Seq(OpRecord) /\ DOMAIN e = {}
      /\ Len(e) = 0 /\ Range(e) = {}
  BY DEF Range
<1>2. e \in [{} -> Nat]
  OBVIOUS
<1> DEFINE S == SUBSET Name
<1>3. e \in Sizes
  <2>1. {} \in S
    OBVIOUS
  <2> HIDE DEF e
  <2> QED  BY <1>2, <2>1 DEF Sizes
<1>4. NewGraph \in Graph /\ NewGraph.taken = {} /\ NewGraph.stmts = e
      /\ NewGraph.params = e /\ NewGraph.ops = e
  <2> HIDE DEF e
  <2>1. NewGraph = [params |-> e, stmts |-> e, ops |-> e, sizes |-> e,
                    nextId |-> 0, taken |-> {}, raw |-> FALSE]
    BY DEF NewGraph, e
  <2> QED  BY <1>1, <1>3, <2>1 DEF Graph
<1>5. TypedInv(NewGraph)
  BY <1>4, FS_EmptySet DEF TypedInv
<1>6. BoundVals(NewGraph) = {} /\ NamesOf(NewGraph) = {} /\ Usable(NewGraph) = {}
  BY <1>1, <1>4 DEF BoundVals, NamesOf, Usable
<1>7. NamedInv(NewGraph) /\ UsesInv(NewGraph) /\ ReadsInv(NewGraph)
      /\ PricedInv(NewGraph) /\ ShapesInv(NewGraph)
  BY <1>1, <1>4, <1>6 DEF NamedInv, UsesInv, ReadsInv, PricedInv, ShapesInv
<1>8. TrafficInv(NewGraph)
  <2>1. [i \in DOMAIN NewGraph.ops |-> Priced(NewGraph, NewGraph.ops[i].result)]
          = [i \in DOMAIN NewGraph.stmts |-> BytesWritten(NewGraph.stmts[i])]
    BY <1>1, <1>4
  <2>2. [i \in DOMAIN NewGraph.ops |-> NewGraph.ops[i].readBytes]
          = [i \in DOMAIN NewGraph.stmts |-> BytesRead(NewGraph.stmts[i])]
    BY <1>1, <1>4
  <2>3. {i \in DOMAIN NewGraph.stmts : IsOp(NewGraph.stmts[i])} = {}
    BY <1>1, <1>4
  <2>4. Len(NewGraph.ops) = 0
    BY <1>1, <1>4
  <2> QED  BY <2>1, <2>2, <2>3, <2>4, FS_EmptySet DEF TrafficInv
<1>9. References(NewGraph) = {}
  BY <1>1, <1>4 DEF References
<1> QED  BY <1>5, <1>7, <1>8, <1>9 DEF GraphInv

(* A method that only takes names.                                          *)
LEMMA TakingKeeps ==
  ASSUME NEW gr, GraphInv(gr), NEW h \in Graph,
         h.params = gr.params, h.stmts = gr.stmts, h.ops = gr.ops,
         h.sizes = gr.sizes, IsFiniteSet(h.taken), gr.taken \subseteq h.taken
  PROVE  Grows(gr, h) /\ NamesOf(h) = NamesOf(gr) /\ Usable(h) = Usable(gr)
<1>1. BoundVals(h) = BoundVals(gr) /\ NamesOf(h) = NamesOf(gr) /\ Usable(h) = Usable(gr)
  BY DEF BoundVals, NamesOf, Usable
<1>2. TypedInv(h) /\ UsesInv(h) /\ ShapesInv(h)
  BY DEF GraphInv, TypedInv, UsesInv, ShapesInv
<1>3. NamedInv(h)
  BY <1>1 DEF GraphInv, NamedInv
<1>4. ReadsInv(h) /\ PricedInv(h)
  BY <1>1 DEF GraphInv, ReadsInv, PricedInv
<1>5. TrafficInv(h)
  <2>1. \A n : Priced(h, n) = Priced(gr, n)
    BY DEF Priced
  <2>2. [i \in DOMAIN h.ops |-> Priced(h, h.ops[i].result)]
          = [i \in DOMAIN gr.ops |-> Priced(gr, gr.ops[i].result)]
    BY <2>1
  <2> QED  BY <2>2 DEF GraphInv, TrafficInv
<1>6. References(h) = References(gr)
  BY DEF References
<1> QED  BY <1>1, <1>2, <1>3, <1>4, <1>5, <1>6 DEF Grows, GraphInv

LEMMA FreshKeeps ==
  ASSUME NEW gr, GraphInv(gr), NEW p \in Words
  PROVE  LET h == Fresh(gr, p)
         IN /\ Grows(gr, h) /\ Usable(h) = Usable(gr)
            /\ Reserved(h, Minted(h, p)) /\ Minted(h, p) \in Name
<1>1. TypedInv(gr) /\ NamesOf(gr) \subseteq gr.taken
  BY DEF GraphInv, NamedInv
<1>2. PICK id \in Nat :
        /\ <<p, id>> \notin gr.taken
        /\ Fresh(gr, p) = [gr EXCEPT !.nextId = id + 1, !.taken = @ \cup {<<p, id>>}]
        /\ Minted(Fresh(gr, p), p) = <<p, id>>
  BY <1>1, FreshIs
<1> DEFINE h == Fresh(gr, p)
<1>3. <<p, id>> \in Name
  BY DEF Name
<1>4. gr \in Graph /\ IsFiniteSet(gr.taken)
  BY <1>1 DEF TypedInv
<1>5. /\ h \in Graph /\ h.params = gr.params /\ h.stmts = gr.stmts
      /\ h.ops = gr.ops /\ h.sizes = gr.sizes
      /\ h.taken = gr.taken \cup {<<p, id>>}
  <2>1. id + 1 \in Nat /\ gr.taken \cup {<<p, id>>} \in SUBSET Name
    BY <1>3, <1>4 DEF Graph
  <2> QED  BY <1>2, <1>4, <2>1 DEF Graph
<1>6. IsFiniteSet(h.taken)
  BY <1>4, <1>5, FS_AddElement
<1>7. Minted(h, p) = <<p, id>>
  BY <1>2
<1> HIDE DEF h
<1>8. Grows(gr, h) /\ NamesOf(h) = NamesOf(gr) /\ Usable(h) = Usable(gr)
  BY <1>5, <1>6, TakingKeeps
<1> QED  BY <1>1, <1>2, <1>3, <1>5, <1>7, <1>8 DEF Reserved, h

(* The attribute constant, and what a Push leaves.                          *)
LEMMA PushIs ==
  ASSUME NEW gr \in Graph, NEW v \in Tensor, NEW op \in Words,
         NEW uses \in Seq(Tensor),
         NEW attr \in Int \cup Convs \cup Perms \cup (BOOLEAN \X BOOLEAN)
  PROVE  LET h == Push(gr, v, op, uses, attr)
             st == [binds |-> v, op |-> op, uses |-> uses, attr |-> attr]
         IN /\ h \in Graph /\ st \in Stmt
            /\ h.params = gr.params /\ h.taken = gr.taken /\ h.ops = gr.ops
            /\ h.sizes = gr.sizes /\ h.stmts = Append(gr.stmts, st)
            /\ h.nextId = gr.nextId /\ h.raw = gr.raw
<1> DEFINE h == Push(gr, v, op, uses, attr)
           st == [binds |-> v, op |-> op, uses |-> uses, attr |-> attr]
<1>1. st \in Stmt
  BY DEF Stmt
<1>2. h = [gr EXCEPT !.stmts = Append(gr.stmts, st)]
  BY DEF Push, Graph
<1> HIDE DEF st, h
<1>3. Append(gr.stmts, st) \in Seq(Stmt)
  BY <1>1 DEF Graph
<1>4. /\ h \in Graph /\ h.params = gr.params /\ h.taken = gr.taken
      /\ h.ops = gr.ops /\ h.sizes = gr.sizes /\ h.stmts = Append(gr.stmts, st)
      /\ h.nextId = gr.nextId /\ h.raw = gr.raw
  BY <1>2, <1>3 DEF Graph
<1> QED  BY <1>1, <1>4 DEF h, st

(* size_of keeps the rest of the graph.                                     *)
LEMMA SizeOfIs ==
  ASSUME NEW q \in Graph, NEW v, v.name \in Name, ByteSize(v) \in Nat
  PROVE  LET z == SizeOf(q, v)
         IN /\ z \in Graph /\ z.params = q.params /\ z.taken = q.taken
            /\ z.ops = q.ops /\ z.stmts = q.stmts
            /\ z.sizes = [x \in DOMAIN q.sizes \cup {v.name} |->
                            IF x = v.name THEN ByteSize(v) ELSE q.sizes[x]]
<1> DEFINE z == SizeOf(q, v)
           s == [x \in DOMAIN q.sizes \cup {v.name} |->
                   IF x = v.name THEN ByteSize(v) ELSE q.sizes[x]]
<1>1. s \in Sizes
  <2>1. PICK D \in SUBSET Name : q.sizes \in [D -> Nat]
    BY DEF Graph, Sizes
  <2>2. D \cup {v.name} \in SUBSET Name
    OBVIOUS
  <2>3. s \in [D \cup {v.name} -> Nat]
    BY <2>1
  <2> HIDE DEF s
  <2> QED  BY <2>2, <2>3 DEF Sizes
<1>2. z = [q EXCEPT !.sizes = s]
  BY DEF SizeOf, Graph
<1> HIDE DEF s, z
<1>3. /\ z \in Graph /\ z.params = q.params /\ z.taken = q.taken /\ z.ops = q.ops
      /\ z.stmts = q.stmts /\ z.sizes = s
  BY <1>1, <1>2 DEF Graph
<1> QED  BY <1>3 DEF s, z

(* References looks only at the weights among the statements.               *)
LEMMA ReferencesKept ==
  ASSUME NEW gr \in Graph, NEW h, NEW st \in Stmt,
         h.stmts = Append(gr.stmts, st), st.op # "weight"
  PROVE  References(h) = References(gr)
<1>1. Range(h.stmts) = Range(gr.stmts) \cup {st}
  BY RangeAppended DEF Graph
<1>2. {s \in Range(h.stmts) : s.op = "weight"} = {s \in Range(gr.stmts) : s.op = "weight"}
  BY <1>1
<1> QED  BY <1>2 DEF References

LEMMA ShapesKept ==
  ASSUME NEW gr \in Graph, NEW h, NEW st \in Stmt, ShapesInv(gr),
         h.stmts = Append(gr.stmts, st), StmtTrue(st)
  PROVE  ShapesInv(h)
<1>1. Range(h.stmts) = Range(gr.stmts) \cup {st}
  BY RangeAppended DEF Graph
<1>2. \A s \in Range(gr.stmts) : StmtTrue(s)
  BY DEF ShapesInv, Range
<1>3. \A i \in DOMAIN h.stmts : h.stmts[i] \in Range(h.stmts)
  BY DEF Range
<1> QED  BY <1>1, <1>2, <1>3 DEF ShapesInv

LEMMA AddConstKeeps ==
  ASSUME NEW gr, GraphInv(gr), NEW p \in Words
  PROVE  Grows(gr, AddConst(gr, p))
<1> DEFINE m == Fresh(gr, p)
           n == Minted(m, p)
           e == <<>>
           v == Attribute(n)
           st == [binds |-> v, op |-> "const", uses |-> e, attr |-> 0]
           h == Push(m, v, "const", e, 0)
<1>1. Grows(gr, m) /\ Reserved(m, n) /\ n \in Name
  BY FreshKeeps
<1>2. m \in Graph /\ GraphInv(m) /\ TypedInv(m)
  BY <1>1 DEF Grows, GraphInv, TypedInv
<1>3. v \in Tensor /\ "const" \in Words /\ e \in Seq(Tensor) /\ v.name = n
      /\ v.dtype = "attribute" /\ Range(e) = {}
  BY <1>1 DEF Tensor, Attribute, Val, Words, Range
<1>4. AddConst(gr, p) = h
  BY DEF AddConst
<1> HIDE DEF m, n, v, e, h
<1>5. /\ h \in Graph /\ st \in Stmt
      /\ h.params = m.params /\ h.taken = m.taken /\ h.ops = m.ops
      /\ h.sizes = m.sizes /\ h.stmts = Append(m.stmts, st)
  BY <1>2, <1>3, PushIs DEF h
<1>6. st.binds = v /\ st.op = "const" /\ st.uses = e
  OBVIOUS
<1>7. ~IsOp(st) /\ StmtTrue(st)
  BY <1>6 DEF IsOp, StmtTrue, ShapeTrue, CountKept
<1> HIDE DEF st
<1>8. Stated(m, h, st)
  BY <1>1, <1>3, <1>5, <1>6 DEF Stated
<1>9. TypedInv(h) /\ NamedInv(h) /\ UsesInv(h) /\ Usable(m) \subseteq Usable(h)
  BY <1>2, <1>8, StatedNames DEF GraphInv
<1>10. PricedInv(h) /\ \A x \in NamesOf(m) : Priced(h, x) = Priced(m, x)
  BY <1>2, <1>3, <1>5, <1>6, <1>8, StatedPrices DEF GraphInv
<1>11. ReadsInv(h) /\ TrafficInv(h)
  BY <1>2, <1>5, <1>7, <1>8, <1>10, StatedQuiet DEF GraphInv
<1>12. ShapesInv(h)
  BY <1>2, <1>5, <1>7, ShapesKept DEF GraphInv
<1>13. References(h) = References(m)
  BY <1>2, <1>5, <1>6, ReferencesKept
<1>14. Grows(m, h)
  BY <1>9, <1>10, <1>11, <1>12, <1>13 DEF Grows, GraphInv
<1> QED  BY <1>1, <1>4, <1>14, GrowsTwice

(* A statement that is an op, noted as reading what it costs.               *)
LEMMA NoteKeeps ==
  ASSUME NEW m, GraphInv(m), NEW v \in Tensor, v.dtype # "attribute",
         Reserved(m, v.name), NEW op \in Words, NEW uses \in Seq(Tensor),
         Range(uses) \subseteq Usable(m),
         NEW attr \in Int \cup Convs \cup Perms \cup (BOOLEAN \X BOOLEAN),
         NEW bytes \in Nat, NEW st,
         st = [binds |-> v, op |-> op, uses |-> uses, attr |-> attr],
         IsOp(st), StmtTrue(st), Saturate(bytes) = Saturate(BytesRead(st))
  PROVE  LET h == NoteReading(Push(m, v, op, uses, attr), v, uses, bytes)
         IN Grows(m, h) /\ v \in Usable(h)
<1> DEFINE q == Push(m, v, op, uses, attr)
           z == SizeOf(q, v)
           o == Op(v, uses, bytes)
           h == NoteReading(q, v, uses, bytes)
<1>1. m \in Graph /\ TypedInv(m)
  BY DEF GraphInv, TypedInv
<1>2. /\ q \in Graph /\ st \in Stmt
      /\ q.params = m.params /\ q.taken = m.taken /\ q.ops = m.ops
      /\ q.sizes = m.sizes /\ q.stmts = Append(m.stmts, st)
  BY <1>1, PushIs
<1>3. st.binds = v /\ st.op = op /\ st.uses = uses
  OBVIOUS
<1>4. v.name \in Name /\ ByteSize(v) \in Nat
  BY ByteSizeNat DEF Tensor
<1> HIDE DEF q
<1>5. /\ z \in Graph /\ z.params = m.params /\ z.taken = m.taken /\ z.ops = m.ops
      /\ z.stmts = q.stmts
      /\ z.sizes = [x \in DOMAIN m.sizes \cup {v.name} |->
                      IF x = v.name THEN ByteSize(v) ELSE m.sizes[x]]
  <2>1. /\ z \in Graph /\ z.params = q.params /\ z.taken = q.taken
        /\ z.ops = q.ops /\ z.stmts = q.stmts
        /\ z.sizes = [x \in DOMAIN q.sizes \cup {v.name} |->
                        IF x = v.name THEN ByteSize(v) ELSE q.sizes[x]]
    BY <1>2, <1>4, SizeOfIs
  <2> HIDE DEF z
  <2> QED  BY <1>2, <2>1
<1>6. o \in OpRecord /\ o.result = v.name /\ o.reads = Names(uses) /\ o.readBytes = bytes
  <2>1. Names(uses) \in Seq(Name)
    <3>1. \A i \in 1..Len(uses) : uses[i].name \in Name
      <4>1. \A i \in 1..Len(uses) : uses[i] \in Tensor
        OBVIOUS
      <4> QED  BY <4>1 DEF Tensor
    <3>2. DOMAIN uses = 1..Len(uses) /\ Len(uses) \in Nat
      OBVIOUS
    <3> QED  BY <3>1, <3>2 DEF Names
  <2> QED  BY <1>4, <2>1 DEF Op, OpRecord
<1> HIDE DEF z, o
<1>7. h = [z EXCEPT !.ops = Append(z.ops, o)]
  BY <1>5 DEF NoteReading, z, o, Graph
<1> HIDE DEF h
<1>8. /\ h \in Graph /\ h.params = m.params /\ h.taken = m.taken
      /\ h.ops = Append(m.ops, o) /\ h.stmts = Append(m.stmts, st)
      /\ h.sizes = z.sizes
  <2>1. Append(z.ops, o) \in Seq(OpRecord)
    BY <1>5, <1>6 DEF Graph
  <2>2. /\ h \in Graph /\ h.params = z.params /\ h.taken = z.taken
        /\ h.ops = Append(z.ops, o) /\ h.stmts = z.stmts /\ h.sizes = z.sizes
    BY <1>5, <1>7, <2>1 DEF Graph
  <2> QED  BY <1>2, <1>5, <2>2
<1>9. Stated(m, h, st)
  BY <1>2, <1>3, <1>8 DEF Stated
<1>10. Sized(m, h, v)
  BY <1>1, <1>5, <1>8 DEF Sized, SizeOf, Graph
<1> HIDE DEF q
<1>11. /\ TypedInv(h) /\ NamedInv(h) /\ UsesInv(h) /\ Usable(m) \subseteq Usable(h)
       /\ v \in Usable(h)
  BY <1>1, <1>3, <1>9, StatedNames DEF GraphInv
<1>12. PricedInv(h) /\ \A x \in NamesOf(m) : Priced(h, x) = Priced(m, x)
  BY <1>1, <1>3, <1>9, <1>10, StatedPrices DEF GraphInv
<1>13. Priced(h, v.name) = ByteSize(v)
  BY <1>1, <1>10, SizedPrices
<1>14. ReadsInv(h) /\ TrafficInv(h)
  <2>1. ReadsInv(m) /\ TrafficInv(m)
    BY DEF GraphInv
  <2> QED  BY <1>1, <1>3, <1>6, <1>8, <1>9, <1>12, <1>13, <2>1, StatedOp
<1>15. ShapesInv(h)
  BY <1>1, <1>2, <1>8, ShapesKept DEF GraphInv
<1>16. References(h) = References(m)
  <2>1. st.op # "weight"
    BY DEF IsOp, SourceOps
  <2> QED  BY <1>1, <1>2, <1>8, <2>1, ReferencesKept
<1> QED  BY <1>11, <1>12, <1>14, <1>15, <1>16 DEF Grows, GraphInv, h, q

Attrs == Int \cup Convs \cup Perms \cup (BOOLEAN \X BOOLEAN)

(* What one method hands back.                                              *)
Handed(gr, r) == Grows(gr, r.g) /\ r.v \in Usable(r.g)

LEMMA HandedLater ==
  ASSUME NEW a, NEW b, NEW r, Grows(a, b), Handed(b, r)
  PROVE  Handed(a, r)
  BY GrowsTwice DEF Handed

(* An op that is charged for the whole of its operands: the prices in the   *)
(* table are their sizes.                                                   *)
LEMMA EmitNamedKeeps ==
  ASSUME NEW m, GraphInv(m), NEW v \in Tensor, v.dtype # "attribute",
         Reserved(m, v.name), NEW op \in Words, NEW uses \in Seq(Tensor),
         Range(uses) \subseteq Usable(m), NEW attr \in Attrs, NEW st,
         st = [binds |-> v, op |-> op, uses |-> uses, attr |-> attr],
         IsOp(st), op # "slice", StmtTrue(st)
  PROVE  Handed(m, EmitNamed(m, v, op, uses, attr)) /\ EmitNamed(m, v, op, uses, attr).v = v
<1> DEFINE q == Push(m, v, op, uses, attr)
           cost == [k \in DOMAIN uses |-> ByteSize(uses[k])]
           price == [i \in DOMAIN uses |-> Priced(q, uses[i].name)]
           bytes == SaturatingSum(price)
<1>1. m \in Graph /\ attr \in Int \cup Convs \cup Perms \cup (BOOLEAN \X BOOLEAN)
  BY DEF GraphInv, TypedInv, Attrs
<1>2. q.sizes = m.sizes
  BY <1>1, PushIs
<1>3. EmitNamed(m, v, op, uses, attr)
        = [g |-> NoteReading(q, v, uses, bytes), v |-> v]
  BY DEF EmitNamed, Out, Note
<1> HIDE DEF q
<1>4. DOMAIN uses = 1..Len(uses) /\ Len(uses) \in Nat
      /\ \A i \in 1..Len(uses) : uses[i] \in Tensor
  OBVIOUS
<1>5. \A i \in 1..Len(uses) : Priced(q, uses[i].name) = ByteSize(uses[i])
  <2> SUFFICES ASSUME NEW i \in 1..Len(uses)
               PROVE  Priced(q, uses[i].name) = ByteSize(uses[i])
    OBVIOUS
  <2>1. uses[i] \in Usable(m)
    BY <1>4 DEF Range
  <2> QED  BY <1>2, <2>1 DEF GraphInv, PricedInv, Priced
<1>6. price = cost
  BY <1>4, <1>5
<1>7. cost \in Seq(Nat)
  <2>1. \A i \in 1..Len(uses) : ByteSize(uses[i]) \in Nat
    BY <1>4, ByteSizeNat
  <2> QED  BY <1>4, <2>1
<1> HIDE DEF price, cost
<1>8. SumOf(cost) \in Nat /\ bytes = Saturate(SumOf(cost))
  <2>1. IntRange \in Nat \ {0}
    BY MilAssumption
  <2> QED  BY <1>6, <1>7, <2>1, SumNat, SaturatingSumIs
<1>9. BytesRead(st) = SumOf(cost)
  BY DEF BytesRead, cost
<1>10. bytes \in Nat /\ Saturate(bytes) = Saturate(BytesRead(st))
  BY <1>8, <1>9, SaturateNat
<1> HIDE DEF bytes
<1>11. /\ Grows(m, NoteReading(q, v, uses, bytes))
       /\ v \in Usable(NoteReading(q, v, uses, bytes))
  BY <1>1, <1>10, NoteKeeps DEF q
<1> QED  BY <1>3, <1>11 DEF Handed

(* The same under a minted name, whatever name that is.                     *)
LEMMA EmitKeeps ==
  ASSUME NEW gr, GraphInv(gr), NEW p \in Words, NEW op \in Words,
         op \notin {"slice", "scalar", "weight", "const"},
         NEW dtype \in {"Fp16", "Fp32", "Int32"}, NEW shape \in Seq(Int),
         NEW uses \in Seq(Tensor), Range(uses) \subseteq Usable(gr),
         NEW attr \in Attrs,
         \A n \in Name : StmtTrue([binds |-> Val(n, dtype, shape), op |-> op,
                                    uses |-> uses, attr |-> attr])
  PROVE  LET r == Emit(gr, p, op, dtype, shape, uses, attr)
         IN Handed(gr, r) /\ r.v.dtype = dtype /\ r.v.shape = shape
<1> DEFINE m == Fresh(gr, p)
           v == Val(Minted(m, p), dtype, shape)
           st == [binds |-> v, op |-> op, uses |-> uses, attr |-> attr]
<1>1. Grows(gr, m) /\ Usable(m) = Usable(gr) /\ Reserved(m, Minted(m, p))
      /\ Minted(m, p) \in Name
  BY FreshKeeps
<1>2. StmtTrue(st)
  BY <1>1
<1>3. IsOp(st)
  BY DEF IsOp, SourceOps
<1>4. Emit(gr, p, op, dtype, shape, uses, attr) = EmitNamed(m, v, op, uses, attr)
  BY DEF Emit
<1> HIDE DEF m
<1>5. v \in Tensor /\ v.name = Minted(m, p) /\ v.dtype = dtype /\ v.shape = shape
  BY <1>1 DEF Tensor, Val
<1> HIDE DEF v
<1>6. Handed(m, EmitNamed(m, v, op, uses, attr)) /\ EmitNamed(m, v, op, uses, attr).v = v
  BY <1>1, <1>2, <1>3, <1>5, EmitNamedKeeps DEF Grows
<1> QED  BY <1>1, <1>4, <1>5, <1>6, HandedLater

(* A value with a payload: a statement that is not an op.                   *)
LEMMA ConstantKeeps ==
  ASSUME NEW gr, GraphInv(gr), NEW p \in Words, NEW op \in {"scalar", "weight"},
         NEW shape \in Seq(Int), NEW attr \in Nat
  PROVE  LET r == Constant(gr, p, op, shape, attr)
         IN /\ GraphInv(r.g) /\ Usable(gr) \subseteq Usable(r.g)
            /\ r.v \in Usable(r.g) /\ r.v.shape = shape
            /\ References(r.g) = References(gr) \cup
                 (IF op = "weight"
                  THEN {[offset |-> attr, bytes |-> 2 * Product(shape)]} ELSE {})
<1> DEFINE m == Fresh(gr, p)
           e == <<>>
           v == Val(Minted(m, p), "Fp16", shape)
           st == [binds |-> v, op |-> op, uses |-> e, attr |-> attr]
           q == Push(m, v, op, e, attr)
           h == SizeOf(q, v)
<1>1. Grows(gr, m) /\ Reserved(m, Minted(m, p)) /\ Minted(m, p) \in Name
  BY FreshKeeps
<1>2. m \in Graph /\ GraphInv(m) /\ TypedInv(m)
  BY <1>1 DEF Grows, GraphInv, TypedInv
<1>3. v \in Tensor /\ op \in Words /\ e \in Seq(Tensor) /\ v.name = Minted(m, p)
      /\ v.dtype = "Fp16" /\ v.shape = shape /\ Range(e) = {}
  BY <1>1 DEF Tensor, Val, Words, Range
<1>4. Constant(gr, p, op, shape, attr) = [g |-> h, v |-> v]
  BY DEF Constant, Out
<1> HIDE DEF m, v, e
<1>5. /\ q \in Graph /\ st \in Stmt
      /\ q.params = m.params /\ q.taken = m.taken /\ q.ops = m.ops
      /\ q.sizes = m.sizes /\ q.stmts = Append(m.stmts, st)
  BY <1>2, <1>3, PushIs
<1>6. st.binds = v /\ st.op = op /\ st.uses = e /\ st.attr = attr
  OBVIOUS
<1>7. ~IsOp(st) /\ StmtTrue(st)
  BY <1>6 DEF IsOp, SourceOps, StmtTrue, ShapeTrue, CountKept
<1> HIDE DEF st, q
<1>8. ByteSize(v) \in Nat /\ v.name \in Name
  BY <1>1, <1>3, ByteSizeNat
<1>9. /\ h \in Graph /\ h.params = m.params /\ h.taken = m.taken /\ h.ops = m.ops
      /\ h.stmts = Append(m.stmts, st)
      /\ h.sizes = [x \in DOMAIN m.sizes \cup {v.name} |->
                      IF x = v.name THEN ByteSize(v) ELSE m.sizes[x]]
  <2>1. /\ h \in Graph /\ h.params = q.params /\ h.taken = q.taken
        /\ h.ops = q.ops /\ h.stmts = q.stmts
        /\ h.sizes = [x \in DOMAIN q.sizes \cup {v.name} |->
                        IF x = v.name THEN ByteSize(v) ELSE q.sizes[x]]
    BY <1>5, <1>8, SizeOfIs, ZenonT(30)
  <2> HIDE DEF h
  <2> QED  BY <1>5, <2>1
<1> HIDE DEF h
<1>10. Stated(m, h, st)
  BY <1>1, <1>3, <1>5, <1>6, <1>9 DEF Stated
<1>11. Sized(m, h, v)
  BY <1>2, <1>9 DEF Sized, SizeOf, Graph
<1>12. /\ TypedInv(h) /\ NamedInv(h) /\ UsesInv(h) /\ Usable(m) \subseteq Usable(h)
       /\ v \in Usable(h)
  BY <1>2, <1>3, <1>6, <1>10, StatedNames DEF GraphInv
<1>13. PricedInv(h) /\ \A x \in NamesOf(m) : Priced(h, x) = Priced(m, x)
  BY <1>2, <1>6, <1>10, <1>11, StatedPrices DEF GraphInv
<1>14. ReadsInv(h) /\ TrafficInv(h)
  BY <1>2, <1>7, <1>9, <1>10, <1>13, StatedQuiet DEF GraphInv
<1>15. ShapesInv(h)
  BY <1>2, <1>5, <1>7, <1>9, ShapesKept DEF GraphInv
<1>16. References(h) = References(m) \cup
         (IF op = "weight"
          THEN {[offset |-> attr, bytes |-> 2 * Product(shape)]} ELSE {})
  <2>1. Range(h.stmts) = Range(m.stmts) \cup {st}
    BY <1>2, <1>5, <1>9, RangeAppended DEF Graph
  <2>2. {s \in Range(h.stmts) : s.op = "weight"}
          = {s \in Range(m.stmts) : s.op = "weight"}
              \cup (IF op = "weight" THEN {st} ELSE {})
    BY <1>6, <2>1
  <2>3. Numel(v) = Product(shape)
    BY <1>3 DEF Numel
  <2> QED  BY <1>6, <2>2, <2>3 DEF References
<1>17. Usable(gr) \subseteq Usable(h) /\ References(m) = References(gr)
  BY <1>1, <1>12 DEF Grows
<1> QED  BY <1>3, <1>4, <1>12, <1>13, <1>14, <1>15, <1>16, <1>17 DEF GraphInv

-----------------------------------------------------------------------------
(* The methods of Graph, but for the geometry of what they declare.         *)

(* What a client can hand to a method.                                      *)
LEMMA UsableIs ==
  ASSUME NEW gr, GraphInv(gr), NEW x \in Usable(gr)
  PROVE  /\ x \in Tensor /\ x.dtype \in {"Fp16", "Fp32", "Int32"} /\ x.shape \in Seq(Int)
         /\ x = Val(x.name, x.dtype, x.shape) /\ x.name \in Name
<1>1. gr.params \in Seq(Tensor) /\ gr.stmts \in Seq(Stmt)
  BY DEF GraphInv, TypedInv, Graph
<1>2. \A v \in Range(gr.params) : v \in Tensor
  BY <1>1 DEF Range
<1>3. \A st \in Range(gr.stmts) : st.binds \in Tensor
  <2>1. \A st \in Range(gr.stmts) : st \in Stmt
    BY <1>1 DEF Range
  <2> QED  BY <2>1 DEF Stmt
<1>4. x \in Tensor /\ x.dtype # "attribute"
  BY <1>2, <1>3 DEF Usable, BoundVals
<1> QED  BY <1>4 DEF Tensor, Val

LEMMA OneOperand ==
  ASSUME NEW gr, GraphInv(gr), NEW x \in Usable(gr)
  PROVE  <<x>> \in Seq(Tensor) /\ Range(<<x>>) \subseteq Usable(gr)
<1>1. x \in Tensor
  BY UsableIs
<1>2. Range(<<x>>) = {x}
  BY DEF Range
<1> QED  BY <1>1, <1>2

LEMMA TwoOperands ==
  ASSUME NEW gr, GraphInv(gr), NEW x \in Usable(gr), NEW y \in Usable(gr)
  PROVE  <<x, y>> \in Seq(Tensor) /\ Range(<<x, y>>) \subseteq Usable(gr)
<1>1. x \in Tensor /\ y \in Tensor
  BY UsableIs
<1>2. Range(<<x, y>>) = {x, y}
  BY DEF Range
<1> QED  BY <1>1, <1>2

LEMMA ThreeOperands ==
  ASSUME NEW gr, GraphInv(gr), NEW x \in Usable(gr), NEW y \in Usable(gr),
         NEW z \in Usable(gr)
  PROVE  <<x, y, z>> \in Seq(Tensor) /\ Range(<<x, y, z>>) \subseteq Usable(gr)
<1>1. x \in Tensor /\ y \in Tensor /\ z \in Tensor
  BY UsableIs
<1>2. Range(<<x, y, z>>) = {x, y, z}
  BY DEF Range
<1> QED  BY <1>1, <1>2

(* An op with no rule of its own for shapes.                                *)
LEMMA PlainEmit ==
  ASSUME NEW gr, NEW h, Grows(gr, h), NEW p \in Words, NEW op \in Words,
         op \notin {"slice", "scalar", "weight", "const", "add", "sub", "mul",
                    "real_div", "conv", "matmul", "reshape", "transpose", "concat"},
         NEW dtype \in {"Fp16", "Fp32", "Int32"}, NEW shape \in Seq(Int),
         NEW uses \in Seq(Tensor), Range(uses) \subseteq Usable(gr),
         NEW attr \in Attrs
  PROVE  LET r == Emit(h, p, op, dtype, shape, uses, attr)
         IN Handed(gr, r) /\ r.v.dtype = dtype /\ r.v.shape = shape
<1>1. \A n \in Name : StmtTrue([binds |-> Val(n, dtype, shape), op |-> op,
                                 uses |-> uses, attr |-> attr])
  BY DEF StmtTrue, ShapeTrue, CountKept
<1>2. GraphInv(h) /\ Range(uses) \subseteq Usable(h)
  BY DEF Grows
<1> DEFINE r == Emit(h, p, op, dtype, shape, uses, attr)
<1>3. Handed(h, r) /\ r.v.dtype = dtype /\ r.v.shape = shape
  BY <1>1, <1>2, EmitKeeps
<1> HIDE DEF r
<1> QED  BY <1>3, HandedLater DEF r

(* An op after constants of its own.                                        *)
LEMMA EmitLater ==
  ASSUME NEW gr, NEW h, Grows(gr, h), NEW p \in Words, NEW op \in Words,
         op \notin {"slice", "scalar", "weight", "const"},
         NEW dtype \in {"Fp16", "Fp32", "Int32"}, NEW shape \in Seq(Int),
         NEW uses \in Seq(Tensor), Range(uses) \subseteq Usable(gr),
         NEW attr \in Attrs,
         \A n \in Name : StmtTrue([binds |-> Val(n, dtype, shape), op |-> op,
                                   uses |-> uses, attr |-> attr])
  PROVE  Handed(gr, Emit(h, p, op, dtype, shape, uses, attr))
<1>1. GraphInv(h) /\ Range(uses) \subseteq Usable(h)
  BY DEF Grows
<1> DEFINE r == Emit(h, p, op, dtype, shape, uses, attr)
<1>2. Handed(h, r)
  BY <1>1, EmitKeeps
<1> HIDE DEF r
<1> QED  BY <1>2, HandedLater DEF r

LEMMA WordsAre ==
  /\ {"cv", "ci", "ck", "cs", "cb", "cm", "raw", "cast", "sm", "ln", "conv", "mm",
      "rs", "tp", "cat", "sl", "k", "w"} \subseteq Words
  /\ UnaryOps \subseteq Words /\ BinaryOps \subseteq Words
  BY MilAssumption DEF Words

LEMMA ConstsKeep ==
  ASSUME NEW gr, NEW h, Grows(gr, h), NEW p \in Words
  PROVE  Grows(gr, AddConst(h, p))
  BY AddConstKeeps, GrowsTwice DEF Grows

LEMMA GrowsSelf ==
  ASSUME NEW gr, GraphInv(gr)
  PROVE  Grows(gr, gr)
  BY DEF Grows

LEMMA RawOpKeeps ==
  ASSUME NEW gr, GraphInv(gr), NEW x \in Usable(gr), NEW s \in Seq(Int)
  PROVE  Handed(gr, RawOp(gr, s, <<x>>))
<1>1. x \in Tensor /\ <<x>> \in Seq(Tensor) /\ Range(<<x>>) \subseteq Usable(gr)
  BY UsableIs, OneOperand
<1> HIDE DEF Attrs
<1>2. 0 \in Attrs /\ "raw" \in Words /\ "raw_op" \in Words
  BY DEF Attrs, Words
<1>3. Grows(gr, gr)
  BY GrowsSelf
<1> QED  BY <1>1, <1>2, <1>3, PlainEmit DEF RawOp

LEMMA CastKeeps ==
  ASSUME NEW gr, GraphInv(gr), NEW x \in Usable(gr), NEW t \in {"Fp16", "Fp32", "Int32"}
  PROVE  Handed(gr, Cast(gr, x, t))
<1>1. x \in Tensor /\ <<x>> \in Seq(Tensor) /\ Range(<<x>>) \subseteq Usable(gr)
      /\ x.shape \in Seq(Int)
  BY UsableIs, OneOperand
<1>2. 0 \in Attrs /\ "cs" \in Words /\ "cast" \in Words
  BY DEF Attrs, Words
<1>3. Grows(gr, AddConst(gr, "cs"))
  BY <1>2, GrowsSelf, ConstsKeep
<1> QED  BY <1>1, <1>2, <1>3, PlainEmit, ZenonT(30) DEF Cast

LEMMA UnaryKeeps ==
  ASSUME NEW gr, GraphInv(gr), NEW x \in Usable(gr),
         NEW op \in {"relu", "sigmoid", "tanh", "silu"}
  PROVE  Handed(gr, Unary(gr, op, x)) /\ Unary(gr, op, x).v.shape = x.shape
         /\ Unary(gr, op, x).v.dtype = x.dtype
<1>1. x \in Tensor /\ <<x>> \in Seq(Tensor) /\ Range(<<x>>) \subseteq Usable(gr)
      /\ x.shape \in Seq(Int) /\ x.dtype \in {"Fp16", "Fp32", "Int32"}
  BY UsableIs, OneOperand
<1>2. 0 \in Attrs /\ op \in Words
  BY DEF Attrs, Words
<1>3. Grows(gr, gr)
  BY GrowsSelf
<1>4. op \notin {"slice", "scalar", "weight", "const", "add", "sub", "mul",
                 "real_div", "conv", "matmul", "reshape", "transpose", "concat"}
  OBVIOUS
<1> DEFINE uses == <<x>>
           r == Emit(gr, op, op, x.dtype, x.shape, <<x>>, 0)
           z == 0
           t == x.dtype
           sh == x.shape
<1>5. /\ uses \in Seq(Tensor) /\ Range(uses) \subseteq Usable(gr) /\ z \in Attrs
      /\ t \in {"Fp16", "Fp32", "Int32"} /\ sh \in Seq(Int)
  BY <1>1, <1>2
<1> HIDE DEF uses, z, t, sh
<1>6. LET q == Emit(gr, op, op, t, sh, uses, z)
      IN Handed(gr, q) /\ q.v.dtype = t /\ q.v.shape = sh
  BY <1>2, <1>3, <1>4, <1>5, PlainEmit
<1>7. Unary(gr, op, x) = r
  BY DEF Unary
<1>8. Handed(gr, r) /\ r.v.dtype = x.dtype /\ r.v.shape = x.shape
  BY <1>6 DEF uses, z, t, sh
<1> QED  BY <1>7, <1>8

LEMMA SoftmaxKeeps ==
  ASSUME NEW gr, GraphInv(gr), NEW x \in Usable(gr)
  PROVE  Handed(gr, Softmax(gr, x))
<1>1. x \in Tensor /\ <<x>> \in Seq(Tensor) /\ Range(<<x>>) \subseteq Usable(gr)
      /\ x.shape \in Seq(Int) /\ x.dtype \in {"Fp16", "Fp32", "Int32"}
  BY UsableIs, OneOperand
<1>2. 0 \in Attrs /\ "ci" \in Words /\ "sm" \in Words /\ "softmax" \in Words
  BY DEF Attrs, Words
<1> DEFINE h == AddConst(gr, "ci")
           uses == <<x>>
           z == 0
<1>3. Grows(gr, h)
  BY <1>2, GrowsSelf, ConstsKeep
<1>4. "softmax" \notin {"slice", "scalar", "weight", "const", "add", "sub", "mul",
                       "real_div", "conv", "matmul", "reshape", "transpose", "concat"}
  OBVIOUS
<1>5. Softmax(gr, x) = Emit(h, "sm", "softmax", x.dtype, x.shape, uses, z)
  BY DEF Softmax
<1>6. uses \in Seq(Tensor) /\ Range(uses) \subseteq Usable(gr) /\ z \in Attrs
  BY <1>1, <1>2
<1> HIDE DEF h, uses, z
<1> QED  BY <1>1, <1>2, <1>3, <1>4, <1>5, <1>6, PlainEmit

LEMMA LayerNormKeeps ==
  ASSUME NEW gr, GraphInv(gr), NEW x \in Usable(gr),
         NEW n, n.gamma \in Usable(gr), n.beta \in Usable(gr)
  PROVE  Handed(gr, LayerNorm(gr, x, n))
<1> DEFINE uses == <<x, n.gamma, n.beta>>
<1>1. uses \in Seq(Tensor) /\ Range(uses) \subseteq Usable(gr)
      /\ x.shape \in Seq(Int) /\ x.dtype \in {"Fp16", "Fp32", "Int32"}
  BY UsableIs, ThreeOperands
<1>2. 0 \in Attrs /\ "cv" \in Words /\ "ck" \in Words /\ "ln" \in Words
      /\ "layer_norm" \in Words
  BY DEF Attrs, Words
<1> DEFINE h == AddConst(AddConst(gr, "cv"), "ck")
<1>3. Grows(gr, h)
  BY <1>2, GrowsSelf, ConstsKeep
<1>4. LayerNorm(gr, x, n) = Emit(h, "ln", "layer_norm", x.dtype, x.shape, uses, 0)
  BY DEF LayerNorm
<1> HIDE DEF h, uses
<1> QED  BY <1>1, <1>2, <1>3, <1>4, PlainEmit

LEMMA ReshapeKeeps ==
  ASSUME NEW gr, GraphInv(gr), NEW x \in Usable(gr), NEW s \in Seq(Int), ReshapeOK(x, s)
  PROVE  Handed(gr, Reshape(gr, x, s))
<1>1. x \in Tensor /\ <<x>> \in Seq(Tensor) /\ Range(<<x>>) \subseteq Usable(gr)
      /\ x.dtype \in {"Fp16", "Fp32", "Int32"}
  BY UsableIs, OneOperand
<1>2. 0 \in Attrs /\ "cv" \in Words /\ "rs" \in Words /\ "reshape" \in Words
  BY DEF Attrs, Words
<1>3. Grows(gr, AddConst(gr, "cv"))
  BY <1>2, GrowsSelf, ConstsKeep
<1> DEFINE uses == <<x>>
           t == x.dtype
           h == AddConst(gr, "cv")
           z == 0
           op == "reshape"
           stated(n) == [binds |-> Val(n, t, s), op |-> op, uses |-> uses, attr |-> z]
<1>4. \A n \in Name : StmtTrue(stated(n))
  <2> SUFFICES ASSUME NEW n \in Name PROVE StmtTrue(stated(n))
    OBVIOUS
  <2> DEFINE st == stated(n)
  <2>1. st.op = "reshape" /\ st.uses[1] = x /\ st.binds.shape = s
    BY DEF Val
  <2> HIDE DEF st
  <2>2. Numel(st.binds) = Numel(st.uses[1])
    BY <2>1 DEF Numel, ReshapeOK
  <2>3. StmtTrue(st)
    BY <2>1, <2>2 DEF StmtTrue, ShapeTrue, CountKept
  <2> QED  BY <2>3 DEF st
<1>5. /\ uses \in Seq(Tensor) /\ Range(uses) \subseteq Usable(gr) /\ z \in Attrs
      /\ t \in {"Fp16", "Fp32", "Int32"}
  BY <1>1, <1>2
<1>6. op \in Words /\ op \notin {"slice", "scalar", "weight", "const"}
  BY <1>2
<1>7. Reshape(gr, x, s) = Emit(h, "rs", op, t, s, uses, z)
  BY DEF Reshape
<1> HIDE DEF uses, t, h, z, op
<1> QED  BY <1>2, <1>3, <1>4, <1>5, <1>6, <1>7, EmitLater DEF h

(* rename takes a caller's name that is free.                               *)
LEMMA RenameKeeps ==
  ASSUME NEW gr, GraphInv(gr), NEW x \in Usable(gr), NEW n \in NewNames, n \notin gr.taken
  PROVE  Handed(gr, RenameTo(gr, n, x))
<1> DEFINE m == [gr EXCEPT !.taken = @ \cup {n}]
           v == Val(n, x.dtype, x.shape)
           st == [binds |-> v, op |-> "identity", uses |-> <<x>>, attr |-> 0]
<1>1. x \in Tensor /\ <<x>> \in Seq(Tensor) /\ Range(<<x>>) \subseteq Usable(gr)
      /\ x.shape \in Seq(Int) /\ x.dtype \in {"Fp16", "Fp32", "Int32"}
  BY UsableIs, OneOperand
<1>2. n \in Name /\ gr \in Graph /\ IsFiniteSet(gr.taken)
      /\ NamesOf(gr) \subseteq gr.taken
  BY DEF Name, GraphInv, TypedInv, NamedInv
<1>3. /\ m \in Graph /\ m.params = gr.params /\ m.stmts = gr.stmts
      /\ m.ops = gr.ops /\ m.sizes = gr.sizes /\ m.taken = gr.taken \cup {n}
  <2>1. gr.taken \cup {n} \in SUBSET Name
    BY <1>2 DEF Graph
  <2> QED  BY <1>2, <2>1 DEF Graph
<1>4. IsFiniteSet(m.taken)
  BY <1>2, <1>3, FS_AddElement
<1>5. RenameTo(gr, n, x) = EmitNamed(m, v, "identity", <<x>>, 0)
  BY DEF RenameTo
<1> HIDE DEF m
<1>6. Grows(gr, m) /\ NamesOf(m) = NamesOf(gr) /\ Usable(m) = Usable(gr)
  BY <1>3, <1>4, TakingKeeps
<1>7. v \in Tensor /\ v.name = n /\ v.dtype # "attribute"
  BY <1>1, <1>2 DEF Tensor, Val
<1>8. Reserved(m, v.name)
  BY <1>2, <1>3, <1>6, <1>7 DEF Reserved
<1>9. IsOp(st) /\ StmtTrue(st)
  BY DEF IsOp, SourceOps, StmtTrue, ShapeTrue, CountKept
<1>10. 0 \in Attrs /\ "identity" \in Words
  BY DEF Attrs, Words
<1> HIDE DEF v
<1>11. Handed(m, EmitNamed(m, v, "identity", <<x>>, 0))
  BY <1>1, <1>6, <1>7, <1>8, <1>9, <1>10, EmitNamedKeeps DEF Grows
<1> QED  BY <1>5, <1>6, <1>11, HandedLater


(* input declares a parameter under a caller's name, before any statement.  *)
LEMMA InputKeeps ==
  ASSUME NEW gr, GraphInv(gr), gr.stmts = <<>>, gr.ops = <<>>,
         NEW n \in InputNames, n \notin gr.taken,
         NEW t \in {"Fp16", "Fp32", "Int32"}, NEW s \in Seq(Int)
  PROVE  Handed(gr, Input(gr, n, t, s))
<1> DEFINE v == Val(n, t, s)
           z == SizeOf(gr, v)
           h == [z EXCEPT !.taken = @ \cup {n}, !.params = Append(@, v)]
<1>1. gr \in Graph /\ IsFiniteSet(gr.taken) /\ NamesOf(gr) \subseteq gr.taken
  BY DEF GraphInv, TypedInv, NamedInv
<1>2. n \in Name /\ v \in Tensor /\ v.name = n /\ v.dtype # "attribute"
  BY DEF Name, Tensor, Val
<1>3. Input(gr, n, t, s) = [g |-> h, v |-> v]
  BY DEF Input, Out
<1> HIDE DEF v
<1>4. ByteSize(v) \in Nat /\ v.name \in Name
  BY <1>2, ByteSizeNat
<1>5. /\ z \in Graph /\ z.params = gr.params /\ z.taken = gr.taken
      /\ z.ops = gr.ops /\ z.stmts = gr.stmts
      /\ z.sizes = [x \in DOMAIN gr.sizes \cup {v.name} |->
                      IF x = v.name THEN ByteSize(v) ELSE gr.sizes[x]]
  BY <1>1, <1>4, SizeOfIs, ZenonT(30)
<1> HIDE DEF z
<1>6. /\ h \in Graph /\ h.params = Append(gr.params, v)
      /\ h.taken = gr.taken \cup {n} /\ h.ops = gr.ops /\ h.stmts = gr.stmts
      /\ h.sizes = z.sizes
  <2>1. Append(z.params, v) \in Seq(Tensor) /\ z.taken \cup {n} \in SUBSET Name
    BY <1>2, <1>5 DEF Graph
  <2> QED  BY <1>5, <2>1 DEF Graph
<1> HIDE DEF h
<1>7. DOMAIN h.stmts = {} /\ DOMAIN h.ops = {} /\ Range(h.stmts) = {}
      /\ DOMAIN gr.stmts = {} /\ Len(h.ops) = 0
  BY <1>6 DEF Range
<1>8. TypedInv(h)
  BY <1>1, <1>6, FS_AddElement DEF TypedInv
<1> DEFINE k == Len(gr.params)
<1>9. /\ Range(h.params) = Range(gr.params) \cup {v}
      /\ DOMAIN gr.params = 1..k /\ DOMAIN h.params = 1..(k + 1) /\ k \in Nat
      /\ h.params[k + 1] = v
      /\ \A i \in 1..k : h.params[i] = gr.params[i]
  BY <1>1, <1>2, <1>6, RangeAppended DEF Graph
<1> HIDE DEF k
<1>10. BoundVals(h) = BoundVals(gr) \cup {v}
  BY <1>6, <1>9 DEF BoundVals
<1>11. NamesOf(h) = NamesOf(gr) \cup {n} /\ n \notin NamesOf(gr)
  BY <1>1, <1>2, <1>10 DEF NamesOf
<1>12. Usable(h) = Usable(gr) \cup {v}
  BY <1>2, <1>10 DEF Usable
<1>13. NamedInv(h)
  <2>1. \A i : i \in 1..(k + 1) <=> i \in 1..k \/ i = k + 1
    BY <1>9
  <2>2. \A i \in 1..k : gr.params[i].name \in NamesOf(gr)
    BY <1>9 DEF NamesOf, BoundVals, Range
  <2>3. \A i, j \in 1..k : gr.params[i].name = gr.params[j].name => i = j
    BY <1>9 DEF GraphInv, NamedInv
  <2>4. \A i, j \in 1..(k + 1) : h.params[i].name = h.params[j].name => i = j
    BY <1>2, <1>9, <1>11, <2>1, <2>2, <2>3
  <2> QED  BY <1>1, <1>6, <1>7, <1>9, <1>11, <2>4 DEF NamedInv
<1>14. UsesInv(h) /\ ReadsInv(h) /\ ShapesInv(h)
  BY <1>7 DEF UsesInv, ReadsInv, ShapesInv
<1>15. PricedInv(h)
  <2>1. \A x \in Usable(gr) : x.name # n /\ x.name \in DOMAIN gr.sizes
                              /\ gr.sizes[x.name] = ByteSize(x)
    BY <1>11 DEF GraphInv, PricedInv, NamesOf, Usable
  <2> QED  BY <1>2, <1>5, <1>6, <1>12, <2>1 DEF PricedInv
<1>16. TrafficInv(h)
  <2>1. [i \in DOMAIN h.ops |-> Priced(h, h.ops[i].result)]
          = [i \in DOMAIN h.stmts |-> BytesWritten(h.stmts[i])]
    BY <1>7
  <2>2. [i \in DOMAIN h.ops |-> h.ops[i].readBytes]
          = [i \in DOMAIN h.stmts |-> BytesRead(h.stmts[i])]
    BY <1>7
  <2>3. {i \in DOMAIN h.stmts : IsOp(h.stmts[i])} = {}
    BY <1>7
  <2> QED  BY <1>7, <2>1, <2>2, <2>3, FS_EmptySet DEF TrafficInv
<1>17. References(h) = References(gr)
  BY <1>6 DEF References
<1> QED  BY <1>3, <1>8, <1>12, <1>13, <1>14, <1>15, <1>16, <1>17
         DEF Handed, Grows, GraphInv

-----------------------------------------------------------------------------
(* The geometry of what the methods declare.                                *)

(* broadcast's test for one dimension.                                      *)
LEMMA AtMostOneNotOne ==
  ASSUME NEW x, NEW y
  PROVE  Cardinality({x, y} \ {1}) <= 1 <=> x = 1 \/ y = 1 \/ x = y
<1>1. CASE x = 1 \/ y = 1 \/ x = y
  <2>1. {x, y} \ {1} = {} \/ \E z : {x, y} \ {1} = {z}
    BY <1>1
  <2> QED  BY <1>1, <2>1, FS_EmptySet, FS_Singleton
<1>2. CASE x # 1 /\ y # 1 /\ x # y
  <2>1. {x, y} \ {1} = {x} \cup {y} /\ y \notin {x}
    BY <1>2
  <2>2. IsFiniteSet({x}) /\ Cardinality({x}) = 1
    BY FS_Singleton
  <2>3. Cardinality({x} \cup {y}) = 2
    BY <2>1, <2>2, FS_AddElement
  <2> QED  BY <1>2, <2>1, <2>3
<1> QED  BY <1>1, <1>2

LEMMA AlignIs ==
  ASSUME NEW s \in Seq(Int), NEW rank \in Nat, Len(s) <= rank
  PROVE  /\ Align(s, rank) \in Seq(Int) /\ Len(Align(s, rank)) = rank
         /\ \A i \in 1..rank :
              Align(s, rank)[i] = IF i <= rank - Len(s) THEN 1
                                  ELSE s[i - (rank - Len(s))]
<1> DEFINE k == rank - Len(s)
           e == [i \in 1..k |-> 1]
<1>1. k \in Nat /\ Len(s) \in Nat
  OBVIOUS
<1>2. e \in Seq(Int) /\ Len(e) = k /\ \A i \in 1..k : e[i] = 1
  BY <1>1
<1> HIDE DEF e
<1>3. e \o s \in Seq(Int) /\ Len(e \o s) = rank
      /\ \A i \in 1..rank : (e \o s)[i] = IF i <= k THEN e[i] ELSE s[i - k]
  BY <1>1, <1>2
<1> QED  BY <1>2, <1>3 DEF Align, e

(* broadcast's result, where its assertion holds.                           *)
LEMMA BroadcastIs ==
  ASSUME NEW a \in Seq(Int), NEW b \in Seq(Int), BroadcastOK(a, b)
  PROVE  /\ Broadcast(a, b) \in Seq(Int)
         /\ Len(Broadcast(a, b)) = Larger(Len(a), Len(b))
         /\ \A i \in 1..Larger(Len(a), Len(b)) :
              LET x == Align(a, Larger(Len(a), Len(b)))[i]
                  y == Align(b, Larger(Len(a), Len(b)))[i]
              IN /\ x \in Int /\ y \in Int /\ (x = 1 \/ y = 1 \/ x = y)
                 /\ Broadcast(a, b)[i] = Larger(x, y)
<1> DEFINE rank == Larger(Len(a), Len(b))
           A == Align(a, rank)
           B == Align(b, rank)
           s == [i \in 1..rank |-> Larger(A[i], B[i])]
<1>1. rank \in Nat /\ Len(a) <= rank /\ Len(b) <= rank
  BY DEF Larger
<1> HIDE DEF rank
<1>2. A \in Seq(Int) /\ Len(A) = rank /\ B \in Seq(Int) /\ Len(B) = rank
  BY <1>1, AlignIs
<1>3. \A i \in 1..rank : Cardinality({A[i], B[i]} \ {1}) <= 1
  BY DEF BroadcastOK, rank
<1>4. Broadcast(a, b) = s
  BY DEF Broadcast, rank
<1> HIDE DEF A, B
<1>5. \A i \in 1..rank : A[i] \in Int /\ B[i] \in Int
  BY <1>1, <1>2
<1>6. \A i \in 1..rank : A[i] = 1 \/ B[i] = 1 \/ A[i] = B[i]
  BY <1>3, AtMostOneNotOne
<1>7. s \in Seq(Int) /\ Len(s) = rank
  <2>1. \A i \in 1..rank : Larger(A[i], B[i]) \in Int
    BY <1>5 DEF Larger
  <2> QED  BY <1>1, <2>1
<1> QED  BY <1>4, <1>5, <1>6, <1>7 DEF A, B, rank

(* The result of a broadcast broadcasts with either operand.                *)
LEMMA BroadcastAgain ==
  ASSUME NEW a \in Seq(Int), NEW b \in Seq(Int), BroadcastOK(a, b)
  PROVE  BroadcastOK(a, Broadcast(a, b)) /\ BroadcastOK(b, Broadcast(a, b))
<1> DEFINE rank == Larger(Len(a), Len(b))
           s == Broadcast(a, b)
<1>1. rank \in Nat /\ Len(a) <= rank /\ Len(b) <= rank
  BY DEF Larger
<1>2. /\ s \in Seq(Int) /\ Len(s) = rank
      /\ \A i \in 1..rank :
           LET x == Align(a, rank)[i]
               y == Align(b, rank)[i]
           IN /\ x \in Int /\ y \in Int /\ (x = 1 \/ y = 1 \/ x = y)
              /\ s[i] = Larger(x, y)
  BY BroadcastIs
<1> HIDE DEF rank, s
<1>3. \A i \in 1..rank : Align(s, rank)[i] = s[i]
  <2>1. s \in Seq(Int) /\ Len(s) <= rank /\ Len(s) = rank
    BY <1>1, <1>2
  <2>2. \A i \in 1..rank : Align(s, rank)[i] = IF i <= rank - Len(s) THEN 1
                                              ELSE s[i - (rank - Len(s))]
    BY <1>1, <2>1, AlignIs
  <2> QED  BY <1>1, <2>1, <2>2
<1>4. Larger(Len(a), Len(s)) = rank /\ Larger(Len(b), Len(s)) = rank
  BY <1>1, <1>2 DEF Larger
<1>5. \A i \in 1..rank : s[i] = Align(a, rank)[i] \/ s[i] = Align(b, rank)[i]
  BY <1>2 DEF Larger
<1>6. ASSUME NEW i \in 1..rank
      PROVE  /\ Cardinality({Align(a, rank)[i], Align(s, rank)[i]} \ {1}) <= 1
             /\ Cardinality({Align(b, rank)[i], Align(s, rank)[i]} \ {1}) <= 1
  <2> DEFINE x == Align(a, rank)[i]
             y == Align(b, rank)[i]
             z == Align(s, rank)[i]
  <2>1. (x = 1 \/ y = 1 \/ x = y) /\ (z = x \/ z = y)
    BY <1>2, <1>3, <1>5
  <2> HIDE DEF x, y, z
  <2>2. (x = 1 \/ z = 1 \/ x = z) /\ (y = 1 \/ z = 1 \/ y = z)
    BY <2>1
  <2>3. Cardinality({x, z} \ {1}) <= 1 /\ Cardinality({y, z} \ {1}) <= 1
    BY <2>2, AtMostOneNotOne
  <2> QED  BY <2>3 DEF x, y, z
<1> QED  BY <1>4, <1>6 DEF BroadcastOK, s

(* broadcast gives numpy's shape.                                           *)
LEMMA BroadcastTrue ==
  ASSUME NEW a \in Seq(Int), NEW b \in Seq(Int), BroadcastOK(a, b)
  PROVE  IsBroadcast(a, b, Broadcast(a, b))
<1> DEFINE rank == Larger(Len(a), Len(b))
           s == Broadcast(a, b)
           at(t, k) == IF k < Len(t) THEN t[Len(t) - k] ELSE 1
<1>1. rank \in Nat /\ Len(a) <= rank /\ Len(b) <= rank
  BY DEF Larger
<1>2. /\ s \in Seq(Int) /\ Len(s) = rank
      /\ \A i \in 1..rank :
           LET x == Align(a, rank)[i]
               y == Align(b, rank)[i]
           IN /\ x \in Int /\ y \in Int /\ (x = 1 \/ y = 1 \/ x = y)
              /\ s[i] = Larger(x, y)
  BY BroadcastIs
<1>3. /\ \A i \in 1..rank : Align(a, rank)[i] = IF i <= rank - Len(a) THEN 1
                                              ELSE a[i - (rank - Len(a))]
      /\ \A i \in 1..rank : Align(b, rank)[i] = IF i <= rank - Len(b) THEN 1
                                              ELSE b[i - (rank - Len(b))]
  <2> HIDE DEF rank
  <2> QED  BY <1>1, AlignIs
<1> HIDE DEF s
<1>4. ASSUME AllPositive(a), AllPositive(b), NEW k \in 0..(Len(s) - 1)
      PROVE  /\ {at(a, k), at(b, k)} \subseteq {1, at(s, k)}
             /\ at(s, k) \in {at(a, k), at(b, k)}
  <2> HIDE DEF rank
  <2> DEFINE i == rank - k
             x == Align(a, rank)[i]
             y == Align(b, rank)[i]
  <2>1. i \in 1..rank /\ k \in Nat
    BY <1>1, <1>2
  <2>2. x = at(a, k)
    BY <1>1, <1>3, <2>1
  <2>3. y = at(b, k)
    BY <1>1, <1>3, <2>1
  <2>4. at(s, k) = s[i]
    BY <1>1, <1>2, <2>1
  <2>5. at(a, k) > 0 /\ at(b, k) > 0
    BY <1>4, <2>1, SMTT(30) DEF AllPositive
  <2>6. x \in Int /\ y \in Int /\ (x = 1 \/ y = 1 \/ x = y) /\ s[i] = Larger(x, y)
    BY <1>2, <2>1
  <2> HIDE DEF x, y, at, i
  <2> QED  BY <2>2, <2>3, <2>4, <2>5, <2>6 DEF Larger
<1>5. Len(s) = Larger(Len(a), Len(b))
  BY <1>2
<1> QED  BY <1>4, <1>5 DEF IsBroadcast, s

-----------------------------------------------------------------------------
(* The methods whose shapes have a rule.                                    *)

LEMMA BinaryKeeps ==
  ASSUME NEW gr, GraphInv(gr), NEW x \in Usable(gr), NEW y \in Usable(gr),
         NEW op \in {"add", "sub", "mul", "real_div"}, BinaryOK(x, y)
  PROVE  /\ Handed(gr, Binary(gr, op, x, y))
         /\ Binary(gr, op, x, y).v.dtype = x.dtype
         /\ Binary(gr, op, x, y).v.shape = Broadcast(x.shape, y.shape)
<1> DEFINE uses == <<x, y>>
           t == x.dtype
           s == Broadcast(x.shape, y.shape)
           z == 0
           stated(n) == [binds |-> Val(n, t, s), op |-> op, uses |-> uses, attr |-> z]
<1>1. uses \in Seq(Tensor) /\ Range(uses) \subseteq Usable(gr)
  BY TwoOperands
<1>2. x.shape \in Seq(Int) /\ y.shape \in Seq(Int) /\ t \in {"Fp16", "Fp32", "Int32"}
  BY UsableIs
<1>3. BroadcastOK(x.shape, y.shape)
  BY DEF BinaryOK
<1>4. s \in Seq(Int) /\ IsBroadcast(x.shape, y.shape, s)
  BY <1>2, <1>3, BroadcastIs, BroadcastTrue
<1>5. z \in Attrs /\ op \in Words /\ op \notin {"slice", "scalar", "weight", "const"}
  BY DEF Attrs, Words
<1>6. Binary(gr, op, x, y) = Emit(gr, op, op, t, s, uses, z)
  BY DEF Binary
<1>7. uses[1] = x /\ uses[2] = y
  OBVIOUS
<1> HIDE DEF uses, t, s, z
<1>8. \A n \in Name : StmtTrue(stated(n))
  <2> SUFFICES ASSUME NEW n \in Name PROVE StmtTrue(stated(n))
    OBVIOUS
  <2> DEFINE st == stated(n)
  <2>1. /\ st.op \in {"add", "sub", "mul", "real_div"}
        /\ st.uses[1].shape = x.shape /\ st.uses[2].shape = y.shape
        /\ st.binds.shape = s
    BY <1>7 DEF Val
  <2> HIDE DEF st
  <2>2. StmtTrue(st)
    BY <1>4, <2>1 DEF StmtTrue, ShapeTrue, CountKept
  <2> QED  BY <2>2 DEF st
<1>9. LET r == Emit(gr, op, op, t, s, uses, z)
      IN Handed(gr, r) /\ r.v.dtype = t /\ r.v.shape = s
  BY <1>1, <1>2, <1>4, <1>5, <1>8, EmitKeeps
<1> QED  BY <1>6, <1>9 DEF t, s

LEMMA PositiveKeeps ==
  ASSUME NEW gr, GraphInv(gr), NEW x \in Usable(gr), NEW y \in Usable(gr),
         BinaryOK(x, y)
  PROVE  /\ Handed(gr, Positive(gr, x, y))
         /\ Positive(gr, x, y).v.dtype = x.dtype
         /\ Positive(gr, x, y).v.shape = Broadcast(x.shape, y.shape)
<1> DEFINE d == Binary(gr, "sub", x, y)
           r == Unary(d.g, "relu", d.v)
<1>1. /\ Handed(gr, d) /\ d.v.dtype = x.dtype
      /\ d.v.shape = Broadcast(x.shape, y.shape)
  BY BinaryKeeps
<1> HIDE DEF d
<1>2. Handed(d.g, r) /\ r.v.dtype = d.v.dtype /\ r.v.shape = d.v.shape
  BY <1>1, UnaryKeeps DEF Handed, Grows
<1>3. Positive(gr, x, y) = r
  BY DEF Positive, d
<1> HIDE DEF r
<1>4. Handed(gr, r)
  BY <1>1, <1>2, HandedLater DEF Handed
<1> QED  BY <1>1, <1>2, <1>3, <1>4

LEMMA MaxMinKeep ==
  ASSUME NEW gr, GraphInv(gr), NEW x \in Usable(gr), NEW y \in Usable(gr),
         ComposedOK(x, y)
  PROVE  Handed(gr, MaxOf(gr, x, y)) /\ Handed(gr, MinOf(gr, x, y))
<1> DEFINE r == Positive(gr, x, y)
           u == Binary(r.g, "add", y, r.v)
           w == Binary(r.g, "sub", x, r.v)
<1>1. BinaryOK(x, y) /\ BroadcastOK(x.shape, y.shape) /\ x.dtype = y.dtype
      /\ x.dtype # "Fp32" /\ x.shape \in Seq(Int) /\ y.shape \in Seq(Int)
  BY UsableIs DEF ComposedOK, BinaryOK
<1>2. /\ Handed(gr, r) /\ r.v.dtype = x.dtype
      /\ r.v.shape = Broadcast(x.shape, y.shape)
  BY <1>1, PositiveKeeps
<1>3. BroadcastOK(x.shape, r.v.shape) /\ BroadcastOK(y.shape, r.v.shape)
  BY <1>1, <1>2, BroadcastAgain
<1>4. MaxOf(gr, x, y) = u /\ MinOf(gr, x, y) = w
  BY DEF MaxOf, MinOf
<1> HIDE DEF r
<1>5. BinaryOK(x, r.v) /\ BinaryOK(y, r.v)
  BY <1>1, <1>2, <1>3 DEF BinaryOK
<1>6. GraphInv(r.g) /\ r.v \in Usable(r.g) /\ x \in Usable(r.g) /\ y \in Usable(r.g)
  BY <1>2 DEF Handed, Grows
<1>7. Handed(r.g, u) /\ Handed(r.g, w)
  BY <1>5, <1>6, BinaryKeeps
<1> HIDE DEF u, w
<1>8. Handed(gr, u) /\ Handed(gr, w)
  BY <1>2, <1>7, HandedLater DEF Handed
<1> QED  BY <1>4, <1>8

LEMMA TransposeKeeps ==
  ASSUME NEW gr, GraphInv(gr), NEW x \in Usable(gr), NEW p \in Perms, TransposeOK(x, p)
  PROVE  Handed(gr, Transpose(gr, x, p))
<1> DEFINE s == [i \in DOMAIN p |-> x.shape[p[i] + 1]]
           h == AddConst(gr, "cv")
<1>1. <<x>> \in Seq(Tensor) /\ Range(<<x>>) \subseteq Usable(gr)
      /\ x.shape \in Seq(Int) /\ x.dtype \in {"Fp16", "Fp32", "Int32"}
  BY UsableIs, OneOperand
<1>2. p \in Seq(Int)
  BY MilAssumption
<1>3. Range(p) = 0..(Len(x.shape) - 1) /\ Len(p) = Len(x.shape)
  BY DEF TransposeOK
<1>4. s \in Seq(Int)
  <2>1. \A i \in DOMAIN p : p[i] \in 0..(Len(x.shape) - 1)
    BY <1>3 DEF Range
  <2>2. \A i \in DOMAIN p : x.shape[p[i] + 1] \in Int
    BY <1>1, <2>1
  <2>3. DOMAIN p = 1..Len(p) /\ Len(p) \in Nat
    BY <1>2
  <2> QED  BY <2>2, <2>3
<1>5. p \in Attrs /\ "cv" \in Words /\ "tp" \in Words /\ "transpose" \in Words
  BY DEF Attrs, Words
<1>6. Grows(gr, h)
  BY <1>5, GrowsSelf, ConstsKeep
<1> DEFINE uses == <<x>>
           t == x.dtype
<1>7. Transpose(gr, x, p) = Emit(h, "tp", "transpose", t, s, uses, p)
  BY DEF Transpose
<1>8. /\ uses \in Seq(Tensor) /\ Range(uses) \subseteq Usable(gr)
      /\ t \in {"Fp16", "Fp32", "Int32"}
  BY <1>1
<1> DEFINE op == "transpose"
           stated(n) == [binds |-> Val(n, t, s), op |-> op, uses |-> uses, attr |-> p]
<1>9. Product(s) = Product(x.shape)
  <2>1. IntRange \in Nat \ {0}
    BY MilAssumption
  <2> QED  BY <1>1, <1>2, <1>3, <2>1, ProductPermuted
<1> HIDE DEF s
<1>10. \A n \in Name : StmtTrue(stated(n))
  <2> SUFFICES ASSUME NEW n \in Name PROVE StmtTrue(stated(n))
    OBVIOUS
  <2> DEFINE st == stated(n)
  <2>1. st.op = "transpose" /\ st.uses[1] = x /\ st.binds.shape = s
    BY DEF Val
  <2> HIDE DEF st
  <2>2. Numel(st.binds) = Numel(st.uses[1])
    BY <1>9, <2>1 DEF Numel
  <2>3. StmtTrue(st)
    BY <2>1, <2>2 DEF StmtTrue, ShapeTrue, CountKept
  <2> QED  BY <2>3 DEF st
<1>11. op \in Words /\ op \notin {"slice", "scalar", "weight", "const"}
  BY <1>5
<1> HIDE DEF h, uses, t, op
<1> QED  BY <1>4, <1>5, <1>6, <1>7, <1>8, <1>10, <1>11, EmitLater DEF op

(* The extent of a concat of two.                                           *)
LEMMA ConcatShapeIs ==
  ASSUME NEW x \in Tensor, NEW y \in Tensor, NEW axis \in Int,
         AxisOK(x.shape, axis), Len(y.shape) = Len(x.shape)
  PROVE  LET ax == Resolved(x.shape, axis) + 1
         IN /\ ConcatShape(<<x, y>>, axis) \in Seq(Int)
            /\ ConcatShape(<<x, y>>, axis)
                 = [x.shape EXCEPT ![ax] = Clamp(x.shape[ax] + y.shape[ax])]
<1> DEFINE ax == Resolved(x.shape, axis) + 1
           base == x.shape[ax]
           F(f) == [i \in 0..1 |-> IF i = 0 THEN base ELSE Clamp(f[i - 1] + <<y>>[i].shape[ax])]
           h == [i \in 0..1 |-> IF i = 0 THEN base ELSE Clamp(base + y.shape[ax])]
           f == CHOOSE t : t = F(t)
<1>1. x.shape \in Seq(Int) /\ y.shape \in Seq(Int)
  BY DEF Tensor
<1>2. ax \in 1..Len(x.shape) /\ base \in Int /\ y.shape[ax] \in Int
  <2>1. Resolved(x.shape, axis) \in 0..(Len(x.shape) - 1)
    BY DEF AxisOK
  <2> QED  BY <1>1, <2>1, SMTT(30)
<1> HIDE DEF ax, base
<1>3. \A n \in Int : Clamp(n) \in Int
  BY MilAssumption DEF Clamp, I64_MAX, I64_MIN
<1>4. h = F(h)
  <2>1. 0..1 = {0, 1}
    OBVIOUS
  <2> QED  BY <2>1
<1>5. f = F(f)
  BY <1>4
<1> HIDE DEF f
<1>6. f[0] = base
  BY <1>5
<1>7. f[1] = Clamp(f[0] + y.shape[ax])
  BY <1>5
<1>8. f[1] \in Int
  <2> DEFINE e == f[0] + y.shape[ax]
  <2>1. e \in Int
    BY <1>2, <1>6
  <2> HIDE DEF e
  <2>2. Clamp(e) \in Int
    BY <1>3, <2>1
  <2> QED  BY <1>7, <2>2 DEF e
<1>9. Fold(LAMBDA a, v : Clamp(a + v.shape[ax]), base, <<y>>) = f[1]
  BY Zenon DEF Fold, f
<1> DEFINE vs == <<x, y>>
<1>10. Tail(vs) = <<y>> /\ vs[1] = x
  OBVIOUS
<1> HIDE DEF vs
<1>11. ConcatShape(vs, axis)
         = [x.shape EXCEPT ![ax] = Fold(LAMBDA a, v : Clamp(a + v.shape[ax]), @, Tail(vs))]
  BY <1>10 DEF ConcatShape, ax
<1>12. ConcatShape(vs, axis) = [x.shape EXCEPT ![ax] = f[1]]
  BY <1>9, <1>10, <1>11, Zenon DEF base
<1> DEFINE s == x.shape
           e == f[1]
<1>13. [s EXCEPT ![ax] = e] \in Seq(Int)
  <2>1. s \in Seq(Int) /\ ax \in 1..Len(s) /\ e \in Int
    BY <1>1, <1>2, <1>8
  <2> HIDE DEF s, e
  <2> QED  BY <2>1
<1>14. ConcatShape(vs, axis) = [x.shape EXCEPT ![ax] = Clamp(x.shape[ax] + y.shape[ax])]
  BY <1>6, <1>7, <1>12 DEF base
<1> QED  BY <1>12, <1>13, <1>14 DEF vs, ax

(* A concat of two has the elements of both.                                *)
LEMMA ConcatCount ==
  ASSUME NEW x \in Tensor, NEW y \in Tensor, NEW a, ConcatOK(<<x, y>>, a),
         NEW st, st.op = "concat", st.uses = <<x, y>>, st.attr = a,
         LET ax == Resolved(x.shape, a) + 1
         IN st.binds.shape = [x.shape EXCEPT ![ax] = Clamp(x.shape[ax] + y.shape[ax])]
  PROVE  StmtTrue(st)
<1> DEFINE ax == Resolved(x.shape, a) + 1
           c == x.shape[ax]
           d == y.shape[ax]
           vs == <<x, y>>
           extents == [k \in DOMAIN st.uses |-> st.uses[k].shape[ax]]
           counts == [k \in DOMAIN st.uses |-> Numel(st.uses[k])]
<1>1. x.shape \in Seq(Int) /\ y.shape \in Seq(Int)
  BY DEF Tensor
<1>2. vs[1] = x /\ vs[2] = y /\ DOMAIN vs = {1, 2}
  OBVIOUS
<1>3. AxisOK(x.shape, a) /\ Len(y.shape) = Len(x.shape)
      /\ \A i \in DOMAIN x.shape : i # ax => y.shape[i] = x.shape[i]
  BY <1>2 DEF ConcatOK
<1>4. ax \in 1..Len(x.shape)
  <2>1. Resolved(x.shape, a) \in 0..(Len(x.shape) - 1)
    BY <1>3 DEF AxisOK
  <2> QED  BY <1>1, <2>1
<1>5. c \in Int /\ d \in Int
  BY <1>1, <1>3, <1>4
<1>6. extents = <<c, d>> /\ extents[1] = c /\ extents[2] = d /\ DOMAIN extents = {1, 2}
  OBVIOUS
<1>7. counts = <<Product(x.shape), Product(y.shape)>>
  BY DEF Numel
<1>8. IntRange \in Nat \ {0}
  BY MilAssumption
<1> HIDE DEF ax, extents, counts, c, d, vs
<1>9. SumOf(extents) = c + d
  BY <1>5, <1>6, SumTwo
<1>10. ASSUME AllPositive(extents), SumOf(extents) <= I64_MAX
       PROVE  Numel(st.binds) = Wrap(SumOf(counts))
  <2>1. c > 0 /\ d > 0
    BY <1>6, <1>10 DEF AllPositive
  <2>2. Clamp(c + d) = c + d
    <3>1. I64_MAX \in Int /\ I64_MIN \in Int /\ I64_MIN <= 0
      BY <1>8 DEF I64_MAX, I64_MIN
    <3>2. c + d \in Int /\ c + d > 0 /\ c + d <= I64_MAX
      BY <1>5, <1>9, <1>10, <2>1
    <3> QED  BY <3>1, <3>2 DEF Clamp
  <2>3. st.binds.shape = [x.shape EXCEPT ![ax] = x.shape[ax] + y.shape[ax]]
    BY <2>2 DEF ax, c, d
  <2> DEFINE u == x.shape
             w == y.shape
  <2>4. Product([u EXCEPT ![ax] = u[ax] + w[ax]]) = Wrap(Product(u) + Product(w))
    <3>1. /\ u \in Seq(Int) /\ w \in Seq(Int) /\ Len(w) = Len(u) /\ ax \in 1..Len(u)
          /\ \A i \in 1..Len(u) : i # ax => w[i] = u[i]
      BY <1>1, <1>3, <1>4
    <3> HIDE DEF u, w
    <3> QED  BY <1>8, <3>1, ProductConcat
  <2>5. SumOf(counts) = Product(u) + Product(w)
    <3>1. u \in Seq(Int) /\ w \in Seq(Int)
      BY <1>1
    <3> HIDE DEF u, w
    <3>2. Product(u) \in Int /\ Product(w) \in Int
      BY <1>8, <3>1, ProductUpto
    <3> QED  BY <1>7, <3>2, SumTwo DEF u, w
  <2> QED  BY <2>3, <2>4, <2>5 DEF Numel
<1>11. CountKept(st)
  BY <1>2, <1>10 DEF CountKept, vs, extents, counts, ax
<1> QED  BY <1>11 DEF StmtTrue, ShapeTrue

LEMMA ConcatKeeps ==
  ASSUME NEW gr, GraphInv(gr), NEW x \in Usable(gr), NEW y \in Usable(gr),
         NEW a \in Axes, ConcatOK(<<x, y>>, a)
  PROVE  Handed(gr, Concat(gr, <<x, y>>, a))
<1> DEFINE vs == <<x, y>>
           s == ConcatShape(vs, a)
           h == AddConst(AddConst(gr, "ci"), "cb")
<1>1. vs \in Seq(Tensor) /\ Range(vs) \subseteq Usable(gr) /\ vs[1] = x
      /\ x \in Tensor /\ y \in Tensor /\ x.dtype \in {"Fp16", "Fp32", "Int32"}
  BY UsableIs, TwoOperands
<1>2. a \in Int
  BY MilAssumption
<1>3. AxisOK(x.shape, a) /\ Len(y.shape) = Len(x.shape)
  BY DEF ConcatOK
<1> DEFINE ax == Resolved(x.shape, a) + 1
<1>4. s \in Seq(Int) /\ s = [x.shape EXCEPT ![ax] = Clamp(x.shape[ax] + y.shape[ax])]
  BY <1>1, <1>2, <1>3, ConcatShapeIs
<1>5. a \in Attrs /\ {"ci", "cb", "cat", "concat"} \subseteq Words
  BY <1>2 DEF Attrs, Words
<1>6. Grows(gr, h)
  BY <1>5, GrowsSelf, ConstsKeep
<1> HIDE DEF h, vs, s
<1>7. Concat(gr, vs, a) = Emit(h, "cat", "concat", x.dtype, s, vs, a)
  BY <1>1 DEF Concat, h, s
<1> DEFINE op == "concat"
           t == x.dtype
           p == "cat"
           stated(n) == [binds |-> Val(n, t, s), op |-> op, uses |-> vs, attr |-> a]
<1>8. \A n \in Name : StmtTrue(stated(n))
  <2> SUFFICES ASSUME NEW n \in Name PROVE StmtTrue(stated(n))
    OBVIOUS
  <2> DEFINE st == stated(n)
  <2>1. st.op = "concat" /\ st.uses = vs /\ st.attr = a /\ st.binds.shape = s
    BY DEF Val
  <2> HIDE DEF st
  <2>2. st.uses = <<x, y>> /\ st.binds.shape
            = [x.shape EXCEPT ![ax] = Clamp(x.shape[ax] + y.shape[ax])]
    BY <1>4, <2>1 DEF vs
  <2>3. StmtTrue(st)
    BY <1>1, <2>1, <2>2, ConcatCount
  <2> QED  BY <2>3 DEF st
<1>9. op \in Words /\ op \notin {"slice", "scalar", "weight", "const"}
  BY <1>5
<1>10. Concat(gr, vs, a) = Emit(h, p, op, t, s, vs, a)
  BY <1>7
<1>11. t \in {"Fp16", "Fp32", "Int32"} /\ p \in Words /\ vs \in Seq(Tensor)
       /\ Range(vs) \subseteq Usable(gr) /\ s \in Seq(Int) /\ a \in Attrs
  BY <1>1, <1>4, <1>5
<1> HIDE DEF op, t, p
<1>12. Handed(gr, Concat(gr, vs, a))
  BY <1>6, <1>8, <1>9, <1>10, <1>11, EmitLater
<1> QED  BY <1>12 DEF vs

(* A slice is charged for what it takes.                                    *)
LEMMA SliceKeeps ==
  ASSUME NEW gr, GraphInv(gr), NEW x \in Usable(gr), NEW c \in Cuts,
         SliceOK(x, c.begin, c.end)
  PROVE  Handed(gr, Slice(gr, x, c.begin, c.end))
<1> DEFINE s == [d \in DOMAIN c.begin |-> c.end[d] - c.begin[d]]
           h == SliceConsts(gr)
           m == Fresh(h, "sl")
           v == Val(Minted(m, "sl"), x.dtype, s)
           uses == <<x>>
           z == 0
           st == [binds |-> v, op |-> "slice", uses |-> uses, attr |-> z]
           bytes == ByteSize(v)
           k == NoteReading(Push(m, v, "slice", uses, z), v, uses, bytes)
<1>1. {"cv", "cm", "sl", "slice"} \subseteq Words
  BY DEF Words
<1>2. Grows(gr, h)
  <2>1. Grows(gr, AddConst(gr, "cv"))
    BY <1>1, GrowsSelf, ConstsKeep
  <2>2. Grows(gr, AddConst(AddConst(gr, "cv"), "cv"))
    BY <1>1, <2>1, ConstsKeep
  <2>3. Grows(gr, AddConst(AddConst(AddConst(gr, "cv"), "cv"), "cv"))
    BY <1>1, <2>2, ConstsKeep
  <2> QED  BY <1>1, <2>3, ConstsKeep DEF SliceConsts
<1> HIDE DEF h
<1>3. Grows(h, m) /\ Reserved(m, Minted(m, "sl")) /\ Minted(m, "sl") \in Name
  BY <1>1, <1>2, FreshKeeps DEF Grows
<1>4. s \in Seq(Int)
  <2>1. c.begin \in Seq(Int) /\ c.end \in Seq(Int)
    BY MilAssumption
  <2>2. Len(c.begin) = Len(c.end)
    BY DEF SliceOK
  <2> QED  BY <2>1, <2>2, SMTT(30)
<1>5. Slice(gr, x, c.begin, c.end) = [g |-> k, v |-> v]
  BY DEF Slice, Out, h
<1> HIDE DEF m, s
<1>6. x.dtype \in {"Fp16", "Fp32", "Int32"} /\ uses \in Seq(Tensor)
      /\ Range(uses) \subseteq Usable(gr)
  BY UsableIs, OneOperand
<1>7. v \in Tensor /\ v.name = Minted(m, "sl") /\ v.dtype # "attribute"
  BY <1>3, <1>4, <1>6 DEF Tensor, Val
<1> HIDE DEF v, uses
<1>8. bytes \in Nat
  BY <1>7, ByteSizeNat
<1>9. IsOp(st) /\ BytesRead(st) = bytes /\ StmtTrue(st)
  BY DEF IsOp, SourceOps, BytesRead, StmtTrue, ShapeTrue, CountKept
<1>10. z \in Int
  OBVIOUS
<1>11. Range(uses) \subseteq Usable(m) /\ GraphInv(m)
  BY <1>2, <1>3, <1>6 DEF Grows
<1> HIDE DEF bytes, z, st
<1>12. "slice" \in Words /\ Reserved(m, v.name) /\ Saturate(bytes) = Saturate(BytesRead(st))
  BY <1>1, <1>3, <1>7, <1>9
<1>13. Grows(m, k) /\ v \in Usable(k)
  BY <1>6, <1>7, <1>8, <1>9, <1>10, <1>11, <1>12, NoteKeeps DEF st
<1> HIDE DEF k
<1>14. Grows(gr, k)
  BY <1>2, <1>3, <1>13, GrowsTwice
<1> QED  BY <1>5, <1>13, <1>14 DEF Handed

(* The dimensions of a matrix, and those before them.                       *)
LEMMA MatDims ==
  ASSUME NEW s \in Seq(Int), Len(s) >= 2
  PROVE  /\ Batch(s) \in Seq(Int) /\ Rows(s) \in Int /\ Cols(s) \in Int
         /\ Rows(s) \in Range(s) /\ Cols(s) \in Range(s)
<1>1. Len(s) - 1 \in DOMAIN s /\ Len(s) \in DOMAIN s
  OBVIOUS
<1>2. \A i \in DOMAIN s : s[i] \in Int /\ s[i] \in Range(s)
  BY DEF Range
<1>3. SubSeq(s, 1, Len(s) - 2) \in Seq(Int)
  BY SubSeqProperties
<1> QED  BY <1>1, <1>2, <1>3 DEF Batch, Rows, Cols

(* The two last dimensions of a matmul multiply.                            *)
LEMMA MatmulKeeps ==
  ASSUME NEW gr, GraphInv(gr), NEW x \in Usable(gr), NEW y \in Usable(gr),
         NEW tx \in BOOLEAN, NEW ty \in BOOLEAN, MatmulOK(x, y, tx, ty)
  PROVE  Handed(gr, Matmul(gr, x, y, tx, ty))
<1> DEFINE h == AddConst(AddConst(gr, "cb"), "cb")
           bx == Batch(x.shape)
           by == Batch(y.shape)
           b == Broadcast(bx, by)
           rows == Inner(x.shape, tx, FALSE)
           cols == Inner(y.shape, ty, TRUE)
           inner == Inner(x.shape, tx, TRUE)
           s == b \o <<rows, cols>>
           uses == <<x, y>>
           z == <<tx, ty>>
           t == "Fp16"
           stated(n) == [binds |-> Val(n, t, s), op |-> "matmul", uses |-> uses, attr |-> z]
<1>1. /\ Len(x.shape) >= 2 /\ Len(y.shape) >= 2 /\ BroadcastOK(bx, by)
      /\ inner = Inner(y.shape, ty, FALSE)
  BY DEF MatmulOK
<1>2. x.shape \in Seq(Int) /\ y.shape \in Seq(Int)
  BY UsableIs
<1>3. bx \in Seq(Int) /\ by \in Seq(Int)
  BY <1>1, <1>2, MatDims
<1>4. /\ Rows(x.shape) \in Int /\ Cols(x.shape) \in Int
      /\ Rows(y.shape) \in Int /\ Cols(y.shape) \in Int
      /\ Rows(x.shape) \in Range(x.shape) /\ Cols(x.shape) \in Range(x.shape)
  BY <1>1, <1>2, MatDims
<1>5. rows \in Int /\ cols \in Int /\ inner \in Range(x.shape) /\ inner \in Int
  BY <1>4 DEF Inner
<1>6. /\ Rows(x.shape) * Cols(x.shape) = rows * inner
      /\ Rows(y.shape) * Cols(y.shape) = inner * cols
  BY <1>1, <1>4 DEF Inner
<1> HIDE DEF bx, by
<1>7. b \in Seq(Int) /\ IsBroadcast(bx, by, b)
  BY <1>1, <1>3, BroadcastIs, BroadcastTrue
<1> HIDE DEF b, rows, cols, inner
<1>8. s \in Seq(Int) /\ Batch(s) = b /\ Rows(s) = rows /\ Cols(s) = cols
  <2>1. s \in Seq(Int) /\ Len(s) = Len(b) + 2 /\ Len(b) \in Nat
        /\ (\A i \in 1..Len(b) : s[i] = b[i])
        /\ s[Len(b) + 1] = rows /\ s[Len(b) + 2] = cols
    BY <1>5, <1>7
  <2> HIDE DEF s
  <2>2. SubSeq(s, 1, Len(b)) = b
    BY <1>7, <2>1
  <2> QED  BY <2>1, <2>2 DEF Batch, Rows, Cols
<1>9. uses \in Seq(Tensor) /\ Range(uses) \subseteq Usable(gr)
      /\ uses[1] = x /\ uses[2] = y
  BY TwoOperands
<1>10. z \in Attrs /\ {"cb", "mm", "matmul"} \subseteq Words
  BY DEF Attrs, Words
<1>11. Grows(gr, h)
  BY <1>10, GrowsSelf, ConstsKeep
<1>12. Matmul(gr, x, y, tx, ty) = Emit(h, "mm", "matmul", t, s, uses, z)
  BY DEF Matmul, b, bx, by, rows, cols
<1> HIDE DEF h, s, uses, z
<1>13. \A n \in Name : StmtTrue(stated(n))
  <2> SUFFICES ASSUME NEW n \in Name PROVE StmtTrue(stated(n))
    OBVIOUS
  <2> DEFINE st == stated(n)
  <2>1. /\ st.op = "matmul" /\ st.uses[1] = x /\ st.uses[2] = y
        /\ st.binds.shape = s
    BY <1>9 DEF Val
  <2> HIDE DEF st
  <2>2. IsBroadcast(Batch(st.uses[1].shape), Batch(st.uses[2].shape),
                    Batch(st.binds.shape))
    BY <1>7, <1>8, <2>1 DEF bx, by
  <2>3. \E k \in Range(st.uses[1].shape) :
          /\ Rows(st.uses[1].shape) * Cols(st.uses[1].shape) = Rows(st.binds.shape) * k
          /\ Rows(st.uses[2].shape) * Cols(st.uses[2].shape) = k * Cols(st.binds.shape)
    BY <1>5, <1>6, <1>8, <2>1
  <2>4. StmtTrue(st)
    BY <2>1, <2>2, <2>3 DEF StmtTrue, ShapeTrue, CountKept
  <2> QED  BY <2>4 DEF st
<1>14. t \in {"Fp16", "Fp32", "Int32"}
  OBVIOUS
<1> HIDE DEF t
<1>15. GraphInv(h) /\ Range(uses) \subseteq Usable(h)
  BY <1>9, <1>11 DEF Grows
<1>16. Handed(h, Emit(h, "mm", "matmul", t, s, uses, z))
  BY <1>8, <1>9, <1>10, <1>13, <1>14, <1>15, EmitKeeps
<1> QED  BY <1>11, <1>12, <1>16, HandedLater

(* Clamping, and the number of windows where it is exact.                   *)
LEMMA ClampIs ==
  ASSUME NEW n \in Int
  PROVE  Clamp(n) \in Int /\ (n \in I64_MIN..I64_MAX => Clamp(n) = n)
  BY MilAssumption DEF Clamp, I64_MAX, I64_MIN

LEMMA SpanIs ==
  ASSUME NEW d \in Int, NEW k \in Int
  PROVE  /\ Span(d, k) \in Int
         /\ {k - 1, d * (k - 1), d * (k - 1) + 1} \subseteq I64_MIN..I64_MAX
              => Span(d, k) = d * (k - 1) + 1
<1> DEFINE a == Clamp(k - 1)
           b == d * a
           c == Clamp(b) + 1
<1>1. a \in Int /\ (k - 1 \in I64_MIN..I64_MAX => a = k - 1)
  BY ClampIs
<1> HIDE DEF a
<1>2. b \in Int /\ (k - 1 \in I64_MIN..I64_MAX => b = d * (k - 1))
  BY <1>1
<1> HIDE DEF b
<1>3. Clamp(b) \in Int /\ (b \in I64_MIN..I64_MAX => Clamp(b) = b)
  BY <1>2, ClampIs
<1>4. c \in Int /\ (b \in I64_MIN..I64_MAX => c = b + 1)
  BY <1>2, <1>3
<1> HIDE DEF c
<1>5. Clamp(c) \in Int /\ (c \in I64_MIN..I64_MAX => Clamp(c) = c)
  BY <1>4, ClampIs
<1>6. Span(d, k) = Clamp(c)
  BY DEF Span, a, b, c
<1> DEFINE e == d * (k - 1)
<1>7. e \in Int
  OBVIOUS
<1> HIDE DEF e
<1>8. {k - 1, e, e + 1} \subseteq I64_MIN..I64_MAX => Clamp(c) = e + 1
  BY <1>2, <1>4, <1>5 DEF e
<1> QED  BY <1>5, <1>6, <1>8 DEF e

LEMMA DivTruncIs ==
  ASSUME NEW room \in Int, NEW stride \in Int, stride > 0
  PROVE  /\ DivTrunc(room, stride) \in Int
         /\ room >= 0 => LET q == DivTrunc(room, stride)
                         IN q \in 0..room /\ q * stride <= room
                            /\ room < q * stride + stride
<1>1. DivTrunc(room, stride) \in Int
  BY DEF DivTrunc
<1>2. ASSUME room >= 0
      PROVE  LET q == DivTrunc(room, stride)
             IN q \in 0..room /\ q * stride <= room /\ room < q * stride + stride
  <2> DEFINE q == room \div stride
  <2>1. q \in Int /\ q * stride <= room /\ room < q * stride + stride
    BY <1>2
  <2>2. q >= 0
    BY <1>2
  <2>3. q <= room
    BY <1>2
  <2>4. DivTrunc(room, stride) = q
    BY <1>2 DEF DivTrunc
  <2> QED  BY <2>1, <2>2, <2>3, <2>4
<1> QED  BY <1>1, <1>2

(* n windows of the dilated kernel, if the arithmetic is exact.             *)
Fitted(n, extent, lo, hi, d, k, stride) ==
  LET span == d * (k - 1) + 1
      padded == extent + lo + hi
  IN {k - 1, span - 1, span, padded - span + 1, padded, extent + lo}
       \subseteq I64_MIN..I64_MAX
     /\ span <= padded
     => WindowsFit(n, padded, span, stride)

LEMMA ConvExtentIs ==
  ASSUME NEW extent \in Int, NEW lo \in Int, NEW hi \in Int, NEW d \in Int,
         NEW k \in Int, NEW stride \in Int, stride > 0
  PROVE  LET n == ConvExtent(extent, lo, hi, d, k, stride)
         IN n \in Int /\ Fitted(n, extent, lo, hi, d, k, stride)
<1> DEFINE e == d * (k - 1)
           sp == Span(d, k)
           p1 == extent + lo
           p2 == Clamp(p1) + hi
           p3 == Clamp(p2) - sp
           room == Clamp(p3)
           q == DivTrunc(room, stride)
           n == ConvExtent(extent, lo, hi, d, k, stride)
           R == I64_MIN..I64_MAX
<1>1. e \in Int /\ sp \in Int /\ ({k - 1, e, e + 1} \subseteq R => sp = e + 1)
  BY SpanIs
<1>2. p1 \in Int /\ Clamp(p1) \in Int /\ (p1 \in R => Clamp(p1) = p1)
  BY ClampIs
<1> HIDE DEF e, sp
<1>3. n = Clamp(q + 1)
  BY DEF ConvExtent, sp
<1> HIDE DEF p1, n
<1>4. p2 \in Int
  BY <1>2
<1> HIDE DEF p2
<1>5. Clamp(p2) \in Int /\ (p2 \in R => Clamp(p2) = p2)
  BY <1>4, ClampIs
<1>6. p3 \in Int
  BY <1>1, <1>5
<1> HIDE DEF p3
<1>7. room \in Int /\ (p3 \in R => room = p3)
  BY <1>6, ClampIs
<1> HIDE DEF room
<1>8. /\ q \in Int
      /\ room >= 0 => q \in 0..room /\ q * stride <= room
                      /\ room < q * stride + stride
  BY <1>7, DivTruncIs
<1> HIDE DEF q
<1>9. n \in Int /\ (q + 1 \in R => n = q + 1)
  BY <1>3, <1>8, ClampIs
<1>10. ASSUME {k - 1, e, e + 1, p1 + hi - (e + 1) + 1, p1 + hi, p1} \subseteq R,
              e + 1 <= p1 + hi
       PROVE  WindowsFit(n, p1 + hi, e + 1, stride)
  <2>1. sp = e + 1 /\ Clamp(p1) = p1
    BY <1>1, <1>2, <1>10
  <2>2. p2 = p1 + hi /\ p2 \in R
    BY <1>10, <2>1 DEF p2
  <2>3. p3 = p1 + hi - (e + 1)
    <3>1. Clamp(p2) = p1 + hi
      BY <1>5, <2>2
    <3> QED  BY <1>1, <1>2, <2>1, <3>1 DEF p3
  <2>4. I64_MIN \in Int /\ I64_MAX \in Int /\ I64_MIN <= 0
    BY MilAssumption DEF I64_MIN, I64_MAX
  <2>5. p3 >= 0 /\ p3 + 1 <= I64_MAX
    BY <1>1, <1>2, <1>10, <2>3, <2>4
  <2>6. p3 \in R
    BY <1>6, <2>4, <2>5
  <2>7. room = p3 /\ q \in 0..room /\ q * stride <= room /\ room < q * stride + stride
    BY <1>7, <1>8, <2>5, <2>6
  <2>8. q + 1 \in R
    BY <1>6, <1>8, <2>4, <2>5, <2>7
  <2>9. n = q + 1
    BY <1>9, <2>8
  <2> DEFINE w == q * stride
  <2>10. w \in Int /\ (n - 1) * stride = w /\ n * stride = w + stride
    BY <1>8, <2>9
  <2> HIDE DEF w, R
  <2>11. w <= p3 /\ p3 < w + stride
    BY <2>7 DEF w
  <2>12. w + (e + 1) <= p1 + hi /\ p1 + hi < (w + stride) + (e + 1)
    BY <1>1, <1>2, <2>3, <2>10, <2>11
  <2> QED  BY <2>10, <2>12 DEF WindowsFit
<1> HIDE DEF R
<1>11. (e + 1) - 1 = e
  BY <1>1
<1> QED  BY <1>9, <1>10, <1>11 DEF Fitted, e, p1, n, R

LEMMA ConvKeeps ==
  ASSUME NEW gr, GraphInv(gr), NEW x \in Usable(gr), NEW w \in Usable(gr),
         NEW bias \in Seq(Usable(gr)), NEW o \in Convs, ConvOK(x, w, bias, o)
  PROVE  Handed(gr, Conv(gr, x, w, bias, o))
<1> DEFINE h == ConvConsts(gr)
           s == ConvShape(x, w, o)
           xs == x.shape
           ws == w.shape
           uses == <<x, w>> \o bias
           t == "Fp16"
           stated(n) == [binds |-> Val(n, t, s), op |-> "conv", uses |-> uses, attr |-> o]
<1>1. CheckConv(x, w, o)
  BY DEF ConvOK
<1>2. /\ Len(xs) = 4 /\ Len(ws) = 4
      /\ \A i \in 1..2 : o.strides[i] > 0
  BY <1>1 DEF CheckConv, IsNchw
<1>3. xs \in Seq(Int) /\ ws \in Seq(Int)
  BY UsableIs
<1>4. \A i \in 1..4 : xs[i] \in Int /\ ws[i] \in Int
  BY <1>2, <1>3
<1>5. /\ o.strides[1] \in Int /\ o.strides[2] \in Int
      /\ o.dilations[1] \in Int /\ o.dilations[2] \in Int
      /\ o.pad[1] \in Int /\ o.pad[2] \in Int /\ o.pad[3] \in Int /\ o.pad[4] \in Int
  BY MilAssumption
<1> HIDE DEF xs, ws
<1> DEFINE height == ConvExtent(xs[3], o.pad[1], o.pad[2], o.dilations[1], ws[3],
                                o.strides[1])
           width == ConvExtent(xs[4], o.pad[3], o.pad[4], o.dilations[2], ws[4],
                               o.strides[2])
<1>6. height \in Int /\ Fitted(height, xs[3], o.pad[1], o.pad[2], o.dilations[1], ws[3],
                              o.strides[1])
  <2>1. xs[3] \in Int /\ ws[3] \in Int /\ o.strides[1] > 0
    BY <1>2, <1>4
  <2> QED  BY <1>5, <2>1, ConvExtentIs
<1>7. width \in Int /\ Fitted(width, xs[4], o.pad[3], o.pad[4], o.dilations[2], ws[4],
                             o.strides[2])
  <2>1. xs[4] \in Int /\ ws[4] \in Int /\ o.strides[2] > 0
    BY <1>2, <1>4
  <2> QED  BY <1>5, <2>1, ConvExtentIs
<1>8. s = <<xs[1], ws[1], height, width>>
  BY DEF ConvShape, xs, ws
<1> HIDE DEF height, width, s
<1>9. s \in Seq(Int) /\ s[1] = xs[1] /\ s[2] = ws[1] /\ s[3] = height /\ s[4] = width
  BY <1>4, <1>6, <1>7, <1>8
<1>10. /\ uses \in Seq(Usable(gr)) /\ uses[1] = x /\ uses[2] = w
  <2> DEFINE xw == <<x, w>>
             U == Usable(gr)
  <2>1. xw \in Seq(U) /\ Len(xw) = 2 /\ xw[1] = x /\ xw[2] = w /\ bias \in Seq(U)
    OBVIOUS
  <2> HIDE DEF xw, U
  <2>2. xw \o bias \in Seq(U) /\ (xw \o bias)[1] = xw[1] /\ (xw \o bias)[2] = xw[2]
    BY <2>1, ConcatProperties, SMTT(30)
  <2> QED  BY <2>1, <2>2 DEF xw, U
<1> HIDE DEF uses
<1>11. uses \in Seq(Tensor) /\ Range(uses) \subseteq Usable(gr)
  <2>1. Usable(gr) \subseteq Tensor
    BY UsableIs
  <2> QED  BY <1>10, <2>1 DEF Range
<1>12. {"cv", "ci", "cs", "conv"} \subseteq Words
  BY DEF Words
<1>13. Grows(gr, h)
  <2>1. Grows(gr, AddConst(gr, "cv"))
    BY <1>12, GrowsSelf, ConstsKeep
  <2>2. Grows(gr, AddConst(AddConst(gr, "cv"), "ci"))
    BY <1>12, <2>1, ConstsKeep
  <2>3. Grows(gr, AddConst(AddConst(AddConst(gr, "cv"), "ci"), "cv"))
    BY <1>12, <2>2, ConstsKeep
  <2>4. Grows(gr, AddConst(AddConst(AddConst(AddConst(gr, "cv"), "ci"), "cv"), "cs"))
    BY <1>12, <2>3, ConstsKeep
  <2> QED  BY <1>12, <2>4, ConstsKeep DEF ConvConsts
<1>14. \A n \in Name : StmtTrue(stated(n))
  <2> SUFFICES ASSUME NEW n \in Name PROVE StmtTrue(stated(n))
    OBVIOUS
  <2> DEFINE st == stated(n)
  <2>1. /\ st.op = "conv" /\ st.uses[1] = x /\ st.uses[2] = w
        /\ st.binds.shape = s /\ st.attr = o
    BY <1>10 DEF Val
  <2> HIDE DEF st
  <2>2. ASSUME NEW axis \in 1..2, InRange(x, w, o, axis),
               KernelSpan(w, o, axis) <= Padded(x, o, axis)
        PROVE  WindowsFit(s[2 + axis], Padded(x, o, axis), KernelSpan(w, o, axis),
                          o.strides[axis])
    <3>1. CASE axis = 1
      <4>1. /\ KernelSpan(w, o, 1) = o.dilations[1] * (ws[3] - 1) + 1
            /\ Padded(x, o, 1) = xs[3] + o.pad[1] + o.pad[2]
        BY DEF KernelSpan, Padded, xs, ws
      <4>2. {ws[3] - 1, KernelSpan(w, o, 1) - 1, KernelSpan(w, o, 1),
             Padded(x, o, 1) - KernelSpan(w, o, 1) + 1, Padded(x, o, 1),
             xs[3] + o.pad[1]} \subseteq I64_MIN..I64_MAX
        BY <2>2, <3>1 DEF InRange, xs, ws
      <4> QED  BY <1>6, <1>9, <2>2, <3>1, <4>1, <4>2, SMTT(30) DEF Fitted
    <3>2. CASE axis = 2
      <4>1. /\ KernelSpan(w, o, 2) = o.dilations[2] * (ws[4] - 1) + 1
            /\ Padded(x, o, 2) = xs[4] + o.pad[3] + o.pad[4]
        BY DEF KernelSpan, Padded, xs, ws
      <4>2. {ws[4] - 1, KernelSpan(w, o, 2) - 1, KernelSpan(w, o, 2),
             Padded(x, o, 2) - KernelSpan(w, o, 2) + 1, Padded(x, o, 2),
             xs[4] + o.pad[3]} \subseteq I64_MIN..I64_MAX
        BY <2>2, <3>2 DEF InRange, xs, ws
      <4> QED  BY <1>7, <1>9, <2>2, <3>2, <4>1, <4>2 DEF Fitted
    <3> QED  BY <3>1, <3>2
  <2>3. StmtTrue(st)
    BY <1>9, <2>1, <2>2 DEF StmtTrue, ShapeTrue, CountKept, xs, ws
  <2> QED  BY <2>3 DEF st
<1>15. Conv(gr, x, w, bias, o) = Emit(h, "conv", "conv", t, s, uses, o)
  BY DEF Conv, s, uses
<1>16. t \in {"Fp16", "Fp32", "Int32"} /\ o \in Attrs
  BY DEF Attrs
<1> HIDE DEF h, t
<1>17. GraphInv(h) /\ Range(uses) \subseteq Usable(h)
  BY <1>11, <1>13 DEF Grows
<1>18. Handed(h, Emit(h, "conv", "conv", t, s, uses, o))
  BY <1>9, <1>11, <1>12, <1>14, <1>16, <1>17, EmitKeeps
<1> QED  BY <1>13, <1>15, <1>18, HandedLater

-----------------------------------------------------------------------------
(* The invariant of the client, its graph, its blob and its directory.      *)

(* The text refers only to records that the blob has.                       *)
RefsInv ==
  \A ref \in References(g) :
    \E i \in DOMAIN blob.recs :
      HEADER_LEN + blob.recs[i].at = ref.offset /\ blob.recs[i].size = ref.bytes

DiskTyped == DOMAIN disk = {"mil", "weights", "ok"} /\ "whole" \in DOMAIN disk.weights

MilInv ==
  /\ LayoutInv /\ GraphInv(g) /\ vals \subseteq Usable(g)
  /\ RefsInv /\ DiskTyped /\ SavedPairReads

LEMMA MilInitInv == MilInit => MilInv
<1> SUFFICES ASSUME MilInit PROVE MilInv
  OBVIOUS
<1>1. LayoutInv
  BY InitLayout DEF MilInit
<1>2. GraphInv(g) /\ References(g) = {}
  BY NewGraphInv DEF MilInit
<1>3. vals \subseteq Usable(g) /\ RefsInv
  BY <1>2 DEF MilInit, RefsInv
<1>4. DiskTyped /\ SavedPairReads
  BY DEF MilInit, DiskTyped, SavedPairReads
<1> QED  BY <1>1, <1>2, <1>3, <1>4 DEF MilInv

(* A method that hands a value back.                                        *)
LEMMA KeepKeeps ==
  ASSUME MilInv, NEW r, Handed(g, r), Keep(r), UNCHANGED blob
  PROVE  MilInv'
<1>1. g' = r.g /\ vals' = vals \cup {r.v} /\ disk' = disk /\ blob' = blob
  BY DEF Keep
<1>2. GraphInv(g') /\ Usable(g) \subseteq Usable(g') /\ r.v \in Usable(g')
      /\ References(g') = References(g)
  BY <1>1 DEF Handed, Grows
<1>3. LayoutInv'
  BY <1>1 DEF MilInv, LayoutInv
<1>4. vals' \subseteq Usable(g')
  BY <1>1, <1>2 DEF MilInv
<1>5. RefsInv'
  BY <1>1, <1>2 DEF MilInv, RefsInv
<1>6. DiskTyped' /\ SavedPairReads'
  BY <1>1 DEF MilInv, DiskTyped, SavedPairReads
<1> QED  BY <1>2, <1>3, <1>4, <1>5, <1>6 DEF MilInv

(* What a write adds to the file, and that it keeps the records.            *)
LEMMA RecordsKept ==
  ASSUME LayoutInv, NEW dtype \in BlobDtypes, NEW size \in Nat,
         blob' = WriteRaw(blob, dtype, size)
  PROVE  /\ LayoutInv'
         /\ DOMAIN blob.recs \subseteq DOMAIN blob'.recs
         /\ \A i \in DOMAIN blob.recs : blob'.recs[i] = blob.recs[i]
         /\ LET n == Len(blob'.recs)
            IN /\ n \in DOMAIN blob'.recs /\ blob'.recs[n].size = size
               /\ Last(blob'.offsets) = HEADER_LEN + blob'.recs[n].at
               /\ Last(blob'.offsets) \in Nat
<1> DEFINE start == NextMultiple(blob.len)
           rec == [at |-> start, dtype |-> dtype, size |-> size,
                   payload |-> HEADER_LEN + start + RECORD_LEN]
           off == HEADER_LEN + start
<1>1. LayoutInv'
  BY WriteLayout
<1>2. blob.recs \in Seq(Record) /\ blob.offsets \in Seq(Nat) /\ blob.len \in Nat
      /\ Len(blob.offsets) = Len(blob.recs)
  BY DEF LayoutInv, Blob
<1>3. start \in Nat
  BY <1>2, Padding
<1>4. /\ blob'.recs = Append(blob.recs, rec)
      /\ blob'.offsets = Append(blob.offsets, off)
  BY DEF WriteRaw
<1> HIDE DEF start
<1>5. rec \in Record /\ rec.at = start /\ rec.size = size /\ off \in Nat
  BY <1>3 DEF Record, HEADER_LEN, RECORD_LEN
<1> HIDE DEF rec, off
<1> DEFINE k == Len(blob.recs)
<1>6. /\ DOMAIN blob.recs = 1..k /\ DOMAIN blob'.recs = 1..(k + 1) /\ k \in Nat
      /\ Len(blob'.recs) = k + 1 /\ blob'.recs[k + 1] = rec
      /\ \A i \in 1..k : blob'.recs[i] = blob.recs[i]
  BY <1>2, <1>4, <1>5, RangeAppended
<1>7. Len(blob'.offsets) = k + 1 /\ blob'.offsets[k + 1] = off
  BY <1>2, <1>4, <1>5, RangeAppended
<1>8. Last(blob'.offsets) = off
  BY <1>7 DEF Last
<1> HIDE DEF k
<1>9. \A i \in DOMAIN blob.recs : i \in DOMAIN blob'.recs
  BY <1>6
<1>10. k + 1 \in DOMAIN blob'.recs
  BY <1>6
<1> QED  BY <1>1, <1>5, <1>6, <1>8, <1>9, <1>10 DEF off

LEMMA OwnWriteKeeps ==
  ASSUME MilInv, OwnWrite
  PROVE  MilInv'
<1>1. g' = g /\ vals' = vals /\ disk' = disk
  BY DEF OwnWrite
<1>2. PICK n \in Counts : Write(n)
  BY DEF OwnWrite
<1>3. n * 2 \in Nat /\ n * 4 \in Nat
  BY <1>2, WeightsAssumption
<1>4. PICK dtype \in BlobDtypes, size \in Nat : blob' = WriteRaw(blob, dtype, size)
  BY <1>2, <1>3 DEF Write, WriteFp16, WriteFp32, WriteInt32, Width, BlobDtypes
<1>5. /\ LayoutInv'
      /\ DOMAIN blob.recs \subseteq DOMAIN blob'.recs
      /\ \A i \in DOMAIN blob.recs : blob'.recs[i] = blob.recs[i]
  BY <1>4, RecordsKept DEF MilInv
<1>6. RefsInv'
  BY <1>1, <1>5 DEF MilInv, RefsInv
<1>7. DiskTyped' /\ SavedPairReads'
  BY <1>1 DEF MilInv, DiskTyped, SavedPairReads
<1> QED  BY <1>1, <1>5, <1>6, <1>7 DEF MilInv

LEMMA CallInputKeeps ==
  ASSUME MilInv, CallInput
  PROVE  MilInv'
<1>1. PICK n \in InputNames, t \in InputTypes, s \in InputShapes :
        /\ g.stmts = <<>> /\ InputOK(g, n, s)
        /\ Declare(Input(g, n, t, s)) /\ UNCHANGED blob
  BY DEF CallInput
<1>2. g.ops = <<>> /\ n \notin g.taken /\ Keep(Input(g, n, t, s))
  BY <1>1 DEF Declare, InputOK
<1>3. t \in {"Fp16", "Fp32", "Int32"} /\ s \in Seq(Int)
  BY MilAssumption
<1>4. Handed(g, Input(g, n, t, s))
  BY <1>1, <1>2, <1>3, InputKeeps DEF MilInv
<1> QED  BY <1>1, <1>2, <1>4, KeepKeeps

LEMMA CallScalarKeeps ==
  ASSUME MilInv, CallScalar
  PROVE  MilInv'
<1> DEFINE e == <<>>
           z == 0
           r == Constant(g, "k", "scalar", e, z)
<1>1. e \in Seq(Int) /\ z \in Nat /\ "k" \in Words
  BY DEF Words
<1>2. Keep(ScalarFp16(g)) /\ blob' = blob
  BY DEF CallScalar, Declare
<1>3. ScalarFp16(g) = r
  BY DEF ScalarFp16
<1> HIDE DEF e, z
<1>4. /\ GraphInv(r.g) /\ Usable(g) \subseteq Usable(r.g) /\ r.v \in Usable(r.g)
      /\ References(r.g) = References(g) \cup
           (IF "scalar" = "weight"
            THEN {[offset |-> z, bytes |-> 2 * Product(e)]} ELSE {})
  BY <1>1, ConstantKeeps DEF MilInv
<1> HIDE DEF r
<1>5. Handed(g, r)
  BY <1>4 DEF Handed, Grows
<1> QED  BY <1>2, <1>3, <1>5, KeepKeeps

LEMMA CallWeightKeeps ==
  ASSUME MilInv, CallWeight
  PROVE  MilInv'
<1>1. PICK s \in WeightShapes :
        /\ Product(s) >= 0
        /\ blob' = WriteFp16(blob, Product(s))
        /\ Declare(WeightFp16(g, s, Last(blob'.offsets)))
  BY DEF CallWeight
<1> DEFINE off == Last(blob'.offsets)
           r == Constant(g, "w", "weight", s, off)
           size == Product(s) * 2
           n == Len(blob'.recs)
<1>2. s \in Seq(Int)
  BY MilAssumption
<1>3. Product(s) \in Int
  BY <1>2, ProductInt
<1>4. size \in Nat /\ size = 2 * Product(s)
  BY <1>1, <1>3
<1>5. blob' = WriteRaw(blob, "Fp16", size) /\ "Fp16" \in BlobDtypes
  BY <1>1 DEF WriteFp16, Width, BlobDtypes
<1> HIDE DEF size
<1>6. /\ LayoutInv' /\ DOMAIN blob.recs \subseteq DOMAIN blob'.recs
      /\ \A i \in DOMAIN blob.recs : blob'.recs[i] = blob.recs[i]
      /\ n \in DOMAIN blob'.recs /\ blob'.recs[n].size = size
      /\ off = HEADER_LEN + blob'.recs[n].at /\ off \in Nat
  BY <1>4, <1>5, RecordsKept DEF MilInv
<1>7. g' = r.g /\ vals' = vals \cup {r.v} /\ disk' = disk
  BY <1>1 DEF Declare, Keep, WeightFp16
<1> DEFINE op == "weight"
<1>8. "w" \in Words /\ GraphInv(g) /\ op \in {"scalar", "weight"} /\ off \in Nat
  BY <1>6 DEF Words, MilInv
<1> HIDE DEF off, n, op
<1>9. LET q == Constant(g, "w", op, s, off)
      IN /\ GraphInv(q.g) /\ Usable(g) \subseteq Usable(q.g)
         /\ q.v \in Usable(q.g) /\ q.v.shape = s
         /\ References(q.g) = References(g) \cup
              (IF op = "weight"
               THEN {[offset |-> off, bytes |-> 2 * Product(s)]} ELSE {})
  BY <1>2, <1>8, ConstantKeeps
<1> HIDE DEF r
<1>10. RefsInv'
  <2> SUFFICES ASSUME NEW ref \in References(g')
               PROVE  \E i \in DOMAIN blob'.recs :
                        /\ HEADER_LEN + blob'.recs[i].at = ref.offset
                        /\ blob'.recs[i].size = ref.bytes
    BY DEF RefsInv
  <2>1. CASE ref \in References(g)
    <3>1. PICK i \in DOMAIN blob.recs :
            /\ HEADER_LEN + blob.recs[i].at = ref.offset
            /\ blob.recs[i].size = ref.bytes
      BY <2>1 DEF MilInv, RefsInv
    <3> QED  BY <1>6, <3>1
  <2>2. CASE ref = [offset |-> off, bytes |-> 2 * Product(s)]
    <3>1. ref.offset = off /\ ref.bytes = size
      BY <1>4, <2>2
    <3> QED  BY <1>6, <3>1
  <2> QED  BY <1>7, <1>9, <2>1, <2>2 DEF r, op
<1>11. vals' \subseteq Usable(g') /\ GraphInv(g')
  BY <1>7, <1>9 DEF MilInv, r, op
<1>12. DiskTyped' /\ SavedPairReads'
  BY <1>7 DEF MilInv, DiskTyped, SavedPairReads
<1> QED  BY <1>6, <1>10, <1>11, <1>12 DEF MilInv

(* raw_stmt only marks the graph.                                           *)
LEMMA CallRawStmtKeeps ==
  ASSUME MilInv, CallRawStmt
  PROVE  MilInv'
<1>1. /\ g' = [g EXCEPT !.raw = TRUE]
      /\ vals' = vals /\ disk' = disk /\ blob' = blob
  BY DEF CallRawStmt
<1>2. g \in Graph /\ IsFiniteSet(g.taken) /\ GraphInv(g)
  BY DEF MilInv, GraphInv, TypedInv
<1>3. /\ g' \in Graph /\ g'.params = g.params /\ g'.stmts = g.stmts
      /\ g'.ops = g.ops /\ g'.sizes = g.sizes /\ g'.taken = g.taken
  BY <1>1, <1>2 DEF Graph
<1>4. Grows(g, g')
  BY <1>2, <1>3, TakingKeeps
<1>5. LayoutInv'
  BY <1>1 DEF MilInv, LayoutInv
<1>6. GraphInv(g') /\ vals' \subseteq Usable(g') /\ RefsInv'
  BY <1>1, <1>4 DEF MilInv, Grows, RefsInv
<1>7. DiskTyped' /\ SavedPairReads'
  BY <1>1 DEF MilInv, DiskTyped, SavedPairReads
<1> QED  BY <1>5, <1>6, <1>7 DEF MilInv

(* The ops: each hands back what keeps the graph's invariant.               *)
LEMMA CallKeeps ==
  ASSUME MilInv, NEW r, Call(r), Handed(g, r)
  PROVE  MilInv'
  BY KeepKeeps DEF Call

LEMMA CallPlainKeeps ==
  ASSUME MilInv,
         CallRawOp \/ CallCast \/ CallUnary \/ CallSoftmax \/ CallLayerNorm
           \/ CallReshape \/ CallRename
  PROVE  MilInv'
<1>1. GraphInv(g) /\ vals \subseteq Usable(g)
  BY DEF MilInv
<1>2. CASE CallRawOp
  <2>1. PICK x \in vals, s \in RawShapes : Call(RawOp(g, s, <<x>>))
    BY <1>2 DEF CallRawOp
  <2>2. s \in Seq(Int)
    BY MilAssumption
  <2> QED  BY <1>1, <2>1, <2>2, RawOpKeeps, CallKeeps
<1>3. CASE CallCast
  <2>1. PICK x \in vals, t \in CastTypes : Call(Cast(g, x, t))
    BY <1>3 DEF CallCast
  <2>2. t \in {"Fp16", "Fp32", "Int32"}
    BY MilAssumption
  <2> QED  BY <1>1, <2>1, <2>2, CastKeeps, CallKeeps
<1>4. CASE CallUnary
  <2>1. PICK x \in vals, op \in UnaryOps : Call(Unary(g, op, x))
    BY <1>4 DEF CallUnary
  <2>2. op \in {"relu", "sigmoid", "tanh", "silu"}
    BY MilAssumption
  <2> QED  BY <1>1, <2>1, <2>2, UnaryKeeps, CallKeeps
<1>5. CASE CallSoftmax
  <2>1. PICK x \in vals : Call(Softmax(g, x))
    BY <1>5 DEF CallSoftmax
  <2> QED  BY <1>1, <2>1, SoftmaxKeeps, CallKeeps
<1>6. CASE CallLayerNorm
  <2>1. PICK x \in vals, gamma \in vals, beta \in vals :
          \E n \in {Norm(a, gamma, beta) : a \in Axes} \cup {Channels(gamma, beta)} :
            NormOK(x, n) /\ Call(LayerNorm(g, x, n))
    BY <1>6 DEF CallLayerNorm
  <2>2. PICK n \in {Norm(a, gamma, beta) : a \in Axes} \cup {Channels(gamma, beta)} :
          Call(LayerNorm(g, x, n))
    BY <2>1
  <2>3. n.gamma = gamma /\ n.beta = beta
    BY DEF Channels, Norm
  <2> QED  BY <1>1, <2>2, <2>3, LayerNormKeeps, CallKeeps
<1>7. CASE CallReshape
  <2>1. PICK x \in vals, s \in Reshapes : ReshapeOK(x, s) /\ Call(Reshape(g, x, s))
    BY <1>7 DEF CallReshape
  <2>2. s \in Seq(Int)
    BY MilAssumption
  <2> QED  BY <1>1, <2>1, <2>2, ReshapeKeeps, CallKeeps
<1>8. CASE CallRename
  <2>1. PICK x \in vals, n \in NewNames : n \notin g.taken /\ Call(RenameTo(g, n, x))
    BY <1>8 DEF CallRename
  <2> QED  BY <1>1, <2>1, RenameKeeps, CallKeeps
<1> QED  BY <1>2, <1>3, <1>4, <1>5, <1>6, <1>7, <1>8

LEMMA CallShapedKeeps ==
  ASSUME MilInv,
         CallBinary \/ CallMax \/ CallMin \/ CallConv \/ CallMatmul
           \/ CallTranspose \/ CallConcat \/ CallSlice
  PROVE  MilInv'
<1>1. GraphInv(g) /\ vals \subseteq Usable(g)
  BY DEF MilInv
<1>2. CASE CallBinary
  <2>1. PICK x \in vals, y \in vals, op \in BinaryOps :
          BinaryOK(x, y) /\ Call(Binary(g, op, x, y))
    BY <1>2 DEF CallBinary
  <2>2. op \in {"add", "sub", "mul", "real_div"}
    BY MilAssumption
  <2> QED  BY <1>1, <2>1, <2>2, BinaryKeeps, CallKeeps
<1>3. CASE CallMax
  <2>1. PICK x \in vals, y \in vals : ComposedOK(x, y) /\ Call(MaxOf(g, x, y))
    BY <1>3 DEF CallMax
  <2> QED  BY <1>1, <2>1, MaxMinKeep, CallKeeps
<1>4. CASE CallMin
  <2>1. PICK x \in vals, y \in vals : ComposedOK(x, y) /\ Call(MinOf(g, x, y))
    BY <1>4 DEF CallMin
  <2> QED  BY <1>1, <2>1, MaxMinKeep, CallKeeps
<1>5. CASE CallConv
  <2>1. PICK x \in vals, w \in vals, o \in Convs :
          \E bias \in {<<>>} \cup {<<b>> : b \in vals} :
            ConvOK(x, w, bias, o) /\ Call(Conv(g, x, w, bias, o))
    BY <1>5 DEF CallConv
  <2>2. PICK bias \in {<<>>} \cup {<<b>> : b \in vals} :
          ConvOK(x, w, bias, o) /\ Call(Conv(g, x, w, bias, o))
    BY <2>1
  <2>3. bias \in Seq(Usable(g))
    <3>1. CASE bias = <<>>
      BY <3>1
    <3>2. ASSUME NEW b \in vals, bias = <<b>> PROVE bias \in Seq(Usable(g))
      BY <1>1, <3>2
    <3> QED  BY <3>1, <3>2
  <2> QED  BY <1>1, <2>2, <2>3, ConvKeeps, CallKeeps
<1>6. CASE CallMatmul
  <2>1. PICK x \in vals, y \in vals, tx \in BOOLEAN, ty \in BOOLEAN :
          MatmulOK(x, y, tx, ty) /\ Call(Matmul(g, x, y, tx, ty))
    BY <1>6 DEF CallMatmul
  <2> QED  BY <1>1, <2>1, MatmulKeeps, CallKeeps
<1>7. CASE CallTranspose
  <2>1. PICK x \in vals, p \in Perms : TransposeOK(x, p) /\ Call(Transpose(g, x, p))
    BY <1>7 DEF CallTranspose
  <2> QED  BY <1>1, <2>1, TransposeKeeps, CallKeeps
<1>8. CASE CallConcat
  <2>1. PICK x \in vals, a \in Axes :
          \E vs \in {<<x, y>> : y \in vals} :
            ConcatOK(vs, a) /\ Call(Concat(g, vs, a))
    BY <1>8 DEF CallConcat
  <2>2. PICK y \in vals : ConcatOK(<<x, y>>, a) /\ Call(Concat(g, <<x, y>>, a))
    BY <2>1
  <2> QED  BY <1>1, <2>2, ConcatKeeps, CallKeeps
<1>9. CASE CallSlice
  <2>1. PICK x \in vals, c \in Cuts :
          SliceOK(x, c.begin, c.end) /\ Call(Slice(g, x, c.begin, c.end))
    BY <1>9 DEF CallSlice
  <2> QED  BY <1>1, <2>1, SliceKeeps, CallKeeps
<1> QED  BY <1>2, <1>3, <1>4, <1>5, <1>6, <1>7, <1>8, <1>9

(* save: what is on disk after it returned Ok are the two files of one      *)
(* program.                                                                 *)
LEMMA CallSaveKeeps ==
  ASSUME MilInv, CallSave
  PROVE  MilInv'
<1>1. blob' = blob /\ g' = g /\ vals' = vals
  BY DEF CallSave
<1>2. LayoutInv' /\ GraphInv(g') /\ vals' \subseteq Usable(g') /\ RefsInv'
  BY <1>1 DEF MilInv, LayoutInv, RefsInv
<1> DEFINE new == Finish(g, blob)
<1>3. \/ disk' = [disk EXCEPT !.ok = FALSE]
      \/ disk' = [disk EXCEPT !.mil.whole = FALSE, !.ok = FALSE]
      \/ \E whole \in BOOLEAN :
           LET file == IF whole THEN new.weights
                       ELSE [disk.weights EXCEPT !.whole = FALSE]
           IN disk' = [mil |-> new.mil, weights |-> file,
                       ok |-> SaveReturns(new.mil, file)]
  BY DEF CallSave
<1>4. DOMAIN disk = {"mil", "weights", "ok"} /\ "whole" \in DOMAIN disk.weights
  BY DEF MilInv, DiskTyped
<1>5. ASSUME disk' = [disk EXCEPT !.ok = FALSE]
      PROVE  DiskTyped' /\ SavedPairReads'
  <2>1. disk'.ok = FALSE /\ disk'.weights = disk.weights /\ DOMAIN disk' = DOMAIN disk
    BY <1>4, <1>5
  <2> QED  BY <1>4, <2>1 DEF SavedPairReads, DiskTyped
<1>6. ASSUME disk' = [disk EXCEPT !.mil.whole = FALSE, !.ok = FALSE]
      PROVE  DiskTyped' /\ SavedPairReads'
  <2>1. disk'.ok = FALSE /\ disk'.weights = disk.weights /\ DOMAIN disk' = DOMAIN disk
    BY <1>4, <1>6
  <2> QED  BY <1>4, <2>1 DEF SavedPairReads, DiskTyped
<1>7. ASSUME NEW whole \in BOOLEAN, NEW file,
             file = IF whole THEN new.weights ELSE [disk.weights EXCEPT !.whole = FALSE],
             disk' = [mil |-> new.mil, weights |-> file, ok |-> SaveReturns(new.mil, file)]
      PROVE  DiskTyped' /\ SavedPairReads'
  <2>1. DiskTyped'
    <3>1. "whole" \in DOMAIN new.weights
      BY DEF Finish
    <3>2. "whole" \in DOMAIN file
      BY <1>4, <1>7, <3>1
    <3> HIDE DEF new
    <3> QED  BY <1>7, <3>2 DEF DiskTyped
  <2>2. CASE file = new.weights
    <3>1. disk'.weights.file = FinishBlob(blob) /\ disk'.mil.refs = References(g)
      BY <1>7, <2>2 DEF Finish
    <3>2. ReadsBack(FinishBlob(blob))
      BY LayoutReadsBack DEF MilInv, FileReadsBack
    <3> DEFINE f == FinishBlob(blob)
    <3>3. ASSUME NEW ref \in References(g)
          PROVE  \E r \in Range(f.recs) : r.at = ref.offset /\ r.size = ref.bytes
      <4>1. PICK i \in DOMAIN blob.recs :
              /\ HEADER_LEN + blob.recs[i].at = ref.offset
              /\ blob.recs[i].size = ref.bytes
        BY DEF MilInv, RefsInv
      <4>2. blob.recs[i] \in Record
        BY DEF MilInv, LayoutInv, Blob
      <4>3. /\ i \in DOMAIN f.recs
            /\ f.recs[i] = [blob.recs[i] EXCEPT !.at = HEADER_LEN + blob.recs[i].at]
        BY DEF FinishBlob
      <4> HIDE DEF f
      <4>4. f.recs[i].at = HEADER_LEN + blob.recs[i].at /\ f.recs[i].size = blob.recs[i].size
        BY <4>2, <4>3 DEF Record
      <4> QED  BY <4>1, <4>3, <4>4 DEF Range
    <3> QED  BY <2>1, <3>1, <3>2, <3>3 DEF SavedPairReads
  <2>3. CASE ~whole /\ file = [disk.weights EXCEPT !.whole = FALSE]
    <3>1. file.whole = FALSE
      BY <1>4, <2>3
    <3>2. disk'.ok = FALSE
      BY <1>7, <3>1 DEF SaveReturns
    <3> QED  BY <2>1, <3>2 DEF SavedPairReads
  <2>4. (whole /\ file = new.weights) \/ (~whole /\ file = [disk.weights EXCEPT !.whole = FALSE])
    BY <1>7
  <2> HIDE DEF new
  <2> QED  BY <2>1, <2>2, <2>3, <2>4
<1> QED  BY <1>2, <1>3, <1>5, <1>6, <1>7 DEF MilInv

LEMMA MilNextInv == MilInv /\ [MilNext]_vars => MilInv'
<1> SUFFICES ASSUME MilInv, [MilNext]_vars PROVE MilInv'
  OBVIOUS
<1>1. CASE OwnWrite
  BY <1>1, OwnWriteKeeps
<1>2. CASE CallInput \/ CallScalar \/ CallWeight \/ CallRawStmt
  BY <1>2, CallInputKeeps, CallScalarKeeps, CallWeightKeeps, CallRawStmtKeeps
<1>3. CASE CallRawOp \/ CallCast \/ CallUnary \/ CallSoftmax \/ CallLayerNorm
             \/ CallReshape \/ CallRename
  BY <1>3, CallPlainKeeps
<1>4. CASE CallBinary \/ CallMax \/ CallMin \/ CallConv \/ CallMatmul
             \/ CallTranspose \/ CallConcat \/ CallSlice
  BY <1>4, CallShapedKeeps
<1>5. CASE CallSave
  BY <1>5, CallSaveKeeps
<1>6. CASE UNCHANGED vars
  BY <1>6 DEF vars, MilInv, LayoutInv, RefsInv, DiskTyped, SavedPairReads
<1> QED  BY <1>1, <1>2, <1>3, <1>4, <1>5, <1>6 DEF MilNext

(* Whatever methods a client calls, in any order and with any values it was *)
(* handed (program.rs:533-1484), the graph, its blob and the directory of   *)
(* its saves keep the invariant.                                            *)
THEOREM MilInvariant == MilSpec => []MilInv
  BY MilInitInv, MilNextInv, PTL DEF MilSpec

-----------------------------------------------------------------------------
(* What follows from the invariant.                                         *)

(* Whatever a client writes, by itself or through a graph's weight_fp16,    *)
(* the file reads back and every offset handed out is that of its record    *)
(* (weights.rs:118-176).                                                    *)
THEOREM MilFileReadsBack == MilSpec => []FileReadsBack
<1>1. MilInv => FileReadsBack
  BY LayoutReadsBack DEF MilInv
<1> QED  BY <1>1, MilInvariant, PTL

(* The files of a save that returned Ok belong together, whatever earlier   *)
(* saves left in the directory (program.rs:1465-1484).                      *)
THEOREM MilSavedPairReads == MilSpec => []SavedPairReads
<1>1. MilInv => SavedPairReads
  BY DEF MilInv
<1> QED  BY <1>1, MilInvariant, PTL

(* Every op declares the shape that its operands give it, as broadcast,     *)
(* mat_dims and conv_extent compute it (program.rs:397-437, 1495-1517), and *)
(* reshape, transpose and concat keep the elements of their operands as     *)
(* numel counts them (program.rs:91-95, 1181-1348).                         *)
THEOREM MilShapesTrue == MilSpec => []ShapesTrue
<1>1. MilInv => ShapesTrue
  BY DEF MilInv, GraphInv, ShapesInv, StmtTrue, ShapesTrue
<1> QED  BY <1>1, MilInvariant, PTL

(* traffic agrees with the text.                                            *)
LEMMA InvTraffic == MilInv => TrafficExact
<1> SUFFICES ASSUME MilInv PROVE TrafficExact
  OBVIOUS
<1> DEFINE D == {i \in DOMAIN g.stmts : IsOp(g.stmts[i])}
           price == [i \in DOMAIN g.ops |-> Priced(g, g.ops[i].result)]
           bytes == [i \in DOMAIN g.ops |-> g.ops[i].readBytes]
           writes == [i \in DOMAIN g.stmts |-> BytesWritten(g.stmts[i])]
           reads == [i \in DOMAIN g.stmts |-> BytesRead(g.stmts[i])]
           written == SumOf(writes)
           read == SumOf(reads)
           t == Traffic(g)
<1>1. g \in Graph /\ TrafficInv(g) /\ IntRange \in Nat \ {0}
  BY MilAssumption DEF MilInv, GraphInv, TypedInv
<1>2. /\ Len(g.ops) = Cardinality(D) /\ SumOf(price) = written
      /\ Saturate(SumOf(bytes)) = Saturate(read)
  BY <1>1 DEF TrafficInv
<1>3. t = Moved(Len(g.ops), SaturatingSum(price), SaturatingSum(bytes))
  BY DEF Traffic
<1>4. price \in Seq(Nat) /\ bytes \in Seq(Nat)
  <2>1. DOMAIN g.ops = 1..Len(g.ops) /\ Len(g.ops) \in Nat
        /\ \A i \in DOMAIN g.ops : g.ops[i] \in OpRecord
    BY <1>1 DEF Graph
  <2>2. \A n : Priced(g, n) \in Nat
    BY <1>1 DEF Priced, Graph, Sizes
  <2>3. \A i \in DOMAIN g.ops : g.ops[i].readBytes \in Nat
    BY <2>1 DEF OpRecord
  <2> QED  BY <2>1, <2>2, <2>3
<1>5. writes \in Seq(Nat) /\ reads \in Seq(Nat)
  <2>1. DOMAIN g.stmts = 1..Len(g.stmts) /\ Len(g.stmts) \in Nat
        /\ \A i \in DOMAIN g.stmts : g.stmts[i] \in Stmt
    BY <1>1 DEF Graph
  <2>2. \A i \in DOMAIN g.stmts : BytesWritten(g.stmts[i]) \in Nat /\ BytesRead(g.stmts[i]) \in Nat
    BY <2>1, BytesNat
  <2> QED  BY <2>1, <2>2
<1>6. TrafficExact <=>
        /\ t = Moved(Cardinality(D), Saturate(written), Saturate(read))
        /\ Total(t) = Saturate(written + read)
  BY DEF TrafficExact
<1> HIDE DEF D, price, bytes, writes, reads, t
<1>7. written \in Nat /\ read \in Nat
  BY <1>5, SumNat
<1>8. SaturatingSum(price) = Saturate(SumOf(price)) /\ SaturatingSum(bytes) = Saturate(SumOf(bytes))
  BY <1>1, <1>4, SaturatingSumIs
<1>9. t = Moved(Cardinality(D), Saturate(written), Saturate(read))
  BY <1>2, <1>3, <1>8
<1> HIDE DEF written, read
<1>10. Total(t) = Saturate(Saturate(written) + Saturate(read))
  BY <1>9 DEF Total, Moved
<1>11. Saturate(Saturate(written) + Saturate(read)) = Saturate(written + read)
  BY <1>1, <1>7 DEF Saturate, USIZE_MAX
<1> QED  BY <1>6, <1>9, <1>10, <1>11

(* traffic, which works on the table of sizes and the list of ops, costs    *)
(* what the text costs (program.rs:578-643).                                *)
THEOREM MilTrafficExact == MilSpec => []TrafficExact
  BY InvTraffic, MilInvariant, PTL

(* As many values as there are names apart in a sequence.                   *)
LEMMA DistinctCount ==
  ASSUME NEW n \in Nat, NEW s, DOMAIN s = 1..n,
         \A i, j \in 1..n : s[i].name = s[j].name => i = j
  PROVE  Cardinality({s[i].name : i \in 1..n}) = n
<1> DEFINE T == {s[i].name : i \in 1..n}
           f == [i \in 1..n |-> s[i].name]
<1>1. f \in Bijection(1..n, T)
  BY DEF Bijection, Injection, Surjection, IsInjective
<1>2. ExistsBijection(1..n, T)
  BY <1>1 DEF ExistsBijection
<1> QED  BY <1>2, FS_CountingElements

(* A sequence up to an index has what it has there.                         *)
LEMMA UpTo ==
  ASSUME NEW S, NEW b \in Seq(S), NEW m \in 0..Len(b), NEW k \in 1..m
  PROVE  b[k] \in Range(SubSeq(b, 1, m))
<1> DEFINE t == SubSeq(b, 1, m)
<1>1. \A i \in 1..m : b[i] \in S
  OBVIOUS
<1>2. /\ t \in Seq(S) /\ Len(t) = IF 1 <= m THEN m - 1 + 1 ELSE 0
      /\ \A i \in 1..(m - 1 + 1) : t[i] = b[1 + i - 1]
  BY <1>1, SubSeqProperties
<1> HIDE DEF t
<1>3. k \in DOMAIN t /\ t[k] = b[k]
  BY <1>2
<1> QED  BY <1>3 DEF Range, t

(* What is bound is bound under one name, and used after.                   *)
LEMMA InvSingle == MilInv => SingleAssignment
<1> SUFFICES ASSUME MilInv PROVE SingleAssignment
  OBVIOUS
<1> DEFINE b == Bound
           binds == [i \in DOMAIN g.stmts |-> g.stmts[i].binds]
           k == Len(g.params)
           n == Len(g.stmts)
<1>1. g.params \in Seq(Tensor) /\ g.stmts \in Seq(Stmt)
  BY DEF MilInv, GraphInv, TypedInv, Graph
<1>2. /\ k \in Nat /\ n \in Nat /\ DOMAIN g.params = 1..k /\ DOMAIN g.stmts = 1..n
      /\ \A i \in 1..n : g.stmts[i] \in Stmt
  BY <1>1
<1>3. binds \in Seq(Tensor) /\ Len(binds) = n
  <2>1. \A i \in 1..n : g.stmts[i].binds \in Tensor
    BY <1>2 DEF Stmt
  <2> QED  BY <1>2, <2>1
<1>4. \A i \in 1..n : binds[i] = g.stmts[i].binds
  BY <1>2
<1>5. b = g.params \o binds
  BY DEF Bound
<1> HIDE DEF binds, b
<1>6. /\ b \in Seq(Tensor) /\ Len(b) = k + n
      /\ \A i \in 1..(k + n) : b[i] = IF i <= k THEN g.params[i] ELSE binds[i - k]
  <2> DEFINE ps == g.params
  <2>1. ps \in Seq(Tensor)
    BY <1>1
  <2> HIDE DEF ps
  <2>2. /\ ps \o binds \in Seq(Tensor)
        /\ Len(ps \o binds) = Len(ps) + Len(binds)
        /\ \A i \in 1..Len(ps) + Len(binds) :
             (ps \o binds)[i] = IF i <= Len(ps) THEN ps[i] ELSE binds[i - Len(ps)]
    BY <1>3, <2>1, ConcatProperties
  <2> QED  BY <1>3, <1>5, <2>2 DEF ps
<1> HIDE DEF k, n
<1>7. /\ \A i \in 1..k : i \in 1..(k + n) /\ b[i] = g.params[i]
      /\ \A i \in 1..n : k + i \in 1..(k + n) /\ b[k + i] = g.stmts[i].binds
  BY <1>2, <1>4, <1>6, SMTT(30)
<1>8. \A i, j \in 1..(k + n) : b[i].name = b[j].name => i = j
  <2>1. /\ \A i, j \in 1..k : g.params[i].name = g.params[j].name => i = j
        /\ \A i, j \in 1..n : g.stmts[i].binds.name = g.stmts[j].binds.name => i = j
        /\ \A i \in 1..k, j \in 1..n : g.params[i].name # g.stmts[j].binds.name
    BY <1>2 DEF MilInv, GraphInv, NamedInv
  <2> SUFFICES ASSUME NEW i \in 1..(k + n), NEW j \in 1..(k + n), b[i].name = b[j].name
               PROVE  i = j
    OBVIOUS
  <2>2. CASE i \in 1..k /\ j \in 1..k
    BY <1>7, <2>1, <2>2
  <2>3. CASE i \in 1..k /\ j - k \in 1..n
    <3>1. k + (j - k) = j
      BY <1>2
    <3> QED  BY <1>7, <2>1, <2>3, <3>1
  <2>4. CASE i - k \in 1..n /\ j \in 1..k
    <3>1. k + (i - k) = i
      BY <1>2
    <3> QED  BY <1>7, <2>1, <2>4, <3>1
  <2>5. CASE i - k \in 1..n /\ j - k \in 1..n
    <3>1. k + (i - k) = i /\ k + (j - k) = j
      BY <1>2
    <3>2. i - k = j - k
      BY <1>7, <2>1, <2>5, <3>1
    <3> QED  BY <1>2, <3>2
  <2>6. \A q \in 1..(k + n) : q \in 1..k \/ q - k \in 1..n
    BY <1>2
  <2> QED  BY <2>2, <2>3, <2>4, <2>5, <2>6
<1>9. Cardinality(BoundNames) = Len(b)
  <2>1. BoundNames = {b[i].name : i \in 1..(k + n)}
    <3>1. DOMAIN b = 1..(k + n)
      BY <1>2, <1>6
    <3>2. Range(b) = {b[i] : i \in 1..(k + n)}
      BY <3>1 DEF Range
    <3> QED  BY <3>2 DEF BoundNames, b
  <2>2. DOMAIN b = 1..(k + n) /\ k + n \in Nat
    BY <1>2, <1>6
  <2> DEFINE m == k + n
  <2>3. m \in Nat /\ DOMAIN b = 1..m
        /\ \A i, j \in 1..m : b[i].name = b[j].name => i = j
    BY <1>8, <2>2
  <2> HIDE DEF m
  <2>4. Cardinality({b[i].name : i \in 1..m}) = m
    BY <2>3, DistinctCount
  <2> QED  BY <1>6, <2>1, <2>4 DEF m
<1>10. ASSUME NEW i \in 1..n, NEW x \in Range(g.stmts[i].uses)
       PROVE  x \in Range(SubSeq(b, 1, k + i - 1))
  <2>1. x \in Range(g.params) \/ \E j \in 1..(i - 1) : x = g.stmts[j].binds
    BY <1>2 DEF MilInv, GraphInv, UsesInv
  <2>2. k + i - 1 \in 0..Len(b)
    BY <1>2, <1>6
  <2>3. \E q \in 1..(k + i - 1) : x = b[q]
    <3>1. CASE x \in Range(g.params)
      <4>1. PICK q \in 1..k : x = g.params[q]
        BY <1>2, <3>1 DEF Range
      <4> QED  BY <1>2, <1>7, <4>1
    <3>2. CASE \E j \in 1..(i - 1) : x = g.stmts[j].binds
      <4>1. PICK j \in 1..(i - 1) : x = g.stmts[j].binds
        BY <3>2
      <4>2. j \in 1..n /\ k + j \in 1..(k + i - 1)
        BY <1>2
      <4> QED  BY <1>7, <4>1, <4>2
    <3> QED  BY <2>1, <3>1, <3>2
  <2> QED  BY <1>6, <2>2, <2>3, UpTo
<1> QED  BY <1>2, <1>9, <1>10 DEF SingleAssignment, b, k

(* The program is in SSA form, however the names were chosen: fresh skips   *)
(* what is taken, and input and rename refuse it (program.rs:561-576,       *)
(* 650-664, 1003-1036).                                                     *)
THEOREM MilSingleAssignment == MilSpec => []SingleAssignment
  BY InvSingle, MilInvariant, PTL

-----------------------------------------------------------------------------
(* The backward pass of assert_no_dead_ops.                                 *)

(* What is live after each op it visits.                                    *)
Passes(s, base, f) ==
  f[0] = base /\ \A k \in 1..Len(s) : f[k] = Visit(f[k - 1], s[k])

VisitStep(s) == [i \in 1..Len(s) |-> [live \in SUBSET Name |-> Visit(live, s[i])]]

LEMMA FoldPasses ==
  ASSUME NEW s \in Seq(OpRecord), NEW base \in SUBSET Name
  PROVE  \E f : Passes(s, base, f) /\ Fold(Visit, base, s) = f[Len(s)]
<1> DEFINE n == Len(s)
           F(f) == [k \in 0..n |-> IF k = 0 THEN base ELSE Visit(f[k - 1], s[k])]
           f == CHOOSE h : h = F(h)
           N == SUBSET Name
           step == VisitStep(s)
<1>1. n \in Nat /\ \A k \in 1..n : s[k] \in OpRecord
  OBVIOUS
<1>2. ASSUME NEW k \in 1..n, NEW live \in N
      PROVE  Visit(live, s[k]) \in N
  <2>1. s[k].reads \in Seq(Name)
    BY <1>1 DEF OpRecord
  <2>2. Range(s[k].reads) \subseteq Name
    BY <2>1 DEF Range
  <2> QED  BY <2>2 DEF Visit
<1>3. step \in [1..n -> [N -> N]]
  BY <1>2 DEF VisitStep
<1>4. PICK h \in [0..n -> N] : Upto(h, n, base, step)
  <2>1. n \in Nat /\ base \in N /\ step \in [1..n -> [N -> N]]
    BY <1>1, <1>3
  <2> HIDE DEF n, f, F, N, step
  <2> QED  BY <2>1, RecursiveFunction
<1>5. h[0] = base /\ \A k \in 1..n : h[k] = Visit(h[k - 1], s[k])
  <2>1. \A k \in 1..n : k - 1 \in 0..n
    BY <1>1
  <2>2. \A k \in 1..n : step[k][h[k - 1]] = Visit(h[k - 1], s[k])
    BY <2>1 DEF VisitStep
  <2> HIDE DEF step, F, f
  <2> QED  BY <1>4, <2>2 DEF Upto
<1> HIDE DEF step, N
<1>6. h = F(h)
  BY <1>1, <1>4, <1>5
<1>7. f = F(f)
  <2> HIDE DEF F
  <2> QED  BY <1>6
<1>8. Fold(Visit, base, s) = f[n]
  BY Zenon DEF Fold
<1> HIDE DEF f
<1>9. f[0] = base /\ \A k \in 1..n : f[k] = Visit(f[k - 1], s[k])
  <2>1. \A k \in 0..n : f[k] = F(f)[k]
    BY <1>7
  <2> QED  BY <2>1, <1>1
<1> QED  BY <1>8, <1>9 DEF Passes

(* What is live stays live.                                                 *)
LEMMA LiveGrows ==
  ASSUME NEW s \in Seq(OpRecord), NEW base, NEW f, Passes(s, base, f)
  PROVE  \A i \in 0..Len(s) : \A j \in i..Len(s) : f[i] \subseteq f[j]
<1> DEFINE n == Len(s)
           S == {j \in 0..n : \A i \in 0..j : f[i] \subseteq f[j]}
<1>1. n \in Nat
  OBVIOUS
<1>2. 0 \in S
  BY <1>1
<1>3. ASSUME NEW j \in 1..n, j - 1 \in S PROVE j \in S
  <2>1. f[j] = Visit(f[j - 1], s[j])
    BY DEF Passes
  <2>2. f[j - 1] \subseteq f[j]
    BY <2>1 DEF Visit
  <2>3. \A i \in 0..j : i = j \/ i \in 0..(j - 1)
    BY <1>1
  <2> QED  BY <1>3, <2>2, <2>3
<1> HIDE DEF S, n
<1>4. 0..n \subseteq S
  BY <1>1, <1>2, <1>3, IntervalInduction
<1>5. \A i \in 0..n : \A j \in i..n : j \in 0..n /\ i \in 0..j
  BY <1>1
<1> QED  BY <1>4, <1>5 DEF S, n

(* The ops, last first.                                                     *)
LEMMA ReverseIs ==
  ASSUME NEW S, NEW s \in Seq(S)
  PROVE  /\ Reverse(s) \in Seq(S) /\ Len(Reverse(s)) = Len(s)
         /\ \A k \in 1..Len(s) : /\ Len(s) + 1 - k \in 1..Len(s)
                                 /\ Reverse(s)[k] = s[Len(s) + 1 - k]
<1>1. \A k \in 1..Len(s) : Len(s) + 1 - k \in 1..Len(s) /\ (Len(s) - k) + 1 = Len(s) + 1 - k
  OBVIOUS
<1>2. Reverse(s) = [i \in 1..Len(s) |-> s[(Len(s) - i) + 1]]
  BY DEF Reverse
<1>3. \A k \in 1..Len(s) : s[(Len(s) - k) + 1] \in S
  BY <1>1
<1> DEFINE t == [i \in 1..Len(s) |-> s[(Len(s) - i) + 1]]
<1>4. t \in Seq(S) /\ Len(t) = Len(s) /\ \A k \in 1..Len(s) : t[k] = s[(Len(s) - k) + 1]
  BY <1>3
<1> HIDE DEF t
<1> QED  BY <1>1, <1>2, <1>4 DEF t

(* The reads of an op whose result is live are live.                        *)
LEMMA LiveReads ==
  ASSUME NEW gr, TypedInv(gr), ReadsInv(gr), NEW base, NEW f,
         Passes(Reverse(gr.ops), base, f),
         NEW i \in DOMAIN gr.ops, gr.ops[i].result \in f[Len(gr.ops)]
  PROVE  Range(gr.ops[i].reads) \subseteq f[Len(gr.ops)]
<1> DEFINE n == Len(gr.ops)
           r == Reverse(gr.ops)
           k == n + 1 - i
           res == gr.ops[i].result
           S == {m \in 0..n : k - 1 <= m => (res \in f[m] => res \in f[k - 1])}
<1>1. gr.ops \in Seq(OpRecord)
  BY DEF TypedInv, Graph
<1>2. n \in Nat /\ DOMAIN gr.ops = 1..n
  BY <1>1
<1>3. /\ r \in Seq(OpRecord) /\ Len(r) = n
      /\ \A m \in 1..n : n + 1 - m \in 1..n /\ r[m] = gr.ops[n + 1 - m]
  BY <1>1, ReverseIs
<1>4. \A m \in 1..n : f[m] = Visit(f[m - 1], r[m])
  BY <1>3 DEF Passes
<1> HIDE DEF r, n, res
<1>5. k \in 1..n /\ k - 1 \in 0..n /\ n + 1 - k = i /\ k - 1 <= n
  BY <1>2
<1> HIDE DEF k
<1>6. \A m \in k..n : res \notin Range(r[m].reads)
  <2> SUFFICES ASSUME NEW m \in k..n PROVE res \notin Range(r[m].reads)
    OBVIOUS
  <2>1. m \in 1..n /\ n + 1 - m \in 1..i
    BY <1>2, <1>5
  <2>2. r[m] = gr.ops[n + 1 - m]
    BY <1>3, <2>1
  <2>3. \A j \in 1..i : gr.ops[i].result \notin Range(gr.ops[j].reads)
    BY DEF ReadsInv
  <2> QED  BY <2>1, <2>2, <2>3 DEF res
<1>7. 0 \in S
  BY <1>2, <1>5
<1>8. ASSUME NEW m \in 1..n, m - 1 \in S PROVE m \in S
  <2> SUFFICES ASSUME k - 1 <= m, res \in f[m] PROVE res \in f[k - 1]
    BY <1>2
  <2>1. CASE m = k - 1
    BY <2>1
  <2>2. CASE m # k - 1
    <3>1. m \in k..n /\ k - 1 <= m - 1
      BY <1>2, <1>5, <2>2
    <3>2. res \in f[m - 1]
      BY <1>4, <1>6, <3>1 DEF Visit
    <3> QED  BY <1>8, <3>1, <3>2
  <2> QED  BY <2>1, <2>2
<1> HIDE DEF S
<1>9. 0..n \subseteq S
  BY <1>2, <1>7, <1>8, IntervalInduction
<1>10. res \in f[k - 1]
  BY <1>2, <1>5, <1>9 DEF S, res, n
<1>11. r[k] = gr.ops[i]
  BY <1>3, <1>5
<1>12. Range(gr.ops[i].reads) \subseteq f[k]
  BY <1>4, <1>5, <1>10, <1>11 DEF Visit, res
<1>13. f[k] \subseteq f[n]
  <2>1. k \in 0..n /\ n \in k..n
    BY <1>2, <1>5
  <2>2. \A a \in 0..n : \A b \in a..n : f[a] \subseteq f[b]
    BY <1>3, LiveGrows DEF r
  <2> QED  BY <2>1, <2>2
<1> QED  BY <1>12, <1>13 DEF n

(* What the outputs and the reads of other ops leave out is never live.     *)
LEMMA DeadNeverLive ==
  ASSUME NEW gr, TypedInv(gr), NEW base, NEW f, Passes(Reverse(gr.ops), base, f),
         NEW dead, NEW res, res = {gr.ops[i].result : i \in dead},
         res \cap base = {},
         \A i \in DOMAIN gr.ops \ dead : res \cap Range(gr.ops[i].reads) = {}
  PROVE  res \cap f[Len(gr.ops)] = {}
<1> DEFINE n == Len(gr.ops)
           r == Reverse(gr.ops)
           S == {k \in 0..n : res \cap f[k] = {}}
<1>1. gr.ops \in Seq(OpRecord)
  BY DEF TypedInv, Graph
<1>2. n \in Nat /\ DOMAIN gr.ops = 1..n
  BY <1>1
<1>3. /\ r \in Seq(OpRecord) /\ Len(r) = n
      /\ \A k \in 1..n : n + 1 - k \in 1..n /\ r[k] = gr.ops[n + 1 - k]
  BY <1>1, ReverseIs
<1>4. f[0] = base /\ \A k \in 1..n : f[k] = Visit(f[k - 1], r[k])
  BY <1>3 DEF Passes
<1> HIDE DEF n, r
<1>5. 0 \in S
  BY <1>2, <1>4
<1>6. ASSUME NEW k \in 1..n, k - 1 \in S PROVE k \in S
  <2>1. n + 1 - k \in DOMAIN gr.ops /\ r[k] = gr.ops[n + 1 - k]
    BY <1>2, <1>3
  <2>2. res \cap f[k - 1] = {} /\ f[k] = Visit(f[k - 1], r[k])
    BY <1>4, <1>6
  <2>3. CASE r[k].result \in f[k - 1]
    <3>1. n + 1 - k \notin dead
      BY <2>1, <2>2, <2>3
    <3>2. res \cap Range(r[k].reads) = {}
      BY <2>1, <3>1
    <3> QED  BY <2>2, <3>2 DEF Visit
  <2>4. CASE r[k].result \notin f[k - 1]
    BY <2>2, <2>4 DEF Visit
  <2> QED  BY <2>3, <2>4
<1> HIDE DEF S
<1>7. 0..n \subseteq S
  BY <1>2, <1>5, <1>6, IntervalInduction
<1> QED  BY <1>2, <1>7 DEF S, n

(* One backward pass finds every op that the outputs need and no other.     *)
LEMMA InvDeadOps == MilInv => DeadOpsExact
<1> SUFFICES ASSUME MilInv, ~g.raw, NEW a \in vals, NEW b \in vals
             PROVE  NoDeadOps(g, <<a, b>>)
                      <=> \A dead \in SUBSET DOMAIN g.ops : ~DeadSet(dead, {a, b})
  BY DEF DeadOpsExact
<1> DEFINE base == {v.name : v \in {a, b}}
           n == Len(g.ops)
<1>1. GraphInv(g) /\ TypedInv(g) /\ ReadsInv(g) /\ a \in Usable(g) /\ b \in Usable(g)
  BY DEF MilInv, GraphInv
<1>2. base \in SUBSET Name
  BY <1>1, UsableIs
<1>3. g.ops \in Seq(OpRecord) /\ Reverse(g.ops) \in Seq(OpRecord)
      /\ Len(Reverse(g.ops)) = n
  <2>1. g.ops \in Seq(OpRecord)
    BY <1>1 DEF TypedInv, Graph
  <2> QED  BY <2>1, ReverseIs
<1>4. PICK f : Passes(Reverse(g.ops), base, f)
               /\ Fold(Visit, base, Reverse(g.ops)) = f[Len(Reverse(g.ops))]
  <2> HIDE DEF base
  <2> QED  BY <1>2, <1>3, FoldPasses
<1> DEFINE live == f[n]
<1>5. Live(g, <<a, b>>) = live
  <2>1. Range(Names(<<a, b>>)) = base
    BY DEF Range, Names
  <2> HIDE DEF base
  <2>2. Live(g, <<a, b>>) = Fold(Visit, base, Reverse(g.ops))
    BY <2>1, Zenon DEF Live
  <2> QED  BY <1>3, <1>4, <2>2
<1>6. base \subseteq live
  <2>1. \A i \in 0..n : \A j \in i..n : f[i] \subseteq f[j]
    BY <1>3, <1>4, LiveGrows
  <2>2. f[0] = base
    BY <1>4 DEF Passes
  <2>3. n \in Nat /\ 0 \in 0..n /\ n \in 0..n
    BY <1>3
  <2> HIDE DEF n, base
  <2> QED  BY <2>1, <2>2, <2>3
<1> HIDE DEF live
<1>7. NoDeadOps(g, <<a, b>>) <=> \A i \in DOMAIN g.ops : g.ops[i].result \in live
  BY <1>5 DEF NoDeadOps
<1>8. ASSUME \A i \in DOMAIN g.ops : g.ops[i].result \in live,
             NEW dead \in SUBSET DOMAIN g.ops, DeadSet(dead, {a, b})
      PROVE  FALSE
  <2> DEFINE res == {g.ops[i].result : i \in dead}
  <2>1. /\ dead # {} /\ res \cap base = {}
        /\ \A i \in DOMAIN g.ops \ dead : res \cap Range(g.ops[i].reads) = {}
    BY <1>8 DEF DeadSet
  <2> HIDE DEF res, base
  <2>2. res \cap f[Len(g.ops)] = {}
    BY <1>1, <1>4, <2>1, DeadNeverLive DEF res
  <2> QED  BY <1>8, <2>1, <2>2 DEF res, live
<1>9. ASSUME NEW k \in DOMAIN g.ops, g.ops[k].result \notin live
      PROVE  \E dead \in SUBSET DOMAIN g.ops : DeadSet(dead, {a, b})
  <2> DEFINE dead == {i \in DOMAIN g.ops : g.ops[i].result \notin live}
             res == {g.ops[i].result : i \in dead}
  <2>1. dead # {} /\ dead \in SUBSET DOMAIN g.ops /\ res \cap live = {}
    BY <1>9
  <2>2. ASSUME NEW i \in DOMAIN g.ops \ dead PROVE res \cap Range(g.ops[i].reads) = {}
    <3>1. g.ops[i].result \in live
      OBVIOUS
    <3>2. Range(g.ops[i].reads) \subseteq live
      BY <1>1, <1>4, <3>1, LiveReads DEF live
    <3> QED  BY <2>1, <3>2
  <2>3. res \cap base = {}
    BY <1>6, <2>1
  <2>4. DeadSet(dead, {a, b})
    BY <2>1, <2>2, <2>3 DEF DeadSet
  <2> QED  BY <2>1, <2>4
<1> QED  BY <1>7, <1>8, <1>9

(* finish refuses for a dead op exactly the outputs that leave one: the one *)
(* backward pass of assert_no_dead_ops is enough (program.rs:712-735).      *)
THEOREM MilDeadOpsExact == MilSpec => []DeadOpsExact
  BY InvDeadOps, MilInvariant, PTL
=============================================================================

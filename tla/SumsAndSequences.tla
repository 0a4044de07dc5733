--------------------------- MODULE SumsAndSequences ---------------------------
(***************************************************************************)
(* Facts that several proofs need and the library does not state.  About   *)
(* SumFunctionOnSet, the sum of a function's values over a finite set: the *)
(* operator picks its elements in an order nobody knows; a table of sums   *)
(* over all subsets, which depends on no order, is shown to exist and to   *)
(* be what the operator computes.  About sequences: sums over a sequence,  *)
(* what FlattenSeq makes of a sequence of sequences that grows at its end  *)
(* or loses its front or is two joined, and suffixes, place by place.      *)
(* About recursive functions on 0..N: that one with given steps exists,    *)
(* and that it is the only one (RunExists, RunUnique).  Where the library  *)
(* defines an operator by recursion, the least place at which a claim      *)
(* fails takes the place of induction; EverySequence is induction on the   *)
(* length of a sequence, with a set in place of the predicate.  About      *)
(* lists of items: a function put through a sequence (Spelled), lists      *)
(* joined twice, and what stands before a place.  The last lemma is about  *)
(* the fold over a set of numbers that takes the largest first.            *)
(***************************************************************************)
EXTENDS Naturals, FiniteSets, FiniteSetsExt, FiniteSetTheorems,
        WellFoundedInduction, SequencesExt, SequenceTheorems, TLAPS

(* A table of the sums of g over the subsets of S.                         *)
Tabulates(h, g, S) ==
    /\ h \in [SUBSET S -> Nat]
    /\ h[{}] = 0
    /\ \A T \in SUBSET S : \A x \in S \ T : h[T \cup {x}] = g[x] + h[T]

(* A table for one element more.                                           *)
LEMMA TableGrows ==
    ASSUME NEW g, NEW S, NEW x, x \notin S, \A y \in S \cup {x} : g[y] \in Nat,
           NEW h, Tabulates(h, g, S)
    PROVE  \E hx : Tabulates(hx, g, S \cup {x})
<1> DEFINE hx == [T \in SUBSET (S \cup {x}) |->
                    IF x \in T THEN g[x] + h[T \ {x}] ELSE h[T]]
<1>1. hx \in [SUBSET (S \cup {x}) -> Nat]
  <2>1. ASSUME NEW T \in SUBSET (S \cup {x})
        PROVE  T \ {x} \in SUBSET S /\ (x \notin T => T \in SUBSET S)
    OBVIOUS
  <2> QED
    BY <2>1 DEF Tabulates
<1>2. hx[{}] = 0
  BY DEF Tabulates
<1>3. ASSUME NEW T \in SUBSET (S \cup {x}), NEW y \in (S \cup {x}) \ T
      PROVE  hx[T \cup {y}] = g[y] + hx[T]
  <2>1. CASE y = x
    <3>1. (T \cup {y}) \ {x} = T /\ x \in T \cup {y} /\ x \notin T
      BY <2>1
    <3> QED
      BY <2>1, <3>1
  <2>2. CASE y # x /\ x \in T
    <3>1. /\ (T \cup {y}) \ {x} = (T \ {x}) \cup {y}
          /\ T \ {x} \in SUBSET S
          /\ y \in S \ (T \ {x})
      BY <2>2
    <3>2. h[(T \ {x}) \cup {y}] = g[y] + h[T \ {x}]
      BY <3>1 DEF Tabulates
    <3>3. h[T \ {x}] \in Nat /\ h[(T \ {x}) \cup {y}] \in Nat
      BY <3>1 DEF Tabulates
    <3>4. hx[T \cup {y}] = g[x] + h[(T \ {x}) \cup {y}]
      BY <2>2, <3>1
    <3>5. hx[T] = g[x] + h[T \ {x}]
      BY <2>2
    <3>6. g[x] \in Nat /\ g[y] \in Nat
      OBVIOUS
    <3> HIDE DEF hx
    <3> QED
      BY <3>2, <3>3, <3>4, <3>5, <3>6
  <2>3. CASE y # x /\ x \notin T
    <3>1. x \notin T \cup {y} /\ T \in SUBSET S /\ y \in S \ T
      BY <2>3
    <3> QED
      BY <2>3, <3>1 DEF Tabulates
  <2> QED
    BY <2>1, <2>2, <2>3
<1> HIDE DEF hx
<1> QED
  BY <1>1, <1>2, <1>3 DEF Tabulates

(* Of any subsets of a finite set, one has no other of them one element    *)
(* below it: this takes the place of induction on finite sets.             *)
LEMMA SmallestSubset ==
    ASSUME NEW S, IsFiniteSet(S), NEW Bad \in SUBSET SUBSET S, Bad # {}
    PROVE  \E T \in Bad : \A x \in T : T \ {x} \notin Bad
<1> DEFINE Sizes == {Cardinality(T) : T \in Bad}
<1>1. ASSUME NEW T \in SUBSET S
      PROVE  IsFiniteSet(T) /\ Cardinality(T) \in Nat
  BY FS_Subset, FS_CardinalityType
<1>2. Sizes \subseteq Nat /\ Sizes # {}
  BY <1>1
<1>3. PICK n \in Sizes : \A m \in Sizes : ~ (<<m, n>> \in OpToRel(<, Nat))
  <2> HIDE DEF Sizes
  <2> QED
    BY <1>2, WFMin, NatLessThanWellFounded, Zenon
<1>4. PICK T \in Bad : Cardinality(T) = n
  BY <1>3
<1>5. \A U \in Bad : ~ (Cardinality(U) < Cardinality(T))
  BY <1>1, <1>2, <1>3, <1>4 DEF OpToRel
<1>6. ASSUME NEW x \in T
      PROVE  Cardinality(T \ {x}) < Cardinality(T)
  BY <1>1, FS_RemoveElement
<1> QED
  BY <1>5, <1>6

(* Every finite set of numbers has a table.                                *)
LEMMA TableExists ==
    ASSUME NEW g, NEW S, IsFiniteSet(S), \A y \in S : g[y] \in Nat
    PROVE  \E h : Tabulates(h, g, S)
<1> DEFINE Bare == {T \in SUBSET S : ~ \E h : Tabulates(h, g, T)}
<1>1. SUFFICES ASSUME Bare # {} PROVE FALSE
  OBVIOUS
<1>2. PICK T \in Bare : \A x \in T : T \ {x} \notin Bare
  <2>1. Bare \in SUBSET SUBSET S
    OBVIOUS
  <2> HIDE DEF Bare
  <2> QED
    BY <1>1, <2>1, SmallestSubset, Zenon
<1>3. T # {}
  <2>1. Tabulates([U \in SUBSET {} |-> 0], g, {})
    BY DEF Tabulates
  <2> QED
    BY <2>1
<1>4. PICK x \in T : TRUE
  BY <1>3
<1>5. PICK h : Tabulates(h, g, T \ {x})
  BY <1>2
<1>6. (T \ {x}) \cup {x} = T /\ x \notin T \ {x} /\ \A y \in T : g[y] \in Nat
  OBVIOUS
<1>7. ~ \E hx : Tabulates(hx, g, T)
  OBVIOUS
<1> HIDE DEF Bare
<1>8. \E hx : Tabulates(hx, g, (T \ {x}) \cup {x})
  BY <1>5, <1>6, TableGrows, Zenon
<1> QED
  BY <1>6, <1>7, <1>8

(* What the fold in SumFunctionOnSet is by definition.                     *)
LEMMA SumIsFold ==
    ASSUME NEW g, NEW S
    PROVE  SumFunctionOnSet(g, S) =
             (CHOOSE iter :
                iter = [T \in SUBSET S |->
                          IF T = {} THEN 0
                          ELSE g[CHOOSE x \in T : TRUE]
                               + iter[T \ {CHOOSE x \in T : TRUE}]])[S]
  BY DEF SumFunctionOnSet, FoldFunctionOnSet, MapThenFoldSet

(* The operator computes what the table says: a recursion that meets its   *)
(* equation is there, the table being one, and any two agree.              *)
LEMMA SumIsTable ==
    ASSUME NEW g, NEW S, IsFiniteSet(S), NEW h, Tabulates(h, g, S)
    PROVE  SumFunctionOnSet(g, S) = h[S]
<1> DEFINE Body(iter) == [T \in SUBSET S |->
                            IF T = {} THEN 0
                            ELSE g[CHOOSE x \in T : TRUE]
                                 + iter[T \ {CHOOSE x \in T : TRUE}]]
           iter == CHOOSE i : i = Body(i)
<1>1. h = Body(h)
  <2>1. ASSUME NEW T \in SUBSET S, T # {}
        PROVE  h[T] = g[CHOOSE x \in T : TRUE] + h[T \ {CHOOSE x \in T : TRUE}]
    <3>1. PICK x \in T : x = CHOOSE y \in T : TRUE
      BY <2>1
    <3>2. /\ T \ {x} \in SUBSET S
          /\ x \in S \ (T \ {x})
          /\ (T \ {x}) \cup {x} = T
      OBVIOUS
    <3>3. h[(T \ {x}) \cup {x}] = g[x] + h[T \ {x}]
      BY <3>2 DEF Tabulates
    <3> QED
      BY <3>1, <3>2, <3>3
  <2>2. h \in [SUBSET S -> Nat] /\ h[{}] = 0
    BY DEF Tabulates
  <2>3. \A T \in SUBSET S : h[T] = Body(h)[T]
    BY <2>1, <2>2
  <2>4. Body(h) = [T \in SUBSET S |-> Body(h)[T]]
    OBVIOUS
  <2>5. h = [T \in SUBSET S |-> h[T]]
    BY <2>2
  <2> HIDE DEF Body
  <2> QED
    BY <2>3, <2>4, <2>5
<1>2. iter = Body(iter)
  <2> HIDE DEF Body
  <2> QED
    BY <1>1, Zenon
<1>3. SumFunctionOnSet(g, S) = iter[S]
  BY SumIsFold
<1> DEFINE Apart == {T \in SUBSET S : iter[T] # h[T]}
<1>4. ASSUME NEW T \in Apart, \A x \in T : T \ {x} \notin Apart
      PROVE  FALSE
  <2>1. iter[T] = Body(iter)[T] /\ h[T] = Body(h)[T]
    <3> HIDE DEF Body, iter
    <3> QED
      BY <1>1, <1>2
  <2>2. CASE T = {}
    BY <2>1, <2>2
  <2>3. CASE T # {}
    <3>1. PICK x \in T : x = CHOOSE y \in T : TRUE
      BY <2>3
    <3>2. iter[T \ {x}] = h[T \ {x}]
      <4> HIDE DEF iter
      <4> QED
        BY <1>4
    <3> HIDE DEF iter
    <3> QED
      BY <2>1, <2>3, <3>1, <3>2
  <2> QED
    BY <2>2, <2>3
<1>5. Apart = {}
  <2>1. Apart \in SUBSET SUBSET S
    OBVIOUS
  <2> HIDE DEF Apart
  <2> QED
    BY <1>4, <2>1, SmallestSubset, Zenon
<1> HIDE DEF iter
<1> QED
  BY <1>3, <1>5

-----------------------------------------------------------------------------
(* A sum of naturals is one.                                               *)
LEMMA SumIsNat ==
    ASSUME NEW g, NEW S, IsFiniteSet(S), \A y \in S : g[y] \in Nat
    PROVE  SumFunctionOnSet(g, S) \in Nat
<1>1. PICK h : Tabulates(h, g, S)
  BY TableExists
<1>2. SumFunctionOnSet(g, S) = h[S]
  BY <1>1, SumIsTable
<1> QED
  BY <1>1, <1>2 DEF Tabulates

(* Any element of the set can be taken out of the sum first.               *)
LEMMA SumTakesOut ==
    ASSUME NEW g, NEW S, IsFiniteSet(S), \A y \in S : g[y] \in Nat,
           NEW x \in S
    PROVE  SumFunctionOnSet(g, S) = g[x] + SumFunctionOnSet(g, S \ {x})
<1>1. PICK h : Tabulates(h, g, S)
  BY TableExists
<1>2. Tabulates([T \in SUBSET (S \ {x}) |-> h[T]], g, S \ {x})
  BY <1>1 DEF Tabulates
<1>3. IsFiniteSet(S \ {x})
  BY FS_RemoveElement
<1>4. SumFunctionOnSet(g, S \ {x}) = h[S \ {x}]
  BY <1>2, <1>3, SumIsTable
<1>5. SumFunctionOnSet(g, S) = h[S]
  BY <1>1, SumIsTable
<1>6. /\ S \ {x} \in SUBSET S
      /\ x \in S \ (S \ {x})
      /\ (S \ {x}) \cup {x} = S
  OBVIOUS
<1>7. h[(S \ {x}) \cup {x}] = g[x] + h[S \ {x}]
  BY <1>1, <1>6 DEF Tabulates
<1> QED
  BY <1>4, <1>5, <1>6, <1>7

(* A sum depends on the values at the elements and on nothing else.        *)
LEMMA SumAgrees ==
    ASSUME NEW f, NEW g, NEW S, IsFiniteSet(S), \A y \in S : g[y] \in Nat,
           \A y \in S : f[y] = g[y]
    PROVE  SumFunctionOnSet(f, S) = SumFunctionOnSet(g, S)
<1>1. PICK h : Tabulates(h, g, S)
  BY TableExists
<1>2. Tabulates(h, f, S)
  BY <1>1 DEF Tabulates
<1> QED
  BY <1>1, <1>2, SumIsTable

(* A change at one element changes the sum by as much.                     *)
LEMMA SumChangesOne ==
    ASSUME NEW f, NEW g, NEW S, IsFiniteSet(S),
           \A y \in S : f[y] \in Nat /\ g[y] \in Nat,
           NEW x \in S, \A y \in S \ {x} : f[y] = g[y]
    PROVE  SumFunctionOnSet(f, S) + g[x] = SumFunctionOnSet(g, S) + f[x]
<1>1. IsFiniteSet(S \ {x})
  BY FS_RemoveElement
<1>2. SumFunctionOnSet(f, S \ {x}) = SumFunctionOnSet(g, S \ {x})
  BY <1>1, SumAgrees
<1>3. SumFunctionOnSet(f, S) = f[x] + SumFunctionOnSet(f, S \ {x})
  BY SumTakesOut
<1>4. SumFunctionOnSet(g, S) = g[x] + SumFunctionOnSet(g, S \ {x})
  BY SumTakesOut
<1>5. SumFunctionOnSet(g, S \ {x}) \in Nat
  BY <1>1, SumIsNat
<1> QED
  BY <1>2, <1>3, <1>4, <1>5

(* Noughts add up to nought.                                               *)
LEMMA SumOfNoughts ==
    ASSUME NEW g, NEW S, IsFiniteSet(S), \A y \in S : g[y] = 0
    PROVE  SumFunctionOnSet(g, S) = 0
<1>1. Tabulates([T \in SUBSET S |-> 0], g, S)
  BY DEF Tabulates
<1> QED
  BY <1>1, SumIsTable
-----------------------------------------------------------------------------
LEMMA LeastNumber ==
    ASSUME NEW Bad \in SUBSET Nat, Bad # {}
    PROVE  \E n \in Bad : \A m \in Bad : n <= m
<1>1. PICK n \in Bad : \A m \in Bad : ~ (<<m, n>> \in OpToRel(<, Nat))
  BY WFMin, NatLessThanWellFounded, Zenon
<1>2. \A m \in Bad : ~ (m < n)
  BY <1>1 DEF OpToRel
<1> QED
  BY <1>2

LEMMA IntervalFinite ==
    \A n \in Nat : IsFiniteSet(1..n)
  BY FS_Interval
-----------------------------------------------------------------------------
(* The sum over one place more.                                            *)
LEMMA SumOneMore ==
    ASSUME NEW n \in Nat, NEW f, NEW g,
           \A i \in 1..(n + 1) : f[i] \in Nat,
           \A i \in 1..n : g[i] = f[i]
    PROVE  SumFunctionOnSet(f, 1..(n + 1)) = SumFunctionOnSet(g, 1..n) + f[n + 1]
<1>1. n + 1 \in 1..(n + 1) /\ (1..(n + 1)) \ {n + 1} = 1..n /\ n + 1 \in Nat
  OBVIOUS
<1>2. IsFiniteSet(1..n) /\ IsFiniteSet(1..(n + 1))
  BY <1>1, IntervalFinite
<1>3. SumFunctionOnSet(f, 1..(n + 1)) = f[n + 1] + SumFunctionOnSet(f, 1..n)
  <2>1. SumFunctionOnSet(f, 1..(n + 1))
          = f[n + 1] + SumFunctionOnSet(f, (1..(n + 1)) \ {n + 1})
    BY <1>1, <1>2, SumTakesOut
  <2> QED
    BY <1>1, <2>1
<1>4. \A i \in 1..n : f[i] \in Nat /\ g[i] \in Nat /\ g[i] = f[i]
  OBVIOUS
<1>5. SumFunctionOnSet(g, 1..n) = SumFunctionOnSet(f, 1..n)
  BY <1>2, <1>4, SumAgrees, Zenon
<1>6. SumFunctionOnSet(f, 1..n) \in Nat
  BY <1>2, <1>4, SumIsNat
<1>7. f[n + 1] \in Nat
  BY <1>1
<1> QED
  BY <1>3, <1>5, <1>6, <1>7

(* The sum with its first place taken out and the others moved up.         *)
LEMMA SumOfRest ==
    ASSUME NEW n \in Nat, NEW f, NEW g,
           \A i \in 1..(n + 1) : f[i] \in Nat,
           \A i \in 1..n : g[i] = f[i + 1]
    PROVE  SumFunctionOnSet(f, 1..(n + 1)) = f[1] + SumFunctionOnSet(g, 1..n)
<1> DEFINE Bad == {m \in 0..n : SumFunctionOnSet(f, 1..(m + 1))
                                  # f[1] + SumFunctionOnSet(g, 1..m)}
<1>1. SUFFICES ASSUME Bad # {} PROVE FALSE
  OBVIOUS
<1>2. PICK m \in Bad : \A k \in Bad : m <= k
  <2>1. Bad \in SUBSET Nat
    OBVIOUS
  <2> HIDE DEF Bad
  <2> QED
    BY <1>1, <2>1, LeastNumber, Zenon
<1>3. m \in 0..n /\ m \in Nat
  BY <1>2
<1>4. \A i \in 1..n : g[i] \in Nat
  OBVIOUS
<1>5. SumFunctionOnSet(f, 1..(m + 1)) = SumFunctionOnSet(f, 1..m) + f[m + 1]
  <2>1. \A i \in 1..(m + 1) : f[i] \in Nat
    BY <1>3
  <2> HIDE DEF Bad
  <2> QED
    BY <1>3, <2>1, SumOneMore
<1>6. CASE m = 0
  <2>1. 1..m = {}
    BY <1>6
  <2>2. SumFunctionOnSet(f, 1..m) = 0 /\ SumFunctionOnSet(g, 1..m) = 0
    BY <2>1, SumOfNoughts, FS_EmptySet
  <2>3. f[1] \in Nat
    OBVIOUS
  <2> QED
    BY <1>5, <1>6, <2>2, <2>3
<1>7. CASE m # 0
  <2>1. PICK k \in Nat : m = k + 1 /\ k \in 0..n /\ k < m /\ m \in 1..n
    <3>1. m = (m - 1) + 1 /\ m - 1 \in Nat /\ m - 1 \in 0..n /\ m - 1 < m /\ m \in 1..n
      BY <1>3, <1>7
    <3> QED
      BY <3>1
  <2>2. k \notin Bad
    BY <1>2, <1>3, <2>1
  <2>3. SumFunctionOnSet(f, 1..m) = f[1] + SumFunctionOnSet(g, 1..k)
    BY <2>1, <2>2
  <2>4. SumFunctionOnSet(g, 1..m) = SumFunctionOnSet(g, 1..k) + g[m]
    <3>1. \A i \in 1..(k + 1) : g[i] \in Nat
      BY <1>4, <2>1
    <3> HIDE DEF Bad
    <3> QED
      BY <2>1, <3>1, SumOneMore
  <2>5. SumFunctionOnSet(g, 1..k) \in Nat
    <3>1. \A i \in 1..k : g[i] \in Nat
      BY <1>4, <2>1
    <3> QED
      BY <2>1, <3>1, IntervalFinite, SumIsNat
  <2>6. g[m] = f[m + 1] /\ f[1] \in Nat /\ g[m] \in Nat
    BY <1>4, <2>1
  <2> QED
    BY <1>2, <1>5, <2>3, <2>4, <2>5, <2>6
<1> QED
  BY <1>6, <1>7
-----------------------------------------------------------------------------
(* Concatenation under a name of its own, which the provers regroup.       *)
Glue(a, b) == a \o b

LEMMA GlueRegroups ==
    ASSUME NEW S, NEW a \in Seq(S), NEW b \in Seq(S), NEW c \in Seq(S)
    PROVE  Glue(Glue(a, b), c) = Glue(a, Glue(b, c))
  BY ConcatAssociative DEF Glue

LEMMA GlueAppend ==
    ASSUME NEW S, NEW a \in Seq(S), NEW b \in Seq(S), NEW x \in S
    PROVE  Append(Glue(a, b), x) = Glue(a, Append(b, x))
<1>1. <<x>> \in Seq(S) /\ Glue(a, b) \in Seq(S)
  BY ConcatProperties DEF Glue
<1>2. /\ Append(Glue(a, b), x) = Glue(Glue(a, b), <<x>>)
      /\ Append(b, x) = Glue(b, <<x>>)
  BY <1>1, AppendIsConcat DEF Glue
<1>3. Glue(Glue(a, b), <<x>>) = Glue(a, Glue(b, <<x>>))
  <2>1. PICK c \in Seq(S) : c = <<x>>
    BY <1>1
  <2>2. Glue(Glue(a, b), c) = Glue(a, Glue(b, c))
    BY GlueRegroups
  <2> QED
    BY <2>1, <2>2
<1> QED
  BY <1>2, <1>3

(* The sequences FlattenSeq joins, from none of them to all.               *)
Joins(h, s, S) ==
    /\ h \in [0..Len(s) -> Seq(S)]
    /\ h[0] = <<>>
    /\ \A i \in 1..Len(s) : h[i] = h[i - 1] \o s[i]

LEMMA JoinsExist ==
    ASSUME NEW S, NEW s \in Seq(Seq(S))
    PROVE  \E h : Joins(h, s, S)
<1> DEFINE Upto(h, n) == /\ h \in [0..n -> Seq(S)]
                         /\ h[0] = <<>>
                         /\ \A i \in 1..n : h[i] = h[i - 1] \o s[i]
           Bad == {n \in 0..Len(s) : ~ \E h : Upto(h, n)}
<1>1. Len(s) \in Nat /\ \A i \in 1..Len(s) : s[i] \in Seq(S)
  OBVIOUS
<1>2. SUFFICES ASSUME Bad # {} PROVE FALSE
  <2>1. \A h : Upto(h, Len(s)) => Joins(h, s, S)
    BY DEF Joins
  <2>2. Len(s) \in 0..Len(s)
    BY <1>1
  <2>3. ASSUME Bad = {} PROVE \E h : Upto(h, Len(s))
    <3> HIDE DEF Upto
    <3> QED
      BY <2>2, <2>3
  <2> HIDE DEF Upto, Bad
  <2> QED
    BY <2>1, <2>3
<1>3. PICK n \in Bad : \A k \in Bad : n <= k
  <2>1. Bad \in SUBSET Nat
    <3> HIDE DEF Upto
    <3> QED
      BY <1>1
  <2> HIDE DEF Bad
  <2> QED
    BY <1>2, <2>1, LeastNumber, Zenon
<1>4. n # 0
  <2>1. Upto([i \in 0..0 |-> <<>>], 0)
    OBVIOUS
  <2>2. 0 \in Bad => ~ \E h : Upto(h, 0)
    OBVIOUS
  <2> HIDE DEF Upto, Bad
  <2> QED
    BY <2>1, <2>2, <1>3
<1>5. n \in 1..Len(s) /\ n - 1 \in 0..Len(s) /\ n - 1 \in Nat /\ ~ (n <= n - 1)
  BY <1>1, <1>3, <1>4
<1>6. PICK h : Upto(h, n - 1)
  <2>1. n - 1 \notin Bad
    BY <1>3, <1>5
  <2> HIDE DEF Upto
  <2> QED
    BY <1>5, <2>1
<1> HIDE DEF Bad
<1>7. Upto([i \in 0..n |-> IF i = n THEN h[n - 1] \o s[n] ELSE h[i]], n)
  <2> DEFINE hx == [i \in 0..n |-> IF i = n THEN h[n - 1] \o s[n] ELSE h[i]]
  <2>1. h[n - 1] \in Seq(S) /\ s[n] \in Seq(S)
    BY <1>1, <1>5, <1>6
  <2>2. h[n - 1] \o s[n] \in Seq(S)
    BY <2>1, ConcatProperties
  <2>3. hx \in [0..n -> Seq(S)] /\ hx[0] = <<>>
    BY <1>5, <1>6, <2>2
  <2>4. ASSUME NEW i \in 1..n
        PROVE  hx[i] = hx[i - 1] \o s[i]
    <3>1. CASE i = n
      <4>1. n \in 0..n /\ n - 1 \in 0..n /\ n - 1 # n
        BY <1>5
      <4>2. hx[i - 1] = h[n - 1] /\ hx[i] = h[n - 1] \o s[n]
        <5> HIDE DEF Upto
        <5> QED
          BY <3>1, <4>1
      <4> QED
        BY <3>1, <4>2
    <3>2. CASE i # n
      <4>1. hx[i - 1] = h[i - 1] /\ hx[i] = h[i] /\ i \in 1..(n - 1)
        BY <1>5, <3>2
      <4> QED
        BY <1>6, <4>1
    <3> QED
      BY <3>1, <3>2
  <2> QED
    BY <2>3, <2>4
<1>8. ~ \E hx : Upto(hx, n)
  <2> HIDE DEF Upto
  <2> QED
    BY <1>3 DEF Bad
<1> HIDE DEF Upto
<1> QED
  BY <1>7, <1>8

(* FlattenSeq is the last of them, whichever function joins.               *)
LEMMA FlattenIsJoined ==
    ASSUME NEW S, NEW s \in Seq(Seq(S)), s # <<>>, NEW h, Joins(h, s, S)
    PROVE  FlattenSeq(s) = h[Len(s)]
<1>1. PICK n : n = Len(s) /\ n \in Nat /\ n # 0
  OBVIOUS
<1>2. /\ \A i \in 1..n : i = 1 => h[i] = s[i]
      /\ \A i \in 1..n : i # 1 => i - 1 \in 1..n /\ h[i] = h[i - 1] \o s[i]
  <2>1. h[0] = <<>> /\ \A i \in 1..n : h[i] = h[i - 1] \o s[i]
    BY <1>1 DEF Joins
  <2>2. \A i \in 1..n : s[i] \in Seq(S)
    BY <1>1
  <2>3. \A i \in 1..n : i = 1 => i - 1 = 0
    OBVIOUS
  <2>4. \A i \in 1..n : <<>> \o s[i] = s[i]
    BY <2>2, ConcatEmptySeq
  <2>5. \A i \in 1..n : i # 1 => i - 1 \in 1..n
    BY <1>1
  <2>6. \A i \in 1..n : i = 1 => h[i] = <<>> \o s[i]
    BY <2>1, <2>3
  <2> QED
    BY <2>1, <2>4, <2>5, <2>6
<1> DEFINE Body(f) == [i \in 1..n |-> IF i = 1 THEN s[i] ELSE f[i - 1] \o s[i]]
           flat == CHOOSE f : f = Body(f)
           hr == [i \in 1..n |-> h[i]]
<1>3. FlattenSeq(s) = flat[n]
  BY <1>1 DEF FlattenSeq
<1>4. flat = Body(flat)
  <2>1. \A i \in 1..n : hr[i] = Body(hr)[i]
    <3> HIDE DEF flat
    <3> QED
      BY <1>2
  <2>2. Body(hr) = [i \in 1..n |-> Body(hr)[i]]
    <3> HIDE DEF flat, hr
    <3> QED
      OBVIOUS
  <2>3. hr = [i \in 1..n |-> hr[i]]
    <3> HIDE DEF flat
    <3> QED
      OBVIOUS
  <2>4. hr = Body(hr)
    <3> HIDE DEF flat, hr, Body
    <3> QED
      BY <2>1, <2>2, <2>3
  <2> HIDE DEF hr, Body
  <2> QED
    BY <2>4, Zenon
<1>5. \A i \in 1..n : flat[i] = IF i = 1 THEN s[i] ELSE flat[i - 1] \o s[i]
  <2>1. \A i \in 1..n : flat[i] = Body(flat)[i]
    <3> HIDE DEF flat, Body
    <3> QED
      BY <1>4
  <2> HIDE DEF flat, hr
  <2> QED
    BY <2>1
<1> HIDE DEF flat, Body, hr
<1> DEFINE Bad == {i \in 1..n : flat[i] # h[i]}
<1>6. Bad = {}
  <2>1. SUFFICES ASSUME Bad # {} PROVE FALSE
    OBVIOUS
  <2>2. Bad \in SUBSET Nat
    OBVIOUS
  <2>3. PICK i \in Bad : \A k \in Bad : i <= k
    <3> HIDE DEF Bad
    <3> QED
      BY <2>1, <2>2, LeastNumber, Zenon
  <2>4. i \in 1..n /\ flat[i] # h[i]
    OBVIOUS
  <2>5. CASE i = 1
    BY <1>2, <1>5, <2>4, <2>5
  <2>6. CASE i # 1
    <3>1. i - 1 \in 1..n /\ ~ (i <= i - 1)
      BY <1>1, <2>4, <2>6
    <3>2. flat[i - 1] = h[i - 1]
      BY <2>3, <3>1
    <3>3. h[i] = h[i - 1] \o s[i]
      BY <1>2, <2>4, <2>6
    <3>4. flat[i] = flat[i - 1] \o s[i]
      BY <1>5, <2>4, <2>6
    <3> HIDE DEF Bad
    <3> QED
      BY <2>4, <3>2, <3>3, <3>4
  <2> QED
    BY <2>5, <2>6
<1> QED
  <2>1. n \in 1..n
    BY <1>1
  <2> QED
    BY <1>1, <1>3, <1>6, <2>1

(* An empty sequence at the end adds nothing.                              *)
LEMMA FlattenOneMore ==
    ASSUME NEW S, NEW s \in Seq(Seq(S)), s # <<>>
    PROVE  FlattenSeq(Append(s, <<>>)) = FlattenSeq(s)
<1>1. PICK h : Joins(h, s, S)
  BY JoinsExist
<1>2. PICK n : n = Len(s) /\ n \in Nat /\ n # 0
  OBVIOUS
<1>3. PICK t : t = Append(s, <<>>)
  OBVIOUS
<1>4. /\ t \in Seq(Seq(S)) /\ t # <<>> /\ Len(t) = n + 1
      /\ t[n + 1] = <<>> /\ \A i \in 1..n : t[i] = s[i]
  <2>1. <<>> \in Seq(S)
    OBVIOUS
  <2> QED
    BY <1>2, <1>3, <2>1
<1>5. /\ h \in [0..n -> Seq(S)] /\ h[0] = <<>>
      /\ \A i \in 1..n : h[i] = h[i - 1] \o s[i]
  BY <1>1, <1>2 DEF Joins
<1> DEFINE hx == [i \in 0..(n + 1) |-> IF i = n + 1 THEN h[n] ELSE h[i]]
<1>6. /\ hx \in [0..(n + 1) -> Seq(S)]
      /\ hx[n + 1] = h[n] /\ \A i \in 0..n : hx[i] = h[i]
  <2>1. n \in 0..n /\ n + 1 \in 0..(n + 1)
    BY <1>2
  <2>2. h[n] \in Seq(S)
    BY <1>5, <2>1
  <2>3. \A i \in 0..(n + 1) : i # n + 1 => i \in 0..n
    BY <1>2
  <2>4. \A i \in 0..n : i # n + 1 /\ i \in 0..(n + 1)
    BY <1>2
  <2> QED
    BY <1>5, <2>1, <2>2, <2>3, <2>4
<1> HIDE DEF hx
<1>7. hx[n + 1] = hx[n] \o t[n + 1]
  <2>1. h[n] \in Seq(S) /\ n \in 0..n
    <3>1. n \in 0..n
      BY <1>2
    <3> QED
      BY <1>5, <3>1
  <2>2. h[n] \o <<>> = h[n]
    BY <2>1, ConcatEmptySeq
  <2> QED
    BY <1>4, <1>6, <2>1, <2>2
<1>8. ASSUME NEW i \in 1..n
      PROVE  hx[i] = hx[i - 1] \o t[i]
  <2>1. i \in 0..n /\ i - 1 \in 0..n
    BY <1>2
  <2> QED
    BY <1>4, <1>5, <1>6, <2>1
<1>9. Joins(hx, t, S)
  <2>1. \A i \in 1..(n + 1) : hx[i] = hx[i - 1] \o t[i]
    <3>1. \A i \in 1..(n + 1) : i = n + 1 \/ i \in 1..n
      BY <1>2
    <3>2. (n + 1) - 1 = n
      BY <1>2
    <3> QED
      BY <1>7, <1>8, <3>1, <3>2
  <2>2. hx[0] = <<>>
    BY <1>2, <1>5, <1>6
  <2> QED
    BY <1>4, <1>6, <2>1, <2>2 DEF Joins
<1>10. FlattenSeq(t) = hx[n + 1] /\ FlattenSeq(s) = h[n]
  BY <1>1, <1>2, <1>4, <1>9, FlattenIsJoined
<1> QED
  BY <1>3, <1>6, <1>10

(* What the last sequence gains at its end the whole gains at its end.     *)
LEMMA FlattenLastGrows ==
    ASSUME NEW S, NEW s \in Seq(Seq(S)), s # <<>>, NEW x \in S
    PROVE  FlattenSeq([s EXCEPT ![Len(s)] = Append(s[Len(s)], x)])
             = Append(FlattenSeq(s), x)
<1>1. PICK h : Joins(h, s, S)
  BY JoinsExist
<1>2. PICK n : n = Len(s) /\ n \in Nat /\ n # 0
  OBVIOUS
<1>3. n \in 1..n /\ n \in 0..n /\ n - 1 \in 0..n /\ n - 1 # n
  BY <1>2
<1>4. PICK t : t = [s EXCEPT ![n] = Append(s[n], x)]
  OBVIOUS
<1>5. \A i \in 1..n : s[i] \in Seq(S)
  BY <1>2
<1>6. /\ t \in Seq(Seq(S)) /\ t # <<>> /\ Len(t) = n
      /\ t[n] = Append(s[n], x) /\ \A i \in 1..n : i # n => t[i] = s[i]
  <2>1. Append(s[n], x) \in Seq(S)
    BY <1>3, <1>5
  <2>2. t \in Seq(Seq(S)) /\ Len(t) = n
    BY <1>2, <1>3, <1>4, <2>1, ExceptSeq
  <2>3. DOMAIN s = 1..n
    BY <1>2
  <2> QED
    BY <1>2, <1>3, <1>4, <2>2, <2>3
<1>7. /\ h \in [0..n -> Seq(S)] /\ h[0] = <<>>
      /\ \A i \in 1..n : h[i] = h[i - 1] \o s[i]
  BY <1>1, <1>2 DEF Joins
<1> DEFINE hx == [i \in 0..n |-> IF i = n THEN Append(h[n], x) ELSE h[i]]
<1>8. /\ hx \in [0..n -> Seq(S)]
      /\ hx[n] = Append(h[n], x) /\ \A i \in 0..n : i # n => hx[i] = h[i]
  <2>1. Append(h[n], x) \in Seq(S)
    BY <1>3, <1>7
  <2> QED
    BY <1>3, <1>7, <2>1
<1> HIDE DEF hx
<1>9. hx[n] = hx[n - 1] \o t[n]
  <2>1. h[n] = h[n - 1] \o s[n] /\ h[n - 1] \in Seq(S) /\ s[n] \in Seq(S)
    BY <1>3, <1>5, <1>7
  <2>2. h[n] = Glue(h[n - 1], s[n])
    BY <2>1 DEF Glue
  <2>3. Append(h[n], x) = Glue(h[n - 1], Append(s[n], x))
    <3>1. PICK a \in Seq(S) : a = h[n - 1]
      BY <2>1
    <3>2. PICK b \in Seq(S) : b = s[n]
      BY <2>1
    <3>3. Append(Glue(a, b), x) = Glue(a, Append(b, x))
      BY GlueAppend
    <3> QED
      BY <2>2, <3>1, <3>2, <3>3
  <2> QED
    BY <1>3, <1>6, <1>8, <2>3 DEF Glue
<1>10. ASSUME NEW i \in 1..n, i # n
       PROVE  hx[i] = hx[i - 1] \o t[i]
  <2>1. i \in 0..n /\ i - 1 \in 0..n /\ i - 1 # n
    BY <1>2
  <2> QED
    BY <1>6, <1>7, <1>8, <1>10, <2>1
<1>11. Joins(hx, t, S)
  <2>1. hx[0] = <<>>
    BY <1>2, <1>7, <1>8
  <2> QED
    BY <1>6, <1>8, <1>9, <1>10, <2>1 DEF Joins
<1>12. FlattenSeq(t) = hx[n] /\ FlattenSeq(s) = h[n]
  BY <1>1, <1>2, <1>6, <1>11, FlattenIsJoined
<1> QED
  BY <1>2, <1>4, <1>8, <1>12

(* The whole is what the first n make, then what the others make.          *)
LEMMA FlattenWithoutFront ==
    ASSUME NEW S, NEW s \in Seq(Seq(S)), NEW n \in 1..(Len(s) - 1)
    PROVE  /\ FlattenSeq(SubSeq(s, n + 1, Len(s))) \in Seq(S)
           /\ \E front \in Seq(S) :
                FlattenSeq(s) = front \o FlattenSeq(SubSeq(s, n + 1, Len(s)))
<1>1. PICK m : m = Len(s) - n /\ m \in Nat /\ m # 0 /\ Len(s) = n + m /\ n \in Nat
  OBVIOUS
<1>2. PICK t : t = SubSeq(s, n + 1, Len(s))
  OBVIOUS
<1>3. /\ t \in Seq(Seq(S)) /\ t # <<>> /\ Len(t) = m
      /\ \A i \in 1..m : t[i] = s[n + i]
  <2>1. t \in Seq(Seq(S)) /\ Len(t) = m
    BY <1>1, <1>2, SubSeqProperties
  <2>2. \A i \in 1..m : t[i] = s[(n + 1) + i - 1]
    <3>1. /\ n + 1 \in Int /\ Len(s) \in Int
          /\ \A i \in (n + 1)..Len(s) : s[i] \in Seq(S)
      BY <1>1
    <3>2. \A i \in 1..(Len(s) - (n + 1) + 1) : t[i] = s[(n + 1) + i - 1]
      BY <1>2, <3>1, SubSeqProperties
    <3>3. Len(s) - (n + 1) + 1 = m
      BY <1>1
    <3> QED
      BY <3>2, <3>3
  <2>3. \A i \in 1..m : (n + 1) + i - 1 = n + i
    BY <1>1
  <2> QED
    BY <1>1, <2>1, <2>2, <2>3
<1>4. PICK h : Joins(h, s, S)
  BY JoinsExist
<1>5. PICK k : Joins(k, t, S)
  BY <1>3, JoinsExist
<1>6. /\ h \in [0..(n + m) -> Seq(S)]
      /\ \A i \in 1..(n + m) : h[i] = h[i - 1] \o s[i]
  BY <1>1, <1>4 DEF Joins
<1>7. /\ k \in [0..m -> Seq(S)] /\ k[0] = <<>>
      /\ \A i \in 1..m : k[i] = k[i - 1] \o t[i]
  BY <1>3, <1>5 DEF Joins
<1>8. h[n] \in Seq(S)
  <2>1. n \in 0..(n + m)
    BY <1>1
  <2> QED
    BY <1>6, <2>1
<1> DEFINE Bad == {i \in 0..m : h[n + i] # h[n] \o k[i]}
<1>9. Bad = {}
  <2>1. SUFFICES ASSUME Bad # {} PROVE FALSE
    OBVIOUS
  <2>2. Bad \in SUBSET Nat
    <3>1. Bad \subseteq 0..m
      OBVIOUS
    <3> HIDE DEF Bad
    <3> QED
      BY <3>1
  <2>3. PICK i \in Bad : \A j \in Bad : i <= j
    <3> HIDE DEF Bad
    <3> QED
      BY <2>1, <2>2, LeastNumber, Zenon
  <2>4. i \in 0..m /\ h[n + i] # h[n] \o k[i]
    OBVIOUS
  <2>5. CASE i = 0
    <3>1. n + i = n /\ h[n] \o <<>> = h[n]
      BY <1>1, <1>8, <2>5, ConcatEmptySeq
    <3> QED
      BY <1>7, <2>4, <2>5, <3>1
  <2>6. CASE i # 0
    <3>1. PICK j \in 0..m : /\ j = i - 1 /\ j + 1 = i /\ ~ (i <= j) /\ i \in 1..m
                            /\ (n + i) - 1 = n + j /\ n + i \in 1..(n + m)
      BY <1>1, <2>4, <2>6
    <3>2. h[n + j] = h[n] \o k[j]
      BY <2>3, <3>1
    <3>3. h[n + i] = h[n + j] \o s[n + i]
      BY <1>6, <3>1
    <3>4. k[i] = k[j] \o t[i] /\ t[i] = s[n + i]
      BY <1>3, <1>7, <3>1
    <3>5. k[j] \in Seq(S) /\ t[i] \in Seq(S)
      BY <1>3, <1>7, <3>1, ElementOfSeq
    <3>6. h[n + j] \o t[i] = h[n] \o k[i]
      <4>1. h[n + j] = Glue(h[n], k[j]) /\ k[i] = Glue(k[j], t[i])
        BY <3>2, <3>4 DEF Glue
      <4>2. Glue(h[n + j], t[i]) = Glue(h[n], k[i])
        <5>1. Glue(Glue(h[n], k[j]), t[i]) = Glue(h[n], Glue(k[j], t[i]))
          BY <1>8, <3>5, GlueRegroups
        <5> QED
          BY <4>1, <5>1
      <4> QED
        BY <4>2 DEF Glue
    <3> HIDE DEF Bad
    <3> QED
      BY <2>4, <3>2, <3>3, <3>4, <3>6
  <2> QED
    BY <2>5, <2>6
<1>10. m \in 0..m
  BY <1>1
<1>11. h[n + m] = h[n] \o k[m] /\ k[m] \in Seq(S)
  BY <1>7, <1>9, <1>10
<1>12. FlattenSeq(s) = h[n + m] /\ FlattenSeq(t) = k[m]
  <2>1. s # <<>>
    BY <1>1
  <2> QED
    BY <1>1, <1>3, <1>4, <1>5, <2>1, FlattenIsJoined
<1> QED
  BY <1>2, <1>8, <1>11, <1>12

(* The last of the whole is the last of the last, when there is one.       *)
LEMMA FlattenLast ==
    ASSUME NEW S, NEW s \in Seq(Seq(S)), s # <<>>
    PROVE  /\ FlattenSeq(s) \in Seq(S)
           /\ s[Len(s)] # <<>> =>
                /\ FlattenSeq(s) # <<>>
                /\ Last(FlattenSeq(s)) = Last(s[Len(s)])
<1>1. PICK h : Joins(h, s, S)
  BY JoinsExist
<1>2. PICK n : n = Len(s) /\ n \in Nat /\ n # 0 /\ n \in 1..n /\ n \in 0..n
                /\ n - 1 \in 0..n
  OBVIOUS
<1>3. FlattenSeq(s) = h[n]
  BY <1>1, <1>2, FlattenIsJoined
<1>4. h \in [0..n -> Seq(S)] /\ h[n] = h[n - 1] \o s[n] /\ s[n] \in Seq(S)
  <2>1. s[n] \in Seq(S)
    BY <1>2
  <2> QED
    BY <1>1, <1>2, <2>1 DEF Joins
<1>5. PICK a, b : a \in Seq(S) /\ b \in Seq(S) /\ a = h[n - 1] /\ b = s[n]
  <2>1. h[n - 1] \in Seq(S) /\ s[n] \in Seq(S)
    BY <1>2, <1>4
  <2> QED
    BY <2>1, Zenon
<1>6. b # <<>> => a \o b # <<>> /\ Last(a \o b) = Last(b)
  <2>1. PICK c : /\ c = a \o b /\ c \in Seq(S) /\ Len(c) = Len(a) + Len(b)
                 /\ \A i \in 1..(Len(a) + Len(b)) :
                       c[i] = IF i <= Len(a) THEN a[i] ELSE b[i - Len(a)]
    <3>1. PICK c : c = a \o b
      OBVIOUS
    <3>2. /\ c \in Seq(S) /\ Len(c) = Len(a) + Len(b)
          /\ \A i \in 1..(Len(a) + Len(b)) :
                c[i] = IF i <= Len(a) THEN a[i] ELSE b[i - Len(a)]
      <4>1. a \in Seq(S) /\ b \in Seq(S)
        BY <1>5, Zenon
      <4> QED
        BY <3>1, <4>1, ConcatProperties
    <3> QED
      BY <3>1, <3>2
  <2>2. Len(a) \in Nat /\ Len(b) \in Nat
    BY <1>5
  <2>3. b # <<>> => Len(b) # 0
    BY <1>5
  <2>4. Len(b) # 0 => /\ Len(a) + Len(b) \in 1..(Len(a) + Len(b))
                      /\ ~ (Len(a) + Len(b) <= Len(a))
                      /\ (Len(a) + Len(b)) - Len(a) = Len(b)
    BY <2>2
  <2>5. Len(b) # 0 => c[Len(c)] = b[Len(b)]
    BY <2>1, <2>4
  <2>6. Len(b) # 0 => c # <<>>
    BY <2>1, <2>2
  <2> QED
    BY <2>1, <2>3, <2>5, <2>6 DEF Last
<1> QED
  BY <1>2, <1>3, <1>4, <1>5, <1>6
-----------------------------------------------------------------------------
(* IsSuffix, place by place.                                               *)
LEMMA SuffixPlaces ==
    ASSUME NEW S, NEW s \in Seq(S), NEW t \in Seq(S)
    PROVE  IsSuffix(s, t) <=>
             /\ Len(s) <= Len(t)
             /\ \A i \in 1..Len(s) : s[i] = t[(Len(t) - Len(s)) + i]
<1>1. PICK m, n : /\ m = Len(s) /\ n = Len(t) /\ m \in Nat /\ n \in Nat
  <2>1. Len(s) \in Nat /\ Len(t) \in Nat
    OBVIOUS
  <2> QED
    BY <2>1, Zenon
<1>2. ASSUME NEW u \in Seq(S)
      PROVE  /\ Reverse(u) \in Seq(S) /\ Len(Reverse(u)) = Len(u)
             /\ \A i \in 1..Len(u) : Reverse(u)[i] = u[(Len(u) - i) + 1]
  <2>1. \A i \in 1..Len(u) : (Len(u) - i) + 1 \in 1..Len(u)
    OBVIOUS
  <2> QED
    BY <2>1, IsASeq DEF Reverse
<1>3. PICK x, y : /\ x = Reverse(s) /\ y = Reverse(t)
                  /\ x \in Seq(S) /\ y \in Seq(S) /\ Len(x) = m /\ Len(y) = n
                  /\ \A i \in 1..m : x[i] = s[(m - i) + 1]
                  /\ \A i \in 1..n : y[i] = t[(n - i) + 1]
  BY <1>1, <1>2
<1>4. IsSuffix(s, t) <=> m <= n /\ SubSeq(x, 1, m) = SubSeq(y, 1, m)
  BY <1>3 DEF IsSuffix, IsPrefix
<1>5. ASSUME m <= n
      PROVE  SubSeq(x, 1, m) = SubSeq(y, 1, m) <=> \A i \in 1..m : x[i] = y[i]
  <2>1. SubSeq(x, 1, m) = x
    BY <1>1, <1>3, SubSeqFull
  <2>2. SubSeq(y, 1, m) \in Seq(S) /\ Len(SubSeq(y, 1, m)) = m
    BY <1>1, <1>3, <1>5
  <2>3. \A i \in 1..m : SubSeq(y, 1, m)[i] = y[i]
    BY <1>1, <1>3, <1>5
  <2>4. SubSeq(y, 1, m) = x <=> \A i \in 1..m : SubSeq(y, 1, m)[i] = x[i]
    BY <1>3, <2>2, SeqEqual
  <2> QED
    BY <2>1, <2>3, <2>4
<1>6. ASSUME m <= n
      PROVE  (\A i \in 1..m : x[i] = y[i]) <=> \A i \in 1..m : s[i] = t[(n - m) + i]
  <2>1. ASSUME \A i \in 1..m : x[i] = y[i], NEW i \in 1..m
        PROVE  s[i] = t[(n - m) + i]
    <3>1. PICK j : j = (m - i) + 1
      OBVIOUS
    <3>2. /\ j \in 1..m /\ j \in 1..n
          /\ (m - j) + 1 = i /\ (n - j) + 1 = (n - m) + i
      BY <1>1, <1>6, <3>1
    <3>3. x[j] = s[i] /\ y[j] = t[(n - m) + i]
      BY <1>3, <3>2
    <3> QED
      BY <2>1, <3>2, <3>3
  <2>2. ASSUME \A i \in 1..m : s[i] = t[(n - m) + i], NEW i \in 1..m
        PROVE  x[i] = y[i]
    <3>1. PICK j : j = (m - i) + 1
      OBVIOUS
    <3>2. j \in 1..m /\ i \in 1..n /\ (n - i) + 1 = (n - m) + j
      BY <1>1, <1>6, <3>1
    <3>3. x[i] = s[j] /\ y[i] = t[(n - m) + j]
      BY <1>3, <3>1, <3>2
    <3> QED
      BY <2>2, <3>2, <3>3
  <2> QED
    BY <2>1, <2>2
<1> QED
  BY <1>1, <1>4, <1>5, <1>6

LEMMA SuffixAppend ==
    ASSUME NEW S, NEW s \in Seq(S), NEW t \in Seq(S), NEW x \in S, IsSuffix(s, t)
    PROVE  IsSuffix(Append(s, x), Append(t, x))
<1>1. PICK m, n : /\ m = Len(s) /\ n = Len(t) /\ m \in Nat /\ n \in Nat
  <2>1. Len(s) \in Nat /\ Len(t) \in Nat
    OBVIOUS
  <2> QED
    BY <2>1, Zenon
<1>2. m <= n /\ \A i \in 1..m : s[i] = t[(n - m) + i]
  BY <1>1, SuffixPlaces
<1>3. PICK u, v : /\ u = Append(s, x) /\ v = Append(t, x)
                  /\ u \in Seq(S) /\ v \in Seq(S) /\ Len(u) = m + 1 /\ Len(v) = n + 1
                  /\ u[m + 1] = x /\ v[n + 1] = x
                  /\ \A i \in 1..m : u[i] = s[i]
                  /\ \A i \in 1..n : v[i] = t[i]
  <2>1. PICK u : u = Append(s, x)
    OBVIOUS
  <2>2. PICK v : v = Append(t, x)
    OBVIOUS
  <2>3. /\ u \in Seq(S) /\ Len(u) = m + 1 /\ u[m + 1] = x
        /\ \A i \in 1..m : u[i] = s[i]
    BY <1>1, <2>1, AppendProperties
  <2>4. /\ v \in Seq(S) /\ Len(v) = n + 1 /\ v[n + 1] = x
        /\ \A i \in 1..n : v[i] = t[i]
    BY <1>1, <2>2, AppendProperties
  <2> QED
    BY <2>1, <2>2, <2>3, <2>4, Zenon
<1>4. ASSUME NEW i \in 1..(m + 1)
      PROVE  u[i] = v[((n + 1) - (m + 1)) + i]
  <2>1. CASE i = m + 1
    <3>1. ((n + 1) - (m + 1)) + i = n + 1
      BY <1>1, <2>1
    <3> QED
      BY <1>3, <2>1, <3>1
  <2>2. CASE i # m + 1
    <3>1. i \in 1..m /\ ((n + 1) - (m + 1)) + i = (n - m) + i /\ (n - m) + i \in 1..n
      BY <1>1, <1>2, <2>2
    <3> QED
      BY <1>2, <1>3, <3>1
  <2> QED
    BY <2>1, <2>2
<1>5. m + 1 <= n + 1
  BY <1>1, <1>2
<1> QED
  BY <1>3, <1>4, <1>5, SuffixPlaces

LEMMA SuffixOfSuffix ==
    ASSUME NEW S, NEW front \in Seq(S), NEW s \in Seq(S), NEW t \in Seq(S),
           IsSuffix(front \o s, t)
    PROVE  IsSuffix(s, t)
<1>1. PICK k, m, n : /\ k = Len(front) /\ m = Len(s) /\ n = Len(t)
                     /\ k \in Nat /\ m \in Nat /\ n \in Nat
  <2>1. Len(front) \in Nat /\ Len(s) \in Nat /\ Len(t) \in Nat
    OBVIOUS
  <2> QED
    BY <2>1, Zenon
<1>2. PICK u : /\ u = front \o s /\ u \in Seq(S) /\ Len(u) = k + m
               /\ \A i \in 1..m : u[k + i] = s[i]
  <2>1. PICK u : u = front \o s
    OBVIOUS
  <2>2. /\ u \in Seq(S) /\ Len(u) = k + m
        /\ \A i \in 1..(k + m) : u[i] = IF i <= k THEN front[i] ELSE s[i - k]
    BY <1>1, <2>1, ConcatProperties
  <2>3. \A i \in 1..m : /\ k + i \in 1..(k + m) /\ ~ (k + i <= k)
                        /\ (k + i) - k = i
    BY <1>1
  <2>4. \A i \in 1..m : u[k + i] = s[i]
    BY <2>2, <2>3
  <2> QED
    BY <2>1, <2>2, <2>4
<1>3. k + m <= n /\ \A i \in 1..(k + m) : u[i] = t[(n - (k + m)) + i]
  <2>1. IsSuffix(u, t) /\ u \in Seq(S)
    BY <1>2
  <2>2. /\ Len(u) <= Len(t)
        /\ \A i \in 1..Len(u) : u[i] = t[(Len(t) - Len(u)) + i]
    BY <2>1, SuffixPlaces, Zenon
  <2> QED
    BY <1>1, <1>2, <2>2
<1>4. ASSUME NEW i \in 1..m
      PROVE  s[i] = t[(n - m) + i]
  <2>1. k + i \in 1..(k + m) /\ (n - (k + m)) + (k + i) = (n - m) + i
    BY <1>1, <1>3
  <2> QED
    BY <1>2, <1>3, <2>1
<1>5. m <= n
  BY <1>1, <1>3
<1> QED
  BY <1>1, <1>4, <1>5, SuffixPlaces

(* A suffix with anything in it ends where the whole ends.                 *)
LEMMA SuffixEnds ==
    ASSUME NEW S, NEW s \in Seq(S), NEW t \in Seq(S), IsSuffix(s, t), s # <<>>
    PROVE  t # <<>> /\ Last(t) = Last(s)
<1>1. PICK m, n : /\ m = Len(s) /\ n = Len(t) /\ m \in Nat /\ n \in Nat
                  /\ m \in 1..m
  <2>1. Len(s) \in Nat /\ Len(t) \in Nat /\ Len(s) \in 1..Len(s)
    OBVIOUS
  <2> QED
    BY <2>1, Zenon
<1>2. m <= n /\ \A i \in 1..m : s[i] = t[(n - m) + i]
  BY <1>1, SuffixPlaces
<1>3. (n - m) + m = n
  BY <1>1
<1> QED
  BY <1>1, <1>2, <1>3 DEF Last
-----------------------------------------------------------------------------
(* What a recursive function over 0..N goes through: step is applied N     *)
(* times to base.                                                          *)
Runs(f, base, step, N) ==
    /\ f[0] = base
    /\ \A n \in 1..N : f[n] = step[<<n, f[n - 1]>>]

LEMMA RunExists ==
    ASSUME NEW S, NEW base \in S, NEW N \in Nat, NEW step \in [(1..N) \X S -> S]
    PROVE  \E f \in [0..N -> S] : Runs(f, base, step, N)
<1> DEFINE Upto(f, m) == f \in [0..m -> S] /\ Runs(f, base, step, m)
           Bad == {m \in 0..N : ~ \E f : Upto(f, m)}
<1>1. SUFFICES ASSUME Bad # {} PROVE FALSE
  <2>1. N \in 0..N
    OBVIOUS
  <2>2. ASSUME Bad = {} PROVE \E f : Upto(f, N)
    <3> HIDE DEF Upto
    <3> QED
      BY <2>1, <2>2
  <2>3. \A f : Upto(f, N) => f \in [0..N -> S] /\ Runs(f, base, step, N)
    OBVIOUS
  <2> HIDE DEF Upto, Bad
  <2> QED
    BY <2>2, <2>3
<1>2. PICK m \in Bad : \A k \in Bad : m <= k
  <2>1. Bad \in SUBSET Nat
    <3> HIDE DEF Upto
    <3> QED
      OBVIOUS
  <2> HIDE DEF Bad
  <2> QED
    BY <1>1, <2>1, LeastNumber, Zenon
<1>3. m # 0
  <2>1. Upto([i \in 0..0 |-> base], 0)
    BY DEF Runs
  <2>2. 0 \in Bad => ~ \E f : Upto(f, 0)
    OBVIOUS
  <2> HIDE DEF Upto, Bad
  <2> QED
    BY <1>2, <2>1, <2>2
<1>4. m \in 1..N /\ m - 1 \in 0..N /\ m - 1 \in Nat /\ ~ (m <= m - 1) /\ m \in Nat
  BY <1>2, <1>3
<1>5. PICK f : Upto(f, m - 1)
  <2>1. m - 1 \notin Bad
    BY <1>2, <1>4
  <2> HIDE DEF Upto
  <2> QED
    BY <1>4, <2>1
<1> HIDE DEF Bad
<1> DEFINE fx == [i \in 0..m |-> IF i = m THEN step[<<m, f[m - 1]>>] ELSE f[i]]
<1>6. fx \in [0..m -> S] /\ fx[0] = base
  <2>1. f \in [0..(m - 1) -> S] /\ f[0] = base /\ m - 1 \in 0..(m - 1)
    BY <1>4, <1>5 DEF Runs
  <2>2. <<m, f[m - 1]>> \in (1..N) \X S
    BY <1>4, <2>1
  <2>3. step[<<m, f[m - 1]>>] \in S
    BY <2>2
  <2>4. \A i \in 0..m : i # m => i \in 0..(m - 1)
    BY <1>4
  <2>5. 0 \in 0..m /\ 0 # m
    BY <1>4
  <2> QED
    BY <2>1, <2>3, <2>4, <2>5
<1>7. ASSUME NEW i \in 1..m
      PROVE  fx[i] = step[<<i, fx[i - 1]>>]
  <2>1. i - 1 \in 0..m /\ i \in 0..m /\ i - 1 # m
    BY <1>4
  <2>2. fx[i - 1] = f[i - 1]
    BY <2>1
  <2>3. CASE i = m
    BY <2>1, <2>2, <2>3
  <2>4. CASE i # m
    <3>1. i \in 1..(m - 1) /\ fx[i] = f[i]
      BY <1>4, <2>1, <2>4
    <3>2. f[i] = step[<<i, f[i - 1]>>]
      BY <1>5, <3>1 DEF Runs
    <3> QED
      BY <2>2, <3>1, <3>2
  <2> QED
    BY <2>3, <2>4
<1> HIDE DEF fx
<1>8. Upto(fx, m)
  BY <1>6, <1>7 DEF Runs
<1>9. ~ \E g : Upto(g, m)
  <2> HIDE DEF Upto
  <2> QED
    BY <1>2 DEF Bad
<1> HIDE DEF Upto
<1> QED
  BY <1>8, <1>9

LEMMA RunUnique ==
    ASSUME NEW f, NEW g, NEW base, NEW N \in Nat, NEW step,
           Runs(f, base, step, N), Runs(g, base, step, N)
    PROVE  \A n \in 0..N : f[n] = g[n]
<1> DEFINE Bad == {n \in 0..N : f[n] # g[n]}
<1>1. SUFFICES ASSUME Bad # {} PROVE FALSE
  OBVIOUS
<1>2. PICK n \in Bad : \A k \in Bad : n <= k
  <2>1. Bad \in SUBSET Nat
    OBVIOUS
  <2> HIDE DEF Bad
  <2> QED
    BY <1>1, <2>1, LeastNumber, Zenon
<1>3. n \in 0..N /\ f[n] # g[n]
  OBVIOUS
<1>4. n # 0
  BY <1>3 DEF Runs
<1>5. n \in 1..N /\ n - 1 \in 0..N /\ ~ (n <= n - 1)
  BY <1>3, <1>4
<1>6. f[n - 1] = g[n - 1]
  BY <1>2, <1>5
<1> QED
  BY <1>3, <1>5, <1>6 DEF Runs
-----------------------------------------------------------------------------
(* FlattenSeq distributes over concatenation.                              *)
LEMMA FlattenNone ==
    FlattenSeq(<<>>) = <<>>
  BY DEF FlattenSeq

LEMMA FlattenIsSeq ==
    ASSUME NEW S, NEW s \in Seq(Seq(S))
    PROVE  FlattenSeq(s) \in Seq(S)
<1>1. CASE s = <<>>
  <2>1. <<>> \in Seq(S)
    OBVIOUS
  <2> QED
    BY <1>1, <2>1, FlattenNone
<1>2. CASE s # <<>>
  BY <1>2, FlattenLast
<1> QED
  BY <1>1, <1>2

LEMMA FlattenOne ==
    ASSUME NEW S, NEW x \in Seq(S)
    PROVE  FlattenSeq(<<x>>) = x
<1>1. <<x>> \in Seq(Seq(S)) /\ <<x>> # <<>> /\ Len(<<x>>) = 1 /\ <<x>>[1] = x
  OBVIOUS
<1>2. PICK h : Joins(h, <<x>>, S)
  BY <1>1, JoinsExist
<1>3. h[0] = <<>> /\ h[1] = h[0] \o x
  <2>1. 1 \in 1..Len(<<x>>) /\ 1 - 1 = 0
    BY <1>1
  <2>2. h[0] = <<>> /\ h[1] = h[1 - 1] \o <<x>>[1]
    BY <1>2, <2>1, Zenon DEF Joins
  <2> QED
    BY <1>1, <2>1, <2>2, Zenon
<1>4. FlattenSeq(<<x>>) = h[1]
  BY <1>1, <1>2, FlattenIsJoined
<1>5. <<>> \o x = x
  BY ConcatEmptySeq
<1> QED
  BY <1>3, <1>4, <1>5

LEMMA FlattenAppend ==
    ASSUME NEW S, NEW s \in Seq(Seq(S)), NEW x \in Seq(S)
    PROVE  FlattenSeq(Append(s, x)) = FlattenSeq(s) \o x
<1>1. CASE s = <<>>
  <2>1. Append(s, x) = <<x>> /\ <<>> \o x = x
    BY <1>1, ConcatEmptySeq
  <2>2. FlattenSeq(<<x>>) = x
    BY FlattenOne
  <2> QED
    BY <1>1, <2>1, <2>2, FlattenNone
<1>2. CASE s # <<>>
  <2>1. PICK n : n = Len(s) /\ n \in Nat /\ n # 0
    BY <1>2
  <2>2. PICK t : t = Append(s, x)
    OBVIOUS
  <2>3. /\ t \in Seq(Seq(S)) /\ t # <<>> /\ Len(t) = n + 1
        /\ t[n + 1] = x /\ \A i \in 1..n : t[i] = s[i]
    BY <2>1, <2>2, AppendProperties
  <2>4. PICK h : Joins(h, s, S)
    BY JoinsExist
  <2>5. /\ h \in [0..n -> Seq(S)] /\ h[0] = <<>>
        /\ \A i \in 1..n : h[i] = h[i - 1] \o s[i]
    BY <2>1, <2>4 DEF Joins
  <2> DEFINE hx == [i \in 0..(n + 1) |-> IF i = n + 1 THEN h[n] \o x ELSE h[i]]
  <2>6. /\ hx \in [0..(n + 1) -> Seq(S)]
        /\ hx[n + 1] = h[n] \o x /\ \A i \in 0..n : hx[i] = h[i]
    <3>1. h[n] \in Seq(S) /\ n + 1 \in 0..(n + 1)
      <4>1. n \in 0..n /\ n + 1 \in 0..(n + 1)
        BY <2>1
      <4> QED
        BY <2>5, <4>1, Zenon
    <3>2. \A i \in 0..(n + 1) : i # n + 1 => i \in 0..n
      BY <2>1
    <3>3. h[n] \o x \in Seq(S)
      BY <3>1
    <3>4. \A i \in 0..n : i # n + 1 /\ i \in 0..(n + 1)
      BY <2>1
    <3> QED
      BY <2>5, <3>1, <3>2, <3>3, <3>4
  <2> HIDE DEF hx
  <2>7. ASSUME NEW i \in 1..(n + 1)
        PROVE  hx[i] = hx[i - 1] \o t[i]
    <3>1. CASE i = n + 1
      <4>1. i - 1 = n /\ n \in 0..n
        BY <2>1, <3>1
      <4> QED
        BY <2>3, <2>6, <3>1, <4>1
    <3>2. CASE i # n + 1
      <4>1. i \in 1..n /\ i \in 0..n /\ i - 1 \in 0..n
        BY <2>1, <3>2
      <4>2. h[i] = h[i - 1] \o s[i] /\ t[i] = s[i]
        BY <2>3, <2>5, <4>1
      <4> QED
        BY <2>6, <4>1, <4>2
    <3> QED
      BY <3>1, <3>2
  <2>8. hx[0] = <<>>
    BY <2>1, <2>5, <2>6
  <2>9. Joins(hx, t, S)
    BY <2>3, <2>6, <2>7, <2>8 DEF Joins
  <2>10. FlattenSeq(t) = hx[n + 1]
    BY <2>3, <2>9, FlattenIsJoined
  <2>11. FlattenSeq(s) = h[n]
    BY <1>2, <2>1, <2>4, FlattenIsJoined
  <2> QED
    BY <2>2, <2>6, <2>10, <2>11
<1> QED
  BY <1>1, <1>2

(* What holds of no pieces, and of one piece more whenever it held before, *)
(* holds of every sequence: induction over a set in the place of a predicate. *)
LEMMA EverySequence ==
    ASSUME NEW S, NEW Good, <<>> \in Good,
           \A s \in Seq(S) : \A x \in S : s \in Good => Append(s, x) \in Good
    PROVE  Seq(S) \subseteq Good
<1> DEFINE Bad == {Len(s) : s \in Seq(S) \ Good}
<1>1. SUFFICES ASSUME Bad # {} PROVE FALSE
  OBVIOUS
<1>2. PICK n \in Bad : \A k \in Bad : n <= k
  <2>1. Bad \in SUBSET Nat
    OBVIOUS
  <2> HIDE DEF Bad
  <2> QED
    BY <1>1, <2>1, LeastNumber, Zenon
<1>3. PICK s \in Seq(S) : s \notin Good /\ n = Len(s)
  BY <1>2
<1>4. s # <<>>
  BY <1>3
<1>5. PICK t \in Seq(S), x \in S : s = Append(t, x)
  BY <1>4, SequenceEmptyOrAppend
<1>6. t \notin Good
  BY <1>3, <1>5
<1>7. Len(t) \in Bad
  BY <1>6
<1>8. Len(s) = Len(t) + 1 /\ Len(t) \in Nat
  BY <1>5, AppendProperties
<1>9. n <= Len(t)
  BY <1>2, <1>7
<1> QED
  BY <1>3, <1>8, <1>9

LEMMA FlattenConcat ==
    ASSUME NEW S, NEW s \in Seq(Seq(S)), NEW t \in Seq(Seq(S))
    PROVE  FlattenSeq(s \o t) = FlattenSeq(s) \o FlattenSeq(t)
<1> DEFINE Good == {u \in Seq(Seq(S)) : FlattenSeq(s \o u) = FlattenSeq(s) \o FlattenSeq(u)}
<1>1. <<>> \in Good
  <2>1. FlattenSeq(s) \in Seq(S) /\ <<>> \in Seq(Seq(S))
    BY FlattenIsSeq
  <2>2. s \o <<>> = s /\ FlattenSeq(s) \o <<>> = FlattenSeq(s)
    BY <2>1, ConcatEmptySeq
  <2> QED
    BY <2>1, <2>2, FlattenNone
<1>2. ASSUME NEW u \in Seq(Seq(S)), NEW x \in Seq(S), u \in Good
      PROVE  Append(u, x) \in Good
  <2>1. Append(u, x) \in Seq(Seq(S)) /\ s \o u \in Seq(Seq(S))
    BY AppendProperties, ConcatProperties
  <2>2. s \o Append(u, x) = Append(s \o u, x)
    BY GlueAppend DEF Glue
  <2>3. FlattenSeq(Append(s \o u, x)) = FlattenSeq(s \o u) \o x
    BY <2>1, FlattenAppend
  <2>4. FlattenSeq(Append(u, x)) = FlattenSeq(u) \o x
    BY FlattenAppend
  <2>5. FlattenSeq(s) \in Seq(S) /\ FlattenSeq(u) \in Seq(S)
    BY FlattenIsSeq
  <2>6. (FlattenSeq(s) \o FlattenSeq(u)) \o x = FlattenSeq(s) \o (FlattenSeq(u) \o x)
    BY <2>5, ConcatAssociative, SMTT(30)
  <2>7. FlattenSeq(s \o u) = FlattenSeq(s) \o FlattenSeq(u)
    BY <1>2
  <2>8. FlattenSeq(s \o Append(u, x)) = FlattenSeq(s) \o FlattenSeq(Append(u, x))
    BY <2>2, <2>3, <2>4, <2>6, <2>7, Zenon
  <2> QED
    BY <2>1, <2>8
<1>3. Seq(Seq(S)) \subseteq Good
  <2> HIDE DEF Good
  <2> QED
    BY <1>1, <1>2, EverySequence
<1> QED
  BY <1>3
-----------------------------------------------------------------------------
(* Sequences of one and of two.                                            *)
LEMMA OneSeq ==
    ASSUME NEW S, NEW x \in S
    PROVE  /\ <<x>> \in Seq(S) /\ <<x>> # <<>> /\ Len(<<x>>) = 1 /\ <<x>>[1] = x
           /\ DOMAIN <<x>> = 1..1
<1>1. <<x>> \in Seq(S) /\ <<x>> # <<>> /\ Len(<<x>>) = 1 /\ <<x>>[1] = x
  OBVIOUS
<1>2. DOMAIN <<x>> = 1..Len(<<x>>)
  BY <1>1, LenProperties
<1> QED
  BY <1>1, <1>2

LEMMA TwoSeq ==
    ASSUME NEW S, NEW x \in S, NEW y \in S
    PROVE  /\ <<x, y>> \in Seq(S) /\ <<x, y>> # <<>> /\ Len(<<x, y>>) = 2
           /\ <<x, y>>[1] = x /\ <<x, y>>[2] = y /\ DOMAIN <<x, y>> = 1..2
           /\ <<x>> \o <<y>> = <<x, y>>
<1>1. /\ <<x, y>> \in Seq(S) /\ <<x, y>> # <<>> /\ Len(<<x, y>>) = 2
      /\ <<x, y>>[1] = x /\ <<x, y>>[2] = y
  OBVIOUS
<1>2. DOMAIN <<x, y>> = 1..Len(<<x, y>>)
  BY <1>1, LenProperties
<1>3. <<x>> \o <<y>> = Append(<<x>>, y)
  BY OneSeq, AppendIsConcat
<1>4. Append(<<x>>, y) = <<x, y>>
  <2>1. PICK u : u = <<x>> /\ u \in Seq(S) /\ Len(u) = 1 /\ u[1] = x
    BY OneSeq
  <2>2. PICK v : v = Append(u, y)
    OBVIOUS
  <2>3. v \in Seq(S) /\ Len(v) = 2 /\ v[1] = x /\ v[2] = y
    BY <2>1, <2>2, AppendProperties
  <2>4. v = <<x, y>>
    BY <1>1, <2>3
  <2> QED
    BY <2>1, <2>2, <2>4
<1> QED
  BY <1>1, <1>2, <1>3, <1>4

LEMMA AppendInSeq ==
    ASSUME NEW S, NEW F, NEW u \in Seq(S), NEW x \in S
    PROVE  Append(u, x) \in Seq(F) <=> u \in Seq(F) /\ x \in F
<1>1. ASSUME Append(u, x) \in Seq(F)
      PROVE  u \in Seq(F) /\ x \in F
  <2>1. PICK n, v : n = Len(u) /\ n \in Nat /\ v = Append(u, x)
    <3>1. Len(u) \in Nat
      OBVIOUS
    <3> QED
      BY <3>1, Zenon
  <2>2. v \in Seq(F) /\ Len(v) = n + 1 /\ v[n + 1] = x /\ \A i \in 1..n : v[i] = u[i]
    BY <1>1, <2>1, AppendProperties
  <2>3. \A i \in 1..(n + 1) : v[i] \in F
    BY <2>1, <2>2
  <2>4. n + 1 \in 1..(n + 1) /\ \A i \in 1..n : i \in 1..(n + 1)
    BY <2>1
  <2>5. x \in F /\ \A i \in 1..n : u[i] \in F
    BY <2>2, <2>3, <2>4
  <2>6. u \in Seq(F)
    BY <2>1, <2>5
  <2> QED
    BY <2>5, <2>6
<1> QED
  BY <1>1

LEMMA ConcatInSeq ==
    ASSUME NEW S, NEW F, NEW u \in Seq(S), NEW v \in Seq(S)
    PROVE  u \o v \in Seq(F) <=> u \in Seq(F) /\ v \in Seq(F)
<1>1. ASSUME u \o v \in Seq(F)
      PROVE  u \in Seq(F) /\ v \in Seq(F)
  <2>1. PICK m, n, w : m = Len(u) /\ n = Len(v) /\ m \in Nat /\ n \in Nat /\ w = u \o v
    <3>1. Len(u) \in Nat /\ Len(v) \in Nat
      OBVIOUS
    <3> QED
      BY <3>1, Zenon
  <2>2. /\ w \in Seq(F) /\ Len(w) = m + n
        /\ \A i \in 1..(m + n) : w[i] = IF i <= m THEN u[i] ELSE v[i - m]
    BY <1>1, <2>1, ConcatProperties
  <2>3. \A i \in 1..(m + n) : w[i] \in F
    BY <2>1, <2>2
  <2>4. /\ \A i \in 1..m : i \in 1..(m + n) /\ i <= m
        /\ \A i \in 1..n : m + i \in 1..(m + n) /\ ~ (m + i <= m) /\ (m + i) - m = i
    BY <2>1
  <2>5. \A i \in 1..m : u[i] \in F
    BY <2>2, <2>3, <2>4
  <2>6. \A i \in 1..n : v[i] \in F
    BY <2>2, <2>3, <2>4
  <2> QED
    BY <2>1, <2>5, <2>6
<1> QED
  BY <1>1, ConcatProperties
-----------------------------------------------------------------------------
(* The first and the last of some places.                                  *)
LEMMA MinPlace ==
    ASSUME NEW P \in SUBSET Nat, P # {}
    PROVE  Min(P) \in P /\ \A k \in P : Min(P) <= k
<1>1. \E n \in P : \A k \in P : n <= k
  BY LeastNumber
<1> QED
  BY <1>1 DEF Min

LEMMA MaxPlace ==
    ASSUME NEW N \in Nat, NEW P \in SUBSET (0..N), P # {}
    PROVE  Max(P) \in P /\ \A k \in P : k <= Max(P)
<1> DEFINE Back == {N - k : k \in P}
<1>1. Back \in SUBSET Nat /\ Back # {}
  <2>1. \A k \in P : k \in 0..N
    OBVIOUS
  <2>2. \A k \in P : N - k \in Nat
    BY <2>1
  <2> QED
    BY <2>2
<1>2. PICK b \in Back : \A k \in Back : b <= k
  <2> HIDE DEF Back
  <2> QED
    BY <1>1, LeastNumber
<1>3. PICK n \in P : b = N - n
  BY <1>2
<1>4. \A k \in P : n >= k
  <2>1. \A k \in P : N - n <= N - k
    BY <1>2, <1>3
  <2> QED
    BY <2>1
<1>5. \E x \in P : \A k \in P : x >= k
  BY <1>4
<1>6. Max(P) \in P /\ \A k \in P : Max(P) >= k
  <2> HIDE DEF Back
  <2> QED
    BY <1>5 DEF Max
<1> QED
  BY <1>6

(* Induction over 0..N, with a set in place of the predicate.              *)
LEMMA EveryNumber ==
    ASSUME NEW N \in Nat, NEW Good, 0 \in Good,
           \A n \in 1..N : n - 1 \in Good => n \in Good
    PROVE  \A n \in 0..N : n \in Good
<1> DEFINE Bad == {n \in 0..N : n \notin Good}
<1>1. SUFFICES ASSUME Bad # {} PROVE FALSE
  OBVIOUS
<1>2. PICK n \in Bad : \A k \in Bad : n <= k
  <2>1. Bad \in SUBSET Nat
    OBVIOUS
  <2> HIDE DEF Bad
  <2> QED
    BY <1>1, <2>1, LeastNumber, Zenon
<1>3. n \in 0..N /\ n \notin Good
  OBVIOUS
<1>4. n \in 1..N /\ n - 1 \in 0..N /\ ~ (n <= n - 1)
  BY <1>3
<1>5. n - 1 \in Good
  BY <1>2, <1>4
<1> QED
  BY <1>3, <1>4, <1>5

(* The image of a finite set under a function is finite.                   *)
LEMMA ImageFinite ==
    ASSUME NEW S, IsFiniteSet(S), NEW h
    PROVE  IsFiniteSet({h[x] : x \in S})
<1> DEFINE T == {h[x] : x \in S}
           f == [x \in S |-> h[x]]
<1>1. f \in Surjection(S, T)
  BY DEF Surjection
<1> HIDE DEF f, T
<1> QED
  BY <1>1, FS_Surjection DEF T

(* Pairs of a place and a start, one to a pair, are finitely many.         *)
LEMMA OneToAPlace ==
    ASSUME NEW P, IsFiniteSet(P), NEW S, NEW key, \A x \in S : key[x] \in P,
           \A x, y \in S : key[x] = key[y] => x = y
    PROVE  IsFiniteSet(S)
<1> DEFINE Q == {key[x] : x \in S}
           back == [k \in Q |-> CHOOSE x \in S : key[x] = k]
<1>1. IsFiniteSet(Q)
  <2>1. Q \in SUBSET P
    OBVIOUS
  <2> QED
    BY <2>1, FS_Subset
<1>2. IsFiniteSet({back[k] : k \in Q})
  <2> HIDE DEF Q, back
  <2> QED
    BY <1>1, ImageFinite
<1>3. ASSUME NEW x \in S PROVE back[key[x]] = x /\ key[x] \in Q
  <2>1. key[x] \in Q /\ \E y \in S : key[y] = key[x]
    OBVIOUS
  <2>2. back[key[x]] = CHOOSE y \in S : key[y] = key[x]
    BY <2>1
  <2>3. back[key[x]] \in S /\ key[back[key[x]]] = key[x]
    BY <2>1, <2>2
  <2> QED
    BY <2>1, <2>3
<1>4. S \subseteq {back[k] : k \in Q}
  BY <1>3
<1> QED
  BY <1>2, <1>4, FS_Subset

(* Joining and appending.                                                  *)
LEMMA ConcatAppend ==
    ASSUME NEW S, NEW a \in Seq(S), NEW b \in Seq(S), NEW x \in S
    PROVE  a \o Append(b, x) = Append(a \o b, x)
  BY GlueAppend DEF Glue

(* A sequence with each of its items put through g.                        *)
Maps(g, S, T) == \A x \in S : g[x] \in T

Spelled(g, u) == [i \in DOMAIN u |-> g[u[i]]]

(* Place by place.                                                         *)
LEMMA SpelledPlaces ==
    ASSUME NEW S, NEW T, NEW g, Maps(g, S, T), NEW u \in Seq(S)
    PROVE  /\ Spelled(g, u) \in Seq(T) /\ Len(Spelled(g, u)) = Len(u)
           /\ DOMAIN Spelled(g, u) = 1..Len(u) /\ DOMAIN u = 1..Len(u)
           /\ \A i \in 1..Len(u) : Spelled(g, u)[i] = g[u[i]]
<1>1. PICK n : n = Len(u) /\ n \in Nat /\ DOMAIN u = 1..n /\ \A i \in 1..n : u[i] \in S
  <2>1. Len(u) \in Nat /\ DOMAIN u = 1..Len(u) /\ \A i \in 1..Len(u) : u[i] \in S
    OBVIOUS
  <2> QED
    BY <2>1, Zenon
<1>2. PICK v : v = Spelled(g, u) /\ v = [i \in 1..n |-> g[u[i]]]
  BY <1>1 DEF Spelled
<1>3. v \in [1..n -> T]
  BY <1>1, <1>2 DEF Maps
<1>4. v \in Seq(T) /\ Len(v) = n /\ DOMAIN v = 1..n
  BY <1>1, <1>2, <1>3
<1>5. \A i \in 1..n : v[i] = g[u[i]]
  BY <1>2
<1> QED
  BY <1>1, <1>2, <1>4, <1>5

(* One item more.                                                          *)
LEMMA SpelledAppend ==
    ASSUME NEW S, NEW T, NEW g, Maps(g, S, T), NEW u \in Seq(S), NEW x \in S
    PROVE  Spelled(g, Append(u, x)) = Append(Spelled(g, u), g[x])
<1>1. PICK n : n = Len(u) /\ n \in Nat
  <2>1. Len(u) \in Nat
    OBVIOUS
  <2> QED
    BY <2>1, Zenon
<1>2. PICK v, a, b, y, c : /\ v = Append(u, x) /\ a = Spelled(g, u) /\ b = Spelled(g, v)
                           /\ y = g[x] /\ c = Append(a, y)
  OBVIOUS
<1>3. /\ v \in Seq(S) /\ Len(v) = n + 1
      /\ v[n + 1] = x /\ \A i \in 1..n : v[i] = u[i]
  BY <1>1, <1>2, AppendProperties
<1>4. a \in Seq(T) /\ Len(a) = n /\ \A i \in 1..n : a[i] = g[u[i]]
  BY <1>1, <1>2, SpelledPlaces
<1>5. b \in Seq(T) /\ Len(b) = Len(v) /\ \A i \in 1..Len(v) : b[i] = g[v[i]]
  <2>1. v \in Seq(S)
    BY <1>3
  <2>2. /\ Spelled(g, v) \in Seq(T) /\ Len(Spelled(g, v)) = Len(v)
        /\ \A i \in 1..Len(v) : Spelled(g, v)[i] = g[v[i]]
    BY ONLY Maps(g, S, T), <2>1, SpelledPlaces
  <2> QED
    BY <1>2, <2>2
<1>6. y \in T
  BY <1>2 DEF Maps
<1>7. /\ c \in Seq(T) /\ Len(c) = n + 1
      /\ c[n + 1] = y /\ \A i \in 1..n : c[i] = a[i]
  BY <1>2, <1>4, <1>6, AppendProperties
<1>8. \A i \in 1..(n + 1) : i \in 1..n \/ i = n + 1
  BY <1>1
<1>9. n + 1 \in 1..(n + 1)
  BY <1>1
<1>10. \A i \in 1..(n + 1) : b[i] = c[i]
  BY <1>2, <1>3, <1>4, <1>5, <1>7, <1>8, <1>9
<1>11. b = c
  BY <1>3, <1>5, <1>7, <1>10, SeqEqual
<1> QED
  BY <1>2, <1>11

(* No item.                                                                *)
LEMMA SpelledNone ==
    ASSUME NEW g
    PROVE  Spelled(g, <<>>) = <<>>
  BY DEF Spelled

(* Two sequences joined.                                                   *)
LEMMA SpelledConcat ==
    ASSUME NEW S, NEW T, NEW g, Maps(g, S, T), NEW u \in Seq(S), NEW v \in Seq(S)
    PROVE  Spelled(g, u \o v) = Spelled(g, u) \o Spelled(g, v)
<1> DEFINE Good == {w \in Seq(S) : Spelled(g, u \o w) = Spelled(g, u) \o Spelled(g, w)}
<1>1. <<>> \in Good
  <2>1. Spelled(g, u) \in Seq(T) /\ <<>> \in Seq(S)
    BY SpelledPlaces
  <2>2. u \o <<>> = u /\ Spelled(g, u) \o <<>> = Spelled(g, u)
    BY <2>1, ConcatEmptySeq
  <2> QED
    BY <2>1, <2>2, SpelledNone
<1>2. ASSUME NEW w \in Seq(S), NEW x \in S, w \in Good
      PROVE  Append(w, x) \in Good
  <2>1. Append(w, x) \in Seq(S) /\ u \o w \in Seq(S)
    BY AppendProperties, ConcatProperties
  <2>2. u \o Append(w, x) = Append(u \o w, x)
    BY GlueAppend DEF Glue
  <2>3. Spelled(g, Append(u \o w, x)) = Append(Spelled(g, u \o w), g[x])
    <3>1. PICK z : z = u \o w /\ z \in Seq(S)
      BY <2>1
    <3>2. z \in Seq(S)
      BY <3>1
    <3>3. Spelled(g, Append(z, x)) = Append(Spelled(g, z), g[x])
      BY ONLY Maps(g, S, T), <3>2, x \in S, SpelledAppend
    <3> QED
      BY <3>1, <3>3
  <2>4. Spelled(g, Append(w, x)) = Append(Spelled(g, w), g[x])
    BY SpelledAppend
  <2>5. Spelled(g, u) \in Seq(T) /\ Spelled(g, w) \in Seq(T)
    BY SpelledPlaces
  <2>6. PICK y : y = g[x] /\ y \in T
    BY DEF Maps
  <2>7. Append(Spelled(g, u) \o Spelled(g, w), y) = Spelled(g, u) \o Append(Spelled(g, w), y)
    <3>1. PICK a, b : /\ a = Spelled(g, u) /\ b = Spelled(g, w) /\ a \in Seq(T) /\ b \in Seq(T)
      BY <2>5
    <3>2. a \in Seq(T) /\ b \in Seq(T) /\ y \in T
      BY <2>6, <3>1
    <3>3. a \o Append(b, y) = Append(a \o b, y)
      BY ONLY <3>2, ConcatAppend
    <3> QED
      BY <3>1, <3>3
  <2>8. Spelled(g, u \o w) = Spelled(g, u) \o Spelled(g, w)
    BY <1>2
  <2>9. Spelled(g, u \o Append(w, x)) = Spelled(g, u) \o Spelled(g, Append(w, x))
    BY <2>2, <2>3, <2>4, <2>6, <2>7, <2>8, Zenon
  <2> QED
    BY <2>1, <2>9
<1>3. Seq(S) \subseteq Good
  <2> HIDE DEF Good
  <2> QED
    BY <1>1, <1>2, EverySequence
<1> QED
  BY <1>3

(* Spelling a text of pieces is spelling each piece.                       *)
LEMMA SpelledFlatten ==
    ASSUME NEW S, NEW T, NEW g, Maps(g, S, T), NEW s \in Seq(Seq(S)),
           NEW G, \A u \in Seq(S) : G[u] = Spelled(g, u)
    PROVE  Spelled(g, FlattenSeq(s)) = FlattenSeq(Spelled(G, s))
<1> DEFINE Good == {w \in Seq(Seq(S)) : Spelled(g, FlattenSeq(w)) = FlattenSeq(Spelled(G, w))}
<1>1. Maps(G, Seq(S), Seq(T))
  <2>1. ASSUME NEW u \in Seq(S) PROVE G[u] \in Seq(T)
    <3>1. Spelled(g, u) \in Seq(T)
      BY SpelledPlaces
    <3> QED
      BY <3>1
  <2> QED
    BY <2>1 DEF Maps
<1>2. <<>> \in Good
  <2>1. <<>> \in Seq(Seq(S)) /\ FlattenSeq(<<>>) = <<>>
    BY FlattenNone
  <2>2. Spelled(g, <<>>) = <<>> /\ Spelled(G, <<>>) = <<>>
    BY SpelledNone
  <2> QED
    BY <2>1, <2>2
<1>3. ASSUME NEW w \in Seq(Seq(S)), NEW x \in Seq(S), w \in Good
      PROVE  Append(w, x) \in Good
  <2>1. Append(w, x) \in Seq(Seq(S)) /\ FlattenSeq(w) \in Seq(S)
    BY AppendProperties, FlattenIsSeq
  <2>2. FlattenSeq(Append(w, x)) = FlattenSeq(w) \o x
    BY FlattenAppend
  <2>3. Spelled(g, FlattenSeq(w) \o x) = Spelled(g, FlattenSeq(w)) \o Spelled(g, x)
    BY <2>1, SpelledConcat
  <2>4. Spelled(G, Append(w, x)) = Append(Spelled(G, w), G[x])
    BY <1>1, SpelledAppend
  <2>5. Spelled(G, w) \in Seq(Seq(T)) /\ G[x] \in Seq(T)
    <3>1. Spelled(G, w) \in Seq(Seq(T))
      BY <1>1, SpelledPlaces
    <3> QED
      BY <1>1, <3>1 DEF Maps
  <2>6. FlattenSeq(Append(Spelled(G, w), G[x])) = FlattenSeq(Spelled(G, w)) \o G[x]
    BY <2>5, FlattenAppend
  <2>7. G[x] = Spelled(g, x) /\ Spelled(g, FlattenSeq(w)) = FlattenSeq(Spelled(G, w))
    BY <1>3
  <2>8. Spelled(g, FlattenSeq(Append(w, x))) = FlattenSeq(Spelled(G, Append(w, x)))
    BY <2>2, <2>3, <2>4, <2>6, <2>7, Zenon
  <2> QED
    BY <2>1, <2>8
<1>4. Seq(Seq(S)) \subseteq Good
  <2> HIDE DEF Good
  <2> QED
    BY <1>2, <1>3, EverySequence
<1> QED
  BY <1>4

(* Two levels of pieces can be joined from either end.                     *)
LEMMA FlattenTwice ==
    ASSUME NEW T, NEW s \in Seq(Seq(Seq(T))),
           NEW F, \A u \in Seq(Seq(T)) : F[u] = FlattenSeq(u)
    PROVE  FlattenSeq(FlattenSeq(s)) = FlattenSeq(Spelled(F, s))
<1> DEFINE Good == {w \in Seq(Seq(Seq(T))) :
                       FlattenSeq(FlattenSeq(w)) = FlattenSeq(Spelled(F, w))}
<1>1. Maps(F, Seq(Seq(T)), Seq(T))
  BY FlattenIsSeq DEF Maps
<1>2. <<>> \in Good
  <2>1. <<>> \in Seq(Seq(Seq(T))) /\ FlattenSeq(<<>>) = <<>> /\ Spelled(F, <<>>) = <<>>
    BY FlattenNone, SpelledNone
  <2> QED
    BY <2>1
<1>3. ASSUME NEW w \in Seq(Seq(Seq(T))), NEW x \in Seq(Seq(T)), w \in Good
      PROVE  Append(w, x) \in Good
  <2>1. Append(w, x) \in Seq(Seq(Seq(T))) /\ FlattenSeq(w) \in Seq(Seq(T))
    <3>1. FlattenSeq(w) \in Seq(Seq(T))
      BY FlattenIsSeq
    <3> QED
      BY <3>1, AppendProperties
  <2>2. FlattenSeq(Append(w, x)) = FlattenSeq(w) \o x
    BY FlattenAppend
  <2>3. FlattenSeq(FlattenSeq(w) \o x) = FlattenSeq(FlattenSeq(w)) \o FlattenSeq(x)
    BY <2>1, FlattenConcat
  <2>4. Spelled(F, Append(w, x)) = Append(Spelled(F, w), F[x])
    BY <1>1, SpelledAppend
  <2>5. Spelled(F, w) \in Seq(Seq(T)) /\ F[x] \in Seq(T)
    <3>1. Spelled(F, w) \in Seq(Seq(T))
      BY <1>1, SpelledPlaces
    <3> QED
      BY <1>1, <3>1 DEF Maps
  <2>6. FlattenSeq(Append(Spelled(F, w), F[x])) = FlattenSeq(Spelled(F, w)) \o F[x]
    BY <2>5, FlattenAppend
  <2>7. F[x] = FlattenSeq(x) /\ FlattenSeq(FlattenSeq(w)) = FlattenSeq(Spelled(F, w))
    BY <1>3
  <2>8. FlattenSeq(FlattenSeq(Append(w, x))) = FlattenSeq(Spelled(F, Append(w, x)))
    BY <2>2, <2>3, <2>4, <2>6, <2>7, Zenon
  <2> QED
    BY <2>1, <2>8
<1>4. Seq(Seq(Seq(T))) \subseteq Good
  <2> HIDE DEF Good
  <2> QED
    BY <1>2, <1>3, EverySequence
<1> QED
  BY <1>4

(* The text up to a place and what follows it up to another are the text   *)
(* up to the second.                                                       *)
LEMMA FrontGrows ==
    ASSUME NEW S, NEW s \in Seq(S), NEW k \in 0..Len(s), NEW n \in k..Len(s)
    PROVE  SubSeq(s, 1, k) \o SubSeq(s, k + 1, n) = SubSeq(s, 1, n)
<1>1. 1 \in 1..(Len(s) + 1) /\ k \in (1 - 1)..Len(s)
  OBVIOUS
<1> QED
  BY <1>1, ConcatAdjacentSubSeq

(* A part of a sequence is a sequence over the same set.                   *)
LEMMA FrontInSeq ==
    ASSUME NEW S, NEW s \in Seq(S), NEW m \in 1..(Len(s) + 1), NEW n \in 0..Len(s)
    PROVE  SubSeq(s, m, n) \in Seq(S)
<1>1. \A i \in m..n : s[i] \in S
  OBVIOUS
<1>2. m \in Int /\ n \in Int
  OBVIOUS
<1> QED
  BY <1>1, <1>2, SubSeqProperties
-----------------------------------------------------------------------------
(* iter is the fold of g over 1..n that takes the largest first.           *)
LargestFirst(iter, g, n) ==
    iter = [T \in SUBSET (1..n) |-> IF T = {} THEN 0 ELSE iter[T \ {Max(T)}] + g[Max(T)]]

(* The largest of some numbers up to n is one of them.                     *)
LEMMA LargestIsMember ==
    ASSUME NEW n \in Nat, NEW T \in SUBSET (1..n), T # {}
    PROVE  Max(T) \in T
<1>1. T \in SUBSET (0..n)
  OBVIOUS
<1>2. Max(T) \in T /\ \A k \in T : k <= Max(T)
  BY <1>1, MaxPlace
<1> QED
  BY <1>2

(* A fold that takes the largest of a set of numbers first.                *)
LEMMA LargestFirstIsTable ==
    ASSUME NEW g, NEW n \in Nat, \A y \in 1..n : g[y] \in Nat,
           NEW h, Tabulates(h, g, 1..n),
           NEW iter, LargestFirst(iter, g, n)
    PROVE  iter[1..n] = h[1..n]
<1> DEFINE S == 1..n
           Wrong == {T \in SUBSET S : iter[T] # h[T]}
<1>1. IsFiniteSet(S)
  BY IntervalFinite
<1>2. ASSUME NEW T \in SUBSET S, T # {} PROVE Max(T) \in T
  BY <1>2, LargestIsMember
<1>3. \A T \in SUBSET S : iter[T] = IF T = {} THEN 0 ELSE iter[T \ {Max(T)}] + g[Max(T)]
  <2>1. PICK same : same = iter
    OBVIOUS
  <2>2. same = [T \in SUBSET S |-> IF T = {} THEN 0 ELSE same[T \ {Max(T)}] + g[Max(T)]]
    BY <2>1 DEF LargestFirst
  <2>3. \A T \in SUBSET S : same[T] = IF T = {} THEN 0 ELSE same[T \ {Max(T)}] + g[Max(T)]
    BY <2>2
  <2> QED
    BY <2>1, <2>3
<1>4. ASSUME NEW T \in Wrong, \A x \in T : T \ {x} \notin Wrong
      PROVE  FALSE
  <2>1. T \in SUBSET S /\ iter[T] # h[T]
    OBVIOUS
  <2>2. T # {}
    BY <1>3, <2>1 DEF Tabulates
  <2>3. PICK x : x = Max(T) /\ x \in T
    BY <1>2, <2>1, <2>2
  <2>4. T \ {x} \in SUBSET S /\ iter[T \ {x}] = h[T \ {x}]
    BY <1>4, <2>1, <2>3
  <2>5. iter[T] = h[T \ {x}] + g[x]
    BY <1>3, <2>1, <2>2, <2>3, <2>4
  <2>6. h[(T \ {x}) \cup {x}] = g[x] + h[T \ {x}] /\ h[T] \in Nat /\ h[T \ {x}] \in Nat
    BY <2>1, <2>3, <2>4 DEF Tabulates
  <2>7. (T \ {x}) \cup {x} = T
    BY <2>3
  <2>8. h[T \ {x}] + g[x] = g[x] + h[T \ {x}]
    <3>1. PICK p, q : p = h[T \ {x}] /\ q = g[x] /\ p \in Nat /\ q \in Nat
      BY <2>1, <2>3, <2>6
    <3> QED
      BY <3>1
  <2> QED
    BY <2>1, <2>5, <2>6, <2>7, <2>8
<1>5. Wrong = {}
  <2>1. Wrong \in SUBSET SUBSET S
    OBVIOUS
  <2> HIDE DEF Wrong
  <2> QED
    BY <1>1, <1>4, <2>1, SmallestSubset, Zenon
<1> QED
  BY <1>5
=============================================================================

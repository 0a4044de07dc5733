------------------------- MODULE ConversationsProofs -------------------------
(***************************************************************************)
(* What is proved of Conversations for any requests, replicas, workloads   *)
(* and limits: the dictionaries stay one-to-one, the caches and stores     *)
(* within their limits, no answer is older than the two tiers allow, no    *)
(* idle dictionary outlives the janitor, and a token never changes its     *)
(* meaning (IInv).  What a text says when it is put back together is       *)
(* proved from the operators up, for texts of any length: detection cuts a *)
(* text apart, compression keeps what hydration gives, the cache renames   *)
(* tokens by their places; Faithful carries that through the steps.        *)
(***************************************************************************)
EXTENDS Conversations, SumsAndSequences

IsList(s) == \E S : s \in Seq(S)

(* An entry has the fields the code gives it, and ages that are numbers.   *)
IsEntry(e) ==
    /\ e = [key |-> e.key, age |-> e.age, born |-> e.born, from |-> e.from,
            content |-> e.content]
    /\ e.age \in Nat /\ e.born \in Nat

(* A tier's own clock lags the answer's by one stay in the shared tier.    *)
Lags(e) == e.born <= SharedTTL + e.age

OneEntryPerKey(c) == \A i, j \in DOMAIN c : c[i].key = c[j].key => i = j

IsCache(c) ==
    /\ IsList(c) /\ Len(c) <= CacheMax
    /\ OneEntryPerKey(c)
    /\ \A i \in DOMAIN c : IsEntry(c[i]) /\ Lags(c[i])

(* The shared tier never restarts an entry's clock.                        *)
IsBackend(b) == \A e \in b : IsEntry(e) /\ e.born <= e.age /\ e.age <= SharedTTL

IsStore(st) == IsList(st) /\ Len(st) <= SessionMax /\ Kept(st) \subseteq Sessions

(* A token's number is below its namespace's counter, so the next is new;  *)
(* the two maps are each other's inverse.                                  *)
Numbered(d) ==
    \A t \in DOMAIN d.reverse :
        IF t[1] = "REF" THEN t[2] \in 1..d.nRef ELSE t[2] \in 1..d.nVar

OneToOne(d) ==
    /\ \A v \in DOMAIN d.forward : /\ d.forward[v] \in DOMAIN d.reverse
                                   /\ d.reverse[d.forward[v]] = v
    /\ \A t \in DOMAIN d.reverse : /\ d.reverse[t] \in DOMAIN d.forward
                                   /\ d.forward[d.reverse[t]] = t

IsDictionary(d) ==
    /\ d = [forward |-> d.forward, reverse |-> d.reverse, class |-> d.class,
            nVar |-> d.nVar, nRef |-> d.nRef]
    /\ d.nVar \in Nat /\ d.nRef \in Nat
    /\ DOMAIN d.class = DOMAIN d.reverse
    /\ IsFiniteSet(DOMAIN d.reverse)
    /\ Cardinality(DOMAIN d.reverse) = d.nVar + d.nRef
    /\ Numbered(d) /\ OneToOne(d)
-----------------------------------------------------------------------------
LEMMA IntervalIsPositive == Interval \in Nat \ {0}
<1>1. SessionTTL \div 4 \in Nat
  BY SessionAssumption
<1> QED
  BY <1>1 DEF Interval

LEMMA LimitsAreNumbers ==
    /\ CacheMax \in Nat /\ CacheTTL \in Nat /\ SharedTTL \in Nat
    /\ SessionMax \in Nat \ {0} /\ SessionTTL \in Nat \ {0}
    /\ AgeCap \in Nat /\ BornCap \in Nat /\ IdleCap \in Nat
    /\ BornCap = SharedTTL + AgeCap /\ CacheTTL < AgeCap
    /\ IdleCap = SessionTTL + Interval + 1
  BY CacheAssumption, SharedAssumption, SessionAssumption, IntervalIsPositive
     DEF AgeCap, BornCap, IdleCap

LEMMA OlderCounts ==
    ASSUME NEW n \in Nat, NEW cap \in Nat
    PROVE  /\ Older(n, cap) \in Nat /\ Older(n, cap) <= n + 1
           /\ n <= Older(n, cap)
           /\ n < cap => Older(n, cap) = n + 1
           /\ n <= cap => Older(n, cap) <= cap
           /\ ~ (n < cap) => Older(n, cap) = n
  BY DEF Older
-----------------------------------------------------------------------------
(* An entry with an earlier one of its key taken out, or a sequence cut.   *)
LEMMA RemovedPlaces ==
    ASSUME NEW S, NEW s \in Seq(S), NEW i \in DOMAIN s
    PROVE  /\ RemoveAt(s, i) \in Seq(S)
           /\ Len(RemoveAt(s, i)) + 1 = Len(s)
           /\ \A j \in DOMAIN RemoveAt(s, i) :
                 IF j < i THEN j \in DOMAIN s /\ RemoveAt(s, i)[j] = s[j]
                 ELSE j + 1 \in DOMAIN s /\ RemoveAt(s, i)[j] = s[j + 1]
<1>1. PICK n : n = Len(s) /\ n \in Nat /\ i \in 1..n
  OBVIOUS
<1>2. PICK a : /\ a = SubSeq(s, 1, i - 1) /\ a \in Seq(S) /\ Len(a) = i - 1
               /\ \A j \in 1..(i - 1) : a[j] = s[j]
  <2>1. i - 1 \in Nat /\ i - 1 <= n
    BY <1>1
  <2>2. SubSeq(s, 1, i - 1) \in Seq(S) /\ Len(SubSeq(s, 1, i - 1)) = i - 1
    BY <1>1, <2>1
  <2>3. \A j \in 1..(i - 1) : SubSeq(s, 1, i - 1)[j] = s[j]
    BY <1>1, <2>1
  <2> QED
    BY <2>2, <2>3
<1>3. PICK b : /\ b = SubSeq(s, i + 1, n) /\ b \in Seq(S) /\ Len(b) = n - i
               /\ \A j \in 1..(n - i) : b[j] = s[i + j]
  <2>1. SubSeq(s, i + 1, n) \in Seq(S) /\ Len(SubSeq(s, i + 1, n)) = n - i
    BY <1>1
  <2>2. \A j \in 1..(n - i) : SubSeq(s, i + 1, n)[j] = s[i + j]
    BY <1>1
  <2> QED
    BY <2>1, <2>2
<1>4. PICK c : c = a \o b
  OBVIOUS
<1>5. /\ c \in Seq(S) /\ Len(c) = n - 1
      /\ \A j \in 1..(n - 1) : c[j] = IF j <= i - 1 THEN a[j] ELSE b[j - (i - 1)]
  <2>1. /\ c \in Seq(S) /\ Len(c) = Len(a) + Len(b)
        /\ \A j \in 1..(Len(a) + Len(b)) :
              c[j] = IF j <= Len(a) THEN a[j] ELSE b[j - Len(a)]
    <3>1. a \in Seq(S) /\ b \in Seq(S)
      BY <1>2, <1>3
    <3> QED
      BY <1>4, <3>1, ConcatProperties
  <2>2. Len(a) + Len(b) = n - 1
    <3>1. Len(a) = i - 1 /\ Len(b) = n - i
      BY <1>2, <1>3, Zenon
    <3> QED
      BY <1>1, <3>1
  <2> QED
    BY <1>2, <2>1, <2>2
<1>6. RemoveAt(s, i) = c
  BY <1>1, <1>2, <1>3, <1>4 DEF RemoveAt
<1>7. ASSUME NEW j \in 1..(n - 1)
      PROVE  IF j < i THEN j \in 1..n /\ c[j] = s[j]
             ELSE j + 1 \in 1..n /\ c[j] = s[j + 1]
  <2>1. CASE j < i
    <3>1. j \in 1..n /\ j <= i - 1 /\ j \in 1..(i - 1)
      BY <1>1, <2>1
    <3> QED
      BY <1>2, <1>5, <2>1, <3>1
  <2>2. CASE ~ (j < i)
    <3>1. /\ j + 1 \in 1..n /\ ~ (j <= i - 1) /\ j - (i - 1) \in 1..(n - i)
          /\ i + (j - (i - 1)) = j + 1
      BY <1>1, <2>2
    <3> QED
      BY <1>3, <1>5, <2>2, <3>1
  <2> QED
    BY <2>1, <2>2
<1>8. DOMAIN s = 1..n /\ DOMAIN c = 1..(n - 1) /\ (n - 1) + 1 = n
  BY <1>1, <1>5
<1> QED
  BY <1>1, <1>5, <1>6, <1>7, <1>8

LEMMA FrontPlaces ==
    ASSUME NEW S, NEW s \in Seq(S), NEW x \in S
    PROVE  /\ <<x>> \o s \in Seq(S) /\ Len(<<x>> \o s) = Len(s) + 1
           /\ (<<x>> \o s)[1] = x
           /\ \A j \in DOMAIN (<<x>> \o s) :
                 j # 1 => j - 1 \in DOMAIN s /\ (<<x>> \o s)[j] = s[j - 1]
<1>1. PICK n : n = Len(s) /\ n \in Nat
  OBVIOUS
<1>2. PICK a : a = <<x>>
  OBVIOUS
<1>3. a \in Seq(S) /\ Len(a) = 1 /\ a[1] = x
  BY <1>2
<1>4. PICK c : c = a \o s
  OBVIOUS
<1>5. /\ c \in Seq(S) /\ Len(c) = 1 + n
      /\ \A j \in 1..(1 + n) : c[j] = IF j <= 1 THEN a[j] ELSE s[j - 1]
  <2>1. /\ c \in Seq(S) /\ Len(c) = Len(a) + Len(s)
        /\ \A j \in 1..(Len(a) + Len(s)) :
              c[j] = IF j <= Len(a) THEN a[j] ELSE s[j - Len(a)]
    BY <1>3, <1>4, ConcatProperties
  <2> QED
    BY <1>1, <1>3, <2>1
<1>6. c[1] = x
  <2>1. 1 \in 1..(1 + n)
    BY <1>1
  <2> QED
    BY <1>3, <1>5, <2>1
<1>7. ASSUME NEW j \in 1..(1 + n), j # 1
      PROVE  j - 1 \in 1..n /\ c[j] = s[j - 1]
  <2>1. j - 1 \in 1..n /\ ~ (j <= 1)
    BY <1>1, <1>7
  <2> QED
    BY <1>5, <2>1
<1>8. DOMAIN c = 1..(1 + n) /\ DOMAIN s = 1..n /\ 1 + n = n + 1
  BY <1>1, <1>5
<1> QED
  BY <1>1, <1>2, <1>4, <1>5, <1>6, <1>7, <1>8

LEMMA CutPlaces ==
    ASSUME NEW S, NEW s \in Seq(S), NEW m \in Nat
    PROVE  LET cut == SubSeq(s, 1, IF Len(s) > m THEN m ELSE Len(s))
           IN  /\ cut \in Seq(S) /\ Len(cut) <= m /\ Len(cut) <= Len(s)
               /\ \A j \in DOMAIN cut : j \in DOMAIN s /\ cut[j] = s[j]
<1>1. PICK k : k = IF Len(s) > m THEN m ELSE Len(s)
  OBVIOUS
<1>2. k \in Nat /\ k <= m /\ k <= Len(s)
  BY <1>1
<1>3. PICK cut : cut = SubSeq(s, 1, k)
  OBVIOUS
<1>4. /\ cut \in Seq(S) /\ Len(cut) = k
      /\ \A j \in 1..k : cut[j] = s[j] /\ j \in 1..Len(s)
  BY <1>2, <1>3
<1>5. DOMAIN cut = 1..k /\ DOMAIN s = 1..Len(s)
  BY <1>2, <1>4
<1> QED
  BY <1>1, <1>2, <1>3, <1>4, <1>5
-----------------------------------------------------------------------------
(* The template cache.                                                     *)
LEMMA StoredIsThere ==
    ASSUME NEW c, NEW k, Holds(c, k)
    PROVE  Position(c, k) \in DOMAIN c /\ Stored(c, k).key = k
  BY DEF Holds, Position, Stored

LEMMA OthersKeep ==
    ASSUME NEW c, IsCache(c), NEW k
    PROVE  /\ IsCache(Others(c, k))
           /\ \A i \in DOMAIN Others(c, k) : Others(c, k)[i].key # k
           /\ Len(Others(c, k)) <= Len(c)
           /\ Holds(c, k) => Len(Others(c, k)) + 1 = Len(c)
<1>1. PICK S : c \in Seq(S)
  BY DEF IsCache, IsList
<1>2. CASE ~ Holds(c, k)
  <2>1. Others(c, k) = c
    BY <1>2 DEF Others
  <2> QED
    BY <1>1, <1>2, <2>1 DEF Holds
<1>3. CASE Holds(c, k)
  <2>1. PICK i : i = Position(c, k) /\ i \in DOMAIN c /\ c[i].key = k
    BY <1>3 DEF Holds, Position
  <2>2. PICK o : o = RemoveAt(c, i) /\ o = Others(c, k)
    BY <1>3, <2>1 DEF Others
  <2>3. /\ o \in Seq(S) /\ Len(o) + 1 = Len(c)
        /\ \A j \in DOMAIN o : IF j < i THEN j \in DOMAIN c /\ o[j] = c[j]
                              ELSE j + 1 \in DOMAIN c /\ o[j] = c[j + 1]
    <3>1. /\ RemoveAt(c, i) \in Seq(S) /\ Len(RemoveAt(c, i)) + 1 = Len(c)
          /\ \A j \in DOMAIN RemoveAt(c, i) :
                IF j < i THEN j \in DOMAIN c /\ RemoveAt(c, i)[j] = c[j]
                ELSE j + 1 \in DOMAIN c /\ RemoveAt(c, i)[j] = c[j + 1]
      BY <1>1, <2>1, RemovedPlaces
    <3> QED
      BY <2>2, <3>1, Zenon
  <2>4. DOMAIN o \subseteq Nat /\ DOMAIN c \subseteq Nat /\ Len(o) \in Nat /\ Len(c) \in Nat
    BY <1>1, <2>3
  <2>5. Len(o) <= Len(c) /\ Len(o) <= CacheMax
    BY <2>3, <2>4, LimitsAreNumbers DEF IsCache
  <2>6. \A j \in DOMAIN o : IsEntry(o[j]) /\ Lags(o[j])
    BY <2>3 DEF IsCache
  <2>7. \A j \in DOMAIN o : o[j].key # k
    <3>1. SUFFICES ASSUME NEW j \in DOMAIN o, o[j].key = k PROVE FALSE
      OBVIOUS
    <3>2. j \in Nat /\ i \in Nat
      BY <2>1, <2>4
    <3>3. OneEntryPerKey(c)
      BY DEF IsCache
    <3>4. CASE j < i
      BY <2>1, <2>3, <3>1, <3>2, <3>3, <3>4 DEF OneEntryPerKey
    <3>5. CASE ~ (j < i)
      <4>1. j + 1 # i
        BY <3>2, <3>5
      <4> QED
        BY <2>1, <2>3, <3>1, <3>3, <3>5, <4>1 DEF OneEntryPerKey
    <3> QED
      BY <3>4, <3>5
  <2>8. OneEntryPerKey(o)
    <3>1. SUFFICES ASSUME NEW j \in DOMAIN o, NEW l \in DOMAIN o, o[j].key = o[l].key
                   PROVE  j = l
      BY DEF OneEntryPerKey
    <3>2. j \in Nat /\ l \in Nat /\ i \in Nat
      BY <2>1, <2>4
    <3>3. \A x, y \in DOMAIN c : c[x].key = c[y].key => x = y
      BY DEF IsCache, OneEntryPerKey
    <3>4. PICK x, y : /\ x = IF j < i THEN j ELSE j + 1
                      /\ y = IF l < i THEN l ELSE l + 1
      OBVIOUS
    <3>5. x \in DOMAIN c /\ y \in DOMAIN c /\ o[j] = c[x] /\ o[l] = c[y]
      BY <2>3, <3>4
    <3>6. x = y
      BY <3>1, <3>3, <3>5
    <3> QED
      BY <3>2, <3>4, <3>6
  <2> QED
    BY <2>2, <2>3, <2>5, <2>6, <2>7, <2>8 DEF IsCache, IsList
<1> QED
  BY <1>2, <1>3

LEMMA FrontKeeps ==
    ASSUME NEW c, IsCache(c), NEW e, IsEntry(e), Lags(e)
    PROVE  /\ IsList(ToFront(c, e))
           /\ OneEntryPerKey(ToFront(c, e))
           /\ \A i \in DOMAIN ToFront(c, e) :
                 IsEntry(ToFront(c, e)[i]) /\ Lags(ToFront(c, e)[i])
           /\ Len(ToFront(c, e)) <= Len(c) + 1
           /\ Holds(c, e.key) => Len(ToFront(c, e)) = Len(c)
<1>1. PICK o : o = Others(c, e.key)
  OBVIOUS
<1>2. /\ IsCache(o) /\ \A i \in DOMAIN o : o[i].key # e.key
      /\ Len(o) <= Len(c) /\ (Holds(c, e.key) => Len(o) + 1 = Len(c))
  BY <1>1, OthersKeep
<1>3. PICK R : o \in Seq(R)
  BY <1>2 DEF IsCache, IsList
<1>4. PICK S : S = R \cup {e}
  OBVIOUS
<1>5. o \in Seq(S) /\ e \in S /\ Len(o) \in Nat
  BY <1>3, <1>4
<1>6. PICK f : f = <<e>> \o o
  OBVIOUS
<1>7. /\ f \in Seq(S) /\ Len(f) = Len(o) + 1 /\ f[1] = e
      /\ \A j \in DOMAIN f : j # 1 => j - 1 \in DOMAIN o /\ f[j] = o[j - 1]
  BY <1>5, <1>6, FrontPlaces
<1>8. ToFront(c, e) = f
  BY <1>1, <1>6 DEF ToFront
<1>9. \A i \in DOMAIN f : IsEntry(f[i]) /\ Lags(f[i])
  BY <1>2, <1>7 DEF IsCache
<1>10. OneEntryPerKey(f)
  <2>1. SUFFICES ASSUME NEW i \in DOMAIN f, NEW j \in DOMAIN f, f[i].key = f[j].key
                 PROVE  i = j
    BY DEF OneEntryPerKey
  <2>2. i \in Nat /\ j \in Nat
    BY <1>7
  <2>3. \A x, y \in DOMAIN o : o[x].key = o[y].key => x = y
    BY <1>2 DEF IsCache, OneEntryPerKey
  <2>4. CASE i # 1 /\ j # 1
    <3>1. i - 1 = j - 1
      BY <1>7, <2>1, <2>3, <2>4
    <3> QED
      BY <2>2, <3>1
  <2>5. CASE i = 1 /\ j # 1
    BY <1>2, <1>7, <2>1, <2>5
  <2>6. CASE i # 1 /\ j = 1
    BY <1>2, <1>7, <2>1, <2>6
  <2> QED
    BY <2>4, <2>5, <2>6
<1>11. Len(c) \in Nat
  BY DEF IsCache, IsList
<1>12. Len(f) <= Len(c) + 1 /\ (Holds(c, e.key) => Len(f) = Len(c))
  BY <1>2, <1>5, <1>7, <1>11
<1> QED
  BY <1>7, <1>8, <1>9, <1>10, <1>12 DEF IsList

LEMMA GetKeeps ==
    ASSUME NEW c, IsCache(c), NEW k
    PROVE  /\ IsCache(AfterGet(c, k))
           /\ Hits(c, k) => /\ Stored(c, k).born <= SharedTTL + CacheTTL
                            /\ Stored(c, k).born \in Nat
<1>1. ASSUME Holds(c, k)
      PROVE  IsEntry(Stored(c, k)) /\ Lags(Stored(c, k)) /\ Stored(c, k).key = k
  BY <1>1, StoredIsThere DEF IsCache, Stored
<1>2. ASSUME Holds(c, k), Fresh(Stored(c, k))
      PROVE  IsCache(ToFront(c, Stored(c, k)))
  <2>1. PICK e : e = Stored(c, k) /\ IsEntry(e) /\ Lags(e) /\ e.key = k
    BY <1>1, <1>2
  <2>2. Len(ToFront(c, e)) = Len(c)
    BY <1>2, <2>1, FrontKeeps
  <2>3. Len(ToFront(c, e)) <= CacheMax
    BY <2>2 DEF IsCache
  <2> QED
    BY <2>1, <2>3, FrontKeeps DEF IsCache
<1>3. IsCache(Others(c, k))
  BY OthersKeep
<1>4. IsCache(AfterGet(c, k))
  BY <1>2, <1>3 DEF AfterGet
<1>5. ASSUME Hits(c, k)
      PROVE  Stored(c, k).born <= SharedTTL + CacheTTL /\ Stored(c, k).born \in Nat
  <2>1. PICK e : e = Stored(c, k) /\ IsEntry(e) /\ Lags(e) /\ Fresh(e)
    BY <1>1, <1>5 DEF Hits
  <2>2. e.born \in Nat /\ e.age \in Nat /\ e.born <= SharedTTL + e.age /\ e.age <= CacheTTL
    BY <2>1 DEF IsEntry, Lags, Fresh
  <2> QED
    BY <2>1, <2>2, LimitsAreNumbers
<1> QED
  BY <1>4, <1>5

(* Put keeps the newest within the limit.                                  *)
LEMMA PutKeeps ==
    ASSUME NEW c, IsCache(c), NEW e, IsEntry(e), e.born <= SharedTTL
    PROVE  IsCache(Put(c, e))
<1>1. CASE ~ Enabled \/ e.content = <<>>
  BY <1>1 DEF Put
<1>2. CASE ~ (~ Enabled \/ e.content = <<>>)
  <2>1. PICK x : x = [e EXCEPT !.age = 0]
    OBVIOUS
  <2>2. IsEntry(x) /\ x.age = 0 /\ x.born = e.born
    BY <2>1 DEF IsEntry
  <2>3. Lags(x)
    BY <2>2, LimitsAreNumbers DEF Lags, IsEntry
  <2>4. PICK all : all = ToFront(c, x)
    OBVIOUS
  <2>5. /\ IsList(all) /\ OneEntryPerKey(all)
        /\ \A i \in DOMAIN all : IsEntry(all[i]) /\ Lags(all[i])
    BY <2>2, <2>3, <2>4, FrontKeeps
  <2>6. PICK S : all \in Seq(S)
    BY <2>5 DEF IsList
  <2>7. PICK cut : cut = SubSeq(all, 1, IF Len(all) > CacheMax THEN CacheMax ELSE Len(all))
    OBVIOUS
  <2>8. /\ cut \in Seq(S) /\ Len(cut) <= CacheMax
        /\ \A j \in DOMAIN cut : j \in DOMAIN all /\ cut[j] = all[j]
    BY <2>6, <2>7, CutPlaces, LimitsAreNumbers
  <2>9. OneEntryPerKey(cut)
    BY <2>5, <2>8 DEF OneEntryPerKey
  <2>10. Put(c, e) = cut
    BY <1>2, <2>1, <2>4, <2>7 DEF Put
  <2> QED
    BY <2>5, <2>8, <2>9, <2>10 DEF IsCache, IsList
<1> QED
  BY <1>1, <1>2

(* One tick on an entry of the local tier.                                 *)
Aged(e) == [e EXCEPT !.age = Older(@, AgeCap), !.born = Older(@, BornCap)]

LEMMA AgedKeeps ==
    ASSUME NEW e, IsEntry(e), Lags(e)
    PROVE  IsEntry(Aged(e)) /\ Lags(Aged(e)) /\ Aged(e).key = e.key
<1>1. PICK x : x = Aged(e)
  OBVIOUS
<1>2. /\ x = [key |-> x.key, age |-> x.age, born |-> x.born, from |-> x.from,
              content |-> x.content]
      /\ x.key = e.key /\ x.age = Older(e.age, AgeCap) /\ x.born = Older(e.born, BornCap)
  BY <1>1 DEF Aged, IsEntry
<1>3. PICK a, b : /\ a = e.age /\ b = e.born /\ a \in Nat /\ b \in Nat
                  /\ b <= SharedTTL + a
  <2>1. e.age \in Nat /\ e.born \in Nat /\ e.born <= SharedTTL + e.age
    BY DEF IsEntry, Lags
  <2> QED
    BY <2>1, Zenon
<1>4. Older(a, AgeCap) \in Nat /\ Older(b, BornCap) \in Nat
  BY <1>3, OlderCounts, LimitsAreNumbers
<1>5. Older(b, BornCap) <= SharedTTL + Older(a, AgeCap)
  <2>1. CASE a < AgeCap
    <3>1. Older(a, AgeCap) = a + 1 /\ Older(b, BornCap) <= b + 1
      BY <1>3, <2>1, OlderCounts, LimitsAreNumbers
    <3> QED
      BY <1>3, <1>4, <3>1, LimitsAreNumbers
  <2>2. CASE ~ (a < AgeCap)
    <3>1. Older(a, AgeCap) = a
      BY <1>3, <2>2, OlderCounts, LimitsAreNumbers
    <3>2. CASE b < BornCap
      <4>1. Older(b, BornCap) = b + 1
        BY <1>3, <3>2, OlderCounts, LimitsAreNumbers
      <4> QED
        BY <1>3, <2>2, <3>1, <3>2, <4>1, LimitsAreNumbers
    <3>3. CASE ~ (b < BornCap)
      <4>1. Older(b, BornCap) = b
        BY <1>3, <3>3, OlderCounts, LimitsAreNumbers
      <4> QED
        BY <1>3, <3>1, <4>1
    <3> QED
      BY <3>2, <3>3
  <2> QED
    BY <2>1, <2>2
<1> QED
  BY <1>1, <1>2, <1>3, <1>4, <1>5 DEF IsEntry, Lags

LEMMA TickKeepsCache ==
    ASSUME NEW c, IsCache(c)
    PROVE  IsCache([i \in DOMAIN c |->
              [c[i] EXCEPT !.age = Older(@, AgeCap), !.born = Older(@, BornCap)]])
<1>1. PICK S : c \in Seq(S)
  BY DEF IsCache, IsList
<1>2. PICK n : n = Len(c) /\ n \in Nat /\ DOMAIN c = 1..n
  BY <1>1
<1>3. PICK d : d = [i \in DOMAIN c |-> Aged(c[i])]
  OBVIOUS
<1>4. PICK T : T = {Aged(c[i]) : i \in DOMAIN c}
  OBVIOUS
<1>5. d \in [1..n -> T]
  BY <1>2, <1>3, <1>4
<1>6. d \in Seq(T) /\ Len(d) = n /\ DOMAIN d = DOMAIN c
  BY <1>2, <1>5
<1>7. ASSUME NEW i \in DOMAIN c
      PROVE  IsEntry(d[i]) /\ Lags(d[i]) /\ d[i].key = c[i].key
  <2>1. IsEntry(c[i]) /\ Lags(c[i]) /\ d[i] = Aged(c[i])
    BY <1>3 DEF IsCache
  <2> QED
    BY <2>1, AgedKeeps
<1>8. OneEntryPerKey(d) /\ n <= CacheMax
  BY <1>2, <1>6, <1>7 DEF IsCache, OneEntryPerKey
<1>9. IsCache(d)
  BY <1>6, <1>7, <1>8 DEF IsCache, IsList
<1> QED
  BY <1>3, <1>9 DEF Aged

(* One tick on the shared tier: an entry past its TTL goes.                *)
LEMMA TickKeepsBackend ==
    ASSUME NEW b, IsBackend(b)
    PROVE  IsBackend({[e EXCEPT !.age = @ + 1, !.born = Older(@, BornCap)] :
                         e \in {e \in b : e.age < SharedTTL}})
<1>1. ASSUME NEW e \in b, e.age < SharedTTL
      PROVE  LET x == [e EXCEPT !.age = @ + 1, !.born = Older(@, BornCap)]
             IN  IsEntry(x) /\ x.born <= x.age /\ x.age <= SharedTTL
  <2>1. PICK x : x = [e EXCEPT !.age = @ + 1, !.born = Older(@, BornCap)]
    OBVIOUS
  <2>2. IsEntry(e) /\ e.born <= e.age
    BY DEF IsBackend
  <2>3. /\ x = [key |-> x.key, age |-> x.age, born |-> x.born, from |-> x.from,
                content |-> x.content]
        /\ x.age = e.age + 1 /\ x.born = Older(e.born, BornCap)
    BY <2>1, <2>2 DEF IsEntry
  <2>4. e.age \in Nat /\ e.born \in Nat
    BY <2>2 DEF IsEntry
  <2>5. Older(e.born, BornCap) \in Nat /\ Older(e.born, BornCap) <= e.born + 1
    BY <2>4, OlderCounts, LimitsAreNumbers
  <2>6. x.age \in Nat /\ x.born \in Nat /\ x.born <= x.age /\ x.age <= SharedTTL
    BY <1>1, <2>2, <2>3, <2>4, <2>5, LimitsAreNumbers
  <2> QED
    BY <2>1, <2>3, <2>6 DEF IsEntry
<1> QED
  BY <1>1 DEF IsBackend
-----------------------------------------------------------------------------
(* The session store.                                                      *)
LEMMA KeptIs ==
    ASSUME NEW st
    PROVE  \A x : x \in Kept(st) <=> \E i \in DOMAIN st : x = st[i].session
  BY DEF Kept

LEMMA SessionIsKept ==
    ASSUME NEW st, NEW k, InStore(st, k)
    PROVE  SessionOf(st, k) \in Kept(st)
<1>1. EntryOf(st, k) \in DOMAIN st
  BY DEF InStore, EntryOf
<1> QED
  BY <1>1 DEF Kept, SessionOf

LEMMA WithoutKeeps ==
    ASSUME NEW st, IsStore(st), NEW k
    PROVE  /\ IsList(Without(st, k)) /\ Len(Without(st, k)) <= Len(st)
           /\ Kept(Without(st, k)) \subseteq Kept(st)
<1>1. PICK S : st \in Seq(S)
  BY DEF IsStore, IsList
<1>2. CASE ~ InStore(st, k)
  BY <1>1, <1>2 DEF Without, IsList
<1>3. CASE InStore(st, k)
  <2>1. PICK i : i = EntryOf(st, k) /\ i \in DOMAIN st
    BY <1>3 DEF InStore, EntryOf
  <2>2. PICK w : w = RemoveAt(st, i) /\ w = Without(st, k)
    BY <1>3, <2>1 DEF Without
  <2>3. /\ w \in Seq(S) /\ Len(w) + 1 = Len(st)
        /\ \A j \in DOMAIN w : IF j < i THEN j \in DOMAIN st /\ w[j] = st[j]
                              ELSE j + 1 \in DOMAIN st /\ w[j] = st[j + 1]
    <3>1. st \in Seq(S) /\ i \in DOMAIN st
      BY <1>1, <2>1
    <3>2. /\ RemoveAt(st, i) \in Seq(S) /\ Len(RemoveAt(st, i)) + 1 = Len(st)
          /\ \A j \in DOMAIN RemoveAt(st, i) :
                IF j < i THEN j \in DOMAIN st /\ RemoveAt(st, i)[j] = st[j]
                ELSE j + 1 \in DOMAIN st /\ RemoveAt(st, i)[j] = st[j + 1]
      BY <3>1, RemovedPlaces, Zenon
    <3> QED
      BY <2>2, <3>2
  <2>4. Len(w) \in Nat /\ Len(st) \in Nat
    BY <1>1, <2>3
  <2>5. \A j \in DOMAIN w : \E l \in DOMAIN st : w[j] = st[l]
    BY <2>3
  <2>6. Kept(w) \subseteq Kept(st)
    BY <2>5 DEF Kept
  <2> QED
    BY <2>2, <2>3, <2>4, <2>6 DEF IsList
<1> QED
  BY <1>2, <1>3

(* Opening a conversation keeps the session it answers and some others.    *)
LEMMA OpenKeeps ==
    ASSUME NEW st, IsStore(st), NEW idl, NEW k, NEW fresh \in Sessions
    PROVE  /\ GetSession(st, idl, k, fresh) \in Sessions
           /\ IsStore(AfterGetSession(st, idl, k, fresh))
           /\ Kept(AfterGetSession(st, idl, k, fresh))
                \subseteq Kept(st) \cup {GetSession(st, idl, k, fresh)}
<1>1. PICK x : x = GetSession(st, idl, k, fresh)
  OBVIOUS
<1>2. x \in Sessions
  BY <1>1, SessionIsKept DEF GetSession, Live, IsStore
<1>3. CASE k = NoKey
  BY <1>1, <1>2, <1>3 DEF AfterGetSession
<1>4. CASE k # NoKey
  <2>1. PICK w : w = Without(st, k)
    OBVIOUS
  <2>2. IsList(w) /\ Kept(w) \subseteq Kept(st)
    BY <2>1, WithoutKeeps
  <2>3. PICK R : w \in Seq(R)
    BY <2>2 DEF IsList
  <2>4. PICK e : e = [key |-> k, session |-> x]
    OBVIOUS
  <2>5. PICK S : S = R \cup {e}
    OBVIOUS
  <2>6. w \in Seq(S) /\ e \in S /\ e.session = x
    BY <2>3, <2>4, <2>5
  <2>7. PICK f : f = <<e>> \o w
    OBVIOUS
  <2>8. /\ f \in Seq(S) /\ f[1] = e
        /\ \A j \in DOMAIN f : j # 1 => j - 1 \in DOMAIN w /\ f[j] = w[j - 1]
    BY <2>6, <2>7, FrontPlaces
  <2>9. PICK cut : cut = SubSeq(f, 1, IF Len(f) > SessionMax THEN SessionMax ELSE Len(f))
    OBVIOUS
  <2>10. /\ cut \in Seq(S) /\ Len(cut) <= SessionMax
         /\ \A j \in DOMAIN cut : j \in DOMAIN f /\ cut[j] = f[j]
    BY <2>8, <2>9, CutPlaces, LimitsAreNumbers
  <2>11. \A j \in DOMAIN cut : cut[j].session = x \/ cut[j].session \in Kept(w)
    BY <2>6, <2>8, <2>10 DEF Kept
  <2>12. Kept(cut) \subseteq Kept(st) \cup {x}
    BY <2>2, <2>11, KeptIs
  <2>13. AfterGetSession(st, idl, k, fresh) = cut
    BY <1>1, <1>4, <2>1, <2>4, <2>7, <2>9 DEF AfterGetSession
  <2>14. IsStore(cut)
    BY <1>2, <2>10, <2>12 DEF IsStore, IsList
  <2> QED
    BY <1>1, <1>2, <2>12, <2>13, <2>14
<1> QED
  BY <1>3, <1>4

(* The sweep's walk, from no entry looked at to all of them.               *)
Walks(h, st, idl, S) ==
    /\ h \in [0..Len(st) -> Seq(S)]
    /\ h[0] = <<>>
    /\ \A n \in 1..Len(st) :
          h[n] = IF idl[st[n].session] > SessionTTL THEN h[n - 1]
                 ELSE Append(h[n - 1], st[n])

LEMMA WalkExists ==
    ASSUME NEW S, NEW st \in Seq(S), NEW idl
    PROVE  \E h : Walks(h, st, idl, S)
<1> DEFINE Next1(t, n) == IF idl[st[n].session] > SessionTTL THEN t ELSE Append(t, st[n])
           Upto(h, n) == /\ h \in [0..n -> Seq(S)]
                         /\ h[0] = <<>>
                         /\ \A i \in 1..n : h[i] = Next1(h[i - 1], i)
           Bad == {n \in 0..Len(st) : ~ \E h : Upto(h, n)}
<1>1. Len(st) \in Nat /\ \A i \in 1..Len(st) : st[i] \in S
  OBVIOUS
<1>2. SUFFICES ASSUME Bad # {} PROVE FALSE
  <2>1. \A h : Upto(h, Len(st)) => Walks(h, st, idl, S)
    BY DEF Walks
  <2>2. Len(st) \in 0..Len(st)
    BY <1>1
  <2>3. ASSUME Bad = {} PROVE \E h : Upto(h, Len(st))
    <3> HIDE DEF Upto
    <3> QED
      BY <2>2, <2>3
  <2> HIDE DEF Upto, Bad
  <2> QED
    BY <2>1, <2>3
<1>3. PICK n \in Bad : \A k \in Bad : n <= k
  <2>1. Bad \in SUBSET Nat
    <3> HIDE DEF Upto
    <3> QED
      BY <1>1
  <2> HIDE DEF Bad
  <2> QED
    BY <1>2, <2>1, LeastNumber, Zenon
<1>4. n # 0
  <2>1. Upto([i \in 0..0 |-> <<>>], 0)
    <3> HIDE DEF Next1
    <3> QED
      OBVIOUS
  <2>2. 0 \in Bad => ~ \E h : Upto(h, 0)
    OBVIOUS
  <2> HIDE DEF Upto, Bad
  <2> QED
    BY <2>1, <2>2, <1>3
<1>5. n \in 1..Len(st) /\ n - 1 \in 0..Len(st) /\ n - 1 \in Nat /\ ~ (n <= n - 1)
  BY <1>1, <1>3, <1>4
<1>6. PICK h : Upto(h, n - 1)
  <2>1. n - 1 \notin Bad
    BY <1>3, <1>5
  <2> HIDE DEF Upto
  <2> QED
    BY <1>5, <2>1
<1> HIDE DEF Bad
<1>7. \A t \in Seq(S) : Next1(t, n) \in Seq(S)
  BY <1>1, <1>5
<1> HIDE DEF Next1
<1>8. Upto([i \in 0..n |-> IF i = n THEN Next1(h[n - 1], n) ELSE h[i]], n)
  <2> DEFINE hx == [i \in 0..n |-> IF i = n THEN Next1(h[n - 1], n) ELSE h[i]]
  <2>1. h[n - 1] \in Seq(S)
    BY <1>5, <1>6
  <2>2. Next1(h[n - 1], n) \in Seq(S)
    BY <1>7, <2>1
  <2>3. hx \in [0..n -> Seq(S)] /\ hx[0] = <<>>
    BY <1>5, <1>6, <2>2
  <2>4. ASSUME NEW i \in 1..n
        PROVE  hx[i] = Next1(hx[i - 1], i)
    <3>1. CASE i = n
      <4>1. n \in 0..n /\ n - 1 \in 0..n /\ n - 1 # n
        BY <1>5
      <4>2. hx[i - 1] = h[n - 1] /\ hx[i] = Next1(h[n - 1], n)
        <5> HIDE DEF Upto
        <5> QED
          BY <3>1, <4>1
      <4> HIDE DEF hx, Upto
      <4> QED
        BY <3>1, <4>2
    <3>2. CASE i # n
      <4>1. hx[i - 1] = h[i - 1] /\ hx[i] = h[i] /\ i \in 1..(n - 1)
        BY <1>5, <3>2
      <4> HIDE DEF hx
      <4> QED
        BY <1>6, <4>1
    <3> QED
      BY <3>1, <3>2
  <2> QED
    BY <2>3, <2>4
<1>9. ~ \E hx : Upto(hx, n)
  <2> HIDE DEF Upto
  <2> QED
    BY <1>3 DEF Bad
<1> HIDE DEF Upto
<1> QED
  BY <1>8, <1>9

(* What is left of the walk is no longer than the store and holds only     *)
(* sessions it had that are not idle.                                      *)
LEMMA WalkLeaves ==
    ASSUME NEW S, NEW st \in Seq(S), NEW idl, NEW h, Walks(h, st, idl, S)
    PROVE  \A n \in 0..Len(st) :
              /\ Len(h[n]) <= n
              /\ \A x \in Kept(h[n]) : x \in Kept(st) /\ ~ (idl[x] > SessionTTL)
<1> DEFINE Good(n) == /\ Len(h[n]) <= n
                      /\ \A x \in Kept(h[n]) : x \in Kept(st) /\ ~ (idl[x] > SessionTTL)
           Bad == {n \in 0..Len(st) : ~ Good(n)}
<1>1. SUFFICES ASSUME Bad # {} PROVE FALSE
  OBVIOUS
<1>2. /\ Len(st) \in Nat /\ DOMAIN st = 1..Len(st)
      /\ h[0] = <<>> /\ \A n \in 0..Len(st) : h[n] \in Seq(S)
      /\ \A n \in 1..Len(st) : st[n] \in S
  <2>1. Len(st) \in Nat /\ DOMAIN st = 1..Len(st) /\ \A n \in 1..Len(st) : st[n] \in S
    OBVIOUS
  <2>2. h \in [0..Len(st) -> Seq(S)] /\ h[0] = <<>>
    BY DEF Walks
  <2> HIDE DEF Bad
  <2> QED
    BY <2>1, <2>2
<1>3. PICK n \in Bad : \A k \in Bad : n <= k
  <2>1. Bad \in SUBSET Nat
    <3> HIDE DEF Good
    <3> QED
      BY <1>2
  <2> HIDE DEF Bad
  <2> QED
    BY <1>1, <2>1, LeastNumber, Zenon
<1>4. n # 0
  <2>1. Good(0)
    BY <1>2 DEF Kept
  <2> HIDE DEF Good
  <2> QED
    BY <1>3, <2>1
<1>5. PICK m : /\ m = n - 1 /\ n \in 1..Len(st) /\ m \in 0..Len(st) /\ m \in Nat
               /\ n = m + 1 /\ ~ (n <= m)
  <2> HIDE DEF Good
  <2> QED
    BY <1>2, <1>3, <1>4
<1>6. Good(m)
  <2> HIDE DEF Good
  <2> QED
    BY <1>3, <1>5
<1>7. h[n] = IF idl[st[n].session] > SessionTTL THEN h[m] ELSE Append(h[m], st[n])
  BY <1>5 DEF Walks
<1>8. CASE idl[st[n].session] > SessionTTL
  <2>1. h[n] = h[m] /\ Len(h[m]) \in Nat
    BY <1>2, <1>5, <1>7, <1>8
  <2>2. Good(n)
    BY <1>5, <1>6, <2>1
  <2> HIDE DEF Good
  <2> QED
    BY <1>3, <2>2
<1>9. CASE ~ (idl[st[n].session] > SessionTTL)
  <2>1. PICK t, u : t = h[m] /\ u = h[n] /\ t \in Seq(S)
    BY <1>2, <1>5
  <2>2. u = Append(t, st[n]) /\ st[n] \in S
    BY <1>2, <1>5, <1>7, <1>9, <2>1
  <2>3. /\ Len(t) \in Nat /\ u \in Seq(S) /\ Len(u) = Len(t) + 1
        /\ u[Len(t) + 1] = st[n] /\ \A i \in 1..Len(t) : u[i] = t[i]
    BY <2>1, <2>2, AppendProperties
  <2>4. Len(u) <= n
    <3>1. Len(t) <= m
      BY <1>6, <2>1
    <3> HIDE DEF Bad
    <3> QED
      BY <1>5, <2>3, <3>1
  <2>5. ASSUME NEW x \in Kept(u) PROVE x = st[n].session \/ x \in Kept(t)
    <3>1. PICK i \in DOMAIN u : x = u[i].session
      BY <2>5 DEF Kept
    <3>2. i = Len(t) + 1 \/ i \in 1..Len(t)
      BY <2>3
    <3>3. DOMAIN t = 1..Len(t)
      BY <2>1
    <3> QED
      BY <2>3, <3>1, <3>2, <3>3 DEF Kept
  <2>6. st[n].session \in Kept(st)
    BY <1>2, <1>5 DEF Kept
  <2>7. \A x \in Kept(t) : x \in Kept(st) /\ ~ (idl[x] > SessionTTL)
    BY <1>6, <2>1
  <2>8. Good(n)
    BY <1>9, <2>1, <2>4, <2>5, <2>6, <2>7
  <2> HIDE DEF Good
  <2> QED
    BY <1>3, <2>8
<1> QED
  BY <1>8, <1>9

LEMMA ExpireKeeps ==
    ASSUME NEW st, IsStore(st), NEW idl
    PROVE  /\ IsStore(Expire(st, idl))
           /\ \A x \in Kept(Expire(st, idl)) : x \in Kept(st) /\ ~ (idl[x] > SessionTTL)
<1>1. PICK S : st \in Seq(S)
  BY DEF IsStore, IsList
<1>2. PICK n : n = Len(st) /\ n \in Nat
  BY <1>1
<1> DEFINE Body(f) == [i \in 0..n |-> IF i = 0 THEN <<>>
                         ELSE IF idl[st[i].session] > SessionTTL THEN f[i - 1]
                         ELSE Append(f[i - 1], st[i])]
           kept == CHOOSE f : f = Body(f)
<1>3. Expire(st, idl) = kept[n]
  BY <1>2 DEF Expire
<1>4. PICK h : Walks(h, st, idl, S)
  BY <1>1, WalkExists
<1>5. h = Body(h)
  <2>1. h = [i \in 0..n |-> h[i]]
    BY <1>2, <1>4 DEF Walks
  <2>2. \A i \in 0..n : h[i] = IF i = 0 THEN <<>>
                         ELSE IF idl[st[i].session] > SessionTTL THEN h[i - 1]
                         ELSE Append(h[i - 1], st[i])
    <3>1. \A i \in 0..n : i = 0 \/ i \in 1..n
      BY <1>2
    <3> QED
      BY <1>2, <1>4, <3>1 DEF Walks
  <2> HIDE DEF kept
  <2> QED
    BY <2>1, <2>2
<1>6. kept = Body(kept)
  <2> HIDE DEF Body
  <2> QED
    BY <1>5, Zenon
<1>7. \A i \in 0..n : kept[i] = IF i = 0 THEN <<>>
                         ELSE IF idl[st[i].session] > SessionTTL THEN kept[i - 1]
                         ELSE Append(kept[i - 1], st[i])
  <2>1. \A i \in 0..n : kept[i] = Body(kept)[i]
    <3> HIDE DEF kept, Body
    <3> QED
      BY <1>6
  <2> HIDE DEF kept
  <2> QED
    BY <2>1
<1> HIDE DEF kept, Body
<1> DEFINE Bad == {i \in 0..n : kept[i] # h[i]}
<1>8. Bad = {}
  <2>1. SUFFICES ASSUME Bad # {} PROVE FALSE
    OBVIOUS
  <2>2. Bad \in SUBSET Nat
    OBVIOUS
  <2>3. PICK i \in Bad : \A j \in Bad : i <= j
    <3> HIDE DEF Bad
    <3> QED
      BY <2>1, <2>2, LeastNumber, Zenon
  <2>4. i \in 0..n /\ kept[i] # h[i]
    OBVIOUS
  <2>5. CASE i = 0
    <3>1. 0 \in 0..n
      BY <1>2
    <3> QED
      BY <1>4, <1>7, <2>4, <2>5, <3>1 DEF Walks
  <2>6. CASE i # 0
    <3>1. i \in 1..n /\ i - 1 \in 0..n /\ ~ (i <= i - 1)
      BY <1>2, <2>4, <2>6
    <3>2. kept[i - 1] = h[i - 1]
      BY <2>3, <3>1
    <3>3. h[i] = IF idl[st[i].session] > SessionTTL THEN h[i - 1]
                 ELSE Append(h[i - 1], st[i])
      BY <1>2, <1>4, <3>1 DEF Walks
    <3>4. kept[i] = IF idl[st[i].session] > SessionTTL THEN kept[i - 1]
                    ELSE Append(kept[i - 1], st[i])
      BY <1>7, <2>4, <2>6
    <3> HIDE DEF Bad
    <3> QED
      BY <2>4, <3>2, <3>3, <3>4
  <2> QED
    BY <2>5, <2>6
<1>9. PICK e : e = Expire(st, idl) /\ e = h[n] /\ e \in Seq(S)
  <2>1. n \in 0..n
    BY <1>2
  <2> QED
    BY <1>2, <1>3, <1>4, <1>8, <2>1 DEF Walks
<1>10. /\ Len(e) <= n
       /\ \A x \in Kept(e) : x \in Kept(st) /\ ~ (idl[x] > SessionTTL)
  <2>1. n \in 0..Len(st)
    BY <1>2
  <2> QED
    BY <1>1, <1>4, <1>9, <2>1, WalkLeaves
<1>11. Len(e) <= SessionMax
  <2>1. Len(e) \in Nat /\ n <= SessionMax
    BY <1>2, <1>9 DEF IsStore
  <2> QED
    BY <1>2, <1>10, <2>1, LimitsAreNumbers
<1> QED
  BY <1>9, <1>10, <1>11 DEF IsStore, IsList
-----------------------------------------------------------------------------
(* The dictionary.  d becomes e: no token or value gets another partner    *)
(* and no token a weaker rank.                                             *)
Keeps(d, e) ==
    /\ \A v \in DOMAIN d.forward : /\ v \in DOMAIN e.forward
                                   /\ e.forward[v] = d.forward[v]
    /\ \A t \in DOMAIN d.reverse : /\ t \in DOMAIN e.reverse
                                   /\ e.reverse[t] = d.reverse[t]
                                   /\ e.class[t] = d.class[t] \/ e.class[t] > d.class[t]

LEMMA EmptyIsDictionary == IsDictionary(EmptyDictionary)
<1>1. PICK d : d = EmptyDictionary
  OBVIOUS
<1>2. /\ d = [forward |-> d.forward, reverse |-> d.reverse, class |-> d.class,
              nVar |-> d.nVar, nRef |-> d.nRef]
      /\ d.nVar = 0 /\ d.nRef = 0
      /\ d.forward = <<>> /\ d.reverse = <<>> /\ d.class = <<>>
  BY <1>1 DEF EmptyDictionary
<1>3. DOMAIN d.forward = {} /\ DOMAIN d.reverse = {} /\ DOMAIN d.class = {}
  BY <1>2
<1>4. IsFiniteSet({}) /\ Cardinality({}) = 0
  BY FS_EmptySet
<1>5. Numbered(d) /\ OneToOne(d)
  BY <1>3 DEF Numbered, OneToOne
<1> QED
  BY <1>1, <1>2, <1>3, <1>4, <1>5 DEF IsDictionary

(* The next token is one the dictionary does not hold.                     *)
LEMMA NextTokenIsNew ==
    ASSUME NEW d, IsDictionary(d), NEW kind
    PROVE  /\ NextToken(d, kind) \notin DOMAIN d.reverse
           /\ NextToken(d, kind)[1] = kind
           /\ NextToken(d, kind)[2] = IF kind = "REF" THEN d.nRef + 1 ELSE d.nVar + 1
<1>1. PICK t, n : /\ t = NextToken(d, kind) /\ t = <<kind, n>>
                  /\ n = IF kind = "REF" THEN d.nRef + 1 ELSE d.nVar + 1
  BY DEF NextToken
<1>2. t[1] = kind /\ t[2] = n
  BY <1>1
<1>3. d.nVar \in Nat /\ d.nRef \in Nat
  BY DEF IsDictionary
<1>4. ASSUME t \in DOMAIN d.reverse PROVE FALSE
  <2>1. IF t[1] = "REF" THEN t[2] \in 1..d.nRef ELSE t[2] \in 1..d.nVar
    BY <1>4 DEF IsDictionary, Numbered
  <2> QED
    BY <1>1, <1>2, <1>3, <2>1
<1> QED
  BY <1>1, <1>2, <1>4

LEMMA MaskKeeps ==
    ASSUME NEW d, IsDictionary(d), NEW v, NEW kind, NEW rank
    PROVE  IsDictionary(MaskAs(d, v, kind, rank)) /\ Keeps(d, MaskAs(d, v, kind, rank))
<1>1. PICK e : e = MaskAs(d, v, kind, rank)
  OBVIOUS
<1>2. Keeps(d, d)
  BY DEF Keeps
<1>3. CASE v \in DOMAIN d.forward
  <2>1. PICK t : t = d.forward[v]
    OBVIOUS
  <2>2. e = IF rank > d.class[t] THEN [d EXCEPT !.class[t] = rank] ELSE d
    BY <1>1, <1>3, <2>1 DEF MaskAs
  <2>3. CASE ~ (rank > d.class[t])
    BY <1>1, <1>2, <2>2, <2>3
  <2>4. CASE rank > d.class[t]
    <3>1. /\ e.forward = d.forward /\ e.reverse = d.reverse
          /\ e.nVar = d.nVar /\ e.nRef = d.nRef
          /\ e.class = [d.class EXCEPT ![t] = rank]
          /\ e = [forward |-> e.forward, reverse |-> e.reverse, class |-> e.class,
                  nVar |-> e.nVar, nRef |-> e.nRef]
      BY <2>2, <2>4 DEF IsDictionary
    <3>2. DOMAIN e.class = DOMAIN d.class
      BY <3>1
    <3>3. IsDictionary(e)
      BY <3>1, <3>2 DEF IsDictionary, Numbered, OneToOne
    <3>4. \A x \in DOMAIN d.reverse : e.class[x] = d.class[x] \/ e.class[x] > d.class[x]
      <4>1. DOMAIN d.class = DOMAIN d.reverse
        BY DEF IsDictionary
      <4>2. \A x \in DOMAIN d.class : e.class[x] = IF x = t THEN rank ELSE d.class[x]
        BY <3>1
      <4> QED
        BY <2>4, <4>1, <4>2
    <3>5. Keeps(d, e)
      BY <3>1, <3>4 DEF Keeps
    <3> QED
      BY <1>1, <3>3, <3>5
  <2> QED
    BY <2>3, <2>4
<1>4. CASE v \notin DOMAIN d.forward
  <2>1. PICK t : /\ t = NextToken(d, kind) /\ t \notin DOMAIN d.reverse /\ t[1] = kind
                 /\ t[2] = IF kind = "REF" THEN d.nRef + 1 ELSE d.nVar + 1
    BY NextTokenIsNew
  <2>2. /\ e.forward = Extend(d.forward, v, t)
        /\ e.reverse = Extend(d.reverse, t, v)
        /\ e.class = Extend(d.class, t, rank)
        /\ e.nVar = (IF kind = "REF" THEN d.nVar ELSE d.nVar + 1)
        /\ e.nRef = (IF kind = "REF" THEN d.nRef + 1 ELSE d.nRef)
        /\ e = [forward |-> e.forward, reverse |-> e.reverse, class |-> e.class,
                nVar |-> e.nVar, nRef |-> e.nRef]
    BY <1>1, <1>4, <2>1 DEF MaskAs
  <2>3. /\ d.nVar \in Nat /\ d.nRef \in Nat /\ DOMAIN d.class = DOMAIN d.reverse
        /\ IsFiniteSet(DOMAIN d.reverse)
        /\ Cardinality(DOMAIN d.reverse) = d.nVar + d.nRef
        /\ Numbered(d) /\ OneToOne(d)
    BY DEF IsDictionary
  <2>4. /\ DOMAIN e.forward = DOMAIN d.forward \cup {v} /\ e.forward[v] = t
        /\ \A x \in DOMAIN d.forward : x # v => e.forward[x] = d.forward[x]
    <3>1. e.forward = Extend(d.forward, v, t)
      BY <2>2
    <3> QED
      BY <3>1 DEF Extend
  <2>5. /\ DOMAIN e.reverse = DOMAIN d.reverse \cup {t} /\ e.reverse[t] = v
        /\ \A x \in DOMAIN d.reverse : x # t => e.reverse[x] = d.reverse[x]
    <3>1. e.reverse = Extend(d.reverse, t, v)
      BY <2>2
    <3> QED
      BY <3>1 DEF Extend
  <2>6. /\ DOMAIN e.class = DOMAIN d.class \cup {t}
        /\ \A x \in DOMAIN d.class : x # t => e.class[x] = d.class[x]
    <3>1. e.class = Extend(d.class, t, rank)
      BY <2>2
    <3> QED
      BY <3>1 DEF Extend
  <2>7. /\ e.nVar \in Nat /\ e.nRef \in Nat /\ d.nVar <= e.nVar /\ d.nRef <= e.nRef
        /\ e.nVar + e.nRef = (d.nVar + d.nRef) + 1
    BY <2>2, <2>3
  <2>8. /\ IsFiniteSet(DOMAIN e.reverse)
        /\ Cardinality(DOMAIN e.reverse) = e.nVar + e.nRef
    <3>1. /\ IsFiniteSet(DOMAIN d.reverse \cup {t})
          /\ Cardinality(DOMAIN d.reverse \cup {t}) = Cardinality(DOMAIN d.reverse) + 1
      BY <2>1, <2>3, FS_AddElement
    <3> QED
      BY <2>3, <2>5, <2>7, <3>1
  <2>9. Numbered(e)
    <3>1. SUFFICES ASSUME NEW x \in DOMAIN e.reverse
                   PROVE  IF x[1] = "REF" THEN x[2] \in 1..e.nRef ELSE x[2] \in 1..e.nVar
      BY DEF Numbered
    <3>2. CASE x = t
      BY <2>1, <2>2, <2>3, <3>2
    <3>3. CASE x \in DOMAIN d.reverse
      <4>1. IF x[1] = "REF" THEN x[2] \in 1..d.nRef ELSE x[2] \in 1..d.nVar
        BY <2>3, <3>3 DEF Numbered
      <4> QED
        BY <2>3, <2>7, <4>1
    <3> QED
      BY <2>5, <3>2, <3>3
  <2>10. OneToOne(e)
    <3>1. ASSUME NEW x \in DOMAIN e.forward
          PROVE  e.forward[x] \in DOMAIN e.reverse /\ e.reverse[e.forward[x]] = x
      <4>1. CASE x = v
        BY <2>4, <2>5, <4>1
      <4>2. CASE x \in DOMAIN d.forward
        <5>1. d.forward[x] \in DOMAIN d.reverse /\ d.reverse[d.forward[x]] = x
          BY <2>3, <4>2 DEF OneToOne
        <5>2. e.forward[x] = d.forward[x] /\ d.forward[x] # t
          BY <1>4, <2>1, <2>4, <4>2, <5>1
        <5> QED
          BY <2>5, <5>1, <5>2
      <4> QED
        BY <2>4, <4>1, <4>2
    <3>2. ASSUME NEW x \in DOMAIN e.reverse
          PROVE  e.reverse[x] \in DOMAIN e.forward /\ e.forward[e.reverse[x]] = x
      <4>1. CASE x = t
        BY <2>4, <2>5, <4>1
      <4>2. CASE x \in DOMAIN d.reverse
        <5>1. d.reverse[x] \in DOMAIN d.forward /\ d.forward[d.reverse[x]] = x
          BY <2>3, <4>2 DEF OneToOne
        <5>2. e.reverse[x] = d.reverse[x] /\ d.reverse[x] # v
          BY <1>4, <2>1, <2>5, <4>2, <5>1
        <5> QED
          BY <2>4, <5>1, <5>2
      <4> QED
        BY <2>5, <4>1, <4>2
    <3> QED
      BY <3>1, <3>2 DEF OneToOne
  <2>11. IsDictionary(e)
    <3>1. DOMAIN e.class = DOMAIN e.reverse
      BY <2>3, <2>5, <2>6
    <3> QED
      BY <2>2, <2>7, <2>8, <2>9, <2>10, <3>1 DEF IsDictionary
  <2>12. Keeps(d, e)
    <3>1. \A x \in DOMAIN d.forward : x \in DOMAIN e.forward /\ e.forward[x] = d.forward[x]
      BY <1>4, <2>4
    <3>2. \A x \in DOMAIN d.reverse : /\ x \in DOMAIN e.reverse /\ e.reverse[x] = d.reverse[x]
                                    /\ e.class[x] = d.class[x]
      BY <2>1, <2>3, <2>5, <2>6
    <3> QED
      BY <3>1, <3>2 DEF Keeps
  <2> QED
    BY <1>1, <2>11, <2>12
<1> QED
  BY <1>3, <1>4
-----------------------------------------------------------------------------
(* The inductive invariant.  A request that holds an entry of the shared   *)
(* tier has it as young as the tier gave it, for time stands still until   *)
(* it is promoted; one to be published is as new as its answer.            *)
HoldsEntry(q) ==
    /\ q.phase = "promote" => IsEntry(q.got) /\ q.got.born <= SharedTTL
    /\ q.phase = "publish" => IsEntry(q.got) /\ q.got.born = 0 /\ q.got.age = 0

Requesting ==
    /\ req = [r \in Requests |-> [f \in DOMAIN Start |-> req[r][f]]]
    /\ \A r \in Requests : /\ req[r].phase # "new" => r \in Active
                           /\ HoldsEntry(req[r])

Caching ==
    /\ local = [p \in Pods |-> local[p]] /\ \A p \in Pods : IsCache(local[p])
    /\ IsBackend(backend)

(* A session a store keeps has been idle since the last sweep at most.     *)
Keeping ==
    /\ store = [p \in Pods |-> store[p]] /\ \A p \in Pods : IsStore(store[p])
    /\ idle \in [Sessions -> 0..IdleCap]
    /\ \A p \in Pods : \A s \in Kept(store[p]) : idle[s] <= SessionTTL + due

Naming ==
    dict = [s \in Sessions |-> dict[s]] /\ \A s \in Sessions : IsDictionary(dict[s])

IInv ==
    /\ load \in DOMAIN Jobs /\ due \in 0..Interval
    /\ Requesting /\ AgeBounded
    /\ Caching
    /\ Keeping
    /\ Naming

LEMMA Implied == IInv => TypeOK /\ AgeBounded /\ IdleForgotten
<1> SUFFICES ASSUME IInv PROVE TypeOK /\ AgeBounded /\ IdleForgotten
  OBVIOUS
<1>1. IdleForgotten
  <2>1. SUFFICES ASSUME NEW p \in Pods, NEW s \in Kept(store[p])
                 PROVE  idle[s] <= SessionTTL + Interval
    BY DEF IdleForgotten
  <2>2. s \in Sessions /\ idle[s] <= SessionTTL + due
    BY DEF IInv, Keeping, IsStore
  <2>3. idle[s] \in Nat /\ due \in 0..Interval
    BY <2>2, LimitsAreNumbers DEF IInv, Keeping
  <2> QED
    BY <2>2, <2>3, LimitsAreNumbers, IntervalIsPositive
<1>2. ASSUME NEW p \in Pods
      PROVE  /\ Len(local[p]) <= CacheMax /\ Len(store[p]) <= SessionMax
             /\ \A i, j \in DOMAIN local[p] : local[p][i].key = local[p][j].key => i = j
             /\ Kept(store[p]) \subseteq Sessions
  BY DEF IInv, Caching, Keeping, IsCache, IsStore, OneEntryPerKey
<1>3. ASSUME NEW s \in Sessions
      PROVE  /\ idle[s] \in 0..IdleCap
             /\ Cardinality(Size(dict[s])) = dict[s].nVar + dict[s].nRef
             /\ \A v \in DOMAIN dict[s].forward : dict[s].reverse[dict[s].forward[v]] = v
             /\ \A t \in Size(dict[s]) : dict[s].forward[dict[s].reverse[t]] = t
  <2>1. IsDictionary(dict[s])
    BY DEF IInv, Naming
  <2>2. idle[s] \in 0..IdleCap
    BY DEF IInv, Keeping
  <2> QED
    BY <2>1, <2>2 DEF IsDictionary, OneToOne, Size
<1>4. TypeOK
  BY <1>2, <1>3 DEF TypeOK, IInv
<1> QED
  BY <1>1, <1>4 DEF IInv

LEMMA Initially == Init => IInv
<1> SUFFICES ASSUME Init PROVE IInv
  OBVIOUS
<1>1. Start.phase = "new" /\ Start.age = 0
  BY DEF Start
<1>2. Start = [f \in DOMAIN Start |-> Start[f]]
  BY DEF Start
<1>3. Requesting
  <2>1. \A r \in Requests : req[r] = Start
    BY DEF Init
  <2>2. req = [r \in Requests |-> [f \in DOMAIN Start |-> req[r][f]]]
    BY <1>2 DEF Init
  <2> QED
    BY <1>1, <2>1, <2>2 DEF Requesting, HoldsEntry
<1>4. AgeBounded
  <2>1. \A r \in Requests : req[r].age = 0
    BY <1>1 DEF Init
  <2> QED
    BY <2>1, LimitsAreNumbers DEF AgeBounded
<1>5. Caching
  <2>1. IsCache(<<>>)
    <3>1. /\ <<>> \in Seq({}) /\ Len(<<>>) = 0
          /\ \A i \in DOMAIN <<>> : FALSE
      OBVIOUS
    <3> QED
      BY <3>1, LimitsAreNumbers DEF IsCache, IsList, OneEntryPerKey
  <2>2. IsBackend({})
    BY DEF IsBackend
  <2> QED
    BY <2>1, <2>2 DEF Init, Caching
<1>6. Keeping
  <2>1. IsStore(<<>>) /\ Kept(<<>>) = {}
    <3>1. <<>> \in Seq({}) /\ Len(<<>>) = 0 /\ Kept(<<>>) = {}
      BY DEF Kept
    <3> QED
      BY <3>1, LimitsAreNumbers DEF IsStore, IsList
  <2>2. idle \in [Sessions -> 0..IdleCap]
    BY LimitsAreNumbers DEF Init
  <2> QED
    BY <2>1, <2>2 DEF Init, Keeping
<1>7. Naming
  BY EmptyIsDictionary DEF Init, Naming
<1>8. load \in DOMAIN Jobs /\ due \in 0..Interval
  BY IntervalIsPositive DEF Init
<1> QED
  BY <1>3, <1>4, <1>5, <1>6, <1>7, <1>8 DEF IInv
-----------------------------------------------------------------------------
(* What a step of one request changes of the requests.                     *)
LEMMA StepChanges ==
    ASSUME Requesting, NEW r \in Requests, NEW changes, Step(r, changes)
    PROVE  /\ req' = [q \in Requests |-> [f \in DOMAIN Start |-> req'[q][f]]]
           /\ \A q \in Requests : q # r => req'[q] = req[q]
           /\ \A f \in DOMAIN Start :
                 req'[r][f] = IF f \in DOMAIN changes THEN changes[f] ELSE req[r][f]
<1>1. PICK now : now = [f \in DOMAIN Start |->
                          IF f \in DOMAIN changes THEN changes[f] ELSE req[r][f]]
  OBVIOUS
<1>2. req' = [req EXCEPT ![r] = now]
  BY <1>1 DEF Step
<1>3. DOMAIN req = Requests /\ \A q \in Requests : req[q] = [f \in DOMAIN Start |-> req[q][f]]
  BY DEF Requesting
<1>4. /\ DOMAIN req' = Requests /\ req'[r] = now
      /\ \A q \in Requests : q # r => req'[q] = req[q]
      /\ req' = [q \in Requests |-> req'[q]]
  BY <1>2, <1>3
<1>5. now = [f \in DOMAIN Start |-> now[f]]
  BY <1>1
<1>6. \A q \in Requests : req'[q] = [f \in DOMAIN Start |-> req'[q][f]]
  BY <1>3, <1>4, <1>5
<1> QED
  BY <1>1, <1>4, <1>6

LEMMA FieldsAre ==
    DOMAIN Start = {"phase", "session", "at", "todo", "tokens", "work", "raw", "own",
                    "texts", "restore", "key", "got", "answer", "from", "age", "delivered"}
  BY DEF Start

(* A step that leaves its request without an entry in hand, and its age.   *)
LEMMA QuietStep ==
    ASSUME IInv, NEW r \in Requests, r \in Active, NEW changes, Step(r, changes),
           UNCHANGED load, "age" \notin DOMAIN changes,
           IF "phase" \in DOMAIN changes
           THEN changes["phase"] \notin {"promote", "publish"}
           ELSE req[r].phase \notin {"promote", "publish"}
    PROVE  Requesting' /\ AgeBounded'
<1>1. Requesting /\ AgeBounded
  BY DEF IInv
<1>2. /\ req' = [q \in Requests |-> [f \in DOMAIN Start |-> req'[q][f]]]
      /\ \A q \in Requests : q # r => req'[q] = req[q]
      /\ \A f \in DOMAIN Start :
            req'[r][f] = IF f \in DOMAIN changes THEN changes[f] ELSE req[r][f]
  BY <1>1, StepChanges
<1>3. req'[r].age = req[r].age /\ req'[r].phase \notin {"promote", "publish"}
  BY <1>2, FieldsAre
<1>4. HoldsEntry(req'[r])
  BY <1>3 DEF HoldsEntry
<1>5. \A q \in Requests : /\ req'[q].phase # "new" => q \in Active
                         /\ HoldsEntry(req'[q])
  BY <1>1, <1>2, <1>4 DEF Requesting
<1>6. Active' = Active
  BY DEF Active
<1>7. \A q \in Requests : req'[q].age <= SharedTTL + CacheTTL
  BY <1>1, <1>2, <1>3 DEF AgeBounded
<1> QED
  BY <1>2, <1>5, <1>6, <1>7 DEF Requesting, AgeBounded

(* What an action leaves alone.                                            *)
LEMMA Untouched ==
    ASSUME IInv
    PROVE  /\ UNCHANGED <<local, backend>> => Caching'
           /\ UNCHANGED <<store, due, idle>> => Keeping'
           /\ UNCHANGED dict => Naming'
           /\ UNCHANGED <<load, due>> => load' \in DOMAIN Jobs /\ due' \in 0..Interval
<1>1. Caching /\ Keeping /\ Naming /\ load \in DOMAIN Jobs /\ due \in 0..Interval
  BY DEF IInv
<1>2. UNCHANGED <<local, backend>> => Caching'
  BY <1>1 DEF Caching
<1>3. UNCHANGED <<store, due, idle>> => Keeping'
  BY <1>1 DEF Keeping
<1>4. UNCHANGED dict => Naming'
  BY <1>1 DEF Naming
<1> QED
  BY <1>1, <1>2, <1>3, <1>4

LEMMA TouchTyped ==
    ASSUME idle \in [Sessions -> 0..IdleCap], NEW s
    PROVE  /\ [idle EXCEPT ![s] = 0] \in [Sessions -> 0..IdleCap]
           /\ \A x \in Sessions : [idle EXCEPT ![s] = 0][x] = IF x = s THEN 0 ELSE idle[x]
<1>1. 0 \in 0..IdleCap
  BY LimitsAreNumbers
<1> QED
  BY <1>1

LEMMA TouchKeeps ==
    ASSUME IInv, NEW s, UNCHANGED <<store, due>>, idle' = [idle EXCEPT ![s] = 0]
    PROVE  Keeping'
<1>1. Keeping /\ due \in 0..Interval
  BY DEF IInv
<1>2. idle' \in [Sessions -> 0..IdleCap]
  BY <1>1, TouchTyped DEF Keeping
<1>3. ASSUME NEW p \in Pods, NEW x \in Kept(store[p])
      PROVE  idle'[x] <= SessionTTL + due
  <2>1. x \in Sessions /\ idle[x] <= SessionTTL + due /\ due \in Nat
    BY <1>1 DEF Keeping, IsStore
  <2>2. idle'[x] = IF x = s THEN 0 ELSE idle[x]
    BY <1>1, <2>1 DEF Keeping
  <2> QED
    BY <2>1, <2>2, LimitsAreNumbers
<1> QED
  BY <1>1, <1>2, <1>3 DEF Keeping

LEMMA ActiveJob ==
    ASSUME IInv, NEW r \in Active
    PROVE  r \in Requests /\ Pod(r) \in Pods
  BY JobsAssumption DEF IInv, Active, Job, Pod

LEMMA OpenStep ==
    ASSUME IInv, NEW r \in Requests, Open(r)
    PROVE  IInv'
<1>1. PICK p : p = Pod(r) /\ p \in Pods
  BY ActiveJob DEF Open
<1>2. PICK s : /\ s = GetSession(store[p], idle, Job(r).conv, r)
               /\ Step(r, [phase |-> "plan", session |-> s])
               /\ store' = [store EXCEPT ![p] = AfterGetSession(store[p], idle, Job(r).conv, r)]
               /\ idle' = [idle EXCEPT ![s] = 0]
  BY <1>1 DEF Open
<1>3. r \in Active /\ UNCHANGED <<load, due, dict, local, backend>>
  BY DEF Open
<1>4. Requesting' /\ AgeBounded'
  <2>1. PICK c : c = [phase |-> "plan", session |-> s]
    OBVIOUS
  <2>2. DOMAIN c = {"phase", "session"} /\ c["phase"] = "plan"
    BY <2>1
  <2> QED
    BY <1>2, <1>3, <2>1, <2>2, QuietStep
<1>5. Keeping'
  <2>1. Keeping /\ due \in 0..Interval
    BY DEF IInv
  <2>2. IsStore(store[p]) /\ r \in Sessions
    BY <1>1, <2>1 DEF Keeping, Sessions
  <2>3. PICK st : st = AfterGetSession(store[p], idle, Job(r).conv, r)
    OBVIOUS
  <2>4. s \in Sessions /\ IsStore(st) /\ Kept(st) \subseteq Kept(store[p]) \cup {s}
    BY <1>2, <2>2, <2>3, OpenKeeps
  <2>5. /\ store' = [q \in Pods |-> store'[q]]
        /\ store'[p] = st /\ \A q \in Pods : q # p => store'[q] = store[q]
    BY <1>1, <1>2, <2>1, <2>3 DEF Keeping
  <2>6. /\ idle' \in [Sessions -> 0..IdleCap]
        /\ \A x \in Sessions : idle'[x] = IF x = s THEN 0 ELSE idle[x]
    BY <1>2, <2>1, TouchTyped DEF Keeping
  <2>7. ASSUME NEW q \in Pods
        PROVE  IsStore(store'[q]) /\ Kept(store'[q]) \subseteq Kept(store[q]) \cup {s}
    BY <2>1, <2>4, <2>5 DEF Keeping
  <2>8. ASSUME NEW q \in Pods, NEW x \in Kept(store'[q])
        PROVE  idle'[x] <= SessionTTL + due
    <3>1. CASE x = s
      BY <2>1, <2>4, <2>6, <3>1, LimitsAreNumbers
    <3>2. CASE x # s
      <4>1. x \in Kept(store[q])
        BY <2>7, <2>8, <3>2
      <4>2. x \in Sessions /\ idle[x] <= SessionTTL + due
        BY <2>1, <4>1 DEF Keeping, IsStore
      <4> QED
        BY <2>6, <3>2, <4>2
    <3> QED
      BY <3>1, <3>2
  <2> QED
    BY <1>3, <2>5, <2>6, <2>7, <2>8 DEF Keeping
<1> QED
  BY <1>3, <1>4, <1>5, Untouched DEF IInv

LEMMA FindStep ==
    ASSUME IInv, NEW r \in Requests, Find(r)
    PROVE  IInv'
<1>1. req[r].phase = "plan" /\ UNCHANGED <<load, store, due, idle, dict, local, backend>>
  BY DEF Find
<1>2. PICK text, found, todo :
        Step(r, [phase |-> "masker", raw |-> text, work |-> found, tokens |-> <<>>,
                 todo |-> todo])
  BY DEF Find
<1>3. r \in Active
  BY <1>1 DEF IInv, Requesting
<1>4. PICK c : c = [phase |-> "masker", raw |-> text, work |-> found, tokens |-> <<>>,
                    todo |-> todo]
  OBVIOUS
<1>5. DOMAIN c = {"phase", "raw", "work", "tokens", "todo"} /\ c["phase"] = "masker"
  BY <1>4
<1>6. Requesting' /\ AgeBounded'
  BY <1>1, <1>2, <1>3, <1>4, <1>5, QuietStep
<1> QED
  BY <1>1, <1>6, Untouched DEF IInv

LEMMA MaskNextStep ==
    ASSUME IInv, NEW r \in Requests, MaskNext(r)
    PROVE  IInv'
<1>1. /\ req[r].phase \in {"masker", "refdict", "astprune"}
      /\ UNCHANGED <<load, store, due, idle, local, backend>>
  BY DEF MaskNext
<1>2. PICK s, v, k, n : dict' = [dict EXCEPT ![s] = MaskAs(dict[s], v, k, n)]
  BY DEF MaskNext
<1>3. PICK tokens, own : Step(r, [tokens |-> tokens, own |-> own])
  BY DEF MaskNext
<1>4. r \in Active
  BY <1>1 DEF IInv, Requesting
<1>5. PICK c : c = [tokens |-> tokens, own |-> own]
  OBVIOUS
<1>6. DOMAIN c = {"tokens", "own"}
  BY <1>5
<1>7. Requesting' /\ AgeBounded'
  BY <1>1, <1>3, <1>4, <1>5, <1>6, QuietStep
<1>8. Naming'
  <2>1. ASSUME NEW x \in Sessions PROVE IsDictionary(dict'[x])
    <3>1. IsDictionary(dict[x]) /\ x \in DOMAIN dict
      BY DEF IInv, Naming
    <3>2. dict'[x] = IF x = s THEN MaskAs(dict[x], v, k, n) ELSE dict[x]
      BY <1>2, <3>1
    <3> QED
      BY <3>1, <3>2, MaskKeeps
  <2>2. dict' = [x \in Sessions |-> dict'[x]]
    BY <1>2 DEF IInv, Naming
  <2> QED
    BY <2>1, <2>2 DEF Naming
<1> QED
  BY <1>1, <1>7, <1>8, Untouched DEF IInv

(* The hand-over between the stages changes only the stages' own fields.   *)
LEMMA FinishedIsQuiet ==
    ASSUME NEW r, NEW text, NEW c, c = Finished(r, text)
    PROVE  /\ DOMAIN c \subseteq DOMAIN Start \ {"age", "got"} /\ "phase" \in DOMAIN c
           /\ c["phase"] = "plan"
<1>1. PICK at, texts : c = [phase |-> "plan", at |-> at, todo |-> <<>>,
                            tokens |-> <<>>, work |-> <<>>, raw |-> <<>>, texts |-> texts]
  BY DEF Finished
<1> QED
  BY <1>1, FieldsAre

LEMMA ToPruneIsQuiet ==
    ASSUME NEW r, NEW text, NEW c, c = ToPrune(r, text)
    PROVE  /\ DOMAIN c \subseteq DOMAIN Start \ {"age", "got"} /\ "phase" \in DOMAIN c
           /\ c["phase"] \in {"plan", "astprune"}
<1>1. CASE PrunedAt(text) = {}
  BY <1>1, FinishedIsQuiet DEF ToPrune
<1>2. CASE PrunedAt(text) # {}
  <2>1. PICK todo : c = [phase |-> "astprune", work |-> text, tokens |-> <<>>, todo |-> todo]
    BY <1>2 DEF ToPrune
  <2> QED
    BY <2>1, FieldsAre
<1> QED
  BY <1>1, <1>2

LEMMA ToFoldIsQuiet ==
    ASSUME NEW r, NEW text, NEW c, c = ToFold(r, text)
    PROVE  /\ DOMAIN c \subseteq DOMAIN Start \ {"age", "got"} /\ "phase" \in DOMAIN c
           /\ c["phase"] \in {"plan", "astprune", "refdict"}
<1>1. CASE FoldedAt(text) = {}
  BY <1>1, ToPruneIsQuiet DEF ToFold
<1>2. CASE FoldedAt(text) # {}
  <2>1. PICK todo : c = [phase |-> "refdict", work |-> text, tokens |-> <<>>, todo |-> todo]
    BY <1>2 DEF ToFold
  <2> QED
    BY <2>1, FieldsAre
<1> QED
  BY <1>1, <1>2

LEMMA ClusterStep ==
    ASSUME IInv, NEW r \in Requests, Cluster(r)
    PROVE  IInv'
<1>1. /\ req[r].phase = "masker"
      /\ UNCHANGED <<load, store, due, dict, local, backend>>
  BY DEF Cluster, StageDone
<1>2. PICK c : /\ Step(r, c)
               /\ c = Finished(r, Masked(r)) \/ c = ToFold(r, Drain(Masked(r)))
  <2>1. CASE MaskedOnly(r)
    BY <2>1 DEF Cluster
  <2>2. CASE ~ MaskedOnly(r)
    BY <2>2 DEF Cluster
  <2> QED
    BY <2>1, <2>2
<1>3. DOMAIN c \subseteq DOMAIN Start \ {"age", "got"} /\ "phase" \in DOMAIN c
      /\ c["phase"] \in {"plan", "astprune", "refdict"}
  <2>1. CASE c = Finished(r, Masked(r))
    BY <2>1, FinishedIsQuiet
  <2>2. CASE c = ToFold(r, Drain(Masked(r)))
    BY <2>2, ToFoldIsQuiet
  <2> QED
    BY <1>2, <2>1, <2>2
<1>4. r \in Active
  BY <1>1 DEF IInv, Requesting
<1>5. Requesting' /\ AgeBounded'
  BY <1>1, <1>2, <1>3, <1>4, QuietStep
<1>6. Keeping'
  <2>1. CASE req[r].work = <<>>
    BY <1>1, <2>1, Untouched DEF Cluster
  <2>2. CASE req[r].work # <<>>
    <3>1. idle' = [idle EXCEPT ![req[r].session] = 0]
      BY <2>2 DEF Cluster
    <3> QED
      BY <1>1, <3>1, TouchKeeps
  <2> QED
    BY <2>1, <2>2
<1> QED
  BY <1>1, <1>5, <1>6, Untouched DEF IInv

LEMMA FoldStep ==
    ASSUME IInv, NEW r \in Requests, Fold(r)
    PROVE  IInv'
<1>1. /\ req[r].phase = "refdict"
      /\ UNCHANGED <<load, store, due, idle, dict, local, backend>>
  BY DEF Fold, StageDone
<1>2. PICK c, text : Step(r, c) /\ c = ToPrune(r, text)
  BY DEF Fold
<1>3. DOMAIN c \subseteq DOMAIN Start \ {"age", "got"} /\ "phase" \in DOMAIN c
      /\ c["phase"] \in {"plan", "astprune"}
  BY <1>2, ToPruneIsQuiet
<1>4. r \in Active
  BY <1>1 DEF IInv, Requesting
<1>5. Requesting' /\ AgeBounded'
  BY <1>1, <1>2, <1>3, <1>4, QuietStep
<1> QED
  BY <1>1, <1>5, Untouched DEF IInv

LEMMA PruneCodeStep ==
    ASSUME IInv, NEW r \in Requests, PruneCode(r)
    PROVE  IInv'
<1>1. /\ req[r].phase = "astprune"
      /\ UNCHANGED <<load, store, due, idle, dict, local, backend>>
  BY DEF PruneCode, StageDone
<1>2. PICK c, text : Step(r, c) /\ c = Finished(r, text)
  BY DEF PruneCode
<1>3. DOMAIN c \subseteq DOMAIN Start \ {"age", "got"} /\ "phase" \in DOMAIN c
      /\ c["phase"] = "plan"
  BY <1>2, FinishedIsQuiet
<1>4. r \in Active
  BY <1>1 DEF IInv, Requesting
<1>5. Requesting' /\ AgeBounded'
  BY <1>1, <1>2, <1>3, <1>4, QuietStep
<1> QED
  BY <1>1, <1>5, Untouched DEF IInv

(* A hit is served as old as its answer is; a miss goes on.                *)
LEMMA LookStep ==
    ASSUME IInv, NEW r \in Requests, Look(r)
    PROVE  IInv'
<1>1. /\ req[r].phase = "plan"
      /\ UNCHANGED <<load, store, due, idle, dict, backend>>
  BY DEF Look
<1>2. r \in Active
  BY <1>1 DEF IInv, Requesting
<1>3. PICK p : p = Pod(r) /\ p \in Pods
  BY <1>2, ActiveJob
<1>4. PICK c, key :
        /\ local' = [local EXCEPT ![p] = AfterGet(local[p], key)]
        /\ Step(r, c)
        /\ "phase" \in DOMAIN c /\ c["phase"] \in {"deliver", "fetch", "ask"}
        /\ "age" \in DOMAIN c => Hits(local[p], key) /\ c["age"] = Stored(local[p], key).born
  <2>1. PICK shape, key :
          /\ local' = [local EXCEPT ![p] = AfterGet(local[p], key)]
          /\ IF Hits(local[p], key)
             THEN \E from, answer :
                    Step(r, [phase |-> "deliver", age |-> Stored(local[p], key).born,
                             from |-> from, answer |-> answer, restore |-> shape, key |-> key])
             ELSE Step(r, [phase |-> IF SharedTTL > 0 THEN "fetch" ELSE "ask",
                           restore |-> shape, key |-> key])
    BY <1>3 DEF Look
  <2>2. CASE Hits(local[p], key)
    <3>1. PICK from, answer :
             Step(r, [phase |-> "deliver", age |-> Stored(local[p], key).born,
                      from |-> from, answer |-> answer, restore |-> shape, key |-> key])
      BY <2>1, <2>2
    <3>2. PICK c : c = [phase |-> "deliver", age |-> Stored(local[p], key).born,
                      from |-> from, answer |-> answer, restore |-> shape, key |-> key]
      OBVIOUS
    <3>3. "phase" \in DOMAIN c /\ c["phase"] = "deliver"
          /\ c["age"] = Stored(local[p], key).born
      BY <3>2
    <3>4. Step(r, c)
      BY <3>1, <3>2
    <3> QED
      BY <2>1, <2>2, <3>3, <3>4
  <2>3. CASE ~ Hits(local[p], key)
    <3>1. PICK c : c = [phase |-> IF SharedTTL > 0 THEN "fetch" ELSE "ask",
                      restore |-> shape, key |-> key]
      OBVIOUS
    <3>2. "phase" \in DOMAIN c /\ c["phase"] \in {"fetch", "ask"} /\ "age" \notin DOMAIN c
      BY <3>1
    <3>3. Step(r, c)
      BY <2>1, <2>3, <3>1
    <3> QED
      BY <2>1, <3>2, <3>3
  <2> QED
    BY <2>2, <2>3
<1>5. Caching /\ IsCache(local[p])
  BY <1>3 DEF IInv, Caching
<1>6. Caching'
  <2>1. IsCache(AfterGet(local[p], key))
    BY <1>5, GetKeeps
  <2>2. local' = [q \in Pods |-> local'[q]] /\ \A q \in Pods : IsCache(local'[q])
    BY <1>3, <1>4, <1>5, <2>1 DEF Caching
  <2> QED
    BY <1>1, <1>5, <2>2 DEF Caching
<1>7. Requesting' /\ AgeBounded'
  <2>1. Requesting /\ AgeBounded
    BY DEF IInv
  <2>2. /\ req' = [q \in Requests |-> [f \in DOMAIN Start |-> req'[q][f]]]
        /\ \A q \in Requests : q # r => req'[q] = req[q]
        /\ \A f \in DOMAIN Start :
              req'[r][f] = IF f \in DOMAIN c THEN c[f] ELSE req[r][f]
    BY <1>4, <2>1, StepChanges
  <2>3. req'[r].phase \in {"deliver", "fetch", "ask"}
    BY <1>4, <2>2, FieldsAre
  <2>4. req'[r].age <= SharedTTL + CacheTTL
    <3>1. CASE "age" \in DOMAIN c
      <4>1. req'[r].age = Stored(local[p], key).born /\ Hits(local[p], key)
        BY <1>4, <2>2, <3>1, FieldsAre
      <4> QED
        BY <1>5, <4>1, GetKeeps
    <3>2. CASE "age" \notin DOMAIN c
      <4>1. req'[r].age = req[r].age
        BY <2>2, <3>2, FieldsAre
      <4> QED
        BY <2>1, <4>1 DEF AgeBounded
    <3> QED
      BY <3>1, <3>2
  <2>5. HoldsEntry(req'[r])
    BY <2>3 DEF HoldsEntry
  <2>6. Active' = Active
    BY <1>1 DEF Active
  <2> QED
    BY <1>2, <2>1, <2>2, <2>4, <2>5, <2>6 DEF Requesting, AgeBounded
<1> QED
  BY <1>1, <1>6, <1>7, Untouched DEF IInv

LEMMA HandStep ==
    ASSUME IInv, NEW r \in Requests, r \in Active, NEW changes, Step(r, changes),
           UNCHANGED load, HoldsEntry(req'[r]), req'[r].age <= SharedTTL + CacheTTL
    PROVE  Requesting' /\ AgeBounded'
<1>1. Requesting /\ AgeBounded
  BY DEF IInv
<1>2. /\ req' = [q \in Requests |-> [f \in DOMAIN Start |-> req'[q][f]]]
      /\ \A q \in Requests : q # r => req'[q] = req[q]
  BY <1>1, StepChanges
<1>3. \A q \in Requests : /\ req'[q].phase # "new" => q \in Active
                         /\ HoldsEntry(req'[q])
  BY <1>1, <1>2 DEF Requesting
<1>4. Active' = Active
  BY DEF Active
<1>5. \A q \in Requests : req'[q].age <= SharedTTL + CacheTTL
  BY <1>1, <1>2 DEF AgeBounded
<1> QED
  BY <1>2, <1>3, <1>4, <1>5 DEF Requesting, AgeBounded

LEMMA FetchStep ==
    ASSUME IInv, NEW r \in Requests, Fetch(r)
    PROVE  IInv'
<1>1. /\ req[r].phase = "fetch"
      /\ UNCHANGED <<load, store, due, idle, dict, local, backend>>
  BY DEF Fetch
<1>2. r \in Active
  BY <1>1 DEF IInv, Requesting
<1>3. CASE Step(r, [phase |-> "ask"])
  <2>1. PICK c : c = [phase |-> "ask"]
    OBVIOUS
  <2>2. DOMAIN c = {"phase"} /\ c["phase"] = "ask"
    BY <2>1
  <2>3. Requesting' /\ AgeBounded'
    BY <1>1, <1>2, <1>3, <2>1, <2>2, QuietStep
  <2> QED
    BY <1>1, <2>3, Untouched DEF IInv
<1>4. ASSUME NEW e \in backend, Step(r, [phase |-> "promote", got |-> e])
      PROVE  IInv'
  <2>1. PICK c : c = [phase |-> "promote", got |-> e]
    OBVIOUS
  <2>2. DOMAIN c = {"phase", "got"} /\ c["phase"] = "promote" /\ c["got"] = e
    BY <2>1
  <2>3. Requesting /\ AgeBounded
    BY DEF IInv
  <2>4. \A f \in DOMAIN Start : req'[r][f] = IF f \in DOMAIN c THEN c[f] ELSE req[r][f]
    BY <1>4, <2>1, <2>3, StepChanges
  <2>5. req'[r].phase = "promote" /\ req'[r].got = e /\ req'[r].age = req[r].age
    BY <2>2, <2>4, FieldsAre
  <2>6. IsEntry(e) /\ e.born <= SharedTTL
    <3>1. IsEntry(e) /\ e.born <= e.age /\ e.age <= SharedTTL
      BY DEF IInv, Caching, IsBackend
    <3>2. e.born \in Nat /\ e.age \in Nat
      BY <3>1 DEF IsEntry
    <3> QED
      BY <3>1, <3>2, LimitsAreNumbers
  <2>7. HoldsEntry(req'[r])
    BY <2>5, <2>6 DEF HoldsEntry
  <2>8. Requesting' /\ AgeBounded'
    <3>1. req'[r].age <= SharedTTL + CacheTTL
      BY <2>3, <2>5 DEF AgeBounded
    <3> QED
      BY <1>1, <1>2, <1>4, <2>7, <3>1, HandStep
  <2> QED
    BY <1>1, <2>8, Untouched DEF IInv
<1> QED
  BY <1>3, <1>4 DEF Fetch

(* What is put into a replica's local tier may be put there.               *)
LEMMA PutKeepsTiers ==
    ASSUME IInv, NEW p \in Pods, NEW e, IsEntry(e), e.born <= SharedTTL,
           local' = [local EXCEPT ![p] = Put(local[p], e)], UNCHANGED backend
    PROVE  Caching'
<1>1. Caching /\ IsCache(local[p])
  BY DEF IInv, Caching
<1>2. IsCache(Put(local[p], e))
  BY <1>1, PutKeeps
<1>3. local' = [q \in Pods |-> local'[q]] /\ \A q \in Pods : IsCache(local'[q])
  BY <1>1, <1>2 DEF Caching
<1> QED
  BY <1>1, <1>3 DEF Caching

LEMMA PromoteStep ==
    ASSUME IInv, NEW r \in Requests, Promote(r)
    PROVE  IInv'
<1>1. /\ req[r].phase = "promote"
      /\ UNCHANGED <<load, store, due, idle, dict, backend>>
  BY DEF Promote
<1>2. r \in Active /\ HoldsEntry(req[r]) /\ Requesting
  BY <1>1 DEF IInv, Requesting
<1>3. PICK e : e = req[r].got /\ IsEntry(e) /\ e.born <= SharedTTL
  BY <1>1, <1>2 DEF HoldsEntry
<1>4. local' = [local EXCEPT ![Pod(r)] = Put(local[Pod(r)], e)]
  BY <1>3 DEF Promote
<1>5. PICK from, answer, none :
         Step(r, [phase |-> "deliver", age |-> e.born, from |-> from, got |-> none,
                  answer |-> answer])
  BY <1>3 DEF Promote
<1>6. PICK c : c = [phase |-> "deliver", age |-> e.born, from |-> from, got |-> none,
                    answer |-> answer]
  OBVIOUS
<1>7. /\ DOMAIN c = {"phase", "age", "from", "got", "answer"}
      /\ c["phase"] = "deliver" /\ c["age"] = e.born
  BY <1>6
<1>8. \A f \in DOMAIN Start : req'[r][f] = IF f \in DOMAIN c THEN c[f] ELSE req[r][f]
  BY <1>2, <1>5, <1>6, StepChanges
<1>9. req'[r].phase = "deliver" /\ req'[r].age = e.born
  BY <1>7, <1>8, FieldsAre
<1>10. Requesting' /\ AgeBounded'
  <2>1. e.born <= SharedTTL + CacheTTL
    BY <1>3, LimitsAreNumbers DEF IsEntry
  <2>2. HoldsEntry(req'[r])
    BY <1>9 DEF HoldsEntry
  <2> QED
    BY <1>1, <1>2, <1>5, <1>9, <2>1, <2>2, HandStep
<1>11. Caching'
  BY <1>1, <1>2, <1>3, <1>4, ActiveJob, PutKeepsTiers
<1> QED
  BY <1>1, <1>10, <1>11, Untouched DEF IInv

LEMMA AnswerStep ==
    ASSUME IInv, NEW r \in Requests, Answer(r)
    PROVE  IInv'
<1>1. /\ req[r].phase = "ask"
      /\ UNCHANGED <<load, store, due, idle, dict, backend>>
  BY DEF Answer
<1>2. r \in Active /\ Requesting /\ AgeBounded
  BY <1>1 DEF IInv, Requesting
<1>3. PICK key, from, content, drawn, e :
        /\ e = [key |-> key, age |-> 0, born |-> 0, from |-> from, content |-> content]
        /\ local' = [local EXCEPT ![Pod(r)] = Put(local[Pod(r)], e)]
        /\ Step(r, [answer |-> drawn, from |-> from,
                    phase |-> IF SharedTTL > 0 THEN "publish" ELSE "deliver",
                    got   |-> IF SharedTTL > 0 THEN e ELSE NoAnswer])
  BY DEF Answer
<1>4. IsEntry(e) /\ e.born = 0 /\ e.age = 0
  BY <1>3 DEF IsEntry
<1>5. PICK c : c = [answer |-> drawn, from |-> from,
                    phase |-> IF SharedTTL > 0 THEN "publish" ELSE "deliver",
                    got   |-> IF SharedTTL > 0 THEN e ELSE NoAnswer]
  OBVIOUS
<1>6. /\ DOMAIN c = {"answer", "from", "phase", "got"}
      /\ c["phase"] = IF SharedTTL > 0 THEN "publish" ELSE "deliver"
      /\ c["got"] = IF SharedTTL > 0 THEN e ELSE NoAnswer
  BY <1>5
<1>7. \A f \in DOMAIN Start : req'[r][f] = IF f \in DOMAIN c THEN c[f] ELSE req[r][f]
  BY <1>2, <1>3, <1>5, StepChanges
<1>8. /\ req'[r].phase = (IF SharedTTL > 0 THEN "publish" ELSE "deliver")
      /\ req'[r].got = (IF SharedTTL > 0 THEN e ELSE NoAnswer)
      /\ req'[r].age = req[r].age
  BY <1>6, <1>7, FieldsAre
<1>9. HoldsEntry(req'[r])
  BY <1>4, <1>8 DEF HoldsEntry
<1>10. Requesting' /\ AgeBounded'
  <2>1. req'[r].age <= SharedTTL + CacheTTL
    BY <1>2, <1>8 DEF AgeBounded
  <2> QED
    BY <1>1, <1>2, <1>3, <1>9, <2>1, HandStep
<1>11. Caching'
  <2>1. e.born <= SharedTTL
    BY <1>4, LimitsAreNumbers
  <2> QED
    BY <1>1, <1>2, <1>3, <1>4, <2>1, ActiveJob, PutKeepsTiers
<1> QED
  BY <1>1, <1>10, <1>11, Untouched DEF IInv

LEMMA PublishStep ==
    ASSUME IInv, NEW r \in Requests, Publish(r)
    PROVE  IInv'
<1>1. /\ req[r].phase = "publish"
      /\ UNCHANGED <<load, store, due, idle, dict, local>>
  BY DEF Publish
<1>2. r \in Active /\ HoldsEntry(req[r]) /\ Requesting /\ AgeBounded /\ Caching
  BY <1>1 DEF IInv, Requesting
<1>3. PICK none : Step(r, [phase |-> "deliver", got |-> none])
  BY DEF Publish
<1>4. PICK c : c = [phase |-> "deliver", got |-> none]
  OBVIOUS
<1>5. DOMAIN c = {"phase", "got"} /\ c["phase"] = "deliver"
  BY <1>4
<1>6. Requesting' /\ AgeBounded'
  BY <1>1, <1>2, <1>3, <1>4, <1>5, QuietStep
<1>7. Caching'
  <2>1. PICK e : e = req[r].got /\ IsEntry(e) /\ e.born = 0 /\ e.age = 0
    BY <1>1, <1>2 DEF HoldsEntry
  <2>2. IsBackend(backend \cup {e})
    BY <1>2, <2>1, LimitsAreNumbers DEF Caching, IsBackend
  <2>3. backend' \subseteq backend \cup {e}
    BY <2>1 DEF Publish
  <2>4. IsBackend(backend')
    BY <2>2, <2>3 DEF IsBackend
  <2> QED
    BY <1>1, <1>2, <2>4 DEF Caching
<1> QED
  BY <1>1, <1>6, <1>7, Untouched DEF IInv

LEMMA DeliverStep ==
    ASSUME IInv, NEW r \in Requests, Deliver(r)
    PROVE  IInv'
<1>1. /\ req[r].phase = "deliver"
      /\ UNCHANGED <<load, store, due, idle, dict, local, backend>>
  BY DEF Deliver
<1>2. r \in Active
  BY <1>1 DEF IInv, Requesting
<1>3. PICK text : Step(r, [phase |-> "done", delivered |-> text])
  BY DEF Deliver
<1>4. PICK c : c = [phase |-> "done", delivered |-> text]
  OBVIOUS
<1>5. DOMAIN c = {"phase", "delivered"} /\ c["phase"] = "done"
  BY <1>4
<1>6. Requesting' /\ AgeBounded'
  BY <1>1, <1>2, <1>3, <1>4, <1>5, QuietStep
<1> QED
  BY <1>1, <1>6, Untouched DEF IInv
-----------------------------------------------------------------------------
(* The steps no request takes.                                             *)
LEMMA RequestsWait ==
    ASSUME IInv, UNCHANGED <<load, req>>
    PROVE  Requesting' /\ AgeBounded'
  BY DEF IInv, Requesting, HoldsEntry, AgeBounded, Active

LEMMA PurgeStep ==
    ASSUME IInv, NEW p \in Pods, Purge(p)
    PROVE  IInv'
<1>1. UNCHANGED <<load, store, due, idle, dict, backend, req>>
  BY DEF Purge
<1>2. Caching'
  <2>1. IsCache(<<>>)
    <3>1. /\ <<>> \in Seq({}) /\ Len(<<>>) = 0
          /\ \A i \in DOMAIN <<>> : FALSE
      OBVIOUS
    <3> QED
      BY <3>1, LimitsAreNumbers DEF IsCache, IsList, OneEntryPerKey
  <2>2. local' = [local EXCEPT ![p] = <<>>]
    BY DEF Purge
  <2> QED
    BY <1>1, <2>1, <2>2 DEF IInv, Caching
<1> QED
  BY <1>1, <1>2, RequestsWait, Untouched DEF IInv

(* The sweep leaves no session idle past the TTL, and time starts anew.    *)
LEMMA SweepStep ==
    ASSUME IInv, Sweep
    PROVE  IInv'
<1>1. UNCHANGED <<load, idle, dict, local, backend, req>> /\ due' = 0
  BY DEF Sweep
<1>2. Keeping'
  <2>1. Keeping
    BY DEF IInv
  <2>2. store' = [p \in Pods |-> Expire(store[p], idle)]
    BY DEF Sweep
  <2>3. ASSUME NEW p \in Pods
        PROVE  /\ IsStore(store'[p])
               /\ \A x \in Kept(store'[p]) : idle[x] <= SessionTTL + 0
    <3>1. IsStore(store[p]) /\ store'[p] = Expire(store[p], idle)
      BY <2>1, <2>2 DEF Keeping
    <3>2. /\ IsStore(store'[p])
          /\ \A x \in Kept(store'[p]) : ~ (idle[x] > SessionTTL)
      BY <3>1, ExpireKeeps
    <3>3. ASSUME NEW x \in Kept(store'[p]) PROVE idle[x] <= SessionTTL + 0
      <4>1. x \in Sessions
        BY <3>2 DEF IsStore
      <4>2. idle[x] \in Nat
        BY <2>1, <4>1, LimitsAreNumbers DEF Keeping
      <4> QED
        BY <3>2, <4>2, LimitsAreNumbers
    <3> QED
      BY <3>2, <3>3
  <2> QED
    BY <1>1, <2>1, <2>2, <2>3 DEF Keeping
<1>3. load' \in DOMAIN Jobs /\ due' \in 0..Interval
  BY <1>1, IntervalIsPositive DEF IInv
<1> QED
  BY <1>1, <1>2, <1>3, RequestsWait, Untouched DEF IInv

LEMMA TickStep ==
    ASSUME IInv, Tick
    PROVE  IInv'
<1>1. UNCHANGED <<load, store, dict, req>> /\ due' = due + 1 /\ due < Interval
  BY DEF Tick
<1>2. Caching /\ Keeping /\ due \in 0..Interval /\ load \in DOMAIN Jobs
  BY DEF IInv
<1>3. due' \in 0..Interval /\ load' \in DOMAIN Jobs
  BY <1>1, <1>2, IntervalIsPositive
<1>4. Caching'
  <2>1. \A p \in Pods : IsCache([i \in DOMAIN local[p] |->
              [local[p][i] EXCEPT !.age = Older(@, AgeCap), !.born = Older(@, BornCap)]])
    BY <1>2, TickKeepsCache DEF Caching
  <2>2. local' = [p \in Pods |-> local'[p]] /\ \A p \in Pods : IsCache(local'[p])
    BY <2>1 DEF Tick
  <2>3. IsBackend(backend')
    BY <1>2, TickKeepsBackend DEF Tick, Caching
  <2> QED
    BY <2>2, <2>3 DEF Caching
<1>5. Keeping'
  <2>1. \A s \in Sessions : idle[s] \in Nat /\ idle[s] <= IdleCap
    BY <1>2, LimitsAreNumbers DEF Keeping
  <2>2. \A s \in Sessions : /\ Older(idle[s], IdleCap) \in Nat
                           /\ Older(idle[s], IdleCap) <= idle[s] + 1
                           /\ Older(idle[s], IdleCap) <= IdleCap
    BY <2>1, OlderCounts, LimitsAreNumbers
  <2>3. \A s \in Sessions : Older(idle[s], IdleCap) \in 0..IdleCap /\ 0 \in 0..IdleCap
    BY <2>2, LimitsAreNumbers
  <2>4. idle' = [s \in Sessions |-> IF \E p \in Pods : s \in Kept(store[p])
                                   THEN Older(idle[s], IdleCap) ELSE 0]
    BY DEF Tick
  <2>5. idle' \in [Sessions -> 0..IdleCap]
    BY <2>3, <2>4
  <2>6. ASSUME NEW p \in Pods, NEW s \in Kept(store[p])
        PROVE  idle'[s] <= SessionTTL + (due + 1)
    <3>1. s \in Sessions /\ idle[s] <= SessionTTL + due
      BY <1>2 DEF Keeping, IsStore
    <3>2. idle'[s] = Older(idle[s], IdleCap)
      BY <2>4, <3>1
    <3>3. idle[s] \in Nat /\ Older(idle[s], IdleCap) \in Nat /\ due \in Nat
      BY <1>2, <2>1, <2>2, <3>1, IntervalIsPositive
    <3> QED
      BY <2>2, <3>1, <3>2, <3>3, LimitsAreNumbers
  <2> QED
    BY <1>1, <1>2, <2>5, <2>6 DEF Keeping
<1> QED
  BY <1>1, <1>3, <1>4, <1>5, RequestsWait, Untouched DEF IInv

LEMMA Preserved == IInv /\ [Next]_vars => IInv'
<1> SUFFICES ASSUME IInv, [Next]_vars PROVE IInv'
  OBVIOUS
<1>1. ASSUME NEW r \in Requests, \/ Open(r) \/ Find(r) \/ MaskNext(r) \/ Cluster(r)
                                \/ Fold(r) \/ PruneCode(r) \/ Look(r) \/ Fetch(r)
                                \/ Promote(r) \/ Answer(r) \/ Publish(r) \/ Deliver(r)
      PROVE  IInv'
  BY <1>1, OpenStep, FindStep, MaskNextStep, ClusterStep, FoldStep, PruneCodeStep,
     LookStep, FetchStep, PromoteStep, AnswerStep, PublishStep, DeliverStep
<1>2. ASSUME NEW p \in Pods, Purge(p) PROVE IInv'
  BY <1>2, PurgeStep
<1>3. CASE Sweep
  BY <1>3, SweepStep
<1>4. CASE Tick
  BY <1>4, TickStep
<1>5. CASE UNCHANGED vars
  BY <1>5, RequestsWait, Untouched DEF vars, IInv
<1> QED
  BY <1>1, <1>2, <1>3, <1>4, <1>5 DEF Next

LEMMA Invariance == Spec => []IInv
  BY Initially, Preserved, PTL DEF Spec
-----------------------------------------------------------------------------
(* The dictionary's two maps are each other's inverse and as large as its  *)
(* counters say, a cache keeps one entry per key and no more than its      *)
(* limit, and a store no more than its own (dictionary.go MaskAs, cache.go *)
(* Put, store.go evictLocked).                                             *)
THEOREM TypeCorrect == Spec => []TypeOK
  BY Invariance, Implied, PTL

(* However the requests of the replicas interleave, no answer is served    *)
(* later than one stay in the shared tier and one in the local tier after  *)
(* it was produced: promotion restarts the local clock once, and the       *)
(* shared tier's never restarts (shared.go Get, cache.go Get).             *)
THEOREM AnswersAreYoung == Spec => []AgeBounded
  BY Invariance, Implied, PTL

(* A dictionary no request has touched leaves memory within the TTL and    *)
(* one round of the janitor, in whatever order the sessions were opened    *)
(* and touched (store.go janitor, expire).                                 *)
THEOREM IdleSessionsLeave == Spec => []IdleForgotten
  BY Invariance, Implied, PTL

(* A placeholder means one value for as long as its conversation lives: no *)
(* request sharing the session gives a value another token, a token        *)
(* another value, or a token a weaker rank (dictionary.go MaskAs).         *)
TokensKeepTheirMeaning == [][\A s \in Sessions : Keeps(dict[s], dict'[s])]_vars

THEOREM MeaningIsKept == Spec => TokensKeepTheirMeaning
<1>1. IInv /\ [Next]_vars => [\A s \in Sessions : Keeps(dict[s], dict'[s])]_vars
  <2> SUFFICES ASSUME IInv, Next, NEW s \in Sessions PROVE Keeps(dict[s], dict'[s])
    BY DEF vars
  <2>1. CASE UNCHANGED dict
    BY <2>1 DEF Keeps
  <2>2. ASSUME NEW r \in Requests, MaskNext(r)
        PROVE  Keeps(dict[s], dict'[s])
    <3>1. PICK x, v, k, n : dict' = [dict EXCEPT ![x] = MaskAs(dict[x], v, k, n)]
      BY <2>2 DEF MaskNext
    <3>2. IsDictionary(dict[s]) /\ s \in DOMAIN dict
      BY DEF IInv, Naming
    <3>3. dict'[s] = IF s = x THEN MaskAs(dict[s], v, k, n) ELSE dict[s]
      BY <3>1, <3>2
    <3>4. Keeps(dict[s], dict[s])
      BY DEF Keeps
    <3> QED
      BY <3>2, <3>3, <3>4, MaskKeeps
  <2> QED
    BY <2>1, <2>2 DEF Next, Open, Find, Cluster, Fold, PruneCode, Look, Fetch,
       Promote, Answer, Publish, Deliver, Purge, Sweep, Tick
<1> QED
  BY <1>1, Invariance, PTL DEF Spec, TokensKeepTheirMeaning
-----------------------------------------------------------------------------
(* Sorting a finite set by a strict total order lists each of its elements *)
(* once, in the order.                                                     *)
LEMMA SortedFacts ==
    ASSUME NEW S, IsFiniteSet(S), NEW R,
           \A x \in S : <<x, x>> \notin R,
           \A x, y \in S : x # y => <<x, y>> \in R \/ <<y, x>> \in R,
           \A x, y, z \in S : <<x, y>> \in R /\ <<y, z>> \in R => <<x, z>> \in R,
           NEW s, s = Sorted(S, R)
    PROVE  /\ Cardinality(S) \in Nat /\ s \in Seq(S) /\ Len(s) = Cardinality(S)
           /\ \A i, j \in DOMAIN s : i < j => <<s[i], s[j]>> \in R
           /\ \A x \in S : \E i \in DOMAIN s : s[i] = x
<1> DEFINE n == Cardinality(S)
           Below(x) == {y \in S : <<y, x>> \in R}
           rank == [x \in S |-> Cardinality(Below(x))]
<1>1. n \in Nat
  BY FS_CardinalityType
<1>2. ASSUME NEW x \in S
      PROVE  IsFiniteSet(Below(x)) /\ rank[x] \in 0..(n - 1)
  <2>1. Below(x) \in SUBSET S /\ Below(x) # S
    OBVIOUS
  <2>2. /\ IsFiniteSet(Below(x)) /\ Cardinality(Below(x)) <= n
        /\ Cardinality(Below(x)) # n
    BY <2>1, FS_Subset
  <2>3. Cardinality(Below(x)) \in Nat
    BY <2>2, FS_CardinalityType
  <2>4. rank[x] = Cardinality(Below(x))
    OBVIOUS
  <2> QED
    BY <1>1, <2>2, <2>3, <2>4
<1>3. ASSUME NEW x \in S, NEW y \in S, <<x, y>> \in R
      PROVE  rank[x] < rank[y]
  <2>1. Below(x) \in SUBSET Below(y) /\ Below(x) # Below(y)
    BY <1>3
  <2>2. IsFiniteSet(Below(x)) /\ IsFiniteSet(Below(y))
    BY <1>2
  <2>3. /\ Cardinality(Below(x)) <= Cardinality(Below(y))
        /\ Cardinality(Below(x)) # Cardinality(Below(y))
    <3>1. Cardinality(Below(y)) = Cardinality(Below(x)) => Below(y) = Below(x)
      BY <2>1, <2>2, FS_Subset
    <3>2. Cardinality(Below(x)) <= Cardinality(Below(y))
      BY <2>1, <2>2, FS_Subset
    <3> QED
      BY <2>1, <3>1, <3>2
  <2>4. Cardinality(Below(x)) \in Nat /\ Cardinality(Below(y)) \in Nat
    BY <2>2, FS_CardinalityType
  <2>5. rank[x] = Cardinality(Below(x)) /\ rank[y] = Cardinality(Below(y))
    OBVIOUS
  <2> QED
    BY <2>3, <2>4, <2>5
<1> HIDE DEF Below
<1>4. \A k \in 0..(n - 1) : \E x \in S : rank[x] = k
  <2>1. rank \in [S -> 0..(n - 1)]
    BY <1>2
  <2>2. \A x, y \in S : rank[x] = rank[y] => x = y
    <3>1. ASSUME NEW x \in S, NEW y \in S, x # y PROVE rank[x] # rank[y]
      <4>1. rank[x] < rank[y] \/ rank[y] < rank[x]
        BY <1>3, <3>1
      <4>2. rank[x] \in 0..(n - 1) /\ rank[y] \in 0..(n - 1)
        BY <1>2
      <4> QED
        BY <1>1, <4>1, <4>2
    <3> QED
      BY <3>1
  <2>3. rank \in Injection(S, 0..(n - 1))
    BY <2>1, <2>2 DEF Injection, IsInjective
  <2>4. IsFiniteSet(0..(n - 1)) /\ Cardinality(0..(n - 1)) = n
    <3>1. 0 \in Int /\ n - 1 \in Int
      BY <1>1
    <3>2. /\ IsFiniteSet(0..(n - 1))
          /\ Cardinality(0..(n - 1)) = IF 0 > n - 1 THEN 0 ELSE (n - 1) - 0 + 1
      BY <3>1, FS_Interval
    <3> QED
      BY <1>1, <3>2
  <2>5. rank \in Surjection(S, 0..(n - 1))
    BY <2>3, <2>4, FS_Injection
  <2> QED
    BY <2>5 DEF Surjection
<1>5. ASSUME NEW k \in 1..n
      PROVE  s[k] \in S /\ rank[s[k]] = k - 1
  <2>1. s[k] = CHOOSE x \in S : Cardinality({y \in S : <<y, x>> \in R}) = k - 1
    BY DEF Sorted
  <2>2. k - 1 \in 0..(n - 1)
    BY <1>1
  <2>3. \E x \in S : rank[x] = k - 1
    BY <1>4, <2>2
  <2>4. \E x \in S : Cardinality({y \in S : <<y, x>> \in R}) = k - 1
    BY <2>3 DEF Below
  <2>5. s[k] \in S /\ Cardinality({y \in S : <<y, s[k]>> \in R}) = k - 1
    BY <2>1, <2>4
  <2> QED
    BY <2>5 DEF Below
<1>6. DOMAIN s = 1..n /\ s = [k \in 1..n |-> s[k]]
  <2>1. s = [k \in 1..n |-> CHOOSE x \in S : Cardinality({y \in S : <<y, x>> \in R}) = k - 1]
    BY Zenon DEF Sorted
  <2> HIDE DEF n
  <2> QED
    BY <2>1
<1>7. s \in Seq(S) /\ Len(s) = n
  <2>1. s \in [1..n -> S]
    BY <1>5, <1>6
  <2> HIDE DEF n
  <2> QED
    BY <1>1, <2>1
<1>8. ASSUME NEW i \in 1..n, NEW j \in 1..n, i < j
      PROVE  <<s[i], s[j]>> \in R
  <2>1. s[i] \in S /\ s[j] \in S /\ rank[s[i]] = i - 1 /\ rank[s[j]] = j - 1
    BY <1>5
  <2>2. ~ (rank[s[j]] < rank[s[i]]) /\ rank[s[i]] # rank[s[j]]
    BY <1>1, <1>8, <2>1
  <2>3. s[i] # s[j] /\ <<s[j], s[i]>> \notin R
    BY <1>3, <2>1, <2>2
  <2> QED
    BY <2>1, <2>3
<1>9. ASSUME NEW x \in S PROVE \E i \in 1..n : s[i] = x
  <2>1. PICK k : k = rank[x] + 1 /\ k \in 1..n
    <3>1. rank[x] \in 0..(n - 1)
      BY <1>2
    <3>2. rank[x] + 1 \in 1..n
      BY <1>1, <3>1
    <3> QED
      BY <3>2
  <2>2. s[k] \in S /\ rank[s[k]] = k - 1 /\ rank[x] \in 0..(n - 1)
    BY <1>2, <1>5, <2>1
  <2>3. rank[s[k]] = rank[x]
    BY <2>1, <2>2
  <2>4. s[k] = x
    <3>1. ~ (rank[x] < rank[s[k]]) /\ ~ (rank[s[k]] < rank[x])
      BY <1>1, <2>2, <2>3
    <3> QED
      BY <1>3, <2>2, <3>1
  <2> QED
    BY <2>1, <2>4
<1> QED
  BY <1>1, <1>6, <1>7, <1>8, <1>9
-----------------------------------------------------------------------------
(* What is accepted is apart, and what is not overlaps something accepted  *)
(* that comes before it.                                                   *)
LEMMA GreedyFacts ==
    ASSUME NEW S, NEW order \in Seq(S)
    PROVE  /\ IsFiniteSet(Greedy(order))
           /\ \A f \in Greedy(order) : \E k \in DOMAIN order : order[k] = f
           /\ \A f, g \in Greedy(order) : f # g => ~ Overlaps(f, g)
           /\ \A k \in DOMAIN order : order[k] \in Greedy(order) \/
                 \E j \in DOMAIN order : /\ j < k /\ order[j] \in Greedy(order)
                                        /\ Overlaps(order[k], order[j])
<1>1. PICK N : N = Len(order) /\ N \in Nat /\ DOMAIN order = 1..N
  OBVIOUS
<1> DEFINE step == [p \in (1..N) \X SUBSET S |->
                       IF \E f \in p[2] : Overlaps(order[p[1]], f) THEN p[2]
                       ELSE p[2] \cup {order[p[1]]}]
           Body(h) == [n \in 0..Len(order) |->
                          IF n = 0 THEN {}
                          ELSE LET sofar == h[n - 1]
                               IN  IF \E f \in sofar : Overlaps(order[n], f) THEN sofar
                                   ELSE sofar \cup {order[n]}]
           kept == CHOOSE h : h = Body(h)
<1>2. \E h : h = Body(h)
  <2>1. step \in [(1..N) \X SUBSET S -> SUBSET S]
    <3>1. \A p \in (1..N) \X SUBSET S :
             p[1] \in 1..N /\ order[p[1]] \in S /\ p[2] \in SUBSET S
      BY <1>1
    <3>2. \A p \in (1..N) \X SUBSET S : p[2] \cup {order[p[1]]} \in SUBSET S
      BY <3>1
    <3> QED
      BY <3>1, <3>2
  <2>2. {} \in SUBSET S
    OBVIOUS
  <2>3. \A n \in 1..N : \A T \in SUBSET S :
           step[<<n, T>>] = IF \E f \in T : Overlaps(order[n], f) THEN T ELSE T \cup {order[n]}
    OBVIOUS
  <2> HIDE DEF step
  <2>4. PICK f \in [0..N -> SUBSET S] : Runs(f, {}, step, N)
    BY <1>1, <2>1, <2>2, RunExists
  <2>5. \A n \in 1..N : f[n] = step[<<n, f[n - 1]>>] /\ f[n - 1] \in SUBSET S
    BY <1>1, <2>4, SMTT(30) DEF Runs
  <2>6. \A n \in 1..N : f[n] = IF \E x \in f[n - 1] : Overlaps(order[n], x) THEN f[n - 1]
                               ELSE f[n - 1] \cup {order[n]}
    BY <2>3, <2>5
  <2>7. f[0] = {}
    BY <2>4 DEF Runs
  <2>8. \A n \in 0..N : f[n] = IF n = 0 THEN {}
                               ELSE IF \E x \in f[n - 1] : Overlaps(order[n], x) THEN f[n - 1]
                               ELSE f[n - 1] \cup {order[n]}
    <3>1. \A n \in 0..N : n = 0 \/ n \in 1..N
      BY <1>1
    <3> QED
      BY <2>6, <2>7, <3>1
  <2>9. f = Body(f)
    BY <1>1, <2>4, <2>8
  <2> QED
    BY <2>9
<1>3. kept = Body(kept)
  <2> HIDE DEF Body
  <2> QED
    BY <1>2
<1>4. Greedy(order) = kept[N]
  BY <1>1 DEF Greedy
<1>5. \A n \in 0..N : kept[n] = IF n = 0 THEN {}
                                ELSE IF \E f \in kept[n - 1] : Overlaps(order[n], f)
                                     THEN kept[n - 1] ELSE kept[n - 1] \cup {order[n]}
  <2> HIDE DEF kept
  <2> QED
    BY <1>1, <1>3
<1> HIDE DEF kept
<1>6. 0 \in 0..N /\ kept[0] = {}
  <2>1. 0 \in 0..N
    BY <1>1
  <2>2. kept[0] = IF 0 = 0 THEN {}
                  ELSE IF \E f \in kept[0 - 1] : Overlaps(order[0], f)
                       THEN kept[0 - 1] ELSE kept[0 - 1] \cup {order[0]}
    BY <1>5, <2>1, Zenon
  <2> QED
    BY <2>1, <2>2
<1>7. \A n \in 1..N : kept[n] = IF \E f \in kept[n - 1] : Overlaps(order[n], f)
                                THEN kept[n - 1] ELSE kept[n - 1] \cup {order[n]}
  <2>1. \A n \in 1..N : n \in 0..N /\ n # 0
    BY <1>1
  <2> QED
    BY <1>5, <2>1
<1> DEFINE Fine(n) == /\ IsFiniteSet(kept[n])
                      /\ \A f \in kept[n] : \E k \in 1..n : order[k] = f
                      /\ \A f, g \in kept[n] : f # g => ~ Overlaps(f, g)
                      /\ \A k \in 1..n : order[k] \in kept[n] \/
                            \E j \in 1..n : /\ j < k /\ order[j] \in kept[n]
                                            /\ Overlaps(order[k], order[j])
           Good == {n \in 0..N : Fine(n)}
<1>8. 0 \in Good
  <2>1. IsFiniteSet(kept[0]) /\ 1..0 = {}
    BY <1>6, FS_EmptySet
  <2>2. \A f \in kept[0] : FALSE
    BY <1>6
  <2>3. Fine(0)
    BY <2>1, <2>2, Zenon
  <2> QED
    BY <1>6, <2>3
<1>9. ASSUME NEW n \in 1..N, n - 1 \in Good
      PROVE  n \in Good
  <2>1. PICK K, m : K = kept[n - 1] /\ m = n - 1 /\ m \in Nat /\ n = m + 1 /\ n \in 0..N
    BY <1>1
  <2>2. /\ IsFiniteSet(K)
        /\ \A f \in K : \E k \in 1..m : order[k] = f
        /\ \A f, g \in K : f # g => ~ Overlaps(f, g)
        /\ \A k \in 1..m : order[k] \in K \/
              \E j \in 1..m : j < k /\ order[j] \in K /\ Overlaps(order[k], order[j])
    BY <1>9, <2>1
  <2>3. /\ \A k \in 1..n : k \in 1..m \/ k = n
        /\ \A k \in 1..m : k \in 1..n /\ k < n
        /\ n \in 1..n
    BY <2>1
  <2>4. CASE \E f \in K : Overlaps(order[n], f)
    <3>1. kept[n] = K
      BY <1>7, <2>1, <2>4
    <3>2. \E j \in 1..n : j < n /\ order[j] \in K /\ Overlaps(order[n], order[j])
      BY <2>2, <2>3, <2>4
    <3>3. \A k \in 1..n : order[k] \in K \/
              \E j \in 1..n : j < k /\ order[j] \in K /\ Overlaps(order[k], order[j])
      BY <2>2, <2>3, <3>2, Zenon
    <3>4. Fine(n)
      BY <2>2, <2>3, <3>1, <3>3
    <3> QED
      BY <2>1, <3>4
  <2>5. CASE ~ \E f \in K : Overlaps(order[n], f)
    <3>1. PICK o : o = order[n]
      OBVIOUS
    <3>2. kept[n] = K \cup {o}
      BY <1>7, <2>1, <2>5, <3>1
    <3>3. \A f \in K : ~ Overlaps(o, f) /\ ~ Overlaps(f, o)
      BY <2>5, <3>1 DEF Overlaps
    <3>4. \A f, g \in K \cup {o} : f # g => ~ Overlaps(f, g)
      BY <2>2, <3>3
    <3>5. IsFiniteSet(K \cup {o})
      BY <2>2, FS_AddElement
    <3>6. \A f \in K \cup {o} : \E k \in 1..n : order[k] = f
      BY <2>2, <2>3, <3>1
    <3>7. \A k \in 1..n : order[k] \in K \cup {o} \/
              \E j \in 1..n : j < k /\ order[j] \in K \cup {o} /\ Overlaps(order[k], order[j])
      BY <2>2, <2>3, <3>1, Zenon
    <3>8. Fine(n)
      BY <3>2, <3>4, <3>5, <3>6, <3>7
    <3> QED
      BY <2>1, <3>8
  <2> QED
    BY <2>4, <2>5
<1>10. N \in Good
  <2> HIDE DEF Good
  <2>1. \A n \in 0..N : n \in Good
    BY <1>1, <1>8, <1>9, EveryNumber
  <2> QED
    BY <1>1, <2>1
<1> QED
  BY <1>1, <1>4, <1>10
-----------------------------------------------------------------------------
(* A finding of a text: the items from start to stop - 1.                  *)
IsSpan(f, text) ==
    /\ f.start \in 1..Len(text) /\ f.stop \in 2..(Len(text) + 1) /\ f.start < f.stop
    /\ f.text = SubSeq(text, f.start, f.stop - 1)

(* Findings in the order of the text, each ending before the next begins.  *)
Apart(found) ==
    \A i, j \in DOMAIN found : i < j => found[i].stop <= found[j].start

IsCutting(found, text) ==
    /\ IsList(found) /\ Apart(found)
    /\ \A k \in DOMAIN found : IsSpan(found[k], text)

(* Findings that do not overlap, in the order of the text.                 *)
LEMMA ByStartFacts ==
    ASSUME NEW F, IsFiniteSet(F), NEW text, Len(text) \in Nat,
           \A f \in F : IsSpan(f, text),
           \A f, g \in F : f # g => ~ Overlaps(f, g)
    PROVE  /\ IsCutting(ByStart(F), text)
           /\ \A f \in F : \E k \in DOMAIN ByStart(F) : ByStart(F)[k] = f
           /\ \A k \in DOMAIN ByStart(F) : ByStart(F)[k] \in F
<1> DEFINE R == {p \in F \X F : p[1].start < p[2].start}
<1>1. \A f, g \in F : <<f, g>> \in R <=> f.start < g.start
  OBVIOUS
<1>2. \A f \in F : f.start \in Nat /\ f.stop \in Nat /\ f.start < f.stop
  BY DEF IsSpan
<1>3. \A f, g \in F : f # g => f.stop <= g.start \/ g.stop <= f.start
  BY <1>2 DEF Overlaps
<1>4. PICK s : s = ByStart(F) /\ s = Sorted(F, R)
  BY DEF ByStart
<1> HIDE DEF R
<1>5. \A f \in F : <<f, f>> \notin R
  BY <1>1, <1>2
<1>6. \A f, g \in F : f # g => <<f, g>> \in R \/ <<g, f>> \in R
  <2>1. \A f, g \in F : f # g => f.start < g.start \/ g.start < f.start
    BY <1>2, <1>3
  <2> QED
    BY <1>1, <2>1
<1>7. \A f, g, h \in F : <<f, g>> \in R /\ <<g, h>> \in R => <<f, h>> \in R
  <2>1. \A f, g, h \in F : f.start < g.start /\ g.start < h.start => f.start < h.start
    BY <1>2
  <2> QED
    BY <1>1, <2>1
<1>8. /\ s \in Seq(F)
      /\ \A i, j \in DOMAIN s : i < j => <<s[i], s[j]>> \in R
      /\ \A f \in F : \E i \in DOMAIN s : s[i] = f
  BY <1>4, <1>5, <1>6, <1>7, SortedFacts
<1>9. \A i \in DOMAIN s : s[i] \in F
  BY <1>8
<1>10. ASSUME NEW i \in DOMAIN s, NEW j \in DOMAIN s, i < j
       PROVE  s[i].stop <= s[j].start
  <2>1. PICK f, g : f = s[i] /\ g = s[j] /\ f \in F /\ g \in F
    BY <1>9
  <2>2. f.start < g.start
    BY <1>1, <1>8, <1>10, <2>1
  <2>3. f # g /\ f.start \in Nat /\ g.start \in Nat /\ g.stop \in Nat /\ g.start < g.stop
    BY <1>2, <2>1, <2>2
  <2> QED
    BY <1>3, <2>1, <2>2, <2>3
<1> QED
  BY <1>4, <1>8, <1>9, <1>10, Zenon DEF IsCutting, Apart, IsList

(* A match lies in the text, and there is one to a place.                  *)
LEMMA MatchFacts ==
    ASSUME NEW rule, \A p \in rule.phrases : Len(p) \in Nat,
           NEW text, Len(text) \in Nat, DOMAIN text = 1..Len(text),
           NEW m \in Matches(rule, text)
    PROVE  /\ m[1] \in 1..Len(text) /\ m[2] \in 1..(Len(text) + 1) /\ m[1] <= m[2]
           /\ m = <<m[1], m[1] + Max(MatchLengths(rule, text, m[1]))>>
<1>1. PICK i \in DOMAIN text : /\ MatchLengths(rule, text, i) # {}
                               /\ m = <<i, i + Max(MatchLengths(rule, text, i))>>
  BY DEF Matches
<1>2. PICK n, L : n = Len(text) /\ n \in Nat /\ i \in 1..n /\ L = MatchLengths(rule, text, i)
  BY <1>1
<1>3. L \in SUBSET (0..n) /\ \A k \in L : i + k - 1 <= n
  <2>1. \A k \in L : \E p \in rule.phrases : k = Len(p) /\ i + Len(p) - 1 <= n
    BY <1>2 DEF MatchLengths
  <2>2. \A k \in L : k \in Nat /\ i + k - 1 <= n
    BY <2>1
  <2> QED
    BY <1>2, <2>2
<1>4. PICK x : x = Max(L) /\ x \in L
  BY <1>1, <1>2, <1>3, MaxPlace
<1>5. x \in 0..n /\ i + x - 1 <= n
  BY <1>3, <1>4
<1>6. m = <<i, i + x>> /\ m[1] = i /\ m[2] = i + x
  BY <1>1, <1>2, <1>4
<1> QED
  BY <1>1, <1>2, <1>4, <1>5, <1>6

(* What a finding is made of.                                              *)
LEMMA FindingFields ==
    ASSUME NEW text, NEW a, NEW b, NEW n, NEW c
    PROVE  /\ Finding(text, a, b, n, c).start = a /\ Finding(text, a, b, n, c).stop = b
           /\ Finding(text, a, b, n, c).text = SubSeq(text, a, b - 1)
  BY DEF Finding

(* A rule finds spans of the text, one to a start.                         *)
LEMMA RuleFacts ==
    ASSUME NEW rule, \A p \in rule.phrases : Len(p) \in Nat,
           rule.before \in Nat, rule.after \in Nat,
           NEW text, Len(text) \in Nat, DOMAIN text = 1..Len(text)
    PROVE  /\ \A f \in RuleFindings(rule, text) : IsSpan(f, text)
           /\ \A f, g \in RuleFindings(rule, text) : f.start = g.start => f = g
<1>1. \A f \in RuleFindings(rule, text) :
         /\ \E m \in Matches(rule, text) :
               f = Finding(text, m[1] + rule.before, m[2] - rule.after, rule.name, rule.category)
         /\ f.start < f.stop
  BY DEF RuleFindings
<1>2. PICK a, b, n : a = rule.before /\ b = rule.after /\ n = Len(text) /\ a \in Nat /\ b \in Nat
                     /\ n \in Nat
  OBVIOUS
<1>3. ASSUME NEW f \in RuleFindings(rule, text)
      PROVE  IsSpan(f, text)
  <2>1. PICK m \in Matches(rule, text) :
           f = Finding(text, m[1] + a, m[2] - b, rule.name, rule.category)
    BY <1>1, <1>2
  <2>2. PICK x, y : x = m[1] /\ y = m[2] /\ x \in 1..n /\ y \in 1..(n + 1)
    BY <1>2, MatchFacts
  <2>3. f.start = x + a /\ f.stop = y - b /\ f.text = SubSeq(text, x + a, (y - b) - 1)
    BY <2>1, <2>2, FindingFields
  <2>4. x + a < y - b
    BY <1>1, <2>3
  <2>5. x + a \in 1..n /\ y - b \in 2..(n + 1)
    <3>1. /\ a \in Nat /\ b \in Nat /\ n \in Nat /\ x \in 1..n /\ y \in 1..(n + 1)
          /\ x + a < y - b
      BY <1>2, <2>2, <2>4
    <3> QED
      BY ONLY <3>1
  <2> QED
    BY <1>2, <2>3, <2>4, <2>5 DEF IsSpan
<1>4. ASSUME NEW f \in RuleFindings(rule, text), NEW g \in RuleFindings(rule, text),
             f.start = g.start
      PROVE  f = g
  <2>1. PICK m \in Matches(rule, text) :
           f = Finding(text, m[1] + a, m[2] - b, rule.name, rule.category)
    BY <1>1, <1>2
  <2>2. PICK k \in Matches(rule, text) :
           g = Finding(text, k[1] + a, k[2] - b, rule.name, rule.category)
    BY <1>1, <1>2
  <2>3. f.start = m[1] + a /\ g.start = k[1] + a
    BY <2>1, <2>2, FindingFields
  <2>4. m[1] \in 1..n /\ k[1] \in 1..n
    BY <1>2, MatchFacts
  <2>5. m[1] = k[1]
    <3>1. PICK x, y : x = m[1] /\ y = k[1] /\ x \in Nat /\ y \in Nat
      BY <1>2, <2>4
    <3>2. x + a = y + a
      BY <1>4, <2>3, <3>1
    <3>3. x = y
      BY <1>2, <3>1, <3>2
    <3> QED
      BY <3>1, <3>3
  <2>6. m = k
    BY <2>5, MatchFacts
  <2> QED
    BY <2>1, <2>2, <2>6
<1> QED
  BY <1>3, <1>4
-----------------------------------------------------------------------------
IsCandidate(c, engine, text) ==
    /\ c = <<c[1], c[2]>> /\ c[1] \in 1..(Len(engine.rules) + 1)
    /\ IsSpan(c[2], text)

(* The candidates are spans, one to a rule and a start, and finitely many: *)
(* the order Resolve sorts by is strict on them.                           *)
LEMMA CandidateFacts ==
    ASSUME NEW engine, IsEngine(engine),
           NEW text, Len(text) \in Nat, DOMAIN text = 1..Len(text)
    PROVE  /\ \A c \in Candidates(engine, text) : IsCandidate(c, engine, text)
           /\ \A c, d \in Candidates(engine, text) :
                 c[1] = d[1] /\ c[2].start = d[2].start => c = d
           /\ IsFiniteSet(Candidates(engine, text))
<1>1. PICK C, N, T : /\ C = Candidates(engine, text) /\ N = Len(engine.rules) /\ T = Len(text)
                     /\ N \in Nat /\ T \in Nat /\ DOMAIN engine.rules = 1..N
  BY DEF IsEngine
<1>2. ASSUME NEW c \in C
      PROVE  \/ \E i \in 1..N : \E f \in RuleFindings(engine.rules[i], text) : c = <<i, f>>
             \/ \E f \in EntropyFindings(engine, text) : c = <<N + 1, f>>
  <2>1. c \in (UNION {{<<i, f>> : f \in RuleFindings(engine.rules[i], text)} :
                          i \in DOMAIN engine.rules})
              \cup {<<Len(engine.rules) + 1, f>> : f \in EntropyFindings(engine, text)}
    BY <1>1, Zenon DEF Candidates
  <2>2. CASE c \in UNION {{<<i, f>> : f \in RuleFindings(engine.rules[i], text)} :
                          i \in DOMAIN engine.rules}
    BY <1>1, <2>2
  <2>3. CASE c \in {<<Len(engine.rules) + 1, f>> : f \in EntropyFindings(engine, text)}
    BY <1>1, <2>3
  <2> QED
    BY <2>1, <2>2, <2>3
<1>3. ASSUME NEW i \in 1..N
      PROVE  /\ \A f \in RuleFindings(engine.rules[i], text) : IsSpan(f, text)
             /\ \A f, g \in RuleFindings(engine.rules[i], text) : f.start = g.start => f = g
  <2>1. PICK rule : rule = engine.rules[i] /\ rule.before \in Nat /\ rule.after \in Nat
                    /\ \A p \in rule.phrases : Len(p) \in Nat
    BY <1>1 DEF IsEngine
  <2> QED
    BY <2>1, RuleFacts
<1>4. /\ \A f \in EntropyFindings(engine, text) : IsSpan(f, text)
      /\ \A f, g \in EntropyFindings(engine, text) : f.start = g.start => f = g
  <2>1. \A f \in EntropyFindings(engine, text) : \E i \in 1..T :
           f = Finding(text, i, i + 1, "entropy_secret", "secret")
    BY <1>1 DEF EntropyFindings
  <2>2. ASSUME NEW i \in 1..T, NEW f, f = Finding(text, i, i + 1, "entropy_secret", "secret")
        PROVE  IsSpan(f, text) /\ f.start = i
    <3>1. f.start = i /\ f.stop = i + 1 /\ f.text = SubSeq(text, i, (i + 1) - 1)
      <4>1. PICK j : j = i + 1
        OBVIOUS
      <4>2. f = Finding(text, i, j, "entropy_secret", "secret")
        BY <2>2, <4>1
      <4>3. f.start = i /\ f.stop = j /\ f.text = SubSeq(text, i, j - 1)
        BY <4>2 DEF Finding
      <4> QED
        BY <4>1, <4>3
    <3>2. i + 1 \in 2..(T + 1) /\ i < i + 1
      BY <1>1
    <3> QED
      BY <1>1, <3>1, <3>2 DEF IsSpan
  <2> QED
    BY <2>1, <2>2
<1>5. ASSUME NEW c \in C
      PROVE  IsCandidate(c, engine, text)
  <2>1. N + 1 \in 1..(N + 1) /\ \A i \in 1..N : i \in 1..(N + 1)
    BY <1>1
  <2>2. PICK i, f : i \in 1..(N + 1) /\ c = <<i, f>> /\ IsSpan(f, text)
    BY <1>2, <1>3, <1>4, <2>1
  <2> QED
    BY <1>1, <2>2 DEF IsCandidate
<1>6. ASSUME NEW c \in C, NEW d \in C, c[1] = d[1], c[2].start = d[2].start
      PROVE  c = d
  <2>1. \A i \in 1..N : i # N + 1
    BY <1>1
  <2>2. CASE \E i \in 1..N : \E f \in RuleFindings(engine.rules[i], text) : c = <<i, f>>
    <3>1. PICK i, f : i \in 1..N /\ f \in RuleFindings(engine.rules[i], text) /\ c = <<i, f>>
      BY <2>2
    <3>2. c[1] = i /\ c[2] = f
      BY <3>1
    <3>3. ASSUME NEW k, NEW g, d = <<k, g>> PROVE k = i /\ d[2] = g
      <4>1. d[1] = k /\ d[2] = g
        BY <3>3
      <4> QED
        BY <1>6, <3>2, <4>1
    <3>4. PICK g \in RuleFindings(engine.rules[i], text) : d = <<i, g>>
      BY <1>2, <2>1, <3>1, <3>3
    <3>5. g.start = f.start
      BY <1>6, <3>2, <3>4
    <3>6. f = g
      BY <1>3, <3>1, <3>4, <3>5
    <3> QED
      BY <3>1, <3>4, <3>6
  <2>3. CASE \E f \in EntropyFindings(engine, text) : c = <<N + 1, f>>
    <3>1. PICK f \in EntropyFindings(engine, text) : c = <<N + 1, f>>
      BY <2>3
    <3>2. c[1] = N + 1 /\ c[2] = f
      BY <3>1
    <3>3. ASSUME NEW k, NEW g, d = <<k, g>> PROVE k = N + 1 /\ d[2] = g
      <4>1. d[1] = k /\ d[2] = g
        BY <3>3
      <4> QED
        BY <1>6, <3>2, <4>1
    <3>4. PICK g \in EntropyFindings(engine, text) : d = <<N + 1, g>>
      BY <1>2, <2>1, <3>3
    <3>5. g.start = f.start
      BY <1>6, <3>2, <3>4
    <3>6. f = g
      BY <1>4, <3>5
    <3> QED
      BY <3>1, <3>4, <3>6
  <2> QED
    BY <1>2, <2>2, <2>3
<1>7. IsFiniteSet(C)
  <2> DEFINE P == (1..(N + 1)) \X (1..T)
             key == [c \in C |-> <<c[1], c[2].start>>]
  <2>1. IsFiniteSet(P)
    <3>1. N + 1 \in Nat
      BY <1>1
    <3>2. IsFiniteSet(1..(N + 1)) /\ IsFiniteSet(1..T)
      BY <1>1, <3>1, IntervalFinite
    <3> QED
      BY <3>2, FS_Product
  <2>2. ASSUME NEW c \in C PROVE key[c] \in P /\ key[c] = <<c[1], c[2].start>>
    <3>1. c[1] \in 1..(N + 1) /\ c[2].start \in 1..T
      BY <1>1, <1>5 DEF IsCandidate, IsSpan
    <3> QED
      BY <3>1
  <2>3. ASSUME NEW c \in C, NEW d \in C, key[c] = key[d] PROVE c = d
    <3>1. <<c[1], c[2].start>> = <<d[1], d[2].start>>
      BY <2>2, <2>3
    <3>2. c[1] = d[1] /\ c[2].start = d[2].start
      BY <3>1
    <3> QED
      BY <1>6, <3>2
  <2> HIDE DEF key, P
  <2> QED
    BY <2>1, <2>2, <2>3, OneToAPlace
<1> QED
  BY <1>1, <1>5, <1>6, <1>7

(* Every finding has a priority, the rule's own or its category's.         *)
LEMMA PriorityIsNumber ==
    ASSUME NEW engine, IsEngine(engine), NEW f
    PROVE  Priority(engine, f) \in Int
<1>1. CASE \E i \in DOMAIN engine.rules : engine.rules[i].name = f.rule
  <2>1. PICK i : /\ i = CHOOSE z \in DOMAIN engine.rules : engine.rules[z].name = f.rule
                 /\ i \in DOMAIN engine.rules
    BY <1>1
  <2> QED
    BY <1>1, <2>1 DEF Priority, IsEngine
<1>2. CASE ~ \E i \in DOMAIN engine.rules : engine.rules[i].name = f.rule
  <2>1. SensitivityOf(f.category) \in 0..3
    BY DEF SensitivityOf
  <2>2. SensitivityOf(f.category) * 20 \in Int
    BY <2>1
  <2> QED
    BY <1>2, <2>2 DEF Priority
<1> QED
  BY <1>1, <1>2

(* What Resolve keeps is apart and in the order of the text, and what it   *)
(* drops overlaps something kept that goes before it.                      *)
LEMMA ResolveFacts ==
    ASSUME NEW engine, IsEngine(engine), NEW text, Len(text) \in Nat,
           NEW C, IsFiniteSet(C), \A c \in C : IsCandidate(c, engine, text),
           \A c, d \in C : c[1] = d[1] /\ c[2].start = d[2].start => c = d
    PROVE  /\ IsCutting(Resolve(engine, C), text)
           /\ \A k \in DOMAIN Resolve(engine, C) : \E c \in C : Resolve(engine, C)[k] = c[2]
           /\ \A c \in C :
                 \/ \E k \in DOMAIN Resolve(engine, C) : Resolve(engine, C)[k] = c[2]
                 \/ \E d \in C : /\ \E k \in DOMAIN Resolve(engine, C) :
                                       Resolve(engine, C)[k] = d[2]
                                 /\ Overlaps(c[2], d[2]) /\ Before(engine, d, c)
<1> DEFINE R == {p \in C \X C : Before(engine, p[1], p[2])}
           rank(c) == Priority(engine, c[2])
           size(c) == c[2].stop - c[2].start
<1>1. \A c, d \in C : <<c, d>> \in R <=> Before(engine, c, d)
  OBVIOUS
<1>2. \A c \in C : /\ rank(c) \in Int /\ size(c) \in Int
                   /\ c[2].start \in Int /\ c[1] \in Int
  <2>1. \A c \in C : c[2].start \in Int /\ c[2].stop \in Int /\ c[1] \in Int
    BY DEF IsCandidate, IsSpan
  <2> QED
    BY <2>1, PriorityIsNumber
<1>3. \A c, d \in C : Before(engine, c, d) <=>
         IF rank(c) # rank(d) THEN rank(c) > rank(d)
         ELSE IF size(c) # size(d) THEN size(c) > size(d)
         ELSE IF c[2].start # d[2].start THEN c[2].start < d[2].start
         ELSE c[1] < d[1]
  BY DEF Before
<1>4. PICK order : order = Sorted(C, R) /\ Resolve(engine, C)
                              = ByStart(Greedy([k \in DOMAIN order |-> order[k][2]]))
  BY DEF Resolve
<1> HIDE DEF rank, size, R
<1>5. \A c \in C : <<c, c>> \notin R
  BY <1>1, <1>2, <1>3
<1>6. \A c, d \in C : c # d => <<c, d>> \in R \/ <<d, c>> \in R
  BY <1>1, <1>2, <1>3
<1>7. ASSUME NEW c \in C, NEW d \in C, NEW e \in C, <<c, d>> \in R, <<d, e>> \in R
      PROVE  <<c, e>> \in R
  <2>1. Before(engine, c, d) /\ Before(engine, d, e)
    BY <1>1, <1>7
  <2>2. Before(engine, c, e)
    BY <1>2, <1>3, <2>1, SMTT(30)
  <2> QED
    BY <1>1, <2>2
<1>8. /\ order \in Seq(C)
      /\ \A i, j \in DOMAIN order : i < j => <<order[i], order[j]>> \in R
      /\ \A c \in C : \E i \in DOMAIN order : order[i] = c
  BY <1>4, <1>5, <1>6, <1>7, SortedFacts
<1>9. PICK F, S : /\ F = [k \in DOMAIN order |-> order[k][2]] /\ S = {c[2] : c \in C}
                  /\ F \in Seq(S) /\ DOMAIN F = DOMAIN order
                  /\ \A k \in DOMAIN order : F[k] = order[k][2]
  <2>1. [k \in DOMAIN order |-> order[k][2]] \in Seq({c[2] : c \in C})
    BY <1>8
  <2> QED
    BY <2>1
<1>10. PICK G : /\ G = Greedy(F) /\ IsFiniteSet(G)
                /\ \A f \in G : \E k \in DOMAIN F : F[k] = f
                /\ \A f, g \in G : f # g => ~ Overlaps(f, g)
                /\ \A k \in DOMAIN F : F[k] \in G \/
                      \E j \in DOMAIN F : j < k /\ F[j] \in G /\ Overlaps(F[k], F[j])
  BY <1>9, GreedyFacts
<1>11. \A f \in G : f \in S /\ IsSpan(f, text)
  <2>1. \A f \in S : IsSpan(f, text)
    BY <1>9 DEF IsCandidate
  <2> QED
    BY <1>9, <1>10, <2>1
<1>12. PICK s : /\ s = Resolve(engine, C) /\ IsCutting(s, text)
                /\ \A f \in G : \E k \in DOMAIN s : s[k] = f
                /\ \A k \in DOMAIN s : s[k] \in G
  <2>1. \A f \in G : IsSpan(f, text)
    BY <1>11
  <2> QED
    BY <1>4, <1>9, <1>10, <2>1, ByStartFacts
<1>13. ASSUME NEW c \in C
       PROVE  \/ \E k \in DOMAIN s : s[k] = c[2]
              \/ \E d \in C : /\ \E k \in DOMAIN s : s[k] = d[2]
                              /\ Overlaps(c[2], d[2]) /\ Before(engine, d, c)
  <2>1. PICK k \in DOMAIN order : order[k] = c /\ F[k] = c[2]
    BY <1>8, <1>9
  <2>2. CASE F[k] \in G
    BY <1>12, <2>1, <2>2
  <2>3. CASE F[k] \notin G
    <3>1. PICK j \in DOMAIN F : j < k /\ F[j] \in G /\ Overlaps(F[k], F[j])
      BY <1>9, <1>10, <2>1, <2>3
    <3>2. PICK d \in C : d = order[j] /\ F[j] = d[2]
      BY <1>8, <1>9
    <3>3. <<d, c>> \in R
      BY <1>8, <1>9, <2>1, <3>1, <3>2
    <3> QED
      BY <1>1, <1>12, <2>1, <3>1, <3>2, <3>3
  <2> QED
    BY <2>2, <2>3
<1>14. \A k \in DOMAIN s : \E c \in C : s[k] = c[2]
  BY <1>9, <1>11, <1>12
<1> QED
  BY <1>12, <1>13, <1>14
-----------------------------------------------------------------------------
(* What is merged in never moves or removes a finding of the base.         *)
LEMMA MergeFacts ==
    ASSUME NEW text, Len(text) \in Nat, NEW base, IsCutting(base, text),
           NEW extra, \A f \in extra : IsSpan(f, text),
           \A f, g \in extra : f.start = g.start /\ f.stop = g.stop => f = g,
           \A f \in extra : \A k \in DOMAIN base : ~ Overlaps(f, base[k])
    PROVE  /\ IsCutting(Merge(base, extra), text)
           /\ Range(base) \subseteq Range(Merge(base, extra))
<1> DEFINE all == Range(base) \cup extra
           R == {p \in all \X all : \/ p[1].start < p[2].start
                                    \/ p[1].start = p[2].start /\ p[1].stop > p[2].stop}
<1>1. PICK T : T = Len(text) /\ T \in Nat
  OBVIOUS
<1>2. \A f \in Range(base) : \E k \in DOMAIN base : f = base[k]
  BY DEF Range
<1>3. PICK S : base \in Seq(S)
  BY DEF IsCutting, IsList
<1>4. PICK n : n = Len(base) /\ n \in Nat /\ DOMAIN base = 1..n
  BY <1>3
<1>5. \A f \in all : IsSpan(f, text)
  BY <1>2 DEF IsCutting
<1>6. \A f \in all : /\ f.start \in 1..T /\ f.stop \in 2..(T + 1) /\ f.start < f.stop
                     /\ f.start \in Nat /\ f.stop \in Nat
  BY <1>1, <1>5 DEF IsSpan
<1>7. ASSUME NEW f \in Range(base), NEW g \in Range(base), f # g
      PROVE  f.stop <= g.start \/ g.stop <= f.start
  <2>1. PICK i \in 1..n, j \in 1..n : f = base[i] /\ g = base[j]
    BY <1>2, <1>4
  <2>2. i < j \/ j < i
    BY <1>4, <1>7, <2>1
  <2> QED
    BY <1>4, <2>1, <2>2 DEF IsCutting, Apart
<1>8. ASSUME NEW f \in extra, NEW g \in Range(base)
      PROVE  f.stop <= g.start \/ g.stop <= f.start
  <2>1. ~ Overlaps(f, g)
    BY <1>2
  <2>2. f \in all /\ g \in all
    OBVIOUS
  <2>3. f.start \in Nat /\ g.start \in Nat /\ f.stop \in Nat /\ g.stop \in Nat
    BY <1>6, <2>2
  <2> QED
    BY <2>1, <2>3 DEF Overlaps
<1>9. \A f, g \in all : (f \in extra /\ g \in extra) \/ f \in Range(base) \/ g \in Range(base)
  OBVIOUS
<1>10. \A f \in all : f \in extra \/ f \in Range(base)
  OBVIOUS
<1>11. \A f, g \in all : <<f, g>> \in R <=>
          f.start < g.start \/ (f.start = g.start /\ f.stop > g.stop)
  OBVIOUS
<1>12. Range(base) \subseteq all
  OBVIOUS
<1>13. PICK order : order = Sorted(all, R) /\ Merge(base, extra) = ByStart(Greedy(order))
  BY DEF Merge
<1> HIDE DEF all, R
<1>14. ASSUME NEW f \in all, NEW g \in all, f.start = g.start, f.stop = g.stop
       PROVE  f = g
  <2>1. f.start \in Nat /\ f.stop \in Nat /\ f.start < f.stop
    BY <1>6
  <2>2. ~ (f.stop <= g.start) /\ ~ (g.stop <= f.start)
    BY <1>14, <2>1
  <2> QED
    BY <1>7, <1>8, <1>10, <1>14, <2>2
<1>15. IsFiniteSet(all)
  <2> DEFINE P == (1..T) \X (2..(T + 1))
             key == [f \in all |-> <<f.start, f.stop>>]
  <2>1. IsFiniteSet(P)
    <3>1. 2 \in Int /\ T + 1 \in Int
      BY <1>1
    <3>2. IsFiniteSet(1..T) /\ IsFiniteSet(2..(T + 1))
      BY <1>1, <3>1, IntervalFinite, FS_Interval
    <3> QED
      BY <3>2, FS_Product
  <2>2. ASSUME NEW f \in all PROVE key[f] \in P /\ key[f] = <<f.start, f.stop>>
    BY <1>6
  <2>3. ASSUME NEW f \in all, NEW g \in all, key[f] = key[g] PROVE f = g
    <3>1. <<f.start, f.stop>> = <<g.start, g.stop>>
      BY <2>2, <2>3
    <3>2. f.start = g.start /\ f.stop = g.stop
      BY <3>1
    <3> QED
      BY <1>14, <3>2
  <2> HIDE DEF key, P
  <2> QED
    BY <2>1, <2>2, <2>3, OneToAPlace
<1>16. \A f \in all : <<f, f>> \notin R
  BY <1>6, <1>11
<1>17. ASSUME NEW f \in all, NEW g \in all, f # g
       PROVE  <<f, g>> \in R \/ <<g, f>> \in R
  <2>1. f.start # g.start \/ f.stop # g.stop
    BY <1>14, <1>17
  <2>2. f.start \in Nat /\ g.start \in Nat /\ f.stop \in Nat /\ g.stop \in Nat
    BY <1>6
  <2> QED
    BY <1>11, <2>1, <2>2
<1>18. ASSUME NEW f \in all, NEW g \in all, NEW h \in all, <<f, g>> \in R, <<g, h>> \in R
       PROVE  <<f, h>> \in R
  <2>1. \A x \in all : x.start \in Nat /\ x.stop \in Nat
    BY <1>6
  <2>2. f.start < g.start \/ (f.start = g.start /\ f.stop > g.stop)
    BY <1>11, <1>18
  <2>3. g.start < h.start \/ (g.start = h.start /\ g.stop > h.stop)
    BY <1>11, <1>18
  <2>4. f.start < h.start \/ (f.start = h.start /\ f.stop > h.stop)
    BY <2>1, <2>2, <2>3
  <2> QED
    BY <1>11, <2>4
<1>19. /\ order \in Seq(all)
       /\ \A i, j \in DOMAIN order : i < j => <<order[i], order[j]>> \in R
       /\ \A f \in all : \E i \in DOMAIN order : order[i] = f
  BY <1>13, <1>15, <1>16, <1>17, <1>18, SortedFacts
<1>20. PICK G : /\ G = Greedy(order) /\ IsFiniteSet(G)
                /\ \A f \in G : \E k \in DOMAIN order : order[k] = f
                /\ \A f, g \in G : f # g => ~ Overlaps(f, g)
                /\ \A k \in DOMAIN order : order[k] \in G \/
                      \E j \in DOMAIN order :
                          j < k /\ order[j] \in G /\ Overlaps(order[k], order[j])
  BY <1>19, GreedyFacts
<1>21. \A f \in G : f \in all /\ IsSpan(f, text)
  BY <1>5, <1>19, <1>20
<1>22. PICK s : /\ s = Merge(base, extra) /\ IsCutting(s, text)
                /\ \A f \in G : \E k \in DOMAIN s : s[k] = f
  <2>1. \A f \in G : IsSpan(f, text)
    BY <1>21
  <2> QED
    BY <1>13, <1>20, <2>1, ByStartFacts
<1>23. ASSUME NEW f \in Range(base) PROVE f \in G
  <2>1. PICK k \in DOMAIN order : order[k] = f
    BY <1>12, <1>19
  <2>2. SUFFICES ASSUME NEW j \in DOMAIN order, j < k, Overlaps(order[k], order[j])
                 PROVE  FALSE
    BY <1>20, <2>1
  <2>3. PICK g : g = order[j] /\ g \in all /\ f \in all
    BY <1>12, <1>19
  <2>4. <<g, f>> \in R
    BY <1>19, <2>1, <2>2, <2>3
  <2>5. g # f
    BY <1>16, <2>3, <2>4
  <2>6. f.stop <= g.start \/ g.stop <= f.start
    BY <1>7, <1>8, <1>10, <2>3, <2>5
  <2>7. f.start \in Nat /\ g.start \in Nat /\ f.stop \in Nat /\ g.stop \in Nat
    BY <1>6, <2>3
  <2>8. Overlaps(f, g)
    BY <2>1, <2>2, <2>3
  <2> QED
    BY <2>6, <2>7, <2>8 DEF Overlaps
<1>24. \A f \in Range(base) : f \in Range(s)
  BY <1>22, <1>23 DEF Range
<1> QED
  BY <1>22, <1>24

(* What the recogniser adds overlaps no finding of the rules, and two      *)
(* additions are not the same span.                                        *)
LEMMA NameFacts ==
    ASSUME NEW text, Len(text) \in Nat, NEW base, NEW names
    PROVE  /\ \A f \in NameFindings(base, text, names) :
                 IsSpan(f, text) /\ \A k \in DOMAIN base : ~ Overlaps(f, base[k])
           /\ \A f, g \in NameFindings(base, text, names) :
                 f.start = g.start /\ f.stop = g.stop => f = g
<1> DEFINE Made(a, b) == Finding(text, a, b, "jp_name_slm", "pii")
<1>1. ASSUME NEW f \in NameFindings(base, text, names)
      PROVE  /\ \A k \in DOMAIN base : ~ Overlaps(f, base[k])
             /\ \E a \in 1..Len(text) : \E b \in 2..(Len(text) + 1) :
                   a < b /\ f = Made(a, b)
  <2>1. names # Failed
    BY DEF NameFindings
  <2>2. PICK s \in (1..Len(text)) \X (2..(Len(text) + 1)) :
           /\ s[1] < s[2] /\ f = Finding(text, s[1], s[2], "jp_name_slm", "pii")
           /\ \A k \in DOMAIN base : ~ Overlaps(f, base[k])
    BY <2>1 DEF NameFindings
  <2>3. s[1] \in 1..Len(text) /\ s[2] \in 2..(Len(text) + 1)
    OBVIOUS
  <2> QED
    BY <2>2, <2>3
<1>2. ASSUME NEW a, NEW b
      PROVE  /\ Made(a, b).start = a /\ Made(a, b).stop = b
             /\ Made(a, b).text = SubSeq(text, a, b - 1)
  <2>1. PICK n, c : n = "jp_name_slm" /\ c = "pii"
    OBVIOUS
  <2>2. Made(a, b) = Finding(text, a, b, n, c)
    BY <2>1
  <2> HIDE DEF Made
  <2> QED
    BY <2>2, FindingFields
<1> HIDE DEF Made
<1>3. ASSUME NEW f \in NameFindings(base, text, names) PROVE IsSpan(f, text)
  <2>1. PICK a \in 1..Len(text), b \in 2..(Len(text) + 1) : a < b /\ f = Made(a, b)
    BY <1>1
  <2>2. f.start = a /\ f.stop = b /\ f.text = SubSeq(text, a, b - 1)
    BY <1>2, <2>1
  <2> QED
    BY <2>1, <2>2, Zenon DEF IsSpan
<1>4. ASSUME NEW f \in NameFindings(base, text, names),
             NEW g \in NameFindings(base, text, names), f.start = g.start, f.stop = g.stop
      PROVE  f = g
  <2>1. PICK a, b : f = Made(a, b)
    BY <1>1
  <2>2. PICK c, d : g = Made(c, d)
    BY <1>1
  <2>3. f.start = a /\ f.stop = b /\ g.start = c /\ g.stop = d
    BY <1>2, <2>1, <2>2
  <2> QED
    BY <1>4, <2>1, <2>2, <2>3
<1> QED
  BY <1>1, <1>3, <1>4

(* For any rules, phrases, priorities, text and answer of the recogniser:  *)
(* what is detected cuts the text apart, in its order, and the recogniser  *)
(* takes away and moves nothing the engine found (slm.go merge).           *)
THEOREM RecogniserOnlyAdds ==
    ASSUME NEW engine, IsEngine(engine),
           NEW text, Len(text) \in Nat, DOMAIN text = 1..Len(text), NEW names
    PROVE  /\ IsCutting(Detect(engine, text), text)
           /\ IsCutting(DetectWithNames(engine, text, names), text)
           /\ Range(Detect(engine, text)) \subseteq Range(DetectWithNames(engine, text, names))
<1>1. PICK C : C = Candidates(engine, text) /\ Detect(engine, text) = Resolve(engine, C)
  BY DEF Detect
<1>2. /\ IsFiniteSet(C) /\ \A c \in C : IsCandidate(c, engine, text)
      /\ \A c, d \in C : c[1] = d[1] /\ c[2].start = d[2].start => c = d
  BY <1>1, CandidateFacts
<1>3. PICK base : base = Detect(engine, text) /\ IsCutting(base, text)
  BY <1>1, <1>2, ResolveFacts
<1>4. PICK extra : /\ extra = NameFindings(base, text, names)
                   /\ \A f \in extra : IsSpan(f, text)
                   /\ \A f \in extra : \A k \in DOMAIN base : ~ Overlaps(f, base[k])
                   /\ \A f, g \in extra : f.start = g.start /\ f.stop = g.stop => f = g
  BY NameFacts
<1>5. IsCutting(Merge(base, extra), text) /\ Range(base) \subseteq Range(Merge(base, extra))
  BY <1>3, <1>4, MergeFacts
<1>6. \/ DetectWithNames(engine, text, names) = base
      \/ DetectWithNames(engine, text, names) = Merge(base, extra)
  BY <1>3, <1>4, Zenon DEF DetectWithNames
<1> QED
  BY <1>3, <1>5, <1>6

(* A candidate that is not masked by its own rule overlaps one that is, of *)
(* a higher priority, or as high and longer, or as long and earlier, or    *)
(* earlier among the rules: nothing a rule matched is left in the open for *)
(* a finding that was itself dropped (redact.go resolve).                  *)
THEOREM DroppedYieldsToKept ==
    ASSUME NEW engine, IsEngine(engine),
           NEW text, Len(text) \in Nat, DOMAIN text = 1..Len(text),
           NEW c \in Candidates(engine, text)
    PROVE  \/ c[2] \in Range(Detect(engine, text))
           \/ \E d \in Candidates(engine, text) :
                 /\ d[2] \in Range(Detect(engine, text))
                 /\ Overlaps(c[2], d[2]) /\ Before(engine, d, c)
<1>1. PICK C : C = Candidates(engine, text) /\ Detect(engine, text) = Resolve(engine, C)
  BY DEF Detect
<1>2. /\ IsFiniteSet(C) /\ \A d \in C : IsCandidate(d, engine, text)
      /\ \A d, e \in C : d[1] = e[1] /\ d[2].start = e[2].start => d = e
  BY <1>1, CandidateFacts
<1>3. PICK kept : kept = Resolve(engine, C)
  OBVIOUS
<1>4. \/ \E k \in DOMAIN kept : kept[k] = c[2]
      \/ \E d \in C : /\ \E k \in DOMAIN kept : kept[k] = d[2]
                      /\ Overlaps(c[2], d[2]) /\ Before(engine, d, c)
  BY <1>1, <1>2, <1>3, ResolveFacts
<1>5. Range(Detect(engine, text)) = {kept[k] : k \in DOMAIN kept}
  BY <1>1, <1>3, Zenon DEF Range
<1> QED
  BY <1>1, <1>4, <1>5
-----------------------------------------------------------------------------
Covers(found, k, i) == found[k].start <= i /\ i < found[k].stop

(* Hydrating a rewritten text gives the text back, for any text, findings  *)
(* and dictionary in which every token put in names its finding's text and *)
(* no word of the text is a token (redact.go Redact, dictionary.go         *)
(* Hydrate).                                                               *)
THEOREM RewritingIsReversible ==
    ASSUME NEW S, NEW raw \in Seq(S), NEW found, IsCutting(found, raw), NEW tokens, NEW d,
           \A k \in DOMAIN found : /\ tokens[k] \in DOMAIN d.reverse
                                   /\ d.reverse[tokens[k]] = found[k].text,
           \A x \in S : x \notin DOMAIN d.reverse
    PROVE  Hydrate(d, Rewrite(raw, found, tokens)) = raw
<1>1. PICK N, K, P : /\ N = Len(raw) /\ K = DOMAIN found /\ P = {tokens[k] : k \in K}
  OBVIOUS
<1>2. N \in Nat /\ DOMAIN raw = 1..N /\ \A i \in 1..N : raw[i] \in S
  BY <1>1
<1>3. K \in SUBSET Nat
  <2>1. PICK Z : found \in Seq(Z)
    BY DEF IsCutting, IsList
  <2>2. DOMAIN found = 1..Len(found) /\ Len(found) \in Nat
    BY <2>1
  <2> QED
    BY <1>1, <2>2
<1>4. \A k \in K : /\ found[k].start \in 1..N /\ found[k].stop \in 2..(N + 1)
                   /\ found[k].start < found[k].stop
                   /\ found[k].text = SubSeq(raw, found[k].start, found[k].stop - 1)
  BY <1>1 DEF IsCutting, IsSpan
<1>5. \A j, k \in K : j < k => found[j].stop <= found[k].start
  BY <1>1 DEF IsCutting, Apart
<1>6. ASSUME NEW j \in K, NEW k \in K, NEW i \in 0..N, Covers(found, j, i), Covers(found, k, i)
      PROVE  j = k
  <2>1. ~ (found[j].stop <= found[k].start) /\ ~ (found[k].stop <= found[j].start)
    BY <1>4, <1>6 DEF Covers
  <2>2. ~ (j < k) /\ ~ (k < j)
    BY <1>5, <2>1
  <2> QED
    BY <1>3, <2>2
<1> DEFINE T == S \cup P
           g == [x \in T |-> IF x \in DOMAIN d.reverse THEN d.reverse[x] ELSE <<x>>]
           at(i) == IF \E k \in K : found[k].start = i
                    THEN <<tokens[CHOOSE k \in K : found[k].start = i]>>
                    ELSE IF \E k \in K : Covers(found, k, i) THEN <<>> ELSE <<raw[i]>>
           pieces == [i \in 1..N |-> at(i)]
           seg(i) == IF \E k \in K : found[k].start = i
                     THEN found[CHOOSE k \in K : found[k].start = i].text
                     ELSE IF \E k \in K : Covers(found, k, i) THEN <<>> ELSE <<raw[i]>>
           segs == [i \in 1..N |-> seg(i)]
           end == [i \in 0..N |-> IF \E k \in K : Covers(found, k, i)
                                  THEN found[CHOOSE k \in K : Covers(found, k, i)].stop - 1
                                  ELSE i]
           h == [i \in 0..N |-> SubSeq(raw, 1, end[i])]
<1>7. Rewrite(raw, found, tokens) = FlattenSeq(pieces)
  BY <1>1, <1>2, Zenon DEF Rewrite, Covers
<1>8. ASSUME NEW k \in K
      PROVE  found[k].text \in Seq(S) /\ tokens[k] \in P /\ g[tokens[k]] = found[k].text
  <2>1. found[k].start \in 1..(N + 1) /\ found[k].stop - 1 \in 0..N
    BY <1>2, <1>4
  <2>2. found[k].text \in Seq(S)
    <3>1. PICK a, b : /\ a = found[k].start /\ b = found[k].stop - 1
                      /\ a \in 1..(Len(raw) + 1) /\ b \in 0..Len(raw)
      BY <1>1, <2>1
    <3>2. SubSeq(raw, a, b) \in Seq(S)
      BY ONLY <3>1, raw \in Seq(S), FrontInSeq
    <3> QED
      BY <1>4, <3>1, <3>2
  <2>3. tokens[k] \in P
    BY <1>1
  <2> QED
    BY <1>1, <2>2, <2>3
<1>9. \A x \in S : g[x] = <<x>>
  OBVIOUS
<1>10. Maps(g, T, Seq(S))
  <2>1. ASSUME NEW x \in T PROVE g[x] \in Seq(S)
    <3>1. CASE x \in S
      BY <1>9, <3>1
    <3>2. CASE x \in P
      <4>1. PICK k \in K : x = tokens[k]
        BY <1>1, <3>2
      <4> QED
        BY <1>8, <4>1
    <3> QED
      BY <3>1, <3>2
  <2> QED
    BY <2>1 DEF Maps
<1>11. ASSUME NEW i \in 1..N
       PROVE  pieces[i] \in Seq(T) /\ FlattenSeq(Spelled(g, pieces[i])) = segs[i]
              /\ segs[i] \in Seq(S)
  <2> HIDE DEF g
  <2>1. pieces[i] = at(i) /\ segs[i] = seg(i)
    OBVIOUS
  <2>2. ASSUME NEW x \in T
        PROVE  <<x>> \in Seq(T) /\ FlattenSeq(Spelled(g, <<x>>)) = g[x]
    <3>1. PICK y : y = g[x] /\ y \in Seq(S)
      BY <1>10 DEF Maps
    <3>2. Spelled(g, <<x>>) = <<y>>
      <4>1. DOMAIN <<x>> = 1..1 /\ <<x>>[1] = x /\ <<x>> \in Seq(T)
        BY OneSeq
      <4>2. Spelled(g, <<x>>) = [j \in 1..1 |-> y]
        BY <3>1, <4>1 DEF Spelled
      <4>3. [j \in 1..1 |-> y] = <<y>>
        OBVIOUS
      <4> QED
        BY <4>2, <4>3
    <3>3. FlattenSeq(<<y>>) = y
      BY <3>1, FlattenOne
    <3> QED
      BY <3>1, <3>2, <3>3
  <2>3. CASE \E k \in K : found[k].start = i
    <3>1. PICK k : k = (CHOOSE z \in K : found[z].start = i) /\ k \in K
      BY <2>3
    <3>2. pieces[i] = <<tokens[k]>> /\ segs[i] = found[k].text
      BY <2>1, <2>3, <3>1
    <3>3. tokens[k] \in T /\ g[tokens[k]] = found[k].text /\ found[k].text \in Seq(S)
      BY <1>8, <3>1
    <3> QED
      BY <2>2, <3>2, <3>3
  <2>4. CASE ~ (\E k \in K : found[k].start = i) /\ \E k \in K : Covers(found, k, i)
    <3>1. pieces[i] = <<>> /\ segs[i] = <<>>
      BY <2>1, <2>4
    <3> QED
      BY <3>1, SpelledNone, FlattenNone
  <2>5. CASE ~ (\E k \in K : found[k].start = i) /\ ~ \E k \in K : Covers(found, k, i)
    <3>1. pieces[i] = <<raw[i]>> /\ segs[i] = <<raw[i]>>
      BY <2>1, <2>5
    <3>2. raw[i] \in S /\ raw[i] \in T /\ g[raw[i]] = <<raw[i]>>
      BY <1>2, <1>9
    <3>3. PICK x : x = raw[i] /\ x \in T /\ x \in S /\ g[x] = <<x>>
      BY <3>2
    <3>4. <<x>> \in Seq(T) /\ FlattenSeq(Spelled(g, <<x>>)) = <<x>> /\ <<x>> \in Seq(S)
      BY <2>2, <3>3
    <3> QED
      BY <3>1, <3>3, <3>4
  <2> QED
    BY <2>3, <2>4, <2>5
<1>12. pieces \in Seq(Seq(T)) /\ segs \in Seq(Seq(S)) /\ Len(segs) = N
       /\ DOMAIN pieces = 1..N
  <2>1. pieces \in [1..N -> Seq(T)] /\ segs \in [1..N -> Seq(S)]
    <3>1. pieces = [i \in 1..N |-> pieces[i]] /\ segs = [i \in 1..N |-> segs[i]]
      BY Zenon
    <3> HIDE DEF pieces, segs
    <3> QED
      BY <1>11, <3>1
  <2> HIDE DEF pieces, segs
  <2> QED
    BY <1>2, <2>1
<1>13. FlattenSeq(segs) = raw
  <2>1. ASSUME NEW i \in 0..N
        PROVE  /\ end[i] \in 0..N /\ i <= end[i]
               /\ \A k \in K : Covers(found, k, i) => end[i] = found[k].stop - 1
               /\ (\A k \in K : ~ Covers(found, k, i)) => end[i] = i
    <3>1. CASE \E k \in K : Covers(found, k, i)
      <4>1. PICK k : k = (CHOOSE z \in K : Covers(found, z, i)) /\ k \in K
                     /\ Covers(found, k, i)
        BY <3>1
      <4>2. end[i] = found[k].stop - 1
        BY <3>1, <4>1
      <4>3. found[k].stop - 1 \in 0..N /\ i <= found[k].stop - 1
        BY <1>2, <1>4, <4>1 DEF Covers
      <4> QED
        BY <1>6, <4>1, <4>2, <4>3
    <3>2. CASE ~ \E k \in K : Covers(found, k, i)
      BY <3>2
    <3> QED
      BY <3>1, <3>2
  <2>2. end[0] = 0 /\ 0 \in 0..N
    <3>1. 0 \in 0..N
      BY <1>2
    <3>2. \A k \in K : ~ Covers(found, k, 0)
      BY <1>4 DEF Covers
    <3> QED
      BY <2>1, <3>1, <3>2
  <2>3. end[N] = N /\ N \in 0..N
    <3>1. N \in 0..N
      BY <1>2
    <3> QED
      BY <2>1, <3>1
  <2>4. ASSUME NEW i \in 1..N
        PROVE  /\ i - 1 \in 0..N /\ i \in 0..N
               /\ \/ /\ end[i - 1] = i - 1
                     /\ segs[i] = SubSeq(raw, i, end[i])
                  \/ end[i - 1] = end[i] /\ segs[i] = <<>>
    <3>1. i - 1 \in 0..N /\ i \in 0..N
      BY <1>2
    <3>2. segs[i] = seg(i)
      OBVIOUS
    <3> HIDE DEF end, segs
    <3>3. CASE \E k \in K : found[k].start = i
      <4>1. PICK k : k = (CHOOSE z \in K : found[z].start = i) /\ k \in K /\ found[k].start = i
        BY <3>3
      <4>2. segs[i] = SubSeq(raw, i, found[k].stop - 1)
        BY <1>4, <3>2, <3>3, <4>1
      <4>3. Covers(found, k, i)
        BY <1>4, <4>1 DEF Covers
      <4>4. end[i] = found[k].stop - 1
        BY <2>1, <3>1, <4>1, <4>3
      <4>5. end[i - 1] = i - 1
        <5>1. CASE \A j \in K : ~ Covers(found, j, i - 1)
          BY <2>1, <3>1, <5>1
        <5>2. CASE ~ \A j \in K : ~ Covers(found, j, i - 1)
          <6>1. PICK j \in K : Covers(found, j, i - 1)
            BY <5>2
          <6>2. found[j].start <= i - 1 /\ i - 1 < found[j].stop
            BY <6>1 DEF Covers
          <6>3. j # k
            BY <3>1, <4>1, <6>2
          <6>4. ~ (found[k].stop <= found[j].start)
            BY <1>2, <1>4, <3>1, <4>1, <6>2
          <6>5. j < k
            BY <1>3, <1>5, <4>1, <6>3, <6>4
          <6>6. found[j].stop <= i
            BY <1>5, <4>1, <6>5
          <6>7. end[i - 1] = found[j].stop - 1
            BY <2>1, <3>1, <6>1
          <6> QED
            BY <1>2, <1>4, <6>2, <6>6, <6>7
        <5> QED
          BY <5>1, <5>2
      <4> QED
        BY <3>1, <4>2, <4>4, <4>5
    <3>4. CASE ~ (\E k \in K : found[k].start = i) /\ \E k \in K : Covers(found, k, i)
      <4>1. PICK k \in K : Covers(found, k, i)
        BY <3>4
      <4>2. segs[i] = <<>>
        BY <3>2, <3>4
      <4>3. Covers(found, k, i - 1)
        <5>1. found[k].start # i /\ found[k].start <= i /\ i < found[k].stop
          BY <3>4, <4>1 DEF Covers
        <5> QED
          BY <1>2, <1>4, <5>1 DEF Covers
      <4>4. end[i] = found[k].stop - 1 /\ end[i - 1] = found[k].stop - 1
        BY <2>1, <3>1, <4>1, <4>3
      <4> QED
        BY <3>1, <4>2, <4>4
    <3>5. CASE ~ (\E k \in K : found[k].start = i) /\ ~ \E k \in K : Covers(found, k, i)
      <4>1. segs[i] = <<raw[i]>>
        BY <3>2, <3>5
      <4>2. SubSeq(raw, i, i) = <<raw[i]>>
        <5>1. i \in 1..Len(raw) /\ i \in i..Len(raw) /\ i \in Int /\ i - 1 < i /\ i - 1 \in Int
          BY <1>1, <1>2
        <5>2. SubSeq(raw, i, i) = SubSeq(raw, i, i - 1) \o <<raw[i]>>
          BY <5>1, SubSeqRecursiveSecond
        <5>3. SubSeq(raw, i, i - 1) = <<>>
          BY <5>1, SubSeqEmpty
        <5>4. <<raw[i]>> \in Seq(S)
          BY <1>2
        <5>5. <<>> \o <<raw[i]>> = <<raw[i]>>
          BY <5>4, ConcatEmptySeq
        <5> QED
          BY <5>2, <5>3, <5>5
      <4>3. end[i] = i
        BY <2>1, <3>1, <3>5
      <4>4. end[i - 1] = i - 1
        <5>1. CASE \A j \in K : ~ Covers(found, j, i - 1)
          BY <2>1, <3>1, <5>1
        <5>2. CASE ~ \A j \in K : ~ Covers(found, j, i - 1)
          <6>1. PICK j \in K : Covers(found, j, i - 1)
            BY <5>2
          <6>2. found[j].start <= i - 1 /\ i - 1 < found[j].stop
            BY <6>1 DEF Covers
          <6>3. ~ (found[j].start <= i /\ i < found[j].stop)
            BY <3>5 DEF Covers
          <6>4. end[i - 1] = found[j].stop - 1
            BY <2>1, <3>1, <6>1
          <6> QED
            BY <1>2, <1>4, <6>2, <6>3, <6>4, SMTT(30)
        <5> QED
          BY <5>1, <5>2
      <4> QED
        BY <3>1, <4>1, <4>2, <4>3, <4>4
    <3> QED
      BY <3>3, <3>4, <3>5
  <2>5. \A i \in 0..N : h[i] = SubSeq(raw, 1, end[i]) /\ h[i] \in Seq(S)
    <3>1. ASSUME NEW i \in 0..N PROVE SubSeq(raw, 1, end[i]) \in Seq(S)
      <4>1. 1 \in 1..(N + 1) /\ end[i] \in 0..N
        BY <1>2, <2>1
      <4> HIDE DEF end
      <4> QED
        BY <1>1, <4>1, FrontInSeq
    <3> QED
      BY <3>1
  <2>6. h \in [0..N -> Seq(S)]
    <3> HIDE DEF end
    <3>1. h = [i \in 0..N |-> h[i]]
      BY Zenon
    <3> HIDE DEF h
    <3> QED
      BY <2>5, <3>1
  <2>7. ASSUME NEW i \in 1..N
        PROVE  h[i] = h[i - 1] \o segs[i]
    <3> HIDE DEF h, end, segs
    <3>1. PICK a, b : /\ a = end[i - 1] /\ b = end[i] /\ a \in 0..N /\ b \in 0..N
                      /\ h[i - 1] = SubSeq(raw, 1, a) /\ h[i] = SubSeq(raw, 1, b)
                      /\ i <= b /\ h[i - 1] \in Seq(S)
      BY <2>1, <2>4, <2>5
    <3>2. CASE a = i - 1 /\ segs[i] = SubSeq(raw, i, b)
      <4>1. b \in a..N /\ a + 1 = i
        BY <1>2, <3>1, <3>2
      <4>2. SubSeq(raw, 1, a) \o SubSeq(raw, a + 1, b) = SubSeq(raw, 1, b)
        BY <1>1, <3>1, <4>1, FrontGrows
      <4> QED
        BY <3>1, <3>2, <4>1, <4>2
    <3>3. CASE a = b /\ segs[i] = <<>>
      <4>1. h[i - 1] \o <<>> = h[i - 1]
        BY <3>1, ConcatEmptySeq
      <4> QED
        BY <3>1, <3>3, <4>1
    <3> QED
      BY <2>4, <3>1, <3>2, <3>3
  <2>8. h[0] = <<>>
    <3>1. SubSeq(raw, 1, 0) = <<>>
      BY SubSeqEmpty
    <3> HIDE DEF h, end
    <3> QED
      BY <2>2, <2>5, <3>1
  <2> HIDE DEF h, segs, end
  <2>9. Joins(h, segs, S)
    BY <1>12, <2>6, <2>7, <2>8 DEF Joins
  <2>10. CASE N = 0
    <3>1. raw = <<>> /\ segs = <<>>
      <4>1. raw = <<>>
        <5>1. Len(raw) = 0
          BY <1>1, <2>10
        <5> QED
          BY ONLY raw \in Seq(S), <5>1, EmptySeq
      <4>2. segs = <<>>
        BY <1>12, <2>10
      <4> QED
        BY <4>1, <4>2
    <3> QED
      BY <3>1, FlattenNone
  <2>11. CASE N # 0
    <3>1. segs # <<>>
      BY <1>12, <2>11
    <3>2. FlattenSeq(segs) = h[N]
      BY <1>12, <2>9, <3>1, FlattenIsJoined
    <3>3. h[N] = SubSeq(raw, 1, N)
      BY <2>3, <2>5
    <3> QED
      BY <1>1, <3>2, <3>3, SubSeqFull
  <2> QED
    BY <2>10, <2>11
<1>14. Hydrate(d, FlattenSeq(pieces)) = FlattenSeq(segs)
  <2>1. PICK W : W = FlattenSeq(pieces) /\ W \in Seq(T)
    BY <1>12, FlattenIsSeq
  <2>2. Hydrate(d, W) = FlattenSeq(Spelled(g, W))
    <3>1. [i \in DOMAIN W |-> IF W[i] \in DOMAIN d.reverse THEN d.reverse[W[i]] ELSE <<W[i]>>]
            = Spelled(g, W)
      <4>1. \A i \in DOMAIN W : W[i] \in T
        BY <2>1
      <4>2. \A i \in DOMAIN W : g[W[i]] = IF W[i] \in DOMAIN d.reverse
                                          THEN d.reverse[W[i]] ELSE <<W[i]>>
        BY <4>1
      <4> HIDE DEF g
      <4> QED
        BY <4>2, Zenon DEF Spelled
    <3> HIDE DEF g
    <3> QED
      BY <3>1, Zenon DEF Hydrate
  <2> DEFINE G == [u \in Seq(T) |-> Spelled(g, u)]
             F == [u \in Seq(Seq(S)) |-> FlattenSeq(u)]
  <2> HIDE DEF g, pieces, segs
  <2>3. /\ \A u \in Seq(T) : G[u] = Spelled(g, u)
        /\ \A u \in Seq(Seq(S)) : F[u] = FlattenSeq(u)
    OBVIOUS
  <2> HIDE DEF G, F
  <2>4. Spelled(g, W) = FlattenSeq(Spelled(G, pieces))
    BY <1>10, <1>12, <2>1, <2>3, SpelledFlatten
  <2>5. Maps(G, Seq(T), Seq(Seq(S)))
    <3>1. ASSUME NEW u \in Seq(T) PROVE G[u] \in Seq(Seq(S))
      <4>1. Spelled(g, u) \in Seq(Seq(S))
        BY <1>10, SpelledPlaces
      <4> QED
        BY <2>3, <4>1
    <3> QED
      BY <3>1 DEF Maps
  <2>6. PICK V : /\ V = Spelled(G, pieces) /\ V \in Seq(Seq(Seq(S))) /\ DOMAIN V = 1..N
                 /\ \A i \in 1..N : V[i] = G[pieces[i]]
    <3>1. Len(pieces) = N
      BY <1>2, <1>12
    <3>2. /\ Spelled(G, pieces) \in Seq(Seq(Seq(S)))
          /\ DOMAIN Spelled(G, pieces) = 1..Len(pieces)
          /\ \A i \in 1..Len(pieces) : Spelled(G, pieces)[i] = G[pieces[i]]
      BY <1>12, <2>5, SpelledPlaces
    <3> QED
      BY <3>1, <3>2
  <2>7. FlattenSeq(FlattenSeq(V)) = FlattenSeq(Spelled(F, V))
    BY <2>3, <2>6, FlattenTwice
  <2>8. Spelled(F, V) = segs
    <3>1. \A i \in 1..N : F[V[i]] = segs[i]
      <4>1. ASSUME NEW i \in 1..N PROVE F[V[i]] = segs[i]
        <5>1. pieces[i] \in Seq(T) /\ FlattenSeq(Spelled(g, pieces[i])) = segs[i]
          BY <1>11
        <5>2. V[i] = Spelled(g, pieces[i]) /\ V[i] \in Seq(Seq(S))
          <6>1. V[i] = G[pieces[i]] /\ G[pieces[i]] = Spelled(g, pieces[i])
            BY <2>3, <2>6, <5>1
          <6>2. Spelled(g, pieces[i]) \in Seq(Seq(S))
            BY <1>10, <5>1, SpelledPlaces
          <6> QED
            BY <6>1, <6>2
        <5> QED
          <6>1. PICK u : u = V[i] /\ u = Spelled(g, pieces[i]) /\ u \in Seq(Seq(S))
            BY <5>2
          <6>2. F[u] = FlattenSeq(u)
            BY <2>3, <6>1
          <6> QED
            BY <5>1, <6>1, <6>2
      <4> QED
        BY <4>1
    <3>2. segs = [i \in 1..N |-> segs[i]]
      BY Zenon DEF segs
    <3> QED
      BY <2>6, <3>1, <3>2 DEF Spelled
  <2> QED
    BY <2>1, <2>2, <2>4, <2>6, <2>7, <2>8
<1> QED
  BY <1>7, <1>13, <1>14
-----------------------------------------------------------------------------
(* Renaming keeps two tokens apart: the one that appears first has fewer   *)
(* tokens before it.                                                       *)
LEMMA CanonicalApart ==
    ASSUME NEW X, NEW P \in Seq(X)
    PROVE  /\ IsFiniteSet(TokensOf(P))
           /\ \A t, u \in TokensOf(P) : Canonical(P, t) = Canonical(P, u) => t = u
           /\ \A t \in TokensOf(P) : IsToken(t) /\ IsToken(Canonical(P, t))
<1> DEFINE T == TokensOf(P)
           first == [t \in T |-> FirstAt(P, t)]
           Upto(t) == {u \in T : first[u] <= first[t]}
<1>1. PICK N : N = Len(P) /\ N \in Nat /\ DOMAIN P = 1..N
  OBVIOUS
<1>2. IsFiniteSet(T)
  <2> DEFINE D == {i \in DOMAIN P : IsToken(P[i])}
  <2>1. D \in SUBSET (1..N) /\ IsFiniteSet(1..N)
    BY <1>1, IntervalFinite
  <2>2. IsFiniteSet(D)
    BY <2>1, FS_Subset
  <2>3. T = {P[i] : i \in D}
    BY DEF TokensOf
  <2> HIDE DEF D, T
  <2> QED
    BY <2>2, <2>3, ImageFinite
<1>3. ASSUME NEW t \in T
      PROVE  first[t] \in Nat /\ P[first[t]] = t /\ IsToken(t)
  <2>1. IsToken(t) /\ \E i \in 1..N : P[i] = t
    BY <1>1 DEF TokensOf
  <2>2. PICK D : D = {i \in DOMAIN P : P[i] = t} /\ D \in SUBSET Nat /\ D # {}
    <3>1. PICK D : D = {i \in DOMAIN P : P[i] = t}
      OBVIOUS
    <3>2. D \in SUBSET Nat
      BY <1>1, <3>1
    <3>3. D # {}
      BY <1>1, <2>1, <3>1
    <3> QED
      BY <3>1, <3>2, <3>3
  <2>3. Min(D) \in D
    BY <2>2, MinPlace
  <2>4. first[t] = Min(D)
    BY <2>2, Zenon DEF FirstAt
  <2> HIDE DEF first
  <2> QED
    BY <2>1, <2>2, <2>3, <2>4
<1>4. ASSUME NEW t \in T
      PROVE  /\ IsFiniteSet(Upto(t)) /\ Cardinality(Upto(t)) \in Nat
             /\ Canonical(P, t) = <<t[1], Cardinality(Upto(t))>>
  <2>1. Upto(t) \in SUBSET T
    OBVIOUS
  <2>2. IsFiniteSet(Upto(t)) /\ Cardinality(Upto(t)) \in Nat
    BY <1>2, <2>1, FS_Subset, FS_CardinalityType
  <2>3. Upto(t) = {u \in TokensOf(P) : FirstAt(P, u) <= FirstAt(P, t)}
    OBVIOUS
  <2> QED
    BY <2>2, <2>3 DEF Canonical
<1> HIDE DEF T, first
<1>5. ASSUME NEW t \in T, NEW u \in T, first[t] < first[u]
      PROVE  Cardinality(Upto(t)) # Cardinality(Upto(u))
  <2>1. \A w \in T : first[w] <= first[t] => first[w] <= first[u]
    BY <1>3, <1>5
  <2>2. u \in Upto(u) /\ u \notin Upto(t)
    BY <1>3, <1>5
  <2>3. Upto(t) \in SUBSET Upto(u) /\ Upto(t) # Upto(u)
    BY <2>1, <2>2
  <2> HIDE DEF Upto
  <2> QED
    BY <1>4, <2>3, FS_Subset
<1>6. ASSUME NEW t \in T, NEW u \in T, Canonical(P, t) = Canonical(P, u)
      PROVE  t = u
  <2>1. PICK m, n : m = Cardinality(Upto(t)) /\ n = Cardinality(Upto(u))
                    /\ Canonical(P, t) = <<t[1], m>> /\ Canonical(P, u) = <<u[1], n>>
    BY <1>4
  <2>2. m = n
    <3>1. PICK c : c = <<t[1], m>> /\ c = <<u[1], n>>
      BY <1>6, <2>1
    <3>2. c[2] = m /\ c[2] = n
      BY <3>1
    <3> QED
      BY <3>2
  <2>3. ~ (first[t] < first[u]) /\ ~ (first[u] < first[t])
    BY <1>5, <2>1, <2>2
  <2>4. first[t] = first[u]
    BY <1>3, <2>3
  <2> QED
    BY <1>3, <2>4
<1>7. ASSUME NEW t \in T PROVE IsToken(t) /\ IsToken(Canonical(P, t))
  <2>1. PICK n : Canonical(P, t) = <<t[1], n>>
    BY <1>4
  <2>2. Canonical(P, t)[1] = t[1]
    BY <2>1
  <2> QED
    BY <1>3, <2>2 DEF IsToken
<1> QED
  BY <1>2, <1>6, <1>7 DEF T

(* A text of one item, put through a mapping.                              *)
LEMMA RestoreOne ==
    ASSUME NEW x, NEW f, x \in DOMAIN f
    PROVE  Restore(<<x>>, f) = <<f[x]>>
<1>1. DOMAIN <<x>> = 1..1 /\ <<x>>[1] = x
  OBVIOUS
<1>2. Restore(<<x>>, f) = [i \in 1..1 |-> f[x]]
  BY <1>1 DEF Restore
<1>3. [i \in 1..1 |-> f[x]] = <<f[x]>>
  OBVIOUS
<1> QED
  BY <1>2, <1>3

(* The empty text stays empty either way.                                  *)
LEMMA RestoreNone ==
    ASSUME NEW f
    PROVE  Restore(<<>>, f) = <<>> /\ Canonicalise(<<>>, f) = <<>>
<1>1. \A h : Restore(<<>>, h) = <<>>
  BY DEF Restore
<1> QED
  BY <1>1, Zenon DEF Canonicalise

(* The mapping back from the names of a payload's tokens.                  *)
MapsBack(f, P) ==
    /\ \A t \in TokensOf(P) : Canonical(P, t) \in DOMAIN f /\ f[Canonical(P, t)] = t
    /\ \A c \in DOMAIN f : \E t \in TokensOf(P) : c = Canonical(P, t)

(* What Shape gives: every text renamed by one renaming of the payload,    *)
(* and its inverse.                                                        *)
LEMMA ShapeFacts ==
    ASSUME NEW X, NEW texts \in Seq(Seq(X)), NEW P, P = FlattenSeq(texts)
    PROVE  /\ P \in Seq(X)
           /\ MapsBack(Shape(texts).restore, P)
           /\ Shape(texts).texts = [m \in DOMAIN texts |-> Renamed(P, texts[m])]
<1>1. P \in Seq(X)
  BY FlattenIsSeq
<1>2. PICK T : T = TokensOf(P)
  OBVIOUS
<1>3. PICK f : f = [c \in {Canonical(P, t) : t \in T} |-> CHOOSE t \in T : Canonical(P, t) = c]
  OBVIOUS
<1>4. /\ Shape(texts).restore = f
      /\ Shape(texts).texts = [m \in DOMAIN texts |-> Renamed(P, texts[m])]
  BY <1>2, <1>3 DEF Shape
<1>5. ASSUME NEW t \in T PROVE f[Canonical(P, t)] = t
  <2>1. PICK c : c = Canonical(P, t) /\ c \in {Canonical(P, u) : u \in T}
    OBVIOUS
  <2>2. PICK u : u = (CHOOSE z \in T : Canonical(P, z) = c) /\ u \in T /\ Canonical(P, u) = c
    BY <2>1
  <2>3. f[c] = u
    BY <1>3, <2>1, <2>2
  <2>4. u = t
    BY <1>1, <1>2, <2>1, <2>2, CanonicalApart
  <2> QED
    BY <2>1, <2>3, <2>4
<1>6. DOMAIN f = {Canonical(P, t) : t \in T}
  BY <1>3
<1>7. MapsBack(f, P)
  BY <1>2, <1>5, <1>6 DEF MapsBack
<1> QED
  BY <1>1, <1>4, <1>7

(* A token of a payload and its name in the payload, there and back.       *)
LEMMA OneRoundTrip ==
    ASSUME NEW X, NEW texts \in Seq(Seq(X)), NEW P, P = FlattenSeq(texts),
           NEW t \in TokensOf(P)
    PROVE  /\ Canonicalise(<<t>>, Shape(texts).restore) = <<Canonical(P, t)>>
           /\ Restore(<<Canonical(P, t)>>, Shape(texts).restore) = <<t>>
<1>1. PICK T, f, c : /\ T = TokensOf(P) /\ f = Shape(texts).restore /\ c = Canonical(P, t)
                     /\ MapsBack(f, P)
  <2>1. MapsBack(Shape(texts).restore, P)
    BY ShapeFacts
  <2> QED
    BY <2>1
<1>2. c \in DOMAIN f /\ f[c] = t
  BY <1>1 DEF MapsBack
<1>3. Restore(<<c>>, f) = <<t>>
  BY <1>2, RestoreOne
<1>4. PICK inverse : inverse = [u \in {f[k] : k \in DOMAIN f} |->
                                   CHOOSE k \in DOMAIN f : f[k] = u]
  OBVIOUS
<1>5. t \in DOMAIN inverse /\ inverse[t] = CHOOSE k \in DOMAIN f : f[k] = t
  BY <1>2, <1>4
<1>6. \A k \in DOMAIN f : f[k] = t => k = c
  BY <1>1 DEF MapsBack
<1>7. inverse[t] = c
  <2>1. PICK k : k = (CHOOSE z \in DOMAIN f : f[z] = t) /\ k \in DOMAIN f /\ f[k] = t
    BY <1>2
  <2> QED
    BY <1>5, <1>6, <2>1
<1>8. Canonicalise(<<t>>, f) = Restore(<<t>>, inverse)
  BY <1>4, Zenon DEF Canonicalise
<1>9. Restore(<<t>>, inverse) = <<c>>
  BY <1>5, <1>7, RestoreOne
<1> QED
  BY <1>1, <1>3, <1>8, <1>9

(* The renamed payload, place by place.                                    *)
LEMMA ShapePlaces ==
    ASSUME NEW X, NEW texts \in Seq(Seq(X)), NEW P, P = FlattenSeq(texts),
           NEW Q, Q = FlattenSeq(Shape(texts).texts)
    PROVE  /\ DOMAIN Q = DOMAIN P
           /\ \A i \in DOMAIN P :
                 /\ IsToken(P[i]) => P[i] \in TokensOf(P) /\ Q[i] = Canonical(P, P[i])
                 /\ ~ IsToken(P[i]) => Q[i] = P[i]
                 /\ IsToken(Q[i]) <=> IsToken(P[i])
<1> DEFINE g == [x \in X |-> IF IsToken(x) THEN Canonical(P, x) ELSE x]
           G == [u \in Seq(X) |-> Spelled(g, u)]
           Y == {g[x] : x \in X}
<1>1. P \in Seq(X) /\ Shape(texts).texts = [m \in DOMAIN texts |-> Renamed(P, texts[m])]
  BY ShapeFacts
<1>2. Maps(g, X, Y)
  BY DEF Maps
<1>3. \A x \in X : g[x] = IF IsToken(x) THEN Canonical(P, x) ELSE x
  OBVIOUS
<1>4. \A u \in Seq(X) : G[u] = Spelled(g, u)
  OBVIOUS
<1> HIDE DEF g, G, Y
<1>5. ASSUME NEW u \in Seq(X) PROVE G[u] = Renamed(P, u)
  <2>1. \A i \in DOMAIN u : u[i] \in X
    OBVIOUS
  <2>2. \A i \in DOMAIN u : g[u[i]] = IF IsToken(u[i]) THEN Canonical(P, u[i]) ELSE u[i]
    BY <1>3, <2>1
  <2>3. Spelled(g, u) = Renamed(P, u)
    BY <2>2, Zenon DEF Spelled, Renamed
  <2> QED
    BY <1>4, <2>3
<1>6. Shape(texts).texts = Spelled(G, texts)
  <2>1. \A m \in DOMAIN texts : texts[m] \in Seq(X)
    OBVIOUS
  <2>2. \A m \in DOMAIN texts : G[texts[m]] = Renamed(P, texts[m])
    BY <1>5, <2>1
  <2> QED
    BY <1>1, <2>2, Zenon DEF Spelled
<1>7. Q = Spelled(g, P)
  BY <1>2, <1>4, <1>6, SpelledFlatten
<1>8. PICK N : /\ DOMAIN P = 1..N /\ DOMAIN Q = 1..N
               /\ \A i \in 1..N : Q[i] = g[P[i]] /\ P[i] \in X
  <2>1. /\ DOMAIN P = 1..Len(P) /\ DOMAIN Spelled(g, P) = 1..Len(P)
        /\ \A i \in 1..Len(P) : Spelled(g, P)[i] = g[P[i]]
    BY <1>1, <1>2, SpelledPlaces
  <2>2. \A i \in 1..Len(P) : P[i] \in X
    BY <1>1
  <2> QED
    BY <1>7, <2>1, <2>2
<1>9. ASSUME NEW i \in 1..N
      PROVE  /\ IsToken(P[i]) => P[i] \in TokensOf(P) /\ Q[i] = Canonical(P, P[i])
             /\ ~ IsToken(P[i]) => Q[i] = P[i]
             /\ IsToken(Q[i]) <=> IsToken(P[i])
  <2>1. Q[i] = IF IsToken(P[i]) THEN Canonical(P, P[i]) ELSE P[i]
    BY <1>3, <1>8
  <2>2. IsToken(P[i]) => P[i] \in TokensOf(P)
    BY <1>8 DEF TokensOf
  <2>3. IsToken(P[i]) => IsToken(Canonical(P, P[i]))
    BY <1>1, <2>2, CanonicalApart
  <2> QED
    BY <2>1, <2>2, <2>3
<1> QED
  BY <1>8, <1>9
-----------------------------------------------------------------------------
(* A finite set of places, in ascending order.                             *)
LEMMA AscendingFacts ==
    ASSUME NEW S, S \subseteq Int, IsFiniteSet(S)
    PROVE  /\ Ascending(S) \in Seq(S) /\ Len(Ascending(S)) = Cardinality(S)
           /\ \A x \in S : \E i \in DOMAIN Ascending(S) : Ascending(S)[i] = x
<1> DEFINE R == {p \in S \X S : p[1] < p[2]}
<1>1. \A x, y \in S : <<x, y>> \in R <=> x < y
  OBVIOUS
<1>2. PICK s : s = Sorted(S, R) /\ s = Ascending(S)
  BY DEF Ascending
<1> HIDE DEF R
<1>3. \A x \in S : <<x, x>> \notin R
  BY <1>1
<1>4. \A x, y \in S : x # y => <<x, y>> \in R \/ <<y, x>> \in R
  <2>1. \A x, y \in S : x # y => x < y \/ y < x
    OBVIOUS
  <2> QED
    BY <1>1, <2>1
<1>5. \A x, y, z \in S : <<x, y>> \in R /\ <<y, z>> \in R => <<x, z>> \in R
  <2>1. \A x, y, z \in S : x < y /\ y < z => x < z
    OBVIOUS
  <2> QED
    BY <1>1, <2>1
<1>6. /\ s \in Seq(S) /\ Len(s) = Cardinality(S)
      /\ \A x \in S : \E i \in DOMAIN s : s[i] = x
  <2>1. s = Sorted(S, R)
    BY <1>2
  <2>2. s \in Seq(S)
    BY ONLY IsFiniteSet(S), <1>3, <1>4, <1>5, <2>1, SortedFacts
  <2>3. Len(s) = Cardinality(S)
    BY ONLY IsFiniteSet(S), <1>3, <1>4, <1>5, <2>1, SortedFacts
  <2>4. \A x \in S : \E i \in DOMAIN s : s[i] = x
    BY ONLY IsFiniteSet(S), <1>3, <1>4, <1>5, <2>1, SortedFacts
  <2> QED
    BY <2>2, <2>3, <2>4
<1> QED
  BY <1>2, <1>6

(* Some of the places of a sequence.                                       *)
LEMMA PlacesFinite ==
    ASSUME NEW S, NEW s \in Seq(S), NEW at \in SUBSET DOMAIN s
    PROVE  /\ IsFiniteSet(at) /\ Cardinality(at) \in Nat
           /\ at \in SUBSET Nat /\ at \in SUBSET Int
<1>1. PICK n : n = Len(s) /\ n \in Nat /\ DOMAIN s = 1..n
  OBVIOUS
<1>2. IsFiniteSet(1..n)
  BY <1>1, IntervalFinite
<1>3. IsFiniteSet(at)
  BY <1>1, <1>2, FS_Subset
<1>4. at \in SUBSET Nat /\ at \in SUBSET Int
  BY <1>1
<1> QED
  BY <1>3, <1>4, FS_CardinalityType

(* A rewritten text holds items of the text and replacements.              *)
LEMMA RewriteItems ==
    ASSUME NEW S, NEW raw \in Seq(S), NEW found, NEW tokens, NEW T,
           S \subseteq T, \A k \in DOMAIN found : tokens[k] \in T
    PROVE  Rewrite(raw, found, tokens) \in Seq(T)
<1> DEFINE at(i) == IF \E k \in DOMAIN found : found[k].start = i
                    THEN <<tokens[CHOOSE k \in DOMAIN found : found[k].start = i]>>
                    ELSE IF \E k \in DOMAIN found : Covers(found, k, i) THEN <<>> ELSE <<raw[i]>>
           pieces == [i \in DOMAIN raw |-> at(i)]
<1>1. Rewrite(raw, found, tokens) = FlattenSeq(pieces)
  BY Zenon DEF Rewrite, Covers
<1>2. PICK n : n = Len(raw) /\ n \in Nat /\ DOMAIN raw = 1..n /\ \A i \in 1..n : raw[i] \in T
  OBVIOUS
<1>3. ASSUME NEW i \in 1..n PROVE at(i) \in Seq(T)
  <2>1. CASE \E k \in DOMAIN found : found[k].start = i
    <3>1. PICK k : k = (CHOOSE z \in DOMAIN found : found[z].start = i) /\ k \in DOMAIN found
      BY <2>1
    <3>2. at(i) = <<tokens[k]>>
      BY <2>1, <3>1
    <3> QED
      BY <3>1, <3>2
  <2>2. CASE ~ \E k \in DOMAIN found : found[k].start = i
    <3>1. at(i) = <<>> \/ at(i) = <<raw[i]>>
      BY <2>2
    <3> QED
      BY <1>2, <3>1
  <2> QED
    BY <2>1, <2>2
<1>4. pieces \in [1..n -> Seq(T)]
  <2> HIDE DEF at
  <2> QED
    BY <1>2, <1>3
<1>5. pieces \in Seq(Seq(T))
  <2> HIDE DEF pieces
  <2> QED
    BY <1>2, <1>4, SMTT(30)
<1> QED
  BY <1>1, <1>5, FlattenIsSeq

(* What stands in a text after some places got a replacement.              *)
LEMMA SubstituteItems ==
    ASSUME NEW S, NEW text \in Seq(S), NEW at \in SUBSET DOMAIN text, NEW tokens, NEW T,
           S \subseteq T, \A k \in 1..Cardinality(at) : tokens[k] \in T
    PROVE  Substitute(text, at, tokens) \in Seq(T)
<1>1. PICK n : n = Len(text) /\ n \in Nat /\ DOMAIN text = 1..n /\ \A i \in 1..n : text[i] \in T
  OBVIOUS
<1>2. PICK c : c = Cardinality(at) /\ c \in Nat /\ IsFiniteSet(at) /\ at \in SUBSET Nat
  BY PlacesFinite
<1>3. ASSUME NEW i \in at PROVE tokens[Cardinality({j \in at : j <= i})] \in T
  <2>1. PICK U : U = {j \in at : j <= i} /\ U \in SUBSET at /\ i \in U
    <3>1. PICK U : U = {j \in at : j <= i}
      OBVIOUS
    <3>2. i \in Nat
      BY <1>2
    <3>3. i \in U
      BY <3>1, <3>2
    <3> QED
      BY <3>1, <3>3
  <2>2. IsFiniteSet(U) /\ Cardinality(U) <= c /\ Cardinality(U) \in Nat
    BY <1>2, <2>1, FS_Subset, FS_CardinalityType
  <2>3. Cardinality(U) # 0
    BY <2>1, <2>2, FS_EmptySet
  <2>4. Cardinality(U) \in 1..c
    BY <1>2, <2>2, <2>3
  <2> QED
    BY <1>2, <2>1, <2>4
<1>4. Substitute(text, at, tokens)
        = [i \in 1..n |-> IF i \in at THEN tokens[Cardinality({j \in at : j <= i})] ELSE text[i]]
  BY <1>1 DEF Substitute
<1>5. Substitute(text, at, tokens) \in [1..n -> T]
  BY <1>1, <1>3, <1>4
<1> QED
  BY <1>1, <1>5

(* Pruned code holds items of the text and the typed placeholder.          *)
LEMMA PruneItems ==
    ASSUME NEW S, NEW text \in Seq(S), NEW T, S \subseteq T, Typed \in T
    PROVE  Prune(text) \in Seq(T)
<1> DEFINE leaf(i) == CASE Dropped(text[i]) -> <<>>
                        [] IsValue(text[i]) -> <<Typed>>
                        [] OTHER            -> <<text[i]>>
           pieces == [i \in DOMAIN text |-> leaf(i)]
<1>1. PICK n : n = Len(text) /\ n \in Nat /\ DOMAIN text = 1..n /\ \A i \in 1..n : text[i] \in T
  OBVIOUS
<1>2. Prune(text) = IF ~ IsCode(text) THEN text ELSE FlattenSeq(pieces)
  BY Zenon DEF Prune
<1>3. ASSUME NEW i \in 1..n PROVE leaf(i) \in Seq(T)
  <2>1. <<>> \in Seq(T) /\ <<Typed>> \in Seq(T) /\ <<text[i]>> \in Seq(T)
    BY <1>1
  <2>2. ~ (IsValue(text[i]) /\ Dropped(text[i]))
    BY DEF IsValue
  <2>3. leaf(i) = <<>> \/ leaf(i) = <<Typed>> \/ leaf(i) = <<text[i]>>
    BY <2>2, Zenon
  <2> QED
    BY <2>1, <2>3
<1>4. pieces \in [1..n -> Seq(T)]
  <2> HIDE DEF leaf
  <2> QED
    BY <1>1, <1>3
<1>5. pieces \in Seq(Seq(T))
  <2> HIDE DEF pieces
  <2> QED
    BY <1>1, <1>4
<1>6. text \in Seq(T)
  OBVIOUS
<1> QED
  BY <1>2, <1>5, <1>6, FlattenIsSeq

(* The values a stage masks: one to a place, of the stage's kind.          *)
LEMMA ValuesFacts ==
    ASSUME NEW S, NEW items, NEW at \in SUBSET Int, IsFiniteSet(at), NEW kind
    PROVE  /\ IsList(Values(items, at, kind))
           /\ Len(Values(items, at, kind)) = Cardinality(at)
           /\ \A k \in DOMAIN Values(items, at, kind) : Values(items, at, kind)[k].kind = kind
<1>1. PICK order : order = Ascending(at) /\ order \in Seq(at) /\ Len(order) = Cardinality(at)
  BY AscendingFacts
<1>2. PICK n : n = Len(order) /\ n \in Nat /\ DOMAIN order = 1..n
  BY <1>1
<1>3. PICK v : v = Values(items, at, kind)
               /\ v = [k \in 1..n |-> [value |-> <<items[order[k]]>>, kind |-> kind, rank |-> 0]]
  BY <1>1, <1>2 DEF Values
<1>4. v \in Seq({v[k] : k \in 1..n}) /\ Len(v) = n /\ DOMAIN v = 1..n
  <2>1. v \in [1..n -> {v[k] : k \in 1..n}]
    BY <1>3, Zenon
  <2> QED
    BY <1>2, <2>1
<1>5. \A k \in 1..n : v[k].kind = kind
  BY <1>3
<1> QED
  BY <1>1, <1>2, <1>3, <1>4, <1>5 DEF IsList
-----------------------------------------------------------------------------
(* The clusters of lines, with T the items a line is made of.              *)
ClustersOf(K, T) == [key : K, tokens : Seq(T), count : Nat]

(* A merged template holds its own items and the wildcard.                 *)
LEMMA MergeTemplateItems ==
    ASSUME NEW T, Wildcard \in T, NEW template \in Seq(T), NEW line
    PROVE  MergeTemplate(template, line) \in Seq(T)
<1>1. PICK n : n = Len(template) /\ n \in Nat /\ DOMAIN template = 1..n
               /\ \A i \in 1..n : template[i] \in T
  OBVIOUS
<1>2. MergeTemplate(template, line)
        = [i \in 1..n |-> IF template[i] = line[i] THEN template[i] ELSE Wildcard]
  BY <1>1 DEF MergeTemplate
<1>3. MergeTemplate(template, line) \in [1..n -> T]
  BY <1>1, <1>2
<1> QED
  BY <1>1, <1>3

(* A line opens a cluster or joins one; both hold known items.             *)
LEMMA JoinItems ==
    ASSUME NEW K, NEW T, Wildcard \in T, NEW clusters \in Seq(ClustersOf(K, T)),
           NEW line \in Seq(T), BucketKey(line) \in K
    PROVE  Join(clusters, line) \in Seq(ClustersOf(K, T))
<1> DEFINE fits == {k \in DOMAIN clusters : clusters[k].key = BucketKey(line)
                                            /\ Similar(clusters[k].tokens, line)}
           opened == [key |-> BucketKey(line), tokens |-> line, count |-> 1]
           joined == [clusters EXCEPT ![Min(fits)].tokens = MergeTemplate(@, line),
                                      ![Min(fits)].count  = @ + 1]
<1>1. Join(clusters, line) = IF line = <<>> \/ fits = {} THEN Append(clusters, opened) ELSE joined
  BY Zenon DEF Join
<1>2. Append(clusters, opened) \in Seq(ClustersOf(K, T))
  <2>1. opened \in ClustersOf(K, T)
    BY DEF ClustersOf
  <2> HIDE DEF opened
  <2> QED
    BY <2>1, AppendProperties
<1>3. ASSUME fits # {} PROVE joined \in Seq(ClustersOf(K, T))
  <2>1. PICK n : n = Len(clusters) /\ n \in Nat /\ DOMAIN clusters = 1..n
    OBVIOUS
  <2>2. fits \in SUBSET Nat
    BY <2>1
  <2>3. PICK m : m = Min(fits) /\ m \in 1..n
    <3>1. Min(fits) \in fits
      BY <1>3, <2>2, MinPlace
    <3>2. fits \subseteq 1..n
      BY <2>1
    <3> HIDE DEF fits
    <3> QED
      BY <3>1, <3>2
  <2>4. PICK c : /\ c = clusters[m] /\ c \in ClustersOf(K, T)
    <3>1. m \in 1..Len(clusters)
      BY <2>1, <2>3
    <3>2. clusters[m] \in ClustersOf(K, T)
      BY ONLY clusters \in Seq(ClustersOf(K, T)), <3>1, ElementOfSeq
    <3> QED
      BY <3>2
  <2>5. PICK e : e = [c EXCEPT !.tokens = MergeTemplate(c.tokens, line), !.count = c.count + 1]
    OBVIOUS
  <2>6. e \in ClustersOf(K, T)
    <3>1. PICK t : t = MergeTemplate(c.tokens, line) /\ t \in Seq(T)
      <4>1. c.tokens \in Seq(T)
        BY <2>4 DEF ClustersOf
      <4> QED
        BY <4>1, MergeTemplateItems
    <3>2. c.key \in K /\ c.count \in Nat
          /\ c = [key |-> c.key, tokens |-> c.tokens, count |-> c.count]
      BY <2>4 DEF ClustersOf
    <3>3. e = [key |-> c.key, tokens |-> t, count |-> c.count + 1]
      BY <2>5, <3>1, <3>2
    <3> QED
      BY <3>1, <3>2, <3>3 DEF ClustersOf
  <2>7. joined = [clusters EXCEPT ![m] = e]
    <3> HIDE DEF fits
    <3>1. joined = [clusters EXCEPT ![m].tokens = MergeTemplate(@, line), ![m].count = @ + 1]
      BY <2>3, Zenon
    <3> HIDE DEF joined
    <3> QED
      BY <2>1, <2>3, <2>4, <2>5, <3>1 DEF ClustersOf
  <2> HIDE DEF joined
  <2> QED
    BY <2>1, <2>3, <2>6, <2>7, ExceptSeq
<1> QED
  BY <1>1, <1>2, <1>3

(* Cut into lines, a text of items of S is lines of items of S.            *)
LEMMA LinesItems ==
    ASSUME NEW S, NEW text \in Seq(S)
    PROVE  Lines(text) \in Seq(Seq(S))
<1>1. PICK n : n = Len(text) /\ n \in Nat /\ DOMAIN text = 1..n /\ \A i \in 1..n : text[i] \in S
  OBVIOUS
<1>2. PICK B, P : /\ B = {i \in DOMAIN text : text[i] = LineBreak}
                  /\ P = B \cup {0, n + 1}
  OBVIOUS
<1>3. P \subseteq 0..(n + 1) /\ P \subseteq Int
  BY <1>1, <1>2
<1>4. IsFiniteSet(P)
  <2>1. 0 \in Int /\ n + 1 \in Int
    BY <1>1
  <2>2. IsFiniteSet(0..(n + 1))
    BY <2>1, FS_Interval
  <2> QED
    BY <1>3, <2>2, FS_Subset
<1>5. PICK stops : /\ stops = Ascending(P) /\ stops \in Seq(P)
                   /\ \A x \in P : \E i \in DOMAIN stops : stops[i] = x
  <2>1. PICK stops : stops = Ascending(P)
    OBVIOUS
  <2>2. Ascending(P) \in Seq(P)
    BY ONLY <1>3, <1>4, AscendingFacts
  <2>3. \A x \in P : \E i \in DOMAIN Ascending(P) : Ascending(P)[i] = x
    BY ONLY <1>3, <1>4, AscendingFacts
  <2> QED
    BY <2>1, <2>2, <2>3
<1>6. PICK m : m = Len(stops) - 1 /\ m \in Nat /\ DOMAIN stops = 1..(m + 1)
               /\ \A k \in 1..(m + 1) : stops[k] \in P
  <2>1. 0 \in P
    BY <1>2
  <2>2. PICK i \in DOMAIN stops : stops[i] = 0
    BY <1>5, <2>1
  <2>3. PICK l : l = Len(stops) /\ l \in Nat /\ DOMAIN stops = 1..l
               /\ \A k \in 1..l : stops[k] \in P
    BY <1>5
  <2>4. l - 1 \in Nat /\ (l - 1) + 1 = l
    BY <2>2, <2>3
  <2> QED
    BY <2>3, <2>4
<1>7. Lines(text) = [k \in 1..m |-> SubSeq(text, stops[k] + 1, stops[k + 1] - 1)]
  BY <1>1, <1>2, <1>5, <1>6, Zenon DEF Lines
<1>8. ASSUME NEW k \in 1..m
      PROVE  SubSeq(text, stops[k] + 1, stops[k + 1] - 1) \in Seq(S)
  <2>1. k \in 1..(m + 1) /\ k + 1 \in 1..(m + 1)
    BY <1>6
  <2>2. PICK a, b : a = stops[k] + 1 /\ b = stops[k + 1] - 1 /\ a \in 1..(n + 2) /\ b \in (-1)..n
    <3>1. stops[k] \in 0..(n + 1) /\ stops[k + 1] \in 0..(n + 1)
      BY <1>3, <1>6, <2>1
    <3>2. PICK x, y : x = stops[k] /\ y = stops[k + 1] /\ x \in 0..(n + 1) /\ y \in 0..(n + 1)
      BY <3>1
    <3>3. x + 1 \in 1..(n + 2) /\ y - 1 \in (-1)..n
      BY <1>1, <3>2
    <3> QED
      BY <3>2, <3>3
  <2>3. a \in Int /\ b \in Int /\ \A i \in a..b : text[i] \in S
    BY <1>1, <2>2
  <2>4. SubSeq(text, a, b) \in Seq(S)
    BY <2>3, SubSeqProperties
  <2> QED
    BY <2>2, <2>4
<1>9. Lines(text) \in [1..m -> Seq(S)]
  BY <1>7, <1>8
<1> QED
  BY <1>6, <1>9

(* What Drain writes besides the items of the text.                        *)
Written == {Wildcard, LineBreak} \cup {Repeated(n) : n \in Nat}

(* A drained text holds the items of the text and what Drain writes.       *)
LEMMA DrainItems ==
    ASSUME NEW S, NEW text \in Seq(S)
    PROVE  Drain(text) \in Seq(S \cup Written)
<1>1. PICK T : T = S \cup Written /\ Wildcard \in T /\ LineBreak \in T
               /\ \A n \in Nat : Repeated(n) \in T
  <2>1. \A n \in Nat : Repeated(n) \in Written
    BY Zenon DEF Written
  <2>2. Wildcard \in Written /\ LineBreak \in Written
    BY Zenon DEF Written
  <2>3. PICK T : T = S \cup Written
    OBVIOUS
  <2> QED
    BY <2>1, <2>2, <2>3
<1>2. PICK lines, N : lines = Lines(text) /\ N = Len(lines) /\ N \in Nat /\ DOMAIN lines = 1..N
                      /\ \A i \in 1..N : lines[i] \in Seq(T)
  <2>1. PICK lines : lines = Lines(text) /\ lines \in Seq(Seq(S))
    BY LinesItems
  <2>2. Len(lines) \in Nat /\ DOMAIN lines = 1..Len(lines)
        /\ \A i \in 1..Len(lines) : lines[i] \in Seq(S)
    BY <2>1
  <2>3. \A u \in Seq(S) : u \in Seq(T)
    BY <1>1
  <2> QED
    BY <2>1, <2>2, <2>3
<1>3. PICK K : K = {BucketKey(lines[i]) : i \in 1..N}
  OBVIOUS
<1>4. PICK Q : Q = Seq(ClustersOf(K, T))
  OBVIOUS
<1> DEFINE step == [p \in (1..N) \X Q |-> Join(p[2], lines[p[1]])]
           Body(h) == [n \in 0..Len(lines) |-> IF n = 0 THEN <<>> ELSE Join(h[n - 1], lines[n])]
           joined == CHOOSE h : h = Body(h)
           line(c) == IF c.count > 1 THEN Append(c.tokens, Repeated(c.count)) ELSE c.tokens
           piece(s, k) == IF k = 1 THEN line(s[k]) ELSE <<LineBreak>> \o line(s[k])
<1>5. \A q \in Q : \A i \in 1..N : Join(q, lines[i]) \in Q
  <2>1. ASSUME NEW q \in Q, NEW i \in 1..N PROVE Join(q, lines[i]) \in Q
    <3>1. PICK l : l = lines[i] /\ l \in Seq(T) /\ BucketKey(l) \in K
      BY <1>2, <1>3
    <3>2. q \in Seq(ClustersOf(K, T))
      BY <1>4
    <3>3. Join(q, l) \in Seq(ClustersOf(K, T))
      BY <1>1, <3>1, <3>2, JoinItems
    <3> QED
      BY <1>4, <3>1, <3>3
  <2> QED
    BY <2>1
<1>6. <<>> \in Q
  BY <1>4
<1>7. PICK f \in [0..N -> Q] : f[0] = <<>> /\ \A n \in 1..N : f[n] = Join(f[n - 1], lines[n])
  <2>1. step \in [(1..N) \X Q -> Q]
    <3>1. \A p \in (1..N) \X Q : Join(p[2], lines[p[1]]) \in Q
      BY <1>5
    <3> QED
      BY <3>1
  <2>2. \A n \in 1..N : \A q \in Q : step[<<n, q>>] = Join(q, lines[n])
    OBVIOUS
  <2> HIDE DEF step
  <2>3. PICK f \in [0..N -> Q] : Runs(f, <<>>, step, N)
    BY <1>2, <1>6, <2>1, RunExists
  <2>4. \A n \in 1..N : f[n] = step[<<n, f[n - 1]>>] /\ f[n - 1] \in Q
    <3>1. \A n \in 1..N : n - 1 \in 0..N
      BY <1>2
    <3>2. \A n \in 1..N : f[n - 1] \in Q
      BY <2>3, <3>1
    <3>3. \A n \in 1..N : f[n] = step[<<n, f[n - 1]>>]
      BY <2>3 DEF Runs
    <3> QED
      BY <3>2, <3>3
  <2>5. \A n \in 1..N : f[n] = Join(f[n - 1], lines[n])
    BY <2>2, <2>4
  <2>6. f[0] = <<>>
    BY <2>3 DEF Runs
  <2> QED
    BY <2>5, <2>6
<1>8. joined = Body(joined)
  <2>1. \A n \in 0..N : f[n] = IF n = 0 THEN <<>> ELSE Join(f[n - 1], lines[n])
    <3>1. \A n \in 0..N : n = 0 \/ n \in 1..N
      BY <1>2
    <3>2. \A n \in 1..N : n # 0
      OBVIOUS
    <3> QED
      BY <1>7, <3>1, <3>2
  <2>2. f = Body(f)
    BY <1>2, <1>7, <2>1
  <2> HIDE DEF Body
  <2> QED
    BY <2>2
<1>9. \A n \in 0..N : joined[n] = IF n = 0 THEN <<>> ELSE Join(joined[n - 1], lines[n])
  <2> HIDE DEF joined
  <2> QED
    BY <1>2, <1>8
<1>10. Drain(text) = FlattenSeq([k \in DOMAIN joined[N] |-> piece(joined[N], k)])
  BY <1>2 DEF Drain
<1> HIDE DEF joined
<1>11. joined[N] \in Q
  <2> DEFINE Good == {n \in 0..N : joined[n] \in Q}
  <2>1. 0 \in Good
    <3>1. 0 \in 0..N
      BY <1>2
    <3>2. joined[0] = <<>>
      BY <1>9, <3>1
    <3> QED
      BY <1>6, <3>1, <3>2
  <2>2. ASSUME NEW n \in 1..N, n - 1 \in Good PROVE n \in Good
    <3>1. n \in 0..N /\ n # 0
      BY <1>2
    <3>2. joined[n] = Join(joined[n - 1], lines[n])
      BY <1>9, <3>1
    <3> QED
      BY <1>5, <2>2, <3>1, <3>2
  <2> HIDE DEF Good
  <2>3. \A n \in 0..N : n \in Good
    BY <1>2, <2>1, <2>2, EveryNumber
  <2>4. N \in Good
    BY <1>2, <2>3
  <2> QED
    BY <2>4 DEF Good
<1>12. PICK s, L : /\ s = joined[N] /\ s \in Seq(ClustersOf(K, T)) /\ L = Len(s) /\ L \in Nat
                   /\ DOMAIN s = 1..L /\ \A k \in 1..L : s[k] \in ClustersOf(K, T)
  <2>1. PICK s : s = joined[N] /\ s \in Seq(ClustersOf(K, T))
    BY <1>4, <1>11
  <2> QED
    BY <2>1
<1>13. ASSUME NEW k \in 1..L PROVE piece(s, k) \in Seq(T)
  <2>1. PICK c : c = s[k] /\ c.tokens \in Seq(T) /\ c.count \in Nat
    BY <1>12 DEF ClustersOf
  <2>2. Append(c.tokens, Repeated(c.count)) \in Seq(T)
    <3>1. Repeated(c.count) \in T
      BY <1>1, <2>1
    <3> QED
      BY <2>1, <3>1, AppendProperties
  <2>3. line(s[k]) \in Seq(T)
    BY <2>1, <2>2
  <2>4. <<LineBreak>> \in Seq(T)
    BY <1>1
  <2> HIDE DEF line
  <2>5. <<LineBreak>> \o line(s[k]) \in Seq(T)
    BY <2>3, <2>4, ConcatProperties
  <2> QED
    BY <2>3, <2>5
<1>14. [k \in 1..L |-> piece(s, k)] \in Seq(Seq(T))
  <2> HIDE DEF piece
  <2>1. [k \in 1..L |-> piece(s, k)] \in [1..L -> Seq(T)]
    BY <1>13
  <2> QED
    BY <1>12, <2>1
<1>15. Drain(text) = FlattenSeq([k \in 1..L |-> piece(s, k)])
  BY <1>10, <1>12
<1> HIDE DEF piece
<1>16. FlattenSeq([k \in 1..L |-> piece(s, k)]) \in Seq(T)
  BY <1>14, FlattenIsSeq
<1> QED
  BY <1>1, <1>15, <1>16
-----------------------------------------------------------------------------
(* What the texts say.  A request's own tokens are those it was given for  *)
(* the values of its prompt; X is the items a text is made of.             *)
Known(X, own) == \A x \in X : IsToken(x) => x \in DOMAIN own

Knows(text, own) == \E X : text \in Seq(X) /\ Known(X, own)

KnowsAll(texts, own) == \E X : texts \in Seq(Seq(X)) /\ Known(X, own)

(* A dictionary's tokens look like tokens.                                 *)
Coined(d) == \A t \in DOMAIN d.reverse : IsToken(t)

(* An entry says the item at its place in the payload of its key.          *)
Says(e) ==
    LET payload == FlattenSeq(e.key[2])
    IN  \/ e.from = 0 /\ e.content = <<>>
        \/ /\ e.from \in DOMAIN payload /\ IsToken(payload[e.from])
           /\ e.content = <<payload[e.from]>>

(* q is a request's record, d its session's dictionary, job what it asks:  *)
(* what a request was given a token for is what the token means.           *)
Owns(q, d) == \A t \in DOMAIN q.own : t \in DOMAIN d.reverse /\ d.reverse[t] = q.own[t]

(* The values of one message, those already masked, the texts before.      *)
Masks(q) ==
    /\ q.at \in Nat \ {0}
    /\ IsList(q.todo) /\ \A k \in DOMAIN q.todo : q.todo[k].kind \in TokenKinds
    /\ q.tokens \in Seq(DOMAIN q.own) /\ Len(q.tokens) <= Len(q.todo)
    /\ KnowsAll(q.texts, q.own)

(* What each stage of the pipeline works on.                               *)
Staged(q) ==
    /\ q.phase = "masker" =>
           /\ q.raw \in Seq(Raw) /\ IsCutting(q.work, q.raw)
           /\ Len(q.todo) = Len(q.work)
           /\ \A k \in DOMAIN q.work : q.todo[k].value = q.work[k].text
           /\ \A k \in DOMAIN q.tokens : q.own[q.tokens[k]] = q.todo[k].value
    /\ q.phase = "refdict" =>
           Knows(q.work, q.own) /\ Len(q.todo) = Cardinality(FoldedAt(q.work))
    /\ q.phase = "astprune" => Knows(q.work, q.own)

(* A key is that of the request's own payload.                             *)
Asked(q, job) ==
    q.phase \in {"fetch", "ask", "promote", "publish"} =>
        /\ q.restore = Shape(q.texts).restore
        /\ q.key = Key(job.model, Shape(q.texts).texts, job.settings)
        /\ q.phase \in {"promote", "publish"} => q.got.key = q.key /\ Says(q.got)

(* An answer is empty or recites a token of the request's own prompt.      *)
Answered(q) ==
    LET prompt == FlattenSeq(q.texts)
    IN  q.phase \in {"publish", "deliver", "done"} =>
            \/ q.from = 0 /\ q.answer = <<>>
            \/ /\ q.from \in DOMAIN prompt /\ IsToken(prompt[q.from])
               /\ q.answer = <<prompt[q.from]>>

(* What a text stands for by the values of own.                            *)
Meaning(text, own) ==
    FlattenSeq([i \in DOMAIN text |->
        IF text[i] \in DOMAIN own THEN own[text[i]] ELSE <<text[i]>>])

(* What is delivered is the answer in the request's own values.            *)
Delivered(q) == q.phase = "done" => q.delivered = Meaning(q.answer, q.own)

(* All of it, for a request past its start.                                *)
Follows(q, d, job) ==
    /\ Owns(q, d) /\ Masks(q) /\ Staged(q)
    /\ Asked(q, job) /\ Answered(q) /\ Delivered(q)

(* A request that has not started has nothing.                             *)
Begins(q) ==
    /\ q.own = <<>> /\ q.texts = <<>> /\ q.todo = <<>> /\ q.tokens = <<>> /\ q.at = 1

(* Every stored entry says what its key asks.                              *)
TiersSay(l, b) ==
    /\ \A p \in Pods : \A i \in DOMAIN l[p] : Says(l[p][i])
    /\ \A e \in b : Says(e)

(* The invariant.                                                          *)
Faithful ==
    /\ \A s \in Sessions : Coined(dict[s])
    /\ TiersSay(local, backend)
    /\ \A r \in Requests :
          IF req[r].phase = "new" THEN Begins(req[r])
          ELSE req[r].session \in Sessions /\ Follows(req[r], dict[req[r].session], Job(r))

(* What is known stays known when the request gets more tokens.            *)
LEMMA KnownGrows ==
    ASSUME NEW own, NEW more, DOMAIN own \subseteq DOMAIN more
    PROVE  /\ \A text : Knows(text, own) => Knows(text, more)
           /\ \A texts : KnowsAll(texts, own) => KnowsAll(texts, more)
<1>1. \A X : Known(X, own) => Known(X, more)
  BY DEF Known
<1> QED
  BY <1>1 DEF Knows, KnowsAll

(* What follows from a dictionary follows from one that keeps it.          *)
LEMMA KeepsMore ==
    ASSUME NEW d, NEW e, Keeps(d, e), NEW q, NEW job, Follows(q, d, job)
    PROVE  Follows(q, e, job)
<1>1. Owns(q, e)
  BY DEF Follows, Owns, Keeps
<1> QED
  BY <1>1 DEF Follows

(* A dictionary keeps itself.                                              *)
LEMMA KeepsSelf == \A d : Keeps(d, d)
  BY DEF Keeps

(* A step of one request leaves the others what they were.                 *)
LEMMA OneMoves ==
    ASSUME IInv, Faithful, NEW r \in Requests, NEW changes, Step(r, changes),
           UNCHANGED load,
           \A s \in Sessions : Keeps(dict[s], dict'[s]) /\ Coined(dict'[s]),
           TiersSay(local', backend'),
           req'[r].phase # "new", req'[r].session \in Sessions,
           Follows(req'[r], dict'[req'[r].session], Job(r))
    PROVE  Faithful'
<1>1. Requesting
  BY DEF IInv
<1>2. \A q \in Requests : q # r => req'[q] = req[q]
  BY <1>1, StepChanges
<1>3. ASSUME NEW q \in Requests, q # r
      PROVE  IF req'[q].phase = "new" THEN Begins(req'[q])
             ELSE req'[q].session \in Sessions /\ Follows(req'[q], dict'[req'[q].session], Job(q))
  <2>1. PICK n : n = req[q] /\ n = req'[q]
    BY <1>2, <1>3
  <2>2. IF n.phase = "new" THEN Begins(n)
        ELSE n.session \in Sessions /\ Follows(n, dict[n.session], Job(q))
    BY <2>1 DEF Faithful
  <2>3. CASE n.phase = "new"
    BY <2>1, <2>2, <2>3
  <2>4. CASE n.phase # "new"
    <3>1. n.session \in Sessions /\ Follows(n, dict[n.session], Job(q))
      BY <2>2, <2>4
    <3>2. Follows(n, dict'[n.session], Job(q))
      BY <3>1, KeepsMore
    <3> QED
      BY <2>1, <2>4, <3>1, <3>2
  <2> QED
    BY <2>3, <2>4
<1>4. \A q : Job(q)' = Job(q)
  BY DEF Job
<1>5. ASSUME NEW q \in Requests
      PROVE  IF req'[q].phase = "new" THEN Begins(req'[q])
             ELSE /\ req'[q].session \in Sessions
                  /\ Follows(req'[q], dict'[req'[q].session], Job(q)')
  <2>1. CASE q = r
    BY <1>4, <2>1
  <2>2. CASE q # r
    BY <1>3, <1>4, <2>2
  <2> QED
    BY <2>1, <2>2
<1> QED
  BY <1>5 DEF Faithful

(* A step that touches no dictionary keeps them all.                       *)
LEMMA DictionariesStay ==
    ASSUME Faithful, UNCHANGED dict
    PROVE  \A s \in Sessions : Keeps(dict[s], dict'[s]) /\ Coined(dict'[s])
  BY KeepsSelf DEF Faithful

(* A step that touches no tier leaves what the tiers say.                  *)
LEMMA TiersStay ==
    ASSUME Faithful, UNCHANGED <<local, backend>>
    PROVE  TiersSay(local', backend')
  BY DEF Faithful

(* What a request past its start is known to be.                           *)
LEMMA FollowsNow ==
    ASSUME IInv, Faithful, NEW r \in Requests, req[r].phase # "new"
    PROVE  /\ r \in Active /\ req[r].session \in Sessions
           /\ Follows(req[r], dict[req[r].session], Job(r))
           /\ IsDictionary(dict[req[r].session]) /\ Coined(dict[req[r].session])
<1>1. r \in Active
  BY DEF IInv, Requesting
<1>2. req[r].session \in Sessions /\ Follows(req[r], dict[req[r].session], Job(r))
  BY DEF Faithful
<1>3. IsDictionary(dict[req[r].session]) /\ Coined(dict[req[r].session])
  BY <1>2 DEF IInv, Naming, Faithful
<1> QED
  BY <1>1, <1>2, <1>3

(* Nothing has been masked, asked or stored at first.                      *)
LEMMA FaithfulFirst == Init => Faithful
<1> SUFFICES ASSUME Init PROVE Faithful
  OBVIOUS
<1>1. PICK s0 : s0 = Start
  OBVIOUS
<1>2. /\ s0.phase = "new" /\ s0.own = <<>> /\ s0.texts = <<>> /\ s0.todo = <<>>
      /\ s0.tokens = <<>> /\ s0.at = 1
  BY <1>1 DEF Start
<1>3. \A r \in Requests : req[r].phase = "new" /\ Begins(req[r])
  BY <1>1, <1>2 DEF Init, Begins
<1>4. ASSUME NEW s \in Sessions PROVE Coined(dict[s])
  <2>1. PICK d : d = dict[s] /\ d = EmptyDictionary
    BY DEF Init
  <2>2. d.reverse = <<>> /\ DOMAIN <<>> = {}
    BY <2>1 DEF EmptyDictionary
  <2> QED
    BY <2>1, <2>2 DEF Coined
<1>5. TiersSay(local, backend)
  <2>1. \A p \in Pods : local[p] = <<>> /\ DOMAIN <<>> = {}
    BY DEF Init
  <2> QED
    BY <2>1 DEF Init, TiersSay
<1> QED
  BY <1>3, <1>4, <1>5 DEF Faithful
-----------------------------------------------------------------------------
(* Opening a conversation: its dictionary is new or as it was kept.        *)
LEMMA OpenFaithful ==
    ASSUME IInv, Faithful, NEW r \in Requests, Open(r)
    PROVE  Faithful'
<1>1. PICK p : p = Pod(r) /\ p \in Pods
  BY ActiveJob DEF Open
<1>2. PICK s, c : /\ s = GetSession(store[p], idle, Job(r).conv, r)
                  /\ c = [phase |-> "plan", session |-> s] /\ Step(r, c)
  BY <1>1 DEF Open
<1>3. /\ r \in Active /\ req[r].phase = "new"
      /\ UNCHANGED <<load, due, dict, local, backend>>
  BY DEF Open
<1>4. s \in Sessions
  <2>1. IsStore(store[p]) /\ r \in Sessions
    BY <1>1 DEF IInv, Keeping, Sessions
  <2> QED
    BY <1>2, <2>1, OpenKeeps
<1>5. PICK q, n : q = req[r] /\ n = req'[r]
  OBVIOUS
<1>6. \A f \in DOMAIN Start : n[f] = IF f \in DOMAIN c THEN c[f] ELSE q[f]
  BY <1>2, <1>5, StepChanges DEF IInv
<1>7. DOMAIN c = {"phase", "session"} /\ c["phase"] = "plan" /\ c["session"] = s
  BY <1>2
<1>8. /\ n.phase = "plan" /\ n.session = s
      /\ n.own = q.own /\ n.texts = q.texts /\ n.todo = q.todo /\ n.tokens = q.tokens
      /\ n.at = q.at
  BY <1>6, <1>7, FieldsAre
<1>9. Begins(q)
  BY <1>3, <1>5 DEF Faithful
<1>10. Masks(n)
  <2>1. /\ n.own = <<>> /\ n.texts = <<>> /\ n.todo = <<>> /\ n.tokens = <<>> /\ n.at = 1
    BY <1>8, <1>9 DEF Begins
  <2>2. IsList(n.todo) /\ DOMAIN n.todo = {} /\ Len(n.tokens) <= Len(n.todo)
    <3>1. <<>> \in Seq({}) /\ DOMAIN <<>> = {} /\ Len(<<>>) <= Len(<<>>)
      OBVIOUS
    <3> QED
      BY <2>1, <3>1 DEF IsList
  <2>3. n.tokens \in Seq(DOMAIN n.own)
    BY <2>1
  <2>4. KnowsAll(n.texts, n.own)
    <3>1. <<>> \in Seq(Seq({})) /\ Known({}, n.own)
      BY DEF Known
    <3> QED
      BY <2>1, <3>1 DEF KnowsAll
  <2> QED
    BY <2>1, <2>2, <2>3, <2>4 DEF Masks
<1>11. Follows(n, dict'[s], Job(r))
  <2>1. Owns(n, dict'[s])
    <3>1. n.own = <<>> /\ DOMAIN <<>> = {}
      BY <1>8, <1>9 DEF Begins
    <3> QED
      BY <3>1 DEF Owns
  <2>2. Staged(n) /\ Asked(n, Job(r)) /\ Answered(n) /\ Delivered(n)
    BY <1>8 DEF Staged, Asked, Answered, Delivered
  <2> QED
    BY <1>10, <2>1, <2>2 DEF Follows
<1>12. UNCHANGED dict /\ UNCHANGED <<local, backend>> /\ UNCHANGED load
  BY <1>3
<1> QED
  BY <1>2, <1>4, <1>5, <1>8, <1>11, <1>12, OneMoves, DictionariesStay, TiersStay

(* The next message to mask is one of the job's.                           *)
LEMMA MessageIs ==
    ASSUME IInv, NEW r \in Active, NEW i \in Nat \ {0}, i <= Len(Job(r).messages)
    PROVE  Job(r).messages[i] \in Seq(Raw) /\ IsEngine(Job(r).engine)
<1>1. PICK job : job = Job(r)
  OBVIOUS
<1>2. job.messages \in Seq(Seq(Raw)) /\ IsEngine(job.engine)
  BY <1>1, JobsAssumption DEF IInv, Active, Job
<1>3. PICK m : m = job.messages /\ m \in Seq(Seq(Raw))
  BY <1>2
<1>4. Len(m) \in Nat /\ DOMAIN m = 1..Len(m)
  BY <1>3
<1>5. i \in DOMAIN m
  BY <1>1, <1>3, <1>4
<1> QED
  BY <1>1, <1>2, <1>3, <1>5

(* Detection hands the masker findings that cut the text.                  *)
LEMMA FindFaithful ==
    ASSUME IInv, Faithful, NEW r \in Requests, Find(r)
    PROVE  Faithful'
<1>1. /\ req[r].phase = "plan" /\ req[r].at <= Len(Job(r).messages)
      /\ UNCHANGED <<load, store, due, idle, dict, local, backend>>
  BY DEF Find
<1>2. PICK q, n, d, job : q = req[r] /\ n = req'[r] /\ d = dict[q.session] /\ job = Job(r)
  OBVIOUS
<1>3. /\ r \in Active /\ q.session \in Sessions /\ Follows(q, d, job)
  BY <1>1, <1>2, FollowsNow
<1>4. PICK names, text, found, todo, c :
        /\ text = job.messages[q.at]
        /\ found = DetectWithNames(job.engine, text, names)
        /\ todo = [k \in DOMAIN found |->
                      [value |-> found[k].text, kind |-> "V",
                       rank |-> SensitivityOf(found[k].category)]]
        /\ c = [phase |-> "masker", raw |-> text, work |-> found, tokens |-> <<>>,
                todo |-> todo]
        /\ Step(r, c)
  BY <1>2 DEF Find
<1>5. \A f \in DOMAIN Start : n[f] = IF f \in DOMAIN c THEN c[f] ELSE q[f]
  <2>1. Requesting /\ Step(r, c)
    BY <1>4 DEF IInv
  <2> QED
    BY <1>2, <2>1, StepChanges
<1>6. /\ DOMAIN c = {"phase", "raw", "work", "tokens", "todo"}
      /\ c["phase"] = "masker" /\ c["raw"] = text /\ c["work"] = found
      /\ c["tokens"] = <<>> /\ c["todo"] = todo
  BY <1>4
<1>7. /\ n.phase = "masker" /\ n.raw = text /\ n.work = found /\ n.tokens = <<>>
      /\ n.todo = todo /\ n.own = q.own /\ n.texts = q.texts /\ n.at = q.at
      /\ n.session = q.session
  BY <1>5, <1>6, FieldsAre
<1>8. Masks(q) /\ Owns(q, d)
  BY <1>3 DEF Follows
<1>9. text \in Seq(Raw) /\ IsEngine(job.engine)
  <2>1. q.at \in Nat \ {0}
    BY <1>8 DEF Masks
  <2> QED
    BY <1>1, <1>2, <1>3, <1>4, <2>1, MessageIs
<1>10. IsCutting(found, text)
  <2>1. Len(text) \in Nat /\ DOMAIN text = 1..Len(text)
    BY <1>9
  <2> QED
    BY <1>4, <1>9, <2>1, RecogniserOnlyAdds
<1>11. PICK S : found \in Seq(S)
  BY <1>10 DEF IsCutting, IsList
<1>12. PICK m : m \in Nat /\ m = Len(found) /\ DOMAIN found = 1..m
  BY <1>11
<1>13. /\ IsList(todo) /\ Len(todo) = m /\ DOMAIN todo = DOMAIN found
       /\ \A k \in DOMAIN found : todo[k].value = found[k].text /\ todo[k].kind = "V"
  <2>1. ASSUME NEW k \in DOMAIN found
        PROVE  todo[k].value = found[k].text /\ todo[k].kind = "V"
    <3>1. PICK v, n0 : v = found[k].text /\ n0 = SensitivityOf(found[k].category)
      OBVIOUS
    <3>2. PICK a : a = todo[k] /\ a = [value |-> v, kind |-> "V", rank |-> n0]
      BY <1>4, <3>1
    <3>3. a.value = v /\ a.kind = "V"
      BY <3>2
    <3> QED
      BY <3>1, <3>2, <3>3
  <2>2. DOMAIN todo = 1..m
    BY <1>4, <1>12
  <2>3. todo \in Seq({todo[k] : k \in 1..m})
    <3>1. todo = [k \in 1..m |-> todo[k]]
      BY <1>4, <1>12
    <3>2. \A k \in 1..m : todo[k] \in {todo[j] : j \in 1..m}
      OBVIOUS
    <3> QED
      BY <1>12, <3>1, <3>2
  <2>4. Len(todo) = m
    BY <1>12, <2>2, <2>3
  <2>5. \A k \in DOMAIN found : todo[k].value = found[k].text
    BY <2>1
  <2>6. \A k \in DOMAIN found : todo[k].kind = "V"
    BY <2>1
  <2> QED
    BY <1>12, <2>2, <2>3, <2>4, <2>5, <2>6 DEF IsList
<1>14. Masks(n)
  <2>1. <<>> \in Seq(DOMAIN n.own) /\ Len(<<>>) = 0
    OBVIOUS
  <2>2. Len(n.tokens) <= Len(n.todo)
    BY <1>7, <1>12, <1>13, <2>1
  <2>3. \A k \in DOMAIN n.todo : n.todo[k].kind \in TokenKinds
    BY <1>7, <1>13 DEF TokenKinds
  <2> QED
    BY <1>7, <1>8, <1>13, <2>1, <2>2, <2>3 DEF Masks
<1>15. Follows(n, dict'[q.session], job)
  <2>1. Owns(n, dict'[q.session])
    BY <1>1, <1>2, <1>7, <1>8 DEF Owns
  <2>2. Staged(n)
    <3>1. DOMAIN n.tokens = {}
      BY <1>7
    <3> QED
      BY <1>7, <1>9, <1>10, <1>12, <1>13, <3>1 DEF Staged
  <2>3. Asked(n, job) /\ Answered(n) /\ Delivered(n)
    BY <1>7 DEF Asked, Answered, Delivered
  <2> QED
    BY <1>14, <2>1, <2>2, <2>3 DEF Follows
<1>16. UNCHANGED dict /\ UNCHANGED <<local, backend>> /\ UNCHANGED load
  BY <1>1
<1> QED
  BY <1>2, <1>3, <1>4, <1>7, <1>15, <1>16, OneMoves, DictionariesStay, TiersStay
-----------------------------------------------------------------------------
(* The value has a token that means it.                                    *)
LEMMA MaskGives ==
    ASSUME NEW d, IsDictionary(d), Coined(d), NEW v, NEW kind \in TokenKinds, NEW rank,
           NEW e, e = MaskAs(d, v, kind, rank)
    PROVE  /\ Keeps(d, e) /\ Coined(e)
           /\ e.forward[v] \in DOMAIN e.reverse /\ e.reverse[e.forward[v]] = v
<1>1. IsDictionary(e) /\ Keeps(d, e)
  BY MaskKeeps
<1>2. CASE v \in DOMAIN d.forward
  <2>1. PICK t : e = IF rank > d.class[t] THEN [d EXCEPT !.class[t] = rank] ELSE d
    BY <1>2 DEF MaskAs
  <2>2. e.reverse = d.reverse
    <3>1. CASE rank > d.class[t]
      BY <2>1, <3>1 DEF IsDictionary
    <3>2. CASE ~ (rank > d.class[t])
      BY <2>1, <3>2
    <3> QED
      BY <3>1, <3>2
  <2>3. v \in DOMAIN e.forward
    BY <1>1, <1>2 DEF Keeps
  <2> QED
    BY <1>1, <2>2, <2>3 DEF Coined, IsDictionary, OneToOne
<1>3. CASE v \notin DOMAIN d.forward
  <2>1. PICK t : t = NextToken(d, kind) /\ t[1] = kind
    BY NextTokenIsNew
  <2>2. e.forward = Extend(d.forward, v, t) /\ e.reverse = Extend(d.reverse, t, v)
    BY <1>3, <2>1 DEF MaskAs
  <2>3. v \in DOMAIN e.forward /\ DOMAIN e.reverse = DOMAIN d.reverse \cup {t}
    BY <2>2 DEF Extend
  <2>4. IsToken(t)
    BY <2>1 DEF IsToken, TokenKinds
  <2> QED
    BY <1>1, <2>3, <2>4 DEF Coined, IsDictionary, OneToOne
<1> QED
  BY <1>2, <1>3

(* A request's own tokens grow and go on meaning what they meant.          *)
LEMMA OwnGrows ==
    ASSUME NEW d, NEW e, Keeps(d, e), NEW q, Owns(q, d), NEW v, NEW t,
           t \in DOMAIN e.reverse, e.reverse[t] = v, NEW own, own = Extend(q.own, t, v)
    PROVE  /\ t \in DOMAIN own /\ own[t] = v /\ DOMAIN q.own \subseteq DOMAIN own
           /\ \A x \in DOMAIN q.own : own[x] = q.own[x]
           /\ \A x \in DOMAIN own : x \in DOMAIN e.reverse /\ e.reverse[x] = own[x]
<1>1. /\ DOMAIN own = DOMAIN q.own \cup {t} /\ own[t] = v
      /\ \A x \in DOMAIN q.own : x # t => own[x] = q.own[x]
  BY DEF Extend
<1>2. \A x \in DOMAIN q.own : x \in DOMAIN e.reverse /\ e.reverse[x] = q.own[x]
  BY DEF Owns, Keeps
<1> QED
  BY <1>1, <1>2

(* One value masked: the request's own tokens grow by its token.           *)
LEMMA MaskNextFaithful ==
    ASSUME IInv, Faithful, NEW r \in Requests, MaskNext(r)
    PROVE  Faithful'
<1>1. /\ req[r].phase \in {"masker", "refdict", "astprune"}
      /\ UNCHANGED <<load, store, due, idle, local, backend>>
  BY DEF MaskNext
<1>2. PICK q, n, s, d, job : /\ q = req[r] /\ n = req'[r] /\ s = q.session /\ d = dict[s]
                             /\ job = Job(r)
  OBVIOUS
<1>3. /\ r \in Active /\ s \in Sessions /\ Follows(q, d, job)
      /\ IsDictionary(d) /\ Coined(d)
  BY <1>1, <1>2, FollowsNow
<1>4. PICK next, v, kind, rank, e, t, own, tokens, c :
        /\ next = q.todo[Len(q.tokens) + 1]
        /\ v = next.value /\ kind = next.kind /\ rank = next.rank
        /\ e = MaskAs(d, v, kind, rank)
        /\ t = e.forward[v] /\ tokens = Append(q.tokens, t) /\ own = Extend(q.own, t, v)
        /\ c = [tokens |-> tokens, own |-> own]
        /\ Step(r, c) /\ dict' = [dict EXCEPT ![s] = e] /\ Len(q.tokens) < Len(q.todo)
  BY <1>2 DEF MaskNext
<1>5. \A f \in DOMAIN Start : n[f] = IF f \in DOMAIN c THEN c[f] ELSE q[f]
  <2>1. Requesting /\ Step(r, c)
    BY <1>4 DEF IInv
  <2> QED
    BY <1>2, <2>1, StepChanges
<1>6. DOMAIN c = {"tokens", "own"} /\ c["tokens"] = tokens /\ c["own"] = own
  BY <1>4
<1>7. /\ n.phase = q.phase /\ n.raw = q.raw /\ n.work = q.work /\ n.tokens = tokens
      /\ n.todo = q.todo /\ n.own = own /\ n.texts = q.texts /\ n.at = q.at
      /\ n.session = q.session
  BY <1>5, <1>6, FieldsAre
<1>8. Masks(q) /\ Owns(q, d) /\ Staged(q)
  BY <1>3 DEF Follows
<1>9. PICK l : l = Len(q.tokens)
  OBVIOUS
<1>10. /\ q.tokens \in Seq(DOMAIN q.own) /\ l \in Nat
       /\ Len(q.todo) \in Nat /\ DOMAIN q.todo = 1..Len(q.todo)
       /\ l + 1 \in DOMAIN q.todo /\ l + 1 <= Len(q.todo)
  <2>1. q.tokens \in Seq(DOMAIN q.own) /\ IsList(q.todo)
    BY <1>8 DEF Masks
  <2>2. PICK todo, m : todo = q.todo /\ m = Len(q.todo)
    OBVIOUS
  <2>3. PICK S : todo \in Seq(S)
    BY <2>1, <2>2 DEF IsList
  <2>4. m \in Nat /\ DOMAIN todo = 1..m
    BY <2>2, <2>3
  <2>5. l \in Nat
    BY <1>9, <2>1
  <2>6. l < m
    BY <1>4, <1>9, <2>2
  <2>7. l + 1 \in 1..m /\ l + 1 <= m
    BY <2>4, <2>5, <2>6
  <2> QED
    BY <2>1, <2>2, <2>4, <2>5, <2>7
<1>11. Keeps(d, e) /\ Coined(e) /\ t \in DOMAIN e.reverse /\ e.reverse[t] = v
  <2>1. kind \in TokenKinds
    BY <1>4, <1>8, <1>9, <1>10 DEF Masks
  <2>2. e = MaskAs(d, v, kind, rank) /\ t = e.forward[v]
    BY <1>4
  <2> QED
    BY ONLY <1>3, <2>1, <2>2, MaskGives
<1>12. /\ t \in DOMAIN own /\ own[t] = v /\ DOMAIN q.own \subseteq DOMAIN own
       /\ \A x \in DOMAIN q.own : own[x] = q.own[x]
       /\ \A x \in DOMAIN own : x \in DOMAIN e.reverse /\ e.reverse[x] = own[x]
  <2>1. own = Extend(q.own, t, v) /\ Owns(q, d)
    BY <1>4, <1>8
  <2> QED
    BY ONLY <1>11, <2>1, OwnGrows
<1>13. /\ tokens \in Seq(DOMAIN own) /\ Len(tokens) = l + 1 /\ tokens[l + 1] = t
       /\ \A k \in 1..l : tokens[k] = q.tokens[k]
  <2>1. q.tokens \in Seq(DOMAIN own)
    BY <1>10, <1>12
  <2>2. tokens = Append(q.tokens, t) /\ l = Len(q.tokens) /\ t \in DOMAIN own
    BY <1>4, <1>9, <1>12
  <2> QED
    BY ONLY <2>1, <2>2, AppendProperties
<1>14. Masks(n)
  <2>1. KnowsAll(n.texts, n.own)
    BY <1>7, <1>8, <1>12, KnownGrows DEF Masks
  <2> QED
    BY <1>7, <1>8, <1>10, <1>13, <2>1 DEF Masks
<1>15. Staged(n)
  <2>1. \A text : Knows(text, q.own) => Knows(text, n.own)
    BY <1>7, <1>12, KnownGrows
  <2>2. ASSUME q.phase = "masker", NEW k \in DOMAIN n.tokens
        PROVE  n.own[n.tokens[k]] = n.todo[k].value
    <3>1. k \in 1..l \/ k = l + 1
      BY <1>7, <1>10, <1>13
    <3>2. CASE k = l + 1
      BY <1>4, <1>7, <1>9, <1>12, <1>13, <3>2
    <3>3. CASE k \in 1..l
      <4>1. k \in DOMAIN q.tokens
        BY <1>9, <1>10, <3>3
      <4>2. q.own[q.tokens[k]] = q.todo[k].value /\ q.tokens[k] \in DOMAIN q.own
        BY <1>8, <1>10, <2>2, <4>1 DEF Staged
      <4> QED
        BY <1>7, <1>12, <1>13, <3>3, <4>2
    <3> QED
      BY <3>1, <3>2, <3>3
  <2> QED
    BY <1>7, <1>8, <2>1, <2>2 DEF Staged
<1>16. \A x \in Sessions : Keeps(dict[x], dict'[x]) /\ Coined(dict'[x])
  <2>1. DOMAIN dict = Sessions
    BY DEF IInv, Naming
  <2>2. ASSUME NEW x \in Sessions PROVE Keeps(dict[x], dict'[x]) /\ Coined(dict'[x])
    <3>1. dict'[x] = IF x = s THEN e ELSE dict[x]
      BY <1>4, <2>1
    <3>2. Coined(dict[x]) /\ Keeps(dict[x], dict[x])
      BY KeepsSelf DEF Faithful
    <3> QED
      BY <1>2, <1>11, <3>1, <3>2
  <2> QED
    BY <2>2
<1>17. dict'[s] = e
  BY <1>3, <1>4 DEF IInv, Naming
<1>18. Follows(n, e, job)
  <2>1. Owns(n, e)
    BY <1>7, <1>12 DEF Owns
  <2>2. Asked(n, job) /\ Answered(n) /\ Delivered(n)
    BY <1>1, <1>2, <1>7 DEF Asked, Answered, Delivered
  <2> QED
    BY <1>14, <1>15, <2>1, <2>2 DEF Follows
<1>19. UNCHANGED <<local, backend>> /\ UNCHANGED load /\ n.phase # "new"
  BY <1>1, <1>2, <1>7
<1> QED
  BY <1>2, <1>3, <1>4, <1>7, <1>16, <1>17, <1>18, <1>19, OneMoves, TiersStay
-----------------------------------------------------------------------------
(* The record n is q with the fields of c changed.                         *)
Becomes(n, q, c) ==
    \A f \in DOMAIN Start : n[f] = IF f \in DOMAIN c THEN c[f] ELSE q[f]

(* The record a step leaves its request.                                   *)
LEMMA StepBecomes ==
    ASSUME IInv, NEW r \in Requests, NEW c, Step(r, c)
    PROVE  Becomes(req'[r], req[r], c)
<1>1. Requesting
  BY DEF IInv
<1> QED
  BY <1>1, StepChanges DEF Becomes

(* The compression's own words do not look like tokens.                    *)
LEMMA WrittenIsNoToken == Known(Written, <<>>) /\ ~ IsToken(Typed)
<1>1. ASSUME NEW x \in Written PROVE ~ IsToken(x)
  <2>1. CASE x = Wildcard
    BY <2>1 DEF Wildcard, IsToken
  <2>2. CASE x = LineBreak
    BY <2>2 DEF LineBreak, IsToken
  <2>3. ASSUME NEW n \in Nat, x = Repeated(n) PROVE ~ IsToken(x)
    BY <2>3 DEF Repeated, IsToken
  <2> QED
    BY <2>1, <2>2, <2>3 DEF Written
<1>2. ~ IsToken(Typed)
  BY DEF Typed, IsToken
<1> QED
  BY <1>1, <1>2 DEF Known

(* A message that is done joins the prompt, and the next begins.           *)
LEMMA FinishedFollows ==
    ASSUME NEW r, NEW q, q = req[r], NEW d, NEW job, Follows(q, d, job),
           NEW text, Knows(text, q.own), NEW c, c = Finished(r, text),
           NEW n, Becomes(n, q, c)
    PROVE  Follows(n, d, job) /\ n.phase = "plan" /\ n.session = q.session
<1>1. PICK at, texts : /\ at = q.at + 1 /\ texts = Append(q.texts, text)
                       /\ c = [phase |-> "plan", at |-> at, todo |-> <<>>, tokens |-> <<>>,
                               work |-> <<>>, raw |-> <<>>, texts |-> texts]
  BY DEF Finished
<1>2. /\ DOMAIN c = {"phase", "at", "todo", "tokens", "work", "raw", "texts"}
      /\ c["phase"] = "plan" /\ c["at"] = at /\ c["todo"] = <<>> /\ c["tokens"] = <<>>
      /\ c["texts"] = texts
  BY <1>1
<1>3. /\ n.phase = "plan" /\ n.at = at /\ n.todo = <<>> /\ n.tokens = <<>>
      /\ n.texts = texts /\ n.own = q.own /\ n.session = q.session
  BY <1>2, FieldsAre DEF Becomes
<1>4. Masks(q) /\ Owns(q, d)
  BY DEF Follows
<1>5. PICK X : q.texts \in Seq(Seq(X)) /\ Known(X, q.own)
  BY <1>4 DEF Masks, KnowsAll
<1>6. PICK Y : text \in Seq(Y) /\ Known(Y, q.own)
  BY DEF Knows
<1>7. KnowsAll(texts, q.own)
  <2>1. PICK Z : Z = X \cup Y
    OBVIOUS
  <2>2. Known(Z, q.own)
    BY <1>5, <1>6, <2>1 DEF Known
  <2>3. Seq(X) \subseteq Seq(Z) /\ Seq(Y) \subseteq Seq(Z)
    BY ONLY <2>1
  <2>4. PICK A, B : A = Seq(X) /\ B = Seq(Z)
    OBVIOUS
  <2>5. q.texts \in Seq(A) /\ A \subseteq B /\ text \in B
    BY <1>5, <1>6, <2>3, <2>4
  <2>6. texts \in Seq(B)
    <3>1. texts = Append(q.texts, text)
      BY <1>1
    <3> QED
      BY ONLY <2>5, <3>1
  <2> QED
    BY <2>2, <2>4, <2>6 DEF KnowsAll
<1>8. Masks(n)
  <2>1. <<>> \in Seq({}) /\ DOMAIN <<>> = {} /\ Len(<<>>) <= Len(<<>>)
        /\ <<>> \in Seq(DOMAIN n.own)
    OBVIOUS
  <2>2. IsList(n.todo) /\ DOMAIN n.todo = {} /\ Len(n.tokens) <= Len(n.todo)
    BY <1>3, <2>1 DEF IsList
  <2>3. n.at \in Nat \ {0}
    BY <1>1, <1>3, <1>4 DEF Masks
  <2> QED
    BY <1>3, <1>7, <2>1, <2>2, <2>3 DEF Masks
<1>9. Owns(n, d)
  BY <1>3, <1>4 DEF Owns
<1>10. Staged(n) /\ Asked(n, job) /\ Answered(n) /\ Delivered(n)
  BY <1>3 DEF Staged, Asked, Answered, Delivered
<1> QED
  BY <1>3, <1>8, <1>9, <1>10 DEF Follows

(* Pruning writes no token the request does not own.                       *)
LEMMA PruneKnows ==
    ASSUME NEW own, NEW text, Knows(text, own)
    PROVE  Knows(Prune(text), own)
<1>1. PICK X : text \in Seq(X) /\ Known(X, own)
  BY DEF Knows
<1>2. PICK Y : Y = X \cup {Typed}
  OBVIOUS
<1>3. Known(Y, own)
  BY <1>1, <1>2, WrittenIsNoToken DEF Known
<1>4. Prune(text) \in Seq(Y)
  <2>1. X \subseteq Y /\ Typed \in Y
    BY <1>2
  <2> QED
    BY ONLY <1>1, <2>1, PruneItems
<1> QED
  BY <1>3, <1>4 DEF Knows

(* A stage begins with a text that is known and the values it masks.       *)
LEMMA StageFollows ==
    ASSUME NEW q, NEW d, NEW job, Follows(q, d, job), NEW phase \in {"refdict", "astprune"},
           NEW text, Knows(text, q.own), NEW at, at \in SUBSET DOMAIN text,
           NEW items, NEW kind \in TokenKinds, NEW todo, todo = Values(items, at, kind),
           phase = "refdict" => at = FoldedAt(text),
           NEW c, c = [phase |-> phase, work |-> text, tokens |-> <<>>, todo |-> todo],
           NEW n, Becomes(n, q, c)
    PROVE  Follows(n, d, job) /\ n.phase = phase /\ n.session = q.session
<1>1. /\ DOMAIN c = {"phase", "work", "tokens", "todo"} /\ c["phase"] = phase
      /\ c["work"] = text /\ c["tokens"] = <<>> /\ c["todo"] = todo
  OBVIOUS
<1>2. /\ n.phase = phase /\ n.work = text /\ n.tokens = <<>> /\ n.todo = todo
      /\ n.at = q.at /\ n.texts = q.texts /\ n.own = q.own /\ n.session = q.session
  BY <1>1, FieldsAre DEF Becomes
<1>3. Masks(q) /\ Owns(q, d)
  BY DEF Follows
<1>4. PICK X : text \in Seq(X) /\ Known(X, q.own)
  BY DEF Knows
<1>5. IsFiniteSet(at) /\ Cardinality(at) \in Nat /\ at \in SUBSET Int
  BY ONLY <1>4, at \in SUBSET DOMAIN text, PlacesFinite
<1>6. /\ IsList(todo) /\ Len(todo) = Cardinality(at)
      /\ \A k \in DOMAIN todo : todo[k].kind = kind
  BY ONLY <1>5, todo = Values(items, at, kind), ValuesFacts
<1>7. Masks(n)
  <2>1. <<>> \in Seq(DOMAIN n.own) /\ Len(<<>>) = 0
    OBVIOUS
  <2>2. n.tokens \in Seq(DOMAIN n.own) /\ Len(n.tokens) <= Len(n.todo)
    BY <1>2, <1>5, <1>6, <2>1
  <2> QED
    BY <1>2, <1>3, <1>6, <2>2 DEF Masks
<1>8. Staged(n)
  <2>1. n.phase = "refdict" => Len(n.todo) = Cardinality(FoldedAt(n.work))
    BY <1>2, <1>6
  <2> QED
    BY <1>2, <2>1 DEF Staged
<1>9. Owns(n, d) /\ Asked(n, job) /\ Answered(n) /\ Delivered(n)
  BY <1>2, <1>3 DEF Owns, Asked, Answered, Delivered
<1> QED
  BY <1>2, <1>7, <1>8, <1>9 DEF Follows

(* From the folded text to the pruner.                                     *)
LEMMA ToPruneFollows ==
    ASSUME NEW r, NEW q, q = req[r], NEW d, NEW job, Follows(q, d, job),
           NEW text, Knows(text, q.own), NEW c, c = ToPrune(r, text),
           NEW n, Becomes(n, q, c)
    PROVE  Follows(n, d, job) /\ n.phase # "new" /\ n.session = q.session
<1>1. CASE PrunedAt(text) = {}
  <2>1. PICK u : u = Prune(text) /\ c = Finished(r, u) /\ Knows(u, q.own)
    BY <1>1, PruneKnows DEF ToPrune
  <2> QED
    BY <2>1, FinishedFollows
<1>2. CASE PrunedAt(text) # {}
  <2>1. PICK items, at, phase, kind, todo :
          /\ phase = "astprune" /\ kind = "V" /\ at = PrunedAt(text)
          /\ todo = Values(items, at, kind)
          /\ c = [phase |-> phase, work |-> text, tokens |-> <<>>, todo |-> todo]
    BY <1>2 DEF ToPrune
  <2>2. at \in SUBSET DOMAIN text
    BY <2>1 DEF PrunedAt
  <2>3. phase \in {"refdict", "astprune"} /\ kind \in TokenKinds /\ phase # "refdict"
    BY <2>1 DEF TokenKinds
  <2>4. Follows(n, d, job) /\ n.phase = phase /\ n.session = q.session
    BY <2>1, <2>2, <2>3, StageFollows
  <2> QED
    BY <2>1, <2>4
<1> QED
  BY <1>1, <1>2

(* From the drained text to the folder.                                    *)
LEMMA ToFoldFollows ==
    ASSUME NEW r, NEW q, q = req[r], NEW d, NEW job, Follows(q, d, job),
           NEW text, Knows(text, q.own), NEW c, c = ToFold(r, text),
           NEW n, Becomes(n, q, c)
    PROVE  Follows(n, d, job) /\ n.phase # "new" /\ n.session = q.session
<1>1. CASE FoldedAt(text) = {}
  <2>1. c = ToPrune(r, text)
    BY <1>1 DEF ToFold
  <2> QED
    BY <2>1, ToPruneFollows
<1>2. CASE FoldedAt(text) # {}
  <2>1. PICK at, phase, kind, todo :
          /\ phase = "refdict" /\ kind = "REF" /\ at = FoldedAt(text)
          /\ todo = Values(text, at, kind)
          /\ c = [phase |-> phase, work |-> text, tokens |-> <<>>, todo |-> todo]
    BY <1>2 DEF ToFold
  <2>2. at \in SUBSET DOMAIN text
    BY <2>1 DEF FoldedAt
  <2>3. phase \in {"refdict", "astprune"} /\ kind \in TokenKinds
    BY <2>1 DEF TokenKinds
  <2>4. Follows(n, d, job) /\ n.phase = phase /\ n.session = q.session
    BY <2>1, <2>2, <2>3, StageFollows
  <2> QED
    BY <2>1, <2>4
<1> QED
  BY <1>1, <1>2
-----------------------------------------------------------------------------
(* A step that changes nothing but its request.                            *)
LEMMA HandsOn ==
    ASSUME IInv, Faithful, NEW r \in Requests, req[r].phase # "new",
           NEW c, Step(r, c), UNCHANGED <<load, dict, local, backend>>,
           NEW n, n = req'[r], n.phase # "new", n.session = req[r].session,
           Follows(n, dict[n.session], Job(r))
    PROVE  Faithful'
<1>1. n.session \in Sessions
  BY FollowsNow
<1>2. UNCHANGED dict /\ UNCHANGED <<local, backend>> /\ UNCHANGED load
  OBVIOUS
<1>3. Follows(n, dict'[n.session], Job(r))
  BY <1>2
<1> QED
  BY <1>1, <1>2, <1>3, OneMoves, DictionariesStay, TiersStay

(* A masked text: the items of the message and tokens of its own.          *)
LEMMA MaskedKnows ==
    ASSUME NEW r, NEW q, q = req[r], Masks(q), Staged(q), StageDone(r, "masker")
    PROVE  Knows(Masked(r), q.own) /\ Knows(Drain(Masked(r)), q.own)
<1>1. q.phase = "masker" /\ Len(q.tokens) = Len(q.todo)
  BY DEF StageDone
<1>2. PICK raw, work, tokens : /\ raw = q.raw /\ work = q.work /\ tokens = q.tokens
                               /\ Masked(r) = Rewrite(raw, work, tokens)
  BY DEF Masked
<1>3. raw \in Seq(Raw) /\ IsCutting(work, raw) /\ Len(tokens) = Len(work)
  BY <1>1, <1>2 DEF Staged
<1>4. PICK D : D = DOMAIN q.own /\ tokens \in Seq(D)
  BY <1>2 DEF Masks
<1>5. PICK T : T = Raw \cup D
  OBVIOUS
<1>6. \A k \in DOMAIN work : tokens[k] \in T
  <2>1. PICK S : work \in Seq(S)
    BY <1>3 DEF IsCutting, IsList
  <2>2. DOMAIN work = DOMAIN tokens
    BY <1>3, <1>4, <2>1
  <2> QED
    BY <1>4, <1>5, <2>2
<1>7. PICK u : u = Masked(r) /\ u \in Seq(T)
  <2>1. Raw \subseteq T
    BY <1>5
  <2>2. Rewrite(raw, work, tokens) \in Seq(T)
    BY ONLY <1>3, <1>6, <2>1, RewriteItems
  <2> QED
    BY <1>2, <2>2
<1>8. Known(T, q.own)
  BY <1>4, <1>5, RawAssumption DEF Known
<1>9. PICK W : W = T \cup Written
  OBVIOUS
<1>10. Drain(u) \in Seq(W)
  BY ONLY <1>7, <1>9, DrainItems
<1>11. Known(W, q.own)
  BY <1>8, <1>9, WrittenIsNoToken DEF Known
<1> QED
  BY <1>7, <1>8, <1>10, <1>11 DEF Knows

(* The masked text is put together and its log lines are folded.           *)
LEMMA ClusterFaithful ==
    ASSUME IInv, Faithful, NEW r \in Requests, Cluster(r)
    PROVE  Faithful'
<1>1. StageDone(r, "masker") /\ UNCHANGED <<load, store, due, dict, local, backend>>
  BY DEF Cluster
<1>2. PICK q, n, d, job : q = req[r] /\ n = req'[r] /\ d = dict[q.session] /\ job = Job(r)
  OBVIOUS
<1>3. q.phase # "new" /\ Follows(q, d, job)
  <2>1. req[r].phase # "new"
    BY <1>1 DEF StageDone
  <2> QED
    BY <1>2, <2>1, FollowsNow
<1>4. PICK u : u = Masked(r) /\ Knows(u, q.own) /\ Knows(Drain(u), q.own)
  <2>1. Masks(q) /\ Staged(q)
    BY <1>3 DEF Follows
  <2> QED
    BY <1>1, <1>2, <2>1, MaskedKnows
<1>5. PICK c : Step(r, c) /\ (c = Finished(r, u) \/ c = ToFold(r, Drain(u)))
  <2>1. CASE MaskedOnly(r)
    BY <1>4, <2>1 DEF Cluster
  <2>2. CASE ~ MaskedOnly(r)
    BY <1>4, <2>2 DEF Cluster
  <2> QED
    BY <2>1, <2>2
<1>6. Becomes(n, q, c)
  BY <1>2, <1>5, StepBecomes
<1>7. Follows(n, d, job) /\ n.phase # "new" /\ n.session = q.session
  <2>1. CASE c = Finished(r, u)
    BY <1>2, <1>3, <1>4, <1>6, <2>1, FinishedFollows
  <2>2. CASE c = ToFold(r, Drain(u))
    BY <1>2, <1>3, <1>4, <1>6, <2>2, ToFoldFollows
  <2> QED
    BY <1>5, <2>1, <2>2
<1>8. UNCHANGED <<load, dict, local, backend>>
  BY <1>1
<1> QED
  BY <1>2, <1>3, <1>5, <1>7, <1>8, HandsOn

(* The folded references are put in place.                                 *)
LEMMA FoldFaithful ==
    ASSUME IInv, Faithful, NEW r \in Requests, Fold(r)
    PROVE  Faithful'
<1>1. /\ req[r].phase = "refdict" /\ Len(req[r].tokens) = Len(req[r].todo)
      /\ UNCHANGED <<load, dict, local, backend>>
  BY DEF Fold, StageDone
<1>2. PICK q, n, d, job : q = req[r] /\ n = req'[r] /\ d = dict[q.session] /\ job = Job(r)
  OBVIOUS
<1>3. Follows(q, d, job)
  BY <1>1, <1>2, FollowsNow
<1>4. PICK text, at, tokens, u, c :
        /\ text = q.work /\ at = FoldedAt(text) /\ tokens = q.tokens
        /\ u = Substitute(text, at, tokens) /\ c = ToPrune(r, u) /\ Step(r, c)
  BY <1>2 DEF Fold
<1>5. Masks(q) /\ Staged(q)
  BY <1>3 DEF Follows
<1>6. PICK X : text \in Seq(X) /\ Known(X, q.own)
  BY <1>1, <1>2, <1>4, <1>5 DEF Staged, Knows
<1>7. PICK D : D = DOMAIN q.own /\ tokens \in Seq(D)
  BY <1>4, <1>5 DEF Masks
<1>8. Knows(u, q.own)
  <2>1. PICK T : T = X \cup D
    OBVIOUS
  <2>2. Known(T, q.own)
    BY <1>6, <1>7, <2>1 DEF Known
  <2>3. at \in SUBSET DOMAIN text
    BY <1>4 DEF FoldedAt
  <2>4. Len(tokens) = Cardinality(at)
    BY <1>1, <1>2, <1>4, <1>5 DEF Staged
  <2>5. \A k \in 1..Cardinality(at) : tokens[k] \in T
    BY <1>7, <2>1, <2>4
  <2>6. Substitute(text, at, tokens) \in Seq(T)
    <3>1. X \subseteq T
      BY <2>1
    <3> QED
      BY ONLY <1>6, <2>3, <2>5, <3>1, SubstituteItems
  <2> QED
    BY <1>4, <2>2, <2>6 DEF Knows
<1>9. Becomes(n, q, c)
  BY <1>2, <1>4, StepBecomes
<1>10. Follows(n, d, job) /\ n.phase # "new" /\ n.session = q.session
  BY <1>2, <1>3, <1>4, <1>8, <1>9, ToPruneFollows
<1>11. q.phase # "new"
  BY <1>1, <1>2
<1> QED
  BY <1>1, <1>2, <1>4, <1>10, <1>11, HandsOn

(* The pruned text is finished.                                            *)
LEMMA PruneCodeFaithful ==
    ASSUME IInv, Faithful, NEW r \in Requests, PruneCode(r)
    PROVE  Faithful'
<1>1. req[r].phase = "astprune" /\ UNCHANGED <<load, dict, local, backend>>
  BY DEF PruneCode, StageDone
<1>2. PICK q, n, d, job : q = req[r] /\ n = req'[r] /\ d = dict[q.session] /\ job = Job(r)
  OBVIOUS
<1>3. Follows(q, d, job)
  BY <1>1, <1>2, FollowsNow
<1>4. PICK u, c : u = Prune(q.work) /\ c = Finished(r, u) /\ Step(r, c)
  BY <1>2 DEF PruneCode
<1>5. Knows(u, q.own)
  <2>1. Knows(q.work, q.own)
    BY <1>1, <1>2, <1>3 DEF Follows, Staged
  <2> QED
    BY <1>4, <2>1, PruneKnows
<1>6. Becomes(n, q, c)
  BY <1>2, <1>4, StepBecomes
<1>7. Follows(n, d, job) /\ n.phase = "plan" /\ n.session = q.session
  BY <1>2, <1>3, <1>4, <1>5, <1>6, FinishedFollows
<1>8. q.phase # "new" /\ n.phase # "new"
  BY <1>1, <1>2, <1>7
<1> QED
  BY <1>1, <1>2, <1>4, <1>7, <1>8, HandsOn
-----------------------------------------------------------------------------
(* An entry of the same key, place and content says the same.              *)
LEMMA SaysAlike ==
    ASSUME NEW e, Says(e), NEW x, x.key = e.key, x.from = e.from, x.content = e.content
    PROVE  Says(x)
<1>1. PICK payload : payload = FlattenSeq(e.key[2]) /\ payload = FlattenSeq(x.key[2])
  OBVIOUS
<1> QED
  BY <1>1 DEF Says

(* The entries a cache is left with are those it had, and the one put.     *)
AllSay(c) == \A i \in DOMAIN c : Says(c[i])

(* Without the entries of one key.                                         *)
LEMMA OthersSay ==
    ASSUME NEW c, IsCache(c), AllSay(c), NEW k
    PROVE  AllSay(Others(c, k))
<1>1. PICK S : c \in Seq(S)
  BY DEF IsCache, IsList
<1>2. CASE ~ Holds(c, k)
  BY <1>2 DEF Others
<1>3. CASE Holds(c, k)
  <2>1. PICK i : i = Position(c, k) /\ i \in DOMAIN c
    BY <1>3, StoredIsThere
  <2>2. PICK o : o = RemoveAt(c, i) /\ o = Others(c, k)
    BY <1>3, <2>1 DEF Others
  <2>3. \A j \in DOMAIN o : IF j < i THEN j \in DOMAIN c /\ o[j] = c[j]
                            ELSE j + 1 \in DOMAIN c /\ o[j] = c[j + 1]
    <3>1. \A j \in DOMAIN RemoveAt(c, i) :
                IF j < i THEN j \in DOMAIN c /\ RemoveAt(c, i)[j] = c[j]
                ELSE j + 1 \in DOMAIN c /\ RemoveAt(c, i)[j] = c[j + 1]
      BY <1>1, <2>1, RemovedPlaces
    <3> QED
      BY <2>2, <3>1, Zenon
  <2>4. \A j \in DOMAIN o : Says(o[j])
    BY <2>3 DEF AllSay
  <2> QED
    BY <2>2, <2>4 DEF AllSay
<1> QED
  BY <1>2, <1>3

(* Cut to the limit.                                                       *)
LEMMA FrontSays ==
    ASSUME NEW c, IsCache(c), AllSay(c), NEW e, Says(e)
    PROVE  AllSay(ToFront(c, e))
<1>1. PICK o : o = Others(c, e.key)
  OBVIOUS
<1>2. IsCache(o) /\ AllSay(o)
  BY <1>1, OthersKeep, OthersSay
<1>3. PICK R : o \in Seq(R)
  BY <1>2 DEF IsCache, IsList
<1>4. PICK S : S = R \cup {e}
  OBVIOUS
<1>5. o \in Seq(S) /\ e \in S
  BY <1>3, <1>4
<1>6. PICK f : f = <<e>> \o o
  OBVIOUS
<1>7. f[1] = e /\ \A j \in DOMAIN f : j # 1 => j - 1 \in DOMAIN o /\ f[j] = o[j - 1]
  BY <1>5, <1>6, FrontPlaces
<1>8. \A j \in DOMAIN f : Says(f[j])
  BY <1>2, <1>7 DEF AllSay
<1> QED
  BY <1>1, <1>6, <1>8 DEF AllSay, ToFront

(* What Get returns and what it leaves.                                    *)
LEMMA GetSays ==
    ASSUME NEW c, IsCache(c), AllSay(c), NEW k
    PROVE  /\ AllSay(AfterGet(c, k))
           /\ Hits(c, k) => Says(Stored(c, k)) /\ Stored(c, k).key = k
<1>1. ASSUME Holds(c, k)
      PROVE  Says(Stored(c, k)) /\ Stored(c, k).key = k
  BY <1>1, StoredIsThere DEF AllSay, Stored
<1>2. CASE ~ Enabled \/ ~ Holds(c, k)
  BY <1>2 DEF AfterGet, Hits
<1>3. CASE ~ (~ Enabled \/ ~ Holds(c, k))
  <2>1. PICK e : e = Stored(c, k) /\ Says(e)
    BY <1>1, <1>3
  <2>2. AllSay(ToFront(c, e)) /\ AllSay(Others(c, k))
    BY <2>1, FrontSays, OthersSay
  <2>3. AfterGet(c, k) = IF Fresh(e) THEN ToFront(c, e) ELSE Others(c, k)
    BY <1>3, <2>1 DEF AfterGet
  <2> QED
    BY <1>1, <1>3, <2>2, <2>3
<1> QED
  BY <1>2, <1>3

(* What Put leaves.                                                        *)
LEMMA PutSays ==
    ASSUME NEW c, IsCache(c), AllSay(c), NEW e, IsEntry(e), Says(e)
    PROVE  AllSay(Put(c, e))
<1>1. CASE ~ Enabled \/ e.content = <<>>
  BY <1>1 DEF Put
<1>2. CASE ~ (~ Enabled \/ e.content = <<>>)
  <2>1. PICK x : x = [e EXCEPT !.age = 0]
    OBVIOUS
  <2>2. x.key = e.key /\ x.from = e.from /\ x.content = e.content
    BY <2>1 DEF IsEntry
  <2>3. Says(x)
    BY <2>2, SaysAlike
  <2>4. PICK all : all = ToFront(c, x) /\ AllSay(all)
    BY <2>3, FrontSays
  <2>5. PICK S : all \in Seq(S)
    <3>1. PICK o : o = Others(c, x.key) /\ IsCache(o)
      BY OthersKeep
    <3>2. PICK R : o \in Seq(R)
      BY <3>1 DEF IsCache, IsList
    <3>3. o \in Seq(R \cup {x}) /\ <<x>> \in Seq(R \cup {x})
      BY <3>2
    <3>4. all = <<x>> \o o
      BY <2>4, <3>1 DEF ToFront
    <3>5. all \in Seq(R \cup {x})
      BY <3>3, <3>4
    <3> QED
      BY <3>5
  <2>6. PICK cut : cut = SubSeq(all, 1, IF Len(all) > CacheMax THEN CacheMax ELSE Len(all))
    OBVIOUS
  <2>7. \A j \in DOMAIN cut : j \in DOMAIN all /\ cut[j] = all[j]
    BY <2>5, <2>6, CutPlaces, LimitsAreNumbers
  <2>8. AllSay(cut)
    BY <2>4, <2>7 DEF AllSay
  <2>9. Put(c, e) = cut
    BY <1>2, <2>1, <2>4, <2>6 DEF Put
  <2> QED
    BY <2>8, <2>9
<1> QED
  BY <1>1, <1>2

(* An entry grown older says what it said.                                 *)
LEMMA AgedSays ==
    ASSUME NEW e, IsEntry(e), Says(e), NEW a, NEW b
    PROVE  Says([e EXCEPT !.age = a, !.born = b])
<1>1. PICK x : x = [e EXCEPT !.age = a, !.born = b]
  OBVIOUS
<1>2. x.key = e.key /\ x.from = e.from /\ x.content = e.content
  BY <1>1 DEF IsEntry
<1> QED
  BY <1>1, <1>2, SaysAlike

(* A replica's tier changes into another that says what its keys ask.      *)
LEMMA TierSays ==
    ASSUME Caching, TiersSay(local, backend), NEW p \in Pods, NEW c, AllSay(c),
           local' = [local EXCEPT ![p] = c], UNCHANGED backend
    PROVE  TiersSay(local', backend')
<1>1. \A x \in Pods : local'[x] = IF x = p THEN c ELSE local[x]
  BY DEF Caching
<1>2. ASSUME NEW x \in Pods, NEW i \in DOMAIN local'[x] PROVE Says(local'[x][i])
  <2>1. CASE x = p
    BY <1>1, <1>2, <2>1 DEF AllSay
  <2>2. CASE x # p
    BY <1>1, <1>2, <2>2 DEF TiersSay
  <2> QED
    BY <2>1, <2>2
<1> QED
  BY <1>2 DEF TiersSay
-----------------------------------------------------------------------------
(* The prompt of a request and what its shape makes of it.                 *)
(* The prompt of a request is a text of known items.                       *)
LEMMA PromptFacts ==
    ASSUME NEW q, Masks(q), NEW P, P = FlattenSeq(q.texts),
           NEW Q, Q = FlattenSeq(Shape(q.texts).texts), NEW i \in DOMAIN P, IsToken(P[i])
    PROVE  /\ i \in DOMAIN Q /\ IsToken(Q[i])
           /\ Canonicalise(<<P[i]>>, Shape(q.texts).restore) = <<Q[i]>>
           /\ Restore(<<Q[i]>>, Shape(q.texts).restore) = <<P[i]>>
<1>1. PICK texts, X : texts = q.texts /\ texts \in Seq(Seq(X))
  BY DEF Masks, KnowsAll
<1>2. P = FlattenSeq(texts) /\ Q = FlattenSeq(Shape(texts).texts)
  BY <1>1
<1>3. DOMAIN Q = DOMAIN P
  BY ONLY <1>1, <1>2, ShapePlaces
<1>4. P[i] \in TokensOf(P) /\ Q[i] = Canonical(P, P[i]) /\ IsToken(Q[i])
  BY ONLY <1>1, <1>2, i \in DOMAIN P, IsToken(P[i]), ShapePlaces
<1>5. PICK t : t = P[i] /\ t \in TokensOf(P) /\ Q[i] = Canonical(P, t)
  BY <1>4
<1>6. /\ Canonicalise(<<t>>, Shape(texts).restore) = <<Canonical(P, t)>>
      /\ Restore(<<Canonical(P, t)>>, Shape(texts).restore) = <<t>>
  BY ONLY <1>1, <1>2, <1>5, OneRoundTrip
<1> QED
  BY <1>1, <1>3, <1>4, <1>5, <1>6

(* An answer's place, or none.                                             *)
LEMMA PlacesArePositive ==
    ASSUME NEW q, Masks(q), NEW P, P = FlattenSeq(q.texts)
    PROVE  /\ P \in Seq({P[i] : i \in DOMAIN P}) /\ 0 \notin DOMAIN P
           /\ \A i \in DOMAIN P : IsToken(P[i]) => P[i] \in DOMAIN q.own
<1>1. PICK texts, X : texts = q.texts /\ texts \in Seq(Seq(X)) /\ Known(X, q.own)
  BY DEF Masks, KnowsAll
<1>2. P \in Seq(X)
  BY <1>1, FlattenIsSeq
<1>3. DOMAIN P = 1..Len(P) /\ Len(P) \in Nat /\ \A i \in DOMAIN P : P[i] \in X
  BY <1>2
<1>4. P \in Seq({P[i] : i \in DOMAIN P})
  BY <1>2, <1>3
<1> QED
  BY <1>1, <1>3, <1>4 DEF Known

(* An entry of the request's key, in the request's own tokens, says an     *)
(* item of its prompt.                                                     *)
LEMMA EntryAnswers ==
    ASSUME NEW q, Masks(q), NEW e, Says(e), NEW job,
           e.key = Key(job.model, Shape(q.texts).texts, job.settings),
           NEW P, P = FlattenSeq(q.texts), NEW a, a = Restore(e.content, Shape(q.texts).restore)
    PROVE  \/ e.from = 0 /\ a = <<>>
           \/ e.from \in DOMAIN P /\ IsToken(P[e.from]) /\ a = <<P[e.from]>>
<1>1. PICK Q, from, content, key :
        /\ key = e.key /\ from = e.from /\ content = e.content
        /\ Q = FlattenSeq(Shape(q.texts).texts)
  OBVIOUS
<1>2. key[2] = Shape(q.texts).texts
  BY <1>1 DEF Key
<1>3. \/ from = 0 /\ content = <<>>
      \/ from \in DOMAIN Q /\ IsToken(Q[from]) /\ content = <<Q[from]>>
  <2>1. Q = FlattenSeq(e.key[2])
    BY <1>1, <1>2
  <2> QED
    BY <1>1, <2>1 DEF Says
<1>4. CASE from = 0 /\ content = <<>>
  BY <1>1, <1>4, RestoreNone
<1>5. CASE from \in DOMAIN Q /\ IsToken(Q[from]) /\ content = <<Q[from]>>
  <2>1. PICK texts, X : texts = q.texts /\ texts \in Seq(Seq(X))
    BY DEF Masks, KnowsAll
  <2>2. P = FlattenSeq(texts) /\ Q = FlattenSeq(Shape(texts).texts)
    BY <1>1, <2>1
  <2>3. DOMAIN Q = DOMAIN P
    BY ONLY <2>1, <2>2, ShapePlaces
  <2>4. from \in DOMAIN P
    BY <1>5, <2>3
  <2>5. IsToken(P[from])
    BY ONLY <1>5, <2>1, <2>2, <2>4, ShapePlaces
  <2>6. Restore(<<Q[from]>>, Shape(q.texts).restore) = <<P[from]>>
    <3>1. P[from] \in TokensOf(P) /\ Q[from] = Canonical(P, P[from])
      BY ONLY <2>1, <2>2, <2>4, <2>5, ShapePlaces
    <3>2. PICK t : t = P[from] /\ t \in TokensOf(P) /\ Q[from] = Canonical(P, t)
      BY <3>1
    <3>3. /\ Canonicalise(<<t>>, Shape(texts).restore) = <<Canonical(P, t)>>
          /\ Restore(<<Canonical(P, t)>>, Shape(texts).restore) = <<t>>
      BY ONLY <2>1, <2>2, <3>2, OneRoundTrip
    <3> QED
      BY <2>1, <3>2, <3>3
  <2> QED
    BY <1>1, <1>5, <2>4, <2>5, <2>6
<1> QED
  BY <1>3, <1>4, <1>5

(* A hit is served in the request's own tokens; a miss goes on.            *)
LEMMA LookFaithful ==
    ASSUME IInv, Faithful, NEW r \in Requests, Look(r)
    PROVE  Faithful'
<1>1. req[r].phase = "plan" /\ UNCHANGED <<load, store, due, idle, dict, backend>>
  BY DEF Look
<1>2. PICK q, n, d, job, p : /\ q = req[r] /\ n = req'[r] /\ d = dict[q.session]
                             /\ job = Job(r) /\ p = Pod(r)
  OBVIOUS
<1>3. Follows(q, d, job) /\ q.session \in Sessions /\ p \in Pods
  <2>1. Follows(q, d, job) /\ q.session \in Sessions /\ r \in Active
    BY <1>1, <1>2, FollowsNow
  <2> QED
    BY <1>2, <2>1, ActiveJob
<1>4. Masks(q) /\ Owns(q, d)
  BY <1>3 DEF Follows
<1>5. PICK restore, key, l :
        /\ l = local[p] /\ restore = Shape(q.texts).restore
        /\ key = Key(job.model, Shape(q.texts).texts, job.settings)
        /\ local' = [local EXCEPT ![p] = AfterGet(l, key)]
        /\ IF Hits(l, key)
           THEN Step(r, [phase |-> "deliver", age |-> Stored(l, key).born,
                         from |-> Stored(l, key).from,
                         answer |-> Restore(Stored(l, key).content, restore),
                         restore |-> restore, key |-> key])
           ELSE Step(r, [phase |-> IF SharedTTL > 0 THEN "fetch" ELSE "ask",
                         restore |-> restore, key |-> key])
  BY <1>2 DEF Look
<1>6. IsCache(l) /\ AllSay(l) /\ Caching /\ TiersSay(local, backend)
  BY <1>3, <1>5 DEF IInv, Caching, Faithful, TiersSay, AllSay
<1>7. AllSay(AfterGet(l, key)) /\ (Hits(l, key) => Says(Stored(l, key)) /\ Stored(l, key).key = key)
  BY ONLY <1>6, GetSays
<1>8. TiersSay(local', backend')
  <2>1. UNCHANGED backend
    BY <1>1
  <2> QED
    BY <1>3, <1>5, <1>6, <1>7, <2>1, TierSays
<1>9. CASE Hits(l, key)
  <2>1. PICK e, from, age, answer, c :
          /\ e = Stored(l, key) /\ from = e.from /\ age = e.born
          /\ answer = Restore(e.content, restore)
          /\ c = [phase |-> "deliver", age |-> age, from |-> from, answer |-> answer,
                  restore |-> restore, key |-> key]
          /\ Step(r, c)
    BY <1>5, <1>9
  <2>2. /\ DOMAIN c = {"phase", "age", "from", "answer", "restore", "key"}
        /\ c["phase"] = "deliver" /\ c["from"] = from /\ c["answer"] = answer
    BY <2>1
  <2>3. Becomes(n, q, c)
    BY <1>2, <2>1, StepBecomes
  <2>4. /\ n.phase = "deliver" /\ n.from = from /\ n.answer = answer
        /\ n.texts = q.texts /\ n.own = q.own /\ n.session = q.session
        /\ n.todo = q.todo /\ n.tokens = q.tokens /\ n.at = q.at
    BY <2>2, <2>3, FieldsAre DEF Becomes
  <2>5. PICK P : P = FlattenSeq(q.texts)
    OBVIOUS
  <2>6. \/ from = 0 /\ answer = <<>>
        \/ from \in DOMAIN P /\ IsToken(P[from]) /\ answer = <<P[from]>>
    <3>1. Says(e) /\ e.key = Key(job.model, Shape(q.texts).texts, job.settings)
      BY <1>5, <1>7, <1>9, <2>1
    <3>2. answer = Restore(e.content, Shape(q.texts).restore)
      BY <1>5, <2>1
    <3>3. \/ e.from = 0 /\ answer = <<>>
          \/ e.from \in DOMAIN P /\ IsToken(P[e.from]) /\ answer = <<P[e.from]>>
      BY ONLY <1>4, <2>5, <3>1, <3>2, EntryAnswers
    <3> QED
      BY <2>1, <3>3
  <2>7. Answered(n)
    BY <2>4, <2>5, <2>6 DEF Answered
  <2>8. Masks(n) /\ Owns(n, d)
    BY <1>4, <2>4 DEF Masks, Owns
  <2>9. Staged(n) /\ Asked(n, job) /\ Delivered(n)
    BY <2>4 DEF Staged, Asked, Delivered
  <2>10. Follows(n, dict'[n.session], job) /\ n.phase # "new"
    BY <1>1, <1>2, <2>4, <2>7, <2>8, <2>9 DEF Follows
  <2>11. UNCHANGED dict /\ UNCHANGED load
    BY <1>1
  <2> QED
    BY <1>2, <1>3, <1>8, <2>1, <2>4, <2>10, <2>11, OneMoves, DictionariesStay
<1>10. CASE ~ Hits(l, key)
  <2>1. PICK phase, c :
          /\ phase = (IF SharedTTL > 0 THEN "fetch" ELSE "ask")
          /\ c = [phase |-> phase, restore |-> restore, key |-> key]
          /\ Step(r, c)
    BY <1>5, <1>10
  <2>2. /\ DOMAIN c = {"phase", "restore", "key"}
        /\ c["phase"] = phase /\ c["restore"] = restore /\ c["key"] = key
        /\ phase \in {"fetch", "ask"}
    BY <2>1
  <2>3. Becomes(n, q, c)
    BY <1>2, <2>1, StepBecomes
  <2>4. /\ n.phase = phase /\ n.restore = restore /\ n.key = key
        /\ n.texts = q.texts /\ n.own = q.own /\ n.session = q.session
        /\ n.todo = q.todo /\ n.tokens = q.tokens /\ n.at = q.at
    BY <2>2, <2>3, FieldsAre DEF Becomes
  <2>5. Masks(n) /\ Owns(n, d)
    BY <1>4, <2>4 DEF Masks, Owns
  <2>6. Asked(n, job)
    BY <1>5, <2>2, <2>4 DEF Asked
  <2>7. Staged(n) /\ Answered(n) /\ Delivered(n)
    BY <2>2, <2>4 DEF Staged, Answered, Delivered
  <2>8. Follows(n, dict'[n.session], job) /\ n.phase # "new"
    BY <1>1, <1>2, <2>2, <2>4, <2>5, <2>6, <2>7 DEF Follows
  <2>9. UNCHANGED dict /\ UNCHANGED load
    BY <1>1
  <2> QED
    BY <1>2, <1>3, <1>8, <2>1, <2>4, <2>8, <2>9, OneMoves, DictionariesStay
<1> QED
  BY <1>9, <1>10
-----------------------------------------------------------------------------
(* The same for the shared tier.                                           *)
LEMMA FetchFaithful ==
    ASSUME IInv, Faithful, NEW r \in Requests, Fetch(r)
    PROVE  Faithful'
<1>1. req[r].phase = "fetch" /\ UNCHANGED <<load, dict, local, backend>>
  BY DEF Fetch
<1>2. PICK q, n, d, job : q = req[r] /\ n = req'[r] /\ d = dict[q.session] /\ job = Job(r)
  OBVIOUS
<1>3. Follows(q, d, job) /\ q.phase # "new" /\ q.phase = "fetch"
  BY <1>1, <1>2, FollowsNow
<1>4. PICK phase, got, c :
        /\ Step(r, c)
        /\ \/ phase = "ask" /\ got = q.got /\ c = [phase |-> phase]
           \/ /\ phase = "promote" /\ got \in backend /\ got.key = q.key
              /\ c = [phase |-> phase, got |-> got]
  BY <1>2 DEF Fetch
<1>5. c["phase"] = phase /\ "phase" \in DOMAIN c /\ DOMAIN c \subseteq {"phase", "got"}
      /\ ("got" \in DOMAIN c => c["got"] = got) /\ ("got" \notin DOMAIN c => got = q.got)
  BY <1>4
<1>6. Becomes(n, q, c)
  BY <1>2, <1>4, StepBecomes
<1>7. /\ n.phase = phase /\ n.got = got /\ n.restore = q.restore /\ n.key = q.key
      /\ n.texts = q.texts /\ n.own = q.own /\ n.session = q.session
      /\ n.todo = q.todo /\ n.tokens = q.tokens /\ n.at = q.at
  BY <1>5, <1>6, FieldsAre DEF Becomes
<1>8. Masks(n) /\ Owns(n, d)
  BY <1>3, <1>7 DEF Follows, Masks, Owns
<1>9. Asked(n, job)
  <2>1. /\ q.restore = Shape(q.texts).restore
        /\ q.key = Key(job.model, Shape(q.texts).texts, job.settings)
    BY <1>3 DEF Follows, Asked
  <2>2. phase = "promote" => got.key = q.key /\ Says(got)
    BY <1>4 DEF Faithful, TiersSay
  <2>3. phase # "publish"
    BY <1>4
  <2> QED
    BY <1>7, <2>1, <2>2, <2>3 DEF Asked
<1>10. Staged(n) /\ Answered(n) /\ Delivered(n) /\ n.phase # "new"
  BY <1>4, <1>7 DEF Staged, Answered, Delivered
<1>11. Follows(n, d, job)
  BY <1>8, <1>9, <1>10 DEF Follows
<1> QED
  BY <1>1, <1>2, <1>3, <1>4, <1>7, <1>10, <1>11, HandsOn

(* What is promoted says what its key asks.                                *)
LEMMA PromoteFaithful ==
    ASSUME IInv, Faithful, NEW r \in Requests, Promote(r)
    PROVE  Faithful'
<1>1. req[r].phase = "promote" /\ UNCHANGED <<load, store, due, idle, dict, backend>>
  BY DEF Promote
<1>2. PICK q, n, d, job, p : /\ q = req[r] /\ n = req'[r] /\ d = dict[q.session]
                             /\ job = Job(r) /\ p = Pod(r)
  OBVIOUS
<1>3. Follows(q, d, job) /\ q.session \in Sessions /\ p \in Pods /\ q.phase = "promote"
  <2>1. Follows(q, d, job) /\ q.session \in Sessions /\ r \in Active
    BY <1>1, <1>2, FollowsNow
  <2> QED
    BY <1>1, <1>2, <2>1, ActiveJob
<1>4. Masks(q) /\ Owns(q, d) /\ Asked(q, job)
  BY <1>3 DEF Follows
<1>5. PICK e, l, from, age, answer, none, c :
        /\ e = q.got /\ l = local[p] /\ local' = [local EXCEPT ![p] = Put(l, e)]
        /\ from = e.from /\ age = e.born /\ answer = Restore(e.content, q.restore)
        /\ c = [phase |-> "deliver", age |-> age, from |-> from, got |-> none,
                answer |-> answer]
        /\ Step(r, c)
  BY <1>2 DEF Promote
<1>6. Says(e) /\ IsEntry(e) /\ q.restore = Shape(q.texts).restore
      /\ e.key = Key(job.model, Shape(q.texts).texts, job.settings)
  <2>1. HoldsEntry(q)
    BY <1>2 DEF IInv, Requesting
  <2> QED
    BY <1>3, <1>4, <1>5, <2>1 DEF Asked, HoldsEntry
<1>7. IsCache(l) /\ AllSay(l) /\ Caching /\ TiersSay(local, backend)
  BY <1>3, <1>5 DEF IInv, Caching, Faithful, TiersSay, AllSay
<1>8. TiersSay(local', backend')
  <2>1. AllSay(Put(l, e))
    BY <1>6, <1>7, PutSays
  <2>2. UNCHANGED backend
    BY <1>1
  <2> QED
    BY <1>3, <1>5, <1>7, <2>1, <2>2, TierSays
<1>9. /\ DOMAIN c = {"phase", "age", "from", "answer", "got"}
      /\ c["phase"] = "deliver" /\ c["from"] = from /\ c["answer"] = answer
  BY <1>5
<1>10. Becomes(n, q, c)
  BY <1>2, <1>5, StepBecomes
<1>11. /\ n.phase = "deliver" /\ n.from = from /\ n.answer = answer
       /\ n.texts = q.texts /\ n.own = q.own /\ n.session = q.session
       /\ n.todo = q.todo /\ n.tokens = q.tokens /\ n.at = q.at
  BY <1>9, <1>10, FieldsAre DEF Becomes
<1>12. PICK P : P = FlattenSeq(q.texts)
  OBVIOUS
<1>13. \/ from = 0 /\ answer = <<>>
       \/ from \in DOMAIN P /\ IsToken(P[from]) /\ answer = <<P[from]>>
  <2>1. answer = Restore(e.content, Shape(q.texts).restore)
    BY <1>5, <1>6
  <2>2. \/ e.from = 0 /\ answer = <<>>
        \/ e.from \in DOMAIN P /\ IsToken(P[e.from]) /\ answer = <<P[e.from]>>
    BY ONLY <1>4, <1>6, <1>12, <2>1, EntryAnswers
  <2> QED
    BY <1>5, <2>2
<1>14. Answered(n)
  BY <1>11, <1>12, <1>13 DEF Answered
<1>15. Masks(n) /\ Owns(n, d)
  BY <1>4, <1>11 DEF Masks, Owns
<1>16. Staged(n) /\ Asked(n, job) /\ Delivered(n)
  BY <1>11 DEF Staged, Asked, Delivered
<1>17. Follows(n, dict'[n.session], job) /\ n.phase # "new"
  BY <1>1, <1>2, <1>11, <1>14, <1>15, <1>16 DEF Follows
<1>18. UNCHANGED dict /\ UNCHANGED load
  BY <1>1
<1> QED
  BY <1>2, <1>3, <1>5, <1>8, <1>11, <1>17, <1>18, OneMoves, DictionariesStay

(* The model recites an item of the payload it is sent.                    *)
LEMMA AnswerFaithful ==
    ASSUME IInv, Faithful, NEW r \in Requests, Answer(r)
    PROVE  Faithful'
<1>1. req[r].phase = "ask" /\ UNCHANGED <<load, store, due, idle, dict, backend>>
  BY DEF Answer
<1>2. PICK q, n, d, job, p, P : /\ q = req[r] /\ n = req'[r] /\ d = dict[q.session]
                                /\ job = Job(r) /\ p = Pod(r) /\ P = FlattenSeq(q.texts)
  OBVIOUS
<1>3. Follows(q, d, job) /\ q.session \in Sessions /\ p \in Pods /\ q.phase = "ask"
  <2>1. Follows(q, d, job) /\ q.session \in Sessions /\ r \in Active
    BY <1>1, <1>2, FollowsNow
  <2> QED
    BY <1>1, <1>2, <2>1, ActiveJob
<1>4. Masks(q) /\ Owns(q, d) /\ Asked(q, job)
  BY <1>3 DEF Follows
<1>5. PICK i, drawn, content, e, l, phase, got, c :
        /\ i \in AnswersOf(r) /\ drawn = Drawn(r, i)
        /\ content = Canonicalise(drawn, q.restore)
        /\ e = [key |-> q.key, age |-> 0, born |-> 0, from |-> i, content |-> content]
        /\ l = local[p] /\ local' = [local EXCEPT ![p] = Put(l, e)]
        /\ phase = (IF SharedTTL > 0 THEN "publish" ELSE "deliver")
        /\ got = (IF SharedTTL > 0 THEN e ELSE NoAnswer)
        /\ c = [answer |-> drawn, from |-> i, phase |-> phase, got |-> got]
        /\ Step(r, c)
  BY <1>2 DEF Answer
<1>6. /\ e.key = q.key /\ e.from = i /\ e.content = content /\ IsEntry(e)
      /\ q.restore = Shape(q.texts).restore
      /\ q.key = Key(job.model, Shape(q.texts).texts, job.settings)
  BY <1>3, <1>4, <1>5 DEF Asked, IsEntry
<1>7. \/ i = 0 /\ drawn = <<>>
      \/ i \in DOMAIN P /\ IsToken(P[i]) /\ drawn = <<P[i]>>
  <2>1. 0 \notin DOMAIN P
    BY <1>2, <1>4, PlacesArePositive
  <2>2. Prompt(r) = P
    BY <1>2 DEF Prompt
  <2> QED
    BY <1>5, <2>1, <2>2 DEF AnswersOf, Drawn
<1>8. Says(e)
  <2>1. PICK key, Q : /\ key = e.key /\ Q = FlattenSeq(key[2])
                      /\ Q = FlattenSeq(Shape(q.texts).texts)
    BY <1>6 DEF Key
  <2>2. CASE i = 0 /\ drawn = <<>>
    <3>1. content = <<>>
      BY <1>5, <2>2, RestoreNone
    <3> QED
      BY <1>6, <2>2, <3>1 DEF Says
  <2>3. CASE i \in DOMAIN P /\ IsToken(P[i]) /\ drawn = <<P[i]>>
    <3>1. /\ i \in DOMAIN Q /\ IsToken(Q[i])
          /\ Canonicalise(<<P[i]>>, Shape(q.texts).restore) = <<Q[i]>>
          /\ Restore(<<Q[i]>>, Shape(q.texts).restore) = <<P[i]>>
      BY ONLY <1>2, <1>4, <2>1, <2>3, PromptFacts
    <3>2. content = <<Q[i]>>
      BY <1>5, <1>6, <2>3, <3>1
    <3>3. Q = FlattenSeq(e.key[2])
      BY <2>1
    <3> QED
      BY <1>6, <3>1, <3>2, <3>3 DEF Says
  <2> QED
    BY <1>7, <2>2, <2>3
<1>9. IsCache(l) /\ AllSay(l) /\ Caching /\ TiersSay(local, backend)
  BY <1>3, <1>5 DEF IInv, Caching, Faithful, TiersSay, AllSay
<1>10. TiersSay(local', backend')
  <2>1. AllSay(Put(l, e))
    BY <1>6, <1>8, <1>9, PutSays
  <2>2. UNCHANGED backend
    BY <1>1
  <2> QED
    BY <1>3, <1>5, <1>9, <2>1, <2>2, TierSays
<1>11. /\ DOMAIN c = {"answer", "from", "phase", "got"}
       /\ c["phase"] = phase /\ c["from"] = i /\ c["answer"] = drawn /\ c["got"] = got
  BY <1>5
<1>12. Becomes(n, q, c)
  BY <1>2, <1>5, StepBecomes
<1>13. /\ n.phase = phase /\ n.from = i /\ n.answer = drawn /\ n.got = got
       /\ n.restore = q.restore /\ n.key = q.key
       /\ n.texts = q.texts /\ n.own = q.own /\ n.session = q.session
       /\ n.todo = q.todo /\ n.tokens = q.tokens /\ n.at = q.at
  BY <1>11, <1>12, FieldsAre DEF Becomes
<1>14. phase \in {"publish", "deliver"} /\ (phase = "publish" => got = e)
  BY <1>5
<1>15. Answered(n)
  BY <1>2, <1>7, <1>13 DEF Answered
<1>16. Asked(n, job)
  BY <1>6, <1>8, <1>13, <1>14 DEF Asked
<1>17. Masks(n) /\ Owns(n, d)
  BY <1>4, <1>13 DEF Masks, Owns
<1>18. Staged(n) /\ Delivered(n)
  BY <1>13, <1>14 DEF Staged, Delivered
<1>19. Follows(n, dict'[n.session], job) /\ n.phase # "new"
  BY <1>1, <1>2, <1>13, <1>14, <1>15, <1>16, <1>17, <1>18 DEF Follows
<1>20. UNCHANGED dict /\ UNCHANGED load
  BY <1>1
<1> QED
  BY <1>2, <1>3, <1>5, <1>10, <1>13, <1>19, <1>20, OneMoves, DictionariesStay

(* What is published is the answer in the names of the payload.            *)
LEMMA PublishFaithful ==
    ASSUME IInv, Faithful, NEW r \in Requests, Publish(r)
    PROVE  Faithful'
<1>1. req[r].phase = "publish" /\ UNCHANGED <<load, store, due, idle, dict, local>>
  BY DEF Publish
<1>2. PICK q, n, d, job : q = req[r] /\ n = req'[r] /\ d = dict[q.session] /\ job = Job(r)
  OBVIOUS
<1>3. Follows(q, d, job) /\ q.session \in Sessions /\ q.phase = "publish"
  BY <1>1, <1>2, FollowsNow
<1>4. PICK none, c : c = [phase |-> "deliver", got |-> none] /\ Step(r, c)
  BY DEF Publish
<1>5. DOMAIN c = {"phase", "got"} /\ c["phase"] = "deliver"
  BY <1>4
<1>6. Becomes(n, q, c)
  BY <1>2, <1>4, StepBecomes
<1>7. /\ n.phase = "deliver" /\ n.from = q.from /\ n.answer = q.answer
      /\ n.texts = q.texts /\ n.own = q.own /\ n.session = q.session
      /\ n.todo = q.todo /\ n.tokens = q.tokens /\ n.at = q.at
  BY <1>5, <1>6, FieldsAre DEF Becomes
<1>8. Masks(n) /\ Owns(n, d)
  BY <1>3, <1>7 DEF Follows, Masks, Owns
<1>9. Answered(n)
  BY <1>3, <1>7 DEF Follows, Answered
<1>10. Staged(n) /\ Asked(n, job) /\ Delivered(n)
  BY <1>7 DEF Staged, Asked, Delivered
<1>11. Follows(n, dict'[n.session], job) /\ n.phase # "new"
  BY <1>1, <1>2, <1>7, <1>8, <1>9, <1>10 DEF Follows
<1>12. TiersSay(local', backend')
  <2>1. Says(q.got)
    BY <1>3 DEF Follows, Asked
  <2>2. backend' \subseteq backend \cup {q.got}
    BY <1>2 DEF Publish
  <2> QED
    BY <1>1, <2>1, <2>2 DEF Faithful, TiersSay
<1>13. UNCHANGED dict /\ UNCHANGED load
  BY <1>1
<1> QED
  BY <1>2, <1>3, <1>4, <1>7, <1>11, <1>12, <1>13, OneMoves, DictionariesStay

(* The answer is hydrated from the session's dictionary.                   *)
LEMMA DeliverFaithful ==
    ASSUME IInv, Faithful, NEW r \in Requests, Deliver(r)
    PROVE  Faithful'
<1>1. req[r].phase = "deliver" /\ UNCHANGED <<load, dict, local, backend>>
  BY DEF Deliver
<1>2. PICK q, n, d, job, P : /\ q = req[r] /\ n = req'[r] /\ d = dict[q.session]
                             /\ job = Job(r) /\ P = FlattenSeq(q.texts)
  OBVIOUS
<1>3. Follows(q, d, job) /\ q.phase = "deliver"
  BY <1>1, <1>2, FollowsNow
<1>4. PICK text, c : /\ text = Hydrate(d, q.answer)
                     /\ c = [phase |-> "done", delivered |-> text] /\ Step(r, c)
  BY <1>2 DEF Deliver
<1>5. DOMAIN c = {"phase", "delivered"} /\ c["phase"] = "done" /\ c["delivered"] = text
  BY <1>4
<1>6. Becomes(n, q, c)
  BY <1>2, <1>4, StepBecomes
<1>7. /\ n.phase = "done" /\ n.delivered = text /\ n.from = q.from /\ n.answer = q.answer
      /\ n.texts = q.texts /\ n.own = q.own /\ n.session = q.session
      /\ n.todo = q.todo /\ n.tokens = q.tokens /\ n.at = q.at
  BY <1>5, <1>6, FieldsAre DEF Becomes
<1>8. Masks(q) /\ Owns(q, d) /\ Answered(q)
  BY <1>3 DEF Follows
<1>9. Masks(n) /\ Owns(n, d) /\ Answered(n)
  BY <1>3, <1>7, <1>8 DEF Masks, Owns, Answered
<1>10. Delivered(n)
  <2>1. PICK a, own : a = q.answer /\ own = q.own
    OBVIOUS
  <2>2. \A i \in DOMAIN a : a[i] \in DOMAIN own
    <3>1. \/ a = <<>>
          \/ q.from \in DOMAIN P /\ IsToken(P[q.from]) /\ a = <<P[q.from]>>
      BY <1>2, <1>3, <1>8, <2>1 DEF Answered
    <3>2. CASE a = <<>>
      <4>1. DOMAIN a = {}
        BY <3>2
      <4> QED
        BY <4>1
    <3>3. CASE q.from \in DOMAIN P /\ IsToken(P[q.from]) /\ a = <<P[q.from]>>
      <4>1. P[q.from] \in DOMAIN q.own
        BY <1>2, <1>8, <3>3, PlacesArePositive
      <4>2. \A i \in DOMAIN a : a[i] = P[q.from]
        BY <3>3
      <4> QED
        BY <2>1, <4>1, <4>2
    <3> QED
      BY <3>1, <3>2, <3>3
  <2>3. \A i \in DOMAIN a : a[i] \in DOMAIN d.reverse /\ d.reverse[a[i]] = own[a[i]]
    BY <1>8, <2>1, <2>2 DEF Owns
  <2>4. [i \in DOMAIN a |-> IF a[i] \in DOMAIN d.reverse THEN d.reverse[a[i]] ELSE <<a[i]>>]
        = [i \in DOMAIN a |-> IF a[i] \in DOMAIN own THEN own[a[i]] ELSE <<a[i]>>]
    BY <2>2, <2>3
  <2>5. Hydrate(d, a) = Meaning(a, own)
    BY <2>4 DEF Hydrate, Meaning
  <2> QED
    BY <1>4, <1>7, <2>1, <2>5 DEF Delivered
<1>11. Staged(n) /\ Asked(n, job)
  BY <1>7 DEF Staged, Asked
<1>12. Follows(n, d, job) /\ n.phase # "new" /\ q.phase # "new"
  BY <1>3, <1>7, <1>9, <1>10, <1>11 DEF Follows
<1> QED
  BY <1>1, <1>2, <1>4, <1>7, <1>12, HandsOn
-----------------------------------------------------------------------------
(* The steps no request takes.                                             *)
LEMMA NoneMoves ==
    ASSUME Faithful, UNCHANGED <<load, dict, req>>, TiersSay(local', backend')
    PROVE  Faithful'
  BY DEF Faithful, Job

(* A reload empties one replica's tier.                                    *)
LEMMA PurgeFaithful ==
    ASSUME IInv, Faithful, NEW p \in Pods, Purge(p)
    PROVE  Faithful'
<1>1. /\ UNCHANGED <<load, dict, backend, req>>
      /\ local' = [local EXCEPT ![p] = <<>>]
  BY DEF Purge
<1>2. AllSay(<<>>)
  <2>1. DOMAIN <<>> = {}
    OBVIOUS
  <2> QED
    BY <2>1 DEF AllSay
<1>3. Caching /\ TiersSay(local, backend)
  BY DEF IInv, Faithful
<1>4. TiersSay(local', backend')
  BY <1>1, <1>2, <1>3, TierSays
<1> QED
  BY <1>1, <1>4, NoneMoves

(* Time makes entries older and drops some, and nothing else.              *)
LEMMA TickFaithful ==
    ASSUME IInv, Faithful, Tick
    PROVE  Faithful'
<1>1. /\ UNCHANGED <<load, dict, req>>
      /\ local' = [p \in Pods |-> [i \in DOMAIN local[p] |->
                      [local[p][i] EXCEPT !.age = Older(@, AgeCap), !.born = Older(@, BornCap)]]]
      /\ backend' = {[e EXCEPT !.age = @ + 1, !.born = Older(@, BornCap)] :
                         e \in {e \in backend : e.age < SharedTTL}}
  BY DEF Tick
<1>2. ASSUME NEW p \in Pods, NEW i \in DOMAIN local'[p] PROVE Says(local'[p][i])
  <2>1. PICK e : e = local[p][i] /\ i \in DOMAIN local[p]
    BY <1>1, <1>2
  <2>2. local'[p][i] = [e EXCEPT !.age = Older(e.age, AgeCap), !.born = Older(e.born, BornCap)]
    BY <1>1, <2>1
  <2>3. IsEntry(e) /\ Says(e)
    BY <2>1 DEF IInv, Caching, IsCache, Faithful, TiersSay
  <2>4. PICK x, a, b : /\ x = local'[p][i] /\ a = Older(e.age, AgeCap)
                       /\ b = Older(e.born, BornCap)
    OBVIOUS
  <2>5. Says([e EXCEPT !.age = a, !.born = b])
    BY <2>3, AgedSays
  <2> QED
    BY <2>2, <2>4, <2>5
<1>3. ASSUME NEW x \in backend' PROVE Says(x)
  <2>1. PICK e \in backend :
           x = [e EXCEPT !.age = e.age + 1, !.born = Older(e.born, BornCap)]
    BY <1>1, <1>3
  <2>2. IsEntry(e) /\ Says(e)
    BY DEF IInv, Caching, IsBackend, Faithful, TiersSay
  <2> QED
    BY <2>1, <2>2, AgedSays
<1>4. TiersSay(local', backend')
  BY <1>2, <1>3 DEF TiersSay
<1> QED
  BY <1>1, <1>4, NoneMoves

(* No step breaks it.                                                      *)
LEMMA FaithfulStays == IInv /\ Faithful /\ [Next]_vars => Faithful'
<1> SUFFICES ASSUME IInv, Faithful, [Next]_vars PROVE Faithful'
  OBVIOUS
<1>1. ASSUME NEW r \in Requests, \/ Open(r) \/ Find(r) \/ MaskNext(r) \/ Cluster(r)
                                \/ Fold(r) \/ PruneCode(r) \/ Look(r) \/ Fetch(r)
                                \/ Promote(r) \/ Answer(r) \/ Publish(r) \/ Deliver(r)
      PROVE  Faithful'
  BY <1>1, OpenFaithful, FindFaithful, MaskNextFaithful, ClusterFaithful, FoldFaithful,
     PruneCodeFaithful, LookFaithful, FetchFaithful, PromoteFaithful, AnswerFaithful,
     PublishFaithful, DeliverFaithful
<1>2. ASSUME NEW p \in Pods, Purge(p) PROVE Faithful'
  BY <1>2, PurgeFaithful
<1>3. CASE Sweep
  <2>1. UNCHANGED <<load, dict, req>> /\ UNCHANGED <<local, backend>>
    BY <1>3 DEF Sweep
  <2> QED
    BY <2>1, TiersStay, NoneMoves
<1>4. CASE Tick
  BY <1>4, TickFaithful
<1>5. CASE UNCHANGED vars
  <2>1. UNCHANGED <<load, dict, req>> /\ UNCHANGED <<local, backend>>
    BY <1>5 DEF vars
  <2> QED
    BY <2>1, TiersStay, NoneMoves
<1> QED
  BY <1>1, <1>2, <1>3, <1>4, <1>5 DEF Next

(* So it always holds.                                                     *)
LEMMA FaithfulAlways == Spec => [](IInv /\ Faithful)
<1>1. Init => IInv /\ Faithful
  BY Initially, FaithfulFirst
<1>2. (IInv /\ Faithful) /\ [Next]_vars => (IInv /\ Faithful)'
  BY Preserved, FaithfulStays
<1> QED
  BY <1>1, <1>2, PTL DEF Spec

(* Masking a message and hydrating it gives the message back.              *)
LEMMA FaithfulMasks == IInv /\ Faithful => MaskRoundTrip
<1> SUFFICES ASSUME IInv, Faithful, NEW r \in Requests, StageDone(r, "masker")
             PROVE  Hydrate(dict[req[r].session], Masked(r)) = req[r].raw
  BY DEF MaskRoundTrip
<1>1. PICK q, d, raw, work, tokens : /\ q = req[r] /\ d = dict[q.session]
                                     /\ raw = q.raw /\ work = q.work /\ tokens = q.tokens
                                     /\ Masked(r) = Rewrite(raw, work, tokens)
  BY DEF Masked
<1>2. q.phase = "masker" /\ Len(tokens) = Len(q.todo)
  BY <1>1 DEF StageDone
<1>3. Follows(q, d, Job(r)) /\ Coined(d)
  BY <1>1, <1>2, FollowsNow
<1>4. /\ raw \in Seq(Raw) /\ IsCutting(work, raw) /\ Len(tokens) = Len(work)
      /\ \A k \in DOMAIN work : q.todo[k].value = work[k].text
      /\ \A k \in DOMAIN tokens : q.own[tokens[k]] = q.todo[k].value
      /\ tokens \in Seq(DOMAIN q.own)
      /\ \A t \in DOMAIN q.own : t \in DOMAIN d.reverse /\ d.reverse[t] = q.own[t]
  BY <1>1, <1>2, <1>3 DEF Follows, Staged, Masks, Owns
<1>5. DOMAIN work = DOMAIN tokens /\ \A k \in DOMAIN tokens : tokens[k] \in DOMAIN q.own
  <2>1. PICK S : work \in Seq(S)
    BY <1>4 DEF IsCutting, IsList
  <2> QED
    BY <1>4, <2>1
<1>6. \A k \in DOMAIN work : /\ tokens[k] \in DOMAIN d.reverse
                             /\ d.reverse[tokens[k]] = work[k].text
  BY <1>4, <1>5
<1>7. \A x \in Raw : x \notin DOMAIN d.reverse
  BY <1>3, RawAssumption DEF Coined
<1>8. Hydrate(d, Rewrite(raw, work, tokens)) = raw
  BY ONLY <1>4, <1>6, <1>7, RewritingIsReversible
<1> QED
  BY <1>1, <1>8

(* Whatever was served names the requester's own values.                   *)
LEMMA FaithfulServes == IInv /\ Faithful => ServedIsOwn
<1> SUFFICES ASSUME IInv, Faithful, NEW r \in Requests, req[r].phase = "done"
             PROVE  req[r].delivered = Meant(r, Drawn(r, req[r].from))
  BY DEF ServedIsOwn
<1>1. PICK q, P : q = req[r] /\ P = FlattenSeq(q.texts) /\ Prompt(r) = P
  BY DEF Prompt
<1>2. Masks(q) /\ Answered(q) /\ Delivered(q) /\ q.phase = "done"
  BY <1>1, FollowsNow DEF Follows
<1>3. \/ q.from = 0 /\ q.answer = <<>>
      \/ q.from \in DOMAIN P /\ q.answer = <<P[q.from]>>
  BY <1>1, <1>2 DEF Answered
<1>4. 0 \notin DOMAIN P
  BY <1>1, <1>2, PlacesArePositive
<1>5. Drawn(r, q.from) = q.answer
  BY <1>1, <1>3, <1>4 DEF Drawn
<1>6. Meant(r, q.answer) = Meaning(q.answer, q.own)
  BY <1>1 DEF Meant, Meaning
<1> QED
  BY <1>1, <1>2, <1>5, <1>6 DEF Delivered

(* A masked text, hydrated, is the text the client wrote: whatever the     *)
(* rules, the entropy scan and the recogniser found, and in whatever order *)
(* the requests share the dictionary, the findings kept are apart, and     *)
(* each is replaced whole by a token that means its text (redact.go        *)
(* resolve, masker.go Process, dictionary.go Hydrate).                     *)
THEOREM MaskingIsReversible == Spec => []MaskRoundTrip
  BY FaithfulAlways, FaithfulMasks, PTL

(* A request served from a cache entry another session wrote gets an       *)
(* answer in its own values, never the other's: an entry holds the         *)
(* payload's own names of its tokens, equal keys name the tokens of equal  *)
(* places alike, and the names are put back by the reader's own mapping    *)
(* (cache.go Shape, Canonicalise and Restore).                             *)
THEOREM AnswersNameOwnValues == Spec => []ServedIsOwn
  BY FaithfulAlways, FaithfulServes, PTL
-----------------------------------------------------------------------------
(* The mapping Canonicalise applies.                                       *)
Backwards(f) == [u \in {f[k] : k \in DOMAIN f} |-> CHOOSE k \in DOMAIN f : f[k] = u]

(* Reading a mapping backwards finds a token's name and nothing else.      *)
LEMMA InverseNames ==
    ASSUME NEW X, NEW P \in Seq(X), NEW f, MapsBack(f, P)
    PROVE  /\ \A t \in TokensOf(P) : /\ t \in DOMAIN Backwards(f)
                                     /\ Backwards(f)[t] = Canonical(P, t)
           /\ \A x : ~ IsToken(x) => x \notin DOMAIN Backwards(f)
           /\ \A x : ~ IsToken(x) => x \notin DOMAIN f
<1> DEFINE inverse == Backwards(f)
<1>1. ASSUME NEW t \in TokensOf(P)
      PROVE  t \in DOMAIN inverse /\ inverse[t] = Canonical(P, t)
  <2>1. Canonical(P, t) \in DOMAIN f /\ f[Canonical(P, t)] = t
    BY DEF MapsBack
  <2>2. t \in DOMAIN inverse /\ inverse[t] = CHOOSE k \in DOMAIN f : f[k] = t
    BY <2>1 DEF Backwards
  <2>3. PICK c : c = (CHOOSE k \in DOMAIN f : f[k] = t) /\ c \in DOMAIN f /\ f[c] = t
    BY <2>1
  <2>4. PICK u \in TokensOf(P) : c = Canonical(P, u) /\ f[c] = u
    BY <2>3 DEF MapsBack
  <2>5. u = t
    BY <2>3, <2>4
  <2> QED
    BY <2>2, <2>3, <2>4, <2>5
<1>2. ASSUME NEW c \in DOMAIN f PROVE IsToken(c) /\ IsToken(f[c])
  <2>1. PICK u \in TokensOf(P) : c = Canonical(P, u) /\ f[c] = u
    BY DEF MapsBack
  <2> QED
    BY <2>1, CanonicalApart
<1>3. \A x \in DOMAIN inverse : \E c \in DOMAIN f : x = f[c]
  BY DEF Backwards
<1> QED
  BY <1>1, <1>2, <1>3

(* An answer of any length, made of the prompt's items and of words that   *)
(* are no tokens, stored for one payload and read for another of the same  *)
(* key, says of the second prompt what it said of the first: at each place *)
(* the reader's item for the writer's (cache.go Canonicalise, Restore).    *)
THEOREM AnswersCrossSessions ==
    ASSUME NEW X, NEW texts \in Seq(Seq(X)), NEW others \in Seq(Seq(X)),
           Shape(texts).texts = Shape(others).texts,
           NEW said \in Seq(X), NEW heard \in Seq(X), Len(said) = Len(heard),
           \A k \in DOMAIN said :
              \/ said[k] = heard[k] /\ ~ IsToken(said[k])
              \/ \E i \in DOMAIN FlattenSeq(texts) : /\ said[k] = FlattenSeq(texts)[i]
                                                     /\ heard[k] = FlattenSeq(others)[i]
    PROVE  Restore(Canonicalise(said, Shape(texts).restore), Shape(others).restore) = heard
<1>1. PICK P, Q, R : /\ P = FlattenSeq(texts) /\ Q = FlattenSeq(others)
                     /\ R = FlattenSeq(Shape(texts).texts)
                     /\ R = FlattenSeq(Shape(others).texts)
  OBVIOUS
<1>2. PICK f, g : /\ f = Shape(texts).restore /\ MapsBack(f, P) /\ P \in Seq(X)
                  /\ g = Shape(others).restore /\ MapsBack(g, Q) /\ Q \in Seq(X)
  <2>1. P \in Seq(X) /\ MapsBack(Shape(texts).restore, P)
    BY <1>1, ShapeFacts
  <2>2. Q \in Seq(X) /\ MapsBack(Shape(others).restore, Q)
    BY <1>1, ShapeFacts
  <2> QED
    BY <2>1, <2>2
<1>3. PICK inverse : inverse = Backwards(f)
  OBVIOUS
<1>4. /\ \A t \in TokensOf(P) : t \in DOMAIN inverse /\ inverse[t] = Canonical(P, t)
      /\ \A x : ~ IsToken(x) => x \notin DOMAIN inverse
  <2>1. P \in Seq(X) /\ MapsBack(f, P)
    BY <1>2
  <2> QED
    BY <1>3, <2>1, InverseNames
<1>5. /\ \A t \in TokensOf(Q) : Canonical(Q, t) \in DOMAIN g /\ g[Canonical(Q, t)] = t
      /\ \A x : ~ IsToken(x) => x \notin DOMAIN g
  <2>1. \A x : ~ IsToken(x) => x \notin DOMAIN g
    BY <1>2, InverseNames
  <2> QED
    BY <1>2, <2>1 DEF MapsBack
<1>6. /\ DOMAIN R = DOMAIN P /\ DOMAIN R = DOMAIN Q
      /\ \A i \in DOMAIN P :
            /\ IsToken(P[i]) => P[i] \in TokensOf(P) /\ R[i] = Canonical(P, P[i])
            /\ ~ IsToken(P[i]) => R[i] = P[i]
            /\ IsToken(R[i]) <=> IsToken(P[i])
      /\ \A i \in DOMAIN Q :
            /\ IsToken(Q[i]) => Q[i] \in TokensOf(Q) /\ R[i] = Canonical(Q, Q[i])
            /\ ~ IsToken(Q[i]) => R[i] = Q[i]
            /\ IsToken(R[i]) <=> IsToken(Q[i])
  <2>1. /\ DOMAIN R = DOMAIN P
        /\ \A i \in DOMAIN P :
              /\ IsToken(P[i]) => P[i] \in TokensOf(P) /\ R[i] = Canonical(P, P[i])
              /\ ~ IsToken(P[i]) => R[i] = P[i]
              /\ IsToken(R[i]) <=> IsToken(P[i])
    BY <1>1, ShapePlaces
  <2>2. /\ DOMAIN R = DOMAIN Q
        /\ \A i \in DOMAIN Q :
              /\ IsToken(Q[i]) => Q[i] \in TokensOf(Q) /\ R[i] = Canonical(Q, Q[i])
              /\ ~ IsToken(Q[i]) => R[i] = Q[i]
              /\ IsToken(R[i]) <=> IsToken(Q[i])
    BY <1>1, ShapePlaces
  <2> QED
    BY <2>1, <2>2
<1>7. PICK n : n \in Nat /\ DOMAIN said = 1..n /\ DOMAIN heard = 1..n
               /\ heard = [k \in 1..n |-> heard[k]]
  <2>1. Len(said) \in Nat /\ DOMAIN said = 1..Len(said) /\ DOMAIN heard = 1..Len(said)
        /\ heard = [k \in 1..Len(said) |-> heard[k]]
    OBVIOUS
  <2> QED
    BY <2>1
<1>8. PICK named : /\ named = Canonicalise(said, f) /\ named = Restore(said, inverse)
                   /\ DOMAIN named = 1..n
                   /\ \A k \in 1..n : named[k] = IF said[k] \in DOMAIN inverse
                                                 THEN inverse[said[k]] ELSE said[k]
  <2>1. Canonicalise(said, f) = Restore(said, inverse)
    BY <1>3, Zenon DEF Canonicalise, Backwards
  <2>2. Restore(said, inverse) = [k \in 1..n |-> IF said[k] \in DOMAIN inverse
                                                 THEN inverse[said[k]] ELSE said[k]]
    BY <1>7, Zenon DEF Restore
  <2> QED
    BY <2>1, <2>2, ZenonT(40)
<1>9. ASSUME NEW k \in 1..n
      PROVE  (IF named[k] \in DOMAIN g THEN g[named[k]] ELSE named[k]) = heard[k]
  <2>1. CASE said[k] = heard[k] /\ ~ IsToken(said[k])
    <3>1. named[k] = said[k]
      BY <1>4, <1>8, <2>1
    <3> QED
      BY <1>5, <2>1, <3>1
  <2>2. CASE \E i \in DOMAIN P : said[k] = P[i] /\ heard[k] = Q[i]
    <3>1. PICK i \in DOMAIN P : said[k] = P[i] /\ heard[k] = Q[i]
      BY <2>2
    <3>2. CASE IsToken(P[i])
      <4>1. named[k] = Canonical(P, P[i])
        BY <1>4, <1>6, <1>8, <3>1, <3>2
      <4>2. Q[i] \in TokensOf(Q) /\ Canonical(P, P[i]) = Canonical(Q, Q[i])
        BY <1>6, <3>2
      <4> QED
        BY <1>5, <3>1, <4>1, <4>2
    <3>3. CASE ~ IsToken(P[i])
      <4>1. P[i] = Q[i]
        BY <1>6, <3>3
      <4>2. named[k] = said[k]
        BY <1>4, <1>8, <3>1, <3>3
      <4> QED
        BY <1>5, <3>1, <3>3, <4>1, <4>2
    <3> QED
      BY <3>2, <3>3
  <2> QED
    BY <1>1, <1>7, <2>1, <2>2
<1>10. Restore(named, g) = [k \in 1..n |-> heard[k]]
  <2>1. Restore(named, g) = [k \in 1..n |-> IF named[k] \in DOMAIN g
                                            THEN g[named[k]] ELSE named[k]]
    BY <1>8, Zenon DEF Restore
  <2> QED
    BY <1>9, <2>1
<1> QED
  BY <1>2, <1>7, <1>8, <1>10

(* ren gives the items of X other names: tokens new numbers, no two the    *)
(* same, and every other item its own.                                     *)
Renumbers(ren, X) ==
    /\ \A x \in X : ~ IsToken(x) => ren[x] = x
    /\ \A x \in X : IsToken(x) => IsToken(ren[x]) /\ ren[x][1] = x[1]
    /\ \A x, y \in X : ren[x] = ren[y] => x = y

(* A token's name depends on where tokens stand and not on their numbers.  *)
LEMMA NamesByPlace ==
    ASSUME NEW X, NEW P \in Seq(X), NEW ren, Renumbers(ren, X),
           NEW Q, Q = Spelled(ren, P), NEW t \in X, IsToken(t)
    PROVE  Canonical(Q, ren[t]) = Canonical(P, t)
<1>1. PICK Y : Y = {ren[x] : x \in X} /\ Maps(ren, X, Y)
  <2>1. Maps(ren, X, {ren[x] : x \in X})
    BY DEF Maps
  <2> QED
    BY <2>1
<1>2. PICK N : /\ N \in Nat /\ DOMAIN P = 1..N /\ DOMAIN Q = 1..N /\ Q \in Seq(Y)
               /\ \A i \in 1..N : Q[i] = ren[P[i]] /\ P[i] \in X
  <2>1. /\ DOMAIN P = 1..Len(P) /\ DOMAIN Q = 1..Len(P) /\ Q \in Seq(Y)
        /\ \A i \in 1..Len(P) : Q[i] = ren[P[i]]
    BY <1>1, SpelledPlaces
  <2>2. Len(P) \in Nat /\ \A i \in 1..Len(P) : P[i] \in X
    BY <2>1
  <2> QED
    BY <2>1, <2>2
<1>3. ASSUME NEW u \in X PROVE FirstAt(Q, ren[u]) = FirstAt(P, u)
  <2>1. {i \in DOMAIN Q : Q[i] = ren[u]} = {i \in DOMAIN P : P[i] = u}
    BY <1>2 DEF Renumbers
  <2> QED
    BY <2>1, Zenon DEF FirstAt
<1>4. \A u \in TokensOf(P) : u \in X /\ IsToken(u)
  BY <1>2 DEF TokensOf
<1>5. \A i \in 1..N : IsToken(P[i]) <=> IsToken(Q[i])
  BY <1>2 DEF Renumbers
<1>6. TokensOf(Q) = {ren[u] : u \in TokensOf(P)}
  <2>1. ASSUME NEW v \in TokensOf(Q) PROVE \E u \in TokensOf(P) : v = ren[u]
    <3>1. PICK i \in 1..N : v = Q[i] /\ IsToken(Q[i])
      BY <1>2 DEF TokensOf
    <3>2. P[i] \in TokensOf(P)
      BY <1>2, <1>5, <3>1 DEF TokensOf
    <3> QED
      BY <1>2, <3>1, <3>2
  <2>2. ASSUME NEW u \in TokensOf(P) PROVE ren[u] \in TokensOf(Q)
    <3>1. PICK i \in 1..N : u = P[i] /\ IsToken(P[i])
      BY <1>2 DEF TokensOf
    <3>2. Q[i] \in TokensOf(Q)
      BY <1>2, <1>5, <3>1 DEF TokensOf
    <3> QED
      BY <1>2, <3>1, <3>2
  <2> QED
    BY <2>1, <2>2
<1>7. PICK k : k = FirstAt(P, t) /\ k = FirstAt(Q, ren[t])
  BY <1>3
<1>8. PICK A, B : /\ A = {u \in TokensOf(P) : FirstAt(P, u) <= k}
                  /\ B = {v \in TokensOf(Q) : FirstAt(Q, v) <= k}
  OBVIOUS
<1>9. B = {ren[u] : u \in A}
  BY <1>3, <1>4, <1>6, <1>8
<1>10. Cardinality(A) = Cardinality(B)
  <2> DEFINE h == [u \in A |-> ren[u]]
  <2>1. A \subseteq TokensOf(P) /\ IsFiniteSet(A)
    <3>1. A \subseteq TokensOf(P)
      BY <1>8
    <3>2. IsFiniteSet(TokensOf(P))
      BY CanonicalApart
    <3> QED
      BY <3>1, <3>2, FS_Subset
  <2>2. h \in Surjection(A, B) /\ h \in Injection(A, B)
    <3>1. \A u \in A : u \in X
      BY <1>4, <2>1
    <3>2. \A u, v \in A : ren[u] = ren[v] => u = v
      BY <3>1 DEF Renumbers
    <3>3. h \in [A -> B] /\ \A u \in A : h[u] = ren[u]
      BY <1>9
    <3>4. \A v \in B : \E u \in A : h[u] = v
      BY <1>9, <3>3
    <3> HIDE DEF h
    <3> QED
      BY <3>2, <3>3, <3>4 DEF Injection, IsInjective, Surjection
  <2> HIDE DEF h
  <2> QED
    BY <2>1, <2>2, FS_Surjection
<1>11. ren[t][1] = t[1]
  BY DEF Renumbers
<1>12. /\ Canonical(P, t) = <<t[1], Cardinality(A)>>
       /\ Canonical(Q, ren[t]) = <<ren[t][1], Cardinality(B)>>
  BY <1>7, <1>8, Zenon DEF Canonical
<1> QED
  BY <1>10, <1>11, <1>12

(* Two payloads that differ only in the numbers of their tokens are one    *)
(* payload to the cache, whichever sessions numbered them: the texts the   *)
(* key digests are the same (cache.go Shape, Key).                         *)
THEOREM NumbersDoNotMatter ==
    ASSUME NEW X, NEW texts \in Seq(Seq(X)), NEW ren, Renumbers(ren, X)
    PROVE  Shape([m \in DOMAIN texts |-> Spelled(ren, texts[m])]).texts = Shape(texts).texts
<1>1. PICK Y : Y = {ren[x] : x \in X} /\ Maps(ren, X, Y)
  <2>1. Maps(ren, X, {ren[x] : x \in X})
    BY DEF Maps
  <2> QED
    BY <2>1
<1>2. PICK G : \A u \in Seq(X) : G[u] = Spelled(ren, u) /\ G[u] \in Seq(Y)
  <2> DEFINE H == [u \in Seq(X) |-> Spelled(ren, u)]
  <2>1. ASSUME NEW u \in Seq(X) PROVE H[u] = Spelled(ren, u) /\ H[u] \in Seq(Y)
    <3>1. Spelled(ren, u) \in Seq(Y)
      BY <1>1, SpelledPlaces
    <3> QED
      BY <3>1
  <2> HIDE DEF H
  <2> QED
    BY <2>1
<1>3. PICK others : /\ others = [m \in DOMAIN texts |-> Spelled(ren, texts[m])]
                    /\ others = Spelled(G, texts)
  <2>1. \A m \in DOMAIN texts : texts[m] \in Seq(X)
    OBVIOUS
  <2>2. \A m \in DOMAIN texts : G[texts[m]] = Spelled(ren, texts[m])
    BY <1>2, <2>1
  <2>3. Spelled(G, texts) = [m \in DOMAIN texts |-> Spelled(ren, texts[m])]
    BY <2>2, Zenon DEF Spelled
  <2> QED
    BY <2>3
<1>4. others \in Seq(Seq(Y)) /\ DOMAIN others = DOMAIN texts
  <2>1. Maps(G, Seq(X), Seq(Y))
    BY <1>2 DEF Maps
  <2>2. Spelled(G, texts) \in Seq(Seq(Y))
    BY <2>1, SpelledPlaces
  <2>3. DOMAIN others = DOMAIN texts
    BY <1>3
  <2> QED
    BY <1>3, <2>2, <2>3
<1>5. PICK P, Q : /\ P = FlattenSeq(texts) /\ P \in Seq(X)
                  /\ Q = FlattenSeq(others) /\ Q = Spelled(ren, P)
  <2>1. Spelled(ren, FlattenSeq(texts)) = FlattenSeq(Spelled(G, texts))
    <3>1. \A u \in Seq(X) : G[u] = Spelled(ren, u)
      BY <1>2
    <3> QED
      BY <1>1, <3>1, SpelledFlatten
  <2> QED
    BY <1>3, <2>1, FlattenIsSeq
<1>6. /\ Shape(texts).texts = [m \in DOMAIN texts |-> Renamed(P, texts[m])]
      /\ Shape(others).texts = [m \in DOMAIN others |-> Renamed(Q, others[m])]
  <2>1. Shape(texts).texts = [m \in DOMAIN texts |-> Renamed(P, texts[m])]
    BY <1>5, ShapeFacts
  <2>2. Shape(others).texts = [m \in DOMAIN others |-> Renamed(Q, others[m])]
    <3>1. others \in Seq(Seq(Y)) /\ Q = FlattenSeq(others)
      BY <1>4, <1>5
    <3> QED
      BY ONLY <3>1, ShapeFacts
  <2> QED
    BY <2>1, <2>2
<1>7. ASSUME NEW m \in DOMAIN texts PROVE Renamed(Q, others[m]) = Renamed(P, texts[m])
  <2>1. PICK u, v : u = texts[m] /\ u \in Seq(X) /\ v = others[m] /\ v = Spelled(ren, u)
    BY <1>3
  <2>2. DOMAIN v = DOMAIN u /\ \A i \in DOMAIN u : v[i] = ren[u[i]] /\ u[i] \in X
    BY <2>1 DEF Spelled
  <2>3. ASSUME NEW i \in DOMAIN u
        PROVE  (IF IsToken(v[i]) THEN Canonical(Q, v[i]) ELSE v[i])
                 = IF IsToken(u[i]) THEN Canonical(P, u[i]) ELSE u[i]
    <3>1. PICK x : x = u[i] /\ x \in X /\ v[i] = ren[x]
      BY <2>2
    <3>2. CASE IsToken(x)
      <4>1. IsToken(ren[x]) /\ Canonical(Q, ren[x]) = Canonical(P, x)
        <5>1. P \in Seq(X) /\ Q = Spelled(ren, P) /\ Renumbers(ren, X)
          BY <1>5
        <5>2. Canonical(Q, ren[x]) = Canonical(P, x)
          BY ONLY <3>1, <3>2, <5>1, NamesByPlace
        <5> QED
          BY <3>1, <3>2, <5>2 DEF Renumbers
      <4> QED
        BY <3>1, <3>2, <4>1
    <3>3. CASE ~ IsToken(x)
      <4>1. ren[x] = x
        BY <3>1, <3>3 DEF Renumbers
      <4> QED
        BY <3>1, <3>3, <4>1
    <3> QED
      BY <3>2, <3>3
  <2>4. Renamed(Q, v) = Renamed(P, u)
    BY <2>2, <2>3, Zenon DEF Renamed
  <2> QED
    BY <2>1, <2>4
<1> QED
  BY <1>3, <1>4, <1>6, <1>7

-----------------------------------------------------------------------------
(* What a digit counts in the sum, at the place i from the right.          *)
Counted(i, x) == IF i % 2 = 1 THEN x ELSE IF 2 * x > 9 THEN 2 * x - 9 ELSE 2 * x

LEMMA CountedApart ==
    \A i : \A x, y \in 0..9 : /\ Counted(i, x) \in 0..9 /\ Counted(i, x) \in Nat
                              /\ Counted(i, x) = Counted(i, y) => x = y
  BY DEF Counted

Counting(n) == [i \in 1..n |-> i]

(* What LuhnSum is by definition.                                          *)
LEMMA LuhnIsFold ==
    ASSUME NEW d
    PROVE  LET at == Counting(Len(d)) IN LuhnSum(d) =
             (CHOOSE iter :
                iter = [T \in SUBSET DOMAIN at |->
                          IF T = {} THEN 0
                          ELSE iter[T \ {Max(T)}]
                                 + Counted(at[Max(T)], d[Len(d) - at[Max(T)] + 1])])[DOMAIN at]
  BY DEF LuhnSum, TotalOver, FoldLeft, MapThenFoldSet, Counted, Counting

(* The sum, for digits of the code's range: that of the counted digits.    *)
LEMMA LuhnIsSum ==
    ASSUME NEW d \in Seq(0..9), NEW g,
           g = [i \in 1..Len(d) |-> Counted(i, d[Len(d) - i + 1])]
    PROVE  LuhnSum(d) = SumFunctionOnSet(g, 1..Len(d))
<1>1. PICK n : n = Len(d) /\ n \in Nat /\ \A k \in 1..n : d[k] \in 0..9
  <2>1. Len(d) \in Nat /\ \A k \in 1..Len(d) : d[k] \in 0..9
    OBVIOUS
  <2> QED
    BY <2>1, Zenon
<1> DEFINE at == Counting(Len(d))
<1>2. DOMAIN at = 1..n /\ \A i \in 1..n : at[i] = i
  BY <1>1 DEF Counting
<1>3. ASSUME NEW i \in 1..n PROVE g[i] = Counted(i, d[n - i + 1]) /\ g[i] \in Nat
  <2>1. n - i + 1 \in 1..n
    BY <1>1
  <2>2. d[n - i + 1] \in 0..9
    BY <1>1, <2>1
  <2>3. g[i] = Counted(i, d[n - i + 1])
    BY <1>1
  <2> QED
    BY <2>2, <2>3, CountedApart
<1>4. PICK h : Tabulates(h, g, 1..n)
  BY <1>1, <1>3, IntervalFinite, TableExists
<1> DEFINE Body(f) == [T \in SUBSET DOMAIN at |->
                          IF T = {} THEN 0
                          ELSE f[T \ {Max(T)}]
                                 + Counted(at[Max(T)], d[Len(d) - at[Max(T)] + 1])]
           iter == CHOOSE f : f = Body(f)
<1>5. ASSUME NEW f
      PROVE  Body(f) = [T \in SUBSET (1..n) |->
                           IF T = {} THEN 0 ELSE f[T \ {Max(T)}] + g[Max(T)]]
  <2>1. ASSUME NEW T \in SUBSET (1..n), T # {}
        PROVE  Counted(at[Max(T)], d[Len(d) - at[Max(T)] + 1]) = g[Max(T)]
    <3>1. PICK x : x = Max(T) /\ x \in T
      BY <1>1, <2>1, LargestIsMember
    <3>2. x \in 1..n /\ at[x] = x
      BY <1>2, <3>1
    <3> QED
      BY <1>1, <1>3, <3>1, <3>2
  <2>2. Body(f) = [T \in SUBSET (1..n) |->
                      IF T = {} THEN 0
                      ELSE f[T \ {Max(T)}]
                             + Counted(at[Max(T)], d[Len(d) - at[Max(T)] + 1])]
    BY <1>2, Zenon
  <2> HIDE DEF Body
  <2> QED
    BY <2>1, <2>2
<1>6. h = Body(h)
  <2>1. ASSUME NEW T \in SUBSET (1..n)
        PROVE  h[T] = IF T = {} THEN 0 ELSE h[T \ {Max(T)}] + g[Max(T)]
    <3>1. CASE T = {}
      BY <1>4, <3>1 DEF Tabulates
    <3>2. CASE T # {}
      <4>1. PICK x : x = Max(T) /\ x \in T
        BY <1>1, <3>2, LargestIsMember
      <4>2. /\ T \ {x} \in SUBSET (1..n) /\ (T \ {x}) \cup {x} = T
            /\ x \in (1..n) \ (T \ {x})
        BY <4>1
      <4>3. h[(T \ {x}) \cup {x}] = g[x] + h[T \ {x}] /\ h[T \ {x}] \in Nat
        BY <1>4, <4>2 DEF Tabulates
      <4>4. g[x] \in Nat
        BY <1>3, <4>1
      <4>5. g[x] + h[T \ {x}] = h[T \ {x}] + g[x]
        BY <4>3, <4>4
      <4> QED
        BY <3>2, <4>1, <4>2, <4>3, <4>5
    <3> QED
      BY <3>1, <3>2
  <2>2. h = [T \in SUBSET (1..n) |-> h[T]]
    BY <1>4 DEF Tabulates
  <2>3. h = [T \in SUBSET (1..n) |-> IF T = {} THEN 0 ELSE h[T \ {Max(T)}] + g[Max(T)]]
    BY <2>1, <2>2
  <2> HIDE DEF Body
  <2> QED
    BY <1>5, <2>3
<1>7. iter = Body(iter)
  <2> HIDE DEF Body
  <2> QED
    BY <1>6, Zenon
<1>8. LuhnSum(d) = iter[1..n]
  <2>1. LuhnSum(d) = iter[DOMAIN at]
    BY LuhnIsFold
  <2> QED
    BY <1>2, <2>1
<1>9. iter[1..n] = h[1..n]
  <2> HIDE DEF Body, iter
  <2>1. LargestFirst(iter, g, n)
    BY <1>5, <1>7, Zenon DEF LargestFirst
  <2>2. \A y \in 1..n : g[y] \in Nat
    BY <1>3
  <2> QED
    BY <1>1, <1>4, <2>1, <2>2, LargestFirstIsTable, SMTT(30)
<1>10. SumFunctionOnSet(g, 1..n) = h[1..n]
  BY <1>1, <1>4, IntervalFinite, SumIsTable
<1> HIDE DEF iter
<1> QED
  BY <1>1, <1>8, <1>9, <1>10

(* A number that passes the check of the card numbers no longer passes it  *)
(* when one of its digits, wherever it is, is another: what is masked as a *)
(* card is not a card mistyped in one place (validators.go validLuhn).     *)
THEOREM LuhnCatchesOneDigit ==
    ASSUME NEW d \in Seq(0..9), NEW k \in DOMAIN d, NEW x \in 0..9, x # d[k],
           NEW bare, ValidLuhn(d, bare)
    PROVE  ~ ValidLuhn([d EXCEPT ![k] = x], bare)
<1>1. PICK n : n = Len(d) /\ n \in Nat /\ DOMAIN d = 1..n /\ \A i \in 1..n : d[i] \in 0..9
  OBVIOUS
<1>2. PICK e : /\ e = [d EXCEPT ![k] = x] /\ e \in Seq(0..9) /\ Len(e) = n
               /\ e[k] = x /\ \A i \in 1..n : i # k => e[i] = d[i]
  <2>1. PICK e : e = [d EXCEPT ![k] = x]
    OBVIOUS
  <2>2. e \in [1..n -> 0..9] /\ e[k] = x /\ \A i \in 1..n : i # k => e[i] = d[i]
    BY <1>1, <2>1
  <2>3. e \in Seq(0..9) /\ Len(e) = n
    BY <1>1, <2>2
  <2> QED
    BY <2>1, <2>2, <2>3
<1>3. PICK f, g : /\ f = [i \in 1..Len(d) |-> Counted(i, d[Len(d) - i + 1])]
                  /\ g = [i \in 1..Len(e) |-> Counted(i, e[Len(e) - i + 1])]
  OBVIOUS
<1>4. LuhnSum(d) = SumFunctionOnSet(f, 1..n) /\ LuhnSum(e) = SumFunctionOnSet(g, 1..n)
  <2>1. LuhnSum(d) = SumFunctionOnSet(f, 1..Len(d))
    BY <1>3, LuhnIsSum
  <2>2. LuhnSum(e) = SumFunctionOnSet(g, 1..Len(e))
    BY <1>2, <1>3, LuhnIsSum
  <2> QED
    BY <1>1, <1>2, <2>1, <2>2
<1>5. ASSUME NEW i \in 1..n
      PROVE  /\ f[i] = Counted(i, d[n - i + 1]) /\ f[i] \in 0..9
             /\ g[i] = Counted(i, e[n - i + 1]) /\ g[i] \in 0..9
  <2>1. n - i + 1 \in 1..n
    BY <1>1
  <2>2. d[n - i + 1] \in 0..9 /\ e[n - i + 1] \in 0..9
    BY <1>1, <1>2, <2>1
  <2>3. f[i] = Counted(i, d[n - i + 1]) /\ g[i] = Counted(i, e[n - i + 1])
    BY <1>1, <1>2, <1>3
  <2> QED
    BY <2>2, <2>3, CountedApart, ZenonT(40)
<1>6. PICK j : j \in 1..n /\ n - j + 1 = k
  <2>1. n - k + 1 \in 1..n /\ n - (n - k + 1) + 1 = k
    BY <1>1
  <2> QED
    BY <2>1
<1>7. f[j] # g[j] /\ f[j] \in 0..9 /\ g[j] \in 0..9
  <2>1. f[j] = Counted(j, d[k]) /\ g[j] = Counted(j, x) /\ d[k] \in 0..9
    BY <1>1, <1>2, <1>5, <1>6
  <2> QED
    BY <1>5, <1>6, <2>1, CountedApart
<1>8. \A i \in (1..n) \ {j} : f[i] = g[i]
  <2>1. ASSUME NEW i \in 1..n, i # j PROVE n - i + 1 \in 1..n /\ n - i + 1 # k
    BY <1>1, <1>6, <2>1
  <2> QED
    BY <1>2, <1>5, <2>1
<1>9. PICK a, b : /\ a = LuhnSum(d) /\ b = LuhnSum(e) /\ a \in Nat /\ b \in Nat
                  /\ a + g[j] = b + f[j]
  <2>1. IsFiniteSet(1..n) /\ \A i \in 1..n : f[i] \in Nat /\ g[i] \in Nat
    <3>1. IsFiniteSet(1..n)
      BY <1>1, IntervalFinite
    <3>2. \A i \in 1..n : f[i] \in Nat /\ g[i] \in Nat
      BY <1>5
    <3> QED
      BY <3>1, <3>2
  <2>2. SumFunctionOnSet(f, 1..n) + g[j] = SumFunctionOnSet(g, 1..n) + f[j]
    <3>1. PICK S : S = 1..n
      OBVIOUS
    <3>2. /\ IsFiniteSet(S) /\ \A i \in S : f[i] \in Nat /\ g[i] \in Nat
          /\ j \in S /\ \A i \in S \ {j} : f[i] = g[i]
      BY <1>6, <1>8, <2>1, <3>1, Zenon
    <3>3. SumFunctionOnSet(f, S) + g[j] = SumFunctionOnSet(g, S) + f[j]
      BY ONLY <3>2, SumChangesOne
    <3> QED
      BY <3>1, <3>3
  <2>3. SumFunctionOnSet(f, 1..n) \in Nat /\ SumFunctionOnSet(g, 1..n) \in Nat
    BY <2>1, SumIsNat
  <2> QED
    BY <1>4, <2>2, <2>3
<1>10. a % 10 = 0
  BY <1>9 DEF ValidLuhn
<1>11. b % 10 # 0
  <2>1. \A p, q \in Nat : \A u, v \in 0..9 : p % 10 = 0 /\ q % 10 = 0 /\ p + v = q + u => u = v
    BY SMT
  <2>2. PICK u, v : /\ u = f[j] /\ v = g[j] /\ u \in 0..9 /\ v \in 0..9 /\ u # v
                    /\ a + v = b + u
    BY <1>7, <1>9
  <2> QED
    BY <1>9, <1>10, <2>1, <2>2
<1> QED
  BY <1>2, <1>9, <1>11 DEF ValidLuhn
-----------------------------------------------------------------------------
(* The entries of a cache, without their order.                            *)
Members(c) == {c[i] : i \in DOMAIN c}

(* Without the entry of one key.                                           *)
LEMMA OthersMembers ==
    ASSUME NEW c, IsCache(c), NEW k
    PROVE  Members(Others(c, k)) = {x \in Members(c) : x.key # k}
<1>1. PICK S : c \in Seq(S)
  BY DEF IsCache, IsList
<1>2. CASE ~ Holds(c, k)
  BY <1>2 DEF Others, Holds, Members
<1>3. CASE Holds(c, k)
  <2>1. PICK i : i = Position(c, k) /\ i \in DOMAIN c /\ c[i].key = k
    BY <1>3 DEF Holds, Position
  <2>2. PICK o : o = RemoveAt(c, i) /\ o = Others(c, k)
    BY <1>3, <2>1 DEF Others
  <2>3. /\ o \in Seq(S) /\ Len(o) + 1 = Len(c)
        /\ \A j \in DOMAIN o : IF j < i THEN j \in DOMAIN c /\ o[j] = c[j]
                              ELSE j + 1 \in DOMAIN c /\ o[j] = c[j + 1]
    <3>1. /\ RemoveAt(c, i) \in Seq(S) /\ Len(RemoveAt(c, i)) + 1 = Len(c)
          /\ \A j \in DOMAIN RemoveAt(c, i) :
                IF j < i THEN j \in DOMAIN c /\ RemoveAt(c, i)[j] = c[j]
                ELSE j + 1 \in DOMAIN c /\ RemoveAt(c, i)[j] = c[j + 1]
      BY <1>1, <2>1, RemovedPlaces
    <3> QED
      BY <2>2, <3>1, Zenon
  <2>4. \A j \in DOMAIN o : o[j].key # k
    BY <2>2, OthersKeep
  <2>5. \A x \in Members(o) : x \in Members(c) /\ x.key # k
    BY <2>3, <2>4 DEF Members
  <2>6. ASSUME NEW x \in Members(c), x.key # k PROVE x \in Members(o)
    <3>1. PICK j \in DOMAIN c : x = c[j] /\ j # i
      BY <2>1, <2>6 DEF Members
    <3>2. PICK n : n = Len(o) /\ n \in Nat /\ DOMAIN o = 1..n /\ DOMAIN c = 1..(n + 1)
      <4>1. Len(o) \in Nat /\ DOMAIN o = 1..Len(o) /\ DOMAIN c = 1..Len(c)
        BY <1>1, <2>3
      <4> QED
        BY <2>3, <4>1
    <3>3. CASE j < i
      <4>1. j \in DOMAIN o
        BY <2>1, <3>1, <3>2, <3>3
      <4> QED
        BY <2>3, <3>1, <3>3, <4>1 DEF Members
    <3>4. CASE ~ (j < i)
      <4>1. j - 1 \in DOMAIN o /\ ~ (j - 1 < i) /\ (j - 1) + 1 = j
        BY <2>1, <3>1, <3>2, <3>4
      <4>2. o[j - 1] = x
        BY <2>3, <3>1, <4>1
      <4> QED
        BY <4>1, <4>2 DEF Members
    <3> QED
      BY <3>3, <3>4
  <2> QED
    BY <2>2, <2>5, <2>6
<1> QED
  BY <1>2, <1>3

(* With an entry in front.                                                *)
LEMMA FrontMembers ==
    ASSUME NEW c, IsCache(c), NEW e
    PROVE  /\ Members(ToFront(c, e)) = {x \in Members(c) : x.key # e.key} \cup {e}
           /\ \E S : ToFront(c, e) \in Seq(S)
           /\ Len(ToFront(c, e)) = Len(Others(c, e.key)) + 1
           /\ \A j \in DOMAIN ToFront(c, e) :
                 IF j = 1 THEN ToFront(c, e)[j] = e
                 ELSE /\ j - 1 \in DOMAIN Others(c, e.key)
                      /\ ToFront(c, e)[j] = Others(c, e.key)[j - 1]
<1>1. PICK o : o = Others(c, e.key) /\ IsCache(o)
  BY OthersKeep
<1>2. PICK R : o \in Seq(R)
  BY <1>1 DEF IsCache, IsList
<1>3. PICK S : S = R \cup {e}
  OBVIOUS
<1>4. o \in Seq(S) /\ e \in S /\ Len(o) \in Nat /\ DOMAIN o = 1..Len(o)
  BY <1>2, <1>3
<1>5. PICK f : f = <<e>> \o o /\ f = ToFront(c, e)
  BY <1>1 DEF ToFront
<1>6. /\ f \in Seq(S) /\ Len(f) = Len(o) + 1 /\ f[1] = e
      /\ \A j \in DOMAIN f : j # 1 => j - 1 \in DOMAIN o /\ f[j] = o[j - 1]
  BY <1>4, <1>5, FrontPlaces
<1>7. Members(f) = Members(o) \cup {e}
  <2>1. \A x \in Members(f) : x \in Members(o) \cup {e}
    BY <1>6 DEF Members
  <2>2. DOMAIN f = 1..(Len(o) + 1)
    BY <1>4, <1>6
  <2>3. e \in Members(f)
    BY <1>4, <1>6, <2>2 DEF Members
  <2>4. ASSUME NEW x \in Members(o) PROVE x \in Members(f)
    <3>1. PICK j \in 1..Len(o) : x = o[j]
      BY <1>4 DEF Members
    <3>2. j + 1 \in DOMAIN f /\ j + 1 # 1 /\ (j + 1) - 1 = j
      BY <1>4, <2>2
    <3>3. f[j + 1] = x
      BY <1>6, <3>1, <3>2
    <3> QED
      BY <3>2, <3>3 DEF Members
  <2> QED
    BY <2>1, <2>3, <2>4
<1>8. Members(o) = {x \in Members(c) : x.key # e.key}
  BY <1>1, OthersMembers
<1> QED
  BY <1>1, <1>5, <1>6, <1>7, <1>8

(* A cache has as many entries as places.                                  *)
LEMMA MembersCounted ==
    ASSUME NEW c, IsCache(c)
    PROVE  Cardinality(Members(c)) = Len(c) /\ IsFiniteSet(Members(c))
<1>1. PICK n : n = Len(c) /\ n \in Nat /\ DOMAIN c = 1..n
  BY DEF IsCache, IsList
<1>2. PICK M : M = Members(c) /\ M = {c[i] : i \in 1..n}
  BY <1>1 DEF Members
<1> DEFINE h == [i \in 1..n |-> c[i]]
<1>3. h \in [1..n -> M] /\ \A i \in 1..n : h[i] = c[i]
  BY <1>2
<1>4. \A i, j \in 1..n : c[i] = c[j] => i = j
  BY <1>1 DEF IsCache, OneEntryPerKey
<1>5. \A x \in M : \E i \in 1..n : h[i] = x
  BY <1>2, <1>3
<1> HIDE DEF h
<1>6. h \in Surjection(1..n, M) /\ h \in Injection(1..n, M)
  BY <1>3, <1>4, <1>5 DEF Injection, IsInjective, Surjection
<1>7. IsFiniteSet(1..n) /\ Cardinality(1..n) = n
  <2>1. 1 \in Int /\ n \in Int
    BY <1>1
  <2>2. IsFiniteSet(1..n) /\ Cardinality(1..n) = IF 1 > n THEN 0 ELSE n - 1 + 1
    BY <2>1, FS_Interval
  <2> QED
    BY <1>1, <2>2
<1>8. IsFiniteSet(M) /\ Cardinality(M) = Cardinality(1..n)
  BY <1>6, <1>7, FS_Surjection
<1> QED
  BY <1>1, <1>2, <1>7, <1>8

(* Get leaves the entries it found, or all but one that has expired.       *)
THEOREM GetOnlyExpires ==
    ASSUME NEW c, IsCache(c), NEW k
    PROVE  \/ Members(AfterGet(c, k)) = Members(c)
           \/ /\ Holds(c, k) /\ ~ Fresh(Stored(c, k))
              /\ Members(AfterGet(c, k)) = Members(c) \ {Stored(c, k)}
<1>1. CASE ~ Enabled \/ ~ Holds(c, k)
  BY <1>1 DEF AfterGet
<1>2. CASE Enabled /\ Holds(c, k)
  <2>1. PICK i, e : i \in DOMAIN c /\ e = c[i] /\ e = Stored(c, k) /\ e.key = k
    BY <1>2, StoredIsThere DEF Stored
  <2>2. \A j \in DOMAIN c : c[j].key = k => c[j] = e
    BY <2>1 DEF IsCache, OneEntryPerKey
  <2>3. {x \in Members(c) : x.key # k} = Members(c) \ {e} /\ e \in Members(c)
    BY <2>1, <2>2 DEF Members
  <2>4. Members(ToFront(c, e)) = Members(c)
    <3>1. Members(ToFront(c, e)) = {x \in Members(c) : x.key # e.key} \cup {e}
      BY FrontMembers
    <3>2. e.key = k
      BY <2>1
    <3> QED
      BY <2>3, <3>1, <3>2
  <2>5. Members(Others(c, k)) = Members(c) \ {e}
    BY <2>3, OthersMembers
  <2>6. AfterGet(c, k) = IF Fresh(e) THEN ToFront(c, e) ELSE Others(c, k)
    BY <1>2, <2>1 DEF AfterGet
  <2> QED
    BY <1>2, <2>1, <2>4, <2>5, <2>6
<1> QED
  BY <1>1, <1>2

(* Put does to the list what Gateway's Store does to its set of entries:   *)
(* one entry per key, and when a new one finds the cache full, another     *)
(* goes - the least recently used, of which the set knows nothing          *)
(* (cache.go Put).                                                         *)
THEOREM PutIsStore ==
    ASSUME NEW c, IsCache(c), NEW e, IsEntry(e), Enabled, e.content # <<>>
    PROVE  LET cache == Members(c)
               kept == [e EXCEPT !.age = 0]
               rest == {old \in cache : old.key # e.key}
           IN  \/ /\ rest # cache \/ Cardinality(cache) < CacheMax
                  /\ Members(Put(c, e)) = rest \cup {kept}
               \/ /\ rest = cache /\ Cardinality(cache) >= CacheMax
                  /\ c[Len(c)] \in cache
                  /\ Members(Put(c, e)) = (cache \ {c[Len(c)]}) \cup {kept}
<1>1. PICK x : x = [e EXCEPT !.age = 0] /\ x.key = e.key
  <2>1. PICK x : x = [e EXCEPT !.age = 0]
    OBVIOUS
  <2>2. x.key = e.key
    BY <2>1 DEF IsEntry
  <2> QED
    BY <2>1, <2>2
<1>2. PICK o, all, cut :
          /\ o = Others(c, x.key) /\ all = ToFront(c, x) /\ cut = Put(c, e)
          /\ cut = SubSeq(all, 1, IF Len(all) > CacheMax THEN CacheMax ELSE Len(all))
  BY <1>1 DEF Put
<1>3. PICK M, rest : /\ M = Members(c) /\ rest = {old \in M : old.key # x.key}
                     /\ Cardinality(M) = Len(c)
  BY MembersCounted
<1>4. /\ Members(all) = rest \cup {x} /\ Len(all) = Len(o) + 1
      /\ \A j \in DOMAIN all : IF j = 1 THEN all[j] = x
                               ELSE j - 1 \in DOMAIN o /\ all[j] = o[j - 1]
  <2>1. Members(ToFront(c, x)) = {old \in Members(c) : old.key # x.key} \cup {x}
    BY FrontMembers
  <2>2. /\ Len(ToFront(c, x)) = Len(Others(c, x.key)) + 1
        /\ \A j \in DOMAIN ToFront(c, x) :
              IF j = 1 THEN ToFront(c, x)[j] = x
              ELSE /\ j - 1 \in DOMAIN Others(c, x.key)
                   /\ ToFront(c, x)[j] = Others(c, x.key)[j - 1]
    BY FrontMembers
  <2> QED
    BY <1>2, <1>3, <2>1, <2>2
<1>5. PICK S : all \in Seq(S)
  BY <1>2, FrontMembers
<1>6. PICK m, n : /\ m = CacheMax /\ m \in Nat /\ m > 0
                  /\ n = Len(c) /\ n \in Nat /\ n <= m /\ DOMAIN c = 1..n
  BY LimitsAreNumbers DEF IsCache, IsList, Enabled
<1>7. /\ Holds(c, x.key) => Len(o) + 1 = n
      /\ ~ Holds(c, x.key) => o = c
  BY <1>2, <1>6, OthersKeep DEF Others
<1>8. Holds(c, x.key) <=> rest # M
  BY <1>3 DEF Holds, Members
<1>9. ASSUME rest # M \/ n < m PROVE Members(cut) = rest \cup {x}
  <2>1. Len(all) <= m /\ Len(all) \in Nat
    BY <1>4, <1>5, <1>6, <1>7, <1>8, <1>9
  <2>2. cut = all
    BY <1>2, <1>5, <1>6, <2>1
  <2> QED
    BY <1>4, <2>2
<1>10. ASSUME rest = M, n = m
       PROVE  c[n] \in M /\ Members(cut) = (M \ {c[n]}) \cup {x}
  <2>1. o = c /\ Len(all) = n + 1
    <3>1. o = c
      BY <1>7, <1>8, <1>10
    <3> QED
      BY <1>4, <1>6, <3>1
  <2>2. cut = SubSeq(all, 1, n) /\ DOMAIN cut = 1..n /\ DOMAIN all = 1..(n + 1)
        /\ \A j \in 1..n : cut[j] = all[j]
    BY <1>2, <1>5, <1>6, <1>10, <2>1
  <2>3. \A j \in 1..n : cut[j] = IF j = 1 THEN x ELSE c[j - 1]
    BY <1>4, <1>6, <2>1, <2>2
  <2>4. \A j \in 1..n : c[j] = c[n] => j = n
    BY <1>6 DEF IsCache, OneEntryPerKey
  <2>5. ASSUME NEW y \in Members(cut) PROVE y \in (M \ {c[n]}) \cup {x}
    <3>1. PICK j \in 1..n : y = cut[j]
      BY <2>2 DEF Members
    <3>2. CASE j = 1
      BY <2>3, <3>1, <3>2
    <3>3. CASE j # 1
      <4>1. j - 1 \in 1..n /\ j - 1 # n /\ y = c[j - 1]
        BY <1>6, <2>3, <3>1, <3>3
      <4> QED
        BY <1>3, <1>6, <2>4, <4>1 DEF Members
    <3> QED
      BY <3>2, <3>3
  <2>6. x \in Members(cut)
    <3>1. 1 \in 1..n
      BY <1>6, <1>10
    <3> QED
      BY <2>2, <2>3, <3>1 DEF Members
  <2>7. ASSUME NEW y \in M \ {c[n]} PROVE y \in Members(cut)
    <3>1. PICK j \in 1..n : y = c[j] /\ j # n
      BY <1>3, <1>6 DEF Members
    <3>2. j + 1 \in 1..n /\ j + 1 # 1 /\ (j + 1) - 1 = j
      BY <1>6, <3>1
    <3>3. cut[j + 1] = y
      BY <2>3, <3>1, <3>2
    <3> QED
      BY <2>2, <3>2, <3>3 DEF Members
  <2>8. Members(cut) = (M \ {c[n]}) \cup {x}
    BY <2>5, <2>6, <2>7
  <2>9. c[n] \in M
    BY <1>3, <1>6, <1>10 DEF Members
  <2> QED
    BY <2>8, <2>9
<1>11. \/ (rest # M \/ n < m) /\ Members(cut) = rest \cup {x}
       \/ /\ rest = M /\ n >= m /\ c[n] \in M
          /\ Members(cut) = (M \ {c[n]}) \cup {x}
  <2>1. m \in Nat /\ n \in Nat /\ n <= m
    BY <1>6
  <2>2. n < m \/ (n = m /\ n >= m)
    BY ONLY <2>1
  <2> QED
    BY <1>9, <1>10, <2>2
<1>12. rest = {old \in Members(c) : old.key # e.key}
  BY <1>1, <1>3
<1> QED
  BY <1>1, <1>2, <1>3, <1>6, <1>11, <1>12, Zenon
=============================================================================

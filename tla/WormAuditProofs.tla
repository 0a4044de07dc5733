--------------------------- MODULE WormAuditProofs ---------------------------
(***************************************************************************)
(* What WormAudit guarantees for any queue, checkpoint distance, segment   *)
(* size and number of events and crashes.  The accounting rests on what    *)
(* each step moves between the places an event can be in; the chain rests  *)
(* on the position the sink keeps being that of the last record written    *)
(* whenever a record can be appended (AtEnd), which a failed write breaks  *)
(* and only reopening mends.                                               *)
(***************************************************************************)
EXTENDS WormAudit, SumsAndSequences

(* The lines are of some kind or other: hashes have no bounded depth.      *)
Listed == \E S : segs \in Seq(Seq(S)) /\ written \in Seq(S)

(* Handlers queue nothing but events.                                      *)
Queued == \A i \in DOMAIN queue : queue[i].kind = "event"

AtEnd ==
    IF written = <<>> THEN seq = 0 /\ head = Genesis
    ELSE seq = Last(written).seq /\ head = HashOf(Last(written))

AllRecords == \A i \in DOMAIN segs : \A j \in DOMAIN segs[i] : IsRecord(segs[i][j])

Chained ==
    ~spoiled =>
        /\ AllRecords
        /\ Linked(written)
        /\ IsSuffix(Lined, written)
        /\ status # "down" /\ ~broken => AtEnd

IInv == TypeOK /\ Listed /\ Queued /\ EveryEventAccounted /\ Chained
-----------------------------------------------------------------------------
LEMMA PayloadWeighs ==
    ASSUME NEW r \in Payload
    PROVE  Weight(r) \in Nat
  BY DEF Weight, Payload

LEMMA WholeWeighs ==
    ASSUME NEW line, Whole(line)
    PROVE  Weight(line) \in Nat /\ IsRecord(line)
  BY DEF Whole, Weight, Payload, IsRecord

(* A stamped entry is a whole record that weighs what the entry did.       *)
LEMMA StampIsWhole ==
    ASSUME NEW r \in Payload, NEW n \in Nat, NEW prev
    PROVE  /\ Whole(Stamp(r, n + 1, prev))
           /\ Weight(Stamp(r, n + 1, prev)) = Weight(r)
           /\ Stamp(r, n + 1, prev).seq = n + 1
           /\ Stamp(r, n + 1, prev).prev = prev
<1>1. PICK k \in {"event", "gap", "checkpoint"}, w \in Nat : r = [kind |-> k, what |-> w]
  BY DEF Payload
<1>2. Stamp(r, n + 1, prev) = [seq |-> n + 1, kind |-> k, what |-> w, prev |-> prev]
  BY <1>1 DEF Stamp
<1>3. n + 1 \in Nat \ {0}
  OBVIOUS
<1> QED
  BY <1>1, <1>2, <1>3 DEF Whole, Weight, Payload

LEMMA WeighedNone ==
    Weighed(<<>>) = 0
<1>1. SumFunctionOnSet([i \in {} |-> Weight(<<>>[i])], {}) = 0
  BY SumOfNoughts, FS_EmptySet
<1>2. DOMAIN <<>> = {}
  OBVIOUS
<1>3. Weighed(<<>>) = SumFunctionOnSet([i \in {} |-> Weight(<<>>[i])], {})
  BY <1>2 DEF Weighed, SumFunction
<1> QED
  BY <1>1, <1>3

LEMMA WeighedIsSum ==
    ASSUME NEW S, NEW list \in Seq(S)
    PROVE  Weighed(list) = SumFunctionOnSet([i \in 1..Len(list) |-> Weight(list[i])],
                                            1..Len(list))
<1>1. DOMAIN list = 1..Len(list)
  OBVIOUS
<1> QED
  BY <1>1 DEF Weighed, SumFunction

LEMMA WeighedIsNat ==
    ASSUME NEW S, NEW list \in Seq(S), \A i \in 1..Len(list) : Weight(list[i]) \in Nat
    PROVE  Weighed(list) \in Nat
<1> DEFINE g == [i \in 1..Len(list) |-> Weight(list[i])]
<1>1. IsFiniteSet(1..Len(list))
  BY IntervalFinite
<1>2. \A i \in 1..Len(list) : g[i] \in Nat
  OBVIOUS
<1>3. Weighed(list) = SumFunctionOnSet(g, 1..Len(list))
  BY WeighedIsSum
<1> HIDE DEF g
<1> QED
  BY <1>1, <1>2, <1>3, SumIsNat

LEMMA WeighedAppend ==
    ASSUME NEW S, NEW list \in Seq(S), \A i \in 1..Len(list) : Weight(list[i]) \in Nat,
           NEW x \in S, Weight(x) \in Nat
    PROVE  Weighed(Append(list, x)) = Weighed(list) + Weight(x)
<1>1. PICK n \in Nat : n = Len(list)
  OBVIOUS
<1>2. PICK t \in Seq(S) : /\ t = Append(list, x) /\ Len(t) = n + 1 /\ t[n + 1] = x
                          /\ \A i \in 1..n : t[i] = list[i]
  <2>1. PICK t : t = Append(list, x)
    OBVIOUS
  <2>2. /\ t \in Seq(S) /\ Len(t) = n + 1 /\ t[n + 1] = x
        /\ \A i \in 1..n : t[i] = list[i]
    BY <1>1, <2>1, AppendProperties
  <2> QED
    BY <2>1, <2>2
<1> DEFINE f == [i \in 1..(n + 1) |-> Weight(t[i])]
           g == [i \in 1..n |-> Weight(list[i])]
<1>3. \A i \in 1..(n + 1) : i = n + 1 \/ i \in 1..n
  OBVIOUS
<1>4. \A i \in 1..n : i \in 1..(n + 1)
  OBVIOUS
<1>5. n + 1 \in 1..(n + 1)
  OBVIOUS
<1>6. /\ \A i \in 1..(n + 1) : f[i] \in Nat
      /\ \A i \in 1..n : g[i] = f[i]
      /\ f[n + 1] = Weight(x)
  BY <1>1, <1>2, <1>3, <1>4, <1>5
<1>7. Weighed(t) = SumFunctionOnSet(f, 1..(n + 1))
  BY <1>2, WeighedIsSum
<1>8. Weighed(list) = SumFunctionOnSet(g, 1..n)
  BY <1>1, WeighedIsSum
<1> HIDE DEF f, g
<1>9. SumFunctionOnSet(f, 1..(n + 1)) = SumFunctionOnSet(g, 1..n) + f[n + 1]
  BY <1>6, SumOneMore
<1> QED
  BY <1>2, <1>6, <1>7, <1>8, <1>9

LEMMA WeighedTail ==
    ASSUME NEW S, NEW list \in Seq(S), \A i \in 1..Len(list) : Weight(list[i]) \in Nat,
           list # <<>>
    PROVE  /\ Weighed(list) = Weight(Head(list)) + Weighed(Tail(list))
           /\ Weight(Head(list)) \in Nat /\ Weighed(Tail(list)) \in Nat
<1>1. PICK n \in Nat : Len(list) = n + 1
  <2>1. Len(list) \in Nat /\ Len(list) # 0
    OBVIOUS
  <2>2. Len(list) - 1 \in Nat /\ Len(list) = (Len(list) - 1) + 1
    BY <2>1
  <2> QED
    BY <2>2
<1>2. PICK t \in Seq(S) : /\ t = Tail(list) /\ Len(t) = n
                          /\ \A i \in 1..n : t[i] = list[i + 1]
  <2>1. PICK t : t = Tail(list)
    OBVIOUS
  <2>2. /\ t \in Seq(S) /\ Len(t) = n
        /\ \A i \in 1..n : t[i] = list[i + 1]
    BY <1>1, <2>1, HeadTailProperties
  <2> QED
    BY <2>1, <2>2
<1>3. Head(list) = list[1]
  OBVIOUS
<1> DEFINE f == [i \in 1..(n + 1) |-> Weight(list[i])]
           g == [i \in 1..n |-> Weight(t[i])]
<1>4. 1 \in 1..(n + 1) /\ \A i \in 1..n : i + 1 \in 1..(n + 1)
  OBVIOUS
<1>5. /\ \A i \in 1..(n + 1) : f[i] \in Nat
      /\ \A i \in 1..n : g[i] = f[i + 1]
      /\ f[1] = Weight(Head(list))
  BY <1>1, <1>2, <1>3, <1>4
<1>6. Weighed(list) = SumFunctionOnSet(f, 1..(n + 1))
  BY <1>1, WeighedIsSum
<1>7. Weighed(t) = SumFunctionOnSet(g, 1..n)
  BY <1>2, WeighedIsSum
<1>8. Weighed(t) \in Nat
  <2>1. \A i \in 1..Len(t) : Weight(t[i]) \in Nat
    BY <1>1, <1>2, <1>4
  <2> HIDE DEF f, g
  <2> QED
    BY <2>1, WeighedIsNat
<1> HIDE DEF f, g
<1>9. SumFunctionOnSet(f, 1..(n + 1)) = f[1] + SumFunctionOnSet(g, 1..n)
  BY <1>5, SumOfRest
<1>10. f[1] \in Nat
  BY <1>4, <1>5
<1> QED
  BY <1>2, <1>5, <1>6, <1>7, <1>8, <1>9, <1>10

(* What one event puts before the writer accounts for the event and for    *)
(* every drop counted so far.                                              *)
LEMMA BatchWeighs ==
    ASSUME NEW e \in Payload, e.kind = "event", dropped \in Nat
    PROVE  Batch(e) \in Seq(Payload) /\ Weighed(Batch(e)) = dropped + 1
<1>1. /\ Gap(dropped) \in Payload /\ Checkpoint \in Payload
      /\ Weight(Gap(dropped)) = dropped /\ Weight(Checkpoint) = 0 /\ Weight(e) = 1
  BY DEF Gap, Checkpoint, Payload, Weight
<1>2. ASSUME NEW list \in Seq(Payload), NEW x \in Payload
      PROVE  Append(list, x) \in Seq(Payload) /\ Weighed(Append(list, x)) = Weighed(list) + Weight(x)
  <2>1. \A i \in 1..Len(list) : Weight(list[i]) \in Nat
    BY PayloadWeighs
  <2> QED
    BY <2>1, PayloadWeighs, WeighedAppend
<1>3. PICK none \in Seq(Payload) : none = <<>> /\ Weighed(none) = 0
  <2>1. <<>> \in Seq(Payload)
    OBVIOUS
  <2> QED
    BY <2>1, WeighedNone
<1>4. PICK g \in Payload : g = Gap(dropped) /\ Weight(g) = dropped
  BY <1>1
<1>5. PICK c \in Payload : c = Checkpoint /\ Weight(c) = 0
  BY <1>1
<1>6. PICK one \in Seq(Payload) : one = <<g>> /\ Weighed(one) = dropped
  <2>1. Append(none, g) \in Seq(Payload) /\ Weighed(Append(none, g)) = 0 + dropped
    BY <1>2, <1>3, <1>4
  <2>2. Append(none, g) = <<g>>
    BY <1>3
  <2>3. 0 + dropped = dropped
    OBVIOUS
  <2> QED
    BY <2>1, <2>2, <2>3, Zenon
<1>7. PICK gap \in Seq(Payload) :
        /\ gap = (IF dropped > 0 THEN <<Gap(dropped)>> ELSE <<>>)
        /\ Weighed(gap) = dropped
  <2>1. ~ (dropped > 0) => dropped = 0
    OBVIOUS
  <2> QED
    BY <1>3, <1>4, <1>6, <2>1
<1>8. PICK two \in Seq(Payload) : two = gap \o <<e>> /\ Weighed(two) = dropped + 1
  <2>1. Append(gap, e) \in Seq(Payload) /\ Weighed(Append(gap, e)) = dropped + 1
    BY <1>1, <1>2, <1>7
  <2>2. Append(gap, e) = gap \o <<e>>
    BY AppendIsConcat
  <2> QED
    BY <2>1, <2>2
<1>9. PICK three \in Seq(Payload) :
        three = two \o <<Checkpoint>> /\ Weighed(three) = dropped + 1
  <2>1. Append(two, c) \in Seq(Payload) /\ Weighed(Append(two, c)) = (dropped + 1) + 0
    BY <1>2, <1>5, <1>8
  <2>2. Append(two, c) = two \o <<c>>
    BY AppendIsConcat
  <2>3. Append(two, c) = two \o <<Checkpoint>> /\ (dropped + 1) + 0 = dropped + 1
    BY <1>5, <2>2
  <2> QED
    BY <2>1, <2>3
<1>10. two \o <<>> = two
  BY ConcatEmptySeq
<1>11. Batch(e) = two \/ Batch(e) = three
  BY <1>7, <1>8, <1>9, <1>10 DEF Batch
<1> QED
  BY <1>8, <1>9, <1>11
-----------------------------------------------------------------------------
(* The newest segment rewritten: the others stay, and so do their places.  *)
LEMMA ActiveSet ==
    ASSUME NEW S, segs \in Seq(Seq(S)), segs # <<>>, NEW lines \in Seq(S)
    PROVE  /\ SetActive(lines) \in Seq(Seq(S)) /\ SetActive(lines) # <<>>
           /\ Len(SetActive(lines)) = Len(segs)
           /\ DOMAIN SetActive(lines) = DOMAIN segs
           /\ SetActive(lines)[Len(segs)] = lines
           /\ \A i \in DOMAIN segs : i # Len(segs) => SetActive(lines)[i] = segs[i]
<1>1. PICK n : n = Len(segs) /\ n \in 1..n /\ n \in Nat
  <2>1. Len(segs) \in 1..Len(segs) /\ Len(segs) \in Nat
    OBVIOUS
  <2> QED
    BY <2>1, Zenon
<1>2. SetActive(lines) = [segs EXCEPT ![n] = lines]
  BY <1>1 DEF SetActive
<1>3. /\ [segs EXCEPT ![n] = lines] \in Seq(Seq(S))
      /\ Len([segs EXCEPT ![n] = lines]) = n
  BY <1>1, ExceptSeq
<1>4. DOMAIN segs = 1..n
  BY <1>1
<1>5. n # 0
  BY <1>1
<1> QED
  BY <1>1, <1>2, <1>3, <1>4, <1>5

LEMMA InitInv == Init => IInv
<1> SUFFICES ASSUME Init PROVE IInv
  OBVIOUS
<1>1. TypeOK
  <2>1. /\ segs # <<>> /\ DOMAIN segs = {1} /\ DOMAIN segs[1] = {}
        /\ DOMAIN written = {}
    BY DEF Init
  <2>2. /\ queue \in Seq(Payload) /\ Len(queue) <= QueueSize
        /\ todo \in Seq(Payload)
    BY SizeAssumption DEF Init
  <2>3. /\ 0 \in 0..(CheckpointEvery - 1) /\ 0 \in 0..MaxEvents
        /\ 0 \in 0..MaxCrashes
    BY SizeAssumption
  <2> QED
    BY <2>1, <2>2, <2>3 DEF Init, TypeOK
<1>2. Listed
  <2>1. << <<>> >> \in Seq(Seq({})) /\ <<>> \in Seq({})
    OBVIOUS
  <2> QED
    BY <2>1 DEF Init, Listed
<1>3. Queued
  BY DEF Init, Queued
<1>4. EveryEventAccounted
  <2>1. Weighed(written) = 0 /\ Weighed(todo) = 0 /\ Len(queue) = 0
    BY WeighedNone DEF Init
  <2> QED
    BY <2>1 DEF Init, EveryEventAccounted
<1>5. Chained
  <2>1. AllRecords
    BY DEF Init, AllRecords
  <2>2. Linked(written)
    BY DEF Init, Linked
  <2>3. IsSuffix(Lined, written)
    <3>1. /\ segs \in Seq(Seq({})) /\ segs # <<>> /\ Len(segs) = 1 /\ segs[1] = <<>>
          /\ written = <<>> /\ written \in Seq({})
      BY DEF Init
    <3>2. Lined = <<>>
      BY <3>1 DEF Lined, FlattenSeq
    <3> QED
      BY <3>1, <3>2, SuffixPlaces
  <2>4. AtEnd
    BY DEF Init, AtEnd
  <2> QED
    BY <2>1, <2>2, <2>3, <2>4 DEF Chained
<1> QED
  BY <1>1, <1>2, <1>3, <1>4, <1>5 DEF IInv

(* What Write and Fail put at the end of the newest segment.               *)
LEMMA HeadOfTodo ==
    ASSUME IInv, todo # <<>>
    PROVE  /\ Head(todo) \in Payload /\ Tail(todo) \in Seq(Payload)
           /\ Weight(Head(todo)) \in Nat /\ Weighed(Tail(todo)) \in Nat
           /\ Weighed(todo) = Weight(Head(todo)) + Weighed(Tail(todo))
<1>1. todo \in Seq(Payload)
  BY DEF IInv, TypeOK
<1>2. \A i \in 1..Len(todo) : Weight(todo[i]) \in Nat
  BY <1>1, PayloadWeighs
<1>3. Head(todo) \in Payload /\ Tail(todo) \in Seq(Payload)
  BY <1>1
<1> QED
  BY <1>1, <1>2, <1>3, WeighedTail

LEMMA TodoIsNat ==
    ASSUME IInv
    PROVE  Weighed(todo) \in Nat
<1>1. todo \in Seq(Payload)
  BY DEF IInv, TypeOK
<1>2. \A i \in 1..Len(todo) : Weight(todo[i]) \in Nat
  BY <1>1, PayloadWeighs
<1> QED
  BY <1>1, <1>2, WeighedIsNat

LEMMA WrittenIsNat ==
    ASSUME IInv
    PROVE  Weighed(written) \in Nat
<1>1. PICK S : written \in Seq(S)
  BY DEF IInv, Listed
<1>2. \A i \in 1..Len(written) : Weight(written[i]) \in Nat
  <2>1. DOMAIN written = 1..Len(written)
    BY <1>1
  <2> QED
    BY <2>1, WholeWeighs DEF IInv, TypeOK
<1> QED
  BY <1>1, <1>2, WeighedIsNat

(* Lines is the newest segment with the record at its end, or with garbage *)
(* where a cut line was.                                                   *)
LEMMA LinesOf ==
    ASSUME NEW S, Cut \in S, Garbage \in S, NEW rec \in S,
           segs \in Seq(Seq(S)), segs # <<>>
    PROVE  /\ Active \in Seq(S) /\ Lines(rec) \in Seq(S)
           /\ ~EndsCut => Lines(rec) = Append(Active, rec)
           /\ EndsCut => Lines(rec) = Append(Front(Active), Garbage)
           /\ EndsCut => Front(Active) \in Seq(S)
           /\ EndsCut => \A j \in 1..Len(Front(Active)) :
                            j \in DOMAIN Active /\ Front(Active)[j] = Active[j]
<1>1. PICK a \in Seq(S) : a = Active
  BY DEF Active, Last
<1>2. CASE EndsCut
  <2>1. a # <<>>
    BY <1>1, <1>2 DEF EndsCut
  <2>2. PICK m \in Nat : Len(a) = m + 1
    <3>1. Len(a) \in Nat /\ Len(a) # 0
      BY <2>1
    <3>2. Len(a) - 1 \in Nat /\ Len(a) = (Len(a) - 1) + 1
      BY <3>1
    <3> QED
      BY <3>2
  <2>3. PICK f : f = Front(a)
    OBVIOUS
  <2>4. /\ f \in Seq(S) /\ Len(f) = m
        /\ \A j \in 1..m : j \in DOMAIN a /\ f[j] = a[j]
    <3>1. f = SubSeq(a, 1, m)
      BY <2>2, <2>3 DEF Front
    <3>2. \A j \in 1..m : a[j] \in S
      BY <2>2
    <3> QED
      BY <2>2, <3>1, <3>2
  <2>5. Append(f, Garbage) = f \o <<Garbage>> /\ Append(f, Garbage) \in Seq(S)
    BY <2>4, AppendIsConcat, AppendProperties
  <2>6. Lines(rec) = f \o <<Garbage>>
    BY <1>1, <1>2, <2>3 DEF Lines
  <2> QED
    BY <1>1, <1>2, <2>3, <2>4, <2>5, <2>6
<1>3. CASE ~EndsCut
  <2>1. Lines(rec) = Append(a, rec)
    BY <1>1, <1>3 DEF Lines
  <2> QED
    BY <1>1, <1>3, <2>1, AppendProperties
<1> QED
  BY <1>2, <1>3
-----------------------------------------------------------------------------
LEMMA SomeLines ==
    ASSUME IInv, NEW x
    PROVE  \E S : /\ x \in S /\ Cut \in S /\ Garbage \in S
                  /\ segs \in Seq(Seq(S)) /\ written \in Seq(S)
<1>1. PICK S : segs \in Seq(Seq(S)) /\ written \in Seq(S)
  BY DEF IInv, Listed
<1>2. PICK T : T = S \cup {x, Cut, Garbage}
  OBVIOUS
<1>3. Seq(S) \subseteq Seq(T)
  BY <1>2, SeqMonotonic
<1>4. Seq(Seq(S)) \subseteq Seq(Seq(T))
  BY <1>3, SeqMonotonic
<1> QED
  BY <1>1, <1>2, <1>3, <1>4

Sound(line) == line \in {Cut, Garbage} \/ Whole(line)

(* The newest segment gains one sound line.                                *)
LEMMA GrowsSound ==
    ASSUME IInv, NEW x, Sound(x), segs' = SetActive(Append(Active, x))
    PROVE  /\ segs' # <<>>
           /\ \A i \in DOMAIN segs' : \A j \in DOMAIN segs'[i] : Sound(segs'[i][j])
           /\ \E S : x \in S /\ segs' \in Seq(Seq(S)) /\ written \in Seq(S)
<1>1. PICK S : x \in S /\ segs \in Seq(Seq(S)) /\ written \in Seq(S)
  BY SomeLines
<1>2. segs # <<>>
  BY DEF IInv, TypeOK
<1>3. PICK a \in Seq(S) : a = Active /\ a = segs[Len(segs)] /\ Len(segs) \in DOMAIN segs
  BY <1>1, <1>2 DEF Active, Last
<1>4. PICK b \in Seq(S) : b = Append(a, x)
  BY <1>1, AppendProperties
<1>5. \A j \in DOMAIN b : Sound(b[j])
  <2>1. PICK n \in Nat : n = Len(a) /\ DOMAIN a = 1..n
    OBVIOUS
  <2>2. \A j \in 1..n : Sound(a[j])
    BY <1>2, <1>3, <2>1 DEF IInv, TypeOK, Sound
  <2>3. /\ DOMAIN b = 1..(n + 1) /\ b[n + 1] = x
        /\ \A j \in 1..n : b[j] = a[j]
    BY <1>1, <1>4, <2>1
  <2>4. \A j \in 1..(n + 1) : j = n + 1 \/ j \in 1..n
    OBVIOUS
  <2> QED
    BY <2>2, <2>3, <2>4
<1>6. segs' = SetActive(b)
  BY <1>3, <1>4
<1>7. /\ segs' \in Seq(Seq(S)) /\ segs' # <<>> /\ DOMAIN segs' = DOMAIN segs
      /\ segs'[Len(segs)] = b
      /\ \A i \in DOMAIN segs : i # Len(segs) => segs'[i] = segs[i]
  BY <1>1, <1>2, <1>6, ActiveSet
<1>8. ASSUME NEW i \in DOMAIN segs'
      PROVE  \A j \in DOMAIN segs'[i] : Sound(segs'[i][j])
  <2>1. CASE i = Len(segs)
    BY <1>5, <1>7, <2>1
  <2>2. CASE i # Len(segs)
    BY <1>7, <2>2 DEF IInv, TypeOK, Sound
  <2> QED
    BY <2>1, <2>2
<1> QED
  BY <1>1, <1>7, <1>8

(* While nothing is written the chain stays what it was.                   *)
LEMMA ChainStays ==
    ASSUME IInv, UNCHANGED <<segs, written, spoiled>>,
           status' # "down" /\ ~broken' =>
             status # "down" /\ ~broken /\ UNCHANGED <<seq, head>>
    PROVE  Listed' /\ Chained'
<1>1. Listed'
  BY DEF IInv, Listed
<1>2. Chained'
  <2>1. AllRecords' <=> AllRecords
    BY DEF AllRecords
  <2>2. Linked(written)' <=> Linked(written)
    BY DEF Linked
  <2>3. IsSuffix(Lined, written)' <=> IsSuffix(Lined, written)
    BY DEF Lined
  <2>4. ASSUME status' # "down" /\ ~broken'
        PROVE  AtEnd' <=> AtEnd
    BY <2>4 DEF AtEnd
  <2>5. ASSUME ~spoiled
        PROVE  AllRecords' /\ Linked(written)' /\ IsSuffix(Lined, written)'
    BY <2>1, <2>2, <2>3, <2>5 DEF IInv, Chained
  <2>6. ASSUME ~spoiled, status' # "down" /\ ~broken'
        PROVE  AtEnd'
    BY <2>4, <2>6 DEF IInv, Chained
  <2> QED
    BY <2>5, <2>6 DEF Chained
<1> QED
  BY <1>1, <1>2

(* The equation an invariant step starts from, and the one it must reach.  *)
LEMMA Accounts ==
    ASSUME IInv
    PROVE  /\ logged = Weighed(written) + Weighed(todo) + Len(queue)
                         + sending + counting + dropped + lost
           /\ Weighed(written) \in Nat /\ Weighed(todo) \in Nat /\ Len(queue) \in Nat
           /\ sending \in Nat /\ counting \in Nat /\ dropped \in Nat /\ lost \in Nat
  BY TodoIsNat, WrittenIsNat DEF IInv, TypeOK, EveryEventAccounted

(* The entry at the head of what is to be appended is lost, not written.   *)
LEMMA AccountsLoss ==
    ASSUME IInv, NEW n \in Nat, NEW w \in Nat, Weighed(todo) = n + w
    PROVE  logged = Weighed(written) + w + Len(queue)
                      + sending + counting + dropped + (lost + n)
<1>1. logged = Weighed(written) + (n + w) + Len(queue) + sending + counting + dropped + lost
  BY Accounts
<1>2. /\ Weighed(written) \in Nat /\ Len(queue) \in Nat
      /\ sending \in Nat /\ counting \in Nat /\ dropped \in Nat /\ lost \in Nat
  BY Accounts
<1>3. PICK a \in Nat, q \in Nat, s \in Nat, c \in Nat, d \in Nat, l \in Nat :
         /\ a = Weighed(written) /\ q = Len(queue)
         /\ s = sending /\ c = counting /\ d = dropped /\ l = lost
  BY <1>2, Zenon
<1>4. a + (n + w) + q + s + c + d + l = a + w + q + s + c + d + (l + n)
  OBVIOUS
<1> QED
  BY <1>1, <1>3, <1>4, Zenon

(* The equation over plain numbers, for the steps that move an event.      *)
LEMMA AccountsNumbers ==
    ASSUME IInv
    PROVE  \E w, t, n, s, c, d, l \in Nat :
             /\ w = Weighed(written) /\ t = Weighed(todo) /\ n = Len(queue)
             /\ s = sending /\ c = counting /\ d = dropped /\ l = lost
             /\ logged = w + t + n + s + c + d + l
  BY Accounts

LEMMA OneMoves ==
    ASSUME NEW w \in Nat, NEW t \in Nat, NEW n \in Nat, NEW s \in Nat, NEW c \in Nat,
           NEW d \in Nat, NEW l \in Nat
    PROVE  /\ w + t + n + s + c + d + l = w + t + n + (s - 1) + c + d + (l + 1)
           /\ w + t + n + s + c + d + l = w + t + n + s + (c - 1) + (d + 1) + l
  OBVIOUS

LEMMA AccountsNext ==
    ASSUME logged' = Weighed(written') + Weighed(todo') + Len(queue') + sending' + counting'
                       + dropped' + lost'
    PROVE  EveryEventAccounted'
  BY DEF EveryEventAccounted

LEMMA LogStep == IInv /\ Log => IInv'
<1> SUFFICES ASSUME IInv, Log PROVE IInv'
  OBVIOUS
<1>1. /\ logged' = logged + 1 /\ sending' = sending + 1
      /\ logged' \in 0..MaxEvents /\ sending' \in Nat
      /\ UNCHANGED <<queue, counting, dropped, todo, written, lost>>
  BY SizeAssumption DEF IInv, TypeOK, Log
<1>2. TypeOK'
  BY <1>1 DEF IInv, TypeOK, Log
<1>3. Queued'
  BY <1>1 DEF IInv, Queued
<1>4. EveryEventAccounted'
  <2>1. logged + 1 = Weighed(written) + Weighed(todo) + Len(queue)
                       + (sending + 1) + counting + dropped + lost
    <3>1. PICK w \in Nat, t \in Nat, n \in Nat, s \in Nat, c \in Nat, d \in Nat, l \in Nat :
             /\ w = Weighed(written) /\ t = Weighed(todo) /\ n = Len(queue)
             /\ s = sending /\ c = counting /\ d = dropped /\ l = lost
             /\ logged = w + t + n + s + c + d + l
      BY AccountsNumbers, Zenon
    <3>2. (w + t + n + s + c + d + l) + 1 = w + t + n + (s + 1) + c + d + l
      OBVIOUS
    <3> QED
      BY <3>1, <3>2, Zenon
  <2> QED
    BY <1>1, <2>1, AccountsNext
<1>5. Listed' /\ Chained'
  BY ChainStays DEF Log
<1> QED
  BY <1>2, <1>3, <1>4, <1>5 DEF IInv

(* A handler that has yet to send has its event among those logged.        *)
LEMMA SendStep == IInv /\ Send => IInv'
<1> SUFFICES ASSUME IInv, Send PROVE IInv'
  OBVIOUS
<1>1. /\ sending > 0 /\ sending' = sending - 1 /\ sending' \in Nat
      /\ UNCHANGED <<status, dropped, todo, sinceCP, seq, head, broken, segs,
                     logged, written, lost, spoiled, crashes>>
  BY DEF IInv, TypeOK, Send
<1>2. PICK e : e = Event(logged - sending + 1) /\ e \in Payload /\ e.kind = "event"
  <2>1. logged - sending \in Nat
    BY Accounts
  <2>2. /\ Event(logged - sending + 1) \in Payload
        /\ Event(logged - sending + 1).kind = "event"
    BY <2>1 DEF Event, Payload
  <2> QED
    BY <2>2
<1>3. CASE HasRoom
  <2>1. queue' = Append(queue, e) /\ UNCHANGED counting
    BY <1>2, <1>3 DEF Send
  <2>2. PICK n \in Nat : n = Len(queue) /\ queue \in Seq(Payload) /\ n < QueueSize
    BY <1>3 DEF IInv, TypeOK, HasRoom
  <2>3. /\ queue' \in Seq(Payload) /\ Len(queue') = n + 1
        /\ queue'[n + 1] = e /\ \A i \in 1..n : queue'[i] = queue[i]
    BY <1>2, <2>1, <2>2, AppendProperties
  <2>4. TypeOK'
    <3>1. Len(queue') <= QueueSize
      BY <2>2, <2>3, SizeAssumption
    <3> QED
      BY <1>1, <2>1, <2>3, <3>1 DEF IInv, TypeOK
  <2>5. Queued'
    <3>1. DOMAIN queue' = 1..(n + 1) /\ DOMAIN queue = 1..n
      BY <2>2, <2>3
    <3>2. \A i \in 1..(n + 1) : i = n + 1 \/ i \in 1..n
      OBVIOUS
    <3> QED
      BY <1>2, <2>3, <3>1, <3>2 DEF IInv, Queued
  <2>6. EveryEventAccounted'
    <3>1. logged = Weighed(written) + Weighed(todo) + (n + 1)
                     + (sending - 1) + counting + dropped + lost
      <4>1. logged = Weighed(written) + Weighed(todo) + (Len(queue) + 1)
                       + (sending - 1) + counting + dropped + lost
        BY Accounts
      <4> QED
        BY <2>2, <4>1
    <3> QED
      BY <1>1, <2>1, <2>3, <3>1, AccountsNext
  <2>7. Listed' /\ Chained'
    BY <1>1, ChainStays
  <2> QED
    BY <2>4, <2>5, <2>6, <2>7 DEF IInv
<1>4. CASE ~HasRoom
  <2>1. counting' = counting + 1 /\ UNCHANGED queue
    BY <1>4 DEF Send
  <2>2. TypeOK'
    BY <1>1, <2>1 DEF IInv, TypeOK
  <2>3. Queued'
    BY <2>1 DEF IInv, Queued
  <2>4. EveryEventAccounted'
    <3>1. logged = Weighed(written) + Weighed(todo) + Len(queue)
                     + (sending - 1) + (counting + 1) + dropped + lost
      BY Accounts
    <3> QED
      BY <1>1, <2>1, <3>1, AccountsNext
  <2>5. Listed' /\ Chained'
    BY <1>1, ChainStays
  <2> QED
    BY <2>2, <2>3, <2>4, <2>5 DEF IInv
<1> QED
  BY <1>3, <1>4

LEMMA PanicStep == IInv /\ Panic => IInv'
<1> SUFFICES ASSUME IInv, Panic PROVE IInv'
  OBVIOUS
<1>1. /\ sending > 0 /\ sending' = sending - 1 /\ sending' \in Nat
      /\ lost' = lost + 1 /\ lost' \in Nat
      /\ UNCHANGED <<status, queue, counting, dropped, todo, sinceCP, seq, head,
                     broken, segs, logged, written, spoiled, crashes>>
  BY DEF IInv, TypeOK, Panic
<1>2. TypeOK'
  BY <1>1 DEF IInv, TypeOK
<1>3. Queued'
  BY <1>1 DEF IInv, Queued
<1>4. EveryEventAccounted'
  <2>1. PICK w, t, n, s, c, d, l \in Nat :
          /\ w = Weighed(written) /\ t = Weighed(todo) /\ n = Len(queue)
          /\ s = sending /\ c = counting /\ d = dropped /\ l = lost
          /\ logged = w + t + n + s + c + d + l
    BY AccountsNumbers
  <2>2. w + t + n + s + c + d + l = w + t + n + (s - 1) + c + d + (l + 1)
    BY OneMoves
  <2>3. logged = w + t + n + (s - 1) + c + d + (l + 1)
    BY <2>1, <2>2, Zenon
  <2> QED
    BY <1>1, <2>1, <2>3, AccountsNext
<1>5. Listed' /\ Chained'
  BY <1>1, ChainStays
<1> QED
  BY <1>2, <1>3, <1>4, <1>5 DEF IInv

LEMMA DropStep == IInv /\ Drop => IInv'
<1> SUFFICES ASSUME IInv, Drop PROVE IInv'
  OBVIOUS
<1>2. TypeOK'
  BY DEF IInv, TypeOK, Drop
<1>3. Queued'
  BY DEF IInv, Queued, Drop
<1>4. EveryEventAccounted'
  <2>1. /\ UNCHANGED <<written, todo, queue, sending, lost, logged>>
        /\ counting > 0 /\ counting' = counting - 1 /\ dropped' = dropped + 1
    BY DEF Drop
  <2>2. PICK w, t, n, s, c, d, l \in Nat :
          /\ w = Weighed(written) /\ t = Weighed(todo) /\ n = Len(queue)
          /\ s = sending /\ c = counting /\ d = dropped /\ l = lost
          /\ logged = w + t + n + s + c + d + l
    BY AccountsNumbers
  <2>3. w + t + n + s + c + d + l = w + t + n + s + (c - 1) + (d + 1) + l
    BY OneMoves
  <2>4. logged = w + t + n + s + (c - 1) + (d + 1) + l
    BY <2>2, <2>3, Zenon
  <2> QED
    BY <2>1, <2>2, <2>4, AccountsNext
<1>5. Listed' /\ Chained'
  BY ChainStays DEF Drop
<1> QED
  BY <1>2, <1>3, <1>4, <1>5 DEF IInv

LEMMA DequeueStep == IInv /\ Dequeue => IInv'
<1> SUFFICES ASSUME IInv, Dequeue PROVE IInv'
  OBVIOUS
<1>1. PICK n \in Nat : Len(queue) = n + 1 /\ queue \in Seq(Payload) /\ n + 1 <= QueueSize
  <2>1. queue \in Seq(Payload) /\ queue # <<>> /\ Len(queue) <= QueueSize
    BY DEF IInv, TypeOK, Dequeue
  <2>2. Len(queue) \in Nat /\ Len(queue) # 0
    BY <2>1
  <2>3. Len(queue) - 1 \in Nat /\ Len(queue) = (Len(queue) - 1) + 1
    BY <2>2
  <2> QED
    BY <2>1, <2>3
<1>2. PICK e \in Payload : e = Head(queue) /\ e.kind = "event"
  <2>1. Head(queue) = queue[1] /\ 1 \in DOMAIN queue /\ Head(queue) \in Payload
    BY <1>1
  <2> QED
    BY <2>1 DEF IInv, Queued
<1>3. /\ queue' \in Seq(Payload) /\ Len(queue') = n
      /\ \A i \in 1..n : queue'[i] = queue[i + 1]
  <2>1. queue' = Tail(queue)
    BY DEF Dequeue
  <2> QED
    BY <1>1, <2>1, HeadTailProperties
<1>4. todo' \in Seq(Payload) /\ Weighed(todo') = dropped + 1 /\ todo = <<>>
  <2>1. todo' = Batch(e) /\ todo = <<>>
    BY <1>2 DEF Dequeue
  <2>2. dropped \in Nat
    BY DEF IInv, TypeOK
  <2> QED
    BY <1>2, <2>1, <2>2, BatchWeighs
<1>5. dropped' = 0
  BY DEF Dequeue, DroppedSwapped
<1>6. TypeOK'
  <2>1. Len(queue') <= QueueSize
    BY <1>1, <1>3, SizeAssumption
  <2>2. sinceCP' \in 0..(CheckpointEvery - 1)
    BY SizeAssumption DEF IInv, TypeOK, Dequeue
  <2> QED
    BY <1>3, <1>4, <1>5, <2>1, <2>2 DEF IInv, TypeOK, Dequeue
<1>7. Queued'
  <2>1. DOMAIN queue' = 1..n /\ DOMAIN queue = 1..(n + 1)
    BY <1>1, <1>3
  <2>2. \A i \in 1..n : i + 1 \in 1..(n + 1)
    OBVIOUS
  <2> QED
    BY <1>3, <2>1, <2>2 DEF IInv, Queued
<1>8. EveryEventAccounted'
  <2>1. UNCHANGED <<written, sending, counting, lost, logged>> /\ Weighed(todo) = 0
    BY <1>4, WeighedNone DEF Dequeue
  <2>2. logged = Weighed(written) + (dropped + 1) + n + sending + counting + 0 + lost
    BY <1>1, <2>1, Accounts
  <2> QED
    BY <1>3, <1>4, <1>5, <2>1, <2>2, AccountsNext
<1>9. Listed' /\ Chained'
  BY ChainStays DEF Dequeue
<1> QED
  BY <1>6, <1>7, <1>8, <1>9 DEF IInv

LEMMA RotateStep == IInv /\ Rotate => IInv'
<1> SUFFICES ASSUME IInv, Rotate PROVE IInv'
  OBVIOUS
<1>1. PICK S : segs \in Seq(Seq(S)) /\ written \in Seq(S)
  BY DEF IInv, Listed
<1>2. PICK n \in Nat : n = Len(segs) /\ DOMAIN segs = 1..n
  BY <1>1
<1>3. /\ segs' \in Seq(Seq(S)) /\ segs' # <<>> /\ DOMAIN segs' = 1..(n + 1)
      /\ segs'[n + 1] = <<>> /\ \A i \in 1..n : segs'[i] = segs[i]
  <2>1. segs' = Append(segs, <<>>) /\ <<>> \in Seq(S)
    BY DEF Rotate
  <2> QED
    BY <1>1, <1>2, <2>1, AppendProperties
<1>4. \A i \in 1..(n + 1) : i = n + 1 \/ i \in 1..n
  OBVIOUS
<1>5. DOMAIN segs'[n + 1] = {}
  BY <1>3
<1>6. TypeOK'
  <2>1. \A i \in DOMAIN segs' : \A j \in DOMAIN segs'[i] :
           segs'[i][j] \in {Cut, Garbage} \/ Whole(segs'[i][j])
    BY <1>2, <1>3, <1>4, <1>5 DEF IInv, TypeOK
  <2> QED
    BY <1>3, <2>1 DEF IInv, TypeOK, Rotate
<1>7. Listed'
  <2>1. written' \in Seq(S)
    BY <1>1 DEF Rotate
  <2> QED
    BY <1>3, <2>1 DEF Listed
<1>8. Queued'
  BY DEF IInv, Queued, Rotate
<1>9. EveryEventAccounted'
  BY DEF IInv, EveryEventAccounted, Rotate
<1>10. Chained'
  <2>1. SUFFICES ASSUME ~spoiled
                 PROVE  /\ AllRecords' /\ Linked(written)' /\ IsSuffix(Lined, written)'
                        /\ status' # "down" /\ ~broken' => AtEnd'
    BY DEF Chained, Rotate
  <2>2. AllRecords'
    <3>1. \A i \in 1..n : \A j \in DOMAIN segs[i] : IsRecord(segs[i][j])
      BY <1>2, <2>1 DEF IInv, Chained, AllRecords
    <3> QED
      BY <1>3, <1>4, <1>5, <3>1 DEF AllRecords
  <2>3. Linked(written)'
    BY <2>1 DEF IInv, Chained, Rotate, Linked
  <2>4. Lined' = Lined
    <3>1. segs' = Append(segs, <<>>) /\ segs # <<>>
      BY DEF IInv, TypeOK, Rotate
    <3>2. FlattenSeq(Append(segs, <<>>)) = FlattenSeq(segs)
      BY <1>1, <3>1, FlattenOneMore
    <3> QED
      BY <3>1, <3>2 DEF Lined
  <2>5. IsSuffix(Lined, written)'
    BY <2>1, <2>4 DEF IInv, Chained, Rotate
  <2>6. AtEnd'
    BY <2>1 DEF IInv, Chained, Rotate, Writing, AtEnd
  <2> QED
    BY <2>2, <2>3, <2>5, <2>6
<1> QED
  BY <1>6, <1>7, <1>8, <1>9, <1>10 DEF IInv

(* A chain stays linked when what follows names its last record.           *)
LEMMA LinkedGrows ==
    ASSUME NEW S, NEW list \in Seq(S), Linked(list), NEW rec \in S, IsRecord(rec),
           list # <<>> => /\ rec.seq = Last(list).seq + 1
                          /\ rec.prev = HashOf(Last(list))
    PROVE  Linked(Append(list, rec))
<1>1. PICK n \in Nat : n = Len(list) /\ DOMAIN list = 1..n
  OBVIOUS
<1>2. PICK t : /\ t = Append(list, rec) /\ DOMAIN t = 1..(n + 1) /\ t[n + 1] = rec
               /\ \A i \in 1..n : t[i] = list[i]
  <2>1. PICK t : t = Append(list, rec)
    OBVIOUS
  <2>2. /\ t \in Seq(S) /\ Len(t) = n + 1 /\ t[n + 1] = rec
        /\ \A i \in 1..n : t[i] = list[i]
    BY <1>1, <2>1, AppendProperties
  <2>3. DOMAIN t = 1..(n + 1)
    BY <2>2
  <2> QED
    BY <2>1, <2>2, <2>3
<1>3. ASSUME NEW i \in 1..(n + 1)
      PROVE  /\ IsRecord(t[i])
             /\ i > 1 => /\ t[i].seq = t[i - 1].seq + 1
                         /\ t[i].prev = HashOf(t[i - 1])
  <2>1. CASE i = n + 1
    <3>1. i > 1 => list # <<>> /\ i - 1 = n /\ n \in 1..n
      BY <1>1, <2>1
    <3>2. i > 1 => t[i - 1] = Last(list)
      BY <1>1, <1>2, <3>1 DEF Last
    <3> QED
      BY <1>2, <2>1, <3>1, <3>2
  <2>2. CASE i # n + 1
    <3>1. i \in 1..n /\ (i > 1 => i - 1 \in 1..n)
      BY <2>2
    <3> QED
      BY <1>1, <1>2, <3>1 DEF Linked
  <2> QED
    BY <2>1, <2>2
<1> QED
  BY <1>2, <1>3 DEF Linked

LEMMA WriteStep == IInv /\ Write => IInv'
<1> SUFFICES ASSUME IInv, Write PROVE IInv'
  OBVIOUS
<1>1. PICK r \in Payload : /\ r = Head(todo) /\ todo # <<>> /\ Weight(r) \in Nat
                           /\ Tail(todo) \in Seq(Payload) /\ Weighed(Tail(todo)) \in Nat
                           /\ Weighed(todo) = Weight(r) + Weighed(Tail(todo))
  BY HeadOfTodo DEF Write, Writing
<1>2. PICK rec : rec = Stamp(r, seq + 1, head)
  OBVIOUS
<1>3. /\ status # "down" /\ ~broken
      /\ segs' = SetActive(Lines(rec))
      /\ written' = IF Last(Lines(rec)) = rec THEN Append(written, rec) ELSE written
      /\ seq' = seq + 1 /\ head' = HashOf(rec)
      /\ todo' = Tail(todo)
      /\ lost' = IF Last(Lines(rec)) = rec THEN lost ELSE lost + Weight(rec)
      /\ UNCHANGED <<status, queue, sending, counting, dropped, sinceCP, broken, logged, spoiled,
                     crashes>>
  BY <1>1, <1>2 DEF Write, Writing, HeadMoves
<1>4. /\ Whole(rec) /\ Weight(rec) = Weight(r) /\ IsRecord(rec)
      /\ rec.seq = seq + 1 /\ rec.prev = head
  <2>1. seq \in Nat
    BY DEF IInv, TypeOK
  <2> QED
    BY <1>2, <2>1, StampIsWhole, WholeWeighs
<1>5. PICK S : /\ rec \in S /\ Cut \in S /\ Garbage \in S
               /\ segs \in Seq(Seq(S)) /\ written \in Seq(S)
  BY SomeLines
<1>6. segs # <<>> /\ Len(segs) \in DOMAIN segs
  BY <1>5 DEF IInv, TypeOK
<1>7. PICK a \in Seq(S) : a = Active /\ a = segs[Len(segs)]
  BY <1>5, <1>6 DEF Active, Last
<1>8. PICK lines \in Seq(S) : lines = Lines(rec)
  BY <1>5, <1>6, LinesOf
<1>9. /\ ~EndsCut => lines = Append(a, rec)
      /\ EndsCut => /\ lines = Append(Front(a), Garbage)
                    /\ Front(a) \in Seq(S)
                    /\ \A j \in 1..Len(Front(a)) : j \in DOMAIN a /\ Front(a)[j] = a[j]
  BY <1>5, <1>6, <1>7, <1>8, LinesOf
<1>10. /\ segs' \in Seq(Seq(S)) /\ segs' # <<>> /\ DOMAIN segs' = DOMAIN segs
       /\ segs'[Len(segs)] = lines
       /\ \A i \in DOMAIN segs : i # Len(segs) => segs'[i] = segs[i]
  BY <1>3, <1>5, <1>6, <1>8, ActiveSet
<1>11. \A j \in DOMAIN lines : Sound(lines[j])
  <2>1. \A j \in DOMAIN a : Sound(a[j])
    BY <1>6, <1>7 DEF IInv, TypeOK, Sound
  <2>2. ASSUME NEW front \in Seq(S), NEW x \in S, Sound(x), lines = Append(front, x),
               \A j \in 1..Len(front) : j \in DOMAIN a /\ front[j] = a[j]
        PROVE  \A j \in DOMAIN lines : Sound(lines[j])
    <3>1. PICK m \in Nat : m = Len(front)
      OBVIOUS
    <3>2. /\ DOMAIN lines = 1..(m + 1) /\ lines[m + 1] = x
          /\ \A j \in 1..m : lines[j] = front[j]
      BY <2>2, <3>1
    <3>3. \A j \in 1..(m + 1) : j = m + 1 \/ j \in 1..m
      OBVIOUS
    <3> QED
      BY <2>1, <2>2, <3>1, <3>2, <3>3
  <2>3. Sound(rec) /\ Sound(Garbage)
    BY <1>4 DEF Sound
  <2>4. \A j \in 1..Len(a) : j \in DOMAIN a
    OBVIOUS
  <2> QED
    BY <1>5, <1>9, <2>2, <2>3, <2>4
<1>12. written' \in Seq(S) /\ \A j \in DOMAIN written' : Whole(written'[j])
  <2>1. \A j \in DOMAIN written : Whole(written[j])
    BY DEF IInv, TypeOK
  <2>2. PICK m \in Nat : m = Len(written) /\ DOMAIN written = 1..m
    BY <1>5
  <2>3. PICK t \in Seq(S) : /\ t = Append(written, rec) /\ DOMAIN t = 1..(m + 1)
                            /\ t[m + 1] = rec /\ \A j \in 1..m : t[j] = written[j]
    <3>1. PICK t : t = Append(written, rec)
      OBVIOUS
    <3>2. /\ t \in Seq(S) /\ Len(t) = m + 1 /\ t[m + 1] = rec
          /\ \A j \in 1..m : t[j] = written[j]
      BY <1>5, <2>2, <3>1, AppendProperties
    <3>3. DOMAIN t = 1..(m + 1)
      BY <3>2
    <3> QED
      BY <3>1, <3>2, <3>3
  <2>4. \A j \in 1..(m + 1) : j = m + 1 \/ j \in 1..m
    OBVIOUS
  <2>5. \A j \in DOMAIN t : Whole(t[j])
    BY <1>4, <2>1, <2>2, <2>3, <2>4
  <2>6. written' = t \/ written' = written
    BY <1>3, <2>3
  <2> QED
    BY <1>5, <2>1, <2>3, <2>5, <2>6
<1>13. TypeOK'
  <2>1. ASSUME NEW i \in DOMAIN segs'
        PROVE  \A j \in DOMAIN segs'[i] : Sound(segs'[i][j])
    <3>1. CASE i = Len(segs)
      BY <1>10, <1>11, <3>1
    <3>2. CASE i # Len(segs)
      BY <1>10, <3>2 DEF IInv, TypeOK, Sound
    <3> QED
      BY <3>1, <3>2
  <2>2. lost' \in Nat /\ seq' \in Nat /\ todo' \in Seq(Payload)
    BY <1>1, <1>3, <1>4 DEF IInv, TypeOK
  <2> QED
    BY <1>3, <1>10, <1>12, <2>1, <2>2 DEF IInv, TypeOK, Sound
<1>14. Listed'
  BY <1>10, <1>12 DEF Listed
<1>15. Queued'
  BY <1>3 DEF IInv, Queued
<1>16. EveryEventAccounted'
  <2>1. PICK w \in Nat : w = Weighed(Tail(todo)) /\ Weighed(todo) = Weight(r) + w
    BY <1>1
  <2>2. CASE Last(Lines(rec)) = rec
    <3>1. written' = Append(written, rec) /\ lost' = lost
      BY <1>3, <2>2
    <3>2. \A i \in 1..Len(written) : Weight(written[i]) \in Nat
      <4>1. \A i \in 1..Len(written) : i \in DOMAIN written
        BY <1>5
      <4> QED
        BY <4>1, WholeWeighs DEF IInv, TypeOK
    <3>3. Weighed(Append(written, rec)) = Weighed(written) + Weight(r)
      BY <1>1, <1>4, <1>5, <3>2, WeighedAppend
    <3>4. logged = (Weighed(written) + Weight(r)) + w + Len(queue) + sending + counting + dropped + lost
      <4>1. logged = Weighed(written) + (Weight(r) + w) + Len(queue) + sending + counting + dropped
                       + lost
        BY <2>1, Accounts
      <4>2. Weight(r) \in Nat
        BY <1>1
      <4> QED
        BY <4>1, <4>2, Accounts
    <3> QED
      BY <1>3, <2>1, <3>1, <3>3, <3>4, AccountsNext
  <2>3. CASE Last(Lines(rec)) # rec
    <3>1. written' = written /\ lost' = lost + Weight(r)
      BY <1>3, <1>4, <2>3
    <3>2. logged = Weighed(written) + w + Len(queue)
                   + sending + counting + dropped + (lost + Weight(r))
      BY <1>1, <2>1, AccountsLoss
    <3> QED
      BY <1>3, <2>1, <3>1, <3>2, AccountsNext
  <2> QED
    BY <2>2, <2>3
<1>17. Chained'
  <2>1. SUFFICES ASSUME ~spoiled
                 PROVE  AllRecords' /\ Linked(written') /\ IsSuffix(Lined', written') /\ AtEnd'
    BY <1>3 DEF Chained, Linked
  <2>2. AllRecords /\ Linked(written) /\ IsSuffix(Lined, written) /\ AtEnd
    BY <1>3, <2>1 DEF IInv, Chained
  <2>3. ~EndsCut
    <3>1. SUFFICES ASSUME EndsCut PROVE FALSE
      OBVIOUS
    <3>2. a # <<>> /\ a[Len(a)] = Cut
      BY <1>7, <3>1 DEF EndsCut, Last
    <3>3. Len(a) \in DOMAIN a
      BY <3>2
    <3>4. IsRecord(Cut)
      BY <1>6, <1>7, <2>2, <3>2, <3>3 DEF AllRecords
    <3> QED
      BY <3>4 DEF IsRecord, Cut
  <2>4. PICK n \in Nat : n = Len(a) /\ DOMAIN a = 1..n
    OBVIOUS
  <2>5. /\ lines = Append(a, rec) /\ DOMAIN lines = 1..(n + 1) /\ lines[n + 1] = rec
        /\ Len(lines) = n + 1 /\ \A j \in 1..n : lines[j] = a[j]
    <3>1. lines = Append(a, rec)
      BY <1>9, <2>3, Zenon
    <3>2. rec \in S
      BY <1>5, Zenon
    <3>3. /\ Len(Append(a, rec)) = n + 1 /\ Append(a, rec)[n + 1] = rec
          /\ DOMAIN Append(a, rec) = 1..(n + 1)
          /\ \A j \in 1..n : Append(a, rec)[j] = a[j]
      BY <2>4, <3>2, AppendProperties
    <3> QED
      BY <3>1, <3>3, Zenon
  <2>6. written' = Append(written, rec)
    BY <1>3, <1>8, <2>5 DEF Last
  <2>7. AllRecords'
    <3>1. \A j \in 1..(n + 1) : j = n + 1 \/ j \in 1..n
      OBVIOUS
    <3>2. \A j \in DOMAIN lines : IsRecord(lines[j])
      BY <1>4, <1>6, <1>7, <2>2, <2>4, <2>5, <3>1 DEF AllRecords
    <3>3. ASSUME NEW i \in DOMAIN segs'
          PROVE  \A j \in DOMAIN segs'[i] : IsRecord(segs'[i][j])
      <4>1. CASE i = Len(segs)
        BY <1>10, <3>2, <4>1
      <4>2. CASE i # Len(segs)
        BY <1>10, <2>2, <4>2 DEF AllRecords
      <4> QED
        BY <4>1, <4>2
    <3> QED
      BY <3>3 DEF AllRecords
  <2>8. Linked(written')
    <3>1. written # <<>> => /\ rec.seq = Last(written).seq + 1
                            /\ rec.prev = HashOf(Last(written))
      BY <1>4, <2>2 DEF AtEnd
    <3>2. Linked(Append(written, rec))
      BY <1>4, <1>5, <2>2, <3>1, LinkedGrows
    <3> QED
      BY <2>6, <3>2
  <2>9. IsSuffix(Lined', written')
    <3>1. segs' = [segs EXCEPT ![Len(segs)] = Append(segs[Len(segs)], rec)]
      BY <1>3, <1>7, <1>8, <2>5 DEF SetActive
    <3>2. FlattenSeq([segs EXCEPT ![Len(segs)] = Append(segs[Len(segs)], rec)])
            = Append(FlattenSeq(segs), rec)
      BY <1>5, <1>6, FlattenLastGrows
    <3>3. Lined' = Append(Lined, rec)
      BY <3>1, <3>2 DEF Lined
    <3>4. Lined \in Seq(S)
      BY <1>5, <1>6, FlattenLast DEF Lined
    <3>5. IsSuffix(Append(Lined, rec), Append(written, rec))
      BY <1>5, <2>2, <3>4, SuffixAppend
    <3> QED
      BY <2>6, <3>3, <3>5
  <2>10. AtEnd'
    <3>1. written' # <<>> /\ Last(written') = rec
      <4>1. /\ Append(written, rec) # <<>>
            /\ Append(written, rec)[Len(Append(written, rec))] = rec
        BY <1>5, AppendProperties
      <4> QED
        BY <2>6, <4>1 DEF Last
    <3> QED
      BY <1>3, <1>4, <3>1 DEF AtEnd
  <2> QED
    BY <2>7, <2>8, <2>9, <2>10
<1> QED
  BY <1>13, <1>14, <1>15, <1>16, <1>17 DEF IInv

(* A line cut short: the chain is spoiled from here on.                    *)
LEMMA CutGrows ==
    ASSUME IInv, segs' = SetActive(Append(Active, Cut)), UNCHANGED written
    PROVE  /\ segs' # <<>>
           /\ \A i \in DOMAIN segs' : \A j \in DOMAIN segs'[i] :
                 segs'[i][j] \in {Cut, Garbage} \/ Whole(segs'[i][j])
           /\ Listed'
<1>1. PICK x : x = Cut /\ Sound(x) /\ segs' = SetActive(Append(Active, x))
  BY DEF Sound
<1>2. /\ segs' # <<>>
      /\ \A i \in DOMAIN segs' : \A j \in DOMAIN segs'[i] : Sound(segs'[i][j])
  BY <1>1, GrowsSound
<1>3. PICK S : segs' \in Seq(Seq(S)) /\ written \in Seq(S)
  BY <1>1, GrowsSound
<1>4. Listed'
  BY <1>3 DEF Listed
<1> QED
  BY <1>2, <1>4 DEF Sound

LEMMA FailStep == IInv /\ Fail => IInv'
<1> SUFFICES ASSUME IInv, Fail PROVE IInv'
  OBVIOUS
<1>1. PICK r \in Payload : /\ r = Head(todo) /\ todo # <<>> /\ Weight(r) \in Nat
                           /\ Tail(todo) \in Seq(Payload) /\ Weighed(Tail(todo)) \in Nat
                           /\ Weighed(todo) = Weight(r) + Weighed(Tail(todo))
  BY HeadOfTodo DEF Fail, Writing
<1>2. /\ broken' = TRUE /\ seq' = seq + 1 /\ lost' = lost + Weight(r) /\ todo' = Tail(todo)
      /\ UNCHANGED <<status, queue, sending, counting, dropped, sinceCP, head, logged, written,
                     crashes>>
  BY <1>1 DEF Fail
<1>3. lost' \in Nat /\ seq' \in Nat /\ todo' \in Seq(Payload)
  BY <1>1, <1>2 DEF IInv, TypeOK
<1>4. Queued'
  BY <1>2 DEF IInv, Queued
<1>5. EveryEventAccounted'
  <2>1. PICK w \in Nat : w = Weighed(Tail(todo)) /\ Weighed(todo) = Weight(r) + w
    BY <1>1
  <2>2. logged = Weighed(written) + w + Len(queue)
                   + sending + counting + dropped + (lost + Weight(r))
    BY <1>1, <2>1, AccountsLoss
  <2> QED
    BY <1>2, <2>1, <2>2, AccountsNext
<1>6. CASE UNCHANGED <<segs, spoiled>>
  <2>1. TypeOK'
    BY <1>2, <1>3, <1>6 DEF IInv, TypeOK
  <2>2. Listed' /\ Chained'
    BY <1>2, <1>6, ChainStays
  <2> QED
    BY <1>4, <1>5, <2>1, <2>2 DEF IInv
<1>7. CASE segs' = SetActive(Append(Active, Cut)) /\ spoiled' = TRUE
  <2>1. TypeOK' /\ Listed'
    BY <1>2, <1>3, <1>7, CutGrows DEF IInv, TypeOK
  <2>2. Chained'
    BY <1>7 DEF Chained
  <2> QED
    BY <1>4, <1>5, <2>1, <2>2 DEF IInv
<1> QED
  BY <1>6, <1>7 DEF Fail

LEMMA FailAgainStep == IInv /\ FailAgain => IInv'
<1> SUFFICES ASSUME IInv, FailAgain PROVE IInv'
  OBVIOUS
<1>1. PICK r \in Payload : /\ r = Head(todo) /\ todo # <<>> /\ Weight(r) \in Nat
                           /\ Tail(todo) \in Seq(Payload) /\ Weighed(Tail(todo)) \in Nat
                           /\ Weighed(todo) = Weight(r) + Weighed(Tail(todo))
  BY HeadOfTodo DEF FailAgain, Writing
<1>2. /\ broken /\ seq' = seq + 1 /\ lost' = lost + Weight(r) /\ todo' = Tail(todo)
      /\ UNCHANGED <<status, queue, sending, counting, dropped, sinceCP, head, broken, segs, logged,
                     written, spoiled, crashes>>
  BY <1>1 DEF FailAgain
<1>3. lost' \in Nat /\ seq' \in Nat /\ todo' \in Seq(Payload)
  BY <1>1, <1>2 DEF IInv, TypeOK
<1>4. TypeOK'
  BY <1>2, <1>3 DEF IInv, TypeOK
<1>5. Queued'
  BY <1>2 DEF IInv, Queued
<1>6. EveryEventAccounted'
  <2>1. PICK w \in Nat : w = Weighed(Tail(todo)) /\ Weighed(todo) = Weight(r) + w
    BY <1>1
  <2>2. logged = Weighed(written) + w + Len(queue)
                   + sending + counting + dropped + (lost + Weight(r))
    BY <1>1, <2>1, AccountsLoss
  <2> QED
    BY <1>2, <2>1, <2>2, AccountsNext
<1>7. Listed' /\ Chained'
  BY <1>2, ChainStays
<1> QED
  BY <1>4, <1>5, <1>6, <1>7 DEF IInv

LEMMA CrashStep == IInv /\ Crash => IInv'
<1> SUFFICES ASSUME IInv, Crash PROVE IInv'
  OBVIOUS
<1>1. /\ status' = "down" /\ queue' = <<>> /\ todo' = <<>> /\ dropped' = 0
      /\ sending' = 0 /\ counting' = 0
      /\ lost' = lost + sending + counting + dropped + Len(queue) + Weighed(todo)
      /\ crashes' \in 0..MaxCrashes
      /\ UNCHANGED <<sinceCP, seq, head, broken, logged, written>>
  BY SizeAssumption DEF IInv, TypeOK, Crash
<1>2. lost' \in Nat
  BY <1>1, AccountsNumbers
<1>3. /\ queue' \in Seq(Payload) /\ Len(queue') = 0 /\ DOMAIN queue' = {}
      /\ todo' \in Seq(Payload) /\ Len(queue') <= QueueSize
  BY <1>1, SizeAssumption
<1>4. Queued'
  BY <1>3 DEF Queued
<1>5. EveryEventAccounted'
  <2>1. logged = Weighed(written) + 0 + 0 + 0 + 0 + 0
                   + (lost + sending + counting + dropped + Len(queue) + Weighed(todo))
    BY Accounts
  <2>2. Weighed(todo') = 0
    BY <1>1, WeighedNone
  <2> QED
    BY <1>1, <1>3, <2>1, <2>2, AccountsNext
<1>6. CASE UNCHANGED <<segs, spoiled>>
  <2>1. TypeOK'
    BY <1>1, <1>2, <1>3, <1>6 DEF IInv, TypeOK
  <2>2. Listed' /\ Chained'
    BY <1>1, <1>6, ChainStays
  <2> QED
    BY <1>4, <1>5, <2>1, <2>2 DEF IInv
<1>7. CASE segs' = SetActive(Append(Active, Cut)) /\ spoiled' = TRUE
  <2>1. TypeOK' /\ Listed'
    BY <1>1, <1>2, <1>3, <1>7, CutGrows DEF IInv, TypeOK
  <2>2. Chained'
    BY <1>7 DEF Chained
  <2> QED
    BY <1>4, <1>5, <2>1, <2>2 DEF IInv
<1> QED
  BY <1>6, <1>7 DEF Crash

LEMMA CloseStep == IInv /\ Close => IInv'
<1> SUFFICES ASSUME IInv, Close PROVE IInv'
  OBVIOUS
<1>1. TypeOK'
  BY DEF IInv, TypeOK, Close
<1>2. Queued'
  BY DEF IInv, Queued, Close
<1>3. EveryEventAccounted'
  BY DEF IInv, EveryEventAccounted, Close
<1>4. Listed' /\ Chained'
  BY ChainStays DEF Close
<1> QED
  BY <1>1, <1>2, <1>3, <1>4 DEF IInv

LEMMA DrainedStep == IInv /\ Drained => IInv'
<1> SUFFICES ASSUME IInv, Drained PROVE IInv'
  OBVIOUS
<1>1. /\ status' = "down" /\ dropped' = 0
      /\ sending' = 0 /\ counting' = 0
      /\ lost' = lost + sending + counting + dropped
      /\ UNCHANGED <<queue, todo, sinceCP, seq, head, broken, segs, logged, written,
                     spoiled>>
  BY DEF Drained
<1>2. lost' \in Nat
  <2>1. lost \in Nat /\ sending \in Nat /\ counting \in Nat /\ dropped \in Nat
    BY Accounts
  <2>2. lost + sending + counting + dropped \in Nat
    BY <2>1
  <2> QED
    BY <1>1, <2>2, Zenon
<1>3. crashes' \in 0..MaxCrashes
  BY SizeAssumption DEF IInv, TypeOK, Drained
<1>4. TypeOK'
  BY <1>1, <1>2, <1>3 DEF IInv, TypeOK
<1>5. Queued'
  BY <1>1 DEF IInv, Queued
<1>6. EveryEventAccounted'
  <2>1. logged = Weighed(written) + Weighed(todo) + Len(queue) + 0 + 0 + 0
                   + (lost + sending + counting + dropped)
    <3>1. PICK w \in Nat, t \in Nat, n \in Nat, s \in Nat, c \in Nat, d \in Nat, l \in Nat :
             /\ w = Weighed(written) /\ t = Weighed(todo) /\ n = Len(queue)
             /\ s = sending /\ c = counting /\ d = dropped /\ l = lost
             /\ logged = w + t + n + s + c + d + l
      BY AccountsNumbers, Zenon
    <3>2. w + t + n + s + c + d + l = w + t + n + 0 + 0 + 0 + (l + s + c + d)
      OBVIOUS
    <3> QED
      BY <3>1, <3>2, Zenon
  <2> QED
    BY <1>1, <2>1, AccountsNext
<1>7. Listed' /\ Chained'
  BY <1>1, ChainStays
<1> QED
  BY <1>4, <1>5, <1>6, <1>7 DEF IInv

(* The newest record of a finite set of places.                            *)
LEMMA LatestPlace ==
    ASSUME NEW n \in Nat, n # 0
    PROVE  Max(1..n) = n
<1>1. n \in 1..n /\ \A y \in 1..n : n >= y
  OBVIOUS
<1>2. \A x \in 1..n : (\A y \in 1..n : x >= y) => x = n
  BY <1>1
<1> QED
  BY <1>1, <1>2 DEF Max

LEMMA OpenStep == IInv /\ Open => IInv'
<1> SUFFICES ASSUME IInv, Open PROVE IInv'
  OBVIOUS
<1>1. PICK S : segs \in Seq(Seq(S)) /\ written \in Seq(S)
  BY DEF IInv, Listed
<1>2. segs # <<>> /\ Len(segs) \in DOMAIN segs
  BY <1>1 DEF IInv, TypeOK
<1>3. PICK a \in Seq(S) : a = Active /\ a = segs[Len(segs)]
  BY <1>1, <1>2 DEF Active, Last
<1>4. PICK n \in Nat : n = Len(a) /\ DOMAIN a = 1..n
  OBVIOUS
<1>5. /\ status' = "up" /\ broken' = FALSE /\ sinceCP' = 0
      /\ UNCHANGED <<queue, sending, counting, dropped, todo, segs, logged, written, lost, crashes>>
  BY DEF Open, Reopened
<1>6. Readable \subseteq DOMAIN a /\ \A j \in Readable : IsRecord(a[j])
  BY <1>3 DEF Readable
<1>7. Readable # {} => Max(Readable) \in Readable
  <2>1. SUFFICES ASSUME Readable # {}
                 PROVE  \E x \in Readable : \A y \in Readable : x >= y
    BY DEF Max
  <2>2. Readable \in SUBSET (1..n)
    BY <1>4, <1>6
  <2> DEFINE Left == {n - j : j \in Readable}
  <2>3. Left \in SUBSET Nat /\ Left # {}
    <3>1. \A j \in Readable : n - j \in Nat
      BY <2>2
    <3> QED
      BY <2>1, <3>1
  <2>4. PICK k \in Left : \A m \in Left : k <= m
    <3> HIDE DEF Left
    <3> QED
      BY <2>3, LeastNumber
  <2>5. PICK x \in Readable : k = n - x
    BY <2>4
  <2>6. \A y \in Readable : n - x <= n - y
    BY <2>4, <2>5
  <2> QED
    BY <2>2, <2>5, <2>6
<1>8. seq' \in Nat
  <2>1. CASE Readable = {}
    BY <2>1 DEF Open
  <2>2. CASE Readable # {}
    <3>1. PICK j : j = Max(Readable) /\ j \in DOMAIN a /\ IsRecord(a[j])
      BY <1>6, <1>7, <2>2
    <3>2. Whole(a[j])
      BY <1>2, <1>3, <3>1 DEF IInv, TypeOK, IsRecord, Cut, Garbage
    <3>3. seq' = a[j].seq
      BY <1>3, <2>2, <3>1 DEF Open, Resumable
    <3> QED
      BY <3>2, <3>3 DEF Whole
  <2> QED
    BY <2>1, <2>2
<1>9. TypeOK'
  <2>1. 0 \in 0..(CheckpointEvery - 1)
    BY SizeAssumption
  <2>2. spoiled' \in BOOLEAN
    BY DEF IInv, TypeOK, Open
  <2> QED
    BY <1>5, <1>8, <2>1, <2>2 DEF IInv, TypeOK
<1>10. Listed'
  BY <1>5 DEF IInv, Listed
<1>11. Queued'
  BY <1>5 DEF IInv, Queued
<1>12. EveryEventAccounted'
  BY <1>5 DEF IInv, EveryEventAccounted
<1>13. Chained'
  <2>1. SUFFICES ASSUME ~spoiled'
                 PROVE  AllRecords' /\ Linked(written') /\ IsSuffix(Lined', written') /\ AtEnd'
    BY DEF Chained, Linked
  <2>2. ~spoiled /\ (Readable = {} => written = <<>>)
    BY <2>1 DEF IInv, TypeOK, Open
  <2>3. AllRecords /\ Linked(written) /\ IsSuffix(Lined, written)
    BY <2>2 DEF IInv, Chained
  <2>4. AllRecords' /\ Linked(written') /\ IsSuffix(Lined', written')
    BY <1>5, <2>3 DEF AllRecords, Lined
  <2>5. Readable = 1..n
    BY <1>2, <1>3, <1>4, <2>3 DEF Readable, AllRecords
  <2>6. CASE n = 0
    <3>1. Readable = {} /\ written = <<>>
      BY <2>2, <2>5, <2>6
    <3> QED
      BY <1>5, <2>4, <3>1 DEF AtEnd, Open
  <2>7. CASE n # 0
    <3>1. n \in 1..n /\ a # <<>>
      BY <1>4, <2>7
    <3>2. Readable # {} /\ Resumable = Last(a)
      <4>1. Max(Readable) = n
        BY <2>5, <2>7, LatestPlace
      <4> QED
        BY <1>3, <1>4, <2>5, <3>1, <4>1 DEF Resumable, Last
    <3>3. Lined \in Seq(S) /\ Lined # <<>> /\ Last(Lined) = Last(a)
      BY <1>1, <1>2, <1>3, <3>1, FlattenLast DEF Lined
    <3>4. written # <<>> /\ Last(written) = Last(a)
      BY <1>1, <2>3, <3>3, SuffixEnds
    <3> QED
      BY <1>5, <2>4, <3>2, <3>4 DEF AtEnd, Open
  <2> QED
    BY <2>6, <2>7
<1> QED
  BY <1>9, <1>10, <1>11, <1>12, <1>13 DEF IInv

LEMMA PruneStep == IInv /\ Prune => IInv'
<1> SUFFICES ASSUME IInv, Prune PROVE IInv'
  OBVIOUS
<1>1. PICK S : segs \in Seq(Seq(S)) /\ written \in Seq(S)
  BY DEF IInv, Listed
<1>2. PICK n \in 1..(Len(segs) - 1) : segs' = SubSeq(segs, n + 1, Len(segs))
  BY DEF Prune
<1>3. PICK m \in Nat : m = Len(segs) /\ DOMAIN segs = 1..m /\ n \in 1..(m - 1)
  BY <1>1
<1>4. /\ segs' \in Seq(Seq(S)) /\ DOMAIN segs' = 1..(m - n) /\ segs' # <<>>
      /\ \A i \in 1..(m - n) : segs'[i] = segs[n + i] /\ n + i \in 1..m
  <2>1. \A i \in (n + 1)..m : segs[i] \in Seq(S)
    BY <1>1, <1>3
  <2>2. /\ segs' \in Seq(Seq(S)) /\ Len(segs') = m - (n + 1) + 1
        /\ \A i \in 1..(m - (n + 1) + 1) : segs'[i] = segs[(n + 1) + i - 1]
    BY <1>2, <1>3, <2>1, SubSeqProperties, SMTT(30)
  <2>3. m - (n + 1) + 1 = m - n /\ m - n # 0 /\ \A i \in 1..(m - n) : (n + 1) + i - 1 = n + i
    BY <1>3
  <2>4. \A i \in 1..(m - n) : n + i \in 1..m
    BY <1>3
  <2>5. Len(segs') = m - n /\ DOMAIN segs' = 1..(m - n) /\ segs' # <<>>
    BY <2>2, <2>3
  <2> QED
    BY <2>2, <2>3, <2>4, <2>5
<1>5. UNCHANGED <<status, queue, sending, counting, dropped, todo, sinceCP, seq, head, broken,
                  logged, written, lost, spoiled, crashes>>
  BY DEF Prune
<1>6. TypeOK'
  <2>1. \A i \in DOMAIN segs' : \A j \in DOMAIN segs'[i] :
           segs'[i][j] \in {Cut, Garbage} \/ Whole(segs'[i][j])
    BY <1>3, <1>4 DEF IInv, TypeOK
  <2> QED
    BY <1>4, <1>5, <2>1 DEF IInv, TypeOK
<1>7. Listed'
  BY <1>1, <1>4, <1>5 DEF Listed
<1>8. Queued'
  BY <1>5 DEF IInv, Queued
<1>9. EveryEventAccounted'
  BY <1>5 DEF IInv, EveryEventAccounted
<1>10. Chained'
  <2>1. SUFFICES ASSUME ~spoiled
                 PROVE  /\ AllRecords' /\ Linked(written') /\ IsSuffix(Lined', written')
                        /\ status' # "down" /\ ~broken' => AtEnd'
    BY <1>5 DEF Chained, Linked
  <2>2. /\ AllRecords /\ Linked(written) /\ IsSuffix(Lined, written)
        /\ status # "down" /\ ~broken => AtEnd
    BY <2>1 DEF IInv, Chained
  <2>3. AllRecords'
    BY <1>3, <1>4, <2>2 DEF AllRecords
  <2>4. IsSuffix(Lined', written')
    <3>1. PICK front \in Seq(S) :
            /\ FlattenSeq(segs') \in Seq(S)
            /\ FlattenSeq(segs) = front \o FlattenSeq(segs')
      BY <1>1, <1>2, FlattenWithoutFront
    <3>2. IsSuffix(FlattenSeq(segs'), written)
      BY <1>1, <2>2, <3>1, SuffixOfSuffix DEF Lined
    <3> QED
      BY <1>5, <3>2 DEF Lined
  <2>5. Linked(written') /\ (status' # "down" /\ ~broken' => AtEnd')
    BY <1>5, <2>2 DEF AtEnd
  <2> QED
    BY <2>3, <2>4, <2>5
<1> QED
  BY <1>6, <1>7, <1>8, <1>9, <1>10 DEF IInv

LEMMA StutterStep == IInv /\ UNCHANGED vars => IInv'
<1> SUFFICES ASSUME IInv, UNCHANGED vars PROVE IInv'
  OBVIOUS
<1>1. TypeOK'
  BY DEF IInv, TypeOK, vars
<1>2. Queued'
  BY DEF IInv, Queued, vars
<1>3. EveryEventAccounted'
  BY DEF IInv, EveryEventAccounted, vars
<1>4. Listed' /\ Chained'
  BY ChainStays DEF vars
<1> QED
  BY <1>1, <1>2, <1>3, <1>4 DEF IInv

LEMMA Invariance == Spec => []IInv
<1>1. IInv /\ [Next]_vars => IInv'
  BY LogStep, SendStep, PanicStep, DropStep, DequeueStep, RotateStep, WriteStep,
     FailStep, FailAgainStep, CrashStep, CloseStep, DrainedStep, OpenStep, PruneStep, StutterStep
     DEF Next, Writer
<1> QED
  BY InitInv, <1>1, PTL DEF Spec
-----------------------------------------------------------------------------
(* What the sink keeps in memory and on disk is what its types say, and    *)
(* its queue never holds more than it was made for (worm.go Log).          *)
THEOREM TypeCorrect == Spec => []TypeOK
<1>1. IInv => TypeOK
  BY DEF IInv
<1> QED
  BY Invariance, <1>1, PTL

(* Whatever is dropped, rotated, lost to an error or a crash, or pruned,   *)
(* every event handed to Log is accounted for once (worm.go Log, run).     *)
THEOREM NoSilentGap == Spec => []EveryEventAccounted
<1>1. IInv => EveryEventAccounted
  BY DEF IInv
<1> QED
  BY Invariance, <1>1, PTL

(* The files are the end of what was ever written as long as no write was  *)
(* cut short and New found its place (worm.go append, resume, Prune).      *)
THEOREM FilesEndTheChain == Spec => []NothingRewritten
<1>1. IInv => NothingRewritten
  BY DEF IInv, Chained, NothingRewritten
<1> QED
  BY Invariance, <1>1, PTL

(* ... and they are one unbroken chain (verify.go Verify, from a point     *)
(* on): being the end of a linked chain, they are linked themselves.       *)
THEOREM ChainUnbroken == Spec => []LinkedUnlessSpoiled
<1>1. IInv => LinkedUnlessSpoiled
  <2>1. SUFFICES ASSUME IInv, ~spoiled PROVE Linked(Lined)
    BY DEF LinkedUnlessSpoiled
  <2>2. PICK S : segs \in Seq(Seq(S)) /\ written \in Seq(S)
    BY <2>1 DEF IInv, Listed
  <2>3. Lined \in Seq(S)
    BY <2>1, <2>2, FlattenLast DEF Lined, IInv, TypeOK
  <2>4. IsSuffix(Lined, written) /\ Linked(written)
    BY <2>1 DEF IInv, Chained
  <2>5. PICK m \in Nat, n \in Nat : m = Len(Lined) /\ n = Len(written)
    BY <2>2, <2>3
  <2>6. m <= n /\ \A i \in 1..m : Lined[i] = written[(n - m) + i]
    BY <2>2, <2>3, <2>4, <2>5, SuffixPlaces
  <2>7. DOMAIN Lined = 1..m /\ DOMAIN written = 1..n
    BY <2>2, <2>3, <2>5
  <2>8. ASSUME NEW i \in 1..m
        PROVE  /\ IsRecord(Lined[i])
               /\ i > 1 => /\ Lined[i].seq = Lined[i - 1].seq + 1
                           /\ Lined[i].prev = HashOf(Lined[i - 1])
    <3>1. PICK k : k = (n - m) + i
      OBVIOUS
    <3>2. /\ k \in 1..n
          /\ i > 1 => i - 1 \in 1..m /\ k > 1 /\ k - 1 = (n - m) + (i - 1)
      BY <2>5, <2>6, <3>1
    <3>3. Lined[i] = written[k] /\ (i > 1 => Lined[i - 1] = written[k - 1])
      BY <2>6, <3>1, <3>2
    <3> QED
      BY <2>4, <2>7, <3>2, <3>3 DEF Linked
  <2> QED
    BY <2>7, <2>8 DEF Linked
<1> QED
  BY Invariance, <1>1, PTL
=============================================================================

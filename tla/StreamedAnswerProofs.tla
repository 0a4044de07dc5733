------------------------ MODULE StreamedAnswerProofs ------------------------
(***************************************************************************)
(* Proofs about a streamed answer (StreamedAnswer): every invariant of its *)
(* run, for any answers, dictionary, deltas and limits.                    *)
(*                                                                         *)
(* 1. Texts.  Hydration is told place by place, so it distributes over a   *)
(*    cut that parts no placeholder (HydrateConcat).  Reading a text goes  *)
(*    on where reading its beginning left off (ReadingConcat), and a rule  *)
(*    that fired stays fired (FiredStaysFired).                            *)
(* 2. The commit rule.  What it lets out of half a line names no program   *)
(*    and closes no span, whatever follows (CommitIndexFacts, TailCut).    *)
(* 3. The scanner.  Faithful(s, fed) says how a scanner and the text it    *)
(*    was given belong together; each of its steps keeps it, and Close     *)
(*    turns it into Settles, from which the verdicts follow.               *)
(* 4. Sizes.  Bounded(s) says what may be left over a size bound: a tail   *)
(*    the next write can only commit or measure.                           *)
(* 5. A replay.  Fits(s, content): while a kept answer that fits the       *)
(*    buffer is written in one piece, no bound is met and nothing recites. *)
(* 6. The answer.  StreamInv is inductive; the theorems follow from it.    *)
(***************************************************************************)
EXTENDS StreamedAnswer, SumsAndSequences, TLAPS

Texts == Seq(Pieces)
-----------------------------------------------------------------------------
(* Hydration.                                                              *)
Resolution(text) == [i \in DOMAIN text |-> Resolved(text, i)]

(* What a placeholder may stand for.                                       *)
Masked == {"disk", "host", "prog"}

LEMMA DictionaryFacts ==
    /\ Masked \subseteq Plain /\ "open" \in Plain
    /\ "open" \notin DOMAIN Dictionary
    /\ Plain \subseteq Pieces /\ DOMAIN Dictionary \subseteq Pieces
    /\ Ends \subseteq Plain /\ Blank \subseteq Plain
    /\ \A index \in DOMAIN Dictionary :
          /\ Dictionary[index] \in Masked
          /\ index \notin Plain
  BY DictionaryAssumption DEF Masked, Plain, Blank, Ends, Pieces

LEMMA ResolutionType ==
    ASSUME NEW S, NEW text \in Seq(S)
    PROVE  /\ Resolution(text) \in Seq(Seq(S \cup Masked))
           /\ Len(Resolution(text)) = Len(text)
           /\ \A i \in 1..Len(text) : Resolution(text)[i] = Resolved(text, i)
<1>1. PICK n : n = Len(text) /\ n \in Nat /\ DOMAIN text = 1..n
  OBVIOUS
<1>2. ASSUME NEW i \in 1..n
      PROVE  Resolved(text, i) \in Seq(S \cup Masked)
  <2>1. text[i] \in S
    BY <1>1
  <2>2. CASE i > 1 /\ Resolves(text[i - 1], text[i])
    <3>1. Dictionary[text[i]] \in Masked
      BY <2>2, DictionaryFacts DEF Resolves
    <3>2. <<Dictionary[text[i]]>> \in Seq(S \cup Masked)
      BY <3>1
    <3> QED
      BY <2>2, <3>2 DEF Resolved
  <2>3. CASE ~ (i > 1 /\ Resolves(text[i - 1], text[i]))
    <3>1. <<>> \in Seq(S \cup Masked) /\ <<text[i]>> \in Seq(S \cup Masked)
      BY <2>1
    <3> QED
      BY <2>3, <3>1 DEF Resolved
  <2> QED
    BY <2>2, <2>3
<1>3. Resolution(text) = [i \in 1..n |-> Resolved(text, i)]
  BY <1>1 DEF Resolution
<1> QED
  BY <1>1, <1>2, <1>3

LEMMA HydrateType ==
    ASSUME NEW S, NEW text \in Seq(S)
    PROVE  Hydrate(text) \in Seq(S \cup Masked)
  BY ResolutionType, FlattenIsSeq DEF Hydrate, Resolution

LEMMA HydrateIsText ==
    ASSUME NEW text \in Texts
    PROVE  Hydrate(text) \in Texts
<1>1. Pieces \cup Masked = Pieces
  BY DictionaryFacts
<1> QED
  BY <1>1, HydrateType DEF Texts

(* Between two texts no placeholder is cut in two.                         *)
SafeCut(a, b) == ~ (a # <<>> /\ b # <<>> /\ Resolves(a[Len(a)], b[1]))

LEMMA HydrateConcat ==
    ASSUME NEW a \in Texts, NEW b \in Texts, SafeCut(a, b)
    PROVE  Hydrate(a \o b) = Hydrate(a) \o Hydrate(b)
<1>1. PICK m, n : m = Len(a) /\ n = Len(b) /\ m \in Nat /\ n \in Nat
  <2>1. Len(a) \in Nat /\ Len(b) \in Nat
    BY DEF Texts
  <2> QED
    BY <2>1, Zenon
<1>2. PICK c : /\ c = a \o b /\ c \in Texts /\ Len(c) = m + n
               /\ \A i \in 1..m : c[i] = a[i]
               /\ \A i \in 1..n : c[m + i] = b[i]
  <2>1. /\ a \o b \in Texts /\ Len(a \o b) = m + n
        /\ \A i \in 1..(m + n) : (a \o b)[i] = IF i <= m THEN a[i] ELSE b[i - m]
    BY <1>1, ConcatProperties DEF Texts
  <2>2. \A i \in 1..m : i \in 1..(m + n) /\ i <= m
    BY <1>1
  <2>3. \A i \in 1..n : m + i \in 1..(m + n) /\ ~ (m + i <= m) /\ (m + i) - m = i
    BY <1>1
  <2>4. /\ \A i \in 1..m : (a \o b)[i] = a[i]
        /\ \A i \in 1..n : (a \o b)[m + i] = b[i]
    BY <2>1, <2>2, <2>3
  <2> QED
    BY <2>1, <2>4
<1>3. ASSUME NEW i \in 1..m
      PROVE  Resolved(c, i) = Resolved(a, i)
  <2>1. c[i] = a[i]
    BY <1>2
  <2>2. i > 1 => c[i - 1] = a[i - 1]
    <3>1. i > 1 => i - 1 \in 1..m
      BY <1>1
    <3> QED
      BY <1>2, <3>1
  <2>3. i < m => i < m + n /\ c[i + 1] = a[i + 1]
    <3>1. i < m => i + 1 \in 1..m /\ i < m + n
      BY <1>1
    <3> QED
      BY <1>2, <3>1
  <2>4. ~ (i < m) => ~ (i < m + n /\ Resolves(c[i], c[i + 1]))
    <3>1. SUFFICES ASSUME ~ (i < m), i < m + n, Resolves(c[i], c[i + 1])
                   PROVE  FALSE
      OBVIOUS
    <3>2. i = m /\ 1 \in 1..n /\ m # 0 /\ n # 0
      BY <1>1, <3>1
    <3>3. c[i] = a[m] /\ c[i + 1] = b[1]
      BY <1>2, <2>1, <3>2
    <3>4. a # <<>> /\ b # <<>>
      BY <1>1, <3>2 DEF Texts
    <3> QED
      BY <1>1, <3>1, <3>3, <3>4 DEF SafeCut
  <2> QED
    BY <1>1, <1>2, <2>1, <2>2, <2>3, <2>4 DEF Resolved
<1>4. ASSUME NEW i \in 1..n
      PROVE  Resolved(c, m + i) = Resolved(b, i)
  <2>1. c[m + i] = b[i] /\ (m + i < m + n <=> i < n)
    BY <1>1, <1>2
  <2>2. i > 1 => m + i > 1 /\ c[(m + i) - 1] = b[i - 1]
    <3>1. i > 1 => i - 1 \in 1..n /\ (m + i) - 1 = m + (i - 1) /\ m + i > 1
      BY <1>1
    <3> QED
      BY <1>2, <3>1
  <2>3. i < n => c[(m + i) + 1] = b[i + 1]
    <3>1. i < n => i + 1 \in 1..n /\ (m + i) + 1 = m + (i + 1)
      BY <1>1
    <3> QED
      BY <1>2, <3>1
  <2>4. ~ (i > 1) => ~ (m + i > 1 /\ Resolves(c[(m + i) - 1], c[m + i]))
    <3>1. SUFFICES ASSUME ~ (i > 1), m + i > 1, Resolves(c[(m + i) - 1], c[m + i])
                   PROVE  FALSE
      OBVIOUS
    <3>2. i = 1 /\ (m + i) - 1 = m /\ m \in 1..m /\ m # 0 /\ n # 0
      BY <1>1, <3>1
    <3>3. c[(m + i) - 1] = a[m] /\ c[m + i] = b[1]
      BY <1>2, <3>2
    <3>4. a # <<>> /\ b # <<>>
      BY <1>1, <3>2 DEF Texts
    <3> QED
      BY <1>1, <3>1, <3>3, <3>4 DEF SafeCut
  <2> QED
    BY <1>1, <1>2, <2>1, <2>2, <2>3, <2>4 DEF Resolved
<1>5. Resolution(c) = Resolution(a) \o Resolution(b)
  <2>1. PICK S : S = Seq(Pieces \cup Masked)
    OBVIOUS
  <2>2. PICK ra, rb, rc : ra = Resolution(a) /\ rb = Resolution(b) /\ rc = Resolution(c)
    OBVIOUS
  <2>3. /\ ra \in Seq(S) /\ Len(ra) = m /\ \A i \in 1..m : ra[i] = Resolved(a, i)
        /\ rb \in Seq(S) /\ Len(rb) = n /\ \A i \in 1..n : rb[i] = Resolved(b, i)
    BY <1>1, <2>1, <2>2, ResolutionType DEF Texts
  <2>4. /\ rc \in Seq(S) /\ Len(rc) = m + n
        /\ \A i \in 1..(m + n) : rc[i] = Resolved(c, i)
    BY <1>2, <2>1, <2>2, ResolutionType DEF Texts
  <2>5. /\ ra \o rb \in Seq(S) /\ Len(ra \o rb) = m + n
        /\ \A i \in 1..(m + n) : (ra \o rb)[i] = IF i <= m THEN ra[i] ELSE rb[i - m]
    BY <2>3, ConcatProperties
  <2>6. ASSUME NEW i \in 1..(m + n)
        PROVE  rc[i] = (ra \o rb)[i]
    <3>1. CASE i <= m
      <4>1. i \in 1..m
        BY <3>1
      <4> QED
        BY <1>3, <2>3, <2>4, <2>5, <3>1, <4>1
    <3>2. CASE ~ (i <= m)
      <4>1. i - m \in 1..n /\ m + (i - m) = i
        BY <1>1, <3>2
      <4>2. Resolved(c, m + (i - m)) = Resolved(b, i - m)
        BY <1>4, <4>1
      <4> QED
        BY <2>3, <2>4, <2>5, <3>2, <4>1, <4>2
    <3> QED
      BY <3>1, <3>2
  <2>7. rc = ra \o rb
    BY <2>4, <2>5, <2>6, SeqEqual
  <2> QED
    BY <2>2, <2>7
<1>6. /\ Resolution(a) \in Seq(Seq(Pieces \cup Masked))
      /\ Resolution(b) \in Seq(Seq(Pieces \cup Masked))
  BY ResolutionType DEF Texts
<1>7. FlattenSeq(Resolution(a) \o Resolution(b))
        = FlattenSeq(Resolution(a)) \o FlattenSeq(Resolution(b))
  BY <1>6, FlattenConcat
<1> QED
  BY <1>2, <1>5, <1>7 DEF Hydrate, Resolution

LEMMA HydrateNone ==
    Hydrate(<<>>) = <<>>
<1>1. Resolution(<<>>) = <<>>
  BY DEF Resolution
<1> QED
  BY <1>1, FlattenNone DEF Hydrate, Resolution

LEMMA HydrateSingle ==
    ASSUME NEW x \in Pieces
    PROVE  Hydrate(<<x>>) = <<x>>
<1>1. PICK t : t = <<x>> /\ t \in Seq(Pieces) /\ Len(t) = 1 /\ t[1] = x /\ DOMAIN t = 1..1
  BY OneSeq, Zenon
<1>2. Resolved(t, 1) = <<x>>
  BY <1>1 DEF Resolved
<1>3. Resolution(t) = [i \in 1..1 |-> <<x>>]
  <2>1. \A i \in 1..1 : Resolved(t, i) = <<x>>
    BY <1>2
  <2> QED
    BY <1>1, <2>1, Zenon DEF Resolution
<1>4. Resolution(t) = << <<x>> >>
  BY <1>3
<1>5. FlattenSeq(<< <<x>> >>) = <<x>>
  BY OneSeq, FlattenOne, Zenon
<1> QED
  BY <1>1, <1>4, <1>5 DEF Hydrate, Resolution

LEMMA HydratePlaceholder ==
    ASSUME NEW x \in DOMAIN Dictionary
    PROVE  Hydrate(<<"open", x>>) = <<Dictionary[x]>>
<1>1. PICK t : /\ t = <<"open", x>> /\ t \in Seq(Pieces) /\ Len(t) = 2
               /\ t[1] = "open" /\ t[2] = x /\ DOMAIN t = 1..2
  <2>1. x \in Pieces /\ "open" \in Pieces
    BY DictionaryFacts
  <2>2. /\ <<"open", x>> \in Seq(Pieces) /\ Len(<<"open", x>>) = 2
        /\ <<"open", x>>[1] = "open" /\ <<"open", x>>[2] = x
        /\ DOMAIN <<"open", x>> = 1..2
    BY <2>1, TwoSeq
  <2> QED
    BY <2>2, Zenon
<1>2. PICK y : y = Dictionary[x] /\ y \in Masked
  BY DictionaryFacts
<1>3. Resolved(t, 1) = <<>> /\ Resolved(t, 2) = <<y>>
  BY <1>1, <1>2 DEF Resolved, Resolves
<1>4. PICK r : r = Resolution(t)
  OBVIOUS
<1>5. r = [i \in 1..2 |-> Resolved(t, i)]
  BY <1>1, <1>4, Zenon DEF Resolution
<1>6. r = <<<<>>, <<y>>>>
  BY <1>3, <1>5
<1>7. r = Append(<<<<>>>>, <<y>>)
  BY <1>6
<1>8. PICK S : S = Masked
  OBVIOUS
<1>9. <<<<>>>> \in Seq(Seq(S)) /\ <<y>> \in Seq(S) /\ <<>> \in Seq(S)
  BY <1>2, <1>8
<1>10. FlattenSeq(r) = FlattenSeq(<<<<>>>>) \o <<y>>
  BY <1>7, <1>9, FlattenAppend
<1>11. FlattenSeq(<<<<>>>>) = <<>>
  BY <1>9, FlattenOne
<1> QED
  BY <1>1, <1>2, <1>4, <1>10, <1>11 DEF Hydrate, Resolution

LEMMA HydrateAppend ==
    ASSUME NEW text \in Texts, NEW x \in Pieces,
           text = <<>> \/ ~ Resolves(text[Len(text)], x)
    PROVE  Hydrate(Append(text, x)) = Append(Hydrate(text), x)
<1>1. <<x>> \in Texts /\ <<x>> # <<>> /\ <<x>>[1] = x
  BY DEF Texts
<1>2. SafeCut(text, <<x>>)
  BY <1>1 DEF SafeCut
<1>3. Hydrate(text \o <<x>>) = Hydrate(text) \o Hydrate(<<x>>)
  BY <1>1, <1>2, HydrateConcat
<1>4. Hydrate(<<x>>) = <<x>>
  BY HydrateSingle
<1>5. text \o <<x>> = Append(text, x)
  BY AppendIsConcat DEF Texts
<1>6. Hydrate(text) \o <<x>> = Append(Hydrate(text), x)
  BY HydrateIsText, AppendIsConcat DEF Texts
<1> QED
  BY <1>3, <1>4, <1>5, <1>6

LEMMA HydrateAppendIndex ==
    ASSUME NEW text \in Texts, NEW x \in DOMAIN Dictionary
    PROVE  Hydrate(Append(Append(text, "open"), x)) = Append(Hydrate(text), Dictionary[x])
<1>1. x \in Pieces /\ "open" \in Pieces /\ Dictionary[x] \in Pieces
  BY DictionaryFacts
<1>2. PICK u : u = <<"open", x>> /\ u \in Texts /\ u # <<>> /\ u[1] = "open"
  <2>1. /\ <<"open", x>> \in Seq(Pieces) /\ <<"open", x>> # <<>>
        /\ <<"open", x>>[1] = "open"
    BY <1>1, TwoSeq
  <2> QED
    BY <2>1, Zenon DEF Texts
<1>3. SafeCut(text, u)
  BY <1>2, DictionaryFacts DEF SafeCut, Resolves
<1>4. Hydrate(text \o u) = Hydrate(text) \o Hydrate(u)
  BY <1>2, <1>3, HydrateConcat
<1>5. Hydrate(u) = <<Dictionary[x]>>
  BY <1>2, HydratePlaceholder
<1>6. text \o u = Append(Append(text, "open"), x)
  <2>1. /\ <<"open">> \in Seq(Pieces) /\ <<x>> \in Seq(Pieces) /\ text \in Seq(Pieces)
        /\ <<"open">> \o <<x>> = u
    <3>1. <<"open">> \o <<x>> = <<"open", x>>
      BY <1>1, TwoSeq
    <3> QED
      BY <1>1, <1>2, <3>1, OneSeq, Zenon DEF Texts
  <2>2. Append(text, "open") = text \o <<"open">> /\ Append(text, "open") \in Seq(Pieces)
    BY <1>1, <2>1, AppendIsConcat
  <2>3. Append(Append(text, "open"), x) = Append(text, "open") \o <<x>>
    BY <1>1, <2>2, AppendIsConcat
  <2>4. (text \o <<"open">>) \o <<x>> = text \o (<<"open">> \o <<x>>)
    BY <2>1, ConcatAssociative
  <2> QED
    BY <2>1, <2>2, <2>3, <2>4
<1>7. Hydrate(text) \o <<Dictionary[x]>> = Append(Hydrate(text), Dictionary[x])
  BY <1>1, HydrateIsText, AppendIsConcat DEF Texts
<1> QED
  BY <1>4, <1>5, <1>6, <1>7

(* Induction over texts, with a placeholder taken in one step.             *)
LEMMA EveryText ==
    ASSUME NEW Good, <<>> \in Good,
           \A t \in Texts : \A x \in Pieces :
              t \in Good /\ (t = <<>> \/ ~ Resolves(t[Len(t)], x)) => Append(t, x) \in Good,
           \A t \in Texts : \A x \in DOMAIN Dictionary :
              t \in Good => Append(Append(t, "open"), x) \in Good
    PROVE  Texts \subseteq Good
<1> DEFINE Fine == {t \in Texts : t \in Good /\ \A u \in Texts : \A x \in Pieces :
                                                  t = Append(u, x) => u \in Good}
<1>1. <<>> \in Fine
  <2>1. \A u \in Texts : \A x \in Pieces : Append(u, x) # <<>>
    BY AppendProperties DEF Texts
  <2>2. <<>> \in Texts
    BY DEF Texts
  <2> QED
    BY <2>1, <2>2
<1>2. ASSUME NEW t \in Texts, NEW x \in Pieces, t \in Fine
      PROVE  Append(t, x) \in Fine
  <2>1. Append(t, x) \in Texts
    BY AppendProperties DEF Texts
  <2>2. ASSUME NEW u \in Texts, NEW y \in Pieces, Append(t, x) = Append(u, y)
        PROVE  u \in Good
    <3>1. t = u
      BY <2>2, AppendInjective DEF Texts
    <3> QED
      BY <1>2, <3>1
  <2>3. CASE t = <<>> \/ ~ Resolves(t[Len(t)], x)
    BY <1>2, <2>1, <2>2, <2>3
  <2>4. CASE t # <<>> /\ Resolves(t[Len(t)], x)
    <3>1. PICK u \in Texts, y \in Pieces : t = Append(u, y)
      BY <2>4, SequenceEmptyOrAppend DEF Texts
    <3>2. t[Len(t)] = y
      BY <3>1, AppendProperties DEF Texts
    <3>3. y = "open" /\ x \in DOMAIN Dictionary
      BY <2>4, <3>2 DEF Resolves
    <3>4. u \in Good
      BY <1>2, <3>1
    <3>5. Append(Append(u, "open"), x) \in Good
      BY <3>3, <3>4
    <3> QED
      BY <2>1, <2>2, <3>1, <3>3, <3>5
  <2> QED
    BY <2>3, <2>4
<1>3. Seq(Pieces) \subseteq Fine
  <2>1. \A t \in Seq(Pieces) : \A x \in Pieces : t \in Fine => Append(t, x) \in Fine
    BY <1>2 DEF Texts
  <2> HIDE DEF Fine
  <2> QED
    BY <1>1, <2>1, EverySequence
<1> QED
  BY <1>3 DEF Texts

LEMMA AppendedText ==
    ASSUME NEW t \in Texts, NEW x \in Pieces
    PROVE  /\ Append(t, x) \in Texts /\ Append(t, x) # <<>>
           /\ Len(Append(t, x)) = Len(t) + 1 /\ Len(t) \in Nat
           /\ Append(t, x)[Len(t) + 1] = x
           /\ \A i \in 1..Len(t) : Append(t, x)[i] = t[i]
  BY AppendProperties DEF Texts

(* Hydration never adds a piece.                                           *)
LEMMA HydrateShrinks ==
    ASSUME NEW text \in Texts
    PROVE  Len(Hydrate(text)) \in Nat /\ Len(Hydrate(text)) <= Len(text)
<1> DEFINE Good == {t \in Texts : Len(Hydrate(t)) \in Nat /\ Len(Hydrate(t)) <= Len(t)}
<1>1. <<>> \in Good
  BY HydrateNone DEF Texts
<1>2. ASSUME NEW t \in Texts, NEW x \in Pieces, t \in Good,
             t = <<>> \/ ~ Resolves(t[Len(t)], x)
      PROVE  Append(t, x) \in Good
  <2>1. Hydrate(Append(t, x)) = Append(Hydrate(t), x)
    BY <1>2, HydrateAppend
  <2>2. Hydrate(t) \in Texts
    BY HydrateIsText
  <2>3. /\ Append(t, x) \in Texts /\ Len(Append(t, x)) = Len(t) + 1
        /\ Len(Append(Hydrate(t), x)) = Len(Hydrate(t)) + 1
        /\ Len(t) \in Nat
    BY <2>2, AppendedText
  <2>4. Len(Hydrate(t)) \in Nat /\ Len(Hydrate(t)) <= Len(t)
    BY <1>2
  <2>5. Len(Hydrate(Append(t, x))) \in Nat /\ Len(Hydrate(Append(t, x))) <= Len(Append(t, x))
    BY <2>1, <2>3, <2>4
  <2> QED
    BY <2>3, <2>5
<1>3. ASSUME NEW t \in Texts, NEW x \in DOMAIN Dictionary, t \in Good
      PROVE  Append(Append(t, "open"), x) \in Good
  <2>1. Hydrate(Append(Append(t, "open"), x)) = Append(Hydrate(t), Dictionary[x])
    BY HydrateAppendIndex
  <2>2. x \in Pieces /\ "open" \in Pieces /\ Dictionary[x] \in Pieces
    BY DictionaryFacts
  <2>3. Hydrate(t) \in Texts
    BY HydrateIsText
  <2>4. Len(Append(Hydrate(t), Dictionary[x])) = Len(Hydrate(t)) + 1
    BY <2>2, <2>3, AppendedText
  <2>5. /\ Append(Append(t, "open"), x) \in Texts
        /\ Len(Append(Append(t, "open"), x)) = (Len(t) + 1) + 1 /\ Len(t) \in Nat
    BY <2>2, AppendedText
  <2>6. Len(Hydrate(t)) \in Nat /\ Len(Hydrate(t)) <= Len(t)
    BY <1>3
  <2>7. Len(Hydrate(t)) + 1 \in Nat /\ Len(Hydrate(t)) + 1 <= (Len(t) + 1) + 1
    BY <2>5, <2>6
  <2> QED
    BY <2>1, <2>4, <2>5, <2>7
<1>4. Texts \subseteq Good
  <2> HIDE DEF Good
  <2> QED
    BY <1>1, <1>2, <1>3, EveryText
<1> QED
  BY <1>4

(* It keeps what a text begins with, a placeholder excepted.               *)
LEMMA HydrateFirst ==
    ASSUME NEW text \in Texts, text # <<>>
    PROVE  /\ Hydrate(text) # <<>>
           /\ text[1] = "open" => Hydrate(text)[1] \in {"open"} \cup Masked
           /\ text[1] # "open" => Hydrate(text)[1] = text[1]
<1> DEFINE Kept(t, h) ==
        /\ h # <<>>
        /\ t[1] = "open" => h[1] \in {"open"} \cup Masked
        /\ t[1] # "open" => h[1] = t[1]
           Good == {t \in Texts : t # <<>> => Kept(t, Hydrate(t))}
<1>1. <<>> \in Good
  BY DEF Texts
<1>2. ASSUME NEW t \in Texts, NEW x \in Pieces, t \in Good,
             t = <<>> \/ ~ Resolves(t[Len(t)], x)
      PROVE  Append(t, x) \in Good
  <2>1. Hydrate(Append(t, x)) = Append(Hydrate(t), x)
    BY <1>2, HydrateAppend
  <2>2. Hydrate(t) \in Texts
    BY HydrateIsText
  <2>3. CASE t = <<>>
    <3>1. Append(t, x)[1] = x /\ Append(Hydrate(t), x)[1] = x
      BY <2>3, HydrateNone
    <3>2. Append(t, x) # <<>> /\ Append(Hydrate(t), x) # <<>> /\ Append(t, x) \in Texts
      BY <2>2, AppendedText
    <3> QED
      BY <2>1, <3>1, <3>2
  <2>4. CASE t # <<>>
    <3>1. Kept(t, Hydrate(t))
      BY <1>2, <2>4
    <3>2. 1 \in 1..Len(t) /\ 1 \in 1..Len(Hydrate(t))
      BY <2>2, <2>4, <3>1 DEF Texts
    <3>3. Append(t, x)[1] = t[1] /\ Append(Hydrate(t), x)[1] = Hydrate(t)[1]
      BY <2>2, <3>2, AppendedText
    <3> QED
      BY <2>1, <2>2, <3>1, <3>3, AppendedText
  <2> QED
    BY <2>3, <2>4
<1>3. ASSUME NEW t \in Texts, NEW x \in DOMAIN Dictionary, t \in Good
      PROVE  Append(Append(t, "open"), x) \in Good
  <2>1. Hydrate(Append(Append(t, "open"), x)) = Append(Hydrate(t), Dictionary[x])
    BY HydrateAppendIndex
  <2>2. /\ x \in Pieces /\ "open" \in Pieces /\ Dictionary[x] \in Pieces
        /\ Dictionary[x] \in Masked
    BY DictionaryFacts
  <2>3. Hydrate(t) \in Texts /\ Append(t, "open") \in Texts
    BY <2>2, HydrateIsText, AppendedText
  <2>4. Append(Hydrate(t), Dictionary[x]) # <<>> /\ Append(Append(t, "open"), x) \in Texts
    BY <2>2, <2>3, AppendedText
  <2>5. Append(Append(t, "open"), x)[1] = Append(t, "open")[1]
    <3>1. 1 \in 1..Len(Append(t, "open"))
      BY <2>2, AppendedText
    <3> QED
      BY <2>2, <2>3, <3>1, AppendedText
  <2>6. CASE t = <<>>
    <3>1. Append(t, "open")[1] = "open" /\ Append(Hydrate(t), Dictionary[x])[1] = Dictionary[x]
      BY <2>6, HydrateNone
    <3> QED
      BY <2>1, <2>2, <2>4, <2>5, <3>1
  <2>7. CASE t # <<>>
    <3>1. Kept(t, Hydrate(t))
      BY <1>3, <2>7
    <3>2. 1 \in 1..Len(t) /\ 1 \in 1..Len(Hydrate(t))
      BY <2>3, <2>7, <3>1 DEF Texts
    <3>3. /\ Append(t, "open")[1] = t[1]
          /\ Append(Hydrate(t), Dictionary[x])[1] = Hydrate(t)[1]
      BY <2>2, <2>3, <3>2, AppendedText
    <3> QED
      BY <2>1, <2>4, <2>5, <3>1, <3>3
  <2> QED
    BY <2>6, <2>7
<1>4. Texts \subseteq Good
  <2> HIDE DEF Good
  <2> QED
    BY <1>1, <1>2, <1>3, EveryText
<1> QED
  BY <1>4

(* A line of nothing but fence markers stays one, and no other becomes one. *)
LEMMA HydrateFence ==
    ASSUME NEW text \in Texts
    PROVE  /\ text \in Seq({"fence", "nl"}) => Hydrate(text) = text
           /\ Hydrate(text) \in Seq({"fence", "nl"}) => text \in Seq({"fence", "nl"})
<1> DEFINE F == {"fence", "nl"}
           Good == {t \in Texts : /\ t \in Seq(F) => Hydrate(t) = t
                                  /\ Hydrate(t) \in Seq(F) => t \in Seq(F)}
<1>1. <<>> \in Good
  BY HydrateNone DEF Texts
<1>2. ASSUME NEW t \in Texts, NEW x \in Pieces, t \in Good,
             t = <<>> \/ ~ Resolves(t[Len(t)], x)
      PROVE  Append(t, x) \in Good
  <2>1. Hydrate(Append(t, x)) = Append(Hydrate(t), x)
    BY <1>2, HydrateAppend
  <2>2. Hydrate(t) \in Texts
    BY HydrateIsText
  <2>3. /\ Append(t, x) \in Seq(F) <=> t \in Seq(F) /\ x \in F
        /\ Append(Hydrate(t), x) \in Seq(F) <=> Hydrate(t) \in Seq(F) /\ x \in F
    BY <2>2, AppendInSeq DEF Texts
  <2> QED
    BY <1>2, <2>1, <2>3, AppendedText
<1>3. ASSUME NEW t \in Texts, NEW x \in DOMAIN Dictionary, t \in Good
      PROVE  Append(Append(t, "open"), x) \in Good
  <2>1. Hydrate(Append(Append(t, "open"), x)) = Append(Hydrate(t), Dictionary[x])
    BY HydrateAppendIndex
  <2>2. /\ x \in Pieces /\ "open" \in Pieces /\ Dictionary[x] \in Pieces
        /\ Dictionary[x] \notin F
    BY DictionaryFacts DEF Masked
  <2>3. Hydrate(t) \in Texts /\ Append(t, "open") \in Texts
    BY <2>2, HydrateIsText, AppendedText
  <2>4. Append(Hydrate(t), Dictionary[x]) \notin Seq(F)
    BY <2>2, <2>3, AppendInSeq DEF Texts
  <2>5. Append(t, "open") \notin Seq(F)
    BY <2>2, AppendInSeq DEF Texts
  <2>6. Append(Append(t, "open"), x) \notin Seq(F)
    BY <2>2, <2>3, <2>5, AppendInSeq DEF Texts
  <2> QED
    BY <2>1, <2>2, <2>3, <2>4, <2>6, AppendedText
<1>4. Texts \subseteq Good
  <2> HIDE DEF Good
  <2> QED
    BY <1>1, <1>2, <1>3, EveryText
<1> QED
  BY <1>4
-----------------------------------------------------------------------------
(* Whether a line begins with a program's name is settled by its first     *)
(* piece that is not the beginning of a word; until then it is open.       *)
Lead == {"part", "root"}
Bland(line) == line \in Seq(Lead)
SettledAt(line, i) ==
    /\ line[i] \notin Lead \cup {"prog"}
    /\ \A j \in 1..(i - 1) : line[j] \in Lead
Settled(line) == \E i \in 1..Len(line) : SettledAt(line, i)

LEMMA SettledNamesNone ==
    ASSUME NEW line \in Texts, Settled(line) \/ Bland(line)
    PROVE  ~ NamesProgram(line)
<1>1. SUFFICES ASSUME NEW i \in DOMAIN line, line[i] = "prog",
                      \A j \in 1..(i - 1) : line[j] \in Lead
               PROVE  FALSE
  BY DEF NamesProgram, Lead
<1>2. i \in 1..Len(line) /\ Len(line) \in Nat
  BY DEF Texts
<1>3. CASE Bland(line)
  <2>1. line[i] \in Lead
    BY <1>2, <1>3 DEF Bland
  <2> QED
    BY <1>1, <2>1 DEF Lead
<1>4. CASE Settled(line)
  <2>1. PICK k \in 1..Len(line) : SettledAt(line, k)
    BY <1>4 DEF Settled
  <2>2. i < k => i \in 1..(k - 1)
    BY <1>2, <2>1
  <2>3. k < i => k \in 1..(i - 1)
    BY <1>2, <2>1
  <2>4. i < k \/ k < i \/ i = k
    BY <1>2, <2>1
  <2> QED
    BY <1>1, <2>1, <2>2, <2>3, <2>4 DEF SettledAt, Lead
<1> QED
  BY <1>3, <1>4

LEMMA BlandAppend ==
    ASSUME NEW t \in Texts, NEW x \in Pieces
    PROVE  Bland(Append(t, x)) <=> Bland(t) /\ x \in Lead
  BY AppendInSeq DEF Bland, Texts

LEMMA SettledAppend ==
    ASSUME NEW t \in Texts, NEW x \in Pieces
    PROVE  Settled(Append(t, x)) <=>
             Settled(t) \/ (Bland(t) /\ x \notin Lead \cup {"prog"})
<1>1. PICK n, u : /\ n = Len(t) /\ n \in Nat /\ u = Append(t, x) /\ u \in Texts
                  /\ Len(u) = n + 1 /\ u[n + 1] = x /\ \A i \in 1..n : u[i] = t[i]
  <2>1. /\ Len(t) \in Nat /\ Append(t, x) \in Texts
        /\ Len(Append(t, x)) = Len(t) + 1 /\ Append(t, x)[Len(t) + 1] = x
        /\ \A i \in 1..Len(t) : Append(t, x)[i] = t[i]
    BY AppendedText
  <2> QED
    BY <2>1, Zenon
<1>2. ASSUME NEW i \in 1..n
      PROVE  SettledAt(u, i) <=> SettledAt(t, i)
  <2>1. \A j \in 1..(i - 1) : j \in 1..n
    BY <1>1
  <2>2. u[i] = t[i] /\ \A j \in 1..(i - 1) : u[j] = t[j]
    BY <1>1, <2>1
  <2> QED
    BY <2>2 DEF SettledAt
<1>3. SettledAt(u, n + 1) <=> Bland(t) /\ x \notin Lead \cup {"prog"}
  <2>1. (n + 1) - 1 = n
    BY <1>1
  <2>2. (\A j \in 1..n : t[j] \in Lead) <=> Bland(t)
    BY <1>1 DEF Bland, Texts
  <2>3. (\A j \in 1..n : t[j] \in Lead) <=> \A j \in 1..n : u[j] \in Lead
    BY <1>1
  <2> QED
    BY <1>1, <2>1, <2>2, <2>3 DEF SettledAt
<1>4. \A i : i \in 1..(n + 1) <=> i \in 1..n \/ i = n + 1
  BY <1>1
<1> QED
  BY <1>1, <1>2, <1>3, <1>4 DEF Settled

LEMMA SettledConcat ==
    ASSUME NEW a \in Texts, NEW b \in Texts
    PROVE  /\ Bland(a \o b) <=> Bland(a) /\ Bland(b)
           /\ Settled(a \o b) <=> Settled(a) \/ (Bland(a) /\ Settled(b))
<1> DEFINE Good == {t \in Texts : Settled(a \o t) <=> Settled(a) \/ (Bland(a) /\ Settled(t))}
<1>1. Bland(a \o b) <=> Bland(a) /\ Bland(b)
  BY ConcatInSeq DEF Bland, Texts
<1>2. <<>> \in Good
  <2>1. a \o <<>> = a /\ ~ Settled(<<>>) /\ <<>> \in Texts
    BY ConcatEmptySeq DEF Texts, Settled
  <2> QED
    BY <2>1
<1>3. ASSUME NEW t \in Texts, NEW x \in Pieces, t \in Good
      PROVE  Append(t, x) \in Good
  <2>1. a \o t \in Texts
    BY ConcatProperties DEF Texts
  <2>2. a \o Append(t, x) = Append(a \o t, x)
    BY GlueAppend DEF Glue, Texts
  <2>3. Settled(Append(a \o t, x)) <=>
          Settled(a \o t) \/ (Bland(a \o t) /\ x \notin Lead \cup {"prog"})
    BY <2>1, SettledAppend
  <2>4. Settled(Append(t, x)) <=>
          Settled(t) \/ (Bland(t) /\ x \notin Lead \cup {"prog"})
    BY SettledAppend
  <2>5. Bland(a \o t) <=> Bland(a) /\ Bland(t)
    BY ConcatInSeq DEF Bland, Texts
  <2>6. Append(t, x) \in Texts
    BY AppendedText
  <2> HIDE DEF Settled, Bland
  <2> QED
    BY <1>3, <2>2, <2>3, <2>4, <2>5, <2>6
<1>4. Texts \subseteq Good
  <2>1. \A t \in Seq(Pieces) : \A x \in Pieces : t \in Good => Append(t, x) \in Good
    BY <1>3 DEF Texts
  <2> HIDE DEF Good
  <2> QED
    BY <1>2, <2>1, EverySequence DEF Texts
<1> QED
  BY <1>1, <1>4

(* If no program of a text is masked, none of its parts is.              *)
LEMMA ShownAppend ==
    ASSUME NEW t \in Texts, NEW x \in Pieces, ProgramsShown(Append(t, x))
    PROVE  /\ ProgramsShown(t)
           /\ x \in DOMAIN Dictionary => Dictionary[x] # "prog"
<1>1. PICK n, u : /\ n = Len(t) /\ n \in Nat /\ DOMAIN t = 1..n /\ u = Append(t, x)
                  /\ DOMAIN u = 1..(n + 1) /\ u[n + 1] = x
                  /\ \A i \in 1..n : u[i] = t[i]
  <2>1. /\ Len(t) \in Nat /\ DOMAIN t = 1..Len(t)
        /\ DOMAIN Append(t, x) = 1..(Len(t) + 1)
        /\ Append(t, x)[Len(t) + 1] = x
        /\ \A i \in 1..Len(t) : Append(t, x)[i] = t[i]
    BY AppendedText DEF Texts
  <2> QED
    BY <2>1, Zenon
<1>2. n + 1 \in 1..(n + 1) /\ \A i \in 1..n : i \in 1..(n + 1)
  BY <1>1
<1>3. ToSet(t) \subseteq ToSet(u) /\ x \in ToSet(u)
  BY <1>1, <1>2 DEF ToSet
<1> QED
  BY <1>1, <1>3 DEF ProgramsShown

LEMMA ShownParts ==
    ASSUME NEW a \in Texts, NEW b \in Texts, ProgramsShown(Glue(a, b))
    PROVE  ProgramsShown(a) /\ ProgramsShown(b)
<1>1. PICK m, n, c : /\ m = Len(a) /\ n = Len(b) /\ m \in Nat /\ n \in Nat
                     /\ DOMAIN a = 1..m /\ DOMAIN b = 1..n /\ c = Glue(a, b)
                     /\ DOMAIN c = 1..(m + n)
                     /\ \A i \in 1..(m + n) : c[i] = IF i <= m THEN a[i] ELSE b[i - m]
  <2>1. /\ Len(a) \in Nat /\ Len(b) \in Nat
        /\ DOMAIN a = 1..Len(a) /\ DOMAIN b = 1..Len(b)
        /\ DOMAIN (a \o b) = 1..(Len(a) + Len(b))
        /\ \A i \in 1..(Len(a) + Len(b)) :
              (a \o b)[i] = IF i <= Len(a) THEN a[i] ELSE b[i - Len(a)]
    BY ConcatProperties DEF Texts
  <2> QED
    BY <2>1, Zenon DEF Glue
<1>2. ASSUME NEW i \in 1..m
      PROVE  i \in 1..(m + n) /\ c[i] = a[i]
  <2>1. i \in 1..(m + n) /\ i <= m
    BY <1>1
  <2> QED
    BY <1>1, <2>1
<1>3. ASSUME NEW i \in 1..n
      PROVE  m + i \in 1..(m + n) /\ c[m + i] = b[i]
  <2>1. m + i \in 1..(m + n) /\ ~ (m + i <= m) /\ (m + i) - m = i
    BY <1>1
  <2> QED
    BY <1>1, <2>1
<1>4. ToSet(a) \subseteq ToSet(c)
  <2>1. \A i \in DOMAIN a : i \in DOMAIN c /\ c[i] = a[i]
    BY <1>1, <1>2
  <2> QED
    BY <2>1 DEF ToSet
<1>5. ToSet(b) \subseteq ToSet(c)
  <2>1. \A i \in DOMAIN b : m + i \in DOMAIN c /\ c[m + i] = b[i]
    BY <1>1, <1>3
  <2> QED
    BY <2>1 DEF ToSet
<1> QED
  BY <1>1, <1>4, <1>5 DEF ProgramsShown

(* Hydration settles no line otherwise, unless it names a masked program.  *)
LEMMA HydrateSettled ==
    ASSUME NEW text \in Texts
    PROVE  /\ Bland(text) => Hydrate(text) = text
           /\ ProgramsShown(text) /\ Settled(text) => Settled(Hydrate(text))
<1> DEFINE Good == {t \in Texts : /\ Bland(t) => Hydrate(t) = t
                                  /\ ProgramsShown(t) /\ Settled(t) => Settled(Hydrate(t))}
<1>1. <<>> \in Good
  BY HydrateNone DEF Texts, Settled
<1>2. ASSUME NEW t \in Texts, NEW x \in Pieces, t \in Good,
             t = <<>> \/ ~ Resolves(t[Len(t)], x)
      PROVE  Append(t, x) \in Good
  <2>1. Hydrate(Append(t, x)) = Append(Hydrate(t), x)
    BY <1>2, HydrateAppend
  <2>2. Hydrate(t) \in Texts
    BY HydrateIsText
  <2>3. Bland(Append(t, x)) <=> Bland(t) /\ x \in Lead
    BY BlandAppend
  <2>4. Settled(Append(t, x)) <=>
          Settled(t) \/ (Bland(t) /\ x \notin Lead \cup {"prog"})
    BY SettledAppend
  <2>5. Settled(Append(Hydrate(t), x)) <=>
          Settled(Hydrate(t)) \/ (Bland(Hydrate(t)) /\ x \notin Lead \cup {"prog"})
    BY <2>2, SettledAppend
  <2>6. ProgramsShown(Append(t, x)) => ProgramsShown(t)
    BY ShownAppend
  <2> QED
    BY <1>2, <2>1, <2>3, <2>4, <2>5, <2>6, AppendedText
<1>3. ASSUME NEW t \in Texts, NEW x \in DOMAIN Dictionary, t \in Good
      PROVE  Append(Append(t, "open"), x) \in Good
  <2>1. Hydrate(Append(Append(t, "open"), x)) = Append(Hydrate(t), Dictionary[x])
    BY HydrateAppendIndex
  <2>2. /\ x \in Pieces /\ "open" \in Pieces /\ Dictionary[x] \in Pieces
        /\ Dictionary[x] \notin Lead /\ "open" \notin Lead \cup {"prog"}
    BY DictionaryFacts DEF Lead, Masked
  <2>3. Hydrate(t) \in Texts /\ Append(t, "open") \in Texts
    BY <2>2, HydrateIsText, AppendedText
  <2>4. ~ Bland(Append(t, "open")) /\ ~ Bland(Append(Append(t, "open"), x))
    BY <2>2, <2>3, BlandAppend
  <2>5. Settled(Append(t, "open")) <=> Settled(t) \/ Bland(t)
    BY <2>2, SettledAppend
  <2>6. Settled(Append(Append(t, "open"), x)) <=> Settled(Append(t, "open"))
    BY <2>2, <2>3, <2>4, SettledAppend
  <2>7. ProgramsShown(Append(Append(t, "open"), x)) =>
          /\ ProgramsShown(t)
          /\ Settled(Append(Hydrate(t), Dictionary[x])) <=>
                Settled(Hydrate(t)) \/ Bland(Hydrate(t))
    <3>1. SUFFICES ASSUME ProgramsShown(Append(Append(t, "open"), x))
                   PROVE  /\ ProgramsShown(t)
                          /\ Settled(Append(Hydrate(t), Dictionary[x])) <=>
                                Settled(Hydrate(t)) \/ Bland(Hydrate(t))
      OBVIOUS
    <3>2. ProgramsShown(Append(t, "open")) /\ Dictionary[x] # "prog"
      BY <2>2, <2>3, <3>1, ShownAppend
    <3>3. ProgramsShown(t)
      BY <2>2, <3>2, ShownAppend
    <3> QED
      BY <2>2, <2>3, <3>2, <3>3, SettledAppend
  <2>8. Append(Append(t, "open"), x) \in Texts
    BY <2>2, <2>3, AppendedText
  <2> QED
    BY <1>3, <2>1, <2>4, <2>5, <2>6, <2>7, <2>8
<1>4. Texts \subseteq Good
  <2> HIDE DEF Good
  <2> QED
    BY <1>1, <1>2, <1>3, EveryText
<1> QED
  BY <1>4

(* A text that reads as prose is settled.                                  *)
LEMMA ProseSettled ==
    ASSUME NEW line \in Texts, Prose(line)
    PROVE  Settled(line)
<1> DEFINE Odd == {i \in 1..Len(line) : line[i] \notin Lead}
<1>1. PICK n : n = Len(line) /\ n \in Nat /\ DOMAIN line = 1..n
  BY DEF Texts
<1>2. Odd # {}
  <2>1. PICK x : x \in ToSet(line) /\ x \in Blank \cup DOMAIN Dictionary
    BY DEF Prose
  <2>2. PICK i \in 1..n : line[i] = x
    BY <1>1, <2>1 DEF ToSet
  <2>3. x \notin Lead
    BY <2>1, DictionaryFacts DEF Lead, Blank, Plain
  <2> QED
    BY <1>1, <2>2, <2>3
<1>3. PICK i \in Odd : \A k \in Odd : i <= k
  <2>1. Odd \in SUBSET Nat
    BY <1>1
  <2> HIDE DEF Odd
  <2> QED
    BY <1>2, <2>1, LeastNumber, Zenon
<1>4. i \in 1..n /\ line[i] \notin Lead
  BY <1>1, <1>3
<1>5. ASSUME NEW j \in 1..(i - 1)
      PROVE  line[j] \in Lead
  <2>1. j \in 1..n /\ ~ (i <= j)
    BY <1>1, <1>4
  <2> QED
    BY <1>1, <1>3, <2>1
<1>6. line[i] # "prog"
  <2>1. ~ NamesProgram(line)
    BY DEF Prose
  <2> QED
    BY <1>1, <1>4, <1>5, <2>1 DEF NamesProgram, Lead
<1> QED
  BY <1>1, <1>4, <1>5, <1>6 DEF Settled, SettledAt
-----------------------------------------------------------------------------
(* What commitIndex leaves behind begins with what made it stop: a         *)
(* backtick, half a fork bomb, or a placeholder that is not yet whole.     *)
Bombs == {"bomb1", "bomb2"}
Starters == {"tick", "fence", "open"} \cup Bombs

StopsAtTick(line, n) == n < Len(line) /\ line[n + 1] \in {"tick", "fence"}
StopsAtBombs(line, n) ==
    /\ n < Len(line) /\ line[n] \notin Bombs
    /\ \A i \in (n + 1)..Len(line) : line[i] \in Bombs
OpensAlone(line, n) ==
    /\ n < Len(line) /\ line[n + 1] = "open"
    /\ \A i \in (n + 2)..Len(line) : line[i] # "open" /\ line[i] \notin DOMAIN Dictionary
StopsNowhere(line, n) == n = Len(line) /\ line[n] # "open"

LEMMA UnmatchedTickFacts ==
    ASSUME NEW line \in Texts
    PROVE  LET m == UnmatchedTick(line)
           IN m = Len(line) \/ (m \in 0..Len(line) /\ StopsAtTick(line, m))
<1>1. PICK len : len = Len(line) /\ len \in Nat /\ DOMAIN line = 1..len
  BY DEF Texts
<1>2. CASE Cardinality(Ticks(line)) % 2 = 1
  <2>1. Ticks(line) # {}
    <3>1. Cardinality({}) = 0 /\ 0 % 2 # 1
      BY FS_EmptySet
    <3> QED
      BY <1>2, <3>1
  <2>2. PICK P : P = Ticks(line) /\ P \in SUBSET (0..len) /\ P # {}
    <3>1. Ticks(line) \in SUBSET (0..len)
      BY <1>1 DEF Ticks
    <3> QED
      BY <2>1, <3>1
  <2>3. Max(P) \in P
    BY <1>1, <2>2, MaxPlace
  <2>4. PICK i : i = Max(P) /\ i \in 1..len /\ line[i] \in {"tick", "fence"}
    BY <1>1, <2>2, <2>3 DEF Ticks
  <2>5. UnmatchedTick(line) = i - 1
    BY <1>2, <2>2, <2>4 DEF UnmatchedTick
  <2>6. i - 1 \in 0..len /\ i - 1 < len /\ (i - 1) + 1 = i
    BY <1>1, <2>4
  <2> QED
    BY <1>1, <2>4, <2>5, <2>6 DEF StopsAtTick
<1>3. CASE ~ (Cardinality(Ticks(line)) % 2 = 1)
  BY <1>3 DEF UnmatchedTick
<1> QED
  BY <1>2, <1>3

LEMMA ForkBombTailFacts ==
    ASSUME NEW line \in Texts
    PROVE  LET m == ForkBombTail(line)
           IN /\ m \in 0..Len(line)
              /\ m # 0 => line[m] \notin Bombs
              /\ \A i \in (m + 1)..Len(line) : line[i] \in Bombs
<1>1. PICK len : len = Len(line) /\ len \in Nat /\ DOMAIN line = 1..len
  BY DEF Texts
<1>2. PICK P : P = {0} \cup {i \in DOMAIN line : line[i] \notin {"bomb1", "bomb2"}}
  OBVIOUS
<1>3. P \in SUBSET (0..len) /\ P # {}
  BY <1>1, <1>2
<1>4. Max(P) \in P /\ \A k \in P : k <= Max(P)
  BY <1>1, <1>3, MaxPlace
<1>5. PICK m : m = Max(P) /\ m = ForkBombTail(line)
  BY <1>2 DEF ForkBombTail
<1>6. m \in 0..len /\ (m # 0 => line[m] \notin Bombs)
  BY <1>1, <1>2, <1>3, <1>4, <1>5 DEF Bombs
<1>7. ASSUME NEW i \in (m + 1)..len
      PROVE  line[i] \in Bombs
  <2>1. i \in 1..len /\ ~ (i <= m)
    BY <1>1, <1>6
  <2>2. i \notin P
    BY <1>4, <1>5, <2>1
  <2> QED
    BY <1>1, <1>2, <2>1, <2>2 DEF Bombs
<1> QED
  BY <1>1, <1>5, <1>6, <1>7

LEMMA OpenPlaceholderFacts ==
    ASSUME NEW line \in Texts
    PROVE  LET m == OpenPlaceholder(line)
           IN \/ m \in 0..Len(line) /\ OpensAlone(line, m)
              \/ /\ m = Len(line)
                 /\ line # <<>> => line[Len(line)] # "open"
<1>1. PICK len : len = Len(line) /\ len \in Nat /\ DOMAIN line = 1..len
  BY DEF Texts
<1>2. PICK P : P = {i \in DOMAIN line : line[i] = "open"}
  OBVIOUS
<1>3. P \in SUBSET (0..len)
  BY <1>1, <1>2
<1>4. CASE P = {}
  <2>1. OpenPlaceholder(line) = len
    BY <1>1, <1>2, <1>4 DEF OpenPlaceholder
  <2>2. line # <<>> => len \in 1..len
    BY <1>1 DEF Texts
  <2> QED
    BY <1>1, <1>2, <1>4, <2>1, <2>2
<1>5. CASE P # {}
  <2>1. Max(P) \in P /\ \A k \in P : k <= Max(P)
    BY <1>1, <1>3, <1>5, MaxPlace
  <2>2. PICK i : i = Max(P) /\ i \in 1..len /\ line[i] = "open"
    BY <1>1, <1>2, <2>1
  <2>3. CASE \E j \in (i + 1)..len : line[j] \in DOMAIN Dictionary
    <3>1. OpenPlaceholder(line) = len
      BY <1>1, <1>2, <1>5, <2>2, <2>3 DEF OpenPlaceholder
    <3>2. PICK j \in (i + 1)..len : line[j] \in DOMAIN Dictionary
      BY <2>3
    <3>3. line[len] # "open"
      <4>1. SUFFICES ASSUME line[len] = "open" PROVE FALSE
        OBVIOUS
      <4>2. len \in 1..len /\ ~ (len <= i)
        BY <1>1, <2>2, <3>2
      <4>3. len \in P
        BY <1>1, <1>2, <4>1, <4>2
      <4> QED
        BY <2>1, <2>2, <4>2, <4>3
    <3> QED
      BY <1>1, <3>1, <3>3
  <2>4. CASE ~ \E j \in (i + 1)..len : line[j] \in DOMAIN Dictionary
    <3>1. OpenPlaceholder(line) = i - 1
      BY <1>1, <1>2, <1>5, <2>2, <2>4 DEF OpenPlaceholder
    <3>2. /\ i - 1 \in 0..len /\ i - 1 < len
          /\ (i - 1) + 1 = i /\ (i - 1) + 2 = i + 1
      BY <1>1, <2>2
    <3>3. ASSUME NEW k \in (i + 1)..len
          PROVE  line[k] # "open" /\ line[k] \notin DOMAIN Dictionary
      <4>1. k \in 1..len /\ ~ (k <= i)
        BY <1>1, <2>2
      <4>2. k \notin P
        BY <2>1, <2>2, <4>1
      <4> QED
        BY <1>1, <1>2, <2>4, <4>1, <4>2
    <3> QED
      BY <1>1, <2>2, <3>1, <3>2, <3>3 DEF OpensAlone
  <2> QED
    BY <2>3, <2>4
<1> QED
  BY <1>4, <1>5

LEMMA CommitIndexFacts ==
    ASSUME NEW line \in Texts, NEW n, n = CommitIndex(line), n # 0
    PROVE  /\ n \in 1..Len(line) /\ line # <<>> /\ Prose(line)
           /\ ~ OpensAlone(line, 0)
           /\ \/ StopsAtTick(line, n)
              \/ StopsAtBombs(line, n)
              \/ OpensAlone(line, n)
              \/ StopsNowhere(line, n)
<1>1. PICK len : len = Len(line) /\ len \in Nat
  BY DEF Texts
<1>2. line # <<>> /\ Prose(line)
  BY DEF CommitIndex
<1>3. PICK a, b, c : a = UnmatchedTick(line) /\ b = ForkBombTail(line) /\ c = OpenPlaceholder(line)
  OBVIOUS
<1>4. n = Min({a, b, c})
  BY <1>2, <1>3 DEF CommitIndex
<1>5. a = len \/ (a \in 0..len /\ StopsAtTick(line, a))
  BY <1>1, <1>3, UnmatchedTickFacts
<1>6. /\ b \in 0..len
      /\ b # 0 => line[b] \notin Bombs
      /\ \A i \in (b + 1)..len : line[i] \in Bombs
  BY <1>1, <1>3, ForkBombTailFacts
<1>7. \/ c \in 0..len /\ OpensAlone(line, c)
      \/ c = len /\ line[len] # "open"
  BY <1>1, <1>2, <1>3, OpenPlaceholderFacts
<1>8. n \in {a, b, c} /\ n <= a /\ n <= b /\ n <= c
  <2>1. {a, b, c} \in SUBSET Nat /\ {a, b, c} # {}
    BY <1>1, <1>5, <1>6, <1>7
  <2>2. Min({a, b, c}) \in {a, b, c} /\ \A k \in {a, b, c} : Min({a, b, c}) <= k
    BY <2>1, MinPlace
  <2> QED
    BY <1>4, <2>2
<1>9. n \in 1..len
  BY <1>1, <1>5, <1>6, <1>7, <1>8
<1>10. ~ OpensAlone(line, 0)
  <2>1. SUFFICES ASSUME OpensAlone(line, 0) PROVE FALSE
    OBVIOUS
  <2>2. /\ line[1] = "open" /\ 0 < len
        /\ \A i \in 2..len : line[i] # "open" /\ line[i] \notin DOMAIN Dictionary
    BY <1>1, <2>1 DEF OpensAlone
  <2>3. OpenPlaceholder(line) = 0
    <3>1. PICK P : P = {i \in DOMAIN line : line[i] = "open"}
      OBVIOUS
    <3>2. DOMAIN line = 1..len
      BY <1>1 DEF Texts
    <3>3. P = {1}
      <4>1. \A i \in 1..len : i = 1 \/ i \in 2..len
        BY <1>1
      <4> QED
        BY <1>1, <2>2, <3>1, <3>2, <4>1
    <3>4. Max(P) \in P
      <4>1. P \in SUBSET (0..len) /\ P # {}
        BY <1>1, <2>2, <3>3
      <4> QED
        BY <1>1, <4>1, MaxPlace
    <3>5. Max(P) = 1
      BY <3>3, <3>4
    <3> QED
      BY <1>1, <2>2, <3>1, <3>3, <3>5 DEF OpenPlaceholder
  <2> QED
    BY <1>3, <1>8, <1>9, <2>3
<1>11. CASE n = len
  <2>1. c = len /\ b = len
    BY <1>1, <1>6, <1>7, <1>8, <1>11
  <2>2. ~ OpensAlone(line, len)
    BY <1>1 DEF OpensAlone
  <2> QED
    BY <1>1, <1>2, <1>7, <1>9, <1>10, <1>11, <2>1, <2>2 DEF StopsNowhere
<1>12. CASE n # len
  <2>1. n < len
    BY <1>1, <1>9, <1>12
  <2>2. n = a => StopsAtTick(line, n)
    BY <1>5, <1>12
  <2>3. n = b => StopsAtBombs(line, n)
    BY <1>1, <1>6, <1>9, <2>1 DEF StopsAtBombs
  <2>4. n = c => OpensAlone(line, n)
    BY <1>7, <1>12
  <2> QED
    BY <1>1, <1>2, <1>8, <1>9, <1>10, <2>2, <2>3, <2>4
<1> QED
  BY <1>11, <1>12
-----------------------------------------------------------------------------
(* Reading a text piece by piece.                                          *)
Guards == [fenced : BOOLEAN, body : Texts, line : Texts, fires : BOOLEAN]

LEMMA UnreadType ==
    Unread \in Guards
  BY DEF Unread, Guards, Texts

LEMMA ReadLineType ==
    ASSUME NEW g \in Guards, NEW end \in Texts
    PROVE  ReadLine(g, end) \in Guards
<1>1. PICK line : line = g.line \o end /\ line \in Texts
  BY ConcatProperties DEF Guards, Texts
<1>2. g.body \in Texts /\ g.body \o line \in Texts /\ <<>> \in Texts
  BY <1>1, ConcatProperties DEF Guards, Texts
<1>3. ReadLine(g, end).fenced \in BOOLEAN /\ ReadLine(g, end).fires \in BOOLEAN
  BY <1>1 DEF ReadLine, Guards
<1> QED
  BY <1>1, <1>2, <1>3 DEF ReadLine, Guards

LEMMA ReadType ==
    ASSUME NEW g \in Guards, NEW x \in Pieces
    PROVE  Read(g, x) \in Guards
<1>1. <<x>> \in Texts
  BY OneSeq DEF Texts
<1>2. ReadLine(g, <<x>>) \in Guards
  BY <1>1, ReadLineType
<1>3. [g EXCEPT !.line = Append(@, x)] \in Guards
  <2>1. g.line \in Texts /\ Append(g.line, x) \in Texts
    BY AppendedText DEF Guards
  <2> QED
    BY <2>1 DEF Guards
<1> QED
  BY <1>2, <1>3 DEF Read

(* Step by step along a text.                                              *)
Steps(text) == [p \in (1..Len(text)) \X Guards |-> Read(p[2], text[p[1]])]

LEMMA StepsType ==
    ASSUME NEW text \in Texts
    PROVE  /\ Steps(text) \in [(1..Len(text)) \X Guards -> Guards]
           /\ \A n \in 1..Len(text) : \A g \in Guards :
                 Steps(text)[<<n, g>>] = Read(g, text[n])
<1>1. \A p \in (1..Len(text)) \X Guards : Read(p[2], text[p[1]]) \in Guards
  <2>1. ASSUME NEW p \in (1..Len(text)) \X Guards
        PROVE  Read(p[2], text[p[1]]) \in Guards
    <3>1. p[1] \in 1..Len(text) /\ p[2] \in Guards
      OBVIOUS
    <3>2. text[p[1]] \in Pieces
      BY <3>1 DEF Texts
    <3> QED
      BY <3>1, <3>2, ReadType
  <2> QED
    BY <2>1
<1> QED
  BY <1>1 DEF Steps

LEMMA ReadingIsRun ==
    ASSUME NEW g \in Guards, NEW text \in Texts
    PROVE  \E f \in [0..Len(text) -> Guards] :
              /\ Runs(f, g, Steps(text), Len(text))
              /\ Reading(g, text) = f[Len(text)]
<1>1. PICK N : N = Len(text) /\ N \in Nat
  BY DEF Texts
<1>2. PICK f \in [0..N -> Guards] : Runs(f, g, Steps(text), N)
  BY <1>1, StepsType, RunExists
<1> DEFINE Body(h) == [n \in 0..Len(text) |-> IF n = 0 THEN g ELSE Read(h[n - 1], text[n])]
           read == CHOOSE h : h = Body(h)
<1>3. f[0] = g /\ \A n \in 1..N : f[n] = Read(f[n - 1], text[n])
  <2>1. \A n \in 1..N : f[n] = Steps(text)[<<n, f[n - 1]>>]
    BY <1>2 DEF Runs
  <2>2. \A n \in 1..N : f[n - 1] \in Guards
    BY <1>1
  <2>3. \A n \in 1..N : Steps(text)[<<n, f[n - 1]>>] = Read(f[n - 1], text[n])
    BY <1>1, <2>2, StepsType
  <2> QED
    BY <1>2, <2>1, <2>3 DEF Runs
<1>4. f = Body(f)
  <2>1. \A n \in 0..N : f[n] = IF n = 0 THEN g ELSE Read(f[n - 1], text[n])
    <3>1. \A n \in 0..N : n = 0 \/ n \in 1..N
      BY <1>1
    <3> QED
      BY <1>3, <3>1
  <2> QED
    BY <1>1, <2>1
<1>5. read = Body(read)
  <2>1. \E h : h = Body(h)
    BY <1>4
  <2> HIDE DEF Body
  <2> QED
    BY <2>1
<1>6. Reading(g, text) = read[Len(text)]
  BY DEF Reading
<1> HIDE DEF read
<1>7. \A n \in 0..N : read[n] = IF n = 0 THEN g ELSE Read(read[n - 1], text[n])
  BY <1>1, <1>5
<1>8. \A n \in 0..N : f[n] = read[n]
  <2> DEFINE Bad == {n \in 0..N : f[n] # read[n]}
  <2>1. SUFFICES ASSUME Bad # {} PROVE FALSE
    OBVIOUS
  <2>2. PICK n \in Bad : \A k \in Bad : n <= k
    <3>1. Bad \in SUBSET Nat
      OBVIOUS
    <3> HIDE DEF Bad
    <3> QED
      BY <2>1, <3>1, LeastNumber, Zenon
  <2>3. n \in 0..N /\ f[n] # read[n]
    OBVIOUS
  <2>4. n # 0
    BY <1>3, <1>7, <2>3
  <2>5. n \in 1..N /\ n - 1 \in 0..N /\ ~ (n <= n - 1)
    BY <1>1, <2>3, <2>4
  <2>6. f[n - 1] = read[n - 1]
    BY <2>2, <2>5
  <2> QED
    BY <1>3, <1>7, <2>3, <2>4, <2>5, <2>6
<1>9. N \in 0..N
  BY <1>1
<1> QED
  BY <1>1, <1>2, <1>6, <1>8, <1>9

LEMMA ReadingNone ==
    ASSUME NEW g \in Guards
    PROVE  Reading(g, <<>>) = g
<1>1. <<>> \in Texts /\ Len(<<>>) = 0
  BY DEF Texts
<1>2. PICK f : Runs(f, g, Steps(<<>>), 0) /\ Reading(g, <<>>) = f[0]
  BY <1>1, ReadingIsRun
<1> QED
  BY <1>2 DEF Runs

LEMMA ReadingAppend ==
    ASSUME NEW g \in Guards, NEW text \in Texts, NEW x \in Pieces
    PROVE  /\ Reading(g, text) \in Guards
           /\ Reading(g, Append(text, x)) = Read(Reading(g, text), x)
<1>1. PICK n, u : /\ n = Len(text) /\ n \in Nat /\ u = Append(text, x) /\ u \in Texts
                  /\ Len(u) = n + 1 /\ u[n + 1] = x /\ \A i \in 1..n : u[i] = text[i]
  <2>1. /\ Len(text) \in Nat /\ Append(text, x) \in Texts
        /\ Len(Append(text, x)) = Len(text) + 1 /\ Append(text, x)[Len(text) + 1] = x
        /\ \A i \in 1..Len(text) : Append(text, x)[i] = text[i]
    BY AppendedText
  <2> QED
    BY <2>1, Zenon
<1>2. PICK f \in [0..n -> Guards] :
         Runs(f, g, Steps(text), n) /\ Reading(g, text) = f[n]
  BY <1>1, ReadingIsRun
<1>3. PICK h \in [0..(n + 1) -> Guards] :
         Runs(h, g, Steps(u), n + 1) /\ Reading(g, u) = h[n + 1]
  <2>1. u \in Texts /\ Len(u) = n + 1
    BY <1>1
  <2>2. PICK h \in [0..Len(u) -> Guards] :
           Runs(h, g, Steps(u), Len(u)) /\ Reading(g, u) = h[Len(u)]
    BY <2>1, ReadingIsRun
  <2> QED
    BY <2>1, <2>2, Zenon
<1>4. ASSUME NEW k \in 1..(n + 1)
      PROVE  h[k] = Read(h[k - 1], u[k])
  <2>1. h[k] = Steps(u)[<<k, h[k - 1]>>]
    BY <1>3 DEF Runs
  <2>2. h[k - 1] \in Guards
    BY <1>1, <1>3
  <2>3. Steps(u)[<<k, h[k - 1]>>] = Read(h[k - 1], u[k])
    BY <1>1, <2>2, StepsType
  <2> QED
    BY <2>1, <2>3
<1>5. Runs(h, g, Steps(text), n)
  <2>1. ASSUME NEW k \in 1..n
        PROVE  h[k] = Steps(text)[<<k, h[k - 1]>>]
    <3>1. k \in 1..(n + 1) /\ k - 1 \in 0..(n + 1)
      BY <1>1
    <3>2. h[k] = Read(h[k - 1], text[k])
      BY <1>1, <1>4, <3>1
    <3>3. h[k - 1] \in Guards
      BY <1>3, <3>1
    <3>4. Steps(text)[<<k, h[k - 1]>>] = Read(h[k - 1], text[k])
      BY <1>1, <3>3, StepsType
    <3> QED
      BY <3>2, <3>4
  <2> QED
    BY <1>3, <2>1 DEF Runs
<1>6. f[n] = h[n]
  <2>1. \A k \in 0..n : f[k] = h[k]
    BY <1>1, <1>2, <1>5, RunUnique
  <2> QED
    BY <1>1, <2>1
<1>7. n + 1 \in 1..(n + 1) /\ (n + 1) - 1 = n /\ n \in 0..n
  BY <1>1
<1>8. h[n + 1] = Read(h[n], u[n + 1])
  BY <1>4, <1>7
<1>9. f[n] \in Guards
  BY <1>2, <1>7
<1> QED
  BY <1>1, <1>2, <1>3, <1>6, <1>8, <1>9

LEMMA ReadingConcat ==
    ASSUME NEW g \in Guards, NEW a \in Texts, NEW b \in Texts
    PROVE  Reading(g, a \o b) = Reading(Reading(g, a), b)
<1> DEFINE Good == {t \in Texts : /\ Reading(g, a) \in Guards
                                  /\ Reading(g, a \o t) = Reading(Reading(g, a), t)}
<1>1. Reading(g, a) \in Guards
  <2>1. "open" \in Pieces
    BY DictionaryFacts
  <2> QED
    BY <2>1, ReadingAppend
<1>2. <<>> \in Good
  <2>1. a \o <<>> = a /\ <<>> \in Texts
    BY ConcatEmptySeq DEF Texts
  <2> QED
    BY <1>1, <2>1, ReadingNone
<1>3. ASSUME NEW t \in Texts, NEW x \in Pieces, t \in Good
      PROVE  Append(t, x) \in Good
  <2>1. a \o t \in Texts /\ Append(t, x) \in Texts
    BY AppendedText, ConcatProperties DEF Texts
  <2>2. a \o Append(t, x) = Append(a \o t, x)
    BY GlueAppend DEF Glue, Texts
  <2>3. Reading(g, Append(a \o t, x)) = Read(Reading(g, a \o t), x)
    BY <2>1, ReadingAppend
  <2>4. Reading(Reading(g, a), Append(t, x)) = Read(Reading(Reading(g, a), t), x)
    BY <1>1, ReadingAppend
  <2> QED
    BY <1>1, <1>3, <2>1, <2>2, <2>3, <2>4
<1>4. Texts \subseteq Good
  <2>1. \A t \in Seq(Pieces) : \A x \in Pieces : t \in Good => Append(t, x) \in Good
    BY <1>3 DEF Texts
  <2> HIDE DEF Good
  <2> QED
    BY <1>2, <2>1, EverySequence DEF Texts
<1> QED
  BY <1>4

LEMMA ReadingType ==
    ASSUME NEW g \in Guards, NEW text \in Texts
    PROVE  Reading(g, text) \in Guards
<1>1. "open" \in Pieces
  BY DictionaryFacts
<1> QED
  BY <1>1, ReadingAppend

(* A rule that fired stays fired.                                          *)
LEMMA FiredStaysFired ==
    ASSUME NEW g \in Guards, NEW text \in Texts, g.fires
    PROVE  Reading(g, text).fires
<1> DEFINE Good == {t \in Texts : Reading(g, t).fires}
<1>1. <<>> \in Good
  BY ReadingNone DEF Texts
<1>2. ASSUME NEW t \in Texts, NEW x \in Pieces, t \in Good
      PROVE  Append(t, x) \in Good
  <2>1. PICK h : h = Reading(g, t) /\ h \in Guards /\ h.fires
    BY <1>2, ReadingType
  <2>2. Reading(g, Append(t, x)) = Read(h, x)
    BY <2>1, ReadingAppend
  <2>3. Read(h, x).fires
    <3>1. ReadLine(h, <<x>>).fires
      BY <2>1 DEF ReadLine
    <3>2. [h EXCEPT !.line = Append(@, x)].fires
      BY <2>1 DEF Guards
    <3> QED
      BY <3>1, <3>2 DEF Read
  <2> QED
    BY <2>2, <2>3, AppendedText
<1>3. Texts \subseteq Good
  <2>1. \A t \in Seq(Pieces) : \A x \in Pieces : t \in Good => Append(t, x) \in Good
    BY <1>2 DEF Texts
  <2> HIDE DEF Good
  <2> QED
    BY <1>1, <2>1, EverySequence DEF Texts
<1> QED
  BY <1>3

(* What is not the end of a line only makes it longer.                     *)
InLine == Pieces \ Ends

Longer(g, text) == [g EXCEPT !.line = @ \o text]

LEMMA LongerFacts ==
    ASSUME NEW g \in Guards, NEW text \in Texts
    PROVE  /\ Longer(g, text) \in Guards
           /\ Longer(g, <<>>) = g
           /\ \A x \in Pieces \ Ends :
                 Read(Longer(g, text), x) = Longer(g, Append(text, x))
<1>1. PICK a : a = g.line /\ a \in Texts /\ a \o text \in Texts
  BY ConcatProperties DEF Guards, Texts
<1>2. a \o <<>> = a
  BY <1>1, ConcatEmptySeq DEF Texts
<1>3. Longer(g, text) \in Guards
  BY <1>1 DEF Longer, Guards
<1>4. Longer(g, <<>>) = g
  BY <1>1, <1>2 DEF Longer, Guards
<1>5. ASSUME NEW x \in Pieces \ Ends
      PROVE  Read(Longer(g, text), x) = Longer(g, Append(text, x))
  <2>1. x \in Pieces /\ a \in Seq(Pieces) /\ text \in Seq(Pieces)
    BY <1>1 DEF Texts
  <2>2. Append(Glue(a, text), x) = Glue(a, Append(text, x))
    BY <2>1, GlueAppend
  <2> QED
    BY <1>1, <2>2 DEF Read, Longer, Guards, Glue
<1> QED
  BY <1>3, <1>4, <1>5

LEMMA LongerFields ==
    ASSUME NEW g \in Guards, NEW text
    PROVE  /\ Longer(g, text).fenced = g.fenced /\ Longer(g, text).body = g.body
           /\ Longer(g, text).line = g.line \o text /\ Longer(g, text).fires = g.fires
  BY DEF Longer, Guards

LEMMA LongerUnread ==
    ASSUME NEW text \in Texts
    PROVE  LET g == Longer(Unread, text)
           IN g.line = text /\ ~ g.fenced /\ ~ g.fires
<1>1. <<>> \o text = text
  BY ConcatEmptySeq DEF Texts
<1>2. Unread.fenced = FALSE /\ Unread.fires = FALSE /\ Unread.line = <<>>
  BY DEF Unread
<1>3. /\ Longer(Unread, text).fenced = FALSE /\ Longer(Unread, text).fires = FALSE
      /\ Longer(Unread, text).line = text
  BY <1>1, <1>2, UnreadType, LongerFields
<1> QED
  BY <1>3

LEMMA ReadingInLine ==
    ASSUME NEW g \in Guards, NEW text \in Seq(InLine)
    PROVE  Reading(g, text) = Longer(g, text)
<1> DEFINE Good == {t \in Seq(InLine) : Reading(g, t) = Longer(g, t)}
<1>1. <<>> \in Good
  <2>1. Reading(g, <<>>) = g
    BY ReadingNone
  <2>2. <<>> \in Texts /\ <<>> \in Seq(InLine)
    BY DEF Texts
  <2>3. Longer(g, <<>>) = g
    BY <2>2, LongerFacts
  <2> QED
    BY <2>1, <2>2, <2>3
<1>2. ASSUME NEW t \in Seq(InLine), NEW x \in InLine, t \in Good
      PROVE  Append(t, x) \in Good
  <2>1. t \in Texts /\ x \in Pieces /\ x \in Pieces \ Ends
    BY SeqMonotonic DEF InLine, Texts
  <2>2. Reading(g, Append(t, x)) = Read(Reading(g, t), x)
    BY <2>1, ReadingAppend
  <2>3. Read(Longer(g, t), x) = Longer(g, Append(t, x))
    BY <2>1, LongerFacts
  <2>4. Append(t, x) \in Seq(InLine)
    BY AppendProperties
  <2> QED
    BY <1>2, <2>2, <2>3, <2>4
<1>3. Seq(InLine) \subseteq Good
  <2> HIDE DEF Good
  <2> QED
    BY <1>1, <1>2, EverySequence
<1> QED
  BY <1>3

(* A whole line.                                                           *)
LEMMA ReadingLine ==
    ASSUME NEW g \in Guards, NEW text \in Seq(InLine), NEW end \in Ends
    PROVE  Reading(g, Append(text, end)) = ReadLine(Longer(g, text), <<end>>)
<1>1. text \in Texts /\ end \in Pieces
  BY SeqMonotonic, DictionaryFacts DEF InLine, Texts
<1>2. Reading(g, Append(text, end)) = Read(Reading(g, text), end)
  BY <1>1, ReadingAppend
<1> QED
  BY <1>2, ReadingInLine DEF Read
-----------------------------------------------------------------------------
(* The verdict on a text, and what no continuation can change about it.    *)
LEMMA NothingDangerous ==
    /\ ~ DangerousLine(<<>>)
    /\ ~ Inspect(<<>>)
<1>1. DOMAIN <<>> = {} /\ Len(<<>>) = 0 /\ 2..0 = {}
  OBVIOUS
<1>2. ~ ForkBomb(<<>>) /\ ~ NamesProgram(<<>>)
  BY <1>1 DEF ForkBomb, NamesProgram
<1>3. Closed(<<>>) = {}
  BY <1>1 DEF Closed, Ticks
<1>4. ~ DangerousLine(<<>>)
  BY <1>2, <1>3 DEF DangerousLine, RunnableLine, Destructive, InlineSpans
<1>5. Reading(Unread, <<>>) = Unread
  BY UnreadType, ReadingNone
<1>6. PICK g : g = ReadLine(Unread, <<>>)
  OBVIOUS
<1>7. Unread.line \o <<>> = <<>> /\ ~ OpensFence(<<>>)
  BY DEF Unread, OpensFence
<1>8. ~ g.fires /\ ~ g.fenced
  BY <1>4, <1>6, <1>7 DEF ReadLine, Unread
<1> QED
  BY <1>4, <1>5, <1>6, <1>8 DEF Inspect, Fires

(* After a text that is over, safely, a verdict starts afresh.             *)
LEMMA InspectPast ==
    ASSUME NEW d \in Texts, Reading(Unread, d) = Unread, NEW x \in Texts
    PROVE  /\ Inspect(d \o x) <=> Inspect(x)
           /\ Reading(Unread, d \o x) = Reading(Unread, x)
  BY UnreadType, ReadingConcat DEF Inspect

LEMMA FiredInspects ==
    ASSUME NEW a \in Texts, Reading(Unread, a).fires, NEW z \in Texts
    PROVE  Inspect(a \o z)
<1>1. PICK g : g = Reading(Unread, a) /\ g \in Guards /\ g.fires
  BY UnreadType, ReadingType
<1>2. PICK h : h = Reading(g, z) /\ h.fires
  BY <1>1, FiredStaysFired
<1>3. Reading(Unread, a \o z) = h
  BY <1>1, <1>2, UnreadType, ReadingConcat
<1>4. Fires(ReadLine(h, <<>>))
  BY <1>2 DEF Fires, ReadLine
<1> QED
  BY <1>3, <1>4 DEF Inspect

(* Danger in a line that begins with no program's name is there to stay.   *)
LEMMA SpansStay ==
    ASSUME NEW a \in Texts, NEW b \in Texts
    PROVE  InlineSpans(a) \subseteq InlineSpans(a \o b)
<1>1. PICK m, n, c : /\ m = Len(a) /\ n = Len(b) /\ m \in Nat /\ n \in Nat /\ c = a \o b
                     /\ DOMAIN a = 1..m
  <2>1. Len(a) \in Nat /\ Len(b) \in Nat /\ DOMAIN a = 1..Len(a)
    BY DEF Texts
  <2> QED
    BY <2>1, Zenon
<1>2. /\ c \in Texts /\ Len(c) = m + n /\ DOMAIN c = 1..(m + n)
      /\ \A i \in 1..(m + n) : i <= m => c[i] = a[i]
  BY <1>1, ConcatProperties DEF Texts
<1>3. \A i : i \in Ticks(a) <=> i \in Ticks(c) /\ i <= m
  <2>1. \A i : i \in 1..m <=> i \in 1..(m + n) /\ i <= m
    BY <1>1
  <2> QED
    BY <1>1, <1>2, <2>1 DEF Ticks
<1>4. ASSUME NEW span \in Closed(a)
      PROVE  span \in Closed(c) /\ span[1] + 1 \in 1..m /\ span[2] - 1 \in 1..m
  <2>1. PICK p, q : /\ span = <<p, q>> /\ p \in Ticks(a) /\ q \in Ticks(a) /\ p < q
                    /\ \A i \in Ticks(a) : i <= p \/ i >= q
                    /\ Cardinality({i \in Ticks(a) : i <= p}) % 2 = 1
    <3>1. span \in Ticks(a) \X Ticks(a)
      BY DEF Closed
    <3>2. PICK p \in Ticks(a), q \in Ticks(a) : span = <<p, q>>
      BY <3>1
    <3>3. span[1] = p /\ span[2] = q
      BY <3>2
    <3> QED
      BY <3>2, <3>3, <1>4 DEF Closed
  <2>2. p \in 1..m /\ q \in 1..m
    BY <1>1, <2>1 DEF Ticks
  <2>3. ASSUME NEW i \in Ticks(c)
        PROVE  i <= p \/ i >= q
    <3>1. i \in 1..(m + n)
      BY <1>2 DEF Ticks
    <3>2. CASE i <= m
      BY <1>3, <2>1, <3>2
    <3>3. CASE ~ (i <= m)
      BY <1>1, <2>2, <3>1, <3>3
    <3> QED
      BY <3>2, <3>3
  <2>4. {i \in Ticks(c) : i <= p} = {i \in Ticks(a) : i <= p}
    <3>1. ASSUME NEW i \in Ticks(c), i <= p
          PROVE  i \in Ticks(a)
      <4>1. i \in 1..(m + n)
        BY <1>2 DEF Ticks
      <4>2. i <= m
        BY <1>1, <2>2, <3>1, <4>1
      <4> QED
        BY <1>3, <4>2
    <3> QED
      BY <1>3, <3>1
  <2>5. p \in Ticks(c) /\ q \in Ticks(c)
    BY <1>3, <2>1
  <2>6. span \in Closed(c)
    <3>1. span \in Ticks(c) \X Ticks(c) /\ span[1] = p /\ span[2] = q
      BY <2>1, <2>5
    <3> QED
      BY <2>1, <2>3, <2>4, <3>1 DEF Closed
  <2>7. p + 1 \in 1..m /\ q - 1 \in 1..m
    BY <1>1, <2>1, <2>2
  <2>8. span[1] = p /\ span[2] = q
    BY <2>1
  <2> QED
    BY <2>6, <2>7, <2>8
<1>5. ASSUME NEW span \in Closed(a)
      PROVE  SubSeq(a, span[1] + 1, span[2] - 1) \in InlineSpans(c)
  <2>1. PICK p, q : p = span[1] + 1 /\ q = span[2] - 1 /\ p \in 1..m /\ q \in 1..m
    BY <1>4
  <2>2. SubSeq(a \o b, p, q) = SubSeq(a, p, q)
    BY <1>1, <2>1, SubSeqOfConcat1 DEF Texts
  <2>3. SubSeq(c, span[1] + 1, span[2] - 1) \in InlineSpans(c)
    BY <1>4 DEF InlineSpans
  <2> QED
    BY <1>1, <2>1, <2>2, <2>3
<1> QED
  BY <1>1, <1>5 DEF InlineSpans

LEMMA DangerStays ==
    ASSUME NEW a \in Texts, NEW b \in Texts, ~ NamesProgram(a), DangerousLine(a)
    PROVE  DangerousLine(a \o b)
<1>1. CASE ForkBomb(a)
  <2>1. PICK i \in 2..Len(a) : a[i - 1] = "bomb1" /\ a[i] = "bomb2"
    BY <1>1 DEF ForkBomb
  <2>2. PICK m, n : m = Len(a) /\ n = Len(b) /\ m \in Nat /\ n \in Nat
    <3>1. Len(a) \in Nat /\ Len(b) \in Nat
      BY DEF Texts
    <3> QED
      BY <3>1, Zenon
  <2>3. /\ Len(a \o b) = m + n
        /\ \A k \in 1..(m + n) : k <= m => (a \o b)[k] = a[k]
    BY <2>2, ConcatProperties DEF Texts
  <2>4. /\ i \in 2..(m + n) /\ i \in 1..(m + n) /\ i <= m
        /\ i - 1 \in 1..(m + n) /\ i - 1 <= m
    BY <2>1, <2>2
  <2>5. ForkBomb(a \o b)
    BY <2>1, <2>3, <2>4 DEF ForkBomb
  <2> QED
    BY <2>5 DEF DangerousLine, RunnableLine
<1>2. CASE ~ ForkBomb(a)
  <2>1. PICK span \in InlineSpans(a) : DangerousCode(span)
    BY <1>2 DEF DangerousLine, RunnableLine, Destructive
  <2>2. span \in InlineSpans(a \o b)
    BY SpansStay
  <2> QED
    BY <2>1, <2>2 DEF DangerousLine
<1> QED
  BY <1>1, <1>2

LEMMA LineIsText ==
    ASSUME NEW a \in Seq(InLine), NEW end \in Ends
    PROVE  /\ a \in Texts /\ end \in Pieces /\ Append(a, end) \in Texts /\ <<end>> \in Texts
           /\ end # "fence" /\ end \notin DOMAIN Dictionary
           /\ OpensFence(Append(a, end)) <=> OpensFence(a)
<1>1. a \in Texts /\ end \in Pieces /\ end # "fence" /\ end \notin DOMAIN Dictionary
  BY SeqMonotonic, DictionaryFacts DEF InLine, Texts, Ends
<1>2. Append(a, end) \in Texts /\ <<end>> \in Texts
  BY <1>1, AppendedText, OneSeq DEF Texts
<1>3. OpensFence(Append(a, end)) <=> OpensFence(a)
  <2>1. CASE a = <<>>
    <3>1. Append(a, end) = <<end>>
      BY <2>1
    <3> QED
      BY <1>1, <2>1, <3>1 DEF OpensFence
  <2>2. CASE a # <<>>
    <3>1. 1 \in 1..Len(a)
      BY <1>1, <2>2 DEF Texts
    <3> QED
      BY <1>1, <2>2, <3>1, AppendedText DEF OpensFence
  <2> QED
    BY <2>1, <2>2
<1> QED
  BY <1>1, <1>2, <1>3

LEMMA UnfinishedLine ==
    ASSUME NEW a \in Seq(InLine), ~ OpensFence(a)
    PROVE  Inspect(a) <=> DangerousLine(a)
<1>1. a \in Texts
  BY SeqMonotonic DEF InLine, Texts
<1>2. Reading(Unread, a) = Longer(Unread, a)
  BY UnreadType, ReadingInLine
<1>3. <<>> \o a = a /\ a \o <<>> = a
  BY <1>1, ConcatEmptySeq DEF Texts
<1>4. PICK g : g = Longer(Unread, a) /\ ~ g.fenced /\ g.line = a /\ ~ g.fires
  BY <1>1, LongerUnread
<1>5. PICK h : h = ReadLine(g, <<>>) /\ (h.fires <=> DangerousLine(a)) /\ ~ h.fenced
  <2>1. ReadLine(g, <<>>).fires <=> DangerousLine(a)
    BY <1>3, <1>4 DEF ReadLine
  <2>2. ~ ReadLine(g, <<>>).fenced
    BY <1>3, <1>4 DEF ReadLine
  <2> QED
    BY <2>1, <2>2
<1> QED
  BY <1>2, <1>4, <1>5 DEF Inspect, Fires

(* What has been judged: over, and either fine or not.                     *)
Judged(text) == Reading(Unread, text).fires \/ Reading(Unread, text) = Unread

LEMMA JudgedVerdict ==
    ASSUME NEW a \in Texts, Judged(a)
    PROVE  /\ Inspect(a) => Reading(Unread, a).fires
           /\ ~ Inspect(a) => Reading(Unread, a) = Unread
<1>1. ASSUME Reading(Unread, a).fires
      PROVE  Inspect(a)
  <2>1. <<>> \in Texts /\ a \o <<>> = a
    BY ConcatEmptySeq DEF Texts
  <2> QED
    BY <1>1, <2>1, FiredInspects
<1>2. ASSUME Reading(Unread, a) = Unread
      PROVE  ~ Inspect(a)
  <2>1. Reading(Unread, <<>>) = Unread
    BY UnreadType, ReadingNone
  <2>2. Inspect(a) <=> Inspect(<<>>)
    BY <1>2, <2>1 DEF Inspect
  <2> QED
    BY <2>2, NothingDangerous
<1> QED
  BY <1>1, <1>2 DEF Judged

LEMMA ProseLineJudged ==
    ASSUME NEW a \in Seq(InLine), NEW end \in Ends, ~ OpensFence(a)
    PROVE  Judged(Append(a, end))
<1>1. a \in Texts /\ ~ OpensFence(Append(a, end)) /\ <<end>> \in Texts /\ end \in Pieces
  BY LineIsText
<1>2. Reading(Unread, Append(a, end)) = ReadLine(Longer(Unread, a), <<end>>)
  BY UnreadType, ReadingLine
<1>3. <<>> \o a = a /\ a \o <<end>> = Append(a, end)
  BY <1>1, ConcatEmptySeq, AppendIsConcat DEF Texts
<1>4. PICK g : g = Longer(Unread, a) /\ ~ g.fenced /\ g.line = a /\ ~ g.fires
  BY <1>1, LongerUnread
<1>5. CASE DangerousLine(a)
  <2>1. ReadLine(g, <<end>>).fires
    BY <1>1, <1>3, <1>4, <1>5 DEF ReadLine
  <2> QED
    BY <1>2, <1>4, <2>1 DEF Judged
<1>6. CASE ~ DangerousLine(a)
  <2>1. ReadLine(g, <<end>>) = Unread
    BY <1>1, <1>3, <1>4, <1>6 DEF ReadLine, Unread
  <2> QED
    BY <1>2, <1>4, <2>1 DEF Judged
<1> QED
  BY <1>5, <1>6

(* In a fence that is not over.                                            *)
Fenced(text) ==
    LET g == Reading(Unread, text) IN g.fenced /\ g.line = <<>> /\ ~ g.fires

LEMMA FenceOpens ==
    ASSUME NEW a \in Seq(InLine), NEW end \in Ends, OpensFence(a)
    PROVE  Fenced(Append(a, end))
<1>1. a \in Texts /\ OpensFence(Append(a, end)) /\ <<end>> \in Texts /\ end \in Pieces
  BY LineIsText
<1>2. Reading(Unread, Append(a, end)) = ReadLine(Longer(Unread, a), <<end>>)
  BY UnreadType, ReadingLine
<1>3. <<>> \o a = a /\ a \o <<end>> = Append(a, end)
  BY <1>1, ConcatEmptySeq, AppendIsConcat DEF Texts
<1>4. PICK g : g = Longer(Unread, a) /\ ~ g.fenced /\ g.line = a /\ ~ g.fires
  BY <1>1, LongerUnread
<1>5. PICK h : h = ReadLine(g, <<end>>)
  OBVIOUS
<1>6. h.fenced /\ h.line = <<>> /\ ~ h.fires
  BY <1>1, <1>3, <1>4, <1>5 DEF ReadLine
<1> QED
  BY <1>2, <1>4, <1>5, <1>6 DEF Fenced

LEMMA FenceGoesOn ==
    ASSUME NEW t \in Texts, Fenced(t), NEW a \in Seq(InLine), NEW end \in Ends
    PROVE  /\ ~ ClosesFence(Append(a, end)) => Fenced(t \o Append(a, end))
           /\ ClosesFence(Append(a, end)) => Judged(t \o Append(a, end))
<1>1. a \in Texts /\ Append(a, end) \in Texts /\ end \in Pieces
  BY LineIsText
<1>2. PICK g : /\ g = Reading(Unread, t) /\ g \in Guards
               /\ g.fenced /\ g.line = <<>> /\ ~ g.fires
  BY UnreadType, ReadingType DEF Fenced
<1>3. <<>> \o a = a /\ a \o <<end>> = Append(a, end)
  BY <1>1, ConcatEmptySeq, AppendIsConcat DEF Texts
<1>4. PICK k : k = Longer(g, a) /\ k.fenced /\ k.line = a /\ ~ k.fires
  <2>1. /\ Longer(g, a).fenced = g.fenced /\ Longer(g, a).fires = g.fires
        /\ Longer(g, a).line = a
    BY <1>2, <1>3, LongerFields
  <2> QED
    BY <1>2, <2>1
<1>5. PICK h : h = ReadLine(k, <<end>>)
  OBVIOUS
<1>6. Reading(Unread, t \o Append(a, end)) = h
  <2>1. Reading(Unread, t \o Append(a, end)) = Reading(g, Append(a, end))
    BY <1>1, <1>2, UnreadType, ReadingConcat
  <2>2. Reading(g, Append(a, end)) = ReadLine(Longer(g, a), <<end>>)
    BY <1>2, ReadingLine
  <2> QED
    BY <1>4, <1>5, <2>1, <2>2
<1>7. ASSUME ~ ClosesFence(Append(a, end))
      PROVE  h.fenced /\ h.line = <<>> /\ ~ h.fires
  BY <1>3, <1>4, <1>5, <1>7 DEF ReadLine
<1>8. ASSUME ClosesFence(Append(a, end))
      PROVE  h.fires \/ h = Unread
  BY <1>3, <1>4, <1>5, <1>8 DEF ReadLine, Unread
<1> QED
  BY <1>6, <1>7, <1>8 DEF Fenced, Judged

(* A dangerous beginning of a line condemns whatever it becomes.           *)
LEMMA DangerCondemns ==
    ASSUME NEW a \in Seq(InLine), a # <<>>, a[1] # "fence",
           DangerousLine(a), ~ NamesProgram(a), NEW z \in Texts
    PROVE  Inspect(a \o z)
<1>1. a \in Texts /\ 1 \in 1..Len(a)
  <2>1. a \in Texts
    BY SeqMonotonic DEF InLine, Texts
  <2> QED
    BY <2>1 DEF Texts
<1>2. ASSUME NEW y \in Seq(InLine)
      PROVE  /\ a \o y \in Seq(InLine) /\ a \o y \in Texts /\ ~ OpensFence(a \o y)
             /\ DangerousLine(a \o y)
  <2>1. y \in Texts
    BY SeqMonotonic DEF InLine, Texts
  <2>2. a \o y \in Seq(InLine) /\ a \o y \in Texts
    BY <1>1, <2>1, ConcatProperties DEF Texts
  <2>3. (a \o y)[1] = a[1]
    BY <1>1, <2>1, ConcatProperties DEF Texts
  <2>4. DangerousLine(a \o y)
    BY <1>1, <2>1, DangerStays
  <2> QED
    BY <2>2, <2>3, <2>4 DEF OpensFence
<1> DEFINE Good == {t \in Texts : \/ Reading(Unread, a \o t).fires
                                  \/ \E y \in Seq(InLine) : a \o t = a \o y}
<1>3. <<>> \in Good
  <2>1. <<>> \in Texts /\ <<>> \in Seq(InLine)
    BY DEF Texts
  <2> QED
    BY <2>1
<1>4. ASSUME NEW t \in Texts, NEW x \in Pieces, t \in Good
      PROVE  Append(t, x) \in Good
  <2>1. a \o t \in Texts /\ Append(t, x) \in Texts
    BY <1>1, AppendedText, ConcatProperties DEF Texts
  <2>2. a \o Append(t, x) = Append(a \o t, x)
    <3>1. a \in Seq(Pieces) /\ t \in Seq(Pieces)
      BY <1>1 DEF Texts
    <3>2. Append(Glue(a, t), x) = Glue(a, Append(t, x))
      BY <3>1, GlueAppend
    <3> QED
      BY <3>2, Zenon DEF Glue
  <2>3. CASE Reading(Unread, a \o t).fires
    <3>1. <<x>> \in Texts /\ (a \o t) \o <<x>> = Append(a \o t, x)
      BY <2>1, OneSeq, AppendIsConcat DEF Texts
    <3>2. PICK g : g = Reading(Unread, a \o t) /\ g \in Guards /\ g.fires
      BY <2>1, <2>3, UnreadType, ReadingType
    <3>3. Reading(g, <<x>>).fires
      BY <3>1, <3>2, FiredStaysFired
    <3>4. Reading(Unread, (a \o t) \o <<x>>) = Reading(g, <<x>>)
      BY <2>1, <3>1, <3>2, UnreadType, ReadingConcat
    <3> QED
      BY <2>1, <2>2, <3>1, <3>3, <3>4
  <2>4. CASE \E y \in Seq(InLine) : a \o t = a \o y
    <3>1. PICK y \in Seq(InLine) : a \o t = a \o y
      BY <2>4
    <3>2. CASE x \in Ends
      <4>2. Reading(Unread, Append(a \o y, x)) = ReadLine(Longer(Unread, a \o y), <<x>>)
        BY <1>2, <3>2, UnreadType, ReadingLine
      <4>4. PICK g : g = Longer(Unread, a \o y) /\ ~ g.fenced /\ g.line = a \o y
        BY <1>2, LongerUnread
      <4>5. (a \o y) \o <<x>> = Append(a \o y, x)
        BY <1>2, <3>2, AppendIsConcat DEF Texts
      <4>6. ~ OpensFence(Append(a \o y, x))
        BY <1>2, <3>2, LineIsText
      <4>7. DangerousLine(a \o y)
        BY <1>2
      <4>8. ReadLine(g, <<x>>).fires
        BY <4>4, <4>5, <4>6, <4>7 DEF ReadLine
      <4> QED
        BY <2>1, <2>2, <3>1, <4>2, <4>4, <4>8
    <3>3. CASE x \notin Ends
      <4>1. x \in InLine
        BY <3>3 DEF InLine
      <4>2. Append(y, x) \in Seq(InLine)
        BY <4>1, AppendProperties
      <4>3. a \o Append(y, x) = Append(a \o y, x)
        BY <4>1, GlueAppend DEF Glue
      <4> QED
        BY <2>1, <2>2, <3>1, <4>2, <4>3
    <3> QED
      BY <3>2, <3>3
  <2> QED
    BY <1>4, <2>3, <2>4
<1>5. z \in Good
  <2>1. \A t \in Seq(Pieces) : \A x \in Pieces : t \in Good => Append(t, x) \in Good
    BY <1>4 DEF Texts
  <2> HIDE DEF Good
  <2> QED
    BY <1>3, <2>1, EverySequence DEF Texts
<1>6. CASE Reading(Unread, a \o z).fires
  <2>1. a \o z \in Texts /\ <<>> \in Texts
    BY <1>1, ConcatProperties DEF Texts
  <2>2. (a \o z) \o <<>> = a \o z
    BY <2>1, ConcatEmptySeq DEF Texts
  <2> QED
    BY <1>6, <2>1, <2>2, FiredInspects
<1>7. CASE \E y \in Seq(InLine) : a \o z = a \o y
  <2>1. PICK y \in Seq(InLine) : a \o z = a \o y
    BY <1>7
  <2>2. Inspect(a \o y) <=> DangerousLine(a \o y)
    BY <1>2, UnfinishedLine
  <2> QED
    BY <1>2, <2>1, <2>2
<1> QED
  BY <1>5, <1>6, <1>7
-----------------------------------------------------------------------------
(* The scanner.                                                            *)
Scanners ==
    [strict : BOOLEAN, buf : Texts, held : Texts, head : Texts, inFence : BOOLEAN,
     blocked : BOOLEAN, out : Texts, cramped : BOOLEAN, recited : BOOLEAN]

LEMMA NewScannerType ==
    ASSUME NEW strict \in BOOLEAN
    PROVE  NewScanner(strict) \in Scanners
<1>1. <<>> \in Texts
  BY DEF Texts
<1> QED
  BY <1>1 DEF NewScanner, Scanners

LEMMA TransformType ==
    ASSUME NEW text \in Texts
    PROVE  /\ Transform(text) \in Texts
           /\ ~ Recites(text) => Transform(text) = Hydrate(text)
<1>1. <<>> \in Texts
  BY DEF Texts
<1> QED
  BY <1>1, HydrateIsText DEF Transform

LEMMA ReleaseFields ==
    ASSUME NEW s \in Scanners, NEW text \in Texts
    PROVE  LET t == Release(s, text)
           IN /\ t \in Scanners
              /\ t.strict = s.strict /\ t.buf = s.buf /\ t.held = s.held
              /\ t.inFence = s.inFence /\ t.cramped = s.cramped
              /\ s.recited \/ Recites(text) <=> t.recited
              /\ Inspect(s.head \o Transform(text)) =>
                    t.blocked /\ t.out = s.out /\ t.head = s.head
              /\ ~ Inspect(s.head \o Transform(text)) =>
                    /\ t.blocked = s.blocked
                    /\ t.out = s.out \o Transform(text)
                    /\ t.head = s.head \o Transform(text)
<1>1. PICK out : out = Transform(text) /\ out \in Texts
  BY TransformType
<1>2. PICK told : told = [s EXCEPT !.recited = @ \/ Recites(text)]
  OBVIOUS
<1>3. /\ told \in Scanners /\ told.strict = s.strict /\ told.buf = s.buf
      /\ told.held = s.held /\ told.inFence = s.inFence /\ told.cramped = s.cramped
      /\ told.blocked = s.blocked /\ told.out = s.out /\ told.head = s.head
      /\ told.recited = (s.recited \/ Recites(text))
  <2>1. (s.recited \/ Recites(text)) \in BOOLEAN
    OBVIOUS
  <2> QED
    BY <1>2, <2>1 DEF Scanners
<1>4. s.out \o out \in Texts /\ s.head \o out \in Texts
  <2>1. s.out \in Texts /\ s.head \in Texts
    BY DEF Scanners
  <2> QED
    BY <1>1, <2>1, ConcatProperties DEF Texts
<1>5. CASE Inspect(s.head \o out)
  <2>1. Release(s, text) = [told EXCEPT !.blocked = TRUE]
    BY <1>1, <1>2, <1>5 DEF Release
  <2>2. PICK t : t = [told EXCEPT !.blocked = TRUE]
    OBVIOUS
  <2>3. /\ t \in Scanners /\ t.strict = s.strict /\ t.buf = s.buf /\ t.held = s.held
        /\ t.inFence = s.inFence /\ t.cramped = s.cramped
        /\ t.recited = told.recited /\ t.blocked /\ t.out = s.out /\ t.head = s.head
    BY <1>3, <2>2 DEF Scanners
  <2> QED
    BY <1>1, <1>3, <1>5, <2>1, <2>2, <2>3
<1>6. CASE ~ Inspect(s.head \o out)
  <2>1. Release(s, text) = [told EXCEPT !.out = @ \o out, !.head = @ \o out]
    BY <1>1, <1>2, <1>6 DEF Release
  <2>2. PICK t : t = [told EXCEPT !.out = @ \o out, !.head = @ \o out]
    OBVIOUS
  <2>3. /\ t \in Scanners /\ t.strict = s.strict /\ t.buf = s.buf /\ t.held = s.held
        /\ t.inFence = s.inFence /\ t.cramped = s.cramped
        /\ t.recited = told.recited /\ t.blocked = s.blocked
        /\ t.out = s.out \o out /\ t.head = s.head \o out
    BY <1>3, <1>4, <2>2 DEF Scanners
  <2> QED
    BY <1>1, <1>3, <1>6, <2>1, <2>2, <2>3
<1> QED
  BY <1>1, <1>5, <1>6

LEMMA ProcessFields ==
    ASSUME NEW s \in Scanners, NEW text \in Texts
    PROVE  LET t == Process(s, text)
           IN /\ t \in Scanners
              /\ t.strict = s.strict /\ t.buf = s.buf /\ t.held = s.held
              /\ t.inFence = s.inFence /\ t.cramped = s.cramped /\ t.head = <<>>
              /\ s.recited \/ Recites(text) <=> t.recited
              /\ Inspect(s.head \o Transform(text)) => t.blocked /\ t.out = s.out
              /\ ~ Inspect(s.head \o Transform(text)) =>
                    t.blocked = s.blocked /\ t.out = s.out \o Transform(text)
<1>1. PICK r : r = Release(s, text)
  OBVIOUS
<1>2. /\ r \in Scanners
      /\ r.strict = s.strict /\ r.buf = s.buf /\ r.held = s.held
      /\ r.inFence = s.inFence /\ r.cramped = s.cramped
      /\ s.recited \/ Recites(text) <=> r.recited
      /\ Inspect(s.head \o Transform(text)) => r.blocked /\ r.out = s.out
      /\ ~ Inspect(s.head \o Transform(text)) =>
            r.blocked = s.blocked /\ r.out = s.out \o Transform(text)
  BY <1>1, ReleaseFields
<1>3. PICK t : t = [r EXCEPT !.head = <<>>] /\ t = Process(s, text)
  BY <1>1 DEF Process
<1>4. <<>> \in Texts
  BY DEF Texts
<1>5. /\ t \in Scanners /\ t.strict = r.strict /\ t.buf = r.buf /\ t.held = r.held
      /\ t.inFence = r.inFence /\ t.cramped = r.cramped /\ t.head = <<>>
      /\ t.recited = r.recited /\ t.blocked = r.blocked /\ t.out = r.out
  BY <1>2, <1>3, <1>4 DEF Scanners
<1> QED
  BY <1>2, <1>3, <1>5

(* The first line of a text that has one.                                  *)
LEMMA FirstLine ==
    ASSUME NEW text \in Texts, \E i \in DOMAIN text : text[i] \in Ends
    PROVE  \E a \in Seq(InLine), end \in Ends, rest \in Texts :
              /\ text = Append(a, end) \o rest
              /\ SubSeq(text, 1, LineEnd(text)) = Append(a, end)
              /\ SubSeq(text, LineEnd(text) + 1, Len(text)) = rest
              /\ Len(text) = LineEnd(text) + Len(rest) /\ Len(a) + 1 = LineEnd(text)
<1>1. PICK len : len = Len(text) /\ len \in Nat /\ DOMAIN text = 1..len
  BY DEF Texts
<1>2. PICK P : P = {i \in DOMAIN text : text[i] \in Ends}
  OBVIOUS
<1>3. P \in SUBSET Nat /\ P # {}
  BY <1>1, <1>2
<1>4. PICK m : /\ m = LineEnd(text) /\ m \in 1..len /\ text[m] \in Ends
               /\ \A i \in 1..len : text[i] \in Ends => m <= i
  <2>1. Min(P) \in P /\ \A k \in P : Min(P) <= k
    BY <1>3, MinPlace
  <2> QED
    BY <1>1, <1>2, <2>1 DEF LineEnd
<1>5. PICK a : a = SubSeq(text, 1, m - 1)
  OBVIOUS
<1>6. /\ Len(a) = m - 1
      /\ \A i \in 1..(m - 1) : a[i] = text[i]
      /\ a \in Seq(InLine)
  <2>1. \A i \in 1..(m - 1) : text[i] \in InLine
    <3>1. \A i \in 1..(m - 1) : i \in 1..len /\ ~ (m <= i)
      BY <1>1, <1>4
    <3>2. \A i \in 1..len : text[i] \in Pieces
      BY <1>1 DEF Texts
    <3> QED
      BY <1>4, <3>1, <3>2 DEF InLine
  <2>2. 1 \in Int /\ m - 1 \in Int /\ ((m - 1) - 1) + 1 = m - 1
    BY <1>4
  <2>3. /\ a \in Seq(InLine)
        /\ Len(a) = IF 1 <= m - 1 THEN ((m - 1) - 1) + 1 ELSE 0
        /\ \A i \in 1..(((m - 1) - 1) + 1) : a[i] = text[(1 + i) - 1]
    BY <1>5, <2>1, <2>2, SubSeqProperties
  <2>4. \A i \in 1..(m - 1) : (1 + i) - 1 = i
    OBVIOUS
  <2> QED
    BY <1>4, <2>2, <2>3, <2>4
<1>7. PICK end : end = text[m] /\ end \in Ends
  BY <1>4
<1>8. PICK rest : rest = SubSeq(text, m + 1, len) /\ rest \in Texts /\ len = m + Len(rest)
  <2>1. \A i \in (m + 1)..len : text[i] \in Pieces
    BY <1>1, <1>4 DEF Texts
  <2>2. m + 1 \in Int /\ len \in Int
    BY <1>1, <1>4
  <2>3. PICK r : r = SubSeq(text, m + 1, len)
    OBVIOUS
  <2>4. /\ r \in Seq(Pieces)
        /\ Len(r) = IF m + 1 <= len THEN (len - (m + 1)) + 1 ELSE 0
    BY <2>1, <2>2, <2>3, SubSeqProperties
  <2>5. len = m + Len(r)
    BY <1>1, <1>4, <2>4
  <2> QED
    BY <2>3, <2>4, <2>5 DEF Texts
<1>9. SubSeq(text, 1, m) = Append(a, end)
  <2>1. SubSeq(text, 1, m) = SubSeq(text, 1, m - 1) \o <<text[m]>>
    <3>1. 1 \in 1..Len(text) /\ m \in 1..Len(text) /\ text \in Seq(Pieces)
      BY <1>1, <1>4 DEF Texts
    <3> QED
      BY <3>1, SubSeqRecursiveSecond
  <2>2. a \o <<end>> = Append(a, end)
    BY <1>6, <1>7, LineIsText, AppendIsConcat DEF Texts
  <2> QED
    BY <1>5, <1>7, <2>1, <2>2
<1>10. text = Append(a, end) \o rest
  <2>1. SubSeq(text, 1, m) \o SubSeq(text, m + 1, len) = SubSeq(text, 1, len)
    <3>1. /\ 1 \in 1..(len + 1) /\ m \in (1 - 1)..len /\ len \in m..len
      BY <1>1, <1>4
    <3> QED
      BY <1>1, <3>1, ConcatAdjacentSubSeq DEF Texts
  <2>2. SubSeq(text, 1, len) = text
    BY <1>1, SubSeqFull DEF Texts
  <2> QED
    BY <1>8, <1>9, <2>1, <2>2
<1>11. Len(a) + 1 = m
  BY <1>4, <1>6
<1> QED
  BY <1>1, <1>4, <1>6, <1>7, <1>8, <1>9, <1>10, <1>11
-----------------------------------------------------------------------------
LEMMA TextJoin ==
    ASSUME NEW a \in Texts, NEW b \in Texts
    PROVE  Glue(a, b) \in Texts
  BY ConcatProperties DEF Texts, Glue

LEMMA TextRegroup ==
    ASSUME NEW a \in Texts, NEW b \in Texts, NEW c \in Texts
    PROVE  Glue(Glue(a, b), c) = Glue(a, Glue(b, c))
  BY GlueRegroups DEF Texts

(* Where a text is cut for good: whatever follows, no placeholder is cut.  *)
CutAt(sent, rest) ==
    \/ sent = <<>>
    \/ sent[Len(sent)] # "open"
    \/ rest # <<>> /\ rest[1] \notin DOMAIN Dictionary

LEMMA CutStays ==
    ASSUME NEW sent \in Texts, NEW rest \in Texts, NEW z \in Texts, CutAt(sent, rest)
    PROVE  CutAt(sent, rest \o z) /\ SafeCut(sent, rest \o z)
<1>1. rest # <<>> => rest \o z # <<>> /\ (rest \o z)[1] = rest[1]
  <2>1. SUFFICES ASSUME rest # <<>> PROVE rest \o z # <<>> /\ (rest \o z)[1] = rest[1]
    OBVIOUS
  <2>2. 1 \in 1..Len(rest) /\ Len(rest) \in Nat /\ Len(z) \in Nat
    BY <2>1 DEF Texts
  <2>3. /\ Len(rest \o z) = Len(rest) + Len(z)
        /\ \A i \in 1..(Len(rest) + Len(z)) : i <= Len(rest) => (rest \o z)[i] = rest[i]
    BY ConcatProperties DEF Texts
  <2> QED
    BY <2>2, <2>3
<1>2. CutAt(sent, rest \o z)
  BY <1>1 DEF CutAt
<1> QED
  BY <1>2 DEF CutAt, SafeCut, Resolves

LEMMA CutSafely ==
    ASSUME NEW sent \in Texts, NEW rest \in Texts, CutAt(sent, rest)
    PROVE  Hydrate(sent \o rest) = Hydrate(sent) \o Hydrate(rest)
<1>1. SafeCut(sent, rest)
  BY DEF CutAt, SafeCut, Resolves
<1> QED
  BY <1>1, HydrateConcat

(* Of f, the text sent is out, hydrated, and the text rest is not: d was   *)
(* judged, and of the line since then the guard has seen the head.         *)
Upto(s, f, sent, d, rest) ==
    /\ f = sent \o rest
    /\ CutAt(sent, rest)
    /\ s.out = Hydrate(sent)
    /\ s.out = d \o s.head
    /\ Reading(Unread, d) = Unread
    /\ s.head \in Seq(InLine) /\ ~ OpensFence(s.head) /\ ~ DangerousLine(s.head)

(* The text is what goes out next.                                         *)
Sends(s, f, sent, d, text, rest) ==
    Upto(s, f, sent, d, Glue(text, rest)) /\ CutAt(Glue(sent, text), rest)

(* What is out will do, but the whole is condemned, unless a placeholder   *)
(* names a program: then its line may yet turn out to be harmless.         *)
Stopped(s, f) ==
    /\ \E sent \in Texts, rest \in Texts :
          f = sent \o rest /\ CutAt(sent, rest) /\ s.out = Hydrate(sent)
    /\ ~ Inspect(s.out)
    /\ ProgramsShown(f) => \A z \in Texts : Inspect(Hydrate(f \o z))

LEMMA UptoIsSafe ==
    ASSUME NEW s \in Scanners, NEW f, NEW sent, NEW d \in Texts, NEW rest,
           Upto(s, f, sent, d, rest)
    PROVE  ~ Inspect(s.out)
<1>1. s.head \in Texts
  BY DEF Scanners
<1>2. Inspect(d \o s.head) <=> Inspect(s.head)
  BY <1>1, InspectPast DEF Upto
<1>3. Inspect(s.head) <=> DangerousLine(s.head)
  BY UnfinishedLine DEF Upto
<1> QED
  BY <1>2, <1>3 DEF Upto

(* The whole of what is out, what goes out next and what may follow.       *)
LEMMA NextHydrated ==
    ASSUME NEW s \in Scanners, NEW f, NEW sent \in Texts, NEW d \in Texts,
           NEW text \in Texts, NEW rest \in Texts, Sends(s, f, sent, d, text, rest)
    PROVE  /\ f = Glue(Glue(sent, text), rest)
           /\ Hydrate(Glue(sent, text)) = Glue(s.out, Hydrate(text))
           /\ Hydrate(Glue(sent, text)) = Glue(d, Glue(s.head, Hydrate(text)))
<1>1. PICK head : head = s.head /\ head \in Texts
  BY DEF Scanners
<1>2. PICK h : h = Hydrate(text) /\ h \in Texts
  BY HydrateIsText
<1>3. /\ f = Glue(sent, Glue(text, rest)) /\ s.out = Hydrate(sent) /\ s.out = Glue(d, head)
      /\ CutAt(sent, Glue(text, rest))
  BY <1>1 DEF Sends, Upto, Glue
<1>4. f = Glue(Glue(sent, text), rest)
  BY <1>3, TextRegroup
<1>5. SafeCut(sent, text)
  <2>1. SUFFICES ASSUME sent # <<>>, text # <<>>, sent[Len(sent)] = "open"
                 PROVE  text[1] \notin DOMAIN Dictionary
    BY DEF SafeCut, Resolves
  <2>2. Glue(text, rest)[1] \notin DOMAIN Dictionary
    BY <1>3, <2>1 DEF CutAt
  <2>3. Glue(text, rest)[1] = text[1]
    <3>1. 1 \in 1..Len(text) /\ Len(text) \in Nat /\ Len(rest) \in Nat
      BY <2>1 DEF Texts
    <3>2. \A i \in 1..(Len(text) + Len(rest)) : i <= Len(text) => (text \o rest)[i] = text[i]
      BY ConcatProperties DEF Texts
    <3> QED
      BY <3>1, <3>2 DEF Glue
  <2> QED
    BY <2>2, <2>3
<1>6. Hydrate(Glue(sent, text)) = Glue(s.out, h)
  BY <1>2, <1>3, <1>5, HydrateConcat DEF Glue
<1>7. Glue(Glue(d, head), h) = Glue(d, Glue(head, h))
  BY <1>1, <1>2, TextRegroup
<1> QED
  BY <1>1, <1>2, <1>3, <1>4, <1>6, <1>7

LEMMA WholeHydrated ==
    ASSUME NEW s \in Scanners, NEW f, NEW sent \in Texts, NEW d \in Texts,
           NEW text \in Texts, NEW rest \in Texts, NEW z \in Texts,
           Sends(s, f, sent, d, text, rest)
    PROVE  Hydrate(Glue(f, z))
             = Glue(d, Glue(Glue(s.head, Hydrate(text)), Hydrate(Glue(rest, z))))
<1>1. PICK a : a = Glue(sent, text) /\ a \in Texts
  BY TextJoin
<1>2. f = Glue(a, rest) /\ Hydrate(a) = Glue(d, Glue(s.head, Hydrate(text)))
  BY <1>1, NextHydrated
<1>3. PICK b : b = Glue(rest, z) /\ b \in Texts
  BY TextJoin
<1>4. SafeCut(a, b)
  BY <1>1, <1>3, CutStays DEF Sends, Glue
<1>5. Glue(f, z) = Glue(a, b)
  BY <1>1, <1>2, <1>3, TextRegroup
<1>6. Hydrate(Glue(a, b)) = Glue(Hydrate(a), Hydrate(b))
  BY <1>1, <1>3, <1>4, HydrateConcat DEF Glue
<1>7. PICK x : x = Glue(s.head, Hydrate(text)) /\ x \in Texts
  <2>1. s.head \in Texts /\ Hydrate(text) \in Texts
    BY HydrateIsText DEF Scanners
  <2> QED
    BY <2>1, TextJoin
<1>8. PICK w : w = Hydrate(b) /\ w \in Texts
  BY <1>3, HydrateIsText
<1>9. Glue(Glue(d, x), w) = Glue(d, Glue(x, w))
  BY <1>7, <1>8, TextRegroup
<1> QED
  BY <1>2, <1>3, <1>5, <1>6, <1>7, <1>8, <1>9

(* Once the verdict on what is to go out stands, a release keeps the       *)
(* account, whichever way it goes.                                         *)
LEMMA BlockedIsStopped ==
    ASSUME NEW s \in Scanners, NEW f \in Texts, NEW sent \in Texts, NEW d \in Texts,
           NEW text \in Texts, NEW rest \in Texts, Sends(s, f, sent, d, text, rest),
           ProgramsShown(f) => \A w \in Texts : Inspect(Glue(Glue(s.head, Hydrate(text)), w)),
           NEW t, t.out = s.out
    PROVE  Stopped(t, f)
<1>1. PICK all : /\ all = Glue(text, rest) /\ all \in Texts
                 /\ Upto(s, f, sent, d, all)
  BY TextJoin DEF Sends
<1>2. ~ Inspect(t.out)
  BY <1>1, UptoIsSafe
<1>3. \E a \in Texts, b \in Texts : f = a \o b /\ CutAt(a, b) /\ t.out = Hydrate(a)
  BY <1>1 DEF Upto
<1>4. ASSUME ProgramsShown(f), NEW z \in Texts
      PROVE  Inspect(Hydrate(f \o z))
  <2>1. PICK x : x = Glue(s.head, Hydrate(text)) /\ x \in Texts
    <3>1. s.head \in Texts /\ Hydrate(text) \in Texts
      BY HydrateIsText DEF Scanners
    <3> QED
      BY <3>1, TextJoin
  <2>2. PICK w : w = Hydrate(Glue(rest, z)) /\ w \in Texts
    <3>1. Glue(rest, z) \in Texts
      BY TextJoin
    <3> QED
      BY <3>1, HydrateIsText
  <2>3. Hydrate(Glue(f, z))
          = Glue(d, Glue(Glue(s.head, Hydrate(text)), Hydrate(Glue(rest, z))))
    BY WholeHydrated
  <2>4. Glue(x, w) \in Texts
    BY <2>1, <2>2, TextJoin
  <2>5. Inspect(Glue(d, Glue(x, w))) <=> Inspect(Glue(x, w))
    <3>1. Reading(Unread, d) = Unread
      BY <1>1 DEF Upto
    <3> QED
      BY <2>4, <3>1, InspectPast DEF Glue
  <2>6. Inspect(Glue(x, w))
    BY <1>4, <2>1, <2>2
  <2>7. Inspect(Hydrate(Glue(f, z)))
    BY <2>1, <2>2, <2>3, <2>5, <2>6
  <2> QED
    BY <2>7 DEF Glue
<1> QED
  BY <1>2, <1>3, <1>4 DEF Stopped

LEMMA ProcessKeeps ==
    ASSUME NEW s \in Scanners, NEW f \in Texts, NEW sent \in Texts, NEW d \in Texts,
           NEW text \in Texts, NEW rest \in Texts, Sends(s, f, sent, d, text, rest),
           Judged(Glue(s.head, Hydrate(text))), ~ s.blocked,
           NEW t, t = Process(s, text), ~ t.recited
    PROVE  IF t.blocked THEN Stopped(t, f)
           ELSE Upto(t, f, Glue(sent, text), t.out, rest)
<1>1. PICK x : x = Glue(s.head, Hydrate(text)) /\ x \in Texts /\ Hydrate(text) \in Texts
  <2>1. s.head \in Texts /\ Hydrate(text) \in Texts
    BY HydrateIsText DEF Scanners
  <2> QED
    BY <2>1, TextJoin
<1>2. /\ t \in Scanners /\ t.head = <<>>
      /\ Inspect(Glue(s.head, Transform(text))) => t.blocked /\ t.out = s.out
      /\ ~ Inspect(Glue(s.head, Transform(text))) =>
            t.blocked = s.blocked /\ t.out = Glue(s.out, Transform(text))
      /\ ~ Recites(text)
  BY ProcessFields DEF Glue
<1>3. Transform(text) = Hydrate(text)
  BY <1>2, TransformType
<1>4. CASE Inspect(x)
  <2>1. Reading(Unread, x).fires
    BY <1>1, <1>4, JudgedVerdict
  <2>2. \A w \in Texts : Inspect(Glue(x, w))
    BY <1>1, <2>1, FiredInspects DEF Glue
  <2>3. t.blocked /\ t.out = s.out
    BY <1>1, <1>2, <1>3, <1>4
  <2>4. Stopped(t, f)
    BY <1>1, <2>2, <2>3, BlockedIsStopped
  <2> QED
    BY <2>3, <2>4
<1>5. CASE ~ Inspect(x)
  <2>1. ~ t.blocked /\ t.out = Glue(s.out, Hydrate(text))
    BY <1>1, <1>2, <1>3, <1>5
  <2>2. /\ f = Glue(Glue(sent, text), rest)
        /\ t.out = Hydrate(Glue(sent, text))
        /\ t.out = Glue(d, x)
    BY <1>1, <2>1, NextHydrated
  <2>3. Reading(Unread, t.out) = Unread
    <3>1. Reading(Unread, x) = Unread
      BY <1>1, <1>5, JudgedVerdict
    <3>2. Reading(Unread, Glue(d, x)) = Reading(Unread, x)
      <4>1. Reading(Unread, d) = Unread
        BY DEF Sends, Upto
      <4> QED
        BY <1>1, <4>1, InspectPast DEF Glue
    <3> QED
      BY <2>2, <3>1, <3>2
  <2>4. t.out = Glue(t.out, t.head)
    BY <1>2, ConcatEmptySeq DEF Scanners, Texts, Glue
  <2>5. /\ t.head \in Seq(InLine) /\ ~ OpensFence(t.head) /\ ~ DangerousLine(t.head)
    BY <1>2, NothingDangerous DEF OpensFence
  <2>6. CutAt(Glue(sent, text), rest)
    BY DEF Sends
  <2>7. Upto(t, f, Glue(sent, text), t.out, rest)
    BY <2>2, <2>3, <2>4, <2>5, <2>6 DEF Upto, Glue
  <2> QED
    BY <2>1, <2>7
<1> QED
  BY <1>4, <1>5

LEMMA ReleaseKeeps ==
    ASSUME NEW s \in Scanners, NEW f \in Texts, NEW sent \in Texts, NEW d \in Texts,
           NEW text \in Seq(InLine), NEW rest \in Texts, Sends(s, f, sent, d, text, rest),
           text # <<>>, text[1] # "fence",
           ProgramsShown(f) => ~ NamesProgram(Glue(s.head, Hydrate(text))),
           ~ s.blocked, NEW t, t = Release(s, text), ~ t.recited
    PROVE  IF t.blocked THEN Stopped(t, f)
           ELSE /\ Upto(t, f, Glue(sent, text), d, rest)
                /\ t.head = Glue(s.head, Hydrate(text))
<1>1. text \in Texts
  BY SeqMonotonic DEF InLine, Texts
<1>2. PICK h : h = Hydrate(text) /\ h \in Texts /\ h \in Seq(InLine)
               /\ h # <<>> /\ h[1] # "fence"
  <2>1. InLine \cup Masked = InLine
    BY DictionaryFacts DEF InLine, Ends, Masked
  <2>2. Hydrate(text) \in Seq(InLine)
    BY <2>1, HydrateType
  <2>3. Hydrate(text) # <<>> /\ Hydrate(text)[1] # "fence"
    BY <1>1, HydrateFirst DEF Masked
  <2> QED
    BY <1>1, <2>2, <2>3, HydrateIsText
<1>3. PICK x : x = Glue(s.head, h)
  OBVIOUS
<1>4. /\ x \in Texts /\ x \in Seq(InLine) /\ x # <<>> /\ x[1] # "fence" /\ ~ OpensFence(x)
  <2>1. s.head \in Seq(InLine) /\ ~ OpensFence(s.head) /\ s.head \in Texts
    BY DEF Sends, Upto, Scanners
  <2>2. x \in Seq(InLine) /\ x \in Texts
    BY <1>2, <1>3, <2>1, ConcatProperties DEF Texts, Glue
  <2>3. x # <<>>
    BY <1>2, <1>3, <2>1 DEF Glue
  <2>4. x[1] # "fence"
    <3>1. CASE s.head = <<>>
      <4>1. x = h
        BY <1>2, <1>3, <3>1, ConcatEmptySeq DEF Texts, Glue
      <4> QED
        BY <1>2, <4>1
    <3>2. CASE s.head # <<>>
      <4>1. 1 \in 1..Len(s.head) /\ s.head[1] # "fence"
        BY <2>1, <3>2 DEF OpensFence
      <4>2. x[1] = s.head[1]
        BY <1>2, <1>3, <2>1, <4>1, ConcatProperties DEF Texts, Glue
      <4> QED
        BY <4>1, <4>2
    <3> QED
      BY <3>1, <3>2
  <2> QED
    BY <2>2, <2>3, <2>4 DEF OpensFence
<1>5. /\ t \in Scanners
      /\ Inspect(Glue(s.head, Transform(text))) => t.blocked /\ t.out = s.out
      /\ ~ Inspect(Glue(s.head, Transform(text))) =>
            /\ t.blocked = s.blocked /\ t.out = Glue(s.out, Transform(text))
            /\ t.head = Glue(s.head, Transform(text))
      /\ ~ Recites(text)
  BY <1>1, ReleaseFields DEF Glue
<1>6. Transform(text) = h
  BY <1>1, <1>2, <1>5, TransformType
<1>7. Inspect(x) <=> DangerousLine(x)
  BY <1>4, UnfinishedLine
<1>8. CASE Inspect(x)
  <2>1. ProgramsShown(f) => \A w \in Texts : Inspect(Glue(x, w))
    BY <1>2, <1>3, <1>4, <1>7, <1>8, DangerCondemns DEF Glue
  <2>2. t.blocked /\ t.out = s.out
    BY <1>3, <1>5, <1>6, <1>8
  <2>3. Stopped(t, f)
    BY <1>1, <1>2, <1>3, <2>1, <2>2, BlockedIsStopped
  <2> QED
    BY <2>2, <2>3
<1>9. CASE ~ Inspect(x)
  <2>1. ~ t.blocked /\ t.out = Glue(s.out, h) /\ t.head = x
    BY <1>3, <1>5, <1>6, <1>9
  <2>2. /\ f = Glue(Glue(sent, text), rest)
        /\ t.out = Hydrate(Glue(sent, text))
        /\ t.out = Glue(d, t.head)
    BY <1>1, <1>2, <1>3, <2>1, NextHydrated
  <2>3. CutAt(Glue(sent, text), rest) /\ Reading(Unread, d) = Unread
    BY DEF Sends, Upto
  <2>4. Upto(t, f, Glue(sent, text), d, rest)
    BY <1>4, <1>7, <1>9, <2>1, <2>2, <2>3 DEF Upto, Glue
  <2> QED
    BY <1>2, <1>3, <2>1, <2>4
<1> QED
  BY <1>8, <1>9
-----------------------------------------------------------------------------
(* What is out of a line leaves no program's name to come: it is settled,  *)
(* or what the commit rule stopped at will settle it.                      *)
Leading(head, rest) ==
    \/ head = <<>>
    \/ Settled(head)
    \/ Bland(head) /\ rest # <<>> /\ rest[1] \in Starters

LEMMA FirstOfGlue ==
    ASSUME NEW a \in Texts, a # <<>>, NEW b \in Texts
    PROVE  Glue(a, b) # <<>> /\ Glue(a, b)[1] = a[1]
<1>1. 1 \in 1..Len(a) /\ Len(a) \in Nat /\ Len(b) \in Nat
  BY DEF Texts
<1>2. /\ Len(a \o b) = Len(a) + Len(b) /\ a \o b \in Texts
      /\ \A i \in 1..(Len(a) + Len(b)) : i <= Len(a) => (a \o b)[i] = a[i]
  BY ConcatProperties DEF Texts
<1> QED
  BY <1>1, <1>2 DEF Glue

LEMMA LeadingGoesOn ==
    ASSUME NEW head \in Texts, NEW part \in Texts, NEW rest \in Texts,
           Leading(head, Glue(part, rest)), part # <<>>, Prose(Glue(part, rest)),
           rest = <<>> \/ rest[1] \in Starters, ProgramsShown(part)
    PROVE  /\ Leading(Glue(head, Hydrate(part)), rest)
           /\ ~ NamesProgram(Glue(head, Hydrate(part)))
<1>1. PICK h : h = Hydrate(part) /\ h \in Texts
  BY HydrateIsText
<1>2. PICK x : x = Glue(head, h) /\ x \in Texts
  BY <1>1, TextJoin
<1>3. Settled(part) \/ (Bland(part) /\ Settled(rest))
  <2>1. Settled(Glue(part, rest))
    BY TextJoin, ProseSettled
  <2> QED
    BY <2>1, SettledConcat DEF Glue
<1>4. Settled(h) \/ (Bland(h) /\ rest # <<>> /\ rest[1] \in Starters)
  <2>1. CASE Settled(part)
    BY <1>1, <2>1, HydrateSettled
  <2>2. CASE Bland(part) /\ Settled(rest)
    <3>1. rest # <<>>
      BY <2>2 DEF Settled
    <3> QED
      BY <1>1, <2>2, <3>1, HydrateSettled
  <2> QED
    BY <1>3, <2>1, <2>2
<1>5. /\ Settled(x) <=> Settled(head) \/ (Bland(head) /\ Settled(h))
      /\ Bland(x) <=> Bland(head) /\ Bland(h)
  BY <1>1, <1>2, SettledConcat DEF Glue
<1>6. Settled(x) \/ (Bland(x) /\ rest # <<>> /\ rest[1] \in Starters)
  <2>1. CASE head = <<>>
    <3>1. x = h
      BY <1>1, <1>2, <2>1, ConcatEmptySeq DEF Texts, Glue
    <3> QED
      BY <1>4, <3>1
  <2>2. CASE Settled(head)
    BY <1>5, <2>2
  <2>3. CASE Bland(head) /\ Glue(part, rest)[1] \in Starters
    <3>1. part[1] \in Starters
      BY <2>3, FirstOfGlue
    <3>2. 1 \in 1..Len(part) /\ (1..(1 - 1)) = {}
      BY DEF Texts
    <3>3. SettledAt(part, 1)
      BY <3>1, <3>2 DEF SettledAt, Starters, Bombs, Lead
    <3>4. Settled(part)
      BY <3>2, <3>3 DEF Settled
    <3>5. Settled(h)
      BY <1>1, <3>4, HydrateSettled
    <3> QED
      BY <1>5, <2>3, <3>5
  <2> QED
    BY <2>1, <2>2, <2>3 DEF Leading
<1>7. ~ NamesProgram(x)
  BY <1>2, <1>6, SettledNamesNone
<1> QED
  BY <1>1, <1>2, <1>6, <1>7 DEF Leading

(* The account of a scanner that has not blocked the answer.               *)
Waiting(s) == Glue(s.held, s.buf)

FenceKept(s) ==
    /\ s.inFence =>
          /\ s.head = <<>>
          /\ s.held # <<>> /\ s.held[Len(s.held)] \in Ends
          /\ Fenced(Hydrate(s.held))
    /\ ~ s.inFence => s.held = <<>>

Kept(s, f) ==
    /\ \E sent \in Texts, d \in Texts : Upto(s, f, sent, d, Waiting(s))
    /\ FenceKept(s)
    /\ ProgramsShown(f) => Leading(s.head, s.buf)

(* The streamed text so far and the scanner agree, unless a size bound or  *)
(* a recited dictionary has come between them.                             *)
Faithful(s, f) ==
    \/ s.cramped
    \/ s.recited
    \/ s.blocked /\ Stopped(s, f)
    \/ ~ s.blocked /\ Kept(s, f)

LEMMA NewIsFaithful ==
    ASSUME NEW strict \in BOOLEAN
    PROVE  Faithful(NewScanner(strict), <<>>)
<1>1. PICK s : /\ s = NewScanner(strict) /\ s.buf = <<>> /\ s.held = <<>> /\ s.head = <<>>
               /\ s.out = <<>> /\ ~ s.inFence /\ ~ s.blocked
  <2>1. LET s == NewScanner(strict)
        IN /\ s.buf = <<>> /\ s.held = <<>> /\ s.head = <<>>
           /\ s.out = <<>> /\ ~ s.inFence /\ ~ s.blocked
    BY DEF NewScanner
  <2> QED
    BY <2>1, Zenon
<1>2. <<>> \in Texts /\ <<>> \in Seq(InLine) /\ Glue(<<>>, <<>>) = <<>>
  BY DEF Texts, Glue
<1>3. Reading(Unread, <<>>) = Unread
  BY UnreadType, ReadingNone
<1>4. Upto(s, <<>>, <<>>, <<>>, Waiting(s))
  BY <1>1, <1>2, <1>3, HydrateNone, NothingDangerous DEF Upto, Waiting, CutAt, OpensFence, Glue
<1>5. Kept(s, <<>>)
  BY <1>1, <1>2, <1>4 DEF Kept, FenceKept, Leading
<1> QED
  BY <1>1, <1>5 DEF Faithful

(* What a delta adds to.                                                   *)
Grown(s, delta) == [s EXCEPT !.buf = @ \o delta]

LEMMA GrownFields ==
    ASSUME NEW s \in Scanners, NEW delta \in Texts
    PROVE  LET t == Grown(s, delta)
           IN /\ t \in Scanners
              /\ t.strict = s.strict /\ t.held = s.held /\ t.head = s.head
              /\ t.inFence = s.inFence /\ t.blocked = s.blocked /\ t.out = s.out
              /\ t.cramped = s.cramped /\ t.recited = s.recited
              /\ t.buf = Glue(s.buf, delta)
<1>1. s.buf \in Texts /\ Glue(s.buf, delta) \in Texts
  BY TextJoin DEF Scanners
<1>2. Grown(s, delta) = [s EXCEPT !.buf = Glue(s.buf, delta)]
  BY DEF Grown, Glue
<1> QED
  BY <1>1, <1>2 DEF Scanners

LEMMA GrownIsKept ==
    ASSUME NEW s \in Scanners, NEW f \in Texts, Kept(s, f), NEW delta \in Texts
    PROVE  Kept(Grown(s, delta), Glue(f, delta))
<1>1. PICK t : /\ t = Grown(s, delta) /\ t \in Scanners
               /\ t.strict = s.strict /\ t.held = s.held /\ t.head = s.head
               /\ t.inFence = s.inFence /\ t.blocked = s.blocked /\ t.out = s.out
               /\ t.buf = Glue(s.buf, delta)
  BY GrownFields
<1>2. s.buf \in Texts /\ s.held \in Texts
  BY DEF Scanners
<1>3. PICK sent \in Texts, d \in Texts : Upto(s, f, sent, d, Waiting(s))
  BY DEF Kept
<1>4. PICK w : w = Waiting(s) /\ w \in Texts
  BY <1>2, TextJoin DEF Waiting
<1>5. Waiting(t) = Glue(w, delta)
  BY <1>1, <1>2, <1>4, TextRegroup DEF Waiting
<1>6. Upto(t, Glue(f, delta), sent, d, Glue(w, delta))
  <2>1. f = Glue(sent, w)
    BY <1>3, <1>4 DEF Upto, Glue
  <2>2. Glue(f, delta) = Glue(sent, Glue(w, delta))
    BY <1>4, <2>1, TextRegroup
  <2>3. CutAt(sent, Glue(w, delta))
    BY <1>3, <1>4, CutStays DEF Upto, Glue
  <2> QED
    BY <1>1, <1>3, <2>2, <2>3 DEF Upto, Glue
<1>7. FenceKept(t)
  BY <1>1 DEF Kept, FenceKept
<1>8. ProgramsShown(Glue(f, delta)) => Leading(t.head, t.buf)
  <2>1. s.buf # <<>> => t.buf # <<>> /\ t.buf[1] = s.buf[1]
    BY <1>1, <1>2, FirstOfGlue
  <2>2. ProgramsShown(Glue(f, delta)) => Leading(s.head, s.buf)
    BY ShownParts DEF Kept
  <2> QED
    BY <1>1, <2>1, <2>2 DEF Leading
<1> QED
  BY <1>1, <1>3, <1>5, <1>6, <1>7, <1>8 DEF Kept

LEMMA StoppedStays ==
    ASSUME NEW s, NEW f \in Texts, Stopped(s, f), NEW delta \in Texts
    PROVE  Stopped(s, Glue(f, delta))
<1>1. PICK sent \in Texts, rest \in Texts :
         f = Glue(sent, rest) /\ CutAt(sent, rest) /\ s.out = Hydrate(sent)
  BY DEF Stopped, Glue
<1>2. /\ Glue(f, delta) = Glue(sent, Glue(rest, delta)) /\ Glue(rest, delta) \in Texts
      /\ CutAt(sent, Glue(rest, delta))
  <2>1. CutAt(sent, Glue(rest, delta))
    BY <1>1, CutStays DEF Glue
  <2> QED
    BY <1>1, <2>1, TextJoin, TextRegroup
<1>3. ASSUME ProgramsShown(Glue(f, delta)), NEW z \in Texts
      PROVE  Inspect(Hydrate(Glue(Glue(f, delta), z)))
  <2>1. Glue(Glue(f, delta), z) = Glue(f, Glue(delta, z)) /\ Glue(delta, z) \in Texts
    BY TextJoin, TextRegroup
  <2>2. \A w \in Texts : Inspect(Hydrate(Glue(f, w)))
    <3>1. ProgramsShown(f)
      BY <1>3, ShownParts
    <3> QED
      BY <3>1 DEF Stopped, Glue
  <2> QED
    BY <2>1, <2>2
<1>4. ~ Inspect(s.out)
  BY DEF Stopped
<1> QED
  BY <1>1, <1>2, <1>3, <1>4 DEF Stopped, Glue
-----------------------------------------------------------------------------
(* The size bounds.                                                        *)
LEMMA HeldLengthType ==
    ASSUME NEW s \in Scanners
    PROVE  /\ Len(s.held) \in Nat /\ Len(s.buf) \in Nat /\ HeldLength(s) \in Nat
           /\ HeldLength(s) = Len(s.held) + Len(s.buf)
<1>1. s.held \in Texts /\ s.buf \in Texts
  BY DEF Scanners
<1>2. PICK a, b : a = Len(s.held) /\ b = Len(s.buf) /\ a \in Nat /\ b \in Nat
  <2>1. Len(s.held) \in Nat /\ Len(s.buf) \in Nat
    BY <1>1 DEF Texts
  <2> QED
    BY <2>1, Zenon
<1>3. \A m, n \in Nat : m + n \in Nat
  OBVIOUS
<1> QED
  BY <1>2, <1>3, Zenon DEF HeldLength

LEMMA HardLimitFields ==
    ASSUME NEW s \in Scanners
    PROVE  LET t == EnforceHardLimit(s)
           IN /\ t \in Scanners /\ t.strict = s.strict /\ t.recited = s.recited
              /\ t.inFence = s.inFence
              /\ HeldLength(t) <= HardLimit
              /\ s.cramped => t.cramped
              /\ \/ t = s /\ HeldLength(s) <= HardLimit
                 \/ t.blocked /\ t.cramped /\ t.held = <<>> /\ t.buf = <<>>
<1>1. HeldLength(s) \in Nat /\ HardLimit \in Nat
  BY HeldLengthType, LimitAssumption
<1>2. CASE HeldLength(s) <= HardLimit
  BY <1>2 DEF EnforceHardLimit
<1>3. CASE ~ (HeldLength(s) <= HardLimit)
  <2>1. <<>> \in Texts
    BY DEF Texts
  <2>2. PICK t : t = Seal(s)
    OBVIOUS
  <2>3. /\ t \in Scanners /\ t.strict = s.strict /\ t.recited = s.recited
        /\ t.inFence = s.inFence /\ t.blocked /\ t.cramped /\ t.held = <<>> /\ t.buf = <<>>
    BY <2>1, <2>2 DEF Seal, Scanners
  <2>4. Len(t.held) = 0 /\ Len(t.buf) = 0
    BY <2>3
  <2>5. HeldLength(t) = 0 + 0
    BY <2>4 DEF HeldLength
  <2>6. HeldLength(t) <= HardLimit
    BY <1>1, <2>5
  <2>7. EnforceHardLimit(s) = t
    BY <1>3, <2>2 DEF EnforceHardLimit
  <2> QED
    BY <2>3, <2>6, <2>7
<1> QED
  BY <1>2, <1>3

Forced(s, t) ==
    /\ t \in Scanners /\ t.strict = s.strict /\ t.buf = s.buf
    /\ t.inFence = s.inFence /\ t.cramped
    /\ s.recited => t.recited
    /\ s.blocked => t.blocked
    /\ t.held = <<>> \/ (t.inFence /\ t.held = <<"fence", "nl">>)
    /\ t.inFence /\ ~ t.blocked => t.held = <<"fence", "nl">>
    /\ ~ s.blocked /\ t.blocked => t.held = <<>>

LEMMA OpenFenceFields ==
    ASSUME NEW s \in Scanners
    PROVE  LET t == ReleaseOpenFence(s)
           IN /\ t \in Scanners /\ t.strict = s.strict /\ t.buf = s.buf
              /\ t.inFence = s.inFence /\ t.cramped
              /\ s.recited => t.recited
              /\ s.blocked => t.blocked
              /\ t.held = <<>> \/ (t.inFence /\ t.held = <<"fence", "nl">>)
              /\ t.inFence /\ ~ t.blocked => t.held = <<"fence", "nl">>
              /\ ~ s.blocked /\ t.blocked => t.held = <<>>
<1>1. <<>> \in Texts /\ <<"fence", "nl">> \in Texts
  <2>1. "fence" \in Pieces /\ "nl" \in Pieces
    BY DictionaryFacts DEF Plain, Ends
  <2> QED
    BY <2>1, TwoSeq DEF Texts
<1>2. PICK e : e = [s EXCEPT !.held = <<>>, !.cramped = TRUE]
  OBVIOUS
<1>3. /\ e \in Scanners /\ e.strict = s.strict /\ e.buf = s.buf /\ e.held = <<>>
      /\ e.inFence = s.inFence /\ e.cramped /\ e.recited = s.recited /\ e.blocked = s.blocked
  BY <1>1, <1>2 DEF Scanners
<1>4. s.held \in Texts
  BY DEF Scanners
<1>5. PICK r : r = Process(e, s.held)
  OBVIOUS
<1>6. /\ r \in Scanners /\ r.strict = s.strict /\ r.buf = s.buf /\ r.held = <<>>
      /\ r.inFence = s.inFence /\ r.cramped
      /\ s.recited => r.recited
      /\ s.blocked => r.blocked
  BY <1>3, <1>4, <1>5, ProcessFields
<1>7. ASSUME r.blocked \/ ~ r.inFence
      PROVE  Forced(s, ReleaseOpenFence(s))
  <2>1. ReleaseOpenFence(s) = r
    BY <1>2, <1>5, <1>7 DEF ReleaseOpenFence
  <2>2. Forced(s, r)
    BY <1>6, <1>7, Zenon DEF Forced
  <2> QED
    BY <2>1, <2>2, Zenon
<1>8. ASSUME ~ (r.blocked \/ ~ r.inFence)
      PROVE  Forced(s, ReleaseOpenFence(s))
  <2>1. PICK t : t = [r EXCEPT !.held = <<"fence", "nl">>]
    OBVIOUS
  <2>2. ReleaseOpenFence(s) = t
    BY <1>2, <1>5, <1>8, <2>1 DEF ReleaseOpenFence
  <2>3. /\ t \in Scanners /\ t.strict = r.strict /\ t.buf = r.buf
        /\ t.held = <<"fence", "nl">> /\ t.inFence = r.inFence /\ t.cramped = r.cramped
        /\ t.recited = r.recited /\ t.blocked = r.blocked
    BY <1>1, <1>6, <2>1 DEF Scanners
  <2>4. Forced(s, t)
    BY <1>6, <1>8, <2>3, Zenon DEF Forced
  <2> QED
    BY <2>2, <2>4, Zenon
<1> QED
  BY <1>7, <1>8, Zenon DEF Forced

LEMMA EnforceFields ==
    ASSUME NEW s \in Scanners
    PROVE  LET t == EnforceMaxBuffer(s)
           IN /\ t \in Scanners /\ t.strict = s.strict /\ t.inFence = s.inFence
              /\ s.cramped => t.cramped
              /\ s.recited => t.recited
              /\ s.blocked => t.blocked
              /\ t = s \/ t.cramped
              /\ \/ t.held = s.held /\ t.buf = s.buf
                 \/ t.held = <<>> /\ t.buf = <<>> /\ t.blocked
                 \/ /\ t.buf = s.buf /\ s.held # <<>>
                    /\ HeldLength(s) <= HardLimit
                    /\ \/ t.held = <<>> /\ (t.blocked \/ ~ t.inFence)
                       \/ t.held = <<"fence", "nl">> /\ t.inFence
              /\ t.held = s.held /\ t.buf = s.buf => HeldLength(t) <= HardLimit
              /\ ~ s.blocked /\ t.blocked => t.held = <<>>
<1>1. <<>> \in Texts
  BY DEF Texts
<1>2. PICK u : u = IF Len(s.head) > MaxBuffer
                   THEN [s EXCEPT !.head = <<>>, !.cramped = TRUE] ELSE s
  OBVIOUS
<1>3. /\ u \in Scanners /\ u.strict = s.strict /\ u.inFence = s.inFence
      /\ u.recited = s.recited /\ u.blocked = s.blocked
      /\ u.held = s.held /\ u.buf = s.buf
      /\ s.cramped => u.cramped
      /\ u = s \/ u.cramped
  BY <1>1, <1>2 DEF Scanners
<1>4. /\ HeldLength(u) = HeldLength(s) /\ HeldLength(u) \in Nat
      /\ MaxBuffer \in Nat /\ HardLimit \in Nat /\ MaxBuffer <= HardLimit
  BY <1>3, HeldLengthType, LimitAssumption DEF HeldLength
<1>5. PICK b : b = EnforceHardLimit(u)
  OBVIOUS
<1>6. /\ b \in Scanners /\ b.strict = u.strict /\ b.recited = u.recited
      /\ b.inFence = u.inFence /\ HeldLength(b) <= HardLimit /\ (u.cramped => b.cramped)
      /\ \/ b = u /\ HeldLength(u) <= HardLimit
         \/ b.blocked /\ b.cramped /\ b.held = <<>> /\ b.buf = <<>>
  BY <1>3, <1>5, HardLimitFields
<1>7. PICK t : t = EnforceMaxBuffer(s)
  OBVIOUS
<1>8. t = IF HeldLength(u) <= MaxBuffer THEN u
          ELSE IF b.blocked \/ b.held = <<>> THEN b ELSE ReleaseOpenFence(b)
  BY <1>2, <1>5, <1>7 DEF EnforceMaxBuffer
<1>9. CASE HeldLength(u) <= MaxBuffer
  <2>1. t = u
    BY <1>8, <1>9
  <2>2. HeldLength(t) <= HardLimit
    BY <1>4, <1>9, <2>1
  <2> QED
    BY <1>3, <1>7, <2>1, <2>2
<1>10. CASE ~ (HeldLength(u) <= MaxBuffer) /\ (b.blocked \/ b.held = <<>>)
  <2>1. t = b
    BY <1>8, <1>10
  <2> QED
    BY <1>3, <1>6, <1>7, <2>1
<1>11. CASE ~ (HeldLength(u) <= MaxBuffer) /\ ~ (b.blocked \/ b.held = <<>>)
  <2>1. t = ReleaseOpenFence(b) /\ b = u /\ HeldLength(u) <= HardLimit
    BY <1>6, <1>8, <1>11
  <2>2. /\ t \in Scanners /\ t.strict = b.strict /\ t.buf = b.buf
        /\ t.inFence = b.inFence /\ t.cramped
        /\ b.recited => t.recited
        /\ b.blocked => t.blocked
        /\ t.held = <<>> \/ (t.inFence /\ t.held = <<"fence", "nl">>)
        /\ t.inFence /\ ~ t.blocked => t.held = <<"fence", "nl">>
        /\ ~ b.blocked /\ t.blocked => t.held = <<>>
    BY <1>6, <2>1, OpenFenceFields
  <2>3. t.held = s.held /\ t.buf = s.buf => HeldLength(t) <= HardLimit
    BY <1>4, <2>1 DEF HeldLength
  <2>4. \/ t.held = <<>> /\ (t.blocked \/ ~ t.inFence)
        \/ t.held = <<"fence", "nl">> /\ t.inFence
    BY <2>2
  <2>5. t.buf = s.buf /\ s.held # <<>> /\ HeldLength(s) <= HardLimit
    BY <1>3, <1>4, <1>11, <2>1, <2>2
  <2> QED
    BY <1>3, <1>7, <2>1, <2>2, <2>3, <2>4, <2>5
<1> QED
  BY <1>9, <1>10, <1>11
-----------------------------------------------------------------------------
(* One line.                                                               *)
LEMMA LastOfGlue ==
    ASSUME NEW a \in Texts, NEW b \in Texts, b # <<>>
    PROVE  Glue(a, b) # <<>> /\ Glue(a, b)[Len(Glue(a, b))] = b[Len(b)]
<1>1. Len(b) \in 1..Len(b) /\ Len(a) \in Nat /\ Len(b) \in Nat
  BY DEF Texts
<1>2. /\ Len(a \o b) = Len(a) + Len(b) /\ a \o b \in Texts
      /\ \A i \in 1..(Len(a) + Len(b)) : ~ (i <= Len(a)) => (a \o b)[i] = b[i - Len(a)]
  BY ConcatProperties DEF Texts
<1>3. PICK n, m : n = Len(a) /\ m = Len(b) /\ n \in Nat /\ m \in Nat /\ m >= 1
  <2>1. Len(b) >= 1
    BY <1>1
  <2> QED
    BY <1>1, <2>1, Zenon
<1>4. n + m \in 1..(n + m) /\ ~ (n + m <= n) /\ (n + m) - n = m
  BY <1>3
<1>5. (a \o b)[n + m] = b[m]
  BY <1>2, <1>3, <1>4
<1> QED
  BY <1>2, <1>3, <1>4, <1>5 DEF Glue

LEMMA ClosesFenceMeans ==
    ASSUME NEW line \in Texts
    PROVE  ClosesFence(line) <=>
             line \in Seq({"fence", "nl"}) /\ \E i \in 1..Len(line) : line[i] = "fence"
<1>1. PICK n : n = Len(line) /\ n \in Nat /\ DOMAIN line = 1..n /\ line \in [1..n -> Pieces]
  BY DEF Texts
<1>2. ToSet(line) = {line[i] : i \in 1..n}
  BY <1>1 DEF ToSet
<1>3. ClosesFence(line) <=> (\A i \in 1..n : line[i] \in {"fence", "nl"})
                              /\ \E i \in 1..n : line[i] = "fence"
  BY <1>2 DEF ClosesFence
<1>4. line \in Seq({"fence", "nl"}) <=> \A i \in 1..n : line[i] \in {"fence", "nl"}
  BY <1>1 DEF Texts
<1> QED
  BY <1>1, <1>3, <1>4

LEMMA LineHydrated ==
    ASSUME NEW a \in Seq(InLine), NEW end \in Ends
    PROVE  /\ Hydrate(a) \in Seq(InLine) /\ Hydrate(a) \in Texts
           /\ Hydrate(Append(a, end)) = Append(Hydrate(a), end)
           /\ OpensFence(Hydrate(a)) <=> OpensFence(a)
           /\ ClosesFence(Append(Hydrate(a), end)) <=> ClosesFence(Append(a, end))
<1>1. /\ a \in Texts /\ end \in Pieces /\ Append(a, end) \in Texts
      /\ end # "fence" /\ end \notin DOMAIN Dictionary
  BY LineIsText
<1>2. Hydrate(a) \in Seq(InLine) /\ Hydrate(a) \in Texts
  <2>1. InLine \cup Masked = InLine
    BY DictionaryFacts DEF InLine, Ends, Masked
  <2>2. Hydrate(a) \in Seq(InLine)
    BY <2>1, HydrateType
  <2> QED
    BY <1>1, <2>2, HydrateIsText
<1>3. Hydrate(Append(a, end)) = Append(Hydrate(a), end)
  BY <1>1, HydrateAppend DEF Resolves
<1>4. OpensFence(Hydrate(a)) <=> OpensFence(a)
  <2>1. CASE a = <<>>
    BY <2>1, HydrateNone
  <2>2. CASE a # <<>>
    BY <1>1, <2>2, HydrateFirst DEF OpensFence, Masked
  <2> QED
    BY <2>1, <2>2
<1>5. ClosesFence(Append(Hydrate(a), end)) <=> ClosesFence(Append(a, end))
  <2>1. PICK l : l = Append(a, end) /\ l \in Texts
    BY <1>1
  <2>2. Hydrate(l) \in Texts
    BY <2>1, HydrateIsText
  <2>3. CASE l \in Seq({"fence", "nl"})
    <3>1. Hydrate(l) = l
      BY <2>1, <2>3, HydrateFence
    <3> QED
      BY <1>3, <2>1, <3>1
  <2>4. CASE l \notin Seq({"fence", "nl"})
    <3>1. Hydrate(l) \notin Seq({"fence", "nl"})
      BY <2>1, <2>4, HydrateFence
    <3>2. ~ ClosesFence(l) /\ ~ ClosesFence(Hydrate(l))
      BY <2>1, <2>2, <2>4, <3>1, ClosesFenceMeans
    <3> QED
      BY <1>3, <2>1, <3>2
  <2> QED
    BY <2>3, <2>4
<1> QED
  BY <1>2, <1>3, <1>4, <1>5

Shorter(s, rest) == [s EXCEPT !.buf = rest]
Further(s, line, rest) == [Shorter(s, rest) EXCEPT !.held = @ \o line]
FedWith(s, line, e) ==
    IF s.inFence
    THEN IF ClosesFence(line) THEN FlushFence([e EXCEPT !.held = @ \o line])
         ELSE EnforceMaxBuffer([e EXCEPT !.held = @ \o line])
    ELSE IF OpensFence(line) /\ s.head = <<>>
         THEN [[e EXCEPT !.held = @ \o line] EXCEPT !.inFence = TRUE]
    ELSE Process(e, line)

LEMMA ShorterFields ==
    ASSUME NEW s \in Scanners, NEW rest \in Texts
    PROVE  LET t == Shorter(s, rest)
           IN /\ t \in Scanners /\ t.buf = rest
              /\ t.strict = s.strict /\ t.held = s.held /\ t.head = s.head
              /\ t.inFence = s.inFence /\ t.blocked = s.blocked /\ t.out = s.out
              /\ t.cramped = s.cramped /\ t.recited = s.recited
  BY DEF Shorter, Scanners

LEMMA FurtherFields ==
    ASSUME NEW s \in Scanners, NEW rest \in Texts, NEW line \in Texts
    PROVE  LET t == Further(s, line, rest)
           IN /\ t \in Scanners /\ t.buf = rest /\ t.held = Glue(s.held, line)
              /\ t.strict = s.strict /\ t.head = s.head
              /\ t.inFence = s.inFence /\ t.blocked = s.blocked /\ t.out = s.out
              /\ t.cramped = s.cramped /\ t.recited = s.recited
<1>1. PICK u : u = Shorter(s, rest)
  OBVIOUS
<1>2. /\ u \in Scanners /\ u.buf = rest
      /\ u.strict = s.strict /\ u.held = s.held /\ u.head = s.head
      /\ u.inFence = s.inFence /\ u.blocked = s.blocked /\ u.out = s.out
      /\ u.cramped = s.cramped /\ u.recited = s.recited
  BY <1>1, ShorterFields
<1>3. Glue(s.held, line) \in Texts
  BY TextJoin DEF Scanners
<1>4. Further(s, line, rest) = [u EXCEPT !.held = Glue(s.held, line)]
  BY <1>1, <1>2 DEF Further, Glue
<1> QED
  BY <1>2, <1>3, <1>4 DEF Scanners

LEMMA FeedLineCases ==
    ASSUME NEW s \in Scanners, HasLine(s)
    PROVE  \E a \in Seq(InLine), end \in Ends, line \in Texts, rest \in Texts :
              /\ line = Append(a, end) /\ line # <<>> /\ line[Len(line)] = end
              /\ s.buf = Glue(line, rest)
              /\ Len(s.buf) = Len(line) + Len(rest) /\ Len(rest) < Len(s.buf)
              /\ Len(line) = Len(a) + 1
              /\ FeedLine(s) =
                   IF s.inFence
                   THEN IF ClosesFence(line) THEN FlushFence(Further(s, line, rest))
                        ELSE EnforceMaxBuffer(Further(s, line, rest))
                   ELSE IF OpensFence(line) /\ s.head = <<>>
                        THEN [Further(s, line, rest) EXCEPT !.inFence = TRUE]
                   ELSE Process(Shorter(s, rest), line)
<1>1. s.buf \in Texts /\ \E i \in DOMAIN s.buf : s.buf[i] \in Ends
  BY DEF Scanners, HasLine
<1>2. PICK a \in Seq(InLine), end \in Ends, rest \in Texts :
              /\ s.buf = Append(a, end) \o rest
              /\ SubSeq(s.buf, 1, LineEnd(s.buf)) = Append(a, end)
              /\ SubSeq(s.buf, LineEnd(s.buf) + 1, Len(s.buf)) = rest
              /\ Len(s.buf) = LineEnd(s.buf) + Len(rest) /\ Len(a) + 1 = LineEnd(s.buf)
  BY <1>1, FirstLine
<1>3. PICK line : /\ line = Append(a, end) /\ line \in Texts /\ line # <<>>
                  /\ Len(line) = Len(a) + 1 /\ Len(a) \in Nat /\ line[Len(a) + 1] = end
  <2>1. a \in Texts /\ end \in Pieces
    BY LineIsText
  <2> QED
    BY <2>1, AppendedText
<1>4. Len(rest) \in Nat /\ Len(s.buf) = Len(line) + Len(rest) /\ Len(rest) < Len(s.buf)
  <2>1. Len(rest) \in Nat
    BY DEF Texts
  <2>2. Len(s.buf) = (Len(a) + 1) + Len(rest)
    BY <1>2
  <2> QED
    BY <1>3, <2>1, <2>2
<1>5. Shorter(s, rest) = [s EXCEPT !.buf = SubSeq(@, LineEnd(@) + 1, Len(@))]
  BY <1>2 DEF Shorter
<1>6. FeedLine(s) =
        IF s.inFence
        THEN IF ClosesFence(line) THEN FlushFence(Further(s, line, rest))
             ELSE EnforceMaxBuffer(Further(s, line, rest))
        ELSE IF OpensFence(line) /\ s.head = <<>>
             THEN [Further(s, line, rest) EXCEPT !.inFence = TRUE]
        ELSE Process(Shorter(s, rest), line)
  <2>1. FeedLine(s) = FedWith(s, SubSeq(s.buf, 1, LineEnd(s.buf)),
                              [s EXCEPT !.buf = SubSeq(@, LineEnd(@) + 1, Len(@))])
    BY Zenon DEF FeedLine, FedWith, MayOpenFence
  <2>2. FeedLine(s) = FedWith(s, line, Shorter(s, rest))
    BY <1>2, <1>3, <1>5, <2>1, Zenon
  <2> QED
    BY <2>2, Zenon DEF FedWith, Further
<1>7. s.buf = Glue(line, rest)
  BY <1>2, <1>3 DEF Glue
<1> QED
  BY <1>3, <1>4, <1>6, <1>7

Emptied(s) == [s EXCEPT !.inFence = FALSE, !.held = <<>>]

LEMMA EmptiedFields ==
    ASSUME NEW s \in Scanners
    PROVE  LET t == Emptied(s)
           IN /\ t \in Scanners /\ ~ t.inFence /\ t.held = <<>>
              /\ t.strict = s.strict /\ t.buf = s.buf /\ t.head = s.head
              /\ t.blocked = s.blocked /\ t.out = s.out
              /\ t.cramped = s.cramped /\ t.recited = s.recited
<1>1. <<>> \in Texts
  BY DEF Texts
<1> QED
  BY <1>1 DEF Emptied, Scanners

Entered(s) == [s EXCEPT !.inFence = TRUE]

LEMMA EnteredFields ==
    ASSUME NEW s \in Scanners
    PROVE  LET t == Entered(s)
           IN /\ t \in Scanners /\ t.inFence
              /\ t.strict = s.strict /\ t.buf = s.buf /\ t.head = s.head /\ t.held = s.held
              /\ t.blocked = s.blocked /\ t.out = s.out
              /\ t.cramped = s.cramped /\ t.recited = s.recited
  BY DEF Entered, Scanners

(* What no operation undoes.                                               *)
Later(s, t) ==
    /\ t \in Scanners /\ t.strict = s.strict
    /\ s.cramped => t.cramped
    /\ s.recited => t.recited

LEMMA FeedLineFields ==
    ASSUME NEW s \in Scanners, HasLine(s)
    PROVE  LET t == FeedLine(s) IN Later(s, t) /\ Len(t.buf) < Len(s.buf)
<1>1. PICK a \in Seq(InLine), end \in Ends, line \in Texts, rest \in Texts :
         /\ Len(rest) < Len(s.buf)
         /\ FeedLine(s) =
              IF s.inFence
              THEN IF ClosesFence(line) THEN FlushFence(Further(s, line, rest))
                   ELSE EnforceMaxBuffer(Further(s, line, rest))
              ELSE IF OpensFence(line) /\ s.head = <<>>
                   THEN [Further(s, line, rest) EXCEPT !.inFence = TRUE]
              ELSE Process(Shorter(s, rest), line)
  BY FeedLineCases
<1>2. PICK r : r = Shorter(s, rest) /\ Later(s, r) /\ r.buf = rest
  BY ShorterFields DEF Later
<1>3. PICK g : g = Further(s, line, rest) /\ Later(s, g) /\ g.buf = rest
  BY FurtherFields DEF Later
<1>4. Len(s.buf) \in Nat /\ Len(rest) \in Nat
  BY HeldLengthType DEF Texts
<1>5. CASE s.inFence /\ ClosesFence(line)
  <2>1. PICK e : /\ e = Emptied(g) /\ Later(g, e) /\ e.buf = rest
    BY <1>3, EmptiedFields DEF Later
  <2>2. FeedLine(s) = Process(e, g.held) /\ g.held \in Texts
    BY <1>1, <1>3, <1>5, <2>1 DEF FlushFence, Emptied, Later, Scanners
  <2>3. Later(e, FeedLine(s)) /\ FeedLine(s).buf = rest
    <3>1. PICK text : text = g.held /\ text \in Texts
      BY <2>2, Zenon
    <3>2. e \in Scanners
      BY <2>1 DEF Later
    <3>3. Later(e, Process(e, text)) /\ Process(e, text).buf = e.buf
      BY <3>1, <3>2, ProcessFields DEF Later
    <3> QED
      BY <2>1, <2>2, <3>1, <3>3, Zenon
  <2> QED
    BY <1>1, <1>3, <2>1, <2>3 DEF Later
<1>6. CASE s.inFence /\ ~ ClosesFence(line)
  <2>1. PICK t : t = FeedLine(s) /\ t = EnforceMaxBuffer(g)
    BY <1>1, <1>3, <1>6
  <2>2. Later(g, t) /\ (t.buf = g.buf \/ t.buf = <<>>)
    BY <1>3, <2>1, EnforceFields DEF Later
  <2>3. Len(t.buf) < Len(s.buf)
    BY <1>1, <1>3, <1>4, <2>2
  <2> QED
    BY <1>3, <2>1, <2>2, <2>3 DEF Later
<1>7. CASE ~ s.inFence /\ OpensFence(line) /\ s.head = <<>>
  <2>1. FeedLine(s) = Entered(g)
    BY <1>1, <1>3, <1>7 DEF Entered
  <2>2. Later(g, FeedLine(s)) /\ FeedLine(s).buf = rest
    BY <1>3, <2>1, EnteredFields DEF Later
  <2> QED
    BY <1>1, <1>3, <2>2 DEF Later
<1>8. CASE ~ s.inFence /\ ~ (OpensFence(line) /\ s.head = <<>>)
  <2>1. FeedLine(s) = Process(r, line)
    BY <1>1, <1>2, <1>8
  <2>2. Later(r, FeedLine(s)) /\ FeedLine(s).buf = rest
    BY <1>2, <2>1, ProcessFields DEF Later
  <2> QED
    BY <1>1, <1>2, <2>2 DEF Later
<1> QED
  BY <1>5, <1>6, <1>7, <1>8

LEMMA FenceGrows ==
    ASSUME NEW held \in Texts, held # <<>>, held[Len(held)] \in Ends,
           Fenced(Hydrate(held)),
           NEW a \in Seq(InLine), NEW end \in Ends, NEW line, line = Append(a, end)
    PROVE  /\ ~ ClosesFence(line) => Fenced(Hydrate(Glue(held, line)))
           /\ ClosesFence(line) => Judged(Hydrate(Glue(held, line)))
<1>1. line \in Texts
  BY LineIsText
<1>2. SafeCut(held, line)
  BY DEF SafeCut, Resolves, Ends
<1>3. Hydrate(Glue(held, line)) = Hydrate(held) \o Hydrate(line)
  BY <1>1, <1>2, HydrateConcat DEF Glue
<1>4. PICK h : h = Hydrate(a)
  OBVIOUS
<1>5. /\ h \in Seq(InLine) /\ Hydrate(line) = Append(h, end)
      /\ ClosesFence(Append(h, end)) <=> ClosesFence(line)
  BY <1>4, LineHydrated
<1>6. Hydrate(held) \in Texts
  BY HydrateIsText
<1>7. /\ ~ ClosesFence(Append(h, end)) => Fenced(Hydrate(held) \o Append(h, end))
      /\ ClosesFence(Append(h, end)) => Judged(Hydrate(held) \o Append(h, end))
  BY <1>5, <1>6, FenceGoesOn
<1> QED
  BY <1>3, <1>5, <1>7

(* An end of line cuts no placeholder.                                     *)
LEMMA LineCuts ==
    ASSUME NEW a \in Texts, NEW line \in Texts, line # <<>>, line[Len(line)] \in Ends,
           NEW rest
    PROVE  CutAt(Glue(a, line), rest)
<1>1. Glue(a, line) # <<>> /\ Glue(a, line)[Len(Glue(a, line))] = line[Len(line)]
  BY LastOfGlue
<1> QED
  BY <1>1 DEF CutAt, Ends

(* A fence, or what is left of a line, has gone out.                       *)
LEMMA ProcessIsFaithful ==
    ASSUME NEW s \in Scanners, NEW f \in Texts, NEW sent \in Texts, NEW d \in Texts,
           NEW text \in Texts, Sends(s, f, sent, d, text, s.buf),
           Judged(Glue(s.head, Hydrate(text))), ~ s.blocked, ~ s.inFence, s.held = <<>>
    PROVE  Faithful(Process(s, text), f)
<1>1. PICK t : t = Process(s, text)
  OBVIOUS
<1>2. /\ t \in Scanners /\ t.buf = s.buf /\ t.held = <<>> /\ ~ t.inFence /\ t.head = <<>>
  <2>1. /\ Process(s, text) \in Scanners /\ Process(s, text).buf = s.buf
        /\ Process(s, text).held = s.held /\ Process(s, text).inFence = s.inFence
        /\ Process(s, text).head = <<>>
    BY ProcessFields, Zenon
  <2> QED
    BY <1>1, <2>1, Zenon
<1>3. CASE t.recited
  BY <1>1, <1>3 DEF Faithful
<1>4. CASE ~ t.recited
  <2>1. s.buf \in Texts
    BY DEF Scanners
  <2>2. IF t.blocked THEN Stopped(t, f)
        ELSE Upto(t, f, Glue(sent, text), t.out, s.buf)
    BY <1>1, <1>4, <2>1, ProcessKeeps
  <2>3. CASE t.blocked
    BY <1>1, <2>2, <2>3 DEF Faithful
  <2>4. CASE ~ t.blocked
    <3>1. Waiting(t) = s.buf
      BY <1>2, <2>1, ConcatEmptySeq DEF Waiting, Glue, Texts
    <3>2. Glue(sent, text) \in Texts /\ t.out \in Texts
      BY <1>2, TextJoin DEF Scanners
    <3>3. Kept(t, f)
      BY <1>2, <2>2, <2>4, <3>1, <3>2 DEF Kept, FenceKept, Leading
    <3> QED
      BY <1>1, <2>4, <3>3 DEF Faithful
  <2> QED
    BY <2>3, <2>4
<1> QED
  BY <1>3, <1>4

LEMMA FeedLineKeeps ==
    ASSUME NEW s \in Scanners, NEW f \in Texts, ~ s.blocked, Kept(s, f), HasLine(s)
    PROVE  Faithful(FeedLine(s), f)
<1>1. PICK a \in Seq(InLine), end \in Ends, line \in Texts, rest \in Texts :
         /\ line = Append(a, end) /\ line # <<>> /\ line[Len(line)] = end
         /\ s.buf = Glue(line, rest)
         /\ FeedLine(s) =
              IF s.inFence
              THEN IF ClosesFence(line) THEN FlushFence(Further(s, line, rest))
                   ELSE EnforceMaxBuffer(Further(s, line, rest))
              ELSE IF OpensFence(line) /\ s.head = <<>>
                   THEN [Further(s, line, rest) EXCEPT !.inFence = TRUE]
              ELSE Process(Shorter(s, rest), line)
  BY FeedLineCases
<1>2. PICK held, head : /\ held = s.held /\ head = s.head
                        /\ held \in Texts /\ head \in Texts /\ s.out \in Texts
  BY DEF Scanners
<1>3. PICK sent \in Texts, d \in Texts : Upto(s, f, sent, d, Waiting(s))
  BY DEF Kept
<1>4. PICK text : text = Glue(held, line) /\ text \in Texts
  BY <1>2, TextJoin
<1>5. Waiting(s) = Glue(text, rest)
  BY <1>1, <1>2, <1>4, TextRegroup DEF Waiting
<1>6. FenceKept(s)
  BY DEF Kept
<1>7. text # <<>> /\ text[Len(text)] \in Ends /\ CutAt(Glue(sent, text), rest)
  <2>1. held \in Texts /\ line # <<>> /\ line[Len(line)] \in Ends
    BY <1>1, <1>2
  <2>2. /\ Glue(held, line) # <<>>
        /\ Glue(held, line)[Len(Glue(held, line))] = line[Len(line)]
    BY <2>1, LastOfGlue
  <2>3. text # <<>> /\ text[Len(text)] \in Ends
    BY <1>4, <2>1, <2>2, Zenon
  <2> QED
    BY <1>4, <2>3, LineCuts
<1>8. PICK g : /\ g = Further(s, line, rest)
               /\ g \in Scanners /\ g.buf = rest /\ g.held = text
               /\ g.strict = s.strict /\ g.head = s.head
               /\ g.inFence = s.inFence /\ g.blocked = s.blocked /\ g.out = s.out
  BY <1>2, <1>4, FurtherFields
<1>9. ASSUME NEW t, t.out = s.out, t.head = s.head
      PROVE  Upto(t, f, sent, d, Glue(text, rest)) /\ Sends(t, f, sent, d, text, rest)
  BY <1>3, <1>5, <1>7, <1>9 DEF Upto, Sends
<1>10. CASE s.inFence
  <2>1. /\ head = <<>> /\ held # <<>> /\ held[Len(held)] \in Ends
        /\ Fenced(Hydrate(held))
    BY <1>2, <1>6, <1>10 DEF FenceKept
  <2>2. /\ ~ ClosesFence(line) => Fenced(Hydrate(text))
        /\ ClosesFence(line) => Judged(Hydrate(text))
    BY <1>1, <1>2, <1>4, <2>1, FenceGrows
  <2>3. CASE ClosesFence(line)
    <3>1. PICK e : /\ e = Emptied(g) /\ e \in Scanners /\ ~ e.inFence /\ e.held = <<>>
                   /\ e.buf = rest /\ e.head = s.head
                   /\ e.blocked = s.blocked /\ e.out = s.out
      BY <1>8, EmptiedFields
    <3>2. FeedLine(s) = Process(e, text)
      BY <1>1, <1>8, <1>10, <2>3, <3>1 DEF FlushFence, Emptied
    <3>3. Sends(e, f, sent, d, text, e.buf)
      BY <1>9, <3>1
    <3>4. Judged(Glue(e.head, Hydrate(text)))
      <4>1. Hydrate(text) \in Seq(Pieces)
        BY <1>4, HydrateIsText DEF Texts
      <4>2. Glue(<<>>, Hydrate(text)) = Hydrate(text)
        BY <4>1, ConcatEmptySeq DEF Glue
      <4> QED
        BY <1>2, <2>1, <2>2, <2>3, <3>1, <4>2
    <3> QED
      BY <1>4, <3>1, <3>2, <3>3, <3>4, ProcessIsFaithful
  <2>4. CASE ~ ClosesFence(line)
    <3>1. PICK t : t = FeedLine(s) /\ t = EnforceMaxBuffer(g)
      BY <1>1, <1>8, <1>10, <2>4
    <3>2. t = g \/ t.cramped
      BY <1>8, <3>1, EnforceFields
    <3>3. Kept(g, f)
      <4>1. Waiting(g) = Glue(text, rest)
        BY <1>8 DEF Waiting
      <4>3. FenceKept(g)
        BY <1>2, <1>7, <1>8, <1>10, <2>1, <2>2, <2>4 DEF FenceKept
      <4>4. Upto(g, f, sent, d, Waiting(g))
        BY <1>8, <1>9, <4>1
      <4>5. Leading(g.head, g.buf)
        BY <1>2, <1>8, <2>1 DEF Leading
      <4> QED
        BY <4>3, <4>4, <4>5 DEF Kept
    <3> QED
      BY <1>8, <3>1, <3>2, <3>3 DEF Faithful
  <2> QED
    BY <2>3, <2>4
<1>11. CASE ~ s.inFence
  <2>1. held = <<>> /\ text = line
    <3>1. held = <<>>
      BY <1>2, <1>6, <1>11 DEF FenceKept
    <3>2. Glue(<<>>, line) = line
      BY ConcatEmptySeq DEF Texts, Glue
    <3> QED
      BY <1>4, <3>1, <3>2
  <2>2. PICK h : h = Hydrate(a)
    OBVIOUS
  <2>3. /\ h \in Seq(InLine) /\ h \in Texts /\ Hydrate(line) = Append(h, end)
        /\ OpensFence(h) <=> OpensFence(line)
    BY <1>1, <2>2, LineHydrated, LineIsText
  <2>4. CASE OpensFence(line) /\ head = <<>>
    <3>1. PICK t : /\ t = FeedLine(s) /\ t = Entered(g)
      BY <1>1, <1>2, <1>8, <1>11, <2>4 DEF Entered
    <3>2. /\ t \in Scanners /\ t.inFence
          /\ t.buf = rest /\ t.head = s.head /\ t.held = text
          /\ t.blocked = s.blocked /\ t.out = s.out
      BY <1>8, <3>1, EnteredFields
    <3>3. Fenced(Hydrate(text))
      BY <2>1, <2>3, <2>4, FenceOpens
    <3>4. FenceKept(t)
      BY <1>1, <1>2, <2>1, <2>4, <3>2, <3>3 DEF FenceKept
    <3>5. Upto(t, f, sent, d, Waiting(t))
      <4>1. Waiting(t) = Glue(text, rest)
        BY <3>2 DEF Waiting
      <4> QED
        BY <1>9, <3>2, <4>1
    <3>6. Leading(t.head, t.buf)
      BY <1>2, <2>4, <3>2 DEF Leading
    <3>7. Kept(t, f)
      BY <3>4, <3>5, <3>6 DEF Kept
    <3> QED
      BY <3>1, <3>2, <3>7 DEF Faithful
  <2>5. CASE ~ (OpensFence(line) /\ head = <<>>)
    <3>1. PICK r : /\ r = Shorter(s, rest) /\ r \in Scanners /\ r.buf = rest
                   /\ r.held = s.held /\ r.head = s.head
                   /\ r.inFence = s.inFence /\ r.blocked = s.blocked /\ r.out = s.out
      BY ShorterFields
    <3>2. FeedLine(s) = Process(r, line)
      BY <1>1, <1>2, <1>11, <2>5, <3>1
    <3>3. Sends(r, f, sent, d, line, r.buf)
      BY <1>9, <2>1, <3>1
    <3>4. Judged(Glue(r.head, Hydrate(line)))
      <4>1. head \in Seq(InLine) /\ ~ OpensFence(head)
        BY <1>2, <1>3 DEF Upto
      <4>2. PICK x : x = Glue(head, h) /\ x \in Seq(InLine)
        BY <2>3, <4>1, ConcatProperties DEF Glue
      <4>3. ~ OpensFence(x)
        <5>1. CASE head = <<>>
          <6>1. x = h
            BY <2>3, <4>2, <5>1, ConcatEmptySeq DEF Texts, Glue
          <6> QED
            BY <2>3, <2>5, <5>1, <6>1
        <5>2. CASE head # <<>>
          <6>1. x[1] = head[1]
            BY <1>2, <2>3, <4>2, <5>2, FirstOfGlue
          <6> QED
            BY <4>1, <5>2, <6>1 DEF OpensFence
        <5> QED
          BY <5>1, <5>2
      <4>4. Judged(Append(x, end))
        BY <4>2, <4>3, ProseLineJudged
      <4>5. Glue(head, Append(h, end)) = Append(x, end)
        <5>1. end \in Pieces
          BY LineIsText
        <5>2. head \in Seq(Pieces) /\ h \in Seq(Pieces)
          BY <1>2, <2>3 DEF Texts
        <5>3. Append(Glue(head, h), end) = Glue(head, Append(h, end))
          BY <5>1, <5>2, GlueAppend
        <5> QED
          BY <4>2, <5>3, Zenon
      <4> QED
        BY <1>2, <2>3, <3>1, <4>4, <4>5
    <3>5. ~ r.blocked /\ ~ r.inFence /\ r.held = <<>>
      BY <1>2, <1>11, <2>1, <3>1
    <3> QED
      BY <3>1, <3>2, <3>3, <3>4, <3>5, ProcessIsFaithful
  <2> QED
    BY <2>4, <2>5
<1> QED
  BY <1>10, <1>11
-----------------------------------------------------------------------------
(* Every line.                                                             *)
LEMMA FeedType ==
    ASSUME NEW s \in Scanners
    PROVE  Later(s, Feed(s))
<1>1. CASE s.blocked \/ ~ HasLine(s)
  BY <1>1 DEF Feed, Later
<1>2. CASE ~ (s.blocked \/ ~ HasLine(s))
  BY <1>2, FeedLineFields DEF Feed
<1> QED
  BY <1>1, <1>2

FeedSteps(N) == [p \in (1..N) \X Scanners |-> Feed(p[2])]

LEMMA FeedStepsType ==
    ASSUME NEW N \in Nat
    PROVE  /\ FeedSteps(N) \in [(1..N) \X Scanners -> Scanners]
           /\ \A n \in 1..N : \A s \in Scanners : FeedSteps(N)[<<n, s>>] = Feed(s)
<1>1. \A p \in (1..N) \X Scanners : p[2] \in Scanners /\ Feed(p[2]) \in Scanners
  BY FeedType DEF Later
<1> QED
  BY <1>1 DEF FeedSteps

LEMMA FeedLinesIsRun ==
    ASSUME NEW s \in Scanners, NEW N, N = Len(s.buf)
    PROVE  /\ N \in Nat
           /\ \E r \in [0..N -> Scanners] :
                 /\ r[0] = s /\ \A n \in 1..N : r[n] = Feed(r[n - 1])
                 /\ FeedLines(s) = r[N]
<1>1. N \in Nat
  BY HeldLengthType
<1>2. PICK f \in [0..N -> Scanners] : Runs(f, s, FeedSteps(N), N)
  BY <1>1, FeedStepsType, RunExists
<1> DEFINE Body(h) == [n \in 0..Len(s.buf) |-> IF n = 0 THEN s ELSE Feed(h[n - 1])]
           run == CHOOSE h : h = Body(h)
<1>3. f[0] = s /\ \A n \in 1..N : f[n] = Feed(f[n - 1])
  <2>1. \A n \in 1..N : f[n] = FeedSteps(N)[<<n, f[n - 1]>>]
    BY <1>2 DEF Runs
  <2>2. \A n \in 1..N : f[n - 1] \in Scanners
    BY <1>1
  <2>3. \A n \in 1..N : FeedSteps(N)[<<n, f[n - 1]>>] = Feed(f[n - 1])
    BY <1>1, <2>2, FeedStepsType
  <2> QED
    BY <1>2, <2>1, <2>3 DEF Runs
<1>4. f = Body(f)
  <2>1. \A n \in 0..N : f[n] = IF n = 0 THEN s ELSE Feed(f[n - 1])
    <3>1. \A n \in 0..N : n = 0 \/ n \in 1..N
      BY <1>1
    <3> QED
      BY <1>3, <3>1
  <2> QED
    BY <1>1, <2>1
<1>5. run = Body(run)
  <2>1. \E h : h = Body(h)
    BY <1>4
  <2> HIDE DEF Body
  <2> QED
    BY <2>1
<1>6. FeedLines(s) = run[Len(s.buf)]
  BY DEF FeedLines
<1> HIDE DEF run
<1>7. \A n \in 0..N : run[n] = IF n = 0 THEN s ELSE Feed(run[n - 1])
  BY <1>1, <1>5
<1>8. \A n \in 0..N : f[n] = run[n]
  <2> DEFINE Bad == {n \in 0..N : f[n] # run[n]}
  <2>1. SUFFICES ASSUME Bad # {} PROVE FALSE
    OBVIOUS
  <2>2. PICK n \in Bad : \A k \in Bad : n <= k
    <3>1. Bad \in SUBSET Nat
      OBVIOUS
    <3> HIDE DEF Bad
    <3> QED
      BY <2>1, <3>1, LeastNumber, Zenon
  <2>3. n \in 0..N /\ f[n] # run[n]
    OBVIOUS
  <2>4. n # 0
    BY <1>3, <1>7, <2>3
  <2>5. n \in 1..N /\ n - 1 \in 0..N /\ ~ (n <= n - 1)
    BY <1>1, <2>3, <2>4
  <2>6. f[n - 1] = run[n - 1]
    BY <2>2, <2>5
  <2> QED
    BY <1>3, <1>7, <2>3, <2>4, <2>5, <2>6
<1>9. N \in 0..N
  BY <1>1
<1>10. FeedLines(s) = f[N]
  BY <1>6, <1>8, <1>9
<1> QED
  BY <1>1, <1>3, <1>10

(* What every line keeps, all lines keep.                                  *)
LEMMA FeedLinesKeeps ==
    ASSUME NEW s \in Scanners, NEW Good, s \in Good,
           \A t \in Scanners : t \in Good => Feed(t) \in Good
    PROVE  FeedLines(s) \in Good /\ FeedLines(s) \in Scanners
<1>1. PICK N : N = Len(s.buf)
  OBVIOUS
<1>2. /\ N \in Nat
      /\ \E r \in [0..N -> Scanners] :
            /\ r[0] = s /\ \A n \in 1..N : r[n] = Feed(r[n - 1])
            /\ FeedLines(s) = r[N]
  BY <1>1, FeedLinesIsRun
<1>3. PICK r \in [0..N -> Scanners] :
         /\ r[0] = s /\ \A n \in 1..N : r[n] = Feed(r[n - 1])
         /\ FeedLines(s) = r[N]
  BY <1>2
<1>4. \A n \in 0..N : r[n] \in Good
  <2> DEFINE Bad == {n \in 0..N : r[n] \notin Good}
  <2>1. SUFFICES ASSUME Bad # {} PROVE FALSE
    OBVIOUS
  <2>2. PICK n \in Bad : \A k \in Bad : n <= k
    <3>1. Bad \in SUBSET Nat
      OBVIOUS
    <3> HIDE DEF Bad
    <3> QED
      BY <2>1, <3>1, LeastNumber, Zenon
  <2>3. n \in 1..N /\ n - 1 \in 0..N /\ ~ (n <= n - 1)
    BY <1>2, <1>3
  <2>4. r[n - 1] \in Good
    BY <2>2, <2>3
  <2>5. r[n - 1] \in Scanners
    BY <2>3
  <2> QED
    BY <1>3, <2>3, <2>4, <2>5
<1>5. N \in 0..N
  BY <1>2
<1> QED
  BY <1>3, <1>4, <1>5

(* And then none is left, if the stream goes on.                           *)
LEMMA FeedLinesEnds ==
    ASSUME NEW s \in Scanners
    PROVE  FeedLines(s).blocked \/ ~ HasLine(FeedLines(s))
<1>1. PICK N : N = Len(s.buf)
  OBVIOUS
<1>2. /\ N \in Nat
      /\ \E r \in [0..N -> Scanners] :
            /\ r[0] = s /\ \A n \in 1..N : r[n] = Feed(r[n - 1])
            /\ FeedLines(s) = r[N]
  BY <1>1, FeedLinesIsRun
<1>3. PICK r \in [0..N -> Scanners] :
         /\ r[0] = s /\ \A n \in 1..N : r[n] = Feed(r[n - 1])
         /\ FeedLines(s) = r[N]
  BY <1>2
<1> DEFINE Over(t) == t.blocked \/ ~ HasLine(t)
           Bad == {n \in 0..N : ~ (Over(r[n]) \/ Len(r[n].buf) + n <= N)}
<1>4. Bad = {}
  <2>1. SUFFICES ASSUME Bad # {} PROVE FALSE
    OBVIOUS
  <2>2. PICK n \in Bad : \A k \in Bad : n <= k
    <3>1. Bad \in SUBSET Nat
      OBVIOUS
    <3> HIDE DEF Bad
    <3> QED
      BY <2>1, <3>1, LeastNumber, Zenon
  <2>3. n \in 0..N /\ ~ Over(r[n]) /\ ~ (Len(r[n].buf) + n <= N)
    OBVIOUS
  <2>4. n # 0
    <3>1. Len(r[0].buf) + 0 <= N
      BY <1>1, <1>2, <1>3
    <3> QED
      BY <2>3, <3>1
  <2>5. n \in 1..N /\ n - 1 \in 0..N /\ ~ (n <= n - 1)
    BY <1>2, <2>3, <2>4
  <2>6. PICK t : t = r[n - 1] /\ t \in Scanners
    BY <2>5
  <2>7. Over(t) \/ Len(t.buf) + (n - 1) <= N
    BY <2>2, <2>5, <2>6
  <2>8. r[n] = Feed(t)
    BY <1>3, <2>5, <2>6
  <2> HIDE DEF Bad
  <2>9. CASE Over(t)
    <3>1. r[n] = t
      BY <2>8, <2>9 DEF Feed
    <3> QED
      BY <2>3, <2>9, <3>1
  <2>10. CASE ~ Over(t)
    <3>1. r[n] = FeedLine(t)
      BY <2>8, <2>10 DEF Feed
    <3>2. Len(r[n].buf) < Len(t.buf) /\ r[n] \in Scanners
      BY <2>6, <2>10, <3>1, FeedLineFields DEF Later
    <3>3. Len(r[n].buf) \in Nat /\ Len(t.buf) \in Nat
      BY <2>6, <3>2, HeldLengthType
    <3> QED
      BY <1>2, <2>3, <2>7, <2>10, <3>2, <3>3
  <2> QED
    BY <2>9, <2>10
<1>5. N \in 0..N
  BY <1>2
<1>6. Over(r[N]) \/ Len(r[N].buf) + N <= N
  BY <1>4, <1>5
<1>7. CASE Len(r[N].buf) + N <= N
  <2>1. r[N].buf \in Texts /\ Len(r[N].buf) \in Nat
    BY <1>5, HeldLengthType DEF Scanners
  <2>2. Len(r[N].buf) = 0
    BY <1>2, <1>7, <2>1
  <2>3. DOMAIN r[N].buf = 1..0
    BY <2>1, <2>2 DEF Texts
  <2> QED
    BY <1>3, <2>3 DEF HasLine
<1> QED
  BY <1>3, <1>6, <1>7

LEMMA FeedKeeps ==
    ASSUME NEW s \in Scanners, NEW f \in Texts, Faithful(s, f)
    PROVE  Faithful(Feed(s), f)
<1>1. Later(s, Feed(s))
  BY FeedType
<1>2. CASE s.cramped \/ s.recited
  BY <1>1, <1>2 DEF Later, Faithful
<1>3. CASE ~ (s.cramped \/ s.recited) /\ (s.blocked \/ ~ HasLine(s))
  BY <1>3 DEF Feed
<1>4. CASE ~ (s.cramped \/ s.recited) /\ ~ s.blocked /\ HasLine(s)
  <2>1. Kept(s, f) /\ Feed(s) = FeedLine(s)
    BY <1>4 DEF Faithful, Feed
  <2> QED
    BY <1>4, <2>1, FeedLineKeeps
<1> QED
  BY <1>2, <1>3, <1>4

LEMMA FeedLinesFaithful ==
    ASSUME NEW s \in Scanners, NEW f \in Texts
    PROVE  /\ Later(s, FeedLines(s))
           /\ Faithful(s, f) => Faithful(FeedLines(s), f)
<1> DEFINE Good == {t \in Scanners : Later(s, t)}
           Same == {t \in Scanners : Faithful(t, f)}
<1>1. FeedLines(s) \in Good
  <2>1. s \in Good
    BY DEF Later
  <2>2. \A t \in Scanners : t \in Good => Feed(t) \in Good
    BY FeedType DEF Later
  <2> HIDE DEF Good
  <2> QED
    BY <2>1, <2>2, FeedLinesKeeps
<1>2. ASSUME Faithful(s, f)
      PROVE  FeedLines(s) \in Same
  <2>1. s \in Same
    BY <1>2
  <2>2. \A t \in Scanners : t \in Same => Feed(t) \in Same
    BY FeedKeeps, FeedType DEF Later
  <2> HIDE DEF Same
  <2> QED
    BY <2>1, <2>2, FeedLinesKeeps
<1> QED
  BY <1>1, <1>2
-----------------------------------------------------------------------------
(* The tail.                                                               *)
CleanCut(buf, n, part, rest) ==
    /\ part \in Seq(InLine) /\ part \in Texts /\ rest \in Texts
    /\ part # <<>> /\ part[1] # "fence"
    /\ buf = Glue(part, rest) /\ Prose(buf)
    /\ rest = <<>> \/ rest[1] \in Starters
    /\ \A sent \in Texts : CutAt(Glue(sent, part), rest)
    /\ Len(rest) = Len(buf) - n
    /\ n \in 1..Len(buf)
    /\ \A i \in 1..Len(rest) : rest[i] = buf[n + i]

LEMMA TailCut ==
    ASSUME NEW buf \in Texts, ~ \E i \in DOMAIN buf : buf[i] \in Ends,
           NEW n, n = CommitIndex(buf), n # 0
    PROVE  CleanCut(buf, n, SubSeq(buf, 1, n), SubSeq(buf, n + 1, Len(buf)))
<1>1. PICK len : len = Len(buf) /\ len \in Nat /\ DOMAIN buf = 1..len
  BY DEF Texts
<1>2. /\ n \in 1..len /\ Prose(buf)
      /\ \/ StopsAtTick(buf, n)
         \/ StopsAtBombs(buf, n)
         \/ OpensAlone(buf, n)
         \/ StopsNowhere(buf, n)
  BY <1>1, CommitIndexFacts
<1>3. \A i \in 1..len : buf[i] \in InLine /\ buf[i] \in Pieces
  BY <1>1 DEF Texts, InLine
<1>4. PICK part : /\ part = SubSeq(buf, 1, n) /\ part \in Seq(InLine) /\ part \in Texts
                  /\ Len(part) = n /\ \A i \in 1..n : part[i] = buf[i]
  <2>1. \A i \in 1..n : buf[i] \in InLine /\ buf[i] \in Pieces
    <3>1. len \in Nat /\ n \in 1..len
      BY <1>1, <1>2, Zenon
    <3>2. \A i \in 1..n : i \in 1..len
      BY <3>1
    <3> QED
      BY <1>3, <3>2, Zenon
  <2>2. 1 \in Int /\ n \in Int /\ (n - 1) + 1 = n /\ 1 <= n
    BY <1>2
  <2>3. PICK p : p = SubSeq(buf, 1, n)
    OBVIOUS
  <2>4. /\ p \in Seq(InLine)
        /\ Len(p) = IF 1 <= n THEN (n - 1) + 1 ELSE 0
        /\ \A i \in 1..((n - 1) + 1) : p[i] = buf[(1 + i) - 1]
    BY <2>1, <2>2, <2>3, SubSeqProperties
  <2>5. \A i \in 1..n : (1 + i) - 1 = i
    BY <1>2
  <2>6. p \in Texts
    BY <2>4, SeqMonotonic DEF InLine, Texts
  <2>7. Len(p) = n /\ \A i \in 1..n : p[i] = buf[i]
    BY <2>2, <2>4, <2>5
  <2> QED
    BY <2>3, <2>4, <2>6, <2>7
<1>5. PICK rest : /\ rest = SubSeq(buf, n + 1, len) /\ rest \in Texts
                  /\ Len(rest) = len - n /\ \A i \in 1..(len - n) : rest[i] = buf[n + i]
  <2>1. \A i \in (n + 1)..len : buf[i] \in Pieces
    BY <1>1, <1>2, <1>3
  <2>2. n + 1 \in Int /\ len \in Int
    BY <1>1, <1>2
  <2>3. PICK r : r = SubSeq(buf, n + 1, len)
    OBVIOUS
  <2>4. /\ r \in Seq(Pieces)
        /\ Len(r) = IF n + 1 <= len THEN (len - (n + 1)) + 1 ELSE 0
        /\ \A i \in 1..((len - (n + 1)) + 1) : r[i] = buf[((n + 1) + i) - 1]
    BY <2>1, <2>2, <2>3, SubSeqProperties
  <2>5. (len - (n + 1)) + 1 = len - n /\ (n + 1 <= len \/ len - n = 0)
    BY <1>1, <1>2
  <2>6. \A i \in 1..(len - n) : ((n + 1) + i) - 1 = n + i
    BY <1>1, <1>2
  <2>7. Len(r) = len - n
    BY <2>4, <2>5
  <2>8. \A i \in 1..(len - n) : r[i] = buf[n + i]
    BY <2>4, <2>5, <2>6
  <2> QED
    BY <2>3, <2>4, <2>7, <2>8 DEF Texts
<1>6. buf = Glue(part, rest)
  <2>1. SubSeq(buf, 1, n) \o SubSeq(buf, n + 1, len) = SubSeq(buf, 1, len)
    <3>1. /\ 1 \in 1..(len + 1) /\ n \in (1 - 1)..len /\ len \in n..len
      BY <1>1, <1>2
    <3> QED
      BY <1>1, <3>1, ConcatAdjacentSubSeq DEF Texts
  <2>2. SubSeq(buf, 1, len) = buf
    BY <1>1, SubSeqFull DEF Texts
  <2> QED
    BY <1>4, <1>5, <2>1, <2>2 DEF Glue
<1>7. part # <<>> /\ part[1] # "fence" /\ part[Len(part)] = buf[n]
  <2>1. 1 \in 1..n /\ n \in 1..n /\ n # 0
    BY <1>2
  <2> QED
    BY <1>2, <1>4, <2>1 DEF Prose
<1>8. rest = <<>> \/ rest[1] \in Starters
  <2>1. CASE n < len
    <3>1. 1 \in 1..(len - n)
      BY <1>1, <1>2, <2>1
    <3>2. rest[1] = buf[n + 1]
      BY <1>5, <3>1
    <3>3. buf[n + 1] \in Starters
      BY <1>1, <1>2, <2>1 DEF StopsAtTick, StopsAtBombs, OpensAlone, StopsNowhere, Starters
    <3> QED
      BY <3>2, <3>3
  <2>2. CASE n = len
    <3>1. Len(rest) = 0
      BY <1>1, <1>5, <2>2
    <3> QED
      BY <1>5, <3>1 DEF Texts
  <2> QED
    BY <1>1, <1>2, <2>1, <2>2
<1>9. rest # <<>> => rest[1] \notin DOMAIN Dictionary
  <2>1. Starters \subseteq Plain
    BY DEF Starters, Bombs, Plain, Blank
  <2> QED
    BY <1>8, <2>1, DictionaryFacts
<1>10. rest = <<>> => part[Len(part)] # "open"
  <2>1. SUFFICES ASSUME rest = <<>> PROVE buf[n] # "open"
    BY <1>7
  <2>2. n = len
    <3>1. Len(rest) = 0
      BY <2>1
    <3>2. n \in 1..len /\ len \in Nat /\ len - n = 0
      BY <1>1, <1>2, <1>5, <3>1, Zenon
    <3> QED
      BY <3>2
  <2> QED
    BY <1>1, <1>2, <2>2 DEF StopsAtTick, StopsAtBombs, OpensAlone, StopsNowhere, Bombs
<1>11. \A sent \in Texts : CutAt(Glue(sent, part), rest)
  BY <1>4, <1>7, <1>9, <1>10, LastOfGlue DEF CutAt
<1>12. CleanCut(buf, n, part, rest)
  BY <1>1, <1>2, <1>4, <1>5, <1>6, <1>7, <1>8, <1>11 DEF CleanCut
<1> QED
  BY <1>1, <1>4, <1>5, <1>12, Zenon

LEMMA CommitTailFields ==
    ASSUME NEW s \in Scanners
    PROVE  Later(s, CommitTail(s))
<1>1. PICK n : n = CommitIndex(s.buf)
  OBVIOUS
<1>2. s.buf \in Texts
  BY DEF Scanners
<1>3. CASE s.inFence \/ n = 0
  <2>1. CommitTail(s) = EnforceMaxBuffer(s)
    BY <1>1, <1>3 DEF CommitTail
  <2> QED
    BY <2>1, EnforceFields DEF Later
<1>4. CASE ~ (s.inFence \/ n = 0)
  <2>1. n \in 1..Len(s.buf)
    BY <1>1, <1>2, <1>4, CommitIndexFacts
  <2>2. PICK part, rest : /\ part = SubSeq(s.buf, 1, n) /\ part \in Texts
                          /\ rest = SubSeq(s.buf, n + 1, Len(s.buf)) /\ rest \in Texts
    <3>1. /\ \A i \in 1..n : s.buf[i] \in Pieces
          /\ \A i \in (n + 1)..Len(s.buf) : s.buf[i] \in Pieces
      BY <1>2, <2>1 DEF Texts
    <3>2. 1 \in Int /\ n \in Int /\ n + 1 \in Int /\ Len(s.buf) \in Int
      BY <1>2, <2>1 DEF Texts
    <3>3. SubSeq(s.buf, 1, n) \in Seq(Pieces) /\ SubSeq(s.buf, n + 1, Len(s.buf)) \in Seq(Pieces)
      BY <3>1, <3>2, SubSeqProperties
    <3> QED
      BY <3>3 DEF Texts
  <2>3. PICK r : r = Shorter(s, rest) /\ Later(s, r)
    BY <2>2, ShorterFields DEF Later
  <2>4. CommitTail(s) = Release(r, part)
    BY <1>1, <1>4, <2>2, <2>3 DEF CommitTail, Shorter
  <2>5. Later(r, CommitTail(s))
    BY <2>2, <2>3, <2>4, ReleaseFields DEF Later
  <2> QED
    BY <2>3, <2>5 DEF Later
<1> QED
  BY <1>3, <1>4

LEMMA CommitTailKeeps ==
    ASSUME NEW s \in Scanners, NEW f \in Texts, ~ s.blocked, Kept(s, f), ~ HasLine(s)
    PROVE  Faithful(CommitTail(s), f)
<1>1. PICK n : n = CommitIndex(s.buf)
  OBVIOUS
<1>2. s.buf \in Texts /\ s.head \in Texts
  BY DEF Scanners
<1>3. CASE s.inFence \/ n = 0
  <2>1. CommitTail(s) = EnforceMaxBuffer(s)
    BY <1>1, <1>3 DEF CommitTail
  <2>2. CommitTail(s) = s \/ CommitTail(s).cramped
    BY <2>1, EnforceFields
  <2> QED
    BY <2>2 DEF Faithful
<1>4. CASE ~ (s.inFence \/ n = 0)
  <2>1. PICK part \in Seq(InLine), rest \in Texts :
              /\ part = SubSeq(s.buf, 1, n) /\ rest = SubSeq(s.buf, n + 1, Len(s.buf))
              /\ part \in Texts /\ part # <<>> /\ part[1] # "fence"
              /\ s.buf = Glue(part, rest) /\ Prose(s.buf)
              /\ rest = <<>> \/ rest[1] \in Starters
              /\ \A sent \in Texts : CutAt(Glue(sent, part), rest)
    <3>1. ~ \E i \in DOMAIN s.buf : s.buf[i] \in Ends
      BY DEF HasLine
    <3>2. n # 0
      BY <1>4
    <3>3. CleanCut(s.buf, n, SubSeq(s.buf, 1, n), SubSeq(s.buf, n + 1, Len(s.buf)))
      BY <1>1, <1>2, <3>1, <3>2, TailCut, Zenon
    <3>4. PICK part, rest : /\ part = SubSeq(s.buf, 1, n)
                            /\ rest = SubSeq(s.buf, n + 1, Len(s.buf))
                            /\ CleanCut(s.buf, n, part, rest)
      BY <3>3, Zenon
    <3> QED
      BY <3>4, Zenon DEF CleanCut
  <2>0. /\ part \in Texts /\ part # <<>> /\ part[1] # "fence"
        /\ s.buf = Glue(part, rest) /\ Prose(s.buf)
        /\ rest = <<>> \/ rest[1] \in Starters
        /\ \A sent \in Texts : CutAt(Glue(sent, part), rest)
    BY <2>1, Zenon
  <2>2. PICK r : /\ r = Shorter(s, rest) /\ r \in Scanners /\ r.buf = rest
                 /\ r.held = s.held /\ r.head = s.head
                 /\ r.inFence = s.inFence /\ r.blocked = s.blocked /\ r.out = s.out
    BY ShorterFields
  <2>3. PICK t : t = CommitTail(s) /\ t = Release(r, part)
    BY <1>1, <1>4, <2>1, <2>2 DEF CommitTail, Shorter
  <2>4. /\ t \in Scanners /\ t.buf = rest /\ t.held = s.held /\ t.inFence = s.inFence
    <3>1. r \in Scanners /\ part \in Texts
      BY <2>0, <2>2
    <3>2. /\ Release(r, part) \in Scanners
          /\ Release(r, part).buf = r.buf /\ Release(r, part).held = r.held
          /\ Release(r, part).inFence = r.inFence
      BY <3>1, ReleaseFields
    <3> QED
      BY <2>2, <2>3, <3>2, Zenon
  <2>5. s.held = <<>> /\ ~ s.inFence
    BY <1>4 DEF Kept, FenceKept
  <2>6. PICK sent \in Texts, d \in Texts : Upto(s, f, sent, d, s.buf)
    <3>1. Waiting(s) = s.buf
      BY <1>2, <2>5, ConcatEmptySeq DEF Waiting, Glue, Texts
    <3> QED
      BY <3>1 DEF Kept
  <2>7. Sends(r, f, sent, d, part, rest)
    BY <2>0, <2>2, <2>6 DEF Sends, Upto
  <2>8. ASSUME ProgramsShown(f)
        PROVE  /\ Leading(Glue(s.head, Hydrate(part)), rest)
               /\ ~ NamesProgram(Glue(s.head, Hydrate(part)))
    <3>1. Leading(s.head, Glue(part, rest)) /\ Prose(Glue(part, rest))
      BY <2>0, <2>8 DEF Kept
    <3>2. ProgramsShown(part)
      <4>1. f = Glue(sent, s.buf)
        BY <2>6 DEF Upto, Glue
      <4>2. ProgramsShown(s.buf)
        BY <1>2, <2>8, <4>1, ShownParts
      <4> QED
        BY <2>0, <4>2, ShownParts
    <3> QED
      BY <1>2, <2>0, <3>1, <3>2, LeadingGoesOn
  <2>9. CASE t.recited
    BY <2>3, <2>9 DEF Faithful
  <2>10. CASE ~ t.recited
    <3>1. IF t.blocked THEN Stopped(t, f)
          ELSE /\ Upto(t, f, Glue(sent, part), d, rest)
               /\ t.head = Glue(s.head, Hydrate(part))
      BY <2>0, <2>2, <2>3, <2>7, <2>8, <2>10, ReleaseKeeps
    <3>2. CASE t.blocked
      BY <2>3, <3>1, <3>2 DEF Faithful
    <3>3. CASE ~ t.blocked
      <4>1. Waiting(t) = rest
        BY <2>0, <2>4, <2>5, ConcatEmptySeq DEF Waiting, Glue, Texts
      <4>2. Glue(sent, part) \in Texts
        BY <2>0, TextJoin
      <4>3. Upto(t, f, Glue(sent, part), d, Waiting(t))
        BY <3>1, <3>3, <4>1
      <4>4. FenceKept(t)
        BY <2>4, <2>5 DEF FenceKept
      <4>5. ProgramsShown(f) => Leading(t.head, t.buf)
        BY <2>4, <2>8, <3>1, <3>3
      <4>6. Kept(t, f)
        BY <4>2, <4>3, <4>4, <4>5 DEF Kept
      <4> QED
        BY <2>3, <3>3, <4>6 DEF Faithful
    <3> QED
      BY <3>2, <3>3
  <2> QED
    BY <2>9, <2>10
<1> QED
  BY <1>3, <1>4

LEMMA AfterLinesKeeps ==
    ASSUME NEW s \in Scanners
    PROVE  /\ Later(s, AfterLines(s))
           /\ s.blocked => AfterLines(s) = s
           /\ \A f \in Texts :
                 Faithful(s, f) /\ (s.blocked \/ ~ HasLine(s)) => Faithful(AfterLines(s), f)
<1>1. Later(s, AfterLines(s))
  BY CommitTailFields DEF AfterLines, Later
<1>2. s.blocked => AfterLines(s) = s
  BY DEF AfterLines
<1>3. ASSUME NEW f \in Texts, Faithful(s, f), s.blocked \/ ~ HasLine(s)
      PROVE  Faithful(AfterLines(s), f)
  <2>1. CASE s.cramped \/ s.recited
    BY <1>1, <2>1 DEF Later, Faithful
  <2>2. CASE s.blocked
    BY <1>2, <1>3, <2>2
  <2>3. CASE ~ (s.cramped \/ s.recited) /\ ~ s.blocked
    <3>1. Kept(s, f) /\ AfterLines(s) = CommitTail(s) /\ ~ HasLine(s)
      BY <1>3, <2>3 DEF Faithful, AfterLines
    <3> QED
      BY <2>3, <3>1, CommitTailKeeps
  <2> QED
    BY <2>1, <2>2, <2>3
<1> QED
  BY <1>1, <1>2, <1>3
-----------------------------------------------------------------------------
(* A delta.                                                                *)
LEMMA WriteKeeps ==
    ASSUME NEW s \in Scanners, NEW delta \in Texts
    PROVE  /\ Later(s, Write(s, delta))
           /\ s.blocked => Write(s, delta) = s
           /\ \A f \in Texts :
                 Faithful(s, f) => Faithful(Write(s, delta), Glue(f, delta))
<1>1. PICK g : /\ g = Grown(s, delta) /\ Later(s, g)
               /\ g.strict = s.strict /\ g.blocked = s.blocked
               /\ g.cramped = s.cramped /\ g.recited = s.recited
  BY GrownFields DEF Later
<1>2. Write(s, delta) = IF s.blocked THEN s
                        ELSE IF s.strict THEN EnforceHardLimit(g)
                        ELSE AfterLines(FeedLines(g))
  BY <1>1 DEF Write, Grown
<1>3. PICK l : l = FeedLines(g) /\ Later(g, l) /\ (l.blocked \/ ~ HasLine(l))
  BY <1>1, FeedLinesFaithful, FeedLinesEnds DEF Later
<1>4. Later(s, Write(s, delta))
  <2>1. CASE s.blocked
    BY <1>2, <2>1 DEF Later
  <2>2. CASE ~ s.blocked /\ s.strict
    <3>1. PICK t : t = Write(s, delta) /\ t = EnforceHardLimit(g)
      BY <1>2, <2>2
    <3>2. Later(g, t)
      BY <1>1, <3>1, HardLimitFields DEF Later
    <3> QED
      BY <1>1, <3>1, <3>2 DEF Later
  <2>3. CASE ~ s.blocked /\ ~ s.strict
    <3>1. PICK t : t = Write(s, delta) /\ t = AfterLines(l)
      BY <1>2, <1>3, <2>3
    <3>2. Later(l, t)
      BY <1>3, <3>1, AfterLinesKeeps DEF Later
    <3> QED
      BY <1>1, <1>3, <3>1, <3>2 DEF Later
  <2> QED
    BY <2>1, <2>2, <2>3
<1>5. s.blocked => Write(s, delta) = s
  BY <1>2
<1>6. ASSUME NEW f \in Texts, Faithful(s, f)
      PROVE  Faithful(Write(s, delta), Glue(f, delta))
  <2>1. Glue(f, delta) \in Texts
    BY TextJoin
  <2>2. CASE s.cramped \/ s.recited
    BY <1>4, <2>2 DEF Later, Faithful
  <2>3. CASE ~ (s.cramped \/ s.recited) /\ s.blocked
    <3>1. Stopped(s, f)
      BY <1>6, <2>3 DEF Faithful
    <3> QED
      BY <1>5, <2>3, <3>1, StoppedStays DEF Faithful
  <2>4. CASE ~ (s.cramped \/ s.recited) /\ ~ s.blocked
    <3>1. Kept(s, f)
      BY <1>6, <2>4 DEF Faithful
    <3>2. Kept(g, Glue(f, delta))
      BY <1>1, <3>1, GrownIsKept
    <3>3. g \in Scanners /\ ~ g.blocked
      BY <1>1, <2>4 DEF Later
    <3>4. Faithful(g, Glue(f, delta))
      BY <3>2, <3>3 DEF Faithful
    <3>5. CASE s.strict
      <4>1. Write(s, delta) = EnforceHardLimit(g)
        BY <1>2, <2>4, <3>5
      <4>2. Write(s, delta) = g \/ Write(s, delta).cramped
        BY <3>3, <4>1, HardLimitFields
      <4> QED
        BY <3>4, <4>2 DEF Faithful
    <3>6. CASE ~ s.strict
      <4>1. Write(s, delta) = AfterLines(l)
        BY <1>2, <1>3, <2>4, <3>6
      <4>2. Faithful(l, Glue(f, delta))
        BY <1>3, <2>1, <3>3, <3>4, FeedLinesFaithful
      <4>3. l \in Scanners
        BY <1>3 DEF Later
      <4> QED
        BY <1>3, <2>1, <4>1, <4>2, <4>3, AfterLinesKeeps
    <3> QED
      BY <3>5, <3>6
  <2> QED
    BY <2>2, <2>3, <2>4
<1> QED
  BY <1>4, <1>5, <1>6
-----------------------------------------------------------------------------
(* How much is held: only an open fence is, and it has begun.              *)
Tidy(s) ==
    /\ s.held # <<>> => s.inFence
    /\ s.inFence /\ ~ s.blocked => Len(s.held) >= 2

LEMMA EnforceBounds ==
    ASSUME NEW s \in Scanners, Tidy(s), ~ s.blocked
    PROVE  LET t == EnforceMaxBuffer(s)
           IN /\ Tidy(t) /\ HeldLength(t) <= HardLimit
              /\ t.buf = s.buf \/ t.buf = <<>>
              /\ t.blocked => t.held = <<>>
<1>1. PICK t : t = EnforceMaxBuffer(s)
  OBVIOUS
<1>2. /\ t \in Scanners /\ t.inFence = s.inFence
      /\ \/ t.held = s.held /\ t.buf = s.buf
         \/ t.held = <<>> /\ t.buf = <<>> /\ t.blocked
         \/ /\ t.buf = s.buf /\ s.held # <<>>
            /\ HeldLength(s) <= HardLimit
            /\ \/ t.held = <<>> /\ (t.blocked \/ ~ t.inFence)
               \/ t.held = <<"fence", "nl">> /\ t.inFence
      /\ t.held = s.held /\ t.buf = s.buf => HeldLength(t) <= HardLimit
      /\ s.blocked => t.blocked
      /\ t.blocked => t.held = <<>>
  BY <1>1, EnforceFields
<1>3. /\ HeldLength(t) = Len(t.held) + Len(t.buf) /\ Len(t.buf) \in Nat
      /\ HeldLength(s) = Len(s.held) + Len(s.buf) /\ Len(s.held) \in Nat /\ Len(s.buf) \in Nat
      /\ HardLimit \in Nat
  BY <1>2, HeldLengthType, LimitAssumption
<1>4. Len(<<>>) = 0 /\ Len(<<"fence", "nl">>) = 2
  OBVIOUS
<1>5. CASE t.held = s.held /\ t.buf = s.buf
  BY <1>1, <1>2, <1>5 DEF Tidy
<1>6. CASE t.held = <<>> /\ t.buf = <<>> /\ t.blocked
  BY <1>1, <1>2, <1>3, <1>4, <1>6 DEF Tidy
<1>7. CASE /\ t.buf = s.buf /\ s.held # <<>> /\ HeldLength(s) <= HardLimit
           /\ t.held = <<>> /\ (t.blocked \/ ~ t.inFence)
  <2>1. \A a, b, h \in Nat : a + b <= h => 0 + b <= h
    OBVIOUS
  <2>2. HeldLength(s) = Len(s.held) + Len(s.buf) /\ HeldLength(t) = 0 + Len(s.buf)
    BY <1>3, <1>4, <1>7, Zenon
  <2>3. HeldLength(t) <= HardLimit
    BY <1>3, <1>7, <2>1, <2>2, Zenon
  <2> QED
    BY <1>1, <1>2, <1>7, <2>3 DEF Tidy
<1>8. CASE /\ t.buf = s.buf /\ s.held # <<>> /\ HeldLength(s) <= HardLimit
           /\ t.held = <<"fence", "nl">> /\ t.inFence
  <2>1. Len(s.held) >= 2
    BY <1>8 DEF Tidy
  <2>2. HeldLength(t) <= HardLimit
    <3>1. \A a, b, h \in Nat : a + b <= h /\ a >= 2 => 2 + b <= h
      OBVIOUS
    <3>2. HeldLength(s) = Len(s.held) + Len(s.buf) /\ HeldLength(t) = 2 + Len(s.buf)
      BY <1>3, <1>4, <1>8, Zenon
    <3> QED
      BY <1>3, <1>8, <2>1, <3>1, <3>2, Zenon
  <2>3. Tidy(t)
    BY <1>4, <1>8 DEF Tidy
  <2> QED
    BY <1>1, <1>2, <1>8, <2>2, <2>3
<1> QED
  BY <1>2, <1>5, <1>6, <1>7, <1>8

LEMMA FeedLineTidy ==
    ASSUME NEW s \in Scanners, ~ s.blocked, Tidy(s), HasLine(s)
    PROVE  LET t == FeedLine(s)
           IN /\ Tidy(t)
              /\ t.blocked => t.held = <<>>
              /\ \A b \in 0..Len(s.buf) :
                    (\A i \in 1..b : s.buf[i] \notin Ends) => Len(t.buf) + b < Len(s.buf)
<1>1. PICK a \in Seq(InLine), end \in Ends, line \in Texts, rest \in Texts :
         /\ line = Append(a, end) /\ line # <<>> /\ line[Len(line)] = end
         /\ s.buf = Glue(line, rest)
         /\ Len(s.buf) = Len(line) + Len(rest) /\ Len(line) = Len(a) + 1
         /\ FeedLine(s) =
              IF s.inFence
              THEN IF ClosesFence(line) THEN FlushFence(Further(s, line, rest))
                   ELSE EnforceMaxBuffer(Further(s, line, rest))
              ELSE IF OpensFence(line) /\ s.head = <<>>
                   THEN [Further(s, line, rest) EXCEPT !.inFence = TRUE]
              ELSE Process(Shorter(s, rest), line)
  BY FeedLineCases
<1>2. /\ Len(line) \in Nat /\ Len(rest) \in Nat /\ Len(s.buf) \in Nat
      /\ s.held \in Texts /\ s.buf \in Texts /\ Len(a) \in Nat
  BY HeldLengthType DEF Scanners, Texts
<1>3. ASSUME NEW t, t.buf = rest \/ t.buf = <<>>
      PROVE  \A b \in 0..Len(s.buf) :
                (\A i \in 1..b : s.buf[i] \notin Ends) => Len(t.buf) + b < Len(s.buf)
  <2>1. SUFFICES ASSUME NEW b \in 0..Len(s.buf), \A i \in 1..b : s.buf[i] \notin Ends
                 PROVE  Len(t.buf) + b < Len(s.buf)
    OBVIOUS
  <2>2. Len(line) \in 1..Len(line) /\ Len(line) \in 1..(Len(line) + Len(rest))
    BY <1>1, <1>2
  <2>3. s.buf[Len(line)] = end
    <3>1. \A i \in 1..(Len(line) + Len(rest)) : i <= Len(line) => (line \o rest)[i] = line[i]
      BY ConcatProperties DEF Texts
    <3> QED
      BY <1>1, <2>2, <3>1 DEF Glue
  <2>4. ~ (Len(line) <= b)
    <3>1. Len(line) \in 1..b => end \notin Ends
      BY <2>1, <2>3
    <3> QED
      BY <2>1, <2>2, <3>1
  <2>5. Len(t.buf) <= Len(rest) /\ Len(t.buf) \in Nat
    BY <1>2, <1>3
  <2> QED
    BY <1>1, <1>2, <2>1, <2>4, <2>5
<1>4. PICK g : /\ g = Further(s, line, rest)
               /\ g \in Scanners /\ g.buf = rest /\ g.held = Glue(s.held, line)
               /\ g.inFence = s.inFence /\ g.blocked = s.blocked
  BY FurtherFields
<1>5. CASE s.inFence /\ ClosesFence(line)
  <2>1. PICK e : /\ e = Emptied(g) /\ e \in Scanners /\ ~ e.inFence /\ e.held = <<>>
                 /\ e.buf = rest
    BY <1>4, EmptiedFields
  <2>2. PICK t : t = FeedLine(s) /\ t = Process(e, g.held) /\ g.held \in Texts
    BY <1>1, <1>4, <1>5, <2>1 DEF FlushFence, Emptied, Scanners
  <2>3. t.buf = rest /\ t.held = <<>> /\ ~ t.inFence
    <3>1. PICK text : text = g.held /\ text \in Texts
      BY <2>2, Zenon
    <3>2. e \in Scanners
      BY <2>1
    <3>3. /\ Process(e, text).buf = e.buf /\ Process(e, text).held = e.held
          /\ Process(e, text).inFence = e.inFence
      BY <3>1, <3>2, ProcessFields
    <3> QED
      BY <2>1, <2>2, <3>1, <3>3, Zenon
  <2> QED
    BY <1>3, <2>2, <2>3 DEF Tidy
<1>6. CASE s.inFence /\ ~ ClosesFence(line)
  <2>1. PICK t : t = FeedLine(s) /\ t = EnforceMaxBuffer(g)
    BY <1>1, <1>4, <1>6
  <2>2. Len(g.held) = Len(s.held) + Len(line) /\ g.held \in Texts
    BY <1>2, <1>4, ConcatProperties, TextJoin DEF Texts, Glue
  <2>3. Len(s.held) >= 2 /\ Len(s.held) \in Nat
    BY <1>6, HeldLengthType DEF Tidy
  <2>4. Tidy(g)
    BY <1>2, <1>4, <1>6, <2>2, <2>3 DEF Tidy
  <2>5. Tidy(t) /\ (t.buf = g.buf \/ t.buf = <<>>) /\ (t.blocked => t.held = <<>>)
    BY <1>4, <2>1, <2>4, EnforceBounds
  <2> QED
    BY <1>3, <1>4, <2>1, <2>5
<1>7. CASE ~ s.inFence /\ OpensFence(line) /\ s.head = <<>>
  <2>1. PICK t : t = FeedLine(s) /\ t = Entered(g)
    BY <1>1, <1>4, <1>7 DEF Entered
  <2>2. t.inFence /\ t.buf = rest /\ t.held = g.held /\ t.blocked = g.blocked
    BY <1>4, <2>1, EnteredFields
  <2>3. s.held = <<>>
    BY <1>7 DEF Tidy
  <2>4. g.held = line
    BY <1>4, <2>3, ConcatEmptySeq DEF Texts, Glue
  <2>5. a # <<>>
    BY <1>1, <1>7, LineIsText DEF OpensFence
  <2>6. Len(a) >= 1
    BY <1>2, <2>5
  <2>7. Len(line) >= 2
    BY <1>1, <1>2, <2>6
  <2>8. Tidy(t)
    BY <2>2, <2>4, <2>7 DEF Tidy
  <2> QED
    BY <1>3, <1>4, <2>1, <2>2, <2>8
<1>8. CASE ~ s.inFence /\ ~ (OpensFence(line) /\ s.head = <<>>)
  <2>1. PICK r : /\ r = Shorter(s, rest) /\ r \in Scanners /\ r.buf = rest
                 /\ r.held = s.held /\ r.inFence = s.inFence
    BY ShorterFields
  <2>2. PICK t : t = FeedLine(s) /\ t = Process(r, line)
    BY <1>1, <1>8, <2>1
  <2>3. t.buf = rest /\ t.held = s.held /\ ~ t.inFence
    BY <1>8, <2>1, <2>2, ProcessFields
  <2>4. s.held = <<>>
    BY <1>8 DEF Tidy
  <2>5. Tidy(t)
    BY <2>3, <2>4 DEF Tidy
  <2> QED
    BY <1>3, <2>2, <2>3, <2>4, <2>5
<1> QED
  BY <1>5, <1>6, <1>7, <1>8

(* What a delta adds to a tail of which at least one piece is committed.   *)
Spare == MaxDelta - 1

(* A tail that the commit rule stopped at, which may be over the bound: a  *)
(* backtick or a marker first, so that nothing more is committed before it *)
(* is measured; or the halves of a fork bomb or a placeholder that is not  *)
(* yet whole, which one more write may commit up to.                       *)
Pending(buf) ==
    \/ buf # <<>> /\ buf[1] \in {"tick", "fence"}
    \/ /\ Len(buf) <= HardLimit + Spare
       /\ buf \in Seq(Bombs) \/ OpensAlone(buf, 0)

(* What is held is within the hard limit, or a tail that waits.            *)
Bounded(s) ==
    /\ Tidy(s)
    /\ HeldLength(s) <= HardLimit + 2 * Spare
    /\ ~ s.blocked =>
          /\ s.strict \/ ~ HasLine(s)
          /\ \/ HeldLength(s) <= HardLimit
             \/ ~ s.strict /\ ~ s.inFence /\ Pending(s.buf)

LEMMA Bounds ==
    /\ Spare \in Nat /\ MaxDelta = Spare + 1
    /\ HardLimit \in Nat /\ HardLimit >= 1
<1>1. MaxDelta \in Nat /\ MaxDelta # 0 /\ MaxBuffer \in Nat /\ MaxBuffer # 0
      /\ HardLimit \in Nat /\ MaxBuffer <= HardLimit
  BY SizeAssumption, LimitAssumption
<1> QED
  BY <1>1 DEF Spare

(* What a commit leaves behind, though it does not measure it.             *)
LEMMA FurtherOn ==
    ASSUME NEW n \in Nat, NEW whole \in Nat, NEW r \in Nat, r = whole - n, NEW i \in 1..r
    PROVE  n + i \in (n + 1)..whole /\ (i >= 2 => n + i \in (n + 2)..whole)
  OBVIOUS

LEMMA TailBounded ==
    ASSUME NEW buf \in Texts, NEW delta \in Texts, Len(delta) <= Spare + 1,
           Len(buf) <= HardLimit \/ Pending(buf),
           NEW grown, grown = Glue(buf, delta),
           NEW n, n = CommitIndex(grown), n # 0,
           NEW rest \in Texts, Len(rest) = Len(grown) - n,
           \A i \in 1..Len(rest) : rest[i] = grown[n + i]
    PROVE  /\ Len(rest) <= HardLimit + 2 * Spare
           /\ Len(rest) <= HardLimit \/ Pending(rest)
<1>1. PICK b, m, r, H, S :
         /\ b = Len(buf) /\ m = Len(delta) /\ r = Len(rest) /\ H = HardLimit /\ S = Spare
         /\ b \in Nat /\ m \in Nat /\ r \in Nat /\ H \in Nat /\ S \in Nat /\ H >= 1
         /\ m <= S + 1
  <2>1. /\ Len(buf) \in Nat /\ Len(delta) \in Nat /\ Len(rest) \in Nat
        /\ HardLimit \in Nat /\ Spare \in Nat /\ HardLimit >= 1
    BY Bounds DEF Texts
  <2> QED
    BY <2>1
<1>2. /\ grown \in Texts /\ Len(grown) = b + m
      /\ \A i \in 1..(b + m) : i <= b => grown[i] = buf[i]
  BY <1>1, TextJoin, ConcatProperties DEF Texts, Glue
<1>3. /\ n \in 1..(b + m) /\ Prose(grown) /\ ~ OpensAlone(grown, 0)
      /\ \/ StopsAtTick(grown, n)
         \/ StopsAtBombs(grown, n)
         \/ OpensAlone(grown, n)
         \/ StopsNowhere(grown, n)
  BY <1>2, CommitIndexFacts
<1>4. /\ r = (b + m) - n /\ b \in Nat /\ m \in Nat /\ r \in Nat /\ n \in 1..(b + m)
      /\ n \in Nat /\ b + m \in Nat /\ n >= 1
  BY <1>1, <1>2, <1>3
<1>5. \/ b <= H
      \/ b <= H + S /\ (buf \in Seq(Bombs) \/ OpensAlone(buf, 0))
  <2>1. SUFFICES ASSUME Pending(buf), buf # <<>>, buf[1] \in {"tick", "fence"} PROVE FALSE
    BY <1>1 DEF Pending
  <2>2. grown[1] = buf[1]
    BY <2>1, FirstOfGlue
  <2> QED
    BY <1>3, <2>1, <2>2 DEF Prose
<1>6. r <= H + 2 * S
  BY <1>1, <1>3, <1>4, <1>5
<1>7. CASE StopsAtTick(grown, n)
  <2>1. n + 1 \in 1..(b + m) /\ 1 \in 1..r /\ r # 0
    BY <1>1, <1>2, <1>3, <1>4, <1>7 DEF StopsAtTick
  <2>2. rest # <<>> /\ rest[1] \in {"tick", "fence"}
    BY <1>1, <1>7, <2>1 DEF StopsAtTick
  <2> QED
    BY <1>1, <1>6, <2>2 DEF Pending
<1>8. CASE StopsNowhere(grown, n)
  <2>1. r = 0
    BY <1>1, <1>2, <1>4, <1>8 DEF StopsNowhere
  <2> QED
    BY <1>1, <1>6, <2>1
<1>9. CASE StopsAtBombs(grown, n)
  <2>1. rest \in Seq(Bombs)
    <3>1. \A i \in 1..r : n + i \in (n + 1)..(b + m)
      BY <1>4, FurtherOn
    <3>2. \A i \in 1..r : rest[i] \in Bombs
      BY <1>1, <1>2, <1>9, <3>1 DEF StopsAtBombs
    <3>3. rest \in [1..r -> Pieces]
      BY <1>1 DEF Texts
    <3> QED
      BY <1>1, <3>2, <3>3
  <2>2. r <= H + S
    <3>1. CASE b <= H
      BY <1>1, <1>4, <3>1
    <3>2. CASE buf \in Seq(Bombs)
      <4>1. ~ (n <= b)
        <5>1. \A i \in 1..b : grown[i] \in Bombs
          BY <1>1, <1>2, <3>2
        <5>2. grown[n] \notin Bombs
          BY <1>9 DEF StopsAtBombs
        <5> QED
          BY <1>3, <5>1, <5>2
      <4> QED
        BY <1>1, <1>3, <1>4, <4>1
    <3>3. CASE OpensAlone(buf, 0)
      <4>1. b >= 1 /\ buf[1] = "open"
        BY <1>1, <3>3 DEF OpensAlone
      <4>2. grown[1] = "open" /\ b + m > 0
        BY <1>1, <1>2, <4>1
      <4>3. PICK i \in (0 + 2)..(b + m) : grown[i] = "open" \/ grown[i] \in DOMAIN Dictionary
        BY <1>2, <1>3, <4>2 DEF OpensAlone
      <4>4. ~ (i <= b)
        <5>1. i \in (0 + 2)..b => buf[i] # "open" /\ buf[i] \notin DOMAIN Dictionary
          BY <1>1, <3>3 DEF OpensAlone
        <5>2. i <= b => grown[i] = buf[i] /\ i \in (0 + 2)..b
          BY <1>1, <1>2, <4>3
        <5> QED
          BY <4>3, <5>1, <5>2
      <4>5. grown[i] \notin Bombs
        <5>1. Bombs \subseteq Plain /\ "open" \notin Bombs
          BY DEF Bombs, Plain, Blank
        <5> QED
          BY <4>3, <5>1, DictionaryFacts
      <4>6. i <= n
        <5>1. \A k \in (n + 1)..(b + m) : grown[k] \in Bombs
          BY <1>2, <1>9 DEF StopsAtBombs
        <5>2. i \notin (n + 1)..(b + m)
          BY <4>5, <5>1
        <5> QED
          BY <1>1, <1>3, <4>3, <5>2
      <4> QED
        BY <1>1, <1>3, <1>4, <4>3, <4>4, <4>6
    <3> QED
      BY <1>5, <3>1, <3>2, <3>3
  <2> QED
    BY <1>1, <1>6, <2>1, <2>2 DEF Pending
<1>10. CASE OpensAlone(grown, n)
  <2>1. OpensAlone(rest, 0)
    <3>1. 0 < r /\ 1 \in 1..r
      BY <1>1, <1>2, <1>3, <1>4, <1>10 DEF OpensAlone
    <3>2. rest[0 + 1] = "open"
      BY <1>1, <1>10, <3>1 DEF OpensAlone
    <3>3. \A i \in (0 + 2)..r : i \in 1..r /\ n + i \in (n + 2)..(b + m)
      <4>1. \A i \in (0 + 2)..r : i \in 1..r /\ i >= 2
        BY <1>4
      <4> QED
        BY <1>4, <4>1, FurtherOn
    <3>4. \A i \in (0 + 2)..r : rest[i] # "open" /\ rest[i] \notin DOMAIN Dictionary
      BY <1>1, <1>2, <1>10, <3>3 DEF OpensAlone
    <3> QED
      BY <1>1, <3>1, <3>2, <3>4 DEF OpensAlone
  <2>2. n + 1 \in 2..(b + m) /\ grown[n + 1] = "open"
    BY <1>1, <1>2, <1>3, <1>10 DEF OpensAlone
  <2>3. r <= H + S
    <3>1. CASE b <= H
      BY <1>1, <1>4, <3>1
    <3>2. CASE buf \in Seq(Bombs)
      <4>1. \A i \in 1..b : grown[i] # "open"
        BY <1>1, <1>2, <3>2 DEF Bombs
      <4>2. ~ (n + 1 <= b)
        BY <2>2, <4>1
      <4> QED
        BY <1>1, <1>3, <1>4, <4>2
    <3>3. CASE OpensAlone(buf, 0)
      <4>1. n + 1 <= b => n + 1 \in (0 + 2)..b /\ grown[n + 1] = buf[n + 1]
        BY <1>1, <1>2, <2>2
      <4>2. \A i \in (0 + 2)..b : buf[i] # "open"
        BY <1>1, <3>3 DEF OpensAlone
      <4>3. ~ (n + 1 <= b)
        BY <2>2, <4>1, <4>2
      <4> QED
        BY <1>1, <1>3, <1>4, <4>3
    <3> QED
      BY <1>5, <3>1, <3>2, <3>3
  <2> QED
    BY <1>1, <1>6, <2>1, <2>3 DEF Pending
<1> QED
  BY <1>3, <1>7, <1>8, <1>9, <1>10

LEMMA CommitTailBounded ==
    ASSUME NEW s \in Scanners, ~ s.blocked, ~ HasLine(s), ~ s.strict, Tidy(s),
           NEW buf \in Texts, NEW delta \in Texts, Len(delta) <= Spare + 1,
           Len(buf) <= HardLimit \/ Pending(buf), s.buf = Glue(buf, delta)
    PROVE  Bounded(CommitTail(s))
<1>1. PICK n : n = CommitIndex(s.buf)
  OBVIOUS
<1>2. PICK t : t = CommitTail(s) /\ t \in Scanners /\ t.strict = s.strict
  BY CommitTailFields DEF Later
<1>3. /\ s.buf \in Texts /\ Spare \in Nat /\ HardLimit \in Nat
      /\ HeldLength(t) \in Nat /\ HeldLength(t) = Len(t.held) + Len(t.buf)
      /\ Len(t.buf) \in Nat
  BY <1>2, Bounds, HeldLengthType DEF Scanners
<1>4. CASE s.inFence \/ n = 0
  <2>1. t = EnforceMaxBuffer(s)
    BY <1>1, <1>2, <1>4 DEF CommitTail
  <2>2. Tidy(t) /\ HeldLength(t) <= HardLimit /\ (t.buf = s.buf \/ t.buf = <<>>)
    BY <2>1, EnforceBounds
  <2>3. ~ HasLine(t)
    BY <2>2 DEF HasLine
  <2>4. HeldLength(t) <= HardLimit + 2 * Spare
    <3>1. PICK held, h, c : /\ held = HeldLength(t) /\ h = HardLimit /\ c = Spare
                            /\ held \in Nat /\ h \in Nat /\ c \in Nat /\ held <= h
      BY <1>3, <2>2, Zenon
    <3>2. held <= h + 2 * c
      BY <3>1
    <3> QED
      BY <3>1, <3>2, Zenon
  <2> QED
    BY <1>2, <2>2, <2>3, <2>4 DEF Bounded
<1>5. CASE ~ (s.inFence \/ n = 0)
  <2>1. PICK part \in Seq(InLine), rest \in Texts :
              /\ part = SubSeq(s.buf, 1, n) /\ rest = SubSeq(s.buf, n + 1, Len(s.buf))
              /\ part \in Texts
              /\ Len(rest) = Len(s.buf) - n /\ n \in 1..Len(s.buf)
              /\ \A i \in 1..Len(rest) : rest[i] = s.buf[n + i]
    <3>1. ~ \E i \in DOMAIN s.buf : s.buf[i] \in Ends
      BY DEF HasLine
    <3>2. n # 0
      BY <1>5
    <3>3. CleanCut(s.buf, n, SubSeq(s.buf, 1, n), SubSeq(s.buf, n + 1, Len(s.buf)))
      BY <1>1, <1>3, <3>1, <3>2, TailCut, Zenon
    <3>4. PICK part, rest : /\ part = SubSeq(s.buf, 1, n)
                            /\ rest = SubSeq(s.buf, n + 1, Len(s.buf))
                            /\ CleanCut(s.buf, n, part, rest)
      BY <3>3, Zenon
    <3> QED
      BY <3>4, Zenon DEF CleanCut
  <2>0. /\ part \in Texts
        /\ Len(rest) = Len(s.buf) - n /\ n \in 1..Len(s.buf)
        /\ \A i \in 1..Len(rest) : rest[i] = s.buf[n + i]
    BY <2>1, Zenon
  <2>2. PICK r : /\ r = Shorter(s, rest) /\ r \in Scanners /\ r.buf = rest
                 /\ r.held = s.held /\ r.inFence = s.inFence
    BY ShorterFields
  <2>3. t = Release(r, part)
    BY <1>1, <1>2, <1>5, <2>1, <2>2 DEF CommitTail, Shorter
  <2>4. t.buf = rest /\ t.held = s.held /\ t.inFence = s.inFence
    <3>1. /\ Release(r, part).buf = r.buf /\ Release(r, part).held = r.held
          /\ Release(r, part).inFence = r.inFence
      <4>1. r \in Scanners /\ part \in Texts
        BY <2>0, <2>2
      <4> QED
        BY <4>1, ReleaseFields
    <3> QED
      BY <2>2, <2>3, <3>1, Zenon
  <2>5. s.held = <<>> /\ ~ s.inFence
    BY <1>5 DEF Tidy
  <2>6. /\ Len(rest) <= HardLimit + 2 * Spare
        /\ Len(rest) <= HardLimit \/ Pending(rest)
    <3>1. PICK whole : /\ whole = s.buf /\ whole = Glue(buf, delta)
                       /\ n = CommitIndex(whole) /\ n # 0
                       /\ Len(rest) = Len(whole) - n
                       /\ \A i \in 1..Len(rest) : rest[i] = whole[n + i]
      BY <1>1, <1>5, <2>0, Zenon
    <3> QED
      BY <3>1, TailBounded
  <2>7. HeldLength(t) = Len(rest)
    <3>1. Len(t.held) = 0
      BY <2>4, <2>5
    <3> QED
      BY <1>3, <2>4, <3>1
  <2>8. ~ HasLine(t)
    <3>1. \A i \in 1..Len(rest) : n + i \in 1..Len(s.buf)
      BY <1>3, <2>0 DEF Texts
    <3>2. \A i \in 1..Len(s.buf) : s.buf[i] \notin Ends
      BY <1>3 DEF HasLine, Texts
    <3>3. \A i \in 1..Len(rest) : rest[i] \notin Ends
      BY <2>0, <3>1, <3>2
    <3>4. DOMAIN rest = 1..Len(rest)
      BY DEF Texts
    <3> QED
      BY <2>4, <3>3, <3>4, Zenon DEF HasLine
  <2>9. Tidy(t)
    BY <2>4, <2>5 DEF Tidy
  <2> QED
    BY <1>2, <2>4, <2>5, <2>6, <2>7, <2>8, <2>9 DEF Bounded
<1> QED
  BY <1>2, <1>4, <1>5

(* Between two lines of one delta.                                         *)
Reduced(s) ==
    /\ Tidy(s) /\ ~ s.strict
    /\ Len(s.buf) <= Spare
    /\ s.blocked => s.held = <<>>

LEMMA FeedReduces ==
    ASSUME NEW s \in Scanners, Reduced(s)
    PROVE  Reduced(Feed(s))
<1>1. CASE s.blocked \/ ~ HasLine(s)
  BY <1>1 DEF Feed
<1>2. CASE ~ (s.blocked \/ ~ HasLine(s))
  <2>1. PICK t : t = Feed(s) /\ t = FeedLine(s)
    BY <1>2 DEF Feed
  <2>2. Tidy(t) /\ (t.blocked => t.held = <<>>)
    BY <1>2, <2>1, FeedLineTidy DEF Reduced
  <2>3. t \in Scanners /\ t.strict = s.strict /\ Len(t.buf) < Len(s.buf)
    BY <1>2, <2>1, FeedLineFields DEF Later
  <2>4. Len(t.buf) \in Nat /\ Len(s.buf) \in Nat /\ Spare \in Nat
    BY <2>3, HeldLengthType, Bounds
  <2>5. Len(t.buf) <= Spare
    BY <2>3, <2>4 DEF Reduced
  <2> QED
    BY <2>1, <2>2, <2>3, <2>5 DEF Reduced
<1> QED
  BY <1>1, <1>2

LEMMA GrownReduces ==
    ASSUME NEW s \in Scanners, ~ s.blocked, ~ s.strict, ~ HasLine(s), Tidy(s),
           NEW delta \in Texts, Len(delta) <= Spare + 1,
           NEW g, g = Grown(s, delta), HasLine(g)
    PROVE  Reduced(Feed(g))
<1>1. /\ g \in Scanners /\ g.strict = s.strict /\ g.held = s.held
      /\ g.inFence = s.inFence /\ g.blocked = s.blocked
      /\ g.buf = Glue(s.buf, delta)
  BY GrownFields
<1>2. PICK b, m : /\ b = Len(s.buf) /\ m = Len(delta) /\ b \in Nat /\ m \in Nat
                  /\ Spare \in Nat /\ m <= Spare + 1
                  /\ s.buf \in Texts /\ DOMAIN s.buf = 1..b
  <2>1. s.buf \in Texts /\ Spare \in Nat
    BY Bounds DEF Scanners
  <2>2. Len(s.buf) \in Nat /\ Len(delta) \in Nat /\ DOMAIN s.buf = 1..Len(s.buf)
    BY <2>1 DEF Texts
  <2> QED
    BY <2>1, <2>2, Zenon
<1>3. /\ Len(g.buf) = b + m
      /\ \A i \in 1..(b + m) : i <= b => g.buf[i] = s.buf[i]
  BY <1>1, <1>2, ConcatProperties DEF Texts, Glue
<1>4. Tidy(g)
  BY <1>1 DEF Tidy
<1>5. PICK t : t = Feed(g) /\ t = FeedLine(g)
  BY <1>1 DEF Feed
<1>6. t \in Scanners /\ t.strict = g.strict
  BY <1>1, <1>5, FeedLineFields DEF Later
<1>7. /\ Tidy(t) /\ (t.blocked => t.held = <<>>)
      /\ \A k \in 0..Len(g.buf) :
            (\A i \in 1..k : g.buf[i] \notin Ends) => Len(t.buf) + k < Len(g.buf)
  BY <1>1, <1>4, <1>5, FeedLineTidy
<1>8. Len(t.buf) + b < b + m
  <2>1. b \in 0..(b + m)
    BY <1>2
  <2>2. \A i \in 1..b : g.buf[i] \notin Ends
    <3>1. \A i \in 1..b : s.buf[i] \notin Ends
      BY <1>2, Zenon DEF HasLine
    <3>2. \A i \in 1..b : i \in 1..(b + m) /\ i <= b
      BY <1>2
    <3> QED
      BY <1>3, <3>1, <3>2, Zenon
  <2> QED
    BY <1>3, <1>7, <2>1, <2>2, Zenon
<1>9. Len(t.buf) \in Nat
  BY <1>6, HeldLengthType
<1>10. Len(t.buf) <= Spare
  <2>1. \A r, c, x, y \in Nat : r + x < x + y /\ y <= c + 1 => r <= c
    OBVIOUS
  <2> QED
    BY <1>2, <1>8, <1>9, <2>1, Zenon
<1> QED
  BY <1>1, <1>5, <1>6, <1>7, <1>10 DEF Reduced

LEMMA WriteBounded ==
    ASSUME NEW s \in Scanners, Bounded(s), NEW delta \in Texts, Len(delta) <= MaxDelta
    PROVE  Bounded(Write(s, delta))
<1>1. PICK g : /\ g = Grown(s, delta) /\ g \in Scanners
               /\ g.strict = s.strict /\ g.held = s.held /\ g.inFence = s.inFence
               /\ g.blocked = s.blocked /\ g.buf = Glue(s.buf, delta)
  BY GrownFields
<1>2. Write(s, delta) = IF s.blocked THEN s
                        ELSE IF s.strict THEN EnforceHardLimit(g)
                        ELSE AfterLines(FeedLines(g))
  BY <1>1 DEF Write, Grown
<1>3. Tidy(s) /\ Tidy(g)
  BY <1>1 DEF Bounded, Tidy
<1>4. /\ Spare \in Nat /\ HardLimit \in Nat /\ HardLimit >= 1 /\ Len(delta) <= Spare + 1
  BY Bounds
<1>5. CASE s.blocked
  BY <1>2, <1>5
<1>6. CASE ~ s.blocked /\ s.strict
  <2>1. PICK t : t = Write(s, delta) /\ t = EnforceHardLimit(g)
    BY <1>2, <1>6
  <2>2. /\ t \in Scanners /\ t.strict = g.strict
        /\ HeldLength(t) <= HardLimit
        /\ \/ t = g
           \/ t.blocked /\ t.held = <<>>
    BY <1>1, <2>1, HardLimitFields
  <2>3. Tidy(t)
    BY <1>3, <2>2 DEF Tidy
  <2>4. HeldLength(t) <= HardLimit + 2 * Spare
    <3>1. HeldLength(t) \in Nat
      BY <2>2, HeldLengthType, Zenon
    <3>2. PICK held, h, c : /\ held = HeldLength(t) /\ h = HardLimit /\ c = Spare
                            /\ held \in Nat /\ h \in Nat /\ c \in Nat /\ held <= h
      BY <1>4, <2>2, <3>1, Zenon
    <3>3. held <= h + 2 * c
      BY <3>2
    <3> QED
      BY <3>2, <3>3, Zenon
  <2> QED
    BY <1>1, <1>6, <2>1, <2>2, <2>3, <2>4 DEF Bounded
<1>7. CASE ~ s.blocked /\ ~ s.strict
  <2>1. PICK l : l = FeedLines(g) /\ l \in Scanners /\ (l.blocked \/ ~ HasLine(l))
    BY <1>1, FeedLinesFaithful, FeedLinesEnds DEF Later
  <2>2. Write(s, delta) = AfterLines(l)
    BY <1>2, <1>7, <2>1
  <2>3. ~ HasLine(s)
    BY <1>7 DEF Bounded
  <2>4. l = g \/ Reduced(l)
    <3> DEFINE Good == {t \in Scanners : t = g \/ Reduced(t)}
    <3>1. g \in Good
      BY <1>1
    <3>2. ASSUME NEW t \in Scanners, t \in Good
          PROVE  Feed(t) \in Good
      <4>1. Feed(t) \in Scanners
        BY FeedType DEF Later
      <4>2. CASE Reduced(t)
        BY <4>1, <4>2, FeedReduces
      <4>3. CASE t = g /\ HasLine(g)
        <5>1. Reduced(Feed(g))
          BY <1>1, <1>3, <1>4, <1>7, <2>3, <4>3, GrownReduces
        <5> QED
          BY <4>1, <4>3, <5>1
      <4>4. CASE t = g /\ ~ HasLine(g)
        BY <3>1, <4>4 DEF Feed
      <4> QED
        BY <3>2, <4>2, <4>3, <4>4
    <3>3. \A t \in Scanners : t \in Good => Feed(t) \in Good
      BY <3>2
    <3>4. FeedLines(g) \in Good
      <4> HIDE DEF Good
      <4> QED
        BY <1>1, <3>1, <3>3, FeedLinesKeeps
    <3> QED
      BY <2>1, <3>4
  <2>5. CASE l.blocked
    <3>1. Reduced(l) /\ AfterLines(l) = l
      BY <1>1, <1>7, <2>4, <2>5 DEF AfterLines
    <3>2. Len(l.held) = 0 /\ Len(l.buf) <= Spare
      BY <2>5, <3>1 DEF Reduced
    <3>3. HeldLength(l) = Len(l.held) + Len(l.buf) /\ Len(l.buf) \in Nat
      BY <2>1, HeldLengthType
    <3>4. HeldLength(l) <= HardLimit + 2 * Spare
      BY <1>4, <3>2, <3>3
    <3> QED
      BY <2>2, <2>5, <3>1, <3>4 DEF Bounded, Reduced
  <2>6. CASE ~ l.blocked
    <3>1. AfterLines(l) = CommitTail(l) /\ ~ HasLine(l)
      BY <2>1, <2>6 DEF AfterLines
    <3>2. CASE l = g
      <4>1. s.buf \in Texts /\ (Len(s.buf) <= HardLimit \/ Pending(s.buf))
        <5>1. HeldLength(s) = Len(s.held) + Len(s.buf) /\ Len(s.held) \in Nat /\ Len(s.buf) \in Nat
          BY HeldLengthType
        <5>2. HeldLength(s) <= HardLimit \/ Pending(s.buf)
          BY <1>7 DEF Bounded
        <5> QED
          BY <1>4, <5>1, <5>2 DEF Scanners
      <4>2. Bounded(CommitTail(g))
        BY <1>1, <1>3, <1>4, <1>7, <3>1, <3>2, <4>1, CommitTailBounded
      <4> QED
        BY <2>2, <3>1, <3>2, <4>2
    <3>3. CASE Reduced(l)
      <4>1. <<>> \in Texts /\ Len(<<>>) <= HardLimit
        BY <1>4 DEF Texts
      <4>2. l.buf \in Texts /\ l.buf = Glue(<<>>, l.buf)
        BY <2>1, ConcatEmptySeq DEF Scanners, Texts, Glue
      <4>3. Len(l.buf) <= Spare + 1
        BY <1>4, <2>1, <3>3, HeldLengthType DEF Reduced
      <4>4. ~ l.strict /\ Tidy(l)
        BY <3>3 DEF Reduced
      <4>5. Bounded(CommitTail(l))
        BY <2>1, <2>6, <3>1, <4>1, <4>2, <4>3, <4>4, CommitTailBounded
      <4> QED
        BY <2>2, <3>1, <4>5
    <3> QED
      BY <2>4, <3>2, <3>3
  <2> QED
    BY <2>5, <2>6
<1> QED
  BY <1>5, <1>6, <1>7
-----------------------------------------------------------------------------
(* The end of the stream.                                                  *)
Drained(s) == [s EXCEPT !.held = <<>>, !.buf = <<>>, !.inFence = FALSE]

LEMMA DrainedFields ==
    ASSUME NEW s \in Scanners
    PROVE  LET t == Drained(s)
           IN /\ t \in Scanners /\ t.held = <<>> /\ t.buf = <<>> /\ ~ t.inFence
              /\ t.strict = s.strict /\ t.head = s.head
              /\ t.blocked = s.blocked /\ t.out = s.out
              /\ t.cramped = s.cramped /\ t.recited = s.recited
<1>1. <<>> \in Texts
  BY DEF Texts
<1> QED
  BY <1>1 DEF Drained, Scanners

LEMMA CloseCases ==
    ASSUME NEW s \in Scanners
    PROVE  \/ Close(s) = s /\ (s.blocked \/ Waiting(s) = <<>>)
           \/ Close(s) = Process(Drained(s), Waiting(s)) /\ ~ s.blocked
  BY DEF Close, Drained, Waiting, Glue

LEMMA CloseFields ==
    ASSUME NEW s \in Scanners
    PROVE  /\ Later(s, Close(s))
           /\ Close(s).cramped = s.cramped
           /\ Bounded(s) => Bounded(Close(s))
<1>1. CASE Close(s) = s
  BY <1>1 DEF Later
<1>2. CASE Close(s) = Process(Drained(s), Waiting(s))
  <2>1. PICK e : /\ e = Drained(s) /\ e \in Scanners /\ Later(s, e)
                 /\ e.held = <<>> /\ e.buf = <<>> /\ ~ e.inFence /\ e.cramped = s.cramped
    BY DrainedFields DEF Later
  <2>2. Waiting(s) \in Texts
    BY TextJoin DEF Waiting, Scanners
  <2>3. PICK t : t = Close(s) /\ t = Process(e, Waiting(s))
    BY <1>2, <2>1
  <2>4. /\ Later(e, t) /\ t.cramped = e.cramped
        /\ t.held = <<>> /\ t.buf = <<>> /\ ~ t.inFence
    BY <2>1, <2>2, <2>3, ProcessFields DEF Later
  <2>5. Later(s, t)
    BY <2>1, <2>4 DEF Later
  <2>6. HeldLength(t) = 0 /\ ~ HasLine(t) /\ Tidy(t)
    <3>1. Len(t.held) = 0 /\ Len(t.buf) = 0 /\ DOMAIN t.buf = {}
      BY <2>4
    <3>2. HeldLength(t) = 0 + 0
      BY <3>1 DEF HeldLength
    <3> QED
      BY <2>4, <3>1, <3>2 DEF HasLine, Tidy
  <2>7. HeldLength(t) <= HardLimit /\ HeldLength(t) <= HardLimit + 2 * Spare
    BY <2>6, Bounds
  <2>8. Bounded(t)
    BY <2>6, <2>7 DEF Bounded
  <2> QED
    BY <2>1, <2>3, <2>4, <2>5, <2>8
<1> QED
  BY <1>1, <1>2, CloseCases

(* What a stream comes to: the whole text, hydrated, or, if the guard      *)
(* blocks it, a beginning of it that the guard lets pass.                  *)
Settles(s, f) ==
    \/ s.cramped
    \/ s.recited
    \/ s.blocked /\ Stopped(s, f)
    \/ /\ s.blocked /\ Inspect(Hydrate(f)) /\ ~ Inspect(s.out)
       /\ \E sent \in Texts, rest \in Texts :
             f = sent \o rest /\ CutAt(sent, rest) /\ s.out = Hydrate(sent)
    \/ /\ ~ s.blocked /\ ~ Inspect(s.out) /\ s.out = Hydrate(f)
       /\ s.held = <<>> /\ s.buf = <<>>

LEMMA CloseSettles ==
    ASSUME NEW s \in Scanners, NEW f \in Texts, Faithful(s, f)
    PROVE  Settles(Close(s), f)
<1>1. PICK t : t = Close(s) /\ Later(s, t)
  BY CloseFields
<1>2. CASE s.cramped \/ s.recited
  BY <1>1, <1>2 DEF Later, Settles
<1>3. CASE ~ (s.cramped \/ s.recited) /\ s.blocked
  <2>1. Stopped(s, f)
    BY <1>3 DEF Faithful
  <2>2. t = s
    BY <1>1, <1>3, CloseCases
  <2> QED
    BY <1>1, <1>3, <2>1, <2>2 DEF Settles
<1>4. CASE ~ (s.cramped \/ s.recited) /\ ~ s.blocked
  <2>1. PICK sent \in Texts, d \in Texts : Upto(s, f, sent, d, Waiting(s))
    BY <1>4 DEF Faithful, Kept
  <2>2. PICK w : w = Waiting(s) /\ w \in Texts
    BY TextJoin DEF Waiting, Scanners
  <2>3. ~ Inspect(s.out)
    BY <2>1, <2>2, UptoIsSafe
  <2>4. PICK h, head : /\ h = Hydrate(w) /\ h \in Texts
                       /\ head = s.head /\ head \in Texts /\ s.out \in Texts
    BY <2>2, HydrateIsText DEF Scanners
  <2>5. Hydrate(f) = Glue(s.out, h)
    <3>1. f = sent \o w /\ CutAt(sent, w) /\ s.out = Hydrate(sent)
      BY <2>1, <2>2, Zenon DEF Upto
    <3>2. w \in Texts
      BY <2>2
    <3>3. Hydrate(sent \o w) = Hydrate(sent) \o Hydrate(w)
      BY <3>1, <3>2, CutSafely, Zenon
    <3> QED
      BY <2>4, <3>1, <3>3, Zenon DEF Glue
  <2>6. Hydrate(f) = Glue(d, Glue(head, h)) /\ Glue(head, h) \in Texts
    <3>1. s.out = Glue(d, head)
      BY <2>1, <2>4 DEF Upto, Glue
    <3> QED
      <4>1. head \in Texts /\ h \in Texts
        BY <2>4
      <4>2. Glue(Glue(d, head), h) = Glue(d, Glue(head, h)) /\ Glue(head, h) \in Texts
        BY <4>1, TextRegroup, TextJoin
      <4> QED
        BY <2>5, <3>1, <4>2, Zenon
  <2>7. Inspect(Hydrate(f)) <=> Inspect(Glue(head, h))
    <3>1. Reading(Unread, d) = Unread
      BY <2>1 DEF Upto
    <3> QED
      BY <2>6, <3>1, InspectPast DEF Glue
  <2>8. CASE t = s /\ w = <<>>
    <3>1. h = <<>>
      BY <2>4, <2>8, HydrateNone
    <3>2. Hydrate(f) = s.out
      BY <2>4, <2>5, <3>1, ConcatEmptySeq DEF Texts, Glue
    <3>3. s.held = <<>> /\ s.buf = <<>>
      <4>1. s.held \in Texts /\ s.buf \in Texts /\ Glue(s.held, s.buf) = <<>>
        BY <2>2, <2>8 DEF Scanners, Waiting
      <4>2. s.held = <<>>
        BY <4>1, FirstOfGlue
      <4>3. s.buf = <<>>
        BY <4>1, LastOfGlue
      <4> QED
        BY <4>2, <4>3
    <3> QED
      BY <1>1, <1>4, <2>3, <2>8, <3>2, <3>3 DEF Settles
  <2>9. CASE t = Process(Drained(s), w)
    <3>1. PICK e : /\ e = Drained(s) /\ e \in Scanners
                   /\ e.held = <<>> /\ e.buf = <<>> /\ e.head = head
                   /\ ~ e.blocked /\ e.out = s.out
      BY <1>4, <2>4, DrainedFields
    <3>2. /\ t.held = <<>> /\ t.buf = <<>>
          /\ Recites(w) => t.recited
          /\ Inspect(Glue(head, Transform(w))) => t.blocked /\ t.out = s.out
          /\ ~ Inspect(Glue(head, Transform(w))) =>
                ~ t.blocked /\ t.out = Glue(s.out, Transform(w))
      <4>1. PICK p : p = Process(e, w)
        OBVIOUS
      <4>2. e \in Scanners /\ w \in Texts
        BY <2>2, <3>1
      <4>3. /\ p.held = e.held /\ p.buf = e.buf
            /\ e.recited \/ Recites(w) <=> p.recited
            /\ Inspect(Glue(e.head, Transform(w))) => p.blocked /\ p.out = e.out
            /\ ~ Inspect(Glue(e.head, Transform(w))) =>
                  p.blocked = e.blocked /\ p.out = Glue(e.out, Transform(w))
        BY <4>1, <4>2, ProcessFields DEF Glue
      <4>4. p = t /\ e.head = head
        BY <2>9, <3>1, <4>1, Zenon
      <4> QED
        BY <3>1, <4>3, <4>4
    <3>3. CASE Recites(w)
      BY <1>1, <3>2, <3>3 DEF Settles
    <3>4. CASE ~ Recites(w)
      <4>1. Transform(w) = h
        BY <2>2, <2>4, <3>4, TransformType
      <4>2. CASE Inspect(Glue(head, h))
        <5>1. t.blocked /\ t.out = s.out /\ Inspect(Hydrate(f))
          BY <2>7, <3>2, <4>1, <4>2
        <5>2. \E a \in Texts, b \in Texts :
                 f = a \o b /\ CutAt(a, b) /\ t.out = Hydrate(a)
          BY <2>1, <2>2, <5>1 DEF Upto
        <5> QED
          BY <1>1, <2>3, <5>1, <5>2 DEF Settles
      <4>3. CASE ~ Inspect(Glue(head, h))
        <5>1. ~ t.blocked /\ t.out = Hydrate(f) /\ ~ Inspect(t.out)
          BY <2>5, <2>7, <3>2, <4>1, <4>3
        <5> QED
          BY <1>1, <3>2, <5>1 DEF Settles
      <4> QED
        BY <4>2, <4>3
    <3> QED
      BY <3>3, <3>4
  <2> QED
    BY <1>1, <1>4, <2>2, <2>8, <2>9, CloseCases
<1> QED
  BY <1>2, <1>3, <1>4

(* What a stream that is over promises.                                    *)
LEMMA SettledOutcome ==
    ASSUME NEW s \in Scanners, NEW f \in Texts, Settles(s, f), ~ s.cramped, ~ s.recited
    PROVE  /\ ~ Inspect(s.out)
           /\ Inspect(Hydrate(f)) => s.blocked
           /\ s.blocked /\ ProgramsShown(f) => Inspect(Hydrate(f))
           /\ s.blocked => \E sent \in Texts, rest \in Texts :
                 f = sent \o rest /\ CutAt(sent, rest) /\ s.out = Hydrate(sent)
           /\ ~ s.blocked => s.out = Hydrate(f) /\ s.held = <<>> /\ s.buf = <<>>
<1>1. CASE s.blocked /\ Stopped(s, f)
  <2>1. f \o <<>> = f /\ <<>> \in Texts
    BY ConcatEmptySeq DEF Texts
  <2>2. ProgramsShown(f) => Inspect(Hydrate(f))
    BY <1>1, <2>1 DEF Stopped
  <2> QED
    BY <1>1, <2>2 DEF Stopped
<1>2. CASE ~ (s.blocked /\ Stopped(s, f))
  BY <1>2 DEF Settles
<1> QED
  BY <1>1, <1>2
-----------------------------------------------------------------------------
(* The calls.                                                              *)
CallTexts == [1..Calls -> Texts]
Lines == {Append(t, "nl") : t \in Texts}
HydratedLines(ls) == [i \in DOMAIN ls |-> Hydrate(ls[i])]

LEMMA LineFacts ==
    ASSUME NEW t \in Texts
    PROVE  /\ Append(t, "nl") \in Lines /\ Append(t, "nl") \in Texts
           /\ Append(t, "nl") # <<>> /\ Append(t, "nl")[Len(Append(t, "nl"))] = "nl"
           /\ Hydrate(t) \in Texts
           /\ Hydrate(Append(t, "nl")) = Append(Hydrate(t), "nl")
<1>1. "nl" \in Pieces /\ "nl" \notin DOMAIN Dictionary
  <2>1. "nl" \in Plain
    BY DEF Plain, Ends
  <2> QED
    BY <2>1, DictionaryFacts
<1>2. /\ Append(t, "nl") \in Texts /\ Append(t, "nl") # <<>>
      /\ Append(t, "nl")[Len(Append(t, "nl"))] = "nl"
  BY <1>1, AppendedText
<1>3. Hydrate(Append(t, "nl")) = Append(Hydrate(t), "nl")
  BY <1>1, HydrateAppend DEF Resolves
<1> QED
  BY <1>2, <1>3, HydrateIsText DEF Lines

LEMMA LinesHydrated ==
    ASSUME NEW ls \in Seq(Lines)
    PROVE  /\ FlattenSeq(ls) \in Texts
           /\ Hydrate(FlattenSeq(ls)) = FlattenSeq(HydratedLines(ls))
<1> DEFINE Good == {s \in Seq(Lines) :
                      /\ FlattenSeq(s) \in Texts
                      /\ FlattenSeq(s) = <<>> \/ FlattenSeq(s)[Len(FlattenSeq(s))] = "nl"
                      /\ HydratedLines(s) \in Seq(Texts)
                      /\ Hydrate(FlattenSeq(s)) = FlattenSeq(HydratedLines(s))}
<1>1. <<>> \in Good
  <2>1. HydratedLines(<<>>) = <<>>
    BY DEF HydratedLines
  <2>2. <<>> \in Texts /\ <<>> \in Seq(Lines) /\ <<>> \in Seq(Texts)
    BY DEF Texts
  <2> QED
    BY <2>1, <2>2, FlattenNone, HydrateNone
<1>2. ASSUME NEW s \in Seq(Lines), NEW l \in Lines, s \in Good
      PROVE  Append(s, l) \in Good
  <2>1. PICK flat : flat = FlattenSeq(s) /\ flat \in Texts
                    /\ (flat = <<>> \/ flat[Len(flat)] = "nl")
    BY <1>2
  <2>2. l \in Texts /\ l # <<>> /\ l[Len(l)] = "nl" /\ Hydrate(l) \in Texts
    <3>1. PICK t \in Texts : l = Append(t, "nl")
      BY DEF Lines
    <3>2. Append(t, "nl") \in Texts
      BY LineFacts
    <3> QED
      BY <3>1, <3>2, LineFacts, HydrateIsText
  <2>3. s \in Seq(Texts)
    <3>1. Lines \subseteq Texts
      BY LineFacts DEF Lines
    <3> QED
      BY <3>1, SeqMonotonic
  <2>4. FlattenSeq(Append(s, l)) = Glue(flat, l)
    BY <2>1, <2>2, <2>3, FlattenAppend DEF Texts, Glue
  <2>5. /\ Glue(flat, l) \in Texts /\ Glue(flat, l)[Len(Glue(flat, l))] = "nl"
    BY <2>1, <2>2, TextJoin, LastOfGlue
  <2>6. Hydrate(Glue(flat, l)) = Hydrate(flat) \o Hydrate(l)
    <3>1. SafeCut(flat, l)
      BY <2>1 DEF SafeCut, Resolves
    <3> QED
      BY <2>1, <2>2, <3>1, HydrateConcat DEF Glue
  <2>7. HydratedLines(Append(s, l)) = Append(HydratedLines(s), Hydrate(l))
    <3>1. PICK n : n = Len(s) /\ n \in Nat /\ DOMAIN s = 1..n
      OBVIOUS
    <3>2. PICK a : /\ a = Append(s, l) /\ DOMAIN a = 1..(n + 1)
                   /\ a[n + 1] = l /\ \A i \in 1..n : a[i] = s[i]
      <4>1. /\ Append(s, l) \in Seq(Lines) /\ Len(Append(s, l)) = Len(s) + 1
            /\ Append(s, l)[Len(s) + 1] = l
            /\ \A i \in 1..Len(s) : Append(s, l)[i] = s[i]
        BY AppendProperties
      <4>2. DOMAIN Append(s, l) = 1..Len(Append(s, l))
        BY <4>1, LenProperties
      <4> QED
        BY <3>1, <4>1, <4>2, Zenon
    <3>3. PICK h : h = HydratedLines(s) /\ h \in Seq(Texts)
                   /\ Len(h) = n /\ \A i \in 1..n : h[i] = Hydrate(s[i])
      <4>1. HydratedLines(s) \in Seq(Texts)
        BY <1>2
      <4>2. PICK h : h = HydratedLines(s) /\ h \in Seq(Texts)
        BY <4>1, Zenon
      <4>3. h = [i \in 1..n |-> Hydrate(s[i])]
        BY <3>1, <4>2, Zenon DEF HydratedLines
      <4>4. DOMAIN h = 1..n /\ \A i \in 1..n : h[i] = Hydrate(s[i])
        BY <4>3, Zenon
      <4>5. Len(h) = n
        BY <3>1, <4>2, <4>4, LenProperties
      <4> QED
        BY <4>2, <4>4, <4>5, Zenon
    <3>4. PICK b : /\ b = Append(h, Hydrate(l)) /\ b \in Seq(Texts) /\ Len(b) = n + 1
                   /\ b[n + 1] = Hydrate(l) /\ \A i \in 1..n : b[i] = h[i]
      <4>1. PICK x : x = Hydrate(l) /\ x \in Texts
        BY <2>2
      <4> QED
        <5>1. h \in Seq(Texts) /\ x \in Texts /\ Len(h) = n
          BY <3>3, <4>1
        <5>2. /\ Append(h, x) \in Seq(Texts) /\ Len(Append(h, x)) = n + 1
              /\ Append(h, x)[n + 1] = x
              /\ \A i \in 1..n : Append(h, x)[i] = h[i]
          BY <5>1, AppendProperties
        <5> QED
          BY <4>1, <5>2, Zenon
    <3>5. \A i \in 1..(n + 1) : i = n + 1 \/ i \in 1..n
      BY <3>1
    <3>6. \A i \in 1..(n + 1) : b[i] = Hydrate(a[i])
      BY <3>2, <3>3, <3>4, <3>5
    <3>7. b = [i \in 1..(n + 1) |-> b[i]]
      <4>1. b \in Seq(Texts) /\ Len(b) = n + 1
        BY <3>4
      <4> QED
        BY <4>1
    <3>8. HydratedLines(a) = [i \in 1..(n + 1) |-> Hydrate(a[i])]
      BY <3>2 DEF HydratedLines
    <3>9. HydratedLines(a) = b
      BY <3>6, <3>7, <3>8
    <3> QED
      BY <3>2, <3>3, <3>4, <3>9
  <2>8. PICK h : /\ h = HydratedLines(s) /\ h \in Seq(Texts)
                 /\ Hydrate(flat) = FlattenSeq(h)
    BY <1>2, <2>1
  <2>9. Append(h, Hydrate(l)) \in Seq(Texts)
    BY <2>2, <2>8, AppendProperties
  <2>10. FlattenSeq(Append(h, Hydrate(l))) = FlattenSeq(h) \o Hydrate(l)
    BY <2>2, <2>8, FlattenAppend DEF Texts
  <2>11. Append(s, l) \in Seq(Lines)
    BY AppendProperties
  <2> QED
    BY <2>4, <2>5, <2>6, <2>7, <2>8, <2>9, <2>10, <2>11
<1>3. ls \in Good
  <2>1. \A s \in Seq(Lines) : \A l \in Lines : s \in Good => Append(s, l) \in Good
    BY <1>2
  <2> HIDE DEF Good
  <2> QED
    BY <1>1, <2>1, EverySequence
<1> QED
  BY <1>3

LEMMA ArgumentsHydrated ==
    ASSUME NEW c \in CallTexts
    PROVE  /\ [i \in 1..Calls |-> Hydrate(c[i])] \in CallTexts
           /\ Hydrate(Arguments(c)) = Arguments([i \in 1..Calls |-> Hydrate(c[i])])
<1>1. \A i \in 1..Calls :
         /\ Append(c[i], "nl") \in Lines
         /\ Hydrate(c[i]) \in Texts
         /\ Hydrate(Append(c[i], "nl")) = Append(Hydrate(c[i]), "nl")
  BY LineFacts DEF CallTexts
<1>2. PICK h : h = [i \in 1..Calls |-> Hydrate(c[i])]
  OBVIOUS
<1>3. h \in CallTexts /\ \A i \in 1..Calls : h[i] = Hydrate(c[i])
  BY <1>1, <1>2 DEF CallTexts
<1>4. PICK ls : ls = [i \in 1..Calls |-> Append(c[i], "nl")]
  OBVIOUS
<1>5. ls \in Seq(Lines) /\ DOMAIN ls = 1..Calls
  <2>1. Calls \in Nat
    BY SizeAssumption
  <2>2. ls \in [1..Calls -> Lines]
    BY <1>1, <1>4
  <2> QED
    BY <2>1, <2>2
<1>6. HydratedLines(ls) = [i \in 1..Calls |-> Append(h[i], "nl")]
  <2>1. \A i \in 1..Calls : Hydrate(ls[i]) = Append(h[i], "nl")
    BY <1>1, <1>3, <1>4
  <2>2. HydratedLines(ls) = [i \in 1..Calls |-> Hydrate(ls[i])]
    BY <1>5 DEF HydratedLines
  <2> QED
    BY <2>1, <2>2
<1>7. Arguments(c) = FlattenSeq(ls) /\ Arguments(h) = FlattenSeq(HydratedLines(ls))
  BY <1>4, <1>6 DEF Arguments
<1> QED
  BY <1>2, <1>3, <1>5, <1>7, LinesHydrated
-----------------------------------------------------------------------------
(* The answer that was kept, given to a new scanner in one piece.          *)
LEMMA DistinctOfPart ==
    ASSUME NEW content \in Texts, NEW pre \in Texts, NEW text \in Texts, NEW post \in Texts,
           content = Glue(pre, Glue(text, post)), ~ Recites(content)
    PROVE  ~ Recites(text)
<1>1. PICK p, m, q : /\ p = Len(pre) /\ m = Len(text) /\ q = Len(post)
                     /\ p \in Nat /\ m \in Nat /\ q \in Nat
  <2>1. Len(pre) \in Nat /\ Len(text) \in Nat /\ Len(post) \in Nat
    BY DEF Texts
  <2> QED
    BY <2>1, Zenon
<1>2. /\ Len(content) = p + (m + q)
      /\ \A i \in 1..m : content[p + i] = text[i]
  <2>1. PICK tail : /\ tail = Glue(text, post) /\ tail \in Texts /\ Len(tail) = m + q
                    /\ \A i \in 1..(m + q) : i <= m => tail[i] = text[i]
    BY <1>1, ConcatProperties, TextJoin DEF Texts, Glue
  <2>2. /\ Len(content) = p + (m + q)
        /\ \A i \in 1..(p + (m + q)) : ~ (i <= p) => content[i] = tail[i - p]
    BY <1>1, <2>1, ConcatProperties DEF Texts, Glue
  <2>3. \A i \in 1..m : /\ p + i \in 1..(p + (m + q)) /\ ~ (p + i <= p) /\ (p + i) - p = i
                        /\ i \in 1..(m + q) /\ i <= m
    BY <1>1
  <2> QED
    BY <2>1, <2>2, <2>3
<1> DEFINE At == {j \in 2..Len(content) : Resolves(content[j - 1], content[j])}
           Of == {j \in 2..Len(text) : Resolves(text[j - 1], text[j])}
<1>3. IsFiniteSet(Distinct(content))
  <2>1. IsFiniteSet(At)
    <3>1. IsFiniteSet(2..(p + (m + q)))
      BY <1>1, FS_Interval
    <3> QED
      BY <1>2, <3>1, FS_Subset
  <2>2. Distinct(content) = {content[j] : j \in At}
    BY DEF Distinct
  <2> HIDE DEF At
  <2>3. PICK f : f = [j \in At |-> content[j]]
    OBVIOUS
  <2>4. f \in Surjection(At, Distinct(content))
    BY <2>2, <2>3 DEF Surjection
  <2> QED
    BY <2>1, <2>4, FS_Surjection
<1>4. Distinct(text) \subseteq Distinct(content)
  <2>1. ASSUME NEW j \in Of
        PROVE  p + j \in At /\ content[p + j] = text[j]
    <3>1. j - 1 \in 1..m /\ j \in 1..m /\ p + (j - 1) = (p + j) - 1
          /\ p + j \in 2..(p + (m + q))
      BY <1>1
    <3>2. content[(p + j) - 1] = text[j - 1] /\ content[p + j] = text[j]
      BY <1>2, <3>1
    <3> QED
      BY <1>2, <3>1, <3>2
  <2>2. Distinct(text) = {text[j] : j \in Of} /\ Distinct(content) = {content[j] : j \in At}
    BY DEF Distinct
  <2> HIDE DEF At, Of
  <2> QED
    BY <2>1, <2>2
<1>5. Cardinality(Distinct(text)) <= Cardinality(Distinct(content))
      /\ Cardinality(Distinct(text)) \in Nat /\ Cardinality(Distinct(content)) \in Nat
  BY <1>3, <1>4, FS_Subset, FS_CardinalityType
<1> QED
  BY <1>5, LimitAssumption DEF Recites

(* A kept answer that is being replayed: nothing has gone wrong so far,    *)
(* and what waits is an end of it.                                         *)
Fits(s, content) ==
    /\ s \in Scanners /\ ~ s.cramped /\ ~ s.recited
    /\ ~ s.blocked =>
          /\ Tidy(s)
          /\ \E pre \in Texts : content = Glue(pre, Waiting(s))

LEMMA FittingLength ==
    ASSUME NEW content \in Texts, Len(content) <= MaxBuffer,
           NEW s \in Scanners, NEW pre \in Texts, content = Glue(pre, Waiting(s))
    PROVE  HeldLength(s) <= MaxBuffer /\ HeldLength(s) <= HardLimit
<1>1. s.held \in Texts /\ s.buf \in Texts /\ Waiting(s) \in Texts
  BY TextJoin DEF Waiting, Scanners
<1>2. Len(Waiting(s)) = HeldLength(s) /\ HeldLength(s) \in Nat
  <2>1. Len(s.held \o s.buf) = Len(s.held) + Len(s.buf)
    BY <1>1, ConcatProperties DEF Texts
  <2>2. HeldLength(s) = Len(s.held) + Len(s.buf) /\ HeldLength(s) \in Nat
    BY HeldLengthType
  <2> QED
    BY <2>1, <2>2, Zenon DEF Waiting, Glue
<1>3. Len(content) = Len(pre) + HeldLength(s) /\ Len(pre) \in Nat
  BY <1>1, <1>2, ConcatProperties DEF Glue, Texts
<1> QED
  BY <1>2, <1>3, LimitAssumption

LEMMA EnforceIdle ==
    ASSUME NEW s \in Scanners, s.head = <<>>, HeldLength(s) <= MaxBuffer
    PROVE  EnforceMaxBuffer(s) = s
<1>1. ~ (Len(s.head) > MaxBuffer)
  BY LimitAssumption
<1> QED
  BY <1>1 DEF EnforceMaxBuffer

(* A part of the answer goes out.                                          *)
LEMMA ProcessFits ==
    ASSUME NEW content \in Texts, ~ Recites(content),
           NEW s \in Scanners, ~ s.cramped, ~ s.recited, ~ s.inFence, s.held = <<>>,
           NEW pre \in Texts, NEW text \in Texts, content = Glue(pre, Glue(text, s.buf))
    PROVE  LET t == Process(s, text) IN Fits(t, content) /\ t.head = <<>>
<1>1. PICK t : t = Process(s, text)
  OBVIOUS
<1>2. s.buf \in Texts
  BY DEF Scanners
<1>3. ~ Recites(text)
  BY <1>2, DistinctOfPart
<1>4. /\ t \in Scanners /\ t.buf = s.buf /\ t.held = <<>> /\ ~ t.inFence /\ t.head = <<>>
      /\ ~ t.cramped /\ ~ t.recited
  BY <1>1, <1>3, ProcessFields
<1>5. Waiting(t) = s.buf
  BY <1>2, <1>4, ConcatEmptySeq DEF Waiting, Glue, Texts
<1>6. content = Glue(Glue(pre, text), Waiting(t)) /\ Glue(pre, text) \in Texts
  <2>1. PICK b : b = s.buf /\ b \in Texts
    BY <1>2, Zenon
  <2>2. Glue(Glue(pre, text), b) = Glue(pre, Glue(text, b)) /\ Glue(pre, text) \in Texts
    <3>1. b \in Texts
      BY <2>1
    <3> QED
      BY <3>1, TextRegroup, TextJoin
  <2> QED
    BY <1>5, <2>1, <2>2, Zenon
<1> QED
  BY <1>1, <1>4, <1>6 DEF Fits, Tidy

LEMMA FeedLineFits ==
    ASSUME NEW content \in Texts, ~ Recites(content), Len(content) <= MaxBuffer,
           NEW s, Fits(s, content), s.head = <<>>, ~ s.blocked, HasLine(s)
    PROVE  Fits(FeedLine(s), content) /\ FeedLine(s).head = <<>>
<1>1. s \in Scanners /\ ~ s.cramped /\ ~ s.recited /\ Tidy(s)
  BY DEF Fits
<1>2. PICK pre \in Texts : content = Glue(pre, Waiting(s))
  BY DEF Fits
<1>3. PICK a \in Seq(InLine), end \in Ends, line \in Texts, rest \in Texts :
         /\ line = Append(a, end)
         /\ s.buf = Glue(line, rest)
         /\ FeedLine(s) =
              IF s.inFence
              THEN IF ClosesFence(line) THEN FlushFence(Further(s, line, rest))
                   ELSE EnforceMaxBuffer(Further(s, line, rest))
              ELSE IF OpensFence(line) /\ s.head = <<>>
                   THEN [Further(s, line, rest) EXCEPT !.inFence = TRUE]
              ELSE Process(Shorter(s, rest), line)
  BY <1>1, FeedLineCases
<1>4. Tidy(FeedLine(s))
  BY <1>1, FeedLineTidy
<1>5. PICK held : held = s.held /\ held \in Texts
  BY <1>1 DEF Scanners
<1>6. PICK text : text = Glue(held, line) /\ text \in Texts
  BY <1>5, TextJoin
<1>7. Waiting(s) = Glue(text, rest)
  BY <1>3, <1>5, <1>6, TextRegroup DEF Waiting
<1>8. PICK g : /\ g = Further(s, line, rest)
               /\ g \in Scanners /\ g.buf = rest /\ g.held = text
               /\ g.head = <<>> /\ g.inFence = s.inFence /\ g.blocked = s.blocked
               /\ ~ g.cramped /\ ~ g.recited
  <2>1. LET g == Further(s, line, rest)
        IN /\ g \in Scanners /\ g.buf = rest /\ g.held = Glue(s.held, line)
           /\ g.strict = s.strict /\ g.head = s.head
           /\ g.inFence = s.inFence /\ g.blocked = s.blocked /\ g.out = s.out
           /\ g.cramped = s.cramped /\ g.recited = s.recited
    <3>1. s \in Scanners /\ line \in Texts /\ rest \in Texts
      BY <1>1
    <3> QED
      BY ONLY <3>1, FurtherFields
  <2> QED
    BY <1>1, <1>5, <1>6, <2>1, Zenon
<1>9. ASSUME NEW t \in Scanners, t.held = text, t.buf = rest
      PROVE  content = Glue(pre, Waiting(t))
  BY <1>2, <1>7, <1>9 DEF Waiting
<1>10. CASE s.inFence /\ ClosesFence(line)
  <2>1. PICK e : /\ e = Emptied(g) /\ e \in Scanners /\ ~ e.inFence /\ e.held = <<>>
                 /\ e.buf = rest /\ ~ e.cramped /\ ~ e.recited
    BY <1>8, EmptiedFields
  <2>2. FeedLine(s) = Process(e, text)
    BY <1>3, <1>8, <1>10, <2>1 DEF FlushFence, Emptied
  <2>3. content = Glue(pre, Glue(text, e.buf))
    BY <1>2, <1>7, <2>1
  <2> QED
    BY <1>6, <2>1, <2>2, <2>3, ProcessFits
<1>11. CASE s.inFence /\ ~ ClosesFence(line)
  <2>1. content = Glue(pre, Waiting(g))
    BY <1>8, <1>9
  <2>2. HeldLength(g) <= MaxBuffer
    BY <1>8, <2>1, FittingLength
  <2>3. FeedLine(s) = g
    BY <1>3, <1>8, <1>11, <2>2, EnforceIdle
  <2> QED
    BY <1>4, <1>8, <2>1, <2>3 DEF Fits
<1>12. CASE ~ s.inFence /\ OpensFence(line) /\ s.head = <<>>
  <2>1. PICK t : /\ t = FeedLine(s) /\ t = Entered(g)
    BY <1>3, <1>8, <1>12 DEF Entered
  <2>2. /\ t \in Scanners /\ t.buf = rest /\ t.head = <<>> /\ t.held = text
        /\ ~ t.cramped /\ ~ t.recited
    BY <1>8, <2>1, EnteredFields
  <2>3. content = Glue(pre, Waiting(t))
    BY <1>9, <2>2
  <2> QED
    BY <1>4, <2>1, <2>2, <2>3 DEF Fits
<1>13. CASE ~ s.inFence /\ ~ (OpensFence(line) /\ s.head = <<>>)
  <2>1. held = <<>> /\ text = line
    <3>1. held = <<>>
      BY <1>1, <1>5, <1>13 DEF Tidy
    <3> QED
      BY <1>6, <3>1, ConcatEmptySeq DEF Texts, Glue
  <2>2. PICK r : /\ r = Shorter(s, rest) /\ r \in Scanners /\ r.buf = rest
                 /\ r.held = s.held /\ r.inFence = s.inFence
                 /\ ~ r.cramped /\ ~ r.recited
    <3>1. /\ Shorter(s, rest) \in Scanners /\ Shorter(s, rest).buf = rest
          /\ Shorter(s, rest).held = s.held /\ Shorter(s, rest).inFence = s.inFence
          /\ Shorter(s, rest).cramped = s.cramped /\ Shorter(s, rest).recited = s.recited
      BY <1>1, ShorterFields, Zenon
    <3> QED
      BY <1>1, <3>1, Zenon
  <2>3. FeedLine(s) = Process(r, line)
    BY <1>3, <1>13, <2>2
  <2>4. content = Glue(pre, Glue(line, r.buf))
    BY <1>2, <1>7, <2>1, <2>2
  <2> QED
    BY <1>5, <1>13, <2>1, <2>2, <2>3, <2>4, ProcessFits
<1> QED
  BY <1>10, <1>11, <1>12, <1>13

LEMMA CommitTailFits ==
    ASSUME NEW content \in Texts, ~ Recites(content), Len(content) <= MaxBuffer,
           NEW s, Fits(s, content), s.head = <<>>, ~ s.blocked, ~ HasLine(s)
    PROVE  Fits(CommitTail(s), content)
<1>1. s \in Scanners /\ ~ s.cramped /\ ~ s.recited /\ Tidy(s) /\ s.buf \in Texts
  BY DEF Fits, Scanners
<1>2. PICK pre \in Texts : content = Glue(pre, Waiting(s))
  BY DEF Fits
<1>3. PICK n : n = CommitIndex(s.buf)
  OBVIOUS
<1>4. CASE s.inFence \/ n = 0
  <2>1. HeldLength(s) <= MaxBuffer
    BY <1>1, <1>2, FittingLength
  <2>2. CommitTail(s) = s
    BY <1>1, <1>3, <1>4, <2>1, EnforceIdle DEF CommitTail
  <2> QED
    BY <2>2
<1>5. CASE ~ (s.inFence \/ n = 0)
  <2>1. PICK part \in Seq(InLine), rest \in Texts :
              /\ part = SubSeq(s.buf, 1, n) /\ rest = SubSeq(s.buf, n + 1, Len(s.buf))
              /\ part \in Texts
              /\ s.buf = Glue(part, rest)
    <3>1. ~ \E i \in DOMAIN s.buf : s.buf[i] \in Ends
      BY DEF HasLine
    <3>2. n # 0
      BY <1>5
    <3>3. CleanCut(s.buf, n, SubSeq(s.buf, 1, n), SubSeq(s.buf, n + 1, Len(s.buf)))
      BY <1>1, <1>3, <3>1, <3>2, TailCut, Zenon
    <3>4. PICK part, rest : /\ part = SubSeq(s.buf, 1, n)
                            /\ rest = SubSeq(s.buf, n + 1, Len(s.buf))
                            /\ CleanCut(s.buf, n, part, rest)
      BY <3>3, Zenon
    <3> QED
      BY <3>4, Zenon DEF CleanCut
  <2>0. part \in Texts /\ s.buf = Glue(part, rest)
    BY <2>1, Zenon
  <2>2. PICK r : /\ r = Shorter(s, rest) /\ r \in Scanners /\ r.buf = rest
                 /\ r.held = s.held /\ r.inFence = s.inFence
                 /\ ~ r.cramped /\ ~ r.recited
    <3>1. /\ Shorter(s, rest) \in Scanners /\ Shorter(s, rest).buf = rest
          /\ Shorter(s, rest).held = s.held /\ Shorter(s, rest).inFence = s.inFence
          /\ Shorter(s, rest).cramped = s.cramped /\ Shorter(s, rest).recited = s.recited
      BY <1>1, ShorterFields, Zenon
    <3> QED
      BY <1>1, <3>1, Zenon
  <2>3. PICK t : t = CommitTail(s) /\ t = Release(r, part)
    BY <1>3, <1>5, <2>1, <2>2 DEF CommitTail, Shorter
  <2>4. s.held = <<>>
    BY <1>1, <1>5 DEF Tidy
  <2>5. content = Glue(pre, Glue(part, rest))
    <3>1. Waiting(s) = s.buf
      BY <1>1, <2>4, ConcatEmptySeq DEF Waiting, Glue, Texts
    <3> QED
      BY <1>2, <2>0, <3>1
  <2>6. ~ Recites(part)
    BY <2>0, <2>5, DistinctOfPart
  <2>7. /\ t \in Scanners /\ t.buf = rest /\ t.held = <<>> /\ ~ t.inFence
        /\ ~ t.cramped /\ ~ t.recited
    <3>1. /\ Release(r, part) \in Scanners
          /\ Release(r, part).buf = r.buf /\ Release(r, part).held = r.held
          /\ Release(r, part).inFence = r.inFence /\ Release(r, part).cramped = r.cramped
          /\ r.recited \/ Recites(part) <=> Release(r, part).recited
      <4>1. r \in Scanners /\ part \in Texts
        BY <2>0, <2>2
      <4> QED
        BY <4>1, ReleaseFields
    <3> QED
      BY <1>5, <2>2, <2>3, <2>4, <2>6, <3>1, Zenon
  <2>8. Waiting(t) = rest
    BY <2>0, <2>7, ConcatEmptySeq DEF Waiting, Glue, Texts
  <2>9. content = Glue(Glue(pre, part), Waiting(t)) /\ Glue(pre, part) \in Texts
    <3>1. pre \in Texts /\ part \in Texts /\ rest \in Texts
      BY <2>0
    <3>2. Glue(Glue(pre, part), rest) = Glue(pre, Glue(part, rest)) /\ Glue(pre, part) \in Texts
      BY <3>1, TextRegroup, TextJoin
    <3> QED
      BY <2>5, <2>8, <3>2, Zenon
  <2> QED
    BY <2>3, <2>7, <2>9 DEF Fits, Tidy
<1> QED
  BY <1>4, <1>5

LEMMA WriteFits ==
    ASSUME NEW content \in Texts, ~ Recites(content), Len(content) <= MaxBuffer,
           NEW strict \in BOOLEAN
    PROVE  Fits(Write(NewScanner(strict), content), content)
<1>1. PICK s : /\ s = NewScanner(strict) /\ s \in Scanners
               /\ s.strict = strict /\ s.buf = <<>> /\ s.held = <<>> /\ s.head = <<>>
               /\ ~ s.inFence /\ ~ s.blocked /\ ~ s.cramped /\ ~ s.recited
  <2>1. LET s == NewScanner(strict)
        IN /\ s.strict = strict /\ s.buf = <<>> /\ s.held = <<>> /\ s.head = <<>>
           /\ ~ s.inFence /\ ~ s.blocked /\ ~ s.cramped /\ ~ s.recited
    BY DEF NewScanner
  <2> QED
    BY <2>1, NewScannerType, Zenon
<1>2. PICK g : /\ g = Grown(s, content) /\ g \in Scanners
               /\ g.strict = strict /\ g.held = <<>> /\ g.head = <<>>
               /\ ~ g.inFence /\ ~ g.blocked /\ ~ g.cramped /\ ~ g.recited
               /\ g.buf = Glue(s.buf, content)
  BY <1>1, GrownFields
<1>3. g.buf = content
  BY <1>1, <1>2, ConcatEmptySeq DEF Glue, Texts
<1>4. <<>> \in Texts /\ content = Glue(<<>>, Waiting(g))
  <2>1. Waiting(g) = content
    BY <1>2, <1>3, ConcatEmptySeq DEF Waiting, Glue, Texts
  <2>2. Glue(<<>>, content) = content
    BY ConcatEmptySeq DEF Glue, Texts
  <2> QED
    BY <2>1, <2>2 DEF Texts
<1>5. Fits(g, content)
  BY <1>2, <1>4 DEF Fits, Tidy
<1>6. Write(s, content) = IF strict THEN EnforceHardLimit(g) ELSE AfterLines(FeedLines(g))
  BY <1>1, <1>2 DEF Write, Grown
<1>7. CASE strict
  <2>1. HeldLength(g) <= HardLimit
    BY <1>2, <1>4, FittingLength
  <2>2. Write(s, content) = g
    BY <1>6, <1>7, <2>1 DEF EnforceHardLimit
  <2> QED
    BY <1>1, <1>5, <2>2
<1>8. CASE ~ strict
  <2> DEFINE Good == {t \in Scanners : Fits(t, content) /\ (~ t.blocked => t.head = <<>>)}
  <2>1. g \in Good
    BY <1>2, <1>5
  <2>2. ASSUME NEW t \in Scanners, t \in Good
        PROVE  Feed(t) \in Good
    <3>1. Feed(t) \in Scanners
      BY FeedType DEF Later
    <3>2. CASE t.blocked \/ ~ HasLine(t)
      BY <2>2, <3>2 DEF Feed
    <3>3. CASE ~ (t.blocked \/ ~ HasLine(t))
      <4>1. Feed(t) = FeedLine(t)
        BY <3>3 DEF Feed
      <4>2. Fits(FeedLine(t), content) /\ FeedLine(t).head = <<>>
        BY <2>2, <3>3, FeedLineFits
      <4> QED
        BY <3>1, <4>1, <4>2
    <3> QED
      BY <3>2, <3>3
  <2>3. FeedLines(g) \in Good
    <3>1. \A t \in Scanners : t \in Good => Feed(t) \in Good
      BY <2>2
    <3> HIDE DEF Good
    <3> QED
      BY <1>2, <2>1, <3>1, FeedLinesKeeps
  <2>4. PICK l : l = FeedLines(g) /\ l \in Scanners /\ Fits(l, content)
                 /\ (~ l.blocked => l.head = <<>>) /\ (l.blocked \/ ~ HasLine(l))
    BY <1>2, <2>3, FeedLinesEnds
  <2>5. Write(s, content) = AfterLines(l)
    BY <1>6, <1>8, <2>4
  <2>6. CASE l.blocked
    BY <1>1, <2>4, <2>5, <2>6 DEF AfterLines
  <2>7. CASE ~ l.blocked
    <3>1. AfterLines(l) = CommitTail(l)
      BY <2>7 DEF AfterLines
    <3>2. Fits(CommitTail(l), content)
      BY <2>4, <2>7, CommitTailFits
    <3> QED
      BY <1>1, <2>5, <3>1, <3>2
  <2> QED
    BY <2>6, <2>7
<1> QED
  BY <1>7, <1>8

LEMMA CloseFits ==
    ASSUME NEW content \in Texts, ~ Recites(content), NEW s, Fits(s, content)
    PROVE  ~ Close(s).cramped /\ ~ Close(s).recited
<1>1. s \in Scanners /\ ~ s.cramped /\ ~ s.recited
  BY DEF Fits
<1>2. ~ Close(s).cramped
  BY <1>1, CloseFields
<1>3. CASE Close(s) = s
  BY <1>1, <1>3
<1>4. CASE Close(s) = Process(Drained(s), Waiting(s)) /\ ~ s.blocked
  <2>1. PICK pre \in Texts : content = Glue(pre, Waiting(s))
    BY <1>4 DEF Fits
  <2>2. PICK w : w = Waiting(s) /\ w \in Texts
    BY <1>1, TextJoin DEF Waiting, Scanners
  <2>3. <<>> \in Texts /\ content = Glue(pre, Glue(w, <<>>))
    BY <2>1, <2>2, ConcatEmptySeq DEF Glue, Texts
  <2>4. ~ Recites(w)
    BY <2>2, <2>3, DistinctOfPart
  <2>5. PICK e : e = Drained(s) /\ e \in Scanners /\ ~ e.recited
    BY <1>1, DrainedFields
  <2>6. ~ Close(s).recited
    BY <1>4, <2>2, <2>4, <2>5, ProcessFields
  <2> QED
    BY <1>2, <2>6
<1> QED
  BY <1>1, <1>2, <1>3, <1>4, CloseCases

(* Given to a new scanner whole, a text that it can hold comes out as the  *)
(* blocking path would send it.                                            *)
LEMMA ReplayOutcome ==
    ASSUME NEW content \in Texts, ~ Recites(content), Len(content) <= MaxBuffer,
           ProgramsShown(content), NEW strict \in BOOLEAN
    PROVE  LET t == Close(Write(NewScanner(strict), content))
           IN /\ t.blocked <=> Inspect(Hydrate(content))
              /\ ~ t.blocked => t.out = Hydrate(content)
<1>1. PICK n : n = NewScanner(strict) /\ n \in Scanners /\ Faithful(n, <<>>)
  BY NewScannerType, NewIsFaithful
<1>2. PICK s : s = Write(n, content) /\ s \in Scanners
  BY <1>1, WriteKeeps DEF Later
<1>3. <<>> \in Texts /\ Glue(<<>>, content) = content
  BY ConcatEmptySeq DEF Glue, Texts
<1>4. Faithful(s, content)
  BY <1>1, <1>2, <1>3, WriteKeeps
<1>5. Fits(s, content)
  BY <1>1, <1>2, WriteFits
<1>6. PICK t : /\ t = Close(s) /\ t \in Scanners /\ Settles(t, content)
               /\ ~ t.cramped /\ ~ t.recited
  BY <1>2, <1>4, <1>5, CloseFields, CloseSettles, CloseFits DEF Later
<1>7. /\ t.blocked <=> Inspect(Hydrate(content))
      /\ ~ t.blocked => t.out = Hydrate(content)
  BY <1>6, SettledOutcome
<1> QED
  BY <1>1, <1>2, <1>6, <1>7
-----------------------------------------------------------------------------
(* The answer.                                                             *)
LEMMA HydratedPrefix ==
    ASSUME NEW sent \in Texts, NEW rest \in Texts, CutAt(sent, rest)
    PROVE  IsPrefix(Hydrate(sent), Hydrate(sent \o rest))
<1>1. PICK a, b, c : /\ a = Hydrate(sent) /\ b = Hydrate(rest) /\ c = Hydrate(sent \o rest)
                     /\ a \in Texts /\ b \in Texts /\ c = a \o b
  BY CutSafely, HydrateIsText
<1>2. PICK n, m : n = Len(a) /\ m = Len(b) /\ n \in Nat /\ m \in Nat
  <2>1. Len(a) \in Nat /\ Len(b) \in Nat
    BY <1>1 DEF Texts
  <2> QED
    BY <2>1, Zenon
<1>3. /\ c \in Texts /\ Len(c) = n + m
      /\ \A i \in 1..(n + m) : i <= n => c[i] = a[i]
      /\ n <= n + m /\ \A i \in 1..n : i \in 1..(n + m) /\ i <= n
  <2>1. /\ a \o b \in Texts /\ Len(a \o b) = n + m
        /\ \A i \in 1..(n + m) : i <= n => (a \o b)[i] = a[i]
    BY <1>1, <1>2, ConcatProperties DEF Texts
  <2>2. n <= n + m /\ \A i \in 1..n : i \in 1..(n + m) /\ i <= n
    BY <1>2
  <2> QED
    BY <1>1, <2>1, <2>2, Zenon
<1>4. SubSeq(a, 1, n) = a
  BY <1>1, <1>2, SubSeqFull DEF Texts
<1>5. PICK d : d = SubSeq(c, 1, n)
  OBVIOUS
<1>6. d \in Texts /\ Len(d) = n /\ \A i \in 1..n : d[i] = a[i]
  <2>1. \A i \in 1..n : c[i] \in Pieces
    BY <1>2, <1>3 DEF Texts
  <2>2. 1 \in Int /\ n \in Int /\ (n - 1) + 1 = n /\ (1 <= n \/ n = 0)
    BY <1>2
  <2>3. /\ d \in Seq(Pieces)
        /\ Len(d) = IF 1 <= n THEN (n - 1) + 1 ELSE 0
        /\ \A i \in 1..((n - 1) + 1) : d[i] = c[(1 + i) - 1]
    BY <1>5, <2>1, <2>2, SubSeqProperties
  <2>4. \A i \in 1..n : (1 + i) - 1 = i
    BY <1>2
  <2>5. \A i \in 1..n : d[i] = c[i]
    BY <2>2, <2>3, <2>4
  <2> QED
    BY <1>2, <1>3, <2>2, <2>3, <2>5 DEF Texts
<1>7. d = a
  BY <1>1, <1>2, <1>6, SeqEqual DEF Texts
<1> QED
  BY <1>1, <1>2, <1>3, <1>4, <1>5, <1>7 DEF IsPrefix

LEMMA FaithfulOutcome ==
    ASSUME NEW s \in Scanners, NEW f \in Texts, Faithful(s, f), ~ s.cramped, ~ s.recited
    PROVE  /\ ~ Inspect(s.out)
           /\ s.blocked => IsPrefix(s.out, Hydrate(f))
           /\ ~ s.blocked => s.out \o Hydrate(s.held \o s.buf) = Hydrate(f)
<1>1. CASE s.blocked
  <2>1. PICK sent \in Texts, rest \in Texts :
               f = sent \o rest /\ CutAt(sent, rest) /\ s.out = Hydrate(sent)
    BY <1>1 DEF Faithful, Stopped
  <2>2. ~ Inspect(s.out)
    BY <1>1 DEF Faithful, Stopped
  <2> QED
    BY <1>1, <2>1, <2>2, HydratedPrefix
<1>2. CASE ~ s.blocked
  <2>1. PICK sent \in Texts, d \in Texts : Upto(s, f, sent, d, Waiting(s))
    BY <1>2 DEF Faithful, Kept
  <2>2. PICK w : w = Waiting(s) /\ w \in Texts /\ w = s.held \o s.buf
    BY TextJoin DEF Waiting, Scanners, Glue
  <2>3. ~ Inspect(s.out)
    BY <2>1, <2>2, UptoIsSafe
  <2>4. Hydrate(f) = s.out \o Hydrate(w)
    BY <2>1, <2>2, CutSafely DEF Upto
  <2> QED
    BY <1>2, <2>2, <2>3, <2>4
<1> QED
  BY <1>1, <1>2

ShownType == [text : Texts, calls : CallTexts, sealed : BOOLEAN]
Vetted(c) == c = NoCalls \/ ~ Inspect(Arguments(c))

LEMMA NoCallsType ==
    /\ NoCalls \in CallTexts /\ Nothing \in ShownType
    /\ [i \in 1..Calls |-> Hydrate(NoCalls[i])] = NoCalls
<1>1. <<>> \in Texts
  BY DEF Texts
<1>2. NoCalls \in CallTexts
  BY <1>1 DEF NoCalls, CallTexts
<1>3. Nothing \in ShownType
  BY <1>1, <1>2 DEF Nothing, ShownType
<1>4. \A i \in 1..Calls : Hydrate(NoCalls[i]) = <<>>
  BY HydrateNone DEF NoCalls
<1> QED
  BY <1>2, <1>3, <1>4 DEF NoCalls

LEMMA ShownFields ==
    ASSUME NEW s \in Scanners, NEW c \in CallTexts
    PROVE  /\ Shown(s, c) \in ShownType
           /\ Vetted(Shown(s, c).calls)
           /\ Shown(s, c).calls # NoCalls => ~ s.blocked
<1>1. PICK h : h = [i \in 1..Calls |-> Hydrate(c[i])]
  OBVIOUS
<1>2. h \in CallTexts /\ Hydrate(Arguments(c)) = Arguments(h)
  BY <1>1, ArgumentsHydrated
<1>3. PICK w \in BOOLEAN : w = WithheldCalls(s, c)
  BY DEF WithheldCalls
<1>4. PICK sealed \in BOOLEAN : sealed = (s.blocked \/ w)
  OBVIOUS
<1>5. PICK x : x = IF w THEN NoCalls ELSE h
  OBVIOUS
<1>6. Shown(s, c) = [text |-> s.out, calls |-> x, sealed |-> sealed]
  BY <1>1, <1>3, <1>4, <1>5 DEF Shown
<1>7. x \in CallTexts
  BY <1>2, <1>5, NoCallsType
<1>8. Shown(s, c) \in ShownType
  BY <1>6, <1>7 DEF ShownType, Scanners
<1>9. ASSUME x # NoCalls
      PROVE  ~ Inspect(Arguments(x)) /\ ~ s.blocked
  <2>1. ~ w /\ x = h
    BY <1>5, <1>9
  <2>2. c # NoCalls
    BY <1>1, <1>9, <2>1, NoCallsType
  <2> QED
    BY <1>2, <1>3, <2>1, <2>2 DEF WithheldCalls
<1> QED
  BY <1>6, <1>8, <1>9 DEF Vetted

LEMMA ShownAlike ==
    ASSUME NEW s, NEW t, NEW c, s.out = t.out, s.blocked = t.blocked
    PROVE  Shown(s, c) = Shown(t, c)
  BY DEF Shown, WithheldCalls
-----------------------------------------------------------------------------
(* The inductive invariant.                                                *)
Fragments == [index : 1..Calls, piece : Pieces]
Sayings == [text : Seq(Pieces), calls : Seq(Fragments)]
Entries == [content : Texts, calls : CallTexts]
Over == pc \in {"done", "replayed"}

StreamType ==
    /\ pc \in {"stream", "fallback", "done", "replayed", "failed"}
    /\ fallback \in BOOLEAN /\ started \in BOOLEAN
    /\ answer \in Sayings
    /\ scanner \in Scanners
    /\ masked \in Texts /\ fed \in Texts
    /\ calls \in CallTexts
    /\ shown \in ShownType
    /\ cache \subseteq Entries

(* How the scanner and all it was given belong together.                   *)
Told == IF Over THEN Settles(scanner, fed) ELSE Faithful(scanner, fed)

(* What the client was given in the end, and what the cache keeps.         *)
Given ==
    /\ ~ Over => cache = {} /\ shown = Nothing
    /\ pc = "done" => shown = Shown(scanner, calls)
    /\ Vetted(shown.calls)
    /\ \A entry \in cache : entry.content = masked /\ entry.calls = calls /\ ~ scanner.blocked

StreamInv == StreamType /\ Told /\ Bounded(scanner) /\ Given

LEMMA NewScannerBounded ==
    ASSUME NEW strict \in BOOLEAN
    PROVE  Bounded(NewScanner(strict))
<1>1. PICK s : /\ s = NewScanner(strict)
               /\ s.buf = <<>> /\ s.held = <<>> /\ ~ s.inFence
  <2>1. LET s == NewScanner(strict) IN s.buf = <<>> /\ s.held = <<>> /\ ~ s.inFence
    BY DEF NewScanner
  <2> QED
    BY <2>1, Zenon
<1>2. HeldLength(s) = 0 /\ ~ HasLine(s) /\ Tidy(s)
  <2>1. Len(s.held) = 0 /\ Len(s.buf) = 0 /\ DOMAIN s.buf = {}
    BY <1>1
  <2>2. HeldLength(s) = 0 + 0
    BY <2>1 DEF HeldLength
  <2> QED
    BY <1>1, <2>1, <2>2 DEF HasLine, Tidy
<1>3. HeldLength(s) <= HardLimit /\ HeldLength(s) <= HardLimit + 2 * Spare
  BY <1>2, Bounds
<1> QED
  BY <1>1, <1>2, <1>3 DEF Bounded

LEMMA InitSound ==
    ASSUME Init
    PROVE  StreamInv
<1>1. PICK strict \in BOOLEAN : scanner = NewScanner(strict)
  BY DEF Init
<1>2. scanner \in Scanners /\ Faithful(scanner, <<>>) /\ Bounded(scanner)
  BY <1>1, NewScannerType, NewIsFaithful, NewScannerBounded
<1>3. answer \in Sayings
  BY AnswersAssumption DEF Init, Sayings, Fragments
<1>4. <<>> \in Texts
  BY DEF Texts
<1>5. StreamType
  BY <1>2, <1>3, <1>4, NoCallsType DEF Init, StreamType
<1>6. Vetted(shown.calls)
  BY DEF Init, Nothing, Vetted
<1>7. Given
  BY <1>6 DEF Init, Given, Over
<1>8. Told
  BY <1>2 DEF Init, Told, Over
<1> QED
  BY <1>2, <1>5, <1>7, <1>8 DEF StreamInv

(* A delta that the backend says.                                          *)
LEMMA DeltaFacts ==
    ASSUME NEW said \in Sayings, NEW n \in 1..MaxDelta, n <= Len(said.text)
    PROVE  /\ SubSeq(said.text, 1, n) \in Texts /\ Len(SubSeq(said.text, 1, n)) <= MaxDelta
           /\ [said EXCEPT !.text = SubSeq(@, n + 1, Len(@))] \in Sayings
<1>1. PICK t, len : t = said.text /\ t \in Seq(Pieces) /\ len = Len(t) /\ len \in Nat
  BY DEF Sayings
<1>2. MaxDelta \in Nat
  BY SizeAssumption
<1>3. /\ \A i \in 1..n : t[i] \in Pieces
      /\ \A i \in (n + 1)..len : t[i] \in Pieces
  BY <1>1, <1>2
<1>4. 1 \in Int /\ n \in Int /\ n + 1 \in Int /\ len \in Int /\ (n - 1) + 1 = n /\ 1 <= n
  BY <1>1, <1>2
<1>5. SubSeq(t, 1, n) \in Seq(Pieces) /\ Len(SubSeq(t, 1, n)) = n
  BY <1>3, <1>4, SubSeqProperties
<1>6. SubSeq(t, n + 1, len) \in Seq(Pieces)
  BY <1>3, <1>4, SubSeqProperties
<1>7. [said EXCEPT !.text = SubSeq(t, n + 1, len)] \in Sayings
  BY <1>6 DEF Sayings
<1> QED
  BY <1>1, <1>2, <1>5, <1>7 DEF Texts

LEMMA TextDeltaSound ==
    ASSUME StreamInv, TextDelta
    PROVE  StreamInv'
<1>1. StreamType /\ Told /\ Bounded(scanner) /\ Given
  BY DEF StreamInv
<1>2. PICK n \in 1..MaxDelta :
          /\ n <= Len(answer.text)
          /\ scanner' = Write(scanner, SubSeq(answer.text, 1, n))
          /\ started' = (started \/ Emitted(scanner, scanner'))
          /\ masked' = masked \o SubSeq(answer.text, 1, n)
          /\ fed' = fed \o SubSeq(answer.text, 1, n)
          /\ answer' = [answer EXCEPT !.text = SubSeq(@, n + 1, Len(@))]
  BY DEF TextDelta
<1>3. /\ pc \in {"stream", "fallback"} /\ ~ Over
      /\ pc' = pc /\ fallback' = fallback /\ calls' = calls /\ shown' = shown /\ cache' = cache
  BY DEF TextDelta, Over
<1>4. PICK delta : /\ delta = SubSeq(answer.text, 1, n) /\ delta \in Texts
                   /\ Len(delta) <= MaxDelta /\ answer' \in Sayings
  BY <1>1, <1>2, DeltaFacts DEF StreamType
<1>5. scanner \in Scanners /\ masked \in Texts /\ fed \in Texts /\ Faithful(scanner, fed)
  BY <1>1, <1>3 DEF StreamType, Told
<1>6. PICK s : /\ s = scanner' /\ s \in Scanners /\ Bounded(s)
               /\ Faithful(s, Glue(fed, delta))
  BY <1>1, <1>2, <1>4, <1>5, WriteKeeps, WriteBounded DEF Later
<1>7. fed' = Glue(fed, delta) /\ fed' \in Texts /\ masked' \in Texts
  <2>1. fed' = Glue(fed, delta) /\ masked' = Glue(masked, delta)
    BY <1>2, <1>4 DEF Glue
  <2> QED
    BY <1>4, <1>5, <2>1, TextJoin
<1>8. started' \in BOOLEAN
  BY <1>1, <1>2 DEF StreamType, Emitted
<1>9. StreamType'
  BY <1>1, <1>3, <1>4, <1>6, <1>7, <1>8 DEF StreamType
<1>10. Told'
  BY <1>3, <1>6, <1>7 DEF Told, Over
<1>11. Given'
  BY <1>1, <1>3 DEF Given, Over
<1>12. Bounded(scanner')
  BY <1>6
<1> QED
  BY <1>9, <1>10, <1>11, <1>12 DEF StreamInv, Bounded, Tidy, HeldLength, HasLine

LEMMA CallDeltaSound ==
    ASSUME StreamInv, CallDelta
    PROVE  StreamInv'
<1>1. StreamType /\ Told /\ Bounded(scanner) /\ Given
  BY DEF StreamInv
<1>2. /\ pc \in {"stream", "fallback"} /\ ~ Over
      /\ pc' = pc /\ fallback' = fallback /\ scanner' = scanner /\ started' = started
      /\ masked' = masked /\ shown' = shown /\ cache' = cache /\ fed' = fed
  BY DEF CallDelta, Over
<1>3. PICK said : said = answer.calls /\ said \in Seq(Fragments) /\ said # <<>>
  BY <1>1 DEF StreamType, Sayings, CallDelta
<1>4. PICK i, x : Head(said).index = i /\ Head(said).piece = x /\ i \in 1..Calls /\ x \in Pieces
  <2>1. said \in Seq(Fragments) /\ said # <<>>
    BY <1>3
  <2>2. Head(said) \in Fragments
    BY <2>1
  <2> QED
    BY <2>2 DEF Fragments
<1>5. calls' = [calls EXCEPT ![i] = Append(@, x)]
  BY <1>3, <1>4 DEF CallDelta
<1>6. calls' \in CallTexts
  <2>1. Append(calls[i], x) \in Texts
    BY <1>1, <1>4, AppendedText DEF StreamType, CallTexts
  <2> QED
    BY <1>1, <1>4, <1>5, <2>1 DEF StreamType, CallTexts
<1>7. answer' \in Sayings
  <2>1. answer' = [answer EXCEPT !.calls = Tail(said)] /\ Tail(said) \in Seq(Fragments)
    BY <1>1, <1>3 DEF CallDelta, StreamType, Sayings
  <2> QED
    BY <1>1, <2>1 DEF StreamType, Sayings
<1>8. StreamType'
  BY <1>1, <1>2, <1>6, <1>7 DEF StreamType
<1>9. Told'
  BY <1>1, <1>2 DEF Told, Over
<1>10. Given'
  BY <1>1, <1>2 DEF Given, Over
<1> QED
  BY <1>1, <1>2, <1>8, <1>9, <1>10 DEF StreamInv

LEMMA ConcludeSound ==
    ASSUME StreamInv, ~ Over, NEW whole \in BOOLEAN, Conclude(whole),
           UNCHANGED <<fallback, answer, masked, calls, fed>>
    PROVE  StreamInv'
<1>1. StreamType /\ Told /\ Bounded(scanner) /\ Given
  BY DEF StreamInv
<1>2. scanner \in Scanners /\ Faithful(scanner, fed) /\ fed \in Texts /\ calls \in CallTexts
  BY <1>1 DEF StreamType, Told
<1>3. PICK s : /\ s = scanner' /\ s \in Scanners /\ Bounded(s) /\ Settles(s, fed)
  BY <1>1, <1>2, CloseFields, CloseSettles DEF Conclude, Later
<1>4. shown' = Shown(s, calls) /\ pc' = "done" /\ started' = TRUE
  BY <1>3 DEF Conclude
<1>5. shown' \in ShownType /\ Vetted(shown'.calls)
  BY <1>2, <1>3, <1>4, ShownFields
<1>6. /\ cache' \subseteq Entries
      /\ \A entry \in cache' : entry.content = masked /\ entry.calls = calls /\ ~ s.blocked
  <2>1. \/ cache' = {}
        \/ cache' = {[content |-> masked, calls |-> calls]} /\ ~ s.blocked
    BY <1>3 DEF Conclude
  <2> QED
    BY <1>1, <1>2, <2>1 DEF StreamType, Entries
<1>7. StreamType'
  BY <1>1, <1>3, <1>4, <1>5, <1>6 DEF StreamType
<1>8. Told'
  BY <1>3, <1>4 DEF Told, Over
<1>9. Given'
  BY <1>3, <1>4, <1>5, <1>6 DEF Given, Over, Vetted, Arguments, NoCalls
<1>10. Bounded(scanner')
  BY <1>3
<1> QED
  BY <1>7, <1>8, <1>9, <1>10 DEF StreamInv, Bounded, Tidy, HeldLength, HasLine

LEMMA FallBackSound ==
    ASSUME StreamInv, FallBack
    PROVE  StreamInv'
<1>1. StreamType /\ Told /\ Bounded(scanner) /\ Given
  BY DEF StreamInv
<1>2. /\ ~ Over /\ pc' = "fallback" /\ answer' \in Standby
      /\ masked' = <<>> /\ calls' = NoCalls
      /\ fallback' = fallback /\ scanner' = scanner /\ started' = started
      /\ shown' = shown /\ cache' = cache /\ fed' = fed
  BY DEF FallBack, Over
<1>3. answer' \in Sayings
  BY <1>2, AnswersAssumption DEF Sayings, Fragments
<1>4. <<>> \in Texts
  BY DEF Texts
<1>5. StreamType'
  BY <1>1, <1>2, <1>3, <1>4, NoCallsType DEF StreamType
<1>6. Told'
  BY <1>1, <1>2 DEF Told, Over
<1>7. Given'
  BY <1>1, <1>2 DEF Given, Over
<1> QED
  BY <1>1, <1>2, <1>5, <1>6, <1>7 DEF StreamInv

LEMMA FailSound ==
    ASSUME StreamInv, Fail
    PROVE  StreamInv'
<1>1. StreamType /\ Told /\ Bounded(scanner) /\ Given
  BY DEF StreamInv
<1>2. /\ ~ Over /\ pc' = "failed"
      /\ UNCHANGED <<fallback, answer, scanner, started, masked, calls, shown, cache, fed>>
  BY DEF Fail, Over
<1>3. StreamType'
  BY <1>1, <1>2 DEF StreamType
<1>4. Told'
  BY <1>1, <1>2 DEF Told, Over
<1>5. Given'
  BY <1>1, <1>2 DEF Given, Over
<1> QED
  BY <1>1, <1>2, <1>3, <1>4, <1>5 DEF StreamInv

LEMMA ReplaySound ==
    ASSUME StreamInv, Replay
    PROVE  StreamInv'
<1>1. StreamType /\ Told /\ Bounded(scanner) /\ Given
  BY DEF StreamInv
<1>2. /\ pc = "done" /\ pc' = "replayed"
      /\ UNCHANGED <<fallback, answer, scanner, started, masked, calls, cache, fed>>
  BY DEF Replay
<1>3. PICK entry \in cache : shown' = Replayed(entry)
  BY DEF Replay
<1>4. entry.content \in Texts /\ entry.calls \in CallTexts /\ scanner.strict \in BOOLEAN
  BY <1>1 DEF StreamType, Entries, Scanners
<1>5. PICK s : /\ s = Close(Write(NewScanner(scanner.strict), entry.content))
               /\ s \in Scanners
  <2>1. Write(NewScanner(scanner.strict), entry.content) \in Scanners
    BY <1>4, NewScannerType, WriteKeeps DEF Later
  <2> QED
    BY <2>1, CloseFields DEF Later
<1>6. shown' = Shown(s, entry.calls)
  BY <1>3, <1>5 DEF Replayed
<1>7. shown' \in ShownType /\ Vetted(shown'.calls)
  BY <1>4, <1>5, <1>6, ShownFields
<1>8. StreamType'
  BY <1>1, <1>2, <1>7 DEF StreamType
<1>9. Told'
  BY <1>1, <1>2 DEF Told, Over
<1>10. Given'
  BY <1>1, <1>2, <1>7 DEF Given, Over, Vetted, Arguments, NoCalls
<1> QED
  BY <1>1, <1>2, <1>8, <1>9, <1>10 DEF StreamInv

LEMMA StutterSound ==
    ASSUME StreamInv, UNCHANGED vars
    PROVE  StreamInv'
<1>1. StreamType'
  BY DEF StreamInv, StreamType, vars
<1>2. Told'
  BY DEF StreamInv, Told, Over, vars
<1>3. Given'
  BY DEF StreamInv, Given, Over, vars
<1>4. Bounded(scanner) /\ scanner' = scanner
  BY DEF StreamInv, vars
<1> QED
  BY <1>1, <1>2, <1>3, <1>4 DEF StreamInv

(* Everything the following theorems need of a step.                       *)
THEOREM StreamSound == Spec => []StreamInv
<1>1. Init => StreamInv
  BY InitSound
<1>2. StreamInv /\ [Next]_vars => StreamInv'
  <2> SUFFICES ASSUME StreamInv, [Next]_vars PROVE StreamInv'
    OBVIOUS
  <2>1. CASE TextDelta
    BY <2>1, TextDeltaSound
  <2>2. CASE CallDelta
    BY <2>2, CallDeltaSound
  <2>3. CASE End
    <3>1. ~ Over /\ Conclude(TRUE) /\ UNCHANGED <<fallback, answer, masked, calls, fed>>
      BY <2>3 DEF End, Over
    <3> QED
      BY <3>1, ConcludeSound
  <2>4. CASE BreakOff
    <3>1. ~ Over /\ Conclude(FALSE) /\ UNCHANGED <<fallback, answer, masked, calls, fed>>
      BY <2>4 DEF BreakOff, Over
    <3> QED
      BY <3>1, ConcludeSound
  <2>5. CASE FallBack
    BY <2>5, FallBackSound
  <2>6. CASE Fail
    BY <2>6, FailSound
  <2>7. CASE Replay
    BY <2>7, ReplaySound
  <2>8. CASE UNCHANGED vars
    BY <2>8, StutterSound
  <2> QED
    BY <2>1, <2>2, <2>3, <2>4, <2>5, <2>6, <2>7, <2>8 DEF Next
<1> QED
  BY <1>1, <1>2, PTL DEF Spec
-----------------------------------------------------------------------------
(* What a stream holds and shows is text the guard can read.               *)
THEOREM TypeCorrect == Spec => []TypeOK
<1>1. StreamInv => TypeOK
  <2> SUFFICES ASSUME StreamInv PROVE TypeOK
    OBVIOUS
  <2>1. StreamType /\ Tidy(scanner)
    BY DEF StreamInv, Bounded
  <2>2. ASSUME NEW s \in Texts PROVE Text(s)
    BY DEF Text, Texts
  <2>3. /\ scanner.buf \in Texts /\ scanner.held \in Texts /\ scanner.head \in Texts
        /\ scanner.out \in Texts /\ answer.text \in Texts /\ masked \in Texts /\ fed \in Texts
        /\ shown.text \in Texts
    BY <2>1 DEF StreamType, Scanners, Sayings, ShownType, Texts
  <2>4. \A s \in {scanner.buf, scanner.held, scanner.head, scanner.out, answer.text,
                  masked, fed, shown.text} : Text(s)
    BY <2>2, <2>3
  <2>5. \A i \in 1..Calls : Text(calls[i]) /\ Text(shown.calls[i])
    <3>1. \A i \in 1..Calls : calls[i] \in Texts /\ shown.calls[i] \in Texts
      BY <2>1 DEF StreamType, ShownType, CallTexts
    <3> QED
      BY <2>2, <3>1
  <2>6. \A flag \in {fallback, started, scanner.inFence, scanner.blocked,
                     scanner.cramped, scanner.recited, shown.sealed} : flag \in BOOLEAN
    BY <2>1 DEF StreamType, Scanners, ShownType
  <2>7. /\ pc \in {"stream", "fallback", "done", "replayed", "failed"}
        /\ scanner.held # <<>> => scanner.inFence
    BY <2>1 DEF StreamType, Tidy
  <2> QED
    BY <2>4, <2>5, <2>6, <2>7 DEF TypeOK
<1> QED
  BY <1>1, StreamSound, PTL

(* Whatever the deltas, what is out at any time passes the guard.          *)
THEOREM ReleasedAlwaysSafe == Spec => []ReleasedIsSafe
<1>1. StreamInv => ReleasedIsSafe
  <2> SUFFICES ASSUME StreamInv, ~ scanner.cramped, ~ scanner.recited
               PROVE  ~ Inspect(scanner.out)
    BY DEF ReleasedIsSafe
  <2>1. scanner \in Scanners /\ fed \in Texts /\ Told
    BY DEF StreamInv, StreamType
  <2>2. CASE Over
    BY <2>1, <2>2, SettledOutcome DEF Told
  <2>3. CASE ~ Over
    BY <2>1, <2>3, FaithfulOutcome DEF Told
  <2> QED
    BY <2>2, <2>3
<1> QED
  BY <1>1, StreamSound, PTL

(* A streamed answer is sealed whenever the blocking path, which sees the  *)
(* whole of it, would have blocked it, and then only, unless a placeholder *)
(* of the answer stands for a program.                                     *)
THEOREM SealedLikeBlocking == Spec => []StreamedLikeBlocking
<1>1. StreamInv => StreamedLikeBlocking
  <2> SUFFICES ASSUME StreamInv, pc = "done", ~ scanner.cramped, ~ scanner.recited
               PROVE  /\ Inspect(Hydrate(fed)) => scanner.blocked
                      /\ scanner.blocked /\ ProgramsShown(fed) => Inspect(Hydrate(fed))
    BY DEF StreamedLikeBlocking
  <2>1. scanner \in Scanners /\ fed \in Texts /\ Settles(scanner, fed)
    BY DEF StreamInv, StreamType, Told, Over
  <2> QED
    BY <2>1, SettledOutcome
<1> QED
  BY <1>1, StreamSound, PTL

(* What is out, with what is held, is the answer; no placeholder is cut.   *)
THEOREM AnswerIsKept == Spec => []NothingLost
<1>1. StreamInv => NothingLost
  <2> SUFFICES ASSUME StreamInv, ~ scanner.cramped, ~ scanner.recited
               PROVE  IF scanner.blocked THEN IsPrefix(scanner.out, Hydrate(fed))
                      ELSE scanner.out \o Hydrate(scanner.held \o scanner.buf) = Hydrate(fed)
    BY DEF NothingLost
  <2>1. scanner \in Scanners /\ fed \in Texts /\ Told
    BY DEF StreamInv, StreamType
  <2>2. CASE Over /\ scanner.blocked
    <3>1. \E sent \in Texts, rest \in Texts :
             fed = sent \o rest /\ CutAt(sent, rest) /\ scanner.out = Hydrate(sent)
      BY <2>1, <2>2, SettledOutcome DEF Told
    <3> QED
      BY <2>2, <3>1, HydratedPrefix
  <2>3. CASE Over /\ ~ scanner.blocked
    <3>1. scanner.out = Hydrate(fed) /\ scanner.held = <<>> /\ scanner.buf = <<>>
      BY <2>1, <2>3, SettledOutcome DEF Told
    <3>2. scanner.held \o scanner.buf = <<>> /\ scanner.out \o <<>> = scanner.out
      BY <2>1, <3>1, ConcatEmptySeq DEF Scanners, Texts
    <3> QED
      BY <2>3, <3>1, <3>2, HydrateNone
  <2>4. CASE ~ Over
    BY <2>1, <2>4, FaithfulOutcome DEF Told
  <2> QED
    BY <2>2, <2>3, <2>4
<1> QED
  BY <1>1, StreamSound, PTL

(* No call is handed over that the guard blocks, or that a sealed text     *)
(* described.                                                              *)
THEOREM CallsAlwaysVetted == Spec => []CallsVetted
<1>1. StreamInv => CallsVetted
  <2> SUFFICES ASSUME StreamInv, shown.calls # NoCalls
               PROVE  /\ ~ Inspect(Arguments(shown.calls))
                      /\ pc = "done" => ~ scanner.blocked
    BY DEF CallsVetted
  <2>1. StreamType /\ Given
    BY DEF StreamInv
  <2>2. ~ Inspect(Arguments(shown.calls))
    BY <2>1 DEF Given, Vetted
  <2>3. ASSUME pc = "done" PROVE ~ scanner.blocked
    <3>1. shown = Shown(scanner, calls)
      BY <2>1, <2>3 DEF Given
    <3> QED
      BY <2>1, <3>1, ShownFields DEF StreamType
  <2> QED
    BY <2>2, <2>3
<1> QED
  BY <1>1, StreamSound, PTL

(* One stream never makes the gateway hold more than HardLimit and what    *)
(* two deltas add to it.                                                   *)
THEOREM HoldAlwaysBounded == Spec => []HoldBounded
<1>1. StreamInv => HoldBounded
  BY DEF StreamInv, Bounded, HoldBounded, Spare
<1> QED
  BY <1>1, StreamSound, PTL

(* An answer that was shown whole, and none of whose placeholders stands   *)
(* for a program, is shown the same when it is replayed in one piece,      *)
(* however its deltas were cut.                                            *)
THEOREM ReplayAlwaysAgrees == Spec => []ReplayAgrees
<1>1. StreamInv => ReplayAgrees
  <2> SUFFICES ASSUME StreamInv, NEW entry \in cache,
                      pc = "done", fed = masked, ~ scanner.cramped, ~ scanner.recited,
                      ~ Recites(entry.content), ~ (Len(entry.content) > MaxBuffer),
                      ProgramsShown(entry.content)
               PROVE  Replayed(entry) = shown
    BY DEF ReplayAgrees
  <2>1. /\ scanner \in Scanners /\ fed \in Texts /\ scanner.strict \in BOOLEAN
        /\ Settles(scanner, fed)
        /\ entry.content = fed /\ entry.calls = calls /\ ~ scanner.blocked
        /\ shown = Shown(scanner, calls)
    BY DEF StreamInv, StreamType, Scanners, Told, Over, Given
  <2>2. ~ Inspect(Hydrate(fed)) /\ scanner.out = Hydrate(fed)
    BY <2>1, SettledOutcome
  <2>3. Len(fed) <= MaxBuffer
    <3>1. Len(fed) \in Nat /\ MaxBuffer \in Nat
      BY <2>1, LimitAssumption DEF Texts
    <3> QED
      BY <2>1, <3>1
  <2>4. PICK s : s = Close(Write(NewScanner(scanner.strict), fed)) /\ s \in Scanners
    <3>1. Write(NewScanner(scanner.strict), fed) \in Scanners
      BY <2>1, NewScannerType, WriteKeeps DEF Later
    <3> QED
      BY <3>1, CloseFields DEF Later
  <2>5. /\ s.blocked <=> Inspect(Hydrate(fed))
        /\ ~ s.blocked => s.out = Hydrate(fed)
    BY <2>1, <2>3, <2>4, ReplayOutcome
  <2>6. s.out = scanner.out /\ s.blocked = scanner.blocked
    BY <2>1, <2>2, <2>4, <2>5 DEF Scanners
  <2>7. Shown(s, calls) = Shown(scanner, calls)
    BY <2>6, ShownAlike
  <2> QED
    BY <2>1, <2>4, <2>7 DEF Replayed
<1> QED
  BY <1>1, StreamSound, PTL
=============================================================================

----------------------------- MODULE Compression -----------------------------
(***************************************************************************)
(* The stages of the compression pipeline (internal/compressor), each a    *)
(* pure function of its text and of the tokens the session's dictionary    *)
(* gave.  They run in the order Masker, Drain, RefDict, ASTPrune.          *)
(***************************************************************************)
EXTENDS Redaction, Dictionary

(* Hydrate: every known token is replaced by its value.                    *)
Hydrate(d, text) ==
    FlattenSeq([i \in DOMAIN text |->
        IF text[i] \in DOMAIN d.reverse THEN d.reverse[text[i]] ELSE <<text[i]>>])
-----------------------------------------------------------------------------
(* Drain.  A template position that varies holds the wildcard.             *)
Wildcard == <<"*", 0>>
Repeated(n) == <<"x", n>>
IsPlaceholder(item) == item[1] \in TokenKinds \cup {"*", "ph"}

Lines(text) ==
    LET stops == Ascending({i \in DOMAIN text : text[i] = LineBreak} \cup {0, Len(text) + 1})
    IN  [k \in 1..(Len(stops) - 1) |-> SubSeq(text, stops[k] + 1, stops[k + 1] - 1)]

(* Lines share a bucket when they have the same number of words and the    *)
(* same first word that is not a placeholder.                              *)
BucketKey(line) ==
    LET literal == SelectSeq(line, LAMBDA item : ~IsPlaceholder(item))
    IN  <<Len(line), IF literal = <<>> THEN Wildcard ELSE literal[1]>>

Similar(template, line) ==
    LET same == {i \in DOMAIN template :
                    \/ template[i] = Wildcard
                    \/ template[i] = line[i]
                    \/ IsPlaceholder(template[i]) /\ IsPlaceholder(line[i])}
    IN  2 * Cardinality(same) >= Len(template)

MergeTemplate(template, line) ==
    [i \in DOMAIN template |-> IF template[i] = line[i] THEN template[i] ELSE Wildcard]

(* A line joins the first similar cluster of its bucket or opens one; a    *)
(* blank line is a cluster nothing joins.                                  *)
Join(clusters, line) ==
    LET key == BucketKey(line)
        fits == {k \in DOMAIN clusters : clusters[k].key = key
                                         /\ Similar(clusters[k].tokens, line)}
    IN  IF line = <<>> \/ fits = {}
        THEN Append(clusters, [key |-> key, tokens |-> line, count |-> 1])
        ELSE [clusters EXCEPT ![Min(fits)].tokens = MergeTemplate(@, line),
                              ![Min(fits)].count  = @ + 1]

Drain(text) ==
    LET lines == Lines(text)
        joined[n \in 0..Len(lines)] ==
            IF n = 0 THEN <<>> ELSE Join(joined[n - 1], lines[n])
        clusters == joined[Len(lines)]
        line(c) == IF c.count > 1 THEN Append(c.tokens, Repeated(c.count)) ELSE c.tokens
    IN  FlattenSeq([k \in DOMAIN clusters |->
            IF k = 1 THEN line(clusters[k]) ELSE <<LineBreak>> \o line(clusters[k])])
-----------------------------------------------------------------------------
(* RefDict: a long dotted identifier, <<"path", x>>, is folded when the    *)
(* text holds it at least twice.                                           *)
MinOccurrences == 2

FoldedAt(text) ==
    {i \in DOMAIN text :
        /\ text[i][1] = "path"
        /\ Cardinality({j \in DOMAIN text : text[j] = text[i]}) >= MinOccurrences}
-----------------------------------------------------------------------------
(* ASTPrune.  In code, <<"kw", x>> is structure, <<"cmt", x>> a comment    *)
(* and <<"bad", x>> a token the parser could not place; a #REF token is    *)
(* no token of the language either.  Every other leaf is a value.          *)
(* What a value gives way to: its type, "<str>" or another.                *)
Typed == <<"ph", 0>>
IsCode(text) == \E i \in DOMAIN text : text[i][1] = "kw"
Structure(item) == item[1] \in {"kw", "bad", "REF"}
Dropped(item) == item[1] = "cmt" \/ item = LineBreak
IsValue(item) == ~Structure(item) /\ ~Dropped(item)
(* The text of a value leaf; the name inside a <V1> token loses its        *)
(* brackets to the language's operators.                                   *)
LeafText(item) == IF item[1] = "V" THEN <<"name", item[2]>> ELSE item

PrunedAt(text) == IF IsCode(text) THEN {i \in DOMAIN text : IsValue(text[i])} ELSE {}

Prune(text) ==
    IF ~IsCode(text) THEN text
    ELSE FlattenSeq([i \in DOMAIN text |->
            CASE Dropped(text[i]) -> <<>>
              [] IsValue(text[i]) -> <<Typed>>
              [] OTHER            -> <<text[i]>>])
=============================================================================

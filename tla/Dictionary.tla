----------------------------- MODULE Dictionary -----------------------------
(***************************************************************************)
(* The substitution dictionary of a compression session                    *)
(* (internal/compressor/dictionary.go, session.go).  A value is a non-     *)
(* empty sequence of items; a token is <<"V", n>> or <<"REF", n>>.         *)
(***************************************************************************)
EXTENDS Naturals, Sequences

Extend(f, x, y) == [z \in DOMAIN f \cup {x} |-> IF z = x THEN y ELSE f[z]]

EmptyDictionary ==
    [forward |-> <<>>, reverse |-> <<>>, class |-> <<>>, nVar |-> 0, nRef |-> 0]

TokenKinds == {"V", "REF"}

NextToken(d, kind) == <<kind, IF kind = "REF" THEN d.nRef + 1 ELSE d.nVar + 1>>

(* A mutant: the value's earlier token is not looked up.                   *)
MaskAnew(d, value, kind, rank) ==
    LET token == NextToken(d, kind)
    IN  [forward |-> Extend(d.forward, value, token),
         reverse |-> Extend(d.reverse, token, value),
         class   |-> Extend(d.class, token, rank),
         nVar    |-> IF kind = "REF" THEN d.nVar ELSE d.nVar + 1,
         nRef    |-> IF kind = "REF" THEN d.nRef + 1 ELSE d.nRef]

(* MaskAs: a value seen before keeps its token and the strongest rank it   *)
(* was ever given; a new value takes the next number of its namespace.     *)
MaskAs(d, value, kind, rank) ==
    IF value \in DOMAIN d.forward
    THEN LET token == d.forward[value]
         IN  IF rank > d.class[token] THEN [d EXCEPT !.class[token] = rank] ELSE d
    ELSE LET token == NextToken(d, kind)
         IN  [forward |-> Extend(d.forward, value, token),
              reverse |-> Extend(d.reverse, token, value),
              class   |-> Extend(d.class, token, rank),
              nVar    |-> IF kind = "REF" THEN d.nVar ELSE d.nVar + 1,
              nRef    |-> IF kind = "REF" THEN d.nRef + 1 ELSE d.nRef]

(* Len                                                                     *)
Size(d) == DOMAIN d.reverse
=============================================================================

--------------------------- MODULE MCConversations ---------------------------
(***************************************************************************)
(* The workloads Conversations is checked on, and the reference            *)
(* definitions its pure parts are compared with.                           *)
(***************************************************************************)
EXTENDS Conversations

W(x) == <<"w", x>>
Rule(name, category, priority, phrases, before, after, validator) ==
    [name |-> name, category |-> category, priority |-> priority, phrases |-> phrases,
     before |-> before, after |-> after, validator |-> validator, disabled |-> FALSE]

Card == <<"num", <<4, 2, 4, 2, 4, 2, 4, 2, 4, 2, 4, 2, 4, 2, 4, 2>>>>
Blank == <<"blank", "changeme">>
Hosts == {W("a.corp"), W("b.corp"), W("c.corp")}

Options == [packs |-> <<Rule("assignment", "secret", 90,
                             {<<W("pass"), x>> : x \in {W("x1"), W("y1"), Blank}},
                             1, 0, "plausible_secret"),
                        Rule("card", "pii", 80, {<<Card>>}, 0, 0, "luhn"),
                        Rule("phrase", "path", 40, {<<W("x1"), W("b.corp")>>}, 0, 0, "")>>,
            extraRules |-> <<>>, disableRules |-> {}, internalDomains |-> Hosts,
            disableEntropy |-> FALSE, keyLike |-> {W("k3y")},
            surnames |-> {W("up"), W("n")}]

Engine == NewEngine(Options)
ASSUME EngineErrors(Options) = {}

Ask(pod, conv, messages) ==
    [pod |-> pod, conv |-> conv, messages |-> messages, plain |-> {}, model |-> "m",
     settings |-> "s", engine |-> Engine, names |-> {{}}, after |-> {}]
(* A turn sent when an earlier one has been answered.                      *)
Then(r, ask) == [ask EXCEPT !.after = {r}]

A == W("a.corp")
B == W("b.corp")
C == W("c.corp")

(* Two turns of one conversation at once: shared and new values, and one   *)
(* shape under two numberings.                                             *)
OneConversation ==
    [timed |-> FALSE,
     asks  |-> <<Ask("p1", "c", <<<<A, W("to"), B>>>>),
                 Ask("p1", "c", <<<<B, W("to"), C>>>>)>>]

(* The same question on two replicas, then on the first again.             *)
TwoReplicas ==
    [timed |-> TRUE,
     asks  |-> <<Ask("p1", "", <<<<A>>>>),
                 Ask("p2", "", <<<<C>>>>),
                 Then(1, Ask("p1", "", <<<<B>>>>))>>]

(* Every stage in one prompt; a recogniser that may fail or answer spans   *)
(* it should not.                                                          *)
EveryStage ==
    [timed |-> FALSE,
     asks  |-> <<[Ask("p1", "c",
          <<<<W("pass"), W("x1"), W("b.corp"), Card, W("k3y"), LineBreak,
              W("up"), A, LineBreak, W("up"), B, LineBreak, LineBreak,
              <<"path", "org.x.Y">>, W("at"), LineBreak, <<"path", "org.x.Y">>>>,
            <<<<"kw", "func">>, W("f"), A, <<"cmt", "c">>, <<"bad", "!">>>>>>)
                     EXCEPT !.names = {Failed, {<<8, 9>>}, {<<0, 3>>, <<7, 9>>, <<8, 99>>}}],
                 [Ask("p1", "c", <<<<W("up"), B>>, <<W("to"), A, LineBreak, W("to"), B>>>>)
                     EXCEPT !.plain = {2}]>>]

(* Conversations coming and going in a store that holds two.               *)
ManyConversations ==
    [timed |-> TRUE,
     asks  |-> <<Ask("p1", "c", <<<<A>>>>),
                 Ask("p1", "d", <<<<B>>>>),
                 Then(1, Ask("p1", "c", <<<<C>>>>))>>]

-----------------------------------------------------------------------------
(* The weighted sums of the validators, written as the definitions they    *)
(* cite give them, on numbers that vary in three places.                   *)
Vary(d, places) == {[i \in DOMAIN d |-> IF i \in places THEN f[i] ELSE d[i]] :
                       f \in [places -> 0..9]}
Weighted(d, weights) == TotalOver(LAMBDA i : d[i] * weights[i], Len(weights))

ASSUME MyNumberIsWeighted ==
    \A d \in Vary(<<1, 2, 3, 4, 5, 6, 7, 8, 9, 0, 1, 2>>, {1, 7, 12}) :
        LET r == Weighted(d, <<6, 5, 4, 3, 2, 7, 6, 5, 4, 3, 2>>) % 11
        IN  ValidMyNumber(d) <=> d[12] = (IF 11 - r \in {10, 11} THEN 0 ELSE 11 - r)

ASSUME CorporateNumberIsWeighted ==
    \A d \in Vary(<<7, 0, 0, 0, 0, 1, 2, 0, 5, 0, 4, 1, 1>>, {1, 6, 13}) :
        ValidCorporateNumber(d) <=>
            (d[1] + Weighted([d EXCEPT ![1] = 0], <<0, 2, 1, 2, 1, 2, 1, 2, 1, 2, 1, 2, 1>>)) % 9 = 0
            /\ d[1] # 0

(* A card number mistyped in one place is not a card number.               *)
ASSUME LuhnCatchesOneDigit ==
    \A i \in 2..16 : \A n \in 0..9 \ {Card[2][i]} :
        ValidLuhn(Card[2], TRUE) /\ ~ValidLuhn([Card[2] EXCEPT ![i] = n], TRUE)

(* What Resolve keeps is apart and in order, and what it drops overlaps    *)
(* something kept that goes before it; what a recogniser adds, whatever    *)
(* spans it answers, never moves or removes a finding of the engine.       *)
SampleText == <<A, B, C, A>>
Span(i, j, rule, category) == Finding(SampleText, i, j, rule, category)
SampleSpans == {f \in {Span(i, j, n, "pii") : i \in 1..4, j \in 2..5, n \in {"card", "phrase"}} :
                    f.start < f.stop}
Apart(found) == \A k \in 1..(Len(found) - 1) : found[k].stop <= found[k + 1].start

ASSUME ResolveKeepsTheFirst ==
    \A f, g, h \in SampleSpans :
        LET cands == {<<1, f>>, <<2, g>>, <<3, h>>}
            kept == Resolve(Engine, cands)
        IN  /\ Apart(kept)
            /\ \A c \in cands : c[2] \in Range(kept) \/
                   \E d \in cands : /\ d[2] \in Range(kept)
                                   /\ Overlaps(c[2], d[2])
                                   /\ Before(Engine, d, c)

ASSUME NamesOnlyAdd ==
    \A names \in (SUBSET {<<0, 2>>, <<1, 3>>, <<2, 4>>, <<3, 4>>, <<3, 3>>, <<4, 9>>}) \cup {{<<3, 5>>}} :
        LET text == <<W("n"), Card, W("m"), W("n")>>
            found == DetectWithNames(Engine, text, names)
        IN  Apart(found) /\ Range(Detect(Engine, text)) \subseteq Range(found)

(* What is only written in the place of a secret is no finding.            *)
ASSUME PlaceholdersAreNoSecrets ==
    /\ Detect(Engine, <<W("pass"), Blank>>) = <<>>
    /\ Len(Detect(Engine, <<W("pass"), W("x1"), W("pass"), Blank>>)) = 1

(* Renumbering and restoring a payload gives it back, and payloads that    *)
(* differ only in their tokens' numbers have one shape.                    *)
SamplePayloads == [1..3 -> {<<"V", 2>>, <<"V", 5>>, <<"REF", 1>>, A}]
ASSUME ShapeIsReversible ==
    \A t \in SamplePayloads :
        /\ Restore(Shape(<<t>>).texts[1], Shape(<<t>>).restore) = t
        /\ Shape(Shape(<<t>>).texts).texts = Shape(<<t>>).texts
-----------------------------------------------------------------------------
MCRequests == 1..3
MCRaw == {A, B, C, Card, LineBreak, <<"path", "org.x.Y">>, <<"kw", "func">>, <<"cmt", "c">>,
          <<"bad", "!">>} \cup {W(x) : x \in {"to", "pass", "x1", "b.corp", "k3y", "up", "at", "f"}}
MCJobs == [one  |-> OneConversation, two |-> TwoReplicas,
           all  |-> EveryStage, many |-> ManyConversations]
=============================================================================

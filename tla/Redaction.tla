------------------------------ MODULE Redaction ------------------------------
(***************************************************************************)
(* The detection engine of internal/redact and the name recogniser         *)
(* ee/redact/slm puts over it.  Pure: an engine and a text give findings.  *)
(*                                                                         *)
(* A text is a sequence of items, <<kind, value>> pairs: a word <<"w", x>>,*)
(* a line break, a number <<"num", digits>>, <<"blank", x>> for what is    *)
(* written where a secret would stand (changeme, ${VAR}, <token>, xxxx),   *)
(* and the tokens the gateway puts in place of a value.  Offsets count     *)
(* items and a span holds the items from start to stop - 1.  A rule's      *)
(* regular expression is the finite set of phrases it matches; its group   *)
(* is what is left of a match when "before" and "after" items of context   *)
(* are dropped.                                                            *)
(***************************************************************************)
EXTENDS Integers, Sequences, SequencesExt, FiniteSets, CheckDigits

LineBreak == <<"nl", 0>>

(* The elements of a set in a strict total order, given by its pairs.      *)
Sorted(S, before) ==
    [k \in 1..Cardinality(S) |->
        CHOOSE x \in S : Cardinality({y \in S : <<y, x>> \in before}) = k - 1]

Ascending(places) == Sorted(places, {p \in places \X places : p[1] < p[2]})

(* Category.Sensitivity: the rank of a classification.                     *)
SensitivityOf(category) ==
    CASE category = "secret"             -> 3
      [] category = "pii"                -> 2
      [] category \in {"network", "path"} -> 1
      [] OTHER                           -> 0

(* The validators a rule can name.                                         *)
Validators == {"luhn", "jp_mynumber", "jp_corporate_no", "not_all_same",
               "plausible_secret"}

Digits(text) ==
    FlattenSeq([i \in DOMAIN text |-> IF text[i][1] = "num" THEN text[i][2] ELSE <<>>])

PlausibleSecret(text) == ~(Len(text) = 1 /\ text[1][1] = "blank")

Accepts(validator, text) ==
    CASE validator = "luhn"             -> ValidLuhn(Digits(text), Len(text) = 1)
      [] validator = "jp_mynumber"      -> ValidMyNumber(Digits(text))
      [] validator = "jp_corporate_no"  -> ValidCorporateNumber(Digits(text))
      [] validator = "not_all_same"     -> NotAllSameDigit(Digits(text))
      [] validator = "plausible_secret" -> PlausibleSecret(text)
      [] OTHER                          -> TRUE
-----------------------------------------------------------------------------
(***************************************************************************)
(* Building an engine.                                                     *)
(***************************************************************************)
InternalDomainRule(domains) ==
    IF domains = {} THEN <<>>
    ELSE <<[name |-> "internal_hostname", category |-> "network", priority |-> 75,
            phrases |-> {<<host>> : host \in domains}, before |-> 0, after |-> 0,
            validator |-> "", disabled |-> FALSE]>>

(* The packs' rules, the site's domains, then the site's own rules.        *)
ActiveRules(opts) ==
    LET enabled(rules) == SelectSeq(rules, LAMBDA r :
                              ~r.disabled /\ r.name \notin opts.disableRules)
    IN  enabled(opts.packs) \o InternalDomainRule(opts.internalDomains)
            \o enabled(opts.extraRules)

(* Why NewEngine refuses the options.                                      *)
EngineErrors(opts) ==
    LET rules == ActiveRules(opts)
    IN  {"duplicate rule"    : i \in {i \in DOMAIN rules : \E j \in 1..(i - 1) :
                                         rules[j].name = rules[i].name}}
        \cup {"unknown validator" : i \in {i \in DOMAIN rules :
                                         rules[i].validator \notin Validators \cup {""}}}

(* "entropy" is the set of items that look like key material, empty when   *)
(* the detector is off.                                                    *)
NewEngine(opts) ==
    [rules   |-> ActiveRules(opts),
     entropy |-> IF opts.disableEntropy THEN {} ELSE opts.keyLike,
     surnames |-> opts.surnames]

(* What the types of the code say of an engine's rules.                    *)
IsEngine(engine) ==
    /\ Len(engine.rules) \in Nat /\ DOMAIN engine.rules = 1..Len(engine.rules)
    /\ \A i \in DOMAIN engine.rules :
           LET rule == engine.rules[i]
           IN  /\ rule.priority \in Int /\ rule.before \in Nat /\ rule.after \in Nat
               /\ \A p \in rule.phrases : Len(p) \in Nat
-----------------------------------------------------------------------------
(***************************************************************************)
(* Detect: the candidates of every rule over the original text, then one   *)
(* resolution of the overlaps.                                             *)
(***************************************************************************)
MatchLengths(rule, text, i) ==
    {Len(p) : p \in {p \in rule.phrases :
        /\ i + Len(p) - 1 <= Len(text)
        /\ \A k \in DOMAIN p : text[i + k - 1] = p[k]}}

(* Where FindAll finds the rule: leftmost, non-overlapping matches, each   *)
(* the longest.  clear[i] is where the last match begun by i has ended.    *)
Matches(rule, text) ==
    LET lengths(i) == MatchLengths(rule, text, i)
        clear[i \in 0..Len(text)] ==
            IF i = 0 THEN 1
            ELSE LET last == clear[i - 1]
                 IN  IF i < last \/ lengths(i) = {} THEN last ELSE i + Max(lengths(i))
    IN  {<<i, i + Max(lengths(i))>> :
            i \in {i \in DOMAIN text : clear[i - 1] <= i /\ lengths(i) # {}}}

Finding(text, start, stop, rule, category) ==
    [start |-> start, stop |-> stop, text |-> SubSeq(text, start, stop - 1),
     rule |-> rule, category |-> category]

RuleFindings(rule, text) ==
    {f \in {Finding(text, m[1] + rule.before, m[2] - rule.after, rule.name, rule.category) :
                m \in Matches(rule, text)} :
        f.start < f.stop /\ Accepts(rule.validator, f.text)}

EntropyFindings(engine, text) ==
    {Finding(text, i, i + 1, "entropy_secret", "secret") :
        i \in {i \in DOMAIN text : text[i] \in engine.entropy}}

(* A rule's own priority; a finding without a rule ranks by its category.  *)
Priority(engine, f) ==
    IF \E i \in DOMAIN engine.rules : engine.rules[i].name = f.rule
    THEN engine.rules[CHOOSE i \in DOMAIN engine.rules : engine.rules[i].name = f.rule].priority
    ELSE SensitivityOf(f.category) * 20

Overlaps(f, g) == f.start < g.stop /\ g.start < f.stop

(* A candidate is a finding and the place of its rule.  The order the      *)
(* greedy choice follows; equal candidates come in the order of the rules. *)
Before(engine, c, d) ==
    LET f == c[2]
        g == d[2]
        size(x) == x.stop - x.start
    IN  IF Priority(engine, f) # Priority(engine, g)
        THEN Priority(engine, f) > Priority(engine, g)
        ELSE IF size(f) # size(g) THEN size(f) > size(g)
        ELSE IF f.start # g.start THEN f.start < g.start
        ELSE c[1] < d[1]

ByStart(findings) ==
    Sorted(findings, {p \in findings \X findings : p[1].start < p[2].start})

(* The findings of a sequence that overlap none accepted before them.      *)
Greedy(order) ==
    LET kept[n \in 0..Len(order)] ==
            IF n = 0 THEN {}
            ELSE LET sofar == kept[n - 1]
                 IN  IF \E f \in sofar : Overlaps(order[n], f) THEN sofar
                     ELSE sofar \cup {order[n]}
    IN  kept[Len(order)]

Resolve(engine, cands) ==
    LET order == Sorted(cands, {p \in cands \X cands : Before(engine, p[1], p[2])})
    IN  ByStart(Greedy([k \in DOMAIN order |-> order[k][2]]))

Candidates(engine, text) ==
    (UNION {{<<i, f>> : f \in RuleFindings(engine.rules[i], text)} : i \in DOMAIN engine.rules})
        \cup {<<Len(engine.rules) + 1, f>> : f \in EntropyFindings(engine, text)}

Detect(engine, text) == Resolve(engine, Candidates(engine, text))
-----------------------------------------------------------------------------
(***************************************************************************)
(* The recogniser's layer (ee/redact/slm).  "names" is what the model      *)
(* answers for the candidates: a set of <<start, stop>> pairs, or Failed.  *)
(* It is asked only about a text with a surname the engine left alone.     *)
(***************************************************************************)
CONSTANTS Failed,         \* the recogniser failed or ran out of time
          MaxCandidates   \* how many spans are sent for adjudication

(* The gazetteer's candidates that touch no finding of the engine.         *)
NameCandidates(gazetteer, base, text) ==
    LET free(i) == /\ text[i] \in gazetteer
                   /\ \A k \in DOMAIN base : ~(i < base[k].stop /\ base[k].start < i + 1)
        all == SelectSeq([i \in DOMAIN text |-> i], free)
    IN  SubSeq(all, 1, IF Len(all) > MaxCandidates THEN MaxCandidates ELSE Len(all))

(* The findings a recogniser's answer adds: spans it may not return, and   *)
(* spans the engine has claimed, are dropped.                              *)
NameFindings(base, text, names) ==
    IF names = Failed THEN {}
    ELSE LET spans == {s \in (1..Len(text)) \X (2..(Len(text) + 1)) :
                          s \in names /\ s[1] < s[2]}
         IN  {f \in {Finding(text, s[1], s[2], "jp_name_slm", "pii") : s \in spans} :
                 \A k \in DOMAIN base : ~Overlaps(f, base[k])}

(* merge: by start, the longer first, each kept if it begins at or after   *)
(* the end of the one kept before it: as they come by start, if it         *)
(* overlaps none kept before it.                                           *)
Merge(base, extra) ==
    LET all == Range(base) \cup extra
    IN  ByStart(Greedy(Sorted(all, {p \in all \X all :
            \/ p[1].start < p[2].start
            \/ p[1].start = p[2].start /\ p[1].stop > p[2].stop})))

(* What the composed detector finds; the engine's own findings when the    *)
(* recogniser adds nothing.                                                *)
DetectWithNames(engine, text, names) ==
    LET base == Detect(engine, text)
    IN  IF NameCandidates(engine.surnames, base, text) = <<>> THEN base
        ELSE Merge(base, NameFindings(base, text, names))
-----------------------------------------------------------------------------
(* A mutant: the copy resumes one item late.                               *)
RewriteLate(text, found, replacement) ==
    LET covered(i) == \E k \in DOMAIN found : found[k].start <= i /\ i <= found[k].stop
        at(i) == IF \E k \in DOMAIN found : found[k].start = i
                 THEN <<replacement[CHOOSE k \in DOMAIN found : found[k].start = i]>>
                 ELSE IF covered(i) THEN <<>> ELSE <<text[i]>>
    IN  FlattenSeq([i \in DOMAIN text |-> at(i)])

(* Redact: one pass over the original text, each finding replaced whole.   *)
Rewrite(text, found, replacement) ==
    LET covered(i) == \E k \in DOMAIN found : found[k].start <= i /\ i < found[k].stop
        at(i) == IF \E k \in DOMAIN found : found[k].start = i
                 THEN <<replacement[CHOOSE k \in DOMAIN found : found[k].start = i]>>
                 ELSE IF covered(i) THEN <<>> ELSE <<text[i]>>
    IN  FlattenSeq([i \in DOMAIN text |-> at(i)])
=============================================================================

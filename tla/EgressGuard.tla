----------------------------- MODULE EgressGuard -----------------------------
(***************************************************************************)
(* What the egress guard sees in an answer (internal/sandbox/scope.go and  *)
(* sandbox.go), hydration (internal/compressor/dictionary.go), and what    *)
(* the stream scanner's commit rule sees in half a line (stream.go).       *)
(*                                                                         *)
(* A text is a sequence of the smallest pieces these tell apart:           *)
(*   "word"   the end of a word of prose, with its blank                   *)
(*   "part"   the beginning of a word, no blank yet                        *)
(*   "prog"   the end of a known program's name, with its blank            *)
(*   "root"   an operand a destructive command must not end with, such as  *)
(*            "/": no blank, so what follows may still make it harmless    *)
(*   "disk"   an operand that makes a command destructive, with its blank  *)
(*   "nl", "cont"       an end of line; one with a backslash before it     *)
(*   "host"   what is neither: a value that was masked, with its blank     *)
(*   "fence", "tick"    a fence marker; a backtick                         *)
(*   "bomb1", "bomb2"   the two halves of a fork bomb                      *)
(*   "open", an index   the two halves of a placeholder: "<V" and "1> "    *)
(* The scanner's commit rule reads a placeholder as it is written, and the *)
(* guard as what it stands for, so a masked program shows in the latter    *)
(* only.                                                                   *)
(***************************************************************************)
EXTENDS Naturals, FiniteSets, FiniteSetsExt, Sequences, SequencesExt

CONSTANT Dictionary   \* index of a placeholder -> the piece it stands for

Ends == {"nl", "cont"}
Blank == {"word", "prog", "disk", "host", "bomb1", "bomb2"}
Plain == Blank \cup Ends \cup {"part", "root", "fence", "tick", "open"}
Pieces == Plain \cup DOMAIN Dictionary

(* What may be masked: a value, an operand ("/dev/sda"), or the path of a  *)
(* program ("/bin/rm", which the rule unix_path takes for any path).       *)
ASSUME DictionaryAssumption ==
    /\ \A index \in DOMAIN Dictionary :
          Dictionary[index] \in {"disk", "host", "prog"}
    /\ Plain \cap DOMAIN Dictionary = {}

Resolves(open, index) == open = "open" /\ index \in DOMAIN Dictionary

(* Dictionary.HydrateReport: the text with its placeholders resolved, and  *)
(* which of them it held.                                                  *)
Resolved(text, i) ==
    IF i > 1 /\ Resolves(text[i - 1], text[i]) THEN <<Dictionary[text[i]]>>
    ELSE IF i < Len(text) /\ Resolves(text[i], text[i + 1]) THEN <<>>
    ELSE <<text[i]>>

Hydrate(text) == FlattenSeq([i \in DOMAIN text |-> Resolved(text, i)])

Distinct(text) ==
    {text[i] : i \in {j \in 2..Len(text) : Resolves(text[j - 1], text[j])}}

(* The pieces of a text between the separators, which are left out.        *)
Split(text, seps) ==
    LET Cut(parts, piece) ==
            IF piece \in seps THEN Append(parts, <<>>)
            ELSE Append(Front(parts), Append(Last(parts), piece))
    IN FoldLeft(Cut, <<<<>>>>, text)

Without(text, pieces) == SelectSeq(text, LAMBDA p : p \notin pieces)
-----------------------------------------------------------------------------
(* Command.Name: the first token names a known program.  A token runs to   *)
(* the first blank; "/mkfs " and "mk" "fs " both name one.                 *)
NamesProgram(line) ==
    \E i \in DOMAIN line :
        /\ line[i] = "prog"
        /\ \A j \in 1..(i - 1) : line[j] \in {"part", "root"}

(* A destructive command: its operand is a token of its own.               *)
Destructive(command) ==
    /\ NamesProgram(command)
    /\ \E i \in 2..Len(command) :
          /\ command[i - 1] \in Blank
          /\ command[i] = "disk" \/ (command[i] = "root" /\ i = Len(command))

ForkBomb(text) ==
    \E i \in 2..Len(text) : text[i - 1] = "bomb1" /\ text[i] = "bomb2"

(* looksLikeSentence                                                       *)
Sentence(line) == Len(SelectSeq(line, LAMBDA p : p = "word")) >= 2

(* commandLine: an unfenced line is run if it starts with a program's name *)
(* and does not read as a sentence.                                        *)
RunnableLine(line) == ForkBomb(line) \/ (Destructive(line) /\ ~Sentence(line))

(* The body of a fence is one segment: a continued line belongs to its     *)
(* command, and a fork bomb may span lines.                                *)
DangerousCode(body) ==
    \/ ForkBomb(Without(body, {"nl"}))
    \/ \E command \in ToSet(Split(Without(body, {"cont"}), {"nl"})) :
          Destructive(command)

Ticks(line) == {i \in DOMAIN line : line[i] \in {"tick", "fence"}}

(* inlineCode: every other stretch between backticks, if it was closed.    *)
Closed(line) ==
    {span \in Ticks(line) \X Ticks(line) :
        /\ span[1] < span[2]
        /\ \A i \in Ticks(line) : i <= span[1] \/ i >= span[2]
        /\ Cardinality({i \in Ticks(line) : i <= span[1]}) % 2 = 1}

InlineSpans(line) == {SubSeq(line, span[1] + 1, span[2] - 1) : span \in Closed(line)}

DangerousLine(line) ==
    \/ RunnableLine(line)
    \/ \E span \in InlineSpans(line) : DangerousCode(span)

OpensFence(line) == line # <<>> /\ line[1] = "fence"
ClosesFence(line) == ToSet(line) \ {"nl"} = {"fence"}

(* extractExecutable between two pieces of a text: whether in a fence and  *)
(* with what in it, the line so far, and whether a blocking rule fired.    *)
Unread == [fenced |-> FALSE, body |-> <<>>, line |-> <<>>, fires |-> FALSE]

(* A line is over, with its end or without.                                *)
ReadLine(g, end) ==
    LET line   == g.line \o end
        stays  == g.fenced /\ ~ClosesFence(line)
        leaves == g.fenced /\ ClosesFence(line)
        enters == ~g.fenced /\ OpensFence(line)
    IN [fenced |-> stays \/ enters,
        body   |-> IF stays THEN g.body \o line ELSE <<>>,
        line   |-> <<>>,
        fires  |-> \/ g.fires
                   \/ leaves /\ DangerousCode(g.body)
                   \/ ~g.fenced /\ ~enters /\ DangerousLine(g.line)]

Read(g, piece) ==
    IF piece \in Ends THEN ReadLine(g, <<piece>>)
    ELSE [g EXCEPT !.line = Append(@, piece)]

Reading(g, text) ==
    LET read[n \in 0..Len(text)] ==
            IF n = 0 THEN g ELSE Read(read[n - 1], text[n])
    IN read[Len(text)]

(* RuleGuard.Inspect over extractExecutable: does a blocking rule fire?    *)
Fires(g) == g.fires \/ (g.fenced /\ DangerousCode(g.body))
Inspect(text) == Fires(ReadLine(Reading(Unread, text), <<>>))
-----------------------------------------------------------------------------
(* commitIndex: how much of an unfinished line no continuation can make    *)
(* part of anything executable.                                            *)
UnmatchedTick(line) ==
    IF Cardinality(Ticks(line)) % 2 = 1 THEN Max(Ticks(line)) - 1 ELSE Len(line)

ForkBombTail(line) ==
    Max({0} \cup {i \in DOMAIN line : line[i] \notin {"bomb1", "bomb2"}})

NoPlaceholder(line) == Len(line)

OpenPlaceholder(line) ==
    LET opened == {i \in DOMAIN line : line[i] = "open"}
    IN IF opened = {} THEN Len(line)
       ELSE IF \E j \in (Max(opened) + 1)..Len(line) : line[j] \in DOMAIN Dictionary
            THEN Len(line) ELSE Max(opened) - 1

(* The first token has its blank, and neither it nor the line's beginning  *)
(* may yet be code.                                                        *)
Prose(line) ==
    /\ line[1] \notin {"tick", "fence"}
    /\ ToSet(line) \cap (Blank \cup DOMAIN Dictionary) # {}
    /\ ~NamesProgram(line)

CommitIndex(line) ==
    IF line = <<>> \/ ~Prose(line) THEN 0
    ELSE Min({UnmatchedTick(line), ForkBombTail(line), OpenPlaceholder(line)})
=============================================================================

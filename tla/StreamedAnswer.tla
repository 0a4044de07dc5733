--------------------------- MODULE StreamedAnswer ---------------------------
(***************************************************************************)
(* internal/gateway/stream.go: one streamed answer.  The backend's deltas  *)
(* go through the scanner to the client and are kept for the cache; before *)
(* the first byte a failure may fall back to the cloud; tool calls are     *)
(* gathered and vetted when the text is over; and the answer that was kept *)
(* may be replayed to the same question.                                   *)
(***************************************************************************)
EXTENDS StreamScanner

CONSTANTS
    Calls,      \* tool calls there may be in one answer, by index 1..Calls
    Answers,    \* what the planned backend may say: text and arguments
    Standby,    \* what the cloud may say in its place
    MaxDelta    \* pieces of text in one delta

ASSUME SizeAssumption == MaxDelta \in Nat \ {0} /\ Calls \in Nat

ASSUME AnswersAssumption ==
    Answers \cup Standby
        \subseteq [text : Seq(Pieces), calls : Seq([index : 1..Calls, piece : Pieces])]

VARIABLES
    pc,         \* "stream", "fallback", "done", "replayed", "failed"
    fallback,   \* the planned backend is local and the policy lets the cloud stand in
    answer,     \* what the backend has still to say
    scanner,
    started,    \* sseWriter.started
    masked,     \* the text of the current backend so far
    calls,      \* toolCallAccumulator.args: the arguments of its calls so far
    shown,      \* what the client has been given in the end
    cache,      \* the entry stored, if one was
    fed         \* history: all text the scanner was given

vars == <<pc, fallback, answer, scanner, started, masked, calls, shown, cache, fed>>

NoCalls == [i \in 1..Calls |-> <<>>]
Nothing == [text |-> <<>>, calls |-> NoCalls, sealed |-> FALSE]

Init ==
    /\ pc = "stream"
    /\ fallback \in BOOLEAN
    /\ answer \in Answers
    /\ scanner \in {NewScanner(strict) : strict \in BOOLEAN}
    /\ started = FALSE
    /\ masked = <<>>
    /\ calls = NoCalls
    /\ shown = Nothing
    /\ cache = {}
    /\ fed = <<>>

Emitted(s, t) == s.out # t.out \/ s.blocked # t.blocked

(* feed, for a delta of text.                                              *)
TextDelta ==
    /\ pc \in {"stream", "fallback"}
    /\ \E n \in 1..MaxDelta :
          /\ n <= Len(answer.text)
          /\ LET delta == SubSeq(answer.text, 1, n)
             IN /\ scanner' = Write(scanner, delta)
                /\ started' = (started \/ Emitted(scanner, scanner'))
                /\ masked' = masked \o delta
                /\ fed' = fed \o delta
          /\ answer' = [answer EXCEPT !.text = SubSeq(@, n + 1, Len(@))]
    /\ UNCHANGED <<pc, fallback, calls, shown, cache>>

(* feed, for a fragment of a tool call: it belongs to the call of its      *)
(* index, wherever it comes in the stream.                                 *)
CallDelta ==
    /\ pc \in {"stream", "fallback"}
    /\ answer.calls # <<>>
    /\ LET fragment == Head(answer.calls)
       IN calls' = [calls EXCEPT ![fragment.index] = Append(@, fragment.piece)]
    /\ answer' = [answer EXCEPT !.calls = Tail(@)]
    /\ UNCHANGED <<pc, fallback, scanner, started, masked, shown, cache, fed>>

(* The arguments of all calls as one text, a line each.                    *)
Arguments(c) == FlattenSeq([i \in 1..Calls |-> Append(c[i], "nl")])

WithheldWhenLive(s, c) ==
    /\ c # NoCalls
    /\ Recites(Arguments(c)) \/ Inspect(Hydrate(Arguments(c)))

(* emitToolCalls: not after a sealed text, and whole or not at all.        *)
WithheldCalls(s, c) ==
    /\ c # NoCalls
    /\ \/ s.blocked
       \/ Recites(Arguments(c))
       \/ Inspect(Hydrate(Arguments(c)))

(* What the client of a scanner and of some calls ends up with.            *)
Shown(s, c) ==
    [text   |-> s.out,
     calls  |-> IF WithheldCalls(s, c) THEN NoCalls
                ELSE [i \in 1..Calls |-> Hydrate(c[i])],
     sealed |-> s.blocked \/ WithheldCalls(s, c)]

(* The end of streamResponse, after an answer or one broken off.           *)
Conclude(whole) ==
    /\ scanner' = Close(scanner)
    /\ started' = TRUE
    /\ shown' = Shown(scanner', calls)
    /\ cache' = IF /\ whole
                   /\ ~scanner'.blocked
                   /\ ~WithheldCalls(scanner', calls)
                   /\ masked # <<>> \/ calls # NoCalls
                THEN {[content |-> masked, calls |-> calls]}
                ELSE {}
    /\ pc' = "done"

End ==
    /\ pc \in {"stream", "fallback"}
    /\ answer = [text |-> <<>>, calls |-> <<>>]
    /\ Conclude(TRUE)
    /\ UNCHANGED <<fallback, answer, masked, calls, fed>>

(* The stream breaks after its first byte: what came is concluded.         *)
BreakOff ==
    /\ pc \in {"stream", "fallback"}
    /\ started
    /\ Conclude(FALSE)
    /\ UNCHANGED <<fallback, answer, masked, calls, fed>>

(* It breaks before: the cloud may answer instead.  The scanner stays.     *)
FallBack ==
    /\ pc = "stream"
    /\ ~started
    /\ fallback
    /\ pc' = "fallback"
    /\ answer' \in Standby
    /\ masked' = <<>>
    /\ calls' = NoCalls
    /\ UNCHANGED <<fallback, scanner, started, shown, cache, fed>>

(* Or the request fails: failUpstream.                                     *)
Fail ==
    /\ pc = "fallback" \/ (pc = "stream" /\ ~fallback)
    /\ ~started
    /\ pc' = "failed"
    /\ UNCHANGED <<fallback, answer, scanner, started, masked, calls, shown, cache, fed>>

(* streamCached, for the same question in the same conversation, for which *)
(* Restore undoes what canonicalise did to the entry.                      *)
Replayed(entry) ==
    Shown(Close(Write(NewScanner(scanner.strict), entry.content)), entry.calls)

Replay ==
    /\ pc = "done"
    /\ \E entry \in cache : shown' = Replayed(entry)
    /\ pc' = "replayed"
    /\ UNCHANGED <<fallback, answer, scanner, started, masked, calls, cache, fed>>

Next == TextDelta \/ CallDelta \/ End \/ BreakOff \/ FallBack \/ Fail \/ Replay

Spec == Init /\ [][Next]_vars
-----------------------------------------------------------------------------
Text(s) == \A i \in DOMAIN s : s[i] \in Pieces

TypeOK ==
    /\ pc \in {"stream", "fallback", "done", "replayed", "failed"}
    /\ \A flag \in {fallback, started, scanner.inFence, scanner.blocked,
                    scanner.cramped, scanner.recited, shown.sealed} : flag \in BOOLEAN
    /\ \A s \in {scanner.buf, scanner.held, scanner.head, scanner.out, answer.text,
                 masked, fed, shown.text} : Text(s)
    /\ \A i \in 1..Calls : Text(calls[i]) /\ Text(shown.calls[i])
    /\ scanner.held # <<>> => scanner.inFence

(* However an answer is cut into deltas, what the client has at any time   *)
(* is text the guard lets pass as a whole: a command, a span or a fence    *)
(* never goes out piecemeal.  Not after a piece that recites the           *)
(* dictionary was dropped: its end of line is dropped with it, so a fence  *)
(* the scanner saw begin a line stands in mid-line for the client.         *)
ReleasedIsSafe == ~scanner.cramped /\ ~scanner.recited => ~Inspect(scanner.out)

(* No program is named by a placeholder, such as "<V1>" for "/bin/rm".     *)
ProgramsShown(text) ==
    \A index \in ToSet(text) \cap DOMAIN Dictionary : Dictionary[index] # "prog"

(* Whatever the blocking path, which inspects the whole answer, would have *)
(* blocked is sealed when it is streamed; and it is sealed for no other    *)
(* reason, unless a program is named by a placeholder only: then the       *)
(* commit rule takes a command for prose, and half of it may be judged.    *)
StreamedLikeBlocking ==
    pc = "done" /\ ~scanner.cramped /\ ~scanner.recited =>
        /\ Inspect(Hydrate(fed)) => scanner.blocked
        /\ scanner.blocked /\ ProgramsShown(fed) => Inspect(Hydrate(fed))

(* "a streamed answer gets exactly the same treatment as a blocking one"   *)
(* (stream.go): sealed if and only if the blocking path would block it.    *)
BothPathsAgree ==
    pc = "done" /\ ~scanner.cramped /\ ~scanner.recited =>
        (scanner.blocked <=> Inspect(Hydrate(fed)))

(* No piece of the answer is lost, doubled or moved on its way through the *)
(* three buffers, and no placeholder is cut in two: what is released, with *)
(* what is held, is the answer.                                            *)
NothingLost ==
    ~scanner.cramped /\ ~scanner.recited =>
        IF scanner.blocked THEN IsPrefix(scanner.out, Hydrate(fed))
        ELSE scanner.out \o Hydrate(scanner.held \o scanner.buf) = Hydrate(fed)

(* The calls a sealed text described are never handed over, nor are calls  *)
(* the guard blocks, whether live or replayed from the cache.              *)
CallsVetted ==
    shown.calls # NoCalls =>
        /\ ~Inspect(Arguments(shown.calls))
        /\ pc = "done" => ~scanner.blocked

(* What one stream makes the gateway hold is bounded: by HardLimit, and    *)
(* two deltas, since a write that commits part of a line does not measure  *)
(* what it keeps, and two writes can commit one after the other and keep   *)
(* the same tail: the first up to a placeholder that is not yet whole, the *)
(* second up to a backtick behind it.                                      *)
HoldBounded == HeldLength(scanner) <= HardLimit + 2 * (MaxDelta - 1)

(* An answer from one backend that was shown whole is shown the same when  *)
(* it is replayed in one piece, however its deltas were cut.  It must fit  *)
(* the buffer: a replay is a single Write, so a fence in a longer answer   *)
(* is forced open by what follows it.  And it must name no program by a    *)
(* placeholder, which one cut may show half of to the guard and another    *)
(* not.                                                                    *)
ReplayAgrees ==
    \A entry \in cache :
        pc = "done" /\ fed = masked /\ ~scanner.cramped /\ ~scanner.recited =>
            \/ Recites(entry.content)
            \/ Len(entry.content) > MaxBuffer
            \/ ~ProgramsShown(entry.content)
            \/ Replayed(entry) = shown

(* "the client sees no difference between a hit and a miss" (stream.go)    *)
HitLikeMiss ==
    [][pc = "done" /\ pc' = "replayed" => shown' = shown]_vars
=============================================================================

---------------------------- MODULE StreamScanner ----------------------------
(***************************************************************************)
(* internal/sandbox/stream.go: the incremental guard of a streamed answer, *)
(* as operators on the record of a scanner.  Text is held until releasing  *)
(* it can no longer change the guard's verdict; a verdict that blocks      *)
(* seals the stream.                                                       *)
(***************************************************************************)
EXTENDS EgressGuard

CONSTANTS
    MaxBuffer,          \* text that may be held for an open fence, in pieces
    HardLimit,          \* text that may be held at all
    EnumerationLimit    \* references to the dictionary that are too many

(* Options.withDefaults: the gateway sets MaxBuffer only, so the other is  *)
(* four times as much.                                                     *)
ASSUME LimitAssumption ==
    /\ MaxBuffer \in Nat \ {0} /\ HardLimit \in Nat /\ MaxBuffer <= HardLimit
    /\ EnumerationLimit \in Nat

(* A scanner, and what its callbacks have told the client so far.          *)
NewScanner(strict) ==
    [strict  |-> strict,    \* Options.Mode is ModeStrict
     buf     |-> <<>>,      \* since the last end of line
     held    |-> <<>>,      \* an open fence, so far
     head    |-> <<>>,      \* of this line, already released
     inFence |-> FALSE,
     blocked |-> FALSE,
     out     |-> <<>>,      \* released to the client
     cramped |-> FALSE,     \* history: a size bound changed what is released
     recited |-> FALSE]     \* event.EnumerationStop

(* newScanner's transform: a text that recites the dictionary is withheld. *)
Recites(text) == Cardinality(Distinct(text)) > EnumerationLimit
Transform(text) == IF Recites(text) THEN <<>> ELSE Hydrate(text)

ReleaseRemainder(s, text) ==
    LET out == Transform(text)
    IN IF Inspect(out) THEN [s EXCEPT !.blocked = TRUE]
       ELSE [s EXCEPT !.out = @ \o out, !.head = @ \o out]

(* StreamScanner.release: the whole line so far is inspected, and only     *)
(* what is new is emitted.                                                 *)
Release(s, text) ==
    LET out == Transform(text)
        told == [s EXCEPT !.recited = @ \/ Recites(text)]
    IN IF Inspect(s.head \o out) THEN [told EXCEPT !.blocked = TRUE]
       ELSE [told EXCEPT !.out = @ \o out, !.head = @ \o out]

(* StreamScanner.process                                                   *)
Process(s, text) == [Release(s, text) EXCEPT !.head = <<>>]

HeldLength(s) == Len(s.held) + Len(s.buf)

Seal(s) ==
    [s EXCEPT !.blocked = TRUE, !.held = <<>>, !.buf = <<>>, !.cramped = TRUE]

EnforceNothing(s) == s

(* StreamScanner.enforceHardLimit                                          *)
EnforceHardLimit(s) == IF HeldLength(s) <= HardLimit THEN s ELSE Seal(s)

(* The forced release of an open fence, which stays open.                  *)
ReleaseOpenFence(s) ==
    LET freed == Process([s EXCEPT !.held = <<>>, !.cramped = TRUE], s.held)
    IN IF freed.blocked \/ ~freed.inFence THEN freed
       ELSE [freed EXCEPT !.held = <<"fence", "nl">>]

(* StreamScanner.enforceMaxBuffer                                          *)
EnforceMaxBuffer(s) ==
    LET t == IF Len(s.head) > MaxBuffer
             THEN [s EXCEPT !.head = <<>>, !.cramped = TRUE] ELSE s
        bounded == EnforceHardLimit(t)
    IN IF HeldLength(t) <= MaxBuffer THEN t
       ELSE IF bounded.blocked \/ bounded.held = <<>> THEN bounded
       ELSE ReleaseOpenFence(bounded)

FlushFenceKeeping(s) == Process([s EXCEPT !.inFence = FALSE], s.held)

(* StreamScanner.flushFence                                                *)
FlushFence(s) ==
    Process([s EXCEPT !.inFence = FALSE, !.held = <<>>], s.held)

NoFences(s, line) == FALSE

(* A marker opens a fence only where the line really begins.               *)
MayOpenFence(s, line) == OpensFence(line) /\ s.head = <<>>

HasLine(s) == \E i \in DOMAIN s.buf : s.buf[i] \in Ends
LineEnd(text) == Min({i \in DOMAIN text : text[i] \in Ends})

(* StreamScanner.feedLine, for the first line in the buffer.               *)
FeedLine(s) ==
    LET line   == SubSeq(s.buf, 1, LineEnd(s.buf))
        rest   == [s EXCEPT !.buf = SubSeq(@, LineEnd(@) + 1, Len(@))]
        fenced == [rest EXCEPT !.held = @ \o line]
    IN IF s.inFence
       THEN IF ClosesFence(line) THEN FlushFence(fenced)
            ELSE EnforceMaxBuffer(fenced)
       ELSE IF MayOpenFence(s, line) THEN [fenced EXCEPT !.inFence = TRUE]
       ELSE Process(rest, line)

(* StreamScanner.commitTail                                                *)
CommitTail(s) ==
    LET n == CommitIndex(s.buf)
    IN IF s.inFence \/ n = 0 THEN EnforceMaxBuffer(s)
       ELSE Release([s EXCEPT !.buf = SubSeq(@, n + 1, Len(@))],
                    SubSeq(s.buf, 1, n))

(* Nothing follows a line that sealed the stream.                          *)
AfterLines(s) == IF s.blocked THEN s ELSE CommitTail(s)

Feed(s) == IF s.blocked \/ ~HasLine(s) THEN s ELSE FeedLine(s)

(* Every complete line, of which there are no more than pieces.            *)
FeedLines(s) ==
    LET run[n \in 0..Len(s.buf)] == IF n = 0 THEN s ELSE Feed(run[n - 1])
    IN run[Len(s.buf)]

(* StreamScanner.Write: the complete lines, then what the tail allows.     *)
Write(s, delta) ==
    LET grown == [s EXCEPT !.buf = @ \o delta]
    IN IF s.blocked THEN s
       ELSE IF s.strict THEN EnforceHardLimit(grown)
       ELSE AfterLines(FeedLines(grown))

CloseFenceOnly(s) ==
    IF s.blocked \/ s.held = <<>> THEN s
    ELSE Process([s EXCEPT !.held = <<>>, !.buf = <<>>, !.inFence = FALSE], s.held)

(* StreamScanner.Close: an unfinished fence is code.                       *)
Close(s) ==
    LET rest == s.held \o s.buf
    IN IF s.blocked \/ rest = <<>> THEN s
       ELSE Process([s EXCEPT !.held = <<>>, !.buf = <<>>, !.inFence = FALSE],
                    rest)
=============================================================================

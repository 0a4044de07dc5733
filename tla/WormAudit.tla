------------------------------ MODULE WormAudit ------------------------------
(***************************************************************************)
(* ee/audit/worm: request handlers queue audit events without waiting; one *)
(* writer takes them off the queue and appends hash-chained records to     *)
(* segment files, with a gap record for what a full queue dropped and a    *)
(* checkpoint every few events; New resumes the chain it finds on disk.    *)
(*                                                                         *)
(* A hash is injective: it is modelled by the very fields it covers.  A    *)
(* segment is a sequence of lines.  A write cut short leaves a line with   *)
(* no end, and the next write into that file completes it: neither is a    *)
(* record any more.  After a write error bufio keeps failing, so the sink  *)
(* writes nothing more until it is opened again.                           *)
(***************************************************************************)
EXTENDS Naturals, Sequences, SequencesExt

CONSTANTS
    QueueSize,
    CheckpointEvery,
    SegmentMax,     \* lines a segment takes before the chain rotates
    MaxEvents,      \* bound: events the handlers log
    MaxCrashes      \* bound: crashes and closes

ASSUME SizeAssumption ==
    /\ QueueSize \in Nat \ {0}
    /\ CheckpointEvery \in Nat \ {0}
    /\ SegmentMax \in Nat \ {0}
    /\ MaxEvents \in Nat /\ MaxCrashes \in Nat

VARIABLES
    status,         \* up, closing, or down
    queue,          \* Sink.queue: events accepted and not taken
    sending,        \* handlers that found the sink enabled and not yet sent
    counting,       \* handlers that met a full queue and have not counted it
    dropped,        \* Sink.dropped
    todo,           \* the writer: what it still has to append for one event
    sinceCP,        \* events since the last checkpoint
    seq, head,      \* the chain's position
    broken,         \* the buffered writer holds an error
    segs,           \* the segment files, oldest first
    logged,         \* history: events handed to Log while it is enabled
    written,        \* history: every whole record written, in order
    lost,           \* history: events a crash, an error or a close took
    spoiled,        \* history: a write was cut short, or New lost the chain
    crashes

vars == <<status, queue, sending, counting, dropped, todo, sinceCP, seq, head,
          broken, segs, logged, written, lost, spoiled, crashes>>

Event(n) == [kind |-> "event", what |-> n]
Gap(n) == [kind |-> "gap", what |-> n]
Checkpoint == [kind |-> "checkpoint", what |-> 0]

Genesis == <<>>
Cut == [kind |-> "cut"]
Garbage == [kind |-> "garbage"]
IsRecord(line) == line.kind \notin {"cut", "garbage"}

(* hashOf: every field but the hash itself.                                *)
HashOf(rec) == <<rec.seq, rec.kind, rec.what, rec.prev>>

Stamp(r, n, prev) ==
    [seq |-> n, kind |-> r.kind, what |-> r.what, prev |-> prev]

Active == Last(segs)
EndsCut == Active # <<>> /\ Last(Active) = Cut
SetActive(lines) == [segs EXCEPT ![Len(segs)] = lines]

Init ==
    /\ status = "up"
    /\ queue = <<>> /\ sending = 0 /\ counting = 0 /\ dropped = 0
    /\ todo = <<>> /\ sinceCP = 0
    /\ seq = 0 /\ head = Genesis /\ broken = FALSE
    /\ segs = << <<>> >>
    /\ logged = 0 /\ written = <<>> /\ lost = 0 /\ spoiled = FALSE /\ crashes = 0

(* Definitions that precede the one they resemble, and that no action uses,*)
(* are the faults the mutation checks put in its place.                    *)
RoomForOneMore == Len(queue) <= QueueSize

HasRoom == Len(queue) < QueueSize

(* Sink.Log asks whether the sink is enabled ...                           *)
Log ==
    /\ status = "up"
    /\ logged < MaxEvents
    /\ logged' = logged + 1
    /\ sending' = sending + 1
    /\ UNCHANGED <<status, queue, counting, dropped, todo, sinceCP, seq, head,
                   broken, segs, written, lost, spoiled, crashes>>

(* ... and then sends without waiting: an event that finds the queue full  *)
(* is dropped ...                                                          *)
Send ==
    /\ status = "up"
    /\ sending > 0
    /\ sending' = sending - 1
    /\ \/ /\ HasRoom
          /\ queue' = Append(queue, Event(logged - sending + 1))
          /\ UNCHANGED counting
       \/ ~HasRoom /\ counting' = counting + 1 /\ UNCHANGED queue
    /\ UNCHANGED <<status, dropped, todo, sinceCP, seq, head, broken, segs,
                   logged, written, lost, spoiled, crashes>>

(* ... and one that a Close has overtaken panics on the closed channel,    *)
(* full or not; the server recovers the handler, and the event is gone.    *)
Panic ==
    /\ status = "closing"
    /\ sending > 0
    /\ sending' = sending - 1
    /\ lost' = lost + 1
    /\ UNCHANGED <<status, queue, counting, dropped, todo, sinceCP, seq, head,
                   broken, segs, logged, written, spoiled, crashes>>

(* A drop is counted in a step of its own.                                 *)
Drop ==
    /\ counting > 0
    /\ counting' = counting - 1
    /\ dropped' = dropped + 1
    /\ UNCHANGED <<status, queue, sending, todo, sinceCP, seq, head, broken,
                   segs, logged, written, lost, spoiled, crashes>>

DroppedKept == UNCHANGED dropped

DroppedSwapped == dropped' = 0

(* Sink.run takes one event: first the gap, then the event, and, when it   *)
(* is time, a checkpoint.  Only this goroutine counts sinceCP.             *)
Batch(e) ==
    (IF dropped > 0 THEN <<Gap(dropped)>> ELSE <<>>)
      \o <<e>>
      \o (IF sinceCP + 1 >= CheckpointEvery THEN <<Checkpoint>> ELSE <<>>)

Dequeue ==
    /\ status # "down"
    /\ todo = <<>>
    /\ queue # <<>>
    /\ todo' = Batch(Head(queue))
    /\ queue' = Tail(queue)
    /\ DroppedSwapped
    /\ sinceCP' = IF sinceCP + 1 >= CheckpointEvery THEN 0 ELSE sinceCP + 1
    /\ UNCHANGED <<status, sending, counting, seq, head, broken, segs, logged,
                   written, lost, spoiled, crashes>>

Full == Len(Active) >= SegmentMax

Writing == status # "down" /\ todo # <<>>

(* rotateLocked: the new segment exists, empty, before its first record.   *)
Rotate ==
    /\ Writing /\ ~broken /\ Full
    /\ segs' = Append(segs, <<>>)
    /\ UNCHANGED <<status, queue, sending, counting, dropped, todo, sinceCP,
                   seq, head, broken, logged, written, lost, spoiled, crashes>>

(* A line that was cut short swallows the record appended after it.        *)
Lines(rec) ==
    IF EndsCut THEN Front(Active) \o <<Garbage>> ELSE Append(Active, rec)

(* How many logged events an entry of the chain accounts for.              *)
Weight(r) == CASE r.kind = "event" -> 1
               [] r.kind = "gap" -> r.what
               [] OTHER -> 0
Weighed(list) == SumFunction([i \in DOMAIN list |-> Weight(list[i])])

HeadKept(rec) == UNCHANGED head

HeadMoves(rec) == head' = HashOf(rec)

(* Sink.append: the record is stamped, linked, written and flushed.        *)
Write ==
    LET rec == Stamp(Head(todo), seq + 1, head) IN
    /\ Writing /\ ~broken /\ ~Full
    /\ segs' = SetActive(Lines(rec))
    /\ written' = IF Last(Lines(rec)) = rec THEN Append(written, rec)
                  ELSE written
    /\ seq' = seq + 1
    /\ HeadMoves(rec)
    /\ todo' = Tail(todo)
    /\ lost' = IF Last(Lines(rec)) = rec THEN lost ELSE lost + Weight(rec)
    /\ UNCHANGED <<status, queue, sending, counting, dropped, sinceCP, broken,
                   logged, spoiled, crashes>>

(* The write or the rotation fails: run ignores the error, the sequence    *)
(* number is spent and the head stays; part of the line may be on disk.    *)
Fail ==
    /\ Writing /\ ~broken
    /\ broken' = TRUE
    /\ \/ UNCHANGED <<segs, spoiled>>
       \/ /\ ~Full /\ ~EndsCut
          /\ segs' = SetActive(Append(Active, Cut))
          /\ spoiled' = TRUE
    /\ seq' = seq + 1
    /\ lost' = lost + Weight(Head(todo))
    /\ todo' = Tail(todo)
    /\ UNCHANGED <<status, queue, sending, counting, dropped, sinceCP, head,
                   logged, written, crashes>>

(* ... and so does every later one.                                        *)
FailAgain ==
    /\ Writing /\ broken
    /\ seq' = seq + 1
    /\ lost' = lost + Weight(Head(todo))
    /\ todo' = Tail(todo)
    /\ UNCHANGED <<status, queue, sending, counting, dropped, sinceCP, head,
                   broken, segs, logged, written, spoiled, crashes>>

(* The process stops: what is queued is gone, and a write under way may be *)
(* cut short.                                                              *)
Crash ==
    /\ status # "down"
    /\ crashes < MaxCrashes
    /\ crashes' = crashes + 1
    /\ status' = "down"
    /\ queue' = <<>> /\ todo' = <<>> /\ dropped' = 0
    /\ sending' = 0 /\ counting' = 0
    /\ lost' = lost + sending + counting + dropped + Len(queue) + Weighed(todo)
    /\ \/ UNCHANGED <<segs, spoiled>>
       \/ /\ Writing /\ ~broken /\ ~Full
          /\ ~EndsCut
          /\ segs' = SetActive(Append(Active, Cut))
          /\ spoiled' = TRUE
    /\ UNCHANGED <<sinceCP, seq, head, broken, logged, written>>

(* Sink.Close: nothing more is accepted, the queue is drained, the file is *)
(* closed.  What a handler sends between the swap and the closing of the   *)
(* channel might as well have come before both, so they are one step.  A   *)
(* drop counted after the last event is in no gap record.                  *)
Close ==
    /\ status = "up"
    /\ status' = "closing"
    /\ UNCHANGED <<queue, sending, counting, dropped, todo, sinceCP, seq, head,
                   broken, segs, logged, written, lost, spoiled, crashes>>

Drained ==
    /\ status = "closing"
    /\ queue = <<>> /\ todo = <<>>
    /\ crashes < MaxCrashes
    /\ crashes' = crashes + 1
    /\ status' = "down"
    /\ dropped' = 0 /\ sending' = 0 /\ counting' = 0
    /\ lost' = lost + sending + counting + dropped
    /\ UNCHANGED <<queue, todo, sinceCP, seq, head, broken, segs, logged,
                   written, spoiled>>

(* resume: the last readable record of the newest segment, and of no other.*)
Readable == {j \in DOMAIN Active : IsRecord(Active[j])}
Resumable == Active[Max(Readable)]

ReopenedShort == segs' = SetActive(SubSeq(Active, 1, Len(Active) - 1))

(* The newest segment is opened with O_APPEND.                             *)
Reopened == UNCHANGED segs

(* New: the chain is resumed and its newest segment opened for appending.  *)
Open ==
    /\ status = "down"
    /\ status' = "up"
    /\ IF Readable = {}
       THEN seq' = 0 /\ head' = Genesis
       ELSE seq' = Resumable.seq /\ head' = HashOf(Resumable)
    /\ spoiled' = (spoiled \/ (Readable = {} /\ written # <<>>))
    /\ broken' = FALSE
    /\ sinceCP' = 0
    /\ Reopened
    /\ UNCHANGED <<queue, sending, counting, dropped, todo, logged, written,
                   lost, crashes>>

(* Sink.Prune: the oldest segments, past their retention, never the newest.*)
Prune ==
    /\ status = "up"
    /\ \E n \in 1..(Len(segs) - 1) : segs' = SubSeq(segs, n + 1, Len(segs))
    /\ UNCHANGED <<status, queue, sending, counting, dropped, todo, sinceCP,
                   seq, head, broken, logged, written, lost, spoiled, crashes>>

Writer == Dequeue \/ Rotate \/ Write \/ Fail \/ FailAgain

Next ==
    \/ Log \/ Send \/ Panic \/ Drop \/ Writer
    \/ Crash \/ Close \/ Drained \/ Open \/ Prune

Spec == Init /\ [][Next]_vars

(* The writer goroutine runs.                                              *)
FairSpec == Spec /\ WF_vars(Writer)
-----------------------------------------------------------------------------
Payload == [kind : {"event", "gap", "checkpoint"}, what : Nat]

Whole(line) == /\ DOMAIN line = {"seq", "kind", "what", "prev"}
               /\ line.seq \in Nat \ {0}
               /\ [kind |-> line.kind, what |-> line.what] \in Payload

TypeOK ==
    /\ status \in {"up", "closing", "down"}
    /\ queue \in Seq(Payload) /\ Len(queue) <= QueueSize
    /\ todo \in Seq(Payload)
    /\ sending \in Nat /\ counting \in Nat /\ dropped \in Nat
    /\ seq \in Nat /\ lost \in Nat
    /\ sinceCP \in 0..(CheckpointEvery - 1)
    /\ broken \in BOOLEAN /\ spoiled \in BOOLEAN
    /\ segs # <<>>
    /\ \A i \in DOMAIN segs : \A j \in DOMAIN segs[i] :
          segs[i][j] \in {Cut, Garbage} \/ Whole(segs[i][j])
    /\ \A j \in DOMAIN written : Whole(written[j])
    /\ logged \in 0..MaxEvents /\ crashes \in 0..MaxCrashes

(* verify.go, Verify, from a given point on.                               *)
Lined == FlattenSeq(segs)

Linked(lines) ==
    \A i \in DOMAIN lines :
        /\ IsRecord(lines[i])
        /\ i > 1 => /\ lines[i].seq = lines[i - 1].seq + 1
                    /\ lines[i].prev = HashOf(lines[i - 1])

(* Unless a write was cut short or New lost the chain's head, the files    *)
(* hold one unbroken chain: over rotations, crashes, restarts, pruning and *)
(* writes that failed after their sequence number was spent.               *)
LinkedUnlessSpoiled == ~spoiled => Linked(Lined)

(* ... which is the end of what was ever written: nothing is rewritten,    *)
(* reordered or dropped except by pruning whole segments.                  *)
NothingRewritten == ~spoiled => IsSuffix(Lined, written)

(* No silent gap: every event handed to Log is in the chain, counted by a  *)
(* gap record, still on its way, or went with a write error, a crash or a  *)
(* close that overtook it (worm.go, package comment and KindGap).           *)
EveryEventAccounted ==
    logged = Weighed(written) + Weighed(todo) + Len(queue)
               + sending + counting + dropped + lost

(* A drop counted while anything is queued surfaces without a further      *)
(* event being logged.  One counted after the queue was emptied waits for  *)
(* the next event: Log's comment promises no more.                         *)
DropsSurface == dropped > 0 /\ queue # <<>> ~> dropped = 0

(* worm.go, New: "a restart must continue the existing chain rather than   *)
(* start a second one".  A crash between the creation of a segment and its *)
(* first record leaves a newest segment with nothing to resume from.       *)
RestartContinues ==
    [][status = "down" /\ status' = "up" /\ written # <<>>
       => seq' = Last(written).seq /\ head' = HashOf(Last(written))]_vars
=============================================================================

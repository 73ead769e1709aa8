----------------------------- MODULE AttemptLog -----------------------------
(***************************************************************************)
(* The raw log of one attempt, from the agent's process to the operator's  *)
(* screen: the bounded file (_BoundedLog), the tail that follows it        *)
(* (follow_attempt_log), the stream over HTTP, the client that resumes it  *)
(* by a byte offset (subscribeToAttemptLog) and the viewer, which shows    *)
(* the stream until it ends and the captured log from then on.             *)
(*                                                                         *)
(* A record of the file is its number in the order of writing and the      *)
(* offset that follows it, in scaled bytes; the marker that rotation       *)
(* leaves has number 0.                                                    *)
(***************************************************************************)
EXTENDS Naturals, Sequences, FiniteSets

CONSTANTS Cap,        \* cap_bytes
          Marker,     \* the size of the marker
          Sizes,      \* the sizes a record may have
          Window,     \* how many live entries the viewer keeps
          Captured,   \* how many entries the captured log returns
          MaxLines,   \* bound: the records an agent writes
          MaxDrops    \* bound: the connections that are lost or refused

\* A record fits into an empty log beside the marker.
ASSUME LogAssumption ==
    /\ Cap \in Nat /\ Marker \in Nat \ {0} /\ Sizes \subseteq Nat \ {0}
    /\ \A s \in Sizes : s + Marker < Cap
    /\ Window \in Nat \ {0} /\ Captured \in Nat /\ MaxLines \in Nat /\ MaxDrops \in Nat

VARIABLES log,        \* the file
          written,    \* how many records were written so far
          rotated,    \* has the file ever been rotated?
          attempt,    \* "running", "settled" by its worker, or "reclaimed" by another
          alive,      \* is the process that writes the log alive?
          tail,       \* the server's side of the stream: where it is and its offset
          frames,     \* sent and not yet received
          offset,     \* the client's cursor
          live,       \* liveEntries
          viewer,     \* "closed", "tail" or, of a settled attempt, "captured"
          stream,     \* streamStatus
          captured,   \* the query of the captured log: its data and its fetch
          drops       \* connections lost so far

vars == <<log, written, rotated, attempt, alive, tail, frames, offset, live,
          viewer, stream, captured, drops>>
clientVars == <<offset, live, viewer, stream, captured, drops>>

Record == [line : 0..MaxLines, end : 1..Cap]
Unknown == [known |-> FALSE, data |-> <<>>, fetch |-> "idle", reply |-> <<>>]
Entries == Seq(1..MaxLines)

(***************************************************************************)
(* The file.                                                               *)
(***************************************************************************)
SizeOf(file) == IF file = <<>> THEN 0 ELSE file[Len(file)].end
StartOf(file, i) == IF i = 1 THEN 0 ELSE file[i - 1].end
Skipped(file, place) == Cardinality({i \in DOMAIN file : StartOf(file, i) < place})
Numbers(file) == [i \in DOMAIN file |-> file[i].line]
Last_n(seq, n) == SubSeq(seq, IF Len(seq) > n THEN Len(seq) - n + 1 ELSE 1, Len(seq))

\* What a rotation keeps beside the new record: the marker and the complete
\* lines behind a cut. The line the cut falls on goes, even when the cut is
\* where it starts.
Retained(file, size) ==
    LET cut  == SizeOf(file) - (Cap - size - Marker)
        gone == Skipped(file, cut + 1)
    IN  <<[line |-> 0, end |-> Marker]>> \o
        [i \in 1..(Len(file) - gone) |->
            [line |-> file[gone + i].line,
             end  |-> (file[gone + i].end - file[gone].end) + Marker]]

Added(file, size) == Append(file, [line |-> written + 1, end |-> SizeOf(file) + size])

\* Not the code: the cap is compared with what is there already.
WriteWhileBelow(size) ==
    /\ alive /\ written < MaxLines
    /\ LET fits == SizeOf(log) < Cap
       IN  /\ log' = Added(IF fits THEN log ELSE Retained(log, size), size)
           /\ rotated' = (rotated \/ ~fits)
    /\ written' = written + 1
    /\ UNCHANGED <<attempt, alive, tail, frames>> /\ UNCHANGED clientVars

\* _BoundedLog.write, under its lock; a rotation replaces the file at once.
Write(size) ==
    /\ alive /\ written < MaxLines
    /\ LET fits == SizeOf(log) + size <= Cap
       IN  /\ log' = Added(IF fits THEN log ELSE Retained(log, size), size)
           /\ rotated' = (rotated \/ ~fits)
    /\ written' = written + 1
    /\ UNCHANGED <<attempt, alive, tail, frames>> /\ UNCHANGED clientVars

\* The worker finalizes the attempt after its process has ended ...
Settle ==
    /\ attempt = "running" /\ alive
    /\ attempt' = "settled" /\ alive' = FALSE
    /\ UNCHANGED <<log, written, rotated, tail, frames>> /\ UNCHANGED clientVars

\* ... but a reclaim or a start-up abandons it while a worker that lost its
\* lease still runs the process.
Reclaim ==
    /\ attempt = "running"
    /\ attempt' = "reclaimed"
    /\ UNCHANGED <<log, written, rotated, alive, tail, frames>> /\ UNCHANGED clientVars

ProcessEnds ==
    /\ attempt = "reclaimed" /\ alive
    /\ alive' = FALSE
    /\ UNCHANGED <<log, written, rotated, attempt, tail, frames>> /\ UNCHANGED clientVars

(***************************************************************************)
(* follow_attempt_log. Its stat, its read and its look at the attempt are  *)
(* separate awaits.                                                        *)
(***************************************************************************)
Off == [pc |-> "off", offset |-> 0]
Frame(kind) == [kind |-> kind, id |-> 0, line |-> 0]
serverQuiet == UNCHANGED <<log, written, rotated, attempt, alive>> /\ UNCHANGED clientVars

\* Not the code: every line of a batch carries the offset behind the batch.
LinesFromBatch(from) ==
    LET skipped == Skipped(log, from)
    IN  [k \in 1..(Len(log) - skipped) |->
            LET record == log[skipped + k]
            IN  IF record.line = 0 THEN Frame("truncated")
                ELSE [kind |-> "line", id |-> SizeOf(log), line |-> record.line]]

\* _read_complete_lines and _events_from_lines: what is behind the offset, each
\* line with the offset that follows it. An offset inside a line yields a
\* rest that is no record and is skipped.
LinesFrom(from) ==
    LET skipped == Skipped(log, from)
    IN  [k \in 1..(Len(log) - skipped) |->
            LET record == log[skipped + k]
            IN  IF record.line = 0 THEN Frame("truncated")
                ELSE [kind |-> "line", id |-> record.end, line |-> record.line]]

Read(from) == IF SizeOf(log) > from THEN SizeOf(log) ELSE from

\* What is no marker: only the first record can be one.
Lines(records) ==
    IF records # <<>> /\ Head(records).line = 0 THEN Tail(records) ELSE records

Poll ==
    /\ tail.pc = "poll"
    /\ \/ /\ SizeOf(log) < tail.offset
          /\ tail' = [tail EXCEPT !.offset = 0]
          /\ frames' = Append(frames, Frame("truncated"))
       \/ /\ SizeOf(log) > tail.offset
          /\ tail' = [tail EXCEPT !.pc = "read"]
          /\ UNCHANGED frames
       \/ /\ SizeOf(log) = tail.offset
          /\ tail' = [tail EXCEPT !.pc = "check"]
          /\ UNCHANGED frames
    /\ serverQuiet

ReadLines ==
    /\ tail.pc = "read"
    /\ frames' = frames \o LinesFrom(tail.offset)
    /\ tail' = [pc |-> "poll", offset |-> Read(tail.offset)]
    /\ serverQuiet

\* Not the code: only an attempt that its worker finalized is terminal.
CheckSettled ==
    /\ tail.pc = "check"
    /\ tail' = [tail EXCEPT !.pc = IF attempt = "settled" THEN "drain" ELSE "poll"]
    /\ UNCHANGED frames /\ serverQuiet

\* is_terminal: a terminal attempt gets a final drain.
CheckTerminal ==
    /\ tail.pc = "check"
    /\ tail' = [tail EXCEPT !.pc = IF attempt = "running" THEN "poll" ELSE "drain"]
    /\ UNCHANGED frames /\ serverQuiet

\* Not the code: the stream ends as soon as the attempt is terminal.
EndAtOnce ==
    /\ tail.pc = "drain"
    /\ frames' = Append(frames, Frame("end"))
    /\ tail' = Off
    /\ serverQuiet

Drain ==
    /\ tail.pc = "drain"
    /\ frames' = Append(frames \o Lines(LinesFrom(tail.offset)), Frame("end"))
    /\ tail' = Off
    /\ serverQuiet

(***************************************************************************)
(* subscribeToAttemptLog.                                                  *)
(***************************************************************************)
fileQuiet == UNCHANGED <<log, written, rotated, attempt, alive>>
Streaming == viewer = "tail" /\ stream # "ended"

\* Not the code: a new connection starts at the beginning of the file.
ConnectFromStart ==
    /\ Streaming /\ stream # "live"
    /\ stream' = "live"
    /\ tail' = [pc |-> "poll", offset |-> 0]
    /\ frames' = <<>>
    /\ UNCHANGED <<offset, live, viewer, captured, drops>> /\ fileQuiet

\* One turn of the client's loop: the request carries the cursor.
Connect ==
    /\ Streaming /\ stream # "live"
    /\ stream' = "live"
    /\ tail' = [pc |-> "poll", offset |-> offset]
    /\ frames' = <<>>
    /\ UNCHANGED <<offset, live, viewer, captured, drops>> /\ fileQuiet

\* The request is refused or the connection is lost with what is in flight; the
\* server's generator ends and the client waits a second.
Disconnect ==
    /\ Streaming /\ drops < MaxDrops
    /\ drops' = drops + 1
    /\ stream' = "down"
    /\ tail' = Off /\ frames' = <<>>
    /\ UNCHANGED <<offset, live, viewer, captured>> /\ fileQuiet

\* An invalidation cancels a fetch that is under way and starts another, except
\* the first one, which it joins.
Refetch(query) ==
    IF ~query.known /\ query.fetch # "idle" THEN query
    ELSE [query EXCEPT !.fetch = "asked", !.reply = <<>>]

\* A frame with an id moves the cursor before its entry is shown; the frame of a
\* truncation has no id.
Receive ==
    /\ stream = "live" /\ frames # <<>>
    /\ frames' = Tail(frames)
    /\ LET frame == Head(frames)
       IN  \/ /\ frame.kind = "line"
              /\ offset' = frame.id
              /\ live' = Last_n(Append(live, frame.line), Window)
              /\ UNCHANGED <<stream, captured>>
           \/ /\ frame.kind = "truncated"
              /\ live' = <<>>
              /\ UNCHANGED <<offset, stream, captured>>
           \/ /\ frame.kind = "end"
              /\ stream' = "ended"
              /\ captured' = Refetch(captured)
              /\ UNCHANGED <<offset, live>>
    /\ UNCHANGED <<tail, viewer, drops>> /\ fileQuiet

(***************************************************************************)
(* AttemptLogViewer. The status it is opened with is the timeline's, which *)
(* may be behind, and stays what it was while the viewer is open.          *)
(***************************************************************************)
Open(terminal) ==
    /\ viewer = "closed"
    /\ terminal => attempt # "running"
    /\ viewer' = IF terminal THEN "captured" ELSE "tail"
    /\ stream' = IF terminal THEN "ended" ELSE "connecting"
    /\ captured' = [captured EXCEPT !.fetch = "asked"]
    /\ UNCHANGED <<tail, frames, offset, live, drops>> /\ fileQuiet

\* attempt_log: the last records of the file; nothing if there is none.
CaptureRead ==
    /\ captured.fetch = "asked"
    /\ captured' = [captured EXCEPT !.fetch = "read",
                                    !.reply = Last_n(Numbers(Lines(log)), Captured)]
    /\ UNCHANGED <<tail, frames, offset, live, viewer, stream, drops>> /\ fileQuiet

CaptureArrives ==
    /\ captured.fetch = "read"
    /\ captured' = [Unknown EXCEPT !.known = TRUE, !.data = captured.reply]
    /\ UNCHANGED <<tail, frames, offset, live, viewer, stream, drops>> /\ fileQuiet

\* After its retry a fetch fails for good, and the old data stays.
CaptureFails ==
    /\ captured.fetch = "asked" /\ drops < MaxDrops
    /\ drops' = drops + 1
    /\ captured' = [captured EXCEPT !.fetch = "idle"]
    /\ UNCHANGED <<tail, frames, offset, live, viewer, stream>> /\ fileQuiet

\* What the operator reads.
Shown ==
    IF stream = "ended" /\ captured.known THEN captured.data ELSE live

Init ==
    /\ log = <<>> /\ written = 0 /\ rotated = FALSE
    /\ attempt = "running" /\ alive = TRUE
    /\ tail = Off /\ frames = <<>> /\ offset = 0 /\ live = <<>>
    /\ viewer = "closed" /\ stream = "connecting"
    /\ captured = Unknown
    /\ drops = 0

Server == Poll \/ ReadLines \/ CheckTerminal \/ Drain
Next ==
    \/ \E size \in Sizes : Write(size)
    \/ Settle \/ Reclaim \/ ProcessEnds
    \/ Server
    \/ Connect \/ Disconnect \/ Receive
    \/ \E terminal \in BOOLEAN : Open(terminal)
    \/ CaptureRead \/ CaptureArrives \/ CaptureFails

Spec == Init /\ [][Next]_vars

\* Both loops go on by themselves: the server's between awaits that end, the
\* client's after a second, and a frame that was sent on a connection that
\* holds arrives.
Fairness == WF_vars(Server) /\ WF_vars(Connect) /\ WF_vars(Receive)
FairSpec == Spec /\ Fairness

(***************************************************************************)
(* Properties.                                                             *)
(***************************************************************************)
\* The types; the file is bounded by its cap and in the order of writing, and the
\* live view is bounded by its window.
TypeOK ==
    /\ log \in Seq(Record) /\ written \in 0..MaxLines
    /\ \A i, j \in DOMAIN log : i < j => log[i].line < log[j].line /\ log[i].end < log[j].end
    /\ rotated \in BOOLEAN /\ alive \in BOOLEAN
    /\ attempt \in {"running", "settled", "reclaimed"}
    /\ tail \in [pc : {"off", "poll", "read", "check", "drain"}, offset : Nat]
    /\ frames \in Seq([kind : {"line", "truncated", "end"}, id : Nat, line : 0..MaxLines])
    /\ offset \in Nat /\ live \in Entries /\ Len(live) <= Window
    /\ viewer \in {"closed", "tail", "captured"}
    /\ stream \in {"connecting", "live", "down", "ended"}
    /\ captured \in [known : BOOLEAN, data : Entries,
                     fetch : {"idle", "asked", "read"}, reply : Entries]
    /\ drops \in 0..MaxDrops

\* However often the file is rotated and the connection lost, the live view
\* never repeats a line and never shows two lines in the wrong order.
LiveInOrder == \A i, j \in DOMAIN live : i < j => live[i] < live[j]

\* "A transient disconnect neither duplicates nor drops output"
\* (subscribeToAttemptLog): as long as the file was not rotated, the live view is
\* exactly what lies before the cursor.
ResumesExactly ==
    viewer = "tail" /\ ~rotated =>
        LET before == {i \in DOMAIN log : log[i].end <= offset}
        IN  live = Last_n([i \in 1..Cardinality(before) |-> i], Window)

\* The stream ends only after everything its worker wrote was sent, however late
\* that was (the final drain of follow_attempt_log). An attempt that was
\* reclaimed from a worker that still writes is no such attempt, and a rotation
\* may hide lines.
EndIsComplete ==
    viewer = "tail" /\ stream = "ended" /\ attempt = "settled" /\ ~rotated =>
        live = Last_n([i \in 1..written |-> i], Window)

\* An operator who follows an attempt sees its stream end once the attempt has,
\* through every loss of the connection.
StreamEnds == viewer = "tail" /\ attempt # "running" ~> stream = "ended"
=============================================================================

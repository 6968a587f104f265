------------------------------ MODULE TextChannel ------------------------------
(***************************************************************************)
(* How text gets from the feeder thread to the TTS process: the writes of  *)
(* tts_text_feeder_thread, the buffer of the GIOChannel text_channel, the  *)
(* non-blocking pipe, the process that reads it, and the shutdown of the   *)
(* channel when the engine stops.  StreamingEngine knows of all this only  *)
(* that a segment is reported as fed or is not.                            *)
(*                                                                         *)
(* A segment s is the characters <<s, 1>> .. <<s, length[s]>>; the newline *)
(* that follows it is <<s, length[s] + 1>>.  What the buffer holds fits    *)
(* into PIPE_BUF bytes, so a write to the pipe takes all of it or nothing. *)
(* SIGPIPE is ignored in the viewer, whose use of GSocket sees to that: a  *)
(* write to a process that is gone fails.                                  *)
(***************************************************************************)
EXTENDS Integers, Sequences, SequencesExt

CONSTANTS
    MaxSegments,   \* most segments fed
    Lengths,       \* how long their texts may be
    FullAt,        \* the buffer is written out when it holds so much (1014)
    Space,         \* the size of the buffer (2047)
    PipeSize       \* the size of the pipe (65536)

ASSUME MaxSegmentsAssumption == MaxSegments \in Nat
ASSUME LengthsAssumption == Lengths \subseteq Nat \ {0}
ASSUME SizeAssumption ==
    /\ FullAt \in Nat \ {0} /\ Space \in Nat /\ PipeSize \in Nat
    /\ FullAt < Space /\ Space <= PipeSize

VARIABLES
    write_buf,     \* channel->write_buf
    pipe,
    received,      \* what the process has read
    length,        \* the lengths of the segments that were popped so far
    wrote_bytes,   \* of the text or the newline, by g_io_channel_write_chars
    step,          \* of the feeder ("pop", "text", "newline", "flush"), or of
                   \* the shutdown once it is joined ("closing", "closed")
    process,       \* "running" or "gone"
    reported       \* the segments that were logged as fed

vars == <<write_buf, pipe, received, length, wrote_bytes, step, process, reported>>

Segments == 1..MaxSegments

\* The segment the feeder is at, or was at last.
segment == Len(length)

\* The characters that the feeder writes in a step: the text, or the newline.
Chars ==
    IF step = "text" THEN [i \in 1..length[segment] |-> <<segment, i>>]
                     ELSE <<<<segment, length[segment] + 1>>>>

Init ==
    /\ write_buf = <<>> /\ pipe = <<>> /\ received = <<>>
    /\ length = <<>> /\ wrote_bytes = 0
    /\ step = "pop"
    /\ process = "running"
    /\ reported = {}
-------------------------------------------------------------------------------
(***************************************************************************)
(* g_io_unix_write of the buffer: what the pipe does with it.              *)
(***************************************************************************)
Accepts == process = "running" /\ Len(pipe) + Len(write_buf) <= PipeSize
Refuses == process = "running" /\ Len(pipe) + Len(write_buf) > PipeSize  \* EAGAIN
Broken == process = "gone"                                              \* EPIPE

Full == Len(write_buf) >= FullAt
-------------------------------------------------------------------------------
(***************************************************************************)
(* The feeder thread.                                                      *)
(***************************************************************************)
FeederPop ==
    /\ step = "pop" /\ segment < MaxSegments
    /\ \E n \in Lengths : length' = Append(length, n)
    /\ wrote_bytes' = 0
    /\ step' = "text"
    /\ UNCHANGED <<write_buf, pipe, received, process, reported>>

\* The end of a g_io_channel_write_chars with status NORMAL: the text is
\* followed by the newline and the newline by a flush.
WriteReturns ==
    /\ step' = IF step = "text" THEN "newline" ELSE "flush"
    /\ wrote_bytes' = 0

\* One iteration of the loop of g_io_channel_write_chars: a full buffer is
\* written out, and as much as there is space for is put into it.
WriteChars ==
    /\ step \in {"text", "newline"}
    /\ Full => Accepts
    /\ LET kept == IF Full THEN <<>> ELSE write_buf
           room == Space - Len(kept)
           left == SubSeq(Chars, wrote_bytes + 1, Len(Chars))
           n == IF room < Len(left) THEN room ELSE Len(left)
       IN  /\ pipe' = IF Full THEN pipe \o write_buf ELSE pipe
           /\ write_buf' = kept \o SubSeq(left, 1, n)
           /\ IF n = Len(left)
              THEN WriteReturns
              ELSE wrote_bytes' = wrote_bytes + n /\ UNCHANGED step
    /\ UNCHANGED <<received, length, process, reported>>

\* Mutant: the loop goes on after the part that the pipe has refused.
WriteAgainSkips ==
    /\ step \in {"text", "newline"} /\ Full /\ Refuses
    /\ IF wrote_bytes > 0
       THEN /\ write_buf' = <<>>
            /\ UNCHANGED <<step, wrote_bytes>>
       ELSE step' = "pop" /\ UNCHANGED <<write_buf, wrote_bytes>>
    /\ UNCHANGED <<pipe, received, length, process, reported>>

\* The pipe refuses a full buffer.  If part of the text is in the buffer by
\* then the status is NORMAL, bytes_written tells how much, and the feeder does
\* not look at it.
WriteAgain ==
    /\ step \in {"text", "newline"} /\ Full /\ Refuses
    /\ IF wrote_bytes > 0 THEN WriteReturns
                          ELSE step' = "pop" /\ UNCHANGED wrote_bytes
    /\ UNCHANGED <<write_buf, pipe, received, length, process, reported>>

\* The write fails, and the feeder goes on to the next segment.
WriteFails ==
    /\ step \in {"text", "newline"} /\ Full /\ Broken
    /\ step' = "pop"
    /\ UNCHANGED <<write_buf, pipe, received, length, wrote_bytes, process, reported>>

\* Mutant: the status of the flush is not looked at.
FlushUnchecked ==
    /\ step = "flush"
    /\ IF Accepts
       THEN pipe' = pipe \o write_buf /\ write_buf' = <<>>
       ELSE UNCHANGED <<pipe, write_buf>>
    /\ reported' = reported \cup {segment}
    /\ step' = "pop"
    /\ UNCHANGED <<received, length, wrote_bytes, process>>

\* g_io_channel_flush, and the report that the segment was fed.
Flush ==
    /\ step = "flush" /\ Accepts
    /\ pipe' = pipe \o write_buf /\ write_buf' = <<>>
    /\ reported' = reported \cup {segment}
    /\ step' = "pop"
    /\ UNCHANGED <<received, length, wrote_bytes, process>>

FlushFails ==
    /\ step = "flush" /\ ~Accepts
    /\ step' = "pop"
    /\ UNCHANGED <<write_buf, pipe, received, length, wrote_bytes, process, reported>>

FeederStep == FeederPop \/ WriteChars \/ WriteAgain \/ WriteFails \/ Flush \/ FlushFails
-------------------------------------------------------------------------------
(***************************************************************************)
(* The shutdown of the channel by cleanup_process, after the feeder has    *)
(* been joined and before the process is signalled.                        *)
(***************************************************************************)
Stop ==
    /\ step = "pop"
    /\ step' = "closing"
    /\ UNCHANGED <<write_buf, pipe, received, length, wrote_bytes, process, reported>>

\* Mutant: shutdown with flush FALSE.
ShutdownNoFlush ==
    /\ step = "closing"
    /\ write_buf' = <<>>
    /\ step' = "closed"
    /\ UNCHANGED <<pipe, received, length, wrote_bytes, process, reported>>

\* g_io_channel_shutdown makes the channel blocking and flushes it, which waits
\* for room in the pipe or for the end of the process; then it is closed.
Shutdown ==
    /\ step = "closing"
    /\ write_buf # <<>> => Accepts \/ Broken
    /\ pipe' = IF Accepts THEN pipe \o write_buf ELSE pipe
    /\ write_buf' = <<>>
    /\ step' = "closed"
    /\ UNCHANGED <<received, length, wrote_bytes, process, reported>>
-------------------------------------------------------------------------------
(***************************************************************************)
(* The process reads its input, in pieces of any size, until it ends.      *)
(***************************************************************************)
ProcessReads ==
    /\ process = "running"
    /\ \E n \in 1..Len(pipe) :
          /\ received' = received \o SubSeq(pipe, 1, n)
          /\ pipe' = SubSeq(pipe, n + 1, Len(pipe))
    /\ UNCHANGED <<write_buf, length, wrote_bytes, step, process, reported>>

ProcessEnds ==
    /\ process = "running"
    /\ process' = "gone"
    /\ pipe' = <<>>
    /\ UNCHANGED <<write_buf, received, length, wrote_bytes, step, reported>>

\* The engine is stopped, and nothing is left to be read.
Ended == step = "closed" /\ pipe = <<>> /\ UNCHANGED vars

Next == FeederStep \/ Stop \/ Shutdown \/ ProcessReads \/ ProcessEnds \/ Ended

Spec == Init /\ [][Next]_vars

\* The threads are scheduled.  That the process reads what it is given is an
\* assumption about it, and no one makes it end.
FairSpec == Spec /\ WF_vars(FeederStep) /\ WF_vars(Shutdown) /\ WF_vars(ProcessReads)
-------------------------------------------------------------------------------
Before(c, d) == c[1] < d[1] \/ (c[1] = d[1] /\ c[2] < d[2])

Ordered(s) == \A j, k \in DOMAIN s : j < k => Before(s[j], s[k])

\* All that has gone into the channel.
line == received \o pipe \o write_buf

\* What has gone into the channel is in the order of the document, nothing is
\* there twice, and of every segment a beginning is there with no hole in it
\* (not counting newlines), whatever the pipe refused and when.  As long as the
\* process runs, that is what it gets to read.
BeginningsInOrder ==
    process = "running" =>
        /\ Ordered(line)
        /\ \A c \in ToSet(line) : \A i \in 1..(c[2] - 1) :
              c[2] <= length[c[1]] => <<c[1], i>> \in ToSet(line)

\* When a segment is reported as fed nothing of it, or of what failed before
\* it, waits in the buffer, and its newline has gone out to the process.
ReportedHasLeft ==
    process = "running" => \A s \in reported :
        /\ \A c \in ToSet(write_buf) : c[1] > s
        /\ <<s, length[s] + 1>> \in ToSet(received \o pipe)

\* What a failed write has left in the buffer when the engine stops still gets
\* to the process before the channel is closed, unless the process ends.
StragglersDelivered ==
    \A s \in Segments : \A i \in 1..(Max(Lengths) + 1) :
        (step = "closing" /\ <<s, i>> \in ToSet(write_buf))
            ~> step = "closed" /\ (<<s, i>> \in ToSet(received) \/ process = "gone")
-------------------------------------------------------------------------------
(***************************************************************************)
(* The inductive invariant behind the properties (proved in                *)
(* TextChannelProofs).                                                     *)
(***************************************************************************)
TypeOK ==
    /\ write_buf \in Seq(Nat \X Nat)
    /\ pipe \in Seq(Nat \X Nat)
    /\ received \in Seq(Nat \X Nat)
    /\ length \in Seq(Lengths) /\ segment <= MaxSegments
    /\ wrote_bytes \in Nat
    /\ step \in {"pop", "text", "newline", "flush", "closing", "closed"}
    /\ process \in {"running", "gone"}
    /\ reported \subseteq 1..segment

\* The segment being written is not reported yet, and a newline is written in
\* one piece.
FeederAt ==
    /\ step \in {"text", "newline", "flush"} => segment > 0 /\ segment \notin reported
    /\ step = "text" => wrote_bytes <= length[segment]
    /\ step = "newline" => wrote_bytes = 0

\* What the line holds of the segment being written: the first wrote_bytes
\* characters; then no newline; then its newline.
WrittenSoFar ==
    process = "running" =>
        /\ \A c \in ToSet(line) : c[1] \in 1..segment
        /\ step = "text" =>
              /\ \A c \in ToSet(line) : c[1] = segment => c[2] <= wrote_bytes
              /\ \A i \in 1..wrote_bytes : <<segment, i>> \in ToSet(line)
        /\ step = "newline" =>
              \A c \in ToSet(line) : c[1] = segment => c[2] <= length[segment]
        /\ step = "flush" => <<segment, length[segment] + 1>> \in ToSet(line)

IInv ==
    /\ TypeOK /\ FeederAt /\ WrittenSoFar
    /\ BeginningsInOrder /\ ReportedHasLeft
===============================================================================

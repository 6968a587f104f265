----------------------------- MODULE SpeechStream -----------------------------
(***************************************************************************)
(* What a streaming speech engine promises to the audio controller that    *)
(* drives it, without threads, locks, pipes or processes.                  *)
(*                                                                         *)
(* A stream is opened, segments are submitted to it, it takes them one at  *)
(* a time in the order of submission and hands each to the synthesizer at  *)
(* most once, it takes nothing while it is held, and closing it waits for  *)
(* the segment in flight and discards the rest.                            *)
(***************************************************************************)
EXTENDS Naturals, Sequences

CONSTANT MaxSegments  \* segments of a session are numbered 1..MaxSegments

VARIABLES mode,      \* what the controller observes of the stream
          pending,   \* submitted and not yet taken
          inflight,  \* the segment being handed over, 0 when there is none
          fed        \* segments the synthesizer has accepted, in order

streamVars == <<mode, pending, inflight, fed>>

Modes == {"IDLE", "ACTIVE", "PAUSED", "STOPPING", "ERROR"}

Init ==
    /\ mode = "IDLE"
    /\ pending = <<>>
    /\ inflight = 0
    /\ fed = <<>>

\* The stream opens empty, or does not open.
Open ==
    /\ mode = "IDLE"
    /\ mode' \in {"ACTIVE", "ERROR"}
    /\ fed' = <<>>
    /\ UNCHANGED <<pending, inflight>>

Submit(s) ==
    /\ mode = "ACTIVE"
    /\ pending' = Append(pending, s)
    /\ UNCHANGED <<mode, inflight, fed>>

\* A held stream takes nothing.
Take ==
    /\ mode \in {"ACTIVE", "STOPPING"}
    /\ inflight = 0
    /\ pending # <<>>
    /\ inflight' = Head(pending)
    /\ pending' = Tail(pending)
    /\ UNCHANGED <<mode, fed>>

\* The synthesizer accepts the segment in flight, or it is dropped; either
\* way it is never handed over again.
HandOver ==
    /\ inflight # 0
    /\ inflight' = 0
    /\ fed' \in {fed, Append(fed, inflight)}
    /\ UNCHANGED <<mode, pending>>

Hold ==
    /\ mode = "ACTIVE"
    /\ mode' = "PAUSED"
    /\ UNCHANGED <<pending, inflight, fed>>

Continue ==
    /\ mode = "PAUSED"
    /\ mode' = "ACTIVE"
    /\ UNCHANGED <<pending, inflight, fed>>

BeginClose ==
    /\ mode \in {"ACTIVE", "PAUSED", "ERROR"}
    /\ mode' = "STOPPING"
    /\ UNCHANGED <<pending, inflight, fed>>

Discard ==
    /\ mode = "STOPPING"
    /\ inflight = 0
    /\ pending' = <<>>
    /\ UNCHANGED <<mode, inflight, fed>>

EndClose ==
    /\ mode = "STOPPING"
    /\ inflight = 0
    /\ pending = <<>>
    /\ mode' = "IDLE"
    /\ UNCHANGED <<pending, inflight, fed>>

Next ==
    \/ Open \/ Take \/ HandOver \/ Hold \/ Continue
    \/ BeginClose \/ Discard \/ EndClose
    \/ \E s \in 1..MaxSegments : Submit(s)

Spec == Init /\ [][Next]_streamVars
===============================================================================

---------------------- MODULE StreamingEngineRefinement ----------------------
(***************************************************************************)
(* The streaming engine feeds its segments in the order of the document,   *)
(* and implements SpeechStream, for every number of segments per session.  *)
(* StreamInv, on top of the invariant of StreamingEngineProofs, is what    *)
(* both results need: its first two parts order the segments on their way, *)
(* its last one says that the feeder does not overtake a pause.  The order *)
(* is also what shows how memory errors begin (FaultsHaveTwoCauses).       *)
(***************************************************************************)
EXTENDS StreamingEngineProofs

USE MaxSegmentsAssumption
USE DEF child, queue, flags, threads, session, UiMoves, FeederMoves, AudioMoves,
        FeederFrame

\* Nothing is on its way in an engine that has just been created.
LEMMA InitStreamInv == Init => StreamInv
  BY DEF Init, StreamInv, LineOrdered, LineGrows, PauseSeen, LineBelow,
         Increasing, AllBelow, Handing, OwningSteps
-------------------------------------------------------------------------------
(***************************************************************************)
(* The line of segments: fed, in hand, queued.                             *)
(***************************************************************************)

\* queue_segment appends a segment that is later than all of the line.
LEMMA AppendOrdered ==
  ASSUME NEW q \in Seq(Segments), NEW n \in Segments, AllBelow(q, n), Increasing(q)
  PROVE  Increasing(Append(q, n)) /\ AllBelow(Append(q, n), n + 1)
<1>1. ASSUME NEW k \in 1..Len(Append(q, n))
      PROVE  \/ k \in 1..Len(q) /\ Append(q, n)[k] = q[k]
             \/ k = Len(q) + 1 /\ Append(q, n)[k] = n
  OBVIOUS
<1>2. \A k \in 1..Len(q) : q[k] \in Segments
  OBVIOUS
<1>3. Increasing(Append(q, n))
  <2>. SUFFICES ASSUME NEW j \in 1..Len(Append(q, n)),
                       NEW k \in 1..Len(Append(q, n)), j < k
                PROVE  Append(q, n)[j] < Append(q, n)[k]
    BY DEF Increasing
  <2>1. j \in 1..Len(q) /\ Append(q, n)[j] = q[j]
    BY <1>1
  <2>. QED  BY <2>1, <1>1 DEF Increasing, AllBelow
<1>4. AllBelow(Append(q, n), n + 1)
  BY <1>1, <1>2 DEF AllBelow, Segments
<1>. QED  BY <1>3, <1>4

\* The feeder pops what comes before the rest of the queue.
LEMMA PopOrdered ==
  ASSUME NEW q \in Seq(Segments), q # <<>>, Increasing(q)
  PROVE  /\ Increasing(Tail(q))
         /\ \A k \in 1..Len(Tail(q)) : Head(q) < Tail(q)[k]
         /\ \A k \in 1..Len(Tail(q)) : k + 1 \in 1..Len(q) /\ Tail(q)[k] = q[k + 1]
         /\ 1 \in 1..Len(q) /\ Head(q) = q[1]
<1>1. /\ 1 \in 1..Len(q) /\ Head(q) = q[1]
      /\ Len(Tail(q)) = Len(q) - 1 /\ Len(q) \in Nat
  OBVIOUS
<1>2. \A k \in 1..Len(Tail(q)) : k + 1 \in 1..Len(q) /\ Tail(q)[k] = q[k + 1]
  OBVIOUS
<1>. QED  BY <1>1, <1>2 DEF Increasing

\* A bound on the line may be raised.
LEMMA BelowMono ==
  ASSUME NEW q \in Seq(Segments), NEW m \in Nat, NEW n \in Nat, m <= n, AllBelow(q, m)
  PROVE  AllBelow(q, n)
<1>1. \A k \in 1..Len(q) : q[k] \in Nat
  BY DEF Segments
<1>. QED  BY <1>1 DEF AllBelow

\* A step that leaves the line alone, or takes the segment in hand off it.
LEMMA LineKept ==
  ASSUME LineOrdered, UNCHANGED <<fed, text_queue>>,
         Handing' => Handing /\ current' = current
  PROVE  LineOrdered' /\ \A n : LineBelow(n) => LineBelow(n)'
<1>1. LineOrdered'
  BY DEF LineOrdered, Increasing, AllBelow
<1>2. \A n : LineBelow(n) => LineBelow(n)'
  BY DEF LineBelow, AllBelow
<1>. QED  BY <1>1, <1>2

\* The steps that change the line: start, queue_segment, the feeder's pop and
\* write, and the clearing of the queue.
LineSteps ==
    \/ StartFails \/ StartAudio \/ QueuePush \/ FeederPop \/ FeederWrite
    \/ ClearQueue

\* Any other step leaves it alone; only the queueing loop advances next.
LEMMA OtherStepsKeepLine ==
  ASSUME IInv, Next, ~LineSteps
  PROVE  /\ UNCHANGED <<fed, text_queue>>
         /\ Handing' => Handing /\ current' = current
         /\ UNCHANGED next \/ QueueLog \/ QueueDiscard
<1>1. CASE UserCall
  BY <1>1 DEF UserCall, StartEngine, SpawnProcess, PauseCall, ResumeCall, StopSignal,
              Handing, LineSteps
<1>2. CASE UiStep
  <2>1. CASE \/ QueueValidate \/ QueueLog \/ QueueDiscard \/ QueueDone
             \/ PauseFlag \/ PauseSetState \/ ResumeFlag \/ ResumeSetState
    BY <2>1 DEF QueueValidate, QueueLog, QueueDiscard, QueueDone, PauseFlag,
                PauseSetState, ResumeFlag, ResumeSetState, Wake, Handing
  <2>2. CASE \/ StopWake \/ StopJoinFeeder \/ StopJoinAudio \/ CleanupClose
             \/ CleanupPoll \/ CleanupTerm \/ CleanupRepoll \/ CleanupKill
             \/ StopSetIdle
    BY <2>2 DEF StopWake, StopJoinFeeder, StopJoinAudio, CleanupClose, CleanupPoll,
                CleanupTerm, CleanupRepoll, CleanupKill, CleanupWait, StopSetIdle,
                Wake, Handing
  <2>. QED  BY <1>2, <2>1, <2>2 DEF UiStep, LineSteps
<1>3. CASE FeederStep \/ FeederSpuriousWakeup
  BY <1>3 DEF FeederStep, FeederLoop, FeederLock, FeederCheck, FeederWait,
              FeederRecheck, FeederInspect, FeederPassOver, FeederFree,
              FeederSpuriousWakeup, Handing, LineSteps
<1>4. CASE AudioStep \/ ProcessExit \/ ProcessReads \/ AfterAbort
  BY <1>4 DEF AudioStep, AudioLoop, AudioPoll, ProcessExit, ProcessReads, AfterAbort,
              vars, Handing
<1>. QED  BY <1>1, <1>2, <1>3, <1>4 DEF Next

\* The line stays in order.
LEMMA LineStepsOrdered ==
  ASSUME IInv, LineOrdered, LineGrows, LineSteps
  PROVE  LineOrdered'
<1>. fed \in Seq(Segments) /\ text_queue \in Seq(Segments) /\ next \in Nat
  BY DEF IInv, TypeOK
<1>1. CASE StartFails
  <2>1. text_queue = <<>> /\ feeder = "none"
    BY <1>1 DEF StartFails, IInv, CopiesOwned, QueueEmptied, ThreadsJoined,
                NoFeederExpected
  <2>. QED  BY <1>1, <2>1 DEF StartFails, LineOrdered, Increasing, AllBelow, Handing
<1>2. CASE StartAudio
  <2>1. text_queue = <<>> /\ feeder \notin OwningSteps
    BY <1>2 DEF StartAudio, IInv, CopiesOwned, QueueEmptied, LineGrows
  <2>. QED
    BY <1>2, <2>1 DEF StartAudio, LineOrdered, Increasing, AllBelow, Handing,
                      OwningSteps
<1>3. CASE QueuePush
  <2>1. next \in Segments /\ LineBelow(next)
    BY <1>3 DEF QueuePush, PushAs, LineGrows
  <2>2. /\ text_queue' = Append(text_queue, next)
        /\ UNCHANGED <<fed, current>> /\ Handing' = Handing
    BY <1>3 DEF QueuePush, PushAs, Wake, Handing
  <2>3. Increasing(text_queue)' /\ Increasing(fed)'
    BY <2>1, <2>2, AppendOrdered DEF LineOrdered, LineBelow, Increasing
  <2>4. ASSUME NEW k \in 1..Len(text_queue')
        PROVE  \/ k \in 1..Len(text_queue) /\ text_queue'[k] = text_queue[k]
               \/ text_queue'[k] = next
    BY <2>1, <2>2
  <2>5. \A k \in 1..Len(text_queue') : AllBelow(fed', text_queue'[k])
    BY <2>1, <2>2, <2>4 DEF LineOrdered, LineBelow
  <2>6. Handing' => AllBelow(fed', current')
    BY <2>2 DEF LineOrdered
  <2>7. Handing' => \A k \in 1..Len(text_queue') : current' < text_queue'[k]
    BY <2>1, <2>2, <2>4 DEF LineOrdered, LineBelow
  <2>. QED  BY <2>3, <2>5, <2>6, <2>7 DEF LineOrdered, AllBelow
<1>4. CASE FeederPop
  <2>1. /\ text_queue # <<>> /\ text_queue' = Tail(text_queue)
        /\ current' = Head(text_queue) /\ fed' = fed
    BY <1>4 DEF FeederPop, IInv, FeederKnows
  <2>2. /\ Increasing(text_queue')
        /\ \A k \in 1..Len(text_queue') : current' < text_queue'[k]
        /\ \A k \in 1..Len(text_queue') :
              k + 1 \in 1..Len(text_queue) /\ text_queue'[k] = text_queue[k + 1]
        /\ 1 \in 1..Len(text_queue) /\ current' = text_queue[1]
    BY <2>1, PopOrdered DEF LineOrdered
  <2>3. AllBelow(fed', current')
    BY <2>1, <2>2 DEF LineOrdered
  <2>4. \A k \in 1..Len(text_queue') : AllBelow(fed', text_queue'[k])
    BY <2>1, <2>2 DEF LineOrdered
  <2>. QED  BY <2>1, <2>2, <2>3, <2>4 DEF LineOrdered, Increasing, AllBelow
<1>5. CASE FeederWrite
  <2>1. Handing /\ ~Handing' /\ text_queue' = text_queue
    BY <1>5 DEF FeederWrite, Handing
  <2>2. current \in Segments
    BY <1>5 DEF FeederWrite, IInv, HandHolds, OwningSteps
  <2>3. CASE fed' = fed
    BY <2>1, <2>3, LineKept
  <2>4. CASE fed' = Append(fed, current)
    <3>1. Increasing(fed')
      BY <2>1, <2>2, <2>4, AppendOrdered DEF LineOrdered
    <3>2. ASSUME NEW j \in 1..Len(fed')
          PROVE  (j \in 1..Len(fed) /\ fed'[j] = fed[j]) \/ fed'[j] = current
      BY <2>2, <2>4
    <3>3. \A k \in 1..Len(text_queue) : AllBelow(fed', text_queue[k])
      BY <2>1, <3>2 DEF LineOrdered, AllBelow
    <3>. QED  BY <2>1, <3>1, <3>3 DEF LineOrdered, Increasing, AllBelow
  <2>. QED  BY <1>5, <2>3, <2>4 DEF FeederWrite
<1>6. CASE ClearQueue
  <2>1. feeder = "none" /\ text_queue' = <<>> /\ UNCHANGED <<fed, feeder>>
    BY <1>6 DEF ClearQueue, IInv, ThreadsJoined, NoFeederExpected
  <2>. QED  BY <2>1 DEF LineOrdered, Increasing, AllBelow, Handing
<1>. QED  BY <1>1, <1>2, <1>3, <1>4, <1>5, <1>6 DEF LineSteps

\* What is queued and fed stays before what the session has yet to queue.
LEMMA NextLineGrows ==
  ASSUME IInv, LineOrdered, LineGrows, Next
  PROVE  LineGrows'
<1>. /\ fed \in Seq(Segments) /\ text_queue \in Seq(Segments)
     /\ next \in Nat /\ current \in Nat
  BY DEF IInv, TypeOK
<1>1. CASE StartFails
  BY <1>1 DEF StartFails, LineGrows
<1>2. CASE StartAudio
  <2>1. text_queue = <<>> /\ feeder \notin OwningSteps
    BY <1>2 DEF StartAudio, IInv, CopiesOwned, QueueEmptied, LineGrows
  <2>. QED
    BY <1>2, <2>1 DEF StartAudio, LineGrows, LineBelow, AllBelow, Handing, OwningSteps
<1>3. CASE QueuePush
  <2>1. next \in Segments /\ LineBelow(next)
    BY <1>3 DEF QueuePush, PushAs, LineGrows
  <2>2. /\ text_queue' = Append(text_queue, next) /\ ui' = "validate"
        /\ UNCHANGED <<fed, current, next>> /\ Handing' = Handing
    BY <1>3 DEF QueuePush, PushAs, Wake, Handing
  <2>3. AllBelow(text_queue', next + 1)
    BY <2>1, <2>2, AppendOrdered DEF LineOrdered, LineBelow
  <2>4. AllBelow(fed, next + 1)
    BY <2>1, BelowMono DEF LineBelow
  <2>5. Handing => current < next + 1
    BY <2>1 DEF LineBelow
  <2>. QED  BY <2>2, <2>3, <2>4, <2>5 DEF LineGrows, LineBelow, AllBelow
<1>4. CASE FeederPop
  <2>1. /\ text_queue # <<>> /\ text_queue' = Tail(text_queue)
        /\ current' = Head(text_queue) /\ UNCHANGED <<fed, ui, next>>
    BY <1>4 DEF FeederPop, IInv, FeederKnows
  <2>2. /\ \A k \in 1..Len(text_queue') :
              k + 1 \in 1..Len(text_queue) /\ text_queue'[k] = text_queue[k + 1]
        /\ 1 \in 1..Len(text_queue) /\ current' = text_queue[1]
    BY <2>1, PopOrdered DEF LineOrdered
  <2>3. ui # "start_audio"
    BY <2>1 DEF IInv, CopiesOwned, QueueEmptied
  <2>4. \A n : LineBelow(n) => LineBelow(n)'
    BY <2>1, <2>2 DEF LineBelow, AllBelow
  <2>. QED  BY <2>1, <2>3, <2>4 DEF LineGrows
<1>5. CASE FeederWrite
  <2>1. Handing /\ ~Handing' /\ UNCHANGED <<text_queue, ui, next>>
    BY <1>5 DEF FeederWrite, Handing
  <2>2. current \in Segments /\ ui # "start_audio"
    BY <1>5 DEF FeederWrite, IInv, HandHolds, OwningSteps, LineGrows
  <2>3. ASSUME NEW n, LineBelow(n) PROVE LineBelow(n)'
    <3>1. CASE fed' = fed
      BY <2>1, <2>3, <3>1, LineKept
    <3>2. CASE fed' = Append(fed, current)
      <4>1. ASSUME NEW j \in 1..Len(fed')
            PROVE  (j \in 1..Len(fed) /\ fed'[j] = fed[j]) \/ fed'[j] = current
        BY <2>2, <3>2
      <4>. QED  BY <2>1, <2>3, <4>1 DEF LineBelow, AllBelow
    <3>. QED  BY <1>5, <3>1, <3>2 DEF FeederWrite
  <2>. QED  BY <2>1, <2>2, <2>3 DEF LineGrows
<1>6. CASE ClearQueue
  BY <1>6 DEF ClearQueue, LineGrows
<1>7. CASE ~LineSteps
  <2>1. /\ UNCHANGED <<fed, text_queue>>
        /\ Handing' => Handing /\ current' = current
        /\ UNCHANGED next \/ QueueLog \/ QueueDiscard
    BY <1>7, OtherStepsKeepLine
  <2>2. \A n : LineBelow(n) => LineBelow(n)'
    BY <2>1, LineKept
  <2>3. CASE QueueLog \/ QueueDiscard
    BY <2>2, <2>3 DEF QueueLog, QueueDiscard, LineGrows
  <2>4. CASE UserCall
    <3>1. ui' # "queue" /\ ui' \notin {"validate", "log", "discard"}
      BY <2>4 DEF UserCall, StartEngine, StartFails, PauseCall, ResumeCall, StopSignal
    <3>2. ui' = "start_audio" => feeder' = "loop"
      BY <2>4 DEF UserCall, StartEngine, StartFails, PauseCall, ResumeCall, StopSignal
    <3>. QED  BY <3>1, <3>2 DEF LineGrows, OwningSteps
  <2>5. CASE UiStep /\ ~QueueLog /\ ~QueueDiscard
    <3>1. CASE QueueValidate
      BY <2>1, <2>2, <3>1 DEF QueueValidate, QueueLog, QueueDiscard, LineGrows
    <3>2. CASE ~QueueValidate
      <4>1. ui' \notin {"start_audio", "queue", "validate", "log", "discard"}
        BY <1>7, <2>5, <3>2
        DEF UiStep, LineSteps, QueueDone, PauseFlag, PauseSetState, ResumeFlag,
            ResumeSetState, StopWake, StopJoinFeeder, StopJoinAudio, CleanupClose,
            CleanupPoll, CleanupTerm, CleanupRepoll, CleanupKill, CleanupWait,
            StopSetIdle
      <4>. QED  BY <4>1 DEF LineGrows
    <3>. QED  BY <3>1, <3>2
  <2>6. CASE \/ FeederStep \/ FeederSpuriousWakeup
             \/ AudioStep \/ ProcessExit \/ ProcessReads \/ AfterAbort
    <3>1. UNCHANGED <<ui, next>> /\ (feeder' \in OwningSteps => feeder \in OwningSteps)
      BY <1>7, <2>6
      DEF FeederStep, FeederLoop, FeederLock, FeederCheck, FeederWait, FeederRecheck,
          FeederInspect, FeederPassOver, FeederFree, FeederSpuriousWakeup, AudioStep,
          AudioLoop, AudioPoll, ProcessExit, ProcessReads, AfterAbort, vars, OwningSteps, LineSteps
    <3>. QED  BY <2>2, <3>1 DEF LineGrows
  <2>. QED  BY <2>3, <2>4, <2>5, <2>6 DEF Next
<1>. QED  BY <1>1, <1>2, <1>3, <1>4, <1>5, <1>6, <1>7 DEF LineSteps
-------------------------------------------------------------------------------
(***************************************************************************)
(* The pause flag.                                                         *)
(***************************************************************************)

\* Neither thread changes what the other has seen under queue_mutex.
LEMMA NextPauseSeen ==
  ASSUME IInv, PauseSeen, Next
  PROVE  PauseSeen'
<1>. USE DEF PauseSeen
<1>1. CASE UserCall
  BY <1>1 DEF UserCall, StartEngine, StartFails, PauseCall, ResumeCall, StopSignal,
              IInv, StateOf, TypeOK
<1>2. CASE UiStep
  <2>1. CASE \/ StartAudio \/ QueuePush \/ QueueValidate \/ QueueLog \/ QueueDiscard
             \/ QueueDone
    BY <2>1 DEF StartAudio, QueuePush, PushAs, QueueValidate, QueueLog, QueueDiscard,
                QueueDone, Wake, IInv, StateOf, TypeOK
  <2>2. CASE PauseFlag
    <3>1. feeder \notin {"recheck", "pop"}
      BY <2>2 DEF PauseFlag, IInv, MutexHeld, LockedSteps
    <3>. QED  BY <2>2, <3>1 DEF PauseFlag, IInv, StateOf, TypeOK
  <2>3. CASE ResumeFlag
    BY <2>3 DEF ResumeFlag, Wake, IInv, StateOf, TypeOK
  <2>4. CASE PauseSetState \/ ResumeSetState
    BY <2>4 DEF PauseSetState, ResumeSetState, IInv, StateOf, TypeOK
  <2>5. CASE \/ StopWake \/ StopJoinFeeder \/ StopJoinAudio \/ CleanupClose
             \/ CleanupPoll \/ CleanupTerm \/ CleanupRepoll \/ CleanupKill
             \/ ClearQueue \/ StopSetIdle
    <3>1. state = "STOPPING" /\ state' \in {"STOPPING", "IDLE"} /\ ui' # "pause_set"
      BY <2>5 DEF StopWake, StopJoinFeeder, StopJoinAudio, CleanupClose, CleanupPoll,
                  CleanupTerm, CleanupRepoll, CleanupKill, CleanupWait, ClearQueue,
                  StopSetIdle, IInv, StateOf, StopSteps, JoinSteps, CleanupSteps
    <3>2. /\ UNCHANGED <<is_paused, should_stop_feeding>>
          /\ feeder' \in {"recheck", "pop"} => feeder' = feeder
      BY <2>5 DEF StopWake, StopJoinFeeder, StopJoinAudio, CleanupClose, CleanupPoll,
                  CleanupTerm, CleanupRepoll, CleanupKill, CleanupWait, ClearQueue,
                  StopSetIdle, Wake
    <3>. QED  BY <3>1, <3>2
  <2>. QED  BY <1>2, <2>1, <2>2, <2>3, <2>4, <2>5 DEF UiStep
<1>3. CASE FeederStep \/ FeederSpuriousWakeup
  <2>1. UNCHANGED <<state, ui, is_paused, should_stop_feeding>>
    BY <1>3 DEF FeederStep, FeederLoop, FeederLock, FeederCheck, FeederWait,
                FeederRecheck, FeederPop, FeederInspect, FeederPassOver, FeederWrite,
                FeederFree, FeederSpuriousWakeup
  <2>2. feeder' \in {"recheck", "pop"} => ~is_paused \/ should_stop_feeding
    BY <1>3 DEF FeederStep, FeederLoop, FeederLock, FeederCheck, FeederWait,
                FeederRecheck, FeederPop, FeederInspect, FeederPassOver, FeederWrite,
                FeederFree, FeederSpuriousWakeup, IInv, TypeOK
  <2>. QED  BY <2>1, <2>2
<1>4. CASE AudioStep \/ ProcessExit \/ ProcessReads \/ AfterAbort
  BY <1>4 DEF AudioStep, AudioLoop, AudioPoll, ProcessExit, ProcessReads, AfterAbort,
              vars
<1>. QED  BY <1>1, <1>2, <1>3, <1>4 DEF Next

\* StreamInv is inductive relative to IInv.
LEMMA NextStreamInv == IInv /\ StreamInv /\ [Next]_vars => StreamInv'
<1> SUFFICES ASSUME IInv, StreamInv, [Next]_vars PROVE StreamInv'
  OBVIOUS
<1>1. CASE Next
  <2>1. LineOrdered'
    BY <1>1, LineStepsOrdered, OtherStepsKeepLine, LineKept DEF StreamInv
  <2>. QED  BY <1>1, <2>1, NextLineGrows, NextPauseSeen DEF StreamInv
<1>2. CASE UNCHANGED vars
  BY <1>2 DEF vars, StreamInv, LineOrdered, LineGrows, PauseSeen, LineBelow,
              Increasing, AllBelow, Handing
<1>. QED  BY <1>1, <1>2

\* The engine never leaves StreamInv.
THEOREM StreamInvariant == Spec => []StreamInv
  BY InitStreamInv, NextStreamInv, EngineInvariant, PTL DEF Spec
-------------------------------------------------------------------------------
(***************************************************************************)
(* The order of the document.                                              *)
(***************************************************************************)

\* Two increasing sequences, one before the other, make an increasing one.
LEMMA ConcatIncreasing ==
  ASSUME NEW p \in Seq(Segments), NEW q \in Seq(Segments),
         Increasing(p), Increasing(q),
         \A k \in 1..Len(q) : AllBelow(p, q[k])
  PROVE  Increasing(p \o q)
<1>1. ASSUME NEW k \in 1..Len(p \o q)
      PROVE  \/ k \in 1..Len(p) /\ (p \o q)[k] = p[k]
             \/ /\ k > Len(p) /\ k - Len(p) \in 1..Len(q)
                /\ (p \o q)[k] = q[k - Len(p)]
  OBVIOUS
<1>. SUFFICES ASSUME NEW j \in 1..Len(p \o q), NEW k \in 1..Len(p \o q), j < k
              PROVE  (p \o q)[j] < (p \o q)[k]
  BY DEF Increasing
<1>. Len(p) \in Nat /\ Len(q) \in Nat
  OBVIOUS
<1>2. CASE k \in 1..Len(p)
  <2>1. j \in 1..Len(p) /\ (p \o q)[j] = p[j] /\ (p \o q)[k] = p[k]
    BY <1>1, <1>2
  <2>. QED  BY <2>1, <1>2 DEF Increasing
<1>3. CASE k > Len(p) /\ j \in 1..Len(p)
  <2>1. /\ k - Len(p) \in 1..Len(q) /\ (p \o q)[k] = q[k - Len(p)]
        /\ (p \o q)[j] = p[j]
    BY <1>1, <1>3
  <2>. QED  BY <2>1, <1>3 DEF AllBelow
<1>4. CASE k > Len(p) /\ j > Len(p)
  <2>1. /\ k - Len(p) \in 1..Len(q) /\ (p \o q)[k] = q[k - Len(p)]
        /\ j - Len(p) \in 1..Len(q) /\ (p \o q)[j] = q[j - Len(p)]
    BY <1>1, <1>4
  <2>2. j - Len(p) < k - Len(p)
    OBVIOUS
  <2>. QED  BY <2>1, <2>2 DEF Increasing
<1>. QED  BY <1>2, <1>3, <1>4, <1>1

\* The feeder hands segments to the process in the order of the document and
\* none of them twice, whatever is refused, dropped or discarded on the way.
THEOREM DocumentOrder == Spec => []InDocumentOrder
<1>1. ASSUME IInv, StreamInv PROVE InDocumentOrder
  <2>. DEFINE inHand == IF feeder \in {"inspect", "write"} THEN <<current>> ELSE <<>>
  <2>1. /\ fed \in Seq(Segments) /\ text_queue \in Seq(Segments)
        /\ Handing => current \in Segments
    BY <1>1 DEF IInv, TypeOK, HandHolds, OwningSteps, Handing
  <2>2. inHand \in Seq(Segments) /\ Increasing(inHand)
    BY <2>1 DEF Handing, Increasing
  <2>3. Increasing(fed \o inHand)
    <3>1. \A k \in 1..Len(inHand) : AllBelow(fed, inHand[k])
      BY <1>1 DEF StreamInv, LineOrdered, Handing
    <3>. QED  BY <1>1, <2>1, <2>2, <3>1, ConcatIncreasing DEF StreamInv, LineOrdered
  <2>4. ASSUME NEW k \in 1..Len(text_queue)
        PROVE  AllBelow(fed \o inHand, text_queue[k])
    <3>1. AllBelow(fed, text_queue[k])
      BY <1>1 DEF StreamInv, LineOrdered
    <3>2. AllBelow(inHand, text_queue[k])
      BY <1>1 DEF StreamInv, LineOrdered, AllBelow, Handing
    <3>3. ASSUME NEW j \in 1..Len(fed \o inHand)
          PROVE  \/ j \in 1..Len(fed) /\ (fed \o inHand)[j] = fed[j]
                 \/ /\ j - Len(fed) \in 1..Len(inHand)
                    /\ (fed \o inHand)[j] = inHand[j - Len(fed)]
      <4>. HIDE DEF inHand
      <4>. QED  BY <2>1, <2>2
    <3>. HIDE DEF inHand
    <3>. QED  BY <3>1, <3>2, <3>3 DEF AllBelow
  <2>5. Increasing((fed \o inHand) \o text_queue)
    <3>1. fed \o inHand \in Seq(Segments)
      BY <2>1, <2>2
    <3>. HIDE DEF inHand
    <3>. QED
      BY <1>1, <2>1, <2>3, <2>4, <3>1, ConcatIncreasing DEF StreamInv, LineOrdered
  <2>. QED  BY <2>5 DEF Increasing, InDocumentOrder
<1>. QED  BY <1>1, EngineInvariant, StreamInvariant, PTL
-------------------------------------------------------------------------------
(***************************************************************************)
(* The refinement of SpeechStream: each step of the engine is a step of    *)
(* the stream, or leaves what the controller sees of it alone.             *)
(***************************************************************************)

\* What the mapping of Stream makes of the engine's variables.
Mode == CASE state = "STARTING" -> "IDLE"
          [] ui = "resume_set" -> "ACTIVE"
          [] OTHER -> state
InFlight == IF feeder \in {"inspect", "write"} THEN current ELSE 0

\* A new engine is a stream that is not open.
LEMMA InitRefines == Init => Stream!Init
  BY DEF Init, Stream!Init

\* A step that leaves the stream alone.
LEMMA Stutters ==
  ASSUME Mode' = Mode, InFlight' = InFlight, UNCHANGED <<text_queue, fed>>
  PROVE  UNCHANGED Stream!streamVars
  BY DEF Stream!streamVars, Mode, InFlight

\* start opens the stream when it returns; queue_segment submits.
LEMMA StartRefines ==
  ASSUME IInv, StreamInv,
         \/ StartEngine \/ StartFails \/ StartAudio
         \/ QueuePush \/ QueueValidate \/ QueueLog \/ QueueDiscard \/ QueueDone
  PROVE  [Stream!Next]_(Stream!streamVars)
<1>. USE DEF Mode, InFlight
<1>1. CASE StartEngine
  <2>1. feeder = "none"
    BY <1>1 DEF StartEngine, IInv, ThreadsJoined, NoFeederExpected
  <2>. QED  BY <1>1, <2>1, Stutters DEF StartEngine, SpawnProcess
<1>2. CASE StartFails
  <2>1. feeder = "none" /\ ui # "resume_set"
    BY <1>2 DEF StartFails, IInv, ThreadsJoined, NoFeederExpected
  <2>2. Stream!Open
    BY <1>2, <2>1 DEF StartFails, Stream!Open
  <2>. QED  BY <2>2 DEF Stream!Next
<1>3. CASE StartAudio
  <2>1. state = "STARTING" /\ feeder \notin {"inspect", "write"}
    BY <1>3 DEF StartAudio, IInv, StateOf, StreamInv, LineGrows, OwningSteps
  <2>2. Stream!Open
    BY <1>3, <2>1 DEF StartAudio, Stream!Open
  <2>. QED  BY <2>2 DEF Stream!Next
<1>4. CASE QueuePush
  <2>1. state = "ACTIVE" /\ next \in 1..MaxSegments
    BY <1>4 DEF QueuePush, PushAs, IInv, StateOf, Segments
  <2>2. Stream!Submit(next)
    BY <1>4, <2>1 DEF QueuePush, PushAs, Wake, Stream!Submit
  <2>. QED  BY <2>1, <2>2 DEF Stream!Next
<1>5. CASE QueueValidate \/ QueueLog \/ QueueDiscard \/ QueueDone
  <2>1. ui # "resume_set" /\ ui' # "resume_set" /\ state' = state
    BY <1>5 DEF QueueValidate, QueueLog, QueueDiscard, QueueDone
  <2>2. UNCHANGED <<feeder, current, text_queue, fed>>
    BY <1>5 DEF QueueValidate, QueueLog, QueueDiscard, QueueDone
  <2>. QED  BY <2>1, <2>2, Stutters
<1>. QED  BY <1>1, <1>2, <1>3, <1>4, <1>5

\* pause holds the stream when it sets PAUSED, resume lets it go on when it
\* clears is_paused.
LEMMA PauseRefines ==
  ASSUME IInv, StreamInv,
         \/ PauseCall \/ PauseFlag \/ PauseSetState
         \/ ResumeCall \/ ResumeFlag \/ ResumeSetState
  PROVE  [Stream!Next]_(Stream!streamVars)
<1>. USE DEF Mode, InFlight
<1>1. CASE PauseCall \/ PauseFlag \/ ResumeCall
  BY <1>1, Stutters DEF PauseCall, PauseFlag, ResumeCall
<1>2. CASE PauseSetState
  <2>1. state = "ACTIVE"
    BY <1>2 DEF PauseSetState, IInv, StateOf
  <2>2. Stream!Hold
    BY <1>2, <2>1 DEF PauseSetState, Stream!Hold
  <2>. QED  BY <2>2 DEF Stream!Next
<1>3. CASE ResumeFlag
  <2>1. state = "PAUSED"
    BY <1>3 DEF ResumeFlag, IInv, StateOf
  <2>2. Stream!Continue
    BY <1>3, <2>1 DEF ResumeFlag, Wake, Stream!Continue
  <2>. QED  BY <2>2 DEF Stream!Next
<1>4. CASE ResumeSetState
  <2>1. state = "PAUSED"
    BY <1>4 DEF ResumeSetState, IInv, StateOf
  <2>. QED  BY <1>4, <2>1, Stutters DEF ResumeSetState
<1>. QED  BY <1>1, <1>2, <1>3, <1>4

\* stop begins to close the stream, discards its queue, and has closed it.
LEMMA StopRefines ==
  ASSUME IInv, StreamInv,
         \/ StopSignal \/ StopWake \/ StopJoinFeeder \/ StopJoinAudio
         \/ CleanupClose \/ CleanupPoll \/ CleanupTerm \/ CleanupRepoll
         \/ CleanupKill \/ ClearQueue \/ StopSetIdle
  PROVE  [Stream!Next]_(Stream!streamVars)
<1>. USE DEF Mode, InFlight
<1>1. CASE StopSignal
  <2>1. state \in {"ACTIVE", "PAUSED", "ERROR"}
    BY <1>1 DEF StopSignal, IInv, StateOf, TypeOK, States
  <2>2. Stream!BeginClose
    BY <1>1, <2>1 DEF StopSignal, Stream!BeginClose
  <2>. QED  BY <2>2 DEF Stream!Next
<1>2. CASE \/ StopWake \/ StopJoinFeeder \/ StopJoinAudio \/ CleanupClose
           \/ CleanupPoll \/ CleanupTerm \/ CleanupRepoll \/ CleanupKill
  <2>1. ui # "resume_set" /\ ui' # "resume_set" /\ state' = state
    BY <1>2 DEF StopWake, StopJoinFeeder, StopJoinAudio, CleanupClose, CleanupPoll,
                CleanupTerm, CleanupRepoll, CleanupKill, CleanupWait
  <2>2. InFlight' = InFlight /\ UNCHANGED <<text_queue, fed>>
    BY <1>2 DEF StopWake, Wake, StopJoinFeeder, StopJoinAudio, CleanupClose,
                CleanupPoll, CleanupTerm, CleanupRepoll, CleanupKill, CleanupWait
  <2>. QED  BY <2>1, <2>2, Stutters
<1>3. CASE ClearQueue
  <2>1. state = "STOPPING" /\ feeder = "none"
    BY <1>3 DEF ClearQueue, IInv, StateOf, StopSteps, ThreadsJoined, NoFeederExpected
  <2>2. Stream!Discard
    BY <1>3, <2>1 DEF ClearQueue, Stream!Discard
  <2>. QED  BY <2>2 DEF Stream!Next
<1>4. CASE StopSetIdle
  <2>1. state = "STOPPING" /\ feeder = "none" /\ text_queue = <<>>
    BY <1>4 DEF StopSetIdle, IInv, StateOf, StopSteps, ThreadsJoined,
                NoFeederExpected, CopiesOwned, QueueEmptied
  <2>2. Stream!EndClose
    BY <1>4, <2>1 DEF StopSetIdle, Stream!EndClose
  <2>. QED  BY <2>2 DEF Stream!Next
<1>. QED  BY <1>1, <1>2, <1>3, <1>4

\* The feeder takes a segment only from a stream that is not held, and is
\* done with it when it has written or refused it.
LEMMA FeederRefines ==
  ASSUME IInv, StreamInv, FeederStep \/ FeederSpuriousWakeup
  PROVE  [Stream!Next]_(Stream!streamVars)
<1>. USE DEF Mode, InFlight
<1>1. CASE FeederPop
  <2>1. text_queue # <<>>
    BY <1>1 DEF FeederPop, IInv, FeederKnows
  <2>2. state # "STARTING" /\ (ui = "resume_set" \/ state \in {"ACTIVE", "STOPPING"})
    <3>1. ~(ui = "idle" /\ state \in {"IDLE", "ERROR"}) /\ ui # "start_audio"
      BY <2>1 DEF IInv, CopiesOwned, QueueEmptied
    <3>2. state \in {"ACTIVE", "STOPPING", "PAUSED"}
      BY <3>1 DEF IInv, StateOf, TypeOK, UiSteps, StartSteps, PauseSteps
    <3>3. state = "PAUSED" => ui = "resume_set"
      BY <1>1 DEF FeederPop, StreamInv, PauseSeen
    <3>. QED  BY <3>2, <3>3
  <2>3. ui = "resume_set" => state = "PAUSED"
    BY DEF IInv, StateOf
  <2>4. Stream!Take
    BY <1>1, <2>1, <2>2, <2>3 DEF FeederPop, Stream!Take
  <2>. QED  BY <2>4 DEF Stream!Next
<1>2. CASE FeederInspect
  <2>1. current \in Segments /\ current # 0
    BY <1>2 DEF FeederInspect, IInv, HandHolds, OwningSteps, Segments
  <2>2. CASE feeder' = "write"
    BY <1>2, <2>2, Stutters DEF FeederInspect
  <2>3. CASE feeder' = "free"
    <3>1. Stream!HandOver
      BY <1>2, <2>1, <2>3 DEF FeederInspect, Stream!HandOver
    <3>. QED  BY <3>1 DEF Stream!Next
  <2>. QED  BY <1>2, <2>2, <2>3 DEF FeederInspect
<1>5. CASE FeederPassOver
  <2>1. current \in Segments /\ current # 0
    BY <1>5 DEF FeederPassOver, IInv, HandHolds, OwningSteps, Segments
  <2>2. Stream!HandOver
    BY <1>5, <2>1 DEF FeederPassOver, Stream!HandOver
  <2>. QED  BY <2>2 DEF Stream!Next
<1>3. CASE FeederWrite
  <2>1. current \in Segments /\ current # 0
    BY <1>3 DEF FeederWrite, IInv, HandHolds, OwningSteps, Segments
  <2>2. Stream!HandOver
    BY <1>3, <2>1 DEF FeederWrite, Stream!HandOver
  <2>. QED  BY <2>2 DEF Stream!Next
<1>4. CASE \/ FeederLoop \/ FeederLock \/ FeederCheck \/ FeederWait
           \/ FeederRecheck \/ FeederFree \/ FeederSpuriousWakeup
  <2>1. UNCHANGED <<state, ui, text_queue, fed>>
    BY <1>4 DEF FeederLoop, FeederLock, FeederCheck, FeederWait, FeederRecheck,
                FeederFree, FeederSpuriousWakeup
  <2>2. InFlight = 0 /\ InFlight' = 0
    BY <1>4 DEF FeederLoop, FeederLock, FeederCheck, FeederWait, FeederRecheck,
                FeederFree, FeederSpuriousWakeup
  <2>. QED  BY <2>1, <2>2, Stutters
<1>. QED  BY <1>1, <1>2, <1>3, <1>4, <1>5 DEF FeederStep

\* The engine implements the stream it promises to the audio controller:
\* segments are taken in the order of submission, at most once each, none
\* while the stream is held, and stop waits for the one in flight.
THEOREM EngineRefinesStream == Spec => RefinesSpeechStream
<1>1. IInv /\ StreamInv /\ [Next]_vars => [Stream!Next]_(Stream!streamVars)
  <2> SUFFICES ASSUME IInv, StreamInv, [Next]_vars
               PROVE  [Stream!Next]_(Stream!streamVars)
    OBVIOUS
  <2>1. CASE UserCall
    BY <2>1, StartRefines, PauseRefines, StopRefines DEF UserCall
  <2>2. CASE UiStep
    BY <2>2, StartRefines, PauseRefines, StopRefines DEF UiStep
  <2>3. CASE FeederStep \/ FeederSpuriousWakeup
    BY <2>3, FeederRefines
  <2>4. CASE \/ AudioStep \/ ProcessExit \/ ProcessReads \/ AfterAbort
             \/ UNCHANGED vars
    <3>1. UNCHANGED <<state, ui, feeder, current, text_queue, fed>>
      BY <2>4 DEF AudioStep, AudioLoop, AudioPoll, ProcessExit, ProcessReads,
                  AfterAbort, vars
    <3>. QED  BY <3>1, Stutters DEF Mode, InFlight
  <2>. QED  BY <2>1, <2>2, <2>3, <2>4 DEF Next
<1>. QED
  BY <1>1, InitRefines, EngineInvariant, StreamInvariant, PTL
  DEF Spec, RefinesSpeechStream, Stream!Spec
-------------------------------------------------------------------------------
(***************************************************************************)
(* Memory.  Every chain of memory errors has one of the two beginnings     *)
(* that FirstFault names.                                                  *)
(***************************************************************************)

\* The segment in the feeder's hands comes before the queued ones and the ones
\* that will be queued, also while it is freed.
HandBelow ==
    feeder \in OwningSteps =>
        /\ \A k \in 1..Len(text_queue) : current < text_queue[k]
        /\ ui = "queue" => current < next
        /\ ui \in {"validate", "log", "discard"} => current < next + 1

\* A copy that the feeder has or will get is live, unless it is at the length
\* limit and the caller, told that it was refused, has freed it.
Sound(s) == heap[s] = "live" \/ (s \in LongSegments /\ heap[s] = "freed")

CopiesSound ==
    faults = {} =>
        /\ \A k \in 1..Len(text_queue) : Sound(text_queue[k])
        /\ feeder \in OwningSteps => Sound(current)
        /\ ui = "discard" => next \in LongSegments

\* The copy that the queueing loop is busy with has been made.
CopyMade == ui \in {"validate", "log", "discard"} => heap[next] # "none"

MemoryInv == HandBelow /\ CopiesSound /\ CopyMade

\* There are no copies before the first session.
LEMMA InitMemoryInv == Init => MemoryInv
  BY DEF Init, MemoryInv, HandBelow, CopiesSound, CopyMade, OwningSteps

\* The order of the segment in hand and the others.
LEMMA NextHandBelow ==
  ASSUME IInv, StreamInv, HandBelow, Next
  PROVE  HandBelow'
<1>. /\ text_queue \in Seq(Segments) /\ next \in Nat /\ current \in Nat
  BY DEF IInv, TypeOK
<1>1. CASE QueuePush
  <2>1. /\ next \in Segments /\ text_queue' = Append(text_queue, next) /\ ui = "queue"
        /\ ui' = "validate" /\ UNCHANGED <<current, next>>
        /\ feeder' \in OwningSteps => feeder \in OwningSteps
    BY <1>1 DEF QueuePush, PushAs, Wake, OwningSteps
  <2>2. ASSUME NEW k \in 1..Len(text_queue')
        PROVE  \/ k \in 1..Len(text_queue) /\ text_queue'[k] = text_queue[k]
               \/ text_queue'[k] = next
    BY <2>1
  <2>. QED  BY <2>1, <2>2 DEF HandBelow
<1>2. CASE FeederPop
  <2>1. /\ text_queue # <<>> /\ text_queue' = Tail(text_queue)
        /\ current' = Head(text_queue) /\ UNCHANGED <<ui, next>>
    BY <1>2 DEF FeederPop, IInv, FeederKnows
  <2>2. /\ \A k \in 1..Len(text_queue') : current' < text_queue'[k]
        /\ 1 \in 1..Len(text_queue) /\ current' = text_queue[1]
    BY <2>1, PopOrdered DEF StreamInv, LineOrdered
  <2>. QED  BY <2>1, <2>2 DEF HandBelow, StreamInv, LineGrows, LineBelow, AllBelow
<1>3. CASE QueueLog \/ QueueDiscard
  BY <1>3 DEF QueueLog, QueueDiscard, HandBelow
<1>4. CASE QueueValidate
  BY <1>4 DEF QueueValidate, HandBelow
<1>5. CASE StartAudio
  <2>1. feeder \notin OwningSteps /\ feeder' = feeder
    BY <1>5 DEF StartAudio, StreamInv, LineGrows
  <2>. QED  BY <2>1 DEF HandBelow
<1>6. CASE ClearQueue
  <2>1. feeder = "none" /\ feeder' = feeder
    BY <1>6 DEF ClearQueue, IInv, ThreadsJoined, NoFeederExpected
  <2>. QED  BY <2>1 DEF HandBelow, OwningSteps
<1>7. CASE UserCall
  BY <1>7 DEF UserCall, StartEngine, SpawnProcess, StartFails, PauseCall, ResumeCall,
              StopSignal, HandBelow, OwningSteps
<1>8. CASE \/ QueueDone \/ PauseFlag \/ PauseSetState \/ ResumeFlag \/ ResumeSetState
           \/ StopWake \/ StopJoinFeeder \/ StopJoinAudio \/ CleanupClose
           \/ CleanupPoll \/ CleanupTerm \/ CleanupRepoll \/ CleanupKill \/ StopSetIdle
  <2>1. /\ ui' \notin {"queue", "validate", "log", "discard"}
        /\ UNCHANGED <<text_queue, current>>
        /\ feeder' \in OwningSteps => feeder \in OwningSteps
    BY <1>8 DEF QueueDone, PauseFlag, PauseSetState, ResumeFlag, ResumeSetState,
                StopWake, StopJoinFeeder, StopJoinAudio, CleanupClose, CleanupPoll,
                CleanupTerm, CleanupRepoll, CleanupKill, CleanupWait, StopSetIdle,
                Wake, OwningSteps
  <2>. QED  BY <2>1 DEF HandBelow
<1>9. CASE \/ FeederLoop \/ FeederLock \/ FeederCheck \/ FeederWait \/ FeederRecheck
           \/ FeederInspect \/ FeederPassOver \/ FeederWrite \/ FeederFree
           \/ FeederSpuriousWakeup \/ AudioStep \/ ProcessExit \/ ProcessReads \/ AfterAbort
  <2>1. /\ UNCHANGED <<ui, next, text_queue>>
        /\ feeder' \in OwningSteps => feeder \in OwningSteps /\ current' = current
    BY <1>9 DEF FeederLoop, FeederLock, FeederCheck, FeederWait, FeederRecheck,
                FeederInspect, FeederPassOver, FeederWrite, FeederFree,
                FeederSpuriousWakeup, AudioStep, AudioLoop, AudioPoll, ProcessExit, ProcessReads, AfterAbort, vars,
                OwningSteps
  <2>. QED  BY <2>1 DEF HandBelow
<1>. QED
  BY <1>1, <1>2, <1>3, <1>4, <1>5, <1>6, <1>7, <1>8, <1>9 DEF Next, UiStep, FeederStep

\* The steps that touch a copy or the heap.
MemorySteps ==
    \/ StartAudio \/ QueuePush \/ QueueValidate \/ QueueLog \/ QueueDiscard
    \/ ClearQueue \/ FeederPop \/ FeederInspect \/ FeederPassOver \/ FeederWrite
    \/ FeederFree

\* The other steps leave heap and copies alone.
LEMMA OtherStepsKeepMemory ==
  ASSUME IInv, Next, ~MemorySteps
  PROVE  /\ UNCHANGED <<heap, faults, text_queue>>
         /\ feeder' \in OwningSteps => feeder \in OwningSteps /\ current' = current
         /\ ui' \in {"validate", "log", "discard"} => ui' = ui /\ next' = next
<1>1. CASE UserCall
  BY <1>1 DEF UserCall, StartEngine, SpawnProcess, StartFails, PauseCall, ResumeCall,
              StopSignal, OwningSteps
<1>2. CASE UiStep
  BY <1>2 DEF UiStep, MemorySteps, QueueDone, PauseFlag, PauseSetState, ResumeFlag,
              ResumeSetState, StopWake, StopJoinFeeder, StopJoinAudio, CleanupClose,
              CleanupPoll, CleanupTerm, CleanupRepoll, CleanupKill, CleanupWait,
              StopSetIdle, Wake, OwningSteps
<1>3. CASE FeederStep \/ FeederSpuriousWakeup
  BY <1>3 DEF FeederStep, MemorySteps, FeederLoop, FeederLock, FeederCheck, FeederWait,
              FeederRecheck, FeederSpuriousWakeup, OwningSteps
<1>4. CASE AudioStep \/ ProcessExit \/ ProcessReads \/ AfterAbort
  BY <1>4 DEF AudioStep, AudioLoop, AudioPoll, ProcessExit, ProcessReads, AfterAbort,
              vars
<1>. QED  BY <1>1, <1>2, <1>3, <1>4 DEF Next

\* A step that reads a copy without an error has found it live.
LEMMA ReadFindsLive ==
  ASSUME NEW s, Read(s), faults' = {} PROVE heap[s] = "live" /\ faults = {}
  BY DEF Read

\* So has a step that frees copies.
LEMMA FreeFindsLive ==
  ASSUME NEW S, Free(S), faults' = {}
  PROVE  /\ faults = {} /\ \A s \in S : heap[s] = "live"
         /\ heap' = [s \in Segments |-> IF s \in S THEN "freed" ELSE heap[s]]
  BY DEF Free

\* The copies on their way are as CopiesSound says.
LEMMA MemoryStepsSound ==
  ASSUME IInv, StreamInv, MemoryInv, MemorySteps
  PROVE  CopiesSound' /\ CopyMade'
<1>. /\ text_queue \in Seq(Segments) /\ next \in Nat /\ current \in Nat
     /\ heap \in [Segments -> {"none", "live", "freed"}]
     /\ \A k \in 1..Len(text_queue) : text_queue[k] \in Segments
  BY DEF IInv, TypeOK
<1>. HandBelow /\ CopiesSound /\ CopyMade
  BY DEF MemoryInv
<1>1. CASE StartAudio
  <2>1. text_queue = <<>> /\ text_queue' = <<>> /\ feeder' \notin OwningSteps
        /\ ui' = "queue"
    BY <1>1 DEF StartAudio, IInv, CopiesOwned, QueueEmptied, StreamInv, LineGrows
  <2>. QED  BY <2>1 DEF CopiesSound, CopyMade
<1>2. CASE QueuePush
  <2>1. /\ next \in Segments /\ text_queue' = Append(text_queue, next)
        /\ heap' = [heap EXCEPT ![next] = "live"] /\ ui' = "validate"
        /\ UNCHANGED <<current, next, faults>>
        /\ feeder' \in OwningSteps => feeder \in OwningSteps
    BY <1>2 DEF QueuePush, PushAs, Wake, OwningSteps
  <2>2. ASSUME NEW k \in 1..Len(text_queue')
        PROVE  \/ k \in 1..Len(text_queue) /\ text_queue'[k] = text_queue[k]
               \/ text_queue'[k] = next
    BY <2>1
  <2>3. ASSUME NEW s \in Segments, Sound(s) \/ s = next PROVE Sound(s)'
    BY <2>1, <2>3 DEF Sound
  <2>4. feeder \in OwningSteps => current \in Segments
    BY DEF IInv, HandHolds
  <2>5. CopiesSound'
    BY <2>1, <2>2, <2>3, <2>4 DEF CopiesSound
  <2>6. CopyMade'
    BY <2>1 DEF CopyMade
  <2>. QED  BY <2>5, <2>6
<1>3. CASE QueueValidate
  <2>1. /\ UNCHANGED <<text_queue, heap, feeder, current, next>> /\ Read(next)
        /\ ui = "validate"
    BY <1>3 DEF QueueValidate
  <2>2. faults' = {} /\ ui' = "discard" => next \in LongSegments
    <3>1. SUFFICES ASSUME faults' = {}, ui' = "discard" PROVE next \in LongSegments
      OBVIOUS
    <3>2. heap[next] = "live"
      BY <2>1, <3>1, ReadFindsLive
    <3>3. ui' = IF next \notin LongSegments THEN "log" ELSE "discard"
      BY <1>3, <3>2 DEF QueueValidate, TestsAs
    <3>. QED  BY <3>1, <3>3
  <2>3. faults' = {} => faults = {}
    BY <2>1, ReadFindsLive
  <2>. QED  BY <2>1, <2>2, <2>3 DEF CopiesSound, CopyMade, Sound
<1>4. CASE QueueLog
  <2>1. /\ UNCHANGED <<text_queue, heap, feeder, current>> /\ Read(next)
        /\ ui' = "queue"
    BY <1>4 DEF QueueLog
  <2>2. faults' = {} => faults = {}
    BY <2>1, ReadFindsLive
  <2>. QED  BY <2>1, <2>2 DEF CopiesSound, CopyMade, Sound
<1>5. CASE QueueDiscard
  <2>1. /\ UNCHANGED <<text_queue, feeder, current>> /\ Free({next})
        /\ ui' = "queue" /\ ui = "discard"
    BY <1>5 DEF QueueDiscard
  <2>2. ASSUME faults' = {}
        PROVE  /\ faults = {} /\ next \in LongSegments
               /\ heap' = [s \in Segments |-> IF s \in {next} THEN "freed" ELSE heap[s]]
    BY <2>1, <2>2, FreeFindsLive DEF CopiesSound
  <2>3. ASSUME faults' = {}, NEW s \in Segments, Sound(s) PROVE Sound(s)'
    BY <2>2, <2>3 DEF Sound
  <2>4. feeder \in OwningSteps => current \in Segments
    BY DEF IInv, HandHolds
  <2>. QED  BY <2>1, <2>2, <2>3, <2>4 DEF CopiesSound, CopyMade
<1>6. CASE ClearQueue
  <2>1. feeder' = "none" /\ text_queue' = <<>> /\ ui' = "stopped"
    BY <1>6 DEF ClearQueue, IInv, ThreadsJoined, NoFeederExpected
  <2>. QED  BY <2>1 DEF CopiesSound, CopyMade, OwningSteps
<1>7. CASE FeederPop
  <2>1. /\ text_queue # <<>> /\ text_queue' = Tail(text_queue)
        /\ current' = Head(text_queue) /\ UNCHANGED <<ui, next, heap, faults>>
    BY <1>7 DEF FeederPop, IInv, FeederKnows
  <2>2. /\ \A k \in 1..Len(text_queue') :
              k + 1 \in 1..Len(text_queue) /\ text_queue'[k] = text_queue[k + 1]
        /\ 1 \in 1..Len(text_queue) /\ current' = text_queue[1]
    BY <2>1, PopOrdered DEF StreamInv, LineOrdered
  <2>. QED  BY <2>1, <2>2 DEF CopiesSound, CopyMade, Sound
<1>8. CASE FeederInspect \/ FeederWrite
  <2>1. /\ UNCHANGED <<text_queue, heap, current, ui, next>> /\ Read(current)
        /\ feeder \in OwningSteps
    BY <1>8 DEF FeederInspect, FeederWrite, OwningSteps
  <2>2. faults' = {} => faults = {}
    BY <2>1, ReadFindsLive
  <2>. QED  BY <2>1, <2>2 DEF CopiesSound, CopyMade, Sound
<1>10. CASE FeederPassOver
  <2>1. /\ UNCHANGED <<text_queue, heap, ui, next>> /\ Read(current)
        /\ feeder' = "loop" /\ heap[current] # "live"
    BY <1>10 DEF FeederPassOver
  <2>2. faults' # {}
    BY <2>1, ReadFindsLive
  <2>. QED  BY <2>1, <2>2 DEF CopiesSound, CopyMade
<1>9. CASE FeederFree
  <2>1. /\ UNCHANGED <<text_queue, ui, next>> /\ Free({current}) /\ feeder' = "loop"
        /\ feeder \in OwningSteps
    BY <1>9 DEF FeederFree, OwningSteps
  <2>2. ASSUME faults' = {}
        PROVE  /\ faults = {}
               /\ heap' = [s \in Segments |-> IF s \in {current} THEN "freed" ELSE heap[s]]
    BY <2>1, <2>2, FreeFindsLive
  <2>3. ASSUME faults' = {}, NEW k \in 1..Len(text_queue) PROVE Sound(text_queue[k])'
    <3>1. text_queue[k] # current /\ text_queue[k] \in Segments
      BY <2>1 DEF HandBelow
    <3>2. Sound(text_queue[k])
      BY <2>2, <2>3 DEF CopiesSound
    <3>. QED  BY <2>1, <2>2, <2>3, <3>1, <3>2 DEF Sound
  <2>4. CopiesSound'
    BY <2>1, <2>2, <2>3 DEF CopiesSound, OwningSteps
  <2>5. CopyMade'
    <3>1. ui \in {"validate", "log", "discard"} => next \in Segments
      BY DEF IInv, IndexInRange
    <3>. QED  BY <2>1, <3>1 DEF CopyMade, Free
  <2>. QED  BY <2>4, <2>5
<1>. QED
  BY <1>1, <1>2, <1>3, <1>4, <1>5, <1>6, <1>7, <1>8, <1>9, <1>10 DEF MemorySteps

\* MemoryInv is inductive relative to the two invariants before it.
LEMMA NextMemoryInv == IInv /\ StreamInv /\ MemoryInv /\ [Next]_vars => MemoryInv'
<1> SUFFICES ASSUME IInv, StreamInv, MemoryInv, [Next]_vars PROVE MemoryInv'
  OBVIOUS
<1>1. CASE UNCHANGED vars
  BY <1>1 DEF vars, MemoryInv, HandBelow, CopiesSound, CopyMade, Sound
<1>2. CASE Next
  <2>1. HandBelow'
    BY <1>2, NextHandBelow DEF MemoryInv
  <2>2. CASE MemorySteps
    BY <2>1, <2>2, MemoryStepsSound DEF MemoryInv
  <2>3. CASE ~MemorySteps
    <3>1. /\ UNCHANGED <<heap, faults, text_queue>>
          /\ feeder' \in OwningSteps => feeder \in OwningSteps /\ current' = current
          /\ ui' \in {"validate", "log", "discard"} => ui' = ui /\ next' = next
      BY <1>2, <2>3, OtherStepsKeepMemory
    <3>. QED  BY <2>1, <3>1 DEF MemoryInv, CopiesSound, CopyMade, Sound
  <2>. QED  BY <2>2, <2>3
<1>. QED  BY <1>1, <1>2

\* The engine never leaves MemoryInv.
THEOREM MemoryInvariant == Spec => []MemoryInv
  BY InitMemoryInv, NextMemoryInv, EngineInvariant, StreamInvariant, PTL DEF Spec

\* Memory errors begin in one of two ways: queue_segment or its caller touches
\* a copy after the feeder has freed it, or a copy at the length limit was
\* freed by the caller, which queue_segment told that it had been refused,
\* though it is queued.  The feeder and stop on their own commit none.
THEOREM FaultsHaveTwoCauses == Spec => MemoryErrorsHaveTwoCauses
<1>1. IInv /\ StreamInv /\ MemoryInv /\ [Next]_vars => [FirstFault]_vars
  <2> SUFFICES ASSUME IInv, StreamInv, MemoryInv, Next, faults = {}, faults' # {}
               PROVE  FreedUnderCaller \/ RefusedButQueued
    BY DEF FirstFault
  <2>. HandBelow /\ CopiesSound /\ CopyMade
    BY DEF MemoryInv
  <2>1. MemorySteps
    BY OtherStepsKeepMemory
  <2>2. CASE StartAudio \/ QueuePush \/ FeederPop
    BY <2>2 DEF StartAudio, QueuePush, PushAs, FeederPop
  <2>3. CASE QueueValidate \/ QueueLog \/ QueueDiscard
    <3>1. ui \in {"validate", "log", "discard"} /\ next \in Segments
      BY <2>3 DEF QueueValidate, QueueLog, QueueDiscard, IInv, IndexInRange
    <3>2. heap[next] # "live"
      BY <2>3 DEF QueueValidate, QueueLog, QueueDiscard, Read, Free
    <3>3. heap[next] \in {"none", "live", "freed"}
      BY <3>1 DEF IInv, TypeOK
    <3>. QED  BY <3>1, <3>2, <3>3 DEF CopyMade, FreedUnderCaller
  <2>4. CASE FeederInspect \/ FeederPassOver \/ FeederWrite \/ FeederFree
    <3>1. feeder \in OwningSteps /\ heap[current] # "live"
      BY <2>4 DEF FeederInspect, FeederPassOver, FeederWrite, FeederFree, Read, Free,
                  OwningSteps
    <3>. QED  BY <3>1 DEF CopiesSound, Sound, RefusedButQueued
  <2>5. CASE ClearQueue
    <3>1. PICK s \in ToSet(text_queue) : heap[s] # "live"
      BY <2>5 DEF ClearQueue, Free
    <3>2. PICK k \in 1..Len(text_queue) : s = text_queue[k]
      BY DEF ToSet, IInv, TypeOK
    <3>. QED  BY <3>1, <3>2 DEF CopiesSound, Sound, RefusedButQueued
  <2>. QED  BY <2>1, <2>2, <2>3, <2>4, <2>5 DEF MemorySteps
<1>. QED
  BY <1>1, EngineInvariant, StreamInvariant, MemoryInvariant, PTL
  DEF Spec, MemoryErrorsHaveTwoCauses
===============================================================================

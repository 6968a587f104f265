------------------------ MODULE StreamingEngineProofs ------------------------
(***************************************************************************)
(* The streaming engine is safe for every number of segments per session   *)
(* and whichever of them are at the length limit: IInv is an inductive     *)
(* invariant, and the safety properties of StreamingEngine follow from it. *)
(***************************************************************************)
EXTENDS StreamingEngine, TLAPS

\* The engine as tts_streaming_engine_new leaves it.
LEMMA InitInv == Init => IInv
<1> SUFFICES ASSUME Init PROVE IInv
  OBVIOUS
<1>1. TypeOK
  <2>1. next \in 1..(MaxSegments + 1) /\ current \in 0..MaxSegments
    BY MaxSegmentsAssumption DEF Init
  <2>2. text_queue \in Seq(Segments) /\ fed \in Seq(Segments)
    BY DEF Init
  <2>3. heap \in [Segments -> {"none", "live", "freed"}]
    BY DEF Init
  <2>4. process_pid \in 0..1
    BY DEF Init
  <2>5. faults \subseteq Faults
    BY DEF Init
  <2>. QED
    BY <2>1, <2>2, <2>3, <2>4, <2>5
    DEF Init, TypeOK, States, UiSteps, FeederSteps, AudioSteps, ProcessStates
<1>2. StateOf /\ IndexInRange
  BY DEF Init, StateOf, IndexInRange, StopSteps, JoinSteps, CleanupSteps
<1>3. ThreadsJoined /\ ProcessTracked
  BY DEF Init, ThreadsJoined, ProcessTracked
<1>4. MutexHeld /\ HandHolds /\ FeederKnows
  BY DEF Init, MutexHeld, HandHolds, FeederKnows, LockedSteps, OwningSteps
<1>5. CopiesOwned
  BY DEF Init, CopiesOwned, Aborted, Segments
<1>. QED  BY <1>1, <1>2, <1>3, <1>4, <1>5 DEF IInv
-------------------------------------------------------------------------------
(***************************************************************************)
(* Every step keeps IInv: a lemma per thread, a case per action.  Actions  *)
(* that touch the queue, the heap or the threads' life are split by the    *)
(* conjuncts of IInv they disturb.                                         *)
(***************************************************************************)
USE MaxSegmentsAssumption
USE DEF IInv, Segments, child, queue, flags, threads, session, UiMoves,
        FeederMoves, AudioMoves, FeederFrame, States, UiSteps, StartSteps,
        PauseSteps, StopSteps, JoinSteps, CleanupSteps, LockedSteps, OwningSteps,
        FeederSteps, AudioSteps, ProcessStates, Faults, Aborted

\* Appending to the queue adds its last element.
LEMMA ToSetAppend ==
  ASSUME NEW S, NEW q \in Seq(S), NEW x \in S
  PROVE  ToSet(q) \cup {x} \subseteq ToSet(Append(q, x))
<1>1. x = Append(q, x)[Len(q) + 1] /\ Len(q) + 1 \in DOMAIN Append(q, x)
  OBVIOUS
<1>2. ASSUME NEW i \in DOMAIN q
      PROVE  q[i] = Append(q, x)[i] /\ i \in DOMAIN Append(q, x)
  OBVIOUS
<1>. QED  BY <1>1, <1>2 DEF ToSet

\* What the feeder pops is the head of the queue; the rest stays in it.
LEMMA ToSetPop ==
  ASSUME NEW S, NEW q \in Seq(S), q # <<>>
  PROVE  /\ Head(q) \in S /\ Tail(q) \in Seq(S)
         /\ ToSet(q) \subseteq {Head(q)} \cup ToSet(Tail(q))
<1>1. Head(q) \in S /\ Tail(q) \in Seq(S)
  OBVIOUS
<1>2. ASSUME NEW i \in DOMAIN q PROVE q[i] \in {Head(q)} \cup ToSet(Tail(q))
  <2>1. CASE i = 1
    BY <2>1
  <2>2. CASE i # 1
    <3>1. i - 1 \in DOMAIN Tail(q) /\ Tail(q)[i - 1] = q[i]
      BY <2>2, <1>2
    <3>. QED  BY <3>1 DEF ToSet
  <2>. QED  BY <2>1, <2>2
<1>. QED  BY <1>1, <1>2 DEF ToSet

\* Reading and freeing segments keep the types of heap and faults.
LEMMA ReadType ==
  ASSUME TypeOK, NEW s, Read(s) PROVE faults' \subseteq Faults
  BY DEF TypeOK, Read, Faults

\* g_free of a segment (the discard of queue_segment, the drain of the
\* queue) keeps the heap and the fault set well typed.
LEMMA FreeType ==
  ASSUME TypeOK, NEW S, Free(S)
  PROVE  heap' \in [Segments -> {"none", "live", "freed"}] /\ faults' \subseteq Faults
<1>1. CASE \A s \in S : heap[s] = "live"
  BY <1>1 DEF TypeOK, Free
<1>2. CASE ~ \A s \in S : heap[s] = "live"
  BY <1>2 DEF TypeOK, Free, Faults
<1>. QED  BY <1>1, <1>2

\* start and the loop that queues the session's segments.
LEMMA StartInv ==
  ASSUME IInv,
         \/ StartEngine \/ StartFails \/ StartAudio
         \/ QueuePush \/ QueueValidate \/ QueueLog \/ QueueDiscard \/ QueueDone
  PROVE  IInv'
<1>1. CASE StartEngine
  <2>1. TypeOK'
    <3>1. process_pid' \in 0..1
      BY <1>1 DEF StartEngine, SpawnProcess
    <3>2. unflushed' \in BOOLEAN /\ should_stop_feeding' \in BOOLEAN
      BY <1>1, Zenon DEF StartEngine, SpawnProcess
    <3>. QED  BY <1>1, <3>1, <3>2 DEF StartEngine, SpawnProcess, TypeOK
  <2>2. StateOf' /\ IndexInRange'
    BY <1>1 DEF StartEngine, SpawnProcess, StateOf, IndexInRange, TypeOK
  <2>3. ThreadsJoined' /\ ProcessTracked'
    BY <1>1 DEF StartEngine, SpawnProcess, ThreadsJoined, ProcessTracked,
        NoFeederExpected, NoAudioExpected, NoProcessExpected, TypeOK
  <2>4. MutexHeld' /\ HandHolds' /\ FeederKnows'
    BY <1>1 DEF StartEngine, SpawnProcess, MutexHeld, HandHolds, FeederKnows,
        ThreadsJoined, NoFeederExpected, TypeOK
  <2>5. CopiesOwned'
    BY <1>1 DEF StartEngine, SpawnProcess, CopiesOwned, QueueEmptied, TypeOK
  <2>. QED  BY <2>1, <2>2, <2>3, <2>4, <2>5
<1>2. CASE StartFails
  BY <1>2 DEF StartFails, TypeOK, StateOf, IndexInRange, ThreadsJoined,
        ProcessTracked, MutexHeld, HandHolds, FeederKnows, CopiesOwned,
        NoFeederExpected, NoAudioExpected, NoProcessExpected, QueueEmptied
<1>3. CASE StartAudio
  <2>1. TypeOK'
    <3>1. heap' \in [Segments -> {"none", "live", "freed"}]
      BY <1>3 DEF StartAudio, TypeOK
    <3>2. next' \in 1..(MaxSegments + 1) /\ fed' \in Seq(Segments)
      BY <1>3 DEF StartAudio
    <3>3. should_stop_audio' \in BOOLEAN
      BY <1>3, Zenon DEF StartAudio
    <3>. QED  BY <1>3, <3>1, <3>2, <3>3 DEF StartAudio, TypeOK
  <2>2. StateOf' /\ IndexInRange'
    BY <1>3 DEF StartAudio, StateOf, IndexInRange, TypeOK
  <2>3. ThreadsJoined' /\ ProcessTracked'
    BY <1>3 DEF StartAudio, ThreadsJoined, ProcessTracked, NoFeederExpected,
        NoAudioExpected, NoProcessExpected, TypeOK
  <2>4. MutexHeld' /\ HandHolds' /\ FeederKnows'
    BY <1>3 DEF StartAudio, MutexHeld, HandHolds, FeederKnows, TypeOK
  <2>5. CopiesOwned'
    BY <1>3 DEF StartAudio, CopiesOwned, QueueEmptied, StateOf, TypeOK
  <2>. QED  BY <2>1, <2>2, <2>3, <2>4, <2>5
<1>4. CASE QueuePush
  <2>1. TypeOK'
    BY <1>4 DEF QueuePush, PushAs, Wake, TypeOK
  <2>2. StateOf' /\ IndexInRange'
    BY <1>4 DEF QueuePush, PushAs, Wake, StateOf, IndexInRange, TypeOK
  <2>3. ThreadsJoined' /\ ProcessTracked'
    BY <1>4 DEF QueuePush, PushAs, Wake, ThreadsJoined, ProcessTracked,
        NoFeederExpected, NoAudioExpected, NoProcessExpected, TypeOK
  <2>4. MutexHeld' /\ HandHolds' /\ FeederKnows'
    BY <1>4 DEF QueuePush, PushAs, Wake, MutexHeld, HandHolds, FeederKnows,
        TypeOK
  <2>5. CopiesOwned'
    <3>1. ToSet(text_queue) \cup {next} \subseteq ToSet(text_queue')
      BY <1>4, ToSetAppend DEF QueuePush, PushAs, TypeOK
    <3>2. \A s \in Segments : heap'[s] = "live" => s = next \/ heap[s] = "live"
      BY <1>4 DEF QueuePush, PushAs, TypeOK
    <3>. QED
      BY <1>4, <3>1, <3>2
      DEF QueuePush, PushAs, CopiesOwned, QueueEmptied, StateOf
  <2>. QED  BY <2>1, <2>2, <2>3, <2>4, <2>5
<1>5. CASE QueueValidate
  BY <1>5 DEF QueueValidate, Read, TestsAs, TypeOK, StateOf, IndexInRange,
        ThreadsJoined, ProcessTracked, MutexHeld, HandHolds, FeederKnows,
        CopiesOwned, NoFeederExpected, NoAudioExpected, NoProcessExpected,
        QueueEmptied
<1>6. CASE QueueLog
  BY <1>6 DEF QueueLog, Read, TypeOK, StateOf, IndexInRange, ThreadsJoined,
        ProcessTracked, MutexHeld, HandHolds, FeederKnows, CopiesOwned,
        NoFeederExpected, NoAudioExpected, NoProcessExpected, QueueEmptied
<1>7. CASE QueueDiscard
  <2>1. TypeOK'
    <3>1. heap' \in [Segments -> {"none", "live", "freed"}] /\ faults' \subseteq Faults
      BY <1>7, FreeType DEF QueueDiscard
    <3>2. next' \in 1..(MaxSegments + 1)
      BY <1>7 DEF QueueDiscard, TypeOK, IndexInRange
    <3>. QED  BY <1>7, <3>1, <3>2 DEF QueueDiscard, TypeOK
  <2>2. StateOf' /\ IndexInRange'
    BY <1>7 DEF QueueDiscard, Free, StateOf, IndexInRange, TypeOK
  <2>3. ThreadsJoined' /\ ProcessTracked'
    BY <1>7 DEF QueueDiscard, Free, ThreadsJoined, ProcessTracked,
        NoFeederExpected, NoAudioExpected, NoProcessExpected, TypeOK
  <2>4. MutexHeld' /\ HandHolds' /\ FeederKnows'
    BY <1>7 DEF QueueDiscard, Free, MutexHeld, HandHolds, FeederKnows, TypeOK
  <2>5. CopiesOwned'
    BY <1>7 DEF QueueDiscard, Free, CopiesOwned, QueueEmptied, TypeOK
  <2>. QED  BY <2>1, <2>2, <2>3, <2>4, <2>5
<1>8. CASE QueueDone
  BY <1>8 DEF QueueDone, TypeOK, StateOf, IndexInRange, ThreadsJoined,
        ProcessTracked, MutexHeld, HandHolds, FeederKnows, CopiesOwned,
        NoFeederExpected, NoAudioExpected, NoProcessExpected, QueueEmptied
<1>. QED  BY <1>1, <1>2, <1>3, <1>4, <1>5, <1>6, <1>7, <1>8

\* pause and resume.
LEMMA PauseInv ==
  ASSUME IInv,
         \/ PauseCall \/ PauseFlag \/ PauseSetState
         \/ ResumeCall \/ ResumeFlag \/ ResumeSetState
  PROVE  IInv'
<1>1. CASE PauseCall
  BY <1>1 DEF PauseCall, TypeOK, StateOf, IndexInRange, ThreadsJoined,
        ProcessTracked, MutexHeld, HandHolds, FeederKnows, CopiesOwned,
        NoFeederExpected, NoAudioExpected, NoProcessExpected, QueueEmptied
<1>2. CASE PauseFlag
  BY <1>2 DEF PauseFlag, TypeOK, StateOf, IndexInRange, ThreadsJoined,
        ProcessTracked, MutexHeld, HandHolds, FeederKnows, CopiesOwned,
        NoFeederExpected, NoAudioExpected, NoProcessExpected, QueueEmptied
<1>3. CASE PauseSetState
  BY <1>3 DEF PauseSetState, TypeOK, StateOf, IndexInRange, ThreadsJoined,
        ProcessTracked, MutexHeld, HandHolds, FeederKnows, CopiesOwned,
        NoFeederExpected, NoAudioExpected, NoProcessExpected, QueueEmptied
<1>4. CASE ResumeCall
  BY <1>4 DEF ResumeCall, TypeOK, StateOf, IndexInRange, ThreadsJoined,
        ProcessTracked, MutexHeld, HandHolds, FeederKnows, CopiesOwned,
        NoFeederExpected, NoAudioExpected, NoProcessExpected, QueueEmptied
<1>5. CASE ResumeFlag
  <2>1. TypeOK'
    <3>1. is_paused' \in BOOLEAN
      BY <1>5, Zenon DEF ResumeFlag
    <3>2. feeder' \in FeederSteps
      BY <1>5 DEF ResumeFlag, Wake, TypeOK
    <3>. QED  BY <1>5, <3>1, <3>2 DEF ResumeFlag, TypeOK
  <2>2. StateOf' /\ IndexInRange'
    BY <1>5 DEF ResumeFlag, Wake, StateOf, IndexInRange, TypeOK
  <2>3. ThreadsJoined' /\ ProcessTracked'
    BY <1>5 DEF ResumeFlag, Wake, ThreadsJoined, ProcessTracked,
        NoFeederExpected, NoAudioExpected, NoProcessExpected, TypeOK
  <2>4. MutexHeld' /\ HandHolds' /\ FeederKnows'
    BY <1>5 DEF ResumeFlag, Wake, MutexHeld, HandHolds, FeederKnows, TypeOK
  <2>5. CopiesOwned'
    BY <1>5 DEF ResumeFlag, Wake, CopiesOwned, QueueEmptied, TypeOK
  <2>. QED  BY <2>1, <2>2, <2>3, <2>4, <2>5
<1>6. CASE ResumeSetState
  BY <1>6 DEF ResumeSetState, TypeOK, StateOf, IndexInRange, ThreadsJoined,
        ProcessTracked, MutexHeld, HandHolds, FeederKnows, CopiesOwned,
        NoFeederExpected, NoAudioExpected, NoProcessExpected, QueueEmptied
<1>. QED  BY <1>1, <1>2, <1>3, <1>4, <1>5, <1>6

\* stop, with the process cleanup and the clearing of the queue.
LEMMA StopInv ==
  ASSUME IInv,
         \/ StopSignal \/ StopWake \/ StopJoinFeeder \/ StopJoinAudio
         \/ CleanupClose \/ CleanupPoll \/ CleanupTerm \/ CleanupRepoll
         \/ CleanupKill \/ ClearQueue \/ StopSetIdle
  PROVE  IInv'
<1>1. CASE StopSignal
  BY <1>1 DEF StopSignal, TypeOK, StateOf, IndexInRange, ThreadsJoined,
        ProcessTracked, MutexHeld, HandHolds, FeederKnows, CopiesOwned,
        NoFeederExpected, NoAudioExpected, NoProcessExpected, QueueEmptied
<1>2. CASE StopWake
  BY <1>2 DEF StopWake, Wake, TypeOK, StateOf, IndexInRange, ThreadsJoined,
        ProcessTracked, MutexHeld, HandHolds, FeederKnows, CopiesOwned,
        NoFeederExpected, NoAudioExpected, NoProcessExpected, QueueEmptied
<1>3. CASE StopJoinFeeder
  BY <1>3 DEF StopJoinFeeder, TypeOK, StateOf, IndexInRange, ThreadsJoined,
        ProcessTracked, MutexHeld, HandHolds, FeederKnows, CopiesOwned,
        NoFeederExpected, NoAudioExpected, NoProcessExpected, QueueEmptied
<1>4. CASE StopJoinAudio
  BY <1>4 DEF StopJoinAudio, TypeOK, StateOf, IndexInRange, ThreadsJoined,
        ProcessTracked, MutexHeld, HandHolds, FeederKnows, CopiesOwned,
        NoFeederExpected, NoAudioExpected, NoProcessExpected, QueueEmptied
<1>5. CASE CleanupClose
  <2>1. unflushed' \in BOOLEAN
    BY <1>5, Zenon DEF CleanupClose
  <2>2. QED
    BY <1>5, <2>1 DEF CleanupClose, TypeOK, StateOf, IndexInRange, ThreadsJoined,
        ProcessTracked, MutexHeld, HandHolds, FeederKnows, CopiesOwned,
        NoFeederExpected, NoAudioExpected, NoProcessExpected, QueueEmptied
<1>6. CASE CleanupPoll
  BY <1>6 DEF CleanupPoll, CleanupWait, TypeOK, StateOf, IndexInRange,
        ThreadsJoined, ProcessTracked, MutexHeld, HandHolds, FeederKnows,
        CopiesOwned, NoFeederExpected, NoAudioExpected, NoProcessExpected,
        QueueEmptied
<1>7. CASE CleanupTerm
  BY <1>7 DEF CleanupTerm, TypeOK, StateOf, IndexInRange, ThreadsJoined,
        ProcessTracked, MutexHeld, HandHolds, FeederKnows, CopiesOwned,
        NoFeederExpected, NoAudioExpected, NoProcessExpected, QueueEmptied
<1>8. CASE CleanupRepoll
  BY <1>8 DEF CleanupRepoll, CleanupWait, TypeOK, StateOf, IndexInRange,
        ThreadsJoined, ProcessTracked, MutexHeld, HandHolds, FeederKnows,
        CopiesOwned, NoFeederExpected, NoAudioExpected, NoProcessExpected,
        QueueEmptied
<1>9. CASE CleanupKill
  BY <1>9 DEF CleanupKill, TypeOK, StateOf, IndexInRange, ThreadsJoined,
        ProcessTracked, MutexHeld, HandHolds, FeederKnows, CopiesOwned,
        NoFeederExpected, NoAudioExpected, NoProcessExpected, QueueEmptied
<1>10. CASE ClearQueue
  <2>1. TypeOK'
    <3>1. heap' \in [Segments -> {"none", "live", "freed"}] /\ faults' \subseteq Faults
      BY <1>10, FreeType DEF ClearQueue
    <3>2. text_queue' \in Seq(Segments)
      BY <1>10 DEF ClearQueue
    <3>. QED  BY <1>10, <3>1, <3>2 DEF ClearQueue, TypeOK
  <2>2. StateOf' /\ IndexInRange'
    BY <1>10 DEF ClearQueue, Free, ToSet, StateOf, IndexInRange, TypeOK
  <2>3. ThreadsJoined' /\ ProcessTracked'
    BY <1>10 DEF ClearQueue, Free, ToSet, ThreadsJoined, ProcessTracked,
        NoFeederExpected, NoAudioExpected, NoProcessExpected, TypeOK
  <2>4. MutexHeld' /\ HandHolds' /\ FeederKnows'
    BY <1>10 DEF ClearQueue, Free, ToSet, MutexHeld, HandHolds, FeederKnows,
        ThreadsJoined, NoFeederExpected, TypeOK
  <2>5. CopiesOwned'
    BY <1>10 DEF ClearQueue, Free, ToSet, CopiesOwned, QueueEmptied,
        ThreadsJoined, NoFeederExpected, StateOf, TypeOK
  <2>. QED  BY <2>1, <2>2, <2>3, <2>4, <2>5
<1>11. CASE StopSetIdle
  BY <1>11 DEF StopSetIdle, TypeOK, StateOf, IndexInRange, ThreadsJoined,
        ProcessTracked, MutexHeld, HandHolds, FeederKnows, CopiesOwned,
        NoFeederExpected, NoAudioExpected, NoProcessExpected, QueueEmptied
<1>. QED  BY <1>1, <1>2, <1>3, <1>4, <1>5, <1>6, <1>7, <1>8, <1>9, <1>10, <1>11

\* The feeder thread.
LEMMA FeederInv ==
  ASSUME IInv,
         FeederStep \/ FeederSpuriousWakeup
  PROVE  IInv'
<1>1. CASE FeederLoop
  BY <1>1 DEF FeederLoop, TypeOK, StateOf, IndexInRange, ThreadsJoined,
        ProcessTracked, MutexHeld, HandHolds, FeederKnows, CopiesOwned,
        NoFeederExpected, NoAudioExpected, NoProcessExpected, QueueEmptied
<1>2. CASE FeederLock
  BY <1>2 DEF FeederLock, TypeOK, StateOf, IndexInRange, ThreadsJoined,
        ProcessTracked, MutexHeld, HandHolds, FeederKnows, CopiesOwned,
        NoFeederExpected, NoAudioExpected, NoProcessExpected, QueueEmptied
<1>3. CASE FeederCheck
  BY <1>3 DEF FeederCheck, TypeOK, StateOf, IndexInRange, ThreadsJoined,
        ProcessTracked, MutexHeld, HandHolds, FeederKnows, CopiesOwned,
        NoFeederExpected, NoAudioExpected, NoProcessExpected, QueueEmptied
<1>4. CASE FeederWait
  BY <1>4 DEF FeederWait, TypeOK, StateOf, IndexInRange, ThreadsJoined,
        ProcessTracked, MutexHeld, HandHolds, FeederKnows, CopiesOwned,
        NoFeederExpected, NoAudioExpected, NoProcessExpected, QueueEmptied
<1>5. CASE FeederRecheck
  BY <1>5 DEF FeederRecheck, TypeOK, StateOf, IndexInRange, ThreadsJoined,
        ProcessTracked, MutexHeld, HandHolds, FeederKnows, CopiesOwned,
        NoFeederExpected, NoAudioExpected, NoProcessExpected, QueueEmptied
<1>6. CASE FeederPop
  <2>1. TypeOK'
    <3>1. current' \in Segments /\ text_queue' \in Seq(Segments)
      BY <1>6, ToSetPop DEF FeederPop, TypeOK, FeederKnows
    <3>. QED  BY <1>6, <3>1 DEF FeederPop, TypeOK
  <2>2. StateOf' /\ IndexInRange'
    BY <1>6 DEF FeederPop, ToSet, StateOf, IndexInRange, TypeOK
  <2>3. ThreadsJoined' /\ ProcessTracked'
    BY <1>6 DEF FeederPop, ToSet, ThreadsJoined, ProcessTracked,
        NoFeederExpected, NoAudioExpected, NoProcessExpected, TypeOK
  <2>4. MutexHeld' /\ HandHolds' /\ FeederKnows'
    BY <1>6 DEF FeederPop, ToSet, MutexHeld, HandHolds, FeederKnows, TypeOK
  <2>5. CopiesOwned'
    <3>1. ToSet(text_queue) \subseteq {current'} \cup ToSet(text_queue')
      BY <1>6, ToSetPop DEF FeederPop, TypeOK, FeederKnows
    <3>2. current = 0 /\ ~NoFeederExpected /\ ~QueueEmptied'
      BY <1>6 DEF FeederPop, HandHolds, ThreadsJoined, NoFeederExpected, QueueEmptied,
                  FeederKnows, CopiesOwned
    <3>. QED
      BY <1>6, <3>1, <3>2 DEF FeederPop, CopiesOwned, TypeOK, NoFeederExpected
  <2>. QED  BY <2>1, <2>2, <2>3, <2>4, <2>5
<1>11. CASE FeederPassOver
  BY <1>11 DEF FeederPassOver, Read, TypeOK, StateOf, IndexInRange,
        ThreadsJoined, ProcessTracked, MutexHeld, HandHolds, FeederKnows,
        CopiesOwned, NoFeederExpected, NoAudioExpected, NoProcessExpected,
        QueueEmptied
<1>7. CASE FeederInspect
  BY <1>7 DEF FeederInspect, Read, TestsAs, TypeOK, StateOf, IndexInRange,
        ThreadsJoined, ProcessTracked, MutexHeld, HandHolds, FeederKnows,
        CopiesOwned, NoFeederExpected, NoAudioExpected, NoProcessExpected,
        QueueEmptied
<1>8. CASE FeederWrite
  <2>1. TypeOK'
    <3>1. current \in Segments /\ fed \in Seq(Segments)
      BY <1>8 DEF FeederWrite, TypeOK, HandHolds
    <3>2. fed' \in Seq(Segments)
      <4>1. Append(fed, current) \in Seq(Segments)
        BY <3>1
      <4>2. fed' = fed \/ fed' = Append(fed, current)
        BY <1>8 DEF FeederWrite
      <4>. QED  BY <3>1, <4>1, <4>2
    <3>3. faults' \subseteq Faults
      BY <1>8, ReadType DEF FeederWrite
    <3>4. unflushed' \in BOOLEAN
      BY <1>8, Zenon DEF FeederWrite
    <3>. QED  BY <1>8, <3>2, <3>3, <3>4 DEF FeederWrite, TypeOK
  <2>2. StateOf' /\ IndexInRange'
    BY <1>8 DEF FeederWrite, Read, StateOf, IndexInRange, TypeOK
  <2>3. ThreadsJoined' /\ ProcessTracked'
    BY <1>8 DEF FeederWrite, Read, ThreadsJoined, ProcessTracked,
        NoFeederExpected, NoAudioExpected, NoProcessExpected, TypeOK
  <2>4. MutexHeld' /\ HandHolds' /\ FeederKnows'
    BY <1>8 DEF FeederWrite, Read, MutexHeld, HandHolds, FeederKnows, TypeOK
  <2>5. CopiesOwned'
    BY <1>8 DEF FeederWrite, Read, CopiesOwned, QueueEmptied, HandHolds,
        ThreadsJoined, NoFeederExpected, TypeOK
  <2>. QED  BY <2>1, <2>2, <2>3, <2>4, <2>5
<1>9. CASE FeederFree
  <2>1. TypeOK'
    <3>1. heap' \in [Segments -> {"none", "live", "freed"}] /\ faults' \subseteq Faults
      BY <1>9, FreeType DEF FeederFree
    <3>2. current' \in 0..MaxSegments
      BY <1>9 DEF FeederFree
    <3>. QED  BY <1>9, <3>1, <3>2 DEF FeederFree, TypeOK
  <2>2. StateOf' /\ IndexInRange'
    BY <1>9 DEF FeederFree, Free, StateOf, IndexInRange, TypeOK
  <2>3. ThreadsJoined' /\ ProcessTracked'
    BY <1>9 DEF FeederFree, Free, ThreadsJoined, ProcessTracked,
        NoFeederExpected, NoAudioExpected, NoProcessExpected, TypeOK
  <2>4. MutexHeld' /\ HandHolds' /\ FeederKnows'
    BY <1>9 DEF FeederFree, Free, MutexHeld, HandHolds, FeederKnows, TypeOK
  <2>5. CopiesOwned'
    BY <1>9 DEF FeederFree, Free, CopiesOwned, QueueEmptied, HandHolds,
        ThreadsJoined, NoFeederExpected, StateOf, TypeOK
  <2>. QED  BY <2>1, <2>2, <2>3, <2>4, <2>5
<1>10. CASE FeederSpuriousWakeup
  BY <1>10 DEF FeederSpuriousWakeup, TypeOK, StateOf, IndexInRange,
        ThreadsJoined, ProcessTracked, MutexHeld, HandHolds, FeederKnows,
        CopiesOwned, NoFeederExpected, NoAudioExpected, NoProcessExpected,
        QueueEmptied
<1>. QED  BY <1>1, <1>2, <1>3, <1>4, <1>5, <1>6, <1>7, <1>8, <1>9, <1>10, <1>11
  DEF FeederStep

\* The audio thread and the process.
LEMMA AudioInv ==
  ASSUME IInv,
         AudioStep \/ ProcessExit \/ ProcessReads
  PROVE  IInv'
<1>1. CASE AudioLoop
  BY <1>1 DEF AudioLoop, TypeOK, StateOf, IndexInRange, ThreadsJoined,
        ProcessTracked, MutexHeld, HandHolds, FeederKnows, CopiesOwned,
        NoFeederExpected, NoAudioExpected, NoProcessExpected, QueueEmptied
<1>2. CASE AudioPoll
  BY <1>2 DEF AudioPoll, TypeOK, StateOf, IndexInRange, ThreadsJoined,
        ProcessTracked, MutexHeld, HandHolds, FeederKnows, CopiesOwned,
        NoFeederExpected, NoAudioExpected, NoProcessExpected, QueueEmptied
<1>3. CASE ProcessExit
  BY <1>3 DEF ProcessExit, TypeOK, StateOf, IndexInRange, ThreadsJoined,
        ProcessTracked, MutexHeld, HandHolds, FeederKnows, CopiesOwned,
        NoFeederExpected, NoAudioExpected, NoProcessExpected, QueueEmptied
<1>4. CASE ProcessReads
  <2>1. unflushed' \in BOOLEAN
    BY <1>4, Zenon DEF ProcessReads
  <2>2. QED
    BY <1>4, <2>1 DEF ProcessReads, TypeOK, StateOf, IndexInRange, ThreadsJoined,
        ProcessTracked, MutexHeld, HandHolds, FeederKnows, CopiesOwned,
        NoFeederExpected, NoAudioExpected, NoProcessExpected, QueueEmptied
<1>. QED  BY <1>1, <1>2, <1>3, <1>4 DEF AudioStep

\* IInv is inductive.
LEMMA NextInv == IInv /\ [Next]_vars => IInv'
<1> SUFFICES ASSUME IInv, [Next]_vars PROVE IInv'
  OBVIOUS
<1>1. CASE UserCall
  BY <1>1, StartInv, PauseInv, StopInv DEF UserCall
<1>2. CASE UiStep
  BY <1>2, StartInv, PauseInv, StopInv DEF UiStep
<1>3. CASE FeederStep \/ FeederSpuriousWakeup
  BY <1>3, FeederInv
<1>4. CASE AudioStep \/ ProcessExit \/ ProcessReads
  BY <1>4, AudioInv
<1>5. CASE AfterAbort \/ UNCHANGED vars
  <2>. UNCHANGED <<state, ui, child, queue, flags, threads, session>>
    BY <1>5 DEF AfterAbort, vars
  <2>. QED
    BY DEF TypeOK, StateOf, IndexInRange, ThreadsJoined, ProcessTracked, MutexHeld,
           HandHolds, FeederKnows, CopiesOwned, NoFeederExpected,
           NoAudioExpected, NoProcessExpected, QueueEmptied
<1>. QED  BY <1>1, <1>2, <1>3, <1>4, <1>5 DEF Next

\* The engine never leaves IInv.
THEOREM EngineInvariant == Spec => []IInv
  BY InitInv, NextInv, PTL DEF Spec
-------------------------------------------------------------------------------
(***************************************************************************)
(* What follows from it.                                                   *)
(***************************************************************************)

\* Every variable keeps its type; in particular the feeder pops only from a
\* queue that is not empty, and the queueing loop stays within its list.
THEOREM TypeCorrect == Spec => []TypeOK
<1>1. IInv => TypeOK
  OBVIOUS
<1>. QED  BY <1>1, EngineInvariant, PTL

\* A stop that has returned has joined both threads, reaped the process,
\* closed the channel and freed every segment copy of the session.
THEOREM StopReleases == Spec => []IdleReleasesEverything
<1>1. IInv => IdleReleasesEverything
  <2>1. SUFFICES ASSUME IInv, ui = "idle", state \in {"IDLE", "ERROR"}
                 PROVE  IdleReleasesEverything
    BY DEF IdleReleasesEverything
  <2>2. feeder = "none" /\ audio = "none"
    BY <2>1 DEF ThreadsJoined, NoFeederExpected, NoAudioExpected
  <2>3. /\ process \in {"none", "reaped"} /\ process_pid = 0
        /\ text_channel = "NULL"
    BY <2>1 DEF ProcessTracked, NoProcessExpected
  <2>4. text_queue = <<>> /\ current = 0
    BY <2>1, <2>2 DEF CopiesOwned, QueueEmptied, HandHolds
  <2>5. \A s \in Segments : heap[s] # "live"
    BY <2>1, <2>4 DEF CopiesOwned, ToSet
  <2>. QED  BY <2>2, <2>3, <2>4, <2>5 DEF IdleReleasesEverything
<1>. QED  BY <1>1, EngineInvariant, PTL

\* cleanup_process signals only a child that nobody has reaped.
THEOREM SignalsAreSafe == Spec => []SignalsReachOwnChild
<1>1. IInv => SignalsReachOwnChild
  BY DEF ProcessTracked, SignalsReachOwnChild
<1>. QED  BY <1>1, EngineInvariant, PTL

\* The feeder has an open channel whenever it has a segment to write.
THEOREM ChannelOutlivesFeeder == Spec => []FeederHasChannel
<1>1. IInv => FeederHasChannel
  BY DEF ThreadsJoined, FeederHasChannel
<1>. QED  BY <1>1, EngineInvariant, PTL

\* queue_segment and resume never lose a wake-up.
THEOREM WakeupsArrive == Spec => []NoMissedWakeup
<1>1. IInv => NoMissedWakeup
  BY DEF FeederKnows, NoMissedWakeup
<1>. QED  BY <1>1, EngineInvariant, PTL
===============================================================================

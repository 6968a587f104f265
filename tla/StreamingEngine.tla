--------------------------- MODULE StreamingEngine ---------------------------
(***************************************************************************)
(* The streaming speech engine (tts-streaming-engine.c): the UI thread that *)
(* calls it, the feeder thread that moves text segments from text_queue to *)
(* the stdin of the TTS process, the audio thread that watches the process, *)
(* and the process itself.                                                 *)
(*                                                                         *)
(* Only the UI thread takes state_mutex, so it is left out; queue_mutex    *)
(* and queue_cond are shared with the feeder and are modelled.  The UI     *)
(* thread's queue_mutex sections make one step each.  A call that returns  *)
(* at its first test (start when not IDLE, stop when IDLE, pause when not  *)
(* ACTIVE, resume when not PAUSED) changes nothing and is a stuttering     *)
(* step.                                                                   *)
(*                                                                         *)
(* Reading freed memory gives an arbitrary text, so a test on it may go    *)
(* either way; freeing a segment twice ends the program.                   *)
(***************************************************************************)
EXTENDS Naturals, Sequences, FiniteSets, SequencesExt

CONSTANTS
    MaxSegments,   \* most segments queued in one session
    LongSegments   \* those whose text is exactly 10000 bytes long

ASSUME MaxSegmentsAssumption == MaxSegments \in Nat \ {0}
ASSUME LongSegmentsAssumption == LongSegments \subseteq 1..MaxSegments

VARIABLES
    state,                \* engine->state
    process_pid,          \* engine->process_pid: 0, or 1 for the child's pid
    text_channel,         \* engine->text_channel
    unflushed,            \* the buffer of text_channel is not empty
    text_queue,           \* engine->text_queue
    queue_mutex,          \* who holds queue_mutex between two steps
    should_stop_feeding, should_stop_audio, is_paused,
    ui,                   \* where the UI thread is in the call it is making
    next,                 \* index of the session's next segment to queue
    feeder,               \* where the feeder thread is
    current,              \* the segment the feeder has popped, or 0
    audio,                \* where the audio thread is
    process,              \* the TTS process as the kernel knows it
    heap,                 \* the session's segment copies
    fed,                  \* segments reported as fed to the process, in order
    faults                \* memory errors committed so far

child == <<process_pid, text_channel, unflushed, process>>
queue == <<text_queue, queue_mutex>>
flags == <<should_stop_feeding, should_stop_audio, is_paused>>
threads == <<feeder, current, audio>>
session == <<next, heap, fed, faults>>
vars == <<state, ui, child, queue, flags, threads, session>>

Segments == 1..MaxSegments

States == {"IDLE", "STARTING", "ACTIVE", "PAUSED", "STOPPING", "ERROR"}

\* Inside a call of the engine; "idle" is the GTK main loop.
StartSteps == {"start_audio", "queue", "validate", "log", "discard"}
PauseSteps == {"pause_lock", "pause_set", "resume_lock", "resume_set"}
JoinSteps == {"wake", "join_feeder", "join_audio"}
CleanupSteps == {"close", "poll", "term", "repoll", "kill"}
StopSteps == JoinSteps \cup CleanupSteps \cup {"clear", "stopped"}
UiSteps == {"idle"} \cup StartSteps \cup PauseSteps \cup StopSteps

\* The steps of the feeder between locking and unlocking queue_mutex.
LockedSteps == {"check", "wait", "recheck", "pop"}
\* The steps in which it owns the segment it popped.
OwningSteps == {"inspect", "write", "free"}
FeederSteps == {"none", "loop", "lock", "waiting", "reacquire", "exited"}
                  \cup LockedSteps \cup OwningSteps

AudioSteps == {"none", "loop", "poll", "exited"}

ProcessStates == {"none", "running", "zombie", "reaped"}

Faults == {"use_after_free", "double_free"}

TypeOK ==
    /\ state \in States
    /\ process_pid \in 0..1
    /\ text_channel \in {"NULL", "open"}
    /\ unflushed \in BOOLEAN
    /\ text_queue \in Seq(Segments)
    /\ queue_mutex \in {"unlocked", "feeder"}
    /\ should_stop_feeding \in BOOLEAN
    /\ should_stop_audio \in BOOLEAN
    /\ is_paused \in BOOLEAN
    /\ ui \in UiSteps
    /\ next \in 1..(MaxSegments + 1)
    /\ feeder \in FeederSteps
    /\ current \in 0..MaxSegments
    /\ audio \in AudioSteps
    /\ process \in ProcessStates
    /\ heap \in [Segments -> {"none", "live", "freed"}]
    /\ fed \in Seq(Segments)
    /\ faults \subseteq Faults

Init ==
    /\ state = "IDLE"
    /\ process_pid = 0
    /\ text_channel = "NULL"
    /\ unflushed = FALSE
    /\ text_queue = <<>>
    /\ queue_mutex = "unlocked"
    /\ should_stop_feeding = FALSE
    /\ should_stop_audio = FALSE
    /\ is_paused = FALSE
    /\ ui = "idle"
    /\ next = 1
    /\ feeder = "none"
    /\ current = 0
    /\ audio = "none"
    /\ process = "none"
    /\ heap = [s \in Segments |-> "none"]
    /\ fed = <<>>
    /\ faults = {}
-------------------------------------------------------------------------------
(***************************************************************************)
(* Memory, threads and the condition variable.                             *)
(***************************************************************************)

\* Reading the text of segment s.
Read(s) ==
    faults' = IF heap[s] = "live" THEN faults
                                  ELSE faults \cup {"use_after_free"}

\* A test on the text of s that comes out as b when the memory is intact.
TestsAs(s, b) == IF heap[s] = "live" THEN {b} ELSE BOOLEAN

\* tts_text_segment_free on every segment of S.
Free(S) ==
    IF \A s \in S : heap[s] = "live"
    THEN /\ heap' = [s \in Segments |-> IF s \in S THEN "freed" ELSE heap[s]]
         /\ UNCHANGED faults
    ELSE /\ faults' = faults \cup {"double_free"}
         /\ UNCHANGED heap

\* The allocator ends a program that frees a segment twice.
Aborted == "double_free" \in faults

\* One step of a thread, between two places of its code.
UiMoves(from, to) == ~Aborted /\ ui = from /\ ui' = to
FeederMoves(from, to) == ~Aborted /\ feeder = from /\ feeder' = to
AudioMoves(from, to) == ~Aborted /\ audio = from /\ audio' = to

\* g_cond_broadcast or g_cond_signal on queue_cond: the feeder is its only
\* possible waiter.
Wake == feeder' = IF feeder = "waiting" THEN "reacquire" ELSE feeder
-------------------------------------------------------------------------------
(***************************************************************************)
(* UI thread: tts_streaming_engine_start, and the loop of                  *)
(* tts_audio_controller_start_streaming_session that queues copies of the  *)
(* session's segments.                                                     *)
(***************************************************************************)

\* fork and exec of the TTS command: a child, its pid and a channel to it.
SpawnProcess ==
    /\ process' = "running"
    /\ process_pid' = 1
    /\ text_channel' = "open"
    /\ unflushed' = FALSE

\* start up to the creation of the feeder thread.
StartEngine ==
    /\ state = "IDLE"
    /\ UiMoves("idle", "start_audio")
    /\ SpawnProcess
    /\ state' = "STARTING"
    /\ should_stop_feeding' = FALSE
    /\ feeder' = "loop"
    /\ UNCHANGED <<should_stop_audio, is_paused, current, audio, queue, session>>

\* start when the pipe or the fork fails.
StartFails ==
    /\ state = "IDLE"
    /\ UiMoves("idle", "idle")
    /\ state' = "ERROR"
    /\ fed' = <<>>
    /\ UNCHANGED <<child, queue, flags, threads, next, heap, faults>>

\* The rest of start.  The copies the session will make are new objects.
StartAudio ==
    /\ UiMoves("start_audio", "queue")
    /\ should_stop_audio' = FALSE
    /\ audio' = "loop"
    /\ state' = "ACTIVE"
    /\ next' = 1
    /\ heap' = [s \in Segments |-> IF heap[s] = "freed" THEN "none" ELSE heap[s]]
    /\ fed' = <<>>
    /\ UNCHANGED <<child, queue, should_stop_feeding, is_paused, feeder, current,
                   faults>>

\* queue_segment on a new copy, inside queue_mutex, with the queue it leaves.
PushAs(newQueue) ==
    /\ UiMoves("queue", "validate")
    /\ next \in Segments
    /\ queue_mutex = "unlocked"
    /\ heap' = [heap EXCEPT ![next] = "live"]
    /\ text_queue' = newQueue
    /\ UNCHANGED <<state, child, queue_mutex, flags, current, audio, next, fed,
                   faults>>

\* Mutants: no signal on queue_cond; the copy goes to the head of the queue.
QueuePushNoSignal == PushAs(Append(text_queue, next)) /\ UNCHANGED feeder
QueuePushHead == PushAs(<<next>> \o text_queue) /\ Wake

QueuePush == PushAs(Append(text_queue, next)) /\ Wake

\* The rest of queue_segment: a text of 10000 bytes or more is refused, after
\* it has been queued.
QueueValidate ==
    /\ ui = "validate"
    /\ \E accepted \in TestsAs(next, next \notin LongSegments) :
          UiMoves("validate", IF accepted THEN "log" ELSE "discard")
    /\ Read(next)
    /\ UNCHANGED <<state, child, queue, flags, threads, next, heap, fed>>

\* Mutant: the caller frees a copy that it has given to the queue.
QueueLogFrees ==
    /\ UiMoves("log", "queue")
    /\ Free({next})
    /\ next' = next + 1
    /\ UNCHANGED <<state, child, queue, flags, threads, fed>>

\* The caller logs the text of a copy it has queued.
QueueLog ==
    /\ UiMoves("log", "queue")
    /\ Read(next)
    /\ next' = next + 1
    /\ UNCHANGED <<state, child, queue, flags, threads, heap, fed>>

\* Mutant: the loop steps over the segment after a refused one.
QueueDiscardSkips ==
    /\ UiMoves("discard", "queue")
    /\ Free({next})
    /\ next' = next + 2
    /\ UNCHANGED <<state, child, queue, flags, threads, fed>>

\* The caller frees a copy that queue_segment has refused.
QueueDiscard ==
    /\ UiMoves("discard", "queue")
    /\ Free({next})
    /\ next' = next + 1
    /\ UNCHANGED <<state, child, queue, flags, threads, fed>>

\* The list of segments ends; sc_tts_toggle starts no empty session.
QueueDone ==
    /\ UiMoves("queue", "idle")
    /\ next > 1
    /\ UNCHANGED <<state, child, queue, flags, threads, session>>
-------------------------------------------------------------------------------
(***************************************************************************)
(* UI thread: tts_streaming_engine_pause and tts_streaming_engine_resume.  *)
(***************************************************************************)

\* A call passes its test on state and goes on to lock queue_mutex.
PauseCall ==
    /\ state = "ACTIVE"
    /\ UiMoves("idle", "pause_lock")
    /\ UNCHANGED <<state, child, queue, flags, threads, session>>

ResumeCall ==
    /\ state = "PAUSED"
    /\ UiMoves("idle", "resume_lock")
    /\ UNCHANGED <<state, child, queue, flags, threads, session>>

\* Mutant: pause does not lock queue_mutex.
PauseFlagUnlocked ==
    /\ UiMoves("pause_lock", "pause_set")
    /\ is_paused' = TRUE
    /\ UNCHANGED <<state, child, queue, should_stop_feeding, should_stop_audio,
                   threads, session>>

PauseFlag ==
    /\ UiMoves("pause_lock", "pause_set")
    /\ queue_mutex = "unlocked"
    /\ is_paused' = TRUE
    /\ UNCHANGED <<state, child, queue, should_stop_feeding, should_stop_audio,
                   threads, session>>

\* Mutant: resume does not wake the feeder.
ResumeFlagNoBroadcast ==
    /\ UiMoves("resume_lock", "resume_set")
    /\ queue_mutex = "unlocked"
    /\ is_paused' = FALSE
    /\ UNCHANGED <<state, child, queue, should_stop_feeding, should_stop_audio,
                   threads, session>>

ResumeFlag ==
    /\ UiMoves("resume_lock", "resume_set")
    /\ queue_mutex = "unlocked"
    /\ is_paused' = FALSE
    /\ Wake
    /\ UNCHANGED <<state, child, queue, should_stop_feeding, should_stop_audio,
                   current, audio, session>>

PauseSetState ==
    /\ UiMoves("pause_set", "idle")
    /\ state' = "PAUSED"
    /\ UNCHANGED <<child, queue, flags, threads, session>>

ResumeSetState ==
    /\ UiMoves("resume_set", "idle")
    /\ state' = "ACTIVE"
    /\ UNCHANGED <<child, queue, flags, threads, session>>
-------------------------------------------------------------------------------
(***************************************************************************)
(* UI thread: tts_streaming_engine_stop and cleanup_process.               *)
(***************************************************************************)

\* Mutant: stop forgets should_stop_audio.
StopSignalFeederOnly ==
    /\ state # "IDLE"
    /\ UiMoves("idle", "wake")
    /\ state' = "STOPPING"
    /\ should_stop_feeding' = TRUE
    /\ UNCHANGED <<child, queue, should_stop_audio, is_paused, threads, session>>

\* stop sets its flags without queue_mutex ...
StopSignal ==
    /\ state # "IDLE"
    /\ UiMoves("idle", "wake")
    /\ state' = "STOPPING"
    /\ should_stop_feeding' = TRUE
    /\ should_stop_audio' = TRUE
    /\ UNCHANGED <<child, queue, is_paused, threads, session>>

\* ... and broadcasts without it.
StopWake ==
    /\ UiMoves("wake", "join_feeder")
    /\ Wake
    /\ UNCHANGED <<state, child, queue, flags, current, audio, session>>

\* Mutants: a thread is dropped instead of being joined.
StopDropsFeeder ==
    /\ UiMoves("join_feeder", "join_audio")
    /\ UNCHANGED <<state, child, queue, flags, threads, session>>
StopDropsAudio ==
    /\ UiMoves("join_audio", "close")
    /\ UNCHANGED <<state, child, queue, flags, threads, session>>

\* g_thread_join, when there is a thread to join.
StopJoinFeeder ==
    /\ UiMoves("join_feeder", "join_audio")
    /\ feeder \in {"none", "exited"}
    /\ feeder' = "none"
    /\ UNCHANGED <<state, child, queue, flags, current, audio, session>>

StopJoinAudio ==
    /\ UiMoves("join_audio", "close")
    /\ audio \in {"none", "exited"}
    /\ audio' = "none"
    /\ UNCHANGED <<state, child, queue, flags, feeder, current, session>>

\* cleanup_process shuts the channel down, which first flushes it and so waits
\* for a process that runs to read; it is done if there was no process.  (The
\* second close is on a descriptor that is already closed.)
CleanupClose ==
    /\ UiMoves("close", IF process_pid > 0 THEN "poll" ELSE "clear")
    /\ unflushed => process # "running"
    /\ text_channel' = "NULL"
    /\ unflushed' = FALSE
    /\ UNCHANGED <<state, process_pid, process, queue, flags, threads, session>>

\* waitpid with WNOHANG: while the process runs, go on to the step ifRunning;
\* otherwise it is reaped (or had been: waitpid fails) and forgotten.
CleanupWait(from, ifRunning) ==
    /\ UiMoves(from, IF process = "running" THEN ifRunning ELSE "clear")
    /\ IF process = "running"
       THEN UNCHANGED <<process, process_pid>>
       ELSE process' = "reaped" /\ process_pid' = 0
    /\ UNCHANGED <<state, text_channel, unflushed, queue, flags, threads, session>>

CleanupPoll == CleanupWait("poll", "term")

\* SIGTERM to the process group, or else to the process; it may take effect
\* at any time or never.
CleanupTerm ==
    /\ UiMoves("term", "repoll")
    /\ UNCHANGED <<state, child, queue, flags, threads, session>>

CleanupRepoll == CleanupWait("repoll", "kill")

\* SIGKILL and a waitpid that blocks until the process is gone.
CleanupKill ==
    /\ UiMoves("kill", "clear")
    /\ process' = "reaped"
    /\ process_pid' = 0
    /\ UNCHANGED <<state, text_channel, unflushed, queue, flags, threads, session>>

\* Mutant: stop leaves the queue as it is.
ClearQueueSkipped ==
    /\ UiMoves("clear", "stopped")
    /\ UNCHANGED <<state, child, queue, flags, threads, session>>

ClearQueue ==
    /\ UiMoves("clear", "stopped")
    /\ queue_mutex = "unlocked"
    /\ Free(ToSet(text_queue))
    /\ text_queue' = <<>>
    /\ UNCHANGED <<state, child, queue_mutex, flags, threads, next, fed>>

StopSetIdle ==
    /\ UiMoves("stopped", "idle")
    /\ state' = "IDLE"
    /\ UNCHANGED <<child, queue, flags, threads, session>>
-------------------------------------------------------------------------------
(***************************************************************************)
(* Feeder thread: tts_text_feeder_thread.                                  *)
(***************************************************************************)
FeederFrame == UNCHANGED <<state, ui, child, flags, audio, next>>

\* The test of the outer while.
FeederLoop ==
    /\ FeederMoves("loop", IF should_stop_feeding THEN "exited" ELSE "lock")
    /\ FeederFrame /\ UNCHANGED <<queue, current, session>>

\* g_mutex_lock, and the relocking on the way out of g_cond_wait.
FeederLock ==
    /\ \E from \in {"lock", "reacquire"} : FeederMoves(from, "check")
    /\ queue_mutex = "unlocked"
    /\ queue_mutex' = "feeder"
    /\ FeederFrame /\ UNCHANGED <<text_queue, current, session>>

\* The test of the inner while.
FeederCheck ==
    /\ FeederMoves("check",
          IF (text_queue = <<>> \/ is_paused) /\ ~should_stop_feeding
          THEN "wait" ELSE "recheck")
    /\ FeederFrame /\ UNCHANGED <<queue, current, session>>

\* Mutant: the feeder waits without releasing queue_mutex.
FeederWaitLocked ==
    /\ FeederMoves("wait", "waiting")
    /\ FeederFrame /\ UNCHANGED <<queue, current, session>>

\* g_cond_wait unlocks queue_mutex and starts to wait in one step.
FeederWait ==
    /\ FeederMoves("wait", "waiting")
    /\ queue_mutex' = "unlocked"
    /\ FeederFrame /\ UNCHANGED <<text_queue, current, session>>

\* g_cond_wait may return for no reason.
FeederSpuriousWakeup ==
    /\ FeederMoves("waiting", "reacquire")
    /\ FeederFrame /\ UNCHANGED <<queue, current, session>>

\* The test on should_stop_feeding after the inner while.
FeederRecheck ==
    /\ FeederMoves("recheck", IF should_stop_feeding THEN "exited" ELSE "pop")
    /\ queue_mutex' = IF should_stop_feeding THEN "unlocked" ELSE "feeder"
    /\ FeederFrame /\ UNCHANGED <<text_queue, current, session>>

FeederPop ==
    /\ FeederMoves("pop", "inspect")
    /\ current' = Head(text_queue)
    /\ text_queue' = Tail(text_queue)
    /\ queue_mutex' = "unlocked"
    /\ FeederFrame /\ UNCHANGED session

\* Texts of 1..10000 bytes of UTF-8 pass, which is all that
\* tts_text_segment_new accepts.
FeederInspect ==
    /\ feeder = "inspect"
    /\ \E valid \in TestsAs(current, TRUE) :
          FeederMoves("inspect", IF valid THEN "write" ELSE "free")
    /\ Read(current)
    /\ FeederFrame /\ UNCHANGED <<queue, current, heap, fed>>

\* Memory that was freed may also read as a segment whose text is NULL, which
\* the feeder passes over and does not free.
FeederPassOver ==
    /\ FeederMoves("inspect", "loop")
    /\ heap[current] # "live"
    /\ Read(current)
    /\ current' = 0
    /\ FeederFrame /\ UNCHANGED <<queue, heap, fed>>

\* Writing the text and a newline and flushing; each may fail, and does when
\* the process is gone.  A failure is only logged, and leaves something in the
\* buffer of the channel (TextChannel has the details).
FeederWrite ==
    /\ FeederMoves("write", "free")
    /\ Read(current)
    /\ \/ unflushed' = TRUE /\ UNCHANGED fed
       \/ /\ text_channel = "open"
          /\ process = "running"
          /\ fed' = Append(fed, current)
          /\ unflushed' = FALSE
    /\ UNCHANGED <<state, ui, process_pid, text_channel, process, flags, audio, next,
                   queue, current, heap>>

FeederFree ==
    /\ FeederMoves("free", "loop")
    /\ Free({current})
    /\ current' = 0
    /\ FeederFrame /\ UNCHANGED <<queue, fed>>
-------------------------------------------------------------------------------
(***************************************************************************)
(* Audio thread (tts_audio_player_thread) and the TTS process.             *)
(***************************************************************************)
AudioLoop ==
    /\ AudioMoves("loop",
          IF should_stop_audio \/ process_pid = 0 THEN "exited" ELSE "poll")
    /\ UNCHANGED <<state, ui, child, queue, flags, feeder, current, session>>

\* waitpid with WNOHANG, which reaps a process that has ended.
AudioPoll ==
    /\ AudioMoves("poll", IF process = "running" THEN "loop" ELSE "exited")
    /\ process' = IF process = "running" THEN process ELSE "reaped"
    /\ UNCHANGED <<state, ui, process_pid, text_channel, unflushed, queue, flags, feeder,
                   current, session>>

\* The process group ends: it fails, is signalled, or has spoken its input.
ProcessExit ==
    /\ ~Aborted
    /\ process = "running"
    /\ process' = "zombie"
    /\ UNCHANGED <<state, ui, process_pid, text_channel, unflushed, queue, flags,
                   threads, session>>

\* The process makes room in the pipe for what shutdown is flushing.
ProcessReads ==
    /\ ~Aborted
    /\ ui = "close" /\ process = "running" /\ unflushed
    /\ unflushed' = FALSE
    /\ UNCHANGED <<state, ui, process_pid, text_channel, process, queue, flags,
                   threads, session>>
-------------------------------------------------------------------------------
\* What the user may ask for when the main loop is free.
UserCall == StartEngine \/ StartFails \/ PauseCall \/ ResumeCall \/ StopSignal

\* A call that has begun is carried on.
UiStep ==
    \/ StartAudio \/ QueuePush \/ QueueValidate \/ QueueLog \/ QueueDiscard
    \/ QueueDone \/ PauseFlag \/ PauseSetState \/ ResumeFlag \/ ResumeSetState
    \/ StopWake \/ StopJoinFeeder \/ StopJoinAudio \/ CleanupClose
    \/ CleanupPoll \/ CleanupTerm \/ CleanupRepoll \/ CleanupKill
    \/ ClearQueue \/ StopSetIdle

FeederStep ==
    \/ FeederLoop \/ FeederLock \/ FeederCheck \/ FeederWait \/ FeederRecheck
    \/ FeederPop \/ FeederInspect \/ FeederPassOver \/ FeederWrite \/ FeederFree

AudioStep == AudioLoop \/ AudioPoll

\* Nothing happens any more in a program that the allocator has ended.
AfterAbort == Aborted /\ UNCHANGED vars

Next ==
    \/ UserCall \/ UiStep \/ FeederStep \/ FeederSpuriousWakeup
    \/ AudioStep \/ ProcessExit \/ ProcessReads \/ AfterAbort

Spec == Init /\ [][Next]_vars

(***************************************************************************)
(* Each thread is scheduled while it can go on.  The UI thread may find    *)
(* queue_mutex taken again and again by a feeder that wakes up for no      *)
(* reason; a mutex that is released infinitely often is got in the end.    *)
(* That the process reads its input is an assumption about the process.    *)
(***************************************************************************)
Fairness ==
    /\ SF_vars(UiStep) /\ WF_vars(FeederStep) /\ WF_vars(AudioStep)
    /\ WF_vars(ProcessReads)

FairSpec == Spec /\ Fairness
-------------------------------------------------------------------------------
(***************************************************************************)
(* Safety.                                                                 *)
(***************************************************************************)

\* After stop has returned (or start has failed) nothing of the session is
\* left: both threads are joined, the process is reaped and its pid is
\* forgotten, the channel is closed, and every segment copy has been freed.
IdleReleasesEverything ==
    ui = "idle" /\ state \in {"IDLE", "ERROR"} =>
        /\ feeder = "none" /\ audio = "none"
        /\ process \in {"none", "reaped"} /\ process_pid = 0
        /\ text_channel = "NULL"
        /\ text_queue = <<>> /\ current = 0
        /\ \A s \in Segments : heap[s] # "live"

\* cleanup_process never signals a pid that has been reaped, which by then
\* could be the pid of an unrelated process, although the audio thread may
\* reap the process at any moment until it is joined.
SignalsReachOwnChild ==
    ui \in {"term", "kill"} => process \in {"running", "zombie"}

\* The feeder never writes to a channel that stop has closed under it.
FeederHasChannel ==
    feeder \in OwningSteps => text_channel = "open"

\* The segments fed so far, the one in the feeder's hands and the queue are,
\* together, an increasing sequence: segments reach the process in the order
\* of the document and none reaches it twice.
InDocumentOrder ==
    LET inHand == IF feeder \in {"inspect", "write"} THEN <<current>> ELSE <<>>
        line == fed \o inHand \o text_queue
    IN  \A j, k \in 1..Len(line) : j < k => line[j] < line[k]

\* The feeder sleeps on queue_cond only with a reason to: nothing is queued,
\* it is paused, or it has been told to stop.  queue_segment and resume never
\* leave it asleep on work it could do.
NoMissedWakeup ==
    feeder = "waiting" =>
        text_queue = <<>> \/ is_paused \/ should_stop_feeding

\* A copy at the length limit that the caller, told that it was refused, has
\* freed, although the feeder has it or will get it.
RefusedButQueued ==
    \E s \in LongSegments :
        /\ heap[s] = "freed"
        /\ s = current \/ \E k \in 1..Len(text_queue) : s = text_queue[k]

\* queue_segment and its caller go on with a copy after they have given it to
\* the feeder, which has freed it.
FreedUnderCaller == ui \in {"validate", "log", "discard"} /\ heap[next] = "freed"

\* A session's copies are shared by two threads that do not agree on who frees
\* them, and memory errors do happen; but the first is always due to one of
\* these two, so that the feeder and stop commit none on their own.
FirstFault == faults = {} /\ faults' # {} => FreedUnderCaller \/ RefusedButQueued

MemoryErrorsHaveTwoCauses == [][FirstFault]_vars

\* The engine implements the abstract stream.  A call holds state_mutex, so
\* the state it is changing is not seen until it returns: STARTING reads as
\* IDLE, and a resume takes effect when it clears is_paused.
Stream == INSTANCE SpeechStream WITH
    mode <- CASE state = "STARTING" -> "IDLE"
              [] ui = "resume_set" -> "ACTIVE"
              [] OTHER -> state,
    pending <- text_queue,
    inflight <- IF feeder \in {"inspect", "write"} THEN current ELSE 0,
    fed <- fed

RefinesSpeechStream == Stream!Spec
-------------------------------------------------------------------------------
(***************************************************************************)
(* The inductive invariant behind the safety properties (proved in         *)
(* StreamingEngineProofs).                                                 *)
(***************************************************************************)

\* The state that goes with each place of the UI thread.
StateOf ==
    /\ ui = "idle" => state \in {"IDLE", "ACTIVE", "PAUSED", "ERROR"}
    /\ ui = "start_audio" => state = "STARTING"
    /\ ui \in {"queue", "validate", "log", "discard", "pause_lock", "pause_set"}
          => state = "ACTIVE"
    /\ ui \in {"resume_lock", "resume_set"} => state = "PAUSED"
    /\ ui \in StopSteps => state = "STOPPING"

\* The index of the queueing loop inside its body.
IndexInRange == ui \in {"validate", "log", "discard"} => next \in Segments

\* The UI thread is between two sessions, or far enough in stop for ...
NoFeederExpected ==
    \/ ui = "idle" /\ state \in {"IDLE", "ERROR"}
    \/ ui \in {"join_audio", "clear", "stopped"} \cup CleanupSteps
NoAudioExpected ==
    \/ ui = "idle" /\ state \in {"IDLE", "ERROR"}
    \/ ui \in {"start_audio", "clear", "stopped"} \cup CleanupSteps
NoProcessExpected ==
    \/ ui = "idle" /\ state \in {"IDLE", "ERROR"}
    \/ ui \in {"clear", "stopped"}

ThreadsJoined ==
    /\ NoFeederExpected => feeder = "none"
    /\ NoAudioExpected => audio = "none"
    /\ feeder # "none" => text_channel = "open"

ProcessTracked ==
    /\ NoProcessExpected => process_pid = 0 /\ text_channel = "NULL"
    /\ process_pid = 0 => process \in {"none", "reaped"}
    /\ ui \in {"poll", "term", "repoll", "kill"} => text_channel = "NULL"
    /\ ui \in {"term", "repoll", "kill"} => process \in {"running", "zombie"}

MutexHeld == queue_mutex = "feeder" <=> feeder \in LockedSteps

HandHolds == IF feeder \in OwningSteps THEN current \in Segments ELSE current = 0

\* What the feeder has learnt under queue_mutex stays true while it holds it.
FeederKnows ==
    /\ feeder \in {"wait", "waiting"} =>
          text_queue = <<>> \/ is_paused \/ should_stop_feeding
    /\ feeder = "recheck" => text_queue # <<>> \/ should_stop_feeding
    /\ feeder = "pop" => text_queue # <<>>

QueueEmptied ==
    \/ ui = "idle" /\ state \in {"IDLE", "ERROR"}
    \/ ui \in {"start_audio", "stopped"}

\* A live copy is on its way to the feeder or in its hands.
CopiesOwned ==
    /\ QueueEmptied => text_queue = <<>>
    /\ ~Aborted => \A s \in Segments :
          heap[s] = "live" => s = current \/ s \in ToSet(text_queue)
    /\ ui = "idle" /\ state \in {"IDLE", "ERROR"} => ~Aborted

IInv ==
    /\ TypeOK /\ StateOf /\ IndexInRange /\ ThreadsJoined /\ ProcessTracked
    /\ MutexHeld /\ HandHolds /\ FeederKnows /\ CopiesOwned

(***************************************************************************)
(* What InDocumentOrder and the refinement need on top of IInv (proved in  *)
(* StreamingEngineRefinement).                                             *)
(***************************************************************************)
Increasing(q) == \A j, k \in 1..Len(q) : j < k => q[j] < q[k]
AllBelow(q, n) == \A k \in 1..Len(q) : q[k] < n

\* The feeder has a segment in its hands that it may still write.
Handing == feeder \in {"inspect", "write"}

\* Fed segments come before the one in hand, and that before the queued ones.
LineOrdered ==
    /\ Increasing(fed) /\ Increasing(text_queue)
    /\ \A k \in 1..Len(text_queue) : AllBelow(fed, text_queue[k])
    /\ Handing => /\ AllBelow(fed, current)
                  /\ \A k \in 1..Len(text_queue) : current < text_queue[k]

LineBelow(n) ==
    AllBelow(fed, n) /\ AllBelow(text_queue, n) /\ (Handing => current < n)

\* All that a session has queued comes before what it will queue; a feeder
\* that is just being started has nothing in its hands.
LineGrows ==
    /\ ui = "start_audio" => feeder \notin OwningSteps
    /\ ui = "queue" => LineBelow(next)
    /\ ui \in {"validate", "log", "discard"} => LineBelow(next + 1)

\* A feeder that has passed the test on is_paused goes on to pop under the
\* same lock, so a pause that has set the flag is not overtaken.
PauseSeen ==
    /\ feeder \in {"recheck", "pop"} => ~is_paused \/ should_stop_feeding
    /\ ui = "pause_set" => is_paused
    /\ state = "PAUSED" /\ ui # "resume_set" => is_paused
    /\ state \in {"STARTING", "ACTIVE", "PAUSED"} => ~should_stop_feeding

StreamInv == LineOrdered /\ LineGrows /\ PauseSeen
-------------------------------------------------------------------------------
(***************************************************************************)
(* Liveness, under FairSpec.                                               *)
(***************************************************************************)

\* While the engine is active and not paused, what is queued is taken.
QueueDrains ==
    (state = "ACTIVE" /\ ~is_paused /\ text_queue # <<>>)
        ~> (text_queue = <<>> \/ state # "ACTIVE" \/ Aborted)

\* start with its queueing loop, pause and resume return.
CallsReturn ==
    (ui \in StartSteps \cup PauseSteps) ~> (ui = "idle" \/ Aborted)

\* stop returns if the feeder is not asleep, or about to sleep, when stop
\* comes to join it; also when it has to flush text that the feeder could not,
\* and when the process goes away in the middle of that.
StopReturnsUnlessAsleep ==
    (ui = "join_feeder" /\ feeder \notin {"wait", "waiting"})
        ~> (ui = "idle" \/ Aborted)
-------------------------------------------------------------------------------
(***************************************************************************)
(* Statements of the documentation and of comments that the code does not  *)
(* keep; each is refuted by a run.                                         *)
(***************************************************************************)

\* "No threading deadlocks or crashes": stop always ends.  It does not when
\* it signals between the feeder's test of should_stop_feeding and its wait.
StopTerminates == (state = "STOPPING") ~> (state = "IDLE" \/ Aborted)

\* "the system SHALL begin reading": an active session with a running process
\* has its segments taken.  After pause and stop, is_paused is still set in
\* the next session, which resume refuses to resume.
ReadingBegins ==
    (state = "ACTIVE" /\ text_queue # <<>>)
        ~> \/ text_queue = <<>> \/ state # "ACTIVE"
           \/ process # "running" \/ Aborted
===============================================================================

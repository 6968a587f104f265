------------------------------ MODULE TtsEngine ------------------------------
(***************************************************************************)
(* A TTS engine object (tts-engine.c) with one of its three backends       *)
(* (tts-engine-piper.c, tts-engine-speechd.c, tts-engine-espeak.c): the    *)
(* calls of the engine interface, the process a backend spawns for a text, *)
(* and the signals and waits with which it pauses, replaces and ends it.   *)
(*                                                                         *)
(* The calls come from one thread, one at a time.  A call that waits for   *)
(* its process is a sequence of steps (op, pc), between which the process  *)
(* runs on; the others are one step.  A call with no engine_data returns   *)
(* false and changes nothing: those are the stuttering steps.  The callers *)
(* follow plugin.c in that an engine is initialized when it has no         *)
(* engine_data.  The flag is_speaking is left out: no code reads it.       *)
(*                                                                         *)
(* A process is a child of the viewer.  That of piper is a shell, and the  *)
(* commands of its pipeline, which get none of the signals sent to it, are *)
(* not modelled: they may go on speaking when the child has ended.         *)
(***************************************************************************)
EXTENDS Integers

CONSTANTS
    Voices,      \* names a configuration may select
    NoVoice,     \* voice_name == NULL
    MaxSpawns    \* most processes spawned in a behaviour

ASSUME NoVoiceAssumption == NoVoice \notin Voices
ASSUME MaxSpawnsAssumption == MaxSpawns \in Nat \ {0}

VARIABLES
    engine,           \* the engine object: "NULL" or its type
    is_available, state,
    voice,            \* engine->config.voice_name
    engine_data,      \* "NULL" or "live"
    current_process, is_paused,
    current_voice,    \* the voice of the next command (piper: of model_path)
    process,          \* what the kernel knows of every child spawned
    spawned,          \* number of processes spawned
    op, pc            \* the call in progress and where it is

object == <<engine, is_available, state, voice>>
data == <<engine_data, current_process, is_paused, current_voice>>
kernel == <<process, spawned>>
call == <<op, pc>>
vars == <<object, data, kernel, call>>

Backends == {"PIPER", "SPEECH_DISPATCHER", "ESPEAK"}

Types == Backends \cup {"SYSTEM"}

States == {"IDLE", "SPEAKING", "PAUSED", "ERROR"}

Pids == 1..MaxSpawns

TypeOK ==
    /\ engine \in Types \cup {"NULL"}
    /\ is_available \in BOOLEAN
    /\ state \in States
    /\ voice \in Voices \cup {NoVoice}
    /\ engine_data \in {"NULL", "live"}
    /\ current_process \in 0..MaxSpawns
    /\ is_paused \in BOOLEAN
    /\ current_voice \in Voices \cup {NoVoice}
    /\ process \in [Pids -> {"none", "running", "stopped", "zombie", "reaped"}]
    /\ spawned \in 0..MaxSpawns
    /\ op \in {"none", "speak", "stop", "cleanup", "free"}
    /\ pc \in {"ready", "grace", "wait", "spawn"}

Init ==
    /\ engine = "NULL" /\ is_available = FALSE
    /\ state = "IDLE" /\ voice = NoVoice
    /\ engine_data = "NULL" /\ current_process = 0
    /\ is_paused = FALSE /\ current_voice = NoVoice
    /\ process = [p \in Pids |-> "none"]
    /\ spawned = 0
    /\ op = "none" /\ pc = "ready"
-------------------------------------------------------------------------------
(***************************************************************************)
(* Processes.  A zombie still accepts signals, without effect; so kill     *)
(* fails only for a process that has been reaped.                          *)
(***************************************************************************)

Signalled(p) == process[p] # "reaped"

\* SIGSTOP and SIGCONT.
Moved(p, to) ==
    IF process[p] \in {"running", "stopped"}
    THEN [process EXCEPT ![p] = to]
    ELSE process

\* SIGKILL takes effect on a stopped process as well; SIGTERM stays pending
\* there, and a running process that got it exits like any other.
Killed(p) == Moved(p, "zombie")

ProcessExits ==
    \E p \in Pids :
        /\ process[p] = "running"
        /\ process' = [process EXCEPT ![p] = "zombie"]
        /\ UNCHANGED <<object, data, spawned, call>>
-------------------------------------------------------------------------------
(***************************************************************************)
(* Creation, initialization and configuration.                             *)
(***************************************************************************)

Ready == op = "none" /\ engine # "NULL"

\* tts_engine_new: which commands and models are installed is up to the
\* system; the system engine is never available.
New ==
    /\ engine = "NULL"
    /\ op = "none"
    /\ \E type \in Types :
        /\ engine' = type
        /\ is_available' \in IF type = "SYSTEM" THEN {FALSE} ELSE BOOLEAN
    /\ state' = "IDLE"
    /\ voice' = NoVoice
    /\ UNCHANGED <<data, kernel, call>>

\* tts_engine_init and the init of the backend.
InitEngine ==
    /\ Ready
    /\ is_available
    /\ engine_data = "NULL"
    /\ voice' \in Voices \cup {NoVoice}
    /\ current_voice' = voice'
    /\ engine_data' = "live"
    /\ current_process' = 0
    /\ is_paused' = FALSE
    /\ state' = "IDLE"
    /\ UNCHANGED <<engine, is_available, kernel, call>>

\* Mutant: the next command keeps the old voice.
SetConfigIgnored ==
    /\ Ready
    /\ engine_data = "live"
    /\ voice' \in Voices \cup {NoVoice}
    /\ UNCHANGED <<engine, is_available, state, data, kernel, call>>

\* set_config: piper keeps its model when no voice is named.
SetConfig ==
    /\ Ready
    /\ engine_data = "live"
    /\ voice' \in Voices \cup {NoVoice}
    /\ current_voice' = IF engine = "PIPER" /\ voice' = NoVoice
                        THEN current_voice
                        ELSE voice'
    /\ UNCHANGED <<engine, is_available, state, engine_data, current_process,
                   is_paused, kernel, call>>
-------------------------------------------------------------------------------
(***************************************************************************)
(* Ending the current process: speak, stop and cleanup signal it and wait. *)
(***************************************************************************)

\* Where a call is after its SIGTERM: cleanup, and the speak of Speech
\* Dispatcher, wait at once; the others allow some time and then kill.
AfterTerm(o) ==
    IF o \in {"cleanup", "free"} \/ (o = "speak" /\ engine = "SPEECH_DISPATCHER")
    THEN "wait" ELSE "grace"

\* Mutant: a process that does not react is not killed.
GraceNoKill ==
    /\ pc = "grace"
    /\ pc' = "wait"
    /\ UNCHANGED <<object, data, kernel, op>>

\* usleep, kill(pid, 0), SIGKILL.
Grace ==
    /\ pc = "grace"
    /\ process' = IF Signalled(current_process)
                  THEN Killed(current_process) ELSE process
    /\ pc' = "wait"
    /\ UNCHANGED <<object, data, spawned, op>>

\* The end of cleanup and of free.
ReleaseData ==
    /\ engine_data' = "NULL"
    /\ current_process' = 0
    /\ is_paused' = FALSE
    /\ current_voice' = NoVoice
    /\ state' = "IDLE"

FreeEngine == engine' = "NULL" /\ is_available' = FALSE /\ voice' = NoVoice

\* waitpid returns: the process is a zombie.
WaitReturns ==
    /\ pc = "wait"
    /\ process[current_process] = "zombie"
    /\ process' = [process EXCEPT ![current_process] = "reaped"]
    /\ \/ /\ op = "speak"
          /\ current_process' = 0
          /\ pc' = "spawn"
          /\ UNCHANGED <<object, engine_data, is_paused, current_voice, op>>
       \/ /\ op = "stop"
          /\ current_process' = 0
          /\ is_paused' = FALSE
          /\ state' = "IDLE"
          /\ op' = "none" /\ pc' = "ready"
          /\ UNCHANGED <<engine, is_available, voice, engine_data, current_voice>>
       \/ /\ op = "cleanup"
          /\ ReleaseData
          /\ op' = "none" /\ pc' = "ready"
          /\ UNCHANGED <<engine, is_available, voice>>
       \/ /\ op = "free"
          /\ ReleaseData
          /\ FreeEngine
          /\ op' = "none" /\ pc' = "ready"
    /\ UNCHANGED <<spawned>>
-------------------------------------------------------------------------------
(***************************************************************************)
(* Speech.                                                                 *)
(***************************************************************************)

SpeakCall ==
    /\ Ready
    /\ engine_data = "live"
    /\ spawned < MaxSpawns
    /\ op' = "speak"
    /\ pc' = IF current_process > 0 THEN AfterTerm("speak") ELSE "spawn"
    /\ UNCHANGED <<object, data, kernel>>

\* Mutants: the state is not set; the new process is not remembered as
\* running when the one before it was paused.
SpawnKeepsState ==
    /\ pc = "spawn"
    /\ spawned' = spawned + 1
    /\ process' = [process EXCEPT ![spawned'] = "running"]
    /\ current_process' = spawned'
    /\ is_paused' = FALSE
    /\ op' = "none" /\ pc' = "ready"
    /\ UNCHANGED <<object, engine_data, current_voice>>

SpawnKeepsPaused ==
    /\ pc = "spawn"
    /\ spawned' = spawned + 1
    /\ process' = [process EXCEPT ![spawned'] = "running"]
    /\ current_process' = spawned'
    /\ state' = "SPEAKING"
    /\ op' = "none" /\ pc' = "ready"
    /\ UNCHANGED <<engine, is_available, voice, engine_data, is_paused,
                   current_voice>>

Spawn ==
    /\ pc = "spawn"
    /\ spawned' = spawned + 1
    /\ process' = [process EXCEPT ![spawned'] = "running"]
    /\ current_process' = spawned'
    /\ is_paused' = FALSE
    /\ state' = "SPEAKING"
    /\ op' = "none" /\ pc' = "ready"
    /\ UNCHANGED <<engine, is_available, voice, engine_data, current_voice>>

\* No model, a command line that cannot be parsed, or g_spawn_async fails:
\* state and is_paused stay what they were.
SpawnFails ==
    /\ pc = "spawn"
    /\ op' = "none" /\ pc' = "ready"
    /\ UNCHANGED <<object, data, kernel>>

\* Mutant: the process is stopped and nothing remembers it.
PauseUnnoticed(pause) ==
    /\ Ready
    /\ engine_data = "live"
    /\ current_process > 0
    /\ Signalled(current_process)
    /\ process' = Moved(current_process, IF pause THEN "stopped" ELSE "running")
    /\ UNCHANGED <<object, data, spawned, call>>

\* SIGSTOP and SIGCONT.
Pause(pause) ==
    /\ Ready
    /\ engine_data = "live"
    /\ current_process > 0
    /\ Signalled(current_process)
    /\ process' = Moved(current_process, IF pause THEN "stopped" ELSE "running")
    /\ is_paused' = pause
    /\ state' = IF pause THEN "PAUSED" ELSE "SPEAKING"
    /\ UNCHANGED <<engine, is_available, voice, engine_data, current_process,
                   current_voice, spawned, call>>

\* Mutant: stop waits without the SIGKILL.
StopNeverKills ==
    /\ Ready
    /\ engine_data = "live"
    /\ current_process > 0
    /\ op' = "stop" /\ pc' = "wait"
    /\ UNCHANGED <<object, data, kernel>>

Stop ==
    /\ Ready
    /\ engine_data = "live"
    /\ \/ /\ current_process > 0
          /\ op' = "stop" /\ pc' = AfterTerm("stop")
          /\ UNCHANGED <<object, data>>
       \/ /\ current_process = 0
          /\ is_paused' = FALSE
          /\ state' = "IDLE"
          /\ UNCHANGED <<engine, is_available, voice, engine_data,
                         current_process, current_voice, call>>
    /\ UNCHANGED <<kernel>>

\* Mutants: the process that has finished is not reaped; it is marked as
\* gone with the value a failed call returns.
GetStateNoWait ==
    /\ Ready
    /\ engine_data = "live"
    /\ current_process > 0
    /\ process[current_process] = "zombie"
    /\ current_process' = 0
    /\ is_paused' = FALSE
    /\ state' = "IDLE"
    /\ UNCHANGED <<engine, is_available, voice, engine_data, current_voice,
                   kernel, call>>

GetStateMinusOne ==
    /\ Ready
    /\ engine_data = "live"
    /\ current_process > 0
    /\ process[current_process] = "zombie"
    /\ process' = [process EXCEPT ![current_process] = "reaped"]
    /\ current_process' = -1
    /\ is_paused' = FALSE
    /\ state' = "IDLE"
    /\ UNCHANGED <<engine, is_available, voice, engine_data, current_voice,
                   spawned, call>>

\* get_state reaps a process that has finished; otherwise it only answers.
GetState ==
    /\ Ready
    /\ engine_data = "live"
    /\ current_process > 0
    /\ process[current_process] = "zombie"
    /\ process' = [process EXCEPT ![current_process] = "reaped"]
    /\ current_process' = 0
    /\ is_paused' = FALSE
    /\ state' = "IDLE"
    /\ UNCHANGED <<engine, is_available, voice, engine_data, current_voice,
                   spawned, call>>
-------------------------------------------------------------------------------
(***************************************************************************)
(* The end of an engine.                                                   *)
(***************************************************************************)

\* tts_engine_cleanup and the cleanup of the backend.
Cleanup ==
    /\ Ready
    /\ engine_data = "live"
    /\ \/ /\ current_process > 0
          /\ op' = "cleanup" /\ pc' = AfterTerm("cleanup")
          /\ UNCHANGED <<object, data>>
       \/ /\ current_process = 0
          /\ ReleaseData
          /\ UNCHANGED <<engine, is_available, voice, call>>
    /\ UNCHANGED <<kernel>>

\* tts_engine_free: engine_data is released only if the state is not IDLE;
\* otherwise its memory is leaked.
FreeCall ==
    /\ Ready
    /\ \/ /\ state # "IDLE" /\ engine_data = "live" /\ current_process > 0
          /\ op' = "free" /\ pc' = AfterTerm("free")
          /\ UNCHANGED <<object, data>>
       \/ /\ state # "IDLE" => current_process = 0
          /\ ReleaseData
          /\ FreeEngine
          /\ UNCHANGED call
    /\ UNCHANGED kernel
-------------------------------------------------------------------------------
CallStep == Grace \/ WaitReturns \/ Spawn \/ SpawnFails

Next ==
    \/ New \/ InitEngine \/ SetConfig
    \/ SpeakCall \/ Stop \/ GetState \/ Cleanup \/ FreeCall
    \/ \E pause \in BOOLEAN : Pause(pause)
    \/ CallStep
    \/ ProcessExits

\* The calling thread runs, and a process that is not stopped ends: it has
\* at most 500 bytes of text to speak.
Fairness == WF_vars(CallStep) /\ WF_vars(ProcessExits)

Spec == Init /\ [][Next]_vars /\ Fairness
-------------------------------------------------------------------------------
(***************************************************************************)
(* Properties.                                                             *)
(***************************************************************************)

Unreaped == {p \in Pids : process[p] \in {"running", "stopped", "zombie"}}

\* No process is lost: one that is still to be reaped is the current process
\* of the engine's data, so some later call signals it and waits for it; and
\* the engine never signals or waits for a process that it has reaped and
\* whose number may be another program's.
NoProcessLost ==
    Unreaped = IF engine_data = "live" /\ current_process > 0
               THEN {current_process} ELSE {}

\* An IDLE engine has no child: tts_engine_free, which cleans up only an engine
\* that is not IDLE, leaves none behind.
IdleIsSilent == state = "IDLE" => current_process = 0

\* What get_state answers is what the child does: it is stopped as long as the
\* engine says that it is paused, and never unnoticed.
PausedAgrees ==
    op = "none" /\ current_process > 0 /\ process[current_process] # "zombie"
        => (is_paused <=> process[current_process] = "stopped")

\* The voice that is configured, across init, set_config and cleanup, is the
\* voice of the next command.
VoiceApplied == engine_data = "live" /\ voice # NoVoice => current_voice = voice

\* Where a call can be, and which processes there are: the strengthening with
\* which the invariants above are inductive.
CallsInOrder ==
    /\ op = "none" <=> pc = "ready"
    /\ op # "none" => engine_data = "live"
    /\ engine_data = "live" => engine # "NULL"
    /\ pc \in {"grace", "wait"} => current_process > 0
    /\ op = "speak" => spawned < MaxSpawns
    /\ pc = "spawn" => op = "speak" /\ current_process = 0
    /\ engine_data = "NULL" => current_process = 0
    /\ \A p \in Pids : p > spawned => process[p] = "none"

IInv ==
    /\ TypeOK /\ CallsInOrder /\ NoProcessLost /\ IdleIsSilent /\ PausedAgrees
    /\ VoiceApplied

\* tts_engine_stop returns, whatever state the process is in.
StopReturns == op = "stop" ~> op = "none"

\* tts_engine_speak returns with the backends that kill the process before
\* they wait for it.
SpeakReturns == op = "speak" /\ engine # "SPEECH_DISPATCHER" ~> op = "none"

\* Cleanup and free return unless the process is paused: then SIGTERM stays
\* pending and waitpid never returns.
CleanupReturnsUnlessPaused ==
    op \in {"cleanup", "free"} /\ ~is_paused ~> op = "none"
===============================================================================

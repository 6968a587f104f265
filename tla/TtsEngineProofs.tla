--------------------------- MODULE TtsEngineProofs ---------------------------
(***************************************************************************)
(* Proofs about TtsEngine, for any set of voices and any number of         *)
(* processes.                                                              *)
(***************************************************************************)
EXTENDS TtsEngine, TLAPS

USE NoVoiceAssumption, MaxSpawnsAssumption

\* NoProcessLost, process by process.
OnlyCurrent ==
    \A p \in Pids :
        process[p] \in {"running", "stopped", "zombie"}
            <=> engine_data = "live" /\ current_process = p

\* The set of the processes to be reaped is that of the current process
\* exactly if this is so for every process.
LEMMA LostByProcess == TypeOK => (NoProcessLost <=> OnlyCurrent)
BY DEF TypeOK, NoProcessLost, OnlyCurrent, Unreaped, Pids

\* The same, in the state after a step.
LEMMA LostByProcessAfter == TypeOK' => (NoProcessLost' <=> OnlyCurrent')
BY DEF TypeOK, NoProcessLost, OnlyCurrent, Unreaped, Pids

\* The strengthened invariant holds when there is no engine yet.
LEMMA InitInvariant == Init => IInv
<1>. SUFFICES ASSUME Init PROVE IInv
  OBVIOUS
<1>1. TypeOK
  <2>1. process \in [Pids -> {"none", "running", "stopped", "zombie", "reaped"}]
    BY DEF Init
  <2>2. is_available \in BOOLEAN /\ is_paused \in BOOLEAN
    BY DEF Init
  <2>3. current_process \in 0..MaxSpawns /\ spawned \in 0..MaxSpawns
    BY DEF Init
  <2>. QED  BY <2>1, <2>2, <2>3, Zenon DEF Init, TypeOK, States
<1>2. OnlyCurrent
  BY DEF Init, OnlyCurrent
<1>3. CallsInOrder /\ IdleIsSilent /\ PausedAgrees /\ VoiceApplied
  BY DEF Init, CallsInOrder, IdleIsSilent, PausedAgrees, VoiceApplied
<1>. QED  BY <1>1, <1>2, <1>3, LostByProcess DEF IInv

\* A signal changes no process but the one it is sent to, and that one stays
\* to be reaped.
LEMMA MovedProcess ==
  ASSUME TypeOK, NEW p \in Pids, NEW to \in {"running", "stopped", "zombie"}
  PROVE  /\ Moved(p, to) \in [Pids -> {"none", "running", "stopped", "zombie", "reaped"}]
         /\ \A q \in Pids : q # p => Moved(p, to)[q] = process[q]
         /\ process[p] \in {"running", "stopped"} => Moved(p, to)[p] = to
         /\ process[p] \notin {"running", "stopped"} => Moved(p, to)[p] = process[p]
BY DEF TypeOK, Moved

\* Every call and every step of a process preserves the invariant.
LEMMA NextInvariant == IInv /\ [Next]_vars => IInv'
<1>. SUFFICES ASSUME TypeOK, CallsInOrder, OnlyCurrent, IdleIsSilent, PausedAgrees,
                     VoiceApplied, [Next]_vars
              PROVE  /\ TypeOK' /\ CallsInOrder' /\ OnlyCurrent' /\ IdleIsSilent'
                     /\ PausedAgrees' /\ VoiceApplied'
  BY LostByProcess, LostByProcessAfter DEF IInv
<1>. USE DEF object, data, kernel, call
<1>1. CASE UNCHANGED vars
  <2>1. TypeOK'
    BY <1>1 DEF vars, TypeOK, Types, Backends, States, Pids, CallsInOrder
  <2>2. CallsInOrder'
    BY <1>1 DEF vars, TypeOK, CallsInOrder, Pids
  <2>3. OnlyCurrent'
    BY <1>1 DEF vars, TypeOK, CallsInOrder, OnlyCurrent, Pids
  <2>4. IdleIsSilent'
    BY <1>1 DEF vars, TypeOK, CallsInOrder, IdleIsSilent
  <2>5. PausedAgrees'
    BY <1>1 DEF vars, TypeOK, CallsInOrder, PausedAgrees, Pids
  <2>6. VoiceApplied'
    BY <1>1 DEF vars, TypeOK, CallsInOrder, VoiceApplied
  <2>. QED  BY <2>1, <2>2, <2>3, <2>4, <2>5, <2>6
<1>2. CASE New
  <2>1. TypeOK'
    BY <1>2 DEF New, TypeOK, Types, Backends, States, Pids, CallsInOrder
  <2>2. CallsInOrder'
    BY <1>2 DEF New, TypeOK, CallsInOrder, Pids
  <2>3. OnlyCurrent'
    BY <1>2 DEF New, TypeOK, CallsInOrder, OnlyCurrent, Pids
  <2>4. IdleIsSilent'
    BY <1>2 DEF New, TypeOK, CallsInOrder, IdleIsSilent
  <2>5. PausedAgrees'
    BY <1>2 DEF New, TypeOK, CallsInOrder, PausedAgrees, Pids
  <2>6. VoiceApplied'
    BY <1>2 DEF New, TypeOK, CallsInOrder, VoiceApplied
  <2>. QED  BY <2>1, <2>2, <2>3, <2>4, <2>5, <2>6
<1>3. CASE InitEngine
  <2>1. TypeOK'
    BY <1>3 DEF InitEngine, Ready, TypeOK, Types, Backends, States, Pids,
                CallsInOrder
  <2>2. CallsInOrder'
    BY <1>3 DEF InitEngine, Ready, TypeOK, CallsInOrder, Pids
  <2>3. OnlyCurrent'
    BY <1>3 DEF InitEngine, Ready, TypeOK, CallsInOrder, OnlyCurrent, Pids
  <2>4. IdleIsSilent'
    BY <1>3 DEF InitEngine, Ready, TypeOK, CallsInOrder, IdleIsSilent
  <2>5. PausedAgrees'
    BY <1>3 DEF InitEngine, Ready, TypeOK, CallsInOrder, PausedAgrees, Pids
  <2>6. VoiceApplied'
    BY <1>3 DEF InitEngine, Ready, TypeOK, CallsInOrder, VoiceApplied
  <2>. QED  BY <2>1, <2>2, <2>3, <2>4, <2>5, <2>6
<1>4. CASE SetConfig
  <2>1. TypeOK'
    BY <1>4 DEF SetConfig, Ready, TypeOK, Types, Backends, States, Pids,
                CallsInOrder
  <2>2. CallsInOrder'
    BY <1>4 DEF SetConfig, Ready, TypeOK, CallsInOrder, Pids
  <2>3. OnlyCurrent'
    BY <1>4 DEF SetConfig, Ready, TypeOK, CallsInOrder, OnlyCurrent, Pids
  <2>4. IdleIsSilent'
    BY <1>4 DEF SetConfig, Ready, TypeOK, CallsInOrder, IdleIsSilent
  <2>5. PausedAgrees'
    BY <1>4 DEF SetConfig, Ready, TypeOK, CallsInOrder, PausedAgrees, Pids
  <2>6. VoiceApplied'
    BY <1>4 DEF SetConfig, Ready, TypeOK, CallsInOrder, VoiceApplied
  <2>. QED  BY <2>1, <2>2, <2>3, <2>4, <2>5, <2>6
<1>5. CASE SpeakCall
  <2>1. TypeOK'
    BY <1>5 DEF SpeakCall, Ready, AfterTerm, TypeOK, Types, Backends, States, Pids,
                CallsInOrder
  <2>2. CallsInOrder'
    BY <1>5 DEF SpeakCall, Ready, AfterTerm, TypeOK, CallsInOrder, Pids
  <2>3. OnlyCurrent'
    BY <1>5 DEF SpeakCall, Ready, AfterTerm, TypeOK, CallsInOrder, OnlyCurrent, Pids
  <2>4. IdleIsSilent'
    BY <1>5 DEF SpeakCall, Ready, AfterTerm, TypeOK, CallsInOrder, IdleIsSilent
  <2>5. PausedAgrees'
    BY <1>5 DEF SpeakCall, Ready, AfterTerm, TypeOK, CallsInOrder, PausedAgrees,
                Pids
  <2>6. VoiceApplied'
    BY <1>5 DEF SpeakCall, Ready, AfterTerm, TypeOK, CallsInOrder, VoiceApplied
  <2>. QED  BY <2>1, <2>2, <2>3, <2>4, <2>5, <2>6
<1>6. CASE Stop
  <2>1. TypeOK'
    BY <1>6 DEF Stop, Ready, AfterTerm, TypeOK, Types, Backends, States, Pids,
                CallsInOrder
  <2>2. CallsInOrder'
    BY <1>6 DEF Stop, Ready, AfterTerm, TypeOK, CallsInOrder, Pids
  <2>3. OnlyCurrent'
    BY <1>6 DEF Stop, Ready, AfterTerm, TypeOK, CallsInOrder, OnlyCurrent, Pids
  <2>4. IdleIsSilent'
    BY <1>6 DEF Stop, Ready, AfterTerm, TypeOK, CallsInOrder, IdleIsSilent
  <2>5. PausedAgrees'
    BY <1>6 DEF Stop, Ready, AfterTerm, TypeOK, CallsInOrder, PausedAgrees, Pids
  <2>6. VoiceApplied'
    BY <1>6 DEF Stop, Ready, AfterTerm, TypeOK, CallsInOrder, VoiceApplied
  <2>. QED  BY <2>1, <2>2, <2>3, <2>4, <2>5, <2>6
<1>7. CASE GetState
  <2>1. TypeOK'
    <3>1. process' \in [Pids -> {"none", "running", "stopped", "zombie", "reaped"}]
      BY <1>7 DEF GetState, Ready, TypeOK, CallsInOrder, Pids
    <3>2. current_process' \in 0..MaxSpawns /\ spawned' \in 0..MaxSpawns
      BY <1>7 DEF GetState, Ready, TypeOK, CallsInOrder
    <3>. QED  BY <1>7, <3>1, <3>2 DEF GetState, Ready, TypeOK, Types, Backends,
                                      States
  <2>2. CallsInOrder'
    BY <1>7 DEF GetState, Ready, TypeOK, CallsInOrder, Pids
  <2>3. OnlyCurrent'
    BY <1>7 DEF GetState, Ready, TypeOK, CallsInOrder, OnlyCurrent, Pids
  <2>4. IdleIsSilent'
    BY <1>7 DEF GetState, Ready, TypeOK, CallsInOrder, IdleIsSilent
  <2>5. PausedAgrees'
    BY <1>7 DEF GetState, Ready, TypeOK, CallsInOrder, PausedAgrees, Pids
  <2>6. VoiceApplied'
    BY <1>7 DEF GetState, Ready, TypeOK, CallsInOrder, VoiceApplied
  <2>. QED  BY <2>1, <2>2, <2>3, <2>4, <2>5, <2>6
<1>8. CASE Cleanup
  <2>1. TypeOK'
    BY <1>8 DEF Cleanup, Ready, AfterTerm, ReleaseData, TypeOK, Types, Backends,
                States, Pids, CallsInOrder
  <2>2. CallsInOrder'
    BY <1>8 DEF Cleanup, Ready, AfterTerm, ReleaseData, TypeOK, CallsInOrder, Pids
  <2>3. OnlyCurrent'
    BY <1>8 DEF Cleanup, Ready, AfterTerm, ReleaseData, TypeOK, CallsInOrder,
                OnlyCurrent, Pids
  <2>4. IdleIsSilent'
    BY <1>8 DEF Cleanup, Ready, AfterTerm, ReleaseData, TypeOK, CallsInOrder,
                IdleIsSilent
  <2>5. PausedAgrees'
    BY <1>8 DEF Cleanup, Ready, AfterTerm, ReleaseData, TypeOK, CallsInOrder,
                PausedAgrees, Pids
  <2>6. VoiceApplied'
    BY <1>8 DEF Cleanup, Ready, AfterTerm, ReleaseData, TypeOK, CallsInOrder,
                VoiceApplied
  <2>. QED  BY <2>1, <2>2, <2>3, <2>4, <2>5, <2>6
<1>9. CASE FreeCall
  <2>1. TypeOK'
    <3>1. is_available' \in BOOLEAN /\ is_paused' \in BOOLEAN
      BY <1>9 DEF FreeCall, ReleaseData, FreeEngine, TypeOK
    <3>. QED
      BY <1>9, <3>1 DEF FreeCall, Ready, AfterTerm, ReleaseData, FreeEngine,
                              TypeOK,
                        Types, Backends, States
  <2>2. CallsInOrder'
    BY <1>9 DEF FreeCall, Ready, AfterTerm, ReleaseData, FreeEngine, TypeOK,
                CallsInOrder, Pids
  <2>3. OnlyCurrent'
    BY <1>9 DEF FreeCall, Ready, AfterTerm, ReleaseData, FreeEngine, TypeOK,
                CallsInOrder, OnlyCurrent, IdleIsSilent, Pids
  <2>4. IdleIsSilent'
    BY <1>9 DEF FreeCall, Ready, AfterTerm, ReleaseData, FreeEngine, TypeOK,
                CallsInOrder, IdleIsSilent
  <2>5. PausedAgrees'
    BY <1>9 DEF FreeCall, Ready, AfterTerm, ReleaseData, FreeEngine, TypeOK,
                CallsInOrder, PausedAgrees, Pids
  <2>6. VoiceApplied'
    BY <1>9 DEF FreeCall, Ready, AfterTerm, ReleaseData, FreeEngine, TypeOK,
                CallsInOrder, VoiceApplied
  <2>. QED  BY <2>1, <2>2, <2>3, <2>4, <2>5, <2>6
<1>10. ASSUME NEW pause \in BOOLEAN, Pause(pause)
      PROVE  /\ TypeOK' /\ CallsInOrder' /\ OnlyCurrent' /\ IdleIsSilent'
             /\ PausedAgrees' /\ VoiceApplied'
  <2>1. TypeOK'
    BY <1>10, MovedProcess DEF Pause, Ready, Signalled, TypeOK, Types, Backends,
                               States, Pids, CallsInOrder
  <2>2. CallsInOrder'
    BY <1>10, MovedProcess DEF Pause, Ready, Signalled, TypeOK, CallsInOrder, Pids
  <2>3. OnlyCurrent'
    BY <1>10, MovedProcess DEF Pause, Ready, Signalled, TypeOK, CallsInOrder,
                               OnlyCurrent, Pids
  <2>4. IdleIsSilent'
    BY <1>10, MovedProcess DEF Pause, Ready, Signalled, TypeOK, CallsInOrder,
                               IdleIsSilent
  <2>5. PausedAgrees'
    <3>1. current_process \in Pids /\ current_process' = current_process /\ is_paused' = pause
      BY <1>10 DEF Pause, TypeOK, Pids
    <3>2. CASE process[current_process] \in {"running", "stopped"}
      <4>1. process'[current_process] = IF pause THEN "stopped" ELSE "running"
        BY <1>10, <3>1, <3>2, MovedProcess DEF Pause
      <4>. QED  BY <3>1, <4>1 DEF PausedAgrees
    <3>3. CASE process[current_process] \notin {"running", "stopped"}
      <4>1. process[current_process] = "zombie"
        BY <1>10, <3>1, <3>3 DEF Pause, OnlyCurrent
      <4>2. process'[current_process] = "zombie"
        BY <1>10, <3>1, <3>3, <4>1, MovedProcess DEF Pause
      <4>. QED  BY <3>1, <4>2 DEF PausedAgrees
    <3>. QED  BY <3>2, <3>3
  <2>6. VoiceApplied'
    BY <1>10, MovedProcess DEF Pause, Ready, Signalled, TypeOK, CallsInOrder,
                               VoiceApplied
  <2>. QED  BY <2>1, <2>2, <2>3, <2>4, <2>5, <2>6
<1>11. CASE Grace
  <2>1. TypeOK'
    <3>1. process' \in [Pids -> {"none", "running", "stopped", "zombie", "reaped"}]
      BY <1>11, MovedProcess DEF Grace, Signalled, Killed, TypeOK, CallsInOrder,
                                 Pids
    <3>2. current_process' \in 0..MaxSpawns /\ spawned' \in 0..MaxSpawns
      BY <1>11 DEF Grace, Signalled, Killed, TypeOK, CallsInOrder
    <3>. QED  BY <1>11, <3>1, <3>2 DEF Grace, Signalled, Killed, TypeOK, Types,
                                       Backends, States
  <2>2. CallsInOrder'
    BY <1>11, MovedProcess DEF Grace, Signalled, Killed, TypeOK, CallsInOrder, Pids
  <2>3. OnlyCurrent'
    BY <1>11, MovedProcess DEF Grace, Signalled, Killed, TypeOK, CallsInOrder,
                               OnlyCurrent, Pids
  <2>4. IdleIsSilent'
    BY <1>11, MovedProcess DEF Grace, Signalled, Killed, TypeOK, CallsInOrder,
                               IdleIsSilent
  <2>5. PausedAgrees'
    BY <1>11, MovedProcess DEF Grace, Signalled, Killed, TypeOK, CallsInOrder,
                               PausedAgrees, Pids
  <2>6. VoiceApplied'
    BY <1>11, MovedProcess DEF Grace, Signalled, Killed, TypeOK, CallsInOrder,
                               VoiceApplied
  <2>. QED  BY <2>1, <2>2, <2>3, <2>4, <2>5, <2>6
<1>12. CASE WaitReturns
  <2>1. TypeOK'
    <3>1. process' \in [Pids -> {"none", "running", "stopped", "zombie", "reaped"}]
      BY <1>12 DEF WaitReturns, ReleaseData, FreeEngine, TypeOK, CallsInOrder, Pids
    <3>2. current_process' \in 0..MaxSpawns /\ spawned' \in 0..MaxSpawns
      BY <1>12 DEF WaitReturns, ReleaseData, FreeEngine, TypeOK, CallsInOrder
    <3>. QED  BY <1>12, <3>1, <3>2 DEF WaitReturns, ReleaseData, FreeEngine,
                                       TypeOK, Types, Backends, States
  <2>2. CallsInOrder'
    BY <1>12 DEF WaitReturns, ReleaseData, FreeEngine, TypeOK, CallsInOrder, Pids
  <2>3. OnlyCurrent'
    BY <1>12 DEF WaitReturns, ReleaseData, FreeEngine, TypeOK, CallsInOrder,
                 OnlyCurrent, Pids
  <2>4. IdleIsSilent'
    BY <1>12 DEF WaitReturns, ReleaseData, FreeEngine, TypeOK, CallsInOrder,
                 IdleIsSilent
  <2>5. PausedAgrees'
    BY <1>12 DEF WaitReturns, ReleaseData, FreeEngine, TypeOK, CallsInOrder,
                 PausedAgrees, Pids
  <2>6. VoiceApplied'
    BY <1>12 DEF WaitReturns, ReleaseData, FreeEngine, TypeOK, CallsInOrder,
                 VoiceApplied
  <2>. QED  BY <2>1, <2>2, <2>3, <2>4, <2>5, <2>6
<1>13. CASE Spawn
  <2>1. TypeOK'
    <3>1. process' \in [Pids -> {"none", "running", "stopped", "zombie", "reaped"}]
      BY <1>13 DEF Spawn, TypeOK, CallsInOrder, Pids
    <3>2. current_process' \in 0..MaxSpawns /\ spawned' \in 0..MaxSpawns
      BY <1>13 DEF Spawn, TypeOK, CallsInOrder
    <3>. QED  BY <1>13, <3>1, <3>2 DEF Spawn, TypeOK, Types, Backends, States
  <2>2. CallsInOrder'
    BY <1>13 DEF Spawn, TypeOK, CallsInOrder, Pids
  <2>3. OnlyCurrent'
    BY <1>13 DEF Spawn, TypeOK, CallsInOrder, OnlyCurrent, Pids
  <2>4. IdleIsSilent'
    BY <1>13 DEF Spawn, TypeOK, CallsInOrder, IdleIsSilent
  <2>5. PausedAgrees'
    BY <1>13 DEF Spawn, TypeOK, CallsInOrder, PausedAgrees, Pids
  <2>6. VoiceApplied'
    BY <1>13 DEF Spawn, TypeOK, CallsInOrder, VoiceApplied
  <2>. QED  BY <2>1, <2>2, <2>3, <2>4, <2>5, <2>6
<1>14. CASE SpawnFails
  <2>1. TypeOK'
    BY <1>14 DEF SpawnFails, TypeOK, Types, Backends, States, Pids, CallsInOrder
  <2>2. CallsInOrder'
    BY <1>14 DEF SpawnFails, TypeOK, CallsInOrder, Pids
  <2>3. OnlyCurrent'
    BY <1>14 DEF SpawnFails, TypeOK, CallsInOrder, OnlyCurrent, Pids
  <2>4. IdleIsSilent'
    BY <1>14 DEF SpawnFails, TypeOK, CallsInOrder, IdleIsSilent
  <2>5. PausedAgrees'
    BY <1>14 DEF SpawnFails, TypeOK, CallsInOrder, PausedAgrees, Pids
  <2>6. VoiceApplied'
    BY <1>14 DEF SpawnFails, TypeOK, CallsInOrder, VoiceApplied
  <2>. QED  BY <2>1, <2>2, <2>3, <2>4, <2>5, <2>6
<1>15. CASE ProcessExits
  <2>1. TypeOK'
    BY <1>15 DEF ProcessExits, TypeOK, Types, Backends, States, Pids, CallsInOrder
  <2>2. CallsInOrder'
    BY <1>15 DEF ProcessExits, TypeOK, CallsInOrder, Pids
  <2>3. OnlyCurrent'
    BY <1>15 DEF ProcessExits, TypeOK, CallsInOrder, OnlyCurrent, Pids
  <2>4. IdleIsSilent'
    BY <1>15 DEF ProcessExits, TypeOK, CallsInOrder, IdleIsSilent
  <2>5. PausedAgrees'
    BY <1>15 DEF ProcessExits, TypeOK, CallsInOrder, PausedAgrees, Pids
  <2>6. VoiceApplied'
    BY <1>15 DEF ProcessExits, TypeOK, CallsInOrder, VoiceApplied
  <2>. QED  BY <2>1, <2>2, <2>3, <2>4, <2>5, <2>6
<1>. QED
  BY <1>1, <1>2, <1>3, <1>4, <1>5, <1>6, <1>7, <1>8, <1>9, <1>10, <1>11,
     <1>12, <1>13, <1>14, <1>15 DEF Next, CallStep

\* The strengthened invariant holds in every state of the engine.
THEOREM BackendInvariant == Spec => []IInv
BY InitInvariant, NextInvariant, PTL DEF Spec

\* Every variable keeps its type, for any number of processes and any voices.
THEOREM BackendTypes == Spec => []TypeOK
<1>1. IInv => TypeOK  BY DEF IInv
<1>. QED  BY <1>1, BackendInvariant, PTL

\* No backend loses a process, and none signals or waits for a process it has
\* already reaped.
THEOREM ProcessesAreReaped == Spec => []NoProcessLost
<1>1. IInv => NoProcessLost  BY DEF IInv
<1>. QED  BY <1>1, BackendInvariant, PTL

\* An engine that is IDLE, which tts_engine_free does not clean up, has no
\* process.
THEOREM IdleEnginesAreSilent == Spec => []IdleIsSilent
<1>1. IInv => IdleIsSilent  BY DEF IInv
<1>. QED  BY <1>1, BackendInvariant, PTL

\* The engine's is_paused is what SIGSTOP and SIGCONT have made of its process.
THEOREM PauseIsTruthful == Spec => []PausedAgrees
<1>1. IInv => PausedAgrees  BY DEF IInv
<1>. QED  BY <1>1, BackendInvariant, PTL

\* The configured voice is the voice of the next command.
THEOREM VoiceIsApplied == Spec => []VoiceApplied
<1>1. IInv => VoiceApplied  BY DEF IInv
<1>. QED  BY <1>1, BackendInvariant, PTL

\* What a step may do to the children: one that has been reaped is nobody's any
\* more, and one is spawned only when all before it have been reaped.
OneChild ==
    /\ \A p \in Pids : process[p] = "reaped" => process'[p] = "reaped"
    /\ \A p, q \in Pids :
          process[p] = "none" /\ process'[p] # "none" =>
              process[q] \in {"none", "reaped"}

\* A speak that replaces a text waits until the child that was spawned for that
\* text is reaped, in every backend, so that a backend has at most one child.
\* This says nothing of the commands that the shell of piper has started, which
\* may outlive it.
THEOREM ProcessesFollowEachOther == Spec => [][OneChild]_vars
<1>1. IInv /\ [Next]_vars => [OneChild]_vars
  <2>. SUFFICES ASSUME TypeOK, CallsInOrder, OnlyCurrent, Next PROVE OneChild
    BY LostByProcess DEF IInv
  <2>. USE DEF object, data, kernel, call
  <2>1. CASE UNCHANGED process
    BY <2>1 DEF OneChild
  <2>2. CASE ProcessExits \/ WaitReturns \/ GetState
    BY <2>2 DEF ProcessExits, WaitReturns, GetState, OneChild, TypeOK, Pids
  <2>3. CASE Spawn
    BY <2>3 DEF Spawn, OneChild, TypeOK, CallsInOrder, OnlyCurrent, Pids
  <2>4. CASE Grace
    BY <2>4 DEF Grace, Killed, Moved, OneChild, TypeOK, Pids
  <2>5. ASSUME NEW pause \in BOOLEAN, Pause(pause) PROVE OneChild
    BY <2>5 DEF Pause, Moved, OneChild, TypeOK, Pids
  <2>6. CASE New \/ InitEngine \/ SetConfig \/ SpeakCall \/ Stop \/ Cleanup
               \/ FreeCall \/ SpawnFails
    BY <2>1, <2>6 DEF New, InitEngine, SetConfig, SpeakCall, Stop, Cleanup,
                      FreeCall, SpawnFails
  <2>. QED  BY <2>2, <2>3, <2>4, <2>5, <2>6 DEF Next, CallStep
<1>. QED  BY <1>1, BackendInvariant, PTL DEF Spec
===============================================================================

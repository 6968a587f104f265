--------------------------- MODULE TtsPluginProofs ---------------------------
(***************************************************************************)
(* The plugin is right for every number of pages and segments and whatever *)
(* speeds and volumes are typed: IInv is an inductive invariant, the       *)
(* properties of TtsPlugin follow from it, and the plugin uses the audio   *)
(* controller as AudioController allows.                                   *)
(***************************************************************************)
EXTENDS TtsPlugin, FiniteSetTheorems, TLAPS

USE DEF Running, Audio!Aborted, Audio!Called, audio, ui

-------------------------------------------------------------------------------
(***************************************************************************)
(* The status line.                                                        *)
(***************************************************************************)

\* OneTimeout, of any status line.
OneLine(line) ==
    line.sources = IF line.timeout_id = 0 THEN {} ELSE {line.timeout_id}

\* A message with its timeout.
Shown(message) == [message |-> message, timeout_id |-> 1, sources |-> {1}]

\* show_status removes the timeout that is pending before it adds its own.
LEMMA ShowReplaces ==
  ASSUME NEW line, OneLine(line), NEW message, NEW timed
  PROVE  /\ OneLine(Show(line, message, timed))
         /\ timed => Show(line, message, timed) = Shown(message)
<1>1. line.sources \ {line.timeout_id} = {}
  BY DEF OneLine
<1>2. NewSource({}) = 1
  <2>1. Cardinality({}) + 1 = 1
    BY FS_EmptySet
  <2>. QED  BY <2>1 DEF NewSource
<1>. QED  BY <1>1, <1>2 DEF Show, Shown, OneLine

\* After a handler's own message, whatever its callbacks have shown before.
LEMMA ShowAfterState ==
  ASSUME NEW line, OneLine(line), NEW old, NEW new, NEW message
  PROVE  /\ OneLine(SetStateShows(line, old, new))
         /\ Show(SetStateShows(line, old, new), message, TRUE) = Shown(message)
<1>1. OneLine(UpdateVisualState(line, new))
  BY ShowReplaces DEF UpdateVisualState
<1>2. OneLine(NotifyStateChange(UpdateVisualState(line, new), new))
  BY <1>1, ShowReplaces DEF NotifyStateChange
<1>3. OneLine(StateChanged(line, new))
  BY <1>2, ShowReplaces DEF StateChanged, ShowDocumentProgress
<1>4. OneLine(SetStateShows(line, old, new))
  BY <1>3 DEF SetStateShows
<1>. QED  BY <1>4, ShowReplaces

\* A message that tells the state, or none, with its timeout keeps what IInv
\* says of the status line while the UI controller is there.
LEMMA ShownInv ==
  ASSUME NEW m \in Messages, status' = Shown(m), m \in Audio!States => m = state'
  PROVE  /\ status' \in [message : Messages, timeout_id : Nat, sources : SUBSET Nat]
         /\ StatusNotStale' /\ OneTimeout'
  BY DEF Shown, StatusNotStale, OneTimeout, Audio!States

\* The plugin before it is initialized.
LEMMA InitInv == Init => IInv
<1> SUFFICES ASSUME Init PROVE IInv
  OBVIOUS
<1>1. TypeOK
  <2>1. tts_active \in BOOLEAN /\ orphan \in BOOLEAN
    BY Zenon DEF Init
  <2>2. status \in [message : Messages, timeout_id : Nat, sources : SUBSET Nat]
    BY DEF Init, Messages
  <2>. QED  BY <2>1, <2>2 DEF Init, TypeOK, Audio!Init, Audio!States
<1>2. ControllersTogether /\ FreedUiIsSilent /\ ActiveFlagAgrees
  BY DEF Init, ControllersTogether, FreedUiIsSilent, ActiveFlagAgrees, Audio!Init
<1>3. StatusNotStale /\ OneTimeout /\ QuietAfterCleanup /\ SettingsKnown
  BY DEF Init, StatusNotStale, OneTimeout, QuietAfterCleanup, SettingsKnown,
         Audio!Init, Audio!States
<1>. QED  BY <1>1, <1>2, <1>3 DEF IInv
-------------------------------------------------------------------------------
(***************************************************************************)
(* Every step keeps IInv.                                                  *)
(***************************************************************************)

\* Steps that leave the controllers and their flags alone and change the
\* status line as show_status or the timeout does.
LEMMA StatusStepInv ==
  ASSUME IInv, Handles,
         UNCHANGED <<audio, plugin, ui_controller, tts_active, orphan, stale_calls>>,
         /\ status' \in [message : Messages, timeout_id : Nat, sources : SUBSET Nat]
         /\ StatusNotStale' /\ OneTimeout'
  PROVE  IInv'
<1>1. TypeOK' /\ ControllersTogether' /\ FreedUiIsSilent' /\ ActiveFlagAgrees'
  BY DEF IInv, TypeOK, ControllersTogether, FreedUiIsSilent, ActiveFlagAgrees,
         Handles
<1>2. QuietAfterCleanup' /\ SettingsKnown'
  BY DEF IInv, QuietAfterCleanup, SettingsKnown
<1>. QED  BY <1>1, <1>2 DEF IInv

\* A handler that only shows a message replaces the status and nothing else.
LEMMA NoticesInv == IInv /\ Notices => IInv'
<1> SUFFICES ASSUME IInv, Notices PROVE IInv'
  OBVIOUS
<1>1. status' = Shown("notice")
  BY ShowReplaces DEF IInv, OneTimeout, OneLine, Notices
<1>2. "notice" \in Messages /\ "notice" \notin Audio!States
  BY DEF Messages, Audio!States
<1>. QED  BY <1>1, <1>2, ShownInv, StatusStepInv DEF Notices

\* sc_tts_settings tells the state as it is.
LEMMA SettingsInv == IInv /\ Settings => IInv'
<1> SUFFICES ASSUME IInv, Settings PROVE IInv'
  OBVIOUS
<1>1. status' = Shown(state) /\ state' = state
  BY ShowReplaces DEF IInv, OneTimeout, OneLine, Settings
<1>2. state \in Messages
  BY DEF IInv, TypeOK, Messages
<1>. QED  BY <1>1, <1>2, ShownInv, StatusStepInv DEF Settings

\* The timeout that fires is the one that is known, so nothing is left.
LEMMA TimeoutInv == IInv /\ (\E i \in status.sources : TimeoutFires(i)) => IInv'
<1> SUFFICES ASSUME IInv, NEW i \in status.sources, TimeoutFires(i) PROVE IInv'
  OBVIOUS
<1>1. status' = [message |-> "NULL", timeout_id |-> 0, sources |-> {}]
  BY DEF IInv, OneTimeout, TimeoutFires, Clear
<1>2. /\ status' \in [message : Messages, timeout_id : Nat, sources : SUBSET Nat]
      /\ StatusNotStale' /\ OneTimeout'
  BY <1>1 DEF Messages, StatusNotStale, OneTimeout, Audio!States
<1>. QED  BY <1>2, StatusStepInv DEF TimeoutFires

\* A timeout of a UI controller that was freed touches nothing of a live one.
LEMMA OrphanInv == IInv /\ OrphanTimeoutFires => IInv'
<1> SUFFICES ASSUME IInv, OrphanTimeoutFires PROVE IInv'
  OBVIOUS
<1>1. orphan' \in BOOLEAN
  BY Zenon DEF OrphanTimeoutFires
<1>2. TypeOK'
  BY <1>1 DEF IInv, TypeOK, OrphanTimeoutFires
<1>3. /\ ControllersTogether' /\ FreedUiIsSilent' /\ ActiveFlagAgrees'
      /\ StatusNotStale' /\ OneTimeout' /\ QuietAfterCleanup' /\ SettingsKnown'
  BY DEF IInv, ControllersTogether, FreedUiIsSilent, ActiveFlagAgrees,
         StatusNotStale, OneTimeout, QuietAfterCleanup, SettingsKnown,
         OrphanTimeoutFires
<1>. QED  BY <1>2, <1>3 DEF IInv

\* A change of a setting, within the range of the handlers.
LEMMA ChangesInv ==
  ASSUME IInv, Handles, status' = Show(status, "notice", TRUE),
         UNCHANGED <<plugin, ui_controller, tts_active, orphan, stale_calls>>,
         UNCHANGED <<controller, state, text_segments, streaming_engine>>,
         SettingsKnown'
  PROVE  IInv'
<1>1. status' = Shown("notice")
  BY ShowReplaces DEF IInv, OneTimeout, OneLine
<1>2. "notice" \in Messages /\ "notice" \notin Audio!States
  BY DEF Messages, Audio!States
<1>3. /\ status' \in [message : Messages, timeout_id : Nat, sources : SUBSET Nat]
      /\ StatusNotStale' /\ OneTimeout'
  BY <1>1, <1>2, ShownInv
<1>4. TypeOK' /\ ControllersTogether' /\ FreedUiIsSilent' /\ ActiveFlagAgrees'
  BY <1>3 DEF IInv, TypeOK, ControllersTogether, FreedUiIsSilent, ActiveFlagAgrees,
              Handles
<1>5. QuietAfterCleanup'
  BY DEF IInv, QuietAfterCleanup
<1>. QED  BY <1>3, <1>4, <1>5 DEF IInv

\* The speeds that the keys and the command ask for.
LEMMA SpeedAsked ==
  ASSUME IInv, SpeedUp \/ SpeedDown \/ SpeedCommand
  PROVE  \/ Notices
         \/ \E speed \in 5..30 \cup {Audio!NaN} :
               /\ Handles /\ Audio!SetSpeed(speed)
               /\ status' = Show(status, "notice", TRUE)
               /\ UNCHANGED <<plugin, ui_controller, tts_active, orphan, stale_calls>>
<1>. speed_multiplier \in 5..30 \cup {Audio!NaN} /\ Audio!NaN = -1
  BY DEF IInv, SettingsKnown, Audio!NaN
<1>1. CASE SpeedUp
  BY <1>1 DEF SpeedUp, Changes
<1>2. CASE SpeedDown
  BY <1>2 DEF SpeedDown, Changes
<1>3. CASE SpeedCommand
  <2>1. CASE Notices
    BY <2>1
  <2>2. CASE \E speed \in Speeds \cup {Audio!NaN} :
               IF speed # Audio!NaN /\ (speed < 5 \/ speed > 30)
               THEN Notices
               ELSE Changes(Audio!SetSpeed(speed))
    <3>1. PICK speed \in Speeds \cup {Audio!NaN} :
               IF speed # Audio!NaN /\ (speed < 5 \/ speed > 30)
               THEN Notices
               ELSE Changes(Audio!SetSpeed(speed))
      BY <2>2
    <3>2. CASE speed # Audio!NaN /\ (speed < 5 \/ speed > 30)
      BY <3>1, <3>2
    <3>3. CASE ~(speed # Audio!NaN /\ (speed < 5 \/ speed > 30))
      <4>1. speed \in 5..30 \cup {Audio!NaN}
        BY <3>3, SpeedsAssumption
      <4>. QED  BY <3>1, <3>3, <4>1 DEF Changes
    <3>. QED  BY <3>2, <3>3
  <2>. QED  BY <1>3, <2>1, <2>2 DEF SpeedCommand
<1>. QED  BY <1>1, <1>2, <1>3

\* The volumes that they ask for.
LEMMA VolumeAsked ==
  ASSUME IInv, VolumeUp \/ VolumeDown \/ VolumeCommand
  PROVE  \/ Notices
         \/ \E volume \in 0..100 :
               /\ Handles /\ Audio!SetVolume(volume)
               /\ status' = Show(status, "notice", TRUE)
               /\ UNCHANGED <<plugin, ui_controller, tts_active, orphan, stale_calls>>
<1>. volume_level \in 0..100
  BY DEF IInv, SettingsKnown
<1>1. CASE VolumeUp
  BY <1>1 DEF VolumeUp, Changes
<1>2. CASE VolumeDown
  BY <1>2 DEF VolumeDown, Changes
<1>3. CASE VolumeCommand
  <2>1. CASE Notices
    BY <2>1
  <2>2. CASE \E volume \in Volumes \cup {-1} :
               IF volume < 0 \/ volume > 100
               THEN Notices
               ELSE Changes(Audio!SetVolume(volume))
    <3>1. PICK volume \in Volumes \cup {-1} :
               IF volume < 0 \/ volume > 100
               THEN Notices
               ELSE Changes(Audio!SetVolume(volume))
      BY <2>2
    <3>2. CASE volume < 0 \/ volume > 100
      BY <3>1, <3>2
    <3>3. CASE ~(volume < 0 \/ volume > 100)
      <4>1. volume \in 0..100
        BY <3>3, VolumesAssumption
      <4>. QED  BY <3>1, <3>3, <4>1 DEF Changes
    <3>. QED  BY <3>2, <3>3
  <2>. QED  BY <1>3, <2>1, <2>2 DEF VolumeCommand
<1>. QED  BY <1>1, <1>2, <1>3

\* The keys and commands for the settings.
LEMMA SetInv ==
  ASSUME IInv,
         \/ SpeedUp \/ SpeedDown \/ SpeedCommand
         \/ VolumeUp \/ VolumeDown \/ VolumeCommand
  PROVE  IInv'
<1>1. CASE SpeedUp \/ SpeedDown \/ SpeedCommand
  <2>1. SUFFICES ASSUME NEW speed \in 5..30 \cup {Audio!NaN},
                        Handles, Audio!SetSpeed(speed),
                        status' = Show(status, "notice", TRUE),
                        UNCHANGED <<plugin, ui_controller, tts_active, orphan,
                                    stale_calls>>
                 PROVE  IInv'
    BY <1>1, SpeedAsked, NoticesInv
  <2>2. SettingsKnown'
    BY <2>1 DEF IInv, SettingsKnown, Audio!SetSpeed
  <2>. QED  BY <2>1, <2>2, ChangesInv DEF Audio!SetSpeed, Audio!segments
<1>2. CASE VolumeUp \/ VolumeDown \/ VolumeCommand
  <2>1. SUFFICES ASSUME NEW volume \in 0..100,
                        Handles, Audio!SetVolume(volume),
                        status' = Show(status, "notice", TRUE),
                        UNCHANGED <<plugin, ui_controller, tts_active, orphan,
                                    stale_calls>>
                 PROVE  IInv'
    BY <1>2, VolumeAsked, NoticesInv
  <2>2. SettingsKnown'
    BY <2>1 DEF IInv, SettingsKnown, Audio!SetVolume
  <2>. QED  BY <2>1, <2>2, ChangesInv DEF Audio!SetVolume, Audio!segments
<1>. QED  BY <1>1, <1>2

\* A handler that moves the session and ends by telling its new state.
LEMMA SessionStepInv ==
  ASSUME IInv, Handles, state' \in Audio!States, status' = Shown(state'),
         tts_active' \in BOOLEAN, tts_active' <=> state' \in {"PLAYING", "PAUSED"},
         UNCHANGED <<plugin, ui_controller, orphan, stale_calls, controller,
                     speed_multiplier, volume_level>>
  PROVE  IInv'
<1>1. /\ status' \in [message : Messages, timeout_id : Nat, sources : SUBSET Nat]
      /\ StatusNotStale' /\ OneTimeout'
  BY ShownInv DEF Messages
<1>3. TypeOK'
  BY <1>1 DEF IInv, TypeOK
<1>4. ControllersTogether' /\ FreedUiIsSilent' /\ QuietAfterCleanup'
  BY DEF IInv, ControllersTogether, FreedUiIsSilent, QuietAfterCleanup, Handles
<1>5. ActiveFlagAgrees' /\ SettingsKnown'
  BY DEF IInv, ActiveFlagAgrees, SettingsKnown
<1>. QED  BY <1>1, <1>3, <1>4, <1>5 DEF IInv

\* IInv's OneTimeout, in the form of the lemmas on the status line.
LEMMA StatusOneLine == IInv => OneLine(status)
  BY DEF IInv, OneTimeout, OneLine

\* What the callback makes of tts_active.
LEMMA Activity ==
  /\ IsActive("PLAYING") = TRUE /\ IsActive("PAUSED") = TRUE
  /\ IsActive("ERROR") = FALSE
  BY DEF IsActive

\* Every state may be left for STOPPED; from there playback starts, and may
\* fail.
LEMMA Transitions ==
  /\ \A old \in Audio!States : Audio!SetState(old, "STOPPED") = "STOPPED"
  /\ Audio!SetState("STOPPED", "PLAYING") = "PLAYING"
  /\ Audio!SetState("PLAYING", "PAUSED") = "PAUSED"
  /\ Audio!SetState("PAUSED", "PLAYING") = "PLAYING"
  /\ Audio!SetState("PLAYING", "ERROR") = "ERROR"
  BY DEF Audio!States, Audio!SetState, Audio!ValidTransitions

\* A stop clears the flag, the session and the indicator together.
LEMMA StopInv == IInv /\ Stop => IInv'
<1> SUFFICES ASSUME IInv, Stop PROVE IInv'
  OBVIOUS
<1>1. state' = "STOPPED"
  BY Transitions DEF IInv, TypeOK, Stop, Audio!StopSession
<1>2. status' = Shown("STOPPED")
  BY ShowAfterState, StatusOneLine DEF Stop
<1>3. tts_active' \in BOOLEAN /\ ~tts_active'
  BY Zenon DEF Stop
<1>4. UNCHANGED <<plugin, ui_controller, orphan, stale_calls, controller,
                  speed_multiplier, volume_level>>
  BY DEF Stop, Audio!StopSession, Audio!settings
<1>. QED  BY <1>1, <1>2, <1>3, <1>4, SessionStepInv DEF Stop, Audio!States

\* sc_tts_toggle when stopped: the last word is PLAYING or ERROR, and the
\* audio controller is in that state.
LEMMA ToggleStartInv ==
  ASSUME IInv, NEW l \in Lists, ToggleStart(l)
  PROVE  IInv'
<1>1. Handles /\ state = "STOPPED" /\ Audio!StoppedState = "STOPPED"
  BY DEF ToggleStart, Audio!StoppedState
<1>2. UNCHANGED <<plugin, ui_controller, orphan, stale_calls, controller,
                  speed_multiplier, volume_level>>
  BY DEF ToggleStart, Audio!StartSession, Audio!settings
<1>3. OneLine(status) /\ OneLine(SetStateShows(status, state, "PLAYING"))
  BY ShowAfterState, StatusOneLine
<1>4. CASE /\ Audio!StartSession(l, TRUE)
           /\ tts_active' = TRUE
           /\ status' = Show(SetStateShows(status, state, "PLAYING"), "PLAYING", TRUE)
  <2>1. state' = "PLAYING"
    BY <1>1, <1>4, Transitions DEF Audio!StartSession
  <2>2. status' = Shown("PLAYING")
    BY <1>3, <1>4, ShowAfterState
  <2>3. tts_active' \in BOOLEAN /\ tts_active'
    BY <1>4, Zenon
  <2>. QED  BY <1>1, <1>2, <2>1, <2>2, <2>3, SessionStepInv DEF Audio!States
<1>5. CASE /\ Audio!StartSession(l, FALSE)
           /\ tts_active' = IsActive("ERROR")
           /\ status' = Show(SetStateShows(SetStateShows(status, state, "PLAYING"),
                                           "PLAYING", "ERROR"), "ERROR", TRUE)
  <2>1. state' = "ERROR"
    BY <1>1, <1>5, Transitions DEF Audio!StartSession
  <2>2. status' = Shown("ERROR")
    BY <1>3, <1>5, ShowAfterState
  <2>3. tts_active' \in BOOLEAN /\ ~tts_active'
    BY <1>5, Activity
  <2>. QED  BY <1>1, <1>2, <2>1, <2>2, <2>3, SessionStepInv DEF Audio!States
<1>. QED  BY <1>4, <1>5 DEF ToggleStart

\* A pause or a resume changes state and indicator together.
LEMMA PauseResumeInv == IInv /\ PauseResume => IInv'
<1> SUFFICES ASSUME IInv, PauseResume PROVE IInv'
  OBVIOUS
<1>1. CASE Handles /\ Switches("PLAYING", "PAUSED") /\ Audio!PauseSession
  <2>1. state' = "PAUSED"
    BY <1>1, Transitions DEF Switches, Audio!PauseSession
  <2>2. status' = Shown("PAUSED")
    BY <1>1, ShowAfterState, StatusOneLine DEF Switches
  <2>3. UNCHANGED <<plugin, ui_controller, orphan, stale_calls, controller,
                    speed_multiplier, volume_level>>
    BY <1>1 DEF Switches, Audio!PauseSession, Audio!settings
  <2>4. tts_active' \in BOOLEAN /\ tts_active'
    BY <1>1, Activity DEF Switches
  <2>. QED  BY <1>1, <2>1, <2>2, <2>3, <2>4, SessionStepInv DEF Audio!States
<1>2. CASE Handles /\ Switches("PAUSED", "PLAYING") /\ Audio!ResumeSession
  <2>1. state' = "PLAYING"
    BY <1>2, Transitions DEF Switches, Audio!ResumeSession
  <2>2. status' = Shown("PLAYING")
    BY <1>2, ShowAfterState, StatusOneLine DEF Switches
  <2>3. UNCHANGED <<plugin, ui_controller, orphan, stale_calls, controller,
                    speed_multiplier, volume_level>>
    BY <1>2 DEF Switches, Audio!ResumeSession, Audio!settings
  <2>4. tts_active' \in BOOLEAN /\ tts_active'
    BY <1>2, Activity DEF Switches
  <2>. QED  BY <1>2, <2>1, <2>2, <2>3, <2>4, SessionStepInv DEF Audio!States
<1>3. CASE Notices
  BY <1>3, NoticesInv
<1>. QED  BY <1>1, <1>2, <1>3 DEF PauseResume

\* Initialization and cleanup.
LEMMA LifecycleInv ==
  ASSUME IInv, InitWithoutSession \/ InitPlugin \/ Cleanup
  PROVE  IInv'
<1>1. CASE InitWithoutSession
  BY <1>1 DEF InitWithoutSession, IInv, TypeOK, ControllersTogether, FreedUiIsSilent,
              ActiveFlagAgrees, StatusNotStale, OneTimeout, QuietAfterCleanup,
              SettingsKnown
<1>2. CASE InitPlugin
  <2>1. ui_controller = "NULL"
    BY <1>2 DEF InitPlugin, IInv, TypeOK, ControllersTogether
  <2>2. OneLine(NewUi)
    BY <2>1 DEF IInv, TypeOK, FreedUiIsSilent, OneTimeout, NewUi, OneLine
  <2>3. status' = Shown("notice")
    BY <1>2, <2>2, ShowReplaces
    DEF InitPlugin, RegisterShortcuts, RegisterCommands, InitNotifications
  <2>4. /\ status' \in [message : Messages, timeout_id : Nat, sources : SUBSET Nat]
        /\ StatusNotStale' /\ OneTimeout'
    <3>1. "notice" \in Messages /\ "notice" \notin Audio!States
      BY DEF Messages, Audio!States
    <3>. QED  BY <2>3, <3>1, ShownInv
  <2>5. tts_active' \in BOOLEAN
    BY <1>2, Zenon DEF InitPlugin
  <2>6. TypeOK'
    BY <1>2, <2>4, <2>5 DEF InitPlugin, IInv, TypeOK, Audio!New, Audio!States
  <2>7. ControllersTogether' /\ FreedUiIsSilent' /\ ActiveFlagAgrees'
    BY <1>2 DEF InitPlugin, ControllersTogether, FreedUiIsSilent, ActiveFlagAgrees,
                Audio!New
  <2>8. QuietAfterCleanup' /\ SettingsKnown'
    BY <1>2 DEF InitPlugin, QuietAfterCleanup, SettingsKnown, Audio!New
  <2>. QED  BY <2>4, <2>6, <2>7, <2>8 DEF IInv
<1>3. CASE Cleanup /\ plugin = "allocated"
  <2>1. UNCHANGED <<audio, ui>> /\ plugin' = "NULL"
    BY <1>3 DEF Cleanup
  <2>. QED
    BY <1>3, <2>1
    DEF IInv, TypeOK, ControllersTogether, FreedUiIsSilent, ActiveFlagAgrees,
        StatusNotStale, OneTimeout, QuietAfterCleanup, SettingsKnown
<1>4. CASE Cleanup /\ plugin = "initialized"
  <2>1. FreeUi /\ Audio!Free /\ plugin' = "NULL"
    BY <1>4 DEF Cleanup
  <2>2. status' = [message |-> "NULL", timeout_id |-> 0, sources |-> {}]
    BY <2>1 DEF FreeUi, Clear, IInv, OneTimeout
  <2>3. TypeOK'
    <3>1. tts_active' \in BOOLEAN
      BY <2>1, Zenon DEF FreeUi
    <3>2. orphan' \in BOOLEAN /\ stale_calls' \subseteq {"state change", "timeout"}
      BY <1>4 DEF Cleanup, IInv, TypeOK
    <3>3. status' \in [message : Messages, timeout_id : Nat, sources : SUBSET Nat]
      BY <2>2 DEF Messages
    <3>4. state' = "STOPPED"
      BY <2>1, Transitions DEF Audio!Free, IInv, TypeOK
    <3>. QED
      BY <2>1, <3>1, <3>2, <3>3, <3>4 DEF TypeOK, FreeUi, Audio!Free, Audio!States
  <2>4. ControllersTogether' /\ FreedUiIsSilent' /\ ActiveFlagAgrees'
    BY <2>1, <2>2 DEF FreeUi, Audio!Free, ControllersTogether, FreedUiIsSilent,
                      ActiveFlagAgrees
  <2>5. StatusNotStale' /\ OneTimeout'
    BY <2>2 DEF StatusNotStale, OneTimeout, Audio!States
  <2>6. QuietAfterCleanup' /\ SettingsKnown'
    BY <2>1 DEF Audio!Free, Audio!StopEngine, QuietAfterCleanup, IInv,
                SettingsKnown, Audio!settings
  <2>. QED  BY <2>3, <2>4, <2>5, <2>6 DEF IInv
<1>. QED  BY <1>1, <1>2, <1>3, <1>4 DEF Cleanup

\* IInv is inductive.
LEMMA NextInv == IInv /\ [Next]_vars => IInv'
<1> SUFFICES ASSUME IInv, [Next]_vars PROVE IInv'
  OBVIOUS
<1>1. CASE InitWithoutSession \/ InitPlugin \/ Cleanup
  BY <1>1, LifecycleInv
<1>2. CASE Toggle \/ ToggleCommand
  BY <1>2, ToggleStartInv, NoticesInv, StopInv
  DEF Toggle, ToggleCommand, ToggleRefused, ToggleStop
<1>3. CASE Stop \/ StopCommand \/ PauseResume
  BY <1>3, StopInv, PauseResumeInv DEF StopCommand
<1>4. CASE NextPrevSegment \/ VoiceEngineCommand \/ Settings \/ StatusCommand
  BY <1>4, NoticesInv, SettingsInv
  DEF NextPrevSegment, VoiceEngineCommand, StatusCommand
<1>5. CASE \/ SpeedUp \/ SpeedDown \/ VolumeUp \/ VolumeDown
           \/ SpeedCommand \/ VolumeCommand \/ ConfigCommand
  BY <1>5, SetInv, NoticesInv DEF ConfigCommand, VoiceEngineCommand
<1>6. CASE (\E i \in status.sources : TimeoutFires(i)) \/ OrphanTimeoutFires
  BY <1>6, TimeoutInv, OrphanInv
<1>7. CASE AfterAbort \/ UNCHANGED vars
  <2>1. UNCHANGED <<audio, plugin, ui>>
    BY <1>7 DEF AfterAbort, vars
  <2>. QED
    BY <2>1 DEF IInv, TypeOK, ControllersTogether, FreedUiIsSilent, ActiveFlagAgrees,
                StatusNotStale, OneTimeout, QuietAfterCleanup, SettingsKnown
<1>. QED  BY <1>1, <1>2, <1>3, <1>4, <1>5, <1>6, <1>7 DEF Next

\* The plugin never leaves IInv.
THEOREM PluginInvariant == Spec => []IInv
  BY InitInv, NextInv, PTL DEF Spec
-------------------------------------------------------------------------------
(***************************************************************************)
(* What follows from it.                                                   *)
(***************************************************************************)

\* tts_active, set by handlers and by callbacks, agrees with the state of the
\* audio controller between any two handlers.
THEOREM FlagAgreement == Spec => []ActiveFlagAgrees
<1>1. IInv => ActiveFlagAgrees
  BY DEF IInv
<1>. QED  BY <1>1, PluginInvariant, PTL

\* The status line never tells a state that is over.
THEOREM FreshStatus == Spec => []StatusNotStale
<1>1. IInv => StatusNotStale
  BY DEF IInv
<1>. QED  BY <1>1, PluginInvariant, PTL

\* One timeout at most is pending, and the UI controller knows which.
THEOREM KnownTimeout == Spec => []OneTimeout
<1>1. IInv => OneTimeout
  BY DEF IInv
<1>. QED  BY <1>1, PluginInvariant, PTL

\* An engine that speaks belongs to a plugin that is there to stop it.
THEOREM CleanupIsComplete == Spec => []QuietAfterCleanup
<1>1. IInv => QuietAfterCleanup
  BY DEF IInv
<1>. QED  BY <1>1, PluginInvariant, PTL
-------------------------------------------------------------------------------
(***************************************************************************)
(* The audio controller inside the plugin.                                 *)
(***************************************************************************)

\* A step that leaves the audio controller alone.
LEMMA AudioStutters == UNCHANGED audio => UNCHANGED Audio!vars
  BY DEF Audio!vars, Audio!position, Audio!segments, Audio!settings

\* Every handler makes the calls of a caller that AudioController allows, and
\* asks for settings within its range.
LEMMA StepUsesAudio == IInv /\ [Next]_vars => [Audio!Next]_(Audio!vars)
<1> SUFFICES ASSUME IInv, [Next]_vars PROVE [Audio!Next]_(Audio!vars)
  OBVIOUS
<1>1. CASE InitWithoutSession \/ InitPlugin \/ Cleanup
  BY <1>1, AudioStutters DEF InitWithoutSession, InitPlugin, Cleanup, Audio!Next
<1>2. ASSUME Notices PROVE [Audio!Next]_(Audio!vars)
  BY <1>2, AudioStutters DEF Notices
<1>3. ASSUME Stop PROVE [Audio!Next]_(Audio!vars)
  BY <1>3 DEF Stop, Audio!Next
<1>4. ASSUME Toggle PROVE [Audio!Next]_(Audio!vars)
  <2>1. ASSUME NEW l \in Lists, ToggleStart(l) PROVE Audio!Next
    <3>1. l \in Audio!Lists
      BY DEF Lists
    <3>2. \E started \in BOOLEAN : Audio!StartSession(l, started)
      BY <2>1 DEF ToggleStart
    <3>. QED  BY <3>1, <3>2 DEF Audio!Next
  <2>. QED  BY <1>2, <1>3, <1>4, <2>1 DEF Toggle, ToggleRefused, ToggleStop
<1>5. CASE PauseResume
  <2>1. \/ state = "PLAYING" /\ Audio!PauseSession
        \/ state = "PAUSED" /\ Audio!ResumeSession
        \/ Notices
    BY <1>5 DEF PauseResume, Switches
  <2>. QED  BY <1>2, <2>1 DEF Audio!Next
<1>6. ASSUME SpeedUp \/ SpeedDown \/ SpeedCommand PROVE [Audio!Next]_(Audio!vars)
  <2>1. Notices \/ \E speed \in 5..30 \cup {Audio!NaN} : Audio!SetSpeed(speed)
    BY <1>6, SpeedAsked
  <2>2. 5..30 \cup {Audio!NaN} \subseteq (0..50) \cup {Audio!NaN}
    OBVIOUS
  <2>. QED  BY <1>2, <2>1, <2>2 DEF Audio!Next
<1>7. ASSUME VolumeUp \/ VolumeDown \/ VolumeCommand PROVE [Audio!Next]_(Audio!vars)
  <2>1. Notices \/ \E volume \in 0..100 : Audio!SetVolume(volume)
    BY <1>7, VolumeAsked
  <2>. QED  BY <1>2, <2>1 DEF Audio!Next
<1>8. CASE \/ ToggleCommand \/ Stop \/ StopCommand \/ NextPrevSegment
           \/ VoiceEngineCommand \/ ConfigCommand
  BY <1>2, <1>3, <1>4, <1>6, <1>7, <1>8
  DEF ToggleCommand, StopCommand, NextPrevSegment, VoiceEngineCommand, ConfigCommand
<1>9. CASE \/ Settings \/ StatusCommand \/ OrphanTimeoutFires \/ AfterAbort
           \/ \E i \in status.sources : TimeoutFires(i)
           \/ UNCHANGED vars
  BY <1>9, AudioStutters
  DEF Settings, StatusCommand, OrphanTimeoutFires, AfterAbort, TimeoutFires, vars
<1>. QED  BY <1>1, <1>4, <1>5, <1>6, <1>7, <1>8, <1>9 DEF Next

\* The plugin uses the audio controller only as AudioController allows.
THEOREM PluginUsesAudioController == Spec => UsesAudioController
<1>1. Init => Audio!Init
  BY DEF Init
<1>. QED
  BY <1>1, StepUsesAudio, PluginInvariant, PTL
  DEF Spec, UsesAudioController, Audio!Spec

\* The proofs about the audio controller, with the settings of the plugin.
AudioProofs == INSTANCE AudioControllerProofs WITH Speeds <- 0..50, Volumes <- 0..100

\* The audio controller they are about takes the same steps and has the same
\* invariant as the one of TtsPlugin.
LEMMA SameStep == [Audio!Next]_(Audio!vars) => [AudioProofs!Next]_(AudioProofs!vars)
<1> SUFFICES ASSUME [Audio!Next]_(Audio!vars)
             PROVE  [AudioProofs!Next]_(AudioProofs!vars)
  OBVIOUS
<1>. USE DEF Audio!position, Audio!segments, Audio!settings, Audio!vars,
             AudioProofs!position, AudioProofs!segments, AudioProofs!settings,
             AudioProofs!vars, AudioProofs!Aborted, AudioProofs!Called
<1>1. CASE Audio!New \/ UNCHANGED Audio!vars
  BY <1>1 DEF Audio!New, AudioProofs!New, AudioProofs!Next
<1>2. CASE Audio!Free
  <2>1. AudioProofs!Free
    BY <1>2
    DEF Audio!Free, Audio!FreeSegments, Audio!Rewind, Audio!StopEngine, Audio!SetState,
        Audio!ValidTransitions, AudioProofs!Free, AudioProofs!FreeSegments,
        AudioProofs!Rewind, AudioProofs!StopEngine, AudioProofs!SetState,
        AudioProofs!ValidTransitions
  <2>. QED  BY <2>1 DEF AudioProofs!Next
<1>3. CASE Audio!StopSession
  <2>1. AudioProofs!StopSession
    BY <1>3
    DEF Audio!StopSession, Audio!Rewind, Audio!StopEngine, Audio!SetState,
        Audio!ValidTransitions, AudioProofs!StopSession, AudioProofs!Rewind,
        AudioProofs!StopEngine, AudioProofs!SetState, AudioProofs!ValidTransitions
  <2>. QED  BY <2>1 DEF AudioProofs!Next
<1>4. CASE \E l \in Audio!Lists, started \in BOOLEAN : Audio!StartSession(l, started)
  <2>1. PICK l \in Audio!Lists, started \in BOOLEAN : Audio!StartSession(l, started)
    BY <1>4
  <2>2. l \in AudioProofs!Lists
    BY DEF Audio!Lists, Audio!Pages, AudioProofs!Lists, AudioProofs!Pages
  <2>3. /\ Audio!StoppedEngine = AudioProofs!StoppedEngine
        /\ Audio!StoppedState = AudioProofs!StoppedState
        /\ \A old, new : Audio!SetState(old, new) = AudioProofs!SetState(old, new)
    BY DEF Audio!StoppedEngine, Audio!StopEngine, Audio!StoppedState, Audio!SetState,
           Audio!ValidTransitions, AudioProofs!StoppedEngine, AudioProofs!StopEngine,
           AudioProofs!StoppedState, AudioProofs!SetState,
           AudioProofs!ValidTransitions
  <2>4. \A engine : Audio!StartEngine(engine, started)
                      = AudioProofs!StartEngine(engine, started)
    BY Zenon DEF Audio!StartEngine, AudioProofs!StartEngine
  <2>5. AudioProofs!StartSession(l, started)
    BY <2>1, <2>3, <2>4
    DEF Audio!StartSession, Audio!FreeSegments, Audio!Rewind,
        AudioProofs!StartSession, AudioProofs!FreeSegments, AudioProofs!Rewind
  <2>. QED  BY <2>2, <2>5 DEF AudioProofs!Next
<1>5. CASE \/ state = "PLAYING" /\ Audio!PauseSession
           \/ state = "PAUSED" /\ Audio!ResumeSession
  <2>1. \/ state = "PLAYING" /\ AudioProofs!PauseSession
        \/ state = "PAUSED" /\ AudioProofs!ResumeSession
    BY <1>5
    DEF Audio!PauseSession, Audio!ResumeSession, Audio!SetState,
        Audio!ValidTransitions, AudioProofs!PauseSession, AudioProofs!ResumeSession,
        AudioProofs!SetState, AudioProofs!ValidTransitions
  <2>. QED  BY <2>1 DEF AudioProofs!Next
<1>6. CASE \/ \E page \in Audio!Pages, segment \in 0..MaxSegments :
                 Audio!SetPosition(page, segment)
           \/ \E direction \in {-1, 1} : Audio!NavigateToSegment(direction)
           \/ \E page \in Audio!Pages : Audio!NavigateToPage(page)
  <2>. USE DEF Audio!MoveTo, Audio!Navigates, Audio!Contents, Audio!Lists, Audio!Pages,
               Audio!ReadSegments, AudioProofs!MoveTo, AudioProofs!Navigates,
               AudioProofs!Contents, AudioProofs!Lists, AudioProofs!Pages,
               AudioProofs!ReadSegments
  <2>1. ASSUME NEW page \in Audio!Pages, NEW segment \in 0..MaxSegments,
               Audio!SetPosition(page, segment)
        PROVE  AudioProofs!SetPosition(page, segment)
    BY <2>1 DEF Audio!SetPosition, AudioProofs!SetPosition
  <2>2. ASSUME NEW direction \in {-1, 1}, Audio!NavigateToSegment(direction)
        PROVE  AudioProofs!NavigateToSegment(direction)
    BY <2>2 DEF Audio!NavigateToSegment, AudioProofs!NavigateToSegment
  <2>3. ASSUME NEW page \in Audio!Pages, Audio!NavigateToPage(page)
        PROVE  AudioProofs!NavigateToPage(page)
    BY <2>3 DEF Audio!NavigateToPage, AudioProofs!NavigateToPage
  <2>. QED  BY <1>6, <2>1, <2>2, <2>3 DEF AudioProofs!Next
<1>7. CASE \/ \E speed \in (0..50) \cup {Audio!NaN} : Audio!SetSpeed(speed)
           \/ \E volume \in (0..100) \cup {-1} : Audio!SetVolume(volume)
  BY <1>7 DEF Audio!SetSpeed, Audio!SetVolume, Audio!NaN, AudioProofs!SetSpeed,
              AudioProofs!SetVolume, AudioProofs!NaN, AudioProofs!Next
<1>8. CASE Audio!AfterAbort
  BY <1>8 DEF Audio!AfterAbort, AudioProofs!AfterAbort, AudioProofs!Next
<1>. QED  BY <1>1, <1>2, <1>3, <1>4, <1>5, <1>6, <1>7, <1>8 DEF Audio!Next

\* The invariant proved of the audio controller is the one of the plugin's instance.
LEMMA SameInv == AudioProofs!IInv <=> Audio!IInv
  BY SMT
  DEF Audio!NaN, Audio!States, Audio!EngineStates, Audio!Pages, Audio!Lists,
      Audio!TypeOK, Audio!EngineAgrees, Audio!PlayingHasSegments,
      Audio!PositionInSegments, Audio!IInv, AudioProofs!NaN, AudioProofs!States,
      AudioProofs!EngineStates, AudioProofs!Pages, AudioProofs!Lists,
      AudioProofs!TypeOK, AudioProofs!EngineAgrees,
      AudioProofs!PlayingHasSegments, AudioProofs!PositionInSegments,
      AudioProofs!IInv

\* So what is proved of the audio controller alone holds inside the plugin:
\* it agrees with the streaming engine, what plays has its segments, and the
\* position is that of a segment.
THEOREM AudioInsidePlugin ==
  Spec => [](Audio!EngineAgrees /\ Audio!PlayingHasSegments
               /\ Audio!PositionInSegments)
<1>1. Init => AudioProofs!Init
  BY DEF Init, Audio!Init, AudioProofs!Init
<1>2. Spec => AudioProofs!Spec
  BY <1>1, SameStep, StepUsesAudio, PluginInvariant, PTL DEF Spec, AudioProofs!Spec
<1>3. AudioProofs!Spec => []AudioProofs!IInv
  <2>1. 0..50 \subseteq Nat /\ 0..100 \subseteq Nat
    OBVIOUS
  <2>. QED
    BY <2>1, AudioProofs!ControllerInvariant, MaxPageAssumption,
       MaxSegmentsAssumption, Zenon
<1>4. AudioProofs!IInv => /\ Audio!EngineAgrees /\ Audio!PlayingHasSegments
                          /\ Audio!PositionInSegments
  BY SameInv DEF Audio!IInv
<1>. QED  BY <1>2, <1>3, <1>4, PTL
===============================================================================

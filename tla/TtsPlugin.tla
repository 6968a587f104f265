------------------------------ MODULE TtsPlugin ------------------------------
(***************************************************************************)
(* The plugin around the audio controller: its life cycle (plugin.c) and   *)
(* the UI controller (tts-ui-controller.c), whose shortcut and command     *)
(* handlers drive the audio controller, whose state-change callback the    *)
(* audio controller calls, and whose status line is cleared by a GLib      *)
(* timeout.  All of it runs on the UI thread; a handler, with the audio    *)
(* controller calls and callbacks inside it, is one step.                  *)
(*                                                                         *)
(* A status message is reduced to the playback state it tells, or to       *)
(* "notice" when it tells none.                                            *)
(***************************************************************************)
EXTENDS Integers, Sequences, FiniteSets

CONSTANTS
    MaxPage,       \* pages are numbered 0..MaxPage
    MaxSegments,   \* most segments of a session
    Speeds,        \* speeds the user types, besides "nan"
    Volumes        \* volumes the user types, besides negative ones

ASSUME MaxPageAssumption == MaxPage \in Nat
ASSUME MaxSegmentsAssumption == MaxSegments \in Nat \ {0}
ASSUME SpeedsAssumption == Speeds \subseteq Nat
ASSUME VolumesAssumption == Volumes \subseteq Nat

VARIABLES
    controller, state, current_page, current_segment, text_segments, pages,
    streaming_engine, faults, speed_multiplier,
    volume_level,    \* these are the audio controller's
    plugin,          \* g_tts_plugin: "NULL", "allocated" or "initialized"
    ui_controller,   \* g_ui_controller: "NULL" or "live"
    tts_active,      \* of the UI controller
    status,          \* status_message, status_timeout_id, and GLib's sources
    orphan,          \* a timeout is pending for a UI controller that is freed
    stale_calls      \* the kinds of callbacks made on a freed UI controller

Audio == INSTANCE AudioController WITH Speeds <- 0..50, Volumes <- 0..100

audio == <<controller, state, current_page, current_segment, text_segments,
           pages, streaming_engine, faults, speed_multiplier, volume_level>>
ui == <<ui_controller, tts_active, status, orphan, stale_calls>>
vars == <<audio, plugin, ui>>

Init ==
    /\ Audio!Init
    /\ plugin = "NULL"
    /\ ui_controller = "NULL"
    /\ tts_active = FALSE
    /\ status = [message |-> "NULL", timeout_id |-> 0, sources |-> {}]
    /\ orphan = FALSE
    /\ stale_calls = {}
-------------------------------------------------------------------------------
(***************************************************************************)
(* The status line.  A handler calls show_status several times, so what it *)
(* does is a function from one status to the next.                         *)
(***************************************************************************)

\* g_timeout_add: an id no pending source has.
NewSource(sources) ==
    CHOOSE i \in 1..(Cardinality(sources) + 1) : i \notin sources

\* Mutant: the timeout of the previous message is not removed.
ShowKeepsTimeout(line, message, timed) ==
    LET id == NewSource(line.sources)
    IN  [message |-> message,
         timeout_id |-> IF timed THEN id ELSE 0,
         sources |-> IF timed THEN line.sources \cup {id} ELSE line.sources]

\* tts_ui_controller_show_status.
Show(line, message, timed) ==
    LET others == line.sources \ {line.timeout_id}
        id == NewSource(others)
    IN  [message |-> message,
         timeout_id |-> IF timed THEN id ELSE 0,
         sources |-> IF timed THEN others \cup {id} ELSE others]

\* tts_ui_controller_clear_status.
Clear(line) ==
    [message |-> "NULL", timeout_id |-> 0,
     sources |-> line.sources \ {line.timeout_id}]

\* Mutant: only playing counts as active.
IsActivePlaying(new) == new = "PLAYING"

IsActive(new) == new \in {"PLAYING", "PAUSED"}

\* The indicator, which is to stay while playback is active; a notification;
\* and the progress.
UpdateVisualState(line, new) == Show(line, new, new \in {"STOPPED", "ERROR"})
NotifyStateChange(line, new) == Show(line, new, TRUE)
ShowDocumentProgress(line) == Show(line, "PLAYING", TRUE)

\* The state-change callback.  Playback starts or goes on at a position of a
\* list that is not empty, so there is a progress to show.
StateChanged(line, new) ==
    LET notified == NotifyStateChange(UpdateVisualState(line, new), new)
    IN  IF new = "PLAYING" THEN ShowDocumentProgress(notified) ELSE notified

\* set_state to new: the callback is called if the transition is valid.
SetStateShows(line, old, new) ==
    IF <<old, new>> \in Audio!ValidTransitions
    THEN StateChanged(line, new)
    ELSE line
-------------------------------------------------------------------------------
(***************************************************************************)
(* Life cycle.  An initialization that fails for want of a TTS engine      *)
(* cleans up what it has made, and leaves no trace.                        *)
(***************************************************************************)

Running == ~Audio!Aborted

\* No girara session: the plugin object stays, without a session.
InitWithoutSession ==
    /\ Running
    /\ plugin = "NULL"
    /\ plugin' = "allocated"
    /\ UNCHANGED <<audio, ui>>

\* What initialization says on the status line of the new UI controller.
NewUi == [status EXCEPT !.message = "NULL", !.timeout_id = 0]
RegisterShortcuts(line) == Show(line, "notice", TRUE)
RegisterCommands(line) == Show(line, "notice", TRUE)
InitNotifications(line) == Show(line, "notice", TRUE)

\* Both controllers, the shortcuts and the commands, and the callback.
InitPlugin ==
    /\ Running
    /\ plugin # "initialized"
    /\ plugin' = "initialized"
    /\ Audio!New
    /\ ui_controller' = "live"
    /\ tts_active' = FALSE
    /\ status' = InitNotifications(RegisterCommands(RegisterShortcuts(NewUi)))
    /\ UNCHANGED <<orphan, stale_calls>>

\* tts_ui_controller_free.
FreeUi ==
    /\ ui_controller' = "NULL"
    /\ tts_active' = FALSE
    /\ status' = Clear(status)

\* Mutant: the audio controller is forgotten.
CleanupForgetsAudio ==
    /\ Running
    /\ plugin # "NULL"
    /\ plugin' = "NULL"
    /\ FreeUi
    /\ UNCHANGED <<audio, orphan, stale_calls>>

\* tts_plugin_cleanup: the UI controller is freed first, so the callback of
\* the session that is then stopped runs on freed memory; the timeout it
\* adds there, if any, stays behind.
Cleanup ==
    /\ Running
    /\ plugin # "NULL"
    /\ plugin' = "NULL"
    /\ \/ plugin = "allocated" /\ UNCHANGED <<audio, ui>>
       \/ /\ plugin = "initialized"
          /\ FreeUi
          /\ Audio!Free
          /\ IF <<state, "STOPPED">> \in Audio!ValidTransitions
             THEN /\ stale_calls' = stale_calls \cup {"state change"}
                  /\ orphan' \in {orphan, TRUE}
             ELSE UNCHANGED <<orphan, stale_calls>>
-------------------------------------------------------------------------------
(***************************************************************************)
(* Handlers.  Without a UI controller they return at once.                 *)
(***************************************************************************)

Handles == Running /\ ui_controller = "live"

\* A handler that only shows a message.
Notices ==
    /\ Handles
    /\ status' = Show(status, "notice", TRUE)
    /\ UNCHANGED <<audio, plugin, ui_controller, tts_active, orphan,
                   stale_calls>>

Lists == Audio!Lists \ {<<>>}

\* Mutant: the result of start_session is not looked at.
ToggleStartUnchecked(l) ==
    /\ Handles
    /\ state = "STOPPED"
    /\ \E started \in BOOLEAN : Audio!StartSession(l, started)
    /\ status' = Show(status, "PLAYING", TRUE)
    /\ tts_active' = IsActive(state')
    /\ UNCHANGED <<plugin, ui_controller, orphan, stale_calls>>

\* sc_tts_toggle when stopped, with the text l of up to three pages.
ToggleStart(l) ==
    /\ Handles
    /\ state = "STOPPED"
    /\ LET playing == SetStateShows(status, state, "PLAYING")
           failed == SetStateShows(playing, "PLAYING", "ERROR")
       IN  \/ /\ Audio!StartSession(l, TRUE)
              /\ tts_active' = TRUE
              /\ status' = Show(playing, "PLAYING", TRUE)
           \/ /\ Audio!StartSession(l, FALSE)
              /\ tts_active' = IsActive("ERROR")
              /\ status' = Show(failed, "ERROR", TRUE)
    /\ UNCHANGED <<plugin, ui_controller, orphan, stale_calls>>

\* No document, no page, or no text on the next three pages.
ToggleRefused == state = "STOPPED" /\ Notices

\* The session is stopped, here and by sc_tts_toggle and cmd_tts_stop.
Stop ==
    /\ Handles
    /\ Audio!StopSession
    /\ tts_active' = FALSE
    /\ status' = Show(SetStateShows(status, state, "STOPPED"), "STOPPED", TRUE)
    /\ UNCHANGED <<plugin, ui_controller, orphan, stale_calls>>

ToggleStop == state # "STOPPED" /\ Stop

Toggle == (\E l \in Lists : ToggleStart(l)) \/ ToggleRefused \/ ToggleStop

\* set_state accepts both transitions, and so does the engine.
Switches(old, new) ==
    /\ state = old
    /\ tts_active' = IsActive(new)
    /\ status' = Show(SetStateShows(status, old, new), new, TRUE)
    /\ UNCHANGED <<plugin, ui_controller, orphan, stale_calls>>

\* Mutant: whatever does not play is resumed.
PauseResumeUnguarded ==
    \/ Handles /\ Switches("PLAYING", "PAUSED") /\ Audio!PauseSession
    \/ Handles /\ Switches(state, "PLAYING") /\ Audio!ResumeSession

PauseResume ==
    \/ Handles /\ Switches("PLAYING", "PAUSED") /\ Audio!PauseSession
    \/ Handles /\ Switches("PAUSED", "PLAYING") /\ Audio!ResumeSession
    \/ state \in {"STOPPED", "ERROR"} /\ Notices

\* sc_tts_next_segment and sc_tts_prev_segment, which are not implemented.
NextPrevSegment == Notices

\* A handler that changes a setting of the audio controller and says so.
\* What the handlers ask for is within what the audio controller accepts.
Changes(SetSetting) ==
    /\ Handles
    /\ SetSetting
    /\ status' = Show(status, "notice", TRUE)
    /\ UNCHANGED <<plugin, ui_controller, tts_active, orphan, stale_calls>>

\* A speed that is not a number stays so: no clamp applies to it.
SpeedUp ==
    LET NaN == Audio!NaN
        new == IF speed_multiplier + 1 > 30 THEN 30 ELSE speed_multiplier + 1
    IN  Changes(Audio!SetSpeed(IF speed_multiplier = NaN THEN NaN ELSE new))

SpeedDown ==
    LET NaN == Audio!NaN
        new == IF speed_multiplier - 1 < 5 THEN 5 ELSE speed_multiplier - 1
    IN  Changes(Audio!SetSpeed(IF speed_multiplier = NaN THEN NaN ELSE new))

VolumeUp ==
    Changes(Audio!SetVolume(IF volume_level + 10 > 100 THEN 100 ELSE volume_level + 10))

VolumeDown ==
    Changes(Audio!SetVolume(IF volume_level - 10 < 0 THEN 0 ELSE volume_level - 10))

\* With no argument the commands show the setting.
SpeedCommand ==
    \/ \E speed \in Speeds \cup {Audio!NaN} :
          IF speed # Audio!NaN /\ (speed < 5 \/ speed > 30)
          THEN Notices
          ELSE Changes(Audio!SetSpeed(speed))
    \/ Notices

VolumeCommand ==
    \/ \E volume \in Volumes \cup {-1} :
          IF volume < 0 \/ volume > 100
          THEN Notices
          ELSE Changes(Audio!SetVolume(volume))
    \/ Notices

\* cmd_tts_voice and cmd_tts_engine, which apply nothing.
VoiceEngineCommand == Notices

\* cmd_tts_config passes its value on to the command of the option.
ConfigCommand == SpeedCommand \/ VolumeCommand \/ VoiceEngineCommand

\* The message of sc_tts_settings tells the state.
Settings ==
    /\ Handles
    /\ status' = Show(status, state, TRUE)
    /\ UNCHANGED <<audio, plugin, ui_controller, tts_active, orphan,
                   stale_calls>>

\* cmd_tts_toggle, cmd_tts_stop and cmd_tts_status call the handlers of the
\* shortcuts.
ToggleCommand == Toggle
StopCommand == Stop
StatusCommand == Settings

\* status_timeout_callback; GLib removes the source when it returns.
TimeoutFires(i) ==
    /\ Handles
    /\ i \in status.sources
    /\ LET cleared == Clear(status)
       IN  status' = [cleared EXCEPT !.sources = @ \ {i}]
    /\ UNCHANGED <<audio, plugin, ui_controller, tts_active, orphan,
                   stale_calls>>

\* The same on a UI controller that has been freed.
OrphanTimeoutFires ==
    /\ Running
    /\ orphan
    /\ orphan' = FALSE
    /\ stale_calls' = stale_calls \cup {"timeout"}
    /\ UNCHANGED <<audio, plugin, ui_controller, tts_active, status>>

AfterAbort == ~Running /\ UNCHANGED vars

Next ==
    \/ InitWithoutSession \/ InitPlugin \/ Cleanup
    \/ Toggle \/ Stop \/ PauseResume \/ NextPrevSegment \/ Settings
    \/ SpeedUp \/ SpeedDown \/ VolumeUp \/ VolumeDown
    \/ ToggleCommand \/ StopCommand \/ StatusCommand
    \/ SpeedCommand \/ VolumeCommand \/ VoiceEngineCommand \/ ConfigCommand
    \/ \E i \in status.sources : TimeoutFires(i)
    \/ OrphanTimeoutFires \/ AfterAbort

Spec == Init /\ [][Next]_vars
-------------------------------------------------------------------------------
(***************************************************************************)
(* Properties.                                                             *)
(***************************************************************************)

\* The UI controller's own flag, set by handlers and by callbacks, and the
\* state of the audio controller never disagree between two handlers.
ActiveFlagAgrees ==
    ui_controller = "live" => (tts_active <=> state \in {"PLAYING", "PAUSED"})

\* The status line never tells a state that is no longer the case, whether
\* the last word was that of a handler, of a callback inside it, or of a
\* start that failed half way.
StatusNotStale ==
    status.message \in Audio!States => status.message = state

\* At most one timeout is pending and the UI controller knows it, so that no
\* timeout of an earlier message clears a later one; none is left, orphans
\* of the callback in cleanup aside, when the UI controller is freed.
OneTimeout ==
    status.sources = IF status.timeout_id = 0 THEN {} ELSE {status.timeout_id}

\* After cleanup, and before initialization, no engine speaks on, and no
\* audio controller is left.
QuietAfterCleanup ==
    plugin # "initialized" =>
        /\ controller = "NULL" /\ text_segments = "NULL"
        /\ streaming_engine \in {"NULL", "IDLE"}

\* The plugin uses the audio controller only as AudioController allows: what
\* is proved of it holds of it inside the plugin.
UsesAudioController == Audio!Spec

-------------------------------------------------------------------------------
(***************************************************************************)
(* The inductive invariant behind the properties (proved in                *)
(* TtsPluginProofs).                                                       *)
(***************************************************************************)

Messages == {"NULL", "notice"} \cup Audio!States

TypeOK ==
    /\ state \in Audio!States
    /\ controller \in {"NULL", "live"}
    /\ plugin \in {"NULL", "allocated", "initialized"}
    /\ ui_controller \in {"NULL", "live"}
    /\ tts_active \in BOOLEAN
    /\ status \in [message : Messages, timeout_id : Nat, sources : SUBSET Nat]
    /\ orphan \in BOOLEAN
    /\ stale_calls \subseteq {"state change", "timeout"}

\* The two controllers come and go with the plugin.
ControllersTogether ==
    /\ ui_controller = "live" <=> plugin = "initialized"
    /\ controller = "live" <=> plugin = "initialized"

\* A freed UI controller shows nothing and waits for nothing.
FreedUiIsSilent ==
    ui_controller = "NULL" =>
        ~tts_active /\ status.message = "NULL" /\ status.timeout_id = 0

\* What the handlers' tests let through: the range of the speed, and NaN, which
\* is in no range and passes every comparison.
SettingsKnown ==
    /\ speed_multiplier \in 5..30 \cup {Audio!NaN}
    /\ volume_level \in 0..100

IInv ==
    /\ TypeOK /\ ControllersTogether /\ FreedUiIsSilent
    /\ ActiveFlagAgrees /\ StatusNotStale /\ OneTimeout
    /\ QuietAfterCleanup /\ SettingsKnown
-------------------------------------------------------------------------------
\* Violated: "create copies to avoid double-free".  A start that fails leaves
\* controller->text_segments on the list that sc_tts_toggle frees, and the
\* next start, or the cleanup, frees it again.
NoDoubleFree == "double_free" \notin faults

\* Violated: "Stopping any active TTS playback", "Removing UI integrations".
\* The cleanup stops playback after it has freed what the stop calls back.
NoStaleCallback == stale_calls = {}
===============================================================================

--------------------------- MODULE AudioController ---------------------------
(***************************************************************************)
(* The audio controller (tts-audio-controller.c): the playback state, the  *)
(* list of text segments it plays from, the position in that list, and the *)
(* streaming engine it starts, pauses, resumes and stops.                  *)
(*                                                                         *)
(* Every function is called on the UI thread, so a call is one step; the   *)
(* threads behind the streaming engine are the subject of StreamingEngine, *)
(* of which a call here sees only the state it leaves (SpeechStream's      *)
(* mode).  The controller mutex is never contended and is left out.        *)
(*                                                                         *)
(* The calls are those that the sources of the plugin make, and those of   *)
(* the navigation functions.  tts_audio_controller_set_state, which only   *)
(* the tests call from outside the controller, is no action of its own: it *)
(* can set the state to PLAYING without an engine.                         *)
(*                                                                         *)
(* A list is the page number of each of its segments.  Reading a list that *)
(* has been freed gives an arbitrary list; freeing it again ends the       *)
(* program.                                                                *)
(*                                                                         *)
(* A speed is in tenths; the rounding of the float that stores it is left  *)
(* out, but a float may also be NaN.                                       *)
(***************************************************************************)
EXTENDS Integers, Sequences

CONSTANTS
    MaxPage,       \* pages are numbered 0..MaxPage
    MaxSegments,   \* most segments of a session
    Speeds,        \* speeds a caller may ask for, besides NaN
    Volumes        \* volumes a caller may ask for, besides negative ones

\* Not a number: no comparison with it is true.
NaN == -1

ASSUME MaxPageAssumption == MaxPage \in Nat
ASSUME MaxSegmentsAssumption == MaxSegments \in Nat \ {0}
ASSUME SpeedsAssumption == Speeds \subseteq Nat
ASSUME VolumesAssumption == Volumes \subseteq Nat

VARIABLES
    controller,        \* the controller object: "NULL" or "live"
    state,             \* controller->state
    current_page, current_segment,
    text_segments,     \* what controller->text_segments points to
    pages,             \* page_number of each segment of that list
    streaming_engine,  \* controller->streaming_engine, by its state
    faults,            \* memory errors committed so far
    speed_multiplier, volume_level

position == <<current_page, current_segment>>
segments == <<text_segments, pages>>
settings == <<speed_multiplier, volume_level>>
vars == <<controller, state, position, segments, streaming_engine, faults,
          settings>>

States == {"STOPPED", "PLAYING", "PAUSED", "ERROR"}

EngineStates == {"NULL", "IDLE", "ACTIVE", "PAUSED", "ERROR"}

Pages == 0..MaxPage

\* What sc_tts_toggle extracts: the pages of the segments, in page order.
Lists ==
    {l \in UNION {[1..n -> Pages] : n \in 0..MaxSegments} :
        \A i, j \in DOMAIN l : i <= j => l[i] <= l[j]}

TypeOK ==
    /\ controller \in {"NULL", "live"}
    /\ state \in States
    /\ current_page \in -1..MaxPage
    /\ current_segment \in -1..(MaxSegments - 1)
    /\ text_segments \in {"NULL", "live", "freed"}
    /\ pages \in Lists
    /\ streaming_engine \in EngineStates
    /\ faults \subseteq {"use_after_free", "double_free"}
    /\ speed_multiplier \in {NaN} \cup 1..50
    /\ volume_level \in 0..100

Init ==
    /\ controller = "NULL"
    /\ state = "STOPPED"
    /\ current_page = -1
    /\ current_segment = -1
    /\ text_segments = "NULL"
    /\ pages = <<>>
    /\ streaming_engine = "NULL"
    /\ faults = {}
    /\ speed_multiplier = 10
    /\ volume_level = 80
-------------------------------------------------------------------------------
(***************************************************************************)
(* Memory.                                                                 *)
(***************************************************************************)

\* The allocator ends a program that frees a list twice.
Aborted == "double_free" \in faults

\* A call on an existing controller.
Called == controller = "live" /\ ~Aborted

\* What reading controller->text_segments may give.
Contents == IF text_segments = "live" THEN {pages} ELSE Lists

ReadSegments ==
    faults' = IF text_segments = "freed" THEN faults \cup {"use_after_free"}
                                         ELSE faults

\* girara_list_free on controller->text_segments, unless it is NULL.
FreeSegments ==
    faults' = IF text_segments = "freed" THEN faults \cup {"double_free"}
                                         ELSE faults
-------------------------------------------------------------------------------
(***************************************************************************)
(* State transitions, and the streaming engine as its caller sees it.      *)
(***************************************************************************)

\* Mutant: playback cannot fail.
ValidTransitionsNoFailure ==
    ({"STOPPED"} \X {"PLAYING", "ERROR"})
      \cup ({"PLAYING"} \X {"PAUSED", "STOPPED"})
      \cup ({"PAUSED"} \X {"PLAYING", "STOPPED"})
      \cup ({"ERROR"} \X {"STOPPED"})

ValidTransitions ==
    ({"STOPPED"} \X {"PLAYING", "ERROR"})
      \cup ({"PLAYING"} \X {"PAUSED", "STOPPED", "ERROR"})
      \cup ({"PAUSED"} \X {"PLAYING", "STOPPED", "ERROR"})
      \cup ({"ERROR"} \X {"STOPPED"})

\* The state tts_audio_controller_set_state leaves: a transition that is not
\* valid is refused.
SetState(old, new) == IF <<old, new>> \in ValidTransitions THEN new ELSE old

\* Mutant: stop leaves an engine in error alone.
StopEngineNotFailed(engine) ==
    IF engine \in {"NULL", "ERROR"} THEN engine ELSE "IDLE"

\* tts_streaming_engine_stop by tts_audio_controller_stop_streaming_session.
StopEngine(engine) == IF engine = "NULL" THEN "NULL" ELSE "IDLE"

\* tts_streaming_engine_start, creating the engine if there is none: only an
\* idle engine starts, and it may fail to spawn the TTS process.
StartEngine(engine, started) ==
    CASE started -> "ACTIVE"
      [] ~started /\ engine \in {"NULL", "IDLE"} -> "ERROR"
      [] OTHER -> engine
-------------------------------------------------------------------------------
(***************************************************************************)
(* Creation and sessions.                                                  *)
(***************************************************************************)

New ==
    /\ controller = "NULL"
    /\ ~Aborted
    /\ controller' = "live"
    /\ state' = "STOPPED"
    /\ current_page' = -1
    /\ current_segment' = -1
    /\ text_segments' = "NULL"
    /\ pages' = <<>>
    /\ streaming_engine' = "NULL"
    /\ speed_multiplier' = 10
    /\ volume_level' = 80
    /\ UNCHANGED faults

\* The position at the first segment of list l, if it has one.
Rewind(l) ==
    /\ current_page' = IF l = <<>> THEN -1 ELSE l[1]
    /\ current_segment' = IF l = <<>> THEN -1 ELSE 0

\* What a session that is not stopped goes through before a new one.
StoppedState == IF state = "STOPPED" THEN state ELSE SetState(state, "STOPPED")
StoppedEngine ==
    IF state = "STOPPED" THEN streaming_engine ELSE StopEngine(streaming_engine)

\* start_session on a new list l.  When it fails, its caller sc_tts_toggle
\* frees the list, of which the controller keeps the address.
StartSession(l, started) ==
    /\ Called
    /\ started => StoppedEngine \in {"NULL", "IDLE"}
    /\ FreeSegments
    /\ pages' = l
    /\ text_segments' = IF started THEN "live" ELSE "freed"
    /\ Rewind(l)
    /\ streaming_engine' = StartEngine(StoppedEngine, started)
    /\ LET playing == SetState(StoppedState, "PLAYING")
       IN  state' = IF started THEN playing ELSE SetState(playing, "ERROR")
    /\ UNCHANGED <<controller, settings>>

StopSession ==
    /\ Called
    /\ Rewind(<<>>)
    /\ streaming_engine' = StopEngine(streaming_engine)
    /\ state' = SetState(state, "STOPPED")
    /\ UNCHANGED <<controller, segments, faults, settings>>

\* pause_session; an engine that is not ACTIVE refuses, and nothing changes.
PauseSession ==
    /\ Called
    /\ streaming_engine \in {"NULL", "ACTIVE"}
    /\ streaming_engine' = IF streaming_engine = "NULL" THEN "NULL" ELSE "PAUSED"
    /\ state' = SetState(state, "PAUSED")
    /\ UNCHANGED <<controller, position, segments, faults, settings>>

\* resume_session; an engine that is not PAUSED refuses, and nothing changes.
\* Without an engine set_state alone decides.
ResumeSession ==
    /\ Called
    /\ streaming_engine \in {"NULL", "PAUSED"}
    /\ streaming_engine' = IF streaming_engine = "NULL" THEN "NULL" ELSE "ACTIVE"
    /\ state' = SetState(state, "PLAYING")
    /\ UNCHANGED <<controller, position, segments, faults, settings>>

\* stop_session, the list and the controller are freed; nothing frees the
\* streaming engine.
Free ==
    /\ Called
    /\ FreeSegments
    /\ controller' = "NULL"
    /\ text_segments' = "NULL"
    /\ pages' = <<>>
    /\ Rewind(<<>>)
    /\ streaming_engine' = StopEngine(streaming_engine)
    /\ state' = SetState(state, "STOPPED")
    /\ UNCHANGED settings
-------------------------------------------------------------------------------
(***************************************************************************)
(* Navigation in the list.  The engine plays on; only the position moves.  *)
(* A refused call reads the list and leaves the position alone.            *)
(***************************************************************************)

MoveTo(page, segment) == current_page' = page /\ current_segment' = segment

\* A call that reads the list, as c, to find out where to move.
Navigates(Move(_)) ==
    /\ Called
    /\ text_segments # "NULL"
    /\ \E c \in Contents : Move(c)
    /\ ReadSegments
    /\ UNCHANGED <<controller, state, segments, streaming_engine, settings>>

SetPosition(page, segment) ==
    LET Move(c) ==
          IF segment \in 0..(Len(c) - 1) /\ c[segment + 1] = page
          THEN MoveTo(page, segment)
          ELSE UNCHANGED position
    IN  Navigates(Move)

\* Mutants: one step below the first segment is accepted; the page number
\* is not updated.
NavigateToSegmentUnbounded(direction) ==
    LET target == current_segment + direction
        Move(c) == IF target < Len(c)
                   THEN MoveTo(IF target < 0 THEN -1 ELSE c[target + 1], target)
                   ELSE UNCHANGED position
    IN  Navigates(Move)

NavigateToSegmentSamePage(direction) ==
    LET target == current_segment + direction
        Move(c) == IF target \in 0..(Len(c) - 1)
                   THEN MoveTo(current_page, target)
                   ELSE UNCHANGED position
    IN  Navigates(Move)

NavigateToSegment(direction) ==
    LET target == current_segment + direction
        Move(c) == IF target \in 0..(Len(c) - 1)
                   THEN MoveTo(c[target + 1], target)
                   ELSE UNCHANGED position
    IN  Navigates(Move)

\* To the first segment of the page.
NavigateToPage(page) ==
    LET IsFirst(c, i) == c[i] = page /\ \A j \in 1..(i - 1) : c[j] # page
        Move(c) ==
          \/ \E i \in DOMAIN c : IsFirst(c, i) /\ MoveTo(page, i - 1)
          \/ (\A i \in DOMAIN c : c[i] # page) /\ UNCHANGED position
    IN  Navigates(Move)

-------------------------------------------------------------------------------
(***************************************************************************)
(* Settings.  A value out of range is refused; the tests are comparisons,  *)
(* which let NaN pass.                                                     *)
(***************************************************************************)

SetSpeed(speed) ==
    /\ Called
    /\ speed = NaN \/ (speed > 0 /\ speed <= 50)
    /\ speed_multiplier' = speed
    /\ UNCHANGED <<controller, state, position, segments, streaming_engine,
                   faults, volume_level>>

SetVolume(volume) ==
    /\ Called
    /\ volume >= 0 /\ volume <= 100
    /\ volume_level' = volume
    /\ UNCHANGED <<controller, state, position, segments, streaming_engine,
                   faults, speed_multiplier>>
-------------------------------------------------------------------------------
\* After an abort nothing happens any more.
AfterAbort == Aborted /\ UNCHANGED vars

\* The calls of the plugin: sc_tts_pause_resume pauses only what plays and
\* resumes only what is paused.
Next ==
    \/ New \/ Free \/ StopSession
    \/ \E l \in Lists, started \in BOOLEAN : StartSession(l, started)
    \/ state = "PLAYING" /\ PauseSession
    \/ state = "PAUSED" /\ ResumeSession
    \/ \E page \in Pages, segment \in 0..MaxSegments : SetPosition(page, segment)
    \/ \E direction \in {-1, 1} : NavigateToSegment(direction)
    \/ \E page \in Pages : NavigateToPage(page)
    \/ \E speed \in Speeds \cup {NaN} : SetSpeed(speed)
    \/ \E volume \in Volumes \cup {-1} : SetVolume(volume)
    \/ AfterAbort

Spec == Init /\ [][Next]_vars
-------------------------------------------------------------------------------
(***************************************************************************)
(* Properties.                                                             *)
(***************************************************************************)

\* As the plugin calls it, the controller never believes something else than
\* the engine does, whatever calls failed on the way: set_state, which refuses a transition
\* silently, and the engine, which refuses calls by its own state, stay in
\* step through start, failed start, pause, resume and stop.
EngineAgrees ==
    /\ state = "PLAYING" => streaming_engine = "ACTIVE"
    /\ state = "PAUSED" => streaming_engine = "PAUSED"
    /\ state = "ERROR" => streaming_engine = "ERROR"
    /\ state = "STOPPED" => streaming_engine \in {"NULL", "IDLE"}

\* A session that plays or is paused has its list: the list that a failed
\* start leaves dangling is never the one being played.
PlayingHasSegments ==
    state \in {"PLAYING", "PAUSED"} =>
        controller = "live" /\ text_segments = "live"

\* The position is that of a segment of the current list, with the page that
\* segment is on, or there is none; no position outlives the list it was
\* taken from.
PositionInSegments ==
    \/ faults # {}
    \/ current_page = -1 /\ current_segment = -1
    \/ /\ text_segments # "NULL"
       /\ current_segment \in 0..(Len(pages) - 1)
       /\ current_page = pages[current_segment + 1]

\* The inductive invariant: the properties, and that a controller that does
\* not exist holds nothing.
IInv ==
    /\ TypeOK
    /\ EngineAgrees
    /\ PlayingHasSegments
    /\ PositionInSegments
    /\ controller = "NULL" => state = "STOPPED" /\ text_segments = "NULL"
===============================================================================

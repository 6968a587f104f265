------------------------ MODULE AudioControllerProofs ------------------------
(***************************************************************************)
(* Proofs about the audio controller, for any number of pages and of       *)
(* segments.  The properties of AudioController are inductive together     *)
(* (IInv): PlayingHasSegments rests on EngineAgrees, because only an       *)
(* engine that is not running can fail to start.                           *)
(***************************************************************************)
EXTENDS AudioController, TLAPS

\* A list is a sequence of page numbers, no longer than MaxSegments.
LEMMA ListType ==
  ASSUME NEW l \in Lists
  PROVE  /\ l \in Seq(Pages)
         /\ Len(l) \in 0..MaxSegments
         /\ DOMAIN l = 1..Len(l)
         /\ \A i \in 1..Len(l) : l[i] \in Pages
         /\ l # <<>> => Len(l) >= 1
<1>1. PICK n \in 0..MaxSegments : l \in [1..n -> Pages]
  BY DEF Lists
<1>2. n \in Nat
  BY MaxSegmentsAssumption
<1>3. l \in Seq(Pages) /\ Len(l) = n
  BY <1>1, <1>2
<1>. QED  BY <1>1, <1>2, <1>3, MaxSegmentsAssumption

\* The empty list is a list.
LEMMA EmptyList == <<>> \in Lists
<1>1. <<>> \in [1..0 -> Pages]
  OBVIOUS
<1>2. 0 \in 0..MaxSegments
  BY MaxSegmentsAssumption
<1>. QED  BY <1>1, <1>2 DEF Lists

\* The position at the head of a list is one of its positions, or none.
LEMMA RewindPosition ==
  ASSUME NEW l \in Lists, Rewind(l)
  PROVE  /\ current_page' \in -1..MaxPage
         /\ current_segment' \in -1..(MaxSegments - 1)
         /\ \/ current_page' = -1 /\ current_segment' = -1
            \/ current_segment' \in 0..(Len(l) - 1)
               /\ current_page' = l[current_segment' + 1]
<1>1. CASE l = <<>>
  BY <1>1, MaxPageAssumption, MaxSegmentsAssumption DEF Rewind
<1>2. CASE l # <<>>
  <2>1. Len(l) >= 1 /\ Len(l) \in 0..MaxSegments /\ l[1] \in Pages
    BY <1>2, ListType
  <2>2. current_page' = l[1] /\ current_segment' = 0
    BY <1>2 DEF Rewind
  <2>. QED  BY <2>1, <2>2, MaxPageAssumption, MaxSegmentsAssumption DEF Pages
<1>. QED  BY <1>1, <1>2

\* The initial state satisfies the invariant.
LEMMA InitInv == Init => IInv
  BY EmptyList, MaxPageAssumption, MaxSegmentsAssumption
     DEF Init, IInv, TypeOK, EngineAgrees, PlayingHasSegments,
         PositionInSegments, States, EngineStates

\* Freeing the list adds at most a double free.
LEMMA FreeSegmentsType ==
  ASSUME TypeOK, FreeSegments
  PROVE  faults' \subseteq {"use_after_free", "double_free"}
  BY DEF TypeOK, FreeSegments

\* Creating a controller.
LEMMA NewInv == IInv /\ New => IInv'
  BY EmptyList, MaxPageAssumption, MaxSegmentsAssumption
     DEF New, IInv, TypeOK, EngineAgrees, PlayingHasSegments,
         PositionInSegments, States, EngineStates

\* Starting a session, whether the engine starts or not.
LEMMA StartInv ==
  ASSUME IInv, NEW l \in Lists, NEW started \in BOOLEAN, StartSession(l, started)
  PROVE  IInv'
<1>. USE DEF IInv
<1>1. StoppedState = "STOPPED" /\ StoppedEngine \in {"NULL", "IDLE"}
  BY DEF StoppedState, StoppedEngine, SetState, ValidTransitions, StopEngine,
         EngineAgrees, TypeOK, States
<1>2. /\ state' = IF started THEN "PLAYING" ELSE "ERROR"
      /\ streaming_engine' = IF started THEN "ACTIVE" ELSE "ERROR"
  BY <1>1 DEF StartSession, StartEngine, SetState, ValidTransitions
<1>3. Rewind(l)
  BY DEF StartSession
<1>4. /\ text_segments' = IF started THEN "live" ELSE "freed"
      /\ pages' = l
      /\ controller' = "live"
      /\ UNCHANGED settings
  BY DEF StartSession, Called
<1>5. TypeOK'
  <2>1. faults' \subseteq {"use_after_free", "double_free"}
    BY FreeSegmentsType DEF StartSession
  <2>. QED
    BY <1>2, <1>3, <1>4, <2>1, RewindPosition
       DEF TypeOK, States, EngineStates, settings
<1>6. EngineAgrees'
  BY <1>2 DEF EngineAgrees
<1>7. PlayingHasSegments'
  BY <1>2, <1>4 DEF PlayingHasSegments
<1>8. PositionInSegments'
  BY <1>3, <1>4, RewindPosition DEF PositionInSegments
<1>. QED  BY <1>4, <1>5, <1>6, <1>7, <1>8

\* Stopping, pausing and resuming a session.
LEMMA ControlInv ==
  ASSUME IInv,
         \/ StopSession
         \/ state = "PLAYING" /\ PauseSession
         \/ state = "PAUSED" /\ ResumeSession
  PROVE  IInv'
<1>. USE DEF IInv, EngineAgrees, PlayingHasSegments, TypeOK, States, EngineStates,
             position, segments, settings
<1>1. CASE StopSession
  <2>1. state' = "STOPPED" /\ streaming_engine' \in {"NULL", "IDLE"}
    BY <1>1 DEF StopSession, SetState, ValidTransitions, StopEngine
  <2>2. current_page' = -1 /\ current_segment' = -1
    BY <1>1 DEF StopSession, Rewind
  <2>3. controller = "live" /\ UNCHANGED <<controller, text_segments, pages, faults,
                                           settings>>
    BY <1>1 DEF StopSession, Called
  <2>4. TypeOK'
    BY <2>1, <2>2, <2>3, MaxPageAssumption, MaxSegmentsAssumption
  <2>5. PositionInSegments'
    BY <2>2 DEF PositionInSegments
  <2>. QED  BY <2>1, <2>3, <2>4, <2>5
<1>2. CASE state = "PLAYING" /\ PauseSession
  <2>1. state' = "PAUSED" /\ streaming_engine' = "PAUSED"
    BY <1>2 DEF PauseSession, SetState, ValidTransitions
  <2>2. UNCHANGED <<controller, current_page, current_segment, text_segments, pages,
                    faults, settings>>
    BY <1>2 DEF PauseSession
  <2>. QED  BY <1>2, <2>1, <2>2 DEF PositionInSegments
<1>3. CASE state = "PAUSED" /\ ResumeSession
  <2>1. state' = "PLAYING" /\ streaming_engine' = "ACTIVE"
    BY <1>3 DEF ResumeSession, SetState, ValidTransitions
  <2>2. UNCHANGED <<controller, current_page, current_segment, text_segments, pages,
                    faults, settings>>
    BY <1>3 DEF ResumeSession
  <2>. QED  BY <1>3, <2>1, <2>2 DEF PositionInSegments
<1>. QED  BY <1>1, <1>2, <1>3

\* Freeing the controller.
LEMMA FreeInv == IInv /\ Free => IInv'
<1>. SUFFICES ASSUME IInv, Free PROVE IInv'
  OBVIOUS
<1>1. faults' \subseteq {"use_after_free", "double_free"}
  BY FreeSegmentsType DEF IInv, Free
<1>2. state' = "STOPPED" /\ streaming_engine' \in {"NULL", "IDLE"}
  BY DEF Free, SetState, ValidTransitions, StopEngine, IInv, TypeOK, States
<1>. QED
  BY <1>1, <1>2, EmptyList, MaxPageAssumption, MaxSegmentsAssumption
     DEF Free, Rewind, settings, IInv, TypeOK, EngineAgrees, PlayingHasSegments,
         PositionInSegments, States, EngineStates

\* A call that only moves the position: it moves to a segment of the list it
\* reads, or not at all; on a freed list it commits a fault.
LEMMA NavigationInv ==
  ASSUME IInv,
         Called,
         text_segments # "NULL",
         NEW c \in Contents,
         \/ UNCHANGED position
         \/ \E i \in 1..Len(c) : MoveTo(c[i], i - 1),
         ReadSegments,
         UNCHANGED <<controller, state, segments, streaming_engine, settings>>
  PROVE  IInv'
<1>. USE DEF IInv
<1>1. c \in Lists
  BY DEF Contents, TypeOK
<1>2. /\ current_page' \in -1..MaxPage
      /\ current_segment' \in -1..(MaxSegments - 1)
  <2>1. CASE UNCHANGED position
    BY <2>1 DEF TypeOK, position
  <2>2. CASE \E i \in 1..Len(c) : MoveTo(c[i], i - 1)
    <3>1. PICK i \in 1..Len(c) : MoveTo(c[i], i - 1)
      BY <2>2
    <3>2. Len(c) \in 0..MaxSegments /\ c[i] \in Pages
      BY <1>1, <3>1, ListType
    <3>. QED
      BY <3>1, <3>2, MaxPageAssumption, MaxSegmentsAssumption DEF MoveTo, Pages
  <2>. QED  BY <2>1, <2>2
<1>3. faults' \subseteq {"use_after_free", "double_free"}
  BY DEF ReadSegments, TypeOK
<1>4. TypeOK'
  BY <1>2, <1>3 DEF TypeOK, segments, settings
<1>5. PositionInSegments'
  <2>1. CASE text_segments = "freed"
    BY <2>1 DEF ReadSegments, PositionInSegments
  <2>2. CASE text_segments = "live"
    <3>1. c = pages /\ UNCHANGED <<pages, text_segments, faults>>
      BY <2>2 DEF Contents, segments, ReadSegments
    <3>2. CASE UNCHANGED position
      BY <3>1, <3>2 DEF PositionInSegments, position
    <3>3. CASE \E i \in 1..Len(c) : MoveTo(c[i], i - 1)
      <4>1. PICK i \in 1..Len(c) : MoveTo(c[i], i - 1)
        BY <3>3
      <4>2. Len(c) \in Nat
        BY <1>1, ListType, MaxSegmentsAssumption
      <4>3. current_segment' \in 0..(Len(pages) - 1)
            /\ current_page' = pages[current_segment' + 1]
        BY <3>1, <4>1, <4>2 DEF MoveTo
      <4>. QED  BY <2>2, <3>1, <4>3 DEF PositionInSegments
    <3>. QED  BY <3>2, <3>3
  <2>. QED  BY <2>1, <2>2 DEF TypeOK
<1>6. EngineAgrees' /\ PlayingHasSegments'
  BY DEF EngineAgrees, PlayingHasSegments, segments
<1>. QED  BY <1>4, <1>5, <1>6 DEF segments

\* The three ways to navigate are such calls.
LEMMA NavigateInv ==
  ASSUME IInv,
         \/ \E page \in Pages, segment \in 0..MaxSegments :
               SetPosition(page, segment)
         \/ \E direction \in {-1, 1} : NavigateToSegment(direction)
         \/ \E page \in Pages : NavigateToPage(page)
  PROVE  IInv'
<1>. USE DEF IInv
<1>0. ASSUME NEW c \in Contents PROVE Len(c) \in Nat /\ DOMAIN c = 1..Len(c)
  <2>1. c \in Lists
    BY <1>0 DEF Contents, TypeOK
  <2>. QED  BY <2>1, ListType, MaxSegmentsAssumption
<1>1. ASSUME NEW page \in Pages, NEW segment \in 0..MaxSegments,
             SetPosition(page, segment)
      PROVE  IInv'
  <2>1. PICK c \in Contents :
          IF segment \in 0..(Len(c) - 1) /\ c[segment + 1] = page
          THEN MoveTo(page, segment)
          ELSE UNCHANGED position
    BY <1>1 DEF SetPosition, Navigates
  <2>2. \/ UNCHANGED position
        \/ \E i \in 1..Len(c) : MoveTo(c[i], i - 1)
    <3>1. CASE segment \in 0..(Len(c) - 1) /\ c[segment + 1] = page
      <4>1. segment + 1 \in 1..Len(c) /\ MoveTo(c[segment + 1], (segment + 1) - 1)
        BY <1>0, <2>1, <3>1 DEF MoveTo
      <4>. QED  BY <4>1
    <3>. QED  BY <2>1, <3>1
  <2>. QED  BY <1>1, <2>2, NavigationInv DEF SetPosition, Navigates
<1>2. ASSUME NEW direction \in {-1, 1}, NavigateToSegment(direction)
      PROVE  IInv'
  <2>. DEFINE target == current_segment + direction
  <2>1. PICK c \in Contents :
          IF target \in 0..(Len(c) - 1)
          THEN MoveTo(c[target + 1], target)
          ELSE UNCHANGED position
    BY <1>2 DEF NavigateToSegment, Navigates
  <2>2. \/ UNCHANGED position
        \/ \E i \in 1..Len(c) : MoveTo(c[i], i - 1)
    <3>1. CASE target \in 0..(Len(c) - 1)
      <4>1. target + 1 \in 1..Len(c) /\ MoveTo(c[target + 1], (target + 1) - 1)
        BY <1>0, <2>1, <3>1 DEF MoveTo
      <4>. QED  BY <4>1
    <3>. QED  BY <2>1, <3>1
  <2>. QED  BY <1>2, <2>2, NavigationInv DEF NavigateToSegment, Navigates
<1>3. ASSUME NEW page \in Pages, NavigateToPage(page)
      PROVE  IInv'
  <2>1. PICK c \in Contents :
          \/ \E i \in DOMAIN c : c[i] = page /\ MoveTo(page, i - 1)
          \/ UNCHANGED position
    BY <1>3 DEF NavigateToPage, Navigates
  <2>2. \/ UNCHANGED position
        \/ \E i \in 1..Len(c) : MoveTo(c[i], i - 1)
    BY <1>0, <2>1
  <2>. QED  BY <1>3, <2>2, NavigationInv DEF NavigateToPage, Navigates
<1>. QED  BY <1>1, <1>2, <1>3

\* The tests of set_speed and set_volume are all the settings need.
LEMMA SettingsInv ==
  ASSUME IInv,
         \/ \E speed \in Speeds \cup {NaN} : SetSpeed(speed)
         \/ \E volume \in Volumes \cup {-1} : SetVolume(volume)
  PROVE  IInv'
<1>. USE DEF IInv
<1>1. /\ speed_multiplier' \in {NaN} \cup 1..50
      /\ volume_level' \in 0..100
  <2>1. ASSUME NEW speed \in Speeds \cup {NaN}, SetSpeed(speed)
        PROVE  speed_multiplier' \in {NaN} \cup 1..50 /\ UNCHANGED volume_level
    BY <2>1, SpeedsAssumption DEF SetSpeed
  <2>2. ASSUME NEW volume \in Volumes \cup {-1}, SetVolume(volume)
        PROVE  volume_level' \in 0..100 /\ UNCHANGED speed_multiplier
    BY <2>2, VolumesAssumption DEF SetVolume
  <2>. QED  BY <2>1, <2>2 DEF TypeOK
<1>2. UNCHANGED <<controller, state, current_page, current_segment, text_segments,
                  pages, streaming_engine, faults>>
  BY DEF SetSpeed, SetVolume, position, segments
<1>. QED
  BY <1>1, <1>2 DEF TypeOK, EngineAgrees, PlayingHasSegments, PositionInSegments

\* Every step preserves the invariant.
LEMMA NextInv == IInv /\ [Next]_vars => IInv'
<1>. SUFFICES ASSUME IInv, [Next]_vars PROVE IInv'
  OBVIOUS
<1>1. CASE UNCHANGED vars
  BY <1>1 DEF vars, position, segments, settings, IInv, TypeOK, EngineAgrees,
              PlayingHasSegments, PositionInSegments
<1>2. CASE New
  BY <1>2, NewInv
<1>3. CASE Free
  BY <1>3, FreeInv
<1>4. CASE \E l \in Lists, started \in BOOLEAN : StartSession(l, started)
  BY <1>4, StartInv
<1>5. CASE \/ StopSession
           \/ state = "PLAYING" /\ PauseSession
           \/ state = "PAUSED" /\ ResumeSession
  BY <1>5, ControlInv
<1>6. CASE \/ \E page \in Pages, segment \in 0..MaxSegments :
                 SetPosition(page, segment)
           \/ \E direction \in {-1, 1} : NavigateToSegment(direction)
           \/ \E page \in Pages : NavigateToPage(page)
  BY <1>6, NavigateInv
<1>7. CASE \/ \E speed \in Speeds \cup {NaN} : SetSpeed(speed)
           \/ \E volume \in Volumes \cup {-1} : SetVolume(volume)
  BY <1>7, SettingsInv
<1>. QED  BY <1>1, <1>2, <1>3, <1>4, <1>5, <1>6, <1>7 DEF Next, AfterAbort

\* The invariant holds in every reachable state.
THEOREM ControllerInvariant == Spec => []IInv
  BY InitInv, NextInv, PTL DEF Spec

\* Every variable keeps its type: no sequence of the plugin's calls moves the
\* position out of the document, or speed and volume out of what the setters
\* accept.
THEOREM ControllerTypes == Spec => []TypeOK
<1>1. IInv => TypeOK
  BY DEF IInv
<1>. QED  BY <1>1, ControllerInvariant, PTL

\* As the plugin calls it, the controller agrees with its engine in every
\* reachable state, for any document: a refused transition or a failed start never separates them.
THEOREM ControllerAgreesWithEngine == Spec => []EngineAgrees
<1>1. IInv => EngineAgrees
  BY DEF IInv
<1>. QED  BY <1>1, ControllerInvariant, PTL

\* A session that plays or is paused always has the list it plays.
THEOREM SessionsHaveSegments == Spec => []PlayingHasSegments
<1>1. IInv => PlayingHasSegments
  BY DEF IInv
<1>. QED  BY <1>1, ControllerInvariant, PTL

\* The position is always that of a segment of the current list, on its page,
\* as long as no freed list has been read.
THEOREM PositionsAreValid == Spec => []PositionInSegments
<1>1. IInv => PositionInSegments
  BY DEF IInv
<1>. QED  BY <1>1, ControllerInvariant, PTL

\* What a step of a session that plays or is paused may do: it commits no
\* memory error, and its list stays the same unless a call ends the session or
\* starts another.
SessionKeepsSegments ==
    state \in {"PLAYING", "PAUSED"} =>
        /\ faults' = faults
        /\ \/ UNCHANGED segments
           \/ Free
           \/ \E l \in Lists, started \in BOOLEAN : StartSession(l, started)

\* Pausing, resuming, navigating, and stopping or freeing a session read and
\* free only a list that exists: the list that a failed start leaves dangling
\* can do harm only in the state ERROR or STOPPED.
THEOREM SessionsAreSafe == Spec => [][SessionKeepsSegments]_vars
<1>1. IInv /\ [Next]_vars => [SessionKeepsSegments]_vars
  <2>. SUFFICES ASSUME IInv, Next, state \in {"PLAYING", "PAUSED"}
                PROVE  /\ faults' = faults
                       /\ \/ UNCHANGED segments
                          \/ Free
                          \/ \E l \in Lists, started \in BOOLEAN :
                                StartSession(l, started)
    BY DEF SessionKeepsSegments
  <2>0. controller = "live" /\ text_segments = "live"
    BY DEF IInv, PlayingHasSegments
  <2>1. CASE Free
    BY <2>0, <2>1 DEF Free, FreeSegments
  <2>2. CASE \E l \in Lists, started \in BOOLEAN : StartSession(l, started)
    BY <2>0, <2>2 DEF StartSession, FreeSegments
  <2>3. CASE StopSession \/ PauseSession \/ ResumeSession
    BY <2>3 DEF StopSession, PauseSession, ResumeSession
  <2>4. CASE \/ \E page \in Pages, segment \in 0..MaxSegments :
                   SetPosition(page, segment)
             \/ \E direction \in {-1, 1} : NavigateToSegment(direction)
             \/ \E page \in Pages : NavigateToPage(page)
    <3>1. ReadSegments /\ UNCHANGED segments
      BY <2>4 DEF SetPosition, NavigateToSegment, NavigateToPage, Navigates
    <3>. QED  BY <2>0, <3>1 DEF ReadSegments
  <2>5. CASE \/ \E speed \in Speeds \cup {NaN} : SetSpeed(speed)
             \/ \E volume \in Volumes \cup {-1} : SetVolume(volume)
    BY <2>5 DEF SetSpeed, SetVolume
  <2>6. CASE New \/ AfterAbort
    BY <2>0, <2>6 DEF New, AfterAbort, vars
  <2>. QED  BY <2>1, <2>2, <2>3, <2>4, <2>5, <2>6 DEF Next
<1>. QED  BY <1>1, ControllerInvariant, PTL DEF Spec
===============================================================================

------------------------------ MODULE TtsConfig ------------------------------
(***************************************************************************)
(* The configuration (tts-config.c) and its file: defaults, validated      *)
(* setters, loading, saving, and their use by plugin.c, which loads the    *)
(* file when the plugin starts and saves it, if modified, when it ends.    *)
(*                                                                         *)
(* One setting stands for each way in which settings are stored:           *)
(*   preferred_engine     a name; an unknown one is ignored                *)
(*   preferred_voice      a string or NULL, which is not written           *)
(*   default_speed        a float, printed with two decimals, checked      *)
(*   default_volume       an integer, checked (default_pitch is like it)   *)
(*   auto_continue_pages  a flag (so are the other eight)                  *)
(*   status_timeout_ms    an integer that loading does not check           *)
(*                        (segment_pause_ms is like it)                    *)
(* Speeds are in thousandths, so that rounding shows.  A text in the file  *)
(* is what a parser makes of it: its form, and its digits as a number.     *)
(*                                                                         *)
(* The program may be killed at any point, also inside a save; the file is *)
(* shorter than the buffer of stdio, so it is written by fclose, whole or, *)
(* when the disk is full, up to any of its bytes: neither fprintf nor      *)
(* fclose is checked.                                                      *)
(***************************************************************************)
EXTENDS Integers, Sequences

CONSTANTS
    Speeds,         \* speeds that the setters are called with
    Volumes,        \* volumes that the setters are called with
    Numbers,        \* digits that users type in the file, besides -1
    MaxChanges      \* most changes of settings and of the file, and full disks

\* Ties are left out: their rounding depends on the float next to them.
ASSUME SpeedsAssumption == Speeds \subseteq Nat /\ \A s \in Speeds : s % 10 # 5
ASSUME VolumesAssumption == Volumes \subseteq Int
ASSUME NumbersAssumption == Numbers \subseteq Nat
ASSUME MaxChangesAssumption == MaxChanges \in Nat

VARIABLES
    decimal_point, \* of the locale, for printf
    config,        \* session->config, by setting
    is_modified,
    running,       \* the configuration exists
    file,          \* the text of every setting in the file
    op,            \* "none", or the file is open: "save", "exit"
    saved,         \* the configuration that was saved last, or is being saved
    origin,        \* what the file is: "saved", "partial", "edited"
    foreign,       \* something else than the setters changed file or config
    changes

memory == <<decimal_point, config, is_modified, running>>
history == <<saved, origin, foreign>>
vars == <<memory, file, op, history, changes>>

Order == <<"preferred_engine", "preferred_voice", "default_speed", "default_volume",
           "auto_continue_pages", "status_timeout_ms">>

Keys == {Order[i] : i \in DOMAIN Order}

Engines == {"piper", "speech_dispatcher", "espeak", "system"}

NoVoice == "NULL"

Absent == [form |-> "absent", digits |-> 0]

\* Nothing follows the equals sign.
Empty == [form |-> "empty", digits |-> 0]

Missing == [k \in Keys |-> Absent]

\* tts_config_set_defaults.
Defaults ==
    [preferred_engine |-> "piper", preferred_voice |-> "default",
     default_speed |-> 1000, default_volume |-> 80,
     auto_continue_pages |-> TRUE, status_timeout_ms |-> 2000]

Init ==
    /\ decimal_point \in {"point", "comma"}
    /\ config = Defaults /\ is_modified = FALSE
    /\ running = FALSE
    /\ file = Missing
    /\ op = "none"
    /\ saved = Defaults /\ origin = "saved"
    /\ foreign = FALSE
    /\ changes = 0
-------------------------------------------------------------------------------
(***************************************************************************)
(* Validation, and the two directions of the file format.                  *)
(***************************************************************************)

ValidateSpeed(speed) == speed \in 500..3000

ValidateVolume(volume) == volume \in 0..100

Validate(c) ==
    /\ ValidateSpeed(c.default_speed)
    /\ ValidateVolume(c.default_volume)
    /\ c.preferred_engine \in Engines
    /\ c.status_timeout_ms >= 0

\* Mutant: the second decimal is lost.
FormatSpeedOneDecimal(speed) == [form |-> decimal_point, digits |-> 10 * ((speed + 50) \div 100)]

\* "%.2f" of printf, with the decimal point of the locale.
FormatSpeed(speed) == [form |-> decimal_point, digits |-> (speed + 5) \div 10]

\* The line of a setting; a voice that is NULL has none.
Format(k, c) ==
    CASE k = "preferred_engine" -> [form |-> c.preferred_engine, digits |-> 0]
      [] k = "preferred_voice" -> IF c.preferred_voice = NoVoice THEN Absent
                                  ELSE [form |-> c.preferred_voice, digits |-> 0]
      [] k = "default_speed" -> FormatSpeed(c.default_speed)
      [] k = "default_volume" -> [form |-> "int", digits |-> c.default_volume]
      [] k = "auto_continue_pages" -> [form |-> IF c.auto_continue_pages THEN "true" ELSE "false",
                                       digits |-> 0]
      [] k = "status_timeout_ms" -> [form |-> "int", digits |-> c.status_timeout_ms]

\* g_ascii_strtod always takes a dot; it stops at a comma.
Strtod(text) ==
    CASE text.form = "point" -> 10 * text.digits
      [] text.form = "comma" -> 1000 * (text.digits \div 100)
      [] text.form = "int" -> 1000 * text.digits
      [] text.form \notin {"point", "comma", "int"} -> 0

\* A text that does not begin with digits is 0.
Atoi(text) ==
    CASE text.form = "int" -> text.digits
      [] text.form \in {"point", "comma"} -> text.digits \div 100
      [] text.form \notin {"point", "comma", "int"} -> 0

\* Mutant: a number is taken as it is.
LoadSpeedUnchecked(text, old) == Strtod(text)

\* What loading a line makes of a setting whose value was old.
LoadEngine(text, old) == IF text.form \in Engines THEN text.form ELSE old

LoadSpeed(text, old) == IF ValidateSpeed(Strtod(text)) THEN Strtod(text) ELSE old

LoadVolume(text, old) == IF ValidateVolume(Atoi(text)) THEN Atoi(text) ELSE old

Load(k, text, old) ==
    IF text = Absent THEN old
    ELSE CASE k = "preferred_engine" -> LoadEngine(text, old)
           [] k = "preferred_voice" -> text.form
           [] k = "default_speed" -> LoadSpeed(text, old)
           [] k = "default_volume" -> LoadVolume(text, old)
           [] k = "auto_continue_pages" -> text.form = "true"
           [] k = "status_timeout_ms" -> Atoi(text)

\* The configuration that a start reads from file f.
Loaded(f) == [k \in Keys |-> Load(k, f[k], Defaults[k])]
-------------------------------------------------------------------------------
(***************************************************************************)
(* Operations.                                                             *)
(***************************************************************************)

\* tts_plugin_init: a new configuration, and tts_config_load_default, whose
\* result is only logged.  A load that fails because the configuration does
\* not validate has taken it over all the same; a missing file and an empty
\* one both give the defaults.
Start ==
    /\ ~running
    /\ running' = TRUE
    /\ config' = Loaded(file)
    /\ is_modified' = FALSE
    /\ foreign' = FALSE
    /\ UNCHANGED <<decimal_point, file, op, saved, origin, changes>>

Change == running /\ op = "none" /\ changes < MaxChanges /\ changes' = changes + 1

\* Mutant: the setter does not mark the configuration.
SetUnmarked(k, value) ==
    /\ Change
    /\ config' = [config EXCEPT ![k] = value]
    /\ UNCHANGED <<decimal_point, is_modified, running, file, op, history>>

\* The setters: a value that differs is stored and marks the configuration.
Set(k, value) ==
    /\ Change
    /\ config' = [config EXCEPT ![k] = value]
    /\ is_modified' = (is_modified \/ config[k] # value)
    /\ UNCHANGED <<decimal_point, running, file, op, history>>

SetSpeed == \E speed \in Speeds : ValidateSpeed(speed) /\ Set("default_speed", speed)

SetVolume == \E volume \in Volumes : ValidateVolume(volume) /\ Set("default_volume", volume)

SetVoice == \E voice \in {"amy", NoVoice} : Set("preferred_voice", voice)

SetEngine == Set("preferred_engine", "espeak")

SetFlag == \E flag \in BOOLEAN : Set("auto_continue_pages", flag)

ResetToDefaults ==
    /\ Change
    /\ config' = Defaults
    /\ is_modified' = TRUE
    /\ UNCHANGED <<decimal_point, running, file, op, history>>

\* tts_config_load_from_zathura: what the viewer's own settings hold, without
\* marking the configuration.
LoadFromZathura ==
    /\ Change
    /\ \E speed \in Speeds, volume \in Volumes, flag \in BOOLEAN :
        config' = [config EXCEPT
            !.preferred_engine = "system",
            !.preferred_voice = "amy",
            !.auto_continue_pages = flag,
            !.default_speed = IF ValidateSpeed(speed) THEN speed ELSE @,
            !.default_volume = IF ValidateVolume(volume) THEN volume ELSE @]
    /\ foreign' = TRUE
    /\ UNCHANGED <<decimal_point, is_modified, running, file, op, saved, origin>>

\* tts_config_save_to_file validates before fopen truncates the file.
OpenFile(next) ==
    /\ Validate(config)
    /\ op' = next
    /\ file' = Missing
    /\ saved' = config
    /\ origin' = "partial"

SaveCall ==
    /\ running
    /\ op = "none"
    /\ OpenFile("save")
    /\ UNCHANGED <<memory, foreign, changes>>

\* 10 to a power: a number of type int has up to ten digits.
Tens == {10, 100, 1000, 10000, 100000, 1000000, 10000000, 100000000, 1000000000}

\* What a load may find of a line in which the file ends: no line up to the
\* equals sign, then no value, then the beginning of one (a speed has one digit
\* before its point).
Cut(k, line) ==
    {Absent} \cup
    CASE line = Absent -> {}
      [] line # Absent /\ k \in {"default_volume", "status_timeout_ms"} ->
            {Empty} \cup {[form |-> "int", digits |-> line.digits \div t] :
                             t \in {u \in Tens : u <= line.digits}}
      [] line # Absent /\ k = "default_speed" ->
            {Empty, [form |-> "int", digits |-> line.digits \div 100],
             [form |-> line.form, digits |-> 10 * (line.digits \div 10)]}
      [] line # Absent /\ k \in {"preferred_engine", "preferred_voice",
                                 "auto_continue_pages"} ->
            {Empty, [form |-> "cut", digits |-> 0]}

\* Mutant: the names of the settings are written before their values.
WrittenUnbuffered(n, text) ==
    [k \in Keys |-> IF \E i \in 1..(n - 1) : Order[i] = k THEN Format(k, config)
                    ELSE IF k = Order[n] THEN text
                    ELSE Empty]

\* The lines before the nth, and text for that one.
Written(n, text) ==
    [k \in Keys |-> IF \E i \in 1..(n - 1) : Order[i] = k THEN Format(k, config)
                    ELSE IF k = Order[n] THEN text
                    ELSE Absent]

\* An exit goes on to free the configuration.
Close ==
    /\ op # "none"
    /\ op' = "none"
    /\ running' = (op = "save")
    /\ UNCHANGED <<decimal_point, config, is_modified, saved, foreign>>

\* fclose writes the file.
CloseFile ==
    /\ Close
    /\ file' = [k \in Keys |-> Format(k, config)]
    /\ origin' = "saved"
    /\ UNCHANGED changes

\* fclose writes the beginning of it: the disk is full.
CutFile ==
    /\ Close
    /\ \E n \in DOMAIN Order : \E text \in Cut(Order[n], Format(Order[n], config)) :
        file' = Written(n, text)
    /\ origin' = "partial"
    /\ changes < MaxChanges
    /\ changes' = changes + 1

\* tts_plugin_cleanup.
Exit ==
    /\ running
    /\ op = "none"
    /\ \/ /\ is_modified
          /\ OpenFile("exit")
          /\ UNCHANGED <<memory, foreign>>
       \/ /\ ~is_modified \/ ~Validate(config)
          /\ running' = FALSE
          /\ UNCHANGED <<decimal_point, config, is_modified, file, op, history>>
    /\ UNCHANGED changes

Killed ==
    /\ running
    /\ running' = FALSE
    /\ op' = "none"
    /\ UNCHANGED <<decimal_point, config, is_modified, file, history, changes>>

\* What users type after the name of a setting: integers, decimal numbers
\* with a point or with a comma, and words.
Typed ==
    [form : {"int"}, digits : Numbers \cup {-1}]
      \cup [form : {"point", "comma"}, digits : Numbers]
      \cup [form : {"words"}, digits : {0}]

\* The user edits a line of the file.
Edit ==
    /\ op = "none"
    /\ changes < MaxChanges
    /\ changes' = changes + 1
    /\ \E k \in Keys, text \in Typed : file' = [file EXCEPT ![k] = text]
    /\ origin' = "edited"
    /\ foreign' = TRUE
    /\ UNCHANGED <<memory, op, saved>>

Next ==
    \/ Start \/ SetSpeed \/ SetVolume \/ SetVoice \/ SetEngine \/ SetFlag
    \/ ResetToDefaults \/ LoadFromZathura
    \/ SaveCall \/ CloseFile \/ CutFile \/ Exit \/ Killed \/ Edit

Spec == Init /\ [][Next]_vars
-------------------------------------------------------------------------------
(***************************************************************************)
(* Properties.                                                             *)
(***************************************************************************)

\* Whatever the file holds and in whatever order it is loaded, changed and
\* saved, speed and volume are in their ranges: the engine gets them
\* unchecked from tts_plugin_init.
RangesHold ==
    /\ ValidateSpeed(config.default_speed)
    /\ ValidateVolume(config.default_volume)

\* The setting v was saved and w came back: a speed is rounded to two decimals,
\* and a voice that is NULL comes back as the default.
Restores(k, v, w) ==
    /\ k = "default_speed" => v - w \in -5..5
    /\ k = "preferred_voice" => w = IF v = NoVoice THEN "default" ELSE v
    /\ k \notin {"default_speed", "preferred_voice"} => w = v

\* Violated: "Loaded speed should match saved speed".  The speed is printed with
\* the decimal point of the locale and read with a dot: with a decimal comma
\* 1.25 comes back as 1.
SpeedComesBack ==
    origin = "saved" =>
        Restores("default_speed", saved.default_speed, Loaded(file).default_speed)

\* The line of a setting reads the same in every locale.
Portable(k) == decimal_point = "point" \/ k # "default_speed"

\* A start after a complete save has the settings that were saved, apart from
\* the speed where it is written with a comma (SpeedComesBack).
RoundTrip ==
    origin = "saved" =>
        \A k \in Keys : Portable(k) => Restores(k, saved[k], Loaded(file)[k])

\* What a line that was cut, or a speed with a comma, may turn v into: a number
\* that is not larger, a flag that is off, some other voice, but no other
\* engine.
Shortened(k, v, w) ==
    /\ k # "preferred_engine"
    /\ k = "default_speed" => w <= v + 5
    /\ k \in {"default_volume", "status_timeout_ms"} => w \in 0..v
    /\ k = "auto_continue_pages" => w = FALSE

\* If the program is killed inside a save, or the disk is full, the settings
\* of the next start are those being saved or the defaults, all but one: a
\* value that nobody chose comes only from the one line that is cut, and is
\* never louder, faster or longer than the one being saved.
CutSaveHurtsOneSetting ==
    origin = "partial" =>
        \E cut \in Keys : \A k \in Keys :
            \/ Loaded(file)[k] = Defaults[k]
            \/ Portable(k) /\ Restores(k, saved[k], Loaded(file)[k])
            \/ /\ k = cut \/ ~Portable(k)
               /\ Shortened(k, saved[k], Loaded(file)[k])

\* A configuration that is not marked as modified is the one that the next
\* start will load, so an exit that does not save it loses nothing but what a
\* save of it has lost before; unless a save failed for lack of space, or the
\* configuration came from elsewhere.
UnmarkedIsStored ==
    running /\ ~is_modified /\ ~foreign /\ origin # "partial" =>
        \A k \in Keys : \/ Loaded(file)[k] = config[k]
                        \/ /\ origin = "saved"
                           /\ Portable(k) => Restores(k, config[k], Loaded(file)[k])
-------------------------------------------------------------------------------
(***************************************************************************)
(* The inductive invariant behind the properties (proved in                *)
(* TtsConfigProofs).                                                       *)
(***************************************************************************)

Voices == {NoVoice, "default", "amy", "int", "point", "comma", "words", "empty", "cut"}

Forms == Engines \cup Voices \cup {"absent", "true", "false"}

IsConfig(c) ==
    /\ c = [k \in Keys |-> c[k]]
    /\ c["preferred_engine"] \in Engines
    /\ c["preferred_voice"] \in Voices
    /\ ValidateSpeed(c["default_speed"])
    /\ ValidateVolume(c["default_volume"])
    /\ c["auto_continue_pages"] \in BOOLEAN
    /\ c["status_timeout_ms"] \in Int

TypeOK ==
    /\ decimal_point \in {"point", "comma"}
    /\ IsConfig(config)
    /\ is_modified \in BOOLEAN
    /\ running \in BOOLEAN
    /\ file \in [Keys -> [form : Forms, digits : Int]]
    /\ file["preferred_voice"] = Absent \/ file["preferred_voice"].form \in Voices
    /\ op \in {"none", "save", "exit"}
    /\ IsConfig(saved)
    /\ origin \in {"saved", "partial", "edited"}
    /\ foreign \in BOOLEAN
    /\ changes \in 0..MaxChanges

\* While the file is open the configuration being saved, which is valid, does
\* not change.
SaveInProgress ==
    op # "none" => /\ running /\ saved = config /\ origin = "partial"
                   /\ config.status_timeout_ms >= 0

IInv ==
    /\ TypeOK /\ SaveInProgress
    /\ RoundTrip /\ CutSaveHurtsOneSetting /\ UnmarkedIsStored
===============================================================================

--------------------------- MODULE TtsConfigProofs ---------------------------
(***************************************************************************)
(* The configuration survives loading, changing, saving, kills and full    *)
(* disks, for all speeds, volumes and numbers, and however many changes.   *)
(***************************************************************************)
EXTENDS TtsConfig, TLAPS

\* The settings, one by one.
LEMMA KeysAre ==
  Keys = {"preferred_engine", "preferred_voice", "default_speed", "default_volume",
          "auto_continue_pages", "status_timeout_ms"}
  BY DEF Keys, Order

\* tts_config_load_from_file, for each setting.
LEMMA LoadOf ==
  ASSUME NEW text, NEW old
  PROVE  /\ Load("preferred_engine", text, old)
              = IF text = Absent THEN old ELSE LoadEngine(text, old)
         /\ Load("preferred_voice", text, old)
              = IF text = Absent THEN old ELSE text.form
         /\ Load("default_speed", text, old)
              = IF text = Absent THEN old ELSE LoadSpeed(text, old)
         /\ Load("default_volume", text, old)
              = IF text = Absent THEN old ELSE LoadVolume(text, old)
         /\ Load("auto_continue_pages", text, old)
              = IF text = Absent THEN old ELSE text.form = "true"
         /\ Load("status_timeout_ms", text, old)
              = IF text = Absent THEN old ELSE Atoi(text)
  BY DEF Load

\* tts_config_save_to_file, for each setting.
LEMMA FormatOf ==
  ASSUME NEW c
  PROVE  /\ Format("preferred_engine", c) = [form |-> c.preferred_engine, digits |-> 0]
         /\ Format("preferred_voice", c)
              = IF c.preferred_voice = NoVoice THEN Absent
                ELSE [form |-> c.preferred_voice, digits |-> 0]
         /\ Format("default_speed", c) = FormatSpeed(c.default_speed)
         /\ Format("default_volume", c) = [form |-> "int", digits |-> c.default_volume]
         /\ Format("auto_continue_pages", c)
              = [form |-> IF c.auto_continue_pages THEN "true" ELSE "false",
                 digits |-> 0]
         /\ Format("status_timeout_ms", c)
              = [form |-> "int", digits |-> c.status_timeout_ms]
  BY DEF Format
-------------------------------------------------------------------------------
(***************************************************************************)
(* What a load reads, and what it makes of what was saved.                 *)
(***************************************************************************)

\* atoi, by the form of the text.
LEMMA AtoiOf ==
  ASSUME NEW text
  PROVE  /\ text.form = "int" => Atoi(text) = text.digits
         /\ text.form \in {"point", "comma"} => Atoi(text) = text.digits \div 100
         /\ text.form \notin {"int", "point", "comma"} => Atoi(text) = 0
  BY DEF Atoi

\* g_ascii_strtod, by the form of the text.
LEMMA StrtodOf ==
  ASSUME NEW text
  PROVE  /\ text.form = "point" => Strtod(text) = 10 * text.digits
         /\ text.form = "comma" => Strtod(text) = 1000 * (text.digits \div 100)
         /\ text.form = "int" => Strtod(text) = 1000 * text.digits
         /\ text.form = "empty" => Strtod(text) = 0
<1>1. text.form = "point" => Strtod(text) = 10 * text.digits
  BY DEF Strtod
<1>2. text.form = "comma" => Strtod(text) = 1000 * (text.digits \div 100)
  BY DEF Strtod
<1>3. text.form = "int" => Strtod(text) = 1000 * text.digits
  BY DEF Strtod
<1>4. text.form = "empty" => Strtod(text) = 0
  BY DEF Strtod
<1>. QED  BY <1>1, <1>2, <1>3, <1>4

\* tts_config_set_defaults, for each setting.
LEMMA DefaultsAre ==
  /\ Defaults["preferred_engine"] = "piper" /\ Defaults["preferred_voice"] = "default"
  /\ Defaults["default_speed"] = 1000 /\ Defaults["default_volume"] = 80
  /\ Defaults["auto_continue_pages"] = TRUE /\ Defaults["status_timeout_ms"] = 2000
  BY DEF Defaults

\* Whatever the file holds, a load gives a configuration whose checked
\* settings are in range.
LEMMA LoadedInRange ==
  ASSUME TypeOK
  PROVE  IsConfig(Loaded(file))
<1>1. \A k \in Keys : Loaded(file)[k] = Load(k, file[k], Defaults[k])
  BY DEF Loaded
<1>2. Loaded(file)["preferred_engine"] \in Engines
  <2>1. "piper" \in Engines
    BY DEF Engines
  <2>. QED  BY <1>1, <2>1, KeysAre, DefaultsAre, LoadOf DEF LoadEngine
<1>3. Loaded(file)["preferred_voice"] \in Voices
  <2>1. "default" \in Voices
    BY DEF Voices
  <2>2. file["preferred_voice"] = Absent \/ file["preferred_voice"].form \in Voices
    BY DEF TypeOK
  <2>. QED  BY <1>1, <2>1, <2>2, KeysAre, DefaultsAre, LoadOf
<1>4. ValidateSpeed(Loaded(file)["default_speed"])
  <2>1. Loaded(file)["default_speed"] = Load("default_speed", file["default_speed"], 1000)
    BY <1>1, KeysAre, DefaultsAre
  <2>. QED  BY <2>1, LoadOf DEF LoadSpeed, ValidateSpeed
<1>5. ValidateVolume(Loaded(file)["default_volume"])
  <2>1. Loaded(file)["default_volume"] = Load("default_volume", file["default_volume"], 80)
    BY <1>1, KeysAre, DefaultsAre
  <2>. QED  BY <2>1, LoadOf DEF LoadVolume, ValidateVolume
<1>6. Loaded(file)["auto_continue_pages"] \in BOOLEAN
  <2>1. "auto_continue_pages" \in Keys
    BY KeysAre
  <2>2. Loaded(file)["auto_continue_pages"]
          = Load("auto_continue_pages", file["auto_continue_pages"],
                 Defaults["auto_continue_pages"])
    BY <1>1, <2>1
  <2>3. Defaults["auto_continue_pages"] \in BOOLEAN
    BY Zenon DEF Defaults
  <2>. QED  BY <2>2, <2>3, Zenon DEF Load
<1>7. Loaded(file)["status_timeout_ms"] \in Int
  <2>1. Loaded(file)["status_timeout_ms"]
          = Load("status_timeout_ms", file["status_timeout_ms"], 2000)
    BY <1>1, KeysAre, DefaultsAre
  <2>2. file["status_timeout_ms"] \in [form : Forms, digits : Int]
    BY KeysAre DEF TypeOK
  <2>3. file["status_timeout_ms"].digits \in Int
    BY <2>2
  <2>4. Atoi(file["status_timeout_ms"]) \in Int
    <3>. DEFINE text == file["status_timeout_ms"]
    <3>1. text.digits \div 100 \in Int
      BY <2>3
    <3>2. \/ text.form = "int" \/ text.form \in {"point", "comma"}
          \/ text.form \notin {"int", "point", "comma"}
      OBVIOUS
    <3>3. Atoi(text) \in {text.digits, text.digits \div 100, 0}
      BY <3>2, AtoiOf, Zenon
    <3>. QED  BY <2>3, <3>1, <3>3
  <2>. QED  BY <2>1, <2>4, LoadOf
<1>8. Loaded(file) = [k \in Keys |-> Loaded(file)[k]]
  BY DEF Loaded
<1>. QED
  BY <1>2, <1>3, <1>4, <1>5, <1>6, <1>7, <1>8 DEF IsConfig

\* With a decimal point, what fprintf writes of a speed g_ascii_strtod reads to
\* within half a hundredth; of a comma it reads the whole part, which below 1
\* is refused.
LEMMA SpeedRestores ==
  ASSUME NEW v, ValidateSpeed(v), decimal_point \in {"point", "comma"},
         NEW text, text = FormatSpeed(v)
  PROVE  /\ decimal_point = "point" =>
              Restores("default_speed", v, LoadSpeed(text, 1000))
         /\ decimal_point = "comma" =>
              \/ LoadSpeed(text, 1000) = 1000
              \/ Shortened("default_speed", v, LoadSpeed(text, 1000))
<1>. DEFINE w == LoadSpeed(text, 1000)
<1>. DEFINE d == (v + 5) \div 10
<1>1. /\ text.form = decimal_point /\ text.digits = d
  BY DEF FormatSpeed
<1>2. d \in 50..300 /\ v - 10 * d \in -5..5
  BY DEF ValidateSpeed
<1>3. CASE decimal_point = "point"
  <2>1. Strtod(text) = 10 * d
    BY <1>1, <1>3, StrtodOf
  <2>2. w = 10 * d
    BY <1>2, <2>1 DEF LoadSpeed, ValidateSpeed
  <2>. HIDE DEF d, w
  <2>3. v - w \in -5..5
    BY <1>2, <2>2
  <2>. QED  BY <1>3, <2>3 DEF Restores, w
<1>4. CASE decimal_point = "comma"
  <2>1. Strtod(text) = 1000 * (d \div 100)
    BY <1>1, <1>4, StrtodOf
  <2>2. 1000 * (d \div 100) <= v + 5
    BY DEF ValidateSpeed
  <2>. HIDE DEF d
  <2>3. w = 1000 \/ w <= v + 5
    BY <2>1, <2>2 DEF LoadSpeed
  <2>. QED  BY <1>4, <2>3 DEF Shortened
<1>. QED  BY <1>3, <1>4

\* A complete save restores every setting of a configuration whose line does not
\* depend on the locale; the speed with a comma becomes the default or less.
LEMMA SavedRestores ==
  ASSUME NEW c, IsConfig(c), decimal_point \in {"point", "comma"}, NEW k \in Keys
  PROVE  /\ Portable(k) => Restores(k, c[k], Load(k, Format(k, c), Defaults[k]))
         /\ ~Portable(k) =>
              \/ Load(k, Format(k, c), Defaults[k]) = Defaults[k]
              \/ Shortened(k, c[k], Load(k, Format(k, c), Defaults[k]))
<1>. DEFINE Back(key) == Load(key, Format(key, c), Defaults[key])
<1>1. Restores("preferred_engine", c["preferred_engine"],
             Back("preferred_engine"))
  <2>. DEFINE text == Format("preferred_engine", c)
  <2>. DEFINE old == Defaults["preferred_engine"]
  <2>1. text = [form |-> c["preferred_engine"], digits |-> 0]
    BY FormatOf
  <2>2. /\ text.form = c["preferred_engine"] /\ text.form \in Engines
        /\ c["preferred_engine"] # "absent"
    BY <2>1 DEF IsConfig, Engines
  <2>. HIDE DEF text, old
  <2>3. Load("preferred_engine", text, old) = c["preferred_engine"]
    BY <2>2, LoadOf DEF LoadEngine, Absent
  <2>. QED  BY <2>3 DEF Restores, text, old
<1>2. Restores("preferred_voice", c["preferred_voice"],
             Back("preferred_voice"))
  <2>. DEFINE text == Format("preferred_voice", c)
  <2>. DEFINE old == Defaults["preferred_voice"]
  <2>1. text = IF c["preferred_voice"] = NoVoice THEN Absent
               ELSE [form |-> c["preferred_voice"], digits |-> 0]
    BY FormatOf
  <2>2. c["preferred_voice"] # "absent" /\ old = "default"
    BY DefaultsAre DEF IsConfig, Voices, NoVoice
  <2>. HIDE DEF text, old
  <2>3. Load("preferred_voice", text, old)
          = IF c["preferred_voice"] = NoVoice THEN "default" ELSE c["preferred_voice"]
    BY <2>1, <2>2, LoadOf DEF Absent
  <2>. QED  BY <2>3 DEF Restores, text, old
<1>3. /\ decimal_point = "point" =>
           Restores("default_speed", c["default_speed"], Back("default_speed"))
      /\ decimal_point = "comma" =>
           \/ Back("default_speed") = Defaults["default_speed"]
           \/ Shortened("default_speed", c["default_speed"], Back("default_speed"))
  <2>. DEFINE text == Format("default_speed", c)
  <2>. DEFINE old == Defaults["default_speed"]
  <2>1. text = FormatSpeed(c["default_speed"]) /\ text # Absent
    BY FormatOf DEF FormatSpeed, Absent
  <2>2. old = 1000
    BY DefaultsAre
  <2>. HIDE DEF text, old
  <2>3. Load("default_speed", text, old) = LoadSpeed(text, 1000)
    BY <2>1, <2>2, LoadOf
  <2>4. ValidateSpeed(c["default_speed"])
    BY Zenon DEF IsConfig
  <2>. DEFINE v == c["default_speed"]
  <2>5. /\ decimal_point = "point" => Restores("default_speed", v, LoadSpeed(text, 1000))
        /\ decimal_point = "comma" =>
              \/ LoadSpeed(text, 1000) = 1000
              \/ Shortened("default_speed", v, LoadSpeed(text, 1000))
    BY <2>1, <2>4, SpeedRestores
  <2>6. /\ Back("default_speed") = LoadSpeed(text, 1000)
        /\ Defaults["default_speed"] = 1000
    BY <2>2, <2>3 DEF text, old
  <2>. HIDE DEF Back
  <2>. QED  BY <2>5, <2>6
<1>4. Restores("default_volume", c["default_volume"],
             Back("default_volume"))
  <2>. DEFINE text == Format("default_volume", c)
  <2>. DEFINE old == Defaults["default_volume"]
  <2>0. text = [form |-> "int", digits |-> c["default_volume"]]
    BY FormatOf
  <2>1. text.form = "int" /\ text.digits = c["default_volume"]
    BY <2>0
  <2>. HIDE DEF text, old
  <2>2. Atoi(text) = c["default_volume"] /\ text # Absent
    BY <2>1, AtoiOf DEF Absent
  <2>3. Load("default_volume", text, old) = c["default_volume"]
    BY <2>2, LoadOf DEF IsConfig, LoadVolume
  <2>. QED  BY <2>3 DEF Restores, text, old
<1>5. Restores("auto_continue_pages", c["auto_continue_pages"],
             Back("auto_continue_pages"))
  <2>. DEFINE flag == c["auto_continue_pages"]
  <2>1. c.auto_continue_pages = flag /\ flag \in BOOLEAN
    BY Zenon DEF IsConfig
  <2>2. CASE flag = TRUE
    <3>. DEFINE text == [form |-> "true", digits |-> 0]
    <3>1. Format("auto_continue_pages", c) = text
      BY <2>1, <2>2, FormatOf
    <3>2. text # Absent /\ text.form = "true"
      BY DEF Absent
    <3>3. Back("auto_continue_pages") = TRUE
      BY <3>1, <3>2, Zenon DEF Load
    <3>. QED  BY <2>2, <3>3, Zenon DEF Restores
  <2>3. CASE flag = FALSE
    <3>. DEFINE text == [form |-> "false", digits |-> 0]
    <3>1. Format("auto_continue_pages", c) = text
      BY <2>1, <2>3, FormatOf
    <3>2. text # Absent /\ text.form # "true"
      BY DEF Absent
    <3>3. Back("auto_continue_pages") = FALSE
      BY <3>1, <3>2, Zenon DEF Load
    <3>. QED  BY <2>3, <3>3, Zenon DEF Restores
  <2>. QED  BY <2>1, <2>2, <2>3, Zenon
<1>6. Restores("status_timeout_ms", c["status_timeout_ms"],
             Back("status_timeout_ms"))
  <2>. DEFINE text == Format("status_timeout_ms", c)
  <2>. DEFINE old == Defaults["status_timeout_ms"]
  <2>0. text = [form |-> "int", digits |-> c["status_timeout_ms"]]
    BY FormatOf
  <2>1. text.form = "int" /\ text.digits = c["status_timeout_ms"]
    BY <2>0
  <2>. HIDE DEF text, old
  <2>2. Atoi(text) = c["status_timeout_ms"] /\ text # Absent
    BY <2>1, AtoiOf DEF Absent
  <2>3. Load("status_timeout_ms", text, old) = c["status_timeout_ms"]
    BY <2>2, LoadOf
  <2>. QED  BY <2>3 DEF Restores, text, old
<1>7. CASE k = "default_speed"
  BY <1>3, <1>7, Zenon DEF Portable
<1>8. CASE k # "default_speed"
  <2>1. Portable(k)
    BY <1>8 DEF Portable
  <2>2. Restores(k, c[k], Back(k))
    BY <1>1, <1>2, <1>4, <1>5, <1>6, <1>8, KeysAre, Zenon
  <2>. QED  BY <2>1, <2>2, Zenon
<1>. QED  BY <1>7, <1>8, Zenon

\* A line that a save writes is a text, and that of the voice is one of the
\* voices or is left out.
LEMMA FormatTyped ==
  ASSUME NEW c, IsConfig(c), decimal_point \in {"point", "comma"}
  PROVE  /\ \A k \in Keys : Format(k, c) \in [form : Forms, digits : Int]
         /\ \/ Format("preferred_voice", c) = Absent
            \/ Format("preferred_voice", c).form \in Voices
<1>. DEFINE Texts == [form : Forms, digits : Int]
<1>t. /\ \A word \in Forms, d \in Int : [form |-> word, digits |-> d] \in Texts
      /\ \A word \in Forms : [form |-> word, digits |-> 0] \in Texts
  OBVIOUS
<1>w. {"absent", "int"} \subseteq Forms
  BY DEF Forms, Voices
<1>. HIDE DEF Texts
<1>1. Format("preferred_engine", c) \in Texts
  <2>1. Format("preferred_engine", c) = [form |-> c["preferred_engine"], digits |-> 0]
    BY FormatOf
  <2>2. c["preferred_engine"] \in Forms
    BY DEF IsConfig, Forms
  <2>. QED  BY <1>t, <2>1, <2>2, Zenon
<1>2. /\ Format("preferred_voice", c) \in Texts
      /\ \/ Format("preferred_voice", c) = Absent
         \/ Format("preferred_voice", c).form \in Voices
  <2>1. Format("preferred_voice", c)
          = IF c["preferred_voice"] = NoVoice THEN Absent
            ELSE [form |-> c["preferred_voice"], digits |-> 0]
    BY FormatOf
  <2>2. c["preferred_voice"] \in Forms /\ c["preferred_voice"] \in Voices
    BY DEF IsConfig, Forms
  <2>3. [form |-> c["preferred_voice"], digits |-> 0] \in Texts
    BY <1>t, <2>2, Zenon
  <2>4. Absent \in Texts
    BY <1>t, <1>w, Zenon DEF Absent
  <2>. QED  BY <1>t, <2>1, <2>2, <2>3, <2>4
<1>3. Format("default_speed", c) \in Texts
  <2>. DEFINE v == c["default_speed"]
  <2>1. ValidateSpeed(v)
    BY Zenon DEF IsConfig
  <2>2. Format("default_speed", c) = [form |-> decimal_point, digits |-> (v + 5) \div 10]
    BY FormatOf DEF FormatSpeed
  <2>. HIDE DEF v
  <2>3. (v + 5) \div 10 \in Int
    BY <2>1 DEF ValidateSpeed
  <2>4. decimal_point \in Forms
    BY DEF Forms, Voices
  <2>. QED  BY <1>t, <2>2, <2>3, <2>4, Zenon
<1>4. Format("default_volume", c) \in Texts
  <2>1. c["default_volume"] \in Int
    BY DEF IsConfig, ValidateVolume
  <2>2. Format("default_volume", c) = [form |-> "int", digits |-> c["default_volume"]]
    BY FormatOf
  <2>. QED  BY <1>t, <1>w, <2>1, <2>2, Zenon
<1>5. Format("auto_continue_pages", c) \in Texts
  <2>. DEFINE word == IF c.auto_continue_pages THEN "true" ELSE "false"
  <2>1. Format("auto_continue_pages", c) = [form |-> word, digits |-> 0]
    BY FormatOf
  <2>2. word \in Forms
    BY DEF Forms
  <2>. HIDE DEF word
  <2>. QED  BY <1>t, <1>w, <2>1, <2>2, Zenon
<1>6. Format("status_timeout_ms", c) \in Texts
  <2>1. c["status_timeout_ms"] \in Int
    BY DEF IsConfig
  <2>2. Format("status_timeout_ms", c) = [form |-> "int", digits |-> c["status_timeout_ms"]]
    BY FormatOf
  <2>. QED  BY <1>t, <1>w, <2>1, <2>2, Zenon
<1>. QED
  BY <1>1, <1>2, <1>3, <1>4, <1>5, <1>6, KeysAre DEF Texts

\* A line that is missing leaves the default.
LEMMA AbsentIsDefault ==
  ASSUME NEW f, NEW k \in Keys, f[k] = Absent
  PROVE  Loaded(f)[k] = Defaults[k]
  BY Zenon DEF Loaded, Load

\* The beginning of a number is not larger than the number.
LEMMA PrefixIsSmaller ==
  ASSUME NEW v \in Nat, NEW t \in Tens
  PROVE  v \div t \in 0..v
<1>1. \/ t = 10 \/ t = 100 \/ t = 1000 \/ t = 10000 \/ t = 100000 \/ t = 1000000
      \/ t = 10000000 \/ t = 100000000 \/ t = 1000000000
  BY DEF Tens
<1>. QED  BY <1>1

\* What may be left of a line, for each kind of setting.
LEMMA CutOf ==
  ASSUME NEW line
  PROVE  /\ \A k \in {"default_volume", "status_timeout_ms"} :
              Cut(k, line) \subseteq
                {Absent, Empty} \cup
                {[form |-> "int", digits |-> line.digits \div t] :
                    t \in {u \in Tens : u <= line.digits}}
         /\ Cut("default_speed", line) \subseteq
              {Absent, Empty, [form |-> "int", digits |-> line.digits \div 100],
               [form |-> line.form, digits |-> 10 * (line.digits \div 10)]}
         /\ \A k \in {"preferred_engine", "preferred_voice", "auto_continue_pages"} :
              Cut(k, line) \subseteq {Absent, Empty, [form |-> "cut", digits |-> 0]}
<1>1. CASE line = Absent
  BY <1>1 DEF Cut
<1>2. CASE line # Absent
  BY <1>2 DEF Cut
<1>. QED  BY <1>1, <1>2

\* The beginning of a line with a number that is not negative gives a smaller
\* number, or nothing.
LEMMA CutNumber ==
  ASSUME NEW k \in {"default_volume", "status_timeout_ms"}, NEW v \in Nat,
         NEW text \in Cut(k, [form |-> "int", digits |-> v])
  PROVE  /\ text \in [form : Forms, digits : Int]
         /\ text = Absent \/ Atoi(text) \in 0..v
<1>1. CASE text = Absent
  BY <1>1 DEF Absent, Forms
<1>2. CASE text = Empty
  <2>1. text.form = "empty" /\ text \in [form : Forms, digits : Int]
    BY <1>2 DEF Empty, Forms, Voices
  <2>. QED  BY <2>1, AtoiOf
<1>3. CASE text # Absent /\ text # Empty
  <2>1. PICK t \in Tens : text = [form |-> "int", digits |-> v \div t]
    BY <1>3, CutOf
  <2>2. v \div t \in 0..v
    BY PrefixIsSmaller
  <2>3. text.form = "int" /\ text.digits \in 0..v
    BY <2>1, <2>2
  <2>4. "int" \in Forms /\ v \div t \in Int
    BY <2>2 DEF Forms, Voices
  <2>5. text \in [form : Forms, digits : Int]
    BY <2>1, <2>4
  <2>. QED  BY <2>3, <2>5, AtoiOf
<1>. QED  BY <1>1, <1>2, <1>3

\* The beginning of a speed gives the default or a speed that is not higher.
LEMMA CutSpeed ==
  ASSUME NEW v, ValidateSpeed(v), decimal_point \in {"point", "comma"},
         NEW text \in Cut("default_speed", FormatSpeed(v))
  PROVE  /\ text \in [form : Forms, digits : Int]
         /\ text = Absent \/ LoadSpeed(text, 1000) = 1000 \/ LoadSpeed(text, 1000) <= v + 5
<1>. DEFINE d == (v + 5) \div 10
<1>1. d \in 0..300 /\ 10 * d <= v + 5
  BY DEF ValidateSpeed
<1>2. text \in {Absent, Empty, [form |-> "int", digits |-> d \div 100],
                [form |-> decimal_point, digits |-> 10 * (d \div 10)]}
  BY CutOf DEF FormatSpeed
<1>. HIDE DEF d
<1>3. CASE text = Absent
  BY <1>3 DEF Absent, Forms
<1>4. CASE text = Empty
  <2>1. text.form = "empty" /\ text \in [form : Forms, digits : Int]
    BY <1>4 DEF Empty, Forms, Voices
  <2>2. Strtod(text) = 0
    BY <2>1, StrtodOf
  <2>. QED  BY <2>1, <2>2 DEF LoadSpeed, ValidateSpeed
<1>5. CASE text = [form |-> "int", digits |-> d \div 100]
  <2>1. d \div 100 \in Int /\ 1000 * (d \div 100) <= v + 5
    BY <1>1 DEF ValidateSpeed
  <2>2. text \in [form : Forms, digits : Int]
    BY <1>5, <2>1 DEF Forms, Voices
  <2>3. Strtod(text) = 1000 * (d \div 100)
    BY <1>5, StrtodOf
  <2>. QED  BY <2>1, <2>2, <2>3 DEF LoadSpeed
<1>6. CASE text = [form |-> decimal_point, digits |-> 10 * (d \div 10)]
  <2>. DEFINE e == 10 * (d \div 10)
  <2>1. e \in Int /\ 10 * e <= v + 5 /\ 1000 * (e \div 100) <= v + 5
    BY <1>1 DEF ValidateSpeed
  <2>2. text.form = decimal_point /\ text.digits = e
    BY <1>6
  <2>3. text \in [form : Forms, digits : Int]
    BY <1>6, <2>1 DEF Forms, Voices
  <2>. HIDE DEF e
  <2>4. Strtod(text) \in {10 * e, 1000 * (e \div 100)}
    BY <2>2, StrtodOf
  <2>. QED  BY <2>1, <2>3, <2>4 DEF LoadSpeed
<1>. QED  BY <1>2, <1>3, <1>4, <1>5, <1>6

\* The beginning of a line gives the default or a shortened value.
LEMMA CutLoads ==
  ASSUME NEW c, IsConfig(c), c["status_timeout_ms"] >= 0,
         decimal_point \in {"point", "comma"},
         NEW k \in Keys, NEW text \in Cut(k, Format(k, c))
  PROVE  /\ text \in [form : Forms, digits : Int]
         /\ k = "preferred_voice" => text = Absent \/ text.form \in Voices
         /\ \/ Load(k, text, Defaults[k]) = Defaults[k]
            \/ Shortened(k, c[k], Load(k, text, Defaults[k]))
<1>a. text = Absent => Load(k, text, Defaults[k]) = Defaults[k]
  BY Zenon DEF Load
<1>1. CASE k = "default_volume"
  <2>1. Format(k, c) = [form |-> "int", digits |-> c[k]]
    BY <1>1, FormatOf
  <2>2. c[k] \in Nat
    BY <1>1 DEF IsConfig, ValidateVolume
  <2>3. text \in [form : Forms, digits : Int] /\ (text = Absent \/ Atoi(text) \in 0..c[k])
    BY <1>1, <2>1, <2>2, CutNumber
  <2>4. \/ text = Absent \/ Load(k, text, Defaults[k]) = Defaults[k]
        \/ Load(k, text, Defaults[k]) \in 0..c[k]
    BY <1>1, <2>3, LoadOf DEF LoadVolume
  <2>. QED  BY <1>a, <1>1, <2>3, <2>4 DEF Shortened
<1>2. CASE k = "status_timeout_ms"
  <2>1. Format(k, c) = [form |-> "int", digits |-> c[k]]
    BY <1>2, FormatOf
  <2>2. c[k] \in Nat
    BY <1>2 DEF IsConfig
  <2>3. text \in [form : Forms, digits : Int] /\ (text = Absent \/ Atoi(text) \in 0..c[k])
    BY <1>2, <2>1, <2>2, CutNumber
  <2>4. text = Absent \/ Load(k, text, Defaults[k]) \in 0..c[k]
    BY <1>2, <2>3, LoadOf
  <2>. QED  BY <1>a, <1>2, <2>3, <2>4 DEF Shortened
<1>3. CASE k = "default_speed"
  <2>0. Defaults[k] = 1000
    BY <1>3, DefaultsAre
  <2>1. Format(k, c) = FormatSpeed(c[k])
    BY <1>3, FormatOf
  <2>2. ValidateSpeed(c[k])
    BY <1>3, Zenon DEF IsConfig
  <2>3. /\ text \in [form : Forms, digits : Int]
        /\ text = Absent \/ LoadSpeed(text, 1000) = 1000 \/ LoadSpeed(text, 1000) <= c[k] + 5
    BY <1>3, <2>1, <2>2, CutSpeed
  <2>4. text # Absent => Load(k, text, Defaults[k]) = LoadSpeed(text, 1000)
    BY <1>3, <2>0, LoadOf
  <2>. QED  BY <1>a, <1>3, <2>0, <2>3, <2>4 DEF Shortened
<1>4. CASE k \in {"preferred_engine", "preferred_voice", "auto_continue_pages"}
  <2>1. text \in {Absent, Empty, [form |-> "cut", digits |-> 0]}
    BY <1>4, CutOf
  <2>2. text \in [form : Forms, digits : Int] /\ (text = Absent \/ text.form \in {"empty", "cut"})
    BY <2>1 DEF Absent, Empty, Forms, Voices
  <2>3. text.form \in {"empty", "cut"} => text.form \in Voices
    BY DEF Voices
  <2>4. CASE k = "preferred_engine"
    <3>1. text.form \in {"empty", "cut"} => Load(k, text, Defaults[k]) = Defaults[k]
      BY <2>4, LoadOf DEF LoadEngine, Engines
    <3>. QED  BY <1>a, <2>2, <2>4, <3>1
  <2>5. CASE k = "preferred_voice"
    <3>1. Shortened(k, c[k], Load(k, text, Defaults[k]))
      BY <2>5 DEF Shortened
    <3>. QED  BY <2>2, <2>3, <3>1, Zenon
  <2>6. CASE k = "auto_continue_pages"
    <3>1. text # Absent => text.form # "true"
      BY <2>2
    <3>2. text # Absent => Load(k, text, Defaults[k]) = FALSE
      BY <2>6, <3>1, Zenon DEF Load
    <3>3. text # Absent => Shortened(k, c[k], Load(k, text, Defaults[k]))
      <4>1. /\ k # "preferred_engine" /\ k # "default_speed" /\ k # "preferred_voice"
            /\ k \notin {"default_volume", "status_timeout_ms"}
        BY <2>6
      <4>. QED  BY <3>2, <4>1, Zenon DEF Shortened
    <3>. QED  BY <1>a, <2>2, <2>6, <3>3, Zenon
  <2>. QED  BY <1>4, <2>4, <2>5, <2>6
<1>. QED  BY <1>1, <1>2, <1>3, <1>4, KeysAre

\* What fclose has written when the disk is full.
LEMMA WrittenLines ==
  ASSUME NEW n \in DOMAIN Order, NEW text
  PROVE  /\ Written(n, text) = [k \in Keys |-> Written(n, text)[k]]
         /\ Order[n] \in Keys
         /\ \A k \in Keys :
              \/ Written(n, text)[k] \in {Format(k, config), Absent}
              \/ k = Order[n] /\ Written(n, text)[k] = text
  BY DEF Written, Keys
-------------------------------------------------------------------------------
(***************************************************************************)
(* The inductive invariant.                                                *)
(***************************************************************************)

\* The defaults are a configuration.
LEMMA DefaultsInRange == IsConfig(Defaults)
<1>1. Defaults = [k \in Keys |-> Defaults[k]]
  BY KeysAre DEF Defaults
<1>2. Defaults["auto_continue_pages"] \in BOOLEAN
  BY Zenon DEF Defaults
<1>3. /\ ValidateSpeed(Defaults["default_speed"])
      /\ ValidateVolume(Defaults["default_volume"])
      /\ Defaults["status_timeout_ms"] \in Int
  BY DefaultsAre DEF ValidateSpeed, ValidateVolume
<1>4. Defaults["preferred_engine"] \in Engines /\ Defaults["preferred_voice"] \in Voices
  BY DefaultsAre DEF Engines, Voices
<1>. QED
  BY <1>1, <1>2, <1>3, <1>4, Zenon DEF IsConfig

\* At first there is no file, which is as good as a saved default.
LEMMA InitInv == Init => IInv
<1>. SUFFICES ASSUME Init PROVE IInv
  OBVIOUS
<1>1. \A k \in Keys : file[k] = Absent
  BY DEF Init, Missing
<1>2. \A k \in Keys : Loaded(file)[k] = Defaults[k]
  BY <1>1, AbsentIsDefault
<1>3. TypeOK
  <2>1. Absent \in [form : Forms, digits : Int]
    BY DEF Absent, Forms
  <2>2. file \in [Keys -> [form : Forms, digits : Int]]
    BY <2>1 DEF Init, Missing
  <2>3. file["preferred_voice"] = Absent
    BY <1>1, KeysAre
  <2>4. is_modified \in BOOLEAN /\ running \in BOOLEAN /\ foreign \in BOOLEAN
    BY Zenon DEF Init
  <2>5. IsConfig(config) /\ IsConfig(saved)
    BY DefaultsInRange DEF Init
  <2>. QED  BY <2>2, <2>3, <2>4, <2>5, MaxChangesAssumption DEF Init, TypeOK
<1>4. RoundTrip
  <2>1. Restores("default_speed", Defaults["default_speed"],
                 Defaults["default_speed"])
    BY DefaultsAre DEF Restores
  <2>2. ASSUME NEW k \in Keys, k # "default_speed"
        PROVE  Restores(k, Defaults[k], Defaults[k])
    BY <2>2, KeysAre, DefaultsAre DEF Restores, NoVoice
  <2>3. saved = Defaults
    BY DEF Init
  <2>4. ASSUME NEW k \in Keys
        PROVE  Portable(k) => Restores(k, saved[k], Loaded(file)[k])
    <3>1. Restores(k, Defaults[k], Defaults[k])
      BY <2>1, <2>2, Zenon
    <3>. QED  BY <1>2, <2>3, <3>1, Zenon
  <2>. QED  BY <2>4 DEF RoundTrip
<1>5. SaveInProgress /\ CutSaveHurtsOneSetting /\ UnmarkedIsStored
  BY DEF Init, SaveInProgress, CutSaveHurtsOneSetting, UnmarkedIsStored
<1>. QED  BY <1>3, <1>4, <1>5 DEF IInv

\* Changing one setting within its range gives a configuration.
LEMMA SetInRange ==
  ASSUME NEW c, IsConfig(c), NEW k \in Keys, NEW value,
         k = "preferred_engine" => value \in Engines,
         k = "preferred_voice" => value \in Voices,
         k = "default_speed" => ValidateSpeed(value),
         k = "default_volume" => ValidateVolume(value),
         k = "auto_continue_pages" => value \in BOOLEAN,
         k = "status_timeout_ms" => value \in Int
  PROVE  IsConfig([c EXCEPT ![k] = value])
<1>. DEFINE d == [c EXCEPT ![k] = value]
<1>1. c = [j \in Keys |-> c[j]]
  BY Zenon DEF IsConfig
<1>2. /\ d = [j \in Keys |-> d[j]]
      /\ \A j \in Keys : d[j] = IF j = k THEN value ELSE c[j]
  BY <1>1
<1>. HIDE DEF d
<1>3. /\ d["preferred_engine"] \in Engines /\ d["preferred_voice"] \in Voices
      /\ ValidateSpeed(d["default_speed"]) /\ ValidateVolume(d["default_volume"])
      /\ d["status_timeout_ms"] \in Int
  BY <1>2, KeysAre DEF IsConfig
<1>4. d["auto_continue_pages"] \in BOOLEAN
  <2>1. "auto_continue_pages" \in Keys
    BY KeysAre
  <2>2. c["auto_continue_pages"] \in BOOLEAN
    BY Zenon DEF IsConfig
  <2>. QED  BY <1>2, <2>1, <2>2, Zenon
<1>5. IsConfig(d)
  BY <1>2, <1>3, <1>4, Zenon DEF IsConfig
<1>. QED  BY <1>5 DEF d

\* A setter keeps the invariant: if the configuration stays unmarked the
\* value was the old one.
LEMMA SetInv ==
  ASSUME IInv, NEW k \in Keys, NEW value, Set(k, value),
         IsConfig([config EXCEPT ![k] = value])
  PROVE  IInv'
<1>1. /\ decimal_point' = decimal_point /\ running' = running /\ file' = file
      /\ op' = op /\ saved' = saved /\ origin' = origin /\ foreign' = foreign
      /\ op = "none"
  BY DEF Set, Change, history
<1>2. TypeOK'
  <2>1. is_modified' \in BOOLEAN
    BY Zenon DEF Set
  <2>2. running' \in BOOLEAN /\ foreign' \in BOOLEAN
    BY <1>1, Zenon DEF IInv, TypeOK
  <2>3. changes' \in 0..MaxChanges
    BY MaxChangesAssumption DEF Set, Change, IInv, TypeOK
  <2>4. IsConfig(config')
    BY DEF Set
  <2>5. IsConfig(saved')
    BY <1>1 DEF IInv, TypeOK
  <2>. QED  BY <1>1, <2>1, <2>2, <2>3, <2>4, <2>5 DEF IInv, TypeOK
<1>3. UnmarkedIsStored'
  <2>1. CASE is_modified' = TRUE
    BY <2>1, Zenon DEF UnmarkedIsStored
  <2>2. CASE is_modified' = FALSE
    <3>1. ~is_modified /\ config[k] = value
      BY <2>2, Zenon DEF Set
    <3>2. config = [j \in Keys |-> config[j]]
      BY Zenon DEF IInv, TypeOK, IsConfig
    <3>3. config' = config
      BY <3>1, <3>2 DEF Set
    <3>. QED  BY <1>1, <3>1, <3>3, Zenon DEF IInv, UnmarkedIsStored, Portable
  <2>3. is_modified' \in BOOLEAN
    BY <1>2, Zenon DEF TypeOK
  <2>. QED  BY <2>1, <2>2, <2>3, Zenon
<1>4. SaveInProgress' /\ RoundTrip' /\ CutSaveHurtsOneSetting'
  BY <1>1, Zenon DEF IInv, SaveInProgress, RoundTrip, CutSaveHurtsOneSetting, Portable
<1>. QED  BY <1>2, <1>3, <1>4, Zenon DEF IInv

\* fopen has truncated the file: a start now would give the defaults.
LEMMA OpenFileInv ==
  ASSUME IInv, NEW next \in {"save", "exit"}, OpenFile(next), running = TRUE,
         UNCHANGED <<memory, foreign, changes>>
  PROVE  IInv'
<1>1. /\ op' = next /\ file' = Missing /\ saved' = config /\ origin' = "partial"
      /\ decimal_point' = decimal_point /\ config' = config /\ changes' = changes
      /\ is_modified' = is_modified /\ running' = running /\ foreign' = foreign
  BY DEF OpenFile, memory
<1>2. \A k \in Keys : Missing[k] = Absent
  BY DEF Missing
<1>3. \A k \in Keys : Loaded(Missing)[k] = Defaults[k]
  BY <1>2, AbsentIsDefault
<1>4. TypeOK'
  <2>1. Absent \in [form : Forms, digits : Int]
    BY DEF Absent, Forms
  <2>2. Missing \in [Keys -> [form : Forms, digits : Int]]
    BY <2>1 DEF Missing
  <2>3. Missing["preferred_voice"] = Absent
    BY <1>2, KeysAre
  <2>4. is_modified' \in BOOLEAN /\ running' \in BOOLEAN /\ foreign' \in BOOLEAN
    BY <1>1, Zenon DEF IInv, TypeOK
  <2>5. IsConfig(config') /\ IsConfig(saved')
    BY <1>1 DEF IInv, TypeOK
  <2>. QED  BY <1>1, <2>2, <2>3, <2>4, <2>5 DEF IInv, TypeOK
<1>5. CutSaveHurtsOneSetting'
  <2>1. "preferred_engine" \in Keys
    BY KeysAre
  <2>. QED  BY <1>1, <1>3, <2>1, Zenon DEF CutSaveHurtsOneSetting
<1>6. SaveInProgress'
  <2>1. config.status_timeout_ms >= 0
    BY DEF OpenFile, Validate
  <2>. QED  BY <1>1, <2>1, Zenon DEF SaveInProgress
<1>7. RoundTrip' /\ UnmarkedIsStored'
  BY <1>1 DEF RoundTrip, UnmarkedIsStored
<1>. QED  BY <1>4, <1>5, <1>6, <1>7, Zenon DEF IInv

\* fclose has written a file whose lines are what a save writes, nothing, or, in
\* one of them, the beginning of that.
LEMMA CloseInv ==
  ASSUME IInv, Close, changes' \in 0..MaxChanges,
         file' = [k \in Keys |-> file'[k]],
         NEW cut \in Keys,
         \A k \in Keys :
            \/ file'[k] = Format(k, config)
            \/ origin' = "partial" /\ file'[k] = Absent
            \/ origin' = "partial" /\ k = cut /\ file'[k] \in Cut(k, Format(k, config)),
         origin' \in {"saved", "partial"}
  PROVE  IInv'
<1>2. /\ op' = "none" /\ decimal_point' = decimal_point /\ config' = config
      /\ saved' = saved /\ is_modified' = is_modified /\ foreign' = foreign
  BY DEF Close
<1>3. running' \in BOOLEAN
  BY Zenon DEF Close
<1>4. /\ saved = config /\ IsConfig(config) /\ decimal_point \in {"point", "comma"}
      /\ config["status_timeout_ms"] >= 0
  BY DEF Close, IInv, SaveInProgress, TypeOK
<1>6. TypeOK'
  <2>1. Absent \in [form : Forms, digits : Int]
    BY DEF Absent, Forms
  <2>2. \A k \in Keys : file'[k] \in [form : Forms, digits : Int]
    BY <1>4, <2>1, FormatTyped, CutLoads, Zenon
  <2>3. file' \in [Keys -> [form : Forms, digits : Int]]
    BY <2>2
  <2>4. file'["preferred_voice"] = Absent \/ file'["preferred_voice"].form \in Voices
    <3>1. "preferred_voice" \in Keys
      BY KeysAre
    <3>2. \/ Format("preferred_voice", config) = Absent
          \/ Format("preferred_voice", config).form \in Voices
      BY <1>4, FormatTyped, Zenon
    <3>3. \A text \in Cut("preferred_voice", Format("preferred_voice", config)) :
            text = Absent \/ text.form \in Voices
      BY <1>4, <3>1, CutLoads, Zenon
    <3>. QED  BY <3>1, <3>2, <3>3, Zenon
  <2>5. is_modified' \in BOOLEAN /\ foreign' \in BOOLEAN
    BY <1>2, Zenon DEF IInv, TypeOK
  <2>. QED  BY <1>2, <1>3, <2>3, <2>4, <2>5 DEF IInv, TypeOK
<1>7. ASSUME NEW k \in Keys
      PROVE  /\ \/ Loaded(file')[k] = Defaults[k]
                \/ Portable(k) /\ Restores(k, config[k], Loaded(file')[k])
                \/ /\ k = cut \/ ~Portable(k)
                   /\ Shortened(k, config[k], Loaded(file')[k])
             /\ origin' = "saved" =>
                  (Portable(k) => Restores(k, config[k], Loaded(file')[k]))
  <2>1. Loaded(file')[k] = Load(k, file'[k], Defaults[k])
    BY DEF Loaded
  <2>2. CASE file'[k] = Format(k, config)
    <3>. DEFINE w == Load(k, Format(k, config), Defaults[k])
    <3>1. /\ Portable(k) => Restores(k, config[k], w)
          /\ ~Portable(k) => w = Defaults[k] \/ Shortened(k, config[k], w)
      BY <1>4, SavedRestores, Zenon
    <3>. QED  BY <2>1, <2>2, <3>1, Zenon
  <2>3. CASE origin' = "partial" /\ file'[k] = Absent
    <3>1. Loaded(file')[k] = Defaults[k]
      BY <2>3, AbsentIsDefault
    <3>. QED  BY <2>3, <3>1
  <2>4. CASE origin' = "partial" /\ k = cut /\ file'[k] \in Cut(k, Format(k, config))
    <3>1. \/ Load(k, file'[k], Defaults[k]) = Defaults[k]
          \/ Shortened(k, config[k], Load(k, file'[k], Defaults[k]))
      BY <1>4, <2>4, CutLoads, Zenon
    <3>2. origin' # "saved"
      BY <2>4
    <3>. QED  BY <2>1, <2>4, <3>1, <3>2, Zenon
  <2>. QED  BY <2>2, <2>3, <2>4, Zenon
<1>8. RoundTrip' /\ CutSaveHurtsOneSetting' /\ UnmarkedIsStored'
  <2>0. \A k : Portable(k)' = Portable(k)
    BY <1>2, Zenon DEF Portable
  <2>1. RoundTrip'
    BY <1>2, <1>4, <1>7, <2>0, Zenon DEF RoundTrip
  <2>2. CutSaveHurtsOneSetting'
    BY <1>2, <1>4, <1>7, <2>0, Zenon DEF CutSaveHurtsOneSetting
  <2>3. origin' # "partial" => origin' = "saved"
    OBVIOUS
  <2>4. UnmarkedIsStored'
    BY <1>2, <1>7, <2>0, <2>3, Zenon DEF UnmarkedIsStored
  <2>. QED  BY <2>1, <2>2, <2>4
<1>9. SaveInProgress'
  BY <1>2 DEF SaveInProgress
<1>. QED  BY <1>6, <1>8, <1>9, Zenon DEF IInv

\* The whole file.
LEMMA CloseFileInv ==
  ASSUME IInv, CloseFile
  PROVE  IInv'
<1>1. Close /\ origin' = "saved" /\ file' = [k \in Keys |-> Format(k, config)]
  BY DEF CloseFile
<1>2. changes' \in 0..MaxChanges
  BY DEF CloseFile, IInv, TypeOK
<1>3. /\ file' = [k \in Keys |-> file'[k]]
      /\ \A k \in Keys : file'[k] = Format(k, config)
  BY <1>1
<1>4. "default_speed" \in Keys /\ origin' \in {"saved", "partial"}
  BY <1>1, KeysAre
<1>. QED  BY <1>1, <1>2, <1>3, <1>4, CloseInv, Zenon

\* A file that ends in one of its lines.
LEMMA CutFileInv ==
  ASSUME IInv, CutFile
  PROVE  IInv'
<1>1. PICK n \in DOMAIN Order : \E text \in Cut(Order[n], Format(Order[n], config)) :
        file' = Written(n, text)
  BY DEF CutFile
<1>2. PICK text \in Cut(Order[n], Format(Order[n], config)) : file' = Written(n, text)
  BY <1>1
<1>3. Close /\ origin' = "partial" /\ origin' \in {"saved", "partial"}
  BY DEF CutFile
<1>4. changes' \in 0..MaxChanges
  BY MaxChangesAssumption DEF CutFile, IInv, TypeOK
<1>5. /\ file' = [k \in Keys |-> file'[k]] /\ Order[n] \in Keys
      /\ \A k \in Keys :
           \/ file'[k] \in {Format(k, config), Absent}
           \/ k = Order[n] /\ file'[k] = text
  BY <1>2, WrittenLines
<1>6. \A k \in Keys :
        \/ file'[k] = Format(k, config)
        \/ origin' = "partial" /\ file'[k] = Absent
        \/ origin' = "partial" /\ k = Order[n] /\ file'[k] \in Cut(k, Format(k, config))
  BY <1>3, <1>5, Zenon
<1>. QED  BY <1>3, <1>4, <1>5, <1>6, CloseInv, Zenon

\* A start takes over what the file holds, so that nothing is unsaved.
LEMMA StartInv ==
  ASSUME IInv, Start
  PROVE  IInv'
<1>1. /\ file' = file /\ op' = op /\ saved' = saved /\ origin' = origin
      /\ decimal_point' = decimal_point /\ changes' = changes
      /\ config' = Loaded(file)
  BY DEF Start
<1>2. running' = TRUE /\ is_modified' = FALSE /\ foreign' = FALSE /\ ~running
  BY Zenon DEF Start
<1>3. op = "none"
  BY <1>2, Zenon DEF IInv, SaveInProgress
<1>4. TypeOK'
  <2>1. is_modified' \in BOOLEAN /\ running' \in BOOLEAN /\ foreign' \in BOOLEAN
    BY <1>2, Zenon
  <2>2. IsConfig(config')
    BY <1>1, LoadedInRange DEF IInv
  <2>3. IsConfig(saved')
    BY <1>1 DEF IInv, TypeOK
  <2>. QED  BY <1>1, <2>1, <2>2, <2>3 DEF IInv, TypeOK
<1>5. SaveInProgress'
  BY <1>1, <1>3 DEF SaveInProgress
<1>6. RoundTrip' /\ CutSaveHurtsOneSetting'
  BY <1>1, Zenon DEF IInv, RoundTrip, CutSaveHurtsOneSetting, Portable
<1>7. UnmarkedIsStored'
  BY <1>1, Zenon DEF UnmarkedIsStored
<1>. QED  BY <1>4, <1>5, <1>6, <1>7, Zenon DEF IInv

\* A new configuration that is marked, or is known to come from elsewhere.
LEMMA ReplaceInv ==
  ASSUME IInv, op = "none", IsConfig(config'),
         is_modified' \in BOOLEAN, foreign' \in BOOLEAN, is_modified' \/ foreign',
         changes' \in 0..MaxChanges,
         UNCHANGED <<decimal_point, running, file, op, saved, origin>>
  PROVE  IInv'
<1>1. /\ decimal_point' = decimal_point /\ running' = running /\ file' = file
      /\ op' = op /\ saved' = saved /\ origin' = origin
  OBVIOUS
<1>2. TypeOK'
  <2>1. running' \in BOOLEAN
    BY <1>1, Zenon DEF IInv, TypeOK
  <2>2. IsConfig(saved')
    BY <1>1 DEF IInv, TypeOK
  <2>. QED  BY <1>1, <2>1, <2>2 DEF IInv, TypeOK
<1>3. SaveInProgress' /\ RoundTrip' /\ CutSaveHurtsOneSetting' /\ UnmarkedIsStored'
  <2>1. SaveInProgress'
    BY <1>1 DEF SaveInProgress
  <2>2. RoundTrip' /\ CutSaveHurtsOneSetting'
    BY <1>1, Zenon DEF IInv, RoundTrip, CutSaveHurtsOneSetting, Portable
  <2>3. UnmarkedIsStored'
    BY Zenon DEF UnmarkedIsStored
  <2>. QED  BY <2>1, <2>2, <2>3, Zenon
<1>. QED  BY <1>2, <1>3, Zenon DEF IInv

\* What the viewer's settings hold is checked where a setter would check it.
LEMMA LoadFromZathuraInv ==
  ASSUME IInv, LoadFromZathura
  PROVE  IInv'
<1>1. PICK speed \in Speeds, volume \in Volumes, flag \in BOOLEAN :
        config' = [config EXCEPT
            !.preferred_engine = "system",
            !.preferred_voice = "amy",
            !.auto_continue_pages = flag,
            !.default_speed = IF ValidateSpeed(speed) THEN speed ELSE @,
            !.default_volume = IF ValidateVolume(volume) THEN volume ELSE @]
  BY Zenon DEF LoadFromZathura
<1>2. config = [k \in Keys |-> config[k]]
  BY Zenon DEF IInv, TypeOK, IsConfig
<1>3. /\ config' = [k \in Keys |-> config'[k]]
      /\ config'["preferred_engine"] = "system" /\ config'["preferred_voice"] = "amy"
      /\ config'["auto_continue_pages"] = flag
      /\ config'["default_speed"]
           = IF ValidateSpeed(speed) THEN speed ELSE config["default_speed"]
      /\ config'["default_volume"]
           = IF ValidateVolume(volume) THEN volume ELSE config["default_volume"]
      /\ config'["status_timeout_ms"] = config["status_timeout_ms"]
  BY <1>1, <1>2, KeysAre
<1>4. IsConfig(config')
  <2>1. config'["auto_continue_pages"] \in BOOLEAN
    BY <1>3, Zenon
  <2>2. /\ ValidateSpeed(config'["default_speed"])
        /\ ValidateVolume(config'["default_volume"])
        /\ config'["status_timeout_ms"] \in Int
    BY <1>3, Zenon DEF IInv, TypeOK, IsConfig
  <2>3. config'["preferred_engine"] \in Engines /\ config'["preferred_voice"] \in Voices
    BY <1>3 DEF Engines, Voices
  <2>. QED  BY <1>3, <2>1, <2>2, <2>3, Zenon DEF IsConfig
<1>5. /\ is_modified' \in BOOLEAN /\ foreign' \in BOOLEAN /\ foreign'
  BY Zenon DEF LoadFromZathura, IInv, TypeOK
<1>6. changes' \in 0..MaxChanges /\ op = "none"
  BY MaxChangesAssumption DEF LoadFromZathura, Change, IInv, TypeOK
<1>7. UNCHANGED <<decimal_point, running, file, op, saved, origin>>
  BY DEF LoadFromZathura
<1>. QED  BY <1>4, <1>5, <1>6, <1>7, ReplaceInv, Zenon

\* An edit of the user leaves nothing known about the file but its type.
LEMMA EditInv ==
  ASSUME IInv, Edit
  PROVE  IInv'
<1>1. PICK k \in Keys, text \in Typed : file' = [file EXCEPT ![k] = text]
  BY DEF Edit
<1>2. /\ op' = op /\ op = "none" /\ saved' = saved /\ origin' = "edited"
      /\ decimal_point' = decimal_point /\ config' = config
      /\ is_modified' = is_modified /\ running' = running
  BY DEF Edit, memory
<1>3. foreign' = TRUE
  BY Zenon DEF Edit
<1>4. TypeOK'
  <2>1. text \in [form : Forms, digits : Int] /\ text.form \in Voices
    <3>1. Numbers \cup {-1} \subseteq Int /\ Numbers \subseteq Int
      BY NumbersAssumption
    <3>2. {"int", "point", "comma", "words"} \subseteq Voices /\ Voices \subseteq Forms
      BY DEF Voices, Forms
    <3>3. CASE text \in [form : {"int"}, digits : Numbers \cup {-1}]
      BY <3>1, <3>2, <3>3
    <3>4. CASE text \in [form : {"point", "comma"}, digits : Numbers]
      BY <3>1, <3>2, <3>4
    <3>5. CASE text \in [form : {"words"}, digits : {0}]
      BY <3>1, <3>2, <3>5
    <3>. QED  BY <3>3, <3>4, <3>5 DEF Typed
  <2>2. file' \in [Keys -> [form : Forms, digits : Int]]
    BY <1>1, <2>1 DEF IInv, TypeOK
  <2>3. file'["preferred_voice"] = Absent \/ file'["preferred_voice"].form \in Voices
    <3>1. file'["preferred_voice"] \in {file["preferred_voice"], text}
      BY <1>1, KeysAre DEF IInv, TypeOK
    <3>. QED  BY <2>1, <3>1, Zenon DEF IInv, TypeOK
  <2>4. is_modified' \in BOOLEAN /\ running' \in BOOLEAN /\ foreign' \in BOOLEAN
    BY <1>2, <1>3, Zenon DEF IInv, TypeOK
  <2>5. IsConfig(config') /\ IsConfig(saved')
    BY <1>2 DEF IInv, TypeOK
  <2>6. changes' \in 0..MaxChanges
    BY MaxChangesAssumption DEF Edit, IInv, TypeOK
  <2>. QED  BY <1>2, <2>2, <2>3, <2>4, <2>5, <2>6 DEF IInv, TypeOK
<1>5. SaveInProgress' /\ RoundTrip' /\ CutSaveHurtsOneSetting'
  BY <1>2 DEF SaveInProgress, RoundTrip, CutSaveHurtsOneSetting
<1>6. UnmarkedIsStored'
  BY <1>3, Zenon DEF UnmarkedIsStored
<1>. QED  BY <1>4, <1>5, <1>6, Zenon DEF IInv

\* The configuration ends, saved or not.
LEMMA EndInv ==
  ASSUME IInv, running' = FALSE, op' = "none",
         UNCHANGED <<decimal_point, config, is_modified, file, history, changes>>
  PROVE  IInv'
<1>1. /\ decimal_point' = decimal_point /\ config' = config /\ file' = file
      /\ saved' = saved /\ origin' = origin /\ changes' = changes
      /\ is_modified' = is_modified /\ foreign' = foreign
  BY DEF history
<1>2. TypeOK'
  <2>1. is_modified' \in BOOLEAN /\ running' \in BOOLEAN /\ foreign' \in BOOLEAN
    BY <1>1, Zenon DEF IInv, TypeOK
  <2>2. IsConfig(config') /\ IsConfig(saved')
    BY <1>1 DEF IInv, TypeOK
  <2>. QED  BY <1>1, <2>1, <2>2 DEF IInv, TypeOK
<1>3. SaveInProgress' /\ UnmarkedIsStored'
  BY Zenon DEF SaveInProgress, UnmarkedIsStored
<1>4. RoundTrip' /\ CutSaveHurtsOneSetting'
  BY <1>1, Zenon DEF IInv, RoundTrip, CutSaveHurtsOneSetting, Portable
<1>. QED  BY <1>2, <1>3, <1>4, Zenon DEF IInv

\* Every step keeps the invariant.
LEMMA NextInv == IInv /\ [Next]_vars => IInv'
<1>. SUFFICES ASSUME IInv, [Next]_vars PROVE IInv'
  OBVIOUS
<1>c. IsConfig(config)
  BY DEF IInv, TypeOK
<1>1. CASE Start
  BY <1>1, StartInv
<1>2. CASE SetSpeed
  <2>1. PICK speed \in Speeds : ValidateSpeed(speed) /\ Set("default_speed", speed)
    BY <1>2 DEF SetSpeed
  <2>2. IsConfig([config EXCEPT !["default_speed"] = speed])
    BY <1>c, <2>1, KeysAre, SetInRange
  <2>. QED  BY <2>1, <2>2, KeysAre, SetInv
<1>3. CASE SetVolume
  <2>1. PICK volume \in Volumes : ValidateVolume(volume) /\ Set("default_volume", volume)
    BY <1>3 DEF SetVolume
  <2>2. IsConfig([config EXCEPT !["default_volume"] = volume])
    BY <1>c, <2>1, KeysAre, SetInRange
  <2>. QED  BY <2>1, <2>2, KeysAre, SetInv
<1>4. CASE SetVoice
  <2>1. PICK voice \in {"amy", NoVoice} : Set("preferred_voice", voice)
    BY <1>4 DEF SetVoice
  <2>2. voice \in Voices
    BY DEF Voices
  <2>3. IsConfig([config EXCEPT !["preferred_voice"] = voice])
    BY <1>c, <2>2, KeysAre, SetInRange
  <2>. QED  BY <2>1, <2>3, KeysAre, SetInv
<1>5. CASE SetEngine
  <2>1. "espeak" \in Engines
    BY DEF Engines
  <2>2. IsConfig([config EXCEPT !["preferred_engine"] = "espeak"])
    BY <1>c, <2>1, KeysAre, SetInRange
  <2>. QED  BY <1>5, <2>2, KeysAre, SetInv DEF SetEngine
<1>6. CASE SetFlag
  <2>1. PICK flag \in BOOLEAN : Set("auto_continue_pages", flag)
    BY <1>6, Zenon DEF SetFlag
  <2>2. IsConfig([config EXCEPT !["auto_continue_pages"] = flag])
    BY <1>c, KeysAre, SetInRange
  <2>. QED  BY <2>1, <2>2, KeysAre, SetInv
<1>7. CASE ResetToDefaults
  <2>1. is_modified' \in BOOLEAN /\ is_modified' /\ foreign' \in BOOLEAN
    BY <1>7, Zenon DEF ResetToDefaults, history, IInv, TypeOK
  <2>2. changes' \in 0..MaxChanges /\ op = "none" /\ config' = Defaults
    BY <1>7, MaxChangesAssumption DEF ResetToDefaults, Change, IInv, TypeOK
  <2>3. UNCHANGED <<decimal_point, running, file, op, saved, origin>>
    BY <1>7 DEF ResetToDefaults, history
  <2>. QED  BY <2>1, <2>2, <2>3, DefaultsInRange, ReplaceInv, Zenon
<1>8. CASE LoadFromZathura
  BY <1>8, LoadFromZathuraInv
<1>9. CASE SaveCall
  <2>1. OpenFile("save") /\ UNCHANGED <<memory, foreign, changes>>
    BY <1>9 DEF SaveCall
  <2>2. running = TRUE
    BY <1>9, Zenon DEF SaveCall, IInv, TypeOK
  <2>. QED  BY <2>1, <2>2, OpenFileInv
<1>10. CASE CloseFile
  BY <1>10, CloseFileInv
<1>15. CASE CutFile
  BY <1>15, CutFileInv
<1>11. CASE Exit
  <2>1. CASE is_modified /\ OpenFile("exit") /\ UNCHANGED <<memory, foreign>>
    <3>1. UNCHANGED changes
      BY <1>11 DEF Exit
    <3>2. running = TRUE
      BY <1>11, Zenon DEF Exit, IInv, TypeOK
    <3>. QED  BY <2>1, <3>1, <3>2, OpenFileInv
  <2>2. CASE /\ running' = FALSE
             /\ UNCHANGED <<decimal_point, config, is_modified, file, op, history>>
    <3>1. UNCHANGED changes /\ op' = "none"
      BY <1>11, <2>2 DEF Exit
    <3>. QED  BY <2>2, <3>1, EndInv
  <2>. QED  BY <1>11, <2>1, <2>2, Zenon DEF Exit
<1>12. CASE Killed
  BY <1>12, EndInv DEF Killed
<1>13. CASE Edit
  BY <1>13, EditInv
<1>14. CASE UNCHANGED vars
  <2>1. /\ decimal_point' = decimal_point /\ config' = config /\ file' = file
        /\ is_modified' = is_modified /\ running' = running /\ op' = op
        /\ saved' = saved /\ origin' = origin /\ foreign' = foreign
        /\ changes' = changes
    BY <1>14 DEF vars, memory, history
  <2>2. TypeOK'
    BY <2>1, Zenon DEF IInv, TypeOK
  <2>. QED
    BY <2>1, <2>2, Zenon
    DEF IInv, SaveInProgress, RoundTrip, CutSaveHurtsOneSetting, UnmarkedIsStored, Portable
<1>. QED
  BY <1>1, <1>2, <1>3, <1>4, <1>5, <1>6, <1>7, <1>8, <1>9, <1>10, <1>11, <1>12,
     <1>13, <1>14, <1>15 DEF Next
-------------------------------------------------------------------------------
(***************************************************************************)
(* The theorems.                                                           *)
(***************************************************************************)

\* The configuration, the file and what is known of the two stay consistent
\* through every load, change, save, kill, full disk and edit.
THEOREM ConfigInvariant == Spec => []IInv
  BY InitInv, NextInv, PTL DEF Spec

\* No file, setting of the viewer or call of a setter brings a speed or volume
\* out of its range.
THEOREM RangesAlwaysHold == Spec => []RangesHold
<1>1. IInv => RangesHold
  BY Zenon DEF IInv, TypeOK, IsConfig, RangesHold
<1>. QED  BY <1>1, ConfigInvariant, PTL

\* tts_config_load_from_file reads back what tts_config_save_to_file has
\* written, up to the rounding and the NULL voice that Restores names, except
\* for the speed in a locale with a decimal comma.
THEOREM SavedIsLoaded == Spec => []RoundTrip
<1>1. IInv => RoundTrip
  BY DEF IInv
<1>. QED  BY <1>1, ConfigInvariant, PTL

\* A save that is cut short by a kill or a full disk, also inside a line, leaves
\* the saved value or the default for every setting but the one whose line is
\* cut, and a speed with a comma, which are not louder, faster or longer.
THEOREM CutSaveIsContained == Spec => []CutSaveHurtsOneSetting
<1>1. IInv => CutSaveHurtsOneSetting
  BY DEF IInv
<1>. QED  BY <1>1, ConfigInvariant, PTL

\* tts_plugin_cleanup may skip the save of a configuration that is not marked.
THEOREM UnmarkedNeedsNoSave == Spec => []UnmarkedIsStored
<1>1. IInv => UnmarkedIsStored
  BY DEF IInv
<1>. QED  BY <1>1, ConfigInvariant, PTL
===============================================================================

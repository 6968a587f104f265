# zathura-tts: specification and proofs

TLA+ modules for the text-to-speech plugin in `zathura-tts/src`. They model the
plugin's threads, its processes, its object lifetimes and its configuration file;
TLC checks them on small instances, and TLAPS proves their safety properties for every
value of the constants. Paths below are relative to `zathura-tts/src` unless they say
otherwise.

## 1. The system

| Component | State | Operations | Modelled in |
|---|---|---|---|
| Streaming engine, `tts-streaming-engine.c` | engine state, segment queue with its mutex and condition, pause and stop flags, child process and its pipe, two threads | `start`, `queue_segment`, `pause`, `resume`, `stop`; loops of the feeder and of the audio thread | `StreamingEngine`, abstractly `SpeechStream`; the bytes in its channel: `TextChannel` |
| Audio controller, `tts-audio-controller.c` | playback state, list of segments, position, streaming engine, speed and volume | start, stop, pause, resume a session; navigate; set position, speed, volume; free | `AudioController` |
| UI controller, `tts-ui-controller.c` | status message, its GLib timeout, `tts_active` | shortcut and command handlers, state-change callback, timeout | `TtsPlugin` |
| Plugin, `plugin.c` | the global plugin and its session | `tts_plugin_init`, `tts_plugin_cleanup` | `TtsPlugin` (config part: `TtsConfig`) |
| Engine interface and backends, `tts-engine.c`, `tts-engine-{piper,speechd,espeak}.c` | engine state, engine data, a spawned process | new, init, set_config, speak, pause, stop, get_state, cleanup, free | `TtsEngine` |
| Configuration, `tts-config.c` | settings, modified flag, the file | defaults, setters, load, save, reset, viewer settings | `TtsConfig` |
| Text extractor, `tts-text-extractor.c` | none (functions on text) | extraction, cleaning, sentence splitting, content types; rewriting of tables, links and formulas for speech | `TextExtractor`, `TextProcessing` |
| Errors, `tts-error.c` | a callback | string tables; `tts_error_report` | not modelled: nothing that is built reports an error through it |

Interaction. A shortcut handler of the UI controller extracts segments, hands them to
the audio controller, which copies them into the streaming engine's queue. The feeder
thread takes them from there and writes them to the pipe of the TTS process; the audio
thread watches the process. State changes of the audio controller call back into the
UI controller, which shows them in the status line. All of this but the two threads,
the process and the GLib timeouts runs on the GTK main thread. The plugin owns all
objects; it also keeps a backend engine, which it initializes and cleans up but does
not use to speak (the streaming engine spawns its own process).

What is hard here:

* the main thread, the feeder and the audio thread share a queue, a condition variable,
  flags that are not protected by the mutex, a pid and a pipe;
* segments are freed by whichever thread holds them, lists by the controller or by the
  handler, and a start may fail half way;
* calls are refused silently by three state machines (engine, controller, UI flag) that
  must not drift apart;
* blocking `waitpid` and `g_thread_join` calls on the main thread;
* callbacks and timeouts against objects that are being freed;
* a non-blocking pipe that fills up in the middle of a text, behind a buffering channel
  whose status is not the whole truth;
* hand-counted buffers that announcements are put into, and hand-written loops that
  cut a page into sentences;
* a configuration file that is truncated before it is rewritten, and edited by hand.

`PROJECT.json` lists these as hazards at their lines, with the properties about them.

## 2. The modules

`StreamingEngine` has three threads with program counters (`ui`, `feeder`, `audio`) and
the process. One step is one section under `queue_mutex`, one system call or one access
to shared state; the feeder's section is split at `g_cond_wait`, whose spurious
wake-ups are an action. The heap state of each segment copy is tracked, reading freed
memory gives an arbitrary text, and freeing twice ends the program. `stop` is modelled
through `cleanup_process`: close, poll, SIGTERM, poll, SIGKILL. Its calls that return at
their first test are stuttering steps. Texts are reduced to whether they are exactly
10000 bytes long (`LongSegments`), and what is left in the channel's buffer to whether
there is something (`unflushed`), for which `cleanup_process` waits.

`SpeechStream` is what the controller may rely on: segments are taken in order, at most
once, not while held, and closing waits for the one in flight. `StreamingEngine` is shown
to implement it by the mapping `Stream` (`RefinesSpeechStream`).

`AudioController` has one action for each function that the plugin calls to change the
controller, and for navigation; pause and resume are called as `sc_tts_pause_resume` calls
them, after a test of the state. `tts_audio_controller_set_state` is modelled where these
functions use it (`SetState`) and is no action of its own: only the tests call it from
outside (`test-audio-controller.c:55` sets PLAYING without an engine), and what is said
of the controller below is said of the plugin's calls. The streaming engine is seen
through the state each call leaves it in. A list is the page of each of its segments.
A failed start keeps the pointer to a list that the caller frees, as the code does. Speeds
are in tenths, without the rounding of floats, but with NaN, which `g_ascii_strtod` makes
of the word "nan" and no comparison refuses.

`TtsPlugin` uses the actions of `AudioController` (an instance) inside the handlers and
the life cycle, for every shortcut and command. A handler with its callbacks is one step;
a GLib timeout is another.
That the plugin never calls the audio controller in a way its specification does not
allow is the property `UsesAudioController`.

`TtsEngine` is an engine object with any of the three backends. Calls that wait for the
process are sequences of steps between which the process runs on. The backends differ in
`AfterTerm` (Speech Dispatcher's `speak` waits without SIGKILL) and in `SetConfig` (piper
keeps its model when no voice is named). `is_speaking` is left out: nothing reads it.
A process is a child of the viewer; what piper's shell starts is not modelled (section 5).
Callers follow `plugin.c`: an engine is initialized when it has no engine data.

`TtsConfig` has one setting of each kind (name, nullable string, checked float, checked
integer, flag, unchecked integer), the file as the text of each, and both directions of
the format: rounding to two decimals, the locale's decimal point in `fprintf` against
the dot of `g_ascii_strtod`, `atoi` of words. The process may be killed inside a save;
the disk may be full, so that the file ends at any of its bytes, also inside a value
(`Cut`: a shorter number, a word that is not "true", the beginning of a name); and the user
may edit the file: integers, numbers with a point or a comma, and words (`Typed`, with the
digits `Numbers`).

`TextChannel` is the way of the text from the feeder to the process, character by
character: `g_io_channel_write_chars` with its buffer and its two places to give up, the
flush, the pipe of limited size, and the blocking flush inside `g_io_channel_shutdown`.
It is translated from the feeder's calls and from the vendored `giochannel.c` and
`giounix.c`. `StreamingEngine` abstracts from it. SIGPIPE is taken to be ignored, which
GSocket does when the viewer's D-Bus connection is made.

`TextExtractor` has the functions that turn a page into segments as operators, with a
recursive function of the number of iterations for each loop, over characters that stand
for classes of characters, and compares them with definitions that do not scan: the
sentences are the stretches between boundaries of the text as it was *before* it was
cleaned. `TextProcessing`, which it extends, is a state machine of the three rewriting
functions, one iteration a step, in which only lengths count and the content of the text
is a choice at each byte. (`tts_process_text_segment` and the three functions are part of
the plugin's interface, but playback does not call them: content types are never
announced.)

The proofs are in modules of their own, named `...Proofs` after the module they are about;
`StreamingEngineRefinement` builds on `StreamingEngineProofs` and shows that the engine
implements `SpeechStream`, and `TtsPluginProofs` instantiates `AudioControllerProofs`.

Definitions named in a comment as *mutants* are deliberately wrong variants of the
definition below them. With one of them in its place the property it belongs to fails
(`PROJECT.json`, "mutants"): the properties depend on the code they are about.

## 3. The runs

| Run | Bounds | Shows |
|---|---|---|
| `engine` | 4 segments, one of 10000 bytes | Every interleaving of threads and process over any number of sessions. After stop nothing of a session is left; signals reach only a child not yet reaped although the audio thread may reap it; the feeder never writes to a closed channel; delivery is in document order; the feeder never sleeps on work; `SpeechStream` is implemented; memory errors have one of two beginnings. Queued segments are taken, start, pause and resume return, and stop returns if the feeder is awake when it is joined |
| `audio_safety` | 3 pages, lists of up to 3 segments, settings at and beyond their limits | Controller and engine state agree after any sequence of the plugin's calls and of navigation; what plays has its list; the position is one of the list |
| `plugin_safety` | 2 pages, 1 segment, every speed and volume the keys reach | UI flag and status line agree with the controller, one timeout at most, nothing plays after cleanup, the controller is used as specified |
| `backend` | 3 processes, 2 voices | No child is lost or signalled after it was reaped; state, pause flag and voice are truthful; which calls always return |
| `config_safety` | 3 changes and full disks together, 3 speeds, 2 volumes, 2 numbers to type besides -1, both decimal points | Speed and volume are in range for any file; what was saved comes back, but for a speed with a comma; after a save that was cut only the setting whose line was cut has a value that nobody chose, and it is not larger; an unmarked configuration is the one the next start loads |
| `text` | pages of up to 6 characters of three alphabets, segments of up to 6 bytes; texts of up to 30 bytes | Segments are the sentences of the page and nothing printed is lost; both copies of the type detection agree; announcements stay in their buffers and push out no text unless they are as long as it |
| `channel` | 3 segments of 1, 3 or 7 characters, a buffer of 4 written out at 3, a pipe of 5 | A beginning of every segment arrives, in order and without holes; a report means that nothing waits in the buffer; stopping delivers what a failed write left |

The bounds. Four segments let one be fed, one be in hand, one be queued and one be on its
way while the session is stopped; sessions are not bounded, since the state after stop
is a state before start.
Three segments on three pages include empty pages, two segments on a page and both ends
of the list; the plugin does not navigate, so one segment on one of two pages is enough
there. Six characters hold two sentences with white space around the full stop, a symbol
between blanks, and a sentence that is too long before or after one that is not; each alphabet
has what one of the detectors looks for and what confuses it. Thirty bytes are the
longest announcement, or several short ones, in a text that they do and do not fill. Seven
characters need the channel's buffer twice, and the pipe holds one buffer and a little.
With three processes an engine replaces a paused and a finished process.
Three changes are a set value, a set value after a restart, an edit or a full disk, in any
order; saves, restarts and kills are not bounded. Of
the numbers, 2 and 125, one is a valid volume and the other is not, and as speeds 2 and
1.25 are valid, 125 and 0.02 are not.

Fairness (`FairSpec` of `StreamingEngine`). Each thread is scheduled: weak fairness for
the feeder and the audio thread. The UI thread has strong fairness because it may find
`queue_mutex` taken at each attempt by a feeder that wakes spuriously; a lock that is free
infinitely often is obtained. Nothing is assumed of the user, and the process need not
exit by itself; that a running process reads what is in its pipe (`ProcessReads`, in
`StreamingEngine` and in `TextChannel`) is an assumption about the TTS program, without
which the flush at shutdown blocks the UI thread. In `TtsEngine` the calling thread is
scheduled, and a process that is not stopped exits: it has at most 500 bytes to speak and
has been sent SIGTERM when somebody waits for it. A deadlock is allowed in `backend` only:
a call that waits for a paused process.

Five further runs refute statements of the documentation or of comments:

| Run | Counterexample |
|---|---|
| `engine_stop_hangs` | `stop` sets its flag and broadcasts without the mutex, between the feeder's test and its wait: the wake-up is lost and the main thread joins a sleeping thread |
| `engine_silent_restart` | pause, stop, start: `is_paused` is still set and nothing is read |
| `plugin_double_free` | a start that fails leaves a pointer to the list its caller frees |
| `plugin_stale_callback` | cleanup frees the UI controller and then stops the session, which calls it back |
| `config_decimal_comma` | in a locale with a decimal comma a speed of 1.25 is saved as "1,25" and loaded as 1 |

Behaviours the models have and no run refutes a statement with:

* a text that the pipe refuses half way is reported as fed: `g_io_channel_write_chars`
  returns NORMAL with a short `bytes_written`, which the feeder does not look at. The rest
  is never spoken (`BeginningsInOrder` says what arrives). A newline that is
  refused glues two segments together;
* the shutdown of the channel waits on the UI thread until the process has read enough or
  is gone, and the signals that would end it come later (`StragglersDelivered` needs the
  assumption that it reads);
* `queue_segment` validates and logs a text that it has queued, after it has released
  `queue_mutex`: the feeder may have fed and freed it ("Validate text before logging to
  prevent crashes", `tts-streaming-engine.c:286`). A text of exactly 10000 bytes is
  refused by `queue_segment` after it was queued, and its caller frees what the feeder will
  take. `MemoryErrorsHaveTwoCauses` names the two, and says that nothing else in the engine
  commits a first memory error; TLC finds it violated when either is taken out of it;
* `tts-speed nan` is accepted ("Speed must be between 0.5 and 3.0",
  `tts-ui-controller.c:1132`): `g_ascii_strtod` makes a NaN of it, which passes both
  comparisons. No key changes the speed any more until another speed is typed. The model has
  it (`NaN`), and so no property says that the speed stays in that range;
* speed and volume reach neither the streaming engine nor the configuration file;
* cleaning turns tabs into spaces before tables are looked for, so that only bars make a
  table; a sentence of more than 10000 bytes is dropped with a warning;
* when there is no room for an announcement a table separator is dropped and a symbol is
  copied as it is; announcements as long as the text push out its end without an error;
  an empty text gives a `g_malloc(0)`, whose NULL is reported as a lack of memory;
* cleanup of a paused backend engine, and `speak` of a paused Speech Dispatcher engine,
  wait forever: SIGTERM stays pending in a stopped process (`CleanupReturnsUnlessPaused`
  and `SpeakReturns` say what remains true);
* `tts_engine_free` leaks the engine data of an engine that is IDLE; `plugin.c` cleans up
  first;
* a disk that fills up in the middle of a save leaves a beginning of the file, and `fclose`
  is not checked: a volume of 80 may come back as 8 or 0, a flag that was set as clear
  (`CutSaveHurtsOneSetting` says what cannot happen);
* a file with a negative timeout is taken over although the load reports failure, and
  then no save succeeds until a reset to the defaults;
* the streaming engine is never freed, and the handlers' own messages replace the
  persistent status indicator.

## 4. The proofs

Assumptions are those on the constants: at least one segment, long segments among the
segments, page numbers from 0, at least one process, the missing voice is no voice,
speeds, volumes, typed numbers and lengths of texts are numbers, no text is empty, and the
channel's buffer is written out before it is full and fits into the pipe. TLC evaluates
them in the runs, and has checked each inductive invariant and each action property on the
bounds of the runs before it was proved.

**Streaming engine** (`EngineInvariant`). The properties are not inductive alone. `IInv`
adds the engine state that goes with each place of the UI thread (`StateOf`), which
threads and which process exist there (`ThreadsJoined`, `ProcessTracked`), that the mutex
is held exactly in the feeder's locked steps (`MutexHeld`), what the feeder has learnt
under it (`FeederKnows`) and who owns each live copy (`CopiesOwned`). From it:
`TypeCorrect`, `StopReleases`, `SignalsAreSafe` (the audio thread is joined before the
first signal, so nobody else reaps), `ChannelOutlivesFeeder`, `WakeupsArrive` (a sleeping
feeder's reason to sleep is changed only by steps that wake it).

**Audio controller** (`ControllerInvariant`). The properties together with "a controller
that does not exist holds nothing" are inductive: `ControllerTypes`,
`ControllerAgreesWithEngine`, `SessionsHaveSegments`, `PositionsAreValid`. An action
property: no call on a session that plays or is paused commits a memory error, and only
`free` and `start_session` replace its list (`SessionsAreSafe`), so that the list a failed
start leaves dangling (`plugin_double_free`) does harm only in the states after that start.

**Engine and backends** (`BackendInvariant`). `CallsInOrder` adds where a call can be and
that processes not yet spawned do not exist; `NoProcessLost` is used process by process
(`OnlyCurrent`). From it: `BackendTypes`, `ProcessesAreReaped`, `IdleEnginesAreSilent`,
`PauseIsTruthful`, `VoiceIsApplied`.

An action property: a child that was reaped stays so, and one is spawned only when all
before it have been reaped (`ProcessesFollowEachOther`). It is about children: piper's is a
shell, whose `piper | aplay` (`tts-engine-piper.c:160`) gets no signal and may still be heard
when the next text is spoken.

**Text extractor** (`TextInvariant`). What an extraction returns is a value of nested
loops, and the library's induction theorems take an operator, which the provers cannot
instantiate. The proofs use sets instead: a set of numbers that is not empty has a least
element, so a set that has 0 and goes on from i - 1 to i has every number up to n (`UpTo`;
`SeqInduction` for texts), and a recursive function with a step for each character exists
and has the values that its definition says (`LoopExists`, `LoopFromSteps`).
`NothingIsLost` follows the printed characters through the loops: cleaning keeps them, and
the scanning loop has, at each iteration, those before its start in the list and the rest
still ahead (`ScanInv`). `SegmentsAreItsSentences` compares three ways to find the
sentences: the code, which cleans the page and looks ahead from each full stop; the
reference, which cuts the page as it was; and between them a reader that takes one
character after the other and does not look ahead. The code's sentences are the reader's
on the cleaned text (`ResultIsSentences`), the reader finds the same before and after
cleaning (`ResultCleaned`), and what it finds are the stretches of the reference
(`StretchesAreSentences`). `TypesDoAgree` is about both copies of the type detection. All
of these hold for pages of any length, over any alphabet.

For the rewriting functions the invariant says that what is written and what is believed
free make up the buffer without its last byte, and that what is written is at most what was
read and what was added (`ProcessInv`). From it, for texts of any length: `BufferIsSafe`,
and `TextIsKept`, because a full buffer of at least twice the text's length then holds more
than was read and added. `EveryIterationReads` is an action property: an iteration reads at
least one byte or is the last, so that the loops end.

**The engine implements `SpeechStream`** (`EngineRefinesStream`). The mapping needs more
than `IInv`, since the abstract stream takes segments in order and not while it is held.
`StreamInv` adds that what was fed, what the feeder has in hand and what is queued form
one increasing line (`LineOrdered`), which stays below the segment that is queued next
(`LineGrows`: also in the steps of `queue_segment` after the push), and what the feeder
and the UI thread know of `is_paused` at their places (`PauseSeen`: the feeder pops only
after a test under the mutex that saw it clear, or told to stop). From it also
`DocumentOrder`. The theorem is about safety: `SpeechStream` has no fairness, and each
step of `StreamingEngine` is a step of it or a stutter.

**Memory of the engine** (`MemoryInvariant`). Memory errors happen; `FaultsHaveTwoCauses`
(the property `MemoryErrorsHaveTwoCauses` of the run `engine`) says how they begin: the
first one is either `queue_segment` touching a copy that it has queued and the feeder has freed, or a
copy of 10000 bytes that the caller freed, when it was refused, while it was in the queue.
The invariant needs that the segment in hand comes before all others (`HandBelow`, from
`StreamInv`) so that the feeder frees none that is still queued (`CopiesSound`). A version
of the theorem without either of the causes is false, by TLC's counterexamples.

**Plugin** (`PluginInvariant`). The properties together with "the two controllers come and
go with the plugin" (`ControllersTogether`) and "a freed UI controller shows nothing and
waits for nothing" (`FreedUiIsSilent`) are inductive: `FlagAgreement`, `FreshStatus`,
`KnownTimeout`, `CleanupIsComplete`. What the handlers let through as speed and volume
(`SettingsKnown`, NaN included) is only needed to show that the setters accept it. The handlers are handled by
kind: those that only show a message, those that change a setting, and those that move the
session, whose last message is about the state they leave. `PluginUsesAudioController`
maps each handler to one step of `AudioController` or none, so that what is proved of the
audio controller alone holds inside the plugin (`AudioInsidePlugin`).

**Configuration** (`ConfigInvariant`). The types of the invariant say what a line of the
file can be; an open file is being written from a configuration that does not change and
counts as partly written (`SaveInProgress`). Beneath the state machine are lemmas on the
format, setting by setting: a load gives values in range whatever it reads
(`LoadedInRange`), a load of a line that was saved restores the setting as `Restores` says
unless it is a speed with a comma (`SavedRestores`; this is arithmetic on rounding), a
line that was cut gives the default or a value that is not larger (`CutLoads`; the
beginning of a number is a quotient, `PrefixIsSmaller`), and a missing line leaves the
default. For the timeout this needs that only a valid configuration is saved, which is why
`SaveInProgress` says so. From them `RangesAlwaysHold`, `SavedIsLoaded`,
`CutSaveIsContained` and `UnmarkedNeedsNoSave` (a setter that leaves the mark clear has
not changed anything).

**Channel** (`ChannelInvariant`). What the process has read, the pipe and the buffer form
one line of characters. All steps but one iteration of `g_io_channel_write_chars` leave
the line as it is, and that one adds the next characters at its end (`WriteCharsAdds`).
`WrittenSoFar` says how much of the current segment is in it at each place of the feeder,
and `FeederAt` that a newline is written in one piece and that the current segment is not
reported yet. From it, for any lengths of texts and any sizes of buffer and pipe:
`BeginningsArriveInOrder` and `ReportIsTrue`.

Only model-checked is liveness, which is out of the prover's reach: `QueueDrains`,
`CallsReturn`, `StopReturnsUnlessAsleep`, `StopReturns`, `SpeakReturns`,
`CleanupReturnsUnlessPaused` and `StragglersDelivered`. Every safety property of the runs is
a theorem, including the refinement and the use of the audio controller by the plugin.

## 5. Not modelled

* `tts_extract_page_links`, which asks the viewer for links and describes them in words,
  and the prefixes that `tts_process_text_segment` puts before headings and captions.
* Wording and formatting of messages; the rounding of floats.
* `tts_streaming_engine_free` and `tts_streaming_engine_queue_text`, which nothing calls, and
  the second `close` of the pipe's descriptor: other users of descriptors are not modelled.
* What a shell does with its pipeline: a backend's child is one process, though piper's
  command is a shell whose pipeline SIGSTOP, SIGTERM and SIGKILL do not reach.
* Calls of `tts_audio_controller_set_state` from outside the controller, which only tests make.
* `tts-engine-old.c`, `tts-text-extractor-standalone.c` and `zathura-stubs.c`, which the
  plugin's build does not use; tests and scripts; the vendored glib, apart from the functions of its
  channels that the feeder depends on. glib is nearly all of the repository's code.

## 6. Plan

Nothing that the runs check, other than liveness, is without a theorem. What could follow:

* `StreamingEngine` abstracts the channel to one flag; a refinement from a composition with
  `TextChannel` would carry the character-level results over to sessions;
* `TtsEngine` models a pipeline of the shell as one process;
* action properties of the configuration (which calls may change which line of the file).

---------------------------- MODULE CommandLine ----------------------------
(***************************************************************************)
(* TestConfig and the four parsers that fill it from an order, a comma     *)
(* separated list of name=value pairs: parseCommandlineAdd describes a     *)
(* camera to open, parseCommandlineChange names one,                       *)
(* parseCommandlineMetaDump chooses what the metadata log watches and      *)
(* parseCommandlineMetaUpdate builds settings for the next requests.       *)
(* Every pair that is handled is one step.  errfnd is never set, so only   *)
(* the streams an Add names can make a parser fail.                        *)
(*                                                                         *)
(* A value is what sscanf or atoi make of its text; an integer sscanf does *)
(* not find is the Garbage of an uninitialised local.  Every option is     *)
(* taken to have a value, as in the orders of QCameraHALTestMain.hpp.      *)
(***************************************************************************)
EXTENDS Integers, FiniteSets, Sequences

CONSTANTS
    Lengths,     \* widths and heights an order may name
    Rates,       \* frame rates an order may name
    Megabits,    \* bit rates an order may name, in 2^20 bit/s
    Flags,       \* the flags of mMetaDump that are looked at
    MaxOptions   \* pairs in an order

Garbage == -1
NoMode == "none"
NotSet == -1      \* a tag without a value

Streams == {"preview", "depth", "snapshot", "video"}

\* The format names an order may have, per stream; a video is always yuv420.
FormatNames == [preview  |-> {"yuv420", "yuv_ubwc", "raw10", "raw8", "raw16"},
                depth    |-> {"yuv420", "yuv_ubwc", "raw10", "raw8", "raw16"},
                snapshot |-> {"yuv420", "jpeg", "raw10", "raw16"},
                video    |-> {}]

AllFlags == {"exposure", "iso", "aeMode", "awbMode", "afMode", "afValue", "aeAntiMode",
             "colorCorrectMode", "colorCorrectValue", "controlMode", "sceneMode", "hdrMode",
             "zoom", "zslMode", "numFrames", "expMetering", "selPriority", "expPriority",
             "jpegquality"}

ASSUME ParseAssumption ==
    /\ Lengths \subseteq Nat /\ Rates \subseteq Nat /\ Megabits \subseteq Nat
    /\ Flags \subseteq AllFlags /\ MaxOptions \in Nat

VARIABLES
    call,        \* the parser that runs, "idle", or "new" before the Add
    options,     \* pairs the call has handled
    scan,        \* the locals width and height of parseCommandlineAdd
    modeConfig,  \* the streams whose size the Add has met
    res,         \* what the last call returned
    config,      \* the TestConfig
    watch,       \* the flags of mMetaDump that are not 0
    update,      \* metaUpdate: the value of a tag, or NotSet
    sizeOptions  \* history: the stream and the text of every size the Add has met

parseVars == <<call, options, scan, modeConfig, res, config, watch, update, sizeOptions>>

NewConfig ==
    [mode |-> NoMode, id |-> -1, zsl |-> TRUE, fps |-> <<1, 30>>,
     size |-> [s \in Streams |-> <<0, 0>>], format |-> [s \in Streams |-> "unset"],
     shots |-> 0, h265 |-> 0, showFps |-> 1, altek |-> FALSE,
     bitrate |-> 0, targetBitrate |-> 0, constantRate |-> FALSE]

\* "plain" stands for every tag that an option of its own updates alone.
Tags == {"aeMode", "exposure", "sensitivity", "plain"}

ParseInit ==
    /\ call = "new" /\ options = 0 /\ scan = <<Garbage, Garbage>> /\ modeConfig = {}
    /\ res = 0 /\ config = NewConfig /\ watch = {}
    /\ update = [t \in Tags |-> NotSet] /\ sizeOptions = <<>>

\* A parser is called.  main() parses one Add into a new TestConfig; the other
\* parsers are for the time after it.
Call(parser) ==
    /\ call = IF parser = "add" THEN "new" ELSE "idle"
    /\ call' = parser /\ options' = 0
    /\ UNCHANGED <<scan, modeConfig, res, config, watch, update, sizeOptions>>

\* The call to parser handles one more pair.
Pair(parser) == call = parser /\ options < MaxOptions /\ options' = options + 1

\* A pair that sets one field of the configuration and no other state
Set(parser, field, value) ==
    /\ Pair(parser)
    /\ config' = [config EXCEPT ![field] = value]
    /\ UNCHANGED <<call, scan, modeConfig, res, watch, update, sizeOptions>>

\* The other three parsers always return 0.
Return(parser) ==
    /\ call = parser /\ call' = "idle" /\ res' = 0
    /\ UNCHANGED <<options, scan, modeConfig, config, watch, update, sizeOptions>>

-----------------------------------------------------------------------------
(* parseCommandlineAdd                                                     *)

\* sscanf(value, "%dx%d"): what it does not find stays as the last size of
\* the order left it.
Scanned(text) == [i \in 1 .. 2 |-> IF i <= Len(text) THEN text[i] ELSE scan[i]]

Sizes == {<<>>} \cup {<<w>> : w \in Lengths} \cup (Lengths \X Lengths)

\* Mutant: the stream gets its size before the locals are scanned.
SizeOptionTooEarly(s, text) ==
    /\ Pair("add")
    /\ scan' = Scanned(text)
    /\ config' = [config EXCEPT !.size[s] = scan,
                                !.format["video"] = IF s = "video" THEN "yuv420" ELSE @]
    /\ modeConfig' = modeConfig \cup {s}
    /\ sizeOptions' = Append(sizeOptions, [stream |-> s, text |-> text])
    /\ UNCHANGED <<call, res, watch, update>>

\* psize, dsize, ssize and vsize
SizeOption(s, text) ==
    /\ Pair("add")
    /\ scan' = Scanned(text)
    /\ config' = [config EXCEPT !.size[s] = scan',
                                !.format["video"] = IF s = "video" THEN "yuv420" ELSE @]
    /\ modeConfig' = modeConfig \cup {s}
    /\ sizeOptions' = Append(sizeOptions, [stream |-> s, text |-> text])
    /\ UNCHANGED <<call, res, watch, update>>

\* pformat, dformat and sformat; a name the stream does not know changes nothing.
FormatOption(s, name) ==
    Set("add", "format",
        [config.format EXCEPT ![s] = IF name \in FormatNames[s] THEN name ELSE @])

\* fpsrange: two locals are scanned and stored in ascending order.
FpsOption(lo, hi) == Set("add", "fps", IF lo > hi THEN <<hi, lo>> ELSE <<lo, hi>>)

\* zsl: 0 leaves ZSL, no other value brings it back.
ZslOption(value) == Set("add", "zsl", config.zsl /\ value # 0)

\* bitrate and targetbitrate: 2^20 times the value in 32 bits, so 12 bits of it
\* are left, counted here in 2^20 bit/s
RateOption(field, value) == Set("add", field, value % 4096)

\* isbitrateconst, altek, codectype, snapnum and id
FlagOption(value) ==
    \/ Set("add", "constantRate", config.constantRate \/ value = 1)
    \/ Set("add", "altek", value > 0)
    \/ Set("add", "h265", value)
    \/ Set("add", "shots", value)
    \/ Set("add", "id", value)

\* vformat, resultfile, logfile and names no parser knows change nothing.
IgnoredOption(parser) == Set(parser, "id", config.id)

\* The test mode for the streams whose size was named; NoMode: res = -1
ModeOf(streams) ==
    CASE streams = {"preview"}                      -> "preview"
      [] streams = {"preview", "snapshot"}          -> IF config.zsl THEN "snapshot"
                                                                     ELSE "preview"
      [] streams = {"preview", "snapshot", "video"} -> "video"
      [] streams = {"preview", "depth"}             -> "depth"
      [] OTHER                                      -> NoMode

\* The streams a camera in a mode opens
Opens(mode) ==
    CASE mode = "preview"  -> {"preview"}
      [] mode = "depth"    -> {"preview", "depth"}
      [] mode = "snapshot" -> {"preview", "snapshot"}
      [] mode = "video"    -> {"preview", "snapshot", "video"}
      [] OTHER             -> {}

\* The order is read; mTestMode keeps its value if the streams make no mode.
FinishAdd ==
    /\ call = "add" /\ call' = "idle"
    /\ LET mode == ModeOf(modeConfig) IN
        /\ res' = IF mode = NoMode THEN -1 ELSE 0
        /\ config' = [config EXCEPT !.mode = IF mode = NoMode THEN @ ELSE mode]
    /\ UNCHANGED <<options, scan, modeConfig, watch, update, sizeOptions>>

Add ==
    \/ \E s \in Streams, text \in Sizes : SizeOption(s, text)
    \/ \E s \in Streams, name \in {"jpeg", "raw16"} : FormatOption(s, name)
    \/ \E lo, hi \in Rates \cup {Garbage} : FpsOption(lo, hi)
    \/ \E value \in {0, 1} : ZslOption(value)
    \/ \E field \in {"bitrate", "targetBitrate"}, value \in Megabits : RateOption(field, value)
    \/ \E value \in {0, 1} : FlagOption(value)
    \/ IgnoredOption("add")
    \/ FinishAdd

-----------------------------------------------------------------------------
(* parseCommandlineChange                                                  *)

Change ==
    \/ \E id \in {0, 1} : Set("change", "id", id)
    \/ IgnoredOption("change")
    \/ Return("change")

-----------------------------------------------------------------------------
(* parseCommandlineMetaDump                                                *)

\* The flags a pair sets: "controlmode" has no break and sets sceneMode too.
FlagsOf(k) == IF k = "controlMode" THEN {"controlMode", "sceneMode"} \cap Flags ELSE {k}

WatchOption(k, value) ==
    /\ Pair("dump")
    /\ watch' = IF value # 0 THEN watch \cup FlagsOf(k) ELSE watch \ FlagsOf(k)
    /\ UNCHANGED <<call, scan, modeConfig, res, config, update, sizeOptions>>

\* "file" and "tag" are the log's own; "showfps" is a field of the configuration.
MetaDump ==
    \/ \E k \in Flags, value \in {0, 1} : WatchOption(k, value)
    \/ \E value \in {0, 1} : Set("dump", "showFps", value)
    \/ IgnoredOption("dump")
    \/ Return("dump")

-----------------------------------------------------------------------------
(* parseCommandlineMetaUpdate                                              *)

Update(values) ==
    /\ Pair("update")
    /\ update' = [t \in Tags |-> IF t \in DOMAIN values THEN values[t] ELSE update[t]]
    /\ UNCHANGED <<call, scan, modeConfig, res, config, watch, sizeOptions>>

\* The exposure times in nanoseconds that go with a sensitivity
ExposureFor == [iso \in {100, 200, 400, 800, 1600} |->
    CASE iso = 100 -> 90604540 [] iso = 200 -> 40000000 [] iso = 400 -> 25000000
      [] iso = 800 -> 15000000 [] iso = 1600 -> 8000000]

\* manual_exp and manual_iso switch the automatic exposure off, manualsens
\* does not; a sensitivity that is not in the table leaves the exposure alone.
ManualExposure(ms) == Update([aeMode |-> 0, exposure |-> ms * 1000000])
ManualIso(iso) == Update([aeMode |-> 0, sensitivity |-> iso])
ManualSensitivity(iso) ==
    IF iso \in DOMAIN ExposureFor
    THEN Update([sensitivity |-> iso, exposure |-> ExposureFor[iso]])
    ELSE Update([sensitivity |-> iso])

\* expmetering switches the automatic exposure on again.
ExposureMetering(value) == Update([aeMode |-> 1, plain |-> value])

MetaUpdate ==
    \/ \E ms \in {8, 20} : ManualExposure(ms)
    \/ \E iso \in {100, 150} : ManualIso(iso) \/ ManualSensitivity(iso)
    \/ \E value \in {0, 1} : ExposureMetering(value) \/ Update([aeMode |-> value])
                                                    \/ Update([plain |-> value])
    \/ IgnoredOption("update")
    \/ Return("update")

-----------------------------------------------------------------------------

ParseNext ==
    \/ \E parser \in {"add", "change", "dump", "update"} : Call(parser)
    \/ Add \/ Change \/ MetaDump \/ MetaUpdate

-----------------------------------------------------------------------------
(* Properties.                                                             *)

\* The type of every variable of the configuration.
ParseTypeOK ==
    /\ call \in {"new", "idle", "add", "change", "dump", "update"} /\ options \in 0 .. MaxOptions
    /\ scan \in Seq(Lengths \cup {Garbage}) /\ modeConfig \subseteq Streams
    /\ res \in {0, -1} /\ watch \subseteq Flags
    /\ DOMAIN config = DOMAIN NewConfig /\ config.mode \in Streams \cup {NoMode}
    /\ DOMAIN update = Tags /\ Len(sizeOptions) <= MaxOptions

\* After the sizes opts were read up to the n-th, length i (width or height) is
\* that of the latest of them that has it, of whatever stream, and Garbage if
\* none has.
ReadSoFar(opts, n, i, length) ==
    \/ \E k \in 1 .. n :
          /\ i \in DOMAIN opts[k].text /\ length = opts[k].text[i]
          /\ \A m \in k + 1 .. n : i \notin DOMAIN opts[m].text
    \/ length = Garbage /\ \A k \in 1 .. n : i \notin DOMAIN opts[k].text

\* The size a stream got is what was read when its last size option was.
SizedBy(opts, s, size) ==
    \E n \in DOMAIN opts :
        /\ opts[n].stream = s
        /\ \A m \in n + 1 .. Len(opts) : opts[m].stream # s
        /\ \A i \in 1 .. 2 : ReadSoFar(opts, n, i, size[i])

\* A camera that is to start in a mode opens no stream without a size: the order
\* had a size option for every stream of the mode, wherever it stood.  A length
\* that option does not name is the one a size before it named, of this or of
\* another stream (psize=640x480,dsize=abc sizes the depth stream like the
\* preview), and one that comes after it never reaches the stream; it is what
\* the stack held only if no size up to that option names it.
StreamsAreSized ==
    call \notin {"new", "add"} =>
        \A s \in Opens(config.mode) : SizedBy(sizeOptions, s, config.size[s])
=============================================================================

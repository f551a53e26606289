------------------------ MODULE ConfigurationProofs ------------------------
(***************************************************************************)
(* Proofs about the components that serve an order outside the frame path: *)
(* the command line, the metadata log and the snapshot camera's pictures.  *)
(* They share no state, so each has a specification, an inductive invariant*)
(* and theorems of its own.                                                *)
(***************************************************************************)
EXTENDS CommandLine, MetadataLog, SnapshotCapture, TLAPS

ParseSpec == ParseInit /\ [][ParseNext]_parseVars
LogSpec == LogInit /\ [][LogNext]_logVars
ShotSpec == ShotInit /\ [][ShotNext]_shotVars

-----------------------------------------------------------------------------
(* The command line: the inductive invariant.                              *)

\* What a width or a height may be: of the order, never scanned, or unset
Dims == Lengths \cup {Garbage, 0}

\* The formats a stream may have, and the one of a new TestConfig
Formats == {"unset", "yuv420", "yuv_ubwc", "raw10", "raw8", "raw16", "jpeg"}

Configs ==
    [mode : Streams \cup {NoMode}, id : Int, zsl : BOOLEAN, fps : Seq(Int),
     size : [Streams -> [1 .. 2 -> Dims]], format : [Streams -> Formats],
     shots : Int, h265 : Int, showFps : Int, altek : BOOLEAN,
     bitrate : Int, targetBitrate : Int, constantRate : BOOLEAN]

Options == [stream : Streams, text : Sizes]

ConfigOK ==
    /\ config \in Configs /\ sizeOptions \in Seq(Options)
    /\ scan \in [1 .. 2 -> Lengths \cup {Garbage}] /\ modeConfig \subseteq Streams
    /\ call \in {"new", "idle", "add", "change", "dump", "update"}

\* Only an Add that has been read whole gives a camera its mode, and it is one
\* whose streams it named.
ModeInv ==
    /\ call \in {"new", "add"} => config.mode = NoMode
    /\ Opens(config.mode) \subseteq modeConfig

\* The locals hold what was read so far, and so does the size of every stream
\* that was named, from its last size option on.
SizesInv ==
    /\ \A i \in 1 .. 2 : ReadSoFar(sizeOptions, Len(sizeOptions), i, scan[i])
    /\ \A s \in modeConfig : SizedBy(sizeOptions, s, config.size[s])

ParseInv == ConfigOK /\ ModeInv /\ SizesInv

-----------------------------------------------------------------------------
(* The metadata log.                                                       *)

MetaOK ==
    /\ camera \in Logs /\ watched \subseteq Kinds
    /\ stat \in [Kinds -> Int] /\ said \in [Kinds -> Int]
    /\ last \in [Kinds -> Values \cup {0}]

\* mMetaStat is what it keeps of what the last result held.
StatInv == \A k \in Handled : stat[k] = Stored(k, last[k])

FileOK ==
    /\ type \in [Logs -> {"ALOGE", "std", "file", "deleted"}]
    /\ isNew \in [Logs -> BOOLEAN] /\ file \in [Logs -> {"stderr", "own"}]
    /\ stderrOpen \in BOOLEAN /\ redirected \subseteq Logs
    /\ logFault \in {"none", "closedTwice", "printToNull"}

\* A log that writes to a file was told to, and one of those that were closed
\* stderr: it has a file of its own now, or it is gone.
ClosedBy(l) == file[l] = "own" \/ type[l] = "deleted"
CloseInv ==
    /\ \A l \in Logs : type[l] = "file" => l \in redirected
    /\ ~stderrOpen => \E l \in redirected : ClosedBy(l)

MetaInv == MetaOK /\ StatInv /\ LastLineIsCurrent
FileInv == FileOK /\ CloseInv /\ ClosedOnce
LogInv == MetaInv /\ FileInv

-----------------------------------------------------------------------------
(* The snapshot camera.                                                    *)

\* The pictures that are ordered and still to come, if no order was lost
Rest == ordered - written - invalid

\* A picture that is written and not yet counted down
Uncounted == IF callback = "loaded" THEN 1 ELSE 0

\* The unstable frames that are still to come
Unstable == IF zsl \/ caller = "idle" \/ frame >= NonZslStableFrameCount
            THEN 0 ELSE NonZslStableFrameCount - frame

CountOK ==
    /\ ShotTypeOK
    /\ callback = "loaded" => loaded = num \/ overlap
    /\ callback = "loaded" => loaded > 0

\* A ZSL camera never waits, and the other one has a single order.
CallerInv ==
    /\ zsl => caller = "idle"
    /\ ~zsl => ~overlap
    /\ ~zsl /\ caller = "idle" =>
           /\ ordered = 0 /\ written = 0 /\ invalid = 0
           /\ num = 0 /\ due = 0 /\ frame = 0 /\ callback = "idle" /\ ~woken

\* Without overlapping orders the buffers to come are the pictures to come and
\* the frames to skip, and the count never falls below the pictures to come.
DueInv ==
    ~overlap =>
        /\ Rest >= 0 /\ due = Rest + Unstable
        /\ num - Uncounted >= Rest

\* The count of the only order of a non-ZSL camera is exact, so the signal comes
\* when all is written.
SignalInv ==
    /\ ~zsl => num - Uncounted = ordered - written
    /\ ~zsl /\ woken => callback # "loaded" /\ num = 0
    /\ caller \in {"stop", "done"} /\ shotRes = 0 /\ ~spurious => woken

ShotInv == CountOK /\ CallerInv /\ DueInv /\ SignalInv

-----------------------------------------------------------------------------
(* The command line: every step keeps the invariant.                       *)

\* The text of a size has two lengths at most, each of them of the order.
LEMMA SizeText ==
    ASSUME NEW text \in Sizes
    PROVE  text \in Seq(Lengths) /\ Len(text) <= 2 /\ DOMAIN text \subseteq 1 .. 2
<1>1. CASE text = <<>>
  BY <1>1
<1>2. CASE \E w \in Lengths : text = <<w>>
  BY <1>2
<1>3. CASE text \in Lengths \X Lengths
  <2>1. PICK w \in Lengths, h \in Lengths : text = <<w, h>>
    BY <1>3
  <2> QED BY <2>1
<1> QED BY <1>1, <1>2, <1>3 DEF Sizes

\* What sscanf finds is what the text names.
LEMMA ScannedText ==
    ASSUME ConfigOK, NEW text \in Sizes
    PROVE  /\ Scanned(text) \in [1 .. 2 -> Lengths \cup {Garbage}]
           /\ \A i \in DOMAIN text : Scanned(text)[i] = text[i]
<1>1. text \in Seq(Lengths) /\ Len(text) <= 2 /\ DOMAIN text = 1 .. Len(text)
  BY SizeText
<1>2. scan \in [1 .. 2 -> Lengths \cup {Garbage}]
  BY DEF ConfigOK
<1> QED BY <1>1, <1>2 DEF Scanned

\* One more size option leaves what was read before it.
LEMMA ReadBefore ==
    ASSUME NEW opts \in Seq(Options), NEW e \in Options, NEW n \in 0 .. Len(opts),
           NEW i, NEW length, ReadSoFar(opts, n, i, length)
    PROVE  ReadSoFar(Append(opts, e), n, i, length)
<1> DEFINE more == Append(opts, e)
<1>1. \A k \in 1 .. n : more[k] = opts[k]
  OBVIOUS
<1> HIDE DEF more
<1>2. CASE \E k \in 1 .. n : /\ i \in DOMAIN opts[k].text /\ length = opts[k].text[i]
                           /\ \A m \in k + 1 .. n : i \notin DOMAIN opts[m].text
  <2>1. PICK k \in 1 .. n : /\ i \in DOMAIN opts[k].text /\ length = opts[k].text[i]
                            /\ \A m \in k + 1 .. n : i \notin DOMAIN opts[m].text
    BY <1>2
  <2>2. i \in DOMAIN more[k].text /\ length = more[k].text[i]
    BY <1>1, <2>1
  <2>3. \A m \in k + 1 .. n : i \notin DOMAIN more[m].text
    BY <1>1, <2>1
  <2> QED BY <2>2, <2>3 DEF ReadSoFar, more
<1>3. CASE length = Garbage /\ \A k \in 1 .. n : i \notin DOMAIN opts[k].text
  BY <1>1, <1>3 DEF ReadSoFar, more
<1> QED BY <1>2, <1>3 DEF ReadSoFar

\* What is read of a size option is what has been read from then on.
LEMMA ReadNow ==
    ASSUME ConfigOK, NEW s \in Streams, NEW text \in Sizes, NEW i \in 1 .. 2,
           ReadSoFar(sizeOptions, Len(sizeOptions), i, scan[i])
    PROVE  ReadSoFar(Append(sizeOptions, [stream |-> s, text |-> text]),
                     Len(sizeOptions) + 1, i, Scanned(text)[i])
<1> DEFINE e == [stream |-> s, text |-> text]
           more == Append(sizeOptions, e)
           n == Len(sizeOptions)
<1>1. /\ n \in Nat /\ e \in Options /\ sizeOptions \in Seq(Options)
      /\ more[n + 1] = e /\ \A k \in 1 .. n : more[k] = sizeOptions[k]
  BY DEF ConfigOK, Options
<1>2. DOMAIN text = 1 .. Len(text)
  BY SizeText
<1>3. e.text = text
  OBVIOUS
<1>4. CASE i \in DOMAIN text
  <2>1. Scanned(text)[i] = text[i]
    BY <1>4, ScannedText
  <2> HIDE DEF e, more, n
  <2>2. n + 1 \in 1 .. n + 1 /\ i \in DOMAIN more[n + 1].text /\ more[n + 1].text[i] = text[i]
    BY <1>1, <1>3, <1>4
  <2>3. \A m \in (n + 1) + 1 .. n + 1 : FALSE
    BY <1>1
  <2>4. ReadSoFar(more, n + 1, i, Scanned(text)[i])
    BY <2>1, <2>2, <2>3 DEF ReadSoFar
  <2> QED BY <2>4 DEF e, more, n
<1>5. CASE i \notin DOMAIN text
  <2>1. Scanned(text)[i] = scan[i]
    <3>1. ~(i <= Len(text))
      <4>1. Len(text) \in Nat
        BY SizeText
      <4> QED BY <1>2, <1>5, <4>1
    <3> QED BY <3>1 DEF Scanned
  <2>2. ReadSoFar(more, n, i, scan[i])
    BY <1>1, ReadBefore
  <2> HIDE DEF e, more, n
  <2>3. i \notin DOMAIN more[n + 1].text
    BY <1>1, <1>3, <1>5
  <2>4. CASE \E k \in 1 .. n : /\ i \in DOMAIN more[k].text /\ scan[i] = more[k].text[i]
                             /\ \A m \in k + 1 .. n : i \notin DOMAIN more[m].text
    <3>1. PICK k \in 1 .. n : /\ i \in DOMAIN more[k].text /\ scan[i] = more[k].text[i]
                              /\ \A m \in k + 1 .. n : i \notin DOMAIN more[m].text
      BY <2>4
    <3>2. k \in 1 .. n + 1
      BY <1>1
    <3>3. \A m \in k + 1 .. n + 1 : m \in k + 1 .. n \/ m = n + 1
      BY <1>1
    <3>4. \A m \in k + 1 .. n + 1 : i \notin DOMAIN more[m].text
      BY <2>3, <3>1, <3>3
    <3>5. ReadSoFar(more, n + 1, i, scan[i])
      BY <3>1, <3>2, <3>4 DEF ReadSoFar
    <3> QED BY <2>1, <3>5 DEF e, more, n
  <2>5. CASE scan[i] = Garbage /\ \A k \in 1 .. n : i \notin DOMAIN more[k].text
    <3>1. \A k \in 1 .. n + 1 : k \in 1 .. n \/ k = n + 1
      BY <1>1
    <3>2. ReadSoFar(more, n + 1, i, scan[i])
      BY <2>3, <2>5, <3>1 DEF ReadSoFar
    <3> QED BY <2>1, <3>2 DEF e, more, n
  <2> QED BY <2>2, <2>4, <2>5 DEF ReadSoFar
<1> QED BY <1>4, <1>5

\* A size option of a stream leaves the sizes of the others.
LEMMA SizedBefore ==
    ASSUME NEW opts \in Seq(Options), NEW e \in Options, NEW s, s # e.stream, NEW size,
           SizedBy(opts, s, size)
    PROVE  SizedBy(Append(opts, e), s, size)
<1> DEFINE more == Append(opts, e)
<1>1. PICK n \in DOMAIN opts : /\ opts[n].stream = s
                               /\ \A m \in n + 1 .. Len(opts) : opts[m].stream # s
                               /\ \A i \in 1 .. 2 : ReadSoFar(opts, n, i, size[i])
  BY DEF SizedBy
<1>2. n \in 0 .. Len(opts)
  OBVIOUS
<1>3. \A i \in 1 .. 2 : ReadSoFar(more, n, i, size[i])
  BY <1>1, <1>2, ReadBefore
<1>4. /\ Len(more) = Len(opts) + 1 /\ more[Len(more)] = e /\ Len(opts) \in Nat
      /\ \A m \in 1 .. Len(opts) : more[m] = opts[m]
      /\ DOMAIN more = 1 .. Len(opts) + 1 /\ n \in 1 .. Len(opts)
  OBVIOUS
<1> HIDE DEF more
<1>5. n \in DOMAIN more /\ more[n].stream = s
  BY <1>1, <1>4
<1>6. \A m \in n + 1 .. Len(more) : more[m].stream # s
  <2> SUFFICES ASSUME NEW m \in n + 1 .. Len(more)
               PROVE  more[m].stream # s
    OBVIOUS
  <2>1. m \in n + 1 .. Len(opts) \/ m = Len(more)
    BY <1>4
  <2>2. CASE m \in n + 1 .. Len(opts)
    BY <1>1, <1>4, <2>2
  <2>3. CASE m = Len(more)
    BY <1>4, <2>3
  <2> QED BY <2>1, <2>2, <2>3
<1> QED BY <1>3, <1>5, <1>6 DEF SizedBy, more

\* A size option gives its stream what has been read.
LEMMA SizedNow ==
    ASSUME NEW opts \in Seq(Options), NEW e \in Options, NEW size,
           \A i \in 1 .. 2 : ReadSoFar(Append(opts, e), Len(opts) + 1, i, size[i])
    PROVE  SizedBy(Append(opts, e), e.stream, size)
<1> DEFINE more == Append(opts, e)
<1>1. /\ Len(more) = Len(opts) + 1 /\ more[Len(opts) + 1] = e /\ Len(opts) \in Nat
      /\ DOMAIN more = 1 .. Len(opts) + 1
  OBVIOUS
<1> HIDE DEF more
<1>2. Len(opts) + 1 \in DOMAIN more /\ \A m \in (Len(opts) + 1) + 1 .. Len(more) : FALSE
  BY <1>1
<1>3. more[Len(opts) + 1].stream = e.stream
  BY <1>1
<1>4. \A i \in 1 .. 2 : ReadSoFar(more, Len(opts) + 1, i, size[i])
  BY DEF more
<1>5. SizedBy(more, e.stream, size)
  BY <1>2, <1>3, <1>4 DEF SizedBy
<1> QED BY <1>5 DEF more

\* A call that begins or returns leaves the configuration alone.
LEMMA CallKeepsParse ==
    ASSUME ParseInv,
           \/ \E parser \in {"add", "change", "dump", "update"} : Call(parser)
           \/ \E parser \in {"change", "dump", "update"} : Return(parser)
    PROVE  ParseInv'
<1>1. UNCHANGED <<scan, modeConfig, config, sizeOptions>>
  BY DEF Call, Return
<1>2. /\ call' \in {"idle", "add", "change", "dump", "update"}
      /\ call' = "add" => call = "new"
      /\ call' # "add" => call \notin {"new", "add"}
  BY DEF Call, Return
<1>3. ConfigOK' /\ SizesInv'
  BY <1>1, <1>2 DEF ParseInv, ConfigOK, SizesInv
<1>4. ModeInv'
  BY <1>1, <1>2 DEF ParseInv, ModeInv
<1> QED BY <1>3, <1>4 DEF ParseInv

\* A step of a call that goes on, and that leaves the sizes, the mode and the
\* streams alone.
LEMMA FieldKeepsParse ==
    ASSUME ParseInv, config' \in Configs,
           config'.size = config.size, config'.mode = config.mode,
           UNCHANGED <<call, scan, modeConfig, sizeOptions>>
    PROVE  ParseInv'
<1>1. ConfigOK' /\ SizesInv'
  BY DEF ParseInv, ConfigOK, SizesInv
<1>2. ModeInv'
  BY DEF ParseInv, ModeInv
<1> QED BY <1>1, <1>2 DEF ParseInv

LEMMA SizeKeepsParse ==
    ASSUME ParseInv, NEW s \in Streams, NEW text \in Sizes, SizeOption(s, text)
    PROVE  ParseInv'
<1> DEFINE Format == IF s = "video" THEN "yuv420" ELSE config.format["video"]
<1>1. /\ call = "add" /\ call' = "add"
      /\ scan' = Scanned(text) /\ modeConfig' = modeConfig \cup {s}
      /\ sizeOptions' = Append(sizeOptions, [stream |-> s, text |-> text])
      /\ config' = [config EXCEPT !.size[s] = scan', !.format["video"] = Format]
  BY DEF SizeOption, Pair
<1>2. ConfigOK
  BY DEF ParseInv
<1>3. /\ scan' \in [1 .. 2 -> Lengths \cup {Garbage}]
      /\ \A i \in DOMAIN text : scan'[i] = text[i]
  BY <1>1, <1>2, ScannedText
<1>4. scan' \in [1 .. 2 -> Dims]
  BY <1>3 DEF Dims
<1>5. Format \in Formats
  <2>1. config.format \in [Streams -> Formats]
    BY <1>2 DEF ConfigOK, Configs
  <2>2. config.format["video"] \in Formats
    BY <2>1 DEF Streams
  <2> QED BY <2>2 DEF Formats
<1>6. /\ config' \in Configs /\ config'.mode = config.mode
      /\ config'.size = [config.size EXCEPT ![s] = scan']
  <2> HIDE DEF Format
  <2> QED BY <1>1, <1>2, <1>4, <1>5 DEF ConfigOK, Configs
<1>7. ConfigOK'
  <2>1. [stream |-> s, text |-> text] \in Options
    BY DEF Options
  <2>2. sizeOptions' \in Seq(Options)
    BY <1>1, <1>2, <2>1 DEF ConfigOK
  <2> QED BY <1>1, <1>2, <1>3, <1>6, <2>2 DEF ConfigOK
<1>8. SizesInv'
  <2> DEFINE e == [stream |-> s, text |-> text]
  <2>1. /\ e \in Options /\ e.stream = s /\ sizeOptions \in Seq(Options)
        /\ config.size \in [Streams -> [1 .. 2 -> Dims]] /\ modeConfig \subseteq Streams
    BY <1>2 DEF ConfigOK, Configs, Options
  <2>2. \A i \in 1 .. 2 : ReadSoFar(sizeOptions', Len(sizeOptions) + 1, i, scan'[i])
    BY <1>1, <1>2, ReadNow DEF ParseInv, SizesInv
  <2> HIDE DEF e
  <2>3. sizeOptions' = Append(sizeOptions, e) /\ Len(sizeOptions') = Len(sizeOptions) + 1
    BY <1>1, <2>1 DEF e
  <2>4. \A i \in 1 .. 2 : ReadSoFar(sizeOptions', Len(sizeOptions'), i, scan'[i])
    BY <2>2, <2>3
  <2>5. ASSUME NEW r \in modeConfig' PROVE SizedBy(sizeOptions', r, config'.size[r])
    <3>1. CASE r = s
      <4>1. SizedBy(Append(sizeOptions, e), e.stream, scan')
        BY <2>1, <2>2, <2>3, SizedNow
      <4>2. config'.size[s] = scan'
        BY <1>6, <2>1
      <4> QED BY <2>1, <2>3, <3>1, <4>1, <4>2
    <3>2. CASE r # s
      <4>1. r \in modeConfig /\ config'.size[r] = config.size[r]
        BY <1>1, <1>6, <2>1, <3>2
      <4>2. SizedBy(sizeOptions, r, config.size[r])
        BY <4>1 DEF ParseInv, SizesInv
      <4> QED BY <2>1, <2>3, <3>2, <4>1, <4>2, SizedBefore
    <3> QED BY <3>1, <3>2
  <2> QED BY <2>4, <2>5 DEF SizesInv
<1>9. ModeInv'
  BY <1>1, <1>6 DEF ParseInv, ModeInv
<1> QED BY <1>7, <1>8, <1>9 DEF ParseInv

\* A pair that sets a number
LEMMA NumberKeepsParse ==
    ASSUME ParseInv, NEW parser, NEW value \in Int,
           NEW field \in {"id", "shots", "h265", "showFps", "bitrate", "targetBitrate"},
           Set(parser, field, value)
    PROVE  ParseInv'
<1>1. /\ config' = [config EXCEPT ![field] = value] /\ config \in Configs
      /\ UNCHANGED <<call, scan, modeConfig, sizeOptions>>
  BY DEF Set, Pair, ParseInv, ConfigOK
<1>2. config'.size = config.size /\ config'.mode = config.mode
  BY <1>1 DEF Configs
<1>3. config' \in Configs
  <2>1. CASE field \in {"id", "shots", "h265"}
    BY <2>1, <1>1 DEF Configs
  <2>2. CASE field \in {"showFps", "bitrate", "targetBitrate"}
    BY <2>2, <1>1 DEF Configs
  <2> QED BY <2>1, <2>2
<1> QED BY <1>1, <1>2, <1>3, FieldKeepsParse

\* A pair that sets a switch
LEMMA SwitchKeepsParse ==
    ASSUME ParseInv, NEW value \in BOOLEAN,
           NEW field \in {"altek", "constantRate", "zsl"}, Set("add", field, value)
    PROVE  ParseInv'
<1>1. /\ config' = [config EXCEPT ![field] = value] /\ config \in Configs
      /\ call = "add" /\ UNCHANGED <<call, scan, modeConfig, sizeOptions>>
  BY DEF Set, Pair, ParseInv, ConfigOK
<1>2. config'.size = config.size /\ config'.mode = config.mode
  BY <1>1 DEF Configs
<1>3. config' \in Configs
  BY <1>1 DEF Configs
<1> QED BY <1>1, <1>2, <1>3, FieldKeepsParse

LEMMA FormatKeepsParse ==
    ASSUME ParseInv, NEW s \in Streams, NEW name \in {"jpeg", "raw16"}, FormatOption(s, name)
    PROVE  ParseInv'
<1> DEFINE Chosen == [config.format EXCEPT ![s] = IF name \in FormatNames[s] THEN name ELSE @]
<1>1. /\ config' = [config EXCEPT !["format"] = Chosen] /\ config \in Configs
      /\ UNCHANGED <<call, scan, modeConfig, sizeOptions>>
  BY DEF FormatOption, Set, Pair, ParseInv, ConfigOK
<1>2. Chosen \in [Streams -> Formats]
  BY <1>1 DEF Configs, Formats
<1> HIDE DEF Chosen
<1>3. config' \in Configs /\ config'.size = config.size /\ config'.mode = config.mode
  BY <1>1, <1>2 DEF Configs
<1> QED BY <1>1, <1>3, FieldKeepsParse

LEMMA FpsKeepsParse ==
    ASSUME ParseInv, NEW lo \in Int, NEW hi \in Int, FpsOption(lo, hi)
    PROVE  ParseInv'
<1> DEFINE Chosen == IF lo > hi THEN <<hi, lo>> ELSE <<lo, hi>>
<1>1. /\ config' = [config EXCEPT !["fps"] = Chosen] /\ config \in Configs
      /\ UNCHANGED <<call, scan, modeConfig, sizeOptions>>
  BY DEF FpsOption, Set, Pair, ParseInv, ConfigOK
<1>2. Chosen \in Seq(Int)
  OBVIOUS
<1> HIDE DEF Chosen
<1>3. config' \in Configs /\ config'.size = config.size /\ config'.mode = config.mode
  BY <1>1, <1>2 DEF Configs
<1> QED BY <1>1, <1>3, FieldKeepsParse

LEMMA IgnoredKeepsParse ==
    ASSUME ParseInv, NEW parser, IgnoredOption(parser)
    PROVE  ParseInv'
<1>1. config.id \in Int
  BY DEF ParseInv, ConfigOK, Configs
<1> QED BY <1>1, NumberKeepsParse DEF IgnoredOption

\* The streams of an Add that has been read give it a mode that opens no others.
LEMMA ModeOpensNamed ==
    ASSUME NEW streams \in SUBSET Streams
    PROVE  ModeOf(streams) \in Streams \cup {NoMode} /\ Opens(ModeOf(streams)) \subseteq streams
<1> USE DEF Opens, Streams, NoMode
<1>1. CASE streams = {"preview"}
  <2>1. ModeOf(streams) = "preview"
    BY <1>1 DEF ModeOf
  <2> QED BY <1>1, <2>1
<1>2. CASE streams = {"preview", "snapshot"}
  <2>1. ModeOf(streams) \in {"preview", "snapshot"}
    BY <1>2 DEF ModeOf
  <2> QED BY <1>2, <2>1
<1>3. CASE streams = {"preview", "snapshot", "video"}
  <2>1. ModeOf(streams) = "video"
    BY <1>3 DEF ModeOf
  <2> QED BY <1>3, <2>1
<1>4. CASE streams = {"preview", "depth"}
  <2>1. ModeOf(streams) = "depth"
    BY <1>4 DEF ModeOf
  <2> QED BY <1>4, <2>1
<1>5. CASE streams \notin {{"preview"}, {"preview", "snapshot"}, {"preview", "depth"},
                           {"preview", "snapshot", "video"}}
  <2>1. ModeOf(streams) = NoMode
    BY <1>5 DEF ModeOf
  <2> QED BY <2>1
<1> QED BY <1>1, <1>2, <1>3, <1>4, <1>5

LEMMA FinishKeepsParse ==
    ASSUME ParseInv, FinishAdd
    PROVE  ParseInv'
<1> DEFINE Mode == ModeOf(modeConfig)
<1>1. /\ call = "add" /\ call' = "idle" /\ UNCHANGED <<scan, modeConfig, sizeOptions>>
      /\ config' = [config EXCEPT !.mode = IF Mode = NoMode THEN config.mode ELSE Mode]
  BY DEF FinishAdd
<1>2. config \in Configs /\ config.mode = NoMode /\ modeConfig \subseteq Streams
  BY <1>1 DEF ParseInv, ConfigOK, ModeInv
<1>3. Mode \in Streams \cup {NoMode} /\ Opens(Mode) \subseteq modeConfig
  BY <1>2, ModeOpensNamed
<1> HIDE DEF Mode
<1>4. config'.mode = Mode /\ config'.size = config.size
  BY <1>1, <1>2 DEF Configs
<1>5. config' \in Configs
  BY <1>1, <1>2, <1>3 DEF Configs
<1>6. ConfigOK' /\ SizesInv'
  BY <1>1, <1>4, <1>5 DEF ParseInv, ConfigOK, SizesInv
<1>7. ModeInv'
  BY <1>1, <1>3, <1>4 DEF ModeInv
<1> QED BY <1>6, <1>7 DEF ParseInv

\* A step that leaves the configuration alone altogether
LEMMA OtherKeepsParse ==
    ASSUME ParseInv, UNCHANGED <<call, scan, modeConfig, config, sizeOptions>>
    PROVE  ParseInv'
<1>1. config \in Configs
  BY DEF ParseInv, ConfigOK
<1> QED BY <1>1, FieldKeepsParse

-----------------------------------------------------------------------------
(* The command line: the theorems.                                         *)

LEMMA ParseInitInv == ParseAssumption /\ ParseInit => ParseInv
<1> SUFFICES ASSUME ParseAssumption, ParseInit
             PROVE  ParseInv
  OBVIOUS
<1>1. config = NewConfig
  BY DEF ParseInit
<1>2. <<0, 0>> \in [1 .. 2 -> Dims] /\ <<1, 30>> \in Seq(Int)
  BY DEF Dims
<1>3. NewConfig \in Configs
  BY <1>2 DEF NewConfig, Configs, Formats, NoMode
<1>4. <<Garbage, Garbage>> \in [1 .. 2 -> Lengths \cup {Garbage}]
  OBVIOUS
<1>5. ConfigOK
  BY <1>1, <1>3, <1>4 DEF ParseInit, ConfigOK
<1>6. SizesInv
  BY DEF ParseInit, SizesInv, ReadSoFar
<1>7. ModeInv
  BY <1>1 DEF ParseInit, NewConfig, ModeInv, Opens, NoMode
<1> QED BY <1>5, <1>6, <1>7 DEF ParseInv

LEMMA AddKeepsParse == ParseAssumption /\ ParseInv /\ Add => ParseInv'
<1> SUFFICES ASSUME ParseAssumption, ParseInv, Add
             PROVE  ParseInv'
  OBVIOUS
<1>1. CASE \E s \in Streams, text \in Sizes : SizeOption(s, text)
  BY <1>1, SizeKeepsParse
<1>2. CASE \E s \in Streams, name \in {"jpeg", "raw16"} : FormatOption(s, name)
  BY <1>2, FormatKeepsParse
<1>3. CASE \E lo, hi \in Rates \cup {Garbage} : FpsOption(lo, hi)
  <2>1. Rates \cup {Garbage} \subseteq Int
    BY DEF ParseAssumption, Garbage
  <2> QED BY <1>3, <2>1, FpsKeepsParse
<1>4. CASE \E value \in {0, 1} : ZslOption(value)
  <2>1. PICK value \in {0, 1} : Set("add", "zsl", config.zsl /\ value # 0)
    BY <1>4 DEF ZslOption
  <2>2. (config.zsl /\ value # 0) \in BOOLEAN
    OBVIOUS
  <2> QED BY <2>1, <2>2, SwitchKeepsParse
<1>5. CASE \E field \in {"bitrate", "targetBitrate"}, value \in Megabits :
             RateOption(field, value)
  <2>1. PICK field \in {"bitrate", "targetBitrate"}, value \in Megabits :
             Set("add", field, value % 4096)
    BY <1>5 DEF RateOption
  <2>2. value % 4096 \in Int
    BY DEF ParseAssumption
  <2> QED BY <2>1, <2>2, NumberKeepsParse
<1>6. CASE \E value \in {0, 1} : FlagOption(value)
  <2>1. PICK value \in {0, 1} : FlagOption(value)
    BY <1>6
  <2>2. CASE Set("add", "constantRate", config.constantRate \/ value = 1)
    BY <2>2, SwitchKeepsParse
  <2>3. CASE Set("add", "altek", value > 0)
    <3>1. (value > 0) \in BOOLEAN
      OBVIOUS
    <3> QED BY <2>3, <3>1, SwitchKeepsParse
  <2>4. CASE \E field \in {"h265", "shots", "id"} : Set("add", field, value)
    BY <2>4, NumberKeepsParse
  <2> QED BY <2>1, <2>2, <2>3, <2>4 DEF FlagOption
<1>7. CASE IgnoredOption("add")
  BY <1>7, IgnoredKeepsParse
<1>8. CASE FinishAdd
  BY <1>8, FinishKeepsParse
<1> QED BY <1>1, <1>2, <1>3, <1>4, <1>5, <1>6, <1>7, <1>8 DEF Add

LEMMA OthersKeepParse == ParseInv /\ (Change \/ MetaDump \/ MetaUpdate) => ParseInv'
<1> SUFFICES ASSUME ParseInv, Change \/ MetaDump \/ MetaUpdate
             PROVE  ParseInv'
  OBVIOUS
<1>1. CASE \E parser \in {"change", "dump", "update"} : Return(parser)
  BY <1>1, CallKeepsParse
<1>2. CASE \E parser \in {"change", "dump", "update"} : IgnoredOption(parser)
  BY <1>2, IgnoredKeepsParse
<1>3. CASE \E id \in {0, 1} : Set("change", "id", id)
  BY <1>3, NumberKeepsParse
<1>4. CASE \E value \in {0, 1} : Set("dump", "showFps", value)
  BY <1>4, NumberKeepsParse
<1>5. CASE \E k \in Flags, value \in {0, 1} : WatchOption(k, value)
  BY <1>5, OtherKeepsParse DEF WatchOption, Pair
<1>6. CASE \E values : Update(values)
  BY <1>6, OtherKeepsParse DEF Update, Pair
<1>7. Change => \/ \E id \in {0, 1} : Set("change", "id", id)
                \/ IgnoredOption("change") \/ Return("change")
  BY DEF Change
<1>8. MetaDump => \/ \E k \in Flags, value \in {0, 1} : WatchOption(k, value)
                  \/ \E value \in {0, 1} : Set("dump", "showFps", value)
                  \/ IgnoredOption("dump") \/ Return("dump")
  BY DEF MetaDump
<1>9. MetaUpdate => \/ \E values : Update(values)
                    \/ IgnoredOption("update") \/ Return("update")
  <2>1. ASSUME NEW ms, ManualExposure(ms) PROVE \E values : Update(values)
    BY <2>1 DEF ManualExposure
  <2>2. ASSUME NEW iso, ManualIso(iso) PROVE \E values : Update(values)
    BY <2>2 DEF ManualIso
  <2>3. ASSUME NEW iso, ManualSensitivity(iso) PROVE \E values : Update(values)
    BY <2>3 DEF ManualSensitivity
  <2>4. ASSUME NEW value, ExposureMetering(value) PROVE \E values : Update(values)
    BY <2>4 DEF ExposureMetering
  <2> QED BY <2>1, <2>2, <2>3, <2>4 DEF MetaUpdate
<1> QED BY <1>1, <1>2, <1>3, <1>4, <1>5, <1>6, <1>7, <1>8, <1>9

LEMMA ParseStep == ParseAssumption /\ ParseInv /\ [ParseNext]_parseVars => ParseInv'
<1> SUFFICES ASSUME ParseAssumption, ParseInv, [ParseNext]_parseVars
             PROVE  ParseInv'
  OBVIOUS
<1>1. CASE \E parser \in {"add", "change", "dump", "update"} : Call(parser)
  BY <1>1, CallKeepsParse
<1>2. CASE UNCHANGED parseVars
  BY <1>2, OtherKeepsParse DEF parseVars
<1> QED BY <1>1, <1>2, AddKeepsParse, OthersKeepParse DEF ParseNext

\* The inductive invariant of the command line: an Add that is being read has
\* no mode yet, and what it has read of the sizes is what it was given.
THEOREM ParseInvariant == ParseSpec => []ParseInv
<1>1. ParseInit => ParseInv
  BY ParseAssumption, ParseInitInv
<1>2. ParseInv /\ [ParseNext]_parseVars => ParseInv'
  BY ParseAssumption, ParseStep
<1> QED BY <1>1, <1>2, PTL DEF ParseSpec

\* A camera opens no stream without a size option, and the lengths of a stream
\* are those that were read when its last one was, however the options of all
\* streams follow each other and whatever parts of a size they leave out.
THEOREM StreamsStaySized == ParseSpec => []StreamsAreSized
<1>1. ParseInv => StreamsAreSized
  BY DEF ParseInv, ModeInv, SizesInv, StreamsAreSized
<1> QED BY <1>1, ParseInvariant, PTL

-----------------------------------------------------------------------------
(* The files of the logs: every step keeps the invariant.                  *)

\* Only the first stderr log to close its file gets that far without a fault:
\* the one that closes it again is another one.
LEMMA CloseKeepsStderr ==
    ASSUME FileInv, logFault = "none", NEW l \in Logs, type[l] = "file", Close(l),
           UNCHANGED redirected
    PROVE  /\ stderrOpen' \in BOOLEAN /\ logFault' \in {"none", "closedTwice"}
           /\ l \in redirected
           /\ logFault' = "closedTwice" => redirected = Logs
<1>1. l \in redirected /\ redirected \subseteq Logs
  BY DEF FileInv, CloseInv, FileOK
<1>2. stderrOpen' \in BOOLEAN /\ logFault' \in {"none", "closedTwice"}
  BY DEF FileInv, FileOK, Close
<1>3. ASSUME logFault' = "closedTwice" PROVE redirected = Logs
  <2>1. file[l] = "stderr" /\ ~stderrOpen
    BY <1>3 DEF Close
  <2>2. PICK k \in redirected : ClosedBy(k)
    BY <2>1 DEF FileInv, CloseInv
  <2>3. k # l
    BY <2>1, <2>2 DEF ClosedBy
  <2> QED BY <1>1, <2>2, <2>3 DEF Logs
<1> QED BY <1>1, <1>2, <1>3

LEMMA SetPathKeepsFiles ==
    ASSUME FileInv, logFault = "none", NEW l \in Logs, NEW target, SetPath(l, target)
    PROVE  FileInv'
<1> USE DEF FileInv, FileOK, Logs
<1>1. FileOK'
  <2>1. type' \in [Logs -> {"ALOGE", "std", "file", "deleted"}]
    BY DEF SetPath
  <2>2. (isNew[l] \/ target # path[l]) \in BOOLEAN
    OBVIOUS
  <2>3. isNew' \in [Logs -> BOOLEAN]
    BY ZenonT(60), <2>2 DEF SetPath
  <2>4. redirected' \subseteq Logs /\ UNCHANGED <<file, stderrOpen, logFault>>
    BY DEF SetPath
  <2> QED BY <2>1, <2>3, <2>4
<1>2. /\ redirected \subseteq redirected' /\ UNCHANGED <<file, stderrOpen, logFault>>
      /\ \A k \in Logs : type'[k] = "deleted" <=> type[k] = "deleted"
  BY DEF SetPath
<1>3. \A k \in Logs : type'[k] = "file" => k \in redirected'
  BY DEF SetPath, CloseInv
<1>4. ~stderrOpen' => \E k \in redirected' : ClosedBy(k)'
  BY <1>2 DEF CloseInv, ClosedBy
<1>5. CloseInv'
  BY <1>3, <1>4 DEF CloseInv
<1>6. ClosedOnce'
  BY <1>2 DEF ClosedOnce
<1> QED BY <1>1, <1>5, <1>6

LEMMA PrintKeepsFiles ==
    ASSUME FileInv, logFault = "none", NEW l \in Logs, PrintToFile(l)
    PROVE  FileInv'
<1>1. type[l] = "file" /\ UNCHANGED <<type, redirected>> /\ FileOK
  BY DEF PrintToFile, FileInv
<1>2. CASE UNCHANGED <<isNew, file, stderrOpen>> /\ logFault' \in {logFault, "printToNull"}
  BY <1>1, <1>2 DEF FileInv, FileOK, CloseInv, ClosedBy, ClosedOnce
<1>3. CASE /\ Close(l)
           /\ isNew' = [isNew EXCEPT ![l] = FALSE]
           /\ file' = [file EXCEPT ![l] = "own"]
  <2>1. /\ stderrOpen' \in BOOLEAN /\ logFault' \in {"none", "closedTwice"}
        /\ l \in redirected
        /\ logFault' = "closedTwice" => redirected = Logs
    BY <1>1, <1>3, CloseKeepsStderr
  <2>2. FileOK'
    BY <1>1, <1>3, <2>1 DEF FileOK
  <2>3. ClosedBy(l)'
    BY <1>1, <1>3 DEF ClosedBy, FileOK
  <2>4. CloseInv' /\ ClosedOnce'
    BY <1>1, <2>1, <2>3 DEF FileInv, CloseInv, ClosedOnce
  <2> QED BY <2>2, <2>4 DEF FileInv
<1> QED BY <1>2, <1>3 DEF PrintToFile

LEMMA DeleteKeepsFiles ==
    ASSUME FileInv, logFault = "none", NEW l \in Logs, DeleteLog(l)
    PROVE  FileInv'
<1>1. /\ type' = [type EXCEPT ![l] = "deleted"]
      /\ UNCHANGED <<isNew, file, redirected>> /\ FileOK
  BY DEF DeleteLog, FileInv
<1>2. CASE type[l] = "file" /\ Close(l)
  <2>1. /\ stderrOpen' \in BOOLEAN /\ logFault' \in {"none", "closedTwice"}
        /\ l \in redirected
        /\ logFault' = "closedTwice" => redirected = Logs
    BY <1>1, <1>2, CloseKeepsStderr
  <2>2. FileOK'
    BY <1>1, <2>1 DEF FileOK
  <2>3. ClosedBy(l)' /\ \A k \in Logs : type'[k] = "file" => type[k] = "file"
    BY <1>1 DEF ClosedBy, FileOK
  <2>4. CloseInv' /\ ClosedOnce'
    BY <1>1, <2>1, <2>3 DEF FileInv, CloseInv, ClosedOnce
  <2> QED BY <2>2, <2>4 DEF FileInv
<1>3. CASE UNCHANGED <<stderrOpen, logFault>>
  <2>1. FileOK'
    BY <1>1, <1>3 DEF FileOK
  <2>2. \A k \in Logs : /\ type'[k] = "file" => type[k] = "file"
                        /\ ClosedBy(k) => ClosedBy(k)'
    BY <1>1 DEF ClosedBy, FileOK
  <2>3. redirected \subseteq Logs
    BY <1>1 DEF FileOK
  <2>4. CloseInv' /\ ClosedOnce'
    BY <1>1, <1>3, <2>2, <2>3 DEF FileInv, CloseInv, ClosedOnce
  <2> QED BY <2>1, <2>4 DEF FileInv
<1> QED BY <1>2, <1>3 DEF DeleteLog

LEMMA StillKeepsFiles ==
    ASSUME FileInv, UNCHANGED fileVars
    PROVE  FileInv'
BY DEF FileInv, FileOK, CloseInv, ClosedBy, ClosedOnce, fileVars

-----------------------------------------------------------------------------
(* The metadata: every result keeps the invariant.                         *)

\* A number is a multiple of m, and the rest of the division, apart.
LEMMA DivideBy ==
    ASSUME NEW m \in Int, m > 0, NEW x \in Int
    PROVE  x = m * (x \div m) + (x % m) /\ x % m \in Int /\ x \div m \in Int
<1>1. x = m * (x \div m) + (x % m)
  OBVIOUS
<1>2. x % m \in Int /\ x \div m \in Int
  OBVIOUS
<1> QED BY <1>1, <1>2

\* A multiple of m has no rest.
LEMMA MultipleHasNoRest ==
    ASSUME NEW m \in Int, m > 0, NEW q \in Int
    PROVE  (m * q) % m = 0
OBVIOUS

LEMMA RestOfSum ==
    ASSUME NEW m \in Int, m > 0, NEW x \in Int, NEW q \in Int, x % m = 0
    PROVE  (x + m * q) % m = 0
<1>1. x = m * (x \div m) /\ x \div m \in Int
  BY DivideBy
<1> DEFINE d == x \div m
<1> HIDE DEF d
<1>2. x = m * d /\ d \in Int
  BY <1>1 DEF d
<1>3. m * d + m * q = m * (d + q)
  BY <1>2
<1>4. x + m * q = m * (d + q) /\ d + q \in Int
  BY <1>2, <1>3
<1>5. (m * (d + q)) % m = 0
  BY <1>4, MultipleHasNoRest
<1> QED BY <1>4, <1>5

\* What an int keeps of a value differs from it by a multiple of 2 * IntRange.
LEMMA StoredTells ==
    ASSUME LogAssumption, NEW k, NEW v \in Int, NEW w \in Int, Tells(k, w, v)
    PROVE  Stored(k, v) \in Int /\ Tells(k, w, Stored(k, v))
<1> DEFINE m == 2 * IntRange
           x == v + IntRange
           q == x \div m
           r == x % m
<1>1. m \in Int /\ m > 0 /\ IntRange \in Int /\ x \in Int
  BY DEF LogAssumption
<1>2. CASE k = "exposure"
  <2>1. Stored(k, v) = r - IntRange /\ (w - v) % m = 0
    BY <1>2 DEF Stored, Tells
  <2>2. x = v + IntRange
    OBVIOUS
  <2> HIDE DEF m, x
  <2>3. x = m * q + r /\ r \in Int /\ q \in Int
    BY <1>1, DivideBy
  <2> HIDE DEF q, r
  <2>4. m * q \in Int
    BY <1>1, <2>3
  <2>5. Stored(k, v) = v - m * q /\ Stored(k, v) \in Int
    BY <1>1, <2>1, <2>2, <2>3, <2>4
  <2>6. w - Stored(k, v) = (w - v) + m * q /\ w - v \in Int
    BY <2>4, <2>5
  <2>7. ((w - v) + m * q) % m = 0
    BY <1>1, <2>1, <2>3, <2>6, RestOfSum
  <2>8. (w - Stored(k, v)) % m = 0
    BY <2>6, <2>7
  <2> QED BY <1>2, <2>5, <2>8 DEF Tells, m
<1>3. CASE k # "exposure"
  BY <1>3 DEF Stored, Tells
<1> QED BY <1>2, <1>3

\* What an int keeps of a value is kept whole.
LEMMA StoredTwice ==
    ASSUME LogAssumption, NEW k, NEW v \in Int
    PROVE  Stored(k, Stored(k, v)) = Stored(k, v)
<1> DEFINE m == 2 * IntRange
           r == (v + IntRange) % m
<1>1. m \in Int /\ m > 0 /\ IntRange \in Int /\ v + IntRange \in Int
  BY DEF LogAssumption
<1>2. CASE k = "exposure"
  <2>1. Stored(k, v) = r - IntRange
    BY <1>2 DEF Stored
  <2>2. r \in 0 .. m - 1
    <3> HIDE DEF m
    <3> QED BY <1>1
  <2> HIDE DEF r
  <2>3. (r - IntRange) + IntRange = r
    BY <1>1, <2>2
  <2>4. Stored(k, r - IntRange) = (r % m) - IntRange
    BY <1>2, <2>3 DEF Stored
  <2> HIDE DEF m
  <2>5. r % m = r
    BY <1>1, <2>2
  <2> QED BY <2>1, <2>4, <2>5
<1>3. CASE k # "exposure"
  BY <1>3 DEF Stored
<1> QED BY <1>2, <1>3

\* What LastLineIsCurrent says about a line that named w and the value v
Current(k, w, v) ==
    (k \in DOMAIN Named => v \in Named[k]) /\ ~(k = "afMode" /\ v = ContinuousVideo)
        => Tells(k, w, v)

\* A value that is new is named by the line about it, if there is one.
LEMMA NewIsSaid ==
    ASSUME LogAssumption, NEW k, NEW v \in Int, NEW w,
           LinesFor(k, v) > 0 => w = SaidFor(k, v)
    PROVE  Current(k, w, v)
<1> SUFFICES ASSUME k \in DOMAIN Named => v \in Named[k],
                    ~(k = "afMode" /\ v = ContinuousVideo)
             PROVE  Tells(k, w, v)
  BY DEF Current
<1>1. LinesFor(k, v) = 1 /\ SaidFor(k, v) = v
  BY DEF LinesFor, SaidFor
<1>2. w = v
  BY <1>1
<1>3. 2 * IntRange > 0 /\ 2 * IntRange \in Int
  BY DEF LogAssumption
<1>4. (v - v) % (2 * IntRange) = 0
  <2>1. v - v = 0
    OBVIOUS
  <2> DEFINE m == 2 * IntRange
  <2> HIDE DEF m
  <2>2. m > 0 /\ m \in Int
    BY <1>3 DEF m
  <2>3. 0 % m = 0
    BY <2>2
  <2> QED BY <2>1, <2>3 DEF m
<1> QED BY <1>2, <1>4 DEF Tells

\* A value that is what mMetaStat keeps of the one before is told by the line
\* about the one before.
LEMMA OldIsSaid ==
    ASSUME LogAssumption, NEW k, NEW v \in Int, NEW w \in Int, Current(k, w, v)
    PROVE  Current(k, w, Stored(k, v))
<1>1. CASE k = "exposure"
  <2>1. k \notin DOMAIN Named /\ k # "afMode"
    BY <1>1 DEF Named
  <2> QED BY <2>1, StoredTells DEF Current
<1>2. CASE k # "exposure"
  BY <1>2 DEF Stored
<1> QED BY <1>1, <1>2

\* A value that is not new is the one mMetaStat keeps.
LEMMA NotNewIsStat ==
    ASSUME NEW k, NEW result, ~New(k, result), k \in OnlyIfPresent => result[k] # Absent
    PROVE  Seen(k, result) = stat[k]
<1>1. CASE k = "sceneMode"
  <2>1. k \notin OnlyIfPresent
    BY <1>1 DEF OnlyIfPresent
  <2>2. ~NewScene(k, result)
    BY <1>1, <2>1 DEF New
  <2> QED BY <2>2 DEF NewScene, Seen
<1>2. CASE k # "sceneMode" /\ k \in OnlyIfPresent
  BY <1>2 DEF New, NewIfPresent, Seen
<1>3. CASE k # "sceneMode" /\ k \notin OnlyIfPresent
  BY <1>3 DEF New, NewOrZero, Seen
<1> QED BY <1>1, <1>2, <1>3

\* A kind that is compared only when the result has it is not new without it.
LEMMA NotComparedIsOld ==
    ASSUME NEW k \in OnlyIfPresent, NEW result, result[k] = Absent
    PROVE  ~New(k, result)
<1>1. k # "sceneMode"
  BY DEF OnlyIfPresent
<1> QED BY <1>1 DEF New, NewIfPresent

\* One kind of a result that is handled
LEMMA HandleKeepsKind ==
    ASSUME LogAssumption, MetaInv, NEW result \in Results, HandleMetaData(result),
           NEW k \in Handled
    PROVE  /\ stat'[k] = Stored(k, last'[k])
           /\ Current(k, said'[k], last'[k])
<1> DEFINE v == Seen(k, result)
<1>1. k \in Kinds /\ MetaOK
  BY DEF Handled, MetaInv, MetaOK
<1>2. last[k] \in Int /\ said[k] \in Int /\ v \in Int
  <2>1. last[k] \in Values \cup {0} /\ result[k] \in Values \cup {Absent}
    BY <1>1 DEF MetaOK, Results
  <2>2. Values \subseteq Int /\ said[k] \in Int
    BY <1>1 DEF MetaOK, LogAssumption
  <2>3. last[k] \in Int
    <3>1. \A x \in Values \cup {0} : x \in Int
      BY <2>2
    <3> QED BY ZenonT(20), <2>1, <3>1
  <2>4. result[k] = Absent \/ result[k] \in Int
    BY <2>1, <2>2
  <2>6. v \in Int
    BY <2>4 DEF Seen
  <2> QED BY <2>2, <2>3, <2>6
<1>3. stat[k] = Stored(k, last[k]) /\ Current(k, said[k], last[k])
  BY DEF MetaInv, StatInv, LastLineIsCurrent, Current
<1>4. /\ stat'[k] = IF New(k, result) THEN Stored(k, v) ELSE stat[k]
      /\ last'[k] = IF k \in OnlyIfPresent => result[k] # Absent THEN Seen(k, result) ELSE last[k]
      /\ said'[k] = IF New(k, result) /\ LinesFor(k, v) > 0 THEN SaidFor(k, v) ELSE said[k]
  BY <1>1 DEF HandleMetaData, Remember, Say
<1>5. CASE k \in OnlyIfPresent /\ result[k] = Absent
  BY <1>3, <1>4, <1>5, NotComparedIsOld
<1>6. CASE k \in OnlyIfPresent => result[k] # Absent
  <2>1. last'[k] = v
    BY <1>4, <1>6 DEF Seen
  <2> HIDE DEF v
  <2>2. CASE New(k, result)
    <3>1. LinesFor(k, v) > 0 => said'[k] = SaidFor(k, v)
      BY <1>4, <2>2
    <3>2. Current(k, said'[k], v)
      BY <1>2, <3>1, NewIsSaid
    <3> QED BY <1>4, <2>1, <2>2, <3>2
  <2>3. CASE ~New(k, result)
    <3>1. v = Stored(k, last[k]) /\ stat'[k] = v /\ said'[k] = said[k]
      BY <1>3, <1>4, <1>6, <2>3, NotNewIsStat DEF v
    <3>2. Stored(k, v) = v
      BY <1>2, <3>1, StoredTwice
    <3>3. Current(k, said[k], v)
      BY <1>2, <1>3, <3>1, OldIsSaid
    <3> QED BY <2>1, <3>1, <3>2, <3>3
  <2> QED BY <2>2, <2>3
<1> QED BY <1>5, <1>6

LEMMA HandleKeepsMeta ==
    ASSUME LogAssumption, MetaInv, NEW result \in Results, HandleMetaData(result)
    PROVE  MetaInv'
<1>1. MetaOK /\ UNCHANGED <<camera, watched>> /\ Handled' = Handled
  BY DEF MetaInv, HandleMetaData, Handled
<1>2. \A k \in Kinds : /\ result[k] \in Values \cup {Absent}
                       /\ Seen(k, result) \in Int
  <2> SUFFICES ASSUME NEW k \in Kinds
               PROVE  result[k] \in Values \cup {Absent} /\ Seen(k, result) \in Int
    OBVIOUS
  <2>1. result[k] \in Values \cup {Absent} /\ Values \subseteq Int
    BY DEF Results, LogAssumption
  <2>2. result[k] = Absent \/ result[k] \in Int
    BY <2>1
  <2> QED BY <2>1, <2>2 DEF Seen
<1>3. \A k \in Kinds : /\ SaidFor(k, Seen(k, result)) \in Int
                       /\ Stored(k, Seen(k, result)) \in Int
  <2> SUFFICES ASSUME NEW k \in Kinds, NEW v \in Int
               PROVE  SaidFor(k, v) \in Int /\ Stored(k, v) \in Int
    BY <1>2
  <2>1. SaidFor(k, v) \in Int
    BY DEF SaidFor, ContinuousPicture
  <2>2. CASE k = "exposure"
    <3> DEFINE m == 2 * IntRange
    <3>1. m \in Int /\ m > 0 /\ IntRange \in Int
      BY DEF LogAssumption
    <3>2. Stored(k, v) = ((v + IntRange) % m) - IntRange
      BY <2>2 DEF Stored
    <3> HIDE DEF m
    <3>3. (v + IntRange) % m \in Int
      BY <3>1
    <3> QED BY <2>1, <3>1, <3>2, <3>3
  <2>3. CASE k # "exposure"
    BY <2>1, <2>3 DEF Stored
  <2> QED BY <2>2, <2>3
<1>4. MetaOK'
  <2>1. stat' \in [Kinds -> Int]
    BY <1>1, <1>3 DEF MetaOK, HandleMetaData, Remember
  <2>2. said' \in [Kinds -> Int]
    BY <1>1, <1>3 DEF MetaOK, HandleMetaData, Say
  <2>3. last' \in [Kinds -> Values \cup {0}]
    <3>1. \A k \in Kinds : Seen(k, result) \in Values \cup {0}
      BY <1>2 DEF Seen
    <3> QED BY <1>1, <3>1 DEF MetaOK, HandleMetaData, Say
  <2> QED BY <1>1, <2>1, <2>2, <2>3 DEF MetaOK
<1>5. StatInv'
  BY <1>1, HandleKeepsKind DEF StatInv
<1>6. LastLineIsCurrent'
  <2>1. \A k \in Handled : Current(k, said'[k], last'[k])
    BY HandleKeepsKind
  <2> QED BY <1>1, <2>1 DEF LastLineIsCurrent, Current
<1> QED BY <1>4, <1>5, <1>6 DEF MetaInv

LEMMA OthersKeepMeta ==
    ASSUME MetaInv, UNCHANGED <<camera, watched, stat, last, said>>
    PROVE  MetaInv'
<1>1. MetaOK' /\ Handled' = Handled
  BY DEF MetaInv, MetaOK, Handled
<1>2. StatInv'
  BY <1>1 DEF MetaInv, StatInv
<1>3. LastLineIsCurrent'
  BY <1>1 DEF MetaInv, LastLineIsCurrent, Tells
<1> QED BY <1>1, <1>2, <1>3 DEF MetaInv

-----------------------------------------------------------------------------
(* The metadata log: the theorems.                                         *)

LEMMA LogInitInv == LogAssumption /\ LogInit => LogInv
<1> SUFFICES ASSUME LogAssumption, LogInit
             PROVE  LogInv
  OBVIOUS
<1>1. MetaOK
  BY DEF LogInit, LogAssumption, MetaOK
<1>2. \A k \in Handled : last[k] = 0 /\ stat[k] = 0 /\ said[k] = 0
  BY DEF LogInit, Handled, LogAssumption
<1>3. \A k \in Handled : Stored(k, 0) = 0 /\ Tells(k, 0, 0)
  <2> DEFINE m == 2 * IntRange
  <2>1. IntRange \in 0 .. m - 1 /\ m \in Int /\ m > 0 /\ IntRange \in Int
    BY DEF LogAssumption
  <2>2. ((0 + IntRange) % m) - IntRange = 0
    <3> HIDE DEF m
    <3>1. IntRange % m = IntRange /\ 0 + IntRange = IntRange
      BY <2>1
    <3> QED BY <2>1, <3>1
  <2>3. (0 - 0) % m = 0
    <3> HIDE DEF m
    <3> QED BY <2>1
  <2> QED BY <2>2, <2>3 DEF Stored, Tells
<1>4. StatInv
  BY <1>2, <1>3 DEF StatInv
<1>5. LastLineIsCurrent
  BY <1>2, <1>3 DEF LastLineIsCurrent
<1>6. FileInv
  BY DEF LogInit, FileInv, FileOK, CloseInv, ClosedOnce
<1> QED BY <1>1, <1>4, <1>5, <1>6 DEF LogInv, MetaInv

LEMMA LogStep == LogAssumption /\ LogInv /\ [LogNext]_logVars => LogInv'
<1> SUFFICES ASSUME LogAssumption, LogInv, [LogNext]_logVars
             PROVE  LogInv'
  OBVIOUS
<1>1. MetaInv /\ FileInv
  BY DEF LogInv
<1>2. ASSUME logFault = "none", NEW result \in Results, HandleMetaData(result)
      PROVE  LogInv'
  <2>1. MetaInv'
    BY <1>1, <1>2, HandleKeepsMeta
  <2>2. camera \in Logs
    BY <1>1 DEF MetaInv, MetaOK
  <2>3. PrintLine(camera) \/ UNCHANGED fileVars
    BY <1>2 DEF HandleMetaData
  <2>4. FileInv'
    BY <1>1, <1>2, <2>2, <2>3, PrintKeepsFiles, StillKeepsFiles DEF PrintLine
  <2> QED BY <2>1, <2>4 DEF LogInv
<1>3. ASSUME logFault = "none", NEW l \in Logs, UseLog(l)
      PROVE  LogInv'
  <2>1. MetaInv'
    BY <1>1, <1>3, OthersKeepMeta DEF UseLog, statVars
  <2>2. FileInv'
    BY <1>1, <1>3, PrintKeepsFiles, SetPathKeepsFiles, DeleteKeepsFiles DEF UseLog
  <2> QED BY <2>1, <2>2 DEF LogInv
<1>4. CASE UNCHANGED logVars
  <2>1. MetaInv'
    BY <1>1, <1>4, OthersKeepMeta DEF logVars, statVars
  <2>2. FileInv'
    BY <1>1, <1>4, StillKeepsFiles DEF logVars
  <2> QED BY <2>1, <2>2 DEF LogInv
<1> QED BY <1>2, <1>3, <1>4 DEF LogNext

\* The inductive invariant of the metadata log: mMetaStat is what an int keeps
\* of the last value, and whoever closed stderr has a file of its own or is gone.
THEOREM LogInvariant == LogSpec => []LogInv
<1>1. LogInit => LogInv
  BY LogAssumption, LogInitInv
<1>2. LogInv /\ [LogNext]_logVars => LogInv'
  BY LogAssumption, LogStep
<1> QED BY <1>1, <1>2, PTL DEF LogSpec

\* For any values and any results with missing entries: the last line about a
\* kind tells what the last result it was compared for held, a missing entry
\* being 0 unless the kind passes over it.
THEOREM LinesAreCurrent == LogSpec => []LastLineIsCurrent
<1>1. LogInv => LastLineIsCurrent
  BY DEF LogInv, MetaInv
<1> QED BY <1>1, LogInvariant, PTL

\* stderr is closed only by a log that was told to write to a file, and twice
\* only if both were.
THEOREM StderrClosedOnce == LogSpec => []ClosedOnce
<1>1. LogInv => ClosedOnce
  BY DEF LogInv, FileInv
<1> QED BY <1>1, LogInvariant, PTL

-----------------------------------------------------------------------------
(* The snapshot camera: every step keeps the invariant.                    *)

LEMMA OrderKeepsShot ==
    ASSUME ShotAssumption, ShotInv, NEW count \in Counts, Order(count)
    PROVE  ShotInv'
<1> USE DEF ShotInv, CountOK, ShotTypeOK, NonZslStableFrameCount
<1>1. count \in Nat /\ count > 0
  BY DEF ShotAssumption
<1>2. CountOK'
  <2>1. due' \in Nat /\ num' \in Nat /\ orders' \in Nat /\ ordered' \in Nat
    BY <1>1 DEF Order
  <2>2. overlap' \in BOOLEAN /\ caller' \in {"idle", "lock", "wait", "stop", "done"}
    BY DEF Order
  <2> QED BY <1>1, <2>1, <2>2 DEF Order
<1>3. CallerInv'
  BY <1>1 DEF CallerInv, Order
<1>4. DueInv'
  BY <1>1 DEF DueInv, CallerInv, Order, Rest, Uncounted, Unstable
<1>5. SignalInv'
  BY <1>1 DEF SignalInv, CallerInv, Order, Uncounted
<1> QED BY <1>2, <1>3, <1>4, <1>5

LEMMA CallerKeepsShot ==
    ASSUME ShotInv, Proceed \/ WokenForNothing,
           UNCHANGED <<zsl, num, callbackVars, orders, ordered, overlap>>
    PROVE  ShotInv'
<1> USE DEF ShotInv, CountOK, ShotTypeOK, Proceed, BeginWait, Woken, TimedOut, StopCamera,
            WokenForNothing, callbackVars
<1>1. CountOK'
  BY DEF CountOK
<1>2. CallerInv' /\ caller # "idle" /\ caller' # "idle"
  BY DEF CallerInv
<1>3. DueInv'
  BY <1>2 DEF DueInv, Rest, Uncounted, Unstable
<1>4. SignalInv'
  BY DEF SignalInv, Uncounted
<1> QED BY <1>1, <1>2, <1>3, <1>4

LEMMA SkipKeepsShot ==
    ASSUME ShotInv, caller # "done", SkipFrame,
           UNCHANGED <<zsl, caller, shotRes, spurious, orders, ordered, overlap>>
    PROVE  ShotInv'
<1> USE DEF ShotInv, CountOK, ShotTypeOK, SkipFrame, IsSkipped, NonZslStableFrameCount
<1>1. CountOK'
  BY DEF CountOK
<1>2. CallerInv'
  BY DEF CallerInv
<1>3. DueInv'
  BY DEF DueInv, CallerInv, Rest, Uncounted, Unstable
<1>4. SignalInv'
  BY DEF SignalInv, Uncounted
<1> QED BY <1>1, <1>2, <1>3, <1>4

LEMMA TakeKeepsShot ==
    ASSUME ShotInv, caller # "done", NEW valid \in BOOLEAN, TakeFrame(valid),
           UNCHANGED <<zsl, caller, shotRes, spurious, orders, ordered, overlap>>
    PROVE  ShotInv'
<1> USE DEF ShotInv, CountOK, ShotTypeOK, TakeFrame, IsSkipped, NonZslStableFrameCount
<1>1. CountOK'
  BY DEF CountOK
<1>2. CallerInv'
  BY DEF CallerInv
<1>3. DueInv'
  BY DEF DueInv, CallerInv, Rest, Uncounted, Unstable
<1>4. SignalInv'
  BY DEF SignalInv, Uncounted
<1> QED BY <1>1, <1>2, <1>3, <1>4

LEMMA CountKeepsShot ==
    ASSUME ShotInv, caller # "done", CountDown \/ SignalCaller,
           UNCHANGED <<zsl, caller, shotRes, spurious, orders, ordered, overlap>>
    PROVE  ShotInv'
<1> USE DEF ShotInv, CountOK, ShotTypeOK, CountDown, SignalCaller, IsLast
<1>1. CountOK'
  <2>1. woken' \in BOOLEAN
    OBVIOUS
  <2>2. num' \in Nat
    OBVIOUS
  <2> QED BY <2>1, <2>2
<1>2. CallerInv'
  BY DEF CallerInv
<1>3. DueInv'
  BY DEF DueInv, Rest, Uncounted, Unstable
<1>4. SignalInv'
  BY DEF SignalInv, CallerInv, Uncounted
<1> QED BY <1>1, <1>2, <1>3, <1>4

-----------------------------------------------------------------------------
(* The snapshot camera: the theorems.                                      *)

LEMMA ShotStep == ShotAssumption /\ ShotInv /\ [ShotNext]_shotVars => ShotInv'
<1> SUFFICES ASSUME ShotAssumption, ShotInv, [ShotNext]_shotVars
             PROVE  ShotInv'
  OBVIOUS
<1>1. CASE CapturePostProcess
  BY <1>1, SkipKeepsShot, TakeKeepsShot, CountKeepsShot DEF CapturePostProcess
<1>2. CASE UNCHANGED shotVars
  BY <1>2 DEF shotVars, callerVars, callbackVars, ShotInv, CountOK, ShotTypeOK, CallerInv,
              DueInv, SignalInv, Rest, Uncounted, Unstable
<1> QED BY <1>1, <1>2, OrderKeepsShot, CallerKeepsShot DEF ShotNext

\* The inductive invariant of the snapshot camera: the count the callback keeps
\* never falls below the pictures to come, and is exact without ZSL.
THEOREM ShotInvariant == ShotSpec => []ShotInv
<1>1. ShotInit => ShotInv
  <2> SUFFICES ASSUME ShotInit
               PROVE  ShotInv
    OBVIOUS
  <2> USE DEF ShotInit
  <2>1. CountOK
    <3>1. {num, due, frame, loaded, orders, ordered, written, invalid} \subseteq Nat
      OBVIOUS
    <3>2. zsl \in BOOLEAN /\ woken \in BOOLEAN /\ spurious \in BOOLEAN /\ overlap \in BOOLEAN
      OBVIOUS
    <3> QED BY <3>1, <3>2 DEF CountOK, ShotTypeOK
  <2>2. CallerInv /\ SignalInv
    BY DEF CallerInv, SignalInv, Uncounted
  <2>3. DueInv
    BY DEF DueInv, Rest, Uncounted, Unstable
  <2> QED BY <2>1, <2>2, <2>3 DEF ShotInv
<1>2. ShotInv /\ [ShotNext]_shotVars => ShotInv'
  BY ShotAssumption, ShotStep
<1> QED BY <1>1, <1>2, PTL DEF ShotSpec

\* For any number of orders of any size: without overlapping orders every
\* picture ordered is written, or was no valid JPEG, when all buffers are back.
THEOREM PicturesAreAccounted == ShotSpec => []PicturesAccounted
<1>1. ShotInv => PicturesAccounted
  <2> SUFFICES ASSUME ShotInv, due = 0, ~overlap
               PROVE  written + invalid = ordered
    BY DEF PicturesAccounted
  <2>1. Rest >= 0 /\ Unstable >= 0 /\ due = Rest + Unstable /\ Rest \in Int
    BY DEF ShotInv, DueInv, CountOK, ShotTypeOK, Rest, Unstable, NonZslStableFrameCount
  <2>2. Rest = 0
    BY <2>1 DEF Unstable, NonZslStableFrameCount, ShotInv, CountOK, ShotTypeOK
  <2> QED BY <2>2 DEF Rest, ShotInv, CountOK, ShotTypeOK
<1> QED BY <1>1, ShotInvariant, PTL

\* RequestCaptures of a non-ZSL camera reports success only when every picture
\* is written, unless its wait ended by itself.
THEOREM ReturnsAreHonest == ShotSpec => []ReturnIsHonest
<1>1. ShotInv => ReturnIsHonest
  BY DEF ReturnIsHonest, ShotInv, SignalInv, CountOK, ShotTypeOK, Uncounted
<1> QED BY <1>1, ShotInvariant, PTL
=============================================================================

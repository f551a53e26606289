---------------------------- MODULE MetadataLog ----------------------------
(***************************************************************************)
(* HandleMetaData of the preview and the snapshot camera, and the TestLog  *)
(* it prints to.  The handler runs in the HAL's callback for every result  *)
(* that carries metadata: for each flag of mMetaDump it compares the value *)
(* in the result with mMetaStat and prints a line when it is new.  The     *)
(* kinds are independent of each other, so a result is handled in one      *)
(* step; of the lines only the kinds and values are kept.                  *)
(*                                                                         *)
(* Every camera has a TestLog of its own, and both start on stderr.        *)
(***************************************************************************)
EXTENDS Integers, FiniteSets

CONSTANTS
    Kinds,      \* the kinds of metadata that are looked at
    Watched,    \* the sets of them an order may have chosen to watch
    Values,     \* the values the HAL may report
    IntRange,   \* an int holds -IntRange .. IntRange - 1
    Paths       \* the files a log may be told to write

Absent == -1    \* no entry, of no value the HAL reports
Logs == {"preview", "snapshot"}

\* Kinds that are compared only when the result has the entry; of all others a
\* missing entry counts as 0.
OnlyIfPresent == {"zslMode", "numFrames", "expMetering", "selPriority", "expPriority"}

\* The values that a switch statement has a line for
Named == [aeMode |-> {0, 1}, awbMode |-> {0, 1}, afMode |-> 0 .. 4, aeAntiMode |-> 0 .. 3,
          colorCorrectMode |-> 0 .. 2, controlMode |-> 0 .. 2]
ContinuousVideo == 3
ContinuousPicture == 4

ASSUME LogAssumption ==
    /\ Watched \subseteq SUBSET Kinds
    /\ Values \subseteq Nat /\ IntRange \in Nat \ {0} /\ "test1.log" \in Paths

VARIABLES
    camera,     \* the camera whose mMetaStat is followed
    watched,    \* the flags of its mMetaDump that are not 0
    stat,       \* mMetaStat
    last,       \* history: last[k] is the value of the last result k was compared
                \* for, 0 if it had no entry for k
    said,       \* history: said[k] is the value the last line about k named
    type,       \* type[l]: mType of log l, or "deleted"
    path,       \* path[l]: mPath
    isNew,      \* isNew[l]: mIsNewPath
    file,       \* file[l]: mFile is "stderr" or a file of its own
    stderrOpen, \* nobody closed stderr
    redirected, \* history: the logs that were told to write to a file
    logFault    \* the undefined behaviour that was reached, if any

statVars == <<stat, last, said>>
fileVars == <<type, path, isNew, file, stderrOpen, redirected, logFault>>
logVars == <<camera, watched, statVars, fileVars>>

LogInit ==
    /\ camera \in Logs /\ watched \in Watched
    /\ stat = [k \in Kinds |-> 0] /\ last = [k \in Kinds |-> 0] /\ said = [k \in Kinds |-> 0]
    /\ type = [l \in Logs |-> "ALOGE"] /\ path = [l \in Logs |-> "test1.log"]
    /\ isNew = [l \in Logs |-> TRUE] /\ file = [l \in Logs |-> "stderr"]
    /\ stderrOpen = TRUE /\ redirected = {} /\ logFault = "none"

-----------------------------------------------------------------------------
(* TestLog                                                                 *)

\* setPath: "std" and "ALOGE" leave the file as it is.
SetPath(l, target) ==
    /\ type[l] # "deleted"
    /\ IF target \in {"std", "ALOGE"}
       THEN type' = [type EXCEPT ![l] = target] /\ UNCHANGED <<path, isNew, redirected>>
       ELSE /\ type' = [type EXCEPT ![l] = "file"]
            /\ path' = [path EXCEPT ![l] = target]
            /\ isNew' = [isNew EXCEPT ![l] = @ \/ target # path[l]]
            /\ redirected' = redirected \cup {l}
    /\ UNCHANGED <<file, stderrOpen, logFault>>

\* fclose(mFile)
Close(l) ==
    IF file[l] = "stderr"
    THEN /\ stderrOpen' = FALSE
         /\ logFault' = IF stderrOpen THEN logFault ELSE "closedTwice"
    ELSE UNCHANGED <<stderrOpen, logFault>>

\* print of a log to a file: a new path is opened, and the old file closed,
\* whichever it was, before the line is written.
PrintToFile(l) ==
    /\ type[l] = "file"
    /\ \/ ~isNew[l] /\ UNCHANGED <<isNew, file, stderrOpen, logFault>>
       \/ /\ isNew[l] /\ Close(l)
          /\ isNew' = [isNew EXCEPT ![l] = FALSE]
          /\ file' = [file EXCEPT ![l] = "own"]
       \/ /\ isNew[l] /\ logFault' = "printToNull"   \* fopen returned NULL
          /\ UNCHANGED <<isNew, file, stderrOpen>>
    /\ UNCHANGED <<type, path, redirected>>

PrintLine(l) == IF type[l] = "file" THEN PrintToFile(l) ELSE UNCHANGED fileVars

\* Mutant: the destructor closes the file of any log.
DeleteLogAnyType(l) ==
    /\ type[l] # "deleted"
    /\ Close(l)
    /\ type' = [type EXCEPT ![l] = "deleted"]
    /\ UNCHANGED <<path, isNew, file, redirected>>

\* ~TestConfig deletes the log, which closes the file if it is a file log.
DeleteLog(l) ==
    /\ type[l] # "deleted"
    /\ IF type[l] = "file" THEN Close(l) ELSE UNCHANGED <<stderrOpen, logFault>>
    /\ type' = [type EXCEPT ![l] = "deleted"]
    /\ UNCHANGED <<path, isNew, file, redirected>>

-----------------------------------------------------------------------------
(* HandleMetaData                                                          *)

\* The jpeg quality is looked at by the snapshot camera only.
Handled == IF camera = "preview" THEN watched \ {"jpegquality"} ELSE watched

\* The value that is compared for kind k
Seen(k, result) == IF result[k] = Absent THEN 0 ELSE result[k]

\* The exposure time has 64 bits in the result and is an int in mMetaStat.
Stored(k, v) == IF k = "exposure" THEN ((v + IntRange) % (2 * IntRange)) - IntRange ELSE v

\* Mutant: a missing entry is compared as 0 for every kind.
NewIfMissing(k, result) == Seen(k, result) # stat[k] \/ (k = "sceneMode" /\ result[k] = Absent)

\* A kind that is compared only when the result has the entry
NewIfPresent(k, result) == result[k] # Absent /\ result[k] # stat[k]

\* A kind of which a missing entry counts as 0
NewOrZero(k, result) == Seen(k, result) # stat[k]

\* Without scene detection results the index at which the comparison stopped is
\* still 0, which counts as a difference.
NewScene(k, result) == result[k] = Absent \/ result[k] # stat[k]

\* Is the value new?
New(k, result) ==
    CASE k = "sceneMode"       -> NewScene(k, result)
      [] k \in OnlyIfPresent   -> NewIfPresent(k, result)
      [] OTHER                 -> NewOrZero(k, result)

\* The lines about a new value v: a switch prints none for a value it does not
\* name, and two for continuous video, whose case has no break.
LinesFor(k, v) ==
    IF k \notin DOMAIN Named THEN 1
    ELSE IF v \notin Named[k] THEN 0
    ELSE IF k = "afMode" /\ v = ContinuousVideo THEN 2 ELSE 1

\* The value the last of these lines names
SaidFor(k, v) == IF k = "afMode" /\ v = ContinuousVideo THEN ContinuousPicture ELSE v

\* mMetaStat keeps the new values.
Remember(new, result) ==
    stat' = [k \in Kinds |-> IF k \in new THEN Stored(k, Seen(k, result)) ELSE stat[k]]

\* What the lines of a result say, for the history
Say(printed, compared, result) ==
    /\ last' = [k \in Kinds |-> IF k \in compared THEN Seen(k, result) ELSE last[k]]
    /\ said' = [k \in Kinds |-> IF k \in printed THEN SaidFor(k, Seen(k, result)) ELSE said[k]]

\* A result with metadata is handled.
HandleMetaData(result) ==
    /\ type[camera] # "deleted"
    /\ LET new == {k \in Handled : New(k, result)}
           printed == {k \in new : LinesFor(k, Seen(k, result)) > 0}
           compared == {k \in Handled : k \in OnlyIfPresent => result[k] # Absent}
       IN /\ Remember(new, result) /\ Say(printed, compared, result)
          /\ IF printed # {} THEN PrintLine(camera) ELSE UNCHANGED fileVars
    /\ UNCHANGED <<camera, watched>>

-----------------------------------------------------------------------------

\* The results the HAL may deliver; what is not watched makes no difference.
Results == {r \in [Kinds -> Values \cup {Absent}] : \A k \in Kinds \ watched : r[k] = Absent}

\* The log of the other camera prints, or a log is redirected or deleted.
UseLog(l) ==
    /\ \/ l # camera /\ PrintToFile(l)
       \/ \E target \in Paths \cup {"std", "ALOGE"} : SetPath(l, target)
       \/ DeleteLog(l)
    /\ UNCHANGED <<camera, watched, statVars>>

\* Undefined behaviour ends the model.
LogNext ==
    /\ logFault = "none"
    /\ \/ \E result \in Results : HandleMetaData(result)
       \/ \E l \in Logs : UseLog(l)

-----------------------------------------------------------------------------
(* Properties.                                                             *)

\* The type of every variable of the logs.
LogTypeOK ==
    /\ camera \in Logs /\ watched \in Watched
    /\ stat \in [Kinds -> Int] /\ said \in [Kinds -> Int]
    /\ last \in [Kinds -> Values \cup {0}]
    /\ type \in [Logs -> {"ALOGE", "std", "file", "deleted"}] /\ path \in [Logs -> Paths]
    /\ isNew \in [Logs -> BOOLEAN] /\ file \in [Logs -> {"stderr", "own"}]
    /\ stderrOpen \in BOOLEAN /\ redirected \subseteq Logs
    /\ logFault \in {"none", "closedTwice", "printToNull"}

\* Does a line that named w still tell the value v of kind k?  The exposure time
\* is compared with what an int kept of the last one, so one that fits into an
\* int gets no line after one that differs from it by a multiple of 2^32 ns.
Tells(k, w, v) == IF k = "exposure" THEN (w - v) % (2 * IntRange) = 0 ELSE w = v

\* The last line about a watched kind tells what the last result held of it,
\* however values, missing entries and values without a line follow each other.
\* A result without an entry holds 0: the log tells that 0 as if the HAL had
\* reported it, and tells the value again that comes after it.  For the kinds of
\* OnlyIfPresent such a result is passed over, and the line before stays current.
\* Not so for a value without a line, and for continuous video, which the log
\* calls continuous picture.
LastLineIsCurrent ==
    \A k \in Handled :
        LET hasLine == k \in DOMAIN Named => last[k] \in Named[k]
            miscalled == k = "afMode" /\ last[k] = ContinuousVideo
        IN hasLine /\ ~miscalled => Tells(k, said[k], last[k])

\* Only a log that is told to write to a file closes stderr, and a stream is
\* closed twice only if both cameras' logs were told so: the first line of a
\* file log closes the file before, which is the stderr both logs began with.
ClosedOnce ==
    /\ ~stderrOpen => redirected # {}
    /\ logFault = "closedTwice" => redirected = Logs
=============================================================================

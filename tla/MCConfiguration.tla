-------------------------- MODULE MCConfiguration --------------------------
(***************************************************************************)
(* The components that serve an order outside the frame path, for TLC: the *)
(* command line, the metadata log and the snapshot camera's pictures.      *)
(* They share no state, so every behaviour runs one part and leaves the    *)
(* others in a state that does not move; the command line is cut into      *)
(* "add", which parses one Add, and "parse", which calls the other parsers *)
(* on the configuration an Add without options leaves.                     *)
(***************************************************************************)
EXTENDS CommandLine, MetadataLog, SnapshotCapture

MCWatched == {{}} \cup {{k} : k \in Kinds}

VARIABLE part   \* the part of this behaviour

vars == <<part, parseVars, logVars, shotVars>>

\* The state a part that does not run stays in
LogOff == camera = "preview" /\ watched = {}
ShotOff == zsl = TRUE

Init ==
    /\ ParseInit /\ LogInit /\ ShotInit
    /\ \/ part \in {"add", "parse"} /\ LogOff /\ ShotOff
       \/ part = "log" /\ ShotOff
       \/ part = "shot" /\ LogOff

Next ==
    \/ /\ part = "add" /\ (Call("add") \/ Add)
       /\ UNCHANGED <<part, logVars, shotVars>>
    \/ /\ part = "parse"
       /\ \/ \E parser \in {"add", "change", "dump", "update"} : Call(parser)
          \/ FinishAdd \/ Change \/ MetaDump \/ MetaUpdate
       /\ UNCHANGED <<part, logVars, shotVars>>
    \/ /\ part = "log" /\ LogNext
       /\ UNCHANGED <<part, parseVars, shotVars>>
    \/ /\ part = "shot" /\ ShotNext
       /\ UNCHANGED <<part, parseVars, logVars>>

Spec == Init /\ [][Next]_vars /\ ShotFairness

TypeOK == ParseTypeOK /\ LogTypeOK /\ ShotTypeOK
=============================================================================

--------------------------- MODULE EncoderSetup ---------------------------
(***************************************************************************)
(* QCameraOMX_Encoder::setConfig, called by the constructor of the test    *)
(* encoder, which ignores what it returns: a chain of calls into the OMX   *)
(* component, a buffer header allocated at a time, and the command to go   *)
(* to Idle.  VideoEncoder begins where this ends.                          *)
(*                                                                         *)
(* Of the parameters only the number of buffers is kept.  The build sets   *)
(* DISABLE_META_MODE, so enableMetaMode is not called; a codec other than  *)
(* AVC and HEVC cannot be configured.                                      *)
(***************************************************************************)
EXTENDS Naturals, Sequences

CONSTANTS
    BufCount,   \* input_buf_cnt and output_buf_cnt
    Minima      \* numbers of buffers the component may ask for at least

ASSUME SetupAssumption == BufCount \in Nat \ {0} /\ Minima \subseteq Nat \ {0}

Ports == {"in", "out"}

VARIABLES
    ready,      \* m_IsInit
    pos,        \* the next of Calls, "alloc" or "returned"
    asked,      \* asked[p]: nBufferCountMin of the component's port, 0 if not read
    count,      \* count[p]: m_nInputBufferCount and m_nOutputBufferCount
    headers,    \* headers[p]: headers allocated
    idleSent,   \* the command to go to Idle was accepted
    result,     \* what setConfig returned: "none" is OMX_ErrorNone
    reason      \* history: why it returned early

setupVars == <<ready, pos, asked, count, headers, idleSent, result, reason>>

\* The calls in their order.  An error of a "fatal" one is returned, that of a
\* "silent" one ends setConfig with the last call's success, and that of a
\* "logged" one is forgotten.  The calls of a port are those of SetPortParams.
Calls == << <<"GetHandle", "fatal">>, <<"CheckColorFormatSupported", "silent">>,
            <<"GetCodec", "fatal">>, <<"SetCodec", "fatal">>,
            <<"GetFramerate", "logged">>, <<"SetFramerate", "fatal">>,
            <<"GetColorAspects", "fatal">>, <<"SetColorAspects", "fatal">>,
            <<"GetBitrate", "fatal">>, <<"SetBitrate", "fatal">>,
            <<"GetPort", "fatal", "in">>, <<"SetSize", "fatal", "in">>,
            <<"SetCount", "fatal", "in">>, <<"GetCount", "fatal", "in">>,
            <<"GetPort", "fatal", "out">>, <<"SetSize", "fatal", "out">>,
            <<"SetCount", "fatal", "out">>, <<"GetCount", "fatal", "out">>,
            <<"malloc", "silent">> >>

Step(n) == [at |-> "call", n |-> n]
At(where_) == [at |-> where_, n |-> 0]

\* The constructor: OMX_Init succeeds or not.
SetupInit ==
    /\ ready \in BOOLEAN /\ pos = Step(1)
    /\ asked = [p \in Ports |-> 0]
    /\ count = [p \in Ports |-> 0] /\ headers = [p \in Ports |-> 0]
    /\ idleSent = FALSE /\ result = "none" /\ reason = "none"

\* setConfig returns before its end.
ReturnEarly(res_, why) ==
    /\ pos' = At("returned") /\ result' = res_ /\ reason' = why
    /\ UNCHANGED <<ready, asked, count, headers, idleSent>>

NotInitialised == pos = Step(1) /\ ~ready /\ ReturnEarly("none", "OMX_Init")

\* The call at pos
NextCall == Calls[pos.n]
NextPos == IF pos.n < Len(Calls) THEN Step(pos.n + 1) ELSE At("alloc")

CallFails ==
    /\ pos.at = "call" /\ ready
    /\ CASE NextCall[2] = "fatal"  -> ReturnEarly("error", NextCall[1])
         [] NextCall[2] = "silent" -> ReturnEarly("none", NextCall[1])
         [] NextCall[2] = "logged" -> /\ pos' = NextPos
                                  /\ UNCHANGED <<ready, asked, count, headers, idleSent,
                                                 result, reason>>

\* nBufferCountActual: input_buf_cnt, or what the component asked for if more
CountFor(p) == IF BufCount < asked[p] THEN asked[p] ELSE BufCount

\* The call succeeds.  SetPortParams reads what a port needs, sets its size and
\* then the number of buffers, which the component may raise.
CallSucceeds ==
    /\ pos.at = "call" /\ ready /\ pos' = NextPos
    /\ asked' \in IF NextCall[1] = "GetPort" THEN {[asked EXCEPT ![NextCall[3]] = m] : m \in Minima}
                                         ELSE {asked}
    /\ count' \in IF NextCall[1] = "GetCount"
                  THEN {[count EXCEPT ![NextCall[3]] = CountFor(NextCall[3]) + m] : m \in {0, 1}}
                  ELSE {count}
    /\ UNCHANGED <<ready, headers, idleSent, result, reason>>

\* Mutant: as many headers are allocated for the input as for the output.
NextPortMixed == IF headers["in"] < count["out"] THEN "in" ELSE "out"

\* The input headers are allocated first.
NextPort == IF headers["in"] < count["in"] THEN "in" ELSE "out"

\* OMX_AllocateBuffer of one header; those that were allocated stay when it fails.
AllocateBuffer ==
    /\ pos = At("alloc") /\ headers[NextPort] < count[NextPort]
    /\ \/ /\ headers' = [headers EXCEPT ![NextPort] = @ + 1]
          /\ UNCHANGED <<ready, pos, asked, count, idleSent, result, reason>>
       \/ ReturnEarly("error", "AllocateBuffer")

\* OMX_SendCommand: its error is only logged.
SendIdleCommand ==
    /\ pos = At("alloc") /\ headers[NextPort] = count[NextPort]
    /\ pos' = At("returned") /\ idleSent' \in BOOLEAN
    /\ reason' = IF idleSent' THEN "none" ELSE "SendCommand"
    /\ UNCHANGED <<ready, asked, count, headers, result>>

SetConfig ==
    NotInitialised \/ CallFails \/ CallSucceeds \/ AllocateBuffer \/ SendIdleCommand

-----------------------------------------------------------------------------
(* Properties.                                                             *)

\* The type of every variable of the set-up.
SetupTypeOK ==
    /\ ready \in BOOLEAN /\ idleSent \in BOOLEAN /\ result \in {"none", "error"}
    /\ pos \in {Step(n) : n \in DOMAIN Calls} \cup {At("alloc"), At("returned")}
    /\ asked \in [Ports -> {0} \cup Minima]
    /\ \A p \in Ports : count[p] \in Nat /\ headers[p] \in 0 .. count[p]

\* The component is told to go to Idle only when every header of both ports that
\* start() will enqueue is allocated, and when setConfig returns no error the
\* encoder is prepared, or one of four things went wrong that its caller cannot
\* see: OMX_Init, the colour format, the memory for the headers, or the command.
SetupIsHonest ==
    /\ idleSent => \A p \in Ports : headers[p] = count[p] /\ count[p] >= BufCount
    /\ pos = At("returned") /\ result = "none" =>
         idleSent \/ reason \in {"OMX_Init", "CheckColorFormatSupported", "malloc", "SendCommand"}
=============================================================================

---------------------------- MODULE SetupProofs ----------------------------
(***************************************************************************)
(* Proofs about EncoderSetup for any number of buffers and any minima of   *)
(* the component, and about TofCalibration for any EEPROM that             *)
(* TofAssumption admits.                                                   *)
(***************************************************************************)
EXTENDS EncoderSetup, TofCalibration, TLAPS

-----------------------------------------------------------------------------
(* The set-up of the encoder.                                              *)

SetupSpec == SetupInit /\ [][SetConfig]_setupVars

LastCall == 19

SetupTypes ==
    /\ ready \in BOOLEAN /\ idleSent \in BOOLEAN
    /\ pos \in [at : {"call", "alloc", "returned"}, n : 0 .. LastCall]
    /\ pos.at = "call" <=> pos.n # 0
    /\ asked \in [Ports -> Nat] /\ count \in [Ports -> Nat] /\ headers \in [Ports -> Nat]

\* A port's number of buffers is known from its GetCount on, the 14th call for
\* the input and the 18th for the output, and is not below what was asked for.
EnoughBuffers ==
    /\ pos.n > 14 \/ pos.at = "alloc" \/ idleSent => count["in"] >= BufCount
    /\ pos.n > 18 \/ pos.at = "alloc" \/ idleSent => count["out"] >= BufCount

\* Headers are allocated after the calls and up to the number of buffers, and all
\* of them before the command.
HeadersInv ==
    /\ \A p \in Ports : headers[p] <= count[p]
    /\ pos.at = "call" => \A p \in Ports : headers[p] = 0
    /\ idleSent => \A p \in Ports : headers[p] = count[p]

\* An early return has its reason.
ReturnInv ==
    /\ pos.at # "returned" => result = "none" /\ ~idleSent
    /\ pos.at = "returned" /\ result = "none" =>
         idleSent \/ reason \in {"OMX_Init", "CheckColorFormatSupported", "malloc", "SendCommand"}

SetupInv == SetupTypes /\ EnoughBuffers /\ HeadersInv /\ ReturnInv

\* What the calls are, of which two read a number of buffers and two that fail
\* are not reported.
LEMMA TheCalls ==
    /\ Len(Calls) = LastCall
    /\ Calls[14] = <<"GetCount", "fatal", "in">> /\ Calls[18] = <<"GetCount", "fatal", "out">>
    /\ \A n \in 1 .. LastCall :
          /\ Calls[n][1] = "GetCount" => n \in {14, 18}
          /\ Calls[n][2] \in {"fatal", "silent", "logged"}
          /\ Calls[n][2] = "silent" => Calls[n][1] \in {"CheckColorFormatSupported", "malloc"}
<1>1. Len(Calls) = LastCall
  BY DEF Calls, LastCall
<1>2. Calls[14] = <<"GetCount", "fatal", "in">> /\ Calls[18] = <<"GetCount", "fatal", "out">>
  BY DEF Calls
<1>3. ASSUME NEW n \in 1 .. LastCall
      PROVE  /\ Calls[n][1] = "GetCount" => n \in {14, 18}
             /\ Calls[n][2] \in {"fatal", "silent", "logged"}
             /\ Calls[n][2] = "silent" => Calls[n][1] \in {"CheckColorFormatSupported", "malloc"}
  <2>1. n \in 1 .. 6 \/ n \in 7 .. 13 \/ n \in 14 .. 19
    BY DEF LastCall
  <2>2. CASE n \in 1 .. 6
    BY <2>2 DEF Calls
  <2>3. CASE n \in 7 .. 13
    BY <2>3 DEF Calls
  <2>4. CASE n \in 14 .. 19
    BY <2>4 DEF Calls
  <2> QED
    BY <2>1, <2>2, <2>3, <2>4
<1> QED
  BY <1>1, <1>2, <1>3

\* Before the first call nothing is allocated.
LEMMA SetupBegins == SetupInit => SetupInv
<1> SUFFICES ASSUME SetupInit PROVE SetupInv
  OBVIOUS
<1>1. pos = [at |-> "call", n |-> 1] /\ ~idleSent
  BY DEF SetupInit, Step
<1>2. SetupTypes
  <2>1. /\ pos \in [at : {"call", "alloc", "returned"}, n : 0 .. LastCall]
        /\ pos.at = "call" /\ pos.n # 0
    BY <1>1 DEF LastCall
  <2>2. asked \in [Ports -> Nat] /\ count \in [Ports -> Nat] /\ headers \in [Ports -> Nat]
    BY DEF SetupInit
  <2> QED
    BY <2>1, <2>2 DEF SetupInit, SetupTypes
<1>3. EnoughBuffers
  BY <1>1 DEF EnoughBuffers
<1>4. HeadersInv /\ ReturnInv
  BY <1>1 DEF SetupInit, HeadersInv, ReturnInv
<1> QED
  BY <1>2, <1>3, <1>4 DEF SetupInv

\* An early return changes nothing else.
LEMMA SetupReturns ==
    ASSUME SetupInv, NEW res \in {"none", "error"}, NEW why, ReturnEarly(res, why),
           res = "none" =>
             why \in {"OMX_Init", "CheckColorFormatSupported", "malloc", "SendCommand"},
           ~idleSent
    PROVE  SetupInv'
<1>1. /\ pos' = [at |-> "returned", n |-> 0] /\ result' = res /\ reason' = why
      /\ UNCHANGED <<ready, asked, count, headers, idleSent>>
  BY DEF ReturnEarly, At
<1>2. SetupTypes'
  BY <1>1 DEF SetupInv, SetupTypes, LastCall
<1>3. EnoughBuffers'
  BY <1>1 DEF EnoughBuffers
<1>4. HeadersInv'
  BY <1>1 DEF SetupInv, HeadersInv
<1>5. ReturnInv'
  BY <1>1 DEF ReturnInv
<1> QED
  BY <1>2, <1>3, <1>4, <1>5 DEF SetupInv

\* The step after a call.
LEMMA Advances ==
    ASSUME SetupInv, pos.at = "call", pos' = NextPos
    PROVE  /\ pos.n \in 1 .. LastCall /\ pos'.at \in {"call", "alloc"}
           /\ pos' \in [at : {"call", "alloc", "returned"}, n : 0 .. LastCall]
           /\ (pos'.at = "call" => pos'.n = pos.n + 1)
           /\ (pos'.at = "alloc" => pos.n = LastCall /\ pos'.n = 0)
           /\ NextCall = Calls[pos.n]
<1>1. pos.n \in 1 .. LastCall
  BY DEF SetupInv, SetupTypes, LastCall
<1>2. CASE pos.n < LastCall
  <2>1. pos' = [at |-> "call", n |-> pos.n + 1]
    BY <1>2, TheCalls DEF NextPos, Step
  <2> QED
    BY <1>1, <1>2, <2>1 DEF NextCall, LastCall
<1>3. CASE ~(pos.n < LastCall)
  <2>1. pos' = [at |-> "alloc", n |-> 0]
    BY <1>3, TheCalls DEF NextPos, At
  <2> QED
    BY <1>1, <1>3, <2>1 DEF NextCall, LastCall
<1> QED
  BY <1>2, <1>3

\* A call fails.
LEMMA SetupCallFails == SetupInv /\ CallFails => SetupInv'
<1> SUFFICES ASSUME SetupInv, CallFails PROVE SetupInv'
  OBVIOUS
<1>1. pos.at = "call" /\ ~idleSent
  BY DEF CallFails, SetupInv, ReturnInv
<1>2. pos.n \in 1 .. LastCall /\ NextCall = Calls[pos.n]
  BY <1>1 DEF SetupInv, SetupTypes, LastCall, NextCall
<1>3. NextCall[2] \in {"fatal", "silent", "logged"}
  BY <1>2, TheCalls
<1>4. CASE NextCall[2] = "fatal"
  <2>1. ReturnEarly("error", NextCall[1])
    BY <1>4 DEF CallFails
  <2> QED
    BY <1>1, <2>1, SetupReturns
<1>5. CASE NextCall[2] = "silent"
  <2>1. ReturnEarly("none", NextCall[1])
    BY <1>5 DEF CallFails
  <2>2. NextCall[1] \in {"CheckColorFormatSupported", "malloc"}
    BY <1>2, <1>5, TheCalls
  <2> QED
    BY <1>1, <2>1, <2>2, SetupReturns
<1>6. CASE NextCall[2] = "logged"
  <2>1. pos' = NextPos /\ UNCHANGED <<ready, asked, count, headers, idleSent, result, reason>>
    BY <1>6 DEF CallFails
  <2>2. pos.n \notin {14, 18, 19}
    BY <1>2, <1>6, TheCalls DEF Calls
  <2>3. /\ pos'.at \in {"call", "alloc"} /\ (pos'.at = "call" => pos'.n = pos.n + 1)
        /\ (pos'.at = "alloc" => pos.n = LastCall /\ pos'.n = 0)
        /\ pos' \in [at : {"call", "alloc", "returned"}, n : 0 .. LastCall]
    BY <1>1, <2>1, Advances
  <2>4. pos'.at = "call"
    BY <2>2, <2>3 DEF LastCall
  <2>5. SetupTypes'
    BY <1>2, <2>1, <2>3, <2>4 DEF SetupInv, SetupTypes
  <2>6. EnoughBuffers'
    BY <1>1, <1>2, <2>1, <2>2, <2>3, <2>4 DEF SetupInv, EnoughBuffers
  <2>7. HeadersInv' /\ ReturnInv'
    BY <1>1, <2>1, <2>4 DEF SetupInv, HeadersInv, ReturnInv
  <2> QED
    BY <2>5, <2>6, <2>7 DEF SetupInv
<1> QED
  BY <1>3, <1>4, <1>5, <1>6

\* A call succeeds; the 14th and the 18th read a port's number of buffers.
LEMMA SetupCallSucceeds == SetupInv /\ CallSucceeds => SetupInv'
<1> SUFFICES ASSUME SetupInv, CallSucceeds PROVE SetupInv'
  OBVIOUS
<1>1. /\ pos.at = "call" /\ pos' = NextPos /\ ~idleSent
      /\ UNCHANGED <<ready, headers, idleSent, result, reason>>
  BY DEF CallSucceeds, SetupInv, ReturnInv
<1>2. /\ pos.n \in 1 .. LastCall /\ NextCall = Calls[pos.n]
      /\ pos'.at \in {"call", "alloc"} /\ (pos'.at = "call" => pos'.n = pos.n + 1)
      /\ (pos'.at = "alloc" => pos.n = LastCall /\ pos'.n = 0)
      /\ pos' \in [at : {"call", "alloc", "returned"}, n : 0 .. LastCall]
  BY <1>1, Advances
<1>3. asked' \in [Ports -> Nat]
  <2>1. \/ asked' = asked
        \/ \E m \in Minima : asked' = [asked EXCEPT ![NextCall[3]] = m]
    BY DEF CallSucceeds
  <2> QED
    BY <2>1, SetupAssumption DEF SetupInv, SetupTypes
<1>4. ASSUME NEW p \in Ports PROVE CountFor(p) \in Nat /\ CountFor(p) >= BufCount
  BY SetupAssumption DEF CountFor, SetupInv, SetupTypes
<1>5. /\ count' \in [Ports -> Nat]
      /\ pos.n \notin {14, 18} => count' = count
      /\ pos.n = 14 => count'["in"] >= BufCount
      /\ pos.n = 18 => count'["out"] >= BufCount /\ count'["in"] = count["in"]
  <2>1. CASE pos.n \notin {14, 18}
    <3>1. count' = count
      BY <1>2, <2>1, TheCalls DEF CallSucceeds
    <3> QED
      BY <2>1, <3>1 DEF SetupInv, SetupTypes
  <2>2. CASE pos.n = 14
    <3>1. NextCall[1] = "GetCount" /\ NextCall[3] = "in"
      BY <1>2, <2>2, TheCalls
    <3>2. PICK m \in {0, 1} : count' = [count EXCEPT !["in"] = CountFor("in") + m]
      BY <3>1 DEF CallSucceeds
    <3>3. CountFor("in") + m \in Nat /\ CountFor("in") + m >= BufCount
      BY <1>4, SetupAssumption DEF Ports
    <3> QED
      BY <2>2, <3>2, <3>3 DEF SetupInv, SetupTypes, Ports
  <2>3. CASE pos.n = 18
    <3>1. NextCall[1] = "GetCount" /\ NextCall[3] = "out"
      BY <1>2, <2>3, TheCalls
    <3>2. PICK m \in {0, 1} : count' = [count EXCEPT !["out"] = CountFor("out") + m]
      BY <3>1 DEF CallSucceeds
    <3>3. CountFor("out") + m \in Nat /\ CountFor("out") + m >= BufCount
      BY <1>4, SetupAssumption DEF Ports
    <3> QED
      BY <2>3, <3>2, <3>3 DEF SetupInv, SetupTypes, Ports
  <2> QED
    BY <2>1, <2>2, <2>3
<1>6. SetupTypes'
  BY <1>1, <1>2, <1>3, <1>5 DEF SetupInv, SetupTypes, LastCall
<1>7. EnoughBuffers'
  <2>1. pos.n > 14 => count["in"] >= BufCount
    BY DEF SetupInv, EnoughBuffers
  <2>2. pos.n > 18 => count["out"] >= BufCount
    BY DEF SetupInv, EnoughBuffers
  <2>3. (pos'.n > 14 => pos.n >= 14) /\ (pos'.n > 18 => pos.n >= 18)
        /\ (pos'.at = "alloc" => pos.n = 19)
    BY <1>2 DEF LastCall
  <2>4. pos.n >= 14 => count'["in"] >= BufCount
    BY <1>2, <1>5, <2>1
  <2>5. pos.n >= 18 => count'["out"] >= BufCount
    BY <1>2, <1>5, <2>2
  <2> QED
    BY <1>1, <1>2, <2>3, <2>4, <2>5 DEF EnoughBuffers
<1>8. HeadersInv'
  <2>1. \A p \in Ports : headers'[p] = 0 /\ count'[p] \in Nat
    BY <1>1, <1>5 DEF SetupInv, HeadersInv
  <2> QED
    BY <1>1, <2>1 DEF HeadersInv
<1>9. ReturnInv'
  BY <1>1, <1>2 DEF SetupInv, ReturnInv
<1> QED
  BY <1>6, <1>7, <1>8, <1>9 DEF SetupInv

\* A header is allocated, or none is left to be and the command is sent.
LEMMA SetupAllocates == SetupInv /\ (AllocateBuffer \/ SendIdleCommand) => SetupInv'
<1> SUFFICES ASSUME SetupInv, AllocateBuffer \/ SendIdleCommand PROVE SetupInv'
  OBVIOUS
<1>1. pos = [at |-> "alloc", n |-> 0] /\ ~idleSent
  BY DEF AllocateBuffer, SendIdleCommand, At, SetupInv, ReturnInv
<1>2. NextPort \in Ports
  BY DEF NextPort, Ports
<1>3. CASE AllocateBuffer /\ ReturnEarly("error", "AllocateBuffer")
  BY <1>1, <1>3, SetupReturns
<1>4. CASE AllocateBuffer /\ ~ReturnEarly("error", "AllocateBuffer")
  <2>1. /\ headers[NextPort] < count[NextPort]
        /\ headers' = [headers EXCEPT ![NextPort] = @ + 1]
        /\ UNCHANGED <<ready, pos, asked, count, idleSent, result, reason>>
    BY <1>4 DEF AllocateBuffer
  <2>2. SetupTypes'
    BY <1>2, <2>1 DEF SetupInv, SetupTypes
  <2>3. EnoughBuffers' /\ ReturnInv'
    BY <2>1 DEF SetupInv, EnoughBuffers, ReturnInv
  <2>4. \A p \in Ports : headers'[p] <= count'[p]
    BY <1>2, <2>1 DEF SetupInv, SetupTypes, HeadersInv
  <2>5. HeadersInv'
    BY <1>1, <2>1, <2>4 DEF HeadersInv
  <2> QED
    BY <2>2, <2>3, <2>5 DEF SetupInv
<1>5. CASE SendIdleCommand
  <2>1. /\ headers[NextPort] = count[NextPort] /\ pos' = [at |-> "returned", n |-> 0]
        /\ idleSent' \in BOOLEAN /\ (~idleSent' => reason' = "SendCommand")
        /\ UNCHANGED <<ready, asked, count, headers, result>>
    BY <1>5 DEF SendIdleCommand, At
  <2>2. headers["in"] = count["in"] /\ headers["out"] = count["out"]
    <3>1. /\ headers["in"] \in Nat /\ count["in"] \in Nat /\ headers["in"] <= count["in"]
      BY DEF SetupInv, SetupTypes, HeadersInv, Ports
    <3> QED
      BY <2>1, <3>1 DEF NextPort
  <2>3. SetupTypes'
    BY <2>1 DEF SetupInv, SetupTypes, LastCall
  <2>4. EnoughBuffers'
    BY <1>1, <2>1 DEF SetupInv, EnoughBuffers
  <2>5. HeadersInv'
    BY <2>1, <2>2 DEF SetupInv, HeadersInv, Ports
  <2>6. ReturnInv'
    BY <2>1 DEF ReturnInv
  <2> QED
    BY <2>3, <2>4, <2>5, <2>6 DEF SetupInv
<1> QED
  BY <1>3, <1>4, <1>5

\* The inductive invariant of the set-up.
THEOREM SetupInvariant == SetupSpec => []SetupInv
<1>1. SetupInv /\ [SetConfig]_setupVars => SetupInv'
  <2> SUFFICES ASSUME SetupInv, [SetConfig]_setupVars PROVE SetupInv'
    OBVIOUS
  <2>1. CASE NotInitialised
    <3>1. ReturnEarly("none", "OMX_Init") /\ ~idleSent
      BY <2>1 DEF NotInitialised, Step, SetupInv, ReturnInv
    <3> QED
      BY <3>1, SetupReturns
  <2>2. CASE UNCHANGED setupVars
    BY <2>2 DEF setupVars, SetupInv, SetupTypes, EnoughBuffers, HeadersInv, ReturnInv
  <2> QED
    BY <2>1, <2>2, SetupCallFails, SetupCallSucceeds, SetupAllocates DEF SetConfig
<1> QED
  BY SetupBegins, <1>1, PTL DEF SetupSpec

\* The component is told to go to Idle only with every header of both ports, and
\* an early return without an error has one of four reasons.
THEOREM SetupStaysHonest == SetupSpec => []SetupIsHonest
<1>1. SetupInv => SetupIsHonest
  <2> SUFFICES ASSUME SetupInv PROVE SetupIsHonest
    OBVIOUS
  <2>1. idleSent => \A p \in Ports : headers[p] = count[p] /\ count[p] >= BufCount
    BY DEF SetupInv, HeadersInv, EnoughBuffers, Ports
  <2>2. pos = At("returned") => pos.at = "returned"
    BY DEF At
  <2> QED
    BY <2>1, <2>2 DEF SetupInv, ReturnInv, SetupIsHonest
<1> QED
  BY <1>1, SetupInvariant, PTL

-----------------------------------------------------------------------------
(* The exposure of the TOF sensor.                                         *)

TofSpec == TofInit /\ [][TofNext]_tofVars

TofTypes ==
    /\ step \in {"load", "init", "afe", "exp", "transmit", "done"}
    /\ eeprom \in EepromType /\ exp_val \in Uint16
    /\ temp \in [idle_delay : Uint16, ini_ofst_delay : Uint16, exp_hd : Int]
    /\ DOMAIN p_exp = {"long_val", "short_val", "lms_val", "read_size2", "ccd_dummy",
                       "chkr_start_v", "idle", "ini_ofst"}

\* What is sent is what was computed last, and before the exposure is computed
\* nothing is.
SentInv == IF step = "done" THEN sent \subseteq {p_exp} ELSE sent = {}

\* When no call has failed the exposure passed every check, and the times are
\* those that follow from it.
TimesInv ==
    step \in {"transmit", "done"} /\ failures = {} =>
        /\ Fits /\ temp.exp_hd = ExposureLines
        /\ p_exp["read_size2"] =
             (temp.ini_ofst_delay + ExposureLines + READ_SIZE_OFFSET + temp.idle_delay) % Word
        /\ p_exp["ccd_dummy"] = (DummyLines - temp.idle_delay) % Word
        /\ p_exp["chkr_start_v"] = (ExposureLines + START_V_OFFSET) % Word

TofInv == TofTypes /\ SentInv /\ TimesInv

\* What has 16 bits, and the offsets
LEMMA Widths ==
    /\ Word \in Nat /\ 1000 < Word /\ Uint16 = 0 .. Word - 1
    /\ READ_SIZE_OFFSET = 7 /\ START_V_OFFSET = 750
BY DEF Word, Uint16, READ_SIZE_OFFSET, START_V_OFFSET

\* What fits into 16 bits does not wrap around.
LEMMA Fitting ==
    ASSUME NEW x \in Int, 0 <= x, x < Word
    PROVE  x % Word = x
BY Widths

\* The fields of an EEPROM have 16 bits.
LEMMA Fields ==
    ASSUME NEW e \in EepromType
    PROVE  /\ {e.vd_duration, e.vd_ini_ofst, e.afe_idle_val, e.exp_default, e.exp_max, e.num_clk_in_hd,
               e.ld_pls_duty, e.tof_seq_ini_ofst, e.beta_num, e.tof_emt_period_ofst,
               e.num_hd_in_readout} \subseteq Uint16
           /\ e.pls_num \in Nat
<1>1. e.pls_num \in 0 .. 10 * (Word - 1)
  BY DEF EepromType
<1>2. e.pls_num \in Nat
  BY <1>1, Widths
<1> QED
  BY <1>2 DEF EepromType

\* A number of clocks takes no negative number of lines.
LEMMA LinesNat ==
    ASSUME NEW c \in Nat, NEW n \in Nat \ {0}
    PROVE  (c + n - 1) \div n \in Nat
OBVIOUS

\* A product of natural numbers is one.
LEMMA ProductNat ==
    ASSUME NEW a \in Nat, NEW b \in Nat
    PROVE  a * b \in Nat
OBVIOUS

\* The clocks of an exposure are a number.
LEMMA ClocksInt == TofTypes => Clocks \in Int
<1> SUFFICES ASSUME TofTypes PROVE Clocks \in Int
  OBVIOUS
<1>1. /\ eeprom.tof_seq_ini_ofst \in Nat /\ eeprom.ld_pls_duty \in Nat /\ eeprom.pls_num \in Nat
      /\ exp_val \in Nat
  BY Fields, Widths DEF TofTypes
<1>2. exp_val * eeprom.ld_pls_duty \in Nat /\ 2 * eeprom.pls_num * exp_val \in Nat
  BY <1>1, ProductNat
<1>3. (2 * eeprom.pls_num * exp_val + 40) \div 80 \in Int
  BY <1>2
<1> QED
  BY <1>1, <1>2, <1>3 DEF Clocks, ClocksOf, PulseClocks

\* An exposure whose lines can be computed takes no negative number of them.
LEMMA ExposureNat == TofTypes /\ HasLines => ExposureLines \in Nat
<1> SUFFICES ASSUME TofTypes, HasLines PROVE ExposureLines \in Nat
  OBVIOUS
<1>1. /\ eeprom.num_clk_in_hd \in Nat \ {0} /\ eeprom.beta_num \in Nat
      /\ eeprom.tof_emt_period_ofst \in Nat /\ Clocks \in Nat
  <2>1. eeprom \in EepromType /\ eeprom.num_clk_in_hd # 0 /\ Clocks \in Int /\ Clocks >= 0
    BY ClocksInt DEF TofTypes, HasLines
  <2> QED
    BY <2>1, Fields, Widths
<1>2. Lines(Clocks) \in Nat
  BY <1>1, LinesNat DEF Lines
<1>3. 3 * Lines(Clocks) * eeprom.beta_num \in Nat
  BY <1>1, <1>2, ProductNat
<1> QED
  BY <1>1, <1>3 DEF ExposureLines

\* Delays that the sensor has registers for keep their width.
LEMMA DelaysAreWords == TofTypes => IdleDelay \in Uint16 /\ IniOfstDelay \in Uint16
<1> SUFFICES ASSUME TofTypes PROVE IdleDelay \in Uint16 /\ IniOfstDelay \in Uint16
  OBVIOUS
<1>1. eeprom.afe_idle_val \in Uint16 /\ eeprom.vd_ini_ofst \in Uint16
  BY Fields DEF TofTypes
<1>2. ((eeprom.afe_idle_val + 2) % Word) \in Uint16 /\ 0 \in Uint16
  BY <1>1, Widths
<1> QED
  BY <1>1, <1>2 DEF IdleDelay, IniOfstDelay

\* Before the first call nothing is computed or sent.
LEMMA TofBegins == TofInit => TofInv
<1> SUFFICES ASSUME TofInit PROVE TofInv
  OBVIOUS
<1>1. eeprom \in EepromType /\ exp_val \in Uint16
  BY TofAssumption DEF TofInit, EepromType
<1>2. temp \in [idle_delay : Uint16, ini_ofst_delay : Uint16, exp_hd : Int]
  BY DEF TofInit, Uint16, Word
<1> QED
  BY <1>1, <1>2 DEF TofInit, TofInv, TofTypes, SentInv, TimesInv

\* The exposure is computed from the EEPROM and the delays, which stay.
LEMMA TofComputes == TofInv /\ TofCalExp => TofInv'
<1> SUFFICES ASSUME TofInv, TofCalExp PROVE TofInv'
  OBVIOUS
<1>1. /\ step = "exp" /\ step' = "transmit" /\ UNCHANGED <<eeprom, exp_val, sent>>
      /\ temp' = IF HasLines THEN [temp EXCEPT !.exp_hd = ExposureLines] ELSE temp
  BY DEF TofCalExp
<1>2. /\ temp' \in [idle_delay : Uint16, ini_ofst_delay : Uint16, exp_hd : Int]
      /\ temp'.idle_delay = temp.idle_delay /\ temp'.ini_ofst_delay = temp.ini_ofst_delay
      /\ HasLines => temp'.exp_hd = ExposureLines
  BY <1>1, ExposureNat DEF TofInv, TofTypes
<1>3. DOMAIN p_exp' = DOMAIN p_exp
  BY DEF TofCalExp, Assigned
<1>4. TofTypes'
  BY <1>1, <1>2, <1>3 DEF TofInv, TofTypes
<1>5. SentInv'
  BY <1>1 DEF TofInv, SentInv
<1>6. /\ Clocks' = Clocks /\ ExposureLines' = ExposureLines /\ (HasLines' <=> HasLines)
      /\ DummyLines' = DummyLines
  BY <1>1, <1>2
     DEF Clocks, ClocksOf, PulseClocks, ExposureLines, Lines, HasLines, DummyLines
<1>7. Fits' <=> Fits
  BY <1>6 DEF Fits
<1>8. TimesInv'
  <2> SUFFICES ASSUME failures' = {} PROVE TimesInv'
    BY DEF TimesInv
  <2>1. Fits /\ HasLines
    BY DEF TofCalExp, Fits
  <2>2. p_exp' = [f \in DOMAIN p_exp |->
                     IF f \in DOMAIN Exposure THEN Exposure[f]
                     ELSE Timing(ExposureLines, DummyLines)[f]]
    BY <2>1 DEF TofCalExp
  <2>3. /\ p_exp'["read_size2"] = Timing(ExposureLines, DummyLines)["read_size2"]
        /\ p_exp'["ccd_dummy"] = Timing(ExposureLines, DummyLines)["ccd_dummy"]
        /\ p_exp'["chkr_start_v"] = Timing(ExposureLines, DummyLines)["chkr_start_v"]
    BY <2>2 DEF Exposure, TofInv, TofTypes
  <2>4. /\ Timing(ExposureLines, DummyLines)["read_size2"] =
             (temp.ini_ofst_delay + ExposureLines + READ_SIZE_OFFSET + temp.idle_delay) % Word
        /\ Timing(ExposureLines, DummyLines)["ccd_dummy"] = (DummyLines - temp.idle_delay) % Word
        /\ Timing(ExposureLines, DummyLines)["chkr_start_v"] =
             (ExposureLines + START_V_OFFSET) % Word
    BY DEF Timing
  <2> QED
    BY <1>2, <1>6, <1>7, <2>1, <2>3, <2>4 DEF TimesInv
<1> QED
  BY <1>4, <1>5, <1>8 DEF TofInv

\* The other calls come before it, or after it and change nothing but what is sent.
LEMMA TofStep == TofInv /\ [TofNext]_tofVars => TofInv'
<1> SUFFICES ASSUME TofInv, [TofNext]_tofVars PROVE TofInv'
  OBVIOUS
<1> USE DEF TofInv
<1>1. CASE TofLoadEeprom \/ TofInitStruct
  <2>1. /\ step \in {"load", "init"} /\ step' \in {"init", "afe"}
        /\ UNCHANGED <<eeprom, exp_val, p_exp, sent>>
        /\ temp' = temp \/ temp' = [idle_delay |-> 0, ini_ofst_delay |-> 0, exp_hd |-> 0]
    BY <1>1 DEF TofLoadEeprom, TofInitStruct
  <2>2. temp' \in [idle_delay : Uint16, ini_ofst_delay : Uint16, exp_hd : Int]
    BY <2>1, Widths DEF TofTypes
  <2> QED
    BY <2>1, <2>2 DEF TofTypes, SentInv, TimesInv
<1>2. CASE TofAfeCalculate
  <2>1. /\ step = "afe" /\ step' = "exp" /\ UNCHANGED <<eeprom, p_exp, sent>>
        /\ \/ temp' = temp
           \/ temp' = [temp EXCEPT !.idle_delay = IdleDelay, !.ini_ofst_delay = IniOfstDelay]
        /\ exp_val' \in {exp_val, eeprom.exp_default, eeprom.exp_max}
    BY <1>2 DEF TofAfeCalculate
  <2>2. temp' \in [idle_delay : Uint16, ini_ofst_delay : Uint16, exp_hd : Int]
    BY <2>1, DelaysAreWords DEF TofTypes
  <2>3. exp_val' \in Uint16
    BY <2>1 DEF TofTypes, EepromType
  <2> QED
    BY <2>1, <2>2, <2>3 DEF TofTypes, SentInv, TimesInv
<1>3. CASE TofCalExp
  BY <1>3, TofComputes
<1>4. CASE TofTransmit \/ UNCHANGED tofVars
  <2>1. /\ UNCHANGED <<eeprom, temp, exp_val, p_exp, failures>>
        /\ \/ step' = step /\ sent' = sent
           \/ step = "transmit" /\ step' = "done" /\ sent' \in {{}, {p_exp}}
    BY <1>4 DEF TofTransmit, tofVars
  <2>2. TofTypes' /\ SentInv'
    BY <2>1 DEF TofTypes, SentInv
  <2>3. Fits' <=> Fits
    BY <2>1
       DEF Clocks, ClocksOf, PulseClocks, ExposureLines, Lines, HasLines, DummyLines, Fits
  <2>4. ExposureLines' = ExposureLines /\ DummyLines' = DummyLines
    BY <2>1 DEF Clocks, ClocksOf, PulseClocks, ExposureLines, Lines, DummyLines
  <2>5. TimesInv'
    BY <2>1, <2>3, <2>4 DEF TimesInv
  <2> QED
    BY <2>2, <2>5
<1> QED
  BY <1>1, <1>2, <1>3, <1>4 DEF TofNext

\* The inductive invariant of the calibration.
THEOREM CalibrationInvariant == TofSpec => []TofInv
BY TofBegins, TofStep, PTL DEF TofSpec

\* When every call succeeds the kernel is sent times that fill the frame, and no
\* sum has wrapped around, if the idle time fits into the dummy transfer and the
\* read-out has as many lines as its start is delayed by.
THEOREM TimesStayInFrame == TofSpec => []TimesFillFrame
<1>1. TofInv => TimesFillFrame
  <2> SUFFICES ASSUME TofInv, NEW s \in sent, failures = {},
                      temp.idle_delay > 0 => temp.idle_delay <= DummyLines,
                      eeprom.num_hd_in_readout >= READ_SIZE_OFFSET
               PROVE  /\ s.read_size2 + s.ccd_dummy + eeprom.num_hd_in_readout
                            = eeprom.vd_duration + READ_SIZE_OFFSET
                      /\ s.chkr_start_v = temp.exp_hd + START_V_OFFSET
                      /\ s.read_size2 >= temp.exp_hd
    BY DEF TimesFillFrame
  <2>1. step = "done" /\ s = p_exp
    BY DEF TofInv, SentInv
  <2>2. PICK lines \in Nat : lines = ExposureLines
    BY <2>1, ExposureNat DEF TofInv, TimesInv, Fits
  <2>3. PICK vd \in Uint16, ro \in Uint16, ini \in Uint16, idle \in Uint16 :
           /\ vd = eeprom.vd_duration /\ ro = eeprom.num_hd_in_readout
           /\ ini = temp.ini_ofst_delay /\ idle = temp.idle_delay
    BY DEF TofInv, TofTypes, EepromType
  <2>4. /\ temp.exp_hd = lines /\ lines <= Word - 1 - START_V_OFFSET
        /\ DummyLines = vd - ini - lines - ro /\ DummyLines \in 0 .. Word - 1
        /\ s.read_size2 = (ini + lines + READ_SIZE_OFFSET + idle) % Word
        /\ s.ccd_dummy = (DummyLines - idle) % Word
        /\ s.chkr_start_v = (lines + START_V_OFFSET) % Word
    BY <2>1, <2>2, <2>3 DEF TofInv, TimesInv, Fits, DummyLines
  <2>5. PICK d \in Int : d = DummyLines /\ d = vd - ini - lines - ro /\ 0 <= d /\ d <= Word - 1
    BY <2>4, Widths
  <2>6. /\ vd \in 0 .. Word - 1 /\ ro \in 0 .. Word - 1 /\ ini \in 0 .. Word - 1 /\ idle \in 0 .. Word - 1
        /\ ro >= 7 /\ lines <= Word - 1 - 750
    BY <2>3, <2>4, Widths
  <2>7. idle <= d
    BY <2>3, <2>5, <2>6
  <2>8. s.read_size2 = ini + lines + 7 + idle
    <3>1. /\ ini + lines + 7 + idle \in Int /\ 0 <= ini + lines + 7 + idle
          /\ ini + lines + 7 + idle < Word
      BY <2>5, <2>6, <2>7, Widths
    <3>2. (ini + lines + 7 + idle) % Word = ini + lines + 7 + idle
      BY <3>1, Fitting
    <3> QED
      BY <2>4, <3>2, Widths
  <2>9. s.ccd_dummy = d - idle
    <3>1. d - idle \in Int /\ 0 <= d - idle /\ d - idle < Word
      BY <2>5, <2>6, <2>7, Widths
    <3>2. (d - idle) % Word = d - idle
      BY <3>1, Fitting
    <3> QED
      BY <2>4, <2>5, <3>2, Widths
  <2>10. s.chkr_start_v = lines + 750
    <3>1. lines + 750 \in Int /\ 0 <= lines + 750 /\ lines + 750 < Word
      BY <2>6, Widths
    <3>2. (lines + 750) % Word = lines + 750
      BY <3>1, Fitting
    <3> QED
      BY <2>4, <3>2, Widths
  <2>11. s.read_size2 + s.ccd_dummy + eeprom.num_hd_in_readout = eeprom.vd_duration + 7
    <3>1. (ini + lines + 7 + idle) + (d - idle) + ro = vd + 7
      BY <2>5, <2>6
    <3> QED
      BY <2>3, <2>8, <2>9, <3>1
  <2>12. s.read_size2 >= temp.exp_hd
    <3>1. ini + lines + 7 + idle >= lines
      BY <2>6
    <3> QED
      BY <2>4, <2>8, <3>1
  <2> QED
    BY <2>4, <2>10, <2>11, <2>12, Widths
<1> QED
  BY <1>1, CalibrationInvariant, PTL

=============================================================================

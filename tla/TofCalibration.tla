-------------------------- MODULE TofCalibration --------------------------
(***************************************************************************)
(* The exposure of the TOF sensor: main() reads the calibration from the   *)
(* EEPROM, computes the times the sensor needs, in horizontal lines (HD),  *)
(* and sends them to the kernel; it ignores what each step returns, so a   *)
(* step that fails leaves its part as it was.                              *)
(*                                                                         *)
(* Only mode[0] is used.  What the EEPROM gives and the kernel takes has   *)
(* 16 bits, exp_hd 32.  Quotients are rounded as lroundf and ceilf do;     *)
(* floats are exact for the clocks of Eeproms, which are below 2^24        *)
(* (TofAssumption).                                                        *)
(* TofAfeCalculate has no return at its end: it is taken to return.        *)
(***************************************************************************)
EXTENDS Integers

CONSTANT Eeproms   \* what dev_eeprom may hold

Word == 256 * 256        \* uint16_t is 0 .. Word - 1
READ_SIZE_OFFSET == 7    \* TL_AFE_READ_SIZE_OFFSET
START_V_OFFSET == 750    \* TL_AFE_START_V_OFFSET
Garbage16 == -1          \* a field nothing was assigned to

\* The fields that are read, and the sum of the ten of pls_mod
Uint16 == 0 .. Word - 1
EepromType ==
    [enabled : BOOLEAN, vd_duration : Uint16, vd_ini_ofst : Uint16, vd_ini_ofst_adr_num : Uint16,
     afe_idle_val : Uint16, idle_peri_num : Uint16, idle_peri_adr : Uint16, exp_default : Uint16,
     exp_max : Uint16, num_clk_in_hd : Uint16, pls_num : 0 .. 10 * (Word - 1),
     ld_pls_duty : Uint16, tof_seq_ini_ofst : Uint16, beta_num : Uint16,
     tof_emt_period_ofst : Uint16, num_hd_in_readout : Uint16]

\* pls_num * val / 40, rounded to the nearest integer
PulseClocks(e, val) == (2 * e.pls_num * val + 40) \div 80

\* Clocks of one of A0, A1 and A2
ClocksOf(e, val) == e.tof_seq_ini_ofst + val * e.ld_pls_duty - 2 + PulseClocks(e, val)

\* The floats are exact and the lines of an exposure do not overflow an int32_t.
ASSUME TofAssumption ==
    /\ Eeproms \subseteq EepromType
    /\ \A val \in {e.exp_default : e \in Eeproms}, e \in Eeproms :
          /\ e.pls_num * val < 2^24 /\ ClocksOf(e, val) < 2^24
          /\ e.beta_num * 3 * ClocksOf(e, val) + Word < 2^30 + (2^30 - 1)

VARIABLES
    step,       \* the call main() makes next
    eeprom,     \* dev_eeprom
    temp,       \* temp_val without tl_transmit
    exp_val,    \* the exposure
    p_exp,      \* temp_val.tl_transmit.p_exp
    sent,       \* what the kernel was sent: a value of p_exp, or {} for nothing
    failures    \* history: the calls that failed

tofVars == <<step, eeprom, temp, exp_val, p_exp, sent, failures>>

\* An object that new leaves as the memory was: any EEPROM and exposure, and
\* nothing in what is sent
TofInit ==
    /\ step = "load" /\ eeprom \in Eeproms
    /\ temp = [idle_delay |-> 0, ini_ofst_delay |-> 0, exp_hd |-> 0]
    /\ exp_val \in {e.exp_default : e \in Eeproms}
    /\ p_exp = [f \in {"long_val", "short_val", "lms_val", "read_size2", "ccd_dummy",
                       "chkr_start_v", "idle", "ini_ofst"} |-> Garbage16]
    /\ sent = {} /\ failures = {}

\* The file cannot be opened or is too short: dev_eeprom stays as it was.
TofLoadEeprom ==
    /\ step = "load" /\ step' = "init"
    /\ failures' \in {{}, {"load"}}
    /\ UNCHANGED <<eeprom, temp, exp_val, p_exp, sent>>

TofInitStruct ==
    /\ step = "init" /\ step' = "afe"
    /\ temp' = [idle_delay |-> 0, ini_ofst_delay |-> 0, exp_hd |-> 0]
    /\ UNCHANGED <<eeprom, exp_val, p_exp, sent, failures>>

\* Delays in idle and before the exposure, of an EEPROM that has registers for them
IdleDelay ==
    IF eeprom.afe_idle_val = 0 \/ eeprom.idle_peri_num = 0 \/ eeprom.idle_peri_adr = 0
    THEN 0 ELSE (eeprom.afe_idle_val + 2) % Word
IniOfstDelay == IF eeprom.vd_ini_ofst_adr_num = 0 THEN 0 ELSE eeprom.vd_ini_ofst

TofAfeCalculate ==
    /\ step = "afe" /\ step' = "exp"
    /\ IF eeprom.enabled
       THEN /\ temp' = [temp EXCEPT !.idle_delay = IdleDelay, !.ini_ofst_delay = IniOfstDelay]
            /\ exp_val' = IF eeprom.exp_default > eeprom.exp_max THEN eeprom.exp_max
                                                               ELSE eeprom.exp_default
            /\ UNCHANGED failures
       ELSE failures' = failures \cup {"afe"} /\ UNCHANGED <<temp, exp_val>>
    /\ UNCHANGED <<eeprom, p_exp, sent>>

Clocks == ClocksOf(eeprom, exp_val)

\* The lines that hold them, rounded up, and the lines of the exposure
Lines(clocks) == (clocks + eeprom.num_clk_in_hd - 1) \div eeprom.num_clk_in_hd
ExposureLines == 3 * Lines(Clocks) * eeprom.beta_num + eeprom.tof_emt_period_ofst

\* Lines of the dummy transfer, which fills the frame
DummyLines ==
    eeprom.vd_duration - temp.ini_ofst_delay - ExposureLines - eeprom.num_hd_in_readout

\* Can the lines of the exposure be computed?
HasLines == eeprom.num_clk_in_hd # 0 /\ Clocks >= 0

\* Mutant: the lines of the dummy transfer are not looked at.
FitsWithoutDummy ==
    /\ HasLines
    /\ ExposureLines <= Word - 1 - START_V_OFFSET

\* No check of TofCalExp fails.
Fits ==
    /\ HasLines
    /\ ExposureLines <= Word - 1 - READ_SIZE_OFFSET
    /\ ExposureLines <= Word - 1 - START_V_OFFSET
    /\ DummyLines \in 0 .. Word - 1

\* The three values of the exposure, assigned before any check
Exposure ==
    [f \in {"long_val", "short_val", "lms_val"} |->
        CASE f = "long_val" -> exp_val [] f = "short_val" -> exp_val \div 4
          [] f = "lms_val" -> (exp_val - exp_val \div 4 - 1) % Word]

\* The times that follow from the lines of the exposure and of the dummy transfer
Timing(lines, dummy) ==
    [f \in {"idle", "ini_ofst", "read_size2", "ccd_dummy", "chkr_start_v"} |->
        CASE f = "idle" -> IF temp.idle_delay = 0 THEN 0 ELSE (temp.idle_delay - 2) % Word
          [] f = "ini_ofst" -> IF temp.ini_ofst_delay = 0 THEN 0 ELSE temp.ini_ofst_delay - 1
          [] f = "read_size2" ->
               (temp.ini_ofst_delay + lines + READ_SIZE_OFFSET + temp.idle_delay) % Word
          [] f = "ccd_dummy" -> (dummy - temp.idle_delay) % Word
          [] f = "chkr_start_v" -> (lines + START_V_OFFSET) % Word]

Assigned(values) == [f \in DOMAIN p_exp |-> IF f \in DOMAIN values THEN values[f] ELSE p_exp[f]]

\* A check that fails leaves what was assigned before it.
TofCalExp ==
    /\ step = "exp" /\ step' = "transmit"
    /\ temp' = IF HasLines THEN [temp EXCEPT !.exp_hd = ExposureLines] ELSE temp
    /\ IF Fits
       THEN /\ p_exp' = [f \in DOMAIN p_exp |->
                            IF f \in DOMAIN Exposure THEN Exposure[f]
                            ELSE Timing(ExposureLines, DummyLines)[f]]
            /\ UNCHANGED failures
       ELSE /\ p_exp' = Assigned(Exposure)
            /\ failures' = failures \cup {"exp"}
    /\ UNCHANGED <<eeprom, exp_val, sent>>

\* The kernel is sent whatever there is, if its file can be opened; 0 is returned.
TofTransmit ==
    /\ step = "transmit" /\ step' = "done"
    /\ sent' \in {{}, {p_exp}}
    /\ UNCHANGED <<eeprom, temp, exp_val, p_exp, failures>>

TofNext == TofLoadEeprom \/ TofInitStruct \/ TofAfeCalculate \/ TofCalExp \/ TofTransmit

-----------------------------------------------------------------------------
(* Properties.                                                             *)

\* The type of every variable of the calibration: what it computes keeps its width.
TofTypeOK ==
    /\ step \in {"load", "init", "afe", "exp", "transmit", "done"} /\ eeprom \in Eeproms
    /\ {temp.idle_delay, temp.ini_ofst_delay, exp_val} \subseteq 0 .. Word - 1
    /\ temp.exp_hd \in Nat /\ {p_exp[f] : f \in DOMAIN p_exp} \subseteq Garbage16 .. Word - 1
    /\ sent \subseteq {p_exp} /\ failures \subseteq {"load", "afe", "exp"}

\* When every step succeeds the kernel is sent times that add up to the frame:
\* with the lines of the read-out, the start of the output and the dummy transfer
\* make up vd_duration, and none has wrapped around its 16 bits.  This needs a
\* read-out of 7 lines and an idle time, where there is one, that fits into the
\* dummy transfer, which no check of TofCalExp looks at.
TimesFillFrame ==
    \A s \in sent :
        /\ failures = {} /\ (temp.idle_delay > 0 => temp.idle_delay <= DummyLines)
        /\ eeprom.num_hd_in_readout >= READ_SIZE_OFFSET
        => /\ s.read_size2 + s.ccd_dummy + eeprom.num_hd_in_readout
              = eeprom.vd_duration + READ_SIZE_OFFSET
           /\ s.chkr_start_v = temp.exp_hd + START_V_OFFSET
           /\ s.read_size2 >= temp.exp_hd
=============================================================================

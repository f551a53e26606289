----------------------------- MODULE MCSession -----------------------------
(***************************************************************************)
(* The life of the program and what it sets up on the way, for TLC.  The   *)
(* session, the calibration of the TOF sensor and the set-up of the OMX    *)
(* encoder share no state: a behaviour runs one of them.  The EEPROMs have *)
(* values on both sides of every check of TofCalExp and of 16 bits.        *)
(***************************************************************************)
EXTENDS Session, TofCalibration, EncoderSetup

Order(mode, hfr) == [mode |-> mode, hfr |-> hfr]
Pair(first, second) == [c \in {0, 1} |-> IF c = 0 THEN first ELSE second]

\* The orders of QCameraHALTestMain.hpp, a preview order that cannot be parsed,
\* and the two modes they leave out
MCOrderLists ==
    {Pair(Order("depth", "normal"), Order("preview", "normal")),
     Pair(Order("depth", "normal"), Order("none", "normal")),
     Pair(Order("snapshot", "normal"), Order("video", "hfr120"))}

MCEeproms ==
    [enabled : BOOLEAN, vd_duration : {1000, 65535}, vd_ini_ofst : {10},
     vd_ini_ofst_adr_num : {0, 1}, afe_idle_val : {0, 5, 65534}, idle_peri_num : {1},
     idle_peri_adr : {1}, exp_default : {0, 40, 4000}, exp_max : {1000},
     num_clk_in_hd : {0, 100}, pls_num : {3}, ld_pls_duty : {1}, tof_seq_ini_ofst : {0, 2},
     beta_num : {1}, tof_emt_period_ofst : {0, 64700, 65528}, num_hd_in_readout : {0, 7, 480}]

SomeEeprom == CHOOSE e \in MCEeproms : TRUE

VARIABLE part   \* the part of this behaviour

Init ==
    /\ SessionInit /\ TofInit /\ SetupInit
    /\ part \in {"session", "tof", "encoder"}
    /\ part # "session" => orderList = CHOOSE o \in OrderLists : TRUE
    /\ part # "tof" => eeprom = SomeEeprom /\ exp_val = SomeEeprom.exp_default
    /\ part # "encoder" => ready = TRUE

Next ==
    \/ part = "session" /\ SessionNext /\ UNCHANGED <<part, tofVars, setupVars>>
    \/ part = "tof" /\ TofNext /\ UNCHANGED <<part, sessionVars, setupVars>>
    \/ part = "encoder" /\ SetConfig /\ UNCHANGED <<part, sessionVars, tofVars>>

Spec ==
    /\ Init /\ [][Next]_<<part, sessionVars, tofVars, setupVars>>
    /\ part = "session" => SessionFairness

TypeOK == SessionTypeOK /\ TofTypeOK /\ SetupTypeOK
=============================================================================

------------------------------- MODULE FtmArgs ------------------------------
(***************************************************************************)
(* The numbers of "ftm -I".  argtable parses each option as an int;        *)
(* wifi_cmd_ftm stores it in a narrower field, and checks the frame count  *)
(* only after that.  An option is the set of the integers given for it,    *)
(* with no or one element.                                                 *)
(***************************************************************************)
EXTENDS Integers

CONSTANT Typed      \* integers typed as an option of the command

ASSUME TypedAssumption == Typed \subseteq Int

Options == {{}} \cup {{n} : n \in Typed}

\* conversion to uint8_t
Byte(n) == n % 256

\* FTM frames that can be asked for, as the command and its help list them
FrameCounts == {0, 8, 16, 24, 32, 64}

\* "-c": a count that is not in the list after its conversion is refused
CountsAccepted(typed) == {Byte(n) : n \in typed} \subseteq FrameCounts

\* "-p", in units of 100 ms: checked before the conversion
PeriodsAccepted(typed) == \A n \in typed : 0 <= n /\ n <= 100

\* the value of a field: the option, else the default
Field(typed, default) ==
    CHOOSE b \in 0..255 : IF typed = {} THEN b = default
                                        ELSE \E n \in typed : b = Byte(n)

\* ms to wait for the report: twice the eight bursts, or the default
WaitTime(period) == IF period = 0 THEN 10000 ELSE (period * 100) * 16

\* wifi_ftm_initiator_cfg_t and the wait of a session asked for with -c and -p
Config(count, period) ==
    LET p == Field(period, 2)
    IN  [frm_count |-> Field(count, 32), burst_period |-> p, wait |-> WaitTime(p)]
=============================================================================

----------------------------- MODULE FtmLibrary -----------------------------
(***************************************************************************)
(* A caller of the pure parts (FtmQuality, FtmResult) and of the number    *)
(* handling of "ftm -I" (FtmArgs), who makes any calls in any order and    *)
(* keeps his memory from one call to the next: the out parameters of the   *)
(* functions, and the configuration of the last session.                   *)
(***************************************************************************)
EXTENDS FtmQuality, FtmResult, FtmArgs

CONSTANT Counts     \* frame counts that a driver reports

ASSUME CountsAssumption == Counts \subseteq Words

VARIABLES
    quality,    \* the caller's ftm_quality_t
    text,       \* the caller's buffer
    rv,         \* what the last call returned
    session,    \* configuration of the last session started
    wanted      \* history: the "-c" typed for it

vars == <<quality, text, rv, session, wanted>>

NoVerdict == [valid |-> 0, total |-> 0, percent |-> 0, usable |-> FALSE]

Init ==
    /\ quality = NoVerdict /\ text = NoText /\ rv = OK
    /\ session = Config({}, {}) /\ wanted = {}

LibraryTypeOK ==
    /\ quality \in [valid : Words, total : Words, percent : 0..100,
                    usable : BOOLEAN]
    /\ text \in [code : Codes \cup {0}, need : Nat]
    /\ rv \in {OK, INVALID_ARG, NO_MEM, INVALID_MEASUREMENT}
    /\ session \in [frm_count : FrameCounts, burst_period : 0..100,
                    wait : Nat]
    /\ wanted \in Options

\* ftm_quality_evaluate with a null out parameter
EvaluateNull ==
    /\ rv' = INVALID_ARG
    /\ UNCHANGED <<quality, text, session, wanted>>

\* with counts that are rejected, and with others
EvaluateRejected(valid, total) ==
    /\ Rejected(valid, total)
    /\ rv' = INVALID_MEASUREMENT
    /\ UNCHANGED <<quality, text, session, wanted>>

Evaluate(valid, total) ==
    /\ ~Rejected(valid, total)
    /\ rv' = OK /\ quality' = Verdict(valid, total)
    /\ UNCHANGED <<text, session, wanted>>

\* ftm_result_report into the caller's buffer
CallReport(code, cap) ==
    /\ rv' = Report(code, cap, text).rv
    /\ text' = Report(code, cap, text).text
    /\ UNCHANGED <<quality, session, wanted>>

\* "ftm -I": an option that is refused ends the command before a session
\* is started
Initiate(count, period) ==
    /\ CountsAccepted(count) /\ PeriodsAccepted(period)
    /\ session' = Config(count, period) /\ wanted' = count
    /\ UNCHANGED <<quality, text, rv>>

Next ==
    \/ EvaluateNull
    \/ \E valid, total \in Counts :
           EvaluateRejected(valid, total) \/ Evaluate(valid, total)
    \/ \E code \in Codes, cap \in Caps : CallReport(code, cap)
    \/ \E count, period \in Options : Initiate(count, period)

Spec == Init /\ [][Next]_vars

-----------------------------------------------------------------------------
\* Properties

(* Whatever the driver counts, and whatever was called before, the verdict   *)
(* a caller finds in his structure is the exact one of one session           *)
(* (ftm_quality.c:16: no product wraps, and the floor decides nothing).      *)
VerdictIsExact == quality # NoVerdict => Exact(quality)

(* The out parameters are written as a whole or not at all: a call that      *)
(* fails for want of memory or of a measurement leaves what an earlier call  *)
(* wrote there, and a text is only written with its terminator inside the    *)
(* capacity of that call, also the text of a code that has no name, which is *)
(* the only one written by a call that fails.                                *)
WholeOrNothing ==
    [][/\ quality' # quality => rv' = OK
       /\ text' # text => rv' \in {OK, INVALID_ARG}
       /\ text' # text => (rv' = OK <=> text'.code \in 0..(ResultCount - 1))
       /\ \A code \in Codes, cap \in Caps :
              CallReport(code, cap) /\ text' # text => text'.need <= cap]_vars

(* The session is started with the frame count that was typed, or refused.   *)
FrameCountAsTyped == \A n \in wanted : session.frm_count = n
=============================================================================

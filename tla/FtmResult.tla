----------------------------- MODULE FtmResult ------------------------------
(***************************************************************************)
(* The result codes, their names, and ftm_result_report, which writes a    *)
(* name into a buffer of the caller.  A text is its first and last facts:  *)
(* which name it is and how many bytes it takes with its terminator.       *)
(***************************************************************************)
EXTENDS Integers, FiniteSets

CONSTANTS
    Codes,          \* values a caller may pass as ftm_result_t: as signed as
                    \* the compiler makes the enum, so -1 or Word - 1
    Caps            \* capacities of a caller's buffer

ASSUME CodesAssumption == Codes \subseteq Int /\ Caps \subseteq Nat

OK == 0
INVALID_ARG == 1
NO_MEM == 2
INVALID_MEASUREMENT == 4
ResultCount == 8

\* k_names: the bytes of each name without its terminator
NameLength == <<6, 19, 14, 15, 27, 20, 28, 27>>

\* ftm_result_to_string does not return NULL
HasName(code) == 0 <= code /\ code < ResultCount

\* bytes of a decimal number of 32 bits
MaxDigits == 10
Digits(n) == 1 + Cardinality({i \in 1..(MaxDigits - 1) : 10^i <= n})

\* "unknown(%ld)" of the code
UnknownLength(code) ==
    9 + (IF code < 0 THEN 1 + Digits(-code) ELSE Digits(code))

\* the text for a code, and the bytes it needs
Text(code) ==
    [code |-> code,
     need |-> 1 + (IF HasName(code) THEN NameLength[code + 1]
                                    ELSE UnknownLength(code))]

NoText == [code |-> 0, need |-> 0]

\* mutant: the terminator is not counted
ReportWithoutRoom(code, cap, old) ==
    IF cap = 0 THEN [rv |-> INVALID_ARG, text |-> old]
    ELSE IF Text(code).need > cap + 1 THEN [rv |-> NO_MEM, text |-> old]
    ELSE [rv |-> IF HasName(code) THEN OK ELSE INVALID_ARG, text |-> Text(code)]

\* ftm_result_report(code, out, cap) with out holding old; a null out is the
\* same as a capacity of zero
Report(code, cap, old) ==
    IF cap = 0 THEN [rv |-> INVALID_ARG, text |-> old]
    ELSE IF Text(code).need > cap THEN [rv |-> NO_MEM, text |-> old]
    ELSE [rv |-> IF HasName(code) THEN OK ELSE INVALID_ARG, text |-> Text(code)]
=============================================================================

-------------------------- MODULE FtmLibraryProofs --------------------------
(***************************************************************************)
(* The verdict is the exact one for every pair of frame counts of a word   *)
(* of any width, and the caller's memory keeps its type, its exactness and *)
(* its wholeness over every sequence of calls.                             *)
(***************************************************************************)
EXTENDS FtmLibrary, FiniteSetTheorems, TLAPS

(* What the floor of a division is, for the divisions of this module.        *)
LEMMA FloorBounds ==
    ASSUME NEW a \in Nat, NEW b \in Nat, b > 0
    PROVE  /\ a \div b \in Nat
           /\ (a \div b) * b <= a
           /\ a < ((a \div b) + 1) * b
OBVIOUS

(* A smaller factor makes a smaller product.                                 *)
LEMMA ProductMonotone ==
    ASSUME NEW a \in Int, NEW b \in Int, NEW c \in Nat, a <= b
    PROVE  a * c <= b * c
OBVIOUS

(* The product that the percentage is the quotient of fits in twice the      *)
(* width, as ftm_quality.c:14 says.                                          *)
LEMMA NoWrap ==
    ASSUME NEW valid \in Words
    PROVE  (valid * 100) % DoubleWord = valid * 100
<1>1. valid \in Nat /\ valid < Word /\ Word \in Nat /\ Word > 100
  BY WordAssumption DEF Words
<1>2. valid * 100 <= Word * 100 /\ 100 * Word <= Word * Word
  BY <1>1, ProductMonotone
<1>3. valid * 100 < Word * 100
  BY <1>1
<1>4. DoubleWord \in Nat /\ valid * 100 < DoubleWord
  BY <1>1, <1>2, <1>3 DEF DoubleWord
<1> QED
  BY <1>1, <1>4

(* For counts that are not rejected the percentage is the floor of the ratio *)
(* and at most 100.                                                          *)
LEMMA PercentIsFloor ==
    ASSUME NEW valid \in Words, NEW total \in Words, ~Rejected(valid, total)
    PROVE  /\ Percent(valid, total) \in 0..100
           /\ Percent(valid, total) * total <= 100 * valid
           /\ 100 * valid < (Percent(valid, total) + 1) * total
<1>1. valid \in Nat /\ total \in Nat /\ total > 0 /\ valid <= total
  BY WordAssumption DEF Words, Rejected
<1> DEFINE p == (valid * 100) \div total
<1>2. p \in Nat /\ p * total <= valid * 100 /\ valid * 100 < (p + 1) * total
  BY <1>1, FloorBounds
<1>3. p <= 100
  <2>1. SUFFICES ASSUME 101 <= p PROVE FALSE
    BY <1>2
  <2>2. 101 * total <= p * total
    BY <2>1, <1>1, <1>2, ProductMonotone
  <2> QED
    BY <2>2, <1>1, <1>2
<1>4. p % Word = p
  BY <1>2, <1>3, WordAssumption
<1>5. Percent(valid, total) = p
  BY <1>4, NoWrap DEF Percent
<1> QED
  BY <1>1, <1>2, <1>3, <1>5

(* The verdict on any two counts that are not rejected is exact: for every   *)
(* width of the word, so for uint32_t.                                       *)
THEOREM VerdictExact ==
    ASSUME NEW valid \in Words, NEW total \in Words, ~Rejected(valid, total)
    PROVE  Exact(Verdict(valid, total))
<1> DEFINE p == Percent(valid, total)
           v == Verdict(valid, total)
<1>1. valid \in Nat /\ total \in Nat /\ total > 0
  BY WordAssumption DEF Words, Rejected
<1>2. p \in 0..100 /\ p * total <= 100 * valid /\ 100 * valid < (p + 1) * total
  BY PercentIsFloor
<1>3. v = [valid |-> valid, total |-> total, percent |-> p, usable |-> p >= 80]
  BY DEF Verdict, MinValidPercent
<1>4. ASSUME p >= 80 PROVE 10 * valid >= 8 * total
  <2>1. 80 * total <= p * total
    BY <1>4, <1>1, <1>2, ProductMonotone
  <2> QED
    BY <2>1, <1>1, <1>2
<1>5. ASSUME ~(p >= 80) PROVE ~(10 * valid >= 8 * total)
  <2>1. (p + 1) * total <= 80 * total
    BY <1>5, <1>1, <1>2, ProductMonotone
  <2> QED
    BY <2>1, <1>1, <1>2
<1>6. p >= 80 <=> HostAccepts(valid, total)
  BY <1>1, <1>4, <1>5 DEF HostAccepts
<1>7. v.percent = p /\ v.valid = valid /\ v.total = total /\ v.usable = (p >= 80)
  BY <1>3
<1>8. v.usable <=> HostAccepts(v.valid, v.total)
  BY <1>6, <1>7, Zenon
<1>9. v.percent * v.total <= 100 * v.valid
      /\ 100 * v.valid < (v.percent + 1) * v.total
  BY <1>2, <1>7, Zenon
<1> QED
  BY <1>8, <1>9 DEF Exact

-----------------------------------------------------------------------------
(* Every text, its terminator included, fits in the 32 bytes of scratch that *)
(* ftm_result_report formats the unknown ones in (ftm_result_report.c:12).   *)
THEOREM ScratchHolds ==
    ASSUME NEW code \in Codes
    PROVE  /\ Text(code) \in [code : Codes, need : Nat]
           /\ Text(code).need <= 32
<1>1. code \in Int
  BY CodesAssumption
<1>2. ASSUME NEW n \in Int PROVE Digits(n) \in Nat /\ Digits(n) <= MaxDigits
  <2> DEFINE k == MaxDigits - 1
             D == {i \in 1..k : 10^i <= n}
  <2>1. k \in Nat /\ MaxDigits = k + 1
    BY DEF MaxDigits
  <2> HIDE DEF k
  <2>2. IsFiniteSet(1..k) /\ Cardinality(1..k) = k
    BY <2>1, FS_Interval
  <2>3. IsFiniteSet(D) /\ Cardinality(D) <= k
    <3>1. D \in SUBSET (1..k)
      OBVIOUS
    <3> QED
      BY <2>2, <3>1, FS_Subset
  <2>4. Cardinality(D) \in Nat
    BY <2>3, FS_CardinalityType
  <2>5. Digits(n) = 1 + Cardinality(D)
    BY DEF Digits, k
  <2> QED
    BY <2>1, <2>3, <2>4, <2>5
<1>3. UnknownLength(code) \in Nat /\ UnknownLength(code) <= 20
  <2>1. /\ Digits(code) \in Nat /\ Digits(code) <= 10
        /\ Digits(-code) \in Nat /\ Digits(-code) <= 10
    BY <1>1, <1>2 DEF MaxDigits
  <2> QED
    BY <2>1 DEF UnknownLength
<1>4. HasName(code) =>
          NameLength[code + 1] \in Nat /\ NameLength[code + 1] <= 28
  <2>1. HasName(code) => code + 1 \in 1..8
    BY <1>1 DEF HasName, ResultCount
  <2> QED
    BY <2>1 DEF NameLength
<1> QED
  BY <1>3, <1>4 DEF Text

(* The field of an option is its byte, or the default.                       *)
LEMMA FieldValue ==
    ASSUME NEW typed \in Options, NEW default \in 0..255
    PROVE  /\ Field(typed, default) \in 0..255
           /\ typed = {} => Field(typed, default) = default
           /\ \A n \in typed : Field(typed, default) = Byte(n)
<1>1. CASE typed = {}
  BY <1>1 DEF Field
<1>2. CASE typed # {}
  <2>1. PICK n \in Int : typed = {n}
    BY <1>2, TypedAssumption DEF Options
  <2>2. Byte(n) \in 0..255
    BY <2>1 DEF Byte
  <2>3. \E b \in 0..255 : IF typed = {} THEN b = default
                                        ELSE \E k \in typed : b = Byte(k)
    BY <2>1, <2>2
  <2> QED
    BY <2>1, <2>3 DEF Field
<1> QED
  BY <1>1, <1>2

(* A burst period that was accepted fits in a byte.                          *)
LEMMA PeriodByte == ASSUME NEW n \in 0..100 PROVE Byte(n) \in 0..100
  BY DEF Byte

(* The defaults are values of their fields.                                  *)
LEMMA Defaults ==
    /\ 32 \in 0..255 /\ 32 \in FrameCounts
    /\ 2 \in 0..255 /\ 2 \in 0..100
  BY DEF FrameCounts

(* Both options, left out or typed.                                          *)
LEMMA ConfigFields ==
    ASSUME NEW typed \in Options
    PROVE  /\ CountsAccepted(typed) => Field(typed, 32) \in FrameCounts
           /\ PeriodsAccepted(typed) => Field(typed, 2) \in 0..100
<1>0. ASSUME NEW default \in {2, 32}
      PROVE  /\ typed = {} => Field(typed, default) = default
             /\ \A n \in typed : Field(typed, default) = Byte(n)
  <2>1. default \in 0..255
    BY Defaults
  <2> QED
    BY <2>1, FieldValue
<1>1. CASE typed = {}
  <2>1. Field(typed, 32) = 32 /\ Field(typed, 2) = 2
    BY <1>0, <1>1
  <2> QED
    BY <2>1, Defaults
<1>2. CASE typed # {}
  <2>1. PICK n \in Int : typed = {n}
    BY <1>2, TypedAssumption DEF Options
  <2>2. Field(typed, 32) = Byte(n) /\ Field(typed, 2) = Byte(n)
    BY <1>0, <2>1
  <2>3. CountsAccepted(typed) => Byte(n) \in FrameCounts
    BY <2>1 DEF CountsAccepted
  <2>4. PeriodsAccepted(typed) => Byte(n) \in 0..100
    <3>1. PeriodsAccepted(typed) => n \in 0..100
      BY <2>1 DEF PeriodsAccepted
    <3> QED
      BY <3>1, PeriodByte
  <2> QED
    BY <2>2, <2>3, <2>4
<1> QED
  BY <1>1, <1>2

(* Options that are accepted make a configuration within its fields.         *)
LEMMA ConfigType ==
    ASSUME NEW count \in Options, NEW period \in Options,
           CountsAccepted(count), PeriodsAccepted(period)
    PROVE  Config(count, period) \in
               [frm_count : FrameCounts, burst_period : 0..100,
                wait : Nat]
<1>1. Field(count, 32) \in FrameCounts /\ Field(period, 2) \in 0..100
  BY ConfigFields
<1>2. ASSUME NEW p \in 0..100 PROVE WaitTime(p) \in Nat
  BY DEF WaitTime
<1> QED
  BY <1>1, <1>2 DEF Config

-----------------------------------------------------------------------------
(* A report stays in the capacity, leaves the old text unless it writes its  *)
(* own, and is OK for a named code alone.                                    *)
LEMMA ReportWhole ==
    ASSUME NEW code \in Codes, NEW cap \in Caps, NEW old
    PROVE  LET r == Report(code, cap, old)
           IN  \/ r.rv \in {INVALID_ARG, NO_MEM} /\ r.text = old
               \/ /\ r.text = Text(code) /\ r.text.need <= cap
                  /\ r.rv \in {OK, INVALID_ARG}
                  /\ r.rv = OK <=> code \in 0..(ResultCount - 1)
<1>1. code \in Int /\ cap \in Nat /\ Text(code).need \in Nat
  BY CodesAssumption, ScratchHolds
<1>2. HasName(code) <=> code \in 0..(ResultCount - 1)
  BY <1>1 DEF HasName, ResultCount
<1> QED
  BY <1>1, <1>2 DEF Report, OK, INVALID_ARG, NO_MEM

(* The caller's memory keeps its type and its exactness.                     *)
Whole == LibraryTypeOK /\ VerdictIsExact

LEMMA WholeInit == Init => Whole
<1> SUFFICES ASSUME Init PROVE Whole
  OBVIOUS
<1>1. session \in [frm_count : FrameCounts, burst_period : 0..100,
                   wait : Nat]
  <2>1. {} \in Options /\ CountsAccepted({}) /\ PeriodsAccepted({})
    BY DEF Options, CountsAccepted, PeriodsAccepted
  <2> QED
    BY <2>1, ConfigType DEF Init
<1>2. quality \in [valid : Words, total : Words, percent : 0..100,
                   usable : BOOLEAN]
  BY WordAssumption DEF Init, NoVerdict, Words
<1>3. text \in [code : Codes \cup {0}, need : Nat] /\ wanted \in Options
  BY DEF Init, NoText, Options
<1>4. VerdictIsExact
  BY DEF Init, VerdictIsExact
<1> QED
  BY <1>1, <1>2, <1>3, <1>4 DEF Init, Whole, LibraryTypeOK, OK

LEMMA WholeNext == Whole /\ [Next]_vars => Whole'
<1> SUFFICES ASSUME Whole, [Next]_vars PROVE Whole'
  OBVIOUS
<1> USE DEF Whole, LibraryTypeOK, VerdictIsExact
<1>1. CASE EvaluateNull
  BY <1>1 DEF EvaluateNull
<1>2. ASSUME NEW valid \in Counts, NEW total \in Counts,
             EvaluateRejected(valid, total)
      PROVE  Whole'
  BY <1>2 DEF EvaluateRejected
<1>3. ASSUME NEW valid \in Counts, NEW total \in Counts, Evaluate(valid, total)
      PROVE  Whole'
  <2>1. valid \in Words /\ total \in Words /\ ~Rejected(valid, total)
    BY <1>3, CountsAssumption DEF Evaluate
  <2>2. Percent(valid, total) \in 0..100
    BY <2>1, PercentIsFloor
  <2>3. quality' \in [valid : Words, total : Words, percent : 0..100,
                      usable : BOOLEAN]
    BY <1>3, <2>1, <2>2 DEF Evaluate, Verdict
  <2>4. Exact(quality')
    BY <1>3, <2>1, VerdictExact DEF Evaluate
  <2> QED
    BY <1>3, <2>3, <2>4 DEF Evaluate, NoVerdict, Exact
<1>4. ASSUME NEW code \in Codes, NEW cap \in Caps, CallReport(code, cap)
      PROVE  Whole'
  <2>1. text' = text \/ text' = Text(code)
    BY <1>4, ReportWhole DEF CallReport
  <2>2. text' \in [code : Codes \cup {0}, need : Nat]
    BY <2>1, ScratchHolds
  <2>3. rv' \in {OK, INVALID_ARG, NO_MEM, INVALID_MEASUREMENT}
    BY <1>4, ReportWhole DEF CallReport
  <2> QED
    BY <1>4, <2>2, <2>3 DEF CallReport
<1>5. ASSUME NEW count \in Options, NEW period \in Options,
             Initiate(count, period)
      PROVE  Whole'
  BY <1>5, ConfigType DEF Initiate
<1>6. CASE UNCHANGED vars
  BY <1>6 DEF vars
<1> QED
  BY <1>1, <1>2, <1>3, <1>4, <1>5, <1>6 DEF Next

(* The caller's memory is well typed after any calls.                        *)
THEOREM LibraryTypeCorrect == Spec => []LibraryTypeOK
<1>1. Whole => LibraryTypeOK
  BY DEF Whole
<1> QED
  BY WholeInit, WholeNext, <1>1, PTL DEF Spec

(* The verdict it holds is exact after any calls.                            *)
THEOREM VerdictStaysExact == Spec => []VerdictIsExact
<1>1. Whole => VerdictIsExact
  BY DEF Whole
<1> QED
  BY WholeInit, WholeNext, <1>1, PTL DEF Spec

(* And no call leaves a part of what it was to write, or writes beyond the   *)
(* capacity it was given.                                                    *)
THEOREM WholeOrNothingHolds == Spec => WholeOrNothing
<1> DEFINE Body ==
        /\ quality' # quality => rv' = OK
        /\ text' # text => rv' \in {OK, INVALID_ARG}
        /\ text' # text => (rv' = OK <=> text'.code \in 0..(ResultCount - 1))
        /\ \A code \in Codes, cap \in Caps :
               CallReport(code, cap) /\ text' # text => text'.need <= cap
<1>1. ASSUME NEW code \in Codes, NEW cap \in Caps, CallReport(code, cap),
             text' # text
      PROVE  /\ text'.need <= cap
             /\ rv' \in {OK, INVALID_ARG}
             /\ rv' = OK <=> text'.code \in 0..(ResultCount - 1)
  <2>1. /\ rv' = Report(code, cap, text).rv
        /\ text' = Report(code, cap, text).text
    BY <1>1 DEF CallReport
  <2>2. Text(code).code = code
    BY DEF Text
  <2> QED
    BY <1>1, <2>1, <2>2, ReportWhole
<1>2. ASSUME [Next]_vars PROVE Body
  <2>1. ASSUME text' = text, quality' # quality => rv' = OK PROVE Body
    BY <2>1
  <2>2. CASE EvaluateNull
    BY <2>1, <2>2 DEF EvaluateNull
  <2>3. ASSUME NEW valid \in Counts, NEW total \in Counts,
               EvaluateRejected(valid, total) \/ Evaluate(valid, total)
        PROVE  Body
    BY <2>1, <2>3 DEF EvaluateRejected, Evaluate
  <2>4. ASSUME NEW code \in Codes, NEW cap \in Caps, CallReport(code, cap)
        PROVE  Body
    <3>1. quality' = quality
      BY <2>4 DEF CallReport
    <3> QED
      BY <2>4, <3>1, <1>1
  <2>5. ASSUME NEW count \in Options, NEW period \in Options,
               Initiate(count, period)
        PROVE  Body
    BY <2>1, <2>5 DEF Initiate
  <2>6. CASE UNCHANGED vars
    BY <2>1, <2>6 DEF vars
  <2> QED
    BY <1>2, <2>2, <2>3, <2>4, <2>5, <2>6 DEF Next
<1> QED
  BY <1>2, PTL DEF Spec, WholeOrNothing
=============================================================================

----------------------------- MODULE FtmQuality -----------------------------
(***************************************************************************)
(* ftm_quality_evaluate: is a session whose driver reports valid frames    *)
(* out of total good enough to be used?  The counts come from the driver   *)
(* unchecked, as unsigned words; the percentage is computed in a word of   *)
(* twice the width and cut back.  Word is the number of values of a        *)
(* uint32_t.                                                               *)
(***************************************************************************)
EXTENDS Integers

CONSTANT Word

\* room for a percentage in a word, which any uint32_t has
ASSUME WordAssumption == Word \in Nat /\ Word > 100

Words == 0..(Word - 1)
DoubleWord == Word * Word

\* mutant: without the 64-bit intermediate
NarrowPercent(valid, total) == ((valid * 100) % Word) \div total

\* uint32_t percent
Percent(valid, total) == (((valid * 100) % DoubleWord) \div total) % Word

MinValidPercent == 80

\* FTM_ERR_INVALID_MEASUREMENT: no frames, or more valid ones than frames
Rejected(valid, total) == total = 0 \/ valid > total

\* ftm_quality_t as written for a session that is not rejected
Verdict(valid, total) ==
    [valid |-> valid, total |-> total, percent |-> Percent(valid, total),
     usable |-> Percent(valid, total) >= MinValidPercent]

\* the bench's own check of the same session, on the exact ratio
\* (Session.valid_ratio, evaluate_transcript); it knows no rejection
HostAccepts(valid, total) == total > 0 /\ 10 * valid >= 8 * total

(* A verdict is the exact one: no count is so large that the product wraps,  *)
(* and the floor of the percentage hides no session below 80 % nor drops one *)
(* that reaches it; so the firmware's verdict is also the bench's.           *)
Exact(v) ==
    /\ v.percent * v.total <= 100 * v.valid
    /\ 100 * v.valid < (v.percent + 1) * v.total
    /\ v.usable <=> HostAccepts(v.valid, v.total)
=============================================================================

----------------------------- MODULE FtmService -----------------------------
(***************************************************************************)
(* What the console's "ftm -I" command promises its user, without the      *)
(* event task, the event group or the driver: commands are answered one at *)
(* a time, in order, and each from the ranging session it started itself.  *)
(* FtmSession implements this specification (see FtmSession!Service).      *)
(***************************************************************************)
EXTENDS Naturals

CONSTANT MaxSessions            \* bound: ranging sessions in one behaviour

VARIABLES
    asked,   \* number of sessions started; the last one is the current one
    truth,   \* truth[k]: how the peer ended session k, "pending" until it did
    answer   \* answer[k]: what the console printed for session k

sVars == <<asked, truth, answer>>

Sessions == 1..MaxSessions
Outcomes == {"measured", "failed"}

NoAnswer  == [verdict |-> "none", rtt |-> 0, dist |-> 0, rows |-> 0]
\* a measured answer carries the session its numbers and its rows come from;
\* rows = 0 when no per-frame table was printed
Measured(k, r) == [verdict |-> "measured", rtt |-> k, dist |-> k, rows |-> r]
Plain(v) == [NoAnswer EXCEPT !.verdict = v]

Init ==
    /\ asked = 0
    /\ truth = [k \in Sessions |-> "pending"]
    /\ answer = [k \in Sessions |-> NoAnswer]

\* the user starts the next session once the current one is answered
Ask ==
    /\ asked < MaxSessions
    /\ asked # 0 => answer[asked].verdict # "none"
    /\ asked' = asked + 1
    /\ UNCHANGED <<truth, answer>>

\* the peer measures the current session, or it fails
Resolve ==
    /\ asked # 0
    /\ answer[asked].verdict = "none"
    /\ truth[asked] = "pending"
    /\ \E o \in Outcomes: truth' = [truth EXCEPT ![asked] = o]
    /\ UNCHANGED <<asked, answer>>

\* the console answers: with the session's own outcome, or with a timeout
\* when the session never had one
Answer ==
    /\ asked # 0
    /\ answer[asked].verdict = "none"
    /\ \/ /\ truth[asked] = "measured"
          /\ \E r \in {0, asked}:
                 answer' = [answer EXCEPT ![asked] = Measured(asked, r)]
       \/ /\ truth[asked] = "failed"
          /\ answer' = [answer EXCEPT ![asked] = Plain("failed")]
       \/ /\ truth[asked] = "pending"
          /\ answer' = [answer EXCEPT ![asked] = Plain("timedout")]
    /\ UNCHANGED <<asked, truth>>

Next == Ask \/ Resolve \/ Answer

SafeSpec == Init /\ [][Next]_sVars

\* a session that is asked for is answered sooner or later
Spec == SafeSpec /\ WF_sVars(Answer)
=============================================================================

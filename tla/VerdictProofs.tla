--------------------------- MODULE VerdictProofs ----------------------------
(***************************************************************************)
(* The verdict of the bench on a run, for every number of commands,        *)
(* sessions and entries: what the board prints while nothing fails         *)
(* (OutputInv), what the parser makes of it line by line (ParseInv), and   *)
(* that a pass means a measurement, of its own, for every command.         *)
(***************************************************************************)
EXTENDS BenchProofs, SequenceTheorems

USE ConstantsAssumption, BenchAssumption

(* A line that is printed is the last of the output ...                      *)
LEMMA OutputSaid ==
  ASSUME NEW t \in Seq(Lines), NEW w \in Seq(Lines), NEW l \in Lines
  PROVE  /\ t \o Append(w, l) = Append(t \o w, l)
         /\ t \o w \in Seq(Lines)
<1>1. <<l>> \in Seq(Lines)
  OBVIOUS
<1>2. Append(w, l) = w \o <<l>> /\ t \o w \in Seq(Lines)
  BY AppendIsConcat, ConcatProperties
<1>3. (t \o w) \o <<l>> = t \o (w \o <<l>>)
  BY <1>1, ConcatAssociative
<1>4. Append(t \o w, l) = (t \o w) \o <<l>>
  BY <1>2, AppendIsConcat
<1> QED
  BY <1>2, <1>3, <1>4

(* ... and one that arrives leaves it as it is.                              *)
LEMMA OutputArrived ==
  ASSUME NEW t \in Seq(Lines), NEW w \in Seq(Lines), w # <<>>
  PROVE  Append(t, Head(w)) \o Tail(w) = t \o w
<1>1. /\ Head(w) \in Lines /\ Tail(w) \in Seq(Lines) /\ Len(w) \in Nat
      /\ Head(w) = w[1] /\ Len(w) > 0 /\ Len(Tail(w)) = Len(w) - 1
      /\ \A i \in 1..(Len(w) - 1) : Tail(w)[i] = w[i + 1]
  BY HeadTailProperties, LenProperties, EmptySeq
<1> DEFINE a == Append(t, Head(w))
<1>2. /\ a \in Seq(Lines) /\ Len(t) \in Nat /\ Len(a) = Len(t) + 1
      /\ a[Len(t) + 1] = w[1] /\ \A i \in 1..Len(t) : a[i] = t[i]
  BY <1>1
<1> HIDE DEF a
<1>3. /\ a \o Tail(w) \in Seq(Lines) /\ Len(a \o Tail(w)) = Len(t) + Len(w)
      /\ \A i \in 1..(Len(t) + Len(w)) :
             (a \o Tail(w))[i] = IF i <= Len(t) + 1 THEN a[i]
                                 ELSE Tail(w)[i - (Len(t) + 1)]
  <2> DEFINE z == Tail(w)
  <2>1. z \in Seq(Lines) /\ Len(a) + Len(z) = Len(t) + Len(w)
    BY <1>1, <1>2
  <2> HIDE DEF z
  <2>2. /\ a \o z \in Seq(Lines) /\ Len(a \o z) = Len(a) + Len(z)
        /\ \A i \in 1..(Len(a) + Len(z)) :
               (a \o z)[i] = IF i <= Len(a) THEN a[i] ELSE z[i - Len(a)]
    <3>1. a \in Seq(Lines) /\ z \in Seq(Lines)
      BY <1>2, <2>1
    <3> QED
      BY <3>1, ConcatProperties
  <2>3. /\ a \o z \in Seq(Lines) /\ Len(a \o z) = Len(t) + Len(w)
        /\ \A i \in 1..(Len(t) + Len(w)) :
               (a \o z)[i] = IF i <= Len(t) + 1 THEN a[i] ELSE z[i - (Len(t) + 1)]
    BY <1>2, <2>1, <2>2
  <2> QED
    BY <2>3 DEF z
<1>4. /\ t \o w \in Seq(Lines) /\ Len(t \o w) = Len(t) + Len(w)
      /\ \A i \in 1..(Len(t) + Len(w)) :
             (t \o w)[i] = IF i <= Len(t) THEN t[i] ELSE w[i - Len(t)]
  BY <1>1, <1>2, ConcatProperties
<1>5. \A i \in 1..(Len(t) + Len(w)) : (a \o Tail(w))[i] = (t \o w)[i]
  <2> SUFFICES ASSUME NEW i \in 1..(Len(t) + Len(w))
               PROVE  (a \o Tail(w))[i] = (t \o w)[i]
    OBVIOUS
  <2>1. CASE i <= Len(t)
    BY <1>2, <1>3, <1>4, <2>1
  <2>2. CASE i = Len(t) + 1
    BY <1>1, <1>2, <1>3, <1>4, <2>2
  <2>3. CASE i > Len(t) + 1
    <3>1. /\ i - (Len(t) + 1) \in 1..(Len(w) - 1)
          /\ (i - (Len(t) + 1)) + 1 = i - Len(t)
      BY <1>1, <1>2, <2>3
    <3>2. Tail(w)[i - (Len(t) + 1)] = w[i - Len(t)]
      BY <1>1, <3>1
    <3> QED
      BY <1>2, <1>3, <1>4, <2>3, <3>2
  <2> QED
    BY <1>2, <2>1, <2>2, <2>3
<1>6. a \o Tail(w) = t \o w
  BY <1>3, <1>4, <1>5, SeqEqual
<1> QED
  BY <1>6 DEF a

(* The kinds of a text grow with the line that is added.                     *)
LEMMA KindsSaid ==
  ASSUME NEW s \in Seq(Lines), NEW l \in Lines
  PROVE  Kinds(Append(s, l)) = Kinds(s) \cup {l.kind}
<1> DEFINE v == Append(s, l)
<1>1. /\ Len(s) \in Nat /\ Len(s) + 1 \in DOMAIN v
      /\ v[Len(s) + 1] = l
      /\ \A i \in DOMAIN s : i \in DOMAIN v /\ v[i] = s[i]
      /\ \A i \in DOMAIN v : i = Len(s) + 1 \/ i \in DOMAIN s
  OBVIOUS
<1> HIDE DEF v
<1>2. Kinds(v) = Kinds(s) \cup {l.kind}
  <2>1. Kinds(v) = {v[i].kind : i \in DOMAIN v} /\ Kinds(s) = {s[i].kind : i \in DOMAIN s}
    BY DEF Kinds
  <2>2. ASSUME NEW x PROVE x \in Kinds(v) <=> x \in Kinds(s) \/ x = l.kind
    BY <1>1, <2>1
  <2> QED
    BY <2>2
<1> QED
  BY <1>2 DEF v

(* ... and shrink by the first when it is taken.                             *)
LEMMA KindsArrived ==
  ASSUME NEW w \in Seq(Lines), w # <<>>
  PROVE  Kinds(w) = {Head(w).kind} \cup Kinds(Tail(w))
<1>1. /\ 1 \in DOMAIN w /\ Head(w) = w[1]
      /\ \A i \in DOMAIN Tail(w) : i + 1 \in DOMAIN w /\ Tail(w)[i] = w[i + 1]
      /\ \A i \in DOMAIN w : i # 1 => i - 1 \in DOMAIN Tail(w) /\ Tail(w)[i - 1] = w[i]
  OBVIOUS
<1>2. /\ Kinds(w) = {w[i].kind : i \in DOMAIN w}
      /\ Kinds(Tail(w)) = {Tail(w)[i].kind : i \in DOMAIN Tail(w)}
  BY DEF Kinds
<1>3. ASSUME NEW x PROVE x \in Kinds(w) <=> x = Head(w).kind \/ x \in Kinds(Tail(w))
  <2>1. ASSUME NEW i \in DOMAIN w
        PROVE  w[i].kind = Head(w).kind \/ w[i].kind \in Kinds(Tail(w))
    <3>1. CASE i = 1
      BY <1>1, <3>1
    <3>2. CASE i # 1
      BY <1>1, <1>2, <3>2
    <3> QED
      BY <3>1, <3>2
  <2> QED
    BY <1>1, <1>2, <2>1
<1> QED
  BY <1>3

(* What a new line must be for the output to stay in order.                  *)
LEMMA RiseSaid ==
  ASSUME NEW s \in Seq(Lines), NEW l \in Lines, SummariesRise(s, 1),
         l.kind = "summary" =>
             /\ l.sid \in 1..asked
             /\ \A j \in 1..Len(s) : s[j].kind = "summary" => s[j].sid < l.sid
  PROVE  SummariesRise(Append(s, l), 1)
<1> DEFINE v == Append(s, l)
<1>1. /\ Len(s) \in Nat /\ Len(v) = Len(s) + 1 /\ v[Len(s) + 1] = l
      /\ \A i \in 1..Len(s) : v[i] = s[i]
  OBVIOUS
<1> HIDE DEF v
<1>2. \A i \in 1..Len(v) : i = Len(s) + 1 \/ i \in 1..Len(s)
  BY <1>1
<1>3. \A j \in 1..Len(v) : v[j].kind = "summary" => v[j].sid \in 1..asked
  BY <1>1, <1>2 DEF SummariesRise
<1>4. ASSUME NEW j \in 1..Len(v), NEW k \in 1..Len(v), j < k,
             v[j].kind = "summary", v[k].kind = "summary"
      PROVE  v[j].sid < v[k].sid
  <2>1. j \in 1..Len(s) /\ v[j] = s[j]
    BY <1>1, <1>4
  <2>2. CASE k = Len(s) + 1
    BY <1>1, <1>4, <2>1, <2>2
  <2>3. CASE k \in 1..Len(s)
    BY <1>1, <1>4, <2>1, <2>3 DEF SummariesRise
  <2> QED
    BY <1>2, <2>2, <2>3
<1> QED
  BY <1>3, <1>4 DEF SummariesRise, v

(* The same for lines that alternate.                                        *)
LEMMA AlternatingSaid ==
  ASSUME NEW s \in Seq(Lines), NEW l \in Lines, Alternating(s), asked \in Nat,
         \/ Len(s) + 1 = 2 * asked - 1 /\ l = Line("summary", asked)
         \/ Len(s) + 1 = 2 * asked /\ l = Line("result", asked)
  PROVE  Alternating(Append(s, l))
<1> DEFINE v == Append(s, l)
<1>1. /\ Len(s) \in Nat /\ Len(v) = Len(s) + 1 /\ v[Len(s) + 1] = l
      /\ \A i \in 1..Len(s) : v[i] = s[i]
  OBVIOUS
<1> HIDE DEF v
<1>2. ASSUME NEW k \in 1..asked, 2 * k - 1 <= Len(v)
      PROVE  v[2 * k - 1] = Line("summary", k)
  <2>1. CASE 2 * k - 1 <= Len(s)
    BY <1>1, <1>2, <2>1 DEF Alternating
  <2>2. CASE 2 * k - 1 = Len(s) + 1
    BY <1>1, <1>2, <2>2
  <2> QED
    BY <1>1, <1>2, <2>1, <2>2
<1>3. ASSUME NEW k \in 1..asked, 2 * k <= Len(v)
      PROVE  v[2 * k] = Line("result", k)
  <2>1. CASE 2 * k <= Len(s)
    BY <1>1, <1>3, <2>1 DEF Alternating
  <2>2. CASE 2 * k = Len(s) + 1
    BY <1>1, <1>3, <2>2
  <2> QED
    BY <1>1, <1>3, <2>1, <2>2
<1> QED
  BY <1>2, <1>3 DEF Alternating, v

-----------------------------------------------------------------------------
\* what the proofs below need of the board and of the bench
Known == BenchTypeOK /\ LateInv /\ LockInv /\ EndedAfterTimeout

(* The types that the steps use.                                             *)
LEMMA KnownTypes ==
  ASSUME BenchTypeOK
  PROVE  /\ TypeOK /\ text \in Seq(Lines) /\ wire \in Seq(Lines)
         /\ Output \in Seq(Lines) /\ Len(Output) \in Nat
         /\ asked \in 0..MaxSessions /\ MaxSessions \in Nat
         /\ typed \in 0..1 /\ sent \in 0..Expected /\ Expected \in 1..MaxSessions
         /\ \A k \in 1..asked :
                /\ k \in Sessions
                /\ answer[k].verdict \in {"none", "measured", "failed", "timedout"}
<1>1. text \in Seq(Lines) /\ wire \in Seq(Lines) /\ TypeOK
  BY DEF BenchTypeOK
<1>2. Output \in Seq(Lines) /\ Len(Output) \in Nat
  BY <1>1, ConcatProperties, LenProperties DEF Output
<1>3. asked \in 0..MaxSessions /\ answer \in [Sessions -> Answers]
  BY <1>1 DEF TypeOK
<1>4. \A k \in 1..asked : k \in Sessions
  BY <1>3 DEF Sessions
<1>5. \A k \in Sessions :
          answer[k].verdict \in {"none", "measured", "failed", "timedout"}
  BY <1>3 DEF Answers
<1> QED
  BY <1>1, <1>2, <1>3, <1>4, <1>5 DEF BenchTypeOK

(* While nothing has failed the timely case is the only one, and no session  *)
(* has been ended.                                                           *)
LEMMA CleanKnows ==
  ASSUME Known, Clean
  PROVE  IInv /\ pc # "end" /\ drv # "ending"
<1>1. TypeOK /\ Untouched /\ asked \in 0..MaxSessions
  BY KnownTypes DEF Known, LateInv
<1>2. ~GaveUp
  BY <1>1 DEF GaveUp, Clean, Untouched, Sessions
<1> QED
  BY <1>2 DEF Known, LateInv, EndedAfterTimeout, Clean

(* Sessions are only added and answers never change, so what was clean after *)
(* a step was clean before.                                                  *)
LEMMA CleanBack ==
  ASSUME BenchTypeOK, LateInv, [Next]_vars
  PROVE  /\ asked <= asked' /\ asked' \in Nat
         /\ \A k \in 1..asked :
                answer[k].verdict # "none" => answer'[k] = answer[k]
         /\ Clean' => Clean
<1>1. asked \in 0..MaxSessions /\ CommandPending /\ TypeOK
  BY KnownTypes DEF LateInv
<1>2. asked <= asked' /\ asked' \in Nat
  <2>1. CASE Initiate
    BY <1>1, <2>1 DEF Initiate
  <2>2. CASE ~Initiate
    BY <1>1, <2>2 DEF Next, Console, Handler, Driver, Refused, WaitReturns, Timeout,
       PrintReport, Alloc, Clear, Fetch, PrintRow, Exit, ReadRtt, PrintEstimate,
       PrintFailed, EndSession, Release, HandleReport, SetFailureBit, SessionOver,
       PeerLost, Terminated, vars
  <2> QED
    BY <2>1, <2>2
<1>3. \A k \in 1..asked : answer[k].verdict # "none" => answer'[k] = answer[k]
  BY <1>1, AnswerStep DEF Sessions
<1>4. Clean' => Clean
  BY <1>1, <1>2, <1>3 DEF Clean
<1> QED
  BY <1>2, <1>3, <1>4

(* All other steps of the board leave what was asked and answered alone.     *)
LEMMA Elsewhere ==
  ASSUME [Next]_vars, ~Initiate, ~Timeout, ~PrintFailed, ~PrintEstimate,
         ~SessionOver
  PROVE  /\ UNCHANGED <<asked, answer, truth>>
         /\ pc' = "end" => pc = "end"
         /\ drv' = "ending" => drv = "ending" \/ pc = "end"
<1> USE DEF console, driver, globals
<1>1. CASE WaitReturns \/ PrintReport \/ Alloc \/ Clear \/ Fetch \/ PrintRow \/ Exit
           \/ ReadRtt
  BY <1>1 DEF WaitReturns, PrintReport, Alloc, Clear, Fetch, PrintRow, Exit, ReadRtt
<1>2. CASE EndSession \/ Release \/ Handler \/ PeerLost \/ Terminated \/ Refused
           \/ UNCHANGED vars
  BY <1>2 DEF EndSession, Release, Handler, HandleReport, SetFailureBit,
     PeerLost, Terminated, Refused, vars
<1> QED
  BY <1>1, <1>2 DEF Next, Console, Driver

(* A step that adds neither session nor answer nor output, apart from typing *)
(* or refusing a command, keeps OutputInv.                                   *)
LEMMA OutputKept ==
  ASSUME BenchTypeOK, OutputInv, UNCHANGED <<asked, answer, truth>>,
         pc' = "end" => pc = "end",
         drv' = "ending" => drv = "ending" \/ pc = "end",
         Output' = Output \/ ~Clean,
         Kinds(text) \cup Kinds(wire) \subseteq Kinds(text') \cup Kinds(wire'),
         asked + typed' <= sent',
         asked + typed' = sent' => asked + typed = sent
  PROVE  OutputInv'
<1>1. Clean' <=> Clean
  BY DEF Clean
<1>2. EndedAfterTimeout'
  BY DEF OutputInv, EndedAfterTimeout
<1>3. FailureShown(Kinds(text) \cup Kinds(wire))'
  BY DEF OutputInv, FailureShown
<1>4. ASSUME Clean PROVE Output' = Output
  BY <1>4
<1>5. ASSUME Clean, Output' = Output
      PROVE  /\ SummariesRise(Output, 1) => SummariesRise(Output, 1)'
             /\ Alternating(Output) => Alternating(Output)'
             /\ LinesOfCurrent' = LinesOfCurrent
  BY <1>5 DEF SummariesRise, Alternating, LinesOfCurrent
<1> QED
  BY <1>1, <1>2, <1>3, <1>4, <1>5 DEF OutputInv

(* A new session: the one before it has its two lines.                       *)
LEMMA OutputAsks ==
  ASSUME Known, OutputInv, [Next]_vars, Initiate, typed = 1, typed' = 0,
         UNCHANGED <<text, wire, sent>>
  PROVE  OutputInv'
<1>0. /\ TypeOK /\ asked \in 0..MaxSessions /\ Untouched /\ CommandPending
      /\ asked' = asked + 1 /\ asked' \in Sessions /\ sent \in 0..Expected
      /\ pc = "prompt" /\ pc' = "wait" /\ drv' = "running"
      /\ UNCHANGED <<truth, answer>> /\ Output' = Output
      /\ Output \in Seq(Lines) /\ Len(Output) \in Nat
  BY KnownTypes DEF Known, LateInv, Initiate, Sessions, Output
<1>1. truth[asked'] = "pending" /\ answer[asked'].verdict = "none"
  BY <1>0 DEF Untouched
<1>2. Clean' => Clean
  BY CleanBack DEF Known
<1>3. asked' + typed' = asked + typed /\ asked' + typed' <= sent'
  BY <1>0 DEF OutputInv
<1>4. FailureShown(Kinds(text) \cup Kinds(wire))'
  BY <1>0, <1>1 DEF OutputInv, FailureShown
<1>5. ASSUME Clean
      PROVE  /\ SummariesRise(Output, 1)'
             /\ \A j \in 1..Len(Output) : Output[j].kind = "summary" =>
                    Output[j].sid # asked'
  BY <1>0, <1>5 DEF OutputInv, SummariesRise
<1>6. ASSUME Clean, asked + typed = sent
      PROVE  Len(Output) = 2 * asked /\ Alternating(Output)
  <2>1. asked # 0 => answer[asked].verdict = "measured"
    BY <1>0, <1>6, KnownTypes DEF Clean, CommandPending, Known
  <2> QED
    BY <1>0, <1>6, <2>1 DEF OutputInv, LinesOfCurrent
<1>7. ASSUME Clean, asked + typed = sent
      PROVE  Alternating(Output)' /\ Len(Output') = 2 * (asked' - 1) + LinesOfCurrent'
  <2>1. LinesOfCurrent' = 0
    BY <1>0, <1>1 DEF LinesOfCurrent
  <2>2. Alternating(Output)'
    <3>1. \A k \in 1..asked' : k = asked' \/ k \in 1..asked
      BY <1>0
    <3> QED
      BY <1>0, <1>6, <1>7, <3>1 DEF Alternating
  <2> QED
    BY <1>0, <1>6, <1>7, <2>1, <2>2
<1>8. EndedAfterTimeout'
  BY <1>0 DEF EndedAfterTimeout
<1> QED
  BY <1>0, <1>2, <1>3, <1>4, <1>5, <1>7, <1>8 DEF OutputInv

(* A command that fails or gives up leaves its line, and nothing is clean    *)
(* any more.                                                                 *)
LEMMA OutputFails ==
  ASSUME Known, OutputInv, [Next]_vars, NEW v \in {"failed", "timedout"},
         NEW sid \in 0..MaxSessions, Say(v, sid),
         \/ v = "timedout" /\ Timeout
         \/ v = "failed" /\ PrintFailed
  PROVE  OutputInv'
<1>0. /\ TypeOK /\ CommandPending /\ asked \in 1..MaxSessions /\ asked' = asked
      /\ answer' = [answer EXCEPT ![asked] = Plain(v)]
      /\ UNCHANGED <<drv, truth, typed, sent>>
      /\ wire \in Seq(Lines) /\ text' = text /\ wire' = Append(wire, Line(v, sid))
  BY KnownTypes DEF Known, LateInv, Timeout, PrintFailed, Say, globals, driver,
     CommandPending, Printing
<1>1. answer'[asked].verdict = v /\ asked \in 1..asked
      /\ \A k \in 1..asked : k # asked => answer'[k] = answer[k]
  BY <1>0, Vocabulary DEF TypeOK, Sessions
<1>2. ~Clean'
  BY <1>0, <1>1 DEF Clean
<1>3. Line(v, sid) \in Lines /\ Line(v, sid).kind = v
  BY DEF Line, Lines
<1>4. Kinds(wire') = Kinds(wire) \cup {v}
  BY <1>0, <1>3, KindsSaid
<1>5. FailureShown(Kinds(text) \cup Kinds(wire))'
  BY <1>0, <1>1, <1>4 DEF OutputInv, FailureShown
<1>6. EndedAfterTimeout'
  <2>1. CASE v = "timedout"
    BY <1>0, <1>1, <2>1 DEF EndedAfterTimeout
  <2>2. CASE v = "failed"
    <3>1. pc' = "release" /\ PrintFailed
      BY <2>2 DEF PrintFailed
    <3>2. answer[asked].verdict # "timedout"
      BY <1>0, <3>1 DEF PrintFailed, CommandPending
    <3> QED
      BY <1>0, <1>1, <3>1, <3>2 DEF OutputInv, EndedAfterTimeout
  <2> QED
    BY <2>1, <2>2
<1>7. asked' + typed' <= sent'
  BY <1>0 DEF OutputInv
<1> QED
  BY <1>2, <1>5, <1>6, <1>7 DEF OutputInv

(* A result: its session has one line before it.                             *)
LEMMA OutputResult ==
  ASSUME Known, OutputInv, [Next]_vars, PrintEstimate, Say("result", dist)
  PROVE  OutputInv'
<1>0. /\ TypeOK /\ CommandPending /\ asked \in 1..MaxSessions /\ asked' = asked
      /\ pc = "dist" /\ pc' = "prompt" /\ dist \in 0..MaxSessions
      /\ answer' = [answer EXCEPT ![asked] = [verdict |-> "measured", rtt |-> seen,
                                              dist |-> dist, rows |-> rows]]
      /\ UNCHANGED <<drv, truth, typed, sent>>
      /\ wire \in Seq(Lines) /\ text \in Seq(Lines) /\ text' = text
      /\ wire' = Append(wire, Line("result", dist))
      /\ Output \in Seq(Lines) /\ Len(Output) \in Nat
      /\ answer[asked].verdict = "none"
  BY KnownTypes DEF Known, LateInv, PrintEstimate, Say, globals, driver,
     CommandPending, Printing, TypeOK
<1>1. answer'[asked].verdict = "measured"
      /\ \A k \in 1..asked : k # asked => answer'[k] = answer[k]
  BY <1>0 DEF TypeOK, Sessions
<1>2. Line("result", dist) \in Lines /\ Line("result", dist).kind = "result"
  BY <1>0 DEF Line, Lines
<1>3. Output' = Append(Output, Line("result", dist))
      /\ Kinds(wire') = Kinds(wire) \cup {"result"}
  BY <1>0, <1>2, OutputSaid, KindsSaid DEF Output
<1>4. FailureShown(Kinds(text) \cup Kinds(wire))'
  BY <1>0, <1>1, <1>3 DEF OutputInv, FailureShown
<1>5. EndedAfterTimeout'
  BY <1>0, <1>1 DEF OutputInv, EndedAfterTimeout
<1>6. asked' + typed' <= sent' /\ (Clean' => Clean)
  BY <1>0, CleanBack DEF OutputInv, Known
<1>7. ASSUME Clean PROVE truth[asked] = "measured" /\ dist = asked
  BY <1>0, <1>7, CleanKnows DEF IInv, ConsoleState, Printing
<1>8. ASSUME Clean PROVE SummariesRise(Output, 1)'
  <2>1. SummariesRise(Output', 1)
    BY <1>0, <1>2, <1>3, <1>8, RiseSaid DEF OutputInv
  <2> QED
    BY <1>0, <2>1 DEF SummariesRise
<1>9. ASSUME Clean, asked + typed = sent
      PROVE  Alternating(Output)' /\ Len(Output') = 2 * (asked' - 1) + LinesOfCurrent'
  <2>1. Alternating(Output) /\ Len(Output) = 2 * (asked - 1) + 1
    BY <1>0, <1>7, <1>9 DEF OutputInv, LinesOfCurrent
  <2>2. Alternating(Output') /\ Len(Output') = 2 * asked
    <3>1. Len(Output) + 1 = 2 * asked /\ asked \in Nat
      BY <1>0, <2>1
    <3>2. Alternating(Output')
      BY <1>0, <1>2, <1>3, <1>7, <1>9, <2>1, <3>1, AlternatingSaid
    <3>3. Len(Output') = Len(Output) + 1
      BY <1>0, <1>2, <1>3
    <3> QED
      BY <3>1, <3>2, <3>3
  <2>3. LinesOfCurrent' = 2
    BY <1>0, <1>1 DEF LinesOfCurrent
  <2> QED
    BY <1>0, <2>2, <2>3 DEF Alternating
<1> QED
  BY <1>0, <1>4, <1>5, <1>6, <1>7, <1>8, <1>9 DEF OutputInv

(* The end of a session: a summary, the first line of that session, if the   *)
(* peer measured it.                                                         *)
LEMMA OutputSummary ==
  ASSUME Known, OutputInv, [Next]_vars, Summarise
  PROVE  OutputInv'
<1>0. /\ TypeOK /\ CommandPending /\ asked \in 0..MaxSessions /\ asked' = asked
      /\ drv = "running" /\ drv' = "idle"
      /\ UNCHANGED <<answer, pc>>
      /\ wire \in Seq(Lines) /\ text \in Seq(Lines)
      /\ Output \in Seq(Lines) /\ Len(Output) \in Nat
      /\ \/ truth' = [truth EXCEPT ![asked] = "measured"]
         \/ truth' = [truth EXCEPT ![asked] = "failed"]
      /\ \/ truth'[asked] = "measured" /\ Say("summary", asked)
         \/ truth'[asked] # "measured" /\ UNCHANGED bench
  BY KnownTypes DEF Known, LateInv, Summarise, SessionOver, console
<1>1. /\ UNCHANGED <<typed, sent, text>>
      /\ truth \in [Sessions -> Outcomes \cup {"pending"}]
  BY <1>0 DEF Say, bench, TypeOK
<1>2. EndedAfterTimeout'
  BY <1>0 DEF OutputInv, EndedAfterTimeout
<1>3. Line("summary", asked) \in Lines /\ Line("summary", asked).kind = "summary"
      /\ Line("summary", asked).sid = asked
  BY <1>0 DEF Line, Lines
<1>4. FailureShown(Kinds(text) \cup Kinds(wire))'
  <2>1. Kinds(wire) \subseteq Kinds(wire')
    BY <1>0, <1>3, KindsSaid DEF Say, bench
  <2> QED
    BY <1>0, <1>1, <2>1 DEF OutputInv, FailureShown
<1>5. ASSUME Clean
      PROVE  /\ asked \in Sessions /\ asked \in 1..asked /\ truth[asked] = "pending"
             /\ answer[asked].verdict = "none"
  BY <1>0, <1>5, CleanKnows DEF IInv, DriverState, CommandPending, Sessions
<1>6. Clean' <=> Clean
  BY <1>0 DEF Clean
<1>7. asked' + typed' <= sent'
  BY <1>0, <1>1 DEF OutputInv
<1>8. ASSUME Clean, truth'[asked] = "measured", Say("summary", asked)
      PROVE  OutputInv'
  <2>1. Output' = Append(Output, Line("summary", asked))
    BY <1>0, <1>3, <1>8, OutputSaid DEF Output, Say
  <2>2. SummariesRise(Output', 1)
    <3>1. \A j \in 1..Len(Output) : Output[j].kind = "summary" =>
              Output[j].sid < asked
      BY <1>0, <1>5, <1>8 DEF OutputInv, SummariesRise
    <3>2. SummariesRise(Output, 1)
      BY <1>8 DEF OutputInv
    <3> QED
      BY <1>0, <1>3, <1>5, <1>8, <2>1, <3>1, <3>2, RiseSaid
  <2>3. SummariesRise(Output, 1)'
    BY <1>0, <2>2 DEF SummariesRise
  <2>4. ASSUME asked + typed = sent
        PROVE  /\ Alternating(Output)'
               /\ Len(Output') = 2 * (asked' - 1) + LinesOfCurrent'
    <3>1. Alternating(Output) /\ Len(Output) + 1 = 2 * asked - 1
      <4>1. LinesOfCurrent = 0 /\ asked # 0
        BY <1>0, <1>5, <1>8 DEF LinesOfCurrent
      <4>2. Alternating(Output) /\ Len(Output) = 2 * (asked - 1)
        BY <1>8, <2>4, <4>1, <1>0 DEF OutputInv
      <4> QED
        BY <1>0, <4>2
    <3>2. Alternating(Output') /\ Len(Output') = 2 * asked - 1
      <4>1. Alternating(Output')
        BY <1>0, <1>3, <2>1, <3>1, AlternatingSaid
      <4>2. Len(Output') = Len(Output) + 1
        BY <1>0, <1>3, <2>1
      <4> QED
        BY <1>0, <3>1, <4>1, <4>2
    <3>3. LinesOfCurrent' = 1
      BY <1>0, <1>5, <1>8 DEF LinesOfCurrent
    <3> QED
      BY <1>0, <3>2, <3>3 DEF Alternating
  <2> QED
    BY <1>0, <1>1, <1>2, <1>4, <1>5, <1>6, <1>7, <1>8, <2>3, <2>4 DEF OutputInv
<1>9. ASSUME Clean, truth'[asked] # "measured", UNCHANGED bench
      PROVE  OutputInv'
  <2>1. Output' = Output /\ truth'[asked] = "failed"
    BY <1>0, <1>1, <1>5, <1>9 DEF Output, bench
  <2>2. LinesOfCurrent' = LinesOfCurrent
    BY <1>0, <1>5, <1>9, <2>1 DEF LinesOfCurrent
  <2>3. /\ SummariesRise(Output, 1) => SummariesRise(Output, 1)'
        /\ Alternating(Output) => Alternating(Output)'
    BY <1>0, <2>1 DEF SummariesRise, Alternating
  <2> QED
    BY <1>0, <1>1, <1>2, <1>4, <1>6, <1>7, <1>9, <2>1, <2>2, <2>3 DEF OutputInv
<1> QED
  BY <1>0, <1>2, <1>4, <1>6, <1>7, <1>8, <1>9 DEF OutputInv

(* A command that is refused: its session will be missing.                   *)
LEMMA OutputRefused ==
  ASSUME Known, OutputInv, UNCHANGED vars, typed = 1, typed' = 0,
         UNCHANGED <<text, sent>>, wire' = Append(wire, Line("refused", 0))
  PROVE  OutputInv'
<1>0. /\ wire \in Seq(Lines) /\ text \in Seq(Lines)
      /\ asked \in 0..MaxSessions /\ sent \in 0..Expected /\ Expected \in Nat
      /\ UNCHANGED <<asked, answer, truth, pc, drv>>
      /\ Output \in Seq(Lines) /\ Len(Output) \in Nat
  BY KnownTypes DEF Known, vars
<1>1. Line("refused", 0) \in Lines /\ Line("refused", 0).kind = "refused"
  BY <1>0 DEF Line, Lines
<1>2. /\ Output' = Append(Output, Line("refused", 0))
      /\ Kinds(wire') = Kinds(wire) \cup {"refused"}
  BY <1>0, <1>1, OutputSaid, KindsSaid DEF Output
<1>3. asked' + typed' < sent'
  BY <1>0 DEF OutputInv
<1>4. FailureShown(Kinds(text) \cup Kinds(wire))' /\ EndedAfterTimeout'
  BY <1>0, <1>2 DEF OutputInv, FailureShown, EndedAfterTimeout
<1>5. ASSUME Clean
      PROVE  /\ SummariesRise(Output', 1)
             /\ asked # 0 /\ truth[asked] = "pending" =>
                    \A j \in 1..Len(Output') : Output'[j].kind = "summary" =>
                        Output'[j].sid # asked
  <2>1. SummariesRise(Output', 1)
    BY <1>0, <1>1, <1>2, <1>5, RiseSaid DEF OutputInv
  <2>2. /\ Len(Output') = Len(Output) + 1 /\ Output'[Len(Output) + 1].kind = "refused"
        /\ \A j \in 1..Len(Output) : Output'[j] = Output[j]
    BY <1>0, <1>1, <1>2
  <2>3. \A j \in 1..Len(Output') : j = Len(Output) + 1 \/ j \in 1..Len(Output)
    BY <1>0, <2>2
  <2> QED
    BY <1>5, <2>1, <2>2, <2>3 DEF OutputInv
<1>6. (Clean' <=> Clean) /\ (SummariesRise(Output, 1)' <=> SummariesRise(Output', 1))
  BY <1>0 DEF Clean, SummariesRise
<1>7. ~(asked' + typed' = sent')
  BY <1>0, <1>3
<1> QED
  BY <1>0, <1>3, <1>4, <1>5, <1>6, <1>7 DEF OutputInv

(* All steps together.                                                       *)
LEMMA OutputStep ==
  ASSUME Known, OutputInv, [BenchNext]_<<vars, bench>>
  PROVE  OutputInv'
<1>0. BenchTypeOK /\ EndedAfterTimeout /\ typed \in 0..1
      /\ asked \in 0..MaxSessions /\ sent \in 0..Expected /\ Expected \in Nat
      /\ wire \in Seq(Lines) /\ text \in Seq(Lines) /\ asked + typed <= sent
  BY KnownTypes DEF Known, OutputInv
<1>1. [Next]_vars
  BY BoardStep DEF BenchNext, Deliver, Send, Seen, GiveUp, Finish, ParseLine
<1>2. CASE ReadCommand
  <2>1. typed = 1 /\ typed' = 0 /\ UNCHANGED <<text, sent>>
    BY <1>0, <1>2 DEF ReadCommand
  <2>2. CASE Initiate /\ UNCHANGED wire
    BY <1>1, <2>1, <2>2, OutputAsks
  <2>3. CASE Refused /\ wire' = Append(wire, Line("refused", 0))
    BY <2>1, <2>3, OutputRefused DEF Refused
  <2>4. CASE Refused /\ UNCHANGED wire
    <3>1. /\ UNCHANGED <<asked, answer, truth, pc, drv>> /\ Output' = Output
          /\ Kinds(text') \cup Kinds(wire') = Kinds(text) \cup Kinds(wire)
      BY <2>1, <2>4 DEF Refused, vars, Output
    <3>2. asked + typed' <= sent' /\ (asked + typed' = sent' => asked + typed = sent)
      BY <1>0, <2>1
    <3> QED
      BY <1>0, <3>1, <3>2, OutputKept
  <2> QED
    BY <1>2, <2>2, <2>3, <2>4 DEF ReadCommand
<1>3. CASE \/ Timeout /\ Say("timedout", asked)
           \/ PrintFailed /\ Say("failed", asked)
  BY <1>0, <1>1, <1>3, OutputFails
<1>4. CASE PrintEstimate /\ Say("result", dist)
  BY <1>1, <1>4, OutputResult
<1>5. CASE Summarise
  BY <1>1, <1>5, OutputSummary
<1>6. CASE Terminated /\ Say("summary", asked)
  <2>1. drv = "ending" /\ drv' = "idle" /\ UNCHANGED <<asked, answer, truth, pc>>
    BY <1>6 DEF Terminated, console
  <2>2. ~Clean
    BY <2>1, CleanKnows
  <2>3. Line("summary", asked) \in Lines
    BY <1>0 DEF Line, Lines
  <2>4. Kinds(wire) \subseteq Kinds(wire') /\ UNCHANGED <<text, typed, sent>>
    BY <1>0, <1>6, <2>3, KindsSaid DEF Say
  <2> QED
    BY <1>0, <2>1, <2>2, <2>4, OutputKept
<1>7. CASE /\ \/ WaitReturns \/ PrintReport \/ Alloc \/ Clear \/ Fetch \/ PrintRow
              \/ Exit \/ ReadRtt \/ EndSession \/ Release \/ Handler \/ PeerLost
              \/ Terminated \/ UNCHANGED vars
           /\ UNCHANGED bench
  <2>1. /\ UNCHANGED <<asked, answer, truth>>
        /\ pc' = "end" => pc = "end"
        /\ drv' = "ending" => drv = "ending" \/ pc = "end"
    <3>1. CASE UNCHANGED vars
      BY <3>1 DEF vars
    <3>2. CASE ~UNCHANGED vars
      <4>1. ~Initiate /\ ~Timeout /\ ~PrintFailed /\ ~PrintEstimate /\ ~SessionOver
        BY <1>7, <3>2 DEF Initiate, Timeout, PrintFailed, PrintEstimate, WaitReturns,
           PrintReport, Alloc, Clear, Fetch, PrintRow, Exit, ReadRtt, EndSession,
           Release, Handler, HandleReport, SetFailureBit, PeerLost, Terminated,
           SessionOver, console, driver
      <4> QED
        BY <1>1, <4>1, Elsewhere
    <3> QED
      BY <3>1, <3>2
  <2>2. Output' = Output /\ UNCHANGED <<text, wire, typed, sent>>
    BY <1>7 DEF bench, Output
  <2> QED
    BY <1>0, <2>1, <2>2, OutputKept
<1>8. CASE Deliver
  <2>1. UNCHANGED <<asked, answer, truth, pc, drv, typed, sent>>
        /\ wire # <<>> /\ text' = Append(text, Head(wire)) /\ wire' = Tail(wire)
    BY <1>8 DEF Deliver, vars
  <2>2. Output' = Output
    BY <1>0, <2>1, OutputArrived DEF Output
  <2>3. Kinds(text) \cup Kinds(wire) \subseteq Kinds(text') \cup Kinds(wire')
    <3>1. Head(wire) \in Lines
      BY <1>0, <2>1
    <3> QED
      BY <1>0, <2>1, <3>1, KindsSaid, KindsArrived
  <2> QED
    BY <1>0, <2>1, <2>2, <2>3, OutputKept
<1>9. CASE Send \/ Seen \/ GiveUp \/ Finish \/ ParseLine
  <2>1. /\ UNCHANGED <<asked, answer, truth, pc, drv, text, wire>>
        /\ \/ UNCHANGED <<typed, sent>>
           \/ typed' = typed + 1 /\ sent' = sent + 1
    BY <1>9 DEF Send, Seen, GiveUp, Finish, ParseLine, vars
  <2>2. Output' = Output
    BY <2>1 DEF Output
  <2>3. asked + typed' <= sent' /\ (asked + typed' = sent' => asked + typed = sent)
    BY <1>0, <2>1
  <2> QED
    BY <1>0, <2>1, <2>2, <2>3, OutputKept
<1> QED
  BY <1>2, <1>3, <1>4, <1>5, <1>6, <1>7, <1>8, <1>9 DEF BenchNext, Board

-----------------------------------------------------------------------------
(* Even or odd.                                                              *)
LEMMA Halved == ASSUME NEW n \in Nat PROVE \E h \in Nat : n = 2 * h \/ n = 2 * h + 1
<1>1. n \div 2 \in Nat /\ (n = 2 * (n \div 2) \/ n = 2 * (n \div 2) + 1)
  OBVIOUS
<1> QED
  BY <1>1

(* The lists the parser builds.                                              *)
LEMMA UpToNext ==
  ASSUME NEW k \in Nat
  PROVE  /\ UpTo(k) \in Seq(Nat) /\ Len(UpTo(k)) = k
         /\ Append(UpTo(k), k + 1) = UpTo(k + 1)
<1>1. ASSUME NEW n \in Nat
      PROVE  UpTo(n) \in Seq(Nat) /\ Len(UpTo(n)) = n /\ \A i \in 1..n : UpTo(n)[i] = i
  BY DEF UpTo
<1>2. /\ Append(UpTo(k), k + 1) \in Seq(Nat)
      /\ Len(Append(UpTo(k), k + 1)) = k + 1
      /\ \A i \in 1..(k + 1) : Append(UpTo(k), k + 1)[i] = i
  BY <1>1
<1>3. /\ UpTo(k + 1) \in Seq(Nat) /\ Len(UpTo(k + 1)) = k + 1
      /\ \A i \in 1..(k + 1) : UpTo(k + 1)[i] = i
  BY <1>1
<1> QED
  BY <1>1, <1>2, <1>3, SeqEqual

(* The transcript is taken when the last command has been answered, so it    *)
(* has every line that counts.                                               *)
LEMMA FinishStep ==
  ASSUME Known, OutputInv, Finish
  PROVE  ParseInv'
<1>0. /\ host = "ready" /\ sent = Expected /\ sent' = Expected /\ typed = 0
      /\ ~OnWire /\ transcript' = text /\ parsedTo' = 0 /\ parsed' = NothingParsed
      /\ UNCHANGED <<asked, answer, truth>> /\ Resting
      /\ text \in Seq(Lines) /\ wire \in Seq(Lines) /\ asked \in 0..MaxSessions
      /\ Expected \in 1..MaxSessions /\ MaxSessions \in Nat
      /\ \A k \in 1..asked :
             answer[k].verdict \in {"none", "measured", "failed", "timedout"}
  BY KnownTypes DEF Known, Finish, LockInv, vars
<1>1. (Clean' <=> Clean) /\ Len(parsed'.sessions) = 0
  BY <1>0 DEF Clean, NothingParsed
<1>2. FailureShown(Kinds(transcript))'
  <2>1. \A v \in {"failed", "timedout"} : v \notin Kinds(wire)
    BY <1>0 DEF OnWire, Kinds, Terminators
  <2> QED
    BY <1>0, <2>1 DEF OutputInv, FailureShown
<1>3. /\ Len(text) \in Nat /\ Len(wire) \in Nat
      /\ Output \in Seq(Lines) /\ Len(Output) = Len(text) + Len(wire)
      /\ \A i \in 1..(Len(text) + Len(wire)) :
             Output[i] = IF i <= Len(text) THEN text[i] ELSE wire[i - Len(text)]
  BY <1>0, ConcatProperties, LenProperties DEF Output
<1>4. ASSUME Clean
      PROVE  /\ SummariesRise(transcript, parsedTo + 1)'
             /\ \A j \in (parsedTo' + 1)..Len(transcript') :
                    transcript'[j].kind = "summary" => transcript'[j].sid > 0
  <2>1. SummariesRise(Output, 1)
    BY <1>4 DEF OutputInv
  <2>2. \A i \in 1..Len(text) : i \in 1..Len(Output) /\ Output[i] = text[i]
    BY <1>3
  <2>3. SummariesRise(text, 1)
    BY <2>1, <2>2 DEF SummariesRise
  <2> QED
    BY <1>0, <2>3 DEF SummariesRise
<1>5. ASSUME Clean, asked = Expected
      PROVE  Len(text) = 2 * Expected /\ Alternating(text)
  <2>1. answer[asked].verdict = "measured"
    BY <1>0, <1>5 DEF Known, LockInv, Clean
  <2>2. Alternating(Output) /\ Len(Output) = 2 * asked
    BY <1>0, <1>5, <2>1 DEF OutputInv, LinesOfCurrent
  <2>3. Output[2 * asked] = Line("result", asked)
    BY <1>0, <1>5, <2>2 DEF Alternating
  <2>4. Len(wire) = 0
    <3>1. ASSUME Len(wire) > 0 PROVE FALSE
      <4>1. Output[2 * asked] = wire[Len(wire)] /\ Len(wire) \in DOMAIN wire
        BY <1>0, <1>3, <2>2, <3>1
      <4> QED
        BY <1>0, <2>3, <4>1 DEF OnWire, Line, Terminators
    <3> QED
      BY <1>3, <3>1
  <2>5. Output = text
    BY <1>0, <1>3, <2>4, SeqEqual
  <2> QED
    BY <1>5, <2>2, <2>5
<1>6. ASSUME Clean, asked = Expected
      PROVE  \E k \in 0..Expected :
                 /\ parsed'.distances = UpTo(k)
                 /\ parsedTo' = 2 * k /\ parsed'.sessions = UpTo(k)
  <2>1. UpTo(0) = <<>>
    BY DEF UpTo
  <2>2. parsed'.distances = <<>> /\ parsed'.sessions = <<>> /\ parsedTo' = 0
    BY <1>0 DEF NothingParsed
  <2>3. 0 \in 0..Expected /\ 2 * 0 = 0
    BY <1>0
  <2> QED
    BY <2>1, <2>2, <2>3
<1>7. (Clean => /\ SummariesRise(transcript, parsedTo + 1)
                /\ Len(parsed.sessions) <= asked
                /\ \A j \in (parsedTo + 1)..Len(transcript) :
                       transcript[j].kind = "summary" =>
                           Len(parsed.sessions) < transcript[j].sid)'
  BY <1>0, <1>1, <1>4
<1>8. (Clean /\ asked = Expected =>
           /\ Len(transcript) = 2 * Expected
           /\ Alternating(transcript))'
  BY <1>0, <1>1, <1>5 DEF Alternating
<1> QED
  BY <1>0, <1>1, <1>2, <1>6, <1>7, <1>8 DEF ParseInv

(* A turn of the loop: the summaries still to come are of later sessions, so *)
(* there are never more of them than sessions; and while lines alternate, a  *)
(* distance finds the session it is of.                                      *)
LEMMA ParseStep ==
  ASSUME Known, ParseInv, ParseLine
  PROVE  ParseInv'
<1> DEFINE l == transcript[parsedTo + 1]
<1>0. /\ host = "done" /\ UNCHANGED <<host, sent, transcript, asked, answer>>
      /\ parsedTo' = parsedTo + 1 /\ parsed' = ReadLine(l)
      /\ parsedTo \in Nat /\ parsedTo < Len(transcript) /\ Len(transcript) \in Nat
      /\ l \in Lines /\ asked \in 0..MaxSessions /\ MaxSessions \in Nat
      /\ Expected \in Nat
      /\ parsed \in [sessions : Seq(0..MaxSessions), distances : Seq(0..MaxSessions)]
  <2>1. parsedTo \in 0..Len(transcript) /\ transcript \in Seq(Lines)
    BY DEF Known, BenchTypeOK
  <2>2. parsed \in [sessions : Seq(0..MaxSessions), distances : Seq(0..MaxSessions)]
    BY DEF Known, BenchTypeOK
  <2>3. /\ host = "done" /\ UNCHANGED <<host, sent, transcript, asked, answer>>
        /\ parsedTo' = parsedTo + 1 /\ parsed' = ReadLine(l)
        /\ parsedTo < Len(transcript)
    BY DEF ParseLine, vars
  <2>4. l \in Lines
    BY <2>1, <2>3
  <2> QED
    BY <2>1, <2>2, <2>3, <2>4, KnownTypes DEF Known
<1>1. Clean' <=> Clean
  BY <1>0 DEF Clean
<1>2. FailureShown(Kinds(transcript))' /\ sent' = Expected
  BY <1>0 DEF ParseInv, FailureShown
<1>3. /\ Len(parsed.sessions) \in Nat /\ Len(parsed.distances) \in Nat
      /\ l.kind = "summary" => /\ parsed'.sessions = Append(parsed.sessions, l.sid)
                               /\ parsed'.distances = parsed.distances
                               /\ Len(parsed'.sessions) = Len(parsed.sessions) + 1
      /\ l.kind # "summary" => parsed'.sessions = parsed.sessions
      /\ l.kind = "result" /\ Len(parsed.distances) < Len(parsed.sessions) =>
             parsed'.distances = Append(parsed.distances, l.sid)
  <2>1. parsed.sessions \in Seq(0..MaxSessions) /\ parsed.distances \in Seq(0..MaxSessions)
        /\ l.sid \in 0..MaxSessions
    BY <1>0 DEF Lines
  <2>2. Len(Append(parsed.sessions, l.sid)) = Len(parsed.sessions) + 1
    BY <2>1
  <2> HIDE DEF l
  <2> QED
    BY <1>0, <2>1, <2>2 DEF ReadLine
<1> HIDE DEF l
<1>4. ASSUME Clean
      PROVE  /\ SummariesRise(transcript, parsedTo + 1)'
             /\ Len(parsed'.sessions) <= asked'
             /\ \A j \in (parsedTo' + 1)..Len(transcript') :
                    transcript'[j].kind = "summary" =>
                        Len(parsed'.sessions) < transcript'[j].sid
  <2>1. /\ SummariesRise(transcript, parsedTo + 1) /\ Len(parsed.sessions) <= asked
        /\ \A j \in (parsedTo + 1)..Len(transcript) : transcript[j].kind = "summary" =>
               Len(parsed.sessions) < transcript[j].sid
    BY <1>0, <1>4 DEF ParseInv
  <2>2. /\ parsedTo + 1 \in (parsedTo + 1)..Len(transcript)
        /\ \A j \in (parsedTo' + 1)..Len(transcript') :
               j \in (parsedTo + 1)..Len(transcript) /\ parsedTo + 1 < j
    BY <1>0
  <2>3. SummariesRise(transcript, parsedTo + 1)'
    BY <1>0, <2>1, <2>2 DEF SummariesRise
  <2>4. CASE l.kind = "summary"
    <3>1. /\ Len(parsed.sessions) < l.sid /\ l.sid \in 1..asked
          /\ \A j \in (parsedTo' + 1)..Len(transcript') :
                 transcript[j].kind = "summary" =>
                     l.sid < transcript[j].sid /\ transcript[j].sid \in 1..asked
      BY <2>1, <2>2, <2>4 DEF SummariesRise, l
    <3> QED
      BY <1>0, <1>3, <2>3, <2>4, <3>1
  <2>5. CASE l.kind # "summary"
    BY <1>0, <1>3, <2>1, <2>2, <2>3, <2>5
  <2> QED
    BY <2>4, <2>5
<1>5. ASSUME Clean, asked = Expected
      PROVE  /\ Len(transcript') = 2 * Expected /\ Alternating(transcript)'
             /\ \E k \in 0..Expected :
                    /\ parsed'.distances = UpTo(k)
                    /\ \/ parsedTo' = 2 * k /\ parsed'.sessions = UpTo(k)
                       \/ parsedTo' = 2 * k + 1 /\ parsed'.sessions = UpTo(k + 1)
  <2>1. Len(transcript) = 2 * Expected /\ Alternating(transcript)
    BY <1>0, <1>5 DEF ParseInv
  <2>2. PICK k \in 0..Expected :
            /\ parsed.distances = UpTo(k)
            /\ \/ parsedTo = 2 * k /\ parsed.sessions = UpTo(k)
               \/ parsedTo = 2 * k + 1 /\ parsed.sessions = UpTo(k + 1)
    BY <1>0, <1>5 DEF ParseInv
  <2>3. k \in Nat /\ k + 1 \in Nat /\ k + 1 <= Expected
    BY <1>0, <2>1, <2>2
  <2>4. CASE parsedTo = 2 * k /\ parsed.sessions = UpTo(k)
    <3>1. l = Line("summary", k + 1)
      <4>1. k + 1 \in 1..asked /\ 2 * (k + 1) - 1 = parsedTo + 1
            /\ 2 * (k + 1) - 1 <= Len(transcript)
        BY <1>0, <1>5, <2>1, <2>3, <2>4
      <4> QED
        BY <2>1, <4>1 DEF Alternating, l
    <3>2. l.kind = "summary" /\ l.sid = k + 1
      BY <3>1 DEF Line
    <3>3. parsed'.sessions = UpTo(k + 1) /\ parsed'.distances = UpTo(k)
      BY <1>3, <2>2, <2>3, <2>4, <3>2, UpToNext
    <3>4. parsedTo' = 2 * k + 1
      BY <1>0, <2>4
    <3> QED
      BY <1>0, <2>1, <3>3, <3>4 DEF Alternating
  <2>5. CASE parsedTo = 2 * k + 1 /\ parsed.sessions = UpTo(k + 1)
    <3>1. l = Line("result", k + 1)
      <4>1. k + 1 \in 1..asked /\ 2 * (k + 1) = parsedTo + 1
            /\ 2 * (k + 1) <= Len(transcript)
        BY <1>0, <1>5, <2>1, <2>3, <2>5
      <4> QED
        BY <2>1, <4>1 DEF Alternating, l
    <3>2. l.kind = "result" /\ l.sid = k + 1
      BY <3>1 DEF Line
    <3>3. Len(parsed.distances) = k /\ Len(parsed.sessions) = k + 1
      BY <2>2, <2>3, <2>5, UpToNext
    <3>4. parsed'.sessions = UpTo(k + 1) /\ parsed'.distances = UpTo(k + 1)
      <4>1. parsed'.sessions = parsed.sessions
            /\ parsed'.distances = Append(parsed.distances, l.sid)
        BY <1>3, <2>3, <3>2, <3>3
      <4> QED
        BY <2>2, <2>3, <2>5, <3>2, <4>1, UpToNext
    <3>5. parsedTo' = 2 * (k + 1) /\ k + 1 \in 0..Expected
      BY <1>0, <2>3, <2>5
    <3>6. Len(transcript') = 2 * Expected /\ Alternating(transcript)'
      BY <1>0, <2>1 DEF Alternating
    <3> QED
      BY <3>4, <3>5, <3>6
  <2> QED
    BY <2>2, <2>4, <2>5
<1> QED
  BY <1>0, <1>1, <1>2, <1>4, <1>5 DEF ParseInv

(* Once the host is done the board has nothing to answer.                    *)
LEMMA ParseKept ==
  ASSUME Known, ParseInv, [BenchNext]_<<vars, bench>>, ~Finish, ~ParseLine
  PROVE  ParseInv'
<1> SUFFICES ASSUME host' = "done" PROVE ParseInv'
  BY DEF ParseInv
<1>1. host = "done" /\ UNCHANGED <<judgement, sent>>
  BY DEF BenchNext, Board, Summarise, ReadCommand, Say, Deliver, Send, Seen, GiveUp,
         bench, judgement
<1>2. Resting /\ typed = 0
  BY <1>1, KnownTypes DEF Known, LockInv
<1>3. UNCHANGED <<asked, answer>>
  <2>1. CASE UNCHANGED vars
    BY <2>1 DEF vars
  <2>2. CASE ~UNCHANGED vars
    <3>1. Board \/ Summarise
      BY <1>1, <2>2 DEF BenchNext, Deliver, Send, Seen, GiveUp
    <3>2. ~Timeout /\ ~PrintFailed /\ ~PrintEstimate
      BY <1>2 DEF Resting, Timeout, PrintFailed, PrintEstimate
    <3>3. ~Initiate
      <4>1. ~ReadCommand
        BY <1>2 DEF ReadCommand
      <4> QED
        BY <3>1, <3>2, <4>1 DEF Board, Summarise, Initiate, WaitReturns, PrintReport,
           Alloc, Clear, Fetch, PrintRow, Exit, ReadRtt, EndSession, Release, Handler,
           HandleReport, SetFailureBit, PeerLost, Terminated, SessionOver, console,
           driver
    <3> QED
      BY <3>1, <3>2, <3>3, BoardStep, UnderWay, KnownTypes DEF Known
  <2> QED
    BY <2>1, <2>2
<1>4. UNCHANGED <<transcript, parsed, parsedTo>> /\ (Clean' <=> Clean)
  BY <1>1, <1>3 DEF judgement, Clean
<1> QED
  BY <1>1, <1>3, <1>4 DEF ParseInv, FailureShown, SummariesRise, Alternating

-----------------------------------------------------------------------------

VerdictInv == BenchInv /\ LateInv /\ OutputInv /\ ParseInv

(* The invariant holds in every run.                                         *)
LEMMA VerdictAlways == BenchSpec => []VerdictInv
<1>1. BenchInit => VerdictInv
  <2> SUFFICES ASSUME BenchInit PROVE VerdictInv
    OBVIOUS
  <2>1. BenchInv
    BY BenchInitInv
  <2>2. LateInv
    BY LateInit DEF BenchInit
  <2>3. OutputInv
    <3>1. /\ asked = 0 /\ typed = 0 /\ sent = 0 /\ pc = "prompt" /\ drv = "idle"
          /\ text = <<>> /\ wire = <<>>
      BY DEF BenchInit, Init, Service!Init
    <3>2. Output = <<>> /\ Len(Output) = 0
      BY <3>1 DEF Output
    <3> QED
      BY <3>1, <3>2 DEF OutputInv, EndedAfterTimeout, FailureShown, SummariesRise,
         Alternating
  <2>4. ParseInv
    BY DEF BenchInit, ParseInv
  <2> QED
    BY <2>1, <2>2, <2>3, <2>4 DEF VerdictInv
<1>2. VerdictInv /\ [BenchNext]_<<vars, bench>> => VerdictInv'
  <2> SUFFICES ASSUME VerdictInv, [BenchNext]_<<vars, bench>> PROVE VerdictInv'
    OBVIOUS
  <2>0. Known /\ OutputInv /\ ParseInv /\ LateInv /\ BenchInv
    BY DEF VerdictInv, Known, BenchInv, OutputInv
  <2>1. BenchInv'
    BY <2>0, BenchStep
  <2>2. LateInv'
    <3>1. [Next]_vars
      BY BoardStep DEF BenchNext, Deliver, Send, Seen, GiveUp, Finish, ParseLine
    <3> QED
      BY <2>0, <3>1, LateStep
  <2>3. OutputInv'
    BY <2>0, OutputStep
  <2>4. ParseInv'
    BY <2>0, FinishStep, ParseStep, ParseKept
  <2> QED
    BY <2>1, <2>2, <2>3, <2>4 DEF VerdictInv
<1> QED
  BY <1>1, <1>2, PTL DEF BenchSpec

(* What the invariant says of a judged run: it passes exactly if it was      *)
(* clean and complete, and then the parser has seen sessions and distances   *)
(* one to one.                                                               *)
LEMMA VerdictMeans ==
  ASSUME VerdictInv, Judged
  PROVE  /\ Passed <=> \A k \in 1..Expected : answer[k].verdict = "measured"
         /\ Passed => parsed.distances = parsed.sessions
<1>0. /\ asked \in 0..MaxSessions /\ Expected \in 1..MaxSessions /\ MaxSessions \in Nat
      /\ sent = Expected /\ asked + typed <= sent /\ typed \in 0..1
      /\ \A k \in 1..asked :
             answer[k].verdict \in {"none", "measured", "failed", "timedout"}
      /\ host = "done" /\ parsedTo = Len(transcript)
      /\ parsed \in [sessions : Seq(0..MaxSessions), distances : Seq(0..MaxSessions)]
      /\ transcript \in Seq(Lines)
  <2>1. BenchTypeOK
    BY DEF VerdictInv, BenchInv
  <2> QED
    BY <2>1, KnownTypes DEF VerdictInv, OutputInv, ParseInv, Judged, BenchTypeOK
<1>1. \A k \in 1..asked : answer[k].verdict # "none"
  <2>1. Resting
    BY <1>0, KnownTypes DEF VerdictInv, BenchInv, LockInv
  <2> QED
    BY <2>1 DEF VerdictInv, BenchInv, LockInv
<1>2. ASSUME Passed
      PROVE  asked = Expected /\ \A k \in 1..Expected : answer[k].verdict = "measured"
  <2>1. Clean
    BY <1>0, <1>2 DEF VerdictInv, ParseInv, FailureShown, Passed, Clean
  <2>2. Len(parsed.sessions) <= asked /\ Len(parsed.sessions) = Expected
    BY <1>0, <1>2, <2>1 DEF VerdictInv, ParseInv, Passed
  <2>3. asked = Expected
    BY <1>0, <2>2
  <2> QED
    BY <1>0, <1>1, <2>1, <2>3 DEF Clean
<1>3. ASSUME \A k \in 1..Expected : answer[k].verdict = "measured"
      PROVE  asked = Expected /\ Clean
  <2>1. ASSUME asked < Expected PROVE FALSE
    <3>1. Expected \in Sessions /\ Expected > asked
      BY <1>0, <2>1 DEF Sessions
    <3>2. answer[Expected].verdict = "none"
      BY <3>1 DEF VerdictInv, BenchInv, Untouched
    <3> QED
      BY <1>0, <1>3, <3>2
  <2>2. asked = Expected
    BY <1>0, <2>1
  <2> QED
    BY <1>3, <2>2 DEF Clean
<1>4. ASSUME asked = Expected, Clean
      PROVE  Passed /\ parsed.distances = parsed.sessions
  <2>1. /\ Len(transcript) = 2 * Expected /\ Alternating(transcript)
        /\ \E k \in 0..Expected :
               /\ parsed.distances = UpTo(k)
               /\ \/ parsedTo = 2 * k /\ parsed.sessions = UpTo(k)
                  \/ parsedTo = 2 * k + 1 /\ parsed.sessions = UpTo(k + 1)
    BY <1>0, <1>4 DEF VerdictInv, ParseInv
  <2>2. parsed.distances = UpTo(Expected) /\ parsed.sessions = UpTo(Expected)
    BY <1>0, <2>1
  <2>3. Len(parsed.sessions) = Expected /\ Len(parsed.distances) = Expected
    BY <1>0, <2>2, UpToNext
  <2>4. Kinds(transcript) \cap {"failed", "timedout"} = {}
    <3>1. ASSUME NEW i \in DOMAIN transcript
          PROVE  transcript[i].kind \in {"summary", "result"}
      <4>1. i \in 1..(2 * Expected)
        BY <1>0, <2>1
      <4>2. PICK k \in 1..Expected : i = 2 * k - 1 \/ i = 2 * k
        <5>1. PICK h \in Nat : i = 2 * h \/ i = 2 * h + 1
          <6>1. i \in Nat
            BY <1>0, <4>1
          <6> QED
            BY <6>1, Halved
        <5>2. i = 2 * h => h \in 1..Expected
          BY <1>0, <4>1, <5>1
        <5>3. i = 2 * h + 1 => h + 1 \in 1..Expected /\ i = 2 * (h + 1) - 1
          BY <1>0, <4>1, <5>1
        <5> QED
          BY <5>1, <5>2, <5>3
      <4>3. transcript[i] = Line("summary", k) \/ transcript[i] = Line("result", k)
        <5>1. k \in 1..asked /\ i <= Len(transcript)
          BY <1>0, <1>4, <2>1, <4>1
        <5> QED
          BY <2>1, <4>2, <5>1 DEF Alternating
      <4> QED
        BY <4>3 DEF Line
    <3> QED
      BY <3>1 DEF Kinds
  <2> QED
    BY <2>2, <2>3, <2>4 DEF Passed
<1>5. Passed => Clean /\ asked = Expected
  BY <1>2, <1>3
<1> QED
  BY <1>2, <1>3, <1>4, <1>5

(* For any number of commands, sessions and entries, and however late the    *)
(* driver reports: a run passes exactly if the board printed a measurement   *)
(* for each of its commands.                                                 *)
THEOREM VerdictIsEarnedHolds == BenchSpec => []VerdictIsEarned
<1>1. VerdictInv => VerdictIsEarned
  BY VerdictMeans DEF VerdictIsEarned
<1> QED
  BY VerdictAlways, <1>1, PTL

(* A run that passes has given every session the distance of that session.   *)
THEOREM PassedIsOwnHolds == BenchSpec => []PassedIsOwn
<1>1. VerdictInv => PassedIsOwn
  BY VerdictMeans DEF PassedIsOwn
<1> QED
  BY VerdictAlways, <1>1, PTL
=============================================================================

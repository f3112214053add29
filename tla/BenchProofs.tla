---------------------------- MODULE BenchProofs -----------------------------
(***************************************************************************)
(* Host and board stay in step, for every number of commands, sessions and *)
(* entries, however late the driver reports and whatever malloc does.      *)
(***************************************************************************)
EXTENDS BenchRun, FtmSessionProofs

USE ConstantsAssumption, BenchAssumption

\* the terminators among the lines of s, and that there is but one
Ended(s) == \E i \in DOMAIN s : s[i].kind \in Terminators
EndedOnce(s) ==
    \A i, j \in DOMAIN s :
        s[i].kind \in Terminators /\ s[j].kind \in Terminators => i = j

(* A line that is printed joins those on the wire.                           *)
LEMMA Said ==
  ASSUME NEW w \in Seq(Lines), NEW l \in Lines
  PROVE  /\ Append(w, l) \in Seq(Lines)
         /\ Ended(Append(w, l)) <=> Ended(w) \/ l.kind \in Terminators
         /\ EndedOnce(w) /\ (~Ended(w) \/ l.kind \notin Terminators)
            => EndedOnce(Append(w, l))
<1> DEFINE v == Append(w, l)
<1>1. /\ v \in Seq(Lines) /\ Len(w) \in Nat /\ Len(w) + 1 \in DOMAIN v
      /\ v[Len(w) + 1] = l
      /\ \A i \in DOMAIN w : i \in DOMAIN v /\ v[i] = w[i]
      /\ \A i \in DOMAIN v : i = Len(w) + 1 \/ i \in DOMAIN w
  OBVIOUS
<1> HIDE DEF v
<1>2. Ended(v) <=> Ended(w) \/ l.kind \in Terminators
  BY <1>1 DEF Ended
<1>3. EndedOnce(w) /\ (~Ended(w) \/ l.kind \notin Terminators) => EndedOnce(v)
  BY <1>1 DEF Ended, EndedOnce
<1> QED
  BY <1>1, <1>2, <1>3 DEF v

(* A line that arrives leaves the wire for the text.                         *)
LEMMA Arrived ==
  ASSUME BenchTypeOK, Deliver
  PROVE  /\ wire' \in Seq(Lines) /\ text' \in Seq(Lines) /\ Len(text') = Len(text) + 1
         /\ Answered' <=> Answered \/ Head(wire).kind \in Terminators
         /\ OnWire <=> Head(wire).kind \in Terminators \/ OnWire'
         /\ EndedOnce(wire) => /\ EndedOnce(wire')
                               /\ Head(wire).kind \in Terminators => ~OnWire'
<1>1. /\ wire \in Seq(Lines) /\ wire # <<>> /\ wire' = Tail(wire)
      /\ text \in Seq(Lines) /\ text' = Append(text, Head(wire)) /\ mark' = mark
      /\ mark \in 0..Len(text)
  BY DEF BenchTypeOK, Deliver
<1>2. /\ 1 \in DOMAIN wire /\ Head(wire) = wire[1] /\ Head(wire) \in Lines
      /\ wire' \in Seq(Lines)
      /\ \A i \in DOMAIN wire' : /\ i \in Nat /\ i >= 1 /\ i + 1 \in DOMAIN wire
                                 /\ wire'[i] = wire[i + 1]
      /\ \A i \in DOMAIN wire : i # 1 => i - 1 \in DOMAIN wire' /\ wire'[i - 1] = wire[i]
  BY <1>1
<1>3. /\ text' \in Seq(Lines) /\ Len(text') = Len(text) + 1 /\ Len(text) \in Nat
      /\ text'[Len(text) + 1] = Head(wire)
      /\ \A i \in 1..Len(text) : text'[i] = text[i]
  BY <1>1, <1>2
<1>4. Answered' <=> Answered \/ Head(wire).kind \in Terminators
  <2>1. \A i : i \in (mark + 1)..Len(text') <=>
                   i = Len(text) + 1 \/ i \in (mark + 1)..Len(text)
    BY <1>1, <1>3
  <2>2. \A i \in (mark + 1)..Len(text) : text'[i] = text[i]
    BY <1>1, <1>3
  <2> QED
    BY <1>1, <1>3, <2>1, <2>2 DEF Answered
<1>5. OnWire <=> Head(wire).kind \in Terminators \/ OnWire'
  BY <1>2 DEF OnWire
<1>6. ASSUME EndedOnce(wire)
      PROVE  EndedOnce(wire') /\ (Head(wire).kind \in Terminators => ~OnWire')
  <2>1. ASSUME NEW i \in DOMAIN wire', NEW j \in DOMAIN wire',
               wire'[i].kind \in Terminators, wire'[j].kind \in Terminators
        PROVE  i = j
    <3>1. i + 1 = j + 1
      BY <1>2, <1>6, <2>1 DEF EndedOnce
    <3> QED
      BY <1>2, <3>1
  <2>2. ASSUME Head(wire).kind \in Terminators, NEW i \in DOMAIN wire',
               wire'[i].kind \in Terminators
        PROVE  FALSE
    <3>1. i + 1 = 1
      BY <1>2, <1>6, <2>2 DEF EndedOnce
    <3> QED
      BY <1>2, <3>1
  <2> QED
    BY <2>1, <2>2 DEF OnWire, EndedOnce
<1> QED
  BY <1>2, <1>3, <1>4, <1>5, <1>6

(* What the board does in the bench is a step of FtmSession.                 *)
LEMMA BoardStep == Board \/ Summarise => [Next]_vars
  BY DEF Board, Summarise, ReadCommand, Next, Console, Driver, vars

(* Only these three, and the start of a session, change whether a command is *)
(* under way and what has been answered.                                     *)
LEMMA UnderWay ==
  ASSUME TypeOK, [Next]_vars, ~Initiate, ~Timeout, ~PrintFailed, ~PrintEstimate
  PROVE  UNCHANGED <<asked, answer>> /\ (Resting' <=> Resting)
<1> USE DEF Resting, console
<1>1. CASE WaitReturns \/ PrintReport \/ Alloc \/ Clear \/ Fetch \/ PrintRow \/ Exit
           \/ ReadRtt
  BY <1>1 DEF WaitReturns, PrintReport, Alloc, Clear, Fetch, PrintRow, Exit, ReadRtt
<1>2. CASE EndSession \/ Release \/ Handler \/ Driver \/ Refused \/ UNCHANGED vars
  BY <1>2 DEF EndSession, Release, Handler, HandleReport, SetFailureBit, Driver,
     SessionOver, PeerLost, Terminated, Refused, vars
<1> QED
  BY <1>1, <1>2 DEF Next, Console

(* A turn of the parser: it takes a line as a session, as a distance, or not *)
(* at all.                                                                   *)
LEMMA ReadTypes ==
  ASSUME BenchTypeOK, NEW l \in Lines
  PROVE  ReadLine(l) \in [sessions : Seq(0..MaxSessions),
                         distances : Seq(0..MaxSessions)]
<1>1. l.sid \in 0..MaxSessions
  BY DEF Lines
<1>2. parsed.sessions \in Seq(0..MaxSessions) /\ parsed.distances \in Seq(0..MaxSessions)
      /\ parsed = [sessions |-> parsed.sessions, distances |-> parsed.distances]
  BY DEF BenchTypeOK
<1>3. /\ Append(parsed.sessions, l.sid) \in Seq(0..MaxSessions)
      /\ Append(parsed.distances, l.sid) \in Seq(0..MaxSessions)
  BY <1>1, <1>2
<1> QED
  BY <1>2, <1>3 DEF ReadLine

(* The types, with those of the board.                                       *)
LEMMA BenchTypeStep ==
  BenchTypeOK /\ LockInv /\ [BenchNext]_<<vars, bench>> => BenchTypeOK'
<1> SUFFICES ASSUME BenchTypeOK, LockInv, [BenchNext]_<<vars, bench>>
             PROVE  BenchTypeOK'
  OBVIOUS
<1> USE DEF BenchTypeOK, bench, judgement
<1>0. TypeOK'
  <2>1. [Next]_vars
    BY BoardStep DEF BenchNext, Deliver, Send, Seen, GiveUp, Finish, ParseLine
  <2> QED
    BY <2>1, TypeStep
<1>a. \A kind \in {"summary", "result", "failed", "timedout", "refused"},
         sid \in 0..MaxSessions : Append(wire, Line(kind, sid)) \in Seq(Lines)
  BY DEF Line, Lines
<1>b. asked \in 0..MaxSessions /\ dist \in 0..MaxSessions /\ 0 \in 0..MaxSessions
  BY DEF TypeOK
<1>1. CASE Board \/ Summarise
  <2>1. CASE ReadCommand
    <3>1. wire' \in Seq(Lines)
      BY <1>a, <1>b, <2>1 DEF ReadCommand
    <3>2. typed' \in 0..1 /\ UNCHANGED <<text, host, sent, mark, judgement>>
      BY <2>1 DEF ReadCommand
    <3>3. silent' \in BOOLEAN
      BY <2>1 DEF ReadCommand
    <3> QED
      BY <1>0, <3>1, <3>2, <3>3
  <2>2. CASE UNCHANGED bench
    BY <1>0, <2>2
  <2>3. ASSUME NEW kind \in {"summary", "result", "failed", "timedout"},
               NEW sid \in 0..MaxSessions, Say(kind, sid)
        PROVE  BenchTypeOK'
    BY <1>0, <1>a, <2>3 DEF Say
  <2> QED
    BY <1>1, <1>b, <2>1, <2>2, <2>3 DEF Board, Summarise
<1>2. CASE Deliver
  <2>1. /\ wire' \in Seq(Lines) /\ text' \in Seq(Lines)
        /\ mark \in 0..Len(text')
    BY <1>2, Arrived
  <2> QED
    BY <1>0, <1>2, <2>1 DEF Deliver
<1>3. CASE Send
  <2>1. typed = 0 /\ sent' \in 0..Expected
    BY <1>3 DEF Send, LockInv
  <2> QED
    BY <1>0, <1>3, <2>1 DEF Send
<1>4. CASE Seen \/ GiveUp \/ UNCHANGED <<vars, bench>>
  BY <1>0, <1>4 DEF Seen, GiveUp
<1>5. CASE Finish
  <2>1. NothingParsed \in [sessions : Seq(0..MaxSessions),
                          distances : Seq(0..MaxSessions)]
    BY DEF NothingParsed
  <2>2. transcript' \in Seq(Lines) /\ parsedTo' \in 0..Len(transcript')
    BY <1>5 DEF Finish
  <2> QED
    BY <1>0, <1>5, <2>1, <2>2 DEF Finish
<1>6. CASE ParseLine
  <2>1. transcript[parsedTo + 1] \in Lines /\ parsedTo' \in 0..Len(transcript')
    BY <1>6 DEF ParseLine
  <2>2. parsed' \in [sessions : Seq(0..MaxSessions), distances : Seq(0..MaxSessions)]
    BY <1>6, <2>1, ReadTypes DEF ParseLine
  <2> QED
    BY <1>0, <1>6, <2>1, <2>2 DEF ParseLine
<1> QED
  BY <1>1, <1>2, <1>3, <1>4, <1>5, <1>6 DEF BenchNext

(* Each session started is answered as soon as its command has ended.        *)
AllAnswered ==
    \A k \in 1..asked : k # asked \/ Resting => answer[k].verdict # "none"

LEMMA AllAnsweredStep ==
  ASSUME TypeOK, Untouched, CommandPending, AllAnswered, [Next]_vars
  PROVE  AllAnswered'
<1> USE DEF TypeOK, Sessions, AllAnswered, Resting
<1>0. asked \in 0..MaxSessions /\ 1..asked \subseteq 1..MaxSessions
  OBVIOUS
<1>1. CASE Initiate
  <2>1. asked' = asked + 1 /\ pc' = "wait" /\ UNCHANGED answer /\ pc = "prompt"
    BY <1>1 DEF Initiate
  <2>2. \A k \in 1..asked' : k # asked' => k \in 1..asked
    BY <1>0, <2>1
  <2> QED
    BY <2>1, <2>2
<1>2. CASE Timeout \/ PrintFailed \/ PrintEstimate
  <2>1. asked' = asked
    BY <1>2 DEF Timeout, PrintFailed, PrintEstimate
  <2>2. pc # "prompt" /\ asked \in 1..MaxSessions
    BY <1>0, <1>2 DEF Timeout, PrintFailed, PrintEstimate, CommandPending
  <2>3. answer'[asked].verdict # "none"
    BY <1>2, <2>2, Vocabulary DEF Timeout, PrintFailed, PrintEstimate
  <2>4. \A k \in 1..asked : k # asked => answer'[k] = answer[k]
    BY <1>0, <1>2 DEF Timeout, PrintFailed, PrintEstimate
  <2> QED
    BY <2>1, <2>3, <2>4
<1>3. CASE ~(Initiate \/ Timeout \/ PrintFailed \/ PrintEstimate)
  <2>1. UNCHANGED <<asked, answer>> /\ (Resting' <=> Resting)
    BY <1>3, UnderWay
  <2> QED
    BY <2>1
<1> QED
  BY <1>1, <1>2, <1>3

\* what is left of LockInv: where the one answer to a command is
OneAnswer ==
    /\ typed # 0 \/ ~Resting => host = "wait" /\ ~Answered /\ ~Ended(wire)
    /\ typed # 0 => Resting
    /\ host \in {"ready", "done"} \/ Answered => ~Ended(wire)
    /\ EndedOnce(wire)
    /\ host = "wait" /\ typed = 0 /\ Resting => Answered \/ Ended(wire) \/ silent

LEMMA LockParts == LockInv <=> OneAnswer /\ AllAnswered
  BY DEF LockInv, OneAnswer, AllAnswered, OnWire, Ended, EndedOnce

(* A step of the board: it takes up the command that was typed, or ends the  *)
(* one under way with its one terminator, or neither.                        *)
LEMMA BoardAnswers ==
  ASSUME BenchTypeOK, OneAnswer, Board \/ Summarise
  PROVE  OneAnswer'
<1> USE DEF BenchTypeOK, bench
<1>0. [Next]_vars /\ TypeOK /\ wire \in Seq(Lines) /\ typed \in 0..1
  BY BoardStep
<1>b. asked \in 0..MaxSessions /\ dist \in 0..MaxSessions /\ 0 \in 0..MaxSessions
  BY DEF TypeOK
<1>1. CASE ReadCommand /\ Initiate
  <2>1. typed = 1 /\ typed' = 0 /\ UNCHANGED <<wire, text, host, mark, silent>>
        /\ pc' = "wait"
    BY <1>0, <1>1 DEF ReadCommand, Initiate, Refused, vars
  <2>2. ~Resting'
    BY <2>1 DEF Resting
  <2> QED
    BY <2>1, <2>2 DEF OneAnswer, Answered
<1>2. CASE ReadCommand /\ Refused
  <2>1. /\ typed = 1 /\ typed' = 0 /\ UNCHANGED <<pc, text, host, mark>>
        /\ \/ wire' = Append(wire, Line("refused", 0)) /\ silent' = silent
           \/ UNCHANGED wire /\ silent'
    BY <1>0, <1>2 DEF ReadCommand, Refused, Initiate, vars
  <2>2. (Answered' <=> Answered) /\ (Resting' <=> Resting)
    BY <2>1 DEF Answered, Resting
  <2>3. CASE wire' = Append(wire, Line("refused", 0)) /\ silent' = silent
    <3>1. Line("refused", 0) \in Lines /\ Line("refused", 0).kind \in Terminators
      BY <1>b DEF Line, Lines, Terminators
    <3>2. Ended(wire') /\ (EndedOnce(wire) /\ ~Ended(wire) => EndedOnce(wire'))
      BY <1>0, <2>3, <3>1, Said
    <3> QED
      BY <2>1, <2>2, <3>2 DEF OneAnswer
  <2>4. CASE UNCHANGED wire /\ silent'
    BY <2>1, <2>2, <2>4 DEF OneAnswer
  <2> QED
    BY <2>1, <2>3, <2>4
<1>3. ASSUME NEW kind \in {"failed", "timedout", "result"}, NEW sid \in 0..MaxSessions,
             Say(kind, sid), Timeout \/ PrintFailed \/ PrintEstimate
      PROVE  OneAnswer'
  <2>1. UNCHANGED <<typed, text, host, mark, silent>>
        /\ wire' = Append(wire, Line(kind, sid))
    BY <1>3 DEF Say
  <2>2. ~Resting /\ Resting'
    BY <1>3 DEF Timeout, PrintFailed, PrintEstimate, Resting
  <2>3. Line(kind, sid) \in Lines /\ Line(kind, sid).kind \in Terminators
    BY DEF Line, Lines, Terminators
  <2>4. Ended(wire') /\ (EndedOnce(wire) /\ ~Ended(wire) => EndedOnce(wire'))
    BY <1>0, <2>1, <2>3, Said
  <2>5. Answered' <=> Answered
    BY <2>1 DEF Answered
  <2> QED
    BY <2>1, <2>2, <2>4, <2>5 DEF OneAnswer
<1>4. ASSUME ~Initiate, ~Timeout, ~PrintFailed, ~PrintEstimate,
             UNCHANGED bench \/ Say("summary", asked)
      PROVE  OneAnswer'
  <2>1. UNCHANGED <<typed, text, host, mark, silent>>
        /\ (UNCHANGED wire \/ wire' = Append(wire, Line("summary", asked)))
    BY <1>4 DEF Say
  <2>2. Resting' <=> Resting
    BY <1>0, <1>4, UnderWay
  <2>3. Line("summary", asked) \in Lines
        /\ Line("summary", asked).kind \notin Terminators
    BY <1>b DEF Line, Lines, Terminators
  <2>4. (Ended(wire') <=> Ended(wire)) /\ (EndedOnce(wire) => EndedOnce(wire'))
    <3>1. CASE wire' = Append(wire, Line("summary", asked))
      BY <1>0, <2>3, <3>1, Said
    <3>2. CASE wire' = wire
      BY <3>2
    <3> QED
      BY <2>1, <3>1, <3>2
  <2>5. Answered' <=> Answered
    BY <2>1 DEF Answered
  <2> QED
    BY <2>1, <2>2, <2>4, <2>5 DEF OneAnswer
<1>5. CASE /\ \/ WaitReturns \/ PrintReport \/ Alloc \/ Clear \/ Fetch \/ PrintRow
              \/ Exit \/ ReadRtt \/ EndSession \/ Release \/ Handler \/ PeerLost
              \/ Terminated \/ SessionOver
           /\ UNCHANGED bench \/ Say("summary", asked)
  <2>1. ~Initiate /\ ~Timeout /\ ~PrintFailed /\ ~PrintEstimate
    BY <1>5 DEF Initiate, Timeout, PrintFailed, PrintEstimate, WaitReturns,
       PrintReport, Alloc, Clear, Fetch, PrintRow, Exit, ReadRtt, EndSession, Release,
       Handler, HandleReport, SetFailureBit, PeerLost, Terminated, SessionOver, console
  <2> QED
    BY <1>4, <1>5, <2>1
<1> QED
  BY <1>b, <1>1, <1>2, <1>3, <1>5 DEF Board, Summarise, ReadCommand

(* A step of the host, or of the line.                                       *)
LEMMA HostAnswers ==
  ASSUME BenchTypeOK, OneAnswer, Deliver \/ Send \/ Seen \/ GiveUp \/ Finish \/ ParseLine
  PROVE  OneAnswer'
<1>0. (pc' = pc) /\ (Resting' <=> Resting)
  BY DEF Deliver, Send, Seen, GiveUp, Finish, ParseLine, vars, Resting
<1>1. CASE Deliver
  <2>1. UNCHANGED <<typed, host, silent>>
    BY <1>1 DEF Deliver
  <2>2. /\ Answered' <=> Answered \/ Head(wire).kind \in Terminators
        /\ Ended(wire) <=> Head(wire).kind \in Terminators \/ Ended(wire')
        /\ EndedOnce(wire) =>
               EndedOnce(wire') /\ (Head(wire).kind \in Terminators => ~Ended(wire'))
    BY <1>1, Arrived DEF Ended, OnWire
  <2> QED
    BY <1>0, <2>1, <2>2 DEF OneAnswer
<1>2. CASE Send
  <2>1. /\ host = "ready" /\ host' = "wait" /\ typed' = typed + 1
        /\ mark' = Len(text) /\ UNCHANGED <<text, wire, silent>>
    BY <1>2 DEF Send
  <2>2. ~Answered'
    <3>1. (mark' + 1)..Len(text') = {}
      BY <2>1 DEF BenchTypeOK
    <3> QED
      BY <3>1 DEF Answered
  <2>3. typed = 0 /\ Resting /\ ~Ended(wire) /\ EndedOnce(wire)
    BY <2>1 DEF OneAnswer
  <2> QED
    BY <1>0, <2>1, <2>2, <2>3 DEF OneAnswer
<1>3. CASE Seen \/ GiveUp \/ Finish
  <2>1. /\ UNCHANGED <<typed, text, wire, mark, silent>>
        /\ \/ host = "wait" /\ Answered /\ host' = "ready"
           \/ host = "wait" /\ ~Answered /\ pc = "prompt" /\ typed = 0
              /\ host' = "gaveUp"
           \/ host = "ready" /\ host' = "done"
    BY <1>3 DEF Seen, GiveUp, Finish
  <2>2. Answered' <=> Answered
    BY <2>1 DEF Answered
  <2>3. pc = "prompt" => Resting
    BY DEF Resting
  <2> QED
    BY <1>0, <2>1, <2>2, <2>3 DEF OneAnswer
<1>4. CASE ParseLine
  <2>1. UNCHANGED <<typed, text, wire, mark, silent, host>>
    BY <1>4 DEF ParseLine
  <2>2. Answered' <=> Answered
    BY <2>1 DEF Answered
  <2> QED
    BY <1>0, <2>1, <2>2 DEF OneAnswer
<1> QED
  BY <1>1, <1>2, <1>3, <1>4

-----------------------------------------------------------------------------

BenchInv ==
    /\ BenchTypeOK /\ Untouched /\ CommandPending
    /\ LockInv /\ GivesUpOnlyOnSilence

LEMMA BenchInitInv == BenchInit => BenchInv
<1> SUFFICES ASSUME BenchInit PROVE BenchInv
  OBVIOUS
<1>1. TypeOK /\ Untouched /\ CommandPending
  BY InitInv DEF BenchInit, IInv
<1>2. BenchTypeOK
  <2>1. /\ typed = 0 /\ sent = 0 /\ mark = 0 /\ host = "ready" /\ silent = FALSE
        /\ wire = <<>> /\ text = <<>> /\ transcript = <<>>
    BY DEF BenchInit
  <2>2. <<>> \in Seq(Lines) /\ Len(<<>>) = 0
    OBVIOUS
  <2>3. Expected \in Nat /\ 0 \in 0..Expected
    BY BenchAssumption, ConstantsAssumption
  <2>4. typed \in 0..1 /\ sent \in 0..Expected /\ mark \in 0..Len(text)
    BY <2>1, <2>2, <2>3
  <2>5. {wire, text, transcript} \subseteq Seq(Lines)
    BY <2>1, <2>2
  <2>6. parsed \in [sessions : Seq(0..MaxSessions), distances : Seq(0..MaxSessions)]
    BY DEF BenchInit, NothingParsed
  <2>7. parsedTo \in 0..Len(transcript)
    BY <2>1, <2>2 DEF BenchInit
  <2> QED
    BY <1>1, <2>1, <2>4, <2>5, <2>6, <2>7 DEF BenchTypeOK
<1>3. asked = 0 /\ pc = "prompt"
  BY DEF BenchInit, Init, Service!Init
<1>4. LockInv
  BY <1>3 DEF BenchInit, LockInv, Resting, OnWire, Answered
<1>5. GivesUpOnlyOnSilence
  BY DEF BenchInit, GivesUpOnlyOnSilence
<1> QED
  BY <1>1, <1>2, <1>4, <1>5 DEF BenchInv

LEMMA BenchStep == BenchInv /\ [BenchNext]_<<vars, bench>> => BenchInv'
<1> SUFFICES ASSUME BenchInv, [BenchNext]_<<vars, bench>> PROVE BenchInv'
  OBVIOUS
<1>0. /\ BenchTypeOK /\ TypeOK /\ Untouched /\ CommandPending /\ LockInv
      /\ GivesUpOnlyOnSilence /\ OneAnswer /\ AllAnswered
  BY LockParts DEF BenchInv, BenchTypeOK
<1>1. [Next]_vars
  BY BoardStep DEF BenchNext, Deliver, Send, Seen, GiveUp, Finish, ParseLine
<1>2. BenchTypeOK' /\ Untouched' /\ CommandPending'
  BY <1>0, <1>1, BenchTypeStep, PendingStep
<1>3. AllAnswered'
  BY <1>0, <1>1, AllAnsweredStep
<1>4. OneAnswer'
  <2>1. CASE UNCHANGED <<vars, bench>>
    BY <1>0, <2>1 DEF OneAnswer, Ended, EndedOnce, Answered, Resting, bench, vars
  <2>2. CASE BenchNext
    BY <1>0, <2>2, BoardAnswers, HostAnswers DEF BenchNext
  <2> QED
    BY <2>1, <2>2
<1>5. LockInv'
  BY <1>3, <1>4, LockParts DEF LockInv, OneAnswer, AllAnswered, OnWire, Ended, EndedOnce
<1>6. GivesUpOnlyOnSilence'
  <2> USE DEF GivesUpOnlyOnSilence, bench
  <2>1. CASE GiveUp
    <3>1. host = "wait" /\ ~Answered /\ typed = 0 /\ wire = <<>> /\ pc = "prompt"
          /\ silent' = silent
      BY <2>1 DEF GiveUp
    <3>2. ~OnWire /\ Resting
      BY <3>1 DEF OnWire, Resting
    <3> QED
      BY <1>0, <3>1, <3>2 DEF LockInv
  <2>2. CASE Board \/ Summarise
    <3>1. host' = host /\ (silent' = silent \/ silent')
      BY <2>2 DEF Board, Summarise, ReadCommand, Say
    <3> QED
      BY <1>0, <3>1
  <2>3. CASE Deliver \/ Send \/ Seen \/ Finish \/ ParseLine \/ UNCHANGED <<vars, bench>>
    <3>1. silent' = silent /\ (host' = host \/ host' # "gaveUp")
      BY <2>3 DEF Deliver, Send, Seen, Finish, ParseLine
    <3> QED
      BY <1>0, <3>1
  <2> QED
    BY <2>1, <2>2, <2>3 DEF BenchNext
<1> QED
  BY <1>2, <1>5, <1>6 DEF BenchInv

LEMMA BenchAlways == BenchSpec => []BenchInv
  BY BenchInitInv, BenchStep, PTL DEF BenchSpec

(* The lines, counters and modes of the bench keep their types; in           *)
(* particular no more than one command is ever typed ahead.                  *)
THEOREM BenchTyping == BenchSpec => []BenchTypeOK
<1>1. BenchInv => BenchTypeOK
  BY DEF BenchInv
<1> QED
  BY BenchAlways, <1>1, PTL

(* Whenever the host sends a command or takes the transcript, the board has  *)
(* read all commands before and answered each session that it started.       *)
THEOREM LockstepHolds == BenchSpec => []Lockstep
<1>1. BenchInv => Lockstep
  <2> SUFFICES ASSUME BenchInv, host \in {"ready", "done"}
               PROVE  typed = 0 /\ \A k \in 1..asked : answer[k].verdict # "none"
    BY DEF Lockstep
  <2>1. typed = 0 /\ Resting
    BY DEF BenchInv, LockInv
  <2> QED
    BY <2>1 DEF BenchInv, LockInv
<1> QED
  BY BenchAlways, <1>1, PTL

(* The host gives up on a board only after a command that ended in silence,  *)
(* however late the driver reports.                                          *)
THEOREM GivesUpOnlyOnSilenceHolds == BenchSpec => []GivesUpOnlyOnSilence
<1>1. BenchInv => GivesUpOnlyOnSilence
  BY DEF BenchInv
<1> QED
  BY BenchAlways, <1>1, PTL
=============================================================================

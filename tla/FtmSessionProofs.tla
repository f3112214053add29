-------------------------- MODULE FtmSessionProofs --------------------------
(***************************************************************************)
(* The safety of the ranging command for every number of sessions and      *)
(* entries: types, the inductive invariant IInv when the wait is long      *)
(* enough, the properties that follow from it, the refinement of           *)
(* FtmService, and what remains true when it is not long enough.           *)
(***************************************************************************)
EXTENDS FtmSession, TLAPS

USE ConstantsAssumption

(* What the operators of FtmService stand for. *)
LEMMA Vocabulary ==
    /\ Outcomes = {"measured", "failed"}
    /\ \A v \in {"failed", "timedout"} :
           /\ Plain(v) = [verdict |-> v, rtt |-> 0, dist |-> 0, rows |-> 0]
           /\ Plain(v) \in Answers
  BY DEF Outcomes, Plain, Service!Outcomes, Service!Plain, Service!NoAnswer,
         Answers

(* Every step of the console, the event task and the driver keeps the        *)
(* variables in their types.                                                 *)
LEMMA TypeStep == TypeOK /\ [Next]_vars => TypeOK'
<1> SUFFICES ASSUME TypeOK, [Next]_vars PROVE TypeOK'
  OBVIOUS
<1> USE Vocabulary DEF TypeOK, console, globals, driver, PCs
<1>1. CASE Initiate
  BY <1>1 DEF Initiate
<1>2. CASE Refused \/ UNCHANGED vars
  BY <1>2 DEF Refused, vars
<1>3. CASE WaitReturns
  BY <1>3 DEF WaitReturns
<1>4. CASE Timeout
  BY <1>4 DEF Timeout
<1>5. CASE PrintReport
  BY <1>5 DEF PrintReport
<1>6. CASE Clear
  BY <1>6 DEF Clear
<1>7. CASE Fetch
  BY <1>7 DEF Fetch
<1>8. CASE PrintRow
  BY <1>8 DEF PrintRow
<1>9. CASE Exit
  BY <1>9 DEF Exit
<1>10. CASE ReadRtt
  BY <1>10 DEF ReadRtt
<1>11. CASE PrintEstimate
  <2>1. [verdict |-> "measured", rtt |-> seen, dist |-> dist, rows |-> rows]
            \in Answers
    BY DEF Answers
  <2> QED
    BY <1>11, <2>1 DEF PrintEstimate
<1>12. CASE PrintFailed
  BY <1>12 DEF PrintFailed
<1>13. CASE EndSession
  BY <1>13 DEF EndSession
<1>14. CASE Release
  BY <1>14 DEF Release
<1>15. CASE HandleReport
  <2>1. Head(queue) \in Events /\ Tail(queue) \in Seq(Events)
    BY <1>15 DEF HandleReport
  <2>2. Head(queue).sid \in 0..MaxSessions /\ Head(queue).n \in 0..MaxEntries
    BY <2>1 DEF Events
  <2> QED
    BY <1>15, <2>1, <2>2 DEF HandleReport
<1>16. CASE SetFailureBit
  BY <1>16 DEF SetFailureBit
<1>17. CASE SessionOver
  <2>1. \A st \in Statuses, n \in 0..MaxEntries :
            Post(st, n) => queue' \in Seq(Events)
    BY DEF Post, Events
  <2> QED
    BY <1>17, <2>1 DEF SessionOver, Statuses
<1>18. CASE PeerLost
  BY <1>18 DEF PeerLost
<1>19. CASE Terminated
  <2>1. \A st \in Statuses, n \in 0..MaxEntries :
            Post(st, n) => queue' \in Seq(Events)
    BY DEF Post, Events
  <2>2. \E n \in 0..MaxEntries : Post("user_term", n)
    BY <1>19 DEF Terminated
  <2>3. queue' \in Seq(Events)
    BY <2>1, <2>2 DEF Statuses
  <2> QED
    BY <1>19, <2>3 DEF Terminated
<1>20. CASE Alloc
  BY <1>20 DEF Alloc
<1> QED
  BY <1>1, <1>2, <1>3, <1>4, <1>5, <1>6, <1>7, <1>8, <1>9, <1>10, <1>11,
     <1>12, <1>13, <1>14, <1>15, <1>16, <1>17, <1>18, <1>19, <1>20
     DEF Next, Console, Handler, Driver

(* Delivering the oldest event: what is left is the same events, one place   *)
(* earlier.                                                                  *)
LEMMA Delivered ==
  ASSUME NEW S, NEW q \in Seq(S), q # <<>>
  PROVE  /\ 1 \in DOMAIN q /\ Head(q) = q[1] /\ Len(q) >= 1
         /\ Tail(q) \in Seq(S) /\ Len(Tail(q)) = Len(q) - 1
         /\ \A i \in DOMAIN Tail(q) :
                i + 1 \in DOMAIN q /\ Tail(q)[i] = q[i + 1]
         /\ \A i \in DOMAIN q : i # 1 => i - 1 \in DOMAIN Tail(q)
         /\ Len(q) = 1 => Tail(q) = <<>>
  OBVIOUS

(* Posting an event: it is last, and the others keep their places.           *)
LEMMA Posted ==
  ASSUME NEW S, NEW q \in Seq(S), NEW e \in S
  PROVE  /\ Append(q, e) \in Seq(S) /\ Len(Append(q, e)) = Len(q) + 1
         /\ Len(q) + 1 \in DOMAIN Append(q, e) /\ Append(q, e)[Len(q) + 1] = e
         /\ \A i \in DOMAIN Append(q, e) : i # Len(q) + 1 =>
                i \in DOMAIN q /\ Append(q, e)[i] = q[i]
  OBVIOUS

(* The driver posts an event of the session it is running.                   *)
LEMMA PostStep ==
  ASSUME TypeOK, NEW st \in Statuses, NEW n \in 0..MaxEntries, Post(st, n)
  PROVE  /\ Len(queue') = Len(queue) + 1 /\ Len(queue') \in DOMAIN queue'
         /\ queue'[Len(queue')] = [sid |-> asked, status |-> st, n |-> n]
         /\ \A i \in DOMAIN queue' : i # Len(queue') =>
                i \in DOMAIN queue /\ queue'[i] = queue[i]
<1> DEFINE e == [sid |-> asked, status |-> st, n |-> n]
<1>1. queue \in Seq(Events) /\ e \in Events
  BY DEF TypeOK, Events
<1>2. queue' = Append(queue, e)
  BY DEF Post
<1> HIDE DEF e
<1>3. Len(queue') = Len(queue) + 1
  BY <1>1, <1>2, Posted
<1>4. Len(queue') \in DOMAIN queue' /\ queue'[Len(queue')] = e
  BY <1>1, <1>2, <1>3, Posted
<1>5. ASSUME NEW i \in DOMAIN queue', i # Len(queue')
      PROVE  i \in DOMAIN queue /\ queue'[i] = queue[i]
  BY <1>1, <1>2, <1>3, <1>5, Posted
<1> QED
  BY <1>3, <1>4, <1>5 DEF e

(* The fields of a queued event are in range.                                *)
LEMMA EventTypes ==
  ASSUME TypeOK, NEW i \in DOMAIN queue
  PROVE  /\ queue[i].sid \in 0..MaxSessions /\ queue[i].n \in 0..MaxEntries
         /\ queue[i].status \in Statuses
<1>1. queue \in Seq(Events)
  BY DEF TypeOK
<1>2. queue[i] \in Events
  BY <1>1
<1> QED
  BY <1>2 DEF Events

(* An event that is not a termination is of the current session, which waits *)
(* for nothing else.                                                         *)
LEMMA ReportAtHead ==
  ASSUME QueueState, 1 \in DOMAIN queue, queue[1].status # "user_term"
  PROVE  /\ queue[1].sid = asked /\ Len(queue) = 1
         /\ pc = "wait" /\ drv = "idle" /\ bits = {} /\ Owned(queue[1].n)
         /\ truth[asked] =
                IF queue[1].status = "success" THEN "measured" ELSE "failed"
  BY DEF QueueState

(* IInv is kept by every step but a timeout, and when the wait is long       *)
(* enough by that, too: one step per action, and under it first the history  *)
(* and the driver, then what the tasks share.                                *)
LEMMA InvStep == (Timeout => WaitIsEnough) /\ IInv /\ [Next]_vars => IInv'
<1>w. SUFFICES ASSUME Timeout => WaitIsEnough PROVE IInv /\ [Next]_vars => IInv'
  OBVIOUS
<1> SUFFICES ASSUME IInv, [Next]_vars PROVE IInv'
  OBVIOUS
<1> DEFINE History == Untouched /\ CommandPending /\ DriverState
                      /\ OwnEstimate /\ OwnVerdict
           Shared  == QueueState /\ HandlerState /\ BitsState /\ ConsoleState
                      /\ ReportUnderWay
<1>0. TypeOK /\ TypeOK'
  BY TypeStep DEF IInv
<1>a. \A i \in DOMAIN queue : queue[i].sid \in 0..MaxSessions
  BY <1>0, EventTypes
<1>p. ASSUME NEW st \in Statuses, NEW n \in 0..MaxEntries, Post(st, n)
      PROVE  /\ Len(queue') = Len(queue) + 1 /\ Len(queue') \in DOMAIN queue'
             /\ queue'[Len(queue')] = [sid |-> asked, status |-> st, n |-> n]
             /\ \A i \in DOMAIN queue' : i # Len(queue') =>
                    i \in DOMAIN queue /\ queue'[i] = queue[i]
  BY <1>0, <1>p, PostStep
<1>t. ASSUME Terminated
      PROVE  \E n \in 0..MaxEntries :
               /\ Len(queue') = Len(queue) + 1
               /\ queue'[Len(queue')] = [sid |-> asked, n |-> n, status |-> "user_term"]
               /\ \A i \in DOMAIN queue' : i # Len(queue') =>
                      i \in DOMAIN queue /\ queue'[i] = queue[i]
  <2>1. PICK n \in 0..MaxEntries : Post("user_term", n)
    BY <1>t DEF Terminated
  <2>2. "user_term" \in Statuses
    BY DEF Statuses
  <2> QED
    BY <1>p, <2>1, <2>2
<1>h. ASSUME HandleReport
      PROVE  LET e == Head(queue) IN
             /\ e = queue[1] /\ 1 \in DOMAIN queue
             /\ e.sid \in 0..MaxSessions /\ e.n \in 0..MaxEntries /\ e.status \in Statuses
             /\ \A i \in DOMAIN queue' : i + 1 \in DOMAIN queue
                                          /\ queue'[i] = queue[i + 1]
             /\ \A i \in DOMAIN queue : i # 1 => i - 1 \in DOMAIN queue'
             /\ Len(queue') = Len(queue) - 1
             /\ e.status # "user_term" =>
                    /\ queue' = <<>> /\ e.sid = asked /\ pc = "wait" /\ drv = "idle"
                    /\ bits = {} /\ Owned(e.n) /\ truth[asked] =
                           IF e.status = "success" THEN "measured" ELSE "failed"
  <2>1. queue \in Seq(Events) /\ queue # <<>> /\ queue' = Tail(queue)
    BY <1>0, <1>h DEF HandleReport, TypeOK
  <2>2. Head(queue) = queue[1] /\ 1 \in DOMAIN queue
    BY <2>1, Delivered
  <2>3. QueueState
    BY DEF IInv
  <2> QED
    BY <1>0, <2>1, <2>2, <2>3, Delivered, EventTypes, ReportAtHead
<1>q. ASSUME HandleReport PROVE QueueState'
  <2>1. QueueState /\ Len(queue) \in Nat
    BY <1>0 DEF IInv, TypeOK
  <2>2. UNCHANGED <<pc, drv, asked, truth, report>>
    BY <1>q DEF HandleReport, console, driver
  <2>3. ASSUME NEW i \in DOMAIN queue', queue'[i].status # "user_term"
        PROVE  bits' = bits /\ hpc' = hpc
    BY <1>h, <1>q, <2>3 DEF HandleReport, Statuses
  <2>4. ASSUME NEW i \in DOMAIN queue'
        PROVE  i \in Nat /\ (i + 1 = Len(queue) => i = Len(queue'))
    <3>1. queue' \in Seq(Events)
      BY <1>0 DEF TypeOK
    <3>2. i \in Nat /\ Len(queue') \in Nat
      BY <2>4, <3>1
    <3>3. Len(queue') = Len(queue) - 1
      BY <1>h, <1>q
    <3> QED
      BY <2>1, <3>2, <3>3
  <2> QED
    BY <1>h, <1>q, <2>1, <2>2, <2>3, <2>4 DEF QueueState, Owned, NoLeak
<1> SUFFICES History' /\ Shared'
  BY <1>0 DEF IInv
<1> USE <1>0, Vocabulary
    DEF TypeOK, IInv, console, globals, driver, PCs, Sessions,
        Untouched, CommandPending, DriverState, OwnEstimate, OwnVerdict,
        QueueState, HandlerState, BitsState, ConsoleState, ReportUnderWay,
        Settled, Printing, Owned, NoLeak
<1>1. CASE Initiate
  <2>1. History'
    BY <1>1 DEF Initiate
  <2>2. \A i \in DOMAIN queue : queue[i].status = "user_term"
                                /\ queue[i].sid < asked'
    BY <1>1, <1>a DEF Initiate
  <2>3. QueueState'
    BY <1>1, <2>2, <1>a DEF Initiate
  <2>4. HandlerState' /\ BitsState' /\ ConsoleState' /\ ReportUnderWay'
    BY <1>1 DEF Initiate
  <2> QED
    BY <2>1, <2>3, <2>4
<1>2. CASE WaitReturns
  <2>1. History'
    BY <1>2 DEF WaitReturns
  <2>2. Shared'
    BY <1>2 DEF WaitReturns
  <2> QED
    BY <2>1, <2>2
<1>3. CASE Timeout
  <2>1. History'
    BY <1>3, <1>w DEF Timeout, NothingToCome
  <2>2. Shared'
    BY <1>3, <1>w DEF Timeout, NothingToCome
  <2> QED
    BY <2>1, <2>2
<1>4. CASE PrintReport
  <2>1. History'
    BY <1>4 DEF PrintReport
  <2>2. Shared'
    BY <1>4 DEF PrintReport
  <2> QED
    BY <2>1, <2>2
<1>5. CASE Clear
  <2>1. History'
    BY <1>5 DEF Clear
  <2>2. Shared'
    BY <1>5 DEF Clear
  <2> QED
    BY <2>1, <2>2
<1>6. CASE Fetch
  <2>1. History'
    BY <1>6 DEF Fetch
  <2>2. Shared'
    BY <1>6 DEF Fetch
  <2> QED
    BY <2>1, <2>2
<1>7. CASE PrintRow
  <2>1. History'
    BY <1>7 DEF PrintRow
  <2>2. Shared'
    BY <1>7 DEF PrintRow
  <2> QED
    BY <2>1, <2>2
<1>8. CASE Exit
  <2>1. History'
    BY <1>8 DEF Exit
  <2>2. Shared'
    BY <1>8 DEF Exit
  <2> QED
    BY <2>1, <2>2
<1>9. CASE ReadRtt
  <2>1. History'
    BY <1>9 DEF ReadRtt
  <2>2. Shared'
    BY <1>9 DEF ReadRtt
  <2> QED
    BY <2>1, <2>2
<1>10. CASE PrintEstimate
  <2>1. History'
    BY <1>10 DEF PrintEstimate
  <2>2. Shared'
    BY <1>10 DEF PrintEstimate
  <2> QED
    BY <2>1, <2>2
<1>11. CASE PrintFailed
  <2>1. History'
    BY <1>11 DEF PrintFailed
  <2>2. Shared'
    BY <1>11 DEF PrintFailed
  <2> QED
    BY <2>1, <2>2
<1>12. CASE EndSession
  <2>1. History'
    BY <1>12 DEF EndSession
  <2>2. Shared'
    BY <1>12 DEF EndSession
  <2> QED
    BY <2>1, <2>2
<1>13. CASE Release
  <2>1. History'
    BY <1>13 DEF Release
  <2>2. Shared'
    BY <1>13 DEF Release
  <2> QED
    BY <2>1, <2>2
<1>14. CASE SetFailureBit
  <2>1. History'
    BY <1>14 DEF SetFailureBit
  <2>2. Shared'
    BY <1>14 DEF SetFailureBit
  <2> QED
    BY <2>1, <2>2
<1>15. CASE PeerLost
  <2>1. History'
    BY <1>15 DEF PeerLost
  <2>2. Shared'
    BY <1>15 DEF PeerLost
  <2> QED
    BY <2>1, <2>2
<1>16. CASE HandleReport
  <2> DEFINE e == Head(queue)
  <2>0. queue \in Seq(Events) /\ queue # <<>>
    BY <1>16 DEF HandleReport
  <2>1. /\ e = queue[1] /\ 1 \in DOMAIN queue
        /\ e.sid \in 0..MaxSessions /\ e.n \in 0..MaxEntries
        /\ e.status \in Statuses
    BY <1>16, <1>h
  <2>2. /\ \A i \in DOMAIN queue' : i + 1 \in DOMAIN queue
                                    /\ queue'[i] = queue[i + 1]
        /\ \A i \in DOMAIN queue : i # 1 => i - 1 \in DOMAIN queue'
        /\ Len(queue') = Len(queue) - 1
    BY <1>16, <1>h
  <2>3. e.status # "user_term" => queue' = <<>>
    BY <1>16, <1>h
  <2>4. e.status # "user_term" => e.sid = asked /\ pc = "wait" /\ drv = "idle"
            /\ bits = {} /\ Owned(e.n) /\ truth[asked] =
                      IF e.status = "success" THEN "measured" ELSE "failed"
    BY <1>16, <1>h
  <2>5. History'
    BY <1>16 DEF HandleReport
  <2>6. QueueState'
    BY <1>16, <1>q
  <2>7. HandlerState' /\ BitsState' /\ ConsoleState'
    <3>1. HandlerState' /\ BitsState'
      BY <1>16, <2>1, <2>3, <2>4 DEF HandleReport, Statuses
    <3>2. ConsoleState'
      BY <1>16, <2>1, <2>3, <2>4 DEF HandleReport, Statuses
    <3> QED
      BY <3>1, <3>2
  <2>8. ReportUnderWay'
    <3>1. CASE e.status = "user_term" /\ pc = "wait" /\ drv = "idle"
      <4>1. e.sid # asked
        BY <2>1, <3>1, SMTT(30)
      <4>2. ASSUME NEW i \in DOMAIN queue, queue[i].sid = asked
            PROVE  i - 1 \in DOMAIN queue' /\ queue'[i - 1].sid = asked
        <5>1. i # 1
          BY <2>1, <4>1, <4>2
        <5>2. i - 1 \in DOMAIN queue'
          BY <2>2, <5>1
        <5>3. queue'[i - 1] = queue[(i - 1) + 1] /\ (i - 1) + 1 = i
          BY <2>0, <2>2, <5>2, SMTT(30)
        <5> QED
          BY <4>2, <5>2, <5>3
      <4> QED
        BY <1>16, <2>1, <3>1, <4>2 DEF HandleReport
    <3>2. CASE e.status # "user_term"
      BY <1>16, <2>1, <2>4, <3>2 DEF HandleReport, Statuses
    <3> QED
      BY <1>16, <3>1, <3>2 DEF HandleReport
  <2> QED
    BY <2>5, <2>6, <2>7, <2>8
<1>17. CASE SessionOver
  <2>1. PICK n \in 0..MaxEntries, ok \in BOOLEAN :
           /\ Post(IF ok THEN "success" ELSE "failure", n)
           /\ truth' = [truth EXCEPT ![asked] = IF ok THEN "measured" ELSE "failed"]
           /\ report' = IF n = 0 THEN report ELSE asked
    BY <1>17 DEF SessionOver
  <2>2. /\ Len(queue') = Len(queue) + 1 /\ Len(queue') \in DOMAIN queue'
        /\ queue'[Len(queue')] = [sid |-> asked, n |-> n,
                           status |-> IF ok THEN "success" ELSE "failure"]
        /\ \A i \in DOMAIN queue' : i # Len(queue') =>
               i \in DOMAIN queue /\ queue'[i] = queue[i]
    <3> DEFINE st == IF ok THEN "success" ELSE "failure"
    <3>1. st \in Statuses /\ Post(st, n)
      BY <2>1 DEF Statuses
    <3> HIDE DEF st
    <3>2. /\ Len(queue') = Len(queue) + 1 /\ Len(queue') \in DOMAIN queue'
          /\ queue'[Len(queue')] = [sid |-> asked, status |-> st, n |-> n]
          /\ \A i \in DOMAIN queue' : i # Len(queue') =>
                 i \in DOMAIN queue /\ queue'[i] = queue[i]
      BY <3>1, <1>p
    <3> QED
      BY <3>2 DEF st
  <2>3. History'
    BY <1>17, <2>1 DEF SessionOver
  <2>4. QueueState'
    BY <1>17, <2>1, <2>2 DEF SessionOver
  <2>5. HandlerState' /\ BitsState' /\ ConsoleState'
    BY <1>17, <2>1 DEF SessionOver
  <2>6. ReportUnderWay'
    <3>1. queue'[Len(queue')].sid = asked'
      BY <1>17, <2>2 DEF SessionOver
    <3> QED
      BY <2>2, <3>1
  <2> QED
    BY <2>3, <2>4, <2>5, <2>6
<1>18. CASE Terminated
  <2>2. PICK n \in 0..MaxEntries :
           /\ Len(queue') = Len(queue) + 1
           /\ queue'[Len(queue')] = [sid |-> asked, n |-> n, status |-> "user_term"]
           /\ \A i \in DOMAIN queue' : i # Len(queue') =>
                  i \in DOMAIN queue /\ queue'[i] = queue[i]
    BY <1>18, <1>t
  <2>3. History'
    BY <1>18 DEF Terminated
  <2>4. QueueState'
    BY <1>18, <2>2 DEF Terminated
  <2>5. HandlerState' /\ BitsState' /\ ConsoleState' /\ ReportUnderWay'
    BY <1>18 DEF Terminated
  <2> QED
    BY <2>3, <2>4, <2>5
<1>19. CASE Refused \/ UNCHANGED vars
  BY <1>19, SMTT(30) DEF Refused, vars
<1>20. CASE Alloc
  <2>1. History'
    BY <1>20 DEF Alloc
  <2>2. Shared'
    BY <1>20 DEF Alloc
  <2> QED
    BY <2>1, <2>2
<1> QED
  BY <1>1, <1>2, <1>3, <1>4, <1>5, <1>6, <1>7, <1>8, <1>9, <1>10, <1>11,
     <1>12, <1>13, <1>14, <1>15, <1>16, <1>17, <1>18, <1>19, <1>20
     DEF Next, Console, Handler, Driver

(* The initial state satisfies the invariant.                                *)
LEMMA InitInv == Init => IInv
<1> SUFFICES ASSUME Init PROVE IInv
  OBVIOUS
<1>1. /\ truth = [k \in Sessions |-> "pending"]
      /\ answer = [k \in Sessions |->
             [verdict |-> "none", rtt |-> 0, dist |-> 0, rows |-> 0]]
      /\ asked = 0
  BY DEF Init, Service!Init, Service!Sessions, Service!NoAnswer, Sessions
<1>2. answer \in [Sessions -> Answers]
  BY <1>1 DEF Answers
<1>3. TypeOK
  BY <1>1, <1>2, Vocabulary DEF Init, TypeOK, PCs
<1>4. QueueState /\ ReportUnderWay
  BY DEF Init, QueueState, ReportUnderWay
<1> QED
  BY <1>1, <1>3, <1>4
     DEF Init, IInv, Sessions, Untouched, CommandPending, DriverState,
         OwnEstimate, OwnVerdict, HandlerState, BitsState, ConsoleState, Printing

(* The inductive invariant holds in every reachable state.                   *)
LEMMA Invariance == ASSUME WaitIsEnough PROVE SafeSpec => []IInv
<1>1. IInv /\ [Next]_vars => IInv'
  BY InvStep
<1> QED
  BY InitInv, <1>1, PTL DEF SafeSpec

-----------------------------------------------------------------------------

(* Types are kept, whether or not the wait is long enough.                   *)
THEOREM Typing == SafeSpec => []TypeOK
<1>1. Init => TypeOK
  BY InitInv DEF IInv
<1> QED
  BY <1>1, TypeStep, PTL DEF SafeSpec

(* For any number of sessions: when every session that reports does so       *)
(* before the wait ends, the estimate and the rows a command prints are its  *)
(* own session's.                                                            *)
THEOREM OwnEstimateHolds == ASSUME WaitIsEnough PROVE SafeSpec => []OwnEstimate
<1>1. IInv => OwnEstimate
  BY DEF IInv
<1> QED
  BY Invariance, <1>1, PTL

(* Under the same assumption the verdict a command prints is what became of  *)
(* its session.                                                              *)
THEOREM OwnVerdictHolds == ASSUME WaitIsEnough PROVE SafeSpec => []OwnVerdict
<1>1. IInv => OwnVerdict
  BY DEF IInv
<1> QED
  BY Invariance, <1>1, PTL

(* Under the same assumption the print loop stays inside its buffer, for any *)
(* number of entries.                                                        *)
THEOREM RowsInBufferHolds ==
  ASSUME WaitIsEnough PROVE SafeSpec => []RowsInBuffer
<1>1. IInv => RowsInBuffer
  BY DEF IInv, ConsoleState, RowsInBuffer
<1> QED
  BY Invariance, <1>1, PTL

(* If moreover malloc never fails, or no report is to be printed, a command  *)
(* that is back at the prompt has left no report with the driver.            *)
THEOREM ReportReleasedHolds ==
  ASSUME WaitIsEnough, NoLeak PROVE SafeSpec => []ReportReleased
<1>1. IInv => ReportReleased
  BY DEF IInv, DriverState, ReportReleased
<1> QED
  BY Invariance, <1>1, PTL

-----------------------------------------------------------------------------

(* A step of the command, the event task or the driver is a step of the      *)
(* promise or leaves its variables alone: starting a session asks, the end   *)
(* of a session resolves it, and the three lines that report an outcome      *)
(* answer it.                                                                *)
LEMMA ServiceStep ==
  ASSUME WaitIsEnough, IInv, [Next]_vars
  PROVE  [Service!Next]_(Service!sVars)
<1> USE DEF Service!Next, Service!sVars, IInv, console, globals, driver, Sessions
<1>0. TypeOK
  OBVIOUS
<1>1. CASE Initiate
  BY <1>1 DEF Initiate, Service!Ask, CommandPending
<1>2. CASE Timeout
  <2>1. truth[asked] = "pending" /\ answer[asked].verdict = "none" /\ asked # 0
    BY <1>2 DEF Timeout, NothingToCome, ReportUnderWay, DriverState,
                CommandPending, TypeOK
  <2> QED
    BY <1>2, <2>1 DEF Timeout, Service!Answer, Plain
<1>3. CASE PrintEstimate
  <2>1. /\ truth[asked] = "measured" /\ answer[asked].verdict = "none"
        /\ asked # 0 /\ seen = asked /\ dist = asked /\ rows \in {0, asked}
    BY <1>3 DEF PrintEstimate, ConsoleState, CommandPending, Printing
  <2> QED
    BY <1>3, <2>1 DEF PrintEstimate, Service!Answer, Service!Measured
<1>4. CASE PrintFailed
  <2>1. truth[asked] = "failed" /\ answer[asked].verdict = "none" /\ asked # 0
    BY <1>4 DEF PrintFailed, ConsoleState, CommandPending
  <2> QED
    BY <1>4, <2>1 DEF PrintFailed, Service!Answer, Plain
<1>5. CASE SessionOver
  <2>1. truth[asked] = "pending" /\ answer[asked].verdict = "none" /\ asked # 0
    BY <1>5 DEF SessionOver, DriverState, CommandPending
  <2>2. \E o \in Service!Outcomes : truth' = [truth EXCEPT ![asked] = o]
    BY <1>5 DEF SessionOver, Service!Outcomes
  <2> QED
    BY <1>5, <2>1, <2>2 DEF SessionOver, Service!Resolve
<1>6. CASE Refused \/ WaitReturns \/ PrintReport \/ Alloc \/ Clear \/ Fetch
           \/ PrintRow \/ Exit \/ ReadRtt \/ EndSession \/ Release \/ Handler
           \/ PeerLost \/ Terminated \/ UNCHANGED vars
  BY <1>6 DEF Refused, WaitReturns, PrintReport, Alloc, Clear, Fetch, PrintRow, Exit,
       ReadRtt, EndSession, Release, Handler, HandleReport, SetFailureBit, PeerLost,
       Terminated, vars
<1> QED
  BY <1>1, <1>2, <1>3, <1>4, <1>5, <1>6 DEF Next, Console, Driver

(* Under the same assumption the whole machinery of tasks, bits and globals  *)
(* implements the promise made to the console's user.                        *)
THEOREM ImplementsPromise == ASSUME WaitIsEnough PROVE SafeSpec => ImplementsSafe
<1>1. Init => Service!Init
  BY DEF Init
<1>2. IInv /\ [Next]_vars => [Service!Next]_(Service!sVars)
  BY ServiceStep
<1> QED
  BY Invariance, <1>1, <1>2, PTL DEF SafeSpec, ImplementsSafe, Service!SafeSpec

-----------------------------------------------------------------------------
\* What remains true when a report may come at any time, also after the end
\* of the wait: theorems without WaitIsEnough.


Measured(k) == answer[k].verdict = "measured"

\* events arrive in the order of their sessions, none older than the globals
InOrder ==
    /\ rtt = dist /\ dist <= asked
    /\ \A i \in DOMAIN queue : dist <= queue[i].sid /\ queue[i].sid <= asked
    /\ \A i, j \in DOMAIN queue : i < j => queue[i].sid <= queue[j].sid

\* what was printed, or is read for printing, is not newer than the globals
Printed ==
    /\ \A k \in Sessions : k > asked => ~Measured(k)
    /\ \A k \in Sessions : answer[k].rtt <= answer[k].dist
    /\ \A k \in Sessions : Measured(k) => answer[k].dist <= dist
    /\ pc = "dist" => /\ seen <= dist
                      /\ \A k \in Sessions : Measured(k) => answer[k].dist <= seen

OrderInv == TypeOK /\ InOrder /\ Printed /\ NeverOlder

(* The globals and the queue stay in order: only the handler writes the      *)
(* globals, from the head of the queue, and only the driver appends to it.   *)
LEMMA OrderStep == ASSUME TypeOK, InOrder, [Next]_vars PROVE InOrder'
<1> USE DEF TypeOK, InOrder, console, globals, driver
<1>a. \A i \in DOMAIN queue : queue[i].sid \in 0..MaxSessions
  BY EventTypes
<1>1. CASE Initiate
  BY <1>1, <1>a DEF Initiate
<1>2. CASE HandleReport
  <2>1. queue \in Seq(Events) /\ queue # <<>>
    BY <1>2 DEF HandleReport
  <2>2. /\ 1 \in DOMAIN queue /\ Head(queue) = queue[1]
        /\ \A i \in DOMAIN Tail(queue) :
               i + 1 \in DOMAIN queue /\ Tail(queue)[i] = queue[i + 1] /\ i >= 1
    BY <2>1, Delivered
  <2>3. rtt' = queue[1].sid /\ dist' = queue[1].sid /\ queue' = Tail(queue)
        /\ asked' = asked
    BY <1>2, <2>2 DEF HandleReport
  <2> QED
    BY <2>2, <2>3, <1>a
<1>3. CASE SessionOver \/ Terminated
  <2>1. PICK e \in Events : e.sid = asked /\ queue' = Append(queue, e)
    BY <1>3 DEF SessionOver, Terminated, Post, Events, Statuses
  <2>2. UNCHANGED <<globals, asked>>
    BY <1>3 DEF SessionOver, Terminated
  <2> QED
    BY <2>1, <2>2, <1>a
<1>4. CASE Refused \/ Console \/ SetFailureBit \/ PeerLost \/ UNCHANGED vars
  <2>1. UNCHANGED <<rtt, dist, queue, asked>>
    BY <1>4 DEF Refused, Console, SetFailureBit, PeerLost, vars, WaitReturns,
         Timeout, PrintReport, Alloc, Clear, Fetch, PrintRow, Exit, ReadRtt,
         PrintEstimate, PrintFailed, EndSession, Release
  <2> QED
    BY <2>1
<1> QED
  BY <1>1, <1>2, <1>3, <1>4 DEF Next, Handler, Driver

(* So do the answers: the one that is added is read from the globals.        *)
LEMMA PrintedStep == OrderInv /\ [Next]_vars => Printed' /\ NeverOlder'
<1> SUFFICES ASSUME OrderInv, [Next]_vars PROVE Printed' /\ NeverOlder'
  OBVIOUS
<1>0. TypeOK /\ InOrder /\ Printed /\ NeverOlder
  BY DEF OrderInv
<1>t. /\ asked \in 0..MaxSessions /\ dist \in 0..MaxSessions
      /\ seen \in 0..MaxSessions /\ Sessions \subseteq Nat
      /\ answer \in [Sessions -> Answers]
      /\ \A k \in Sessions : answer[k].rtt \in Nat /\ answer[k].dist \in Nat
  <2>1. answer \in [Sessions -> Answers]
    BY <1>0 DEF TypeOK
  <2> QED
    BY <1>0, <2>1 DEF TypeOK, Sessions, Answers
<1>1. CASE PrintEstimate
  <2>1. /\ answer' = [answer EXCEPT ![asked] = [verdict |-> "measured",
                          rtt |-> seen, dist |-> dist, rows |-> rows]]
        /\ pc = "dist" /\ pc' = "prompt" /\ UNCHANGED <<asked, dist>>
    BY <1>1 DEF PrintEstimate, globals
  <2>2. \A k \in Sessions :
            answer'[k] = IF k = asked THEN [verdict |-> "measured", rtt |-> seen,
                                            dist |-> dist, rows |-> rows]
                                      ELSE answer[k]
    BY <2>1, <1>t
  <2>3. Printed'
    BY <1>0, <1>t, <2>1, <2>2 DEF Printed, Measured
  <2>4. NeverOlder'
    BY <1>0, <1>t, <2>1, <2>2 DEF Printed, Measured, NeverOlder
  <2> QED
    BY <2>3, <2>4
<1>2. CASE Timeout \/ PrintFailed
  <2>1. PICK v \in {"failed", "timedout"} :
            /\ answer' = [answer EXCEPT ![asked] = Plain(v)]
            /\ pc' # "dist" /\ UNCHANGED <<asked, dist>>
    BY <1>2 DEF Timeout, PrintFailed, globals
  <2>2. Plain(v) = [verdict |-> v, rtt |-> 0, dist |-> 0, rows |-> 0]
    BY Vocabulary
  <2>3. \A k \in Sessions : answer'[k] = IF k = asked THEN Plain(v) ELSE answer[k]
    BY <2>1, <1>t
  <2>4. \A k \in Sessions :
            /\ Measured(k)' => answer'[k] = answer[k] /\ Measured(k)
            /\ answer'[k].rtt <= answer'[k].dist
    BY <1>0, <2>2, <2>3 DEF Printed, Measured
  <2> QED
    BY <1>0, <2>1, <2>4 DEF Printed, Measured, NeverOlder
<1>3. CASE HandleReport
  <2>1. /\ dist' = Head(queue).sid /\ queue # <<>>
        /\ UNCHANGED <<answer, asked, pc, seen>>
    BY <1>3 DEF HandleReport, console
  <2>2. dist <= dist' /\ dist' \in 0..MaxSessions
    <3>1. queue \in Seq(Events)
      BY <1>0 DEF TypeOK
    <3>2. 1 \in DOMAIN queue /\ Head(queue) = queue[1]
      BY <2>1, <3>1, Delivered
    <3> QED
      BY <1>0, <2>1, <3>2, EventTypes DEF InOrder
  <2>3. Printed'
    BY <1>0, <1>t, <2>1, <2>2 DEF Printed, Measured
  <2> QED
    BY <1>0, <2>1, <2>3 DEF NeverOlder
<1>4. CASE Initiate \/ ReadRtt
  <2>1. /\ UNCHANGED <<answer, dist, rtt>> /\ asked' \in Nat /\ asked <= asked'
        /\ pc' = "dist" => seen' = rtt
    BY <1>4, <1>t DEF Initiate, ReadRtt, globals
  <2> QED
    BY <1>0, <1>t, <2>1 DEF Printed, Measured, NeverOlder, InOrder
<1>5. CASE \/ Refused \/ WaitReturns \/ PrintReport \/ Alloc \/ Clear \/ Fetch
           \/ PrintRow \/ Exit \/ EndSession \/ Release \/ SetFailureBit \/ Driver
           \/ UNCHANGED vars
  <2>1. UNCHANGED <<answer, dist, asked, seen>> /\ (pc' = "dist" => pc = "dist")
    BY <1>5 DEF Refused, WaitReturns, PrintReport, Alloc, Clear, Fetch, PrintRow,
         Exit, EndSession, Release, SetFailureBit, Driver, SessionOver, PeerLost,
         Terminated, vars, console, globals, driver
  <2> QED
    BY <1>0, <2>1 DEF Printed, Measured, NeverOlder
<1> QED
  BY <1>1, <1>2, <1>3, <1>4, <1>5 DEF Next, Console, Handler

(* However late the reports are, results never go backwards: no line prints  *)
(* numbers older than those of an earlier line.                              *)
THEOREM NeverOlderHolds == SafeSpec => []NeverOlder
<1>1. Init => OrderInv
  <2> SUFFICES ASSUME Init PROVE OrderInv
    OBVIOUS
  <2>1. TypeOK
    BY InitInv DEF IInv
  <2>2. \A k \in Sessions :
            answer[k] = [verdict |-> "none", rtt |-> 0, dist |-> 0, rows |-> 0]
    BY DEF Init, Service!Init, Service!Sessions, Service!NoAnswer, Sessions
  <2>3. Printed /\ NeverOlder
    BY <2>2 DEF Init, Printed, Measured, NeverOlder
  <2>4. InOrder
    BY DEF Init, Service!Init, InOrder
  <2> QED
    BY <2>1, <2>3, <2>4 DEF OrderInv
<1>2. OrderInv /\ [Next]_vars => OrderInv'
  BY OrderStep, TypeStep, PrintedStep DEF OrderInv
<1>3. OrderInv => NeverOlder
  BY DEF OrderInv
<1> QED
  BY <1>1, <1>2, <1>3, PTL DEF SafeSpec

-----------------------------------------------------------------------------

GaveUp == \E k \in Sessions : answer[k].verdict = "timedout"

\* until a command has given up waiting, all is as if the wait were long enough
LateInv ==
    /\ TypeOK /\ Untouched /\ CommandPending /\ WrongOnlyAfterTimeout
    /\ GaveUp \/ IInv

(* The bookkeeping of sessions and answers needs no assumption.              *)
LEMMA PendingStep ==
  ASSUME TypeOK, Untouched, CommandPending, [Next]_vars
  PROVE  Untouched' /\ CommandPending'
<1> USE Vocabulary DEF TypeOK, Untouched, CommandPending, console, globals,
        driver, PCs, Printing, Sessions
<1>1. CASE Initiate
  <2>1. /\ pc' = "wait" /\ asked' = asked + 1 /\ asked' \in Sessions
        /\ UNCHANGED <<truth, answer>>
    BY <1>1 DEF Initiate
  <2>2. answer[asked'].verdict = "none"
    BY <2>1
  <2> QED
    BY <2>1, <2>2
<1>2. CASE Timeout \/ PrintFailed
  <2>1. PICK v \in {"failed", "timedout"} :
            /\ answer' = [answer EXCEPT ![asked] = Plain(v)]
            /\ pc \in {"wait", "failed"} /\ pc' \in {"end", "release"}
            /\ UNCHANGED <<asked, truth>>
    BY <1>2 DEF Timeout, PrintFailed
  <2>2. asked \in Sessions /\ answer'[asked].verdict = v
    BY <2>1
  <2> QED
    BY <2>1, <2>2
<1>3. CASE PrintEstimate
  BY <1>3 DEF PrintEstimate
<1>4. CASE SessionOver
  BY <1>4 DEF SessionOver
<1>5. CASE \/ Refused \/ WaitReturns \/ PrintReport \/ Alloc \/ Clear \/ Fetch
           \/ PrintRow \/ Exit \/ ReadRtt \/ EndSession \/ Release \/ Handler
           \/ PeerLost \/ Terminated \/ UNCHANGED vars
  BY <1>5 DEF Refused, WaitReturns, PrintReport, Alloc, Clear, Fetch, PrintRow, Exit,
       ReadRtt, EndSession, Release, Handler, HandleReport, SetFailureBit, PeerLost,
       Terminated, vars
<1> QED
  BY <1>1, <1>2, <1>3, <1>4, <1>5 DEF Next, Console, Driver

(* Only the current, unanswered session is answered.                         *)
LEMMA AnswerStep ==
  ASSUME TypeOK, CommandPending, [Next]_vars, NEW k \in Sessions
  PROVE  /\ answer[k].verdict # "none" => answer'[k] = answer[k]
         /\ answer'[k] # answer[k] =>
                \/ k = asked /\ PrintEstimate
                \/ k = asked /\ Timeout /\ answer'[k].verdict = "timedout"
                \/ k = asked /\ PrintFailed /\ answer'[k].verdict = "failed"
<1> USE Vocabulary DEF TypeOK, CommandPending, Printing
<1>1. CASE Timeout \/ PrintFailed \/ PrintEstimate
  BY <1>1 DEF Timeout, PrintFailed, PrintEstimate
<1>2. CASE ~(Timeout \/ PrintFailed \/ PrintEstimate)
  <2>1. UNCHANGED answer
    BY <1>2 DEF Next, Console, Handler, Driver, Initiate, Refused, WaitReturns,
       PrintReport, Alloc, Clear, Fetch, PrintRow, Exit, ReadRtt, EndSession, Release,
       HandleReport, SetFailureBit, SessionOver, PeerLost, Terminated, vars
  <2> QED
    BY <2>1
<1> QED
  BY <1>1, <1>2

(* Once a command has given up, one has; until then the invariant of the     *)
(* timely case is kept by every step that is no timeout.                     *)
LEMMA LateStep == ASSUME LateInv, [Next]_vars PROVE LateInv'
<1>0. TypeOK /\ Untouched /\ CommandPending /\ WrongOnlyAfterTimeout
  BY DEF LateInv
<1>1. TypeOK' /\ Untouched' /\ CommandPending'
  BY <1>0, TypeStep, PendingStep
<1>2. \A k \in Sessions : answer[k].verdict = "timedout" => answer'[k] = answer[k]
  BY <1>0, AnswerStep
<1>3. GaveUp' \/ IInv'
  <2>1. CASE GaveUp
    BY <2>1, <1>2 DEF GaveUp, Sessions
  <2>2. CASE ~GaveUp /\ ~Timeout
    <3>1. IInv
      BY <2>2 DEF LateInv
    <3> QED
      BY <2>2, <3>1, InvStep
  <2>3. CASE Timeout
    <3>1. asked \in Sessions
      BY <1>0, <2>3 DEF Timeout, CommandPending, TypeOK, Sessions
    <3>2. answer'[asked].verdict = "timedout"
      BY <1>0, <2>3, <3>1, Vocabulary DEF Timeout, TypeOK
    <3> QED
      BY <3>1, <3>2 DEF GaveUp, Sessions
  <2> QED
    BY <2>1, <2>2, <2>3
<1>4. ASSUME NEW k \in Sessions, answer'[k].verdict = "measured",
             {answer'[k].rtt, answer'[k].dist} # {k}
      PROVE  \E j \in 1..(k - 1) : answer'[j].verdict = "timedout"
  <2>1. CASE answer'[k] = answer[k]
    <3>1. PICK j \in 1..(k - 1) : answer[j].verdict = "timedout"
      BY <1>0, <1>4, <2>1 DEF WrongOnlyAfterTimeout
    <3>2. j \in Sessions
      BY DEF Sessions
    <3> QED
      BY <1>2, <3>1, <3>2
  <2>2. CASE answer'[k] # answer[k]
    <3>1. k = asked /\ PrintEstimate
      BY <1>0, <1>4, <2>2, AnswerStep
    <3>2. pc = "dist" /\ answer'[k].rtt = seen /\ answer'[k].dist = dist
      BY <1>0, <3>1 DEF PrintEstimate, TypeOK
    <3>3. ~IInv
      BY <1>4, <3>1, <3>2 DEF IInv, ConsoleState, Printing
    <3>4. PICK j \in Sessions : answer[j].verdict = "timedout"
      BY <3>3 DEF LateInv, GaveUp
    <3>5. answer[asked].verdict = "none"
      BY <1>0, <3>2 DEF CommandPending, Printing
    <3>6. j \in 1..(k - 1)
      BY <1>0, <3>1, <3>4, <3>5 DEF Untouched, Sessions, TypeOK
    <3> QED
      BY <1>2, <3>4, <3>6
  <2> QED
    BY <2>1, <2>2
<1>5. WrongOnlyAfterTimeout'
  BY <1>4 DEF WrongOnlyAfterTimeout, Sessions
<1> QED
  BY <1>1, <1>3, <1>5 DEF LateInv

(* It holds initially: nothing has been answered.                            *)
LEMMA LateInit == Init => LateInv
<1> SUFFICES ASSUME Init PROVE LateInv
  OBVIOUS
<1>1. IInv
  BY InitInv
<1>2. \A k \in Sessions : answer[k].verdict = "none"
  BY DEF Init, Service!Init, Service!Sessions, Service!NoAnswer, Sessions
<1> QED
  BY <1>1, <1>2 DEF LateInv, IInv, WrongOnlyAfterTimeout

(* However late the reports are, the first command to print another's result *)
(* has a command before it that gave up waiting.                             *)
THEOREM WrongOnlyAfterTimeoutHolds == SafeSpec => []WrongOnlyAfterTimeout
<1>1. Init => LateInv
  BY LateInit
<1>2. LateInv /\ [Next]_vars => LateInv'
  BY LateStep
<1>3. LateInv => WrongOnlyAfterTimeout
  BY DEF LateInv
<1> QED
  BY <1>1, <1>2, <1>3, PTL DEF SafeSpec
=============================================================================

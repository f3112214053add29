-------------------------- MODULE WifiControlProofs --------------------------
(***************************************************************************)
(* For any number of commands, losses and retries: the types, the access   *)
(* point that "ftm -R" relies on, the bound on the handler's attempts to   *)
(* connect, that it makes all of them while no "ap" is typed, and that     *)
(* "sta -d" is obeyed; and that CONNECTED_BIT does not outlive the link.   *)
(***************************************************************************)
EXTENDS WifiControl, TLAPS

USE WifiAssumption

(* Delivering the oldest event leaves the others.                            *)
LEMMA Delivered ==
  ASSUME NEW S, NEW q \in Seq(S), q # <<>>
  PROVE  /\ Tail(q) \in Seq(S) /\ 1 \in DOMAIN q /\ Head(q) = q[1]
         /\ \A i \in DOMAIN Tail(q) :
                i + 1 \in DOMAIN q /\ Tail(q)[i] = q[i + 1]
  OBVIOUS

(* Posting an event leaves the earlier ones.                                 *)
LEMMA Posted ==
  ASSUME NEW S, NEW q \in Seq(S), NEW e \in S
  PROVE  /\ Append(q, e) \in Seq(S)
         /\ \A i \in DOMAIN Append(q, e) :
                \/ i \in DOMAIN q /\ Append(q, e)[i] = q[i]
                \/ Append(q, e)[i] = e
  OBVIOUS

(* A restart of the access point posts its stop and its start.               *)
LEMMA RestartPosts ==
  ASSUME queue \in Seq(Events), Restarted
  PROVE  queue' \in Seq(Events)
<1>1. <<"AP_STOP", "AP_START">> \in Seq(Events)
  BY DEF Events
<1>2. queue \o <<"AP_STOP", "AP_START">> \in Seq(Events)
  BY <1>1
<1> QED
  BY <1>2 DEF Restarted

(* Every step keeps the variables in their types.                            *)
LEMMA TypeStep == TypeOK /\ [Next]_vars => TypeOK'
<1> SUFFICES ASSUME TypeOK, [Next]_vars PROVE TypeOK'
  OBVIOUS
<1> USE DEF TypeOK, Modes, ApConfigs, link, ap, env, history
<1>0. {"CONNECTED", "DISCONNECTED", "AP_START", "AP_STOP"} \subseteq Events
  BY DEF Events
<1>1. CASE Join
  <2>1. commands' \in 0..MaxCommands /\ drops' = drops
    BY <1>1 DEF Join, Type
  <2> QED
    BY <1>1, <2>1 DEF Join
<1>2. CASE Leave
  <2>1. commands' \in 0..MaxCommands /\ drops' = drops
    BY <1>2 DEF Leave, Type
  <2> QED
    BY <1>2, <2>1 DEF Leave
<1>3. CASE Ap
  <2>1. commands' \in 0..MaxCommands /\ drops' = drops
    BY <1>3 DEF Ap, Type
  <2> QED
    BY <1>3, <2>1 DEF Ap
<1>4. CASE Scan
  BY <1>4 DEF Scan, Type, WithSta
<1>5. CASE Responder
  <2>1. apConfig' \in ApConfigs /\ asked' \in ApConfigs
    <3>1. PICK on \in BOOLEAN : apConfig' = [apConfig EXCEPT !.responder = on]
      BY <1>5 DEF Responder
    <3>2. apConfig' \in ApConfigs /\ apConfig'.responder = on
      BY <3>1
    <3> QED
      BY <1>5, <3>1, <3>2 DEF Responder
  <2>2. queue' \in Seq(Events)
    BY <1>5, RestartPosts DEF Responder
  <2> QED
    BY <1>5, <2>1, <2>2 DEF Responder, Type
<1>6. CASE JoinMode
  BY <1>6 DEF JoinMode, WithSta
<1>7. CASE DropAuto
  BY <1>7 DEF DropAuto
<1>8. CASE ClearConnected
  BY <1>8 DEF ClearConnected
<1>9. CASE Disconnect
  BY <1>9, <1>0, Posted DEF Disconnect, AttemptOver
<1>10. CASE Connect
  BY <1>10 DEF Connect, Connecting
<1>11. CASE Arm
  BY <1>11 DEF Arm
<1>12. CASE ResetRetry
  BY <1>12 DEF ResetRetry
<1>13. CASE AwaitConnected
  BY <1>13 DEF AwaitConnected
<1>14. CASE ApCheck
  BY <1>14 DEF ApCheck
<1>15. CASE ApMode
  BY <1>15, <1>0, Posted DEF ApMode, WithAp, HasAp
<1>16. CASE ApSet
  <2>1. apConfig' \in ApConfigs /\ asked' \in ApConfigs /\ apRuns' = apConfig'
    BY <1>16 DEF ApSet
  <2>2. queue' \in Seq(Events)
    BY <1>16, RestartPosts DEF ApSet
  <2> QED
    BY <1>16, <2>1, <2>2 DEF ApSet
<1>17. CASE Connected
  BY <1>17, Delivered DEF Connected, Deliver
<1>18. CASE Disconnected
  BY <1>18, Delivered DEF Disconnected, Deliver
<1>19. CASE Retry
  BY <1>19 DEF Retry, Connecting
<1>20. CASE Lost
  BY <1>20 DEF Lost
<1>21. CASE ApStarted
  <2>1. queue' \in Seq(Events)
    <3>1. queue # <<>> /\ queue' = Tail(queue)
      BY <1>21 DEF ApStarted, Deliver
    <3> QED
      BY <3>1, Delivered
  <2>2. apStarted' \in BOOLEAN
    BY <1>21 DEF ApStarted
  <2> QED
    BY <1>21, <2>1, <2>2 DEF ApStarted, Deliver
<1>22. CASE Associate
  BY <1>22, <1>0, Posted DEF Associate
<1>23. CASE Unreachable
  BY <1>23, <1>0, Posted DEF Unreachable, TooEarly, AttemptOver
<1>24. CASE Dropped
  BY <1>24, <1>0, Posted DEF Dropped, TooEarly, AttemptOver
<1>25. CASE LeaveInfo
  BY <1>25 DEF LeaveInfo
<1>26. CASE UNCHANGED vars
  BY <1>26 DEF vars
<1>27. CASE ConnectAborts
  <2>1. InitialConfig \in ApConfigs
    BY DEF InitialConfig
  <2>2. {leaving', reconnect', connBit', apStarted', early', leftover'} \subseteq BOOLEAN
    BY <1>27 DEF ConnectAborts
  <2>3. {apConfig', apRuns', asked'} \subseteq ApConfigs
    BY <1>27, <2>1 DEF ConnectAborts
  <2>4. queue' \in Seq(Events)
    BY <1>27 DEF ConnectAborts
  <2> QED
    BY <1>27, <2>2, <2>3, <2>4 DEF ConnectAborts
<1> QED
  BY <1>1, <1>2, <1>3, <1>4, <1>5, <1>6, <1>7, <1>8, <1>9, <1>10, <1>11,
     <1>12, <1>13, <1>14, <1>15, <1>16, <1>17, <1>18, <1>19, <1>20,
     <1>21, <1>22, <1>23, <1>24, <1>25, <1>26, <1>27
     DEF Next, User, Console, Handler, Driver

(* An AP_START is on its way, or the flag is up, only with an access point;  *)
(* no command takes the access point out of the mode again.                  *)
LEMMA ApStep == TypeOK /\ ApInv /\ [Next]_vars => ApInv'
<1> SUFFICES ASSUME TypeOK, ApInv, [Next]_vars PROVE ApInv'
  OBVIOUS
<1> USE DEF ApInv, HasAp, link, ap, env, history
<1>a. queue \in Seq(Events) /\ mode \in Modes
  BY DEF TypeOK
<1>b. {"CONNECTED", "DISCONNECTED", "AP_START", "AP_STOP"} \subseteq Events
  BY DEF Events
<1>1. CASE Join
  BY <1>1, <1>a DEF Join, Type, Modes
<1>2. CASE Leave
  BY <1>2, <1>a DEF Leave, Type
<1>3. CASE Ap
  BY <1>3, <1>a DEF Ap, Type
<1>4. CASE Scan
  BY <1>4, <1>a DEF Scan, Type, WithSta, Modes
<1>5. CASE Responder
  BY <1>5, <1>a DEF Responder, Type, Restarted
<1>6. CASE JoinMode
  BY <1>6, <1>a DEF JoinMode, WithSta, Modes
<1>7. CASE DropAuto
  BY <1>7, <1>a DEF DropAuto
<1>8. CASE ClearConnected
  BY <1>8, <1>a DEF ClearConnected
<1>9. CASE Disconnect
  BY <1>9, <1>a, <1>b, Posted DEF Disconnect
<1>10. CASE Connect
  BY <1>10, <1>a DEF Connect, Connecting
<1>11. CASE Arm
  BY <1>11, <1>a DEF Arm
<1>12. CASE ResetRetry
  BY <1>12, <1>a DEF ResetRetry
<1>13. CASE AwaitConnected
  BY <1>13, <1>a DEF AwaitConnected
<1>14. CASE ApCheck
  BY <1>14, <1>a DEF ApCheck
<1>15. CASE ApMode
  BY <1>15, <1>a, <1>b, Posted DEF ApMode, WithAp, HasAp, Modes
<1>16. CASE ApSet
  BY <1>16, <1>a DEF ApSet, Restarted
<1>17. CASE Connected
  BY <1>17, <1>a, Delivered DEF Connected, Deliver
<1>18. CASE Disconnected
  BY <1>18, <1>a, Delivered DEF Disconnected, Deliver
<1>19. CASE Retry
  BY <1>19, <1>a DEF Retry, Connecting
<1>20. CASE Lost
  BY <1>20, <1>a DEF Lost
<1>21. CASE ApStarted
  BY <1>21, <1>a, Delivered DEF ApStarted, Deliver
<1>22. CASE Associate
  BY <1>22, <1>a, <1>b, Posted DEF Associate
<1>23. CASE Unreachable
  BY <1>23, <1>a, <1>b, Posted DEF Unreachable, TooEarly
<1>24. CASE Dropped
  BY <1>24, <1>a, <1>b, Posted DEF Dropped, TooEarly
<1>25. CASE LeaveInfo
  BY <1>25, <1>a DEF LeaveInfo
<1>26. CASE UNCHANGED vars
  BY <1>26 DEF vars
<1>27. CASE ConnectAborts
  BY <1>27 DEF ConnectAborts
<1> QED
  BY <1>1, <1>2, <1>3, <1>4, <1>5, <1>6, <1>7, <1>8, <1>9, <1>10, <1>11,
     <1>12, <1>13, <1>14, <1>15, <1>16, <1>17, <1>18, <1>19, <1>20,
     <1>21, <1>22, <1>23, <1>24, <1>25, <1>26, <1>27
     DEF Next, User, Console, Handler, Driver

(* The attempts of the handler and its counter go together.                  *)
LEMMA RetryStep == TypeOK /\ RetryInv /\ [Next]_vars => RetryInv'
<1> SUFFICES ASSUME TypeOK, RetryInv, [Next]_vars PROVE RetryInv'
  OBVIOUS
<1> USE DEF RetryInv
<1>0. retry \in Nat /\ tries \in Nat /\ hpc \in {"idle", "retry", "lost"}
  BY DEF TypeOK
<1>1. CASE ResetRetry
  BY <1>0, <1>1 DEF ResetRetry
<1>2. CASE Disconnected
  BY <1>0, <1>2 DEF Disconnected, Deliver, history
<1>3. CASE Retry
  BY <1>0, <1>3 DEF Retry, link
<1>4. CASE Lost
  BY <1>0, <1>4 DEF Lost, history
<1>5. CASE Join \/ Leave \/ Ap \/ Scan \/ Responder \/ JoinMode \/ DropAuto
           \/ ClearConnected \/ Disconnect \/ Connect \/ Arm
           \/ LeaveInfo \/ AwaitConnected \/ ApCheck \/ ApMode \/ ApSet \/ Connected
           \/ ApStarted \/ Driver \/ Dropped \/ UNCHANGED vars
  <2>1. UNCHANGED <<retry, tries, hpc>>
    BY <1>5 DEF Join, Leave, LeaveInfo, Ap, Scan, Responder, JoinMode, DropAuto,
       ClearConnected, Disconnect, Connect, Arm, AwaitConnected, ApCheck,
       ApMode, ApSet, Connected, ApStarted, Driver, Associate, Unreachable,
       Dropped, vars, link, history, env
  <2> QED
    BY <2>1
<1>6. CASE ConnectAborts
  BY <1>6 DEF ConnectAborts
<1> QED
  BY <1>1, <1>2, <1>3, <1>4, <1>5, <1>6 DEF Next, User, Console, Handler

(* A longer queue still has all its events, in their places.                 *)
Longer ==
    \A i \in DOMAIN queue : i \in DOMAIN queue' /\ queue'[i] = queue[i]

(* None of its new events is about the link.                                 *)
NoLinkEvent ==
    \A i \in DOMAIN queue' : queue'[i] \in {"CONNECTED", "DISCONNECTED"}
                                => i \in DOMAIN queue

LEMMA RestartAppends ==
  ASSUME queue \in Seq(Events), Restarted
  PROVE  Longer /\ NoLinkEvent
<1>1. CASE queue' = queue
  BY <1>1 DEF Longer, NoLinkEvent
<1>2. CASE queue' = queue \o <<"AP_STOP", "AP_START">>
  BY <1>2 DEF Longer, NoLinkEvent
<1> QED
  BY <1>1, <1>2 DEF Restarted

LEMMA PostAppends ==
  ASSUME queue \in Seq(Events), NEW e \in Events, queue' = Append(queue, e)
  PROVE  /\ Longer
         /\ e = "AP_START" => NoLinkEvent
         /\ \E k \in DOMAIN queue' : queue'[k] = e /\ \A i \in DOMAIN queue' : i <= k
<1>1. Len(queue) + 1 \in DOMAIN queue' /\ queue'[Len(queue) + 1] = e
      /\ \A i \in DOMAIN queue' : i <= Len(queue) + 1
  OBVIOUS
<1>2. Longer
  BY DEF Longer
<1>3. e = "AP_START" => NoLinkEvent
  BY DEF NoLinkEvent
<1> QED
  BY <1>1, <1>2, <1>3

(* After a "sta -d" the handler has nothing to act on while s_reconnect is   *)
(* on, and what it had decided before is all that it still does.             *)
LEMMA OffStep == TypeOK /\ OffInv /\ [Next]_vars => OffInv'
<1> SUFFICES ASSUME TypeOK, OffInv, [Next]_vars PROVE OffInv'
  OBVIOUS
<1>a. queue \in Seq(Events) /\ hpc \in {"idle", "retry", "lost"}
      /\ sta \in {"down", "connecting", "up"}
  BY DEF TypeOK
<1>b. {"CONNECTED", "DISCONNECTED", "AP_START", "AP_STOP"} \subseteq Events
  BY DEF Events
<1> USE DEF OffInv, link, ap, env, history
<1>1. CASE Join \/ JoinMode \/ DropAuto \/ Connect \/ Arm \/ ResetRetry
           \/ AwaitConnected
  <2>1. CASE Join \/ JoinMode \/ DropAuto
    <3>1. wish' = "on" /\ pc' \in {"joinMode", "dropAuto", "connect", "clear"}
          /\ ~leaving'
      BY <2>1 DEF Join, JoinMode, DropAuto
    <3> QED
      BY <3>1
  <2>2. CASE Connect \/ Arm \/ ResetRetry \/ AwaitConnected
    <3>1. wish' = "on" /\ pc' \in {"arm", "reset", "wait", "prompt"}
      BY <2>2 DEF Connect, Arm, ResetRetry, AwaitConnected
    <3> QED
      BY <3>1
  <2> QED
    BY <1>1, <2>1, <2>2
<1>2. CASE Leave
  <2>1. /\ pc' = "leave" /\ wish' = "off" /\ ~reconnect' /\ leaving'
        /\ leftover' = (sta = "connecting" \/ hpc = "retry")
        /\ UNCHANGED <<hpc, sta>>
    BY <1>2 DEF Leave
  <2> QED
    BY <2>1
<1>3. CASE LeaveInfo
  BY <1>3, <1>a DEF LeaveInfo, UnderWay, LossPosted
<1>4. CASE ClearConnected
  BY <1>4 DEF ClearConnected, UnderWay, LossPosted
<1>5. CASE Disconnect
  <2>1. /\ pc = "disconnect" /\ pc' = IF leaving THEN "prompt" ELSE "connect"
        /\ sta' = "down" /\ leftover' = (leftover /\ hpc = "retry")
        /\ UNCHANGED <<leaving, reconnect, hpc, wish>>
        /\ sta = "down" => queue' = queue
    BY <1>5 DEF Disconnect, AttemptOver
  <2>2. wish = "off" /\ reconnect => ~UnderWay'
    BY <2>1 DEF UnderWay, LossPosted
  <2> QED
    BY <2>1, <2>2
<1>6. CASE Ap \/ ApCheck
  <2>1. CASE Ap
    BY <2>1 DEF Ap, Type
  <2>2. CASE ApCheck
    <3>1. /\ pc = "apCheck" /\ pc' \in {"prompt", "apMode"}
          /\ UNCHANGED <<leaving, hpc, queue, sta, leftover>>
          /\ \/ reconnect' = TRUE /\ wish' = IF UnderWay THEN "none" ELSE wish
             \/ UNCHANGED <<reconnect, wish>>
      BY <2>2 DEF ApCheck
    <3>2. UnderWay' = UnderWay
      BY <3>1 DEF UnderWay, LossPosted
    <3> QED
      BY <3>1, <3>2
  <2> QED
    BY <1>6, <2>1, <2>2
<1>7. CASE ApMode \/ ApSet \/ Responder
  <2>1. /\ UNCHANGED <<leaving, reconnect, hpc, sta, wish, leftover>>
        /\ \/ pc \in {"apMode", "apSet"} /\ pc' \in {"apSet", "prompt"}
           \/ pc' = pc
    BY <1>7 DEF ApMode, ApSet, Responder
  <2>2. Longer /\ NoLinkEvent
    <3>1. CASE ApMode /\ queue' = queue
      BY <3>1 DEF Longer, NoLinkEvent
    <3>2. CASE ApMode /\ queue' = Append(queue, "AP_START")
      BY <1>a, <1>b, <3>2, PostAppends
    <3>3. CASE ApSet \/ Responder
      BY <1>a, <3>3, RestartAppends DEF ApSet, Responder
    <3> QED
      BY <1>7, <3>1, <3>2, <3>3 DEF ApMode
  <2>3. UnderWay' => UnderWay
    BY <2>1, <2>2 DEF UnderWay, LossPosted, Longer, NoLinkEvent
  <2> QED
    BY <2>1, <2>3
<1>8. CASE Connected \/ ApStarted
  <2>1. /\ queue # <<>> /\ queue' = Tail(queue)
        /\ UNCHANGED <<pc, leaving, reconnect, hpc, sta, wish, leftover>>
    BY <1>8 DEF Connected, ApStarted, Deliver
  <2>2. \A i \in DOMAIN queue' : i + 1 \in DOMAIN queue /\ queue'[i] = queue[i + 1]
    BY <1>a, <2>1
  <2>3. UnderWay' => UnderWay
    BY <2>1, <2>2 DEF UnderWay, LossPosted
  <2> QED
    BY <2>1, <2>3
<1>9. CASE Disconnected
  <2>1. /\ queue # <<>> /\ Head(queue) = "DISCONNECTED"
        /\ hpc' = "retry" => reconnect
        /\ UNCHANGED <<pc, leaving, reconnect, sta, wish, leftover>>
    BY <1>9 DEF Disconnected, Deliver
  <2>2. LossPosted
    BY <1>a, <2>1 DEF LossPosted
  <2>3. wish = "off" => ~reconnect
    BY <2>2 DEF UnderWay
  <2> QED
    BY <2>1, <2>3
<1>10. CASE Retry \/ Lost
  <2>1. CASE Retry
    <3>1. /\ hpc = "retry" /\ hpc' = "lost"
          /\ UNCHANGED <<pc, leaving, reconnect, wish, leftover>>
      BY <2>1 DEF Retry
    <3> QED
      BY <3>1 DEF UnderWay
  <2>2. CASE Lost
    <3>1. /\ hpc = "lost" /\ hpc' = "idle"
          /\ UNCHANGED <<pc, leaving, reconnect, queue, sta, wish, leftover>>
      BY <2>2 DEF Lost
    <3> QED
      BY <3>1 DEF UnderWay, LossPosted
  <2> QED
    BY <1>10, <2>1, <2>2
<1>11. CASE Associate \/ Unreachable \/ Dropped
  <2>1. sta # "down" /\ UNCHANGED <<pc, leaving, reconnect, hpc, wish>>
        /\ \/ sta = "connecting" /\ sta' = "up" /\ UNCHANGED leftover
           \/ sta' = "down" /\ leftover' = (leftover /\ hpc = "retry")
    BY <1>11 DEF Associate, Unreachable, Dropped, AttemptOver
  <2>2. wish = "off" => ~reconnect'
    BY <2>1 DEF UnderWay
  <2>3. CASE sta' = "up" /\ sta = "connecting" /\ UNCHANGED leftover
    BY <2>1, <2>2, <2>3
  <2>4. CASE sta' = "down" /\ leftover' = (leftover /\ hpc = "retry")
    BY <2>1, <2>2, <2>4
  <2> QED
    BY <2>1, <2>3, <2>4
<1>12. CASE Scan \/ UNCHANGED vars
  <2>1. UNCHANGED <<pc, leaving, reconnect, hpc, queue, sta, wish, leftover>>
    BY <1>12 DEF Scan, vars
  <2> QED
    BY <2>1 DEF UnderWay, LossPosted
<1>13. CASE ConnectAborts
  BY <1>13 DEF ConnectAborts
<1> QED
  BY <1>1, <1>2, <1>3, <1>4, <1>5, <1>6, <1>7, <1>8, <1>9, <1>10, <1>11, <1>12,
     <1>13
     DEF Next, User, Console, Handler, Driver

(* A loss is posted behind all that says the station was connected, and the  *)
(* handler clears the bit for it.                                            *)
LEMMA BitStep == TypeOK /\ BitInv /\ [Next]_vars => BitInv'
<1> SUFFICES ASSUME TypeOK, BitInv, [Next]_vars PROVE BitInv'
  OBVIOUS
<1> USE DEF BitInv, LossPosted, link, ap, env, history
<1>a. queue \in Seq(Events) /\ hpc \in {"idle", "retry", "lost"}
      /\ sta \in {"down", "connecting", "up"}
  BY DEF TypeOK
<1>b. {"CONNECTED", "DISCONNECTED", "AP_START", "AP_STOP"} \subseteq Events
  BY DEF Events
<1>1. CASE Connected \/ Disconnected \/ ApStarted
  <2>1. /\ queue # <<>> /\ queue' = Tail(queue) /\ hpc = "idle" /\ sta' = sta
        /\ \/ Head(queue) = "CONNECTED" /\ hpc' = hpc
           \/ Head(queue) = "DISCONNECTED" /\ hpc' # "idle" /\ connBit' = connBit
           \/ Head(queue) \in {"AP_START", "AP_STOP"} /\ hpc' = hpc
              /\ connBit' = connBit
    BY <1>1 DEF Connected, Disconnected, ApStarted, Deliver
  <2>2. /\ 1 \in DOMAIN queue /\ Head(queue) = queue[1]
        /\ \A i \in DOMAIN Tail(queue) : i \in Nat /\ i >= 1
               /\ i + 1 \in DOMAIN queue /\ Tail(queue)[i] = queue[i + 1]
        /\ \A j \in DOMAIN queue : j > 1 =>
               j - 1 \in DOMAIN Tail(queue) /\ Tail(queue)[j - 1] = queue[j]
        /\ \A j \in DOMAIN queue : j \in Nat /\ j >= 1
    BY <1>a, <2>1
  <2>3. ASSUME sta # "up", NEW i \in DOMAIN queue', queue'[i] = "CONNECTED"
        PROVE  \E j \in DOMAIN queue' : i < j /\ queue'[j] = "DISCONNECTED"
    <3>1. PICK j \in DOMAIN queue : i + 1 < j /\ queue[j] = "DISCONNECTED"
      BY <2>1, <2>2, <2>3
    <3>2. j - 1 \in DOMAIN queue' /\ queue'[j - 1] = "DISCONNECTED" /\ i < j - 1
      BY <2>1, <2>2, <3>1
    <3> QED
      BY <3>2
  <2>4. ASSUME sta # "up", connBit', hpc' = "idle" PROVE LossPosted'
    <3>1. \E j \in DOMAIN queue : j > 1 /\ queue[j] = "DISCONNECTED"
      <4>1. CASE queue[1] = "CONNECTED"
        BY <2>2, <2>4, <4>1
      <4>2. CASE queue[1] \in {"AP_START", "AP_STOP"} /\ connBit
        <5>1. PICK j \in DOMAIN queue : queue[j] = "DISCONNECTED"
          BY <2>1, <2>4, <4>2
        <5>2. j # 1 /\ j \in Nat /\ j >= 1
          BY <2>2, <4>2, <5>1
        <5> QED
          BY <5>1, <5>2
      <4> QED
        BY <2>1, <2>2, <2>4, <4>1, <4>2
    <3>2. PICK j \in DOMAIN queue : j > 1 /\ queue[j] = "DISCONNECTED"
      BY <3>1
    <3>3. j - 1 \in DOMAIN queue' /\ queue'[j - 1] = "DISCONNECTED"
      BY <2>1, <2>2, <3>2
    <3> QED
      BY <3>3
  <2> QED
    BY <2>1, <2>3, <2>4
<1>2. CASE Unreachable \/ Dropped \/ (Disconnect /\ sta # "down")
  <2>1. /\ queue' = Append(queue, "DISCONNECTED") /\ UNCHANGED <<hpc, connBit>>
        /\ sta' = "down"
    BY <1>2 DEF Unreachable, Dropped, Disconnect
  <2>2. PICK k \in DOMAIN queue' :
            queue'[k] = "DISCONNECTED" /\ \A i \in DOMAIN queue' : i <= k
    BY <1>a, <1>b, <2>1, PostAppends
  <2>3. k \in Nat /\ \A i \in DOMAIN queue' : i \in Nat /\ (i = k \/ i < k)
    BY <1>a, <2>1, <2>2
  <2> QED
    BY <2>2, <2>3
<1>3. CASE ApMode \/ ApSet \/ Responder
  <2>1. UNCHANGED <<hpc, connBit, sta>>
    BY <1>3 DEF ApMode, ApSet, Responder
  <2>2. Longer /\ NoLinkEvent
    <3>1. CASE ApMode /\ queue' = queue
      BY <3>1 DEF Longer, NoLinkEvent
    <3>2. CASE ApMode /\ queue' = Append(queue, "AP_START")
      BY <1>a, <1>b, <3>2, PostAppends
    <3>3. CASE ApSet \/ Responder
      BY <1>a, <3>3, RestartAppends DEF ApSet, Responder
    <3> QED
      BY <1>3, <3>1, <3>2, <3>3 DEF ApMode
  <2> QED
    BY <2>1, <2>2 DEF Longer, NoLinkEvent
<1>4. CASE Associate
  BY <1>4 DEF Associate
<1>5. CASE Connect \/ Retry \/ (Disconnect /\ sta = "down")
  <2>1. /\ UNCHANGED <<queue, connBit>>
        /\ sta' # "up" => sta # "up"
        /\ hpc' = hpc \/ hpc' # "idle"
    BY <1>a, <1>5 DEF Connect, Retry, Connecting, Disconnect
  <2> QED
    BY <2>1
<1>6. CASE ClearConnected \/ AwaitConnected \/ Lost
  <2>1. UNCHANGED <<queue, sta>> /\ connBit' = FALSE
    BY <1>6 DEF ClearConnected, AwaitConnected, Lost
  <2> QED
    BY <2>1
<1>7. CASE Join \/ Leave \/ Ap \/ Scan \/ LeaveInfo \/ JoinMode \/ DropAuto \/ Arm
           \/ ResetRetry \/ ApCheck \/ UNCHANGED vars
  <2>1. UNCHANGED <<queue, sta, connBit, hpc>>
    BY <1>7 DEF Join, Leave, Ap, Scan, LeaveInfo, JoinMode, DropAuto, Arm,
       ResetRetry, ApCheck, vars
  <2> QED
    BY <2>1
<1>8. CASE ConnectAborts
  BY <1>8 DEF ConnectAborts
<1> QED
  BY <1>1, <1>2, <1>3, <1>4, <1>5, <1>6, <1>7, <1>8
     DEF Next, User, Console, Handler, Driver

(* A wanted station that is down still has something under way for it, or    *)
(* nothing left.                                                             *)
LEMMA GivenStep == TypeOK /\ OffInv /\ GivenInv /\ [Next]_vars => GivenInv'
<1> SUFFICES ASSUME TypeOK, OffInv, GivenInv, [Next]_vars PROVE GivenInv'
  OBVIOUS
<1> USE DEF GivenInv, LossPosted, link, ap, env, history
<1>a. queue \in Seq(Events) /\ hpc \in {"idle", "retry", "lost"}
      /\ sta \in {"down", "connecting", "up"} /\ retry \in Nat
      /\ MaxRetry \in Nat
  BY DEF TypeOK
<1>b. {"CONNECTED", "DISCONNECTED", "AP_START", "AP_STOP"} \subseteq Events
  BY DEF Events
<1>1. CASE Connected \/ ApStarted
  <2>1. /\ queue # <<>> /\ queue' = Tail(queue) /\ Head(queue) # "DISCONNECTED"
        /\ UNCHANGED <<pc, reconnect, retry, hpc, sta, wish, early>>
    BY <1>1 DEF Connected, ApStarted, Deliver
  <2>2. /\ Head(queue) = queue[1]
        /\ \A j \in DOMAIN queue : j # 1 =>
               j - 1 \in DOMAIN Tail(queue) /\ Tail(queue)[j - 1] = queue[j]
    BY <1>a, <2>1
  <2>3. LossPosted => LossPosted'
    BY <2>1, <2>2
  <2> QED
    BY <2>1, <2>3
<1>2. CASE Disconnected
  <2>1. /\ UNCHANGED <<pc, reconnect, sta, wish, early>>
        /\ reconnect => retry' \in Nat /\ (hpc' = "retry" \/ retry' >= MaxRetry)
    BY <1>a, <1>2 DEF Disconnected
  <2> QED
    BY <2>1
<1>3. CASE Unreachable \/ Dropped
  <2>1. /\ queue' = Append(queue, "DISCONNECTED") /\ TooEarly
        /\ UNCHANGED <<pc, reconnect, wish>>
    BY <1>3 DEF Unreachable, Dropped
  <2>2. LossPosted'
    BY <1>a, <1>b, <2>1, PostAppends
  <2>3. pc \in {"arm", "reset"} => early'
    BY <2>1 DEF TooEarly
  <2> QED
    BY <2>1, <2>2, <2>3
<1>4. CASE Associate \/ Retry
  <2>1. sta' # "down" /\ UNCHANGED <<pc, reconnect, wish>>
    BY <1>4 DEF Associate, Retry, Connecting
  <2> QED
    BY <2>1
<1>5. CASE Connect
  <2>1. sta' # "down" /\ pc' = "arm"
    BY <1>5 DEF Connect, Connecting
  <2> QED
    BY <2>1
<1>6. CASE Lost
  <2>1. hpc = "lost" /\ UNCHANGED <<pc, reconnect, retry, queue, sta, wish, early>>
    BY <1>6 DEF Lost
  <2> QED
    BY <2>1
<1>7. CASE ApMode \/ ApSet \/ Responder
  <2>1. /\ UNCHANGED <<reconnect, retry, hpc, sta, wish, early>>
        /\ pc' = "apSet" \/ (pc' = "prompt" /\ (wish = "on" => pc = "prompt"))
    BY <1>7 DEF ApMode, ApSet, Responder, Type, OffInv
  <2>2. Longer
    <3>1. CASE ApMode /\ queue' = queue
      BY <3>1 DEF Longer
    <3>2. CASE ApMode /\ queue' = Append(queue, "AP_START")
      BY <1>a, <1>b, <3>2, PostAppends
    <3>3. CASE ApSet \/ Responder
      BY <1>a, <3>3, RestartAppends DEF ApSet, Responder
    <3> QED
      BY <1>7, <3>1, <3>2, <3>3 DEF ApMode
  <2>3. LossPosted => LossPosted'
    BY <2>2 DEF Longer
  <2> QED
    BY <2>1, <2>3
<1>8. CASE Join \/ JoinMode \/ DropAuto \/ Ap \/ ClearConnected
  <2>1. pc' \in {"joinMode", "dropAuto", "clear", "disconnect", "connect", "apCheck"}
    BY <1>8 DEF Join, JoinMode, DropAuto, Ap, ClearConnected
  <2> QED
    BY <2>1
<1>9. CASE Leave \/ LeaveInfo \/ Disconnect
  <2>1. pc' \notin {"arm", "reset", "wait"} /\ (pc' = "prompt" => wish' = "off")
    BY <1>9 DEF Leave, LeaveInfo, Disconnect, OffInv
  <2> QED
    BY <2>1
<1>10. CASE Arm
  <2>1. pc = "arm" /\ pc' = "reset" /\ reconnect' /\ UNCHANGED <<sta, early>>
    BY <1>10 DEF Arm
  <2> QED
    BY <2>1
<1>11. CASE ResetRetry
  <2>1. pc = "reset" /\ pc' = "wait" /\ UNCHANGED <<reconnect, sta, wish, early>>
    BY <1>11 DEF ResetRetry
  <2> QED
    BY <2>1
<1>12. CASE ApCheck
  <2>1. pc' \in {"prompt", "apMode"} /\ wish' # "on"
    BY <1>12 DEF ApCheck, OffInv
  <2> QED
    BY <2>1
<1>13. CASE AwaitConnected \/ Scan \/ UNCHANGED vars
  <2>1. /\ UNCHANGED <<reconnect, retry, hpc, queue, sta, wish, early>>
        /\ pc' = pc \/ (pc = "wait" /\ pc' = "prompt")
    BY <1>13 DEF AwaitConnected, Scan, vars
  <2> QED
    BY <2>1
<1>14. CASE ConnectAborts
  BY <1>14 DEF ConnectAborts
<1> QED
  BY <1>1, <1>2, <1>3, <1>4, <1>5, <1>6, <1>7, <1>8, <1>9, <1>10, <1>11, <1>12,
     <1>13, <1>14 DEF Next, User, Console, Handler, Driver

(* The initial state satisfies the types and the invariants.                 *)
LEMMA InitInv == Init => TypeOK /\ ApInv /\ RetryInv /\ OffInv /\ BitInv /\ GivenInv
<1> SUFFICES ASSUME Init PROVE TypeOK /\ ApInv /\ RetryInv /\ OffInv /\ BitInv /\ GivenInv
  OBVIOUS
<1>1. InitialConfig \in ApConfigs
  BY DEF InitialConfig, ApConfigs
<1>2. TypeOK
  <2>1. {leaving, reconnect, connBit, apStarted, early, leftover} \subseteq BOOLEAN
    BY DEF Init
  <2>2. {apConfig, apRuns, asked} \subseteq ApConfigs
    BY <1>1 DEF Init
  <2> QED
    BY <2>1, <2>2 DEF Init, TypeOK, Modes
<1>3. ApInv /\ RetryInv
  BY DEF Init, ApInv, RetryInv
<1>4. OffInv
  BY DEF Init, OffInv
<1>5. BitInv /\ GivenInv
  BY DEF Init, BitInv, GivenInv
<1> QED
  BY <1>2, <1>3, <1>4, <1>5

-----------------------------------------------------------------------------

(* The variables keep their types in every reachable state.                  *)
THEOREM Typing == SafeSpec => []TypeOK
  BY InitInv, TypeStep, PTL DEF SafeSpec

(* Whenever s_ap_started is up or "ap" is about to configure it, the mode    *)
(* has an access point, so esp_wifi_set_config does not abort.               *)
THEOREM ApConfigurableHolds == SafeSpec => []ApConfigurable
<1>1. ApInv => ApConfigurable
  BY DEF ApInv, ApConfigurable
<1> QED
  BY Typing, InitInv, ApStep, <1>1, PTL DEF SafeSpec

(* Since the last join the handler has made at most MaxRetry attempts of its *)
(* own, in whatever order commands and link events come.                     *)
THEOREM RetryBudgetHolds == SafeSpec => []RetryBudget
<1>1. TypeOK /\ RetryInv => RetryBudget
  BY DEF TypeOK, RetryInv, RetryBudget
<1> QED
  BY Typing, InitInv, RetryStep, <1>1, PTL DEF SafeSpec

(* After "sta -d" the station is down but for an attempt that is older, for  *)
(* every interleaving of commands, handler and driver, and also after an     *)
(* "ap" that is accepted, or refused with nothing under way.                 *)
THEOREM LeaveObeyedHolds == SafeSpec => []LeaveObeyed
<1>1. OffInv => LeaveObeyed
  BY DEF OffInv, LeaveObeyed
<1> QED
  BY <1>1, Typing, InitInv, OffStep, PTL DEF SafeSpec

(* When all events are handled CONNECTED_BIT is not up over a station that   *)
(* is down, whatever the console interrupted.                                *)
THEOREM NoStaleBitHolds == SafeSpec => []NoStaleBit
<1>1. TypeOK /\ BitInv => NoStaleBit
  <2> SUFFICES ASSUME BitInv, Quiet, sta = "down", connBit PROVE FALSE
    BY DEF NoStaleBit
  <2> QED
    BY DEF BitInv, LossPosted, Quiet
<1> QED
  BY <1>1, Typing, InitInv, BitStep, PTL DEF SafeSpec

(* A station that the user joined is given up only after MaxRetry losses, or *)
(* for a loss before the join was done; as long as no "ap" is typed, which   *)
(* turns s_reconnect off.                                                    *)
THEOREM NotGivenUpHolds == SafeSpec => []NotGivenUp
<1>1. GivenInv => NotGivenUp
  BY DEF GivenInv, NotGivenUp, LossPosted, Quiet
<1> QED
  BY <1>1, Typing, InitInv, OffStep, GivenStep, PTL DEF SafeSpec
=============================================================================

------------------------ MODULE SerialConsoleProofs ------------------------
(***************************************************************************)
(* Theorems about SerialConsole, for any number of bytes and waits, any    *)
(* patterns, and whether or not the port and the file may fail.            *)
(***************************************************************************)
EXTENDS SerialConsole, TLAPS

\* a reader inside _append holds the lock, a main thread inside wait_for_any too
LockInv ==
    /\ lock = "reader" <=> Writing
    /\ lock = "main" <=> main = "check"

\* an error is only set by a reader that ends
ErrorInv == error => reader = "done"

\* how many characters the bytes read so far have become, at each step
CountInv ==
    /\ reader \in {"run", "read"} => text = got \div 2
    /\ reader = "append" => text + chunk = got \div 2
    /\ reader = "write" => text = got \div 2
    /\ reader = "tail" => text = got \div 2 /\ chunk = 1 /\ got % 2 = 1
    /\ reader = "writeTail" => text = got \div 2 + 1 /\ chunk = 1 /\ got % 2 = 1
    /\ reader \in {"raise", "done"} => text \in {got \div 2, got \div 2 + 1}
    /\ reader = "done" /\ ~error => text = (got + 1) \div 2

\* what the log lacks while the reader still runs
LogInv ==
    /\ Writing => text = logged + chunk
    /\ logged # text => Writing \/ reader = "raise" \/ error

\* the caller waits exactly while it is inside wait_for_any
CallInv == outcome = "waiting" <=> main \in {"enter", "check", "blocked"}

IInv == TypeOK /\ LockInv /\ ErrorInv /\ CountInv /\ LogInv /\ CallInv

USE ConsoleAssumption

(* Half of a number of bytes: what the decoder has completed.                *)
LEMMA Half ==
  ASSUME NEW n \in Nat
  PROVE  /\ n \div 2 \in Nat /\ n % 2 \in {0, 1}
         /\ (n + 1) \div 2 = (n \div 2) + (n % 2)
  OBVIOUS

LEMMA HalfGrows ==
  ASSUME NEW m \in Nat, NEW n \in 0..m
  PROVE  n \div 2 <= m \div 2
  BY Half, n \in Nat, n \div 2 \in Nat, m \div 2 \in Nat

(* Nothing has been read, nothing written, and both threads can start.       *)
LEMMA Start == Init => IInv
<1>1. MaxText \in Nat \ {0} /\ 0 \div 2 = 0 /\ 0 % 2 = 0
  BY Half DEF MaxText
<1>2. ASSUME Init PROVE TypeOK
  <2>1. {chunk, text, logged, since} \subseteq 0..MaxText
    BY <1>1, <1>2 DEF Init
  <2>2. {error, expired, woken, stop, portOpen, logOpen} \subseteq BOOLEAN
    BY <1>2, Zenon DEF Init
  <2> QED
    BY <2>1, <2>2, <1>2 DEF Init, TypeOK
<1>3. ASSUME Init PROVE LockInv /\ ErrorInv /\ CountInv /\ LogInv /\ CallInv
  BY <1>1, <1>3 DEF Init, LockInv, ErrorInv, CountInv, LogInv, CallInv, Writing
<1> QED
  BY <1>2, <1>3 DEF IInv

(* Every step of either thread keeps the invariant.                          *)
LEMMA Step == IInv /\ [Next]_vars => IInv'
<1> SUFFICES ASSUME IInv, [Next]_vars PROVE IInv'
  OBVIOUS
<1> USE DEF IInv, TypeOK, LockInv, ErrorInv, CountInv, LogInv, CallInv,
            Writing, MaxText, stream, output, waiter, closing
<1>0. /\ received \in Nat /\ got \in Nat /\ got <= received /\ received <= MaxBytes
      /\ got \div 2 \in Nat /\ got \div 2 <= MaxBytes \div 2 /\ MaxBytes \div 2 \in Nat
      /\ got % 2 \in {0, 1} /\ (got + 1) \div 2 = (got \div 2) + (got % 2)
      /\ {chunk, text, logged, since} \subseteq Nat
  <2>1. got \in Nat /\ got \in 0..MaxBytes /\ received \in Nat /\ got <= received
        /\ received <= MaxBytes /\ {chunk, text, logged, since} \subseteq Nat
    BY Half
  <2> QED
    BY <2>1, Half, HalfGrows
<1>1. CASE Receive
  BY <1>0, <1>1 DEF Receive
<1>2. CASE KeepRunning
  BY <1>0, <1>2 DEF KeepRunning
<1>3. CASE Stopped
  BY <1>0, <1>3 DEF Stopped
<1>4. CASE Read
  BY <1>0, <1>4 DEF Read
<1>5. CASE ReadNothing
  BY <1>0, <1>5 DEF ReadNothing
<1>6. CASE ReadFails
  BY <1>0, <1>6 DEF ReadFails
<1>7. CASE AppendText
  BY <1>0, <1>7 DEF AppendText
<1>8. CASE Write
  BY <1>0, <1>8 DEF Write
<1>9. CASE WriteFails
  BY <1>0, <1>9 DEF WriteFails
<1>10. CASE Raise
  BY <1>0, <1>10 DEF Raise
<1>11. CASE StartWait
  <2>1. since' \in 0..MaxText /\ UNCHANGED <<chunk, text, logged>>
    BY <1>0, <1>11 DEF StartWait
  <2>2. waits' \in 0..MaxWaits
    BY <1>11 DEF StartWait
  <2> QED
    BY <1>0, <2>1, <2>2, <1>11 DEF StartWait
<1>12. CASE Expire
  BY <1>0, <1>12 DEF Expire
<1>13. CASE Acquire
  BY <1>0, <1>13 DEF Acquire
<1>14. CASE Check
  <2>1. CASE Matched /\ Leave("matched")
    BY <1>0, <2>1, <1>14 DEF Check, Leave
  <2>2. CASE ~Matched /\ error /\ Leave("error")
    BY <1>0, <2>2, <1>14 DEF Check, Leave
  <2>3. CASE ~Matched /\ ~error /\ expired /\ Leave("timeout")
    BY <1>0, <2>3, <1>14 DEF Check, Leave
  <2>4. CASE ~Matched /\ ~error /\ ~expired /\ Block
    BY <1>0, <2>4, <1>14 DEF Check, Block
  <2> QED
    BY <1>14, <2>1, <2>2, <2>3, <2>4 DEF Check
<1>15. CASE Exit
  BY <1>0, <1>15 DEF Exit
<1>16. CASE Join
  BY <1>0, <1>16 DEF Join
<1>17. CASE ClosePort
  BY <1>0, <1>17 DEF ClosePort
<1>18. CASE CloseLog
  BY <1>0, <1>18 DEF CloseLog
<1>19. CASE UNCHANGED vars
  BY <1>19 DEF vars
<1>20. CASE Mark
  BY <1>0, <1>20 DEF Mark
<1> QED
  BY <1>1, <1>2, <1>3, <1>4, <1>5, <1>6, <1>7, <1>8, <1>9, <1>10, <1>11, <1>12, <1>13, <1>14, <1>15, <1>16, <1>17, <1>18, <1>19, <1>20 DEF Next, Reader, Waiter, Closer

LEMMA Invariant == SafeSpec => []IInv
<1>1. Init => IInv
  BY Start
<1>2. IInv /\ [Next]_vars => IInv'
  BY Step
<1> QED
  BY <1>1, <1>2, PTL DEF SafeSpec

(* Whatever fails, no variable leaves its range; in particular every         *)
(* character in _text and in the log comes from two bytes that arrived.      *)
THEOREM Typing == Spec => []TypeOK
<1>1. IInv => TypeOK
  BY DEF IInv
<1> QED
  BY <1>1, Invariant, PTL DEF Spec

(* A log that lacks what the host has seen always has an error beside it.    *)
THEOREM NoSilentLossHolds == Spec => []NoSilentLoss
<1>1. IInv => NoSilentLoss
  BY DEF IInv, TypeOK, LockInv, LogInv, NoSilentLoss
<1> QED
  BY <1>1, Invariant, PTL DEF Spec

(* A reader that ends without an error has kept all it took.                 *)
THEOREM CleanEndHolds == Spec => []CleanEnd
<1>1. IInv => CleanEnd
  BY DEF IInv, CountInv, LogInv, Writing, CleanEnd
<1> QED
  BY <1>1, Invariant, PTL DEF Spec

-----------------------------------------------------------------------------
\* Wake-ups

(* Every step of either thread keeps it.                                     *)
LEMMA WakeStep == IInv /\ NoLostWakeup /\ [Next]_vars => NoLostWakeup'
<1> SUFFICES ASSUME IInv, NoLostWakeup, [Next]_vars, main' = "blocked", ~woken'
             PROVE  ~error' /\ (Matched' => Writing' \/ reader' = "raise")
  BY DEF NoLostWakeup
<1> USE DEF stream, output, waiter, closing
<1>1. CASE Check
  <2>1. ~Matched /\ ~error /\ Block
    BY <1>1 DEF Check, Leave, Block
  <2> QED
    BY <2>1 DEF Block, Matched
<1>2. CASE \/ Mark \/ StartWait \/ Acquire \/ Exit \/ Join \/ ClosePort \/ CloseLog
  BY <1>2 DEF Mark, StartWait, Acquire, Exit, Join, ClosePort, CloseLog
<1>3. CASE AppendText
  BY <1>3 DEF NoLostWakeup, AppendText, Writing
<1>4. CASE Write \/ Raise
  BY <1>4 DEF Write, Raise
<1>5. CASE WriteFails \/ ReadFails
  BY <1>5 DEF NoLostWakeup, WriteFails, ReadFails
<1>6. CASE \/ Receive \/ KeepRunning \/ Stopped \/ Read \/ ReadNothing \/ Expire
           \/ UNCHANGED vars
  <2>1. UNCHANGED <<main, since, text, error, woken>>
    BY <1>6 DEF Receive, KeepRunning, Stopped, Read, ReadNothing, Expire, vars
  <2>2. (~Writing /\ reader # "raise") \/ UNCHANGED reader
    BY <1>6 DEF Receive, KeepRunning, Stopped, Read, ReadNothing, Expire, vars,
                Writing
  <2> QED
    BY <2>1, <2>2 DEF NoLostWakeup, Matched, Writing
<1> QED
  BY <1>1, <1>2, <1>3, <1>4, <1>5, <1>6 DEF Next, Reader, Waiter, Closer

(* No wake-up is lost, in any interleaving of the two threads and whatever   *)
(* fails.                                                                    *)
THEOREM NoLostWakeupHolds == Spec => []NoLostWakeup
<1>1. Init => NoLostWakeup
  BY DEF Init, NoLostWakeup
<1> QED
  BY <1>1, WakeStep, Invariant, PTL DEF Spec, SafeSpec

-----------------------------------------------------------------------------
\* The refinement of ConsoleService

\* while the reader is inside _append the caller sees what was before it
Visible ==
    /\ Heard \in 0..MaxText /\ logged \in 0..MaxText /\ MaxText \in Nat
    /\ chunk \in Nat
    /\ Writing => Heard + chunk = text
    /\ ~Writing => Heard = text

(* The invariant bounds what the caller can see.                             *)
LEMMA VisibleNow == IInv => Visible
<1> SUFFICES ASSUME IInv PROVE Visible
  OBVIOUS
<1>1. {chunk, text, logged} \subseteq 0..MaxText /\ MaxText \in Nat
  BY Half DEF IInv, TypeOK, MaxText
<1>2. Writing => text = logged + chunk
  BY DEF IInv, LogInv
<1> QED
  BY <1>1, <1>2 DEF Heard, Visible

(* And it does so after a step that keeps it.                                *)
LEMMA VisibleNext == IInv' => Visible'
  BY VisibleNow, PTL

(* A reader that has set an error has ended, and one that runs is up.        *)
LEMMA HealthCases ==
  ASSUME IInv
  PROVE  /\ reader \notin {"raise", "done"} => Health = "up"
         /\ reader = "raise" => Health = "failing"
         /\ reader = "done" /\ ~error => Health = "done"
         /\ error <=> Health = "failed"
  BY DEF IInv, ErrorInv, Health

(* Every step of the two threads is a step of the service, or is not seen.   *)
LEMMA ServiceStep ==
  ASSUME IInv, IInv', [Next]_vars
  PROVE  [Service!Next]_(Service!cVars)
<1> USE DEF Service!cVars, Service!heard, stream, output, waiter, closing
<1>0. /\ Heard \in 0..MaxText /\ logged \in 0..MaxText /\ MaxText \in Nat
      /\ Heard' \in 0..MaxText /\ chunk \in Nat
      /\ (Writing => Heard + chunk = text) /\ (~Writing => Heard = text)
      /\ (Writing' => Heard' + chunk' = text') /\ (~Writing' => Heard' = text')
  BY VisibleNow, VisibleNext DEF Visible
<1>1. CASE \/ Receive \/ KeepRunning \/ Read \/ ReadNothing \/ Acquire
           \/ Exit \/ Join \/ ClosePort \/ CloseLog \/ UNCHANGED vars
  <2>1. UNCHANGED <<text, logged, error, since, outcome, expired>>
    BY <1>1 DEF Receive, KeepRunning, Read, ReadNothing, Acquire, Exit, Join,
                ClosePort, CloseLog, vars
  <2>2. Writing' = Writing /\ (Writing => chunk' = chunk)
    BY <1>1 DEF Receive, KeepRunning, Read, ReadNothing, Acquire, Exit, Join,
                ClosePort, CloseLog, vars, Writing
  <2>3. Health' = Health
    BY <1>1, <2>1 DEF Receive, KeepRunning, Read, ReadNothing, Acquire, Exit, Join,
                ClosePort, CloseLog, vars, Health
  <2>4. Heard' = Heard
    BY <2>1, <2>2 DEF Heard
  <2> QED
    BY <2>1, <2>3, <2>4
<1>2. CASE Stopped
  <2>1. /\ UNCHANGED <<text, logged, error, since, outcome, expired>>
        /\ ~Writing /\ ~Writing' /\ reader = "run"
        /\ reader' \in {"tail", "done"}
    BY <1>2 DEF Stopped, Writing
  <2>2. Heard' = Heard
    BY <1>0, <2>1
  <2>3. Health = "up" /\ Health' \in {"up", "done"}
    BY <2>1, HealthCases DEF IInv, ErrorInv, Health
  <2>4. Heard' = Heard + 0 /\ logged' = logged + 0 /\ 0 \in 0..(MaxText - Heard)
    BY <1>0, <2>1, <2>2
  <2>5. Service!Hear
    BY <2>1, <2>3, <2>4 DEF Service!Hear
  <2> QED
    BY <2>5 DEF Service!Next
<1>3. CASE AppendText
  <2>1. /\ UNCHANGED <<chunk, logged, error, since, outcome, expired>>
        /\ ~Writing /\ Writing' /\ text' = text + chunk
        /\ reader \in {"append", "tail"} /\ reader' \in {"write", "writeTail"}
    BY <1>3 DEF AppendText, Writing
  <2>2. Heard' = Heard
    BY <1>0, <2>1
  <2>3. Health' = Health
    BY <2>1 DEF Health
  <2> QED
    BY <2>1, <2>2, <2>3
<1>4. CASE Write
  <2>1. /\ UNCHANGED <<text, error, since, outcome, expired>>
        /\ Writing /\ ~Writing' /\ logged' = logged + chunk
        /\ reader \in {"write", "writeTail"} /\ reader' \in {"run", "done"}
    BY <1>4 DEF Write, Writing
  <2>2. Heard' = Heard + chunk /\ chunk \in 0..(MaxText - Heard)
    BY <1>0, <2>1
  <2>3. Health = "up" /\ Health' \in {"up", "done"}
    BY <2>1, HealthCases DEF IInv, ErrorInv, Health
  <2>4. Service!Hear
    BY <2>1, <2>2, <2>3 DEF Service!Hear
  <2> QED
    BY <2>4 DEF Service!Next
<1>5. CASE ReadFails \/ WriteFails
  <2>1. /\ UNCHANGED <<text, chunk, logged, error, since, outcome, expired>>
        /\ ~Writing' /\ reader \notin {"raise", "done"} /\ reader' = "raise"
    BY <1>5 DEF ReadFails, WriteFails, Writing
  <2>2. \E n \in 0..(MaxText - Heard) : Heard' = Heard + n
    <3>1. CASE Writing
      BY <1>0, <2>1, <3>1
    <3>2. CASE ~Writing
      <4>1. Heard' = Heard + 0 /\ 0 \in 0..(MaxText - Heard)
        BY <1>0, <2>1, <3>2
      <4> QED
        BY <4>1
    <3> QED
      BY <3>1, <3>2
  <2>3. Health = "up" /\ Health' = "failing"
    BY <2>1, HealthCases DEF IInv, ErrorInv, Health
  <2>4. Service!Fail
    BY <2>1, <2>2, <2>3 DEF Service!Fail
  <2> QED
    BY <2>4 DEF Service!Next
<1>6. CASE Raise
  <2>1. /\ UNCHANGED <<text, chunk, logged, since, outcome, expired>>
        /\ ~Writing /\ ~Writing' /\ reader = "raise" /\ error'
    BY <1>6 DEF Raise, Writing
  <2>2. Heard' = Heard
    BY <1>0, <2>1
  <2>3. Health = "failing" /\ Health' = "failed"
    BY <2>1, HealthCases DEF IInv, ErrorInv, Health
  <2>4. Service!Report
    BY <2>1, <2>2, <2>3 DEF Service!Report
  <2> QED
    BY <2>4 DEF Service!Next
<1>7. ASSUME UNCHANGED <<text, chunk, logged, error, reader>>
      PROVE  UNCHANGED <<Heard, logged, Health>>
  BY <1>7 DEF Heard, Health, Writing
<1>8. CASE Mark
  <2>1. ~Writing /\ outcome # "waiting"
    BY <1>8 DEF Mark, IInv, LockInv, CallInv
  <2>2. UNCHANGED <<Heard, logged, Health, outcome, expired>> /\ since' = Heard
    BY <1>0, <1>7, <1>8, <2>1 DEF Mark
  <2>3. Service!Mark
    BY <2>1, <2>2 DEF Service!Mark
  <2> QED
    BY <2>3 DEF Service!Next
<1>9. CASE StartWait
  <2>1. UNCHANGED <<Heard, logged, Health>>
    BY <1>7, <1>9 DEF StartWait
  <2>2. Service!Begin
    BY <1>9, <2>1 DEF StartWait, Service!Begin, IInv, CallInv
  <2> QED
    BY <2>2 DEF Service!Next
<1>10. CASE Expire
  <2>1. UNCHANGED <<Heard, logged, Health>>
    BY <1>7, <1>10 DEF Expire
  <2>2. Service!TimePasses
    BY <1>10, <2>1 DEF Expire, Service!TimePasses
  <2> QED
    BY <2>2 DEF Service!Next
<1>11. CASE Check
  <2>1. /\ UNCHANGED <<text, chunk, logged, error, reader, since, expired>>
        /\ main = "check"
    BY <1>11 DEF Check, Leave, Block
  <2>2. UNCHANGED <<Heard, logged, Health>>
    BY <1>7, <2>1
  <2>3. Heard = text /\ outcome = "waiting"
    BY <1>0, <2>1 DEF IInv, LockInv, CallInv
  <2>4. Matched <=> Service!Found
    BY <2>3 DEF Matched, Service!Found
  <2>5. error <=> Health = "failed"
    BY HealthCases
  <2>6. CASE UNCHANGED outcome
    BY <2>1, <2>2, <2>6
  <2>7. CASE \/ Matched /\ outcome' = "matched"
             \/ ~Matched /\ error /\ outcome' = "error"
             \/ ~Matched /\ ~error /\ expired /\ outcome' = "timeout"
    <3>1. Service!Answer
      BY <2>1, <2>2, <2>3, <2>4, <2>5, <2>7 DEF Service!Answer
    <3> QED
      BY <3>1 DEF Service!Next
  <2> QED
    BY <1>11, <2>6, <2>7 DEF Check, Leave, Block
<1> QED
  BY <1>1, <1>2, <1>3, <1>4, <1>5, <1>6, <1>8, <1>9, <1>10, <1>11
     DEF Next, Reader, Waiter, Closer

(* The console the bench sees is one that hears text and log in one step and *)
(* answers a wait from the text as it stands, whatever the two threads, the  *)
(* port and the file do.                                                     *)
THEOREM ImplementsService == SafeSpec => ImplementsConsoleSafe
<1>1. Init => Service!Init
  BY DEF Init, Service!Init, Heard, Health, Writing
<1>2. IInv /\ IInv' /\ [Next]_vars => [Service!Next]_(Service!cVars)
  BY ServiceStep
<1> QED
  BY Invariant, <1>1, <1>2, PTL
     DEF SafeSpec, ImplementsConsoleSafe, Service!SafeSpec
=============================================================================

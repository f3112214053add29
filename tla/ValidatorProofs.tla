--------------------------- MODULE ValidatorProofs --------------------------
(***************************************************************************)
(* The validator keeps its promises about the baselines and the ports for  *)
(* any number of boards, ports, runs and re-enumerations.                  *)
(***************************************************************************)
EXTENDS Validator, TLAPS

(***************************************************************************)
(* Boards: a step of the discovery, or of a board, keeps the types and the *)
(* bindings, for any ports, boards and roles.                              *)
(***************************************************************************)

(* What the two properties rest on: a port found for a MAC is that board's   *)
(* unless it has moved, and a board that is there, has not moved and is not  *)
(* found has still to be asked or has not answered.                          *)
Binding ==
    /\ Apart(at)
    /\ \A b \in Boards :
           found[b] # Nowhere /\ b \notin moved => at[b] = found[b]
    /\ pc = "idle" => found = [b \in Boards |-> Nowhere]
    /\ pc \in {"resolved", "open", "passed"} =>
           \A r \in wanted : port[r] = found[MacOf[r]] /\ port[r] # Nowhere
    /\ pc \in {"discover", "notFound"} =>
           \A b \in Boards :
               at[b] # Nowhere /\ b \notin moved =>
                   at[b] \in todo \/ b \in missed \/ found[b] # Nowhere
    /\ pc = "notFound" => todo = {}

BoardsInv == BoardsTypeOK /\ Binding

LEMMA BindingIsSafe ==
    BoardsInv => BoundByMac /\ NotFoundIsMissing
<1> SUFFICES ASSUME BoardsInv PROVE BoundByMac /\ NotFoundIsMissing
  OBVIOUS
<1> USE BoardsAssumption DEF BoardsInv, BoardsTypeOK, Binding
<1>1. BoundByMac
  BY DEF BoundByMac
<1>2. NotFoundIsMissing
  BY DEF NotFoundIsMissing, On
<1> QED
  BY <1>1, <1>2

LEMMA BoardsInitSafe == BoardsInit => BoardsInv
BY BoardsAssumption DEF BoardsInit, BoardsInv, BoardsTypeOK, Binding, Places, Nowhere, Apart

LEMMA MoveSafe ==
    ASSUME NEW b \in Boards, Move(b), BoardsInv
    PROVE  BoardsInv'
<1> USE DEF BoardsInv, Move
<1>1. BoardsTypeOK'
  BY BoardsAssumption DEF BoardsTypeOK
<1>2. at \in [Boards -> Places] /\ \A c \in Boards : c # b => at'[c] = at[c]
  BY DEF BoardsTypeOK
<1>3. Apart(at')
  BY <1>2 DEF Apart, Binding, On, Places, BoardsTypeOK
<1>4. Binding'
  BY <1>2, <1>3 DEF Binding
<1> QED
  BY <1>1, <1>4

LEMMA SessionSafe ==
    ASSUME Session, BoardsInv
    PROVE  BoardsInv'
<1> USE BoardsAssumption DEF BoardsInv, world, Nowhere
<1>1. CASE Configure
  <2>1. BoardsTypeOK'
    BY <1>1 DEF Configure, BoardsTypeOK, Attached, Places
  <2>2. Binding'
    BY <1>1 DEF Configure, BoardsTypeOK, Binding, Attached
  <2> QED
    BY <2>1, <2>2
<1>2. ASSUME NEW p \in Ports, Read(p) PROVE BoardsInv'
  <2>1. BoardsTypeOK'
    BY <1>2 DEF Read, BoardsTypeOK, On, Places
  <2>2. CASE \E b \in On(p) : found' = [found EXCEPT ![b] = p] /\ UNCHANGED missed
    <3>1. PICK b \in Boards :
              at[b] = p /\ found' = [found EXCEPT ![b] = p] /\ UNCHANGED missed
      BY <2>2 DEF On
    <3>2. found'[b] = p /\ p # Nowhere
          /\ \A c \in Boards : c # b => found'[c] = found[c]
      BY <3>1 DEF BoardsTypeOK
    <3>3. \A c \in Boards : found'[c] # Nowhere /\ c \notin moved => at[c] = found'[c]
      BY <3>1, <3>2 DEF Binding
    <3>4. \A c \in Boards :
              at[c] # Nowhere /\ c \notin moved =>
                  at[c] \in todo' \/ c \in missed \/ found'[c] # Nowhere
      <4> SUFFICES ASSUME NEW c \in Boards, at[c] # Nowhere, c \notin moved,
                          at[c] \notin todo', c \notin missed
                   PROVE  found'[c] # Nowhere
        OBVIOUS
      <4>1. CASE at[c] = p
        <5>1. at[c] = at[b]
          BY <4>1, <3>1
        <5>2. c = b
          BY <5>1, <4>1 DEF Binding, Apart
        <5> QED
          BY <5>2, <3>2
      <4>2. CASE at[c] # p
        BY <4>2, <1>2, <3>2 DEF Read, Binding
      <4> QED
        BY <4>1, <4>2
    <3> QED
      BY <1>2, <2>1, <3>1, <3>3, <3>4 DEF Read, Binding
  <2>3. CASE missed' = missed \cup On(p) /\ UNCHANGED found
    <3>1. Binding'
      BY <1>2, <2>3 DEF Read, Binding, On
    <3> QED
      BY <2>1, <3>1
  <2> QED
    BY <1>2, <2>2, <2>3 DEF Read
<1>3. CASE Resolve
  <2>1. BoardsTypeOK'
    BY <1>3 DEF Resolve, BoardsTypeOK
  <2>2. Binding'
    BY <1>3 DEF Resolve, BoardsTypeOK, Binding
  <2> QED
    BY <2>1, <2>2
<1>4. CASE Open
  BY <1>4 DEF Open, BoardsTypeOK, Binding
<1>5. CASE Check
  BY <1>5 DEF Check, BoardsTypeOK, Binding
<1>6. CASE FlashRole
  BY <1>6 DEF FlashRole, BoardsTypeOK, Binding
<1>7. CASE Leave
  BY <1>7 DEF Leave, BoardsTypeOK, Binding, Places
<1> QED
  BY <1>1, <1>2, <1>3, <1>4, <1>5, <1>6, <1>7 DEF Session

(* Nothing but the boards and the program decides; a new run of a program    *)
(* forgets what moved before.                                                *)
LEMMA ForgetSafe ==
    ASSUME BoardsInv, pc = "idle", moved' = {}, UNCHANGED <<at, moves, session>>
    PROVE  BoardsInv'
BY DEF BoardsInv, BoardsTypeOK, Binding, session

LEMMA BoardsStutter ==
    ASSUME BoardsInv, UNCHANGED <<world, session>>
    PROVE  BoardsInv'
BY DEF BoardsInv, BoardsTypeOK, Binding, world, session
-----------------------------------------------------------------------------
\* The validator

\* in the with statement and its entry
Within == {"enter", "prompt", "ap", "sessions"}

(* What is open outside of the with statement was never entered; and the one *)
(* that __enter__ is at has not been entered yet.                            *)
Closed ==
    /\ vpc \notin Within => (opened \cup logs) \cap entered = {} /\ held = Nobody
    /\ vpc \in {"idle", "macs", "flash"} => opened = {} /\ logs = {} /\ entered = {}
    /\ vpc = "enter" => opened = entered /\ entered = IF k = 1 THEN {} ELSE {1}

ValidatorInv == ValidatorTypeOK /\ BoardsInv /\ Closed

-----------------------------------------------------------------------------
LEMMA InitSafe == ValidatorInit => ValidatorInv
<1> SUFFICES ASSUME ValidatorInit PROVE ValidatorInv
  OBVIOUS
<1>1. BoardsInv
  BY BoardsInitSafe DEF ValidatorInit
<1>2. Nobody \in Pair
  BY DEF Nobody, Pair
<1>3. Absent \in File
  BY <1>2 DEF Absent, File, Sides
<1>4. ValidatorTypeOK
  <2>1. runs \in 0..MaxRuns
    BY ValidatorAssumption DEF ValidatorInit
  <2>2. logging \in BOOLEAN
    BY Zenon DEF ValidatorInit
  <2>3. store \in [Boards -> File]
    BY <1>3 DEF ValidatorInit
  <2> QED
    BY <1>1, <1>2, <2>1, <2>2, <2>3
       DEF ValidatorInit, ValidatorTypeOK, BoardsInv, Sides
<1>5. Closed
  BY DEF ValidatorInit, Closed, Within
<1> QED
  BY <1>1, <1>4, <1>5 DEF ValidatorInv

(* The discovery, the boards and the moves keep their own invariant, also in *)
(* the steps of the validator.                                               *)
LEMMA BoardsPartSafe == ValidatorInv /\ [Next]_allVars => BoardsInv'
<1> SUFFICES ASSUME ValidatorInv, [Next]_allVars PROVE BoardsInv'
  OBVIOUS
<1> USE DEF ValidatorInv
<1>1. CASE Start
  BY <1>1, ForgetSafe DEF Start
<1>2. CASE ReadMac \/ Flash \/ EnterConsole \/ RequirePrompt \/ SetUpAp
  BY <1>2, BoardsStutter
     DEF ReadMac, Flash, EnterConsole, RequirePrompt, SetUpAp
<1>3. CASE RunSessions \/ Judge \/ Compare \/ Write \/ End \/ Kill
  BY <1>3, BoardsStutter DEF RunSessions, Judge, Compare, Write, End, Kill, Quit
<1>4. CASE Session
  BY <1>4, SessionSafe
<1>5. ASSUME NEW b \in Boards, Replug(b) PROVE BoardsInv'
  BY <1>5, MoveSafe DEF Replug
<1>6. CASE UNCHANGED allVars
  BY <1>6, BoardsStutter DEF allVars
<1> QED
  BY <1>1, <1>2, <1>3, <1>4, <1>5, <1>6 DEF Next, Main

(* The validator's own variables keep their types.                           *)
LEMMA OwnPartSafe ==
    ValidatorInv /\ BoardsInv' /\ [Next]_allVars => ValidatorTypeOK'
<1> SUFFICES ASSUME ValidatorInv, BoardsInv', [Next]_allVars
             PROVE  ValidatorTypeOK'
  OBVIOUS
<1> USE DEF ValidatorInv, ValidatorTypeOK, BoardsInv
<1>1. Nobody \in Pair /\ Sides = {1, 2}
  BY DEF Nobody, Pair, Sides
<1>2. Torn \in File /\ Absent \in File
  BY <1>1 DEF Torn, Absent, File
<1>3. ASSUME NEW p \in Pair, NEW i \in Sides, NEW b \in Boards
      PROVE  [p EXCEPT ![i] = b] \in Pair
  BY DEF Pair
<1>4. CASE Start
  <2>1. runs' \in 0..MaxRuns
    BY <1>4, ValidatorAssumption DEF Start
  <2>2. logging' \in BOOLEAN
    BY <1>4, Zenon DEF Start
  <2> QED
    BY <1>4, <2>1, <2>2 DEF Start, console
<1>5. CASE ReadMac
  <2>1. macs' \in Pair
    BY <1>3, <1>5 DEF ReadMac, On
  <2> QED
    BY <1>1, <1>5, <2>1 DEF ReadMac, Fail, GoOn, console
<1>6. CASE Flash
  BY <1>1, <1>6 DEF Flash, Fail, GoOn, console
<1>7. CASE EnterConsole
  <2>1. held' \in Pair
    BY <1>1, <1>3, <1>7 DEF EnterConsole, Unwind, On
  <2>2. opened' \subseteq Sides /\ logs' \subseteq Sides /\ entered' \subseteq Sides
    BY <1>7 DEF EnterConsole, Unwind
  <2>3. k' \in Sides /\ vpc' \in {"enter", "prompt", "failed"}
    BY <1>1, <1>7 DEF EnterConsole, Unwind, Fail, GoOn
  <2> QED
    BY <1>7, <2>1, <2>2, <2>3 DEF EnterConsole
<1>8. CASE RequirePrompt
  BY <1>1, <1>8 DEF RequirePrompt, Unwind, Fail, GoOn
<1>9. CASE SetUpAp
  <2>1. measured' \in Pair
    BY <1>1, <1>9 DEF SetUpAp, Pair
  <2> QED
    BY <1>1, <1>9, <2>1 DEF SetUpAp, Unwind, Fail
<1>10. CASE RunSessions
  <2>1. measured' \in Pair
    BY <1>1, <1>10 DEF RunSessions, Pair
  <2> QED
    BY <1>1, <1>10, <2>1 DEF RunSessions, Unwind, Fail
<1>11. CASE Judge
  BY <1>11 DEF Judge, Fail, console
<1>12. CASE Compare
  <2>1. store' \in [Boards -> File]
    BY <1>2, <1>12 DEF Compare
  <2> QED
    BY <1>1, <1>12, <2>1 DEF Compare, Fail, GoOn, console
<1>13. CASE Write
  <2>1. [is |-> "complete", role |-> k, peer |-> macs[Other(k)],
         measured |-> measured, strayed |-> strayed] \in File
    BY <1>1 DEF File, Pair, Other, BoardsTypeOK
  <2>2. store' \in [Boards -> File]
    BY <2>1, <1>13 DEF Write
  <2> QED
    BY <1>1, <1>13, <2>2 DEF Write, Fail, GoOn, console
<1>14. CASE End \/ Kill
  BY <1>1, <1>14 DEF End, Kill, Quit
<1>15. CASE vpc = "idle" /\ Session /\ UNCHANGED vvars
  BY <1>15 DEF vvars
<1>16. ASSUME NEW b \in Boards, Replug(b) PROVE ValidatorTypeOK'
  <2>1. held' \in Pair
    BY <1>16 DEF Replug, Pair
  <2> QED
    BY <1>16, <2>1 DEF Replug
<1>17. CASE UNCHANGED allVars
  BY <1>17 DEF allVars, vvars
<1> QED
  BY <1>4, <1>5, <1>6, <1>7, <1>8, <1>9, <1>10, <1>11, <1>12, <1>13, <1>14, <1>15,
     <1>16, <1>17 DEF Next, Main

(* Nothing that was entered is left open outside of the with statement.      *)
LEMMA ClosedSafe == ValidatorInv /\ [Next]_allVars => Closed'
<1> SUFFICES ASSUME ValidatorInv, [Next]_allVars PROVE Closed'
  OBVIOUS
<1>0. k \in {1, 2} /\ Closed
  BY DEF ValidatorInv, ValidatorTypeOK, Sides
<1> USE <1>0 DEF Closed, Within
<1>1. CASE Start \/ ReadMac \/ Flash
  BY <1>1 DEF Start, ReadMac, Flash, Fail, GoOn, console
<1>2. CASE EnterConsole
  <2>1. CASE /\ \/ Unwind({}, {})
                \/ Unwind({}, IF logging THEN {k} ELSE {})
                \/ Unwind({k}, IF logging THEN {k} ELSE {})
             /\ UNCHANGED entered
    <3>1. k \notin entered
      BY <1>2 DEF EnterConsole
    <3>2. /\ opened' \subseteq {k} /\ logs' \subseteq {k}
          /\ held' = Nobody /\ vpc' = "failed"
      BY <2>1 DEF Unwind, Fail
    <3> QED
      BY <2>1, <3>1, <3>2
  <2>2. CASE GoOn("enter", "prompt") /\ opened' = opened \cup {k}
             /\ entered' = entered \cup {k}
    BY <1>2, <2>2 DEF EnterConsole, GoOn
  <2> QED
    BY <1>2, <2>1, <2>2 DEF EnterConsole
<1>3. CASE RequirePrompt
  BY <1>3 DEF RequirePrompt, Unwind, Fail, GoOn
<1>4. CASE SetUpAp \/ RunSessions
  BY <1>4 DEF SetUpAp, RunSessions, Unwind, Fail
<1>5. CASE Judge \/ Compare \/ Write
  BY <1>5 DEF Judge, Compare, Write, Fail, GoOn, console
<1>6. CASE End \/ Kill
  BY <1>6 DEF End, Kill, Quit
<1>7. CASE UNCHANGED vvars
  BY <1>7 DEF vvars
<1>8. ASSUME NEW b \in Boards, Replug(b) PROVE Closed'
  <2>1. held = Nobody => held' = Nobody
    BY <1>8 DEF Replug, Nobody
  <2> QED
    BY <1>8, <2>1 DEF Replug
<1> QED
  BY <1>1, <1>2, <1>3, <1>4, <1>5, <1>6, <1>7, <1>8 DEF Next, Main, allVars

LEMMA NextSafe == ValidatorInv /\ [Next]_allVars => ValidatorInv'
BY BoardsPartSafe, OwnPartSafe, ClosedSafe DEF ValidatorInv

LEMMA AlwaysInv == Spec => []ValidatorInv
BY InitSafe, NextSafe, PTL DEF Spec

(* The validator and the discovery are well typed.                           *)
THEOREM ValidatorTypeCorrect == Spec => []ValidatorTypeOK
<1>1. ValidatorInv => ValidatorTypeOK
  BY DEF ValidatorInv
<1> QED
  BY AlwaysInv, <1>1, PTL

(* No way out of the with statement, or of its entry, leaves a console that  *)
(* was entered with its port or its log open.                                *)
THEOREM ReleasedHolds == Spec => []Released
<1>1. ValidatorInv => Released
  BY DEF ValidatorInv, Closed, Released, Within
<1> QED
  BY AlwaysInv, <1>1, PTL

(* Roles are bound to MACs.                                                  *)
THEOREM BoundByMacHolds == Spec => []BoundByMac
<1>1. ValidatorInv => BoundByMac
  BY BindingIsSafe DEF ValidatorInv
<1> QED
  BY AlwaysInv, <1>1, PTL

(* A board said to be missing is missing, did not answer, or has moved.      *)
THEOREM NotFoundIsMissingHolds == Spec => []NotFoundIsMissing
<1>1. ValidatorInv => NotFoundIsMissing
  BY BindingIsSafe DEF ValidatorInv
<1> QED
  BY AlwaysInv, <1>1, PTL

-----------------------------------------------------------------------------
(* The files.  A file that is incomplete was so when the run began, or is    *)
(* the one that is being written; and each side that has been stored is kept. *)
Kept(m) == store[m].is = "complete" \/ m \in torn

Files ==
    /\ vpc = "write" => store[macs[k]].is = "torn" /\ result = "enough"
    /\ vpc \notin {"idle", "failed"} =>
           \A m \in Boards :
               store[m].is = "torn" =>
                   m \in torn \/ (vpc = "write" /\ m = macs[k])
    /\ vpc \in {"store", "write"} /\ result = "enough" /\ k = 2 => Kept(macs[1])
    /\ vpc = "passed" /\ result = "enough" => \A i \in Sides : Kept(macs[i])
    \* and both MACs are known as soon as they have been read
    /\ vpc \notin {"idle", "macs", "failed"} => \A i \in Sides : macs[i] # NoBoard
    /\ vpc = "macs" /\ k = 2 => macs[1] # NoBoard
    /\ vpc \in {"idle", "ap", "sessions", "judge"} => k = 1

LEMMA FilesInit == ValidatorInit => Files
BY DEF ValidatorInit, Files

LEMMA FilesNext == ValidatorInv /\ Files /\ [Next]_allVars => Files'
<1> SUFFICES ASSUME ValidatorInv, Files, [Next]_allVars PROVE Files'
  OBVIOUS
<1>0. /\ Sides = {1, 2} /\ k \in Sides /\ macs \in Pair
      /\ store \in [Boards -> File] /\ result \in {"failed", "few", "enough"}
      /\ vpc \in {"idle", "macs", "flash", "enter", "prompt", "ap", "sessions",
                  "judge", "store", "write", "passed", "failed"}
  BY DEF Sides, ValidatorInv, ValidatorTypeOK
<1> USE <1>0 DEF Files, Kept
<1>1. CASE Start
  BY <1>1 DEF Start
<1>2. CASE ReadMac
  <2>1. \/ vpc' = "failed" /\ UNCHANGED <<store, torn, result>>
        \/ \E b \in Boards : /\ macs' = [macs EXCEPT ![k] = b]
                             /\ \E then \in {"flash", "enter"} : GoOn("macs", then)
                             /\ UNCHANGED <<store, torn, result>>
    BY <1>2 DEF ReadMac, Fail, On
  <2>2. \A b \in Boards : b # NoBoard
    BY BoardsAssumption
  <2> QED
    BY <1>2, <2>1, <2>2 DEF ReadMac, GoOn, Pair
<1>3. CASE Flash
  BY <1>3 DEF Flash, Fail, GoOn
<1>4. CASE EnterConsole
  BY <1>4 DEF EnterConsole, Unwind, Fail, GoOn
<1>5. CASE RequirePrompt
  BY <1>5 DEF RequirePrompt, Unwind, Fail, GoOn
<1>6. CASE SetUpAp
  BY <1>6 DEF SetUpAp, Unwind, Fail
<1>7. CASE RunSessions
  BY <1>7 DEF RunSessions, Unwind, Fail
<1>8. CASE Judge
  BY <1>8 DEF Judge, Fail
<1>9. CASE Compare
  <2> DEFINE m == macs[k]
  <2>1. m \in Boards /\ macs[1] \in Boards /\ macs[2] \in Boards
    BY <1>9 DEF Compare, Pair
  <2>2. store[m].is \in {"absent", "torn", "complete"}
    BY <2>1 DEF File
  <2>3. CASE result # "enough" /\ GoOn("store", "passed") /\ UNCHANGED store
    BY <1>9, <2>3 DEF Compare, GoOn
  <2>4. CASE result = "enough" /\ Exists(Name(k)) /\ GoOn("store", "passed")
             /\ UNCHANGED store
    <3>1. Kept(m)
      BY <1>9, <2>1, <2>2, <2>4 DEF Compare, Exists, Name
    <3> QED
      BY <1>9, <2>4, <3>1 DEF Compare, GoOn
  <2>5. CASE result = "enough" /\ Fail /\ UNCHANGED store
    BY <1>9, <2>5 DEF Compare, Fail
  <2>6. CASE /\ result = "enough" /\ ~Exists(m)
             /\ store' = [store EXCEPT ![m] = Torn]
             /\ vpc' = "write" /\ UNCHANGED k
    <3>1. store'[m].is = "torn" /\ \A c \in Boards : c # m => store'[c] = store[c]
      BY <2>1, <2>6 DEF Torn, Absent
    <3>2. k = 2 => Kept(macs[1]) /\ (macs[1] = m => macs[1] \in torn)
      BY <1>9, <2>6 DEF Compare, Exists
    <3>3. k = 2 => store'[macs[1]].is = "complete" \/ macs[1] \in torn
      BY <3>1, <3>2, <2>1
    <3> QED
      BY <1>9, <2>1, <2>6, <3>1, <3>3 DEF Compare
  <2> QED
    BY <1>9, <2>3, <2>4, <2>5, <2>6 DEF Compare, Name
<1>10. CASE Write
  <2> DEFINE m == macs[k]
  <2>1. m \in Boards /\ macs[1] \in Boards /\ macs[2] \in Boards
    BY <1>10 DEF Write, Pair
  <2>2. CASE Fail /\ UNCHANGED store
    BY <1>10, <2>2 DEF Write, Fail
  <2>3. ASSUME NEW f, f.is = "complete", store' = [store EXCEPT ![m] = f],
               GoOn("store", "passed")
        PROVE  Files'
    <3>1. store'[m].is = "complete" /\ \A c \in Boards : c # m => store'[c] = store[c]
      BY <2>1, <2>3
    <3>2. k = 2 => store'[macs[1]].is = "complete" \/ macs[1] \in torn
      BY <1>10, <2>1, <3>1 DEF Write
    <3>3. \A c \in Boards : store'[c].is = "torn" => c \in torn
      BY <1>10, <3>1 DEF Write
    <3> QED
      BY <1>10, <2>1, <2>3, <3>1, <3>2, <3>3 DEF Write, GoOn
  <2> QED
    BY <1>10, <2>2, <2>3 DEF Write, Name
<1>11. CASE End \/ Kill
  BY <1>11 DEF End, Kill, Quit
<1>12. CASE vpc = "idle" /\ Session /\ UNCHANGED vvars
  BY <1>12 DEF vvars
<1>13. ASSUME NEW b \in Boards, Replug(b) PROVE Files'
  BY <1>13 DEF Replug
<1>14. CASE UNCHANGED allVars
  BY <1>14 DEF allVars, vvars
<1> QED
  BY <1>1, <1>2, <1>3, <1>4, <1>5, <1>6, <1>7, <1>8, <1>9, <1>10, <1>11, <1>12, <1>13,
     <1>14 DEF Next, Main

LEMMA AlwaysFiles == Spec => [](ValidatorInv /\ Files)
<1>1. ValidatorInit => ValidatorInv /\ Files
  BY InitSafe, FilesInit
<1>2. ValidatorInv /\ Files /\ [Next]_allVars => (ValidatorInv /\ Files)'
  BY NextSafe, FilesNext
<1> QED
  BY <1>1, <1>2, PTL DEF Spec

(* A passing run leaves its two baselines, or finds one that was torn.       *)
THEOREM PassedHasBaselineHolds == Spec => []PassedHasBaseline
<1>1. Files => PassedHasBaseline
  BY DEF Files, PassedHasBaseline, Kept
<1> QED
  BY AlwaysFiles, <1>1, PTL

(* A complete baseline stays as it is, for ever.                             *)
THEOREM BaselineKeptHolds == Spec => BaselineKept
<1> DEFINE Body == \A m \in Boards : store[m].is = "complete" => store'[m] = store[m]
<1>1. ASSUME ValidatorInv, Files, [Next]_allVars PROVE Body
  <2>1. store \in [Boards -> File]
    BY <1>1 DEF ValidatorInv, ValidatorTypeOK
  <2>2. CASE Compare
    <3>1. \/ UNCHANGED store
          \/ store[macs[k]].is = "absent" /\ store' = [store EXCEPT ![macs[k]] = Torn]
      BY <2>2 DEF Compare, Exists, Name
    <3> QED
      BY <2>1, <3>1
  <2>3. CASE Write
    <3>1. store[macs[k]].is = "torn"
      BY <1>1, <2>3 DEF Write, Files
    <3>2. \/ UNCHANGED store
          \/ \E f : store' = [store EXCEPT ![macs[k]] = f]
      BY <2>3 DEF Write, Name
    <3> QED
      BY <2>1, <3>1, <3>2
  <2>4. CASE UNCHANGED store
    BY <2>4
  <2>5. Compare \/ Write \/ UNCHANGED store
    BY <1>1 DEF Next, Main, Start, ReadMac, Flash, EnterConsole, RequirePrompt,
                SetUpAp, RunSessions, Judge, End, Kill, Quit, Replug, vvars, allVars
  <2> QED
    BY <2>2, <2>3, <2>4, <2>5
<1> QED
  BY AlwaysFiles, <1>1, PTL DEF Spec, BaselineKept

-----------------------------------------------------------------------------
(* Whose baseline it is.  A board whose MAC was read is still at that port   *)
(* until it is opened, unless it strays, and then it is the one that answers *)
(* there, if any does; so a board that took part in the sessions has the MAC *)
(* that was read at its port.                                                *)
Early == {"macs", "flash", "enter"}
Ranged == {"judge", "store", "write", "passed"}

\* the side's MAC is that of a board that did not stray
Sure(i) == macs[i] # NoBoard /\ macs[i] \notin strayed

Own(i) ==
    /\ held[i] # NoBoard => at[held[i]] = Args[i]
    /\ Sure(i) =>
           /\ vpc \in Early /\ i \notin opened => at[macs[i]] = Args[i]
           /\ held[i] \in {NoBoard, macs[i]}
           /\ measured[i] \in {NoBoard, macs[i]}

Owners ==
    /\ \A i \in Sides : Own(i)
    /\ vpc = "idle" => macs = Nobody
    /\ vpc \notin Ranged \cup {"sessions", "failed"} => measured = Nobody
    /\ vpc \in Ranged \cup {"sessions"} => measured[1] # NoBoard
    /\ vpc \in Ranged => measured[2] # NoBoard
    /\ BaselineIsOwn

LEMMA OwnersInit == ValidatorInit => Owners
<1> SUFFICES ASSUME ValidatorInit PROVE Owners
  OBVIOUS
<1>1. BaselineIsOwn
  BY DEF ValidatorInit, BaselineIsOwn, Absent
<1> QED
  BY <1>1 DEF ValidatorInit, Owners, Own, Sure, Nobody, Ranged, Early

(* Each side keeps its board.                                                *)
LEMMA OwnNext ==
    ASSUME ValidatorInv, Files, Owners, [Next]_allVars, NEW i \in Sides
    PROVE  Own(i)'
<1>0. /\ i \in {1, 2} /\ k \in {1, 2}
      /\ macs \in Pair /\ held \in Pair /\ measured \in Pair /\ at \in [Boards -> Places]
      /\ Own(i) /\ Nobody[i] = NoBoard /\ \A b \in Boards : b # NoBoard
  BY BoardsAssumption
     DEF ValidatorInv, ValidatorTypeOK, BoardsTypeOK, Sides, Owners, Nobody
<1> USE <1>0 DEF Own, Sure, Early
<1>1. CASE Start
  <2>1. macs' = macs /\ macs[i] = NoBoard /\ held' = held /\ at' = at
    BY <1>1 DEF Start, console, Owners
  <2> QED
    BY <2>1
<1>2. CASE ReadMac
  <2>1. held[i] = NoBoard /\ measured[i] = NoBoard
    BY <1>2 DEF ReadMac, Owners, Ranged, ValidatorInv, Closed, Within
  <2>2. vpc = "macs" /\ UNCHANGED <<at, held, measured, opened, strayed>>
    BY <1>2 DEF ReadMac, world, console
  <2>3. CASE macs' = macs
    BY <2>1, <2>2, <2>3
  <2>4. ASSUME NEW b \in Boards, at[b] = Args[k], macs' = [macs EXCEPT ![k] = b]
        PROVE  Own(i)'
    <3>1. macs'[i] = IF i = k THEN b ELSE macs[i]
      BY <2>4 DEF Pair, Sides
    <3> QED
      BY <2>1, <2>2, <2>4, <3>1
  <2> QED
    BY <1>2, <2>3, <2>4 DEF ReadMac, Fail, On
<1>3. CASE Flash
  <2>1. vpc = "flash" /\ UNCHANGED <<at, macs, held, measured, opened, strayed>>
    BY <1>3 DEF Flash, world, console
  <2> QED
    BY <2>1
<1>4. CASE EnterConsole
  <2>1. vpc = "enter" /\ UNCHANGED <<at, macs, measured, strayed>>
    BY <1>4 DEF EnterConsole, world
  <2>2. CASE held' = Nobody /\ vpc' = "failed"
    BY <2>1, <2>2
  <2>3. ASSUME NEW b \in Boards, at[b] = Args[k], held' = [held EXCEPT ![k] = b],
               opened' = opened \cup {k}
        PROVE  Own(i)'
    <3>1. held'[i] = IF i = k THEN b ELSE held[i]
      BY <2>3 DEF Pair, Sides
    <3>2. k \notin opened
      BY <2>1 DEF ValidatorInv, Closed
    <3>3. CASE i = k
      <4>1. ASSUME Sure(k) PROVE b = macs[k]
        <5>1. at[macs[k]] = at[b] /\ at[b] # Nowhere
          BY <2>1, <2>3, <3>2, <3>3, <4>1, ValidatorAssumption, BoardsAssumption
             DEF Nowhere
        <5>2. macs[k] \in Boards
          BY <4>1 DEF Pair, Sides
        <5> QED
          BY <2>3, <5>1, <5>2 DEF ValidatorInv, BoardsInv, Binding, Apart
      <4> QED
        BY <2>1, <2>3, <3>1, <3>3, <4>1
    <3>4. CASE i # k
      BY <2>1, <2>3, <3>1, <3>4
    <3> QED
      BY <3>3, <3>4
  <2> QED
    BY <1>4, <2>2, <2>3 DEF EnterConsole, Unwind, Fail, On
<1>5. CASE RequirePrompt
  <2>1. /\ UNCHANGED <<at, macs, measured, strayed>>
        /\ held' = Nobody \/ held' = held
        /\ vpc' \in {"failed", "prompt", "ap"}
    BY <1>5 DEF RequirePrompt, Unwind, Fail, GoOn, world
  <2> QED
    BY <2>1
<1>6. CASE SetUpAp \/ RunSessions
  <2>1. /\ UNCHANGED <<at, macs, strayed>>
        /\ held' = Nobody \/ held' = held
        /\ vpc' \in {"failed", "sessions", "judge"}
    BY <1>6 DEF SetUpAp, RunSessions, Unwind, Fail, world
  <2>2. measured'[i] \in {measured[i], held[i]}
    BY <1>6 DEF SetUpAp, RunSessions, Pair, Sides
  <2> QED
    BY <2>1, <2>2
<1>7. CASE Judge \/ Compare \/ Write
  <2>1. /\ UNCHANGED <<at, macs, held, measured, strayed>>
        /\ vpc' \in {"failed", "store", "write", "passed"}
    BY <1>7 DEF Judge, Compare, Write, Fail, GoOn, world, console
  <2> QED
    BY <2>1
<1>8. CASE End \/ Kill
  BY <1>8 DEF End, Kill, Quit, world
<1>9. CASE UNCHANGED vvars /\ at' = at
  BY <1>9 DEF vvars
<1>10. ASSUME NEW b \in Boards, Replug(b) PROVE Own(i)'
  <2>1. /\ \A c \in Boards : c # b => at'[c] = at[c]
        /\ held'[i] # NoBoard => held'[i] = held[i] /\ held[i] # b
        /\ macs[i] = b /\ vpc \in Early /\ i \notin opened => b \in strayed'
        /\ strayed \subseteq strayed'
        /\ UNCHANGED <<vpc, macs, measured, opened>>
    BY <1>10 DEF Replug, Move, Sides
  <2>2. held[i] \in Boards \cup {NoBoard} /\ macs[i] \in Boards \cup {NoBoard}
    BY DEF Pair, Sides
  <2> QED
    BY <2>1, <2>2
<1>11. Session => at' = at
  BY DEF Session, Configure, Read, Resolve, Open, Check, FlashRole, Leave, world
<1> QED
  BY <1>1, <1>2, <1>3, <1>4, <1>5, <1>6, <1>7, <1>8, <1>9, <1>10, <1>11
     DEF Next, Main, allVars, world

(* Only Write makes a baseline, and it names the boards that were measured.  *)
LEMMA BaselineNext ==
    ValidatorInv /\ Files /\ Owners /\ [Next]_allVars => BaselineIsOwn'
<1> SUFFICES ASSUME ValidatorInv, Files, Owners, [Next]_allVars PROVE BaselineIsOwn'
  OBVIOUS
<1>1. BaselineIsOwn /\ store \in [Boards -> File] /\ k \in {1, 2}
  BY DEF Owners, ValidatorInv, ValidatorTypeOK, Sides
<1>2. CASE UNCHANGED store
  BY <1>1, <1>2 DEF BaselineIsOwn
<1>3. CASE Compare
  <2>1. store' = store \/ store' = [store EXCEPT ![macs[k]] = Torn]
    BY <1>3 DEF Compare, Name
  <2> QED
    BY <1>1, <2>1 DEF BaselineIsOwn, Torn, Absent
<1>4. CASE Write
  <2> DEFINE f == [is |-> "complete", role |-> k, peer |-> macs[Other(k)],
                   measured |-> measured, strayed |-> strayed]
  <2>1. store' = store \/ store' = [store EXCEPT ![macs[k]] = f]
    BY <1>4 DEF Write, Name
  <2>2. vpc = "write"
    BY <1>4 DEF Write
  <2>3. \A i \in {1, 2} : macs[i] # NoBoard /\ measured[i] # NoBoard
    BY <2>2 DEF Files, Owners, Ranged, Sides
  <2>4. \A i \in {1, 2} : macs[i] \in strayed \/ measured[i] = macs[i]
    BY <2>3 DEF Owners, Own, Sure, Sides
  <2>5. /\ macs[k] \in f.strayed \/ f.measured[f.role] = macs[k]
        /\ f.peer \in f.strayed \/ f.measured[Other(f.role)] = f.peer
    BY <1>1, <2>4 DEF Other
  <2> HIDE DEF f
  <2> QED
    BY <1>1, <2>1, <2>5 DEF BaselineIsOwn
<1>5. Compare \/ Write \/ UNCHANGED store
  BY DEF Next, Main, Start, ReadMac, Flash, EnterConsole, RequirePrompt,
         SetUpAp, RunSessions, Judge, End, Kill, Quit, Replug, vvars, allVars
<1> QED
  BY <1>2, <1>3, <1>4, <1>5

LEMMA OwnersNext == ValidatorInv /\ Files /\ Owners /\ [Next]_allVars => Owners'
<1> SUFFICES ASSUME ValidatorInv, Files, Owners, [Next]_allVars PROVE Owners'
  OBVIOUS
<1>1. \A i \in Sides : Own(i)'
  BY OwnNext
<1>2. BaselineIsOwn'
  BY BaselineNext
<1>3. /\ vpc' = "idle" => macs' = Nobody
      /\ vpc' \notin Ranged \cup {"sessions", "failed"} => measured' = Nobody
      /\ vpc' \in Ranged \cup {"sessions"} => measured'[1] # NoBoard
      /\ vpc' \in Ranged => measured'[2] # NoBoard
  <2>0. k \in {1, 2} /\ measured \in Pair
    BY DEF ValidatorInv, ValidatorTypeOK, Sides
  <2> USE <2>0 DEF Owners, Ranged
  <2>1. CASE Start \/ ReadMac \/ Flash
    BY <2>1 DEF Start, ReadMac, Flash, Fail, GoOn, console
  <2>2. CASE EnterConsole \/ RequirePrompt
    BY <2>2 DEF EnterConsole, RequirePrompt, Unwind, Fail, GoOn
  <2>3. CASE SetUpAp
    BY <2>3 DEF SetUpAp, Unwind, Fail, Pair, Sides
  <2>4. CASE RunSessions
    BY <2>4 DEF RunSessions, Unwind, Fail, Pair, Sides
  <2>5. CASE Judge \/ Compare \/ Write
    BY <2>5 DEF Judge, Compare, Write, Fail, GoOn, console
  <2>6. CASE End \/ Kill
    BY <2>6 DEF End, Kill, Quit
  <2>7. CASE UNCHANGED vvars
    BY <2>7 DEF vvars
  <2>8. ASSUME NEW b \in Boards, Replug(b) PROVE UNCHANGED <<vpc, macs, measured>>
    BY <2>8 DEF Replug
  <2> QED
    BY <2>1, <2>2, <2>3, <2>4, <2>5, <2>6, <2>7, <2>8 DEF Next, Main, allVars
<1> QED
  BY <1>1, <1>2, <1>3 DEF Owners

(* A stored baseline is the one of the board it is named for, as far as that *)
(* board had not moved between the reading of its MAC and the opening of its *)
(* port in the run that stored it.                                           *)
THEOREM BaselineIsOwnHolds == Spec => []BaselineIsOwn
<1>1. ValidatorInit => ValidatorInv /\ Files /\ Owners
  BY InitSafe, FilesInit, OwnersInit
<1>2. ValidatorInv /\ Files /\ Owners /\ [Next]_allVars =>
          (ValidatorInv /\ Files /\ Owners)'
  BY NextSafe, FilesNext, OwnersNext
<1>3. Owners => BaselineIsOwn
  BY DEF Owners
<1> QED
  BY <1>1, <1>2, <1>3, PTL DEF Spec
=============================================================================

----------------------------- MODULE Validator ------------------------------
(***************************************************************************)
(* validate_board.py: it reads the MAC at each of the two ports it was     *)
(* given, flashes both boards, opens both ports (TwoBoardBench), runs the  *)
(* sessions, judges them and compares each board with its baseline, which  *)
(* the first passing run records.  The boards are those of Boards and may  *)
(* re-enumerate at any time; the program may be killed at any time.        *)
(*                                                                         *)
(* The verdict on the transcript is BenchRun's; here it is a choice.       *)
(***************************************************************************)
EXTENDS Boards

CONSTANTS
    Args,       \* <<first port, second port>>: responder and initiator
    MaxRuns     \* bound: runs of the validator

ASSUME ValidatorAssumption ==
    Args \in [{1, 2} -> Ports] /\ Args[1] # Args[2] /\ MaxRuns \in Nat

VARIABLES
    vpc,        \* where main is
    k,          \* the side its loop is at
    logging,    \* --log-dir
    macs,       \* macs[port], by side
    opened,     \* sides whose serial port is open
    held,       \* the board that answers on a console that was entered
    logs,       \* sides whose log file is open
    entered,    \* history: sides whose console was entered
    measured,   \* history: the boards that took part in the sessions
    result,     \* "failed", or passed with "few" or "enough" samples
    store,      \* the fingerprint file of each MAC
    torn,       \* history: files that were incomplete when the run started
    strayed,    \* history: boards that moved between the reading of their MAC
                \* and the opening of the port it was read at
    runs        \* bound: runs so far

console == <<opened, held, logs, entered>>
vvars == <<vpc, k, logging, macs, opened, held, logs, entered, measured, result,
           store, torn, strayed, runs>>
allVars == <<world, session, vvars>>

Sides == {1, 2}
Other(i) == 3 - i
Nobody == [i \in Sides |-> NoBoard]
Pair == [Sides -> Boards \cup {NoBoard}]

\* strayed is history: the run's, when the file was written
File == [is : {"absent", "torn", "complete"}, role : Sides,
         peer : Boards \cup {NoBoard}, measured : Pair, strayed : SUBSET Boards]
Absent == [is |-> "absent", role |-> 1, peer |-> NoBoard, measured |-> Nobody,
           strayed |-> {}]
Torn == [Absent EXCEPT !.is = "torn"]

ValidatorTypeOK ==
    /\ BoardsTypeOK
    /\ vpc \in {"idle", "macs", "flash", "enter", "prompt", "ap", "sessions", "judge",
                "store", "write", "passed", "failed"}
    /\ k \in Sides /\ logging \in BOOLEAN
    /\ {macs, held, measured} \subseteq Pair
    /\ opened \subseteq Sides /\ logs \subseteq Sides /\ entered \subseteq Sides
    /\ result \in {"failed", "few", "enough"}
    /\ store \in [Boards -> File] /\ torn \subseteq Boards
    /\ strayed \subseteq Boards /\ runs \in 0..MaxRuns

ValidatorInit ==
    /\ BoardsInit
    /\ vpc = "idle" /\ k = 1 /\ logging = FALSE
    /\ macs = Nobody /\ held = Nobody /\ measured = Nobody
    /\ opened = {} /\ logs = {} /\ entered = {} /\ result = "failed"
    /\ store = [m \in Boards |-> Absent] /\ torn = {} /\ strayed = {} /\ runs = 0

-----------------------------------------------------------------------------
\* mutant: one side too many
GoOnPast(again, then) ==
    /\ k' = k + 1 /\ vpc' = IF k < 2 THEN again ELSE then

\* the next side of a loop over both, or what follows the loop
GoOn(again, then) ==
    IF k = 1 THEN k' = 2 /\ vpc' = again ELSE k' = 1 /\ vpc' = then

\* an exception, outside of the with statement
Fail == vpc' = "failed" /\ UNCHANGED k

\* mutant: __enter__ raises without closing its stack
UnwindOpen(ports, files) ==
    /\ Fail /\ opened' = opened \cup ports /\ logs' = logs \cup files
    /\ UNCHANGED held

\* an exception in TwoBoardBench.__enter__ or in the with statement: the
\* stack closes every console that was entered; ports and files are what one
\* that was not entered leaves open
Unwind(ports, files) ==
    /\ Fail /\ opened' = ports /\ logs' = files /\ held' = Nobody

Start ==
    /\ vpc = "idle" /\ pc = "idle" /\ runs < MaxRuns
    /\ runs' = runs + 1 /\ vpc' = "macs"
    /\ logging' \in BOOLEAN
    /\ torn' = {m \in Boards : store[m].is = "torn"}
    /\ moved' = {} /\ strayed' = {}
    /\ UNCHANGED <<at, moves, session, k, macs, console, measured, result, store>>

\* read_mac, esptool's answer or one of its failures
ReadMac ==
    /\ vpc = "macs"
    /\ \/ Fail /\ UNCHANGED macs
       \/ \E b \in On(Args[k]) : macs' = [macs EXCEPT ![k] = b]
          /\ \E then \in {"flash", "enter"} : GoOn("macs", then)
    /\ UNCHANGED <<world, session, logging, console, measured, result, store,
                   torn, strayed, runs>>

\* flash_board writes to whatever board is there
Flash ==
    /\ vpc = "flash"
    /\ Fail \/ (On(Args[k]) # {} /\ GoOn("flash", "enter"))
    /\ UNCHANGED <<world, session, logging, macs, console, measured, result,
                   store, torn, strayed, runs>>

\* SerialConsole.__enter__: the log file, then the port, its two lines and the
\* reader thread; what raises is not on the stack of TwoBoardBench
EnterConsole ==
    /\ vpc = "enter"
    /\ LET log == IF logging THEN {k} ELSE {} IN
       \/ /\ \/ logging /\ Unwind({}, {})
             \/ Unwind({}, log)
             \/ On(Args[k]) # {} /\ Unwind({k}, log)
          /\ UNCHANGED entered
       \/ \E b \in On(Args[k]) :
              /\ opened' = opened \cup {k} /\ logs' = logs \cup log
              /\ held' = [held EXCEPT ![k] = b] /\ entered' = entered \cup {k}
              /\ GoOn("enter", "prompt")
    /\ UNCHANGED <<world, session, logging, macs, measured, result, store, torn,
                   strayed, runs>>

\* require_prompt: the prompt comes, or ConsoleTimeout, or the reader's error
RequirePrompt ==
    /\ vpc = "prompt"
    /\ \/ Unwind({}, {})
       \/ held[k] # NoBoard /\ GoOn("prompt", "ap")
          /\ UNCHANGED <<opened, held, logs>>
    /\ UNCHANGED <<world, session, logging, macs, entered, measured, result, store,
                   torn, strayed, runs>>

\* run_direction: the responder's access point is set up
SetUpAp ==
    /\ vpc = "ap"
    /\ \/ Unwind({}, {}) /\ UNCHANGED measured
       \/ held[1] # NoBoard
          /\ measured' = [measured EXCEPT ![1] = held[1]]
          /\ vpc' = "sessions" /\ UNCHANGED <<k, opened, held, logs>>
    /\ UNCHANGED <<world, session, logging, macs, entered, result, store, torn,
                   strayed, runs>>

\* the sessions, and the end of the with statement; nothing looks at the
\* responder's console, which may have gone while its access point is there
RunSessions ==
    /\ vpc = "sessions"
    /\ \/ Unwind({}, {}) /\ UNCHANGED measured
       \/ held[2] # NoBoard
          /\ measured' = [measured EXCEPT ![2] = held[2]] /\ vpc' = "judge"
          /\ opened' = {} /\ held' = Nobody /\ logs' = {} /\ UNCHANGED k
    /\ UNCHANGED <<world, session, logging, macs, entered, result, store, torn,
                   strayed, runs>>

\* the transcript is written, which may fail, and judged
Judge ==
    /\ vpc = "judge"
    /\ \/ logging /\ Fail /\ UNCHANGED result
       \/ result' = "failed" /\ Fail
       \/ result' \in {"few", "enough"} /\ vpc' = "store" /\ UNCHANGED k
    /\ UNCHANGED <<world, session, logging, macs, console, measured, store, torn,
                   strayed, runs>>

\* mutant: the fingerprint of a port under the name of its peer
NamePeer(i) == macs[Other(i)]

\* the MAC a fingerprint is stored under
Name(i) == macs[i]

\* mutant: the check is left out
ExistsNever(m) == FALSE

Exists(m) == store[m].is # "absent"

\* make_fingerprint and update_or_compare_fingerprint, up to the creation of
\* the file: too few samples and a file that is no JSON are warnings, other
\* failures to read an old file or to create a new one are not
Compare ==
    /\ vpc = "store"
    /\ \/ (result = "few" \/ Exists(Name(k))) /\ GoOn("store", "passed")
          /\ UNCHANGED store
       \/ result = "enough" /\ Fail /\ UNCHANGED store
       \/ result = "enough" /\ ~Exists(Name(k))
          /\ store' = [store EXCEPT ![Name(k)] = Torn]
          /\ vpc' = "write" /\ UNCHANGED k
    /\ UNCHANGED <<world, session, logging, macs, console, measured, result, torn,
                   strayed, runs>>

\* mutant: an OSError is a warning, too
WriteWarns ==
    /\ vpc = "write"
    /\ UNCHANGED store /\ GoOn("store", "passed")
    /\ UNCHANGED <<world, session, logging, macs, console, measured, result, torn,
                   strayed, runs>>

\* write_text writes the whole file, or raises an OSError
Write ==
    /\ vpc = "write"
    /\ \/ Fail /\ UNCHANGED store
       \/ store' = [store EXCEPT ![Name(k)] =
                       [is |-> "complete", role |-> k, peer |-> macs[Other(k)],
                        measured |-> measured, strayed |-> strayed]]
          /\ GoOn("store", "passed")
    /\ UNCHANGED <<world, session, logging, macs, console, measured, result, torn,
                   strayed, runs>>

\* main returns, or the process is killed
Quit ==
    /\ vpc' = "idle" /\ k' = 1 /\ logging' = FALSE
    /\ macs' = Nobody /\ held' = Nobody /\ measured' = Nobody
    /\ opened' = {} /\ logs' = {} /\ entered' = {} /\ result' = "failed"
    /\ UNCHANGED <<world, session, store, torn, strayed, runs>>

End == vpc \in {"passed", "failed"} /\ Quit
Kill == vpc \notin {"idle", "passed", "failed"} /\ Quit

\* a board that moves does not answer on a port that was opened before
Replug(b) ==
    /\ Move(b)
    /\ held' = [i \in Sides |-> IF held[i] = b THEN NoBoard ELSE held[i]]
    /\ strayed' = IF /\ vpc \in {"macs", "flash", "enter"}
                     /\ \E i \in Sides \ opened : macs[i] = b
                  THEN strayed \cup {b} ELSE strayed
    /\ UNCHANGED <<vpc, k, logging, macs, opened, logs, entered, measured, result,
                   store, torn, runs>>

Main == Start \/ ReadMac \/ Flash \/ EnterConsole \/ RequirePrompt \/ SetUpAp
        \/ RunSessions \/ Judge \/ Compare \/ Write \/ End \/ Kill

\* the tests and the validator are not run at the same time
Next ==
    \/ Main
    \/ vpc = "idle" /\ Session /\ UNCHANGED vvars
    \/ \E b \in Boards : Replug(b)

Spec == ValidatorInit /\ [][Next]_allVars

-----------------------------------------------------------------------------
\* Properties

(* A baseline stored under a MAC was measured with that board, in the role   *)
(* and with the peer that the file names, over any sequence of runs, crashes *)
(* and re-enumerations, before, between and after.  Excused is only a board  *)
(* that strayed: it re-enumerated after its MAC was read at a port           *)
(* (validate_board.py:297) and before that port was opened.                  *)
BaselineIsOwn ==
    \A m \in Boards :
        LET f == store[m] IN
        f.is = "complete" =>
            /\ m \in f.strayed \/ f.measured[f.role] = m
            /\ f.peer \in f.strayed \/ f.measured[Other(f.role)] = f.peer

(* A baseline is never overwritten or damaged, by whichever later run and in *)
(* whichever role (README.md:26-27 of the bench: later runs warn).           *)
BaselineKept ==
    [][\A m \in Boards : store[m].is = "complete" => store'[m] = store[m]]_allVars

(* A run that passes with enough samples leaves a baseline for both MACs it  *)
(* read, except where a run before it was killed, or failed, in the middle   *)
(* of writing it (validate_board.py:240 writes in place).                    *)
PassedHasBaseline ==
    vpc = "passed" /\ result = "enough" =>
        \A i \in Sides : store[macs[i]].is = "complete" \/ macs[i] \in torn

(* However the with statement is left, in or after its entry, nothing of a   *)
(* console that was entered stays open, neither its port nor its log file.   *)
(* One whose own __enter__ raised is not closed: it leaves the log file open *)
(* (console.py:78-79), and the port, too, if that had been opened (80-95).   *)
Released ==
    vpc \in {"judge", "store", "write", "passed", "failed"} =>
        (opened \cup logs) \cap entered = {}
=============================================================================

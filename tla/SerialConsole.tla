--------------------------- MODULE SerialConsole ---------------------------
(***************************************************************************)
(* The host's end of a board's console: the reader thread that appends     *)
(* what it reads to _text and to the log file, the main thread that waits  *)
(* for a pattern under the condition variable, and the end of the session, *)
(* which does not take the lock.                                           *)
(*                                                                         *)
(* Bytes and characters are counted, not spelled: a character is two       *)
(* bytes, and Patterns are the characters at which a pattern is complete.  *)
(***************************************************************************)
EXTENDS Naturals

CONSTANTS
    MaxBytes,       \* bound: bytes the board sends
    Patterns,       \* characters that complete a pattern
    MaxWaits,       \* bound: calls of wait_for_any
    MayFail         \* the port and the file may fail

ASSUME ConsoleAssumption ==
    /\ MaxBytes \in Nat /\ MaxWaits \in Nat
    /\ Patterns \subseteq Nat \ {0}
    /\ MayFail \in BOOLEAN

VARIABLES
    received,   \* bytes that have reached the port
    got,        \* bytes the reader has read
    reader,     \* where the reader thread is
    chunk,      \* decoded characters it is about to append
    text,       \* length of _text
    logged,     \* characters in the log file
    lock,       \* owner of _condition
    error,      \* _reader_error is set
    main,       \* where the main thread is
    since,      \* the mark it has taken, or waits from
    expired,    \* its deadline has passed
    woken,      \* it was notified
    outcome,    \* of its last wait
    waits,      \* bound: calls so far
    stop,       \* _stop
    portOpen,   \* the serial port is open
    logOpen     \* the log file is open

stream == <<received, got>>
output == <<text, logged>>
waiter == <<main, since, expired, outcome, waits>>
closing == <<stop, portOpen, logOpen>>
vars == <<received, got, reader, chunk, text, logged, lock, error, main, since,
          expired, woken, outcome, waits, stop, portOpen, logOpen>>

MaxText == MaxBytes \div 2 + 1

TypeOK ==
    /\ received \in 0..MaxBytes /\ got \in 0..received
    /\ reader \in {"run", "read", "append", "write", "tail", "writeTail", "raise",
                   "done"}
    /\ {chunk, text, logged, since} \subseteq 0..MaxText
    /\ lock \in {"free", "reader", "main"}
    /\ main \in {"idle", "enter", "check", "blocked", "join", "closePort", "closeLog",
                 "closed"}
    /\ {error, expired, woken, stop, portOpen, logOpen} \subseteq BOOLEAN
    /\ outcome \in {"none", "waiting", "matched", "timeout", "error"}
    /\ waits \in 0..MaxWaits

Init ==
    /\ received = 0 /\ got = 0 /\ reader = "run" /\ chunk = 0
    /\ text = 0 /\ logged = 0 /\ lock = "free" /\ error = FALSE
    /\ main = "idle" /\ since = 0 /\ expired = FALSE /\ woken = FALSE
    /\ outcome = "none" /\ waits = 0
    /\ stop = FALSE /\ portOpen = TRUE /\ logOpen = TRUE

\* a byte arrives from the board
Receive ==
    /\ received < MaxBytes /\ received' = received + 1
    /\ UNCHANGED <<got, reader, chunk, output, lock, error, waiter, woken, closing>>

-----------------------------------------------------------------------------
\* The reader thread: _read_forever and _append

\* the loop's condition
KeepRunning ==
    /\ reader = "run" /\ ~stop /\ reader' = "read"
    /\ UNCHANGED <<stream, chunk, output, lock, error, waiter, woken, closing>>

\* mutant: the decoder is not told that the input has ended
StoppedWithoutTail ==
    /\ reader = "run" /\ stop /\ reader' = "done"
    /\ UNCHANGED <<stream, chunk, output, lock, error, waiter, woken, closing>>

\* half a character that is left over is replaced
Stopped ==
    /\ reader = "run" /\ stop
    /\ reader' = IF got % 2 = 1 THEN "tail" ELSE "done"
    /\ chunk' = got % 2
    /\ UNCHANGED <<stream, output, lock, error, waiter, woken, closing>>

\* mutant: every chunk is decoded by itself
ReadWithoutMemory ==
    /\ reader = "read" /\ portOpen
    /\ \E n \in 1..(received - got) :
       /\ got' = got + n
       /\ chunk' = (n + 1) \div 2
    /\ reader' = "append"
    /\ UNCHANGED <<received, output, lock, error, waiter, woken, closing>>

\* read(in_waiting or 1), and the incremental decoder keeps half a character
Read ==
    /\ reader = "read" /\ portOpen
    /\ \E n \in 1..(received - got) :
       /\ got' = got + n
       /\ chunk' = (got + n) \div 2 - got \div 2
    /\ reader' = "append"
    /\ UNCHANGED <<received, output, lock, error, waiter, woken, closing>>

\* nothing within 0.1 s
ReadNothing ==
    /\ reader = "read" /\ portOpen /\ got = received
    /\ reader' = "run"
    /\ UNCHANGED <<stream, chunk, output, lock, error, waiter, woken, closing>>

\* the port fails or has been closed under the reader
ReadFails ==
    /\ reader = "read" /\ (MayFail \/ ~portOpen)
    /\ reader' = "raise"
    /\ UNCHANGED <<stream, chunk, output, lock, error, waiter, woken, closing>>

AppendText ==
    /\ reader \in {"append", "tail"} /\ lock = "free"
    /\ lock' = "reader"
    /\ reader' = IF reader = "append" THEN "write" ELSE "writeTail"
    /\ text' = text + chunk
    /\ UNCHANGED <<stream, chunk, logged, error, waiter, woken, closing>>

Writing == reader \in {"write", "writeTail"}

\* mutant: nobody is notified
WriteSilently ==
    /\ Writing /\ logOpen
    /\ logged' = logged + chunk
    /\ lock' = "free"
    /\ reader' = IF reader = "write" THEN "run" ELSE "done"
    /\ UNCHANGED <<stream, chunk, text, error, waiter, woken, closing>>

\* the log is written and the waiter notified
Write ==
    /\ Writing /\ logOpen
    /\ logged' = logged + chunk
    /\ lock' = "free" /\ woken' = TRUE
    /\ reader' = IF reader = "write" THEN "run" ELSE "done"
    /\ UNCHANGED <<stream, chunk, text, error, waiter, closing>>

\* mutant: a closed log is passed over
SkipClosedLog ==
    /\ Writing /\ (MayFail \/ ~logOpen)
    /\ lock' = "free" /\ woken' = TRUE
    /\ reader' = "run"
    /\ UNCHANGED <<stream, chunk, output, error, waiter, closing>>

\* the file cannot be written, or has been closed under the reader
WriteFails ==
    /\ Writing /\ (MayFail \/ ~logOpen)
    /\ lock' = "free" /\ reader' = "raise"
    /\ UNCHANGED <<stream, chunk, output, error, waiter, woken, closing>>

\* mutant: the waiter is not notified
RaiseSilently ==
    /\ reader = "raise" /\ lock = "free"
    /\ error' = TRUE /\ reader' = "done"
    /\ UNCHANGED <<stream, chunk, output, lock, waiter, woken, closing>>

Raise ==
    /\ reader = "raise" /\ lock = "free"
    /\ error' = TRUE /\ woken' = TRUE /\ reader' = "done"
    /\ UNCHANGED <<stream, chunk, output, lock, waiter, closing>>

Reader ==
    \/ KeepRunning \/ Stopped \/ Read \/ ReadNothing \/ ReadFails
    \/ AppendText \/ Write \/ WriteFails \/ Raise

-----------------------------------------------------------------------------
\* The main thread: wait_for_any

Matched == \E p \in Patterns : since < p /\ p <= text

\* mark takes the lock: it never counts what is only half appended
Mark ==
    /\ main = "idle" /\ lock = "free" /\ since' = text
    /\ UNCHANGED <<stream, reader, chunk, output, lock, error, main, expired, woken,
                   outcome, waits, closing>>

\* wait_for_any from that mark, or from the start
StartWait ==
    /\ main = "idle" /\ waits < MaxWaits /\ waits' = waits + 1
    /\ since' \in {0, since}
    /\ main' = "enter" /\ outcome' = "waiting" /\ expired' = FALSE
    /\ UNCHANGED <<stream, reader, chunk, output, lock, error, woken, closing>>

Expire ==
    /\ outcome = "waiting" /\ expired' = TRUE
    /\ UNCHANGED <<stream, reader, chunk, output, lock, error, main, since, woken,
                   outcome, waits, closing>>

\* takes the lock, for the first time or after a wait
Acquire ==
    /\ \/ main = "enter"
       \/ main = "blocked" /\ (woken \/ expired)
    /\ lock = "free" /\ lock' = "main" /\ main' = "check"
    /\ UNCHANGED <<stream, reader, chunk, output, error, since, expired, woken,
                   outcome, waits, closing>>

Leave(result) ==
    /\ main' = "idle" /\ outcome' = result /\ lock' = "free"
    /\ UNCHANGED <<stream, reader, chunk, output, error, since, expired, woken,
                   waits, closing>>

\* nothing yet: wait lets go of the lock and blocks in one step
Block ==
    /\ main' = "blocked" /\ woken' = FALSE /\ lock' = "free"
    /\ UNCHANGED <<stream, reader, chunk, output, error, since, expired, outcome,
                   waits, closing>>

\* mutant: the deadline is looked at first
CheckDeadlineFirst ==
    /\ main = "check"
    /\ \/ expired /\ Leave("timeout")
       \/ ~expired /\ Matched /\ Leave("matched")
       \/ ~expired /\ ~Matched /\ error /\ Leave("error")
       \/ ~expired /\ ~Matched /\ ~error /\ Block

\* the text is looked at first, then the reader's error, then the deadline
Check ==
    /\ main = "check"
    /\ \/ Matched /\ Leave("matched")
       \/ ~Matched /\ error /\ Leave("error")
       \/ ~Matched /\ ~error /\ expired /\ Leave("timeout")
       \/ ~Matched /\ ~error /\ ~expired /\ Block

-----------------------------------------------------------------------------
\* The main thread: __exit__

Exit ==
    /\ main = "idle" /\ main' = "join" /\ stop' = TRUE
    /\ UNCHANGED <<stream, reader, chunk, output, lock, error, since, expired, woken,
                   outcome, waits, portOpen, logOpen>>

\* join(timeout=2.0) returns whether or not the reader has ended
Join ==
    /\ main = "join" /\ main' = "closePort"
    /\ UNCHANGED <<stream, reader, chunk, output, lock, error, since, expired, woken,
                   outcome, waits, closing>>

ClosePort ==
    /\ main = "closePort" /\ main' = "closeLog" /\ portOpen' = FALSE
    /\ UNCHANGED <<stream, reader, chunk, output, lock, error, since, expired, woken,
                   outcome, waits, stop, logOpen>>

CloseLog ==
    /\ main = "closeLog" /\ main' = "closed" /\ logOpen' = FALSE
    /\ UNCHANGED <<stream, reader, chunk, output, lock, error, since, expired, woken,
                   outcome, waits, stop, portOpen>>

Waiter == Acquire \/ Check
Closer == Join \/ ClosePort \/ CloseLog

Next == Receive \/ Reader \/ Mark \/ StartWait \/ Expire \/ Waiter \/ Exit \/ Closer

SafeSpec == Init /\ [][Next]_vars

(* Both threads run; the board, the clock and the caller owe nothing.        *)
Spec == SafeSpec /\ WF_vars(Reader) /\ WF_vars(Waiter) /\ WF_vars(Closer)

-----------------------------------------------------------------------------
\* What it promises: ConsoleService

\* the characters a caller can see: not those of an _append under way
Heard == IF Writing THEN text - chunk ELSE text

Health ==
    IF error THEN "failed"
    ELSE IF reader = "raise" THEN "failing"
    ELSE IF reader = "done" THEN "done" ELSE "up"

Service == INSTANCE ConsoleService WITH
    text <- Heard, log <- logged, health <- Health, wait <- outcome, late <- expired

-----------------------------------------------------------------------------
\* Properties

Waiting == outcome = "waiting"

(* No wake-up is lost: once the pattern is in the text the wait finds it,    *)
(* without having to wait for its deadline.                                  *)
MatchSeen == Waiting /\ Matched ~> outcome = "matched"

(* A waiter that is blocked and has not been notified has nothing to see     *)
(* yet: no error, and no match unless the reader that appended it is still   *)
(* on its way to notify_all, in _append or, if the file failed, in the       *)
(* handler of the exception.  So neither a match nor the death of the        *)
(* reader leaves a waiter blocked until its deadline.                        *)
NoLostWakeup ==
    main = "blocked" /\ ~woken =>
        ~error /\ (Matched => Writing \/ reader = "raise")

(* The log file and _text agree whenever nobody holds the lock, unless the   *)
(* reader is on its way out with an error: a log that lacks what the host    *)
(* has seen is never silent, also when it is closed under the reader.        *)
NoSilentLoss == lock # "reader" /\ logged # text => error \/ reader = "raise"

(* A reader that has ended, and not by an error, has kept every byte it      *)
(* took, half a character included, in _text and in the log, also when the   *)
(* console was closed under it.                                              *)
CleanEnd ==
    reader = "done" /\ ~error => logged = text /\ text = (got + 1) \div 2

(* The console as a whole: text and log grow in one step, a mark counts what *)
(* is in both, and a wait is answered from the text as it is at that moment, *)
(* a match before an error and an error before a time-out.  It is answered   *)
(* once there is a match, an error or the end of its time.                   *)
ImplementsConsole == Service!Spec
ImplementsConsoleSafe == Service!SafeSpec
=============================================================================

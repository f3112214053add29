--------------------------- MODULE ConsoleService ---------------------------
(***************************************************************************)
(* What SerialConsole promises the bench, without its reader thread, its   *)
(* lock and its end: a text and a log that grow together, a failure that   *)
(* is reported, and a wait that is answered from the text as it stands.    *)
(* SerialConsole implements this specification (see its                    *)
(* ImplementsConsole), and BenchRun knows no more of a console than this.  *)
(***************************************************************************)
EXTENDS Naturals

CONSTANTS
    Patterns,   \* characters that complete a pattern
    MaxText     \* bound: characters in one behaviour

VARIABLES
    text,       \* characters a caller can see
    log,        \* characters in the log file
    health,     \* of the reader
    since,      \* the caller's mark
    wait,       \* the caller's last wait
    late        \* its deadline has passed

heard == <<text, log, health>>
cVars == <<heard, since, wait, late>>

Init ==
    /\ text = 0 /\ log = 0 /\ health = "up"
    /\ since = 0 /\ wait = "none" /\ late = FALSE

-----------------------------------------------------------------------------
\* What is heard

\* text and log grow together; the last characters may come with the end
Hear ==
    /\ health = "up" /\ health' \in {"up", "done"}
    /\ \E n \in 0..(MaxText - text) : text' = text + n /\ log' = log + n
    /\ UNCHANGED <<since, wait, late>>

\* the end, with nothing more to say
Fail ==
    /\ health = "up" /\ health' = "failing"
    /\ \E n \in 0..(MaxText - text) : text' = text + n
    /\ UNCHANGED <<log, since, wait, late>>

Report ==
    /\ health = "failing" /\ health' = "failed"
    /\ UNCHANGED <<text, log, since, wait, late>>

-----------------------------------------------------------------------------
\* The caller

Mark ==
    /\ wait # "waiting" /\ since' = text
    /\ UNCHANGED <<heard, wait, late>>

\* from the mark or from the start
Begin ==
    /\ wait # "waiting" /\ wait' = "waiting" /\ late' = FALSE
    /\ since' \in {0, since}
    /\ UNCHANGED heard

TimePasses ==
    /\ wait = "waiting" /\ late' = TRUE
    /\ UNCHANGED <<heard, since, wait>>

Found == \E p \in Patterns : since < p /\ p <= text

\* a pattern that is there is found, whatever else happened; an error is only
\* raised when there is none, and a time-out only when there is no error either
Answer ==
    /\ wait = "waiting"
    /\ \/ Found /\ wait' = "matched"
       \/ ~Found /\ health = "failed" /\ wait' = "error"
       \/ ~Found /\ health # "failed" /\ late /\ wait' = "timeout"
    /\ UNCHANGED <<heard, since, late>>

-----------------------------------------------------------------------------
Next ==
    \/ Hear \/ Fail \/ Report
    \/ Mark \/ Begin \/ TimePasses \/ Answer

SafeSpec == Init /\ [][Next]_cVars

\* a wait that can be answered is, and so is a failure reported
Spec == SafeSpec /\ WF_cVars(Answer) /\ WF_cVars(Report)
=============================================================================

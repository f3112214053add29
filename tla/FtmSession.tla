----------------------------- MODULE FtmSession -----------------------------
(***************************************************************************)
(* The initiator half of the console firmware: the "ftm -I" command        *)
(* (wifi_cmd_ftm, ftm_print_report) run by the console task, the Wi-Fi     *)
(* event handler run by the event task, and the driver's ranging session.  *)
(*                                                                         *)
(* The tasks share s_ftm_event_group and three globals without a lock.     *)
(* The target has one core and the event task outranks the console task,   *)
(* so the handler interrupts the command between any two of its accesses,  *)
(* while the command runs inside the handler only where the handler blocks *)
(* (its log line before it sets the failure bit).                          *)
(*                                                                         *)
(* Values are abstracted to their origin: rtt and dist hold the number of  *)
(* the session that wrote s_rtt_est and s_dist_est, report the session     *)
(* whose entries the driver owns.  Sessions are numbered as they start.    *)
(***************************************************************************)
EXTENDS Naturals, Sequences

CONSTANTS
    MaxSessions,    \* bound: sessions started in one behaviour
    MaxEntries,     \* bound: entries of one report
    ShowReport,     \* g_report_lvl # 0 (true under sdkconfig.defaults)
    AllocMayFail,   \* malloc may return NULL
    WaitIsEnough    \* a session that reports at all does so before the wait
                    \* ends (the wait is twice the longest burst sequence)

ASSUME ConstantsAssumption ==
    /\ MaxSessions \in Nat
    /\ MaxEntries \in Nat
    /\ ShowReport \in BOOLEAN
    /\ AllocMayFail \in BOOLEAN
    /\ WaitIsEnough \in BOOLEAN

VARIABLES
    pc,      \* where the console task is
    bits,    \* s_ftm_event_group
    num,     \* s_ftm_report_num_entries
    rtt,     \* origin of s_rtt_est
    dist,    \* origin of s_dist_est
    buf,     \* entries malloc'ed for ftm_report, 0: none
    row,     \* i, the row being printed
    rows,    \* origin of the entries copied into the buffer
    seen,    \* the s_rtt_est already read for the result line
    hpc,     \* where the event task is
    queue,   \* events posted to the default event loop, oldest first
    drv,     \* driver: state of its one ranging session
    report,  \* driver: origin of the report it owns, 0: none
    asked,   \* history: sessions started; the last is the command's own
    truth,   \* history: how the peer ended each session
    answer   \* history: what the console printed for each session

console == <<pc, buf, row, rows, seen>>
globals == <<bits, num, rtt, dist>>
driver  == <<drv, report>>
vars == <<pc, bits, num, rtt, dist, buf, row, rows, seen, hpc, queue,
          drv, report, asked, truth, answer>>

\* the specification this one implements, over the history variables
Service == INSTANCE FtmService WITH
    MaxSessions <- MaxSessions, asked <- asked, truth <- truth, answer <- answer

Sessions == 1..MaxSessions
Outcomes == Service!Outcomes
Plain(v) == Service!Plain(v)

Statuses == {"success", "user_term", "failure"}
Events == [sid : 0..MaxSessions, status : Statuses, n : 0..MaxEntries]
PCs == {"prompt", "wait", "print", "alloc", "clear", "fetch", "rows", "exit",
        "rtt", "dist", "failed", "end", "release"}
Answers == [verdict : {"none", "measured", "failed", "timedout"},
            rtt : 0..MaxSessions, dist : 0..MaxSessions, rows : 0..MaxSessions]

TypeOK ==
    /\ pc \in PCs
    /\ bits \subseteq {"REPORT", "FAILURE"}
    /\ num \in 0..MaxEntries /\ buf \in 0..MaxEntries /\ row \in 0..MaxEntries
    /\ {rtt, dist, rows, seen, report, asked} \subseteq 0..MaxSessions
    /\ hpc \in {"idle", "failing"}
    /\ queue \in Seq(Events)
    /\ drv \in {"idle", "running", "stalled", "ending"}
    /\ truth \in [Sessions -> Outcomes \cup {"pending"}]
    /\ answer \in [Sessions -> Answers]

Init ==
    /\ Service!Init
    /\ pc = "prompt" /\ hpc = "idle" /\ drv = "idle"
    /\ bits = {} /\ queue = <<>>
    /\ num = 0 /\ rtt = 0 /\ dist = 0 /\ report = 0
    /\ buf = 0 /\ row = 0 /\ rows = 0 /\ seen = 0

-----------------------------------------------------------------------------
\* The console task.

\* esp_wifi_ftm_initiate_session succeeds.  Neither the bits nor the globals
\* of an earlier session are cleared first.
Initiate ==
    /\ pc = "prompt" /\ drv = "idle"
    /\ asked < MaxSessions
    /\ asked' = asked + 1
    /\ drv' = "running"
    /\ pc' = "wait"
    /\ UNCHANGED <<buf, row, rows, seen, globals, hpc, queue, report, truth,
                   answer>>

\* The command returns early: bad arguments, no access point, or the driver
\* refuses the session (always while it has one).
Refused == pc = "prompt" /\ UNCHANGED vars

\* mutant: xClearOnExit is pdFALSE
WaitReturnsKeepingBits ==
    /\ pc = "wait" /\ bits # {}
    /\ pc' = IF "REPORT" \in bits THEN "print" ELSE "failed"
    /\ UNCHANGED <<buf, row, rows, seen, globals, hpc, queue, driver, asked,
                   truth, answer>>

\* xEventGroupWaitBits returns with a bit set and clears both; the report bit
\* is looked at first.
WaitReturns ==
    /\ pc = "wait" /\ bits # {}
    /\ pc' = IF "REPORT" \in bits THEN "print" ELSE "failed"
    /\ bits' = {}
    /\ UNCHANGED <<buf, row, rows, seen, num, rtt, dist, hpc, queue, driver,
                   asked, truth, answer>>

\* Nothing of the current session can still arrive.
NothingToCome ==
    /\ drv # "running" /\ hpc = "idle"
    /\ \A i \in DOMAIN queue : queue[i].sid # asked

\* mutant: the wait is given no tick count
WaitForever == FALSE

\* The wait ends with no bit set; the command prints that it timed out.
Timeout ==
    /\ pc = "wait" /\ bits = {}
    /\ WaitIsEnough => NothingToCome
    /\ answer' = [answer EXCEPT ![asked] = Plain("timedout")]
    /\ pc' = "end"
    /\ UNCHANGED <<buf, row, rows, seen, globals, hpc, queue, driver, asked,
                   truth>>

\* ftm_print_report up to malloc: without entries it returns at once, and
\* without a level it only frees the driver's report
PrintReport ==
    /\ pc = "print"
    /\ rows' = 0 /\ row' = 0
    /\ \/ num = 0 /\ pc' = "rtt" /\ UNCHANGED report
       \/ num # 0 /\ ~ShowReport /\ pc' = "exit" /\ report' = 0
       \/ num # 0 /\ ShowReport /\ pc' = "alloc" /\ UNCHANGED report
    /\ UNCHANGED <<buf, seen, globals, hpc, queue, drv, asked, truth, answer>>

\* num is read again; when malloc fails (of nothing, it always may) the
\* function leaves without calling esp_wifi_ftm_get_report
Alloc ==
    /\ pc = "alloc"
    /\ \/ pc' = "clear" /\ buf' = num
       \/ (AllocMayFail \/ num = 0) /\ pc' = "exit" /\ UNCHANGED buf
    /\ UNCHANGED <<row, rows, seen, globals, hpc, queue, driver, asked, truth,
                   answer>>

\* bzero over num entries, num being read again
Clear ==
    /\ pc = "clear" /\ pc' = "fetch"
    /\ UNCHANGED <<buf, row, rows, seen, globals, hpc, queue, driver, asked,
                   truth, answer>>

\* esp_wifi_ftm_get_report(buffer, num): copies the report and frees it, or
\* fails when the driver has none; then the malloc of the log line.
Fetch ==
    /\ pc = "fetch"
    /\ rows' = report /\ report' = 0
    /\ pc' \in IF report = 0 THEN {"exit"}
               ELSE {"rows"} \cup (IF AllocMayFail THEN {"exit"} ELSE {})
    /\ UNCHANGED <<buf, row, seen, globals, hpc, queue, drv, asked, truth,
                   answer>>

\* mutant: the loop runs one row too far
PrintRowTooFar ==
    /\ pc = "rows"
    /\ IF row <= num THEN row' = row + 1 /\ pc' = pc
                     ELSE row' = row /\ pc' = "exit"
    /\ UNCHANGED <<buf, rows, seen, globals, hpc, queue, driver, asked, truth,
                   answer>>

\* one turn of the print loop, whose bound is num itself
PrintRow ==
    /\ pc = "rows"
    /\ IF row < num THEN row' = row + 1 /\ pc' = pc
                    ELSE row' = row /\ pc' = "exit"
    /\ UNCHANGED <<buf, rows, seen, globals, hpc, queue, driver, asked, truth,
                   answer>>

\* mutant: the estimates are forgotten along with the entries
ExitForgettingEstimate ==
    /\ pc = "exit" /\ pc' = "rtt"
    /\ buf' = 0 /\ num' = 0 /\ rtt' = 0 /\ dist' = 0
    /\ UNCHANGED <<row, rows, seen, bits, hpc, queue, driver, asked, truth,
                   answer>>

\* label exit: free the buffers, forget the entries
Exit ==
    /\ pc = "exit" /\ pc' = "rtt"
    /\ buf' = 0 /\ num' = 0
    /\ UNCHANGED <<row, rows, seen, bits, rtt, dist, hpc, queue, driver, asked,
                   truth, answer>>

\* the result line reads s_rtt_est, then s_dist_est
ReadRtt ==
    /\ pc = "rtt" /\ pc' = "dist"
    /\ seen' = rtt
    /\ UNCHANGED <<buf, row, rows, globals, hpc, queue, driver, asked, truth,
                   answer>>

PrintEstimate ==
    /\ pc = "dist" /\ pc' = "prompt"
    /\ answer' = [answer EXCEPT ![asked] =
           [verdict |-> "measured", rtt |-> seen, dist |-> dist, rows |-> rows]]
    /\ UNCHANGED <<buf, row, rows, seen, globals, hpc, queue, driver, asked,
                   truth>>

\* "FTM procedure failed!"
PrintFailed ==
    /\ pc = "failed" /\ pc' = "release"
    /\ answer' = [answer EXCEPT ![asked] = Plain("failed")]
    /\ UNCHANGED <<buf, row, rows, seen, globals, hpc, queue, driver, asked,
                   truth>>

\* esp_wifi_ftm_end_session after a timeout; without effect on a session
\* that is over
EndSession ==
    /\ pc = "end" /\ pc' = "release"
    /\ drv' = IF drv = "idle" THEN "idle" ELSE "ending"
    /\ UNCHANGED <<buf, row, rows, seen, globals, hpc, queue, report, asked,
                   truth, answer>>

\* mutant: the command as it was upstream, which released nothing here
ReleaseForgotten ==
    /\ pc = "release" /\ pc' = "prompt"
    /\ UNCHANGED <<buf, row, rows, seen, globals, hpc, queue, driver, asked,
                   truth, answer>>

\* esp_wifi_ftm_get_report(NULL, 0) after a failure or a timeout
Release ==
    /\ pc = "release" /\ pc' = "prompt"
    /\ report' = 0
    /\ UNCHANGED <<buf, row, rows, seen, globals, hpc, queue, drv, asked,
                   truth, answer>>

Console ==
    \/ WaitReturns \/ Timeout
    \/ PrintReport \/ Alloc \/ Clear \/ Fetch \/ PrintRow \/ Exit
    \/ ReadRtt \/ PrintEstimate \/ PrintFailed \/ EndSession \/ Release

-----------------------------------------------------------------------------
\* The event task: the WIFI_EVENT_FTM_REPORT branch of event_handler.  The
\* three globals are written whatever the status.

\* mutant: a terminated session counts as a success
HandleReportTerminated ==
    /\ hpc = "idle" /\ queue # <<>>
    /\ LET e == Head(queue) IN
       /\ rtt' = e.sid /\ dist' = e.sid /\ num' = e.n
       /\ bits' = IF e.status # "failure" THEN bits \cup {"REPORT"} ELSE bits
       /\ hpc'  = IF e.status = "failure" THEN "failing" ELSE "idle"
    /\ queue' = Tail(queue)
    /\ UNCHANGED <<console, driver, asked, truth, answer>>

HandleReport ==
    /\ hpc = "idle" /\ queue # <<>>
    /\ LET e == Head(queue) IN
       /\ rtt' = e.sid /\ dist' = e.sid /\ num' = e.n
       /\ bits' = IF e.status = "success" THEN bits \cup {"REPORT"} ELSE bits
       /\ hpc'  = IF e.status = "failure" THEN "failing" ELSE "idle"
    /\ queue' = Tail(queue)
    /\ UNCHANGED <<console, driver, asked, truth, answer>>

\* mutant: the wrong bit
SetReportBit ==
    /\ hpc = "failing" /\ hpc' = "idle"
    /\ bits' = bits \cup {"REPORT"}
    /\ UNCHANGED <<console, num, rtt, dist, queue, driver, asked, truth, answer>>

\* after the log line of a failed session
SetFailureBit ==
    /\ hpc = "failing" /\ hpc' = "idle"
    /\ bits' = bits \cup {"FAILURE"}
    /\ UNCHANGED <<console, num, rtt, dist, queue, driver, asked, truth, answer>>

Handler == HandleReport \/ SetFailureBit

-----------------------------------------------------------------------------
\* The Wi-Fi driver, as the firmware uses it: one session at a time, one
\* owned report, events posted in order.

Post(status, n) ==
    queue' = Append(queue, [sid |-> asked, status |-> status, n |-> n])

\* the session ends by itself; the driver keeps its entries until
\* esp_wifi_ftm_get_report (use_get_report_api)
SessionOver ==
    /\ drv = "running" /\ drv' = "idle"
    /\ \E n \in 0..MaxEntries, ok \in BOOLEAN :
       /\ Post(IF ok THEN "success" ELSE "failure", n)
       /\ truth' = [truth EXCEPT ![asked] = IF ok THEN "measured" ELSE "failed"]
       /\ report' = IF n = 0 THEN report ELSE asked
    /\ UNCHANGED <<console, globals, hpc, asked, answer>>

\* the peer falls silent: the session never reports by itself, but the driver
\* may already own entries of it (ftm_main.c:657 releases them)
PeerLost ==
    /\ drv = "running" /\ drv' = "stalled"
    /\ report' \in {report, asked}
    /\ UNCHANGED <<console, globals, hpc, queue, asked, truth, answer>>

\* an ended session posts FTM_STATUS_USER_TERM
Terminated ==
    /\ drv = "ending" /\ drv' = "idle"
    /\ \E n \in 0..MaxEntries : Post("user_term", n)
    /\ UNCHANGED <<console, globals, hpc, report, asked, truth, answer>>

Driver == SessionOver \/ PeerLost \/ Terminated

-----------------------------------------------------------------------------
Next == Initiate \/ Refused \/ Console \/ Handler \/ Driver

SafeSpec == Init /\ [][Next]_vars

(* Both tasks are scheduled whenever they are ready, a blocked wait ends at  *)
(* its tick count, and a driver session does not run for ever.               *)
Spec == /\ SafeSpec
         /\ WF_vars(Console) /\ WF_vars(Handler) /\ WF_vars(Driver)

-----------------------------------------------------------------------------
\* Properties

(* The distance, the round-trip time and the rows printed as the answer of a *)
(* command are all of the session that very command started.  The bits are   *)
(* not cleared before a session starts and the globals are shared, so this   *)
(* rests on the wait being long enough (wifi_cmd_ftm, event_handler).        *)
OwnEstimate ==
    \A k \in Sessions : answer[k].verdict = "measured" =>
        /\ answer[k].rtt = k /\ answer[k].dist = k
        /\ answer[k].rows \in {0, k}

(* What the command prints is what became of its session: a result only for  *)
(* a session the peer completed, "failed" for one that failed and "timed     *)
(* out" for one that never reported.                                         *)
OwnVerdict ==
    \A k \in Sessions : answer[k].verdict # "none" =>
        answer[k].verdict =
            IF truth[k] = "pending" THEN "timedout" ELSE truth[k]

(* While ftm_print_report holds its buffer, s_ftm_report_num_entries, which  *)
(* it reads again to clear, to fill and to walk the buffer, is not beyond    *)
(* the number of entries that were allocated.                                *)
RowsInBuffer == pc \in {"clear", "fetch", "rows"} => num <= buf

(* Back at the prompt the driver owns no report: each way out of the command *)
(* has released the one its session left.                                    *)
ReportReleased == pc = "prompt" => report = 0

(* A result can be attributed to the wrong command only after some earlier   *)
(* command gave up waiting: with no timeout so far, every measured answer is *)
(* the command's own, however late the driver reports.                       *)
WrongOnlyAfterTimeout ==
    \A k \in Sessions :
        answer[k].verdict = "measured" /\ {answer[k].rtt, answer[k].dist} # {k}
            => \E j \in 1..(k - 1) : answer[j].verdict = "timedout"

(* Results never go backwards: the two numbers of a line are from the same   *)
(* session or the distance is the newer, and no later command prints numbers *)
(* older than those an earlier command printed.  The loop delivers events in *)
(* the order they are posted, and nothing resets s_rtt_est and s_dist_est.   *)
NeverOlder ==
    \A j, k \in Sessions :
        /\ answer[k].rtt <= answer[k].dist
        /\ j < k /\ "measured" = answer[j].verdict /\ "measured" = answer[k].verdict
               => answer[j].dist <= answer[k].rtt

(* The command always comes back to the prompt, even if the peer falls       *)
(* silent, so the console never hangs.                                       *)
ReturnsToPrompt == []<>(pc = "prompt")

(* The command implements the console's promise step for step: each session  *)
(* is answered once, from its own outcome, before the next one starts, and   *)
(* none is left unanswered.                                                  *)
Implements == Service!Spec
ImplementsSafe == Service!SafeSpec

-----------------------------------------------------------------------------
\* Why the safety properties hold when the wait is long enough: an inductive
\* invariant in parts.

Printing == {"print", "alloc", "clear", "fetch", "rows", "exit", "rtt", "dist"}

\* no way out of ftm_print_report skips esp_wifi_ftm_get_report
NoLeak == ~AllocMayFail \/ ~ShowReport

\* sessions that have not started have no outcome and no answer
Untouched ==
    \A k \in Sessions : k > asked =>
        truth[k] = "pending" /\ answer[k].verdict = "none"

\* the current session is unanswered exactly while its command is on its way
CommandPending ==
    /\ pc # "prompt" => asked # 0
    /\ pc \in {"wait", "failed"} \cup Printing => answer[asked].verdict = "none"
    /\ pc \in {"end", "release", "prompt"} /\ asked # 0 =>
           answer[asked].verdict # "none"

\* the driver works on the current session, and only while its command waits
\* for it or has just ended it
DriverState ==
    /\ drv = "running" => pc = "wait"
    /\ drv = "stalled" => pc \in {"wait", "end"}
    /\ drv = "ending" => pc \in {"release", "prompt"}
    /\ drv \in {"running", "stalled"} => truth[asked] = "pending"
    /\ pc = "end" => drv = "stalled"
    /\ NoLeak /\ report # 0 =>
           /\ drv # "running"
           /\ pc \in {"wait", "print", "alloc", "clear", "fetch", "failed", "end",
                      "release"}

\* the driver owns the report of the current session if it had n entries
Owned(n) ==
    /\ n # 0 => report = asked
    /\ n = 0 /\ NoLeak => report = 0

\* only terminations of earlier sessions are ever queued before the report of
\* the current one, which is last
QueueState ==
    \A i \in DOMAIN queue :
        /\ queue[i].sid <= asked
        /\ queue[i].status = "user_term" /\ queue[i].sid = asked =>
               pc \in {"release", "prompt"}
        /\ queue[i].status # "user_term" =>
               /\ queue[i].sid = asked /\ i = Len(queue)
               /\ pc = "wait" /\ drv = "idle" /\ hpc = "idle" /\ bits = {}
               /\ truth[asked] =
                      IF queue[i].status = "success" THEN "measured" ELSE "failed"
               /\ Owned(queue[i].n)

\* once the current session is reported nothing is on its way to overwrite it
Settled == queue = <<>> /\ hpc = "idle" /\ drv = "idle"

HandlerState ==
    hpc = "failing" =>
        /\ pc = "wait" /\ drv = "idle" /\ queue = <<>> /\ bits = {}
        /\ truth[asked] = "failed"

BitsState ==
    bits # {} =>
        /\ pc = "wait" /\ Settled
        /\ \/ bits = {"REPORT"} /\ truth[asked] = "measured"
              /\ rtt = asked /\ dist = asked /\ Owned(num)
           \/ bits = {"FAILURE"} /\ truth[asked] = "failed"

ConsoleState ==
    /\ pc = "failed" => Settled /\ truth[asked] = "failed"
    /\ pc \in Printing => /\ Settled /\ truth[asked] = "measured"
                          /\ rtt = asked /\ dist = asked
    /\ pc = "print" => Owned(num)
    /\ pc = "alloc" => num # 0 /\ ShowReport
    /\ pc \in {"alloc", "clear", "fetch"} => report = asked
    /\ pc \in Printing => rows \in {0, asked} \/ pc = "print"
    /\ pc = "dist" => seen = asked
    /\ pc \in {"clear", "fetch", "rows"} => num <= buf

\* a command that waits for a finished session has its report under way
ReportUnderWay ==
    pc = "wait" /\ drv = "idle" =>
        bits # {} \/ hpc = "failing" \/ \E i \in DOMAIN queue : queue[i].sid = asked

IInv ==
    /\ TypeOK /\ Untouched /\ CommandPending /\ DriverState /\ QueueState
    /\ HandlerState /\ BitsState /\ ConsoleState /\ ReportUnderWay
    /\ OwnEstimate /\ OwnVerdict
=============================================================================

# Verification of the FTM bench

TLA+ models of the ESP32-C3 ranging bench in this repository: the console
firmware that the boards run (`src/tools/bench_firmware/main/ftm_main.c`) and
the host tools that drive two boards and judge the result (`src/tools/bench/`).
TLC checks the models on small instances; TLAPS proves the theorems for every
value of the constants.

## 1. The system

A *board* runs an interactive console (`ftm>`). The **console task** reads one
command at a time. The Wi-Fi **driver** runs on its own and posts events; the
**event task** hands them one by one to `event_handler`. Command and handler
share two event groups and the file-scope variables (`ftm_main.c:67-111`), without a lock. The
target has one core and the event task outranks the console task: the handler
interrupts a command anywhere, and a command proceeds inside the handler only
where the handler blocks.

A *host* holds two consoles open (`SerialConsole`), makes one board a responder
and ranges from the other (`TwoBoardBench`), and turns the transcript into a
verdict (`validate_board.py`).

| Component | State | Operations | Speaks with | What makes it correct |
|---|---|---|---|---|
| Ranging command (`wifi_cmd_ftm` initiator, `ftm_print_report`, `FTM_REPORT` branch) | `s_ftm_event_group`, `s_rtt_est`, `s_dist_est`, `s_ftm_report_num_entries`, the driver's report | start a session, wait, print, release; handle a report | handler through bits and globals; driver through calls and events | each printed answer is of the session the command started; the report is read inside its buffer and released; the prompt comes back |
| Station and access point (`sta`, `ap`, `ftm -R`, link branches) | mode, `s_reconnect`, `s_retry_num`, `CONNECTED_BIT`, `s_ap_started`, `g_ap_config` | join, leave, start AP, restart AP; connected, disconnected, AP started | handler, driver | retries are bounded and made as long as wanted; no configuration of an AP that is not there; the AP is the one asked for |
| Scan list (`wifi_perform_scan`, `find_ftm_responder_ap`) | `g_ap_list_buffer`, `g_scan_ap_num` | scan, look up | driver; ranging command | memory is only read where it is allocated; an old list neither hides a responder nor is used after a scan |
| `SerialConsole` | `_text`, log file, `_condition`, `_reader_error`, `_stop` | reader thread; mark, send, wait_for_any; close | board; bench | no text lost or unnoticed, honest time-outs, no silent gap in the log |
| `TwoBoardBench` | consoles, marks | open both, `run_direction` | two `SerialConsole`s | commands and answers stay in step |
| Validator (`validate_board.py`) | transcript, MACs of its two ports, fingerprint files | read MACs, flash, run, judge, compare or record | bench, `esptool` | a pass means each command measured; a baseline is its board's, is whole and stays |
| Board discovery (`board_ports.py`, `conftest.py`, `dev.ps1 flash`) | role, MAC and port tables | discover, resolve, open or flash | `esptool` | a role is bound to its board; one that is said to be missing is missing |
| `ftm_quality`, `ftm_result`, `ftm_result_report` | the caller's out parameters | pure functions | | exact at every width, no partial writes |
| Number options of `ftm -I` | fields of the session's configuration | check, narrow | ranging command | what is asked for is what was typed |

What is hard here: the event task between any two accesses of a command;
reports that are later than the wait; the end of a session racing its own
event; a list that outlives its command; retries racing `sta -d`; a reader
thread that fails or is closed under; answers matched to commands by order
only; boards that change ports between the reading of a MAC and its use; a
program that is killed while it writes a file; integers that are narrowed. `PROJECT.json` lists every such place (`hazards`) with the property that
covers it, or why none does yet.

## 2. Modules

| Module | Models | Checked by | Proofs |
|---|---|---|---|
| `FtmService` | what `ftm -I` promises: answers in order, each from its own session | as a property of `FtmSession` | |
| `FtmSession` | ranging command, report handler, driver session | `ftm_*` | `FtmSessionProofs` |
| `WifiControl` | `sta`, `sta -d`, `ap`, `scan`'s mode change, `ftm -R`, link handler | `wifi_*` | `WifiControlProofs` |
| `ScanCache` (`MCScanCache`) | scan list, lookup | `scan_list` | `ScanCacheProofs` |
| `BenchRun` | `FtmSession` driven by the host, and its verdict | `bench_run` | `BenchProofs`, `VerdictProofs` |
| `ConsoleService` | what a console promises the bench: one growing text, its log, honest waits | as a property of `SerialConsole` | |
| `SerialConsole` | reader, waiter and close of a console | `console` | `SerialConsoleProofs` |
| `FtmQuality`, `FtmResult`, `FtmArgs` | the quality verdict, the names and their rendering, the number options of `ftm -I`, as operators | through `FtmLibrary` | `FtmLibraryProofs` |
| `FtmLibrary` (`MCFtmLibrary`) | a caller of these three, in any order | `library`, `frame_count` | `FtmLibraryProofs` |
| `Boards` | boards that re-enumerate, discovery by MAC and its two users | through `Validator` | `ValidatorProofs` |
| `Validator` (`MCValidator`) | `validate_board.py` over those boards | `validator` | `ValidatorProofs` |

Conventions. A variable `pc` (`main`, `reader`, `host`, `hpc`) says which
statement a thread is about to execute; an action is the code up to the next
access to shared state. Variables marked *history* in their comment record what
happened, for the properties; no action reads them except where a timing
assumption is stated. An operator marked *mutant* is a plausible bug of the
definition after it; it is not part of the specification, and each property is
known to fail when one of them takes the definition's place.

### FtmSession
Globals hold the number of the session that wrote them instead of a number of
nanoseconds. `pc` walks `prompt`, `wait`, `print`, `alloc`, `clear`, `fetch`,
`rows`, `exit`, `rtt`, `dist` for a report, `failed` and `release` for a
failure, `end` and `release` for a time-out. The result line reads
`s_rtt_est` and `s_dist_est` in two actions (`ReadRtt`, `PrintEstimate`),
because the handler writes both in one. The handler's only blocking point is
its log line before `FTM_FAILURE_BIT`, hence `hpc = "failing"`.

External, from its use: the driver runs one session at a time, ends it with an
event that carries success with `n` entries or a failure, owns one report at a
time (from an event with entries until `esp_wifi_ftm_get_report`), may fall
silent with its peer, with or without the entries of a report that it already
owns (`PeerLost`), and answers `esp_wifi_ftm_end_session` with an event that
ends the session and brings no further entries (`Terminated`). What a silent
session left is released by `ftm_main.c:658`, and `ReportReleased` depends on it.

`WaitIsEnough` is the comment at `ftm_main.c:638` ("Wait at least double the
duration of maximum FTM bursts"): a session that reports does so before the
wait ends. Both values are checked. `ShowReport` is TRUE in every run, as in
`sdkconfig.defaults`; firmware without report logging is covered by the
theorems, which hold for both values.

### WifiControl
`Join` to `AwaitConnected` is `sta` line by line, because the driver may fail
the attempt before `s_reconnect` and `s_retry_num` are set. The handler's retry
is two actions, the test with the count (`Disconnected`) and the
`esp_wifi_connect` after its log line (`Retry`). `g_ap_config` is kept as
name and authentication mode. `esp_wifi_connect` without effect while
connecting or connected is an assumption about the driver (`Connecting`); if
it returns an error instead, `ESP_ERROR_CHECK` reboots the board
(`ConnectAborts`, a choice).
The first attempt may fail within the two lines between `esp_wifi_connect`
and `s_retry_num = 0`; the handler, which then finds `s_reconnect` off, makes
no retry. No run excludes that: the history `early` records it (`TooEarly`) and
`NotGivenUp` excuses only a station whose link was lost just then. The history
`wish` is what the last `sta` asked for, as long as `s_reconnect` has to do with
it: every `ap` turns that off, so a joined station is no longer kept, and an
`ap` refused for its password turns it on again, so that a loss or an attempt
which is then under way may bring back a station that was left.
`LeaveObeyed` says what `sta -d` achieves, which is less than its name: it
disconnects only an associated station (`ftm_main.c:327-332`), so an attempt
under way goes on, and a retry that the handler has counted at `:124` is still
made at `:126`. The history `leftover` marks these older attempts; once they are
over, nothing brings the station up.

### ScanCache
`cells` is the allocated buffer, `ptr` whether `g_ap_list_buffer` is null,
valid or dangling, `num` the count, which the code writes before it replaces
the buffer; the driver may fill less of it than was counted (`Filled`), and
lowers the count. Each access point carries a version of its record that changes
when it moves (`Change`), so a stale record can be told from a fresh one.
`Garbage` is memory that `esp_wifi_scan_get_ap_records` did not fill, which
compares in any way with a name. A scan may hear any part of what answers; the
history `failed` remembers that a lookup's scan failed or missed something,
which `NotHidden` excuses. The loops' `uint8_t` index wraps at
`IndexRange`.

### BenchRun
`FtmSession` with a line of output for each result and a command queue; the
host sends, waits for the first line whose kind is a terminator, and parses the
run. `GiveUp` needs a quiet board at its prompt: `session_timeout` is 12 s, two
scans take about 5 s and the longest default wait 3.2 s, so `ConsoleTimeout`
is not raised earlier. A failed scan or allocation ends a command with a line that
is no terminator (`silent`). Checks on the readings themselves (ratio, RSSI,
zero distances) and the responder's set-up are left out. The 0.1 s pause
is part of `Seen`; the lines themselves may arrive later than that.
`evaluate_transcript` works on a copy of the text (`Finish`) and takes one line
of it at a time (`ParseLine`, `ReadLine`), while board and reader go on: its
two lists are the sessions opened by a summary and the distances they were
given, first come, first served. `Passed` is what it says at the end (`Judged`).

### SerialConsole
Bytes and characters are counted; a character is two bytes, so a read may end
within one. The reader's `with self._condition` is `AppendText` to `Write` (or
`WriteFails`); the main thread's is `Acquire` to `Leave` or `Block`.
`__exit__` takes no lock: `Exit`, `Join`, `ClosePort`, `CloseLog` interleave
with a reader that `join(timeout=2.0)` may leave alive.
A log file is always present. A mark needs the lock too (`Mark`), so it never
counts characters that are only half appended. `Patterns` are the lengths of the text at which a
pattern is complete.

`ConsoleService` is a console without threads: text and log grow in one step, or
the text grows a last time and a failure is under way, then reported; a wait is
answered from the text as it is at that moment, a match before an error and an
error before a time-out. `ImplementsConsole` maps to it what a caller can see: `Heard` is
the text without the characters of an `_append` that still holds the lock, and
`Health` is where the reader's error has got to. `BenchRun` uses consoles as the
service describes them: its `Deliver` is `Hear`, and its `Seen` and `GiveUp` are answers of the wait.

### FtmQuality, FtmResult, FtmArgs, FtmLibrary
`Word` is the number of values of a `uint32_t`; the 64-bit product of
`ftm_quality.c:16` is taken modulo `Word * Word` and cut back to `Word`, so a
missing cast is a different result (`NarrowPercent`). A text of
`ftm_result_report` is which name it is and how many bytes it needs with its
terminator; `Digits` counts what `%ld` prints of a code that has no name.
`Byte` is the conversion of `-c` and `-p` to `uint8_t`, made before the check
of the frame count (`ftm_main.c:610`) and after that of the burst period
(`:620`). `FtmLibrary` keeps the out parameters between calls, because the
promise of the library is about them: `Report(code, cap, old)` says what is
left of `old`. `HostAccepts` is the ratio check of `evaluate_transcript`, which
must agree with the firmware's floor (`Exact`).

### Boards
A board is its MAC; `at` is the port it is on, and `Move` puts it on a free port
or unplugs it at any time. `Configure` to `Resolve` is `board_ports.resolve`:
the list of ports is taken once, each port is read in turn (`Read`), and one
that does not answer is left out. `Open` and `Check` are the end-to-end session,
whose last test compares the MAC in the boot log; `FlashRole` is
`dev.ps1 flash`, which writes to the port it was told. The history `moved` is
what re-enumerated since the program started, `missed` what did not answer.

### Validator
`main` of `validate_board.py` and `TwoBoardBench.__enter__` and `__exit__`,
statement by statement where something may fail: the MACs of both ports, both
flashings (or none), log file then port of each console, both prompts, the
responder's set-up, the sessions, the transcript, the judgement, and for each
board the comparison with, or creation of, its baseline (`Compare`, then
`Write`: the file exists before it is whole). Its ports are its arguments
(`Args`), the role of a board its position: although `board_ports.py:3-5` says
that every consumer goes through that module, this one does not. Every step
may raise, the process may be killed at every step (`Kill`), and a board that
moves no longer answers on the port that was opened (`Replug`). An exception
that nothing catches and a return value other than zero are both `failed`.
The verdict on the transcript is `BenchRun`'s and here a choice, with few or
enough samples for a baseline. An exception in `SerialConsole.__enter__` leaves
that console off the stack of `TwoBoardBench`: the log it had opened, and the port
if `dtr`, `rts` or the thread fails after `serial.Serial` (`console.py:87-95`), are
left to the interpreter. The history `entered` tells these from the consoles
that `Released` is about. The history `strayed` holds the boards that moved
after their MAC was read and before that port was opened: only these does
`BaselineIsOwn` excuse, since the code then does measure another board. The tests and the validator are not run at the
same time. Flashing has no time-out, so nothing is claimed of termination.

## 3. Runs

| Run | Question | Bounds |
|---|---|---|
| `ftm_timely` | With a long enough wait and no failing `malloc`: `OwnEstimate`, `RowsInBuffer`, `ReportReleased`, and `FtmService` implemented with its liveness | 3 sessions, 2 entries |
| `ftm_late` | A report at any time: `WrongOnlyAfterTimeout`, `NeverOlder`, `ReturnsToPrompt` | same |
| `wifi_any` | No timing assumption: `ApConfigurable`, `RetryBudget`, `NoStaleBit`, `NotGivenUp`, `LeaveObeyed`, `RetriesEnd` | 4 commands, 1 drop, 5 retries (the code's constant), no, a refused and a good password |
| `scan_list` | Scans that fail or hear only a part: `ReadsInList`, `CommandEnds`, `FreshIfScanned`, `NotHidden` | 3 access points, 2 names, 3 moves, 3 commands, index of 4 values |
| `bench_run` | A report at any time: `VerdictIsEarned`, `PassedIsOwn`, `Lockstep`, `GivesUpOnlyOnSilence` | 3 commands, 1 entry |
| `console` | Failing port and file, reader alive after `join`: `NoSilentLoss`, `CleanEnd`, `NoLostWakeup`, `MatchSeen`, and `ConsoleService` implemented with its liveness (`ImplementsConsole`) | 6 bytes, 2 waits, 1 pattern |
| `library` | Any calls in any order: `VerdictIsExact`, `WholeOrNothing` | words of 7 bits, counts, codes, capacities and options at their borders |
| `validator` | Boards that move, steps that fail, a program that is killed: `BaselineIsOwn`, `PassedHasBaseline`, `BaselineKept`, `Released`, `BoundByMac`, `NotFoundIsMissing` | 2 boards, 3 ports, 3 moves, 2 runs |

The other four runs end in a counterexample ("Disagreements found").

Why the bounds are enough. Two sessions are the least for a result to reach the
wrong command, three let that command be followed by one of its own; two
entries let a count exceed a buffer that is not empty. Two access points of one
name and one of another, with three changes, cover a record that is stale, one
that moved twice and a list of another name. One lost link with five retries
covers a budget that is used up, reset and used again; four commands allow a
`sta`, a `sta -d`, a refused `ap` between them and a `sta` after them. Six bytes
are three characters, with every way to cut them, and two waits a mark after a
match. `Word` = 128 is the least power of two that holds a percentage, and
127 * 100 does not fit in it, as no count near 2^32 does in a `uint32_t`; 79 of
99 and 4 of 5 are on both sides of 80 %; -1, 7 and 8 are around the enum, 264 is
8 after one wrap, capacities of 7, 12 and 28 hold `FTM_OK`, `unknown(-1)` and
the longest name but one or miss a byte. Two boards on three ports can
change places in three moves; two runs are a crash and what comes after it.
The theorems remove these bounds for the properties they cover.

`CHECK_DEADLOCK FALSE` is said where a bounded user stops: the firmware waits
at its prompt for input, a closed console does nothing, and nobody starts the
validator again.

### Fairness
`FtmSession` and `WifiControl`: weak fairness of the console task (it is
scheduled when the event task is idle), of the handler and of the driver's
own steps, not of the user, nor of the peer: `PeerLost` may happen to any
session. The end of the wait needs no peer, since `xEventGroupWaitBits` has a
tick count. `ScanCache`: the console task. `SerialConsole`: both threads; the
board, the deadline and the caller owe nothing: the service promises an answer
only to a wait that has a match, an error or the end of its time. `FtmLibrary` and `Validator` claim
safety only. Because the bytes are bounded,
the lock is free in the end; how CPython shares a lock that is never idle is
not modelled.

### Disagreements found
Four runs end in a counterexample, each under `findings` with the line it
contradicts.

* `ftm_late_answer`: the event bits are not cleared before a session starts. A
  report handled between the time-out (`:641`) and the end of its session
  leaves `FTM_REPORT_BIT` up; the next `ftm` returns at once and prints the
  earlier session's estimate. `s_ftm_report_num_entries` may then also grow
  while `ftm_print_report` uses a buffer allocated for the smaller count.
  HARDWARE_FINDINGS.md:194 calls the races benign.
* `ftm_alloc_leak`: a failing `malloc` leaves the driver its report, where
  TESTING.md:165 requires "No crash, no leak".
* `wifi_asked`: the access point is not the one asked for. After `ap` without
  a password, `ap` with one is open; and a refused `ap` renames the running
  access point at the next `ftm -R -e`.
* `frame_count`: `ftm -c 264` is accepted, as 8 frames, although the message of
  the check lists the valid counts and 264 is none.

`bench_run` shows what the first one means to the bench: it cannot turn
into a pass (`PassedIsOwn`), since the time-out that must precede it fails
the run.

## 4. Proofs

All theorems hold for every value of the constants that satisfies the module's
`ASSUME`, that is for any number of sessions, entries, commands, retries,
access points, bytes, waits and patterns.

**FtmSessionProofs.** `Typing` needs only the types. The others rest on
`IInv`, and on `WaitIsEnough`, which they assume; the step itself needs it only
where a wait times out. None of the properties is inductive
alone: that a printed estimate is the command's own follows from where the
report of the current session can be. `IInv` says so: a session is in one
place only (driver, queue, handler or bits: `DriverState`, `QueueState`,
`HandlerState`, `BitsState`), no bit is up at the prompt and none remains of an
earlier session (`Settled`), and while a report is printed the globals are of
the current session (`ConsoleState`, `ReportUnderWay`). From it follow
`OwnEstimate`, `OwnVerdict`, `RowsInBuffer`, and, when `malloc` cannot fail or
nothing is to be printed (`NoLeak`), `ReportReleased`. `ImplementsPromise`: the
initial states are `FtmService`'s, and each step is `Ask`, `Resolve`, `Answer`
or a stutter.

The second half of the module is what is left without `WaitIsEnough`. `NeverOlder` from
`OrderInv`: events reach the globals in the order of their sessions, none is
older than the globals (`InOrder`), and what has been printed, or read for
printing, is not newer than they are (`Printed`); that the result line reads
them in two accesses is covered, for the handler can only make the second one
newer. `WrongOnlyAfterTimeout` from `LateInv`: until a command has given up
waiting (`GaveUp`) the wait has been long enough so far, hence `IInv` holds, and with
it the properties of the first half; `IInv` itself is not invariant here.

**WifiControlProofs.** `ApConfigurable` from `ApInv` (an AP-started event in the
queue means a mode with an access point, and no command removes one).
`RetryBudget` from `RetryInv`, which adds to the attempts already made the one
the handler has decided on but not yet made, so that the reset by `sta`
between the two is covered. `LeaveObeyed` from `OffInv`: once a
station has been left, `s_reconnect` is off or there is neither a link nor an attempt
nor a loss for the handler to act on, a retry it has decided on is older than the
`sta -d`, and only a `sta <ssid>` that the user typed last is on its way to turn
`s_reconnect` on. `NoStaleBit` from
`BitInv`: while the station is not up, each event that says it connected has a
loss behind it in the queue, and the bit, if up, a loss still to be handled.
`NotGivenUp` from `GivenInv`: after a join, and with no `ap` since, `s_reconnect`
is on, and a station that is down has a loss in the queue, a retry decided, no attempt
left, or was lost before the join was done.

**ScanCacheProofs.** `ReadsInList` from `ListInv`: an allocated buffer is never
shorter than the count, and the pointer never dangles between commands.
`FreshIfScanned` from `FreshInv`: all that is on the air has been heard since the
command was typed (`heard` grows with each change), and after a scan the list
holds nothing else. `NotHidden` from `HiddenInv`: after the second scan, if it
failed in nothing, each access point of the name that was there all along is in
the part of the list that the loop has yet to reach (`Listed`), and a second
scan always follows, because the retry leaves the pointer null.

**BenchProofs.** `LockInv` says where a command can be: on its way, under way,
answered on the wire, answered in the text after the mark, or refused in silence,
and never in two of these places. A step of the board moves it on with at most
one terminator (`BoardAnswers`), the line carries it over (`Arrived`), and the host
sends the next only from the fourth (`HostAnswers`). `Lockstep` and
`GivesUpOnlyOnSilence` follow without `WaitIsEnough`: they hold however late the
driver reports. `FtmSession`'s invariants are reused, since a step of the board in
the bench is one of its steps (`BoardStep`).

**VerdictProofs.** The verdict counts lines and pairs them by their order; that
it is right although it never sees which command a line belongs to rests on two
invariants. `OutputInv` is about what the board prints. A failure or a time-out
leaves its line for good (`FailureShown`), so only runs where neither happened
(`Clean`) need more. In those the summaries are of rising sessions, so there are
never more of them than commands (`SummariesRise`; `EndedAfterTimeout` excludes the
session that `esp_wifi_ftm_end_session` ends, which could print a second one),
and as long as no command was refused either, the output is a summary and a
result for each session in turn (`Alternating`, `LinesOfCurrent`). Every step of the
board, with or without a line, keeps it (`OutputStep`); here `LateInv` supplies
that a command without a time-out before it prints its own session's distance.
`ParseInv` is about the parser between two lines: the summaries still to come are
of later sessions than those it has counted, and in a run without refusal its
lists are `1..k` after `2k` lines (`UpTo`). `FinishStep` gets it from `OutputInv`: by
then the last terminator has arrived, and with it all that counts;
`ParseStep` keeps it. At the end of the transcript it decides `Passed` in both
directions (`VerdictMeans`).

**SerialConsoleProofs.** `IInv` joins who holds the lock (`LockInv`), how many
characters the bytes read so far are at each point of the reader (`CountInv`),
that only a reader that ends sets an error (`ErrorInv`), and what the log may
lack (`LogInv`). `NoSilentLoss` and `CleanEnd` follow.
`NoLostWakeup`, the safety that `MatchSeen` rests on, is inductive beside it: a
waiter blocks only after it has looked, in the same critical section, and whoever
changes what it would see is then on the way to `notify_all`. `ImplementsService` maps the
steps (`ServiceStep`): `AppendText` is not seen, since the reader keeps the lock until
`Write`, which is `Hear`, or until the file fails, which is `Fail`; and whoever
looks at the text (`Mark`, `Check`) holds the lock, so that `Heard` is all of it
(`Visible`).

**FtmLibraryProofs.** `VerdictExact`, for every width above 100 and all counts: the
product does not wrap (`NoWrap`), the percentage is the floor (`PercentIsFloor`),
and 80 is reached by the floor exactly when it is by the ratio. `ScratchHolds`:
no text exceeds 32 bytes, the local buffer of the rendering, whatever the code,
by counting digits. `VerdictStaysExact` and `WholeOrNothing` then hold in any
order of calls.

**ValidatorProofs.** `Binding` says where a board can be: a port
found for a MAC is still its board's unless the board has moved, and a board that
is there, has not moved and is not found has still to be asked or did not
answer. It survives the moves of all other boards because no two share a port.
The steps of `Boards` come first, then those of the validator: `Closed` (outside the `with`
statement nothing is open that was entered, and inside its entry the current
console is not yet) gives `Released`; `Files` (a torn file is from before the run or is the
one being written; both MACs are known once read) gives `PassedHasBaseline`; and
`BaselineIsOwn` rests on `Own`, which says where each of the two boards is from the
reading of its MAC to the opening of its port, unless it strays, and who answers there
from then on, and on files that stay as they are, as does
`BaselineKept`.

Model-checked only: every liveness property (`ReturnsToPrompt`, `RetriesEnd`,
`CommandEnds`, `MatchSeen` and the fairness part of `Implements` and
`ImplementsConsole`), which is outside the prover's reach. Every invariant that a passing
run checks is a theorem.

## 5. Plan

Done: modules in the order `FtmService`, `FtmSession`, `WifiControl`,
`ScanCache`, `BenchRun`, `ConsoleService`, `SerialConsole`, `FtmLibrary`, `Boards`, `Validator`,
and their proofs as above. Next, in this order:

1. The responder's set-up composed with `WifiControl`: `ap`, then
   `ftm -R --offset`, whose waits match a line that is logged whether or not the
   access point comes up; with the narrowing of the offset to `int16_t`
   (`ftm_main.c:665`).
2. The checks on the readings other than the ratio (RSSI, zero distances), and
   the comparison of a fingerprint with its baseline.

## 6. Not modelled

* `query`, command registration and `app_main`: they read state or fill tables
  before the first command.
* `LineSplitter` of `console.py`: only its own tests use it, `two_board.py`
  imports it without a use. The interactive `main` of `console.py`.
* Text of the log, argument parsing beyond "refused", the numbers of a
  measurement: no property here is about them. The offset's narrowing at
  `ftm_main.c:665` is listed with the hazard of the other options.
* The radio, `esptool` beyond its answer or failure, PowerShell and Docker
  scripts: outside the programs' own state.
* The smoke application: prints a banner and echoes.
* Calibration, protocol, positioning and RTOS tasks: documents without code at
  this commit (`docs/ARCHITECTURE.md`, `PROTOCOL.md`, `RTOS.md`).

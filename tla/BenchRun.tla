------------------------------ MODULE BenchRun ------------------------------
(***************************************************************************)
(* One direction of the two-board bench and its verdict: the host          *)
(* (TwoBoardBench.run_direction, evaluate_transcript) drives the initiator *)
(* of FtmSession over a serial line.  It sends "ftm -I" commands one by    *)
(* one, takes the first line with a terminator as the answer to each, and  *)
(* judges the transcript of the whole run.                                 *)
(*                                                                         *)
(* A line of the console is its kind and the session it is about.  The     *)
(* responder's set-up and the checks on the readings themselves (ratio,    *)
(* RSSI, zero distances) are left out: a pass below is a pass of all the   *)
(* other checks.                                                           *)
(***************************************************************************)
EXTENDS FtmSession

CONSTANT Expected       \* sessions, the number of commands of the run

ASSUME BenchAssumption == Expected \in 1..MaxSessions

VARIABLES
    typed,      \* commands sent that the console has not read yet
    wire,       \* lines printed that the reader thread has not appended yet
    text,       \* SerialConsole._text since run_mark
    host,       \* where run_direction is
    sent,       \* commands sent
    mark,       \* session_mark
    transcript, \* what evaluate_transcript is given
    parsed,     \* parse_transcript: its sessions, and the distances they have
    parsedTo,   \* lines of the transcript parsed so far
    silent      \* history: a command was refused without a terminator

judgement == <<transcript, parsed, parsedTo>>
bench == <<typed, wire, text, host, sent, mark, judgement, silent>>

\* mutant: without "FTM procedure timed out!"
FewerTerminators == {"result", "failed", "refused"}
Terminators == {"result", "failed", "timedout", "refused"}

Line(kind, sid) == [kind |-> kind, sid |-> sid]
Lines == [kind : {"summary", "result", "failed", "timedout", "refused"},
          sid : 0..MaxSessions]

BenchTypeOK ==
    /\ TypeOK
    /\ typed \in 0..1 /\ sent \in 0..Expected /\ mark \in 0..Len(text)
    /\ {wire, text, transcript} \subseteq Seq(Lines)
    /\ host \in {"ready", "wait", "done", "gaveUp"}
    /\ parsed \in [sessions : Seq(0..MaxSessions), distances : Seq(0..MaxSessions)]
    /\ parsedTo \in 0..Len(transcript)
    /\ silent \in BOOLEAN

NothingParsed == [sessions |-> <<>>, distances |-> <<>>]

BenchInit ==
    /\ Init
    /\ typed = 0 /\ wire = <<>> /\ text = <<>>
    /\ host = "ready" /\ sent = 0 /\ mark = 0 /\ transcript = <<>>
    /\ parsed = NothingParsed /\ parsedTo = 0
    /\ silent = FALSE

-----------------------------------------------------------------------------
\* The board: FtmSession with what it reads and prints

Say(kind, sid) ==
    /\ wire' = Append(wire, Line(kind, sid))
    /\ UNCHANGED <<typed, text, host, sent, mark, judgement, silent>>

\* the console task reads a command: it starts a session or returns early,
\* with "Failed to start FTM session" or "No matching AP found", or (a failed
\* scan, a failed malloc) with a line the host does not wait for
ReadCommand ==
    /\ typed > 0 /\ typed' = typed - 1
    /\ \/ Initiate /\ UNCHANGED <<wire, silent>>
       \/ Refused /\ wire' = Append(wire, Line("refused", 0)) /\ UNCHANGED silent
       \/ Refused /\ silent' = TRUE /\ UNCHANGED wire
    /\ UNCHANGED <<text, host, sent, mark, judgement>>

Board ==
    \/ ReadCommand
    \/ Timeout /\ Say("timedout", asked)
    \/ PrintFailed /\ Say("failed", asked)
    \/ PrintEstimate /\ Say("result", dist)
    \/ /\ \/ WaitReturns \/ PrintReport \/ Alloc \/ Clear \/ Fetch \/ PrintRow
          \/ Exit \/ ReadRtt \/ EndSession \/ Release
          \/ Handler \/ PeerLost \/ Terminated
       /\ UNCHANGED bench
    \/ Terminated /\ Say("summary", asked)

\* the driver prints a summary of a session that ends well (and perhaps, in
\* Board, of one that is ended)
Summarise ==
    /\ SessionOver
    /\ IF truth'[asked] = "measured" THEN Say("summary", asked)
                                     ELSE UNCHANGED bench

-----------------------------------------------------------------------------
\* The host

\* the reader thread appends the next line
Deliver ==
    /\ wire # <<>>
    /\ text' = Append(text, Head(wire)) /\ wire' = Tail(wire)
    /\ UNCHANGED <<vars, typed, host, sent, mark, judgement, silent>>

\* mutant: every wait looks at the whole run
SendWithoutMark ==
    /\ host = "ready" /\ sent < Expected
    /\ sent' = sent + 1 /\ typed' = typed + 1
    /\ host' = "wait"
    /\ UNCHANGED <<vars, wire, text, mark, judgement, silent>>

\* mutant: a command that ends in two line ends is two commands
SendTwice ==
    /\ host = "ready" /\ sent < Expected
    /\ sent' = sent + 1 /\ typed' = typed + 2
    /\ mark' = Len(text) /\ host' = "wait"
    /\ UNCHANGED <<vars, wire, text, judgement, silent>>

Send ==
    /\ host = "ready" /\ sent < Expected
    /\ sent' = sent + 1 /\ typed' = typed + 1
    /\ mark' = Len(text) /\ host' = "wait"
    /\ UNCHANGED <<vars, wire, text, judgement, silent>>

Answered == \E i \in (mark + 1)..Len(text) : text[i].kind \in Terminators

\* wait_for_any returns; then 0.1 s for the rest of the line to arrive
Seen ==
    /\ host = "wait" /\ Answered /\ host' = "ready"
    /\ UNCHANGED <<vars, typed, wire, text, sent, mark, judgement, silent>>

\* session_timeout is longer than two scans and the longest wait of the
\* board: ConsoleTimeout is raised only when the board is at its prompt again
GiveUp ==
    /\ host = "wait" /\ ~Answered
    /\ pc = "prompt" /\ typed = 0 /\ wire = <<>>
    /\ host' = "gaveUp"
    /\ UNCHANGED <<vars, typed, wire, text, sent, mark, judgement, silent>>

\* text_since(run_mark), to be judged: the lists of parse_transcript are empty
Finish ==
    /\ host = "ready" /\ sent = Expected
    /\ host' = "done" /\ transcript' = text
    /\ parsed' = NothingParsed /\ parsedTo' = 0
    /\ UNCHANGED <<vars, typed, wire, text, sent, mark, silent>>

-----------------------------------------------------------------------------
\* parse_transcript and evaluate_transcript

Kinds(t) == {t[i].kind : i \in DOMAIN t}

\* mutant: the first session without a distance is never moved past
ReadLineInPlace(l) ==
    CASE l.kind = "summary" ->
           [parsed EXCEPT !.sessions = Append(@, l.sid)]
      [] l.kind = "result" /\ Len(parsed.sessions) > 0 ->
           [parsed EXCEPT !.distances = <<l.sid>>]
      [] OTHER -> parsed

\* a summary opens a session; a distance is the first session's that has none
\* yet, and is dropped when there is none
ReadLine(l) ==
    CASE l.kind = "summary" ->
           [parsed EXCEPT !.sessions = Append(@, l.sid)]
      [] l.kind = "result" /\ Len(parsed.distances) < Len(parsed.sessions) ->
           [parsed EXCEPT !.distances = Append(@, l.sid)]
      [] OTHER -> parsed

\* one turn of the loop over the lines of the transcript
ParseLine ==
    /\ host = "done" /\ parsedTo < Len(transcript)
    /\ parsedTo' = parsedTo + 1
    /\ parsed' = ReadLine(transcript[parsedTo + 1])
    /\ UNCHANGED <<vars, typed, wire, text, host, sent, mark, transcript, silent>>

Judged == host = "done" /\ parsedTo = Len(transcript)

Passed ==
    /\ Len(parsed.sessions) = Expected
    /\ Len(parsed.distances) = Len(parsed.sessions)
    /\ Kinds(transcript) \cap {"failed", "timedout"} = {}

-----------------------------------------------------------------------------
BenchNext ==
    \/ Board \/ Summarise
    \/ Deliver \/ Send \/ Seen \/ GiveUp \/ Finish \/ ParseLine

BenchSpec == BenchInit /\ [][BenchNext]_<<vars, bench>>

-----------------------------------------------------------------------------
\* Properties

(* However late the driver reports, a run that passes gives every session    *)
(* the distance of that very session: a wrong distance printed by the board  *)
(* always comes with a line, or the lack of one, that fails the run.         *)
PassedIsOwn ==
    Judged /\ Passed => parsed.distances = parsed.sessions

(* Commands and answers stay in step: when the host sends the next command   *)
(* or takes the transcript, the board has read every command before it and   *)
(* answered every session it started.                                        *)
Lockstep ==
    host \in {"ready", "done"} =>
        /\ typed = 0
        /\ \A k \in 1..asked : answer[k].verdict # "none"

(* The verdict is the right one: the run passes exactly if the board printed *)
(* a measurement for each of its commands, though the verdict only counts    *)
(* lines and knows nothing of which command each belongs to.                 *)
VerdictIsEarned ==
    Judged =>
        (Passed <=> \A k \in 1..Expected : answer[k].verdict = "measured")

(* The host gives up on a board only if a command ended in one of the lines  *)
(* that are not in SESSION_TERMINATORS: each end of a session is.            *)
GivesUpOnlyOnSilence == host = "gaveUp" => silent

-----------------------------------------------------------------------------
\* Inductive invariant for Lockstep and GivesUpOnlyOnSilence

\* the command, if there is one, has ended as far as the host can see
Resting == pc \in {"end", "release", "prompt"}

OnWire == \E i \in DOMAIN wire : wire[i].kind \in Terminators

\* a command is on its way, under way, answered on the wire, answered in the
\* text, or was refused in silence: one of these, and the last three only once
LockInv ==
    /\ typed # 0 \/ ~Resting => host = "wait" /\ ~Answered /\ ~OnWire
    /\ typed # 0 => Resting
    /\ host \in {"ready", "done"} \/ Answered => ~OnWire
    /\ \A i, j \in DOMAIN wire :
           wire[i].kind \in Terminators /\ wire[j].kind \in Terminators => i = j
    /\ host = "wait" /\ typed = 0 /\ Resting => Answered \/ OnWire \/ silent
    /\ \A k \in 1..asked : k # asked \/ Resting => answer[k].verdict # "none"

-----------------------------------------------------------------------------
\* Inductive invariant for VerdictIsEarned and PassedIsOwn

Output == text \o wire

\* no command has failed or given up so far
Clean == \A k \in 1..asked : answer[k].verdict \notin {"failed", "timedout"}

\* a session that was ended was given up before
EndedAfterTimeout ==
    pc = "end" \/ drv = "ending" =>
        \E k \in 1..asked : answer[k].verdict = "timedout"

\* a command that fails or gives up leaves its line
FailureShown(kinds) ==
    \A k \in 1..asked :
        answer[k].verdict \in {"failed", "timedout"} => answer[k].verdict \in kinds

\* the summaries among the lines of s from i on are each of a later session
SummariesRise(s, i) ==
    /\ \A j \in i..Len(s) : s[j].kind = "summary" => s[j].sid \in 1..asked
    /\ \A j, k \in i..Len(s) :
           j < k /\ s[j].kind = "summary" /\ s[k].kind = "summary"
               => s[j].sid < s[k].sid

\* lines of the current session that have been printed
LinesOfCurrent ==
    IF answer[asked].verdict = "measured" THEN 2
    ELSE IF truth[asked] = "measured" THEN 1 ELSE 0

\* a summary and then a result for each session, in their order
Alternating(s) ==
    \A k \in 1..asked :
        /\ 2 * k - 1 <= Len(s) => s[2 * k - 1] = Line("summary", k)
        /\ 2 * k <= Len(s) => s[2 * k] = Line("result", k)

\* what the board prints while nothing fails: the summaries rise, and as long
\* as no command is refused every session has its two lines
OutputInv ==
    /\ asked + typed <= sent
    /\ EndedAfterTimeout
    /\ FailureShown(Kinds(text) \cup Kinds(wire))
    /\ Clean =>
           /\ SummariesRise(Output, 1)
           /\ asked # 0 /\ truth[asked] = "pending" =>
                  \A j \in 1..Len(Output) : Output[j].kind = "summary" =>
                      Output[j].sid # asked
    /\ Clean /\ asked + typed = sent =>
           /\ Alternating(Output)
           /\ Len(Output) = IF asked = 0 THEN 0
                            ELSE 2 * (asked - 1) + LinesOfCurrent

UpTo(k) == [i \in 1..k |-> i]

\* what is left to parse, and what has been parsed
ParseInv ==
    host = "done" =>
        /\ sent = Expected
        /\ FailureShown(Kinds(transcript))
        /\ Clean =>
               /\ SummariesRise(transcript, parsedTo + 1)
               /\ Len(parsed.sessions) <= asked
               /\ \A j \in (parsedTo + 1)..Len(transcript) :
                      transcript[j].kind = "summary" =>
                          Len(parsed.sessions) < transcript[j].sid
        /\ Clean /\ asked = Expected =>
               /\ Len(transcript) = 2 * Expected
               /\ Alternating(transcript)
               /\ \E k \in 0..Expected :
                      /\ parsed.distances = UpTo(k)
                      /\ \/ parsedTo = 2 * k /\ parsed.sessions = UpTo(k)
                         \/ parsedTo = 2 * k + 1 /\ parsed.sessions = UpTo(k + 1)
=============================================================================

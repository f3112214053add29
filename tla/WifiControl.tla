---------------------------- MODULE WifiControl ----------------------------
(***************************************************************************)
(* The rest of the console firmware's Wi-Fi state: the commands "sta",     *)
(* "sta -d", "ap", "scan" and "ftm -R" of the console task, and the link   *)
(* and access-point branches of event_handler.                             *)
(*                                                                         *)
(* As in FtmSession the handler interrupts the command between any two     *)
(* accesses to what they share (s_reconnect, s_retry_num, CONNECTED_BIT,   *)
(* s_ap_started, the driver), and lets it run only where it blocks: at its *)
(* log line and in esp_wifi_connect.                                       *)
(***************************************************************************)
EXTENDS Naturals, Sequences

CONSTANTS
    MaxRetry,       \* MAX_CONNECT_RETRY_ATTEMPTS
    MaxCommands,    \* bound: commands typed at the console
    MaxDrops,       \* bound: times the access point is lost
    Passwords       \* kinds of password given to "ap"

ASSUME WifiAssumption ==
    /\ MaxRetry \in Nat \ {0}
    /\ MaxCommands \in Nat /\ MaxDrops \in Nat
    /\ Passwords \subseteq {"none", "short", "good"}

VARIABLES
    pc,         \* where the console task is
    leaving,    \* the command is "sta -d", not a join
    mode,       \* esp_wifi_get_mode
    reconnect,  \* s_reconnect
    retry,      \* s_retry_num
    connBit,    \* CONNECTED_BIT
    apStarted,  \* s_ap_started
    apConfig,   \* g_ap_config
    apRuns,     \* driver: the configuration the access point runs with
    asked,      \* history: the access point the last accepted "ap" asked for
    hpc,        \* where the event task is
    queue,      \* events posted to the default event loop, oldest first
    sta,        \* driver: state of the station
    commands,   \* bound: commands typed so far
    drops,      \* bound: access-point losses so far
    tries,      \* history: connects by the handler since s_retry_num = 0
    wish,       \* history: what the user wants of the station: it was joined, and
                \* no "ap" typed since ("on"); it was left, and no "ap" refused
                \* since with something under way ("off")
    early,      \* history: since the last esp_wifi_connect of "sta" the link was
                \* lost before s_retry_num was set, two lines on
    leftover    \* history: the attempt that the station makes, or that the handler
                \* has decided to make, is older than the last "sta -d"

link    == <<reconnect, retry, connBit>>
ap      == <<apConfig, apRuns, asked>>
env     == <<commands, drops>>
history == <<tries, wish, early, leftover>>
vars == <<pc, leaving, mode, reconnect, retry, connBit, apStarted, apConfig,
          apRuns, asked, hpc, queue, sta, commands, drops, tries, wish, early,
          leftover>>

Modes == {"NULL", "STA", "AP", "APSTA"}
\* mutant: the access point is forgotten when the station is added
WithStaOnly(m) == "STA"

WithSta(m) == IF m \in {"AP", "APSTA"} THEN "APSTA" ELSE "STA"
WithAp(m)  == IF m \in {"STA", "APSTA"} THEN "APSTA" ELSE "AP"
HasAp == mode \in {"AP", "APSTA"}
Events == {"CONNECTED", "DISCONNECTED", "AP_START", "AP_STOP"}
ApConfigs == [ssid : 0..MaxCommands, auth : {"wpa2", "open"},
              responder : BOOLEAN]

TypeOK ==
    /\ pc \in {"prompt", "joinMode", "dropAuto", "clear", "disconnect",
               "connect", "arm", "reset", "wait", "leave",
               "apCheck", "apMode", "apSet"}
    /\ {leaving, reconnect, connBit, apStarted, early, leftover} \subseteq BOOLEAN
    /\ mode \in Modes /\ wish \in {"none", "on", "off"}
    /\ retry \in Nat /\ tries \in Nat
    /\ {apConfig, apRuns, asked} \subseteq ApConfigs
    /\ hpc \in {"idle", "retry", "lost"}
    /\ queue \in Seq(Events)
    /\ sta \in {"down", "connecting", "up"}
    /\ commands \in 0..MaxCommands /\ drops \in 0..MaxDrops

\* after initialise_wifi; ssid is the number of the command that named it
InitialConfig == [ssid |-> 0, auth |-> "wpa2", responder |-> TRUE]

Init ==
    /\ pc = "prompt" /\ leaving = FALSE /\ hpc = "idle"
    /\ mode = "NULL" /\ sta = "down" /\ queue = <<>>
    /\ reconnect = TRUE /\ retry = 0 /\ connBit = FALSE
    /\ apStarted = FALSE
    /\ apConfig = InitialConfig /\ apRuns = InitialConfig /\ asked = InitialConfig
    /\ commands = 0 /\ drops = 0 /\ tries = 0 /\ wish = "none"
    /\ early = FALSE /\ leftover = FALSE

Type ==     \* a command is typed at the prompt
    /\ pc = "prompt" /\ commands < MaxCommands
    /\ commands' = commands + 1
    /\ UNCHANGED drops

-----------------------------------------------------------------------------
\* wifi_cmd_sta

Join ==
    /\ Type /\ pc' = "joinMode" /\ leaving' = FALSE
    /\ wish' = "on" /\ leftover' = FALSE
    /\ UNCHANGED <<mode, link, apStarted, ap, hpc, queue, sta, tries, early>>

\* wifi_add_mode(WIFI_MODE_STA): an associated station is dropped first
JoinMode ==
    /\ pc = "joinMode"
    /\ mode' = WithSta(mode)
    /\ pc' = IF mode \in {"STA", "APSTA"} /\ sta = "up" THEN "dropAuto"
                                                       ELSE "connect"
    /\ UNCHANGED <<leaving, link, apStarted, ap, hpc, queue, sta, env, history>>

DropAuto ==
    /\ pc = "dropAuto" /\ pc' = "clear"
    /\ reconnect' = FALSE
    /\ UNCHANGED <<leaving, mode, retry, connBit, apStarted, ap, hpc, queue, sta,
                   env, history>>

\* "sta -d"
Leave ==
    /\ Type /\ leaving' = TRUE
    /\ wish' = "off" /\ leftover' = (sta = "connecting" \/ hpc = "retry")
    /\ reconnect' = FALSE
    /\ pc' = "leave"
    /\ UNCHANGED <<mode, retry, connBit, apStarted, ap, hpc, queue, sta, tries, early>>

\* without an association only s_reconnect has been cleared
LeaveInfo ==
    /\ pc = "leave"
    /\ pc' = IF sta = "up" THEN "clear" ELSE "prompt"
    /\ UNCHANGED <<leaving, mode, link, apStarted, ap, hpc, queue, sta, env,
                   history>>

ClearConnected ==
    /\ pc = "clear" /\ pc' = "disconnect"
    /\ connBit' = FALSE
    /\ UNCHANGED <<leaving, mode, reconnect, retry, apStarted, ap, hpc, queue,
                   sta, env, history>>

\* the attempt that the station made has ended; one that the handler decided
\* on is still to come
AttemptOver == leftover' = (leftover /\ hpc = "retry")

\* esp_wifi_disconnect, which the driver answers with an event
Disconnect ==
    /\ pc = "disconnect"
    /\ pc' = IF leaving THEN "prompt" ELSE "connect"
    /\ sta' = "down" /\ AttemptOver
    /\ queue' = IF sta = "down" THEN queue ELSE Append(queue, "DISCONNECTED")
    /\ UNCHANGED <<leaving, mode, link, apStarted, ap, hpc, env, tries, wish, early>>

\* esp_wifi_connect while associated or connecting changes nothing
Connecting == IF sta = "down" THEN "connecting" ELSE sta

\* mutant: the network is stored, and esp_wifi_connect left to the handler
ConnectForgotten ==
    /\ pc = "connect" /\ pc' = "arm"
    /\ UNCHANGED <<leaving, mode, link, apStarted, ap, hpc, queue, sta, env,
                   history>>

Connect ==
    /\ pc = "connect" /\ pc' = "arm"
    /\ sta' = Connecting /\ early' = FALSE
    /\ UNCHANGED <<leaving, mode, link, apStarted, ap, hpc, queue, env, tries,
                   wish, leftover>>

\* the driver may refuse the configuration or the connect while an attempt is
\* under way; ESP_ERROR_CHECK aborts, and the firmware boots anew
ConnectAborts ==
    /\ pc = "connect" /\ sta = "connecting"
    /\ pc' = "prompt" /\ leaving' = FALSE /\ hpc' = "idle"
    /\ mode' = "NULL" /\ sta' = "down" /\ queue' = <<>>
    /\ reconnect' = TRUE /\ retry' = 0 /\ connBit' = FALSE /\ apStarted' = FALSE
    /\ apConfig' = InitialConfig /\ apRuns' = InitialConfig /\ asked' = InitialConfig
    /\ tries' = 0 /\ wish' = "none" /\ early' = FALSE /\ leftover' = FALSE
    /\ UNCHANGED env

\* only now does the handler connect again by itself
Arm ==
    /\ pc = "arm" /\ pc' = "reset"
    /\ reconnect' = TRUE
    /\ UNCHANGED <<leaving, mode, retry, connBit, apStarted, ap, hpc, queue, sta,
                   env, history>>

\* mutant: made up for the increment before the comparison
ResetRetryBelow ==
    /\ pc = "reset" /\ pc' = "wait"
    /\ retry' = 0 - 1 /\ tries' = 0
    /\ UNCHANGED <<leaving, mode, reconnect, connBit, apStarted, ap, hpc, queue,
                   sta, env, wish, early, leftover>>

ResetRetry ==
    /\ pc = "reset" /\ pc' = "wait"
    /\ retry' = 0 /\ tries' = 0
    /\ UNCHANGED <<leaving, mode, reconnect, connBit, apStarted, ap, hpc, queue,
                   sta, env, wish, early, leftover>>

\* xEventGroupWaitBits for 5 s, clearing the bit; either way "sta" returns 0
AwaitConnected ==
    /\ pc = "wait" /\ pc' = "prompt"
    /\ connBit' = FALSE
    /\ UNCHANGED <<leaving, mode, reconnect, retry, apStarted, ap, hpc, queue,
                   sta, env, history>>

-----------------------------------------------------------------------------
\* wifi_cmd_ap, wifi_cmd_scan, wifi_cmd_ftm -R

Ap ==
    /\ Type /\ pc' = "apCheck"
    /\ reconnect' = FALSE
    /\ wish' = IF wish = "on" THEN "none" ELSE wish
    /\ UNCHANGED <<leaving, mode, retry, connBit, apStarted, ap, hpc, queue, sta,
                   tries, early, leftover>>

\* the loss of a link is still to be handled
LossPosted == \E j \in DOMAIN queue : queue[j] = "DISCONNECTED"

\* a link, an attempt, or what the handler may answer with one
UnderWay == sta # "down" \/ hpc = "retry" \/ LossPosted

\* the name is stored before anything is checked; a password that is too
\* short turns s_reconnect on again, a bad channel or bandwidth does not
ApCheck ==
    /\ pc = "apCheck"
    /\ apConfig' = [apConfig EXCEPT !.ssid = commands]
    /\ \/ /\ "short" \in Passwords
          /\ reconnect' = TRUE /\ pc' = "prompt"
          /\ wish' = IF UnderWay THEN "none" ELSE wish
       \/ /\ Passwords \ {"short"} # {}
          /\ pc' \in {"prompt", "apMode"}
          /\ UNCHANGED <<reconnect, wish>>
    /\ UNCHANGED <<leaving, mode, retry, connBit, apStarted, apRuns, asked, hpc,
                   queue, sta, env, tries, early, leftover>>

\* wifi_add_mode(WIFI_MODE_AP)
ApMode ==
    /\ pc = "apMode" /\ pc' = "apSet"
    /\ mode' = WithAp(mode)
    /\ queue' = IF HasAp THEN queue ELSE Append(queue, "AP_START")
    /\ UNCHANGED <<leaving, link, apStarted, ap, hpc, sta, env, history>>

\* esp_wifi_set_config restarts an access point that runs, sooner or later
Restarted == queue' \in {queue, queue \o <<"AP_STOP", "AP_START">>}

\* without a password the access point is made open; with one the
\* authentication mode is left as it is
ApSet ==
    /\ pc = "apSet" /\ pc' = "prompt"
    /\ \E p \in Passwords \ {"short"} :
       /\ apConfig' = [apConfig EXCEPT !.auth = IF p = "none" THEN "open" ELSE @]
       /\ asked' = [apConfig EXCEPT !.auth = IF p = "none" THEN "open" ELSE "wpa2"]
    /\ apRuns' = apConfig'
    /\ Restarted
    /\ UNCHANGED <<leaving, mode, link, apStarted, hpc, sta, env, history>>

\* a scan needs the station
Scan ==
    /\ Type /\ mode' = WithSta(mode)
    /\ UNCHANGED <<pc, leaving, link, apStarted, ap, hpc, queue, sta, history>>

\* "ftm -R -e" and "ftm -R -d": refused until the access point has started
Responder ==
    /\ Type /\ apStarted
    /\ \E on \in BOOLEAN : apConfig' = [apConfig EXCEPT !.responder = on]
    /\ apRuns' = apConfig'
    /\ asked' = [asked EXCEPT !.responder = apConfig'.responder]
    /\ Restarted
    /\ UNCHANGED <<pc, leaving, mode, link, apStarted, hpc, sta, history>>

Console ==
    \/ LeaveInfo \/ JoinMode \/ DropAuto \/ ClearConnected \/ Disconnect
    \/ Connect \/ ConnectAborts \/ Arm \/ ResetRetry \/ AwaitConnected
    \/ ApCheck \/ ApMode \/ ApSet

User == Join \/ Leave \/ Ap \/ Scan \/ Responder

-----------------------------------------------------------------------------
\* event_handler

Deliver(e) == hpc = "idle" /\ queue # <<>> /\ Head(queue) = e /\ queue' = Tail(queue)

Connected ==
    /\ Deliver("CONNECTED")
    /\ connBit' = TRUE
    /\ UNCHANGED <<pc, leaving, mode, reconnect, retry, apStarted, ap, hpc, sta,
                   env, history>>

\* mutant: the attempts are not counted
DisconnectedUncounted ==
    /\ Deliver("DISCONNECTED")
    /\ hpc' = IF reconnect /\ retry < MaxRetry THEN "retry" ELSE "lost"
    /\ UNCHANGED <<pc, leaving, mode, link, apStarted, ap, sta, env, history>>

\* mutant: s_reconnect is not looked at
DisconnectedAlways ==
    /\ Deliver("DISCONNECTED")
    /\ retry' = retry + 1
    /\ hpc' = IF retry' < MaxRetry THEN "retry" ELSE "lost"
    /\ UNCHANGED <<pc, leaving, mode, reconnect, connBit, apStarted, ap, sta, env,
                   history>>

\* mutant: <= for <, and the counter compared before it is incremented
DisconnectedOnceMore ==
    /\ Deliver("DISCONNECTED")
    /\ retry' = IF reconnect THEN retry + 1 ELSE retry
    /\ hpc' = IF reconnect /\ retry <= MaxRetry THEN "retry" ELSE "lost"
    /\ UNCHANGED <<pc, leaving, mode, reconnect, connBit, apStarted, ap, sta, env,
                   history>>

\* if (s_reconnect && ++s_retry_num < MAX_CONNECT_RETRY_ATTEMPTS)
Disconnected ==
    /\ Deliver("DISCONNECTED")
    /\ retry' = IF reconnect THEN retry + 1 ELSE retry
    /\ hpc' = IF reconnect /\ retry' < MaxRetry THEN "retry" ELSE "lost"
    /\ UNCHANGED <<pc, leaving, mode, reconnect, connBit, apStarted, ap, sta, env,
                   history>>

\* after the log line; tries is not counted beyond what RetryBudget forbids
Retry ==
    /\ hpc = "retry" /\ hpc' = "lost"
    /\ sta' = Connecting
    /\ tries' = IF tries > MaxRetry THEN tries ELSE tries + 1
    /\ UNCHANGED <<pc, leaving, mode, link, apStarted, ap, queue, env, wish, early,
                   leftover>>

\* mutant: the bit is left to the next join
LostKeepingBit ==
    /\ hpc = "lost" /\ hpc' = "idle"
    /\ UNCHANGED <<pc, leaving, mode, link, apStarted, ap, queue, sta, env,
                   history>>

Lost ==
    /\ hpc = "lost" /\ hpc' = "idle"
    /\ connBit' = FALSE
    /\ UNCHANGED <<pc, leaving, mode, reconnect, retry, apStarted, ap, queue, sta,
                   env, history>>

ApStarted ==
    /\ \/ Deliver("AP_START") /\ apStarted' = TRUE
       \/ Deliver("AP_STOP") /\ apStarted' = FALSE
    /\ UNCHANGED <<pc, leaving, mode, link, ap, hpc, sta, env, history>>

Handler == Connected \/ Disconnected \/ Retry \/ Lost \/ ApStarted

-----------------------------------------------------------------------------
\* The Wi-Fi driver's station

Associate ==
    /\ sta = "connecting" /\ sta' = "up"
    /\ queue' = Append(queue, "CONNECTED")
    /\ UNCHANGED <<pc, leaving, mode, link, apStarted, ap, hpc, env, history>>

\* before "sta" is done with arming the handler
TooEarly == early' = (early \/ pc \in {"arm", "reset"})

\* an attempt fails
Unreachable ==
    /\ sta = "connecting" /\ sta' = "down"
    /\ TooEarly /\ AttemptOver
    /\ queue' = Append(queue, "DISCONNECTED")
    /\ UNCHANGED <<pc, leaving, mode, link, apStarted, ap, hpc, env, tries, wish>>

\* the access point of an associated station is lost
Dropped ==
    /\ sta = "up" /\ sta' = "down"
    /\ TooEarly /\ AttemptOver
    /\ drops < MaxDrops /\ drops' = drops + 1
    /\ queue' = Append(queue, "DISCONNECTED")
    /\ UNCHANGED <<pc, leaving, mode, link, apStarted, ap, hpc, commands, tries,
                   wish>>

Driver == Associate \/ Unreachable

-----------------------------------------------------------------------------
Next == User \/ Console \/ Handler \/ Driver \/ Dropped

SafeSpec == Init /\ [][Next]_vars

(* Commands and events are processed, and an attempt to connect ends.  The   *)
(* user and the access point owe nothing.                                    *)
Spec == SafeSpec /\ WF_vars(Console) /\ WF_vars(Handler) /\ WF_vars(Driver)

-----------------------------------------------------------------------------
\* Properties

(* s_ap_started is set by an event, long after the mode was changed, and     *)
(* "ftm -R" configures the access point on its word inside ESP_ERROR_CHECK,  *)
(* which aborts when the mode has none: whenever the flag is up, and at      *)
(* every set_config of "ap", the mode includes the access point.             *)
ApConfigurable == apStarted \/ pc = "apSet" => HasAp

(* The handler's own attempts are bounded whatever the commands interrupt:   *)
(* since the last join reset s_retry_num there are at most the four it       *)
(* counts and one that was decided before the reset.                         *)
RetryBudget == tries <= MaxRetry

(* "sta -d" is obeyed: after it, and until the next "sta <ssid>", the station *)
(* is down, but for an attempt that was under way when the command was typed *)
(* (sta -d disconnects only an associated station, ftm_main.c:327-332) or    *)
(* that the handler had decided on by then (it still connects, 124-126).     *)
(* When that attempt has ended nothing starts another, not the events that   *)
(* are late nor an "ap" - unless the "ap" is refused for its password, which *)
(* turns s_reconnect on (415), while the attempt or a loss is under way.     *)
LeaveObeyed == wish = "off" /\ pc = "prompt" => sta = "down" \/ leftover

Quiet == hpc = "idle" /\ queue = <<>>

(* The firmware does not give up early: once nothing is on its way any more, *)
(* a station that was joined, with no "ap" typed since (each turns           *)
(* s_reconnect off, and none but a refused one on again, ftm_main.c:411),    *)
(* and that is down has used up its attempts, unless its link was lost       *)
(* within two lines of the join's connect, before s_reconnect was on and     *)
(* s_retry_num set.                                                          *)
NotGivenUp ==
    Quiet /\ pc = "prompt" /\ wish = "on" /\ sta = "down"
        => early \/ retry >= MaxRetry

(* CONNECTED_BIT is set and cleared by three parties; when all events are    *)
(* handled it is never left up over a station that is down.                  *)
NoStaleBit == Quiet /\ sta = "down" => ~connBit

(* An attempt to connect is not repeated for ever, even if the access point  *)
(* never answers.                                                            *)
RetriesEnd == <>[](sta # "connecting")

(* The access point runs as the last accepted "ap" asked: with its           *)
(* authentication, and with its name also after a later "ap" was refused.    *)
ApAsAsked == pc = "prompt" => apRuns = asked

-----------------------------------------------------------------------------
\* Inductive invariants for ApConfigurable, RetryBudget, LeaveObeyed, NoStaleBit
\* and NotGivenUp

\* no AP_START is posted, and no flag raised, without an access point
ApInv ==
    /\ apStarted \/ pc = "apSet" => HasAp
    /\ \A i \in DOMAIN queue : queue[i] = "AP_START" => HasAp

\* what the handler has tried and is about to try, against what it counted;
\* the attempt beyond is the one decided before the last reset
RetryInv ==
    tries + (IF hpc = "retry" THEN 1 ELSE 0)
        <= 1 + (IF retry < MaxRetry THEN retry ELSE MaxRetry - 1)

\* once the station was left s_reconnect is off, or there is nothing for the
\* handler to act on; a join on its way to turn it on is what the user wants
OffInv ==
    /\ wish = "off" =>
           /\ reconnect => ~UnderWay
           /\ hpc = "retry" => leftover
           /\ sta = "connecting" /\ pc = "leave" => leftover
           /\ sta # "down" /\ pc \notin {"leave", "clear", "disconnect"} => leftover
    /\ pc = "leave" => leaving /\ wish = "off"
    /\ pc \in {"joinMode", "dropAuto"} => ~leaving
    /\ pc \in {"clear", "disconnect"} /\ leaving => wish = "off"
    /\ \/ pc \in {"joinMode", "dropAuto", "connect", "arm", "reset", "wait"}
       \/ pc \in {"clear", "disconnect"} /\ ~leaving
       => wish = "on"
    /\ pc \in {"apCheck", "apMode", "apSet"} => wish # "on"

\* when a link is lost, that event is behind all that says it was up
BitInv ==
    sta # "up" =>
        /\ connBit => hpc # "idle" \/ LossPosted
        /\ \A i \in DOMAIN queue : queue[i] = "CONNECTED" =>
               \E j \in DOMAIN queue : i < j /\ queue[j] = "DISCONNECTED"

\* a station that is down and wanted has a loss to be handled, a retry under
\* way, no attempt left, or was lost before the join was done
GivenInv ==
    /\ pc \in {"arm", "reset"} /\ sta = "down" => early
    /\ pc \in {"reset", "wait", "prompt"} /\ wish = "on" => reconnect
    /\ pc \in {"wait", "prompt"} /\ wish = "on" /\ sta = "down"
       => early \/ retry >= MaxRetry \/ hpc = "retry" \/ LossPosted
=============================================================================

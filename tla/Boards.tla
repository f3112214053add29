------------------------------- MODULE Boards -------------------------------
(***************************************************************************)
(* The boards at the host's serial ports, which re-enumerate when they     *)
(* like, and the discovery that binds the roles of the end-to-end tests to *)
(* ports: board_ports.resolve (esp_ports, read_mac, discover), called once *)
(* by pytest_configure, the ports opened by pytest-embedded and the boot   *)
(* logs checked by test_roles_are_bound_to_the_expected_boards; and the    *)
(* same for one role, which dev.ps1 flashes.                               *)
(*                                                                         *)
(* A board is its MAC, a port a number in the order of its name.           *)
(***************************************************************************)
EXTENDS Naturals

CONSTANTS
    Ports,      \* serial ports a board may come up on
    Boards,     \* the MACs of the boards
    NoBoard,    \* is none of them
    Roles,      \* ROLES
    MacOf,      \* boards.json
    MaxMoves    \* bound: re-enumerations

ASSUME BoardsAssumption ==
    /\ Ports \subseteq Nat \ {0} /\ NoBoard \notin Boards
    /\ MacOf \in [Roles -> Boards] /\ MaxMoves \in Nat

VARIABLES
    at,         \* the port each board is on
    moves,      \* bound: re-enumerations so far
    moved,      \* history: boards re-enumerated since the program started
    pc,         \* where the test session, or the flashing of a role, is
    wanted,     \* the roles asked for
    todo,       \* ports that discover has still to read
    found,      \* MAC -> port
    missed,     \* history: boards that did not answer
    port        \* role -> port, as resolved

world == <<at, moves, moved>>
session == <<pc, wanted, todo, found, missed, port>>

Nowhere == 0
Places == Ports \cup {Nowhere}

On(p) == {b \in Boards : at[b] = p}
Attached == {at[b] : b \in Boards} \ {Nowhere}

BoardsTypeOK ==
    /\ at \in [Boards -> Places] /\ moves \in 0..MaxMoves
    /\ moved \subseteq Boards /\ missed \subseteq Boards
    /\ pc \in {"idle", "discover", "resolved", "open", "passed", "failed",
               "notFound"}
    /\ wanted \subseteq Roles /\ todo \subseteq Ports
    /\ found \in [Boards -> Places] /\ port \in [Roles -> Places]

\* two boards are never on one port
Apart(places) ==
    \A b, c \in Boards : places[b] = places[c] /\ b # c => places[b] = Nowhere

BoardsInit ==
    /\ at \in {places \in [Boards -> Places] : Apart(places)}
    /\ moves = 0 /\ moved = {} /\ pc = "idle"
    /\ wanted = {} /\ todo = {} /\ missed = {}
    /\ found = [b \in Boards |-> Nowhere] /\ port = [r \in Roles |-> Nowhere]

-----------------------------------------------------------------------------
\* a board is unplugged, or comes up on a free port; a test session that has
\* it open fails at the next read
Move(b) ==
    /\ moves < MaxMoves
    /\ \E p \in Places :
           /\ p # at[b] /\ (p = Nowhere \/ On(p) = {})
           /\ at' = [at EXCEPT ![b] = p]
    /\ moves' = moves + 1 /\ moved' = moved \cup {b}
    /\ pc' = IF pc = "open" /\ \E r \in wanted : port[r] = at[b]
             THEN "failed" ELSE pc
    /\ UNCHANGED <<wanted, todo, found, missed, port>>

\* resolve, called by pytest_configure for all roles or by board_ports --role
\* for one: the list of ports is taken once
Configure ==
    /\ pc = "idle" /\ pc' = "discover"
    /\ wanted' \in {Roles} \cup {{r} : r \in Roles}
    /\ todo' = Attached /\ moved' = {}
    /\ UNCHANGED <<at, moves, found, missed, port>>

\* mutant: a timeout leaves the MAC of the port before
ReadStale(p) ==
    /\ pc = "discover" /\ p \in todo /\ \A q \in todo : p <= q
    /\ todo' = todo \ {p}
    /\ \/ \E b \in On(p) : found' = [found EXCEPT ![b] = p] /\ UNCHANGED missed
       \/ \E b \in {c \in Boards : found[c] # Nowhere} :
              found' = [found EXCEPT ![b] = p] /\ missed' = missed \cup On(p)
    /\ UNCHANGED <<world, pc, wanted, port>>

\* mutant: a timeout ends the discovery
ReadUntilError(p) ==
    /\ pc = "discover" /\ p \in todo /\ \A q \in todo : p <= q
    /\ \/ \E b \in On(p) : found' = [found EXCEPT ![b] = p]
          /\ todo' = todo \ {p} /\ UNCHANGED missed
       \/ missed' = missed \cup On(p) /\ todo' = {} /\ UNCHANGED found
    /\ UNCHANGED <<world, pc, wanted, port>>

\* read_mac of the next port: the board on it answers, or nothing does (no
\* MAC in the output, or TimeoutExpired) and the port is left out
Read(p) ==
    /\ pc = "discover" /\ p \in todo /\ \A q \in todo : p <= q
    /\ todo' = todo \ {p}
    /\ \/ \E b \in On(p) : found' = [found EXCEPT ![b] = p] /\ UNCHANGED missed
       \/ missed' = missed \cup On(p) /\ UNCHANGED found
    /\ UNCHANGED <<world, pc, wanted, port>>

\* every role has a port, or BoardNotFound becomes a UsageError
Resolve ==
    /\ pc = "discover" /\ todo = {}
    /\ IF \A r \in wanted : found[MacOf[r]] # Nowhere
       THEN pc' = "resolved" /\ port' = [r \in Roles |-> found[MacOf[r]]]
       ELSE pc' = "notFound" /\ UNCHANGED port
    /\ UNCHANGED <<world, wanted, todo, found, missed>>

\* pytest-embedded opens the ports it was given, for the whole session
Open ==
    /\ pc = "resolved" /\ wanted = Roles
    /\ pc' = IF \A r \in Roles : On(port[r]) # {} THEN "open" ELSE "failed"
    /\ UNCHANGED <<world, wanted, todo, found, missed, port>>

\* the tests: other tests pass or not, the last one wants each role's MAC in
\* the boot log of the board that is open
Check ==
    /\ pc = "open"
    /\ \/ pc' = "failed"
       \/ (\A r \in Roles : MacOf[r] \in On(port[r])) /\ pc' = "passed"
    /\ UNCHANGED <<world, wanted, todo, found, missed, port>>

\* "dev.ps1 flash" writes the image to the port it was told, whoever is there
FlashRole ==
    /\ pc = "resolved" /\ wanted # Roles
    /\ \/ pc' = "failed"
       \/ (\A r \in wanted : On(port[r]) # {}) /\ pc' = "passed"
    /\ UNCHANGED <<world, wanted, todo, found, missed, port>>

Leave ==
    /\ pc \in {"passed", "failed", "notFound"} /\ pc' = "idle"
    /\ wanted' = {} /\ todo' = {} /\ missed' = {}
    /\ found' = [b \in Boards |-> Nowhere] /\ port' = [r \in Roles |-> Nowhere]
    /\ UNCHANGED world

Session ==
    \/ Configure \/ (\E p \in Ports : Read(p)) \/ Resolve
    \/ Open \/ Check \/ FlashRole \/ Leave

-----------------------------------------------------------------------------
\* Properties

(* A role is bound to the board with its MAC, whatever did not answer and    *)
(* whatever else moved, unless that very board has re-enumerated since the   *)
(* discovery began: so the tests, and the flashing of a role, reach that     *)
(* board (board_ports.py:115 resolves once, from reads one after the other). *)
BoundByMac ==
    pc \in {"resolved", "open", "passed"} =>
        \A r \in wanted : MacOf[r] \notin moved => at[MacOf[r]] = port[r]

(* "Board not attached" names the roles for which it is so, and no other:    *)
(* their board is not there, did not answer when it was asked, or moved      *)
(* meanwhile; no other board's fault or move hides one (board_ports.py:91).  *)
NotFoundIsMissing ==
    pc = "notFound" =>
        \A r \in wanted : found[MacOf[r]] = Nowhere =>
                              MacOf[r] \in moved \cup missed \cup On(Nowhere)
=============================================================================

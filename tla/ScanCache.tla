----------------------------- MODULE ScanCache -----------------------------
(***************************************************************************)
(* The scan list of the console firmware: wifi_perform_scan behind the     *)
(* "scan" command, and find_ftm_responder_ap, by which "ftm -I -s <ssid>"  *)
(* finds its responder.  The list buffer and its count outlive the         *)
(* command, so a lookup may be answered from an earlier scan, of another   *)
(* name, while access points come and go.  Only the console task uses it.  *)
(***************************************************************************)
EXTENDS Naturals, Sequences, FiniteSets

CONSTANTS
    Networks,        \* access points
    Ssids,
    SsidOf,          \* the name each one has
    IndexRange,      \* values of the loops' uint8_t index: 256
    MaxMoves,        \* bound: changes on the air
    MaxCommands      \* bound: commands typed

ASSUME ScanAssumption ==
    /\ IsFiniteSet(Networks)
    /\ SsidOf \in [Networks -> Ssids]
    /\ IndexRange \in Nat \ {0}
    /\ MaxMoves \in Nat /\ MaxCommands \in Nat

VARIABLES
    pc,       \* where the console task is
    want,     \* ssid, the name looked for ("scan" may have none)
    internal, \* the scan is part of a lookup
    retried,  \* retry_scan
    i,        \* index of the loops
    ptr,      \* g_ap_list_buffer: NULL, pointing to memory, or dangling
    cells,    \* what that memory holds; its length is what was allocated
    num,      \* g_scan_ap_num
    target,   \* the record a lookup returned
    air,      \* channel and BSSID of each access point, as a version; 0: off
    gen,      \* the latest version
    commands, \* bound: commands typed so far
    result,   \* history: what came of the lookup
    scanned,  \* history: it scanned
    failed,   \* history: its scan failed or missed an access point
    heard,    \* history: the records on the air since it was asked for
    steady    \* history: access points on the air all that time

cache   == <<ptr, cells, num>>
world   == <<air, gen>>
history == <<result, scanned, failed, heard, steady>>
vars == <<pc, want, internal, retried, i, ptr, cells, num, target, air, gen,
          commands, result, scanned, failed, heard, steady>>

Found == Cardinality(Networks)   \* the most a scan can list
Records == [net : Networks, ver : 0..MaxMoves]
Garbage  == [net |-> "uninitialized", ver |-> 0]
NoRecord == [net |-> "NULL", ver |-> 0]
NoSsid   == "none"

TypeOK ==
    /\ pc \in {"prompt", "lookup", "scan", "print", "match", "use"}
    /\ want \in Ssids \cup {NoSsid}
    /\ {internal, retried, scanned, failed} \subseteq BOOLEAN
    /\ i \in 0..(IndexRange - 1) /\ num \in 0..Found
    /\ ptr \in {"NULL", "valid", "dangling"}
    /\ cells \in Seq(Records \cup {Garbage})
    /\ target \in Records \cup {NoRecord, Garbage}
    /\ air \in [Networks -> 0..MaxMoves] /\ gen \in 0..MaxMoves
    /\ commands \in 0..MaxCommands
    /\ result \in {"pending", "found", "missed"}
    /\ heard \subseteq Records /\ steady \subseteq Networks

Init ==
    /\ pc = "prompt" /\ want = NoSsid /\ internal = FALSE /\ retried = FALSE
    /\ i = 0 /\ ptr = "NULL" /\ cells = <<>> /\ num = 0
    /\ target = NoRecord
    /\ air = [n \in Networks |-> 0] /\ gen = 0 /\ commands = 0
    /\ result = "pending" /\ scanned = FALSE /\ failed = FALSE
    /\ heard = {} /\ steady = {}

OnAir == {n \in Networks : air[n] # 0}
Now   == {[net |-> n, ver |-> air[n]] : n \in OnAir}

\* an access point appears, disappears, or moves to another channel
Change(n) ==
    /\ gen < MaxMoves /\ gen' = gen + 1
    /\ air' = [air EXCEPT ![n] = gen'] \/ air' = [air EXCEPT ![n] = 0]
    /\ heard' = heard \cup Now'
    /\ steady' = steady \ {n}
    /\ UNCHANGED <<pc, want, internal, retried, i, cache, target, commands, result,
                   scanned, failed>>

-----------------------------------------------------------------------------
\* The commands

Command(s) ==
    /\ pc = "prompt" /\ commands < MaxCommands
    /\ commands' = commands + 1
    /\ want' = s /\ target' = NoRecord
    /\ result' = "pending" /\ scanned' = FALSE /\ failed' = FALSE
    /\ heard' = Now /\ steady' = OnAir
    /\ UNCHANGED <<i, cache, world>>

ScanCommand ==
    /\ \E s \in Ssids \cup {NoSsid} : Command(s)
    /\ pc' = "scan" /\ internal' = FALSE
    /\ UNCHANGED retried

Find ==
    /\ \E s \in Ssids : Command(s)
    /\ pc' = "lookup" /\ internal' = TRUE /\ retried' = FALSE

\* label retry: without a list, or with an empty one, scan for the name
Lookup ==
    /\ pc = "lookup" /\ i' = 0
    /\ pc' = IF ptr = "NULL" \/ num = 0 THEN "scan" ELSE "match"
    /\ UNCHANGED <<want, internal, retried, cache, target, world, commands, history>>

\* the lookup, if there is one, returns NULL
ReturnFalse ==
    /\ pc' = "prompt"
    /\ result' = IF internal THEN "missed" ELSE result
    /\ UNCHANGED <<want, internal, retried, i, target, world, commands, heard, steady>>

\* the mode cannot be changed or esp_wifi_scan_start fails
ScanFails ==
    /\ pc = "scan" /\ ReturnFalse
    /\ failed' = TRUE
    /\ UNCHANGED <<cache, scanned>>

\* what answers to a scan for want; a scan may hear only some of it
Answering == {r \in Now : want \in {NoSsid, SsidOf[r.net]}}

\* what the driver lists, in whatever order
Listings ==
    {f \in UNION {[1..n -> Answering] : n \in 1..Found} :
        \A j, k \in DOMAIN f : f[j] = f[k] => j = k}

Misses(f) == {f[k] : k \in DOMAIN f} # Answering

\* nothing is heard: the count is zero, an old list stays where it is
ScanEmpty ==
    /\ pc = "scan" /\ ReturnFalse
    /\ num' = 0 /\ scanned' = TRUE
    /\ failed' = (failed \/ Misses(<<>>))
    /\ UNCHANGED <<ptr, cells>>

\* the old list is freed, and malloc of the new one fails
ScanNoMemory ==
    /\ pc = "scan" /\ ReturnFalse
    /\ \E f \in Listings : num' = Len(f)
    /\ ptr' = "NULL" /\ cells' = <<>>
    /\ failed' = TRUE /\ scanned' = TRUE

\* the caller goes on to walk the list
ReturnTrue ==
    /\ pc' = IF internal THEN "match" ELSE "print"
    /\ i' = 0 /\ scanned' = TRUE
    /\ UNCHANGED <<want, internal, retried, target, world, commands, result, heard,
                   steady>>

\* mutant: the buffer is only allocated when there is none
ScanDoneKeepingList ==
    /\ pc = "scan" /\ ReturnTrue
    /\ \E f \in Listings :
       /\ cells' = IF ptr = "valid" THEN cells ELSE f
       /\ num' = Len(cells')
       /\ failed' = (failed \/ Misses(f))
    /\ ptr' = "valid"

\* mutant: the count is added up over the scans
ScanDoneAddingUp ==
    /\ pc = "scan" /\ ReturnTrue
    /\ \E f \in Listings :
       cells' = f /\ num' = num + Len(f) /\ failed' = (failed \/ Misses(f))
    /\ ptr' = "valid"

\* new lists, of which the driver has filled the first records
Filled(f) ==
    {[j \in 1..size |-> IF j <= Len(f) THEN f[j] ELSE Garbage] : size \in Len(f)..Found}

\* the list is replaced by what was heard; the driver may hand over fewer
\* records than it counted, and lowers the count
ScanDone ==
    /\ pc = "scan" /\ ReturnTrue
    /\ \E f \in Listings :
       cells' \in Filled(f) /\ num' = Len(f) /\ failed' = (failed \/ Misses(f))
    /\ ptr' = "valid"

\* esp_wifi_scan_get_ap_records fails: the new list holds whatever malloc
\* found, nothing is printed, and the function still returns true
ScanUnread ==
    /\ pc = "scan"
    /\ pc' = IF internal THEN "match" ELSE "prompt"
    /\ i' = 0 /\ scanned' = TRUE /\ failed' = TRUE
    /\ \E f \in Listings :
           num' = Len(f) /\ cells' = [k \in 1..Len(f) |-> Garbage]
    /\ ptr' = "valid"
    /\ UNCHANGED <<want, internal, retried, target, world, commands, result, heard,
                   steady>>

-----------------------------------------------------------------------------
\* The two loops over the list

Step == i' = (i + 1) % IndexRange

PrintRow ==
    /\ pc = "print" /\ i < num /\ Step
    /\ UNCHANGED <<pc, want, internal, retried, cache, target, world, commands,
                   history>>

Printed ==
    /\ pc = "print" /\ i >= num /\ pc' = "prompt"
    /\ UNCHANGED <<want, internal, retried, i, cache, target, world, commands,
                   history>>

\* uninitialized memory may compare equal to any name
MayMatch(c) == c # Garbage => SsidOf[c.net] = want
MayDiffer(c) == c # Garbage => SsidOf[c.net] # want

Match ==
    /\ pc = "match" /\ i < num
    /\ MayMatch(cells[i + 1])
    /\ target' = cells[i + 1] /\ pc' = "use"
    /\ UNCHANGED <<want, internal, retried, i, cache, world, commands, history>>

NextRow ==
    /\ pc = "match" /\ i < num
    /\ MayDiffer(cells[i + 1])
    /\ Step
    /\ UNCHANGED <<pc, want, internal, retried, cache, target, world, commands,
                   history>>

\* mutant: the pointer keeps its value
RetryDangling ==
    /\ pc = "match" /\ i >= num /\ ~retried
    /\ retried' = TRUE
    /\ ptr' = "dangling" /\ cells' = <<>>
    /\ pc' = "lookup"
    /\ UNCHANGED <<want, internal, i, num, target, world, commands, history>>

\* mutant: retry_scan is never set
RetryForEver ==
    /\ pc = "match" /\ i >= num /\ ~retried
    /\ ptr' = "NULL" /\ cells' = <<>>
    /\ pc' = "lookup"
    /\ UNCHANGED <<want, internal, retried, i, num, target, world, commands, history>>

\* mutant: the list is kept for the next command
RetryKeepingList ==
    /\ pc = "match" /\ i >= num /\ ~retried
    /\ retried' = TRUE /\ pc' = "lookup"
    /\ UNCHANGED <<want, internal, i, cache, target, world, commands, history>>

\* not in the list: forget it and try again, once
RetryScan ==
    /\ pc = "match" /\ i >= num /\ ~retried
    /\ retried' = TRUE
    /\ ptr' = "NULL" /\ cells' = <<>>
    /\ pc' = "lookup"
    /\ UNCHANGED <<want, internal, i, num, target, world, commands, history>>

NotFound ==
    /\ pc = "match" /\ i >= num /\ retried
    /\ ReturnFalse
    /\ UNCHANGED <<cache, scanned, failed>>

\* wifi_cmd_ftm copies the address and the channel through the pointer
Use ==
    /\ pc = "use" /\ pc' = "prompt"
    /\ result' = "found"
    /\ UNCHANGED <<want, internal, retried, i, cache, target, world, commands,
                   scanned, failed, heard, steady>>

Console ==
    \/ Lookup \/ ScanFails \/ ScanEmpty \/ ScanNoMemory \/ ScanDone \/ ScanUnread
    \/ PrintRow \/ Printed \/ Match \/ NextRow \/ RetryScan \/ NotFound \/ Use

Next == ScanCommand \/ Find \/ Console \/ \E n \in Networks : Change(n)

SafeSpec == Init /\ [][Next]_vars

(* A scan and a loop go on until they are done; nobody has to type or move.  *)
Spec == SafeSpec /\ WF_vars(Console)

-----------------------------------------------------------------------------
\* Properties

(* Both loops and the caller of find_ftm_responder_ap only touch memory that *)
(* is allocated: the count, which is written before the buffer is replaced   *)
(* and survives a failed scan, never goes with another buffer.               *)
ReadsInList ==
    /\ pc \in {"match", "print"} /\ i < num => ptr = "valid" /\ i < Len(cells)
    /\ pc = "use" => ptr = "valid"

(* A lookup that scanned ranges with an access point of the right name that  *)
(* has been on the air, as recorded, since it was asked for: an old record   *)
(* is only ever used by a lookup that found it without a scan, or one that   *)
(* takes memory the driver did not fill for a record.                        *)
FreshIfScanned ==
    pc = "use" /\ target # Garbage =>
        /\ SsidOf[target.net] = want
        /\ scanned => target \in heard

(* An earlier scan for another name, or one that found nothing, never hides  *)
(* a responder: if one of that name is on the air all along and each scan of *)
(* the lookup heard what was there and kept it, it is found.                 *)
NotHidden ==
    result = "missed" => failed \/ \A n \in steady : SsidOf[n] # want

(* Every command comes to an end, as long as no scan finds as many access    *)
(* points as the loops' index has values.                                    *)
FewNetworks == Found < IndexRange
CommandEnds == FewNetworks => (pc # "prompt" ~> pc = "prompt")

-----------------------------------------------------------------------------
\* Inductive invariant for ReadsInList

ListInv ==
    /\ ptr = "valid" => num <= Len(cells)
    /\ ptr # "dangling"
    /\ pc \in {"match", "print", "use"} => ptr = "valid"
=============================================================================

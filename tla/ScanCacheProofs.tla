-------------------------- MODULE ScanCacheProofs --------------------------
(***************************************************************************)
(* For any set of access points, however they come and go, whether or not  *)
(* the driver hands over its records: the types, that the list is only     *)
(* read where it is allocated, that a lookup uses no older record after a  *)
(* scan of its own, and that an earlier list hides no access point.        *)
(***************************************************************************)
EXTENDS ScanCache, FiniteSetTheorems, TLAPS

USE ScanAssumption

(* A scan lists finitely many access points.                                 *)
LEMMA FoundType == Found \in Nat
  BY FS_CardinalityType DEF Found

(* What is on the air is recorded with versions that were given out.         *)
LEMMA NowType == TypeOK => Now \subseteq Records
  BY DEF TypeOK, Now, OnAir, Records

(* A listing is a sequence of records of at most Found entries.              *)
LEMMA ListingType ==
  ASSUME TypeOK, NEW f \in Listings
  PROVE  /\ f \in Seq(Records) /\ Len(f) \in 1..Found /\ DOMAIN f = 1..Len(f)
<1>1. PICK n \in 1..Found : f \in [1..n -> Answering]
  BY DEF Listings
<1>2. n \in Nat /\ f \in [1..n -> Records]
  BY <1>1, FoundType, NowType DEF Answering
<1> QED
  BY <1>1, <1>2

(* A new list holds what was listed, and nothing else.                       *)
LEMMA FilledHolds ==
  ASSUME TypeOK, NEW f \in Listings, NEW new \in Filled(f)
  PROVE  /\ new \in Seq(Records \cup {Garbage}) /\ Len(f) <= Len(new)
         /\ \A j \in 1..Len(f) : new[j] = f[j]
         /\ \A j \in DOMAIN new : new[j] = Garbage \/ \E l \in DOMAIN f : new[j] = f[l]
<1>1. /\ f \in Seq(Records) /\ Len(f) \in 1..Found /\ DOMAIN f = 1..Len(f)
      /\ \A j \in 1..Len(f) : f[j] \in Records
  BY ListingType
<1>2. PICK size \in Len(f)..Found :
          new = [j \in 1..size |-> IF j <= Len(f) THEN f[j] ELSE Garbage]
  BY DEF Filled
<1>3. size \in Nat /\ Len(f) <= size
  BY <1>1, FoundType
<1>4. new \in [1..size -> Records \cup {Garbage}]
  BY <1>1, <1>2, <1>3
<1> QED
  BY <1>1, <1>2, <1>3, <1>4

(* The versions on the air stay in range when an access point changes.       *)
LEMMA ChangeType ==
  ASSUME TypeOK, NEW n \in Networks, Change(n)
  PROVE  air' \in [Networks -> 0..MaxMoves] /\ gen' \in 0..MaxMoves
         /\ Now' \subseteq Records
<1>1. gen' \in 0..MaxMoves /\ air' \in [Networks -> 0..MaxMoves]
  BY DEF TypeOK, Change
<1> QED
  BY <1>1 DEF Now, OnAir, Records

(* Every step keeps the variables in their types.                            *)
LEMMA TypeStep == TypeOK /\ ListInv /\ [Next]_vars => TypeOK'
<1> SUFFICES ASSUME TypeOK, ListInv, [Next]_vars PROVE TypeOK'
  OBVIOUS
<1> USE FoundType DEF TypeOK, cache, world, history
<1>0. /\ Now \subseteq Records /\ OnAir \subseteq Networks
      /\ NoRecord \in Records \cup {NoRecord, Garbage}
  BY NowType DEF OnAir
<1>1. CASE ScanCommand
  <2>1. PICK s \in Ssids \cup {NoSsid} : Command(s)
    BY <1>1 DEF ScanCommand
  <2>2. /\ want' \in Ssids \cup {NoSsid} /\ commands' \in 0..MaxCommands
        /\ target' \in Records \cup {NoRecord, Garbage}
        /\ heard' \subseteq Records /\ steady' \subseteq Networks
    BY <1>0, <2>1 DEF Command
  <2>3. /\ UNCHANGED <<i, ptr, cells, num, air, gen>>
        /\ pc' \in {"lookup", "scan"} /\ {internal', retried'} \subseteq BOOLEAN
        /\ result' = "pending" /\ scanned' = FALSE /\ failed' = FALSE
    BY <1>1, <2>1 DEF ScanCommand, Command
  <2> QED
    BY <2>2, <2>3
<1>2. CASE Find
  <2>1. PICK s \in Ssids : Command(s)
    BY <1>2 DEF Find
  <2>2. /\ want' \in Ssids \cup {NoSsid} /\ commands' \in 0..MaxCommands
        /\ target' \in Records \cup {NoRecord, Garbage}
        /\ heard' \subseteq Records /\ steady' \subseteq Networks
    BY <1>0, <2>1 DEF Command
  <2>3. /\ UNCHANGED <<i, ptr, cells, num, air, gen>>
        /\ pc' \in {"lookup", "scan"} /\ {internal', retried'} \subseteq BOOLEAN
        /\ result' = "pending" /\ scanned' = FALSE /\ failed' = FALSE
    BY <1>2, <2>1 DEF Find, Command
  <2> QED
    BY <2>2, <2>3
<1>3. CASE Lookup
  BY <1>3 DEF Lookup
<1>4. CASE ScanFails
  BY <1>4 DEF ScanFails, ReturnFalse
<1>5. CASE ScanEmpty
  BY <1>5 DEF ScanEmpty, ReturnFalse
<1>6. CASE ScanNoMemory
  BY <1>6, ListingType DEF ScanNoMemory, ReturnFalse
<1>7. CASE ScanDone
  <2>1. PICK f \in Listings :
            cells' \in Filled(f) /\ num' = Len(f)
    BY <1>7 DEF ScanDone
  <2>2. cells' \in Seq(Records \cup {Garbage}) /\ num' \in 0..Found
    BY <2>1, ListingType, FilledHolds
  <2> QED
    BY <1>7, <2>2 DEF ScanDone, ReturnTrue
<1>8. CASE ScanUnread
  <2>1. PICK f \in Listings :
           num' = Len(f) /\ cells' = [k \in 1..Len(f) |-> Garbage]
    BY <1>8 DEF ScanUnread
  <2>2. Len(f) \in Nat /\ num' \in 0..Found
    BY <2>1, ListingType
  <2>3. cells' \in Seq(Records \cup {Garbage})
    BY <2>1, <2>2
  <2> QED
    BY <1>8, <2>2, <2>3 DEF ScanUnread
<1>9. CASE PrintRow
  BY <1>9 DEF PrintRow, Step
<1>10. CASE Printed
  BY <1>10 DEF Printed
<1>11. CASE Match
  <2>1. i + 1 \in 1..Len(cells)
    BY <1>11 DEF Match, ListInv
  <2>2. cells[i + 1] \in Records \cup {Garbage}
    BY <2>1
  <2> QED
    BY <1>11, <2>2 DEF Match
<1>12. CASE NextRow
  BY <1>12 DEF NextRow, Step
<1>13. CASE RetryScan
  BY <1>13 DEF RetryScan
<1>14. CASE NotFound
  BY <1>14 DEF NotFound, ReturnFalse
<1>15. CASE Use
  BY <1>15 DEF Use
<1>16. ASSUME NEW n \in Networks, Change(n) PROVE TypeOK'
  <2>1. /\ air' \in [Networks -> 0..MaxMoves] /\ gen' \in 0..MaxMoves
        /\ Now' \subseteq Records
    BY <1>16, ChangeType
  <2>2. heard' \subseteq Records /\ steady' \subseteq Networks
    BY <1>16, <2>1 DEF Change
  <2> QED
    BY <1>16, <2>1, <2>2 DEF Change
<1>17. CASE UNCHANGED vars
  BY <1>17 DEF vars
<1> QED
  BY <1>1, <1>2, <1>3, <1>4, <1>5, <1>6, <1>7, <1>8, <1>9, <1>10, <1>11, <1>12,
     <1>13, <1>14, <1>15, <1>16, <1>17 DEF Next, Console

(* The pointer, the count and what was allocated stay together: every step   *)
(* that frees or replaces the list also sends the lookup back to look again. *)
LEMMA ListStep == TypeOK /\ ListInv /\ [Next]_vars => ListInv'
<1> SUFFICES ASSUME TypeOK, ListInv, [Next]_vars PROVE ListInv'
  OBVIOUS
<1> USE FoundType DEF ListInv, cache, world, history
<1>1. CASE ScanCommand \/ Find
  BY <1>1 DEF ScanCommand, Find, Command, TypeOK
<1>2. CASE Lookup
  BY <1>2 DEF Lookup, TypeOK
<1>3. CASE ScanFails \/ ScanEmpty \/ NotFound
  <2>1. Len(cells) \in Nat
    BY DEF TypeOK
  <2> QED
    BY <1>3, <2>1 DEF ScanFails, ScanEmpty, NotFound, ReturnFalse
<1>4. CASE ScanNoMemory
  BY <1>4 DEF ScanNoMemory, ReturnFalse
<1>5. CASE ScanDone
  <2>1. PICK f \in Listings :
            cells' \in Filled(f) /\ num' = Len(f)
    BY <1>5 DEF ScanDone
  <2>2. num' <= Len(cells')
    BY <2>1, FilledHolds
  <2> QED
    BY <1>5, <2>2 DEF ScanDone
<1>6. CASE ScanUnread
  <2>1. PICK f \in Listings :
           num' = Len(f) /\ cells' = [k \in 1..Len(f) |-> Garbage]
    BY <1>6 DEF ScanUnread
  <2>2. Len(f) \in Nat
    BY ListingType
  <2>3. Len(cells') = Len(f)
    BY <2>1, <2>2
  <2> QED
    BY <1>6, <2>1, <2>2, <2>3 DEF ScanUnread
<1>7. CASE PrintRow \/ Printed \/ Match \/ NextRow \/ Use
  BY <1>7 DEF PrintRow, Printed, Match, NextRow, Use
<1>8. CASE RetryScan
  BY <1>8 DEF RetryScan
<1>9. ASSUME NEW n \in Networks, Change(n) PROVE ListInv'
  BY <1>9 DEF Change
<1>10. CASE UNCHANGED vars
  BY <1>10 DEF vars
<1> QED
  BY <1>1, <1>2, <1>3, <1>4, <1>5, <1>6, <1>7, <1>8, <1>9, <1>10
     DEF Next, Console

(* Both hold in every reachable state.                                       *)
LEMMA Invariance == SafeSpec => [](TypeOK /\ ListInv)
<1>1. Init => TypeOK
  <2> SUFFICES ASSUME Init PROVE TypeOK
    OBVIOUS
  <2>1. cells \in Seq(Records \cup {Garbage})
    BY DEF Init
  <2>2. 0 \in 0..(IndexRange - 1) /\ 0 \in 0..Found
    BY FoundType
  <2>3. air \in [Networks -> 0..MaxMoves] /\ gen \in 0..MaxMoves
        /\ commands \in 0..MaxCommands
    BY DEF Init
  <2> QED
    BY <2>1, <2>2, <2>3 DEF Init, TypeOK
<1>2. Init => ListInv
  BY DEF Init, ListInv
<1> QED
  BY <1>1, <1>2, TypeStep, ListStep, PTL DEF SafeSpec

(* For any number of access points, commands and failures the values keep    *)
(* their types; in particular the count is that of a scan.                   *)
THEOREM Typing == SafeSpec => []TypeOK
  BY Invariance, PTL

(* For any number of access points, commands and failures: the loops and the *)
(* caller of find_ftm_responder_ap read the list only where it is allocated. *)
THEOREM ReadsInListHolds == SafeSpec => []ReadsInList
<1>1. TypeOK /\ ListInv => ReadsInList
  <2> SUFFICES ASSUME TypeOK, ListInv PROVE ReadsInList
    OBVIOUS
  <2>1. i \in Nat /\ num \in Nat /\ Len(cells) \in Nat
    BY FoundType DEF TypeOK
  <2> QED
    BY <2>1 DEF ListInv, ReadsInList
<1> QED
  BY Invariance, <1>1, PTL

-----------------------------------------------------------------------------

\* the records a lookup has from its own scan were all on the air meanwhile
FreshInv ==
    /\ Now \subseteq heard
    /\ pc \in {"lookup", "match"} /\ scanned /\ ptr = "valid" =>
           \A j \in DOMAIN cells : cells[j] \in heard \cup {Garbage}
    /\ FreshIfScanned

\* the access points of that name, there all along, are in what is left of the
\* list of the last scan
Listed ==
    \A n \in steady : SsidOf[n] = want =>
        \E j \in 1..num : i < j /\ cells[j] # Garbage /\ cells[j].net = n

HiddenInv ==
    /\ steady \subseteq OnAir
    /\ pc \in {"lookup", "match", "use"} => internal
    /\ pc # "prompt" => result = "pending"
    /\ pc = "lookup" /\ retried => ptr = "NULL"
    /\ pc = "match" /\ retried /\ ~failed => Listed
    /\ NotHidden

(* What a listing holds: records of now, and all that answer unless some are *)
(* missed.                                                                   *)
LEMMA ListingHolds ==
  ASSUME TypeOK, steady \subseteq OnAir, NEW f \in Listings
  PROVE  /\ \A k \in DOMAIN f : f[k] \in Now
         /\ ~Misses(f) => \A n \in steady : SsidOf[n] = want =>
                \E k \in DOMAIN f : f[k] # Garbage /\ f[k].net = n
<1>1. PICK m \in 1..Found : f \in [1..m -> Answering]
  BY DEF Listings
<1>2. ASSUME ~Misses(f), NEW n \in steady, SsidOf[n] = want
      PROVE  \E k \in DOMAIN f : f[k] # Garbage /\ f[k].net = n
  <2> DEFINE r == [net |-> n, ver |-> air[n]]
  <2>1. r \in Now /\ r.net = n /\ r.ver # 0
    BY DEF Now, OnAir
  <2>2. r \in Answering
    BY <1>2, <2>1 DEF Answering
  <2>3. PICK k \in DOMAIN f : f[k] = r
    BY <1>2, <2>2 DEF Misses
  <2>4. Garbage.ver = 0
    BY DEF Garbage
  <2> QED
    BY <2>1, <2>3, <2>4
<1> QED
  BY <1>1, <1>2 DEF Answering

(* What changes on the air is heard, and is no longer steady.                *)
LEMMA ChangeHeard ==
  ASSUME TypeOK, NEW n \in Networks, Change(n)
  PROVE  /\ Now' \subseteq heard' /\ heard \subseteq heard'
         /\ steady' \subseteq steady
         /\ steady \subseteq OnAir => steady' \subseteq OnAir'
  BY DEF Change, TypeOK, OnAir

(* A lookup that has scanned only has records it heard.                      *)
LEMMA FreshStep == TypeOK /\ ListInv /\ FreshInv /\ [Next]_vars => FreshInv'
<1> SUFFICES ASSUME TypeOK, ListInv, FreshInv, [Next]_vars PROVE FreshInv'
  OBVIOUS
<1> USE DEF FreshInv, cache, world, history, FreshIfScanned
<1>1. CASE ScanCommand \/ Find
  <2>1. PICK s \in Ssids \cup {NoSsid} : Command(s)
    BY <1>1 DEF ScanCommand, Find
  <2>2. /\ scanned' = FALSE /\ pc' \in {"scan", "lookup"} /\ heard' = Now
        /\ Now' = Now
    BY <1>1, <2>1 DEF ScanCommand, Find, Command, Now, OnAir
  <2> QED
    BY <2>2
<1>2. CASE Match
  <2>1. i + 1 \in DOMAIN cells
    BY <1>2, FoundType DEF Match, ListInv, TypeOK
  <2>2. target' = cells[i + 1] /\ ptr = "valid"
        /\ (target' # Garbage => SsidOf[target'.net] = want)
        /\ UNCHANGED <<scanned, heard, want, air>> /\ pc' = "use" /\ pc = "match"
    BY <1>2 DEF Match, ListInv, MayMatch
  <2>3. Now' = Now
    BY <2>2 DEF Now, OnAir
  <2> QED
    BY <2>1, <2>2, <2>3
<1>3. CASE ScanDone
  <2>1. PICK f \in Listings : cells' \in Filled(f)
    BY <1>3 DEF ScanDone
  <2>2. \A k \in DOMAIN f : f[k] \in Now
    <3>1. PICK m \in 1..Found : f \in [1..m -> Answering]
      BY DEF Listings
    <3> QED
      BY <3>1 DEF Answering
  <2>3. UNCHANGED <<heard, air>> /\ pc' \in {"match", "print"}
    BY <1>3 DEF ScanDone, ReturnTrue
  <2>4. Now' = Now
    BY <2>3 DEF Now, OnAir
  <2>5. \A j \in DOMAIN cells' : cells'[j] \in Now \cup {Garbage}
    BY <2>1, <2>2, FilledHolds
  <2> QED
    BY <2>3, <2>4, <2>5
<1>4. CASE ScanUnread
  <2>1. PICK f \in Listings : cells' = [k \in 1..Len(f) |-> Garbage]
    BY <1>4 DEF ScanUnread
  <2>2. UNCHANGED <<heard, air>> /\ pc' \in {"match", "prompt"}
    BY <1>4 DEF ScanUnread
  <2>3. Now' = Now
    BY <2>2 DEF Now, OnAir
  <2> QED
    BY <2>1, <2>2, <2>3
<1>5. ASSUME NEW n \in Networks, Change(n) PROVE FreshInv'
  <2>1. Now' \subseteq heard' /\ heard \subseteq heard'
    BY <1>5, ChangeHeard
  <2>2. UNCHANGED <<pc, want, ptr, cells, target, scanned>>
    BY <1>5 DEF Change
  <2> QED
    BY <2>1, <2>2
<1>6. CASE ScanFails \/ ScanEmpty \/ ScanNoMemory \/ NotFound \/ RetryScan
           \/ PrintRow \/ Printed \/ Use
  <2>1. UNCHANGED <<heard, air>> /\ pc' \in {"prompt", "lookup", "print"}
        /\ (pc' = "lookup" => ptr' = "NULL")
    BY <1>6 DEF ScanFails, ScanEmpty, ScanNoMemory, NotFound, RetryScan, PrintRow,
         Printed, Use, ReturnFalse
  <2>2. Now' = Now
    BY <2>1 DEF Now, OnAir
  <2> QED
    BY <2>1, <2>2
<1>7. CASE Lookup \/ NextRow \/ UNCHANGED vars
  <2>1. /\ UNCHANGED <<heard, air, want, ptr, cells, target, scanned>>
        /\ \/ pc' \in {"scan", "match"} /\ pc \in {"lookup", "match"}
           \/ pc' = pc
    BY <1>7 DEF Lookup, NextRow, vars
  <2>2. Now' = Now
    BY <2>1 DEF Now, OnAir
  <2> QED
    BY <2>1, <2>2
<1> QED
  BY <1>1, <1>2, <1>3, <1>4, <1>5, <1>6, <1>7 DEF Next, Console

(* The second scan of a lookup lists what is there all along, and the loop   *)
(* only leaves behind what does not match.                                   *)
LEMMA HiddenStep == TypeOK /\ ListInv /\ HiddenInv /\ [Next]_vars => HiddenInv'
<1> SUFFICES ASSUME TypeOK, ListInv, HiddenInv, [Next]_vars PROVE HiddenInv'
  OBVIOUS
<1> USE DEF HiddenInv, cache, world, history, NotHidden
<1>1. CASE ScanCommand \/ Find
  <2>1. PICK s \in Ssids \cup {NoSsid} : Command(s)
    BY <1>1 DEF ScanCommand, Find
  <2>2. /\ steady' = OnAir /\ OnAir' = OnAir /\ result' = "pending"
        /\ pc' = "lookup" => internal' /\ ~retried'
        /\ pc' \in {"scan", "lookup"}
    BY <1>1, <2>1 DEF ScanCommand, Find, Command, OnAir
  <2> QED
    BY <2>2
<1>2. CASE ScanDone
  <2>1. PICK f \in Listings :
            /\ cells' \in Filled(f) /\ num' = Len(f)
            /\ failed' = (failed \/ Misses(f))
    BY <1>2 DEF ScanDone
  <2>2. /\ UNCHANGED <<air, steady, want, internal, retried, result>>
        /\ pc = "scan" /\ pc' = (IF internal THEN "match" ELSE "print") /\ i' = 0
    BY <1>2 DEF ScanDone, ReturnTrue
  <2>3. OnAir' = OnAir
    BY <2>2 DEF OnAir
  <2>4. ~failed' => Listed'
    <3>1. DOMAIN f = 1..Len(f)
      BY ListingType
    <3>2. \A j \in 1..Len(f) : j > 0 /\ cells'[j] = f[j]
      BY <2>1, FilledHolds
    <3> SUFFICES ASSUME ~failed', NEW n \in steady, SsidOf[n] = want
                 PROVE  \E j \in 1..Len(f) :
                            0 < j /\ f[j] # Garbage /\ f[j].net = n
      BY <2>1, <2>2, <3>2 DEF Listed
    <3>3. ~Misses(f)
      BY <2>1
    <3>4. PICK j \in DOMAIN f : f[j] # Garbage /\ f[j].net = n
      BY <3>3, ListingHolds
    <3> QED
      BY <3>1, <3>2, <3>4
  <2> QED
    BY <2>2, <2>3, <2>4
<1>3. CASE NextRow
  <2>1. /\ UNCHANGED <<air, steady, want, internal, retried, result, ptr, cells,
                       num, failed>>
        /\ pc = "match" /\ pc' = pc /\ i < num /\ MayDiffer(cells[i + 1])
    BY <1>3 DEF NextRow
  <2>2. OnAir' = OnAir
    BY <2>1 DEF OnAir
  <2>3. i \in Nat /\ i' \in Nat /\ i' <= i + 1 /\ num \in Nat
    BY <1>3, FoundType DEF NextRow, Step, TypeOK
  <2>4. Listed => Listed'
    BY <2>1, <2>3 DEF Listed, MayDiffer
  <2> QED
    BY <2>1, <2>2, <2>4
<1>4. CASE NotFound
  <2>1. /\ UNCHANGED <<air, steady, want, failed>> /\ pc' = "prompt"
        /\ pc = "match" /\ i >= num /\ retried
    BY <1>4 DEF NotFound, ReturnFalse
  <2>2. OnAir' = OnAir
    BY <2>1 DEF OnAir
  <2>3. i \in Nat /\ num \in Nat
    BY FoundType DEF TypeOK
  <2>4. Listed => \A n \in steady : SsidOf[n] # want
    BY <2>1, <2>3 DEF Listed
  <2> QED
    BY <2>1, <2>2, <2>4
<1>5. CASE ScanEmpty
  <2>1. /\ UNCHANGED <<air, steady, want>> /\ pc' = "prompt"
        /\ failed' = (failed \/ Misses(<<>>))
    BY <1>5 DEF ScanEmpty, ReturnFalse
  <2>2. OnAir' = OnAir
    BY <2>1 DEF OnAir
  <2>3. ~Misses(<<>>) => \A n \in steady : SsidOf[n] # want
    <3> SUFFICES ASSUME NEW n \in steady, SsidOf[n] = want PROVE Misses(<<>>)
      OBVIOUS
    <3>1. [net |-> n, ver |-> air[n]] \in Answering
      BY DEF Answering, Now
    <3> QED
      BY <3>1 DEF Misses
  <2> QED
    BY <2>1, <2>2, <2>3
<1>6. CASE ScanFails \/ ScanNoMemory
  <2>1. UNCHANGED <<air, steady>> /\ pc' = "prompt" /\ failed' = TRUE
    BY <1>6 DEF ScanFails, ScanNoMemory, ReturnFalse
  <2>2. OnAir' = OnAir
    BY <2>1 DEF OnAir
  <2> QED
    BY <2>1, <2>2
<1>7. CASE ScanUnread
  <2>1. /\ UNCHANGED <<air, steady, result, internal>> /\ failed' = TRUE
        /\ pc = "scan" /\ pc' = (IF internal THEN "match" ELSE "prompt")
    BY <1>7 DEF ScanUnread
  <2>2. OnAir' = OnAir
    BY <2>1 DEF OnAir
  <2> QED
    BY <2>1, <2>2
<1>8. ASSUME NEW n \in Networks, Change(n) PROVE HiddenInv'
  <2>1. steady' \subseteq steady /\ steady' \subseteq OnAir'
    BY <1>8, ChangeHeard
  <2>2. UNCHANGED <<pc, want, internal, retried, i, ptr, cells, num, result, failed>>
    BY <1>8 DEF Change
  <2> QED
    BY <2>1, <2>2 DEF Listed
<1>9. CASE Lookup \/ RetryScan \/ Match
  <2>1. /\ UNCHANGED <<air, steady, want, internal, result, failed>>
        /\ pc \in {"lookup", "match"}
        /\ \/ pc' \in {"scan", "use"}
           \/ pc' = "lookup" /\ ptr' = "NULL"
           \/ pc' = "match" /\ pc = "lookup" /\ ptr # "NULL" /\ retried' = retried
    BY <1>9 DEF Lookup, RetryScan, Match
  <2>2. OnAir' = OnAir
    BY <2>1 DEF OnAir
  <2> QED
    BY <2>1, <2>2
<1>10. CASE PrintRow \/ Printed \/ Use
  <2>1. /\ UNCHANGED <<air, steady, want, failed>> /\ pc' \in {"prompt", "print"}
        /\ \/ result' = result
           \/ result' = "found" /\ pc' = "prompt"
        /\ pc' = "print" => pc = "print"
    BY <1>10 DEF PrintRow, Printed, Use
  <2>2. OnAir' = OnAir
    BY <2>1 DEF OnAir
  <2> QED
    BY <2>1, <2>2
<1>11. CASE UNCHANGED vars
  BY <1>11 DEF vars, OnAir, Listed
<1> QED
  BY <1>1, <1>2, <1>3, <1>4, <1>5, <1>6, <1>7, <1>8, <1>9, <1>10, <1>11
     DEF Next, Console

(* For any number of access points and changes: a lookup that has scanned    *)
(* uses a record that was on the air since it was asked for, and of the      *)
(* right name.                                                               *)
THEOREM FreshIfScannedHolds == SafeSpec => []FreshIfScanned
<1>1. Init => FreshInv
  BY DEF Init, FreshInv, FreshIfScanned, Now, OnAir
<1>2. FreshInv => FreshIfScanned
  BY DEF FreshInv
<1> QED
  BY <1>1, <1>2, Invariance, FreshStep, PTL DEF SafeSpec

(* For any number of access points and changes: a lookup misses no access    *)
(* point of its name that was there, and heard, all along.                   *)
THEOREM NotHiddenHolds == SafeSpec => []NotHidden
<1>1. Init => HiddenInv
  BY DEF Init, HiddenInv, NotHidden
<1>2. HiddenInv => NotHidden
  BY DEF HiddenInv
<1> QED
  BY <1>1, <1>2, Invariance, HiddenStep, PTL DEF SafeSpec
=============================================================================

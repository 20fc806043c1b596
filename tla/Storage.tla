-------------------------------- MODULE Storage --------------------------------
(***************************************************************************)
(* The object storage of the backend (S3StorageProvider over R2), as the   *)
(* services see it: files by key, requests that may fail, and a deletion   *)
(* that swallows its errors.  No database transaction spans the storage.   *)
(***************************************************************************)
EXTENDS Integers

CONSTANTS
    Txns,       \* identifiers of transactions
    Keys,       \* object keys, random
    Absent,     \* no row, no key
    MaxFaults   \* bound: failures of the storage, the network or the database, and crashes

ASSUME AbsentAssumption == Absent \notin Keys
ASSUME FaultsAssumption == MaxFaults \in Nat

VARIABLES
    object,    \* keys of the files in the storage
    doubtful,  \* (history) keys whose row went through without an answer
    faults

Fault == faults < MaxFaults /\ faults' = faults + 1

\* deleteFile is tried once and swallows its errors; a crash loses it.
Discard(k) ==
    \/ object' = object \ {k} /\ UNCHANGED faults
    \/ Fault /\ UNCHANGED object
===============================================================================

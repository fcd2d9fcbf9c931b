----------------------------- MODULE FileStore -----------------------------
(***************************************************************************)
(* The encrypted-file secret store: every operation locks the store's      *)
(* mutex, loads the whole map from the file, and, if it changes the map,   *)
(* writes the new map to a temporary file and renames it over the store's  *)
(* file before it unlocks.  The process can die between any two of these,  *)
(* and in the middle of writing the temporary file.                        *)
(*                                                                         *)
(* Encryption and encoding are represented by what they decide: a file     *)
(* holds a map or is Torn, which load reports as an error.  A missing or   *)
(* an empty file is the empty map, as load has it.                         *)
(***************************************************************************)
EXTENDS SecretStore, Naturals

CONSTANTS
    Nobody,       \* the mutex is free
    Torn,         \* what a half-written file holds
    MaxCrashes    \* bound: crashes of the process

ASSUME FileStoreAssumption ==
    /\ Nobody \notin Call
    /\ Torn \notin Map
    /\ MaxCrashes \in Nat

VARIABLES
    file,      \* the store file
    tmp,       \* the temporary file
    mutex,     \* the call that holds the mutex, or Nobody
    pc,        \* where each call is
    data,      \* the map each call has loaded, and changed
    answer,    \* what each call answers
    crashes

vars == <<file, tmp, mutex, pc, data, answer, crashes>>

Empty == [i \in Id |-> Absent]

Init ==
    /\ file    = Empty
    /\ tmp     = Empty
    /\ mutex   = Nobody
    /\ pc      = [c \in Call |-> "lock"]
    /\ data    = [c \in Call |-> Empty]
    /\ answer  = [c \in Call |-> Absent]
    /\ crashes = 0

Goto(c, label) == pc' = [pc EXCEPT ![c] = label]

\* Mutant: the mutex is not respected.
LockUnchecked(c) ==
    /\ pc[c] = "lock"
    /\ mutex' = c
    /\ Goto(c, "load")
    /\ UNCHANGED <<file, tmp, data, answer, crashes>>

Lock(c) ==
    /\ pc[c] = "lock"
    /\ mutex = Nobody
    /\ mutex' = c
    /\ Goto(c, "load")
    /\ UNCHANGED <<file, tmp, data, answer, crashes>>

\* Mutant: the changed map is not saved.
LoadWithoutSave(c) ==
    /\ pc[c] = "load"
    /\ file # Torn
    /\ data'   = [data EXCEPT ![c] = Outcome(file, c).map]
    /\ answer' = [answer EXCEPT ![c] = Outcome(file, c).answer]
    /\ Goto(c, "unlock")
    /\ UNCHANGED <<file, tmp, mutex, crashes>>

\* load, and the body of the operation up to its save or its return.
Load(c) ==
    /\ pc[c] = "load"
    /\ file # Torn
    /\ data'   = [data EXCEPT ![c] = Outcome(file, c).map]
    /\ answer' = [answer EXCEPT ![c] = Outcome(file, c).answer]
    /\ Goto(c, IF Outcome(file, c).saves THEN "write" ELSE "unlock")
    /\ UNCHANGED <<file, tmp, mutex, crashes>>

\* Mutant: the store file is written in place.
WriteInPlace(c) ==
    /\ pc[c] = "write"
    /\ file' = Torn
    /\ Goto(c, "written")
    /\ UNCHANGED <<tmp, mutex, data, answer, crashes>>

\* os.WriteFile truncates first and then writes.
WriteTmp(c) ==
    /\ pc[c] = "write"
    /\ tmp' = Torn
    /\ Goto(c, "written")
    /\ UNCHANGED <<file, mutex, data, answer, crashes>>

WrittenTmp(c) ==
    /\ pc[c] = "written"
    /\ tmp' = data[c]
    /\ Goto(c, "rename")
    /\ UNCHANGED <<file, mutex, data, answer, crashes>>

Rename(c) ==
    /\ pc[c] = "rename"
    /\ file' = tmp
    /\ Goto(c, "unlock")
    /\ UNCHANGED <<tmp, mutex, data, answer, crashes>>

\* Mutant: an error path that forgets to unlock.
IoErrorLocked(c) ==
    /\ pc[c] \in {"load", "write", "written", "rename"}
    /\ answer' = [answer EXCEPT ![c] = "error"]
    /\ Goto(c, "returned")
    /\ UNCHANGED <<file, tmp, mutex, data, crashes>>

\* An error of load or save: the operation answers it and unlocks.
IoError(c) ==
    /\ pc[c] \in {"load", "write", "written", "rename"}
    /\ answer' = [answer EXCEPT ![c] = "error"]
    /\ mutex' = Nobody
    /\ Goto(c, "returned")
    /\ UNCHANGED <<file, tmp, data, crashes>>

\* The deferred Unlock, and the return.
Unlock(c) ==
    /\ pc[c] = "unlock"
    /\ mutex' = Nobody
    /\ Goto(c, "returned")
    /\ UNCHANGED <<file, tmp, data, answer, crashes>>

\* The process dies and starts again; the files stay as they are.
Crash ==
    /\ crashes < MaxCrashes
    /\ crashes' = crashes + 1
    /\ mutex' = Nobody
    /\ pc' = [c \in Call |-> IF pc[c] \in {"lock", "returned"} THEN pc[c] ELSE "gone"]
    /\ UNCHANGED <<file, tmp, data, answer>>

Step(c) == \/ Lock(c) \/ Load(c) \/ WriteTmp(c) \/ WrittenTmp(c) \/ Rename(c)
           \/ IoError(c) \/ Unlock(c)

Next == (\E c \in Call : Step(c)) \/ Crash

Spec == Init /\ [][Next]_vars

\* A process that can run does: as long as some call can take a step, one does.
\* Nothing is assumed about which, so not that the mutex is fair.
FairSpec == Spec /\ WF_vars(\E c \in Call : Step(c))

-----------------------------------------------------------------------------
Label == {"lock", "load", "write", "written", "rename", "unlock", "returned", "gone"}

InCritical(c) == pc[c] \in {"load", "write", "written", "rename", "unlock"}

(***************************************************************************)
(* Type invariant.  The store file is never torn: whatever the process was *)
(* doing when it died, the next load finds a complete map.                 *)
(***************************************************************************)
TypeOK ==
    /\ file \in Map
    /\ tmp \in Map \union {Torn}
    /\ mutex \in Call \union {Nobody}
    /\ pc \in [Call -> Label]
    /\ data \in [Call -> Map]
    /\ answer \in [Call -> Answer \union {Absent}]
    /\ crashes \in Nat

(***************************************************************************)
(* The mutex protects the whole of load, change and save: the calls inside *)
(* are the one that holds it.                                              *)
(***************************************************************************)
MutualExclusion == \A c \in Call : InCritical(c) => mutex = c

\* A call on its way to save holds the map the file's content leads to.
SaveInv ==
    \A c \in Call :
        /\ pc[c] \in {"write", "written", "rename"} =>
             /\ data[c] = Outcome(file, c).map
             /\ answer[c] = Outcome(file, c).answer
             /\ Outcome(file, c).saves
        /\ pc[c] = "rename" => tmp = data[c]

(***************************************************************************)
(* The inductive invariant of the file store.                              *)
(***************************************************************************)
IInv == TypeOK /\ MutualExclusion /\ SaveInv

(***************************************************************************)
(* A secret that was handed out is kept: the answer of a GetOrCreate or a  *)
(* PutSalt that has returned is what the store holds for its identifier,   *)
(* unless some call deletes it.                                            *)
(***************************************************************************)
HandedOutIsKept ==
    \A c \in Call :
        /\ pc[c] = "returned" /\ Kind[c] \in {"getorcreate", "put"}
        /\ answer[c] # "error"
        /\ \A d \in Call : Kind[d] = "delete" => Of[c] \notin Scope[d] \/ pc[d] = "lock"
        => file # Torn /\ file[Of[c]] = answer[c]

(***************************************************************************)
(* Every call returns, unless the process dies under it.                   *)
(***************************************************************************)
EveryCallEnds == \A c \in Call : <>(pc[c] \in {"returned", "gone"})

(***************************************************************************)
(* The atomic store: a call that saves takes effect when the new file is   *)
(* renamed into place, every other when it has loaded.                     *)
(***************************************************************************)
AbstractPhase ==
    [c \in Call |->
        CASE pc[c] \in {"lock", "load", "write", "written", "rename"} -> "called"
          [] pc[c] = "unlock" -> "applied"
          [] OTHER -> pc[c]]

AbstractAnswer ==
    [c \in Call |-> IF pc[c] \in {"unlock", "returned"} THEN answer[c] ELSE Absent]

Atomic == INSTANCE AtomicStore WITH
    map <- file, phase <- AbstractPhase, answer <- AbstractAnswer

(***************************************************************************)
(* The file store implements the atomic store, crashes included.           *)
(***************************************************************************)
ImplementsAtomicStore == Atomic!Spec
=============================================================================

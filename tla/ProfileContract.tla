-------------------------- MODULE ProfileContract --------------------------
(***************************************************************************)
(* The contract on one tenant channel, called by arbitrary clients.        *)
(*                                                                         *)
(* A call is simulated on endorsing peers against some committed prefix of *)
(* its key's history (peers may lag), which yields a write and the version *)
(* of the key that was read.  The endorsed transaction then waits for the  *)
(* ordering service and is validated when its block is committed: the      *)
(* write is applied only if the key is still at the version that was read. *)
(* Endorsement, ordering and validation are Hyperledger Fabric's, modelled *)
(* from how the contract and its clients rely on them.  Nothing about the  *)
(* callers is assumed: any MSP, any arguments, any number of calls, any    *)
(* delay between simulation and commit, transactions lost before ordering. *)
(***************************************************************************)
EXTENDS EmployeeProfileRecord, SequencesExt

CONSTANTS
    EmployeeID,   \* pseudonymous employee identifiers
    Sections      \* the section names callers use, valid or not

ASSUME SectionsAssumption == Sections \subseteq AnySection
ASSUME TxIdAssumption     == TxId \subseteq Nat
ASSUME NoRecordAssumption == NoRecord \notin Record

VARIABLES
    history,   \* per key, the committed records, oldest first
    pending,   \* endorsed transactions not yet ordered
    nextTx     \* the next unused transaction identifier

vars == <<history, pending, nextTx>>

(***************************************************************************)
(* The composite key is (employeeID, profileSection); the tenant is not    *)
(* part of it, a channel being one tenant's.                               *)
(***************************************************************************)
Key == EmployeeID \X ProfileSection

Init ==
    /\ history = [k \in Key |-> <<>>]
    /\ pending = {}
    /\ nextTx  = 0

(***************************************************************************)
(* A call of RecordProfileSection for emp, simulated against the first h   *)
(* committed versions of its key.                                          *)
(***************************************************************************)
CallArgs == [section  : Sections,
             dataHash : Hash \union {NoHash},
             prevHash : Hash \union {NoHash},
             filled   : BOOLEAN]

Committed(emp, section) ==
    IF IsValidProfileSection(section) THEN history[<<emp, section>>] ELSE <<>>

Simulate(emp, msp, args, h) ==
    RecordProfileSection(readHead(SubSeq(Committed(emp, args.section), 1, h)),
                         msp, args, nextTx)

Endorse(emp, args, h, outcome) ==
    /\ nextTx \in TxId
    /\ pending' = pending \union {[id          |-> nextTx,
                                   key         |-> <<emp, args.section>>,
                                   readVersion |-> h,
                                   writes      |-> outcome.writes,
                                   rec         |-> outcome.rec]}
    /\ nextTx' = nextTx + 1
    /\ UNCHANGED history

\* A call the contract rejects leaves no trace.
Reject == UNCHANGED vars

(***************************************************************************)
(* Commit-time validation: MVCC_READ_CONFLICT unless the key is still at   *)
(* the version that was read.                                              *)
(***************************************************************************)
\* Mutant: blocks are committed without the read-version check.
MvccUnchecked(tx) == TRUE

MvccValid(tx) == tx.readVersion = Len(history[tx.key])

Commit(tx) ==
    /\ pending' = pending \ {tx}
    /\ history' = IF MvccValid(tx) /\ tx.writes
                  THEN [history EXCEPT ![tx.key] = Append(@, tx.rec)]
                  ELSE history
    /\ UNCHANGED nextTx

\* An endorsed transaction that never reaches the ordering service.
Lose(tx) ==
    /\ pending' = pending \ {tx}
    /\ UNCHANGED <<history, nextTx>>

Call(emp, msp, args) ==
    \E h \in 0..Len(Committed(emp, args.section)) :
        LET outcome == Simulate(emp, msp, args, h)
        IN  IF outcome.code = "OK" THEN Endorse(emp, args, h, outcome) ELSE Reject

Next ==
    \/ \E emp \in EmployeeID, msp \in Msp, args \in CallArgs : Call(emp, msp, args)
    \/ \E tx \in pending : Commit(tx)
    \/ \E tx \in pending : Lose(tx)

Spec == Init /\ [][Next]_vars

-----------------------------------------------------------------------------
(***************************************************************************)
(* The other two queries.  GetHistoryForKey promises no order, which       *)
(* unordered stands for: GetProfileHistory sorts what it yields by         *)
(* version.  The summary has one entry per section, version 0 and no hash  *)
(* where nothing was ever anchored.                                        *)
(***************************************************************************)
\* sort.Slice: a rearrangement in which no version is below the one before it.
SortByVersion(entries) ==
    LET n     == Len(entries)
        order == CHOOSE p \in Bijection(1..n, 1..n) :
                    \A i, j \in 1..n : i < j => entries[p[i]].version <= entries[p[j]].version
    IN  [i \in 1..n |-> entries[order[i]]]

\* Mutant: the iterator's order is returned as it is.
GetProfileHistoryUnsorted(unordered, msp, section) ==
    IF ~authorizeEvaluate(msp) \/ ~IsValidProfileSection(section) THEN <<>> ELSE unordered

GetProfileHistory(unordered, msp, section) ==
    IF ~authorizeEvaluate(msp) \/ ~IsValidProfileSection(section) THEN <<>>
    ELSE SortByVersion(unordered)

SummaryEntry(head) ==
    IF head = NoRecord
    THEN [dataHash |-> NoHash, version |-> 0]
    ELSE [dataHash |-> head.dataHash, version |-> head.version]

GetEmployeeProfileSummary(emp, msp) ==
    [section \in {s \in ProfileSection : authorizeEvaluate(msp)} |->
        SummaryEntry(readHead(history[<<emp, section>>]))]

-----------------------------------------------------------------------------
(***************************************************************************)
(* The tamper-evident chain: under every key, however calls interleave and *)
(* however stale the peers that endorsed them were, versions count 1, 2,   *)
(* 3, ... and each record's prevHash is the dataHash of the record before  *)
(* it (empty for the first).                                               *)
(***************************************************************************)
Linked(versions) ==
    \A i \in 1..Len(versions) :
        /\ versions[i].version = i
        /\ versions[i].prevHash = IF i = 1 THEN NoHash ELSE versions[i - 1].dataHash

ChainIntact == \A k \in Key : Linked(history[k])

(***************************************************************************)
(* Content that is already at the head is never anchored again (the no-op  *)
(* rule of RecordProfileSection), not even by two calls that were endorsed *)
(* against the same head and committed one after the other.                *)
(***************************************************************************)
NoAdjacentDuplicates ==
    \A k \in Key : \A i \in 2..Len(history[k]) :
        history[k][i].dataHash # history[k][i - 1].dataHash

(***************************************************************************)
(* The three read functions tell one story: whatever order the iterator    *)
(* yields, the history query returns the chain in order, its last entry is *)
(* the head that GetProfileSectionRecord returns, and the summary entry of *)
(* the section has that head's version and hash.                           *)
(***************************************************************************)
Rearranged(versions, p) == [i \in 1..Len(versions) |-> versions[p[i]]]

StoriesAgree(listed, entry, head) ==
    /\ Len(listed) = entry.version
    /\ IF listed = <<>>
       THEN head.code = "NOT_FOUND" /\ entry.dataHash = NoHash
       ELSE /\ head.rec = listed[Len(listed)]
            /\ entry.dataHash = head.rec.dataHash
    /\ Linked(listed)

QueriesAgree ==
    \A k \in Key : \A p \in Bijection(1..Len(history[k]), 1..Len(history[k])) :
        StoriesAgree(GetProfileHistory(Rearranged(history[k], p), "Org3MSP", k[2]),
                     GetEmployeeProfileSummary(k[1], "Org3MSP")[k[2]],
                     GetProfileSectionRecord(history[k], "Org3MSP", k[2]))

=============================================================================

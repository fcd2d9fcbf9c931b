--------------------------- MODULE GatewayClient ---------------------------
(***************************************************************************)
(* SubmitRecordProfileSection of the gateway client, called concurrently   *)
(* by several writers for one (employeeID, profileSection), against the    *)
(* contract of EmployeeProfileRecord running on a Fabric channel.          *)
(*                                                                         *)
(* A Client is one invocation of SubmitRecordProfileSection: a best-effort *)
(* read of the head to seed prevHash, then at most MaxSubmitRetries + 1    *)
(* attempts, each with the prevHash of the latest read.  A submission      *)
(* touches only its own key, so one key shows every conflict there is.     *)
(*                                                                         *)
(* Fabric is external and modelled from what the client relies on: the     *)
(* endorsement policy needs one peer of each organization; peers learn of  *)
(* committed records at their own pace; queries and commit statuses come   *)
(* from the organization-1 peer the client is connected to; a transaction  *)
(* handed to the ordering service is validated once, lost, or still on its *)
(* way when the client stops waiting for it.                               *)
(***************************************************************************)
EXTENDS EmployeeProfileRecord

CONSTANTS
    Client,            \* concurrent invocations of SubmitRecordProfileSection
    RequestHash,       \* the dataHash each of them anchors
    RequestMsp,        \* the MSP each of them signs with
    MaxSubmitRetries

ASSUME RequestAssumption ==
    /\ RequestHash \in [Client -> Hash]
    /\ RequestMsp \in [Client -> Msp]
    /\ MaxSubmitRetries \in Nat
    /\ TxId = Client \X (0..MaxSubmitRetries)
    /\ NoRecord \notin Record

Peer == {"org1", "orgclient"}

VARIABLES
    history,    \* the committed records of the key, oldest first
    seen,       \* how many of them each peer has committed so far
    ordering,   \* transactions handed to the ordering service
    verdict,    \* what validation decided about each transaction
    pc,         \* where each client is
    attempt,    \* the loop counter of each client
    prevHash,   \* the chain reference of each client's next attempt
    result      \* the response payload of each client's latest attempt

chainVars  == <<history, seen, ordering, verdict>>
clientVars == <<pc, attempt, prevHash, result>>
vars       == <<history, seen, ordering, verdict, pc, attempt, prevHash, result>>

\* "ok" is a nil error, "error" a *LedgerError.  The caller is not told whether
\* the transaction of a call that failed is dead or still under way.
Done == {"ok", "error"}

Code == {"none", "VALID", "MVCC_READ_CONFLICT", "OTHER_INVALID"}

Owner(txID) == txID[1]

Transaction == [id : TxId, readVersion : Nat, writes : BOOLEAN, rec : Record]

Init ==
    /\ history  = <<>>
    /\ seen     = [p \in Peer |-> 0]
    /\ ordering = {}
    /\ verdict  = [t \in TxId |-> [code |-> "none", at |-> 0]]
    /\ pc       = [c \in Client |-> "seed"]
    /\ attempt  = [c \in Client |-> 0]
    /\ prevHash = [c \in Client |-> NoHash]
    /\ result   = [c \in Client |-> NoRecord]

-----------------------------------------------------------------------------
(***************************************************************************)
(* What the peers answer.                                                  *)
(***************************************************************************)
View(p) == SubSeq(history, 1, seen[p])

\* EvaluateGetProfileSectionRecord, served by the organization-1 peer.
Evaluate(c) == GetProfileSectionRecord(View("org1"), RequestMsp[c], "PERSONAL")

CurrentTx(c) == <<c, attempt[c]>>

\* buildArgs(prevHash) and the simulation of the call on one endorsing peer.
Simulation(c, p) ==
    RecordProfileSection(
        readHead(View(p)), RequestMsp[c],
        [section |-> "PERSONAL", dataHash |-> RequestHash[c],
         prevHash |-> prevHash[c], filled |-> TRUE],
        CurrentTx(c))

\* The two simulations agree on results, writes and the version they read.
EndorsersAgree(c) ==
    /\ seen["org1"] = seen["orgclient"]
    /\ Simulation(c, "org1").code = "OK"

StaleChainReference(c) ==
    \E p \in Peer : Simulation(c, p).code = "STALE_CHAIN_REFERENCE"

Goto(c, label) == pc' = [pc EXCEPT ![c] = label]

-----------------------------------------------------------------------------
(***************************************************************************)
(* The client.                                                             *)
(***************************************************************************)

\* Best effort: an error, NotFound included, leaves prevHash empty.
Seed(c) ==
    /\ pc[c] = "seed"
    /\ Goto(c, "submit")
    /\ prevHash' = [prevHash EXCEPT ![c] =
                       IF Evaluate(c).code = "OK" THEN Evaluate(c).rec.dataHash ELSE NoHash]
    /\ UNCHANGED <<attempt, result, chainVars>>

SeedUnavailable(c) ==
    /\ pc[c] = "seed"
    /\ Goto(c, "submit")
    /\ UNCHANGED <<attempt, prevHash, result, chainVars>>

\* SubmitTransaction: endorsed, handed to the ordering service, awaiting its
\* commit status.
Submit(c) ==
    /\ pc[c] = "submit"
    /\ EndorsersAgree(c)
    /\ ordering' = ordering \union
                     {[id          |-> CurrentTx(c),
                       readVersion |-> seen["org1"],
                       writes      |-> Simulation(c, "org1").writes,
                       rec         |-> Simulation(c, "org1").rec]}
    /\ result' = [result EXCEPT ![c] = Simulation(c, "org1").rec]
    /\ Goto(c, "await")
    /\ UNCHANGED <<history, seen, verdict, attempt, prevHash>>

\* An EndorseError whose text holds "stale chain reference" is retryable.
SubmitStale(c) ==
    /\ pc[c] = "submit"
    /\ StaleChainReference(c)
    /\ Goto(c, "reread")
    /\ UNCHANGED <<attempt, prevHash, result, chainVars>>

\* Every other endorsement failure is not: a rejection by the contract,
\* endorsements that do not match.
SubmitRefused(c) ==
    /\ pc[c] = "submit"
    /\ ~EndorsersAgree(c) /\ ~StaleChainReference(c)
    /\ Goto(c, "error")
    /\ UNCHANGED <<attempt, prevHash, result, chainVars>>

\* A peer that cannot be reached within the endorse timeout.
SubmitUnavailable(c) ==
    /\ pc[c] = "submit"
    /\ Goto(c, "error")
    /\ UNCHANGED <<attempt, prevHash, result, chainVars>>

\* The commit status, known once the connected peer has the block.
Status(c, code) ==
    /\ pc[c] = "await"
    /\ verdict[CurrentTx(c)].code = code
    /\ seen["org1"] >= verdict[CurrentTx(c)].at

\* Mutant: a conflicting transaction is taken for a committed one.
CommittedUnchecked(c) ==
    /\ Status(c, "VALID") \/ Status(c, "MVCC_READ_CONFLICT")
    /\ Goto(c, "ok")
    /\ UNCHANGED <<attempt, prevHash, result, chainVars>>

Committed(c) ==
    /\ Status(c, "VALID")
    /\ Goto(c, "ok")
    /\ UNCHANGED <<attempt, prevHash, result, chainVars>>

\* Mutant: a read conflict is not retried.
ReadConflictIsFinal(c) ==
    /\ Status(c, "MVCC_READ_CONFLICT")
    /\ Goto(c, "error")
    /\ UNCHANGED <<attempt, prevHash, result, chainVars>>

ReadConflict(c) ==
    /\ Status(c, "MVCC_READ_CONFLICT")
    /\ Goto(c, "reread")
    /\ UNCHANGED <<attempt, prevHash, result, chainVars>>

OtherwiseInvalid(c) ==
    /\ Status(c, "OTHER_INVALID")
    /\ Goto(c, "error")
    /\ UNCHANGED <<attempt, prevHash, result, chainVars>>

\* Mutants: a call without a commit status is retried; it never ends.
StatusUnavailableRetried(c) ==
    /\ pc[c] = "await"
    /\ Goto(c, "reread")
    /\ UNCHANGED <<attempt, prevHash, result, chainVars>>

StatusNeverTimesOut(c) == pc[c] = "await" /\ FALSE /\ UNCHANGED vars

\* A SubmitError or CommitStatusError: submit or commit-status timeout, or a
\* broken connection, with the transaction possibly on its way or anchored.  It
\* is not retryable, and is the same *LedgerError as every other failure.
StatusUnavailable(c) ==
    /\ pc[c] = "await"
    /\ Goto(c, "error")
    /\ UNCHANGED <<attempt, prevHash, result, chainVars>>

\* Mutant: the loop does not count its attempts.
RereadUncounted(c) ==
    /\ pc[c] = "reread"
    /\ Evaluate(c).code = "OK"
    /\ prevHash' = [prevHash EXCEPT ![c] = Evaluate(c).rec.dataHash]
    /\ Goto(c, "submit")
    /\ UNCHANGED <<attempt, result, chainVars>>

\* After a retryable rejection: re-read the head and go round the loop, or
\* leave it when the attempts are used up.
Reread(c) ==
    /\ pc[c] = "reread"
    /\ Evaluate(c).code = "OK"
    /\ prevHash' = [prevHash EXCEPT ![c] = Evaluate(c).rec.dataHash]
    /\ IF attempt[c] < MaxSubmitRetries
       THEN attempt' = [attempt EXCEPT ![c] = @ + 1] /\ Goto(c, "submit")
       ELSE UNCHANGED attempt /\ Goto(c, "error")
    /\ UNCHANGED <<result, chainVars>>

\* NotFound is an error here, unlike in Seed.
RereadRefused(c) ==
    /\ pc[c] = "reread"
    /\ Evaluate(c).code # "OK"
    /\ Goto(c, "error")
    /\ UNCHANGED <<attempt, prevHash, result, chainVars>>

RereadUnavailable(c) ==
    /\ pc[c] = "reread"
    /\ Goto(c, "error")
    /\ UNCHANGED <<attempt, prevHash, result, chainVars>>

-----------------------------------------------------------------------------
(***************************************************************************)
(* The network.                                                            *)
(***************************************************************************)

\* A block with tx is cut and validated.  An invalid transaction of another
\* kind (endorsement policy, expired identity) is the network's choice.
Validate(tx, code) ==
    /\ ordering' = ordering \ {tx}
    /\ history'  = IF code = "VALID" /\ tx.writes THEN Append(history, tx.rec) ELSE history
    /\ verdict'  = [verdict EXCEPT ![tx.id] = [code |-> code, at |-> Len(history')]]
    /\ UNCHANGED <<seen, clientVars>>

\* Mutant: blocks are committed without the read-version check.
MvccUnchecked(tx) == TRUE

MvccValid(tx) == tx.readVersion = Len(history)

Order(tx) ==
    Validate(tx, IF MvccValid(tx) THEN "VALID" ELSE "MVCC_READ_CONFLICT")

OrderInvalid(tx) == Validate(tx, "OTHER_INVALID")

Lose(tx) ==
    /\ ordering' = ordering \ {tx}
    /\ UNCHANGED <<history, seen, verdict, clientVars>>

CatchUp(p) ==
    /\ seen[p] < Len(history)
    /\ seen' = [seen EXCEPT ![p] = @ + 1]
    /\ UNCHANGED <<history, ordering, verdict, clientVars>>

-----------------------------------------------------------------------------
ClientStep(c) ==
    \/ Seed(c) \/ Submit(c) \/ SubmitStale(c) \/ SubmitRefused(c)
    \/ Committed(c) \/ ReadConflict(c) \/ OtherwiseInvalid(c)
    \/ Reread(c) \/ RereadRefused(c)

ClientFault(c) ==
    \/ SeedUnavailable(c) \/ SubmitUnavailable(c)
    \/ StatusUnavailable(c) \/ RereadUnavailable(c)

Next ==
    \/ \E c \in Client : ClientStep(c) \/ ClientFault(c)
    \/ \E tx \in ordering : Order(tx) \/ OrderInvalid(tx) \/ Lose(tx)
    \/ \E p \in Peer : CatchUp(p)

Spec == Init /\ [][Next]_vars

\* Every call of the client returns or times out.
FairSpec == Spec /\ \A c \in Client : WF_vars(ClientStep(c) \/ ClientFault(c))

(***************************************************************************)
(* The same system without faults: no call times out, no transaction is    *)
(* lost, and a client's calls are served by peers that are up to date.     *)
(***************************************************************************)
InSync == \A p \in Peer : seen[p] = Len(history)

FaultFreeNext ==
    \/ InSync /\ \E c \in Client : ClientStep(c)
    \/ \E tx \in ordering : Order(tx)
    \/ \E p \in Peer : CatchUp(p)

FaultFreeSpec == Init /\ [][FaultFreeNext]_vars /\ WF_vars(FaultFreeNext)

-----------------------------------------------------------------------------
(***************************************************************************)
(* Type invariant.                                                         *)
(***************************************************************************)
TypeOK ==
    /\ history \in Seq(Record)
    /\ seen \in [Peer -> Nat]
    /\ ordering \subseteq Transaction
    /\ verdict \in [TxId -> [code : Code, at : Nat]]
    /\ pc \in [Client -> {"seed", "submit", "await", "reread"} \union Done]
    /\ attempt \in [Client -> 0..MaxSubmitRetries]
    /\ prevHash \in [Client -> Hash \union {NoHash}]
    /\ result \in [Client -> Record \union {NoRecord}]

(***************************************************************************)
(* The chain on the ledger is unbroken: versions are consecutive from 1,   *)
(* each record links to the one before it, and no record repeats the       *)
(* content of the one before it, whatever the writers race on.             *)
(***************************************************************************)
ChainIntact ==
    \A i \in 1..Len(history) :
        /\ history[i].version = i
        /\ history[i].prevHash = IF i = 1 THEN NoHash ELSE history[i - 1].dataHash
        /\ history[i].prevHash # history[i].dataHash

(***************************************************************************)
(* Retrying is safe: the attempts of one SubmitRecordProfileSection call   *)
(* together anchor at most one record.                                     *)
(***************************************************************************)
AtMostOnce ==
    \A i, j \in 1..Len(history) :
        Owner(history[i].recordID) = Owner(history[j].recordID) => i = j

\* The response of a client's latest attempt is a record of the ledger with the
\* content it asked for.
Anchored(c) ==
    /\ result[c] \in Record
    /\ result[c].version \in 1..Len(history)
    /\ history[result[c].version] = result[c]
    /\ result[c].dataHash = RequestHash[c]

(***************************************************************************)
(* A call that returns without error returns a record that is on the       *)
(* ledger, at the version it says, and holds the content the caller asked  *)
(* to anchor (written by this call, or found there by the no-op rule).     *)
(***************************************************************************)
SuccessIsAnchored == \A c \in Client : pc[c] = "ok" => Anchored(c)

\* Call c has a record on the ledger, or a transaction that may still become one.
OnLedger(c) == \E i \in 1..Len(history) : Owner(history[i].recordID) = c
UnderWay(c) == \E tx \in ordering : Owner(tx.id) = c

(***************************************************************************)
(* A call goes round its retry loop only over dead attempts: when it       *)
(* starts a new one, nothing it submitted before is on the ledger or still *)
(* with the ordering service, so what it re-read as the head is never its  *)
(* own record and the new attempt competes with no older one.              *)
(***************************************************************************)
RetryOnlyAfterDeath ==
    [][\A c \in Client : attempt'[c] # attempt[c] => ~OnLedger(c) /\ ~UnderWay(c)]_vars

(***************************************************************************)
(* The inductive strengthening of the safety properties above.             *)
(*                                                                         *)
(* A transaction under way fits the record it read: it would extend the    *)
(* chain correctly if that record is still the last one when it is         *)
(* ordered, which is what validation checks.                               *)
(***************************************************************************)
Fits(tx) ==
    /\ tx.readVersion <= Len(history)
    /\ tx.rec.dataHash = RequestHash[Owner(tx.id)]
    /\ tx.writes =>
         /\ tx.rec.version = tx.readVersion + 1
         /\ tx.rec.recordID = tx.id
         /\ tx.rec.prevHash = IF tx.readVersion = 0 THEN NoHash
                              ELSE history[tx.readVersion].dataHash
         /\ tx.rec.prevHash # tx.rec.dataHash
    /\ ~tx.writes =>
         /\ tx.readVersion > 0
         /\ tx.rec = history[tx.readVersion]

\* Only the current attempt of a call is ever under way, once, and undecided.
OrderingInv ==
    \A tx \in ordering :
        /\ Fits(tx)
        /\ tx.id = CurrentTx(Owner(tx.id))
        /\ tx.rec = result[Owner(tx.id)]
        /\ pc[Owner(tx.id)] \in {"await", "error"}
        /\ verdict[tx.id].code = "none"
        /\ \A other \in ordering : other.id = tx.id => other = tx

\* Every record was written by the current, valid attempt of its call.
HistoryInv ==
    \A i \in 1..Len(history) :
        LET id == history[i].recordID
        IN  /\ id = CurrentTx(Owner(id))
            /\ verdict[id].code = "VALID"
            /\ pc[Owner(id)] \in {"await", "ok", "error"}
            /\ \A j \in 1..Len(history) : history[j].recordID = id => j = i

\* Attempts not made yet are undecided; a valid one has anchored its result.
VerdictInv ==
    \A c \in Client :
        /\ \A a \in 0..MaxSubmitRetries :
             \/ a > attempt[c]
             \/ a = attempt[c] /\ pc[c] \in {"seed", "submit"}
             => verdict[<<c, a>>].code = "none"
        /\ verdict[CurrentTx(c)].code = "VALID" => Anchored(c)
        /\ pc[c] = "ok" => verdict[CurrentTx(c)].code = "VALID"

SeenInv == \A p \in Peer : seen[p] <= Len(history)

(***************************************************************************)
(* The inductive invariant: the chain is intact, peers never run ahead of  *)
(* it, and transactions, records and verdicts belong to the current        *)
(* attempt of the call that made them.                                     *)
(***************************************************************************)
IInv ==
    /\ TypeOK
    /\ SeenInv
    /\ ChainIntact
    /\ OrderingInv
    /\ HistoryInv
    /\ VerdictInv

(***************************************************************************)
(* Every call returns: the retry loop is bounded and every call it makes   *)
(* has a timeout.                                                          *)
(***************************************************************************)
EveryCallReturns == \A c \in Client : <>(pc[c] \in Done)

(***************************************************************************)
(* The retry budget is enough for contention alone: without faults, when   *)
(* no more than MaxSubmitRetries + 1 writers compete for a section, every  *)
(* one of them succeeds, whatever callers without permission try.          *)
(***************************************************************************)
EveryWriterSucceeds ==
    \A c \in Client : authorizeSubmit(RequestMsp[c]) => <>(pc[c] = "ok")

(***************************************************************************)
(* The client on its channel implements the abstract chain: the records of *)
(* the ledger are the chain, each owned by the call whose transaction      *)
(* wrote it, and the place where a call ended is its answer.               *)
(***************************************************************************)
AbstractChain ==
    [i \in 1..Len(history) |->
        [content |-> history[i].dataHash, by |-> Owner(history[i].recordID)]]

AbstractAnswer == [c \in Client |-> IF pc[c] \in Done THEN pc[c] ELSE "none"]

Abstract == INSTANCE ProfileChain WITH
    Request <- Client,
    Content <- RequestHash,
    chain   <- AbstractChain,
    answer  <- AbstractAnswer

(***************************************************************************)
(* Every behaviour of the client, its peers and the ordering service is a  *)
(* behaviour of the abstract chain.                                        *)
(***************************************************************************)
ImplementsProfileChain == Abstract!Spec
=============================================================================

# fabric-hris: verification project

TLA+ models of fabric-hris, which anchors salted digests of HR profile sections
on a Hyperledger Fabric channel, keeps salts, keys and documents off chain, and
lets anyone with the current value check it against the latest anchor.  The
models are checked with TLC on small instances; all safety properties, and the
two refinements, are proved with TLAPS for every instance.

`PROJECT.json` lists the components, the runs, the source lines each definition
translates, the hazards and the theorems.

## The system and its parts

A request travels: HTTP caller -> **bridge pipeline** (authenticate, validate,
dispatch, classify, respond) -> **write-path hook** -> operational store, key
store, salt store, IPFS -> **gateway client** -> endorsing peers, ordering
service, peers -> **chaincode**.  A verification goes the same way up to the
salt store and reads the ledger instead of writing it.

| Part (under `src/`) | State | Operations | What is hard | What makes it correct |
|---|---|---|---|---|
| Chaincode (`fabric-network/chaincode/employeeprofilerecord/chaincode/`) | the world state and its history per (employeeID, section) | `RecordProfileSection`, `GetProfileSectionRecord`, `GetProfileHistory`, `GetEmployeeProfileSummary` | it decides on the state of the endorsing peer, which is stale at commit time | versions count 1, 2, 3..., each record links to the one before, no neighbouring duplicates, only co-signers write, the queries agree |
| Gateway client (`write-path-integration/gateway-client/`) | none between calls; within a call the attempt and the chain reference | `SubmitRecordProfileSection`, the evaluate calls | contention, stale reads, retries, commit-status timeouts | at most one record per call, truthful answers, termination |
| Secret stores (`write-path-integration/keystore/`) | one encrypted file each: employee keys, salts, document keys | get-or-create, put, get, delete, delete all | concurrent requests, I/O errors, death of the process in a save | every call atomic, no secret lost, no torn file, no lock kept |
| Hooks and erasure (`write-path-integration/writepaths/`) | the operational store (in memory) | six hooks (`UpdatePersonalData`, `ApproveEmploymentTransfer`, ...), `Erase` | five to six calls on different stores without a transaction around them | an anchor never lacks its salt, a salt serves one record, answers say what was done, an erasure leaves no secret |
| IPFS client (`write-path-integration/ipfsclient/`) | ciphertexts on two nodes | add and pin, fetch and decrypt | the second node may refuse | erased documents cannot be opened |
| Bridge pipeline (`integration-bridge/internal/pipeline/`) | none | the five stages, the verify and the history route | a hook's error must become the right one of four answers, after the deadline too | "committed", "partial_failure", "error" and "rejected" mean what they say |
| Bridge process (`integration-bridge/cmd/integrationbridge/`) | one gateway connection, one HTTP server | start, serve, shut down | handlers outlive budget, write timeout and drain | bounded handlers, gateway closed last, shutdown ends |
| History route (`integration-bridge/internal/pipeline/history.go`) | none | one ledger query per section, merge, sort | sections read at different moments from different peers; clocks of the submitting clients | no partial history, newest first |
| Salt hand-off (`write-path-integration/keystore/handoff.go`) | the audit log | `RequestSalt` | policy and lookup are two steps, check and sink may fail | no salt without permission, a true audit trail |
| Provisioning tools (`fabric-network/tools/netjoin`, `tenantprovision`, `ccdeploy`, `raftfaulttest`) | containers, key material, channel artifacts, what nodes have joined, installed and approved | join the first channel, provision a tenant, deploy the chaincode, probe Raft | sequences of commands without rollback, run again after a failure | SUCCESS means every node, one genesis block, one package; the quorum is given back |
| Ledger scanner (`fabric-network/tools/pilscan`) | findings per channel | scan every block of every channel | the ledger grows, fetches fail, envelopes do not decode | PASS covers all that was there |
| Benchmark dashboard (`caliper-dashboard/backend`) | file offsets, live flag, node health, event stream | two tailers, a poller, a stream | files appended to, truncated and recreated under a tailer | lines shown once and whole, the tailer catches up |

Not modelled, and why: the canonicalization check (`jcsverify`) compares a
library with test vectors; the dashboard's health poller keeps no state beyond
one poll, its event stream forwards to whoever is connected, its frontend
renders; the performance workloads are test equipment; certificates, TLS,
environment variables and HTTP framing are I/O.

## Modules

`EmployeeProfileRecord` - the contract's functions as operators: authorization,
validation in the order of the code, the no-op rule, the chain rule, the next
version, the record.  Digests are opaque.  Timestamps, CIDs, scheme tags and the
event travel with a record and play no part in a decision; a boolean argument
(`filled`) stands for "all required fields present".

`ProfileContract` (extends it) - the contract on a channel under arbitrary
callers.  `Endorse` simulates a call against any committed prefix of the key's
history, `Commit` validates it against the read version, `Lose` drops it.
Fabric itself is external: only what contract and client rely on is stated.

`GatewayClient` (extends `EmployeeProfileRecord`) - one `Client` per invocation
of `SubmitRecordProfileSection`.  `pc` follows the function: `seed` (best-effort
read), `submit`, `await` (commit status), `reread`, and the return.  The actions
are the outcomes the code tells apart: `Committed`, `ReadConflict`
(retried after a re-read), `SubmitStale` (the contract's stale-reference error,
retried), `SubmitRefused`, `OtherwiseInvalid`, and one `...Unavailable` per
remote call.  A peer's view is a prefix of the history and advances by `CatchUp`.
Every failure ends in `"error"`, the code's one `*LedgerError`, also the
commit-status timeout (`StatusUnavailable`), after which the transaction may still
be committed.

`ProfileChain` - the abstract specification: a chain that requests append to and
one answer per request, without attempts, peers or ordering.  A request answered
with an error may still be anchored.
`GatewayClient!ImplementsProfileChain` is the refinement.

`SecretStore`, `AtomicStore`, `FileStore` - what an operation does to the map
(`Outcome`), a store whose calls take effect in one step, and the encrypted file:
lock, load, change, write the temporary file (torn until it is complete), rename,
unlock, an I/O error at any of these, the death of the process at any point.
`FileStore!ImplementsAtomicStore` is the refinement.

`BridgePipeline` - dispatch, classify and respond as operators.

`WritePaths` (extends it) - the bridge process with all stores.  A step is one
call on one store (`FileStore` shows that this is sound) or one use of the
ledger (`ProfileChain` says what that may do), so requests interleave between
calls.  Writes: `SaveSection`, `ResolveEmployeeKey`, `PutSalt`,
`FetchDocumentKey`, `EncryptAndAdd`, `SubmitSucceeds`.  Verifications:
`ResolveEmployeeID`, `EvaluateGetProfileHistory` (at a peer that is up to date; one
that lags is in `HistoryRoute`), `GetSalt`.  Erasures: sections,
document key, pseudonym, salts, employee key, in this order.  Faults: each call
may fail, a pin may fail after the add, a submission may end unknown and reach
the ledger later (`AnchorLate`), the process may `Restart`.  `SaveSectionFails`
comes from the `OperationalStore` interface; the in-memory implementation never
fails.  A key or pseudonym is the number of the random draw, a salt is the write
that drew it, a digest is the pair of salt and value.

`BridgeServer` - the same process in time: handlers, the dispatch budget (which
bounds what takes a context), the submission timeouts (which the budget cannot
cut short), the HTTP write timeout, the shutdown sequence.

`AnchoredLog`, `HistoryRoute`, `SaltHandoff`, `ReadSide` - the two ways to read
what was anchored.  `AnchoredLog` is what both find: committed records, each with
its block and the timestamp of the submitting client's clock, peers that lag,
employee keys and salts; a write and an erasure are one step there, since `WritePaths` takes them
apart.  `HistoryRoute` answers a request in steps (`Receive`,
`ResolveEmployeeID`, one `EvaluateGetProfileHistory` per section at any peer,
`Merge`, or `DependencyFails`).  The stable sort is given by ranks: the place of an
entry is one more than the number of entries before it.  `SaltHandoff` is `RequestSalt`: `Authorize` (or
its failure), `GetSalt` (a lookup that fails ends like one that finds nothing,
without an audit entry), `Record` (or the sink's failure), under a policy that
changes at any moment.  `ReadSide` composes them.

`FabricNetwork` - the network the command-line tools work on (running orderers,
genesis block files, what each node has joined with, ledgers) and the control of
the one tool that runs.  `NetJoin`, `TenantProvision`, `CcDeploy`,
`RaftFaultTest` and `PilScan` extend it, one module per tool and one action per
command; `NetworkTools` composes them with `Interrupt` (a command fails, or the
tool is killed; nothing is undone), the operator's repairs and the application's
writes.  The operator may take a channel from the orderers (`RemoveChannel`) and
reset one peer at a time (`ResetPeer`), in any order and without the other.  An
orderer that already has a channel refuses to join it again in its HTTP answer;
`osnadmin` prints that and exits with 0, and `tenantprovision` looks at the exit
status only, so `joinNewOrderer` goes on.  What `osnadmin` does is taken from Fabric
2.5, it is not part of this repository.  `retouched` records that the latest run of
`tenantprovision` began with a node on the channel; `neglected`, that a run of
`raftfaulttest` ended in its second probe or could not start the second victim.  Of a half-written file the model keeps that it is there: the step that
looks for it skips it and the next command that reads it fails
(`genChannelBlock`, `ComposeUp`).  Of a transaction `PilScan` keeps the facts the
scan's patterns can tell.

`Tailer` - one of the dashboard's two file watchers, over a file that holds a
part of a fixed text of bytes.  `Stat` and `Read` are the two system calls of a
tick; the benchmark's `Write` and `Replace` come between them.  Bytes have
classes, so that the difference between a byte offset and the length of a
decoded string exists in the model, two UTF-16 units for four bytes included.  `Split` gives the lines of a range as a set
of first and last positions, `InOrder` puts them in a sequence by rank.

`MC...` modules give requests their contents; the `.cfg` files choose the
instance.  The theorems are in modules of their own: `ProfileContractProofs`,
`GatewayClientProofs` (with the refinement), `FileStoreProofs`,
`WritePathsProofs`, `BridgeServerProofs`, `ReadSideProofs`, `NetworkToolsProofs`
and `TailerProofs`.  Definitions marked "Mutant" are changed
copies of the definition below them; each property is known to fail when one of
them takes its place.

## Runs

| Run | Instance | Shows |
|---|---|---|
| `profile_contract` | one employee, two sections and a name that is none, two digests, every MSP, 4 transactions | the contract's chain, no-op and query properties |
| `gateway_contention` | three writers, two with equal content, 4 attempts, all faults, fairness | inductive invariant, `AtMostOnce`, `SuccessIsAnchored`, `RetryOnlyAfterDeath`, refinement, `EveryCallReturns` |
| `gateway_retry_budget` | three competing writers, 3 attempts, a caller without permission, no faults | the budget is enough for contention alone |
| `write_paths_faults` | two writes (one with a document), a verification, an erasure, all faults, one restart | salts, answers and ledger agree |
| `write_paths_keys` | three writes of a record and a sub-record (one padded), two verifications, all faults | pseudonyms meet, salt slots are free, "verified" is true |
| `write_paths_quiet` | three writes, three verifications, an erasure, one after the other without faults | verifiability, no false alarm, complete erasure |
| `verify_after_failed_anchor` | a write whose anchor fails, a write, a verification | violation, see below |
| `file_store` | six calls on two identifiers, I/O errors, one crash, fairness | atomicity, no lost secret, refinement, `EveryCallEnds` |
| `bridge_server` | two handlers, a shutdown at any moment, fairness | bounded handlers, order of closing, `ShutdownEnds` |
| `read_side` | one employee, two sections, two peers, three records, two clock values, two keys; a history request for all sections and a malformed one; two requests for one salt | complete histories, newest first, no salt without permission, a true audit trail |
| `network_tools` | three orderers, two channels of two peers that share one, three tool runs in any order, two packages, one block of the application | what SUCCESS, PASS and FATAL of the five tools mean; quorum given back |
| `dashboard` | ten bytes of latency records, fifteen of log with a three-byte and a four-byte character, truncation and removal at any moment, fairness | lines once and whole, `CatchesUp` |

Why the bounds are enough.  Chain and conflict properties relate a record to its
predecessor: four transactions allow a conflict, a retry, a duplicate and a late
arrival.  A client conflicts only with clients of its own key; three writers let
one lose to two others, two equal contents reach the no-op rule on a retry.
Requests to the bridge share keys, salts and counters only for the same employee
and section, so one of each suffices; two writes show every ordering of
counter, salt and anchor, and one restart separates counters from salts for
good.  A store call can only be disturbed by the one before it and by a crash.
Three records let a section have a newer version above an older one with another
section between; one salt asked for twice shows both orders of grant, revocation
and erasure.  In `read_side` neither side reads a variable of the other, so the
constraint `OneSideBusy` leaves out only the states in which both are busy.  Three
runs of tools are enough for a failed run, a repair by another tool and a third
that relies on both; the channels' four peers are reduced to the shared one and
the tenant's own, which the tools treat differently.  Only `pilscan` looks into a
block of the application, so the constraint `WrittenForTheScan` lets no other tool
step once it is written.  In `dashboard` a file can be
replaced by a shorter and by a longer one within and between ticks.
Durations in `bridge_server` keep the order of the real ones (30 s budget,
10 s buffer, 15 s + 5 s + 1 min of submission, 10 s drain): a submission
outlasts the drain and, started late, the write timeout, and several attempts
fit into the budget.

Deadlock is checked where the system never stops (`profile_contract`).  The other
instances serve a finite set of calls and then rest.

Fairness.  `GatewayClient`: each client keeps taking steps; every remote call it
makes has a timeout (`gatewayclient.go:77-80`), so waiting ends.  Nothing is
assumed of peers or ordering.  The fault-free run adds that they do work.
`FileStore`: as long as some call can step, one does; no fairness of the mutex.
`BridgeServer`: time passes, started handlers and the main goroutine are scheduled.
`Tailer`: `setInterval` keeps calling `tick` and system calls return; the
benchmark owes nothing, it may stop in the middle of a line.

## Proofs

TLC checks small instances; the theorems below hold for every value of the
constants that satisfies the named assumptions, so for any number of clients,
calls, employees, peers and faults.  Each module states one inductive invariant
`IInv` as a conjunction of named parts, shows that every action keeps it, and
derives the properties from it.  `TypeOK` is always the first part.

**Contract** (`ProfileContractProofs`).  Assumptions: the sections called are
names, transaction numbers are natural, "no record" is no record, "no hash" no
hash.  `ChainIntact` is not inductive alone: what a commit appends was computed
earlier, against a head that may be gone.  `PendingFits` describes a pending
transaction by the version it was simulated against; the check of the read
version at commit makes that version the last one.

- `ChainsStayIntact`, `NothingIsAnchoredTwice`: the chain under every key.
- `RecordsAreImmutable`: no step changes or removes a committed record.
- `QueriesTellOneStory`: head, history and summary agree, whatever order the
  history iterator delivers.  The sort is a permutation chosen by its result; that
  sorting a shuffled chain gives the chain back is proved by a least
  counterexample (the first place where they differ), since induction is not
  available.

**Gateway client** (`GatewayClientProofs`), for every content and MSP per client
and every retry bound (`HashAssumption`, `RequestAssumption`: each attempt has its
own transaction identifier).

- `Invariance`: besides types, `SeenInv` (no peer runs ahead); `ChainIntact`;
  `OrderingInv` (what is with the ordering service is the current attempt of its
  call, once and undecided, and fits the record it read); `HistoryInv` (each record
  was written by the current, valid attempt of its call, and by no other);
  `VerdictInv` (attempts not made are undecided, a valid one has anchored its
  result).  That a record fits when its read version is current is the ordering
  part, and that no second attempt of the same call is under way the verdict part.
- From it `TypeCorrect`, `ChainNeverBreaks`, `RetryIsSafe`, `SuccessIsReal`, and the
  action property `RetriesFollowDeath`: another attempt is made only when the call
  has no record on the ledger and nothing under way.
- `Refinement`: the client, peers and ordering service implement `ProfileChain`.
  A valid, writing transaction is `Anchor`; a return is a reply; all else stutters.

**Secret stores** (`FileStoreProofs`), for every set of calls and identifiers and
every number of crashes (`StoreAssumption`, `FileStoreAssumption`).

- `StoreInvariance`: the store file is never torn; who is between lock and unlock
  holds the mutex; a call on its way to save holds what the file leads to.  The
  last part is what makes atomicity inductive.
- `StoreRefinement`: the file store implements the atomic store.  A call that
  saves takes effect at the rename, every other one at the load.
- `SecretsAreKept`: a secret that was handed out stays readable until it is
  deleted.

**Hooks, verify route and erasure** (`WritePathsProofs`), under `CallAssumption`
(the three kinds of call are disjoint, each has an employee, an identity and a
section, trimming maps identities to identities).

- `WritePathsInvariant`, with all faults, restarts and interleavings: `KeyInv` (a
  pseudonym belongs to one lookup for ever), `ProgressInv` (what a call has when
  it has come to a label), `SaltInv` (a stored salt is the one its write put there,
  until its pseudonym is shredded), `LedgerInv` (a record is its write's only one,
  under its write's pseudonym, with its write's salt, and nothing of that write is
  on its way), `AnswerInv` and `CounterInv` (until a restart no two writes have the
  same version of a section).  The properties speak of ledger, salt store and
  answer; what links the three is the write that produced them, and that link is
  what the invariant keeps.
- From it `AnchorsCanBeOpened`, `SaltsAreUsedOnce`, `CommittedWritesAreAnchored`,
  `ErrorsLeaveNoTrace`, `OnePseudonymPerRecord`, `SlotsAreFree` and
  `VerifiedValuesWereWritten`.
- `DestroyedKeysStayGone` (`ErasedKeysAreGone`), `OldPseudonymsStayUnused` (the
  action property `OldPseudonymsAreLeft`): what of an erasure survives every
  interleaving with other requests and other erasures, sub-records, faults and
  restarts included.  The key of the employee's own record and the document key
  do not come back, earlier documents stay unreadable, and no later call resolves
  an earlier pseudonym, so only requests that had resolved it before can still
  leave a salt under it.  `DestroyedInv`: since an erasure began, draws only go up
  (`SinceInv`); once it has deleted the document key (`DocumentInv`) and the
  employee key (`GoneInv`), what takes their place is a later draw.  Salts are not
  covered; the next section says why.  Both properties are defined beside their
  proofs and no listed run checks them.
- `ErasureLeavesNothing`: with requests one after the other, faults included (the
  run leaves them out) but no restart, an erasure that was answered leaves no
  key, salt or readable document.  It needs, besides `DestroyedInv`, that a salt is
  kept only as long as the key of its pseudonym (`KeptInv`).
- `AnchorsAreVerifiable`, `AlarmsAreReal`: the same without faults.  `VersionInv`:
  the operational version counter, the length of the ledger chain and the number
  of every record in it go in step.

The last two points have the hypothesis `MainRecordsOnly` (no sub-records).  It is
the code's own limit, listed in the next section: `Erase` derives the pseudonym of
the main record only, and a sub-record shares the counter of its section.

**Bridge process** (`BridgeServerProofs`), for all durations that are natural
numbers (`DurationAssumption`): `HandlersAreBounded` and `GatewayIsClosedLast`.  A
bound on the total time is not inductive; `Budget` bounds it by phase (within the
budget before a submission, then the budget plus what this submission has
taken).  `Drain` says what the main goroutine has established when it closes the
gateway.

**Salt hand-off** (`ReadSideProofs`), under any change of policy
(`AskedAssumption`): `HandoffFailsClosed` and `AuditLogAgrees`.  `PermitInv` ties a
request past `Authorize` to a moment of its own life at which the policy accepted
it; `AuditInv` says for each access and verdict that the log has as many entries
as requests were answered, those whose entry was lost excepted.

**History route** (`ReadSideProofs`), for any sections (each listed once,
`AnchoredLogAssumption`), peers, clocks and requests (`QueryAssumption`: a request
that passes the checks names an employee the key store can be asked for).

- `HistoryInvariant`: `LogInv` (no peer and no record is ahead of the channel, every
  key was drawn), and for each request `Route`: the key and the peers' heights have
  not gone back behind its beginning; of the sections it is through with it has
  versions 1..n, of those still to be queried nothing, and no entry twice.  What was
  seen of a chain at a past height does not change when the chain grows, which is
  why interleaved writes do not disturb it.
- `HistoriesAreWhole`, `FeedIsNewestFirst`.  That the ranks of n entries are exactly
  1..n follows from counting: ranks rise along a total order, so no two are equal.
  Two versions out of order lead to the first version between them whose timestamp
  is not above the older one's (a least element again).

**Network tools** (`NetworkToolsProofs`), for any number of orderers (three or more,
as `raftfaulttest` needs), peers, channels, packages and tool runs
(`NetworkAssumption`: the lists name each orderer once and no node is both;
`VictimAssumption`, `PackagesAssumption`, `FactsAssumption`).

- `NetworkToolsInvariant` has a part for each tool that says what has been done
  when it has come to its current command: `JoinInv`, `ProvisionInv`, `LeftoverInv`
  (a run that began with nothing left over), `DeployInv`, `ScanInv`; `RaftInv` (only
  the two victims are ever stopped, and the second one only in the second probe or
  after a run that neglected it); `GenesisInv` (unless the latest run found a node on
  the new channel, whoever has joined has the block on disk); `OutcomeInv` (what the last
  verdict promised still holds).
- From it `NodesShareTheGenesis` (but for runs of `tenantprovision` over a
  channel that a node already has; see the next section), `EveryoneHasJoined`, `ProvisioningRepeats`,
  `OnePackageIsServed`, `MajorityRuns` and `PassedLedgersAreClean`.

**Dashboard tailer** (`TailerProofs`), for every text of bytes (`TextAssumption`):
lines of any length, characters of any number of bytes.

- `LinesOnceAndWhole`.  The property compares what was shown with the lines up to
  the offset, and the offset is no place in the text that means anything: after a
  character of several bytes it lags behind what was read.  `Reached(m)` names the
  last line end `m` that was read: the offset is at most there, everything due up to
  `m` has been shown, and where all characters up to the offset have one byte the
  offset is at `m` and nothing else has been shown.  A later read starts at the
  offset and ends at `m` or a line end after it, and what is due up to there is
  what was due up to `m` and lines of this read.
- The lemmas say that lines lie apart (`SplitApart`), that cutting at a line end
  splits the set of lines in two (`SplitAt`), and that ranking two sets of
  which one lies before the other gives the two sequences one after the other
  (`InOrderUnion`), which is counting instead of induction.

Only model-checked: the liveness properties (`EveryCallReturns`,
`EveryWriterSucceeds`, `EveryCallEnds`, `ShutdownEnds`, `CatchesUp`), which are out
of the prover's reach.

## Where documents and code disagree

`verify_after_failed_anchor` shows the first one; it has a finding in
`PROJECT.json`.

- The verify route finds the salt by the ledger's version, the write path stores
  it under the operational store's.  One failed anchor separates the two, and an
  untouched value is called compromised (`verify.go:116`;
  `verify_after_failed_anchor`).

Two more are behaviours of the models, and the properties are stated so that they
are let through and nothing else is:

- `writepaths.go:182-187` takes any error of the ledger call to mean that the anchor
  was not made.  The commit-status timeout is returned as the same `*LedgerError` as
  every other failure (`gatewayclient.go:132`), and the transaction may be committed
  afterwards.  In `GatewayClient` a call ends in `"error"` with its transaction under
  way, and in `ProfileChain` a request answered with an error may be anchored later;
  TLC reaches such a state in five steps.  `RetryOnlyAfterDeath` and `AtMostOnce` say
  that at least the client itself does not submit after it.
- `tenantprovision` is called one repeatable procedure (`main.go:1-5`).  Each run
  makes a new genesis block; orderers and peers that have the channel keep the old
  one, and neither refusal stops the tool.  A run that was killed while orderers
  joined, or a channel taken from the orderers and not from the peers, followed by a
  second run, which ends with SUCCESS, leaves two genesis blocks on one channel: the
  mismatch that `docs/runbooks/network-operations.md:138-141` records.  `OneGenesis`
  exempts the new channel after a run that began with a node on it (`retouched`)
  and holds everywhere else.

The passing runs stay within what the code promises and so leave out the
following, which come from the same places and were seen while modelling:

- After a restart the version counters start again while the salts are kept, so
  the next write finds its salt slot taken (`wiring.go:69`); `SaltSlotIsFree` is
  stated for a process that was not restarted.
- A write that has resolved its pseudonym stores a salt after an erasure has
  deleted them (`erasure.go:53`); `ErasureIsComplete` is checked for requests one
  after the other.  Of two overlapping erasures of one employee the later deletion
  by lookup takes a key drawn after its own pseudonym was derived, without the
  salts of that key's pseudonym, and no further erasure finds them.
- A sub-record (a record identity) shares the counter of its section and has a
  ledger chain of its own, so its versions differ as soon as another record of
  the section was written (`verify.go:116`); `write_paths_quiet` therefore
  verifies main records only.
- `Erase` derives the pseudonym of the main record only (`erasure.go:45`): keys
  and salts of sub-records stay.
- Each write draws a fresh salt, so a repeated write is anchored again, while
  `agent-suite/context/BLOCKCHAIN-INTEGRATION.md:158` calls it an idempotent no-op.
- The write route trims the record identity (`validate.go:73`), the verify route
  does not (`verify.go:79`).
- A submission that succeeds late outlives the HTTP write timeout
  (`main.go:111`), so its caller never reads the "committed" that
  `1-2-talenta-core-can-anchor-a-personal-section-change.md:78` promises.
- A history read draws and stores a key for an employee that was never written or
  has been erased (`history.go:142`).
- `handoff.go:43-50` takes a denial in the audit log to mean that something
  existed; authorization comes before the lookup, so it says nothing of that.
- Both tailers advance a byte offset by the length of the decoded string
  (`rawLatencies.ts:64`, `callerLog.ts:36`).  After a character of several bytes
  the end of the last line is read and shown again, against the comment "only
  advance the offset past the last COMPLETE line"; `ShownOnceAndWhole` claims
  "once" for one-byte text only.  A file that was replaced and has outgrown the
  offset by the next tick is read from the middle.
- `ccdeploy` may approve an older package of the same label, and cannot be run
  again after its commit, because the sequence number is a constant.
- The record `ccdeploy` writes as a smoke test does not have the shape `pilscan`
  asks for, so a scan after a deployment never passes.
- The verdict of `raftfaulttest` can be wrong when a `docker stop` fails or the
  height cannot be read, and a FATAL or a kill in its second probe leaves the network
  without a quorum (`main.go:250-274`); `QuorumKept` is about every other exit.

Also outside the models: `FileStore` covers the death of the process, not a power
failure (there is no fsync before the rename); HMAC, AES-GCM and canonicalization
are taken as injective; a failing random source is not modelled.

## Plan

Done, in this order: contract; client and its proofs; secret stores and their
proofs; hooks with pipeline; the process in time; history route and salt
hand-off; the five network tools; the tailers.

Proved since: all safety properties, both refinements, and what of an erasure
survives requests that interleave with it.

Left: liveness, which the prover cannot do; and the parts listed above as not
modelled.

------------------------- MODULE NetworkToolsProofs -------------------------
(***************************************************************************)
(* The command-line tools, for any number of orderers (three at least, as  *)
(* raftfaulttest stops two), peers, channels, transactions and runs.       *)
(***************************************************************************)
EXTENDS NetworkTools, FiniteSetTheorems, TLAPS

Block == AppBlocks \union {{"config"}, {"lifecycle"}, {"smoke"}}

TypeOK ==
    /\ up \subseteq Orderer
    /\ genesis \in [Channel -> Nat]
    /\ joined \in [Channel -> [Node -> Nat]]
    /\ ledger \in [Channel -> Seq(Block)]
    /\ i \in Nat \ {0}
    /\ files \in [Parts -> {"absent", "partial", "whole"}]
    /\ keys \in Nat /\ loaded \in Nat
    /\ package \in Nat \ {0}
    /\ installed \in [Peer -> SUBSET (1..package)]
    /\ approved \in [Range(Approvers) -> Nat]
    /\ committed \in BOOLEAN /\ neglected \in BOOLEAN /\ retouched \in BOOLEAN

\* A tool that runs has not ended.
NoOutcome == [tool |-> "none", verdict |-> "none"]
RunInv    == tool # "none" => outcome = NoOutcome

(***************************************************************************)
(* raftfaulttest.  The first victim may be stopped at any time, left so by *)
(* any earlier run; the second one only while the second probe lasts.      *)
(***************************************************************************)
Stopped ==
    IF tool = "raft" /\ pc \in SecondProbe THEN {Victim[1], Victim[2]} ELSE {Victim[1]}

RaftInv ==
    /\ Orderer \subseteq up \union {Victim[1], Victim[2]}
    /\ neglected \/ Orderer \subseteq up \union Stopped

(***************************************************************************)
(* Genesis blocks.  The first tenant has one.  On the new channel every    *)
(* node that has joined has the block on disk, as long as the latest run   *)
(* of tenantprovision began with none.                                     *)
(***************************************************************************)
New == joined[NewChannel]

GenesisInv ==
    /\ genesis[Home] = 1
    /\ \A c \in Channel \ {NewChannel}, n \in Node : joined[c][n] \in {0, 1}
    /\ ~retouched => \A n \in Node : New[n] \in {0, genesis[NewChannel]}

(***************************************************************************)
(* How far netjoin and tenantprovision have come.                          *)
(***************************************************************************)
JoinInv ==
    tool = "netjoin" =>
        /\ pc \in {"orderers", "peers", "verify"}
        /\ pc = "orderers" =>
             i \in DOMAIN Orderers /\ \A k \in 1..(i - 1) : joined[Home][Orderers[k]] # 0
        /\ pc \in {"peers", "verify"} => \A o \in Orderer : joined[Home][o] # 0
        /\ pc = "peers" => i \in DOMAIN HomePeers

Early == {"crypto", "org", "profile", "genesis", "compose", "up"}

\* The commands up to the one that makes the block.
Unmade == {"crypto", "org", "profile", "genesis"}

ProvisionInv ==
    tool = "provision" =>
        /\ pc \in Early \union {"orderers", "peers", "verify"}
        /\ pc \in Unmade /\ ~retouched => \A n \in Node : New[n] = 0
        /\ pc \in {"compose", "up", "orderers", "peers", "verify"} => genesis[NewChannel] # 0
        /\ pc = "orderers" =>
             i \in DOMAIN Orderers /\ \A k \in 1..(i - 1) : New[Orderers[k]] # 0
        /\ pc \in {"peers", "verify"} => \A o \in Orderer : New[o] # 0
        /\ pc = "peers" => i \in DOMAIN NewPeers /\ \A k \in 1..(i - 1) : New[NewPeers[k]] # 0
        /\ pc = "verify" => \A p \in Range(NewPeers) : New[p] # 0

(***************************************************************************)
(* A run of tenantprovision that found nothing left over.                  *)
(***************************************************************************)
LeftoverInv ==
    tool = "provision" /\ ~began =>
        /\ \A part \in Parts : files[part] # "partial"
        /\ Orderer \subseteq up
        /\ pc = "crypto" => loaded = 0 \/ (files["crypto"] # "absent" /\ loaded = keys)
        /\ pc \in Early \ {"crypto"} => loaded \in {0, keys}
        /\ pc \in {"orderers", "peers", "verify"} => loaded = keys

(***************************************************************************)
(* ccdeploy: one package, read once and used to the end.                   *)
(***************************************************************************)
SmokeOrdered == \E b \in Range(ledger[Home]) : "smoke" \in b

DeployInv ==
    tool = "deploy" =>
        /\ pc \in {"install", "query", "approve", "ready", "commit", "invoke", "check"}
        /\ pc = "install" => i \in DOMAIN DeployPeers
        /\ pc \in {"approve", "ready", "commit", "invoke", "check"} => local \in 1..package
        /\ pc = "approve" => i \in 1..2 /\ (i = 2 => approved[Approvers[1]] = local)
        /\ pc \in {"ready", "commit", "invoke", "check"} =>
             \A p \in Range(Approvers) : approved[p] = local
        /\ pc \in {"invoke", "check"} => committed
        /\ pc = "check" => SmokeOrdered /\ \A p \in Range(Approvers) : local \in installed[p]

(***************************************************************************)
(* pilscan: what has been looked at without a finding is clean.            *)
(***************************************************************************)
Clean(tx) ==
    /\ ~Is(tx, "fixture")
    /\ {"decodes", "endorser", "responds", "record"} \subseteq Facts[tx] =>
         Is(tx, "argsShaped") /\ Is(tx, "valueShaped")

CleanTo(c, m) == \A n \in 1..m : \A tx \in ledger[c][n] : Clean(tx)

BeganInv == \A c \in Channel : began[c] \in 0..Len(ledger[c])

ScanInv ==
    tool = "scan" =>
        /\ pc \in {"newest", "blocks", "verdict"}
        /\ BeganInv
        /\ DOMAIN local = {"height", "n", "findings", "pass"}
        /\ local.height \in Int /\ local.n \in Nat /\ local.pass \in BOOLEAN
        /\ pc \in {"newest", "blocks"} => i \in DOMAIN Channels
        /\ local.pass => \A k \in DOMAIN Channels :
             k < i \/ pc = "verdict" => CleanTo(Channels[k], began[Channels[k]])
        /\ pc = "newest" => local.n = 0 /\ local.findings = {}
        /\ pc = "blocks" =>
             /\ began[Channels[i]] <= local.height + 1
             /\ local.height + 1 <= Len(ledger[Channels[i]])
             /\ local.n <= local.height + 1
             /\ local.findings = {} => CleanTo(Channels[i], local.n)

\* What the tools' verdicts mean.
OutcomeInv ==
    /\ SuccessMeansEveryone /\ RepeatUnlessLeftover /\ DeployedIsServed
    /\ Ended("scan", "success") =>
         BeganInv /\ \A c \in Range(Channels) : CleanTo(c, began[c])

IInv == /\ TypeOK /\ RunInv /\ RaftInv /\ GenesisInv /\ JoinInv /\ ProvisionInv
        /\ LeftoverInv /\ DeployInv /\ ScanInv /\ OutcomeInv

-----------------------------------------------------------------------------
(***************************************************************************)
(* The lists the tools walk through.                                       *)
(***************************************************************************)
LEMMA OrdererFacts ==
    /\ Home \in Channel /\ NewChannel \in Channel /\ Home # NewChannel
    /\ Orderer \subseteq Node /\ Peer \subseteq Node /\ Orderer \cap Peer = {}
    /\ Node = Orderer \union Peer
    /\ Len(Orderers) \in Nat /\ Len(Orderers) >= 3 /\ DOMAIN Orderers = 1..Len(Orderers)
    /\ \A k \in DOMAIN Orderers : Orderers[k] \in Orderer
    /\ \A o \in Orderer : \E k \in DOMAIN Orderers : o = Orderers[k]
    /\ \A k, m \in DOMAIN Orderers : Orderers[k] = Orderers[m] => k = m
<1>1. Orderers \in Seq(Orderer) /\ Orderer \cap Peer = {} /\ IsInjective(Orderers)
  BY NetworkAssumption
<1>2. Len(Orderers) \in Nat /\ DOMAIN Orderers = 1..Len(Orderers)
      /\ \A k \in DOMAIN Orderers : Orderers[k] \in Orderer
  BY <1>1
<1>3. \A o \in Orderer : \E k \in DOMAIN Orderers : o = Orderers[k]
  BY DEF Orderer, Range
<1>4. \A k, m \in DOMAIN Orderers : Orderers[k] = Orderers[m] => k = m
  BY <1>1 DEF IsInjective
<1> QED BY <1>1, <1>2, <1>3, <1>4, NetworkAssumption, VictimAssumption DEF Node

\* The peers of a channel.
LEMMA PeerFacts ==
    ASSUME NEW c \in Channel
    PROVE  /\ Len(Peers[c]) \in Nat /\ Len(Peers[c]) > 0 /\ DOMAIN Peers[c] = 1..Len(Peers[c])
           /\ \A k \in DOMAIN Peers[c] : Peers[c][k] \in Peer /\ Peers[c][k] \in Node
           /\ \A p \in Range(Peers[c]) : p \in Node /\ p \in Peer /\ \E k \in DOMAIN Peers[c] : p = Peers[c][k]
           /\ Head(Peers[c]) = Peers[c][1] /\ Last(Peers[c]) = Peers[c][Len(Peers[c])]
           /\ Last(Peers[c]) \in Range(Peers[c])
<1>1. Peers[c] \in Seq(Peer) /\ Peers[c] # <<>>
  BY NetworkAssumption
<1>2. Len(Peers[c]) \in Nat /\ Len(Peers[c]) > 0 /\ DOMAIN Peers[c] = 1..Len(Peers[c])
      /\ \A k \in DOMAIN Peers[c] : Peers[c][k] \in Peer
  BY <1>1
<1>3. Head(Peers[c]) = Peers[c][1]
  BY <1>1
<1>4. Last(Peers[c]) = Peers[c][Len(Peers[c])]
  BY DEF Last
<1>5. Range(Peers[c]) = {Peers[c][k] : k \in DOMAIN Peers[c]}
  BY DEF Range
<1> QED BY <1>2, <1>3, <1>4, <1>5 DEF Node

\* The peers of the two organizations that approve.
LEMMA ApproverFacts ==
    /\ Len(Approvers) = 2 /\ Range(Approvers) = {Approvers[1], Approvers[2]}
    /\ Range(Approvers) \subseteq Peer
<1>1. Approvers[1] = Head(DeployPeers) /\ Approvers[2] = Last(DeployPeers) /\ Len(Approvers) = 2
      /\ DOMAIN Approvers = {1, 2}
  BY DEF Approvers
<1>2. Range(Approvers) = {Approvers[1], Approvers[2]}
  BY <1>1 DEF Range
<1>3. Head(DeployPeers) \in Peer /\ Last(DeployPeers) \in Peer
  BY OrdererFacts, PeerFacts DEF DeployPeers
<1> QED BY <1>1, <1>2, <1>3

\* The orderers raftfaulttest stops.
LEMMA VictimFacts == Victim[1] = Orderers[2] /\ Victim[2] = Orderers[3] /\ Range(Victim) = {Victim[1], Victim[2]}
<1>1. Victim[1] = Orderers[2] /\ Victim[2] = Orderers[3] /\ DOMAIN Victim = {1, 2}
  BY DEF Victim
<1> QED BY <1>1 DEF Range

-----------------------------------------------------------------------------
(***************************************************************************)
(* The network before any tool was run satisfies the invariant.            *)
(***************************************************************************)
LEMMA InitIInv == Init => IInv
<1> SUFFICES ASSUME Init PROVE IInv
  OBVIOUS
<1>1. PICK g \in {0, 1} :
        /\ joined = [c \in Channel |-> [n \in Node |-> IF c = Home /\ n \in Members(c) THEN g ELSE 0]]
        /\ ledger = [c \in Channel |-> IF c = Home /\ g = 1 THEN <<{"config"}>> ELSE <<>>]
  BY DEF Init, NetworkInit
<1>2. /\ up = Orderer /\ genesis = [c \in Channel |-> IF c = Home THEN 1 ELSE 0]
      /\ tool = "none" /\ i = 1 /\ outcome = NoOutcome
      /\ files = [part \in Parts |-> "absent"] /\ keys = 0 /\ loaded = 0
      /\ package = 1 /\ installed = [p \in Peer |-> {}] /\ approved = [p \in Range(Approvers) |-> 0]
      /\ committed = FALSE /\ neglected = FALSE /\ retouched = FALSE
  BY DEF Init, NetworkInit, ProvisionInit, DeployInit, RaftInit, NoOutcome
<1>3. TypeOK
  <2>1. ledger \in [Channel -> Seq(Block)]
    <3>1. {"config"} \in Block
      BY DEF Block
    <3>2. <<{"config"}>> \in Seq(Block) /\ <<>> \in Seq(Block)
      BY <3>1
    <3> QED BY <1>1, <3>2
  <2>2. joined \in [Channel -> [Node -> Nat]]
    BY <1>1
  <2>3. genesis \in [Channel -> Nat] /\ files \in [Parts -> {"absent", "partial", "whole"}]
    BY <1>2
  <2>4. installed \in [Peer -> SUBSET (1..package)] /\ approved \in [Range(Approvers) -> Nat]
    BY <1>2
  <2>5. /\ up \subseteq Orderer /\ i \in Nat \ {0} /\ keys \in Nat /\ loaded \in Nat
        /\ package \in Nat \ {0}
    BY <1>2
  <2>6. committed \in BOOLEAN /\ neglected \in BOOLEAN /\ retouched \in BOOLEAN
    BY <1>2
  <2> QED BY <2>1, <2>2, <2>3, <2>4, <2>5, <2>6 DEF TypeOK
<1>4. GenesisInv
  BY <1>1, <1>2, OrdererFacts DEF GenesisInv, New
<1>5. RunInv /\ RaftInv /\ JoinInv /\ ProvisionInv /\ LeftoverInv /\ DeployInv /\ ScanInv
  BY <1>2 DEF RunInv, RaftInv, JoinInv, ProvisionInv, LeftoverInv, DeployInv, ScanInv
<1>6. OutcomeInv
  BY <1>2 DEF OutcomeInv, SuccessMeansEveryone, RepeatUnlessLeftover, DeployedIsServed, Ended, NoOutcome
<1> QED BY <1>3, <1>4, <1>5, <1>6 DEF IInv

-----------------------------------------------------------------------------
(***************************************************************************)
(* Ledgers that only grow.                                                 *)
(***************************************************************************)
LedgerGrows ==
    \A c \in Channel :
        /\ Len(ledger'[c]) \in Nat /\ Len(ledger[c]) <= Len(ledger'[c])
        /\ \A n \in 1..Len(ledger[c]) : ledger'[c][n] = ledger[c][n]

\* What is on a ledger.
LEMMA LedgerFacts ==
    ASSUME TypeOK, NEW c \in Channel
    PROVE  ledger[c] \in Seq(Block) /\ Len(ledger[c]) \in Nat /\ DOMAIN ledger[c] = 1..Len(ledger[c])
<1>1. ledger[c] \in Seq(Block)
  BY DEF TypeOK
<1> QED BY <1>1

\* Ordering a block.
LEMMA OrderedGrows ==
    ASSUME TypeOK, NEW c \in Channel, NEW b \in Block, Ordered(c, b)
    PROVE  /\ ledger' \in [Channel -> Seq(Block)]
           /\ LedgerGrows
           /\ b \in Range(ledger'[c])
           /\ \A d \in Channel : d # c => ledger'[d] = ledger[d]
<1>1. ledger' = [ledger EXCEPT ![c] = Append(ledger[c], b)] /\ ledger \in [Channel -> Seq(Block)]
  BY DEF Ordered, TypeOK
<1>2. ledger[c] \in Seq(Block) /\ Len(ledger[c]) \in Nat
  BY LedgerFacts
<1>3. /\ Append(ledger[c], b) \in Seq(Block) /\ Len(Append(ledger[c], b)) = Len(ledger[c]) + 1
      /\ DOMAIN Append(ledger[c], b) = 1..(Len(ledger[c]) + 1)
      /\ \A n \in 1..Len(ledger[c]) : Append(ledger[c], b)[n] = ledger[c][n]
      /\ Append(ledger[c], b)[Len(ledger[c]) + 1] = b
  BY <1>2
<1>4. ledger'[c] = Append(ledger[c], b) /\ \A d \in Channel : d # c => ledger'[d] = ledger[d]
  BY <1>1
<1>5. ledger' \in [Channel -> Seq(Block)]
  BY <1>1, <1>3
<1>6. LedgerGrows
  <2>1. \A d \in Channel : Len(ledger[d]) \in Nat
    BY LedgerFacts
  <2> QED BY <1>2, <1>3, <1>4, <2>1 DEF LedgerGrows
<1>7. b \in Range(ledger'[c])
  <2>1. Len(ledger[c]) + 1 \in DOMAIN ledger'[c]
    BY <1>2, <1>3, <1>4
  <2> QED BY <1>3, <1>4, <2>1 DEF Range
<1> QED BY <1>4, <1>5, <1>6, <1>7

\* A ledger that stays as it is.
LEMMA UnchangedGrows == ASSUME TypeOK, UNCHANGED ledger PROVE LedgerGrows
  BY LedgerFacts DEF LedgerGrows

\* What is found on a ledger is found on a longer one.
LEMMA GrownFacts ==
    ASSUME TypeOK, TypeOK', LedgerGrows
    PROVE  /\ SmokeOrdered => SmokeOrdered'
           /\ \A c \in Channel : \A m \in Nat : m <= Len(ledger[c]) /\ CleanTo(c, m) => CleanTo(c, m)'
<1>1. SmokeOrdered => SmokeOrdered'
  <2> SUFFICES ASSUME NEW b \in Range(ledger[Home]), "smoke" \in b PROVE SmokeOrdered'
    BY DEF SmokeOrdered
  <2>1. PICK n \in 1..Len(ledger[Home]) : b = ledger[Home][n]
    BY LedgerFacts, OrdererFacts DEF Range
  <2>2. DOMAIN ledger'[Home] = 1..Len(ledger'[Home]) /\ Len(ledger[Home]) \in Nat
    <3>1. ledger'[Home] \in Seq(Block)
      BY OrdererFacts DEF TypeOK
    <3> QED BY <3>1, LedgerFacts, OrdererFacts
  <2>3. n \in DOMAIN ledger'[Home] /\ ledger'[Home][n] = b
    BY <2>1, <2>2, OrdererFacts DEF LedgerGrows
  <2> QED BY <2>3 DEF SmokeOrdered, Range
<1>2. ASSUME NEW c \in Channel, NEW m \in Nat, m <= Len(ledger[c]), CleanTo(c, m)
      PROVE  CleanTo(c, m)'
  <2>1. Len(ledger[c]) \in Nat
    BY LedgerFacts
  <2>2. \A n \in 1..m : ledger'[c][n] = ledger[c][n]
    BY <1>2, <2>1 DEF LedgerGrows
  <2> QED BY <1>2, <2>2 DEF CleanTo, Clean, Is
<1> QED BY <1>1, <1>2

(***************************************************************************)
(* Tools that do not run have nothing to keep, a tool that has not ended   *)
(* has promised nothing.                                                   *)
(***************************************************************************)
LEMMA Elsewhere ==
    /\ tool' # "netjoin" => JoinInv'
    /\ tool' # "provision" => ProvisionInv' /\ LeftoverInv'
    /\ tool' # "deploy" => DeployInv'
    /\ tool' # "scan" => ScanInv'
    /\ tool' = "none" => RunInv'
  BY DEF JoinInv, ProvisionInv, LeftoverInv, DeployInv, ScanInv, RunInv

\* No verdict, or that of an interrupted tool.
LEMMA NothingPromised ==
    ASSUME outcome' = NoOutcome \/ \E t : outcome' = [tool |-> t, verdict |-> "interrupted"]
    PROVE  OutcomeInv'
  BY DEF OutcomeInv, SuccessMeansEveryone, RepeatUnlessLeftover, DeployedIsServed, Ended, NoOutcome

\* The parts about nodes and genesis blocks, when these stay.
LEMMA NetworkFrame ==
    ASSUME GenesisInv, UNCHANGED <<genesis, joined, retouched>>
    PROVE  GenesisInv'
  BY DEF GenesisInv, New

\* Every tool but raftfaulttest leaves the orderers as they are.
LEMMA RaftFrame ==
    ASSUME RaftInv, tool # "raft", tool' # "raft", UNCHANGED <<up, neglected>>
    PROVE  RaftInv'
  BY DEF RaftInv, Stopped

\* What a verdict means stays true while the ledgers grow.
LEMMA OutcomeFrame ==
    ASSUME TypeOK, TypeOK', OutcomeInv, LedgerGrows,
           UNCHANGED <<outcome, joined, began, committed, package, approved, installed>>
    PROVE  OutcomeInv'
<1>1. SuccessMeansEveryone' /\ RepeatUnlessLeftover'
  BY DEF OutcomeInv, SuccessMeansEveryone, RepeatUnlessLeftover, Ended
<1>2. DeployedIsServed'
  <2>1. DeployedIsServed /\ (SmokeOrdered => SmokeOrdered')
    BY GrownFacts DEF OutcomeInv
  <2> QED BY <2>1 DEF DeployedIsServed, Ended, SmokeOrdered
<1>3. ASSUME Ended("scan", "success")'
      PROVE  BeganInv' /\ \A c \in Range(Channels) : CleanTo(c, began[c])'
  <2>1. BeganInv /\ \A c \in Range(Channels) : CleanTo(c, began[c])
    BY <1>3 DEF OutcomeInv, Ended
  <2>2. \A c \in Channel : Len(ledger[c]) \in Nat /\ began[c] \in Nat /\ began[c] <= Len(ledger[c])
    BY <2>1, LedgerFacts DEF BeganInv
  <2>3. BeganInv'
    BY <2>2 DEF BeganInv, LedgerGrows
  <2>4. Range(Channels) \subseteq Channel
    BY FactsAssumption DEF Range
  <2>5. \A c \in Channel : \A m \in Nat : m <= Len(ledger[c]) /\ CleanTo(c, m) => CleanTo(c, m)'
    BY GrownFacts
  <2>6. \A c \in Channel : CleanTo(c, began[c]) => CleanTo(c, began[c])'
    BY <2>2, <2>5 DEF CleanTo
  <2> QED BY <2>1, <2>3, <2>4, <2>6
<1> QED BY <1>1, <1>2, <1>3 DEF OutcomeInv

(***************************************************************************)
(* The application writes, whatever tool is running.                       *)
(***************************************************************************)
LEMMA AppWriteIInv ==
    ASSUME IInv, NEW c \in Channel, NEW block \in AppBlocks, AppWrite(c, block),
           UNCHANGED <<provisionVars, deployVars, neglected>>
    PROVE  IInv'
<1>1. /\ Ordered(c, block)
      /\ UNCHANGED <<up, genesis, joined, local, tool, pc, i, outcome, began, files, keys, loaded, retouched,
                     package, installed, approved, committed, neglected>>
  BY DEF AppWrite, control, provisionVars, deployVars
<1>2. ledger' \in [Channel -> Seq(Block)] /\ LedgerGrows
  <2>1. block \in Block
    BY DEF Block
  <2> QED BY <1>1, <2>1, OrderedGrows DEF IInv
<1>3. TypeOK'
  BY <1>1, <1>2 DEF IInv, TypeOK
<1>4. RunInv' /\ RaftInv' /\ GenesisInv'
  BY <1>1 DEF IInv, RunInv, RaftInv, Stopped, GenesisInv, New
<1>5. JoinInv' /\ ProvisionInv' /\ LeftoverInv'
  BY <1>1 DEF IInv, JoinInv, ProvisionInv, LeftoverInv, New
<1>6. DeployInv'
  <2>1. DeployInv /\ (SmokeOrdered => SmokeOrdered')
    BY <1>2, <1>3, GrownFacts DEF IInv
  <2> QED BY <1>1, <2>1 DEF DeployInv
<1>7. ScanInv'
  <2> SUFFICES ASSUME tool = "scan" PROVE ScanInv'
    BY <1>1 DEF ScanInv
  <2>1. ScanInv /\ BeganInv
    BY DEF IInv, ScanInv
  <2>2. \A d \in Channel : Len(ledger[d]) \in Nat /\ began[d] \in Nat /\ began[d] <= Len(ledger[d])
    BY <2>1, LedgerFacts DEF IInv, BeganInv
  <2>3. BeganInv'
    BY <1>1, <1>2, <2>2 DEF BeganInv, LedgerGrows
  <2>4. \A d \in Channel : \A m \in Nat : m <= Len(ledger[d]) /\ CleanTo(d, m) => CleanTo(d, m)'
    BY <1>2, <1>3, GrownFacts DEF IInv
  <2>5. \A k \in DOMAIN Channels : Channels[k] \in Channel
    BY FactsAssumption
  <2>6. \A k \in DOMAIN Channels : CleanTo(Channels[k], began[Channels[k]]) => CleanTo(Channels[k], began[Channels[k]])'
    BY <1>1, <2>2, <2>4, <2>5 DEF CleanTo
  <2>7. ASSUME pc = "blocks"
        PROVE  /\ began[Channels[i]] <= local.height + 1
               /\ local.height + 1 <= Len(ledger'[Channels[i]])
               /\ local.n <= local.height + 1
               /\ local.findings = {} => CleanTo(Channels[i], local.n)'
    <3>1. /\ Channels[i] \in Channel /\ local.n \in Nat /\ local.height \in Int
          /\ began[Channels[i]] <= local.height + 1
          /\ local.height + 1 <= Len(ledger[Channels[i]])
          /\ local.n <= local.height + 1
          /\ local.findings = {} => CleanTo(Channels[i], local.n)
      BY <2>1, <2>5, <2>7 DEF ScanInv
    <3>2. local.n <= Len(ledger[Channels[i]])
      BY <2>2, <3>1
    <3>3. CleanTo(Channels[i], local.n) => CleanTo(Channels[i], local.n)'
      BY <1>1, <2>4, <3>1, <3>2 DEF CleanTo
    <3>4. local.height + 1 <= Len(ledger'[Channels[i]])
      BY <1>2, <2>2, <3>1 DEF LedgerGrows
    <3> QED BY <3>1, <3>3, <3>4
  <2> QED BY <1>1, <2>1, <2>3, <2>6, <2>7 DEF ScanInv
<1>8. OutcomeInv'
  BY <1>1, <1>2, <1>3, OutcomeFrame DEF IInv
<1> QED BY <1>3, <1>4, <1>5, <1>6, <1>7, <1>8 DEF IInv

(***************************************************************************)
(* A tool that starts: the others have ended, nothing is touched.          *)
(***************************************************************************)
LEMMA StartKeeps ==
    ASSUME IInv, NEW t, NEW label, NEW memory, NEW found, Start(t, label, memory, found),
           UNCHANGED <<files, keys, loaded>>, UNCHANGED <<deployVars, neglected>>,
           retouched' \in BOOLEAN, GenesisInv'
    PROVE  /\ TypeOK' /\ RunInv' /\ RaftInv' /\ OutcomeInv' /\ LedgerGrows
           /\ tool = "none" /\ tool' = t /\ pc' = label /\ i' = 1 /\ local' = memory /\ began' = found
           /\ UNCHANGED <<up, genesis, joined, ledger, package, installed, approved, committed>>
<1>1. /\ tool = "none" /\ tool' = t /\ pc' = label /\ i' = 1 /\ local' = memory /\ began' = found
      /\ outcome' = NoOutcome
      /\ UNCHANGED <<up, genesis, joined, ledger, package, installed, approved, committed, neglected>>
  BY DEF Start, network, deployVars, NoOutcome
<1>2. TypeOK'
  BY <1>1 DEF IInv, TypeOK
<1>3. RunInv' /\ OutcomeInv'
  BY <1>1, NothingPromised DEF RunInv
<1>4. LedgerGrows
  BY <1>1, UnchangedGrows DEF IInv
<1>5. RaftInv'
  <2>1. Stopped = {Victim[1]} /\ Victim[1] \in Stopped'
    BY <1>1 DEF Stopped
  <2> QED BY <1>1, <2>1 DEF IInv, RaftInv
<1> QED BY <1>1, <1>2, <1>3, <1>4, <1>5

\* Every tool but tenantprovision.
LEMMA StartFacts ==
    ASSUME IInv, NEW t, NEW label, NEW memory, NEW found, Start(t, label, memory, found),
           UNCHANGED <<provisionVars, deployVars, neglected>>
    PROVE  /\ TypeOK' /\ RunInv' /\ RaftInv' /\ GenesisInv' /\ OutcomeInv' /\ LedgerGrows
           /\ tool = "none" /\ tool' = t /\ pc' = label /\ i' = 1 /\ local' = memory /\ began' = found
           /\ UNCHANGED <<up, genesis, joined, ledger, files, keys, loaded, retouched,
                          package, installed, approved, committed, neglected>>
<1>1. UNCHANGED <<files, keys, loaded, retouched, neglected>> /\ UNCHANGED <<genesis, joined>>
  BY DEF provisionVars, Start, network
<1>2. GenesisInv' /\ retouched' \in BOOLEAN
  BY <1>1, NetworkFrame DEF IInv, TypeOK
<1> QED BY <1>1, <1>2, StartKeeps

(***************************************************************************)
(* A tool that ends and leaves the network as it is.                       *)
(***************************************************************************)
LEMMA FinishFacts ==
    ASSUME IInv, NEW verdict, Finish(verdict), UNCHANGED network,
           TypeOK', tool # "raft" => UNCHANGED neglected,
           tool = "raft" => neglected' \/ (neglected' = neglected /\ pc \notin SecondProbe),
           UNCHANGED retouched, OutcomeInv'
    PROVE  IInv'
<1>1. tool' = "none" /\ UNCHANGED <<up, genesis, joined, ledger>>
  BY DEF Finish, network
<1>2. GenesisInv'
  BY <1>1, NetworkFrame DEF IInv
<1>3. RaftInv'
  BY <1>1 DEF IInv, RaftInv, Stopped
<1> QED BY <1>1, <1>2, <1>3, Elsewhere DEF IInv

\* The typing of a step that ends a tool.
LEMMA FinishTypes ==
    ASSUME TypeOK, NEW verdict, Finish(verdict), UNCHANGED network,
           UNCHANGED <<provisionVars, deployVars>>, neglected' \in BOOLEAN
    PROVE  TypeOK'
  BY DEF TypeOK, Finish, network, provisionVars, deployVars

(***************************************************************************)
(* A command that fails, or a tool that is killed.                         *)
(***************************************************************************)
LEMMA InterruptIInv ==
    ASSUME IInv, Interrupt
    PROVE  IInv'
<1>1. /\ Finish("interrupted") /\ UNCHANGED network /\ UNCHANGED <<provisionVars, deployVars>>
      /\ neglected' = (neglected \/ (tool = "raft" /\ pc \in SecondProbe))
      /\ UNCHANGED retouched
  BY DEF Interrupt, provisionVars
<1>2. /\ neglected' \in BOOLEAN
      /\ tool = "raft" => neglected' \/ (neglected' = neglected /\ pc \notin SecondProbe)
  BY <1>1 DEF IInv, TypeOK
<1>3. tool # "raft" => neglected' = neglected
  BY <1>1 DEF IInv, TypeOK
<1>4. TypeOK'
  BY <1>1, <1>2, FinishTypes DEF IInv
<1>5. OutcomeInv'
  BY <1>1, NothingPromised DEF Finish
<1> QED BY <1>1, <1>2, <1>3, <1>4, <1>5, FinishFacts

(***************************************************************************)
(* What the operator does between two tools.                               *)
(***************************************************************************)
LEMMA OperatorFacts ==
    ASSUME IInv, tool = "none", tool' = "none", outcome' = NoOutcome,
           TypeOK', RaftInv', GenesisInv'
    PROVE  IInv'
  BY Elsewhere, NothingPromised DEF IInv

\* Nodes that lose the new channel, or all their channels.
LEMMA NodesReset ==
    ASSUME IInv, tool = "none", tool' = "none", outcome' = NoOutcome, TypeOK',
           \A c \in Channel, n \in Node : joined'[c][n] \in {0, joined[c][n]},
           UNCHANGED <<up, genesis, neglected, retouched>>
    PROVE  IInv'
<1>1. RaftInv'
  BY RaftFrame DEF IInv
<1>2. GenesisInv'
  BY OrdererFacts DEF IInv, GenesisInv, New
<1> QED BY <1>1, <1>2, OperatorFacts

\* The channel taken from the orderers.
LEMMA RemoveChannelIInv ==
    ASSUME IInv, RemoveChannel
    PROVE  IInv'
<1>1. /\ tool = "none" /\ tool' = "none" /\ outcome' = NoOutcome
      /\ joined' = [joined EXCEPT ![NewChannel] =
                      [n \in Node |-> IF n \in Orderer THEN 0 ELSE joined[NewChannel][n]]]
      /\ ledger' = [ledger EXCEPT ![NewChannel] = <<>>]
      /\ UNCHANGED <<up, genesis, i, files, keys, loaded, retouched, package, installed, approved,
                     committed, neglected>>
  BY DEF RemoveChannel, Operator, NoOutcome, provisionVars, deployVars
<1>2. /\ joined' \in [Channel -> [Node -> Nat]]
      /\ \A c \in Channel, n \in Node : joined'[c][n] \in {0, joined[c][n]}
  BY <1>1, OrdererFacts DEF IInv, TypeOK
<1>3. ledger' \in [Channel -> Seq(Block)]
  <2>1. <<>> \in Seq(Block)
    OBVIOUS
  <2> QED BY <1>1, <2>1 DEF IInv, TypeOK
<1>4. TypeOK'
  BY <1>1, <1>2, <1>3 DEF IInv, TypeOK
<1> QED BY <1>1, <1>2, <1>4, NodesReset

\* The runbook's reset of a peer.
LEMMA ResetPeerIInv ==
    ASSUME IInv, NEW p \in Peer, ResetPeer(p)
    PROVE  IInv'
<1>1. /\ tool = "none" /\ tool' = "none" /\ outcome' = NoOutcome
      /\ joined' = [c \in Channel |-> [joined[c] EXCEPT ![p] = 0]]
      /\ installed' = [installed EXCEPT ![p] = {}]
      /\ UNCHANGED <<up, genesis, ledger, i, files, keys, loaded, retouched, package, approved,
                     committed, neglected>>
  BY DEF ResetPeer, Operator, NoOutcome, provisionVars
<1>2. /\ joined' \in [Channel -> [Node -> Nat]]
      /\ \A c \in Channel, n \in Node : joined'[c][n] \in {0, joined[c][n]}
  BY <1>1, OrdererFacts DEF IInv, TypeOK
<1>3. installed' \in [Peer -> SUBSET (1..package')]
  BY <1>1 DEF IInv, TypeOK
<1>4. TypeOK'
  BY <1>1, <1>2, <1>3 DEF IInv, TypeOK
<1> QED BY <1>1, <1>2, <1>4, NodesReset

-----------------------------------------------------------------------------
(***************************************************************************)
(* netjoin.  A node that joins the first channel does so with its one      *)
(* genesis block.                                                          *)
(***************************************************************************)
LEMMA JoinHome ==
    ASSUME IInv, NEW n \in Node, Join(Home, n), UNCHANGED retouched
    PROVE  /\ joined' \in [Channel -> [Node -> Nat]] /\ ledger' \in [Channel -> Seq(Block)]
           /\ joined'[Home][n] # 0
           /\ \A m \in Node : joined[Home][m] # 0 => joined'[Home][m] # 0
           /\ UNCHANGED <<up, genesis>>
           /\ GenesisInv'
<1>1. joined' = [joined EXCEPT ![Home] = [joined[Home] EXCEPT ![n] = 1]] /\ UNCHANGED <<up, genesis>>
  BY DEF Join, IInv, GenesisInv
<1>2. joined \in [Channel -> [Node -> Nat]] /\ joined[Home] \in [Node -> Nat]
  BY OrdererFacts DEF IInv, TypeOK
<1>3. /\ joined' \in [Channel -> [Node -> Nat]]
      /\ joined'[Home][n] = 1 /\ \A m \in Node \ {n} : joined'[Home][m] = joined[Home][m]
      /\ \A c \in Channel \ {Home} : joined'[c] = joined[c]
  BY <1>1, <1>2, OrdererFacts
<1>4. ledger' \in [Channel -> Seq(Block)]
  <2>1. {"config"} \in Block
    BY DEF Block
  <2>2. Ordered(Home, {"config"}) \/ ledger' = ledger
    BY DEF Join
  <2> QED BY <2>1, <2>2, OrdererFacts, OrderedGrows DEF IInv, TypeOK
<1>5. GenesisInv'
  <2>1. joined'[NewChannel] = joined[NewChannel]
    BY <1>3, OrdererFacts
  <2>2. \A c \in Channel \ {NewChannel}, m \in Node : joined'[c][m] \in {0, 1}
    BY <1>3 DEF IInv, GenesisInv
  <2> QED BY <1>1, <2>1, <2>2 DEF IInv, GenesisInv, New
<1> QED BY <1>1, <1>3, <1>4, <1>5

\* A step of a loop over a list.
LEMMA AdvanceFacts ==
    ASSUME NEW n, NEW label, Advance(n, label)
    PROVE  /\ UNCHANGED <<tool, outcome, began>>
           /\ i < n => i' = i + 1 /\ pc' = pc
           /\ ~(i < n) => i' = 1 /\ pc' = label
  BY DEF Advance

\* The nodes that have joined when an item of netjoin's lists is done with.
LEMMA NetJoinItem ==
    ASSUME IInv, tool = "netjoin", NEW n \in Node, UNCHANGED retouched,
           \/ joined[Home][n] # 0 /\ UNCHANGED network
           \/ Join(Home, n)
    PROVE  /\ joined' \in [Channel -> [Node -> Nat]] /\ ledger' \in [Channel -> Seq(Block)]
           /\ joined'[Home][n] # 0
           /\ \A m \in Node : joined[Home][m] # 0 => joined'[Home][m] # 0
           /\ UNCHANGED <<up, genesis>> /\ GenesisInv'
<1>1. CASE joined[Home][n] # 0 /\ UNCHANGED network
  BY <1>1, NetworkFrame DEF IInv, TypeOK, network
<1>2. CASE Join(Home, n)
  BY <1>2, JoinHome
<1> QED BY <1>1, <1>2

\* Every step of netjoin.
LEMMA NetJoinIInv ==
    ASSUME IInv, NetJoinNext, UNCHANGED <<provisionVars, deployVars, neglected>>
    PROVE  IInv'
<1>0. UNCHANGED <<files, keys, loaded, retouched, package, installed, approved, committed, neglected>>
  BY DEF provisionVars, deployVars
<1>1. CASE StartNetJoin
  <2>1. /\ TypeOK' /\ RunInv' /\ RaftInv' /\ GenesisInv' /\ OutcomeInv'
        /\ tool' = "netjoin" /\ pc' = "orderers" /\ i' = 1
    BY <1>1, StartFacts DEF StartNetJoin
  <2>2. JoinInv'
    BY <2>1, OrdererFacts DEF JoinInv
  <2> QED BY <2>1, <2>2, Elsewhere DEF IInv
<1>2. ASSUME tool = "netjoin", FatalIf(TRUE) PROVE IInv'
  <2>1. Finish("fatal") /\ UNCHANGED network
    BY <1>2 DEF FatalIf
  <2>2. TypeOK'
    BY <1>0, <2>1, FinishTypes DEF IInv, TypeOK
  <2>3. OutcomeInv'
    <3>1. outcome' = [tool |-> "netjoin", verdict |-> "fatal"]
      BY <1>2, <2>1 DEF Finish
    <3> QED BY <3>1 DEF OutcomeInv, SuccessMeansEveryone, RepeatUnlessLeftover, DeployedIsServed, Ended
  <2> QED BY <1>0, <1>2, <2>1, <2>2, <2>3, FinishFacts
<1>3. CASE joinOrderer
  <2>1. At("netjoin", "orderers") /\ tool = "netjoin" /\ pc = "orderers" /\ i \in DOMAIN Orderers
        /\ i \in Nat \ {0} /\ Orderers[i] \in Node
        /\ \A k \in 1..(i - 1) : joined[Home][Orderers[k]] # 0
    BY <1>3, OrdererFacts DEF joinOrderer, At, IInv, JoinInv, TypeOK
  <2>2. CASE FatalIf(Orderers[i] \notin up)
    BY <1>2, <2>1, <2>2 DEF FatalIf
  <2>3. ASSUME (joined[Home][Orderers[i]] # 0 /\ UNCHANGED network) \/ Join(Home, Orderers[i]),
               Advance(Len(Orderers), "peers"), UNCHANGED local
        PROVE  IInv'
    <3>1. /\ joined' \in [Channel -> [Node -> Nat]] /\ ledger' \in [Channel -> Seq(Block)]
          /\ joined'[Home][Orderers[i]] # 0
          /\ \A m \in Node : joined[Home][m] # 0 => joined'[Home][m] # 0
          /\ UNCHANGED <<up, genesis>> /\ GenesisInv'
      BY <1>0, <2>1, <2>3, NetJoinItem
    <3>2. /\ UNCHANGED <<tool, outcome, began>>
          /\ i < Len(Orderers) => i' = i + 1 /\ pc' = pc
          /\ ~(i < Len(Orderers)) => i' = 1 /\ pc' = "peers"
      BY <2>3, AdvanceFacts
    <3>3. i' \in Nat \ {0}
      BY <2>1, <3>2
    <3>4. TypeOK'
      BY <1>0, <3>1, <3>3 DEF IInv, TypeOK
    <3>5. RunInv' /\ RaftInv' /\ OutcomeInv'
      BY <1>0, <2>1, <3>1, <3>2, RaftFrame, NothingPromised DEF IInv, RunInv
    <3>6. \A k \in 1..i : joined'[Home][Orderers[k]] # 0
      <4>1. \A k \in 1..i : k = i \/ (k \in 1..(i - 1) /\ k \in DOMAIN Orderers)
        BY <2>1, OrdererFacts
      <4>2. \A k \in DOMAIN Orderers : Orderers[k] \in Node
        BY OrdererFacts
      <4> QED BY <2>1, <3>1, <4>1, <4>2
    <3>7. JoinInv'
      <4>1. CASE i < Len(Orderers)
        BY <2>1, <3>2, <3>6, <4>1, OrdererFacts DEF JoinInv
      <4>2. CASE ~(i < Len(Orderers))
        <5>1. \A o \in Orderer : joined'[Home][o] # 0
          BY <2>1, <3>6, <4>2, OrdererFacts
        <5>2. 1 \in DOMAIN HomePeers
          BY OrdererFacts, PeerFacts DEF HomePeers
        <5> QED BY <3>2, <4>2, <5>1, <5>2 DEF JoinInv
      <4> QED BY <4>1, <4>2
    <3> QED BY <2>1, <3>1, <3>2, <3>4, <3>5, <3>7, Elsewhere DEF IInv
  <2> QED BY <1>3, <2>2, <2>3 DEF joinOrderer
<1>4. CASE joinPeer
  <2>0. tool = "netjoin" /\ pc = "peers" /\ i \in DOMAIN HomePeers /\ i \in Nat
        /\ \A o \in Orderer : joined[Home][o] # 0
    BY <1>4 DEF joinPeer, At, IInv, JoinInv, TypeOK
  <2>1. HomePeers[i] \in Node /\ DOMAIN HomePeers = 1..Len(HomePeers) /\ Len(HomePeers) \in Nat
    BY <2>0, OrdererFacts, PeerFacts DEF HomePeers
  <2>2. /\ joined' \in [Channel -> [Node -> Nat]] /\ ledger' \in [Channel -> Seq(Block)]
        /\ \A m \in Node : joined[Home][m] # 0 => joined'[Home][m] # 0
        /\ UNCHANGED <<up, genesis>> /\ GenesisInv'
    BY <1>0, <1>4, <2>0, <2>1, NetJoinItem DEF joinPeer
  <2>3. /\ UNCHANGED <<tool, outcome, began>>
        /\ i < Len(HomePeers) => i' = i + 1 /\ pc' = pc
        /\ ~(i < Len(HomePeers)) => i' = 1 /\ pc' = "verify"
    BY <1>4, AdvanceFacts DEF joinPeer
  <2>4. i' \in Nat \ {0} /\ (i < Len(HomePeers) => i' \in DOMAIN HomePeers)
    BY <2>0, <2>1, <2>3
  <2>5. TypeOK'
    BY <1>0, <2>2, <2>4 DEF IInv, TypeOK
  <2>6. RunInv' /\ RaftInv' /\ OutcomeInv'
    BY <1>0, <2>0, <2>2, <2>3, RaftFrame, NothingPromised DEF IInv, RunInv
  <2>7. JoinInv'
    BY <2>0, <2>2, <2>3, <2>4, OrdererFacts DEF JoinInv
  <2> QED BY <2>0, <2>2, <2>3, <2>5, <2>6, <2>7, Elsewhere DEF IInv
<1>5. CASE VerifyJoined
  <2>1. /\ tool = "netjoin" /\ pc = "verify" /\ \A o \in Orderer : joined[Home][o] # 0
        /\ UNCHANGED network
    BY <1>5 DEF VerifyJoined, At, IInv, JoinInv
  <2>2. PICK verdict : /\ Finish(verdict)
                       /\ verdict = "success" => \A p \in Range(HomePeers) : joined[Home][p] # 0
    BY <1>5 DEF VerifyJoined
  <2>3. TypeOK'
    BY <1>0, <2>1, <2>2, FinishTypes DEF IInv, TypeOK
  <2>4. outcome' = [tool |-> "netjoin", verdict |-> verdict] /\ joined' = joined
    BY <2>1, <2>2 DEF Finish, network
  <2>5. OutcomeInv'
    BY <2>1, <2>2, <2>4 DEF OutcomeInv, SuccessMeansEveryone, RepeatUnlessLeftover, DeployedIsServed,
                            Ended, Members, HomePeers
  <2> QED BY <1>0, <2>1, <2>2, <2>3, <2>5, FinishFacts
<1> QED BY <1>1, <1>3, <1>4, <1>5 DEF NetJoinNext

-----------------------------------------------------------------------------
(***************************************************************************)
(* tenantprovision: a FATAL of its own is allowed only to a run that found *)
(* something left over.                                                    *)
(***************************************************************************)
LEMMA ProvisionFatal ==
    ASSUME IInv, tool = "provision", Finish("fatal"), UNCHANGED network, began,
           UNCHANGED <<provisionVars, deployVars, neglected>>
    PROVE  IInv'
<1>1. TypeOK'
  BY FinishTypes DEF IInv, TypeOK
<1>2. outcome' = [tool |-> "provision", verdict |-> "fatal"] /\ began'
  BY DEF Finish
<1>3. OutcomeInv'
  BY <1>2 DEF OutcomeInv, SuccessMeansEveryone, RepeatUnlessLeftover, DeployedIsServed, Ended
<1> QED BY <1>1, <1>3, FinishFacts DEF provisionVars

\* A step to the next command that leaves nodes and ledgers alone.
LEMMA ProvisionGoes ==
    ASSUME IInv, tool = "provision", NEW label, Goto(label), UNCHANGED <<up, joined, ledger>>,
           UNCHANGED <<deployVars, neglected>>, UNCHANGED retouched,
           genesis' \in [Channel -> Nat], genesis'[Home] = 1,
           \/ genesis'[NewChannel] = genesis[NewChannel]
           \/ ~retouched => \A n \in Node : New[n] = 0,
           files' \in [Parts -> {"absent", "partial", "whole"}], keys' \in Nat, loaded' \in Nat
    PROVE  /\ TypeOK' /\ RunInv' /\ RaftInv' /\ GenesisInv' /\ OutcomeInv'
           /\ tool' = "provision" /\ pc' = label /\ i' = 1 /\ began' = began
<1>1. /\ tool' = "provision" /\ pc' = label /\ i' = 1 /\ UNCHANGED <<outcome, began>>
      /\ UNCHANGED <<package, installed, approved, committed>>
  BY DEF Goto, deployVars
<1>2. TypeOK'
  BY <1>1 DEF IInv, TypeOK
<1>3. RunInv' /\ RaftInv' /\ OutcomeInv'
  BY <1>1, RaftFrame, NothingPromised DEF IInv, RunInv
<1>4. GenesisInv'
  BY DEF IInv, GenesisInv, New
<1> QED BY <1>1, <1>2, <1>3, <1>4

\* The steps before the joins.
LEMMA ProvisionEarlyIInv ==
    ASSUME IInv, UNCHANGED <<deployVars, neglected>>,
           \/ StartProvision \/ genCryptoMaterial \/ addConfigtxOrg \/ addConfigtxProfile
           \/ genChannelBlock \/ addPeerComposeService \/ ComposeUp
    PROVE  IInv'
<1>0. /\ genesis \in [Channel -> Nat] /\ genesis[Home] = 1
      /\ files \in [Parts -> {"absent", "partial", "whole"}] /\ keys \in Nat /\ loaded \in Nat
      /\ {"crypto", "org", "profile", "compose"} = Parts
  BY DEF IInv, TypeOK, GenesisInv, Parts
<1>1. CASE StartProvision
  <2>0. /\ Start("provision", "crypto", Empty, Leftover)
        /\ UNCHANGED <<files, keys, loaded>> /\ UNCHANGED <<genesis, joined>>
        /\ retouched' = (\E n \in Node : New[n] # 0)
    BY <1>1 DEF StartProvision, Start, network, New
  <2>1. GenesisInv' /\ retouched' \in BOOLEAN
    <3>1. ~retouched' => \A n \in Node : New[n] = 0
      BY <2>0
    <3> QED BY <2>0, <3>1 DEF IInv, GenesisInv, New
  <2>2. /\ TypeOK' /\ RunInv' /\ RaftInv' /\ OutcomeInv'
        /\ tool' = "provision" /\ pc' = "crypto" /\ i' = 1 /\ began' = Leftover
        /\ UNCHANGED up
    BY <2>0, <2>1, StartKeeps
  <2>3. ProvisionInv'
    BY <2>0, <2>2 DEF ProvisionInv, Early, Unmade, New
  <2>4. LeftoverInv'
    <3>1. ASSUME ~began' PROVE ~Leftover
      BY <2>2, <3>1
    <3>2. ASSUME ~Leftover
          PROVE  /\ \A part \in Parts : files[part] # "partial"
                 /\ Orderer \subseteq up
                 /\ loaded = 0 \/ (files["crypto"] # "absent" /\ loaded = keys)
      BY <3>2 DEF Leftover
    <3> QED BY <2>0, <2>2, <3>1, <3>2 DEF LeftoverInv, Early
  <2> QED BY <2>1, <2>2, <2>3, <2>4, Elsewhere DEF IInv
<1>2. ASSUME NEW part \in Parts, NEW label \in {"org", "profile", "genesis", "up"},
             tool = "provision", pc = part, Done(part, label),
             part = "crypto" => label = "org" /\ keys' = IF files["crypto"] = "absent" THEN keys + 1 ELSE keys,
             part # "crypto" => label # "org" /\ keys' = keys,
             part = "compose" <=> label = "up"
      PROVE  IInv'
  <2>1. /\ Goto(label) /\ UNCHANGED <<up, genesis, joined, ledger, local, loaded, retouched>>
        /\ files' = [files EXCEPT ![part] = IF files[part] = "absent" THEN "whole" ELSE files[part]]
    BY <1>2 DEF Done, network
  <2>2. /\ files' \in [Parts -> {"absent", "partial", "whole"}]
        /\ \A q \in Parts : files'[q] = "partial" => files[q] = "partial"
        /\ keys' \in Nat
    BY <1>0, <1>2, <2>1
  <2>3. /\ TypeOK' /\ RunInv' /\ RaftInv' /\ GenesisInv' /\ OutcomeInv'
        /\ tool' = "provision" /\ pc' = label /\ i' = 1 /\ began' = began
    BY <1>0, <1>2, <2>1, <2>2, ProvisionGoes
  <2>4. ProvisionInv'
    <3>1. label = "up" => genesis[NewChannel] # 0
      BY <1>2 DEF IInv, ProvisionInv
    <3>2. label \in Unmade /\ ~retouched => \A n \in Node : New[n] = 0
      BY <1>2 DEF IInv, ProvisionInv, Unmade, Parts
    <3> QED BY <2>1, <2>3, <3>1, <3>2 DEF ProvisionInv, Early, New
  <2>5. LeftoverInv'
    <3> SUFFICES ASSUME ~began PROVE LeftoverInv'
      BY <2>3 DEF LeftoverInv
    <3>1. /\ \A q \in Parts : files[q] # "partial"
          /\ Orderer \subseteq up
          /\ part = "crypto" => loaded = 0 \/ (files["crypto"] # "absent" /\ loaded = keys)
          /\ part # "crypto" => loaded \in {0, keys}
      BY <1>2 DEF IInv, LeftoverInv, Early, Parts
    <3>2. loaded \in {0, keys'}
      BY <1>2, <3>1
    <3> QED BY <2>1, <2>2, <2>3, <3>1, <3>2 DEF LeftoverInv
  <2> QED BY <2>3, <2>4, <2>5, Elsewhere DEF IInv
<1>3. CASE genCryptoMaterial
  BY <1>0, <1>2, <1>3 DEF genCryptoMaterial, At
<1>4. CASE addConfigtxOrg
  BY <1>0, <1>2, <1>4 DEF addConfigtxOrg, At
<1>5. CASE addConfigtxProfile
  BY <1>0, <1>2, <1>5 DEF addConfigtxProfile, At
<1>6. CASE addPeerComposeService
  BY <1>0, <1>2, <1>6 DEF addPeerComposeService, At
<1>7. CASE genChannelBlock
  <2>1. tool = "provision" /\ pc = "genesis" /\ UNCHANGED provisionVars /\ UNCHANGED <<files, keys, loaded, retouched>>
    BY <1>7 DEF genChannelBlock, At, provisionVars
  <2>2. CASE \E q \in {"crypto", "org", "profile"} : files[q] = "partial"
    <3>1. Finish("fatal") /\ UNCHANGED network
      BY <1>7, <2>2 DEF genChannelBlock, FatalIf
    <3>2. began
      BY <1>0, <2>1, <2>2 DEF IInv, LeftoverInv
    <3> QED BY <2>1, <3>1, <3>2, ProvisionFatal
  <2>3. CASE ~\E q \in {"crypto", "org", "profile"} : files[q] = "partial"
    <3>1. /\ genesis' = [genesis EXCEPT ![NewChannel] = genesis[NewChannel] + 1]
          /\ Goto("compose") /\ UNCHANGED <<up, joined, ledger, local>>
      BY <1>7, <2>3 DEF genChannelBlock, FatalIf
    <3>2. genesis' \in [Channel -> Nat] /\ genesis'[Home] = 1 /\ genesis'[NewChannel] # 0
      BY <1>0, <3>1, OrdererFacts
    <3>3. /\ TypeOK' /\ RunInv' /\ RaftInv' /\ GenesisInv' /\ OutcomeInv'
          /\ tool' = "provision" /\ pc' = "compose" /\ i' = 1 /\ began' = began
      <4>1. ~retouched => \A n \in Node : New[n] = 0
        BY <2>1 DEF IInv, ProvisionInv, Unmade
      <4> QED BY <1>0, <2>1, <3>1, <3>2, <4>1, ProvisionGoes
    <3>4. ProvisionInv'
      BY <3>2, <3>3 DEF ProvisionInv, Early, Unmade
    <3>5. LeftoverInv'
      BY <2>1, <3>1, <3>3 DEF IInv, LeftoverInv, Early, New
    <3> QED BY <3>3, <3>4, <3>5, Elsewhere DEF IInv
  <2> QED BY <2>2, <2>3
<1>8. CASE ComposeUp
  <2>1. tool = "provision" /\ pc = "up" /\ UNCHANGED <<files, keys, retouched>>
    BY <1>8 DEF ComposeUp, At
  <2>2. CASE files["compose"] = "partial"
    <3>1. Finish("fatal") /\ UNCHANGED network /\ UNCHANGED loaded
      BY <1>8, <2>2 DEF ComposeUp, FatalIf
    <3>2. began
      BY <1>0, <2>1, <2>2 DEF IInv, LeftoverInv
    <3> QED BY <2>1, <3>1, <3>2, ProvisionFatal DEF provisionVars
  <2>3. CASE files["compose"] # "partial"
    <3>1. /\ loaded' = IF loaded = 0 THEN keys ELSE loaded
          /\ Goto("orderers") /\ UNCHANGED <<up, genesis, joined, ledger, local>>
      BY <1>8, <2>3 DEF ComposeUp, FatalIf, network
    <3>2. /\ TypeOK' /\ RunInv' /\ RaftInv' /\ GenesisInv' /\ OutcomeInv'
          /\ tool' = "provision" /\ pc' = "orderers" /\ i' = 1 /\ began' = began
      BY <1>0, <2>1, <3>1, ProvisionGoes
    <3>3. ProvisionInv'
      BY <2>1, <3>1, <3>2, OrdererFacts DEF IInv, ProvisionInv, Early, Unmade
    <3>4. LeftoverInv'
      <4> SUFFICES ASSUME ~began PROVE LeftoverInv'
        BY <3>2 DEF LeftoverInv
      <4>1. /\ \A q \in Parts : files[q] # "partial"
            /\ Orderer \subseteq up /\ loaded \in {0, keys}
        BY <2>1 DEF IInv, LeftoverInv, Early
      <4>2. loaded' = keys' /\ "orderers" \notin Early /\ "orderers" # "crypto"
        BY <2>1, <3>1, <4>1 DEF Early
      <4> QED BY <2>1, <3>1, <3>2, <4>1, <4>2 DEF LeftoverInv
    <3> QED BY <3>2, <3>3, <3>4, Elsewhere DEF IInv
  <2> QED BY <2>2, <2>3
<1> QED BY <1>1, <1>3, <1>4, <1>5, <1>6, <1>7, <1>8

\* A node joins the new channel with the block file on disk.
LEMMA JoinNew ==
    ASSUME IInv, NEW n \in Node, Join(NewChannel, n)
    PROVE  /\ joined' \in [Channel -> [Node -> Nat]] /\ ledger' \in [Channel -> Seq(Block)]
           /\ joined'[NewChannel][n] = genesis[NewChannel]
           /\ \A m \in Node \ {n} : joined'[NewChannel][m] = New[m]
           /\ \A c \in Channel \ {NewChannel} : joined'[c] = joined[c]
           /\ UNCHANGED <<up, genesis>>
<1>1. /\ joined' = [joined EXCEPT ![NewChannel] = [New EXCEPT ![n] = genesis[NewChannel]]]
      /\ UNCHANGED <<up, genesis>>
  BY DEF Join, New
<1>2. joined \in [Channel -> [Node -> Nat]] /\ New \in [Node -> Nat] /\ genesis[NewChannel] \in Nat
  BY OrdererFacts DEF IInv, TypeOK, New
<1>3. /\ joined' \in [Channel -> [Node -> Nat]]
      /\ joined'[NewChannel][n] = genesis[NewChannel]
      /\ \A m \in Node \ {n} : joined'[NewChannel][m] = New[m]
      /\ \A c \in Channel \ {NewChannel} : joined'[c] = joined[c]
  BY <1>1, <1>2, OrdererFacts DEF New
<1>4. ledger' \in [Channel -> Seq(Block)]
  <2>1. {"config"} \in Block
    BY DEF Block
  <2>2. Ordered(NewChannel, {"config"}) \/ ledger' = ledger
    BY DEF Join
  <2> QED BY <2>1, <2>2, OrdererFacts, OrderedGrows DEF IInv, TypeOK
<1> QED BY <1>1, <1>3, <1>4

\* What holds after any join step of tenantprovision.
LEMMA ProvisionAdvances ==
    ASSUME IInv, tool = "provision", NEW n \in Nat, NEW label, Advance(n, label), UNCHANGED up,
           UNCHANGED <<provisionVars, deployVars, neglected>>,
           genesis' = genesis, joined' \in [Channel -> [Node -> Nat]],
           ledger' \in [Channel -> Seq(Block)]
    PROVE  /\ TypeOK' /\ RunInv' /\ RaftInv' /\ OutcomeInv' /\ UNCHANGED <<tool, began, files, keys, loaded, retouched>>
           /\ i < n => i' = i + 1 /\ pc' = pc
           /\ ~(i < n) => i' = 1 /\ pc' = label
<1>1. /\ UNCHANGED <<tool, outcome, began, files, keys, loaded, retouched, package, installed, approved, committed>>
      /\ i < n => i' = i + 1 /\ pc' = pc
      /\ ~(i < n) => i' = 1 /\ pc' = label
  BY DEF Advance, provisionVars, deployVars
<1>2. i' \in Nat \ {0}
  BY <1>1 DEF IInv, TypeOK
<1>3. TypeOK'
  BY <1>1, <1>2 DEF IInv, TypeOK
<1>4. RunInv' /\ RaftInv' /\ OutcomeInv'
  BY <1>1, RaftFrame, NothingPromised DEF IInv, RunInv
<1> QED BY <1>1, <1>3, <1>4

\* A node of the new channel that is done with: it had joined, or joins now
\* with the block on disk.
LEMMA NewItem ==
    ASSUME IInv, NEW n \in Node, genesis[NewChannel] # 0, UNCHANGED retouched,
           \/ New[n] # 0 /\ UNCHANGED network
           \/ Join(NewChannel, n)
    PROVE  /\ joined' \in [Channel -> [Node -> Nat]] /\ ledger' \in [Channel -> Seq(Block)]
           /\ New'[n] # 0
           /\ \A m \in Node : New[m] # 0 => New'[m] # 0
           /\ UNCHANGED <<up, genesis>> /\ GenesisInv'
<1>1. CASE New[n] # 0 /\ UNCHANGED network
  BY <1>1, NetworkFrame DEF IInv, TypeOK, network, New
<1>2. CASE Join(NewChannel, n)
  <2>1. /\ joined' \in [Channel -> [Node -> Nat]] /\ ledger' \in [Channel -> Seq(Block)]
        /\ New'[n] = genesis[NewChannel]
        /\ \A m \in Node \ {n} : New'[m] = New[m]
        /\ \A c \in Channel \ {NewChannel} : joined'[c] = joined[c]
        /\ UNCHANGED <<up, genesis>>
    BY <1>2, JoinNew DEF New
  <2>2. \A m \in Node : New[m] # 0 => New'[m] # 0
    BY <2>1
  <2>3. genesis'[Home] = 1 /\ \A c \in Channel \ {NewChannel}, m \in Node : joined'[c][m] \in {0, 1}
    BY <2>1 DEF IInv, GenesisInv
  <2>4. ~retouched => \A m \in Node : New'[m] \in {0, genesis[NewChannel]}
    BY <2>1 DEF IInv, GenesisInv
  <2> QED BY <2>1, <2>2, <2>3, <2>4 DEF GenesisInv
<1> QED BY <1>1, <1>2

(***************************************************************************)
(* The orderers: whether one refuses because it has the channel or joins,  *)
(* it has the channel afterwards.                                          *)
(***************************************************************************)
LEMMA JoinNewOrdererIInv ==
    ASSUME IInv, UNCHANGED <<deployVars, neglected>>, joinNewOrderer
    PROVE  IInv'
<1>1. /\ tool = "provision" /\ pc = "orderers" /\ UNCHANGED provisionVars /\ UNCHANGED retouched
      /\ i \in DOMAIN Orderers /\ i \in Nat \ {0} /\ genesis[NewChannel] # 0
      /\ \A k \in 1..(i - 1) : New[Orderers[k]] # 0
      /\ Orderers[i] \in Node /\ Orderers[i] \in Orderer
  BY OrdererFacts DEF joinNewOrderer, At, IInv, ProvisionInv, TypeOK, provisionVars
<1>2. CASE Orderers[i] \notin up
  <2>1. Finish("fatal") /\ UNCHANGED network
    BY <1>2 DEF joinNewOrderer, FatalIf
  <2>2. ~began => Orderer \subseteq up
    BY <1>1 DEF IInv, LeftoverInv
  <2>3. began
    BY <1>1, <1>2, <2>2
  <2> QED BY <1>1, <2>1, <2>3, ProvisionFatal
<1>3. CASE Orderers[i] \in up
  <2>1. /\ (New[Orderers[i]] # 0 /\ UNCHANGED network) \/ Join(NewChannel, Orderers[i])
        /\ Advance(Len(Orderers), "peers")
    BY <1>3 DEF joinNewOrderer, FatalIf, New
  <2>2. /\ joined' \in [Channel -> [Node -> Nat]] /\ ledger' \in [Channel -> Seq(Block)]
        /\ New'[Orderers[i]] # 0
        /\ \A m \in Node : New[m] # 0 => New'[m] # 0
        /\ UNCHANGED <<up, genesis>> /\ GenesisInv'
    BY <1>1, <2>1, NewItem
  <2>3. /\ TypeOK' /\ RunInv' /\ RaftInv' /\ OutcomeInv' /\ UNCHANGED <<tool, began, files, keys, loaded, retouched>>
        /\ i < Len(Orderers) => i' = i + 1 /\ pc' = pc
        /\ ~(i < Len(Orderers)) => i' = 1 /\ pc' = "peers"
    BY <1>1, <2>1, <2>2, OrdererFacts, ProvisionAdvances
  <2>4. \A k \in 1..i : New'[Orderers[k]] # 0
    <3>1. \A k \in 1..i : k = i \/ (k \in 1..(i - 1) /\ k \in DOMAIN Orderers)
      BY <1>1, OrdererFacts
    <3>2. \A k \in DOMAIN Orderers : Orderers[k] \in Node
      BY OrdererFacts
    <3> QED BY <1>1, <2>2, <3>1, <3>2
  <2>5. ProvisionInv'
    <3>1. CASE i < Len(Orderers)
      <4>1. i + 1 \in DOMAIN Orderers /\ (i + 1) - 1 = i
        BY <1>1, <3>1, OrdererFacts
      <4> QED BY <1>1, <2>2, <2>3, <2>4, <3>1, <4>1 DEF ProvisionInv, Early, Unmade
    <3>2. CASE ~(i < Len(Orderers))
      <4>1. \A k \in DOMAIN Orderers : k \in 1..i
        BY <1>1, <3>2, OrdererFacts
      <4>2. \A o \in Orderer : New'[o] # 0
        BY <2>4, <4>1, OrdererFacts
      <4>3. 1 \in DOMAIN NewPeers
        BY OrdererFacts, PeerFacts DEF NewPeers
      <4> QED BY <1>1, <2>2, <2>3, <3>2, <4>2, <4>3 DEF ProvisionInv, Early, Unmade
    <3> QED BY <3>1, <3>2
  <2>6. LeftoverInv'
    <3> SUFFICES ASSUME ~began PROVE LeftoverInv'
      BY <2>3 DEF LeftoverInv
    <3>1. (\A q \in Parts : files[q] # "partial") /\ Orderer \subseteq up /\ loaded = keys
      BY <1>1 DEF IInv, LeftoverInv
    <3>2. pc' \in {"orderers", "peers"} /\ pc' \notin Early /\ pc' # "crypto"
      BY <1>1, <2>3 DEF Early
    <3> QED BY <2>2, <2>3, <3>1, <3>2 DEF LeftoverInv
  <2> QED BY <1>1, <2>2, <2>3, <2>5, <2>6, Elsewhere DEF IInv
<1> QED BY <1>2, <1>3

(***************************************************************************)
(* The peers: the same, and the tenant's own one must know the admin.      *)
(***************************************************************************)
LEMMA JoinNewPeerIInv ==
    ASSUME IInv, UNCHANGED <<deployVars, neglected>>, joinNewPeer
    PROVE  IInv'
<1> DEFINE p == NewPeers[i]
<1>1. /\ tool = "provision" /\ pc = "peers" /\ UNCHANGED provisionVars /\ UNCHANGED retouched
      /\ i \in DOMAIN NewPeers /\ i \in Nat \ {0} /\ genesis[NewChannel] # 0
      /\ \A o \in Orderer : New[o] # 0
      /\ \A k \in 1..(i - 1) : New[NewPeers[k]] # 0
  BY OrdererFacts DEF joinNewPeer, At, IInv, ProvisionInv, TypeOK, provisionVars
<1>2. /\ p \in Node /\ DOMAIN NewPeers = 1..Len(NewPeers) /\ Len(NewPeers) \in Nat
      /\ \A k \in DOMAIN NewPeers : NewPeers[k] \in Node
  BY <1>1, OrdererFacts, PeerFacts DEF NewPeers
<1>3. CASE p = TenantPeer /\ loaded # keys
  <2>1. Finish("fatal") /\ UNCHANGED network
    BY <1>3 DEF joinNewPeer, FatalIf
  <2>2. began
    BY <1>1, <1>3 DEF IInv, LeftoverInv
  <2> QED BY <1>1, <2>1, <2>2, ProvisionFatal
<1>4. CASE ~(p = TenantPeer /\ loaded # keys)
  <2>1. /\ (New[p] # 0 /\ UNCHANGED network) \/ Join(NewChannel, p)
        /\ Advance(Len(NewPeers), "verify")
    BY <1>4 DEF joinNewPeer, FatalIf, New
  <2>2. /\ joined' \in [Channel -> [Node -> Nat]] /\ ledger' \in [Channel -> Seq(Block)]
        /\ New'[p] # 0
        /\ \A m \in Node : New[m] # 0 => New'[m] # 0
        /\ UNCHANGED <<up, genesis>> /\ GenesisInv'
    BY <1>1, <1>2, <2>1, NewItem
  <2>3. /\ TypeOK' /\ RunInv' /\ RaftInv' /\ OutcomeInv' /\ UNCHANGED <<tool, began, files, keys, loaded, retouched>>
        /\ i < Len(NewPeers) => i' = i + 1 /\ pc' = pc
        /\ ~(i < Len(NewPeers)) => i' = 1 /\ pc' = "verify"
    BY <1>1, <1>2, <2>1, <2>2, ProvisionAdvances
  <2>4. \A o \in Orderer : New'[o] # 0
    BY <1>1, <2>2, OrdererFacts
  <2>5. \A k \in 1..i : New'[NewPeers[k]] # 0
    <3>1. \A k \in 1..i : k = i \/ (k \in 1..(i - 1) /\ k \in DOMAIN NewPeers)
      BY <1>1, <1>2
    <3> QED BY <1>1, <1>2, <2>2, <3>1
  <2> HIDE DEF p
  <2>6. ProvisionInv'
    <3>1. CASE i < Len(NewPeers)
      <4>1. i + 1 \in DOMAIN NewPeers /\ (i + 1) - 1 = i
        BY <1>1, <1>2, <3>1
      <4> QED BY <1>1, <2>2, <2>3, <2>4, <2>5, <3>1, <4>1 DEF ProvisionInv, Early, Unmade
    <3>2. CASE ~(i < Len(NewPeers))
      <4>1. \A k \in DOMAIN NewPeers : k \in 1..i
        BY <1>1, <1>2, <3>2
      <4>2. \A q \in Range(NewPeers) : New'[q] # 0
        BY <2>5, <4>1 DEF Range
      <4> QED BY <1>1, <2>2, <2>3, <2>4, <3>2, <4>2 DEF ProvisionInv, Early, Unmade
    <3> QED BY <3>1, <3>2
  <2>7. LeftoverInv'
    <3> SUFFICES ASSUME ~began PROVE LeftoverInv'
      BY <2>3 DEF LeftoverInv
    <3>1. (\A q \in Parts : files[q] # "partial") /\ Orderer \subseteq up /\ loaded = keys
      BY <1>1 DEF IInv, LeftoverInv
    <3>2. pc' \in {"peers", "verify"} /\ pc' \notin Early /\ pc' # "crypto"
      BY <1>1, <2>3 DEF Early
    <3> QED BY <2>2, <2>3, <3>1, <3>2 DEF LeftoverInv
  <2> QED BY <1>1, <2>2, <2>3, <2>6, <2>7, Elsewhere DEF IInv
<1> QED BY <1>3, <1>4

\* The last look, the ways to end early, and the operator's repairs.
LEMMA ProvisionEndIInv ==
    ASSUME IInv, UNCHANGED <<deployVars, neglected>>,
           VerifyTenantPeer \/ KilledWhileWriting \/ RemoveContainer \/ CleanUp
    PROVE  IInv'
<1>0. UNCHANGED <<package, installed, approved, committed, neglected>>
  BY DEF deployVars
<1>1. CASE VerifyTenantPeer
  <2>1. /\ tool = "provision" /\ pc = "verify" /\ UNCHANGED network /\ UNCHANGED provisionVars
        /\ UNCHANGED retouched
        /\ \A o \in Orderer : New[o] # 0
        /\ \A p \in Range(NewPeers) : New[p] # 0
    BY <1>1 DEF VerifyTenantPeer, At, IInv, ProvisionInv, provisionVars
  <2>2. New[TenantPeer] # 0
    BY <2>1, OrdererFacts, PeerFacts DEF TenantPeer, NewPeers
  <2>3. Finish("success")
    BY <1>1, <2>2 DEF VerifyTenantPeer, New
  <2>4. TypeOK'
    BY <2>1, <2>3, FinishTypes DEF IInv, TypeOK
  <2>5. outcome' = [tool |-> "provision", verdict |-> "success"] /\ joined' = joined
    BY <2>1, <2>3 DEF Finish, network
  <2>6. \A n \in Members(NewChannel) : joined'[NewChannel][n] # 0
    BY <2>1, <2>5 DEF Members, New, NewPeers
  <2>7. OutcomeInv'
    BY <2>5, <2>6 DEF OutcomeInv, SuccessMeansEveryone, RepeatUnlessLeftover, DeployedIsServed, Ended
  <2> QED BY <2>1, <2>3, <2>4, <2>7, FinishFacts
<1>2. CASE KilledWhileWriting
  <2>1. /\ tool = "provision" /\ pc \in Parts /\ Finish("interrupted") /\ UNCHANGED network
        /\ UNCHANGED <<up, genesis, joined, ledger, keys, loaded, retouched>> /\ i' = 1
        /\ files' = [files EXCEPT ![pc] = "partial"]
    BY <1>2 DEF KilledWhileWriting, Finish, network
  <2>2. files' \in [Parts -> {"absent", "partial", "whole"}]
    BY <2>1 DEF IInv, TypeOK
  <2>3. TypeOK'
    BY <1>0, <2>1, <2>2 DEF IInv, TypeOK
  <2>4. OutcomeInv'
    BY <2>1, NothingPromised DEF Finish
  <2> QED BY <2>1, <2>3, <2>4, FinishFacts
<1>3. CASE RemoveContainer \/ CleanUp
  <2>1. /\ tool = "none" /\ tool' = "none" /\ outcome' = NoOutcome
        /\ UNCHANGED <<up, genesis, joined, ledger, i, keys, retouched>>
        /\ loaded' \in {0, loaded}
        /\ files' = files \/ files' = [part \in Parts |-> "absent"]
    BY <1>3 DEF RemoveContainer, CleanUp, Operator, network, NoOutcome
  <2>2. files' \in [Parts -> {"absent", "partial", "whole"}] /\ loaded' \in Nat
    BY <2>1 DEF IInv, TypeOK
  <2>3. TypeOK'
    BY <1>0, <2>1, <2>2 DEF IInv, TypeOK
  <2>4. RaftInv' /\ GenesisInv'
    BY <1>0, <2>1, RaftFrame, NetworkFrame DEF IInv
  <2> QED BY <2>1, <2>3, <2>4, OperatorFacts
<1> QED BY <1>1, <1>2, <1>3

-----------------------------------------------------------------------------
(***************************************************************************)
(* ccdeploy.  What a step to another command, or to another item, leaves   *)
(* to show.                                                                *)
(***************************************************************************)
LEMMA DeployGoes ==
    ASSUME IInv, tool = "deploy", UNCHANGED <<tool, outcome, began, up, genesis, joined>>,
           UNCHANGED <<provisionVars, neglected, package>>,
           i' \in Nat \ {0}, ledger' \in [Channel -> Seq(Block)],
           installed' \in [Peer -> SUBSET (1..package)], approved' \in [Range(Approvers) -> Nat],
           committed' \in BOOLEAN, DeployInv'
    PROVE  IInv'
<1>1. UNCHANGED <<files, keys, loaded, retouched>>
  BY DEF provisionVars
<1>2. TypeOK'
  <2>1. neglected' \in BOOLEAN /\ committed' \in BOOLEAN
    BY DEF IInv, TypeOK
  <2> QED BY <1>1, <2>1 DEF IInv, TypeOK
<1>3. RunInv' /\ RaftInv' /\ GenesisInv' /\ OutcomeInv'
  BY <1>1, RaftFrame, NetworkFrame, NothingPromised DEF IInv, RunInv
<1> QED BY <1>2, <1>3, Elsewhere DEF IInv

\* A FATAL of ccdeploy promises nothing.
LEMMA DeployFatal ==
    ASSUME IInv, tool = "deploy", Finish("fatal"), UNCHANGED network,
           UNCHANGED <<provisionVars, deployVars, neglected>>
    PROVE  IInv'
<1>1. TypeOK'
  BY FinishTypes DEF IInv, TypeOK
<1>2. outcome' = [tool |-> "deploy", verdict |-> "fatal"]
  BY DEF Finish
<1>3. OutcomeInv'
  BY <1>2 DEF OutcomeInv, SuccessMeansEveryone, RepeatUnlessLeftover, DeployedIsServed, Ended
<1> QED BY <1>1, <1>3, FinishFacts DEF provisionVars

\* An order of ccdeploy is ordered on the first channel.
LEMMA DeployOrders ==
    ASSUME TypeOK, NEW tx \in {"lifecycle", "smoke"}, Ordered(Home, {tx})
    PROVE  ledger' \in [Channel -> Seq(Block)] /\ {tx} \in Range(ledger'[Home])
<1>1. {tx} \in Block
  BY DEF Block
<1> QED BY <1>1, OrdererFacts, OrderedGrows

\* Every step of ccdeploy.
LEMMA DeployIInv ==
    ASSUME IInv, DeployNext, UNCHANGED <<provisionVars, neglected>>
    PROVE  IInv'
<1>0. /\ TypeOK /\ DeployInv /\ package \in Nat \ {0}
      /\ installed \in [Peer -> SUBSET (1..package)] /\ approved \in [Range(Approvers) -> Nat]
      /\ ledger \in [Channel -> Seq(Block)] /\ i \in Nat \ {0}
  BY DEF IInv, TypeOK
<1>b. committed \in BOOLEAN
  BY DEF IInv, TypeOK
<1>1. CASE StartDeploy
  <2>1. Start("deploy", "install", 0, Empty) /\ UNCHANGED <<provisionVars, deployVars, neglected>>
    BY <1>1 DEF StartDeploy
  <2>2. /\ TypeOK' /\ RunInv' /\ RaftInv' /\ GenesisInv' /\ OutcomeInv'
        /\ tool' = "deploy" /\ pc' = "install" /\ i' = 1
    BY <2>1, StartFacts
  <2>3. 1 \in DOMAIN DeployPeers
    BY OrdererFacts, PeerFacts DEF DeployPeers
  <2>4. DeployInv'
    BY <2>2, <2>3 DEF DeployInv
  <2> QED BY <2>2, <2>4, Elsewhere DEF IInv
<1>2. CASE installOn
  <2>1. /\ tool = "deploy" /\ pc = "install" /\ i \in DOMAIN DeployPeers
        /\ UNCHANGED <<up, genesis, joined, ledger, package, approved, committed>>
        /\ installed' = [installed EXCEPT ![DeployPeers[i]] = @ \union {package}]
    BY <1>0, <1>2 DEF installOn, At, DeployInv, network
  <2>2. /\ UNCHANGED <<tool, outcome, began>>
        /\ i < Len(DeployPeers) => i' = i + 1 /\ pc' = pc
        /\ ~(i < Len(DeployPeers)) => i' = 1 /\ pc' = "query"
    BY <1>2, AdvanceFacts DEF installOn
  <2>3. DOMAIN DeployPeers = 1..Len(DeployPeers) /\ Len(DeployPeers) \in Nat
    BY OrdererFacts, PeerFacts DEF DeployPeers
  <2>4. i' \in Nat \ {0} /\ (i < Len(DeployPeers) => i' \in DOMAIN DeployPeers)
    BY <1>0, <2>1, <2>2, <2>3
  <2>5. installed' \in [Peer -> SUBSET (1..package)]
    <3>1. package \in 1..package
      BY <1>0
    <3> QED BY <1>0, <2>1, <3>1
  <2>6. DeployInv'
    BY <2>1, <2>2, <2>4 DEF DeployInv
  <2> QED BY <1>0, <1>b, <2>1, <2>2, <2>4, <2>5, <2>6, DeployGoes
<1>3. CASE queryPackageID
  <2>1. /\ tool = "deploy" /\ local' \in installed[DeployPeers[1]]
        /\ UNCHANGED <<up, genesis, joined, ledger, package, installed, approved, committed>>
        /\ UNCHANGED <<tool, outcome, began>> /\ i' = 1 /\ pc' = "approve"
    BY <1>3 DEF queryPackageID, At, Goto, network, deployVars
  <2>2. DeployPeers[1] \in Peer
    BY OrdererFacts, PeerFacts DEF DeployPeers
  <2>3. local' \in 1..package
    BY <1>0, <2>1, <2>2
  <2>4. DeployInv'
    BY <2>1, <2>3 DEF DeployInv
  <2> QED BY <1>0, <1>b, <2>1, <2>4, DeployGoes
<1>4. CASE approveFor
  <2>1. /\ tool = "deploy" /\ pc = "approve" /\ i \in 1..2 /\ local \in 1..package
        /\ i = 2 => approved[Approvers[1]] = local
        /\ UNCHANGED <<package, installed, committed>>
    BY <1>0, <1>4 DEF approveFor, At, DeployInv
  <2>2. CASE FatalIf(~Accepted) /\ UNCHANGED approved
    BY <2>1, <2>2, DeployFatal DEF FatalIf, deployVars
  <2>3. ASSUME approved' = [approved EXCEPT ![Approvers[i]] = local], Ordered(Home, {"lifecycle"}),
               Advance(Len(Approvers), "ready"), UNCHANGED <<up, genesis, joined, local>>
        PROVE  IInv'
    <3>1. ledger' \in [Channel -> Seq(Block)]
      BY <1>0, <2>3, DeployOrders
    <3>2. /\ UNCHANGED <<tool, outcome, began>>
          /\ i < 2 => i' = i + 1 /\ pc' = pc
          /\ ~(i < 2) => i' = 1 /\ pc' = "ready"
      BY <2>3, AdvanceFacts, ApproverFacts
    <3>3. Approvers[i] \in Range(Approvers) /\ Range(Approvers) = {Approvers[1], Approvers[2]}
      BY <2>1, ApproverFacts
    <3>4. /\ approved' \in [Range(Approvers) -> Nat] /\ approved'[Approvers[i]] = local
          /\ \A p \in Range(Approvers) : approved'[p] \in {approved[p], local}
      BY <1>0, <2>1, <2>3, <3>3
    <3>5. CASE i = 1
      <4>1. i' = 2 /\ pc' = "approve"
        BY <2>1, <3>2, <3>5
      <4>2. DeployInv'
        BY <2>1, <2>3, <3>2, <3>4, <3>5, <4>1 DEF DeployInv
      <4> QED BY <1>0, <1>b, <2>1, <2>3, <3>1, <3>2, <3>4, <4>1, <4>2, DeployGoes
    <3>6. CASE i = 2
      <4>1. i' = 1 /\ pc' = "ready"
        BY <2>1, <3>2, <3>6
      <4>2. \A p \in Range(Approvers) : approved'[p] = local
        BY <2>1, <3>3, <3>4, <3>6
      <4>3. DeployInv'
        BY <2>1, <2>3, <3>2, <4>1, <4>2 DEF DeployInv
      <4> QED BY <1>0, <1>b, <2>1, <2>3, <3>1, <3>2, <3>4, <4>1, <4>3, DeployGoes
    <3> QED BY <2>1, <3>5, <3>6
  <2> QED BY <1>4, <2>2, <2>3 DEF approveFor
<1>5. CASE CheckCommitReadiness
  <2>1. /\ tool = "deploy" /\ pc = "ready"
        /\ UNCHANGED <<up, genesis, joined, ledger, package, installed, approved, committed, local>>
        /\ UNCHANGED <<tool, outcome, began>> /\ i' = 1 /\ pc' = "commit"
    BY <1>5 DEF CheckCommitReadiness, At, Goto, network, deployVars
  <2>2. DeployInv'
    BY <1>0, <2>1 DEF DeployInv
  <2> QED BY <1>0, <1>b, <2>1, <2>2, DeployGoes
<1>6. CASE commit
  <2>1. /\ tool = "deploy" /\ pc = "commit" /\ local \in 1..package
        /\ \A p \in Range(Approvers) : approved[p] = local
        /\ UNCHANGED <<package, installed, approved>>
    BY <1>0, <1>6 DEF commit, At, DeployInv
  <2>2. CASE Finish("fatal") /\ UNCHANGED network /\ UNCHANGED committed
    BY <2>1, <2>2, DeployFatal DEF deployVars
  <2>3. ASSUME committed' = TRUE, Ordered(Home, {"lifecycle"}), Goto("invoke"),
               UNCHANGED <<up, genesis, joined, local>>
        PROVE  IInv'
    <3>1. ledger' \in [Channel -> Seq(Block)]
      BY <1>0, <2>3, DeployOrders
    <3>2. UNCHANGED <<tool, outcome, began>> /\ i' = 1 /\ pc' = "invoke"
      BY <2>3 DEF Goto
    <3>3. DeployInv'
      BY <2>1, <2>3, <3>2 DEF DeployInv
    <3> QED BY <1>0, <2>1, <2>3, <3>1, <3>2, <3>3, DeployGoes
  <2> QED BY <1>6, <2>2, <2>3 DEF commit, FatalIf
<1>7. CASE invokeSmoke
  <2>1. /\ tool = "deploy" /\ pc = "invoke" /\ local \in 1..package /\ committed
        /\ UNCHANGED <<package, installed, approved, committed>>
        /\ \A p \in Range(Approvers) : approved[p] = local
    BY <1>0, <1>7 DEF invokeSmoke, At, DeployInv, deployVars
  <2>2. CASE FatalIf(~Accepted \/ ~Endorsed)
    BY <2>1, <2>2, DeployFatal DEF FatalIf, deployVars
  <2>3. ASSUME Endorsed, Ordered(Home, {"smoke"}), Goto("check"),
               UNCHANGED <<up, genesis, joined, local>>
        PROVE  IInv'
    <3>1. ledger' \in [Channel -> Seq(Block)] /\ SmokeOrdered'
      BY <1>0, <2>3, DeployOrders DEF SmokeOrdered
    <3>2. UNCHANGED <<tool, outcome, began>> /\ i' = 1 /\ pc' = "check"
      BY <2>3 DEF Goto
    <3>3. \A p \in Range(Approvers) : local \in installed[p]
      BY <2>1, <2>3 DEF Endorsed
    <3>4. DeployInv'
      BY <2>1, <2>3, <3>1, <3>2, <3>3 DEF DeployInv
    <3> QED BY <1>0, <1>b, <2>1, <2>3, <3>1, <3>2, <3>4, DeployGoes
  <2> QED BY <1>7, <2>2, <2>3 DEF invokeSmoke
<1>8. CASE querySmoke
  <2>1. /\ tool = "deploy" /\ pc = "check" /\ local \in 1..package /\ committed /\ SmokeOrdered
        /\ UNCHANGED network /\ UNCHANGED deployVars /\ UNCHANGED ledger
        /\ UNCHANGED <<package, installed, approved, committed>>
        /\ \A p \in Range(Approvers) : approved[p] = local
        /\ \A p \in Range(Approvers) : local \in installed[p]
    BY <1>0, <1>8 DEF querySmoke, At, DeployInv, deployVars, network
  <2>2. Finish("success")
    BY <1>8, <2>1 DEF querySmoke, SmokeOrdered
  <2>3. TypeOK'
    BY <2>1, <2>2, FinishTypes DEF IInv, TypeOK
  <2>4. outcome' = [tool |-> "deploy", verdict |-> "success"]
    BY <2>1, <2>2 DEF Finish
  <2>5. DeployedIsServed'
    <3>1. \E b \in Range(ledger'[Home]) : "smoke" \in b
      BY <2>1 DEF SmokeOrdered
    <3>2. \E id \in 1..package' : \A p \in Range(Approvers) : approved'[p] = id /\ id \in installed'[p]
      BY <2>1
    <3> QED BY <2>1, <3>1, <3>2 DEF DeployedIsServed
  <2>6. OutcomeInv'
    BY <2>4, <2>5 DEF OutcomeInv, SuccessMeansEveryone, RepeatUnlessLeftover, Ended
  <2> QED BY <2>1, <2>2, <2>3, <2>6, FinishFacts DEF provisionVars
<1>9. CASE Repackage
  <2>1. /\ tool = "none" /\ tool' = "none" /\ outcome' = NoOutcome
        /\ package' = package + 1 /\ UNCHANGED <<up, genesis, joined, ledger, i>>
        /\ UNCHANGED <<installed, approved, committed>> /\ UNCHANGED <<files, keys, loaded, retouched>>
    BY <1>9 DEF Repackage, Operator, network, NoOutcome, provisionVars
  <2>2. package' \in Nat \ {0} /\ installed' \in [Peer -> SUBSET (1..package')]
    <3>1. package + 1 \in Nat \ {0} /\ 1..package \subseteq 1..(package + 1)
      BY <1>0
    <3> QED BY <1>0, <2>1, <3>1
  <2>3. TypeOK'
    BY <2>1, <2>2 DEF IInv, TypeOK
  <2>4. RaftInv' /\ GenesisInv'
    BY <2>1, RaftFrame, NetworkFrame DEF IInv
  <2> QED BY <2>1, <2>3, <2>4, OperatorFacts
<1> QED BY <1>1, <1>2, <1>3, <1>4, <1>5, <1>6, <1>7, <1>8, <1>9 DEF DeployNext

-----------------------------------------------------------------------------
(***************************************************************************)
(* raftfaulttest.  What a step to the next command leaves to show.         *)
(***************************************************************************)
LEMMA RaftGoes ==
    ASSUME IInv, tool = "raft", UNCHANGED <<tool, outcome, began, genesis, joined>>, i' = 1,
           UNCHANGED <<provisionVars, deployVars>>, up' \subseteq Orderer,
           ledger' \in [Channel -> Seq(Block)], neglected' \in BOOLEAN, RaftInv'
    PROVE  IInv'
<1>1. UNCHANGED <<files, keys, loaded, retouched, package, installed, approved, committed>>
  BY DEF provisionVars, deployVars
<1>2. TypeOK'
  BY <1>1 DEF IInv, TypeOK
<1>3. RunInv' /\ GenesisInv' /\ OutcomeInv'
  BY <1>1, NetworkFrame, NothingPromised DEF IInv, RunInv
<1> QED BY <1>2, <1>3, Elsewhere DEF IInv

\* raftfaulttest ends, inside its second probe or outside it.
LEMMA RaftEnds ==
    ASSUME IInv, tool = "raft", NEW verdict, Finish(verdict), UNCHANGED network,
           UNCHANGED <<provisionVars, deployVars>>,
           neglected' = TRUE \/ (neglected' = neglected /\ pc \notin SecondProbe)
    PROVE  IInv'
<1>1. neglected' \in BOOLEAN
  BY DEF IInv, TypeOK
<1>2. TypeOK'
  BY <1>1, FinishTypes DEF IInv
<1>3. outcome' = [tool |-> "raft", verdict |-> verdict]
  BY DEF Finish
<1>4. OutcomeInv'
  BY <1>3 DEF OutcomeInv, SuccessMeansEveryone, RepeatUnlessLeftover, DeployedIsServed, Ended
<1> QED BY <1>2, <1>4, FinishFacts DEF provisionVars

\* An orderer is stopped, or the docker stop fails.
LEMMA DockerStopIInv ==
    ASSUME IInv, UNCHANGED <<provisionVars, deployVars>>,
           dockerStop(1, "stop1", "build1") \/ dockerStop(2, "stop2", "build2")
    PROVE  IInv'
<1>1. /\ tool = "raft" /\ UNCHANGED <<genesis, joined, ledger, neglected>>
      /\ UNCHANGED <<tool, outcome, began>> /\ i' = 1
      /\ \/ pc = "stop1" /\ pc' = "build1" /\ up' \in {up, up \ {Victim[1]}}
         \/ pc = "stop2" /\ pc' = "build2" /\ up' \in {up, up \ {Victim[2]}}
  BY DEF dockerStop, At, Goto
<1>2. up \subseteq Orderer /\ ledger' \in [Channel -> Seq(Block)]
  BY <1>1 DEF IInv, TypeOK
<1>3. neglected' \in BOOLEAN
  BY <1>1 DEF IInv, TypeOK
<1>4. RaftInv'
  <2>1. CASE pc = "stop1"
    <3>1. Stopped = {Victim[1]} /\ Stopped' = {Victim[1]} /\ up' \in {up, up \ {Victim[1]}}
      BY <1>1, <2>1 DEF Stopped, SecondProbe
    <3> QED BY <1>1, <3>1 DEF IInv, RaftInv
  <2>2. CASE pc = "stop2"
    <3>1. /\ Stopped = {Victim[1]} /\ Stopped' = {Victim[1], Victim[2]}
          /\ up' \in {up, up \ {Victim[2]}}
      BY <1>1, <2>2 DEF Stopped, SecondProbe
    <3> QED BY <1>1, <3>1 DEF IInv, RaftInv
  <2> QED BY <1>1, <2>1, <2>2
<1> QED BY <1>1, <1>2, <1>3, <1>4, RaftGoes

\* The update is made from the config of the first orderer.
LEMMA BuildSignedUpdateIInv ==
    ASSUME IInv, UNCHANGED <<provisionVars, deployVars>>,
           buildSignedUpdate("build1", "submit1") \/ buildSignedUpdate("build2", "submit2")
    PROVE  IInv'
<1>1. PICK l \in {<<"build1", "submit1">>, <<"build2", "submit2">>} : buildSignedUpdate(l[1], l[2])
  OBVIOUS
<1>2. /\ tool = "raft" /\ pc = l[1]
      /\ \/ Finish("fatal") /\ UNCHANGED network /\ neglected' = (neglected \/ l[1] \in SecondProbe)
         \/ Goto(l[2]) /\ UNCHANGED network /\ UNCHANGED neglected
  BY <1>1 DEF buildSignedUpdate, At, FatalIf
<1>3. CASE Finish("fatal") /\ UNCHANGED network /\ neglected' = (neglected \/ l[1] \in SecondProbe)
  <2>1. neglected' = TRUE \/ (neglected' = neglected /\ pc \notin SecondProbe)
    BY <1>2, <1>3 DEF IInv, TypeOK
  <2> QED BY <1>2, <1>3, <2>1, RaftEnds
<1>4. CASE Goto(l[2]) /\ UNCHANGED network /\ UNCHANGED neglected
  <2>1. UNCHANGED <<up, genesis, joined, ledger, tool, outcome, began>> /\ i' = 1 /\ pc' = l[2]
    BY <1>4 DEF Goto, network
  <2>2. Stopped' = Stopped
    BY <1>1, <1>2, <2>1 DEF Stopped, SecondProbe
  <2>3. RaftInv'
    BY <1>4, <2>1, <2>2 DEF IInv, RaftInv
  <2>4. up' \subseteq Orderer /\ ledger' \in [Channel -> Seq(Block)]
    BY <2>1 DEF IInv, TypeOK
  <2>5. neglected' \in BOOLEAN
    BY <1>4 DEF IInv, TypeOK
  <2> QED BY <1>2, <2>1, <2>3, <2>4, <2>5, RaftGoes
<1> QED BY <1>2, <1>3, <1>4

\* The update is ordered, refused, or acknowledged and never ordered, and the
\* heights are compared.
LEMMA ProbeIInv ==
    ASSUME IInv, UNCHANGED <<provisionVars, deployVars>>,
           \/ submitUpdate("submit1", "result1") \/ Probe1Result
           \/ submitUpdate("submit2", "result2") \/ Probe2Result
    PROVE  IInv'
<1>1. /\ tool = "raft" /\ UNCHANGED <<up, genesis, joined, neglected>>
      /\ Ordered(Home, {"config"}) \/ ledger' = ledger
      /\ UNCHANGED <<tool, outcome, began>> /\ i' = 1
      /\ \/ pc = "submit1" /\ pc' = "result1"
         \/ pc = "result1" /\ pc' = "stop2"
         \/ pc = "submit2" /\ pc' = "result2"
         \/ pc = "result2" /\ pc' = "restore"
  <2>1. CASE submitUpdate("submit1", "result1")
    BY <2>1 DEF submitUpdate, At, Goto, network
  <2>2. CASE submitUpdate("submit2", "result2")
    BY <2>2 DEF submitUpdate, At, Goto, network
  <2>3. CASE Probe1Result \/ Probe2Result
    BY <2>3 DEF Probe1Result, Probe2Result, At, Goto, network
  <2> QED BY <2>1, <2>2, <2>3
<1>2. ledger' \in [Channel -> Seq(Block)]
  <2>1. {"config"} \in Block
    BY DEF Block
  <2> QED BY <1>1, <2>1, OrdererFacts, OrderedGrows DEF IInv, TypeOK
<1>3. Stopped' = Stopped
  BY <1>1 DEF Stopped, SecondProbe
<1>4. RaftInv'
  BY <1>1, <1>3 DEF IInv, RaftInv
<1>5. up' \subseteq Orderer
  BY <1>1 DEF IInv, TypeOK
<1>6. neglected' \in BOOLEAN
  BY <1>1 DEF IInv, TypeOK
<1> QED BY <1>1, <1>2, <1>4, <1>5, <1>6, RaftGoes

\* Every step of raftfaulttest.
LEMMA RaftIInv ==
    ASSUME IInv, RaftNext, UNCHANGED <<provisionVars, deployVars>>
    PROVE  IInv'
<1>1. CASE StartRaftTest
  <2>1. /\ TypeOK' /\ RunInv' /\ RaftInv' /\ GenesisInv' /\ OutcomeInv' /\ tool' = "raft"
    BY <1>1, StartFacts DEF StartRaftTest
  <2> QED BY <2>1, Elsewhere DEF IInv
<1>2. CASE Restore
  <2>1. PICK started \in SUBSET Range(Victim) :
          up' = up \union started /\ neglected' = (Victim[2] \notin started)
    BY <1>2 DEF Restore, dockerStart
  <2>2. /\ tool = "raft" /\ pc = "restore" /\ pc' = "verdict" /\ i' = 1
        /\ UNCHANGED <<tool, outcome, began, genesis, joined, ledger>>
    BY <1>2 DEF Restore, At, Goto
  <2>3. Victim[1] \in Orderer /\ Victim[2] \in Orderer /\ Range(Victim) = {Victim[1], Victim[2]}
    BY OrdererFacts, VictimFacts
  <2>4. up' \subseteq Orderer /\ ledger' \in [Channel -> Seq(Block)]
    BY <2>1, <2>2, <2>3 DEF IInv, TypeOK
  <2>5. neglected' \in BOOLEAN
    BY <2>1
  <2>6. RaftInv'
    <3>1. Stopped = {Victim[1], Victim[2]} /\ Stopped' = {Victim[1]}
      BY <2>2 DEF Stopped, SecondProbe
    <3>2. neglected' \/ Victim[2] \in up'
      BY <2>1
    <3> QED BY <2>1, <2>3, <3>1, <3>2 DEF IInv, RaftInv
  <2> QED BY <2>2, <2>4, <2>5, <2>6, RaftGoes
<1>3. CASE RaftVerdict
  <2>1. tool = "raft" /\ pc \notin SecondProbe /\ UNCHANGED network /\ UNCHANGED neglected
    BY <1>3 DEF RaftVerdict, At, SecondProbe
  <2>2. PICK verdict : Finish(verdict)
    BY <1>3 DEF RaftVerdict
  <2> QED BY <2>1, <2>2, RaftEnds
<1>4. CASE StartOrderers
  <2>1. /\ tool = "none" /\ tool' = "none" /\ outcome' = NoOutcome /\ up' = Orderer
        /\ neglected' = FALSE /\ UNCHANGED <<genesis, joined, ledger, i>>
        /\ UNCHANGED <<files, keys, loaded, retouched, package, installed, approved, committed>>
    BY <1>4 DEF StartOrderers, Operator, NoOutcome, provisionVars, deployVars
  <2>2. TypeOK'
    BY <2>1 DEF IInv, TypeOK
  <2>3. RaftInv' /\ GenesisInv'
    BY <2>1, NetworkFrame DEF IInv, RaftInv
  <2> QED BY <2>1, <2>2, <2>3, OperatorFacts
<1> QED BY <1>1, <1>2, <1>3, <1>4, DockerStopIInv, BuildSignedUpdateIInv, ProbeIInv DEF RaftNext

-----------------------------------------------------------------------------
(***************************************************************************)
(* pilscan.  A block without a finding is clean: the raw search sees the   *)
(* dictionary in every transaction, decodable or not, and the structural   *)
(* checks see the rest.                                                    *)
(***************************************************************************)
LEMMA ParsedIsClean ==
    ASSUME NEW block, parseBlock(block) = {}
    PROVE  \A tx \in block : Clean(tx)
<1> SUFFICES ASSUME NEW tx \in block PROVE Clean(tx)
  OBVIOUS
<1>1. ~containsFixture(tx)
  BY DEF parseBlock, scanRawBackstop
<1>2. ASSUME {"decodes", "endorser", "responds", "record"} \subseteq Facts[tx]
      PROVE  Is(tx, "argsShaped") /\ Is(tx, "valueShaped")
  <2>1. Is(tx, "decodes") /\ Is(tx, "endorser") /\ Is(tx, "responds") /\ Is(tx, "record")
    BY <1>2 DEF Is
  <2>2. checkArgs(tx) \union checkResponse(tx) = {}
    BY <2>1 DEF parseBlock
  <2>3. Is(tx, "argsShaped")
    BY <2>1, <2>2 DEF checkArgs
  <2>4. Is(tx, "valueShaped")
    BY <2>1, <2>2 DEF checkResponse, checkRecordJSON
  <2> QED BY <2>3, <2>4
<1> QED BY <1>1, <1>2 DEF Clean, containsFixture

\* What a step of the scan leaves to show.
LEMMA ScanGoes ==
    ASSUME IInv, tool = "scan", UNCHANGED <<tool, outcome, began>>, UNCHANGED network,
           UNCHANGED <<provisionVars, deployVars, neglected>>, i' \in Nat \ {0}, ScanInv'
    PROVE  IInv'
<1>1. /\ UNCHANGED <<files, keys, loaded, retouched, package, installed, approved, committed, neglected>>
      /\ UNCHANGED <<up, genesis, joined, ledger>>
  BY DEF provisionVars, deployVars, network
<1>2. TypeOK'
  BY <1>1 DEF IInv, TypeOK
<1>3. RunInv' /\ GenesisInv' /\ RaftInv' /\ OutcomeInv'
  BY <1>1, NetworkFrame, RaftFrame, NothingPromised DEF IInv, RunInv
<1> QED BY <1>2, <1>3, Elsewhere DEF IInv

\* A channel is done with, after an error or after its newest block.
LEMMA EndChannelIInv ==
    ASSUME IInv, tool = "scan", pc \in {"newest", "blocks"}, NEW pass \in BOOLEAN, EndChannel(pass),
           pass => local.pass /\ CleanTo(Channels[i], began[Channels[i]]),
           UNCHANGED <<provisionVars, deployVars, neglected>>
    PROVE  IInv'
<1>1. /\ local' = [height |-> 0, n |-> 0, findings |-> {}, pass |-> pass]
      /\ pc' = (IF i < Len(Channels) THEN "newest" ELSE "verdict")
      /\ i' = (IF i < Len(Channels) THEN i + 1 ELSE 1)
      /\ UNCHANGED network /\ UNCHANGED <<tool, outcome, began>>
  BY DEF EndChannel
<1>2. /\ i \in DOMAIN Channels /\ BeganInv /\ i \in Nat \ {0}
      /\ local.pass => \A k \in DOMAIN Channels : k < i => CleanTo(Channels[k], began[Channels[k]])
  BY DEF IInv, ScanInv, TypeOK
<1>3. DOMAIN Channels = 1..Len(Channels) /\ Len(Channels) \in Nat
  BY FactsAssumption
<1>4. UNCHANGED ledger
  BY <1>1 DEF network
<1>5. i' \in Nat \ {0} /\ (pc' = "newest" => i' \in DOMAIN Channels)
  BY <1>1, <1>2, <1>3
<1>6. pass => \A k \in DOMAIN Channels :
        k < i' \/ pc' = "verdict" => CleanTo(Channels[k], began[Channels[k]])
  <2> SUFFICES ASSUME pass, NEW k \in DOMAIN Channels, k < i' \/ pc' = "verdict"
               PROVE  CleanTo(Channels[k], began[Channels[k]])
    OBVIOUS
  <2>1. k < i \/ k = i
    BY <1>1, <1>2, <1>3
  <2> QED BY <1>2, <2>1
<1>7. /\ local'.height = 0 /\ local'.n = 0 /\ local'.findings = {} /\ local'.pass = pass
      /\ DOMAIN local' = {"height", "n", "findings", "pass"}
      /\ pc' \in {"newest", "verdict"}
  BY <1>1
<1>8. BeganInv' /\ \A k \in DOMAIN Channels : CleanTo(Channels[k], began[Channels[k]])
                     => CleanTo(Channels[k], began[Channels[k]])'
  BY <1>1, <1>2, <1>4 DEF BeganInv, CleanTo
<1>9. ScanInv'
  <2>1. local'.pass => \A k \in DOMAIN Channels :
          k < i' \/ pc' = "verdict" => CleanTo(Channels[k], began[Channels[k]])'
    BY <1>6, <1>7, <1>8
  <2>2. local'.height \in Int /\ local'.n \in Nat /\ local'.pass \in BOOLEAN
    BY <1>7
  <2> QED BY <1>5, <1>7, <1>8, <2>1, <2>2 DEF ScanInv
<1> QED BY <1>1, <1>5, <1>9, ScanGoes

\* The height is read; nothing of the channel has been looked at yet.
LEMMA NewestBlockIInv ==
    ASSUME IInv, NewestBlock, UNCHANGED <<provisionVars, deployVars, neglected>>
    PROVE  IInv'
<1>1. /\ tool = "scan" /\ pc = "newest" /\ pc' = "blocks" /\ i' = i
      /\ local' = [local EXCEPT !.height = Len(ledger[Channels[i]]) - 1]
      /\ UNCHANGED network /\ UNCHANGED <<tool, outcome, began>> /\ UNCHANGED ledger
  BY DEF NewestBlock, At, network
<1>2. /\ i \in DOMAIN Channels /\ BeganInv /\ i \in Nat \ {0}
      /\ local.pass => \A k \in DOMAIN Channels : k < i => CleanTo(Channels[k], began[Channels[k]])
      /\ local.n = 0 /\ local.findings = {} /\ DOMAIN local = {"height", "n", "findings", "pass"}
      /\ local.pass \in BOOLEAN
  BY <1>1 DEF IInv, ScanInv, TypeOK
<1>3. Channels[i] \in Channel
  BY <1>2, FactsAssumption
<1>4. Len(ledger[Channels[i]]) \in Nat /\ began[Channels[i]] \in 0..Len(ledger[Channels[i]])
  BY <1>2, <1>3, LedgerFacts DEF IInv, BeganInv
<1>5. /\ local'.height = Len(ledger[Channels[i]]) - 1 /\ local'.n = 0 /\ local'.findings = {}
      /\ local'.pass = local.pass /\ DOMAIN local' = {"height", "n", "findings", "pass"}
  BY <1>1, <1>2
<1>6. /\ BeganInv'
      /\ \A k \in DOMAIN Channels : CleanTo(Channels[k], began[Channels[k]])
                                      => CleanTo(Channels[k], began[Channels[k]])'
  BY <1>1, <1>2 DEF BeganInv, CleanTo
<1>7. CleanTo(Channels[i], local.n)'
  BY <1>5 DEF CleanTo
<1>8. ScanInv'
  <2>1. local'.pass => \A k \in DOMAIN Channels :
          k < i' \/ pc' = "verdict" => CleanTo(Channels[k], began[Channels[k]])'
    BY <1>1, <1>2, <1>5, <1>6
  <2>2. local'.height \in Int /\ local'.n \in Nat
    BY <1>4, <1>5
  <2>3. local'.pass \in BOOLEAN
    BY <1>2, <1>5
  <2>4. /\ began'[Channels[i']] <= local'.height + 1
        /\ local'.height + 1 <= Len(ledger'[Channels[i']])
        /\ local'.n <= local'.height + 1
    BY <1>1, <1>4, <1>5
  <2> QED BY <1>1, <1>2, <1>5, <1>6, <1>7, <2>1, <2>2, <2>3, <2>4 DEF ScanInv
<1> QED BY <1>1, <1>2, <1>8, ScanGoes

\* One block is fetched and looked at.
LEMMA ScanBlockIInv ==
    ASSUME IInv, ScanBlock, UNCHANGED <<provisionVars, deployVars, neglected>>
    PROVE  IInv'
<1> DEFINE found == parseBlock(ledger[Channels[i]][local.n + 1])
<1>1. /\ tool = "scan" /\ pc = "blocks" /\ pc' = "blocks" /\ i' = i /\ MoreBlocks
      /\ local' = [local EXCEPT !.n = @ + 1, !.findings = @ \union found]
      /\ UNCHANGED network /\ UNCHANGED <<tool, outcome, began>> /\ UNCHANGED ledger
  BY DEF ScanBlock, At, network, control
<1>2. /\ i \in DOMAIN Channels /\ BeganInv /\ i \in Nat \ {0}
      /\ local.pass => \A k \in DOMAIN Channels : k < i => CleanTo(Channels[k], began[Channels[k]])
      /\ DOMAIN local = {"height", "n", "findings", "pass"} /\ local.height \in Int /\ local.n \in Nat
      /\ began[Channels[i]] <= local.height + 1
      /\ local.height + 1 <= Len(ledger[Channels[i]])
      /\ local.findings = {} => CleanTo(Channels[i], local.n)
  BY <1>1 DEF IInv, ScanInv, TypeOK
<1>3. local.n + 1 <= local.height + 1 /\ local.n + 1 \in Nat
  BY <1>1, <1>2 DEF MoreBlocks
<1>4. /\ local'.height = local.height /\ local'.n = local.n + 1
      /\ local'.findings = local.findings \union found
      /\ local'.pass = local.pass /\ DOMAIN local' = {"height", "n", "findings", "pass"}
  BY <1>1, <1>2
<1>5. /\ BeganInv'
      /\ \A k \in DOMAIN Channels : CleanTo(Channels[k], began[Channels[k]])
                                      => CleanTo(Channels[k], began[Channels[k]])'
  BY <1>1, <1>2 DEF BeganInv, CleanTo
<1>6. ASSUME local'.findings = {} PROVE CleanTo(Channels[i], local.n)'
  <2>1. local.findings = {} /\ found = {}
    BY <1>4, <1>6
  <2>2. \A tx \in ledger[Channels[i]][local.n + 1] : Clean(tx)
    BY <2>1, ParsedIsClean
  <2>3. CleanTo(Channels[i], local.n)
    BY <1>2, <2>1
  <2>4. \A k \in 1..(local.n + 1) : k \in 1..local.n \/ k = local.n + 1
    BY <1>2
  <2>5. \A k \in 1..(local.n + 1) : \A tx \in ledger[Channels[i]][k] : Clean(tx)
    BY <2>2, <2>3, <2>4 DEF CleanTo
  <2> QED BY <1>1, <1>4, <2>5 DEF CleanTo
<1>7. ScanInv'
  <2> HIDE DEF found
  <2>1. local'.pass => \A k \in DOMAIN Channels :
          k < i' \/ pc' = "verdict" => CleanTo(Channels[k], began[Channels[k]])'
    BY <1>1, <1>2, <1>4, <1>5
  <2>2. local'.height \in Int /\ local'.n \in Nat
    BY <1>2, <1>3, <1>4
  <2>3. local'.pass \in BOOLEAN
    BY <1>1, <1>4 DEF IInv, ScanInv
  <2>4. /\ began'[Channels[i']] <= local'.height + 1
        /\ local'.height + 1 <= Len(ledger'[Channels[i']])
        /\ local'.n <= local'.height + 1
    BY <1>1, <1>2, <1>3, <1>4
  <2> QED BY <1>1, <1>2, <1>4, <1>5, <1>6, <2>1, <2>2, <2>3, <2>4 DEF ScanInv
<1> QED BY <1>1, <1>2, <1>7, ScanGoes

\* Every step of pilscan.
LEMMA ScanIInv ==
    ASSUME IInv, ScanNext, UNCHANGED <<provisionVars, deployVars, neglected>>
    PROVE  IInv'
<1>1. CASE StartScan
  <2> DEFINE memory == [height |-> 0, n |-> 0, findings |-> {}, pass |-> TRUE]
             found  == [c \in Channel |-> Len(ledger[c])]
  <2>1. Start("scan", "newest", memory, found)
    BY <1>1 DEF StartScan
  <2>2. /\ memory.height = 0 /\ memory.n = 0 /\ memory.findings = {} /\ memory.pass = TRUE
        /\ DOMAIN memory = {"height", "n", "findings", "pass"}
    OBVIOUS
  <2>3. \A c \in Channel : found[c] = Len(ledger[c])
    OBVIOUS
  <2> HIDE DEF memory, found
  <2>4. /\ TypeOK' /\ RunInv' /\ RaftInv' /\ GenesisInv' /\ OutcomeInv'
        /\ tool' = "scan" /\ pc' = "newest" /\ i' = 1 /\ local' = memory /\ began' = found
        /\ UNCHANGED ledger
    BY <2>1, StartFacts
  <2>5. BeganInv'
    <3>1. \A c \in Channel : Len(ledger[c]) \in Nat
      BY LedgerFacts DEF IInv
    <3> QED BY <2>3, <2>4, <3>1 DEF BeganInv
  <2>6. DOMAIN Channels = 1..Len(Channels) /\ 1 \in DOMAIN Channels
    BY FactsAssumption
  <2>7. \A k \in DOMAIN Channels : ~(k < i') /\ pc' # "verdict"
    BY <2>4, <2>6
  <2>8. ScanInv'
    <3>1. /\ local'.height \in Int /\ local'.n \in Nat /\ local'.n = 0 /\ local'.findings = {}
          /\ DOMAIN local' = {"height", "n", "findings", "pass"}
      BY <2>2, <2>4
    <3>2. local'.pass \in BOOLEAN
      BY <2>2, <2>4
    <3>3. \A k \in DOMAIN Channels :
            k < i' \/ pc' = "verdict" => CleanTo(Channels[k], began[Channels[k]])'
      BY <2>7
    <3> QED BY <2>4, <2>5, <2>6, <3>1, <3>2, <3>3 DEF ScanInv
  <2> QED BY <2>4, <2>8, Elsewhere DEF IInv
<1>2. CASE ScanError
  BY <1>2, EndChannelIInv DEF ScanError
<1>3. CASE ScannedChannel
  <2>1. /\ tool = "scan" /\ pc = "blocks" /\ ~MoreBlocks
        /\ EndChannel(local.pass /\ local.findings = {})
    BY <1>3 DEF ScannedChannel, At
  <2>2. /\ i \in DOMAIN Channels /\ BeganInv
        /\ local.height \in Int /\ local.n \in Nat /\ local.pass \in BOOLEAN
        /\ began[Channels[i]] <= local.height + 1
        /\ local.findings = {} => CleanTo(Channels[i], local.n)
    BY <2>1 DEF IInv, ScanInv
  <2>3. began[Channels[i]] \in Nat
    <3>1. Channels[i] \in Channel
      BY <2>2, FactsAssumption
    <3> QED BY <2>2, <3>1, LedgerFacts DEF IInv, BeganInv
  <2>4. began[Channels[i]] <= local.n
    BY <2>1, <2>2, <2>3 DEF MoreBlocks
  <2>5. local.findings = {} => CleanTo(Channels[i], began[Channels[i]])
    BY <2>2, <2>3, <2>4 DEF CleanTo
  <2>6. (local.pass /\ local.findings = {}) \in BOOLEAN
    OBVIOUS
  <2> QED BY <2>1, <2>5, <2>6, EndChannelIInv
<1>4. CASE ScanVerdict
  <2>1. /\ tool = "scan" /\ pc = "verdict" /\ UNCHANGED network /\ UNCHANGED ledger
        /\ Finish(IF local.pass THEN "success" ELSE "fatal")
    BY <1>4 DEF ScanVerdict, At, network
  <2>2. BeganInv /\ (local.pass => \A k \in DOMAIN Channels : CleanTo(Channels[k], began[Channels[k]]))
    BY <2>1 DEF IInv, ScanInv
  <2>3. TypeOK'
    BY <2>1, FinishTypes DEF IInv, TypeOK
  <2>4. /\ outcome' = [tool |-> "scan", verdict |-> IF local.pass THEN "success" ELSE "fatal"]
        /\ began' = began
    BY <2>1 DEF Finish
  <2>5. local.pass => BeganInv' /\ \A c \in Range(Channels) : CleanTo(c, began[c])'
    <3>1. local.pass => \A c \in Range(Channels) : CleanTo(c, began[c])
      BY <2>2 DEF Range
    <3> QED BY <2>1, <2>2, <2>4, <3>1 DEF BeganInv, CleanTo
  <2>6. OutcomeInv'
    BY <2>4, <2>5 DEF OutcomeInv, SuccessMeansEveryone, RepeatUnlessLeftover, DeployedIsServed, Ended
  <2> QED BY <2>1, <2>3, <2>6, FinishFacts DEF provisionVars
<1> QED BY <1>1, <1>2, <1>3, <1>4, NewestBlockIInv, ScanBlockIInv DEF ScanNext

-----------------------------------------------------------------------------
(***************************************************************************)
(* The invariant is inductive.                                             *)
(***************************************************************************)
LEMMA NextIInv == IInv /\ [Next]_vars => IInv'
<1> SUFFICES ASSUME IInv, [Next]_vars PROVE IInv'
  OBVIOUS
<1>1. CASE NetJoinNext /\ UNCHANGED <<provisionVars, deployVars, neglected>>
  BY <1>1, NetJoinIInv
<1>2. CASE ProvisionNext /\ UNCHANGED <<deployVars, neglected>>
  BY <1>2, ProvisionEarlyIInv, JoinNewOrdererIInv, JoinNewPeerIInv, ProvisionEndIInv DEF ProvisionNext
<1>3. CASE DeployNext /\ UNCHANGED <<provisionVars, neglected>>
  BY <1>3, DeployIInv
<1>4. CASE RaftNext /\ UNCHANGED <<provisionVars, deployVars>>
  BY <1>4, RaftIInv
<1>5. CASE ScanNext /\ UNCHANGED <<provisionVars, deployVars, neglected>>
  BY <1>5, ScanIInv
<1>6. CASE Interrupt \/ RemoveChannel \/ \E p \in Peer : ResetPeer(p)
  BY <1>6, InterruptIInv, RemoveChannelIInv, ResetPeerIInv
<1>7. CASE /\ \E c \in Channel, block \in AppBlocks : AppWrite(c, block)
           /\ UNCHANGED <<provisionVars, deployVars, neglected>>
  BY <1>7, AppWriteIInv
<1>8. CASE UNCHANGED vars
  <2>1. /\ UNCHANGED <<up, genesis, joined, ledger, tool, pc, i, runs, outcome, began, local>>
        /\ UNCHANGED <<files, keys, loaded, retouched, package, installed, approved, committed, neglected>>
    BY <1>8 DEF vars, network, control, provisionVars, deployVars
  <2>2. TypeOK'
    BY <2>1 DEF IInv, TypeOK
  <2>3. RunInv' /\ RaftInv' /\ GenesisInv' /\ JoinInv' /\ ProvisionInv' /\ LeftoverInv'
    BY <2>1 DEF IInv, RunInv, RaftInv, Stopped, GenesisInv, JoinInv, ProvisionInv, LeftoverInv, New
  <2>4. DeployInv' /\ ScanInv'
    BY <2>1 DEF IInv, DeployInv, SmokeOrdered, ScanInv, BeganInv, CleanTo
  <2>5. OutcomeInv'
    BY <2>1, <2>2, UnchangedGrows, OutcomeFrame DEF IInv
  <2> QED BY <2>2, <2>3, <2>4, <2>5 DEF IInv
<1> QED BY <1>1, <1>2, <1>3, <1>4, <1>5, <1>6, <1>7, <1>8 DEF Next

(***************************************************************************)
(* The invariant holds whatever tools are run in whatever order, wherever  *)
(* they are interrupted, and whatever the application writes meanwhile.    *)
(***************************************************************************)
THEOREM NetworkToolsInvariant == Spec => []IInv
  BY InitIInv, NextIInv, PTL DEF Spec

(***************************************************************************)
(* The nodes of the first channel sit on one genesis block, and those of   *)
(* the new one as long as the latest run of tenantprovision began with no  *)
(* node on it, however it and the other tools were interrupted.            *)
(***************************************************************************)
THEOREM NodesShareTheGenesis == Spec => []OneGenesis
<1>1. ASSUME IInv, NEW c \in Channel, ~(c = NewChannel /\ retouched)
      PROVE  OneBlock(c)
  <2> DEFINE G == {joined[c][n] : n \in Node} \ {0}
  <2>1. \A m, n \in Node : joined[c][m] # 0 /\ joined[c][n] # 0 => joined[c][m] = joined[c][n]
    BY <1>1 DEF IInv, GenesisInv, New
  <2>2. \A x, y \in G : x = y
    BY <2>1
  <2>3. G = {} \/ \E x : G = {x}
    <3> HIDE DEF G
    <3> SUFFICES ASSUME NEW x \in G PROVE G = {x}
      OBVIOUS
    <3> QED BY <2>2
  <2>4. Cardinality(G) = 0 \/ Cardinality(G) = 1
    <3> HIDE DEF G
    <3> QED BY <2>3, FS_EmptySet, FS_Singleton
  <2> QED BY <2>4 DEF OneBlock
<1>2. IInv => OneGenesis
  BY <1>1 DEF OneGenesis
<1> QED BY <1>2, NetworkToolsInvariant, PTL

(***************************************************************************)
(* SUCCESS of netjoin or tenantprovision means that every orderer and      *)
(* every peer of the channel has joined.                                   *)
(***************************************************************************)
THEOREM EveryoneHasJoined == Spec => []SuccessMeansEveryone
<1>1. IInv => SuccessMeansEveryone
  BY DEF IInv, OutcomeInv
<1> QED BY <1>1, NetworkToolsInvariant, PTL

(***************************************************************************)
(* tenantprovision ends with a FATAL of its own only if it found something *)
(* left over: otherwise it can be started again.                           *)
(***************************************************************************)
THEOREM ProvisioningRepeats == Spec => []RepeatUnlessLeftover
<1>1. IInv => RepeatUnlessLeftover
  BY DEF IInv, OutcomeInv
<1> QED BY <1>1, NetworkToolsInvariant, PTL

(***************************************************************************)
(* SUCCESS of ccdeploy means one package, approved by both organizations,  *)
(* installed, committed and invoked.                                       *)
(***************************************************************************)
THEOREM OnePackageIsServed == Spec => []DeployedIsServed
<1>1. IInv => DeployedIsServed
  BY DEF IInv, OutcomeInv
<1> QED BY <1>1, NetworkToolsInvariant, PTL

(***************************************************************************)
(* raftfaulttest takes the quorum away only in its second probe, whatever  *)
(* the number of orderers and however runs ended outside that probe.       *)
(***************************************************************************)
THEOREM MajorityRuns == Spec => []QuorumKept
<1>1. IsFiniteSet(Orderer) /\ Cardinality(Orderer) = Len(Orderers)
  <2>1. Orderers \in Surjection(1..Len(Orderers), Orderer)
    <3>1. Orderers \in [1..Len(Orderers) -> Orderer]
      BY NetworkAssumption
    <3> QED BY <3>1, OrdererFacts DEF Surjection
  <2>2. Orderers \in Injection(1..Len(Orderers), Orderer)
    <3>1. Orderers \in [1..Len(Orderers) -> Orderer] /\ IsInjective(Orderers)
      BY NetworkAssumption
    <3> QED BY <3>1 DEF Injection
  <2>3. IsFiniteSet(1..Len(Orderers)) /\ Cardinality(1..Len(Orderers)) = Len(Orderers)
    BY OrdererFacts, FS_Interval
  <2> QED BY <2>1, <2>2, <2>3, FS_Surjection
<1>2. IInv => QuorumKept
  <2> SUFFICES ASSUME IInv, ~neglected,
                      ~(tool = "raft" /\ pc \in SecondProbe)
               PROVE  Quorum(up)
    BY DEF QuorumKept
  <2>1. Stopped \subseteq {Victim[1]}
    BY DEF Stopped
  <2>2. up \subseteq Orderer /\ Orderer \ {Victim[1]} \subseteq up
    BY <2>1 DEF IInv, TypeOK, RaftInv
  <2>3. /\ IsFiniteSet(Orderer \ {Victim[1]})
        /\ Cardinality(Orderer \ {Victim[1]}) >= Len(Orderers) - 1
    <3> DEFINE rest == Orderer \ {Victim[1]}
    <3>1. /\ IsFiniteSet(rest)
          /\ Cardinality(rest) = IF Victim[1] \in Orderer THEN Cardinality(Orderer) - 1
                                                         ELSE Cardinality(Orderer)
      BY <1>1, FS_RemoveElement
    <3> HIDE DEF rest
    <3>2. Cardinality(rest) \in {Len(Orderers) - 1, Len(Orderers)}
      BY <1>1, <3>1
    <3>3. Cardinality(rest) >= Len(Orderers) - 1
      BY <3>2, OrdererFacts
    <3> QED BY <3>1, <3>3 DEF rest
  <2>4. IsFiniteSet(up) /\ Cardinality(up) \in Nat
    BY <1>1, <2>2, FS_Subset, FS_CardinalityType
  <2>5. Cardinality(Orderer \ {Victim[1]}) <= Cardinality(up)
    BY <2>2, <2>4, FS_Subset
  <2>6. Cardinality(Orderer \ {Victim[1]}) \in Nat
    BY <2>3, FS_CardinalityType
  <2> QED BY <2>3, <2>4, <2>5, <2>6, OrdererFacts DEF Quorum
<1> QED BY <1>2, NetworkToolsInvariant, PTL

(***************************************************************************)
(* PASS of pilscan covers every block that was on a channel when the scan  *)
(* began.                                                                  *)
(***************************************************************************)
THEOREM PassedLedgersAreClean == Spec => []ScanPassIsClean
<1>1. IInv => ScanPassIsClean
  BY DEF IInv, OutcomeInv, ScanPassIsClean, CleanTo, Clean
<1> QED BY <1>1, NetworkToolsInvariant, PTL
=============================================================================

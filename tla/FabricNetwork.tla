--------------------------- MODULE FabricNetwork ----------------------------
(***************************************************************************)
(* The network the command-line tools of fabric-network/tools operate on:  *)
(* orderers, peers and channels as osnadmin, peer and docker show them, and *)
(* the one tool the operator is running.                                   *)
(*                                                                         *)
(* Every command of a tool is a step.  A command that fails for a reason   *)
(* outside the model, with or without having had its effect, and a tool    *)
(* killed between two commands are the same thing, Interrupt: the tools    *)
(* exit where they are and undo nothing.                                   *)
(***************************************************************************)
EXTENDS Integers, Sequences, FiniteSets, SequencesExt

CONSTANTS
    Orderers,    \* the orderers, in the order of the tools' lists
    Peers,       \* of each channel: its peers, the tenant's own one last
    Home,        \* the channel of the first tenant
    NewChannel,  \* the channel tenantprovision sets up
    MaxRuns,     \* bound: tools started
    AppBlocks,   \* the blocks the application's writes can end up in
    MaxWrites    \* bound: such blocks

Channel == DOMAIN Peers
Orderer == Range(Orderers)
Peer    == UNION {Range(Peers[c]) : c \in Channel}
Node    == Orderer \union Peer
Members(c) == Orderer \union Range(Peers[c])

ASSUME NetworkAssumption ==
    /\ Home \in Channel /\ NewChannel \in Channel /\ Home # NewChannel
    /\ Orderer \cap Peer = {}
    /\ Orderers \in Seq(Orderer) /\ IsInjective(Orderers)
    /\ \A c \in Channel : Peers[c] \in Seq(Peer) /\ Peers[c] # <<>>
    /\ MaxRuns \in Nat /\ MaxWrites \in Nat

VARIABLES
    up,       \* orderers whose container runs
    genesis,  \* of each channel: the genesis block file on disk, 0 none
    joined,   \* of each channel and node: the genesis block joined with, 0 none
    ledger,   \* of each channel: the blocks ordered, each a set of transactions
    tool,     \* the tool running
    pc, i,    \* its next command, and the item of its loop
    local,    \* its memory, lost when it ends
    runs,
    outcome,  \* how the last tool ended
    began     \* history: what that tool found when it started

network == <<up, genesis, joined, ledger>>
control == <<tool, pc, i, runs, outcome, began>>

Empty == <<>>

\* The network of the first tenant, not joined yet or joined.
NetworkInit ==
    /\ up      = Orderer
    /\ genesis = [c \in Channel |-> IF c = Home THEN 1 ELSE 0]
    /\ \E g \in {0, 1} :
         /\ joined = [c \in Channel |-> [n \in Node |->
                        IF c = Home /\ n \in Members(c) THEN g ELSE 0]]
         /\ ledger = [c \in Channel |-> IF c = Home /\ g = 1 THEN <<{"config"}>> ELSE <<>>]
    /\ tool = "none" /\ pc = "idle" /\ i = 1 /\ runs = 0
    /\ local   = Empty
    /\ outcome = [tool |-> "none", verdict |-> "none"]
    /\ began   = Empty

\* Raft orders as long as a majority of the consenters runs.  Orderers that were
\* given different genesis blocks do not work together; ledger is what those
\* with the first orderer's block have ordered.
Quorum(nodes) == 2 * Cardinality(nodes) > Len(Orderers)
Orders(c) ==
    LET first == joined[c][Orderers[1]]
    IN  first # 0 /\ Quorum({o \in up : joined[c][o] = first})

\* The orderer of the tools' command lines serves the channel's blocks.
Reachable(c) == Orderers[1] \in up /\ joined[c][Orderers[1]] # 0

\* What an orderer appends to the channel.
Ordered(c, block) == ledger' = [ledger EXCEPT ![c] = Append(@, block)]

\* A node joins the channel with the block file on disk; the first one makes
\* the channel.
Join(c, n) ==
    /\ joined' = [joined EXCEPT ![c][n] = genesis[c]]
    /\ IF ledger[c] = <<>> THEN Ordered(c, {"config"}) ELSE UNCHANGED ledger
    /\ UNCHANGED <<up, genesis>>

-----------------------------------------------------------------------------
At(t, label) == tool = t /\ pc = label

Goto(label) ==
    /\ pc' = label /\ i' = 1
    /\ UNCHANGED <<tool, runs, outcome, began>>

\* The next item of a loop over n items, or on to label.
Advance(n, label) ==
    /\ IF i < n THEN i' = i + 1 /\ pc' = pc ELSE i' = 1 /\ pc' = label
    /\ UNCHANGED <<tool, runs, outcome, began>>

Finish(verdict) ==
    /\ outcome' = [tool |-> tool, verdict |-> verdict]
    /\ tool' = "none" /\ pc' = "idle" /\ i' = 1 /\ local' = Empty
    /\ UNCHANGED <<runs, began>>

\* exits is the value of os.Exit's condition: FATAL, or the rest of the step.
FatalIf(exits) == exits /\ Finish("fatal") /\ UNCHANGED network

\* The operator starts a tool at its first command.
Start(t, label, memory, found) ==
    /\ tool = "none" /\ runs < MaxRuns
    /\ tool' = t /\ pc' = label /\ i' = 1 /\ runs' = runs + 1 /\ local' = memory
    /\ outcome' = [tool |-> "none", verdict |-> "none"]
    /\ began' = found
    /\ UNCHANGED network

\* What the operator does between two tools.
Operator(change) ==
    /\ tool = "none" /\ runs < MaxRuns
    /\ change
    /\ outcome' = [tool |-> "none", verdict |-> "none"]
    /\ began' = Empty
    /\ UNCHANGED <<tool, pc, i, local, runs>>

\* The blocks of a channel that the application has filled.
Written(c) == {n \in DOMAIN ledger[c] : ledger[c][n] \in AppBlocks}

\* The application writes while a quorum orders, whatever tool is running.
AppWrite(c, block) ==
    /\ Orders(c)
    /\ Cardinality(UNION {{d} \X Written(d) : d \in Channel}) < MaxWrites
    /\ Ordered(c, block)
    /\ UNCHANGED <<up, genesis, joined, local, control>>
=============================================================================

--------------------------- MODULE RaftFaultTest ----------------------------
(***************************************************************************)
(* raftfaulttest: a config update must be ordered with one orderer stopped *)
(* and must not be with two; then both are started again.                  *)
(***************************************************************************)
EXTENDS FabricNetwork

ASSUME VictimAssumption == Len(Orderers) >= 3

VARIABLE neglected   \* history: a run ended in or after its second probe without
                     \* starting the second victim again

\* The two orderers the tool stops.
Victim == <<Orderers[2], Orderers[3]>>

\* The commands with both victims stopped.
SecondProbe == {"build2", "submit2", "result2", "restore"}

RaftInit == neglected = FALSE

Probe == [acked |-> FALSE, ok |-> FALSE, height |-> 0, rejected |-> FALSE]

StartRaftTest == Start("raft", "stop1", Probe, Empty) /\ UNCHANGED neglected

\* blockHeight: -1 when it cannot be read.
HeightRead == {Len(ledger[Home]), 0 - 1}

\* A docker stop that fails is a warning.
dockerStop(k, label, next) ==
    /\ At("raft", label)
    /\ up' \in {up, up \ {Victim[k]}}
    /\ Goto(next)
    /\ UNCHANGED <<genesis, joined, ledger, local, neglected>>

\* currentBatchTimeout and buildSignedUpdate: the config is fetched from the
\* first orderer, which may not serve it without a leader.
buildSignedUpdate(label, next) ==
    /\ At("raft", label)
    /\ \/ /\ FatalIf(~Orders(Home) \/ ~Reachable(Home))
          /\ neglected' = (neglected \/ label \in SecondProbe)
       \/ /\ Reachable(Home)
          /\ Goto(next)
          /\ UNCHANGED <<network, local, neglected>>

\* With a quorum the update is ordered or refused; without one an orderer that
\* still believes to lead acknowledges what is never ordered.
submitUpdate(label, next) ==
    /\ At("raft", label)
    /\ \E acked \in BOOLEAN :
         /\ IF acked /\ Orders(Home)
            THEN Ordered(Home, {"config"}) /\ UNCHANGED <<up, genesis, joined>>
            ELSE UNCHANGED network
         /\ local' = [local EXCEPT !.acked = acked]
    /\ Goto(next)
    /\ UNCHANGED neglected

\* An acknowledged update passes whatever the heights before and after it are.
Probe1Result ==
    /\ At("raft", "result1")
    /\ \E h \in HeightRead :
         local' = [local EXCEPT !.height = h, !.ok = local.acked]
    /\ Goto("stop2")
    /\ UNCHANGED <<network, neglected>>

Probe2Result ==
    /\ At("raft", "result2")
    /\ \E h \in HeightRead :
         local' = [local EXCEPT !.rejected = ~local.acked \/ h <= local.height]
    /\ Goto("restore")
    /\ UNCHANGED <<network, neglected>>

\* Mutant: only the first victim is started.
dockerStartFirst(containers) ==
    /\ up' = up \union {containers[1]}
    /\ UNCHANGED neglected

\* A docker start that fails, for one or both, is a warning.
dockerStart(containers) ==
    \E started \in SUBSET Range(containers) :
        /\ up' = up \union started
        /\ neglected' = (containers[2] \notin started)

Restore ==
    /\ At("raft", "restore")
    /\ dockerStart(Victim)
    /\ Goto("verdict")
    /\ UNCHANGED <<genesis, joined, ledger, local>>

RaftVerdict ==
    /\ At("raft", "verdict")
    /\ Finish(IF local.ok /\ local.rejected THEN "success" ELSE "fatal")
    /\ UNCHANGED <<network, neglected>>

\* The operator starts the orderers by hand.
StartOrderers ==
    /\ up # Orderer
    /\ Operator(up' = Orderer)
    /\ neglected' = FALSE
    /\ UNCHANGED <<genesis, joined, ledger>>

RaftNext ==
    \/ StartRaftTest
    \/ dockerStop(1, "stop1", "build1") \/ buildSignedUpdate("build1", "submit1")
    \/ submitUpdate("submit1", "result1") \/ Probe1Result
    \/ dockerStop(2, "stop2", "build2") \/ buildSignedUpdate("build2", "submit2")
    \/ submitUpdate("submit2", "result2") \/ Probe2Result
    \/ Restore \/ RaftVerdict \/ StartOrderers
=============================================================================

---------------------------- MODULE NetworkTools ----------------------------
(***************************************************************************)
(* The tools run one after the other on one network, in any order, each    *)
(* interrupted anywhere and started again, while the application writes.   *)
(***************************************************************************)
EXTENDS NetJoin, TenantProvision, CcDeploy, RaftFaultTest, PilScan

vars == <<network, control, local, provisionVars, deployVars, neglected>>

Init == NetworkInit /\ ProvisionInit /\ DeployInit /\ RaftInit

\* A command fails or the tool is killed; nothing is undone.
Interrupt ==
    /\ tool # "none"
    /\ Finish("interrupted")
    /\ neglected' = (neglected \/ (tool = "raft" /\ pc \in SecondProbe))
    /\ UNCHANGED <<network, provisionVars, deployVars>>

\* The operator takes the channel from the orderers, to create it again.  Its
\* peers keep their copies.
RemoveChannel ==
    /\ \E o \in Orderer : joined[NewChannel][o] # 0
    /\ Operator(joined' = [joined EXCEPT ![NewChannel] =
                             [n \in Node |-> IF n \in Orderer THEN 0 ELSE @[n]]])
    /\ ledger' = [ledger EXCEPT ![NewChannel] = <<>>]
    /\ UNCHANGED <<up, genesis, provisionVars, deployVars, neglected>>

\* The runbook's way out for a peer of a broken channel: its ledger volume is
\* reset, with all its channels and packages.
ResetPeer(p) ==
    /\ joined[NewChannel][p] # 0
    /\ Operator(/\ joined' = [c \in Channel |-> [joined[c] EXCEPT ![p] = 0]]
                /\ installed' = [installed EXCEPT ![p] = {}])
    /\ UNCHANGED <<up, genesis, ledger, provisionVars, package, approved, committed, neglected>>

Next ==
    \/ NetJoinNext /\ UNCHANGED <<provisionVars, deployVars, neglected>>
    \/ ProvisionNext /\ UNCHANGED <<deployVars, neglected>>
    \/ DeployNext /\ UNCHANGED <<provisionVars, neglected>>
    \/ RaftNext /\ UNCHANGED <<provisionVars, deployVars>>
    \/ ScanNext /\ UNCHANGED <<provisionVars, deployVars, neglected>>
    \/ Interrupt \/ RemoveChannel \/ \E p \in Peer : ResetPeer(p)
    \/ /\ \E c \in Channel, block \in AppBlocks : AppWrite(c, block)
       /\ UNCHANGED <<provisionVars, deployVars, neglected>>

Spec == Init /\ [][Next]_vars

-----------------------------------------------------------------------------
Ended(t, verdict) == outcome = [tool |-> t, verdict |-> verdict]

\* All nodes that have joined the channel have joined it with one block; a peer
\* on another one panics on an "unexpected Previous block hash".
OneBlock(c) == Cardinality({joined[c][n] : n \in Node} \ {0}) <= 1

(***************************************************************************)
(* The nodes of a channel sit on one genesis block, wherever tools are     *)
(* interrupted and whichever nodes are reset afterwards, with one          *)
(* exception, which the code does not prevent: tenantprovision, started    *)
(* over a channel that some node already has, makes another block for the  *)
(* nodes that do not, and ends with SUCCESS.  This is the mismatch that    *)
(* docs/runbooks/network-operations.md records; the property says that     *)
(* nothing else leads to it.                                               *)
(***************************************************************************)
OneGenesis == \A c \in Channel : OneBlock(c) \/ (c = NewChannel /\ retouched)

(***************************************************************************)
(* SUCCESS of netjoin or tenantprovision means that every orderer and      *)
(* every peer of the channel has joined, although the first lists only the *)
(* peers and the second only the tenant's peer at the end, and orderers    *)
(* may be left stopped by an earlier raftfaulttest.                        *)
(***************************************************************************)
SuccessMeansEveryone ==
    /\ Ended("netjoin", "success") => \A n \in Members(Home) : joined[Home][n] # 0
    /\ Ended("provision", "success") =>
         \A n \in Members(NewChannel) : joined[NewChannel][n] # 0

(***************************************************************************)
(* tenantprovision can be started again over what an earlier run has done: *)
(* it exits with FATAL on its own account only if it found something half  *)
(* written, an orderer stopped, or a running peer whose keys were taken    *)
(* from the disk, and neither over nodes that have the channel already nor *)
(* over a container that is there or gone.                                 *)
(***************************************************************************)
RepeatUnlessLeftover == Ended("provision", "fatal") => began

(***************************************************************************)
(* SUCCESS of ccdeploy means that both organizations have approved one and *)
(* the same package, the definition is committed, both endorsing peers     *)
(* have that package, and the smoke record is on the ledger, whatever      *)
(* packages earlier runs have left under the same label.                   *)
(***************************************************************************)
DeployedIsServed ==
    Ended("deploy", "success") =>
        /\ committed
        /\ \E id \in 1..package : \A p \in Range(Approvers) :
             approved[p] = id /\ id \in installed[p]
        /\ \E b \in Range(ledger[Home]) : "smoke" \in b

(***************************************************************************)
(* raftfaulttest takes the quorum away only in its second probe: at any    *)
(* other moment a majority of the orderers runs, however many runs were    *)
(* killed, failed in their first probe, or could not start the first       *)
(* victim.  A run that ends inside its second probe, or cannot start the   *)
(* second victim, does leave the network without a quorum.                 *)
(***************************************************************************)
QuorumKept ==
    \/ neglected
    \/ tool = "raft" /\ pc \in SecondProbe
    \/ Quorum(up)

(***************************************************************************)
(* PASS of pilscan covers every block that was on a channel when the scan  *)
(* began: none holds a string of the dictionary, decodable or not, and no  *)
(* record in it is out of shape, whatever was appended meanwhile.          *)
(***************************************************************************)
ScanPassIsClean ==
    Ended("scan", "success") =>
        \A c \in Range(Channels) : \A n \in 1..began[c] :
            \A tx \in ledger[c][n] :
                /\ ~Is(tx, "fixture")
                /\ {"decodes", "endorser", "responds", "record"} \subseteq Facts[tx] =>
                     Is(tx, "argsShaped") /\ Is(tx, "valueShaped")
=============================================================================

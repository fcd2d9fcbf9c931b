------------------------------ MODULE CcDeploy ------------------------------
(***************************************************************************)
(* ccdeploy: install, approve, commit and smoke-test the chaincode on the  *)
(* first tenant's channel.  Packages carry one label whatever they hold;   *)
(* the sequence number is a constant.                                      *)
(***************************************************************************)
EXTENDS FabricNetwork

CONSTANT MaxPackages   \* bound: packages built

ASSUME PackagesAssumption == MaxPackages \in Nat

VARIABLES
    package,    \* the package file
    installed,  \* of each peer: the packages installed
    approved,   \* of each approving peer's organization: the package, 0 none
    committed   \* the definition is committed

deployVars == <<package, installed, approved, committed>>

DeployPeers == Peers[Home]
Approvers   == <<Head(DeployPeers), Last(DeployPeers)>>

DeployInit ==
    /\ package   = 1
    /\ installed = [p \in Peer |-> {}]
    /\ approved  = [p \in Range(Approvers) |-> 0]
    /\ committed = FALSE

StartDeploy == Start("deploy", "install", 0, Empty) /\ UNCHANGED deployVars

\* "already successfully installed" is success.
installOn ==
    /\ At("deploy", "install")
    /\ installed' = [installed EXCEPT ![DeployPeers[i]] = @ \union {package}]
    /\ Advance(Len(DeployPeers), "query")
    /\ UNCHANGED <<network, local, package, approved, committed>>

\* The first line of queryinstalled with the label, in whatever order.
queryPackageID ==
    /\ At("deploy", "query")
    /\ local' \in installed[DeployPeers[1]]
    /\ Goto("approve")
    /\ UNCHANGED <<network, deployVars>>

\* An order that reaches the orderer of the command line and is ordered.
Accepted == Reachable(Home) /\ Orders(Home)
            /\ \A p \in Range(Approvers) : joined[Home][p] # 0

\* Mutant: each organization looks up the package again.
approveForRequeried ==
    /\ At("deploy", "approve")
    /\ \/ FatalIf(~Accepted) /\ UNCHANGED approved
       \/ /\ Accepted
          /\ \E id \in installed[Approvers[i]] : approved' = [approved EXCEPT ![Approvers[i]] = id]
          /\ Ordered(Home, {"lifecycle"})
          /\ Advance(Len(Approvers), "ready")
          /\ UNCHANGED <<up, genesis, joined, local>>
    /\ UNCHANGED <<package, installed, committed>>

approveFor ==
    /\ At("deploy", "approve")
    /\ \/ FatalIf(~Accepted) /\ UNCHANGED approved
       \/ /\ Accepted
          /\ approved' = [approved EXCEPT ![Approvers[i]] = local]
          /\ Ordered(Home, {"lifecycle"})
          /\ Advance(Len(Approvers), "ready")
          /\ UNCHANGED <<up, genesis, joined, local>>
    /\ UNCHANGED <<package, installed, committed>>

\* checkcommitreadiness: printed, not read.
CheckCommitReadiness ==
    /\ At("deploy", "ready")
    /\ Goto("commit")
    /\ UNCHANGED <<network, local, deployVars>>

\* Refused when this sequence number is committed already.
commit ==
    /\ At("deploy", "commit")
    /\ LET refuse == ~Accepted \/ committed \/ \E p \in Range(Approvers) : approved[p] = 0
       IN  \/ FatalIf(refuse) /\ UNCHANGED committed
           \/ /\ ~refuse
              /\ committed' = TRUE
              /\ Ordered(Home, {"lifecycle"})
              /\ Goto("invoke")
              /\ UNCHANGED <<up, genesis, joined, local>>
    /\ UNCHANGED <<package, installed, approved>>

\* Both endorsers run the package their organization approved.
Endorsed == \A p \in Range(Approvers) : approved[p] \in installed[p]

invokeSmoke ==
    /\ At("deploy", "invoke")
    /\ \/ FatalIf(~Accepted \/ ~Endorsed)
       \/ /\ Accepted /\ Endorsed
          /\ Ordered(Home, {"smoke"})
          /\ Goto("check")
          /\ UNCHANGED <<up, genesis, joined, local>>
    /\ UNCHANGED deployVars

querySmoke ==
    /\ At("deploy", "check")
    /\ Finish(IF \E b \in Range(ledger[Home]) : "smoke" \in b THEN "success" ELSE "fatal")
    /\ UNCHANGED <<network, deployVars>>

\* The developer builds the package again.
Repackage ==
    /\ package < MaxPackages
    /\ Operator(package' = package + 1)
    /\ UNCHANGED <<network, installed, approved, committed>>

DeployNext ==
    \/ StartDeploy \/ installOn \/ queryPackageID \/ approveFor \/ CheckCommitReadiness
    \/ commit \/ invokeSmoke \/ querySmoke \/ Repackage
=============================================================================

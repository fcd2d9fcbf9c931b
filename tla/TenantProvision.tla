-------------------------- MODULE TenantProvision ---------------------------
(***************************************************************************)
(* tenantprovision: crypto material, configtx.yaml, genesis block, peer    *)
(* container and channel join for a new tenant.  Steps that find their     *)
(* result are skipped; the genesis block is always made anew; a node that  *)
(* already has the channel keeps the block it joined with, and the tool    *)
(* goes on.                                                                *)
(***************************************************************************)
EXTENDS FabricNetwork

VARIABLES
    files,   \* what the steps look for on disk: "absent", "partial", "whole"
    keys,    \* the tenant's key material on disk, 0 none
    loaded,  \* the key material the tenant's running peer has read, 0 no container
    retouched   \* history: the latest run began with a node already on the channel

provisionVars == <<files, keys, loaded, retouched>>

NewPeers   == Peers[NewChannel]
TenantPeer == Last(NewPeers)
Parts      == {"crypto", "org", "profile", "compose"}

ProvisionInit ==
    /\ files  = [part \in Parts |-> "absent"]
    /\ keys   = 0
    /\ loaded = 0
    /\ retouched = FALSE

\* What an earlier run can leave behind that this tool does not get over.
Leftover ==
    \/ \E part \in Parts : files[part] = "partial"
    \/ \E o \in Orderer : o \notin up
    \/ loaded # 0 /\ (files["crypto"] = "absent" \/ loaded # keys)

StartProvision ==
    /\ Start("provision", "crypto", Empty, Leftover)
    /\ retouched' = (\E n \in Node : joined[NewChannel][n] # 0)
    /\ UNCHANGED <<files, keys, loaded>>

Done(part, label) ==
    /\ files' = [files EXCEPT ![part] = IF @ = "absent" THEN "whole" ELSE @]
    /\ Goto(label)
    /\ UNCHANGED <<network, local, loaded, retouched>>

\* Mutant: cryptogen runs every time.
genCryptoMaterialAlways ==
    /\ At("provision", "crypto")
    /\ keys' = keys + 1
    /\ Done("crypto", "org")

genCryptoMaterial ==
    /\ At("provision", "crypto")
    /\ keys' = IF files["crypto"] = "absent" THEN keys + 1 ELSE keys
    /\ Done("crypto", "org")

\* The org block and the profile, each inserted if it is not there.
addConfigtxOrg     == At("provision", "org") /\ Done("org", "profile") /\ UNCHANGED keys
addConfigtxProfile == At("provision", "profile") /\ Done("profile", "genesis") /\ UNCHANGED keys

\* configtxgen: a new block whenever configtx.yaml can be read.
genChannelBlock ==
    /\ At("provision", "genesis")
    /\ LET torn == \E part \in {"crypto", "org", "profile"} : files[part] = "partial"
       IN  \/ FatalIf(torn)
           \/ /\ ~torn
              /\ genesis' = [genesis EXCEPT ![NewChannel] = @ + 1]
              /\ Goto("compose")
              /\ UNCHANGED <<up, joined, ledger, local>>
    /\ UNCHANGED provisionVars

addPeerComposeService == At("provision", "compose") /\ Done("compose", "up") /\ UNCHANGED keys

\* docker compose up: nothing if the container runs, otherwise it reads the keys.
ComposeUp ==
    /\ At("provision", "up")
    /\ \/ FatalIf(files["compose"] = "partial") /\ UNCHANGED loaded
       \/ /\ files["compose"] # "partial"
          /\ loaded' = IF loaded = 0 THEN keys ELSE loaded
          /\ Goto("orderers")
          /\ UNCHANGED <<network, local>>
    /\ UNCHANGED <<files, keys, retouched>>

\* Mutant: the block is made again before every orderer's join.
joinNewOrdererFresh ==
    /\ At("provision", "orderers")
    /\ LET o == Orderers[i]
       IN  \/ FatalIf(o \notin up)
           \/ /\ o \in up
              /\ genesis' = [genesis EXCEPT ![NewChannel] = @ + 1]
              /\ joined' = [joined EXCEPT ![NewChannel][o] = IF @ # 0 THEN @ ELSE genesis'[NewChannel]]
              /\ IF ledger[NewChannel] = <<>> THEN Ordered(NewChannel, {"config"})
                                               ELSE UNCHANGED ledger
              /\ Advance(Len(Orderers), "peers")
              /\ UNCHANGED <<up, local>>
    /\ UNCHANGED provisionVars

\* osnadmin channel join: an orderer that cannot be reached fails the command.
\* One that already has the channel refuses in its answer, which osnadmin prints
\* without failing and run() does not read.
joinNewOrderer ==
    /\ At("provision", "orderers")
    /\ LET o == Orderers[i]
       IN  \/ FatalIf(o \notin up)
           \/ /\ o \in up
              /\ IF joined[NewChannel][o] # 0 THEN UNCHANGED network ELSE Join(NewChannel, o)
              /\ Advance(Len(Orderers), "peers")
              /\ UNCHANGED local
    /\ UNCHANGED provisionVars

\* "already exists" is success; the tenant's peer answers only an admin whose
\* certificates match the keys it runs with.
joinNewPeer ==
    /\ At("provision", "peers")
    /\ LET p      == NewPeers[i]
           refuse == p = TenantPeer /\ loaded # keys
       IN  \/ FatalIf(refuse)
           \/ /\ ~refuse
              /\ IF joined[NewChannel][p] # 0 THEN UNCHANGED network ELSE Join(NewChannel, p)
              /\ Advance(Len(NewPeers), "verify")
              /\ UNCHANGED local
    /\ UNCHANGED provisionVars

\* peer channel list on the tenant's peer only.
VerifyTenantPeer ==
    /\ At("provision", "verify")
    /\ Finish(IF joined[NewChannel][TenantPeer] # 0 THEN "success" ELSE "fatal")
    /\ UNCHANGED <<network, provisionVars>>

\* Killed inside cryptogen or inside a write of a whole file.
KilledWhileWriting ==
    /\ tool = "provision" /\ pc \in Parts /\ files[pc] = "absent"
    /\ files' = [files EXCEPT ![pc] = "partial"]
    /\ Finish("interrupted")
    /\ UNCHANGED <<network, keys, loaded, retouched>>

\* The operator removes the tenant's container.
RemoveContainer ==
    /\ loaded # 0
    /\ Operator(loaded' = 0)
    /\ UNCHANGED <<network, files, keys, retouched>>

\* The operator deletes the tenant's key material and restores the two YAML
\* files.
CleanUp ==
    /\ \E part \in Parts : files[part] # "absent"
    /\ Operator(files' = [part \in Parts |-> "absent"])
    /\ UNCHANGED <<network, keys, loaded, retouched>>

ProvisionNext ==
    \/ StartProvision \/ genCryptoMaterial \/ addConfigtxOrg \/ addConfigtxProfile
    \/ genChannelBlock \/ addPeerComposeService \/ ComposeUp \/ joinNewOrderer
    \/ joinNewPeer \/ VerifyTenantPeer \/ KilledWhileWriting \/ RemoveContainer
    \/ CleanUp
=============================================================================

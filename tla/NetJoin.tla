------------------------------ MODULE NetJoin -------------------------------
(***************************************************************************)
(* netjoin: the first tenant's channel joined on all orderers and peers,   *)
(* written to be run again after a failure.                                *)
(***************************************************************************)
EXTENDS FabricNetwork

HomePeers == Peers[Home]

StartNetJoin == Start("netjoin", "orderers", Empty, Empty)

\* Mutant: an orderer that cannot be reached is skipped.
joinOrdererIgnoringErrors ==
    /\ At("netjoin", "orderers")
    /\ IF joined[Home][Orderers[i]] # 0 \/ Orderers[i] \notin up
       THEN UNCHANGED network
       ELSE Join(Home, Orderers[i])
    /\ Advance(Len(Orderers), "peers")
    /\ UNCHANGED local

\* Asked first whether it has the channel; a question that fails counts as no.
joinOrderer ==
    /\ At("netjoin", "orderers")
    /\ \/ FatalIf(Orderers[i] \notin up)
       \/ /\ Orderers[i] \in up
          /\ IF joined[Home][Orderers[i]] # 0 THEN UNCHANGED network
                                              ELSE Join(Home, Orderers[i])
          /\ Advance(Len(Orderers), "peers")
          /\ UNCHANGED local

\* "already exists" is success.
joinPeer ==
    /\ At("netjoin", "peers")
    /\ IF joined[Home][HomePeers[i]] # 0 THEN UNCHANGED network
                                         ELSE Join(Home, HomePeers[i])
    /\ Advance(Len(HomePeers), "verify")
    /\ UNCHANGED local

\* listChannels on every peer.
VerifyJoined ==
    /\ At("netjoin", "verify")
    /\ Finish(IF \A p \in Range(HomePeers) : joined[Home][p] # 0 THEN "success" ELSE "fatal")
    /\ UNCHANGED network

NetJoinNext == StartNetJoin \/ joinOrderer \/ joinPeer \/ VerifyJoined
=============================================================================

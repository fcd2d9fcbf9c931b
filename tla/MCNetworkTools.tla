--------------------------- MODULE MCNetworkTools ---------------------------
(***************************************************************************)
(* Three orderers, two channels of two peers each with one peer in both.   *)
(* A record of the application is clean, or an envelope the scan cannot    *)
(* decode but whose bytes hold a dictionary string.                        *)
(***************************************************************************)
EXTENDS NetworkTools

MCOrderers == <<"orderer0", "orderer1", "orderer2">>
MCPeers == [tenant01 |-> <<"peer0.org1", "peer0.tenant01">>,
            tenant02 |-> <<"peer0.org1", "peer0.tenant02">>]
MCChannels == <<"tenant01", "tenant02">>
MCAppBlocks == {{"record", "garbled"}}

MCFacts ==
    [config    |-> {"decodes"},
     lifecycle |-> {"decodes", "endorser", "responds"},
     record    |-> {"decodes", "endorser", "responds", "record", "argsShaped", "valueShaped"},
     smoke     |-> {"decodes", "endorser", "responds", "record"},
     garbled   |-> {"fixture"}]

\* Only pilscan looks into the application's block: it is written before or while
\* pilscan runs, after everything the other tools have done.
WrittenForTheScan ==
    (\E c \in Channel : Written(c) # {}) => tool \in {"none", "scan"}
=============================================================================

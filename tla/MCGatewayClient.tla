-------------------------- MODULE MCGatewayClient --------------------------
(***************************************************************************)
(* Writers are strings so that requests can be given per writer: w1 and w2 *)
(* anchor different content, w3 the same content as w1 (the no-op rule),   *)
(* w4 a third content; w3 signs as the enterprise client, and the auditor  *)
(* is not allowed to write.                                                *)
(***************************************************************************)
EXTENDS GatewayClient

MCTxId == Client \X (0..MaxSubmitRetries)

MCRequestHash ==
    [c \in Client |-> CASE c \in {"w1", "w3"} -> "h1"
                        [] c \in {"w2", "auditor"} -> "h2"
                        [] c = "w4" -> "h3"]

MCRequestMsp ==
    [c \in Client |-> CASE c \in {"w1", "w2", "w4"} -> "Org1MSP"
                        [] c = "w3" -> "OrgClientMSP"
                        [] c = "auditor" -> "Org3MSP"]
=============================================================================

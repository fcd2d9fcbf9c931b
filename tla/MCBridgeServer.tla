--------------------------- MODULE MCBridgeServer ---------------------------
(***************************************************************************)
(* Two handlers and durations small enough to count.  In the code the      *)
(* budget is 30 s, the buffer 10 s, the gateway's timeouts are 15 s, 5 s   *)
(* and 1 min and the drain lasts 10 s; what matters is kept: one           *)
(* submission may outlast the drain and, started late, the write timeout,  *)
(* and several attempts fit into the budget.                               *)
(***************************************************************************)
EXTENDS BridgeServer
=============================================================================

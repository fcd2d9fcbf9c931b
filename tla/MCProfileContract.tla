------------------------- MODULE MCProfileContract -------------------------
(***************************************************************************)
(* Two sections of one employee and one name that is no section, so that   *)
(* keys are seen to be independent; two digests, so that a digest can      *)
(* return to the head; MaxTx calls in all, enough for a chain of three     *)
(* with a competing call endorsed against every earlier head.              *)
(***************************************************************************)
EXTENDS ProfileContract

CONSTANT MaxTx

MCTxId     == 0..(MaxTx - 1)
MCSections == {"PERSONAL", "PAYROLL", "unknown-section"}
=============================================================================

----------------------------- MODULE MCReadSide -----------------------------
(***************************************************************************)
(* Two sections and two peers.  One request reads all sections of the      *)
(* employee (its parameter padded with blanks), one names an unknown       *)
(* section.  An auditor asks twice for the salt of the first record.       *)
(* Neither side reads the other's variables, so the states explored leave  *)
(* out those in which both are busy.                                       *)
(***************************************************************************)
EXTENDS ReadSide, TLC

MCLookup  == {<<"emp", "">>}
MCSection == <<"PERSONAL", "PAYROLL">>

MCQuery ==
    [r \in HistoryRequest |->
       [credentials |-> r # "anonymous",
        employeeInternalID |-> IF r = "blank" THEN " " ELSE " emp ",
        recordIdentity |-> " ",
        profileSection |-> CASE r = "one" -> "PAYROLL"
                             [] r = "unknown" -> "SALARY" [] OTHER -> ""]]

MCTrimSpace == [t \in {"", " ", " emp ", "PAYROLL", "SALARY"} |->
                  CASE t = " " -> "" [] t = " emp " -> "emp" [] OTHER -> t]

MCAsked == [r \in SaltRequest |->
              [requester |-> "auditor", employeeID |-> 1, section |-> "PERSONAL",
               version |-> 1]]

OneSideBusy ==
    \/ \A r \in HistoryRequest : hpc[r] = "idle"
    \/ \A r \in SaltRequest : spc[r] = "idle" /\ policy = {}

MCSymmetry == Permutations(Peer) \union Permutations(SaltRequest)
=============================================================================

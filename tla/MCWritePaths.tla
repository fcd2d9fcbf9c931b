---------------------------- MODULE MCWritePaths ----------------------------
(***************************************************************************)
(* One employee and one section.  Calls are strings: w1 and w2 write       *)
(* different values of the employee's own record, w1 with a document; w3   *)
(* repeats the value of w1; k1 and k2 write a sub-record (a child), sent   *)
(* with and without surrounding blanks.  Verifications claim the value of  *)
(* w1 (v1), of w2 (v2), of k1 for the sub-record (vk), the sub-record's    *)
(* value for the main record (vx), or a deletion (vd).                     *)
(***************************************************************************)
EXTENDS WritePaths

MCIdentity == {"", "child", " child "}

MCIdentityOf(c) ==
    CASE c \in {"k1", "vk"} -> "child" [] c = "k2" -> " child " [] OTHER -> ""

MCTarget ==
    [c \in Write \union Verification |->
        [employee |-> "emp", identity |-> MCIdentityOf(c), section |-> "PERSONAL"]]

MCContent ==
    [c \in Write \union Verification |->
        CASE c \in {"w1", "w3", "v1"} -> "a" [] c \in {"w2", "v2"} -> "b"
          [] c = "vd" -> NoValue [] OTHER -> "c"]

MCSubject == [e \in Erasure |-> "emp"]

MCTrimSpace == [i \in Identity |-> IF i = " child " THEN "child" ELSE i]
=============================================================================

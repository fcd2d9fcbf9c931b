---------------------------- MODULE MCFileStore ----------------------------
(***************************************************************************)
(* Two identifiers.  Two calls create the same secret, one reads it, one   *)
(* deletes both identifiers (DeleteAllSaltsForEmployee), one puts the      *)
(* other identifier (PutSalt).                                             *)
(***************************************************************************)
EXTENDS FileStore

MCKind == [c \in Call |-> CASE c \in {"g1", "g2"} -> "getorcreate" [] c = "r1" -> "get"
                            [] c \in {"p1", "p2"} -> "put" [] c = "d1" -> "delete"]
MCOf    == [c \in Call |-> IF c \in {"p1", "p2"} THEN "j" ELSE "i"]
MCScope == [c \in Call |-> IF c = "d1" THEN {"i", "j"} ELSE {}]
=============================================================================

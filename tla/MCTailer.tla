------------------------------ MODULE MCTailer ------------------------------
(***************************************************************************)
(* Latency records of one-byte characters; a log with a three-byte         *)
(* character in its second line and a four-byte one in its third.          *)
(***************************************************************************)
EXTENDS Tailer

MCText ==
    [w \in Watcher |->
       IF w = "log"
       THEN <<"char", "char", "newline", "lead", "cont", "cont", "char", "newline",
              "lead", "cont", "cont", "unit", "newline", "char", "newline">>
       ELSE <<"char", "char", "newline", "char", "newline", "char", "char", "newline",
              "char", "newline">>]
=============================================================================

---------------------------- MODULE AtomicStore ----------------------------
(***************************************************************************)
(* What a secret store promises: every call takes effect at one moment     *)
(* between its start and its return, or not at all; a call that fails to   *)
(* reach the disk changes nothing; a crash loses the answers of the calls  *)
(* in progress and nothing else.                                           *)
(***************************************************************************)
EXTENDS SecretStore

VARIABLES
    map,      \* the secrets stored
    phase,    \* "called", "applied", "returned", or "gone" with a crash
    answer    \* what each call answers, once applied

Init ==
    /\ map    = [i \in Id |-> Absent]
    /\ phase  = [c \in Call |-> "called"]
    /\ answer = [c \in Call |-> Absent]

Apply(c) ==
    /\ phase[c] = "called"
    /\ map'    = Outcome(map, c).map
    /\ phase'  = [phase EXCEPT ![c] = "applied"]
    /\ answer' = [answer EXCEPT ![c] = Outcome(map, c).answer]

Return(c) ==
    /\ phase[c] = "applied"
    /\ phase' = [phase EXCEPT ![c] = "returned"]
    /\ UNCHANGED <<map, answer>>

Fail(c) ==
    /\ phase[c] = "called"
    /\ phase'  = [phase EXCEPT ![c] = "returned"]
    /\ answer' = [answer EXCEPT ![c] = "error"]
    /\ UNCHANGED map

\* Some calls in progress are lost; those not yet begun are called later.
Crash ==
    /\ \E lost \in SUBSET {c \in Call : phase[c] \in {"called", "applied"}} :
         /\ phase'  = [c \in Call |-> IF c \in lost THEN "gone" ELSE phase[c]]
         /\ answer' = [c \in Call |-> IF c \in lost THEN Absent ELSE answer[c]]
    /\ UNCHANGED map

Next == (\E c \in Call : Apply(c) \/ Return(c) \/ Fail(c)) \/ Crash

Spec == Init /\ [][Next]_<<map, phase, answer>>
=============================================================================

------------------------- MODULE BridgeServerProofs -------------------------
(***************************************************************************)
(* The bridge process for every number of requests and every choice of its *)
(* timeouts: how long a handler can last, and what is still running when   *)
(* the gateway is closed.                                                  *)
(***************************************************************************)
EXTENDS BridgeServer, TLAPS

(***************************************************************************)
(* The inductive invariant.  A bound on total alone is not inductive: how  *)
(* long a handler may still take depends on its phase.  Before it submits  *)
(* it is within the budget, a submission adds at most what it has spent in *)
(* this submission, and a handler past the budget is past its last         *)
(* submission.  The gateway part needs what main has established.          *)
(***************************************************************************)
Phase == {"idle", "prepare", "submit", "reread", "respond", "answered", "cut off", "killed"}

TypeOK ==
    /\ main \in {"select", "draining", "closing", "exited"}
    /\ gateway \in {"open", "closed"}
    /\ drained \in Nat
    /\ phase   \in [Handler -> Phase]
    /\ attempt \in [Handler -> Nat]
    /\ inPhase \in [Handler -> Nat]
    /\ total   \in [Handler -> Nat]
    /\ outcome \in [Handler -> {"none", "ok", "failed"}]

Budget == \A h \in Handler :
    /\ phase[h] = "idle" => total[h] = 0
    /\ phase[h] = "prepare" => total[h] <= DispatchTimeout
    /\ phase[h] = "submit"  => /\ total[h] <= DispatchTimeout + inPhase[h]
                               /\ inPhase[h] <= SubmissionTimeout
    /\ total[h] <= DispatchTimeout + SubmissionTimeout

Drain ==
    /\ drained <= ShutdownTimeout
    /\ main = "exited" => gateway = "closed"
    /\ gateway = "closed" => main \in {"closing", "exited"}
    /\ main = "exited" => \A h \in Handler : ~Running(h)
    /\ \A h \in Handler : phase[h] = "killed" => main = "exited" /\ drained = ShutdownTimeout
    /\ main = "closing" => ((\E h \in Handler : Running(h)) => drained = ShutdownTimeout)

IInv == TypeOK /\ Budget /\ Drain

(***************************************************************************)
(* The durations and their sums are numbers.                               *)
(***************************************************************************)
LEMMA Durations ==
    /\ DispatchTimeout \in Nat /\ WriteTimeoutBuffer \in Nat /\ EndorseTimeout \in Nat
    /\ SubmitTimeout \in Nat /\ CommitStatusTimeout \in Nat /\ ShutdownTimeout \in Nat
    /\ MaxSubmitRetries \in Nat
    /\ SubmissionTimeout \in Nat
  BY DurationAssumption DEF SubmissionTimeout

(***************************************************************************)
(* A fresh process satisfies the invariant.                                *)
(***************************************************************************)
LEMMA InitIInv == Init => IInv
  BY Durations DEF Init, IInv, TypeOK, Phase, Budget, Drain, Running

(***************************************************************************)
(* What a handler does between two ticks keeps its time, so only the phase *)
(* it moves to matters.  The bound of the new phase is the premise, taken  *)
(* from the guard of each action.                                          *)
(***************************************************************************)
LEMMA MoveIInv ==
    ASSUME IInv, NEW h \in Handler, NEW label \in Phase \ {"idle", "killed"},
           NEW result \in {"none", "ok", "failed"},
           Move(h, label, result),
           attempt' \in [Handler -> Nat],
           Running(h) \/ main = "select",
           label \in {"prepare", "submit"} => total[h] <= DispatchTimeout
    PROVE  IInv'
<1> USE Durations DEF IInv, Move
<1>1. TypeOK'
  BY DEF TypeOK
<1>2. Budget'
  BY DEF TypeOK, Budget
<1>3. Drain'
  <2>1. \A k \in Handler \ {h} : phase'[k] = phase[k]
    BY DEF TypeOK
  <2>2. phase'[h] # "killed"
    BY DEF TypeOK
  <2>3. main # "exited"
    BY DEF Drain
  <2>4. main = "closing" => drained = ShutdownTimeout
    BY DEF Drain
  <2> QED BY <2>1, <2>2, <2>3, <2>4 DEF Drain
<1> QED BY <1>1, <1>2, <1>3

(***************************************************************************)
(* Every step of a handler preserves the invariant.                        *)
(***************************************************************************)
LEMMA HandlerIInv ==
    ASSUME IInv, NEW h \in Handler, HandlerStep(h)
    PROVE  IInv'
<1> USE Durations
<1>0. attempt \in [Handler -> Nat] /\ total \in [Handler -> Nat] /\ outcome[h] \in {"none", "ok", "failed"}
  BY DEF IInv, TypeOK
<1>1. CASE Accept(h)
  <2>1. total[h] <= DispatchTimeout
    BY <1>0, <1>1 DEF Accept, IInv, Budget
  <2> QED BY <1>0, <1>1, <2>1, MoveIInv DEF Accept, Phase
<1>2. CASE Prepare(h)
  <2>1. total[h] <= DispatchTimeout /\ Running(h)
    BY <1>2 DEF Prepare, IInv, Budget, Running
  <2> QED BY <1>0, <1>2, <2>1, MoveIInv DEF Prepare, Phase
<1>3. CASE SubmitSucceeds(h) \/ SubmitFails(h) \/ SubmitRetryable(h)
  <2>1. Running(h)
    BY <1>3 DEF SubmitSucceeds, SubmitFails, SubmitRetryable, Running
  <2> QED BY <1>0, <1>3, <2>1, MoveIInv DEF SubmitSucceeds, SubmitFails, SubmitRetryable, Phase
<1>4. CASE Reread(h)
  <2>1. total[h] <= DispatchTimeout /\ Running(h)
    BY <1>0, <1>4 DEF Reread, Running, Expired
  <2>2. attempt' \in [Handler -> Nat]
    BY <1>0, <1>4 DEF Reread
  <2> QED BY <1>4, <2>1, <2>2, MoveIInv DEF Reread, Phase
<1>5. CASE RereadFails(h) \/ Respond(h)
  <2>1. Running(h)
    BY <1>5 DEF RereadFails, Respond, Running
  <2> QED BY <1>0, <1>5, <2>1, MoveIInv DEF RereadFails, Respond, Phase
<1> QED BY <1>1, <1>2, <1>3, <1>4, <1>5 DEF HandlerStep

(***************************************************************************)
(* Every step of the process preserves the invariant.                      *)
(***************************************************************************)
LEMMA NextIInv == IInv /\ [Next]_vars => IInv'
<1> SUFFICES ASSUME IInv, [Next]_vars PROVE IInv'
  OBVIOUS
<1> USE Durations
<1>1. ASSUME NEW h \in Handler, HandlerStep(h) PROVE IInv'
  BY <1>1, HandlerIInv
<1>2. CASE BeginShutdown
  BY <1>2 DEF BeginShutdown, handlerVars, IInv, TypeOK, Budget, Drain, Running
<1>3. CASE ShutdownReturns
  <2>1. (\E h \in Handler : Running(h)) => drained = ShutdownTimeout
    BY <1>3 DEF ShutdownReturns, IInv, Drain, TypeOK
  <2> QED BY <1>3, <2>1 DEF ShutdownReturns, handlerVars, IInv, TypeOK, Budget, Drain, Running
<1>4. CASE CloseGateway
  BY <1>4 DEF CloseGateway, handlerVars, IInv, TypeOK, Budget, Drain, Running
<1>5. CASE Exit
  <2>1. TypeOK'
    BY <1>5 DEF Exit, IInv, TypeOK, Phase
  <2>2. Budget'
    BY <1>5 DEF Exit, IInv, TypeOK, Budget, Running
  <2>3. \A h \in Handler : /\ ~Running(h)'
                           /\ phase'[h] = "killed" => drained = ShutdownTimeout
    BY <1>5 DEF Exit, IInv, Drain, Running
  <2>4. Drain'
    BY <1>5, <2>3 DEF Exit, IInv, Drain
  <2> QED BY <2>1, <2>2, <2>4 DEF IInv
<1>6. CASE Tick
  <2>1. TypeOK'
    BY <1>6 DEF Tick, IInv, TypeOK
  <2>2. ASSUME NEW h \in Handler
        PROVE  /\ phase'[h] = "idle" => total'[h] = 0
               /\ phase'[h] = "prepare" => total'[h] <= DispatchTimeout
               /\ phase'[h] = "submit"  => /\ total'[h] <= DispatchTimeout + inPhase'[h]
                                           /\ inPhase'[h] <= SubmissionTimeout
               /\ total'[h] <= DispatchTimeout + SubmissionTimeout
    <3>1. /\ phase'[h] = phase[h]
          /\ total'[h] = IF Running(h) THEN total[h] + 1 ELSE total[h]
          /\ inPhase'[h] = IF phase[h] = "submit" THEN inPhase[h] + 1 ELSE inPhase[h]
          /\ MayWait(h)
      BY <1>6 DEF Tick
    <3>2. total[h] \in Nat /\ inPhase[h] \in Nat
      BY DEF IInv, TypeOK
    <3>3. CASE phase[h] \in {"prepare", "reread"}
      BY <3>1, <3>2, <3>3 DEF MayWait, Expired, Running
    <3>4. CASE phase[h] = "submit"
      BY <3>1, <3>2, <3>4 DEF MayWait, Running, IInv, Budget
    <3>5. CASE phase[h] = "respond"
      BY <3>1, <3>5 DEF MayWait
    <3>6. CASE phase[h] \notin {"prepare", "reread", "submit", "respond"}
      BY <3>1, <3>2, <3>6 DEF Running, IInv, Budget
    <3> QED BY <3>3, <3>4, <3>5, <3>6
  <2>3. Budget'
    BY <1>6, <2>2 DEF Budget
  <2>4. Drain'
    BY <1>6 DEF Tick, IInv, TypeOK, Drain, Running
  <2> QED BY <2>1, <2>3, <2>4 DEF IInv
<1>7. CASE UNCHANGED vars
  BY <1>7 DEF vars, IInv, TypeOK, Budget, Drain, Running
<1> QED BY <1>1, <1>2, <1>3, <1>4, <1>5, <1>6, <1>7 DEF Next, MainStep

(***************************************************************************)
(* However many requests there are and whatever the timeouts are set to,   *)
(* the invariant holds.                                                    *)
(***************************************************************************)
THEOREM BridgeServerInvariant == Spec => []IInv
  BY InitIInv, NextIInv, PTL DEF Spec

(***************************************************************************)
(* A handler of a write route lasts at most the dispatch budget and one    *)
(* submission, whatever MaxSubmitRetries is: a retry goes through a        *)
(* re-read of the head that fails once the budget is spent.                *)
(***************************************************************************)
THEOREM HandlersAreBounded == Spec => []HandlerIsBounded
<1>1. IInv => HandlerIsBounded
  BY DEF IInv, Budget, HandlerIsBounded
<1> QED BY <1>1, BridgeServerInvariant, PTL

(***************************************************************************)
(* closeBoth closes the gateway only after Shutdown returned, and then     *)
(* either no handler is left or Shutdown has waited its full time.         *)
(***************************************************************************)
THEOREM GatewayIsClosedLast == Spec => []GatewayOutlivesRequests
<1>1. IInv => GatewayOutlivesRequests
  BY DEF IInv, Drain, GatewayOutlivesRequests
<1> QED BY <1>1, BridgeServerInvariant, PTL
=============================================================================

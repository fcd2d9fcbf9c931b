---------------------------- MODULE BridgeServer ----------------------------
(***************************************************************************)
(* The bridge process in time: handlers of the write routes that run until *)
(* their hook returns, the dispatch budget and the write timeout of the    *)
(* HTTP server, and the shutdown sequence that drains the server for a     *)
(* while and then closes the one gateway connection.                       *)
(*                                                                         *)
(* Time is counted in ticks; every duration of the code is a constant.  A  *)
(* phase of a handler may end at any time and must end at its limit.  The  *)
(* budget bounds what takes a context (the stores, IPFS, the reads of the  *)
(* head) and not SubmitTransaction, which has only the gateway's timeouts. *)
(***************************************************************************)
EXTENDS Naturals

CONSTANTS
    Handler,              \* requests to write routes
    DispatchTimeout,      \* BRIDGE_DISPATCH_TIMEOUT
    WriteTimeoutBuffer,   \* what serverWriteTimeout adds to it
    EndorseTimeout, SubmitTimeout, CommitStatusTimeout,
    ShutdownTimeout,      \* how long Shutdown waits for handlers
    MaxSubmitRetries

ASSUME DurationAssumption ==
    /\ {DispatchTimeout, WriteTimeoutBuffer, EndorseTimeout, SubmitTimeout,
        CommitStatusTimeout, ShutdownTimeout, MaxSubmitRetries} \subseteq Nat

VARIABLES
    main,       \* "select", "draining", "closing", "exited"
    gateway,    \* "open" or "closed"
    drained,    \* ticks spent in srv.Shutdown
    phase,      \* where each handler is
    attempt,    \* submissions it has made
    inPhase,    \* ticks spent in its current submission
    total,      \* ticks since its request was read
    outcome     \* of the hook: "none", "ok" or "failed"; then of the response

handlerVars == <<phase, attempt, inPhase, total, outcome>>
vars == <<main, gateway, drained, phase, attempt, inPhase, total, outcome>>

Running(h) == phase[h] \in {"prepare", "submit", "reread", "respond"}

serverWriteTimeout == DispatchTimeout + WriteTimeoutBuffer

SubmissionTimeout == EndorseTimeout + SubmitTimeout + CommitStatusTimeout

Expired(h) == total[h] >= DispatchTimeout

Init ==
    /\ main    = "select"
    /\ gateway = "open"
    /\ drained = 0
    /\ phase   = [h \in Handler |-> "idle"]
    /\ attempt = [h \in Handler |-> 0]
    /\ inPhase = [h \in Handler |-> 0]
    /\ total   = [h \in Handler |-> 0]
    /\ outcome = [h \in Handler |-> "none"]

-----------------------------------------------------------------------------
Move(h, label, result) ==
    /\ phase'   = [phase EXCEPT ![h] = label]
    /\ inPhase' = [inPhase EXCEPT ![h] = 0]
    /\ outcome' = [outcome EXCEPT ![h] = result]
    /\ UNCHANGED <<main, gateway, drained, total>>

\* The listener accepts until Shutdown closes it.
Accept(h) ==
    /\ phase[h] = "idle"
    /\ main = "select"
    /\ Move(h, "prepare", "none")
    /\ UNCHANGED attempt

\* Keys, salt, document and the best-effort read of the head.
Prepare(h) ==
    /\ phase[h] = "prepare"
    /\ Move(h, "submit", "none") \/ Move(h, "respond", "failed")
    /\ UNCHANGED attempt

SubmitSucceeds(h) ==
    /\ phase[h] = "submit"
    /\ gateway = "open"
    /\ Move(h, "respond", "ok")
    /\ UNCHANGED attempt

\* A failure, at the latest when the gateway's timeouts have passed.
SubmitFails(h) ==
    /\ phase[h] = "submit"
    /\ Move(h, "respond", "failed")
    /\ UNCHANGED attempt

SubmitRetryable(h) ==
    /\ phase[h] = "submit"
    /\ gateway = "open"
    /\ Move(h, "reread", "none")
    /\ UNCHANGED attempt

\* Mutant: the re-read has no deadline.
RereadWithoutBudget(h) ==
    /\ phase[h] = "reread"
    /\ gateway = "open"
    /\ IF attempt[h] < MaxSubmitRetries
       THEN Move(h, "submit", "none") /\ attempt' = [attempt EXCEPT ![h] = @ + 1]
       ELSE Move(h, "respond", "failed") /\ UNCHANGED attempt

\* The re-read of the head fails once the budget is spent.
Reread(h) ==
    /\ phase[h] = "reread"
    /\ ~Expired(h)
    /\ gateway = "open"
    /\ IF attempt[h] < MaxSubmitRetries
       THEN Move(h, "submit", "none") /\ attempt' = [attempt EXCEPT ![h] = @ + 1]
       ELSE Move(h, "respond", "failed") /\ UNCHANGED attempt

RereadFails(h) ==
    /\ phase[h] = "reread"
    /\ Move(h, "respond", "failed")
    /\ UNCHANGED attempt

\* The response reaches the caller only within the server's write timeout.
Respond(h) ==
    /\ phase[h] = "respond"
    /\ Move(h, IF total[h] <= serverWriteTimeout THEN "answered" ELSE "cut off", outcome[h])
    /\ UNCHANGED attempt

-----------------------------------------------------------------------------
\* SIGTERM or SIGINT, or ListenAndServe failing: both end in shutdown.Close.
BeginShutdown ==
    /\ main = "select"
    /\ main' = "draining"
    /\ UNCHANGED <<gateway, drained, handlerVars>>

\* srv.Shutdown returns when no handler is left or its context is done.
ShutdownReturns ==
    /\ main = "draining"
    /\ (\A h \in Handler : ~Running(h)) \/ drained >= ShutdownTimeout
    /\ main' = "closing"
    /\ UNCHANGED <<gateway, drained, handlerVars>>

\* Mutants: closed while the server drains; not closed when Shutdown failed.
CloseGatewayEarly ==
    /\ main \in {"draining", "closing"}
    /\ gateway = "open"
    /\ gateway' = "closed"
    /\ UNCHANGED <<main, drained, handlerVars>>

CloseGatewayUnlessTimedOut ==
    /\ main = "closing"
    /\ drained < ShutdownTimeout
    /\ gateway = "open"
    /\ gateway' = "closed"
    /\ UNCHANGED <<main, drained, handlerVars>>

\* closeBoth: the gateway is closed whatever Shutdown returned.
CloseGateway ==
    /\ main = "closing"
    /\ gateway = "open"
    /\ gateway' = "closed"
    /\ UNCHANGED <<main, drained, handlerVars>>

\* run returns and the process ends with the handlers that still run.
Exit ==
    /\ main = "closing"
    /\ gateway = "closed"
    /\ main' = "exited"
    /\ phase' = [h \in Handler |-> IF Running(h) THEN "killed" ELSE phase[h]]
    /\ UNCHANGED <<gateway, drained, attempt, inPhase, total, outcome>>

-----------------------------------------------------------------------------
\* A phase at its limit ends before time goes on.
MayWait(h) ==
    CASE phase[h] = "prepare"              -> ~Expired(h)
      [] phase[h] = "reread"               -> ~Expired(h)
      [] phase[h] = "submit"               -> inPhase[h] < SubmissionTimeout
      [] phase[h] = "respond"              -> FALSE
      [] OTHER                             -> TRUE

Tick ==
    /\ \E h \in Handler : Running(h)
    /\ \A h \in Handler : MayWait(h)
    /\ main = "select" \/ (main = "draining" /\ drained < ShutdownTimeout)
    /\ drained' = IF main = "draining" THEN drained + 1 ELSE drained
    /\ total'   = [h \in Handler |-> IF Running(h) THEN total[h] + 1 ELSE total[h]]
    /\ inPhase' = [h \in Handler |-> IF phase[h] = "submit" THEN inPhase[h] + 1 ELSE inPhase[h]]
    /\ UNCHANGED <<main, gateway, phase, attempt, outcome>>

HandlerStep(h) ==
    \/ Accept(h) \/ Prepare(h) \/ SubmitSucceeds(h) \/ SubmitFails(h) \/ SubmitRetryable(h)
    \/ Reread(h) \/ RereadFails(h) \/ Respond(h)

MainStep == ShutdownReturns \/ CloseGateway \/ Exit

Next == (\E h \in Handler : HandlerStep(h)) \/ BeginShutdown \/ MainStep \/ Tick

Spec == Init /\ [][Next]_vars

\* Time passes and the main goroutine is scheduled.
FairSpec == Spec /\ WF_vars(MainStep) /\ WF_vars(Tick)
                 /\ \A h \in Handler : WF_vars(phase[h] # "idle" /\ HandlerStep(h))

-----------------------------------------------------------------------------
(***************************************************************************)
(* A request takes at most the dispatch budget and one submission, for all *)
(* its retries: the budget does not bound SubmitTransaction, but a retry   *)
(* needs a re-read of the head, which fails once the budget is spent.      *)
(***************************************************************************)
HandlerIsBounded == \A h \in Handler : total[h] <= DispatchTimeout + SubmissionTimeout

(***************************************************************************)
(* The gateway is closed under no request that could still finish: when it *)
(* is closed, no request is accepted any more, and handlers are left only  *)
(* if Shutdown has waited its full time for them.                          *)
(***************************************************************************)
GatewayOutlivesRequests ==
    gateway = "closed" =>
        /\ main \in {"closing", "exited"}
        /\ (\E h \in Handler : Running(h) \/ phase[h] = "killed") => drained = ShutdownTimeout

(***************************************************************************)
(* Once shutdown has begun the process ends, however long the submissions  *)
(* in progress would still take.                                           *)
(***************************************************************************)
ShutdownEnds == (main = "draining") ~> (main = "exited")
=============================================================================

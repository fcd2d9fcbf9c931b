---------------------------- MODULE SaltHandoff -----------------------------
(***************************************************************************)
(* RequestSalt: the controlled and audited way to a salt.  The policy is   *)
(* injected (Authorize) and may change, fail, or be asked before the salt  *)
(* exists; the audit sink is injected too, and its failures are ignored.   *)
(***************************************************************************)
EXTENDS AnchoredLog

CONSTANTS
    Requester,
    SaltRequest,
    Asked        \* of each request: requester, employeeID, section, version

ASSUME AskedAssumption ==
    Asked \in [SaltRequest -> [requester : Requester, employeeID : Pseudonym,
                               section : SectionSet, version : Nat]]

VARIABLES
    policy,      \* pairs of requester and employeeID that Authorize accepts
    spc,         \* where each request is
    decided,     \* what RequestSalt will return
    entries,     \* the audit log
    lost,        \* history: requests whose entry the sink refused
    permitted    \* history: the policy allowed the request since it began

handoffVars == <<policy, spc, decided, entries, lost, permitted>>

HandoffInit ==
    /\ policy    = {}
    /\ spc       = [r \in SaltRequest |-> "idle"]
    /\ decided   = [r \in SaltRequest |-> "none"]
    /\ entries   = <<>>
    /\ lost      = {}
    /\ permitted = {}

Pair(r) == <<Asked[r].requester, Asked[r].employeeID>>

\* The policy's owner grants or revokes.
ChangePolicy(pair) ==
    /\ policy' = IF pair \in policy THEN policy \ {pair} ELSE policy \union {pair}
    /\ permitted' = permitted \union
         {r \in SaltRequest : spc[r] # "idle" /\ Pair(r) = pair /\ pair \in policy'}
    /\ UNCHANGED <<logVars, spc, decided, entries, lost>>

RequestSalt(r) ==
    /\ spc[r] = "idle"
    /\ spc' = [spc EXCEPT ![r] = "authorize"]
    /\ permitted' = permitted \union (IF Pair(r) \in policy THEN {r} ELSE {})
    /\ UNCHANGED <<logVars, policy, decided, entries, lost>>

\* Continue at label with the outcome decided.
Decide(r, outcome, label) ==
    /\ decided' = [decided EXCEPT ![r] = outcome]
    /\ spc'     = [spc EXCEPT ![r] = label]
    /\ UNCHANGED <<logVars, policy, entries, lost, permitted>>

Authorize(r) ==
    /\ spc[r] = "authorize"
    /\ IF Pair(r) \in policy THEN Decide(r, "none", "getsalt")
                             ELSE Decide(r, "denied", "audit")

\* Mutant: a policy check that breaks lets the request through.
AuthorizeFailsOpen(r) ==
    /\ spc[r] = "authorize"
    /\ Decide(r, "none", "getsalt")

\* The policy check itself fails: closed.
AuthorizeFails(r) ==
    /\ spc[r] = "authorize"
    /\ Decide(r, "failed closed", "audit")

Stored(r) == \E s \in salts : /\ s.employeeID = Asked[r].employeeID
                              /\ s.section = Asked[r].section
                              /\ s.version = Asked[r].version

\* Mutant: a lookup miss is written to the audit log as well.
GetSaltAuditingMisses(r) ==
    /\ spc[r] = "getsalt"
    /\ IF Stored(r) THEN Decide(r, "salt", "audit") ELSE Decide(r, "not found", "audit")

\* A salt that is not there is an error of its own and is not audited.  A lookup
\* that fails is returned as it is, and is not audited either.
GetSalt(r) ==
    /\ spc[r] = "getsalt"
    /\ IF Stored(r) THEN Decide(r, "salt", "audit") ELSE Decide(r, "not found", "done")

\* audit and InMemoryAuditLog.Record.
Record(r) ==
    /\ spc[r] = "audit"
    /\ entries' = Append(entries, [access |-> Asked[r], granted |-> decided[r] = "salt"])
    /\ spc' = [spc EXCEPT ![r] = "done"]
    /\ UNCHANGED <<logVars, policy, decided, lost, permitted>>

\* Another sink may fail; RequestSalt returns what it had decided.
RecordFails(r) ==
    /\ spc[r] = "audit"
    /\ lost' = lost \union {r}
    /\ spc' = [spc EXCEPT ![r] = "done"]
    /\ UNCHANGED <<logVars, policy, decided, entries, permitted>>

HandoffNext ==
    \/ \E r \in SaltRequest :
         \/ RequestSalt(r) \/ Authorize(r) \/ AuthorizeFails(r)
         \/ GetSalt(r) \/ Record(r) \/ RecordFails(r)
    \/ \E pair \in {Pair(r) : r \in SaltRequest} : ChangePolicy(pair)

-----------------------------------------------------------------------------
Returned(r) == spc[r] = "done"

(***************************************************************************)
(* RequestSalt fails closed: a salt is handed out only if the policy       *)
(* allowed this requester this employee at some moment between the request *)
(* and its answer, whatever the policy check's failures and whoever else   *)
(* was granted or revoked meanwhile.                                       *)
(***************************************************************************)
SaltOnlyIfAuthorized ==
    \A r \in SaltRequest : Returned(r) /\ decided[r] = "salt" => r \in permitted

\* The entries about one salt with one decision, and the requests for it that
\* were answered so and whose entry was not lost.
Logged(access, granted) ==
    {n \in DOMAIN entries : entries[n].access = access /\ entries[n].granted = granted}

Answered(access, granted) ==
    {r \in SaltRequest :
       /\ Returned(r) /\ r \notin lost /\ Asked[r] = access
       /\ decided[r] \in (IF granted THEN {"salt"} ELSE {"denied", "failed closed"})}

(***************************************************************************)
(* The audit trail neither lies nor leaves out (RequestSalt, audit): per   *)
(* requester and salt it holds one grant for each salt handed out and one  *)
(* denial for each refusal, none for a lookup that missed, and an entry is *)
(* missing only where the sink itself refused it.                          *)
(***************************************************************************)
AuditTrailIsTrue ==
    \A access \in Range(Asked), granted \in BOOLEAN :
        Cardinality(Logged(access, granted)) = Cardinality(Answered(access, granted))
=============================================================================

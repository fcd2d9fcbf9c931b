--------------------------- MODULE ReadSideProofs ---------------------------
(***************************************************************************)
(* The salt hand-off and then the history route, for any number of         *)
(* requests, requesters, sections and peers, beside each other and with    *)
(* writes and erasures going on.                                           *)
(***************************************************************************)
EXTENDS ReadSide, FiniteSetTheorems, WellFoundedInduction, TLAPS

HandoffTypeOK ==
    /\ spc \in [SaltRequest -> {"idle", "authorize", "getsalt", "audit", "done"}]
    /\ decided \in [SaltRequest -> {"none", "denied", "failed closed", "not found", "salt"}]
    /\ entries \in Seq([access : Range(Asked), granted : BOOLEAN])
    /\ lost \subseteq SaltRequest

(***************************************************************************)
(* A request the policy accepts at this moment has been permitted, and so  *)
(* has one that is past Authorize.                                         *)
(***************************************************************************)
PermitInv ==
    /\ \A r \in SaltRequest : spc[r] # "idle" /\ Pair(r) \in policy => r \in permitted
    /\ \A r \in SaltRequest : spc[r] = "getsalt" \/ decided[r] = "salt" => r \in permitted

\* What is decided where a request stands, and whose entry can be lost.
DecideInv ==
    /\ \A r \in SaltRequest : spc[r] = "audit" => decided[r] \in {"salt", "denied", "failed closed"}
    /\ \A r \in lost : spc[r] = "done"

(***************************************************************************)
(* Each count of answers is finite and is the count of the entries.        *)
(***************************************************************************)
AuditInv ==
    \A access \in Range(Asked), granted \in BOOLEAN :
        /\ IsFiniteSet(Answered(access, granted))
        /\ Cardinality(Logged(access, granted)) = Cardinality(Answered(access, granted))

IInv == HandoffTypeOK /\ PermitInv /\ DecideInv /\ AuditInv

-----------------------------------------------------------------------------
(***************************************************************************)
(* Before the first request.                                               *)
(***************************************************************************)
LEMMA InitIInv == Init => IInv
<1> SUFFICES ASSUME Init PROVE IInv
  OBVIOUS
<1>1. /\ spc = [r \in SaltRequest |-> "idle"] /\ decided = [r \in SaltRequest |-> "none"]
      /\ entries = <<>> /\ lost = {}
  BY DEF Init, HandoffInit
<1>2. HandoffTypeOK
  <2>1. entries \in Seq([access : Range(Asked), granted : BOOLEAN])
    BY <1>1
  <2> QED BY <1>1, <2>1 DEF HandoffTypeOK
<1>3. PermitInv /\ DecideInv
  BY <1>1 DEF PermitInv, DecideInv
<1>4. ASSUME NEW access, NEW granted
      PROVE  Logged(access, granted) = {} /\ Answered(access, granted) = {}
  <2>1. DOMAIN entries = {}
    BY <1>1
  <2> QED BY <1>1, <2>1 DEF Logged, Answered, Returned
<1>5. AuditInv
  BY <1>4, FS_EmptySet DEF AuditInv
<1> QED BY <1>2, <1>3, <1>5 DEF IInv

(***************************************************************************)
(* The sink appends an entry: it counts for its own access and decision.   *)
(***************************************************************************)
LEMMA AppendedLogged ==
    ASSUME HandoffTypeOK, NEW e \in [access : Range(Asked), granted : BOOLEAN],
           entries' = Append(entries, e), NEW access, NEW granted
    PROVE  /\ Logged(access, granted)' = IF e.access = access /\ e.granted = granted
                                         THEN Logged(access, granted) \union {Len(entries) + 1}
                                         ELSE Logged(access, granted)
           /\ Len(entries) + 1 \notin Logged(access, granted)
           /\ IsFiniteSet(Logged(access, granted))
           /\ entries' \in Seq([access : Range(Asked), granted : BOOLEAN])
<1> DEFINE E == [access : Range(Asked), granted : BOOLEAN]
<1>0. entries \in Seq(E) /\ e \in E
  BY DEF HandoffTypeOK
<1> HIDE DEF E
<1>1. /\ Len(entries) \in Nat /\ DOMAIN entries = 1..Len(entries)
      /\ entries' \in Seq(E) /\ DOMAIN entries' = 1..(Len(entries) + 1)
      /\ \A n \in 1..Len(entries) : entries'[n] = entries[n]
      /\ entries'[Len(entries) + 1] = e
  BY <1>0
<1>2. 1..(Len(entries) + 1) = (1..Len(entries)) \union {Len(entries) + 1}
      /\ Len(entries) + 1 \notin 1..Len(entries)
  BY <1>1
<1>3. IsFiniteSet(1..Len(entries))
  BY <1>1, FS_Interval
<1>4. Logged(access, granted) \in SUBSET (1..Len(entries))
  BY <1>1 DEF Logged
<1>5. IsFiniteSet(Logged(access, granted))
  BY <1>3, <1>4, FS_Subset
<1>6. Logged(access, granted)' =
        {n \in 1..(Len(entries) + 1) : entries'[n].access = access /\ entries'[n].granted = granted}
  BY <1>1 DEF Logged
<1>7. \A n \in 1..Len(entries) : n \in Logged(access, granted)' <=> n \in Logged(access, granted)
  BY <1>1, <1>2, <1>6 DEF Logged
<1>8. Len(entries) + 1 \in Logged(access, granted)' <=> e.access = access /\ e.granted = granted
  BY <1>1, <1>2, <1>6
<1>9. Logged(access, granted)' \subseteq (1..Len(entries)) \union {Len(entries) + 1}
  BY <1>2, <1>6
<1>10. Len(entries) + 1 \notin Logged(access, granted)
  BY <1>2, <1>4
<1>11. CASE e.access = access /\ e.granted = granted
  <2>1. Logged(access, granted)' = Logged(access, granted) \union {Len(entries) + 1}
    BY <1>2, <1>4, <1>7, <1>8, <1>9, <1>11
  <2> QED BY <1>1, <1>5, <1>10, <1>11, <2>1 DEF E
<1>12. CASE ~(e.access = access /\ e.granted = granted)
  <2>1. Logged(access, granted)' = Logged(access, granted)
    BY <1>2, <1>4, <1>7, <1>8, <1>9, <1>12
  <2> QED BY <1>1, <1>5, <1>10, <1>12, <2>1 DEF E
<1> QED BY <1>11, <1>12

(***************************************************************************)
(* A step after which the same requests are answered, in the same way, and *)
(* the log is the same.                                                    *)
(***************************************************************************)
LEMMA AuditFrame ==
    ASSUME AuditInv, entries' = entries,
           \A access \in Range(Asked), granted \in BOOLEAN :
               Answered(access, granted)' = Answered(access, granted)
    PROVE  AuditInv'
<1>1. \A access, granted : Logged(access, granted)' = Logged(access, granted)
  BY DEF Logged
<1> QED BY <1>1 DEF AuditInv

\* One request moves on without an answer, and without an entry.
LEMMA AnsweredFrame ==
    ASSUME HandoffTypeOK, NEW r \in SaltRequest, NEW label, NEW outcome,
           spc[r] # "done", spc' = [spc EXCEPT ![r] = label],
           decided' = [decided EXCEPT ![r] = outcome],
           lost' = lost \/ lost' = lost \union {r},
           label # "done" \/ outcome = "not found" \/ r \in lost'
    PROVE  \A access \in Range(Asked), granted \in BOOLEAN :
               Answered(access, granted)' = Answered(access, granted)
<1> SUFFICES ASSUME NEW access \in Range(Asked), NEW granted \in BOOLEAN
             PROVE  Answered(access, granted)' = Answered(access, granted)
  OBVIOUS
<1>1. \A q \in SaltRequest \ {r} : spc'[q] = spc[q] /\ decided'[q] = decided[q]
  BY DEF HandoffTypeOK
<1>2. spc'[r] = label /\ decided'[r] = outcome
  BY DEF HandoffTypeOK
<1>3. r \notin Answered(access, granted)
  BY DEF Answered, Returned
<1>4. r \notin Answered(access, granted)'
  <2>1. CASE label # "done" \/ r \in lost'
    BY <1>2, <2>1 DEF Answered, Returned
  <2>2. CASE outcome = "not found"
    <3>1. decided'[r] = "not found"
      BY <1>2, <2>2
    <3>2. "not found" \notin (IF granted THEN {"salt"} ELSE {"denied", "failed closed"})
      OBVIOUS
    <3> QED BY <3>1, <3>2 DEF Answered
  <2> QED BY <2>1, <2>2
<1>5. \A q \in SaltRequest \ {r} : q \in Answered(access, granted)' <=> q \in Answered(access, granted)
  BY <1>1 DEF Answered, Returned
<1>6. Answered(access, granted) \subseteq SaltRequest /\ Answered(access, granted)' \subseteq SaltRequest
  BY DEF Answered
<1> DEFINE A == Answered(access, granted)
<1>7. r \notin A /\ r \notin A' /\ A \subseteq SaltRequest /\ A' \subseteq SaltRequest
      /\ \A q \in SaltRequest \ {r} : q \in A' <=> q \in A
  BY <1>3, <1>4, <1>5, <1>6
<1> HIDE DEF A
<1>8. A' = A
  <2>1. \A q : q \in A' <=> q \in A
    BY <1>7
  <2> QED BY <2>1
<1> QED BY <1>8 DEF A

\* The policy's owner grants or revokes while requests are under way.
LEMMA ChangePolicyIInv ==
    ASSUME IInv, NEW pair, ChangePolicy(pair)
    PROVE  IInv'
<1>1. /\ policy' = IF pair \in policy THEN policy \ {pair} ELSE policy \union {pair}
      /\ permitted' = permitted \union
           {r \in SaltRequest : spc[r] # "idle" /\ Pair(r) = pair /\ pair \in policy'}
      /\ UNCHANGED <<spc, decided, entries, lost>>
  BY DEF ChangePolicy
<1>2. HandoffTypeOK' /\ DecideInv'
  BY <1>1 DEF IInv, HandoffTypeOK, DecideInv
<1>3. PermitInv'
  <2>1. \A r \in SaltRequest : spc[r] # "idle" /\ Pair(r) \in policy' => r \in permitted'
    <3> SUFFICES ASSUME NEW r \in SaltRequest, spc[r] # "idle", Pair(r) \in policy'
                 PROVE  r \in permitted'
      OBVIOUS
    <3>1. CASE Pair(r) = pair
      BY <1>1, <3>1
    <3>2. CASE Pair(r) # pair
      <4>1. Pair(r) \in policy
        BY <1>1, <3>2
      <4> QED BY <1>1, <4>1 DEF IInv, PermitInv
    <3> QED BY <3>1, <3>2
  <2> QED BY <1>1, <2>1 DEF IInv, PermitInv, Pair
<1>4. AuditInv'
  BY <1>1, AuditFrame DEF IInv, Answered, Returned
<1> QED BY <1>2, <1>3, <1>4 DEF IInv

\* A request arrives; what the policy accepts now is permitted.
LEMMA RequestSaltIInv ==
    ASSUME IInv, NEW r \in SaltRequest, RequestSalt(r)
    PROVE  IInv'
<1>1. /\ spc[r] = "idle" /\ spc' = [spc EXCEPT ![r] = "authorize"]
      /\ permitted' = permitted \union (IF Pair(r) \in policy THEN {r} ELSE {})
      /\ UNCHANGED <<policy, decided, entries, lost>>
  BY DEF RequestSalt
<1>2. HandoffTypeOK'
  BY <1>1 DEF IInv, HandoffTypeOK
<1>3. spc'[r] = "authorize" /\ \A q \in SaltRequest \ {r} : spc'[q] = spc[q]
  BY <1>1 DEF IInv, HandoffTypeOK
<1>4. PermitInv'
  BY <1>1, <1>3 DEF IInv, PermitInv, Pair
<1>5. DecideInv'
  BY <1>1, <1>3 DEF IInv, DecideInv, HandoffTypeOK
<1>6. decided' = [decided EXCEPT ![r] = decided[r]]
  BY <1>1 DEF IInv, HandoffTypeOK
<1>7. AuditInv'
  <2>1. \A access \in Range(Asked), granted \in BOOLEAN :
          Answered(access, granted)' = Answered(access, granted)
    BY <1>1, <1>6, AnsweredFrame DEF IInv
  <2> QED BY <1>1, <2>1, AuditFrame DEF IInv
<1> QED BY <1>2, <1>4, <1>5, <1>7 DEF IInv

\* A decision: of the policy, of its failure, or of the salt store.
LEMMA DecideIInv ==
    ASSUME IInv, NEW r \in SaltRequest, NEW outcome, NEW label, Decide(r, outcome, label),
           spc[r] \in {"authorize", "getsalt"},
           \/ outcome = "none" /\ label = "getsalt" /\ Pair(r) \in policy
           \/ outcome \in {"denied", "failed closed"} /\ label = "audit"
           \/ outcome = "salt" /\ label = "audit" /\ spc[r] = "getsalt"
           \/ outcome = "not found" /\ label = "done"
    PROVE  IInv'
<1>1. /\ decided' = [decided EXCEPT ![r] = outcome] /\ spc' = [spc EXCEPT ![r] = label]
      /\ UNCHANGED <<policy, entries, lost, permitted>>
  BY DEF Decide
<1>2. HandoffTypeOK'
  BY <1>1 DEF IInv, HandoffTypeOK
<1>3. /\ spc'[r] = label /\ decided'[r] = outcome
      /\ \A q \in SaltRequest \ {r} : spc'[q] = spc[q] /\ decided'[q] = decided[q]
  BY <1>1 DEF IInv, HandoffTypeOK
<1>4. PermitInv'
  BY <1>1, <1>3 DEF IInv, PermitInv, Pair
<1>5. DecideInv'
  BY <1>1, <1>3 DEF IInv, DecideInv, HandoffTypeOK
<1>6. AuditInv'
  <2>1. \A access \in Range(Asked), granted \in BOOLEAN :
          Answered(access, granted)' = Answered(access, granted)
    BY <1>1, AnsweredFrame DEF IInv
  <2> QED BY <1>1, <2>1, AuditFrame DEF IInv
<1> QED BY <1>2, <1>4, <1>5, <1>6 DEF IInv

\* The sink refuses the entry; the answer goes out all the same.
LEMMA RecordFailsIInv ==
    ASSUME IInv, NEW r \in SaltRequest, RecordFails(r)
    PROVE  IInv'
<1>1. /\ spc[r] = "audit" /\ spc' = [spc EXCEPT ![r] = "done"] /\ lost' = lost \union {r}
      /\ UNCHANGED <<policy, decided, entries, permitted>>
  BY DEF RecordFails
<1>2. HandoffTypeOK'
  BY <1>1 DEF IInv, HandoffTypeOK
<1>3. spc'[r] = "done" /\ \A q \in SaltRequest \ {r} : spc'[q] = spc[q]
  BY <1>1 DEF IInv, HandoffTypeOK
<1>4. PermitInv'
  BY <1>1, <1>3 DEF IInv, PermitInv, Pair
<1>5. DecideInv'
  BY <1>1, <1>3 DEF IInv, DecideInv, HandoffTypeOK
<1>6. decided' = [decided EXCEPT ![r] = decided[r]]
  BY <1>1 DEF IInv, HandoffTypeOK
<1>7. AuditInv'
  <2>1. \A access \in Range(Asked), granted \in BOOLEAN :
          Answered(access, granted)' = Answered(access, granted)
    BY <1>1, <1>6, AnsweredFrame DEF IInv
  <2> QED BY <1>1, <2>1, AuditFrame DEF IInv
<1> QED BY <1>2, <1>4, <1>5, <1>7 DEF IInv

\* The sink takes the entry: one more in the log, one more request answered.
LEMMA RecordIInv ==
    ASSUME IInv, NEW r \in SaltRequest, Record(r)
    PROVE  IInv'
<1> DEFINE e == [access |-> Asked[r], granted |-> decided[r] = "salt"]
<1>1. /\ spc[r] = "audit" /\ spc' = [spc EXCEPT ![r] = "done"] /\ entries' = Append(entries, e)
      /\ UNCHANGED <<policy, decided, lost, permitted>>
  BY DEF Record
<1>2. e.access = Asked[r] /\ e.granted = (decided[r] = "salt")
      /\ e \in [access : Range(Asked), granted : BOOLEAN]
  <2>1. Asked[r] \in Range(Asked)
    BY AskedAssumption DEF Range
  <2> QED BY <2>1
<1> HIDE DEF e
<1>3. spc'[r] = "done" /\ \A q \in SaltRequest \ {r} : spc'[q] = spc[q]
  BY <1>1 DEF IInv, HandoffTypeOK
<1>4. HandoffTypeOK'
  <2>1. entries' \in Seq([access : Range(Asked), granted : BOOLEAN])
    BY <1>1, <1>2, AppendedLogged DEF IInv
  <2> QED BY <1>1, <2>1 DEF IInv, HandoffTypeOK
<1>5. PermitInv'
  BY <1>1, <1>3 DEF IInv, PermitInv, Pair
<1>6. DecideInv'
  BY <1>1, <1>3 DEF IInv, DecideInv, HandoffTypeOK
<1>7. ASSUME NEW access \in Range(Asked), NEW granted \in BOOLEAN
      PROVE  /\ IsFiniteSet(Answered(access, granted)')
             /\ Cardinality(Logged(access, granted)') = Cardinality(Answered(access, granted)')
  <2> DEFINE A == Answered(access, granted)
             L == Logged(access, granted)
  <2>1. r \notin A /\ A' \subseteq A \union {r} /\ A \subseteq A'
    BY <1>1, <1>3 DEF Answered, Returned
  <2>2. r \in A' <=> e.access = access /\ e.granted = granted
    <3>1. decided[r] \in {"salt", "denied", "failed closed"} /\ r \notin lost
      BY <1>1 DEF IInv, DecideInv
    <3>2. e.granted = granted <=> decided[r] \in (IF granted THEN {"salt"} ELSE {"denied", "failed closed"})
      BY <1>2, <3>1
    <3> QED BY <1>1, <1>2, <1>3, <3>1, <3>2 DEF Answered, Returned
  <2>3. IsFiniteSet(A) /\ Cardinality(L) = Cardinality(A)
    BY DEF IInv, AuditInv
  <2>4. /\ L' = IF e.access = access /\ e.granted = granted THEN L \union {Len(entries) + 1} ELSE L
        /\ Len(entries) + 1 \notin L /\ IsFiniteSet(L)
    BY <1>1, <1>2, AppendedLogged DEF IInv
  <2> HIDE DEF A, L
  <2>5. CASE e.access = access /\ e.granted = granted
    <3>1. A' = A \union {r} /\ L' = L \union {Len(entries) + 1}
      BY <2>1, <2>2, <2>4, <2>5
    <3>2. IsFiniteSet(A') /\ Cardinality(A') = Cardinality(A) + 1
      BY <2>1, <2>3, <3>1, FS_AddElement
    <3>3. Cardinality(L') = Cardinality(L) + 1
      BY <2>4, <3>1, FS_AddElement
    <3> QED BY <2>3, <3>2, <3>3 DEF A, L
  <2>6. CASE ~(e.access = access /\ e.granted = granted)
    <3>1. A' = A /\ L' = L
      BY <2>1, <2>2, <2>4, <2>6
    <3> QED BY <2>3, <3>1 DEF A, L
  <2> QED BY <2>5, <2>6
<1>8. AuditInv'
  BY <1>7 DEF AuditInv
<1> QED BY <1>4, <1>5, <1>6, <1>8 DEF IInv

-----------------------------------------------------------------------------
(***************************************************************************)
(* The invariant is inductive: writes, erasures and the history route do   *)
(* not touch it.                                                           *)
(***************************************************************************)
LEMMA NextIInv == IInv /\ [Next]_vars => IInv'
<1> SUFFICES ASSUME IInv, [Next]_vars PROVE IInv'
  OBVIOUS
<1>1. ASSUME UNCHANGED handoffVars PROVE IInv'
  <2>1. UNCHANGED <<policy, spc, decided, entries, lost, permitted>>
    BY <1>1 DEF handoffVars
  <2>2. HandoffTypeOK' /\ PermitInv' /\ DecideInv'
    BY <2>1 DEF IInv, HandoffTypeOK, PermitInv, DecideInv, Pair
  <2>3. AuditInv'
    BY <2>1, AuditFrame DEF IInv, Answered, Returned
  <2> QED BY <2>2, <2>3 DEF IInv
<1>2. ASSUME NEW r \in SaltRequest, Authorize(r) \/ AuthorizeFails(r) \/ GetSalt(r) PROVE IInv'
  <2>1. CASE Authorize(r)
    BY <2>1, DecideIInv DEF Authorize
  <2>2. CASE AuthorizeFails(r)
    BY <2>2, DecideIInv DEF AuthorizeFails
  <2>3. CASE GetSalt(r)
    BY <2>3, DecideIInv DEF GetSalt
  <2> QED BY <1>2, <2>1, <2>2, <2>3
<1>3. CASE HandoffNext
  BY <1>2, <1>3, RequestSaltIInv, RecordIInv, RecordFailsIInv, ChangePolicyIInv DEF HandoffNext
<1> QED BY <1>1, <1>3 DEF Next, vars

(***************************************************************************)
(* The invariant holds whatever the order of requests, policy changes,     *)
(* failures, writes and erasures.                                          *)
(***************************************************************************)
THEOREM HandoffInvariant == Spec => []IInv
  BY InitIInv, NextIInv, PTL DEF Spec

(***************************************************************************)
(* RequestSalt fails closed: no salt goes out that the policy did not      *)
(* allow while the request was under way.                                  *)
(***************************************************************************)
THEOREM HandoffFailsClosed == Spec => []SaltOnlyIfAuthorized
<1>1. IInv => SaltOnlyIfAuthorized
  BY DEF IInv, PermitInv, SaltOnlyIfAuthorized
<1> QED BY <1>1, HandoffInvariant, PTL

(***************************************************************************)
(* The audit log counts what RequestSalt has answered, but for the entries *)
(* the sink refused.                                                       *)
(***************************************************************************)
THEOREM AuditLogAgrees == Spec => []AuditTrailIsTrue
<1>1. IInv => AuditTrailIsTrue
  BY DEF IInv, AuditInv, AuditTrailIsTrue
<1> QED BY <1>1, HandoffInvariant, PTL

-----------------------------------------------------------------------------
(***************************************************************************)
(* The history route.  What is in the ledger, and how far peers have come. *)
(***************************************************************************)
LogRecord == [timestamp : Timestamp, block : Nat]

LogInv ==
    /\ records \in [Pseudonym \X SectionSet -> Seq(LogRecord)]
    /\ blocks \in Nat
    /\ height \in [Peer -> Nat]
    /\ keys \in [Lookup -> Nat]
    /\ nextKey \in Nat \ {0}
    /\ \A ps \in Pseudonym \X SectionSet : \A v \in DOMAIN records[ps] :
         records[ps][v].block <= blocks
    /\ \A p \in Peer : height[p] <= blocks
    /\ \A l \in Lookup : keys[l] < nextKey

HistoryEntry == [profileSection : SectionSet, version : Nat, timestamp : Timestamp]

RouteTypeOK ==
    /\ hpc \in [HistoryRequest -> {"idle", "resolve", "query", "done"}]
    /\ requested \in [HistoryRequest -> Seq(SectionSet)]
    /\ employeeID \in [HistoryRequest -> Nat]
    /\ history \in [HistoryRequest -> Seq(HistoryEntry)]
    /\ status \in [HistoryRequest -> {"none", "ok", "rejected", "error"}]
    /\ began \in [HistoryRequest -> [height : Nat, key : Nat]]

(***************************************************************************)
(* What a request has collected.  A section it is through with has         *)
(* versions 1..n, a section still to be queried has none, and no entry is  *)
(* there twice.                                                            *)
(***************************************************************************)
Collected(r, section) ==
    \E n \in Seen(began[r].height, employeeID[r], section)..Len(Chain(employeeID[r], section)) :
        Entries(r, section) = {Entry(employeeID[r], section, v) : v \in 1..n}

Gathered(r) ==
    /\ employeeID[r] \in Pseudonym /\ employeeID[r] >= began[r].key
    /\ Range(SectionsOf(r)) \subseteq SectionSet
    /\ IsInjective(requested[r]) /\ Range(requested[r]) \subseteq Range(SectionsOf(r))
    /\ \A section \in Range(requested[r]) : Entries(r, section) = {}
    /\ \A section \in Range(SectionsOf(r)) \ Range(requested[r]) : Collected(r, section)
    /\ \A e \in Range(history[r]) : e.profileSection \in Range(SectionsOf(r))
    /\ IsInjective(history[r])

Descending(r) ==
    \A i, j \in DOMAIN history[r] : i < j => history[r][i].timestamp >= history[r][j].timestamp

Route(r) ==
    /\ began[r].height <= blocks
    /\ hpc[r] # "done" => status[r] = "none"
    /\ hpc[r] \in {"idle", "resolve"} => history[r] = <<>>
    /\ hpc[r] = "resolve" =>
         /\ LookupOf(r) \in Lookup
         /\ requested[r] = SectionsOf(r)
         /\ Range(SectionsOf(r)) \subseteq SectionSet /\ IsInjective(SectionsOf(r))
         /\ began[r].key < nextKey
         /\ keys[LookupOf(r)] = NoKey \/ keys[LookupOf(r)] >= began[r].key
    /\ hpc[r] \in {"resolve", "query"} => \A p \in Peer : began[r].height <= height[p]
    /\ hpc[r] = "query" => Gathered(r)
    /\ status[r] = "ok" => Gathered(r) /\ requested[r] = <<>> /\ Descending(r)
    /\ status[r] \in {"rejected", "error"} => history[r] = <<>>

RouteInv == \A r \in HistoryRequest : Route(r)

HistoryInv == LogInv /\ RouteTypeOK /\ RouteInv

-----------------------------------------------------------------------------
\* The constants and the sets made of them.
LEMMA ReadSideFacts ==
    /\ Peer # {}
    /\ Section \in Seq(SectionSet) /\ IsInjective(Section) /\ Range(Section) = SectionSet
    /\ MaxClock \in Nat /\ MaxRecords \in Nat /\ MaxKeys \in Nat
    /\ Pseudonym \subseteq Nat \ {0} /\ Timestamp \subseteq Nat /\ NoKey = 0
  BY AnchoredLogAssumption DEF SectionSet, Pseudonym, Timestamp, NoKey

\* 1..n has n elements.
LEMMA UpTo == \A n \in Nat : IsFiniteSet(1..n) /\ Cardinality(1..n) = n
<1> TAKE n \in Nat
<1>1. 1 \in Int /\ n \in Int
  OBVIOUS
<1>2. IsFiniteSet(1..n) /\ Cardinality(1..n) = IF 1 > n THEN 0 ELSE n - 1 + 1
  BY <1>1, FS_Interval
<1> QED BY <1>2

(***************************************************************************)
(* A set of natural numbers has a least element.                           *)
(***************************************************************************)
LEMMA LeastElement ==
    ASSUME NEW T \in SUBSET Nat, T # {}
    PROVE  \E m \in T : \A n \in T : m <= n
<1>1. IsWellFoundedOn(OpToRel(<, Nat), Nat)
  BY NatLessThanWellFounded
<1>2. PICK m \in T : \A n \in T : ~(<<n, m>> \in OpToRel(<, Nat))
  BY <1>1, WFMin
<1>3. \A n \in T : ~(n < m)
  BY <1>2 DEF OpToRel
<1>4. m \in Nat /\ \A n \in T : n \in Nat
  OBVIOUS
<1>5. \A n \in T : m <= n
  BY <1>3, <1>4
<1> QED BY <1>5

\* The smallest height is the height of some peer, and below all others.
LEMMA LeastHeight ==
    ASSUME LogInv
    PROVE  Min(Range(height)) \in Nat /\ \A p \in Peer : Min(Range(height)) <= height[p]
<1>1. Range(height) \in SUBSET Nat /\ Range(height) # {} /\ \A p \in Peer : height[p] \in Range(height)
  BY ReadSideFacts DEF LogInv, Range
<1>2. \E m \in Range(height) : \A n \in Range(height) : m <= n
  BY <1>1, LeastElement
<1>3. Min(Range(height)) \in Range(height) /\ \A n \in Range(height) : Min(Range(height)) <= n
  BY <1>2 DEF Min
<1> QED BY <1>1, <1>3

(***************************************************************************)
(* Chains are sequences of records.                                        *)
(***************************************************************************)
LEMMA ChainFacts ==
    ASSUME LogInv, NEW id \in Pseudonym, NEW section \in SectionSet
    PROVE  /\ <<id, section>> \in Pseudonym \X SectionSet
           /\ Chain(id, section) = records[<<id, section>>]
           /\ Chain(id, section) \in Seq(LogRecord)
           /\ Len(Chain(id, section)) \in Nat
           /\ DOMAIN Chain(id, section) = 1..Len(Chain(id, section))
           /\ \A v \in DOMAIN Chain(id, section) :
                /\ Chain(id, section)[v].timestamp \in Timestamp
                /\ Chain(id, section)[v].block \in Nat
<1>1. <<id, section>> \in Pseudonym \X SectionSet
  OBVIOUS
<1>2. Chain(id, section) = records[<<id, section>>] /\ records[<<id, section>>] \in Seq(LogRecord)
  BY <1>1 DEF LogInv, Chain
<1> DEFINE c == Chain(id, section)
<1>3. c \in Seq(LogRecord)
  BY <1>2
<1> HIDE DEF c
<1>4. Len(c) \in Nat /\ DOMAIN c = 1..Len(c) /\ \A v \in DOMAIN c : c[v] \in LogRecord
  BY <1>3
<1>5. \A rec \in LogRecord : rec.timestamp \in Timestamp /\ rec.block \in Nat
  BY DEF LogRecord
<1>6. \A v \in DOMAIN c : c[v].timestamp \in Timestamp /\ c[v].block \in Nat
  BY <1>4, <1>5
<1> QED BY <1>1, <1>2, <1>3, <1>4, <1>6 DEF c

(***************************************************************************)
(* What a peer has seen of a chain is a first part of it, the longer the   *)
(* more blocks the peer has executed.                                      *)
(***************************************************************************)
LEMMA SeenFacts ==
    ASSUME LogInv, NEW id \in Pseudonym, NEW section \in SectionSet, NEW h \in Nat
    PROVE  /\ Seen(h, id, section) \in 0..Len(Chain(id, section))
           /\ \A g \in Nat : g <= h => Seen(g, id, section) <= Seen(h, id, section)
<1> DEFINE c == Chain(id, section)
           S(g) == {v \in DOMAIN c : c[v].block <= g}
<1>1. Len(c) \in Nat /\ DOMAIN c = 1..Len(c) /\ \A v \in DOMAIN c : c[v].block \in Nat
  BY ChainFacts
<1>2. \A g : Seen(g, id, section) = Cardinality(S(g))
  BY DEF Seen
<1> HIDE DEF c
<1>3. IsFiniteSet(DOMAIN c) /\ Cardinality(DOMAIN c) = Len(c)
  BY <1>1, UpTo
<1>4. ASSUME NEW g PROVE S(g) \in SUBSET DOMAIN c
  OBVIOUS
<1>5. ASSUME NEW g PROVE IsFiniteSet(S(g)) /\ Cardinality(S(g)) <= Len(c) /\ Cardinality(S(g)) \in Nat
  BY <1>3, <1>4, FS_Subset, FS_CardinalityType
<1>6. ASSUME NEW g \in Nat, g <= h PROVE Cardinality(S(g)) <= Cardinality(S(h))
  <2>1. S(g) \in SUBSET S(h)
    BY <1>1, <1>6
  <2> QED BY <2>1, <1>5, FS_Subset
<1> HIDE DEF S
<1>7. \A g \in Nat : g <= h => Cardinality(S(g)) <= Cardinality(S(h))
  BY <1>6
<1>8. Cardinality(S(h)) \in 0..Len(c)
  BY <1>1, <1>5
<1> QED BY <1>2, <1>7, <1>8 DEF c

-----------------------------------------------------------------------------
(***************************************************************************)
(* Sorting.  Ranks rise along the order, so no two entries share one, and  *)
(* n entries with ranks in 1..n take them all.                             *)
(***************************************************************************)
LEMMA RankFacts ==
    ASSUME NEW all \in Seq(HistoryEntry)
    PROVE  /\ \A i, j \in DOMAIN all : i # j => Before(all, i, j) \/ Before(all, j, i)
           /\ \A i, j \in DOMAIN all : Before(all, i, j) => Rank(all, i) < Rank(all, j)
           /\ \A i \in DOMAIN all : Rank(all, i) \in DOMAIN all
           /\ \A k \in DOMAIN all : \E i \in DOMAIN all : Rank(all, i) = k
<1> DEFINE D == DOMAIN all
           F(i) == {j \in D : Before(all, j, i)}
<1>1. Len(all) \in Nat /\ D = 1..Len(all) /\ \A i \in D : all[i].timestamp \in Nat
  <2>1. \A e \in HistoryEntry : e.timestamp \in Nat
    BY ReadSideFacts DEF HistoryEntry
  <2>2. Len(all) \in Nat /\ D = 1..Len(all) /\ \A i \in D : all[i] \in HistoryEntry
    OBVIOUS
  <2> QED BY <2>1, <2>2
<1>2. \A i : Rank(all, i) = 1 + Cardinality(F(i))
  BY DEF Rank
<1> HIDE DEF D
<1>3. IsFiniteSet(D) /\ Cardinality(D) = Len(all)
  BY <1>1, UpTo
<1>4. /\ \A i, j \in D : i # j => Before(all, i, j) \/ Before(all, j, i)
      /\ \A i \in D : ~Before(all, i, i)
      /\ \A i, j, k \in D : Before(all, i, j) /\ Before(all, j, k) => Before(all, i, k)
  <2>1. D \subseteq Nat
    BY <1>1
  <2> QED BY <1>1, <2>1 DEF Before
<1>5. ASSUME NEW i PROVE IsFiniteSet(F(i)) /\ Cardinality(F(i)) \in Nat
  <2>1. F(i) \in SUBSET D
    OBVIOUS
  <2> QED BY <1>3, <2>1, FS_Subset, FS_CardinalityType
<1>6. ASSUME NEW i \in D, NEW j \in D, Before(all, i, j)
      PROVE  Cardinality(F(i)) < Cardinality(F(j))
  <2>1. F(i) \in SUBSET F(j) /\ i \in F(j) /\ i \notin F(i)
    BY <1>4, <1>6
  <2>2. F(i) # F(j)
    BY <2>1
  <2>3. Cardinality(F(i)) <= Cardinality(F(j)) /\ (Cardinality(F(j)) = Cardinality(F(i)) => F(j) = F(i))
    BY <2>1, <1>5, FS_Subset
  <2>4. Cardinality(F(i)) \in Nat /\ Cardinality(F(j)) \in Nat
    BY <1>5
  <2> QED BY <2>2, <2>3, <2>4
<1>7. ASSUME NEW i \in D PROVE Cardinality(F(i)) < Len(all)
  <2>1. F(i) \in SUBSET D /\ F(i) # D
    BY <1>4
  <2>2. Cardinality(F(i)) <= Cardinality(D) /\ (Cardinality(D) = Cardinality(F(i)) => D = F(i))
    BY <2>1, <1>3, FS_Subset
  <2>3. Cardinality(F(i)) \in Nat
    BY <1>5
  <2> QED BY <1>1, <1>3, <2>1, <2>2, <2>3
<1>8. \A i \in D : Cardinality(F(i)) \in Nat /\ Cardinality(F(i)) < Len(all)
  BY <1>5, <1>7
<1>9. \A i, j \in D : Before(all, i, j) => Cardinality(F(i)) < Cardinality(F(j))
  BY <1>6
<1> HIDE DEF F
<1>10. \A i \in D : Rank(all, i) \in D
  BY <1>1, <1>2, <1>8
<1>11. \A i, j \in D : Before(all, i, j) => Rank(all, i) < Rank(all, j)
  BY <1>2, <1>8, <1>9
<1>12. \A k \in D : \E i \in D : Rank(all, i) = k
  <2> DEFINE f == [i \in D |-> Rank(all, i)]
  <2>1. f \in [D -> D]
    BY <1>10
  <2>2. \A i, j \in D : f[i] = f[j] => i = j
    <3>1. \A i \in D : Rank(all, i) \in Nat
      BY <1>1, <1>10
    <3>2. ASSUME NEW i \in D, NEW j \in D, i # j PROVE Rank(all, i) # Rank(all, j)
      BY <1>4, <1>11, <3>1, <3>2
    <3> QED BY <3>2
  <2>3. f \in Injection(D, D)
    BY <2>1, <2>2 DEF Injection, IsInjective
  <2> HIDE DEF f
  <2>4. f \in Surjection(D, D)
    BY <1>3, <2>3, FS_Injection
  <2>5. \A k \in D : \E i \in D : f[i] = k
    BY <2>4 DEF Surjection
  <2> QED BY <2>5 DEF f
<1> QED BY <1>4, <1>10, <1>11, <1>12 DEF D

(***************************************************************************)
(* The sorted list holds the same entries, none more often than before,    *)
(* with falling timestamps.                                                *)
(***************************************************************************)
LEMMA SortFacts ==
    ASSUME NEW all \in Seq(HistoryEntry)
    PROVE  /\ SortByTimestamp(all) \in Seq(HistoryEntry)
           /\ Range(SortByTimestamp(all)) = Range(all)
           /\ IsInjective(all) => IsInjective(SortByTimestamp(all))
           /\ \A i, j \in DOMAIN SortByTimestamp(all) :
                i < j => SortByTimestamp(all)[i].timestamp >= SortByTimestamp(all)[j].timestamp
<1> DEFINE D == DOMAIN all
           at(k) == CHOOSE i \in D : Rank(all, i) = k
           sorted == SortByTimestamp(all)
<1>0. /\ \A i, j \in D : i # j => Before(all, i, j) \/ Before(all, j, i)
      /\ \A i, j \in D : Before(all, i, j) => Rank(all, i) < Rank(all, j)
  BY RankFacts
<1>1. Len(all) \in Nat /\ D = 1..Len(all) /\ \A i \in D : all[i] \in HistoryEntry
  OBVIOUS
<1>2. DOMAIN sorted = D /\ \A k \in D : sorted[k] = all[at(k)]
  BY DEF SortByTimestamp
<1>3. \A k \in D : at(k) \in D /\ Rank(all, at(k)) = k
  <2>1. \A k \in D : \E i \in D : Rank(all, i) = k
    BY RankFacts
  <2> QED BY <2>1
<1>4. sorted \in Seq(HistoryEntry)
  <2>1. sorted \in [1..Len(all) -> HistoryEntry]
    BY <1>1, <1>2, <1>3 DEF SortByTimestamp
  <2> QED BY <1>1, <2>1
<1>9. \A i \in D : Rank(all, i) \in D
  BY RankFacts
<1> HIDE DEF at, sorted, D
<1>5. \A i \in D : Rank(all, i) \in D /\ at(Rank(all, i)) = i
  <2>1. \A i \in D : Rank(all, i) \in D
    BY <1>9
  <2>2. ASSUME NEW i \in D, NEW j \in D, Rank(all, i) = Rank(all, j) PROVE i = j
    <3>1. Rank(all, i) \in Nat /\ Rank(all, j) \in Nat
      BY <1>1, <2>1
    <3>2. ~(Rank(all, i) < Rank(all, j)) /\ ~(Rank(all, j) < Rank(all, i))
      BY <2>2, <3>1
    <3> QED BY <1>0, <3>2
  <2>3. ASSUME NEW i \in D PROVE at(Rank(all, i)) = i
    <3>1. at(Rank(all, i)) \in D /\ Rank(all, at(Rank(all, i))) = Rank(all, i)
      BY <1>3, <2>1
    <3> QED BY <2>2, <3>1
  <2> QED BY <2>1, <2>3
<1>6. Range(sorted) = Range(all)
  <2>1. Range(sorted) = {sorted[k] : k \in D} /\ Range(all) = {all[i] : i \in D}
    BY <1>2 DEF Range, D
  <2>2. \A k \in D : \E i \in D : sorted[k] = all[i]
    BY <1>2, <1>3
  <2>3. \A i \in D : \E k \in D : sorted[k] = all[i]
    BY <1>2, <1>5
  <2> QED BY <2>1, <2>2, <2>3
<1>7. ASSUME IsInjective(all) PROVE IsInjective(sorted)
  <2>1. \A i, j \in D : all[i] = all[j] => i = j
    BY <1>7 DEF IsInjective, D
  <2>2. \A k, m \in D : sorted[k] = sorted[m] => k = m
    BY <1>2, <1>3, <2>1
  <2> QED BY <1>2, <2>2 DEF IsInjective
<1>8. ASSUME NEW k \in D, NEW m \in D, k < m PROVE sorted[k].timestamp >= sorted[m].timestamp
  <2>1. at(k) \in D /\ at(m) \in D /\ Rank(all, at(k)) = k /\ Rank(all, at(m)) = m
    BY <1>3
  <2>2. k \in Nat /\ m \in Nat
    BY <1>1
  <2>3. at(k) # at(m) /\ ~Before(all, at(m), at(k))
    <3>1. k # m /\ ~(m < k)
      BY <1>8, <2>2
    <3> QED BY <1>0, <2>1, <3>1
  <2>4. Before(all, at(k), at(m))
    BY <1>0, <2>1, <2>3
  <2>5. all[at(k)].timestamp \in Nat /\ all[at(m)].timestamp \in Nat
    <3>1. \A e \in HistoryEntry : e.timestamp \in Nat
      BY ReadSideFacts DEF HistoryEntry
    <3> QED BY <1>1, <2>1, <3>1
  <2>6. all[at(k)].timestamp >= all[at(m)].timestamp
    BY <2>4, <2>5 DEF Before
  <2> QED BY <1>2, <2>6
<1> QED BY <1>2, <1>4, <1>6, <1>7, <1>8 DEF sorted

-----------------------------------------------------------------------------
(***************************************************************************)
(* What a step may do to the ledger and the key store: chains grow by      *)
(* records of new blocks, peers go forward, a key is deleted or newly      *)
(* drawn.                                                                  *)
(***************************************************************************)
LogStep ==
    /\ blocks <= blocks' /\ nextKey <= nextKey'
    /\ \A p \in Peer : height[p] <= height'[p]
    /\ \A l \in Lookup : keys'[l] \in {NoKey, keys[l]} \/ keys'[l] >= nextKey
    /\ \A ps \in Pseudonym \X SectionSet :
         /\ Len(records[ps]) <= Len(records'[ps])
         /\ \A v \in DOMAIN records[ps] : records'[ps][v] = records[ps][v]
         /\ \A v \in DOMAIN records'[ps] \ DOMAIN records[ps] : records'[ps][v].block > blocks

\* A chain keeps its records, and what was seen of it at a past height.
LEMMA ChainStep ==
    ASSUME LogInv, LogInv', LogStep, NEW id \in Pseudonym, NEW section \in SectionSet
    PROVE  /\ Len(Chain(id, section)) <= Len(Chain(id, section)')
           /\ \A v \in DOMAIN Chain(id, section) : Chain(id, section)'[v] = Chain(id, section)[v]
           /\ \A h \in Nat : h <= blocks =>
                {v \in DOMAIN Chain(id, section)' : Chain(id, section)'[v].block <= h}
                  = {v \in DOMAIN Chain(id, section) : Chain(id, section)[v].block <= h}
<1> DEFINE c == records[<<id, section>>]
           d == records'[<<id, section>>]
<1>1. Chain(id, section) = c /\ Chain(id, section)' = d /\ <<id, section>> \in Pseudonym \X SectionSet
  BY DEF Chain
<1>2. /\ Len(c) <= Len(d) /\ \A v \in DOMAIN c : d[v] = c[v]
      /\ \A v \in DOMAIN d \ DOMAIN c : d[v].block > blocks
  BY <1>1 DEF LogStep
<1>3. /\ Len(c) \in Nat /\ DOMAIN c = 1..Len(c)
      /\ blocks \in Nat
  BY <1>1, ChainFacts DEF LogInv
<1>4. d \in Seq(LogRecord)
  BY <1>1 DEF LogInv
<1> HIDE DEF c, d
<1>5. Len(d) \in Nat /\ DOMAIN d = 1..Len(d) /\ \A v \in DOMAIN d : d[v] \in LogRecord
  BY <1>4
<1>6. \A v \in DOMAIN d : d[v].block \in Nat
  BY <1>5 DEF LogRecord
<1>7. DOMAIN c \subseteq DOMAIN d
  BY <1>2, <1>3, <1>5
<1>8. ASSUME NEW h \in Nat, h <= blocks
      PROVE  {v \in DOMAIN d : d[v].block <= h} = {v \in DOMAIN c : c[v].block <= h}
  <2>1. \A v \in DOMAIN d \ DOMAIN c : ~(d[v].block <= h)
    BY <1>2, <1>3, <1>6, <1>8
  <2> QED BY <1>2, <1>7, <2>1
<1> QED BY <1>1, <1>2, <1>8

(***************************************************************************)
(* A request that does not step itself keeps what it has.                  *)
(***************************************************************************)
LEMMA RouteFrame ==
    ASSUME LogInv, LogInv', LogStep, RouteTypeOK, NEW r \in HistoryRequest, Route(r),
           hpc'[r] = hpc[r], requested'[r] = requested[r], employeeID'[r] = employeeID[r],
           history'[r] = history[r], status'[r] = status[r], began'[r] = began[r]
    PROVE  Route(r)'
<1>1. began[r].height \in Nat /\ began[r].key \in Nat /\ began[r].height <= blocks
  <2>1. began[r] \in [height : Nat, key : Nat]
    BY DEF RouteTypeOK
  <2> QED BY <2>1 DEF Route
<1>2. began'[r].height <= blocks'
  BY <1>1 DEF LogInv, LogStep
<1>3. ASSUME hpc[r] = "resolve"
      PROVE  /\ began'[r].key < nextKey'
             /\ keys'[LookupOf(r)] = NoKey \/ keys'[LookupOf(r)] >= began'[r].key
  <2>1. LookupOf(r) \in Lookup /\ began[r].key < nextKey
        /\ (keys[LookupOf(r)] = NoKey \/ keys[LookupOf(r)] >= began[r].key)
    BY <1>3 DEF Route
  <2>2. keys'[LookupOf(r)] \in {NoKey, keys[LookupOf(r)]} \/ keys'[LookupOf(r)] >= nextKey
    BY <2>1 DEF LogStep
  <2>3. nextKey \in Nat /\ nextKey' \in Nat /\ keys[LookupOf(r)] \in Nat /\ keys'[LookupOf(r)] \in Nat
        /\ nextKey <= nextKey'
    BY <2>1 DEF LogInv, LogStep
  <2> QED BY <1>1, <2>1, <2>2, <2>3
<1>4. ASSUME hpc[r] \in {"resolve", "query"}, NEW p \in Peer PROVE began'[r].height <= height'[p]
  <2>1. began[r].height <= height[p] /\ height[p] \in Nat /\ height'[p] \in Nat /\ height[p] <= height'[p]
    BY <1>4 DEF Route, LogInv, LogStep
  <2> QED BY <1>1, <2>1
<1>5. ASSUME Gathered(r) PROVE Gathered(r)'
  <2>1. \A section : Entries(r, section)' = Entries(r, section)
    BY DEF Entries
  <2>2. ASSUME NEW section \in Range(SectionsOf(r)) \ Range(requested[r]) PROVE Collected(r, section)'
    <3>0. PICK id \in Pseudonym, h \in Nat : id = employeeID[r] /\ h = began[r].height
      BY <1>1, <1>5 DEF Gathered
    <3> DEFINE c == Chain(id, section)
    <3>1. id \in Pseudonym /\ section \in SectionSet
      BY <1>5 DEF Gathered
    <3>2. PICK n \in Seen(h, id, section)..Len(c) :
            Entries(r, section) = {Entry(id, section, v) : v \in 1..n}
      BY <1>5, <3>0 DEF Gathered, Collected
    <3>3. Len(c) \in Nat /\ DOMAIN c = 1..Len(c) /\ Seen(h, id, section) \in 0..Len(c)
      BY <1>1, <3>0, <3>1, ChainFacts, SeenFacts
    <3>4. /\ Len(c) <= Len(Chain(id, section)')
          /\ \A v \in DOMAIN c : Chain(id, section)'[v] = c[v]
          /\ {v \in DOMAIN Chain(id, section)' : Chain(id, section)'[v].block <= h}
                  = {v \in DOMAIN c : c[v].block <= h}
      BY <1>1, <3>0, <3>1, ChainStep
    <3>5. /\ Chain(employeeID[r], section)' = Chain(id, section)'
          /\ employeeID'[r] = id /\ began'[r].height = h
      BY <3>0 DEF Chain
    <3>6. Seen(began[r].height, employeeID[r], section)' = Seen(h, id, section)
      BY <3>4, <3>5 DEF Seen
    <3>7. \A v \in 1..n : Entry(employeeID[r], section, v)' = Entry(id, section, v)
      <4>1. \A v \in 1..n : v \in DOMAIN c
        BY <3>3
      <4> QED BY <4>1, <3>4, <3>5 DEF Entry
    <3>8. Len(Chain(employeeID[r], section))' \in Nat
      <4>1. records'[<<id, section>>] \in Seq(LogRecord)
        BY <3>1 DEF LogInv
      <4> QED BY <3>5, <4>1 DEF Chain
    <3>9. n \in Seen(began[r].height, employeeID[r], section)'..Len(Chain(employeeID[r], section))'
      <4>1. Len(Chain(employeeID[r], section))' >= Len(c)
        BY <3>3, <3>4, <3>5, <3>8
      <4> QED BY <3>3, <3>6, <3>8, <4>1
    <3>10. Entries(r, section)' = {Entry(employeeID[r], section, v)' : v \in 1..n}
      BY <2>1, <3>2, <3>7
    <3> QED BY <3>9, <3>10 DEF Collected
  <2> QED BY <1>5, <2>1, <2>2 DEF Gathered
<1>6. Descending(r) => Descending(r)'
  BY DEF Descending
<1> QED BY <1>2, <1>3, <1>4, <1>5, <1>6 DEF Route

-----------------------------------------------------------------------------
\* A key is drawn, or the one there is kept.
LEMMA KeyStep ==
    ASSUME LogInv, NEW l \in Lookup, GetOrCreateEmployeeKey(l)
    PROVE  /\ KeyOf(l) \in Pseudonym /\ keys' \in [Lookup -> Nat] /\ nextKey' \in Nat \ {0}
           /\ \A k \in Lookup : keys'[k] < nextKey'
           /\ nextKey <= nextKey'
           /\ \A k \in Lookup : keys'[k] \in {NoKey, keys[k]} \/ keys'[k] >= nextKey
<1>1. KeyOf(l) \in Nat /\ keys \in [Lookup -> Nat] /\ nextKey \in Nat \ {0}
      /\ \A k \in Lookup : keys[k] < nextKey
  BY ReadSideFacts DEF LogInv, GetOrCreateEmployeeKey
<1>2. /\ keys' = [keys EXCEPT ![l] = KeyOf(l)]
      /\ nextKey' = IF keys[l] # NoKey THEN nextKey ELSE nextKey + 1
      /\ KeyOf(l) = IF keys[l] # NoKey THEN keys[l] ELSE nextKey
      /\ KeyOf(l) \in Pseudonym
  BY DEF GetOrCreateEmployeeKey, KeyOf
<1>3. keys' \in [Lookup -> Nat] /\ nextKey' \in Nat \ {0} /\ nextKey <= nextKey'
  BY <1>1, <1>2
<1>4. keys'[l] = KeyOf(l) /\ \A k \in Lookup \ {l} : keys'[k] = keys[k]
  BY <1>1, <1>2
<1>5. KeyOf(l) < nextKey' /\ (KeyOf(l) = keys[l] \/ KeyOf(l) >= nextKey)
  BY <1>1, <1>2
<1>6. \A k \in Lookup : keys'[k] < nextKey'
  <2>1. \A k \in Lookup : keys[k] < nextKey'
    BY <1>1, <1>3
  <2> QED BY <1>4, <1>5, <2>1
<1>7. \A k \in Lookup : keys'[k] \in {NoKey, keys[k]} \/ keys'[k] >= nextKey
  BY <1>4, <1>5
<1> QED BY <1>2, <1>3, <1>6, <1>7

\* Nothing is appended.
LEMMA SameRecords ==
    ASSUME LogInv, UNCHANGED <<records, blocks>>
    PROVE  /\ records' \in [Pseudonym \X SectionSet -> Seq(LogRecord)] /\ blocks' \in Nat
           /\ \A ps \in Pseudonym \X SectionSet : \A v \in DOMAIN records'[ps] :
                records'[ps][v].block <= blocks'
           /\ blocks <= blocks'
           /\ \A ps \in Pseudonym \X SectionSet :
                /\ Len(records[ps]) <= Len(records'[ps])
                /\ \A v \in DOMAIN records[ps] : records'[ps][v] = records[ps][v]
                /\ \A v \in DOMAIN records'[ps] \ DOMAIN records[ps] : records'[ps][v].block > blocks
<1>1. \A ps \in Pseudonym \X SectionSet : Len(records[ps]) \in Nat
  <2>1. \A ps \in Pseudonym \X SectionSet : records[ps] \in Seq(LogRecord)
    BY DEF LogInv
  <2> QED BY <2>1
<1> QED BY <1>1 DEF LogInv

\* The steps of the channel and of the stores.
LEMMA LogNextStep ==
    ASSUME LogInv, LogNext
    PROVE  LogInv' /\ LogStep
<1>1. ASSUME NEW l \in Lookup, NEW section \in SectionSet, NEW t \in Timestamp, Anchor(l, section, t)
      PROVE  LogInv' /\ LogStep
  <2> DEFINE K == <<KeyOf(l), section>>
             rec == [timestamp |-> t, block |-> blocks + 1]
  <2>1. /\ GetOrCreateEmployeeKey(l) /\ blocks' = blocks + 1 /\ height' = height
        /\ records' = [records EXCEPT ![K] = Append(records[K], rec)]
    BY <1>1 DEF Anchor
  <2>2. /\ KeyOf(l) \in Pseudonym /\ keys' \in [Lookup -> Nat] /\ nextKey' \in Nat \ {0}
        /\ \A k \in Lookup : keys'[k] < nextKey'
        /\ nextKey <= nextKey'
        /\ \A k \in Lookup : keys'[k] \in {NoKey, keys[k]} \/ keys'[k] >= nextKey
    BY <2>1, KeyStep
  <2>3. K \in Pseudonym \X SectionSet
    BY <2>2
  <2>4. blocks \in Nat /\ blocks' \in Nat /\ rec \in LogRecord /\ rec.block = blocks + 1
    BY <2>1 DEF LogInv, LogRecord
  <2> HIDE DEF K, rec
  <2>5. /\ records \in [Pseudonym \X SectionSet -> Seq(LogRecord)]
        /\ \A ps \in Pseudonym \X SectionSet : \A v \in DOMAIN records[ps] : records[ps][v].block <= blocks
        /\ height \in [Peer -> Nat] /\ \A p \in Peer : height[p] <= blocks
    BY DEF LogInv
  <2>6. records[K] \in Seq(LogRecord)
    BY <2>3, <2>5
  <2>7. /\ Append(records[K], rec) \in Seq(LogRecord)
        /\ Len(Append(records[K], rec)) = Len(records[K]) + 1 /\ Len(records[K]) \in Nat
        /\ DOMAIN Append(records[K], rec) = 1..(Len(records[K]) + 1)
        /\ DOMAIN records[K] = 1..Len(records[K])
        /\ \A v \in DOMAIN records[K] : Append(records[K], rec)[v] = records[K][v]
        /\ Append(records[K], rec)[Len(records[K]) + 1] = rec
    BY <2>4, <2>6
  <2>8. records' \in [Pseudonym \X SectionSet -> Seq(LogRecord)]
    BY <2>1, <2>5, <2>7
  <2>9. records'[K] = Append(records[K], rec)
        /\ \A ps \in (Pseudonym \X SectionSet) \ {K} : records'[ps] = records[ps]
    BY <2>1, <2>3, <2>5
  <2>10. \A ps \in Pseudonym \X SectionSet : \A v \in DOMAIN records[ps] :
           records[ps][v].block \in Nat
    <3>1. \A ps \in Pseudonym \X SectionSet : records[ps] \in Seq(LogRecord)
      BY <2>5
    <3>2. \A ps \in Pseudonym \X SectionSet : \A v \in DOMAIN records[ps] : records[ps][v] \in LogRecord
      BY <3>1
    <3> QED BY <3>2 DEF LogRecord
  <2>11. ASSUME NEW ps \in Pseudonym \X SectionSet
         PROVE  /\ Len(records[ps]) <= Len(records'[ps])
                /\ \A v \in DOMAIN records[ps] : records'[ps][v] = records[ps][v]
                /\ \A v \in DOMAIN records'[ps] \ DOMAIN records[ps] : records'[ps][v].block > blocks
                /\ \A v \in DOMAIN records'[ps] : records'[ps][v].block <= blocks'
    <3>1. CASE ps = K
      <4>1. \A v \in DOMAIN records'[K] \ DOMAIN records[K] : records'[K][v] = rec
        BY <2>7, <2>9
      <4>2. \A v \in DOMAIN records[K] : records'[K][v].block <= blocks'
        BY <2>1, <2>3, <2>4, <2>5, <2>7, <2>9, <2>10
      <4>3. rec.block > blocks /\ rec.block <= blocks'
        BY <2>1, <2>4
      <4>4. Len(records[K]) <= Len(records'[K]) /\ \A v \in DOMAIN records[K] : records'[K][v] = records[K][v]
        BY <2>7, <2>9
      <4> QED BY <3>1, <4>1, <4>2, <4>3, <4>4
    <3>2. CASE ps # K
      <4>1. records'[ps] = records[ps]
        BY <3>2, <2>9
      <4>2. Len(records[ps]) \in Nat
        <5>1. records[ps] \in Seq(LogRecord)
          BY <2>5
        <5> QED BY <5>1
      <4>3. \A v \in DOMAIN records[ps] : records[ps][v].block <= blocks'
        BY <2>1, <2>4, <2>5, <2>10
      <4> QED BY <4>1, <4>2, <4>3
    <3> QED BY <3>1, <3>2
  <2>12. \A p \in Peer : height'[p] <= blocks' /\ height[p] <= height'[p]
    BY <2>1, <2>4, <2>5
  <2>13. LogInv'
    BY <2>1, <2>2, <2>4, <2>5, <2>8, <2>11, <2>12 DEF LogInv
  <2>14. blocks <= blocks'
    BY <2>1, <2>4
  <2> QED BY <2>2, <2>11, <2>12, <2>13, <2>14 DEF LogStep
<1>2. ASSUME NEW p \in Peer, CatchUp(p) PROVE LogInv' /\ LogStep
  <2>1. UNCHANGED <<records, blocks, keys, nextKey>> /\ height[p] < blocks
        /\ height' = [height EXCEPT ![p] = height[p] + 1]
    BY <1>2 DEF CatchUp
  <2>2. height \in [Peer -> Nat] /\ blocks \in Nat /\ \A q \in Peer : height[q] <= blocks
    BY DEF LogInv
  <2>3. height' \in [Peer -> Nat] /\ \A q \in Peer : height'[q] <= blocks' /\ height[q] <= height'[q]
    BY <2>1, <2>2
  <2>4. keys' \in [Lookup -> Nat] /\ nextKey' \in Nat \ {0} /\ (\A l \in Lookup : keys'[l] < nextKey')
        /\ nextKey <= nextKey' /\ \A l \in Lookup : keys'[l] = keys[l]
    BY <2>1 DEF LogInv
  <2> QED BY <2>1, <2>3, <2>4, SameRecords DEF LogInv, LogStep
<1>3. ASSUME NEW l \in Lookup, Erase(l) PROVE LogInv' /\ LogStep
  <2>1. UNCHANGED <<records, blocks, height, nextKey>> /\ keys' = [keys EXCEPT ![l] = NoKey]
    BY <1>3 DEF Erase
  <2>2. /\ keys' \in [Lookup -> Nat] /\ nextKey' \in Nat \ {0}
        /\ \A k \in Lookup : keys'[k] < nextKey' /\ keys'[k] \in {NoKey, keys[k]}
    BY <2>1, ReadSideFacts DEF LogInv
  <2>3. /\ nextKey <= nextKey' /\ height' \in [Peer -> Nat]
        /\ \A p \in Peer : height'[p] <= blocks' /\ height[p] <= height'[p]
    BY <2>1 DEF LogInv
  <2> QED BY <2>1, <2>2, <2>3, SameRecords DEF LogInv, LogStep
<1> QED BY <1>1, <1>2, <1>3 DEF LogNext

\* A step that leaves the ledger and the keys alone.
LEMMA LogSame ==
    ASSUME LogInv, UNCHANGED logVars
    PROVE  LogInv' /\ LogStep
<1>1. UNCHANGED <<records, blocks, height, keys, nextKey>>
  BY DEF logVars
<1>2. /\ nextKey <= nextKey' /\ height' \in [Peer -> Nat] /\ keys' \in [Lookup -> Nat]
      /\ nextKey' \in Nat \ {0} /\ (\A k \in Lookup : keys'[k] < nextKey' /\ keys'[k] = keys[k])
      /\ \A p \in Peer : height'[p] <= blocks' /\ height[p] <= height'[p]
  BY <1>1 DEF LogInv
<1> QED BY <1>1, <1>2, SameRecords DEF LogInv, LogStep

-----------------------------------------------------------------------------
\* A list of one.
LEMMA OneElement ==
    ASSUME NEW S, NEW x \in S
    PROVE  <<x>> \in Seq(S) /\ IsInjective(<<x>>) /\ Range(<<x>>) \subseteq S
<1>1. <<x>> \in Seq(S) /\ DOMAIN <<x>> = {1} /\ <<x>>[1] = x
  OBVIOUS
<1> QED BY <1>1 DEF Range, IsInjective

(***************************************************************************)
(* A request that passes asks for sections of the enum, each once.         *)
(***************************************************************************)
LEMMA SectionsFacts ==
    ASSUME NEW r \in HistoryRequest, Verdict(r) = ""
    PROVE  /\ SectionsOf(r) \in Seq(SectionSet) /\ IsInjective(SectionsOf(r))
           /\ Range(SectionsOf(r)) \subseteq SectionSet
           /\ LookupOf(r) \in Lookup
<1> DEFINE section == TrimSpace[Query[r].profileSection]
<1>1. LookupOf(r) \in Lookup
  BY QueryAssumption
<1>2. SectionsOf(r) = IF section = "" THEN Section ELSE <<section>>
  BY DEF SectionsOf
<1>3. section = "" \/ section \in SectionSet
  <2> DEFINE blank == TrimSpace[Query[r].employeeInternalID] = ""
             unknown == section # "" /\ ~isKnownProfileSection(section)
  <2>1. Verdict(r) = IF ~Query[r].credentials THEN "error"
                     ELSE IF blank \/ unknown THEN "rejected" ELSE ""
    BY DEF Verdict
  <2> HIDE DEF blank, unknown
  <2>2. ~unknown
    BY <2>1
  <2> QED BY <2>2 DEF unknown, isKnownProfileSection
<1> HIDE DEF section
<1>4. CASE section = ""
  BY <1>1, <1>2, <1>4, ReadSideFacts
<1>5. CASE section # ""
  <2>1. section \in SectionSet
    BY <1>3, <1>5
  <2> QED BY <1>1, <1>2, <1>5, <2>1, OneElement
<1> QED BY <1>4, <1>5

\* Two lists with nothing in common, one behind the other.
LEMMA ConcatFacts ==
    ASSUME NEW S, NEW a \in Seq(S), NEW b \in Seq(S)
    PROVE  /\ a \o b \in Seq(S)
           /\ Range(a \o b) = Range(a) \union Range(b)
           /\ IsInjective(a) /\ IsInjective(b) /\ Range(a) \cap Range(b) = {} => IsInjective(a \o b)
<1> DEFINE c == a \o b
           m == Len(a)
           n == Len(b)
<1>1. /\ c \in Seq(S) /\ m \in Nat /\ n \in Nat
      /\ DOMAIN a = 1..m /\ DOMAIN b = 1..n /\ DOMAIN c = 1..(m + n)
      /\ \A i \in 1..m : c[i] = a[i]
      /\ \A i \in (m + 1)..(m + n) : c[i] = b[i - m]
  OBVIOUS
<1> HIDE DEF c, m, n
<1>2. \A i \in 1..n : c[m + i] = b[i] /\ m + i \in 1..(m + n)
  <2>1. \A i \in 1..n : m + i \in (m + 1)..(m + n) /\ (m + i) - m = i
    BY <1>1
  <2> QED BY <1>1, <2>1
<1>3. \A i \in 1..(m + n) : i \in 1..m \/ (i \in (m + 1)..(m + n) /\ i - m \in 1..n)
  BY <1>1
<1>4. Range(c) = Range(a) \union Range(b)
  <2>1. /\ Range(c) = {c[i] : i \in 1..(m + n)} /\ Range(a) = {a[i] : i \in 1..m}
        /\ Range(b) = {b[i] : i \in 1..n}
    BY <1>1 DEF Range
  <2>2. ASSUME NEW i \in 1..(m + n) PROVE c[i] \in Range(a) \union Range(b)
    <3>1. CASE i \in 1..m
      BY <1>1, <2>1, <3>1
    <3>2. CASE i \in (m + 1)..(m + n) /\ i - m \in 1..n
      <4>1. c[i] = b[i - m]
        BY <1>1, <3>2
      <4> QED BY <2>1, <3>2, <4>1
    <3> QED BY <1>3, <3>1, <3>2
  <2>3. \A i \in 1..m : a[i] \in Range(c)
    <3>1. \A i \in 1..m : i \in 1..(m + n)
      BY <1>1
    <3> QED BY <1>1, <2>1, <3>1
  <2>4. \A i \in 1..n : b[i] \in Range(c)
    BY <1>2, <2>1
  <2> QED BY <2>1, <2>2, <2>3, <2>4
<1>5. ASSUME IsInjective(a), IsInjective(b), Range(a) \cap Range(b) = {} PROVE IsInjective(c)
  <2>1. /\ \A i, j \in 1..m : a[i] = a[j] => i = j
        /\ \A i, j \in 1..n : b[i] = b[j] => i = j
        /\ \A i \in 1..m, j \in 1..n : a[i] # b[j]
    <3>1. (\A i \in 1..m : a[i] \in Range(a)) /\ (\A i \in 1..n : b[i] \in Range(b))
      BY <1>1 DEF Range
    <3>2. \A i, j \in 1..m : a[i] = a[j] => i = j
      BY <1>1, <1>5 DEF IsInjective
    <3>3. \A i, j \in 1..n : b[i] = b[j] => i = j
      BY <1>1, <1>5 DEF IsInjective
    <3> QED BY <1>5, <3>1, <3>2, <3>3
  <2>2. ASSUME NEW i \in 1..(m + n), NEW j \in 1..(m + n), c[i] = c[j] PROVE i = j
    <3>1. CASE i \in 1..m /\ j \in 1..m
      BY <1>1, <2>1, <2>2, <3>1
    <3>2. CASE i \in (m + 1)..(m + n) /\ j \in (m + 1)..(m + n)
      <4>1. i - m \in 1..n /\ j - m \in 1..n /\ b[i - m] = b[j - m]
        BY <1>1, <2>2, <3>2
      <4>2. i - m = j - m
        BY <2>1, <4>1
      <4> QED BY <1>1, <4>2
    <3>3. CASE i \in 1..m /\ j \in (m + 1)..(m + n)
      <4>1. j - m \in 1..n /\ a[i] = b[j - m]
        BY <1>1, <2>2, <3>3
      <4> QED BY <2>1, <3>3, <4>1
    <3>4. CASE j \in 1..m /\ i \in (m + 1)..(m + n)
      <4>1. i - m \in 1..n /\ a[j] = b[i - m]
        BY <1>1, <2>2, <3>4
      <4> QED BY <2>1, <3>4, <4>1
    <3> QED BY <1>3, <3>1, <3>2, <3>3, <3>4
  <2>3. \A i, j \in 1..(m + n) : c[i] = c[j] => i = j
    BY <2>2
  <2> QED BY <1>1, <2>3 DEF IsInjective
<1> QED BY <1>1, <1>4, <1>5 DEF c

\* A list without repetitions, its head taken off.
LEMMA TailFacts ==
    ASSUME NEW S, NEW q \in Seq(S), q # <<>>, IsInjective(q)
    PROVE  /\ Head(q) \in Range(q) /\ Tail(q) \in Seq(S) /\ IsInjective(Tail(q))
           /\ Range(Tail(q)) = Range(q) \ {Head(q)}
<1> DEFINE t == Tail(q)
           n == Len(q)
<1>1. /\ n \in Nat \ {0} /\ DOMAIN q = 1..n /\ Head(q) = q[1]
      /\ t \in Seq(S) /\ DOMAIN t = 1..(n - 1) /\ \A i \in 1..(n - 1) : t[i] = q[i + 1]
  OBVIOUS
<1>2. \A i, j \in 1..n : q[i] = q[j] => i = j
  BY <1>1 DEF IsInjective
<1> HIDE DEF t, n
<1>3. /\ Range(q) = {q[i] : i \in 1..n} /\ Range(t) = {t[i] : i \in 1..(n - 1)}
  BY <1>1 DEF Range
<1>4. \A i \in 1..(n - 1) : i + 1 \in 1..n /\ t[i] = q[i + 1] /\ t[i] # q[1]
  <2>1. \A i \in 1..(n - 1) : i + 1 \in 1..n /\ i + 1 # 1 /\ 1 \in 1..n
    BY <1>1
  <2> QED BY <1>1, <1>2, <2>1
<1>5. \A i \in 1..n : i # 1 => i - 1 \in 1..(n - 1) /\ t[i - 1] = q[i]
  <2>1. \A i \in 1..n : i # 1 => i - 1 \in 1..(n - 1) /\ (i - 1) + 1 = i
    BY <1>1
  <2> QED BY <1>1, <2>1
<1>6. Range(t) = Range(q) \ {q[1]}
  BY <1>3, <1>4, <1>5
<1>7. IsInjective(t)
  <2>1. ASSUME NEW i \in 1..(n - 1), NEW j \in 1..(n - 1), t[i] = t[j] PROVE i = j
    <3>1. i + 1 = j + 1
      BY <1>2, <1>4, <2>1
    <3> QED BY <1>1, <3>1
  <2> QED BY <1>1, <2>1 DEF IsInjective
<1>8. q[1] \in Range(q)
  BY <1>1, <1>3
<1> QED BY <1>1, <1>6, <1>7, <1>8 DEF t

-----------------------------------------------------------------------------
\* A request that steps does not touch the others.
OthersRest(r) ==
    \A q \in HistoryRequest \ {r} :
        /\ hpc'[q] = hpc[q] /\ requested'[q] = requested[q] /\ employeeID'[q] = employeeID[q]
        /\ history'[q] = history[q] /\ status'[q] = status[q] /\ began'[q] = began[q]

\* It is enough to look at the request that steps.
LEMMA OneRequest ==
    ASSUME HistoryInv, NEW r \in HistoryRequest, LogInv', LogStep, RouteTypeOK', Route(r)', OthersRest(r)
    PROVE  HistoryInv'
<1>1. ASSUME NEW q \in HistoryRequest \ {r} PROVE Route(q)'
  BY <1>1, RouteFrame DEF HistoryInv, RouteInv, OthersRest
<1> QED BY <1>1 DEF HistoryInv, RouteInv

(***************************************************************************)
(* An answer other than "ok" carries no entries.                           *)
(***************************************************************************)
LEMMA RefusedRoute ==
    ASSUME HistoryInv, NEW r \in HistoryRequest, NEW answer \in {"rejected", "error"},
           respondHistory(r, answer, <<>>), UNCHANGED <<logVars, requested, employeeID, began>>
    PROVE  HistoryInv'
<1>1. /\ hpc' = [hpc EXCEPT ![r] = "done"] /\ status' = [status EXCEPT ![r] = answer]
      /\ history' = [history EXCEPT ![r] = <<>>] /\ UNCHANGED <<requested, employeeID, began>>
  BY DEF respondHistory
<1>2. LogInv' /\ LogStep
  BY LogSame DEF HistoryInv
<1>3. RouteTypeOK'
  <2>1. <<>> \in Seq(HistoryEntry)
    OBVIOUS
  <2>2. history' \in [HistoryRequest -> Seq(HistoryEntry)]
    BY <1>1, <2>1 DEF HistoryInv, RouteTypeOK
  <2>3. hpc' \in [HistoryRequest -> {"idle", "resolve", "query", "done"}]
        /\ status' \in [HistoryRequest -> {"none", "ok", "rejected", "error"}]
    BY <1>1 DEF HistoryInv, RouteTypeOK
  <2> QED BY <1>1, <2>2, <2>3 DEF HistoryInv, RouteTypeOK
<1>4. OthersRest(r) /\ hpc'[r] = "done" /\ status'[r] = answer /\ history'[r] = <<>>
  BY <1>1 DEF HistoryInv, RouteTypeOK, OthersRest
<1>5. began'[r].height <= blocks'
  <2>1. began[r] \in [height : Nat, key : Nat] /\ began[r].height <= blocks
    BY DEF HistoryInv, RouteTypeOK, RouteInv, Route
  <2> QED BY <1>1, <2>1 DEF logVars
<1>6. Route(r)'
  BY <1>4, <1>5 DEF Route
<1> QED BY <1>2, <1>3, <1>4, <1>6, OneRequest

\* A request arrives; what passes begins with nothing collected.
LEMMA ReceiveRoute ==
    ASSUME HistoryInv, NEW r \in HistoryRequest, Receive(r)
    PROVE  HistoryInv'
<1>0. hpc[r] = "idle" /\ UNCHANGED logVars /\ UNCHANGED employeeID
  BY DEF Receive
<1>1. CASE Verdict(r) # ""
  <2>1. Verdict(r) \in {"error", "rejected", ""}
    BY DEF Verdict
  <2>2. respondHistory(r, Verdict(r), <<>>) /\ UNCHANGED <<requested, began>>
    BY <1>1 DEF Receive
  <2> QED BY <1>0, <1>1, <2>1, <2>2, RefusedRoute
<1>2. CASE Verdict(r) = ""
  <2> DEFINE start == [height |-> Min(Range(height)), key |-> keys[LookupOf(r)]]
  <2>1. /\ hpc' = [hpc EXCEPT ![r] = "resolve"]
        /\ requested' = [requested EXCEPT ![r] = SectionsOf(r)]
        /\ began' = [began EXCEPT ![r] = start] /\ UNCHANGED <<status, history>>
    BY <1>2 DEF Receive
  <2>2. /\ SectionsOf(r) \in Seq(SectionSet) /\ IsInjective(SectionsOf(r))
        /\ Range(SectionsOf(r)) \subseteq SectionSet /\ LookupOf(r) \in Lookup
    BY <1>2, SectionsFacts
  <2>3. /\ Min(Range(height)) \in Nat /\ \A p \in Peer : Min(Range(height)) <= height[p]
        /\ keys[LookupOf(r)] \in Nat /\ keys[LookupOf(r)] < nextKey
    BY <2>2, LeastHeight DEF HistoryInv, LogInv
  <2>4. /\ start \in [height : Nat, key : Nat] /\ start.height = Min(Range(height))
        /\ start.key = keys[LookupOf(r)]
    BY <2>3
  <2> HIDE DEF start
  <2>5. Min(Range(height)) <= blocks
    <3>1. PICK p \in Peer : TRUE
      BY ReadSideFacts
    <3>2. height[p] \in Nat /\ blocks \in Nat /\ height[p] <= blocks
      BY DEF HistoryInv, LogInv
    <3> QED BY <2>3, <3>2
  <2>6. RouteTypeOK'
    BY <1>0, <2>1, <2>2, <2>4 DEF HistoryInv, RouteTypeOK
  <2>7. /\ OthersRest(r) /\ hpc'[r] = "resolve" /\ requested'[r] = SectionsOf(r) /\ began'[r] = start
        /\ status'[r] = status[r] /\ history'[r] = history[r]
    BY <1>0, <2>1 DEF HistoryInv, RouteTypeOK, OthersRest
  <2>8. status[r] = "none" /\ history[r] = <<>>
    BY <1>0 DEF HistoryInv, RouteInv, Route
  <2>9. UNCHANGED <<blocks, height, keys, nextKey>>
    BY <1>0 DEF logVars
  <2>10. Route(r)'
    <3>1. began'[r].height <= blocks' /\ \A p \in Peer : began'[r].height <= height'[p]
      BY <2>3, <2>4, <2>5, <2>7, <2>9
    <3>2. began'[r].key < nextKey' /\ keys'[LookupOf(r)] >= began'[r].key
      BY <2>3, <2>4, <2>7, <2>9
    <3> QED BY <2>2, <2>7, <2>8, <3>1, <3>2 DEF Route
  <2>11. LogInv' /\ LogStep
    BY <1>0, LogSame DEF HistoryInv
  <2> QED BY <2>6, <2>7, <2>10, <2>11, OneRequest
<1> QED BY <1>1, <1>2

\* The pseudonym is resolved: the one of the beginning, or a later one.
LEMMA ResolveRoute ==
    ASSUME HistoryInv, NEW r \in HistoryRequest, ResolveEmployeeID(r)
    PROVE  HistoryInv'
<1>1. /\ hpc[r] = "resolve" /\ GetOrCreateEmployeeKey(LookupOf(r))
      /\ employeeID' = [employeeID EXCEPT ![r] = KeyOf(LookupOf(r))]
      /\ hpc' = [hpc EXCEPT ![r] = "query"]
      /\ UNCHANGED <<records, blocks, height, requested, history, status, began>>
  BY DEF ResolveEmployeeID
<1>2. /\ LookupOf(r) \in Lookup /\ history[r] = <<>> /\ requested[r] = SectionsOf(r)
      /\ Range(SectionsOf(r)) \subseteq SectionSet /\ IsInjective(SectionsOf(r))
      /\ began[r].key < nextKey /\ status[r] = "none" /\ began[r].height <= blocks
      /\ keys[LookupOf(r)] = NoKey \/ keys[LookupOf(r)] >= began[r].key
      /\ \A p \in Peer : began[r].height <= height[p]
  BY <1>1 DEF HistoryInv, RouteInv, Route
<1>3. /\ KeyOf(LookupOf(r)) \in Pseudonym /\ keys' \in [Lookup -> Nat] /\ nextKey' \in Nat \ {0}
      /\ \A k \in Lookup : keys'[k] < nextKey'
      /\ nextKey <= nextKey'
      /\ \A k \in Lookup : keys'[k] \in {NoKey, keys[k]} \/ keys'[k] >= nextKey
  BY <1>1, <1>2, KeyStep DEF HistoryInv
<1>4. LogInv' /\ LogStep
  <2>1. height' \in [Peer -> Nat] /\ \A p \in Peer : height'[p] <= blocks' /\ height[p] <= height'[p]
    BY <1>1 DEF HistoryInv, LogInv
  <2> QED BY <1>1, <1>3, <2>1, SameRecords DEF HistoryInv, LogInv, LogStep
<1>5. RouteTypeOK'
  BY <1>1, <1>3, ReadSideFacts DEF HistoryInv, RouteTypeOK
<1>6. /\ OthersRest(r) /\ hpc'[r] = "query" /\ employeeID'[r] = KeyOf(LookupOf(r))
  BY <1>1 DEF HistoryInv, RouteTypeOK, OthersRest
<1>7. KeyOf(LookupOf(r)) >= began[r].key
  <2>1. began[r] \in [height : Nat, key : Nat] /\ keys[LookupOf(r)] \in Nat /\ nextKey \in Nat
    BY <1>2 DEF HistoryInv, RouteTypeOK, LogInv
  <2> QED BY <1>2, <2>1 DEF KeyOf
<1>8. Range(<<>>) = {} /\ IsInjective(<<>>)
  BY DEF Range, IsInjective
<1>9. Gathered(r)'
  <2>1. history'[r] = <<>> /\ requested'[r] = SectionsOf(r) /\ began'[r] = began[r]
    BY <1>1, <1>2
  <2>2. \A section : Entries(r, section)' = {}
    BY <1>8, <2>1 DEF Entries
  <2> QED BY <1>2, <1>3, <1>6, <1>7, <1>8, <2>1, <2>2 DEF Gathered
<1>10. Route(r)'
  BY <1>1, <1>2, <1>6, <1>9 DEF Route
<1> QED BY <1>4, <1>5, <1>6, <1>10, OneRequest

\* A dependency fails.
LEMMA FailsRoute ==
    ASSUME HistoryInv, NEW r \in HistoryRequest, DependencyFails(r)
    PROVE  HistoryInv'
  BY RefusedRoute DEF DependencyFails

\* The sections are merged and sorted.
LEMMA MergeRoute ==
    ASSUME HistoryInv, NEW r \in HistoryRequest, Merge(r)
    PROVE  HistoryInv'
<1> DEFINE sorted == SortByTimestamp(history[r])
<1>1. /\ hpc[r] = "query" /\ requested[r] = <<>>
      /\ hpc' = [hpc EXCEPT ![r] = "done"] /\ status' = [status EXCEPT ![r] = "ok"]
      /\ history' = [history EXCEPT ![r] = sorted]
      /\ UNCHANGED logVars /\ UNCHANGED <<requested, employeeID, began>>
  BY DEF Merge, respondHistory
<1>2. history[r] \in Seq(HistoryEntry) /\ Gathered(r) /\ began[r].height <= blocks
  BY <1>1 DEF HistoryInv, RouteTypeOK, RouteInv, Route
<1>3. /\ sorted \in Seq(HistoryEntry) /\ Range(sorted) = Range(history[r])
      /\ IsInjective(sorted)
      /\ \A i, j \in DOMAIN sorted : i < j => sorted[i].timestamp >= sorted[j].timestamp
  BY <1>2, SortFacts DEF Gathered
<1> HIDE DEF sorted
<1>4. RouteTypeOK'
  BY <1>1, <1>3 DEF HistoryInv, RouteTypeOK
<1>5. OthersRest(r) /\ hpc'[r] = "done" /\ status'[r] = "ok" /\ history'[r] = sorted
  BY <1>1 DEF HistoryInv, RouteTypeOK, OthersRest
<1>6. UNCHANGED <<records, blocks, height>>
  BY <1>1 DEF logVars
<1>7. Gathered(r)'
  <2>1. \A section : Entries(r, section)' = Entries(r, section)
    BY <1>3, <1>5 DEF Entries
  <2>2. ASSUME NEW section, Collected(r, section) PROVE Collected(r, section)'
    <3>1. Seen(began[r].height, employeeID[r], section)' = Seen(began[r].height, employeeID[r], section)
      BY <1>1, <1>6 DEF Seen, Chain
    <3>2. Chain(employeeID[r], section)' = Chain(employeeID[r], section)
      BY <1>1, <1>6 DEF Chain
    <3>3. \A v : Entry(employeeID[r], section, v)' = Entry(employeeID[r], section, v)
      BY <3>2 DEF Entry
    <3> QED BY <2>1, <2>2, <3>1, <3>2, <3>3 DEF Collected
  <2> QED BY <1>1, <1>2, <1>3, <1>5, <2>1, <2>2 DEF Gathered
<1>8. Descending(r)'
  BY <1>3, <1>5 DEF Descending
<1>9. Route(r)'
  BY <1>1, <1>2, <1>5, <1>6, <1>7, <1>8 DEF Route
<1>10. LogInv' /\ LogStep
  BY <1>1, LogSame DEF HistoryInv
<1> QED BY <1>4, <1>5, <1>9, <1>10, OneRequest

-----------------------------------------------------------------------------
\* What one query returns: versions 1..n of the section, each once.
LEMMA ChunkFacts ==
    ASSUME LogInv, NEW id \in Pseudonym, NEW section \in SectionSet, NEW p \in Peer
    PROVE  /\ Chunk(p, id, section) \in Seq(HistoryEntry)
           /\ Range(Chunk(p, id, section))
                = {Entry(id, section, v) : v \in 1..Seen(height[p], id, section)}
           /\ IsInjective(Chunk(p, id, section))
           /\ \A e \in Range(Chunk(p, id, section)) : e.profileSection = section
<1> DEFINE n == Seen(height[p], id, section)
           c == Chunk(p, id, section)
<1>1. n \in 0..Len(Chain(id, section)) /\ Len(Chain(id, section)) \in Nat
      /\ DOMAIN Chain(id, section) = 1..Len(Chain(id, section))
      /\ \A v \in DOMAIN Chain(id, section) : Chain(id, section)[v].timestamp \in Timestamp
  <2>1. height[p] \in Nat
    BY DEF LogInv
  <2> QED BY <2>1, ChainFacts, SeenFacts
<1>2. DOMAIN c = 1..n /\ (\A v \in 1..n : c[v] = Entry(id, section, v)) /\ c = [v \in 1..n |-> Entry(id, section, v)]
  BY DEF Chunk
<1> HIDE DEF n, c
<1>3. \A v \in 1..n : /\ Entry(id, section, v) \in HistoryEntry
                      /\ Entry(id, section, v).version = v
                      /\ Entry(id, section, v).profileSection = section
  <2>1. \A v \in 1..n : v \in Nat /\ Chain(id, section)[v].timestamp \in Timestamp
    BY <1>1
  <2> QED BY <2>1 DEF Entry, HistoryEntry
<1>4. c \in Seq(HistoryEntry)
  BY <1>1, <1>2, <1>3
<1>5. IsInjective(c)
  BY <1>2, <1>3 DEF IsInjective
<1>6. Range(c) = {Entry(id, section, v) : v \in 1..n}
  BY <1>2 DEF Range
<1>7. \A e \in Range(c) : e.profileSection = section
  BY <1>3, <1>6
<1> QED BY <1>4, <1>5, <1>6, <1>7 DEF c, n

\* One section more, as some peer has it.
LEMMA QueryRoute ==
    ASSUME HistoryInv, NEW r \in HistoryRequest, NEW p \in Peer, EvaluateGetProfileHistory(r, p)
    PROVE  HistoryInv'
<1>0. PICK s, id : s = Head(requested[r]) /\ id = employeeID[r]
  OBVIOUS
<1> DEFINE H == history[r]
           C == Chunk(p, id, s)
<1>1. /\ hpc[r] = "query" /\ requested[r] # <<>>
      /\ history' = [history EXCEPT ![r] = H \o C]
      /\ requested' = [requested EXCEPT ![r] = Tail(requested[r])]
      /\ UNCHANGED logVars /\ UNCHANGED <<hpc, employeeID, status, began>>
  BY <1>0 DEF EvaluateGetProfileHistory
<1>2. /\ Gathered(r) /\ began[r].height <= height[p] /\ status[r] = "none"
      /\ began[r].height <= blocks /\ \A q \in Peer : began[r].height <= height[q]
  BY <1>1 DEF HistoryInv, RouteInv, Route
<1>3. /\ requested[r] \in Seq(SectionSet) /\ H \in Seq(HistoryEntry)
      /\ began[r].height \in Nat /\ height[p] \in Nat
  <2>1. began[r] \in [height : Nat, key : Nat]
    BY DEF HistoryInv, RouteTypeOK
  <2> QED BY <2>1 DEF HistoryInv, RouteTypeOK, LogInv
<1>4. /\ s \in Range(requested[r]) /\ Tail(requested[r]) \in Seq(SectionSet)
      /\ IsInjective(Tail(requested[r]))
      /\ Range(Tail(requested[r])) = Range(requested[r]) \ {s}
  BY <1>0, <1>1, <1>2, <1>3, TailFacts DEF Gathered
<1>5. s \in SectionSet /\ s \in Range(SectionsOf(r)) /\ id \in Pseudonym /\ Entries(r, s) = {}
  BY <1>0, <1>2, <1>4 DEF Gathered
<1>6. /\ C \in Seq(HistoryEntry) /\ IsInjective(C)
      /\ Range(C) = {Entry(id, s, v) : v \in 1..Seen(height[p], id, s)}
      /\ \A e \in Range(C) : e.profileSection = s
  BY <1>5, ChunkFacts DEF HistoryInv
<1>7. Seen(height[p], id, s) \in Seen(began[r].height, id, s)..Len(Chain(id, s))
  <2>1. /\ Seen(height[p], id, s) \in 0..Len(Chain(id, s)) /\ Len(Chain(id, s)) \in Nat
        /\ Seen(began[r].height, id, s) <= Seen(height[p], id, s)
        /\ Seen(began[r].height, id, s) \in 0..Len(Chain(id, s))
    BY <1>2, <1>3, <1>5, ChainFacts, SeenFacts DEF HistoryInv
  <2> QED BY <2>1
<1> HIDE DEF H, C
<1>8. \A e \in Range(H) : e.profileSection # s
  BY <1>5 DEF Entries, H
<1>9. /\ H \o C \in Seq(HistoryEntry) /\ Range(H \o C) = Range(H) \union Range(C)
      /\ IsInjective(H \o C)
  <2>1. Range(H) \cap Range(C) = {} /\ IsInjective(H)
    BY <1>2, <1>6, <1>8 DEF Gathered, H
  <2> QED BY <1>3, <1>6, <2>1, ConcatFacts
<1>10. RouteTypeOK'
  BY <1>1, <1>4, <1>9 DEF HistoryInv, RouteTypeOK
<1>11. OthersRest(r) /\ history'[r] = H \o C /\ requested'[r] = Tail(requested[r])
  BY <1>1 DEF HistoryInv, RouteTypeOK, OthersRest
<1>12. UNCHANGED <<records, blocks, height>>
  BY <1>1 DEF logVars
<1>13. Entries(r, s)' = Range(C) /\ \A section : section # s => Entries(r, section)' = Entries(r, section)
  <2>1. \A section : Entries(r, section)' = {e \in Range(H) \union Range(C) : e.profileSection = section}
    BY <1>9, <1>11 DEF Entries
  <2>2. \A section : Entries(r, section) = {e \in Range(H) : e.profileSection = section}
    BY DEF Entries, H
  <2>3. Entries(r, s)' = Range(C)
    BY <1>6, <1>8, <2>1
  <2>4. ASSUME NEW section, section # s PROVE Entries(r, section)' = Entries(r, section)
    BY <1>6, <2>1, <2>2, <2>4
  <2> QED BY <2>3, <2>4
<1>14. ASSUME NEW section
       PROVE  /\ Seen(began[r].height, employeeID[r], section)' = Seen(began[r].height, employeeID[r], section)
              /\ Chain(employeeID[r], section)' = Chain(employeeID[r], section)
              /\ \A v : Entry(employeeID[r], section, v)' = Entry(employeeID[r], section, v)
  <2>1. Seen(began[r].height, employeeID[r], section)' = Seen(began[r].height, employeeID[r], section)
    BY <1>1, <1>12 DEF Seen, Chain
  <2>2. Chain(employeeID[r], section)' = Chain(employeeID[r], section)
    BY <1>1, <1>12 DEF Chain
  <2>3. \A v : Entry(employeeID[r], section, v)' = Entry(employeeID[r], section, v)
    BY <2>2 DEF Entry
  <2> QED BY <2>1, <2>2, <2>3
<1>15. Collected(r, s)'
  <2>1. Entries(r, s)' = {Entry(employeeID[r], s, v) : v \in 1..Seen(height[p], id, s)}
    BY <1>0, <1>6, <1>13
  <2>2. Entries(r, s)' = {Entry(employeeID[r], s, v)' : v \in 1..Seen(height[p], id, s)}
    BY <1>14, <2>1
  <2>3. Seen(height[p], id, s) \in
          Seen(began[r].height, employeeID[r], s)'..Len(Chain(employeeID[r], s)')
    BY <1>0, <1>7, <1>14
  <2> QED BY <2>2, <2>3 DEF Collected
<1>16. ASSUME NEW section \in Range(SectionsOf(r)) \ Range(requested[r]) PROVE Collected(r, section)'
  <2>1. Collected(r, section) /\ section # s
    BY <1>2, <1>4 DEF Gathered
  <2> QED BY <1>13, <1>14, <2>1 DEF Collected
<1>17. Gathered(r)'
  <2>1. /\ employeeID'[r] = employeeID[r] /\ began'[r] = began[r]
        /\ Range(requested'[r]) = Range(requested[r]) \ {s} /\ IsInjective(requested'[r])
    BY <1>1, <1>4, <1>11
  <2>2. \A section \in Range(requested'[r]) : Entries(r, section)' = {}
    BY <1>2, <1>13, <2>1 DEF Gathered
  <2>3. \A section \in Range(SectionsOf(r)) \ Range(requested'[r]) : Collected(r, section)'
    BY <1>15, <1>16, <2>1
  <2>4. \A e \in Range(history'[r]) : e.profileSection \in Range(SectionsOf(r))
    BY <1>2, <1>5, <1>6, <1>9, <1>11 DEF Gathered, H
  <2>5. IsInjective(history'[r])
    BY <1>9, <1>11
  <2>6. Range(requested'[r]) \subseteq Range(SectionsOf(r))
    BY <1>2, <2>1 DEF Gathered
  <2> QED BY <1>2, <2>1, <2>2, <2>3, <2>4, <2>5, <2>6 DEF Gathered
<1>18. Route(r)'
  BY <1>1, <1>2, <1>12, <1>17 DEF Route
<1>19. LogInv' /\ LogStep
  BY <1>1, LogSame DEF HistoryInv
<1> QED BY <1>10, <1>11, <1>18, <1>19, OneRequest

-----------------------------------------------------------------------------
\* Before the first write and the first request.
LEMMA InitHistoryInv == Init => HistoryInv
<1> SUFFICES ASSUME Init PROVE HistoryInv
  OBVIOUS
<1>1. /\ records = [ps \in Pseudonym \X SectionSet |-> <<>>] /\ blocks = 0
      /\ height = [p \in Peer |-> 0] /\ keys = [l \in Lookup |-> NoKey] /\ nextKey = 1
  BY DEF Init, LogInit
<1>2. LogInv
  <2>1. records \in [Pseudonym \X SectionSet -> Seq(LogRecord)]
    BY <1>1
  <2>2. \A ps \in Pseudonym \X SectionSet : records[ps] = <<>> /\ DOMAIN records[ps] = {}
    BY <1>1
  <2>3. NoKey = 0
    BY DEF NoKey
  <2> QED BY <1>1, <2>1, <2>2, <2>3 DEF LogInv
<1>3. /\ hpc = [r \in HistoryRequest |-> "idle"] /\ requested = [r \in HistoryRequest |-> <<>>]
      /\ employeeID = [r \in HistoryRequest |-> NoKey] /\ history = [r \in HistoryRequest |-> <<>>]
      /\ status = [r \in HistoryRequest |-> "none"]
      /\ began = [r \in HistoryRequest |-> [height |-> 0, key |-> NoKey]]
  BY DEF Init, HistoryInit
<1>4. RouteTypeOK
  <2>1. requested \in [HistoryRequest -> Seq(SectionSet)] /\ history \in [HistoryRequest -> Seq(HistoryEntry)]
    BY <1>3
  <2>2. NoKey \in Nat
    BY DEF NoKey
  <2> QED BY <1>3, <2>1, <2>2 DEF RouteTypeOK
<1>5. RouteInv
  BY <1>1, <1>3 DEF RouteInv, Route
<1> QED BY <1>2, <1>4, <1>5 DEF HistoryInv

\* Every step keeps it; the salt hand-off touches nothing of it.
LEMMA NextHistoryInv == HistoryInv /\ [Next]_vars => HistoryInv'
<1> SUFFICES ASSUME HistoryInv, [Next]_vars PROVE HistoryInv'
  OBVIOUS
<1>1. ASSUME UNCHANGED historyVars, LogInv', LogStep PROVE HistoryInv'
  <2>1. UNCHANGED <<hpc, requested, employeeID, history, status, began>>
    BY <1>1 DEF historyVars
  <2>2. RouteTypeOK'
    BY <2>1 DEF HistoryInv, RouteTypeOK
  <2>3. RouteInv'
    BY <1>1, <2>1, RouteFrame DEF HistoryInv, RouteInv
  <2> QED BY <1>1, <2>2, <2>3 DEF HistoryInv
<1>2. CASE LogNext /\ UNCHANGED historyVars
  BY <1>1, <1>2, LogNextStep DEF HistoryInv
<1>3. CASE UNCHANGED logVars /\ UNCHANGED historyVars
  BY <1>1, <1>3, LogSame DEF HistoryInv
<1>4. HandoffNext => UNCHANGED logVars
  BY DEF HandoffNext, ChangePolicy, RequestSalt, Authorize, AuthorizeFails, GetSalt, Decide, Record, RecordFails
<1>5. CASE HistoryNext
  BY <1>5, ReceiveRoute, ResolveRoute, FailsRoute, MergeRoute, QueryRoute DEF HistoryNext
<1> QED BY <1>2, <1>3, <1>4, <1>5 DEF Next, vars

(***************************************************************************)
(* The ledger, the key store and every history request under way.          *)
(***************************************************************************)
THEOREM HistoryInvariant == Spec => []HistoryInv
  BY InitHistoryInv, NextHistoryInv, PTL DEF Spec

(***************************************************************************)
(* An answer "ok" of the history route is a whole history, of any number   *)
(* of sections and peers, whatever was written or erased meanwhile.        *)
(***************************************************************************)
THEOREM HistoriesAreWhole == Spec => []HistoryIsComplete
<1>1. HistoryInv => HistoryIsComplete
  <2> SUFFICES ASSUME HistoryInv, NEW r \in HistoryRequest
               PROVE  /\ status[r] \in {"rejected", "error"} => history[r] = <<>>
                      /\ status[r] = "ok" =>
                           /\ employeeID[r] >= began[r].key
                           /\ \A section \in Range(SectionsOf(r)) : Collected(r, section)
                           /\ IsInjective(history[r])
    BY DEF HistoryIsComplete, Collected
  <2>1. Range(<<>>) = {}
    BY DEF Range
  <2> QED BY <2>1 DEF HistoryInv, RouteInv, Route, Gathered
<1> QED BY <1>1, HistoryInvariant, PTL

(***************************************************************************)
(* An answer "ok" is sorted newest first, and lists two versions of one    *)
(* section in the wrong order only where the ledger's own timestamps       *)
(* between them fail to rise.                                              *)
(***************************************************************************)
THEOREM FeedIsNewestFirst == Spec => []NewestFirst
<1>1. ASSUME HistoryInv, NEW r \in HistoryRequest, status[r] = "ok",
             NEW i \in DOMAIN history[r], NEW j \in DOMAIN history[r], i < j
      PROVE  LET a == history[r][i]
                 b == history[r][j]
             IN  /\ a.timestamp >= b.timestamp
                 /\ a.profileSection = b.profileSection /\ a.version < b.version =>
                      LET all == Chain(employeeID[r], a.profileSection)
                      IN  /\ b.version \in DOMAIN all
                          /\ \E v \in (a.version + 1)..b.version :
                               all[v].timestamp <= all[v - 1].timestamp
  <2> DEFINE a == history[r][i]
             b == history[r][j]
             s == a.profileSection
             c == Chain(employeeID[r], s)
  <2>1. Gathered(r) /\ requested[r] = <<>> /\ a.timestamp >= b.timestamp
    BY <1>1 DEF HistoryInv, RouteInv, Route, Descending
  <2>2. ASSUME a.profileSection = b.profileSection, a.version < b.version
        PROVE  b.version \in DOMAIN c /\ \E v \in (a.version + 1)..b.version : c[v].timestamp <= c[v - 1].timestamp
    <3>1. a \in Entries(r, s) /\ b \in Entries(r, s) /\ s \in Range(SectionsOf(r))
      <4>1. a \in Range(history[r]) /\ b \in Range(history[r])
        BY DEF Range
      <4> QED BY <2>1, <2>2, <4>1 DEF Entries, Gathered
    <3>2. Collected(r, s) /\ s \in SectionSet /\ employeeID[r] \in Pseudonym
      <4>1. Range(<<>>) = {}
        BY DEF Range
      <4> QED BY <2>1, <3>1, <4>1 DEF Gathered
    <3>3. /\ Len(c) \in Nat /\ DOMAIN c = 1..Len(c)
          /\ \A v \in DOMAIN c : c[v].timestamp \in Nat
          /\ Seen(began[r].height, employeeID[r], s) \in Nat
      <4>1. began[r] \in [height : Nat, key : Nat]
        BY <1>1 DEF HistoryInv, RouteTypeOK
      <4>2. LogInv /\ began[r].height \in Nat
        BY <1>1, <4>1 DEF HistoryInv
      <4>3. /\ Len(c) \in Nat /\ DOMAIN c = 1..Len(c)
            /\ \A v \in DOMAIN c : c[v].timestamp \in Timestamp
        BY <3>2, <4>2, ChainFacts
      <4>4. Seen(began[r].height, employeeID[r], s) \in 0..Len(c)
        BY <3>2, <4>2, SeenFacts
      <4>5. Timestamp \subseteq Nat
        BY ReadSideFacts
      <4>6. \A v \in DOMAIN c : c[v].timestamp \in Nat
        BY <4>3, <4>5, Zenon
      <4>7. Seen(began[r].height, employeeID[r], s) \in Nat
        <5>1. \A m : m \in 0..Len(c) => m \in Nat
          BY <4>3
        <5> QED BY <4>4, <5>1, Zenon
      <4> QED BY <4>3, <4>6, <4>7, Zenon
    <3>4. PICK n \in Seen(began[r].height, employeeID[r], s)..Len(c) :
            Entries(r, s) = {Entry(employeeID[r], s, v) : v \in 1..n}
      BY <3>2 DEF Collected
    <3>5. \A e \in Entries(r, s) : e.version \in DOMAIN c /\ e.timestamp = c[e.version].timestamp
      <4>1. \A v \in 1..n : v \in DOMAIN c
        BY <3>3
      <4>2. \A v : Entry(employeeID[r], s, v).version = v
                   /\ Entry(employeeID[r], s, v).timestamp = c[v].timestamp
        BY DEF Entry
      <4> QED BY <3>4, <4>1, <4>2
    <3>6. /\ a.version \in DOMAIN c /\ a.timestamp = c[a.version].timestamp
          /\ b.version \in DOMAIN c /\ b.timestamp = c[b.version].timestamp
      BY <3>1, <3>5
    <3> HIDE DEF a, b, c
    <3> DEFINE T == {w \in (a.version + 1)..b.version : c[w].timestamp <= c[a.version].timestamp}
    <3>7. T \in SUBSET Nat /\ b.version \in T
      BY <2>1, <2>2, <3>3, <3>6
    <3> HIDE DEF T
    <3>8. PICK w \in T : \A u \in T : w <= u
      BY <3>7, LeastElement
    <3>9. w \in (a.version + 1)..b.version /\ c[w].timestamp <= c[a.version].timestamp
      BY <3>8 DEF T
    <3>10. CASE w = a.version + 1
      <4>1. w - 1 = a.version
        BY <3>3, <3>6, <3>10
      <4> QED BY <3>6, <3>9, <4>1
    <3>11. CASE w # a.version + 1
      <4>1. w - 1 \in (a.version + 1)..b.version /\ ~(w <= w - 1) /\ w - 1 \in DOMAIN c /\ w \in DOMAIN c
        BY <3>3, <3>6, <3>9, <3>11
      <4>2. w - 1 \notin T
        BY <3>8, <4>1
      <4>3. ~(c[w - 1].timestamp <= c[a.version].timestamp)
        BY <4>1, <4>2 DEF T
      <4>4. c[w].timestamp \in Nat /\ c[w - 1].timestamp \in Nat /\ c[a.version].timestamp \in Nat
        BY <3>3, <3>6, <4>1
      <4>5. c[w].timestamp <= c[w - 1].timestamp
        <5>1. \A x, y, z \in Nat : x <= z /\ ~(y <= z) => x <= y
          OBVIOUS
        <5> QED BY <3>9, <4>3, <4>4, <5>1, Zenon
      <4> QED BY <3>6, <3>9, <4>5
    <3> QED BY <3>10, <3>11
  <2> QED BY <2>1, <2>2
<1>2. HistoryInv => NewestFirst
  BY <1>1 DEF NewestFirst
<1> QED BY <1>2, HistoryInvariant, PTL
=============================================================================

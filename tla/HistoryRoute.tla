---------------------------- MODULE HistoryRoute ----------------------------
(***************************************************************************)
(* GET /v1/profile-sections/history: the records of one employee, of one   *)
(* section or of all five, merged and sorted newest first.                 *)
(*                                                                         *)
(* The ledger is asked once per section, each time at any peer, so the     *)
(* sections of one answer are read at different moments while writes,      *)
(* lagging peers and erasures go on.                                       *)
(***************************************************************************)
EXTENDS AnchoredLog

CONSTANTS
    HistoryRequest,
    Query,       \* of each request: credentials and the three parameters
    TrimSpace    \* a parameter without surrounding blanks

VARIABLES
    hpc,         \* where each request is
    requested,   \* the sections still to be queried
    employeeID,  \* the pseudonym the request resolved to
    history,     \* the entries collected, then the answer
    status,      \* "ok", "rejected", "error"
    began        \* history: what every peer had, and the key, at the start

historyVars == <<hpc, requested, employeeID, history, status, began>>

HistoryInit ==
    /\ hpc        = [r \in HistoryRequest |-> "idle"]
    /\ requested  = [r \in HistoryRequest |-> <<>>]
    /\ employeeID = [r \in HistoryRequest |-> NoKey]
    /\ history    = [r \in HistoryRequest |-> <<>>]
    /\ status     = [r \in HistoryRequest |-> "none"]
    /\ began      = [r \in HistoryRequest |-> [height |-> 0, key |-> NoKey]]

LookupOf(r) ==
    <<TrimSpace[Query[r].employeeInternalID], TrimSpace[Query[r].recordIdentity]>>

isKnownProfileSection(section) == section \in SectionSet

SectionsOf(r) ==
    LET section == TrimSpace[Query[r].profileSection]
    IN  IF section = "" THEN Section ELSE <<section>>

\* What is decided before any store is asked; "" lets the request pass.
Verdict(r) ==
    LET section == TrimSpace[Query[r].profileSection]
    IN  IF ~Query[r].credentials THEN "error"
        ELSE IF \/ TrimSpace[Query[r].employeeInternalID] = ""
                \/ section # "" /\ ~isKnownProfileSection(section) THEN "rejected"
        ELSE ""

\* What passes is about an employee the key store can be asked for.
ASSUME QueryAssumption ==
    \A r \in HistoryRequest : Verdict(r) = "" => LookupOf(r) \in Lookup

respondHistory(r, answer, entries) ==
    /\ hpc'     = [hpc EXCEPT ![r] = "done"]
    /\ status'  = [status EXCEPT ![r] = answer]
    /\ history' = [history EXCEPT ![r] = entries]

Receive(r) ==
    /\ hpc[r] = "idle"
    /\ IF Verdict(r) # ""
       THEN respondHistory(r, Verdict(r), <<>>) /\ UNCHANGED <<requested, began>>
       ELSE /\ hpc' = [hpc EXCEPT ![r] = "resolve"]
            /\ requested' = [requested EXCEPT ![r] = SectionsOf(r)]
            /\ began' = [began EXCEPT ![r] =
                 [height |-> Min(Range(height)), key |-> keys[LookupOf(r)]]]
            /\ UNCHANGED <<status, history>>
    /\ UNCHANGED <<logVars, employeeID>>

ResolveEmployeeID(r) ==
    /\ hpc[r] = "resolve"
    /\ GetOrCreateEmployeeKey(LookupOf(r))
    /\ employeeID' = [employeeID EXCEPT ![r] = KeyOf(LookupOf(r))]
    /\ hpc' = [hpc EXCEPT ![r] = "query"]
    /\ UNCHANGED <<records, blocks, height, salts, requested, history, status, began>>

\* One entry of GetProfileHistory's answer, tagged with its section.
Entry(id, section, v) ==
    [profileSection |-> section, version |-> v, timestamp |-> Chain(id, section)[v].timestamp]

\* GetProfileHistory at peer p.
Chunk(p, id, section) ==
    [v \in 1..Seen(height[p], id, section) |-> Entry(id, section, v)]

EvaluateGetProfileHistory(r, p) ==
    /\ hpc[r] = "query" /\ requested[r] # <<>>
    /\ history' = [history EXCEPT ![r] = @ \o Chunk(p, employeeID[r], Head(requested[r]))]
    /\ requested' = [requested EXCEPT ![r] = Tail(@)]
    /\ UNCHANGED <<logVars, hpc, employeeID, status, began>>

\* Mutant: a section that cannot be read is left out.
DependencyFailsSkipped(r) ==
    /\ hpc[r] = "query" /\ requested[r] # <<>>
    /\ requested' = [requested EXCEPT ![r] = Tail(@)]
    /\ UNCHANGED <<logVars, hpc, employeeID, history, status, began>>

\* The key store fails, or the ledger query, or the decoding of its answer.
DependencyFails(r) ==
    /\ hpc[r] = "resolve" \/ (hpc[r] = "query" /\ requested[r] # <<>>)
    /\ respondHistory(r, "error", <<>>)
    /\ UNCHANGED <<logVars, requested, employeeID, began>>

\* sort.SliceStable by descending timestamp: which entry comes first, how many
\* come before an entry, and the list in which each has its place.
Before(all, i, j) ==
    \/ all[i].timestamp > all[j].timestamp
    \/ all[i].timestamp = all[j].timestamp /\ i < j

Rank(all, i) == 1 + Cardinality({j \in DOMAIN all : Before(all, j, i)})

\* Mutant: the oldest first.
SortByTimestampAscending(all) ==
    [k \in DOMAIN all |-> all[CHOOSE i \in DOMAIN all : Rank(all, i) = Len(all) + 1 - k]]

SortByTimestamp(all) ==
    [k \in DOMAIN all |-> all[CHOOSE i \in DOMAIN all : Rank(all, i) = k]]

Merge(r) ==
    /\ hpc[r] = "query" /\ requested[r] = <<>>
    /\ respondHistory(r, "ok", SortByTimestamp(history[r]))
    /\ UNCHANGED <<logVars, requested, employeeID, began>>

HistoryNext ==
    \E r \in HistoryRequest :
        \/ Receive(r) \/ ResolveEmployeeID(r) \/ DependencyFails(r) \/ Merge(r)
        \/ \E p \in Peer : EvaluateGetProfileHistory(r, p)

-----------------------------------------------------------------------------
Entries(r, section) == {e \in Range(history[r]) : e.profileSection = section}

(***************************************************************************)
(* An answer "ok" is never a partial history (RegisterProfileHistoryRoute  *)
(* collects the sections one by one): of every section asked for it holds  *)
(* versions 1..n of the pseudonym without a gap, with the ledger's         *)
(* timestamps, each once, and at least as many as every peer had when the  *)
(* request began.                                                          *)
(* The pseudonym is the one the employee had then, or a later one if it    *)
(* was erased meanwhile; any other answer carries no history.              *)
(***************************************************************************)
HistoryIsComplete ==
    \A r \in HistoryRequest :
        /\ status[r] \in {"rejected", "error"} => history[r] = <<>>
        /\ status[r] = "ok" =>
             /\ employeeID[r] >= began[r].key
             /\ \A section \in Range(SectionsOf(r)) :
                  \E n \in Seen(began[r].height, employeeID[r], section)..
                             Len(Chain(employeeID[r], section)) :
                    Entries(r, section) = {Entry(employeeID[r], section, v) : v \in 1..n}
             /\ IsInjective(history[r])

(***************************************************************************)
(* The merged feed is newest first (history.go's sort): timestamps never   *)
(* rise along it, and an older version of a section stands above a newer   *)
(* one only where the ledger's timestamps of the two do not tell them      *)
(* apart or the submitting clocks went back.                               *)
(***************************************************************************)
NewestFirst ==
    \A r \in HistoryRequest : status[r] = "ok" =>
        \A i, j \in DOMAIN history[r] : i < j =>
            LET a == history[r][i]
                b == history[r][j]
            IN  /\ a.timestamp >= b.timestamp
                /\ a.profileSection = b.profileSection /\ a.version < b.version =>
                     LET all == Chain(employeeID[r], a.profileSection)
                     IN  /\ b.version \in DOMAIN all
                         /\ \E v \in (a.version + 1)..b.version :
                              all[v].timestamp <= all[v - 1].timestamp
=============================================================================

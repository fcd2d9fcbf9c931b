---------------------------- MODULE SecretStore ----------------------------
(***************************************************************************)
(* The operations of the three secret stores (employee keys, document      *)
(* keys, salts) as operators on a map from identifiers to secrets.  The    *)
(* in-memory and the file stores share them.  A secret is 32 random bytes: *)
(* it is represented by the call that drew it.                             *)
(***************************************************************************)
CONSTANTS
    Call,     \* calls of store operations
    Id,       \* identifiers: employeeInternalID, or the salt's triple
    Kind,     \* the operation of each call
    Of,       \* the identifier each call names
    Scope,    \* the identifiers a deletion covers: one key, or one prefix
    Absent    \* no entry

KindOfCall == {"getorcreate", "put", "get", "delete"}

ASSUME StoreAssumption ==
    /\ Kind \in [Call -> KindOfCall]
    /\ Of \in [Call -> Id]
    /\ Scope \in [Call -> SUBSET Id]
    /\ Absent \notin Call /\ "ok" \notin Call /\ "error" \notin Call
    /\ Absent \notin {"ok", "error"}

Map    == [Id -> Call \union {Absent}]
Answer == Call \union {"ok", "error"}

\* What an operation leaves in the map, what it answers, and whether it writes.
Reads(m, answer)  == [map |-> m, answer |-> answer, saves |-> FALSE]
Saves(m, answer)  == [map |-> m, answer |-> answer, saves |-> TRUE]

Create(m, c) == Saves([m EXCEPT ![Of[c]] = c], c)

GetOrCreate(m, c) == IF m[Of[c]] # Absent THEN Reads(m, m[Of[c]]) ELSE Create(m, c)

\* PutSalt: a salt is generated once, not rotated in place.
Put(m, c) == IF m[Of[c]] # Absent THEN Reads(m, "error") ELSE Create(m, c)

Get(m, c) == Reads(m, IF m[Of[c]] # Absent THEN m[Of[c]] ELSE "error")

\* Deleting what is not there is no error, and writes all the same.
Delete(m, c) == Saves([i \in Id |-> IF i \in Scope[c] THEN Absent ELSE m[i]], "ok")

Outcome(m, c) ==
    CASE Kind[c] = "getorcreate" -> GetOrCreate(m, c)
      [] Kind[c] = "put"         -> Put(m, c)
      [] Kind[c] = "get"         -> Get(m, c)
      [] Kind[c] = "delete"      -> Delete(m, c)
=============================================================================

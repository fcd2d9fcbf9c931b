---------------------------- MODULE AnchoredLog -----------------------------
(***************************************************************************)
(* What the read side finds: the records the channel has committed under   *)
(* each key, with the blocks they came in, peers that have executed some   *)
(* first part of the blocks, the employee keys that lead to a pseudonym,   *)
(* and the salts stored with the records.                                  *)
(*                                                                         *)
(* A write and an erasure are one step here; WritePaths takes them apart.  *)
(* A timestamp is the one of the transaction's proposal, which the         *)
(* submitting client's clock sets, cut to seconds: it may repeat and may   *)
(* go back.                                                                *)
(***************************************************************************)
EXTENDS Naturals, Sequences, FiniteSetsExt, SequencesExt

CONSTANTS
    Lookup,      \* pairs of employeeInternalID and recordIdentity
    Section,     \* the profile sections, in the order of AllProfileSections
    Peer,
    MaxClock,    \* bound: timestamps are 1..MaxClock
    MaxRecords,  \* bound: records committed
    MaxKeys      \* bound: random keys drawn

NoKey      == 0
Pseudonym  == 1..MaxKeys
Timestamp  == 1..MaxClock
SectionSet == Range(Section)

ASSUME AnchoredLogAssumption ==
    /\ Peer # {}
    /\ Section \in Seq(SectionSet) /\ IsInjective(Section)
    /\ MaxClock \in Nat /\ MaxRecords \in Nat /\ MaxKeys \in Nat

VARIABLES
    records,   \* per pseudonym and section, the committed [timestamp, block]
    blocks,    \* how many blocks the channel has, one record in each
    height,    \* how many of them each peer has executed
    keys,      \* the employee key store
    nextKey,
    salts      \* stored salts [employeeID, section, version]

logVars == <<records, blocks, height, keys, nextKey, salts>>

LogInit ==
    /\ records = [ps \in Pseudonym \X SectionSet |-> <<>>]
    /\ blocks  = 0
    /\ height  = [p \in Peer |-> 0]
    /\ keys    = [l \in Lookup |-> NoKey]
    /\ nextKey = 1
    /\ salts   = {}

\* The records of one pseudonym and section: record v has version v.
Chain(id, section) == records[<<id, section>>]

\* How many of them a peer has that has executed h blocks.
Seen(h, id, section) ==
    Cardinality({v \in DOMAIN Chain(id, section) : Chain(id, section)[v].block <= h})

\* GetOrCreateEmployeeKey: the pseudonym a lookup leads to, drawn if need be.
KeyOf(lookup) == IF keys[lookup] # NoKey THEN keys[lookup] ELSE nextKey

GetOrCreateEmployeeKey(lookup) ==
    /\ KeyOf(lookup) \in Pseudonym
    /\ keys'    = [keys EXCEPT ![lookup] = KeyOf(lookup)]
    /\ nextKey' = IF keys[lookup] # NoKey THEN nextKey ELSE nextKey + 1

\* A write that succeeds: key, salt and record.
Anchor(lookup, section, timestamp) ==
    /\ blocks < MaxRecords
    /\ GetOrCreateEmployeeKey(lookup)
    /\ blocks' = blocks + 1
    /\ records' = [records EXCEPT ![<<KeyOf(lookup), section>>] =
                     Append(@, [timestamp |-> timestamp, block |-> blocks + 1])]
    /\ salts' = salts \union
         {[employeeID |-> KeyOf(lookup), section |-> section,
           version |-> Len(Chain(KeyOf(lookup), section)) + 1]}
    /\ UNCHANGED height

\* A peer executes the next block.
CatchUp(p) ==
    /\ height[p] < blocks
    /\ height' = [height EXCEPT ![p] = @ + 1]
    /\ UNCHANGED <<records, blocks, keys, nextKey, salts>>

\* Erase: the salts of the employee's pseudonym, then its key.
Erase(lookup) ==
    /\ lookup[2] = "" /\ keys[lookup] # NoKey
    /\ salts' = {s \in salts : s.employeeID # keys[lookup]}
    /\ keys'  = [keys EXCEPT ![lookup] = NoKey]
    /\ UNCHANGED <<records, blocks, height, nextKey>>

LogNext ==
    \/ \E l \in Lookup, s \in SectionSet, t \in Timestamp : Anchor(l, s, t)
    \/ \E p \in Peer : CatchUp(p)
    \/ \E l \in Lookup : Erase(l)
=============================================================================

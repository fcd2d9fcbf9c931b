----------------------- MODULE ProfileContractProofs -----------------------
(***************************************************************************)
(* The contract on a channel, for any callers, arguments, employees,       *)
(* digests and number of transactions: the chain under every key stays     *)
(* linked and free of adjacent duplicates, and the queries agree on it.    *)
(***************************************************************************)
EXTENDS ProfileContract, WellFoundedInduction, TLAPS

(***************************************************************************)
(* The inductive invariant.  ChainIntact alone is not inductive: what a    *)
(* commit appends was computed earlier, against a head that may be gone.   *)
(* Since history only grows, a pending transaction can be described by the *)
(* version it was simulated against: its record fits behind that version.  *)
(* The check of the read version at commit then makes that version the     *)
(* last one.                                                               *)
(***************************************************************************)
TypeOK ==
    /\ history \in [Key -> Seq(Record)]
    /\ nextTx \in Nat

Fits(rec, versions, h) ==
    /\ rec \in Record
    /\ rec.version = h + 1
    /\ rec.prevHash = IF h = 0 THEN NoHash ELSE versions[h].dataHash
    /\ h # 0 => rec.dataHash # versions[h].dataHash

PendingFits ==
    \A tx \in pending :
        /\ tx.key \in Key
        /\ tx.readVersion \in 0..Len(history[tx.key])
        /\ tx.writes => Fits(tx.rec, history[tx.key], tx.readVersion)

IInv == TypeOK /\ PendingFits /\ ChainIntact /\ NoAdjacentDuplicates

(***************************************************************************)
(* The head that a peer at version h works with (readHead).                *)
(***************************************************************************)
LEMMA HeadOfPrefix ==
    ASSUME NEW versions \in Seq(Record), NEW h \in 0..Len(versions)
    PROVE  readHead(SubSeq(versions, 1, h)) = IF h = 0 THEN NoRecord ELSE versions[h]
<1>1. SubSeq(versions, 1, h) \in Seq(Record) /\ Len(SubSeq(versions, 1, h)) = h
  OBVIOUS
<1>2. CASE h = 0
  BY <1>1, <1>2 DEF readHead
<1>3. CASE h # 0
  <2>1. SubSeq(versions, 1, h)[h] = versions[h] /\ SubSeq(versions, 1, h) # <<>>
    BY <1>1, <1>3
  <2> QED BY <1>1, <1>3, <2>1 DEF readHead
<1> QED BY <1>2, <1>3

(***************************************************************************)
(* A call that RecordProfileSection accepts is for a section of the enum,  *)
(* and what it writes fits behind the head it was simulated against.       *)
(***************************************************************************)
LEMMA SimulationFits ==
    ASSUME TypeOK, ChainIntact, nextTx \in TxId,
           NEW emp \in EmployeeID, NEW msp \in Msp, NEW args \in CallArgs,
           NEW h \in 0..Len(Committed(emp, args.section)),
           Simulate(emp, msp, args, h).code = "OK"
    PROVE  /\ <<emp, args.section>> \in Key
           /\ h \in 0..Len(history[<<emp, args.section>>])
           /\ Simulate(emp, msp, args, h).writes =>
                Fits(Simulate(emp, msp, args, h).rec, history[<<emp, args.section>>], h)
<1> DEFINE key  == <<emp, args.section>>
           head == readHead(SubSeq(Committed(emp, args.section), 1, h))
           out  == Simulate(emp, msp, args, h)
<1>1. out = RecordProfileSection(head, msp, args, nextTx)
  BY DEF Simulate
<1>2. args.section \in ProfileSection
  BY <1>1 DEF RecordProfileSection, IsValidProfileSection, Rejected
<1>3. key \in Key /\ Committed(emp, args.section) = history[key]
  BY <1>2 DEF Key, Committed, IsValidProfileSection
<1>4. history[key] \in Seq(Record) /\ h \in 0..Len(history[key])
  BY <1>3 DEF TypeOK
<1>5. head = IF h = 0 THEN NoRecord ELSE history[key][h]
  BY <1>3, <1>4, HeadOfPrefix
<1>6. h # 0 => history[key][h] \in Record /\ history[key][h].version = h
  BY <1>3, <1>4 DEF ChainIntact, Linked
<1>7. ASSUME out.writes PROVE Fits(out.rec, history[key], h)
  <2>1. /\ args.dataHash \in Hash /\ args.prevHash \in Hash \union {NoHash}
        /\ ~(head # NoRecord /\ head.dataHash = args.dataHash)
        /\ Chains(head, args.prevHash)
        /\ out = Written(NextRecord(head, args, nextTx))
    BY <1>1, <1>7 DEF RecordProfileSection, Rejected, NoOp, requiredStringArgs, CallArgs
  <2>2. out.rec = [dataHash |-> args.dataHash, prevHash |-> args.prevHash,
                   version |-> NextVersion(head), recordID |-> nextTx]
    BY <2>1 DEF Written, NextRecord, deterministicRecordID
  <2>3. NextVersion(head) = h + 1
    BY <1>4, <1>5, <1>6, NoRecordAssumption DEF NextVersion
  <2>4. args.prevHash = IF h = 0 THEN NoHash ELSE history[key][h].dataHash
    BY <1>5, <1>6, <2>1, NoRecordAssumption DEF Chains
  <2>5. h # 0 => args.dataHash # history[key][h].dataHash
    BY <1>5, <1>6, <2>1, NoRecordAssumption
  <2>6. out.rec \in Record
    BY <2>1, <2>2, <2>3, <1>4 DEF Record
  <2> HIDE DEF out, key
  <2> QED BY <2>2, <2>3, <2>4, <2>5, <2>6 DEF Fits
<1> QED BY <1>3, <1>4, <1>7

(***************************************************************************)
(* An empty channel satisfies the invariant.                               *)
(***************************************************************************)
LEMMA InitIInv == Init => IInv
  BY DEF Init, IInv, TypeOK, PendingFits, ChainIntact, Linked, NoAdjacentDuplicates

(***************************************************************************)
(* Endorsing a call preserves the invariant.                               *)
(***************************************************************************)
LEMMA CallIInv ==
    ASSUME IInv, NEW emp \in EmployeeID, NEW msp \in Msp, NEW args \in CallArgs,
           Call(emp, msp, args)
    PROVE  IInv'
<1>1. PICK h \in 0..Len(Committed(emp, args.section)) :
        IF Simulate(emp, msp, args, h).code = "OK"
        THEN Endorse(emp, args, h, Simulate(emp, msp, args, h)) ELSE Reject
  BY DEF Call
<1>2. CASE Simulate(emp, msp, args, h).code = "OK"
  <2> DEFINE out == Simulate(emp, msp, args, h)
             tx  == [id |-> nextTx, key |-> <<emp, args.section>>, readVersion |-> h,
                     writes |-> out.writes, rec |-> out.rec]
  <2>1. /\ nextTx \in TxId /\ pending' = pending \union {tx}
        /\ nextTx' = nextTx + 1 /\ history' = history
    BY <1>1, <1>2 DEF Endorse
  <2>2. /\ tx.key \in Key /\ tx.readVersion \in 0..Len(history[tx.key])
        /\ tx.writes => Fits(tx.rec, history[tx.key], tx.readVersion)
    BY <1>2, <2>1, SimulationFits DEF IInv
  <2> HIDE DEF tx
  <2>3. PendingFits'
    BY <2>1, <2>2 DEF IInv, PendingFits
  <2>4. TypeOK' /\ ChainIntact' /\ NoAdjacentDuplicates'
    BY <2>1 DEF IInv, TypeOK, ChainIntact, NoAdjacentDuplicates
  <2> QED BY <2>3, <2>4 DEF IInv
<1>3. CASE Simulate(emp, msp, args, h).code # "OK"
  BY <1>1, <1>3 DEF Reject, vars, IInv, TypeOK, PendingFits, ChainIntact, NoAdjacentDuplicates
<1> QED BY <1>2, <1>3

(***************************************************************************)
(* Appending a record that fits behind the last version keeps a chain      *)
(* linked and without adjacent duplicates.                                 *)
(***************************************************************************)
LEMMA AppendFits ==
    ASSUME NEW versions \in Seq(Record), NEW rec,
           Fits(rec, versions, Len(versions)),
           Linked(versions),
           \A i \in 2..Len(versions) : versions[i].dataHash # versions[i - 1].dataHash
    PROVE  /\ Append(versions, rec) \in Seq(Record)
           /\ Len(Append(versions, rec)) = Len(versions) + 1
           /\ \A i \in 1..Len(versions) : Append(versions, rec)[i] = versions[i]
           /\ Linked(Append(versions, rec))
           /\ \A i \in 2..Len(Append(versions, rec)) :
                Append(versions, rec)[i].dataHash # Append(versions, rec)[i - 1].dataHash
<1> DEFINE n == Len(versions)
           new == Append(versions, rec)
<1>1. rec \in Record /\ n \in Nat
  BY DEF Fits
<1>2. /\ new \in Seq(Record) /\ Len(new) = n + 1 /\ new[n + 1] = rec
      /\ \A i \in 1..n : new[i] = versions[i]
  BY <1>1
<1> HIDE DEF new
<1>3. ASSUME NEW i \in 1..Len(new)
      PROVE  /\ new[i].version = i
             /\ new[i].prevHash = IF i = 1 THEN NoHash ELSE new[i - 1].dataHash
             /\ i # 1 => new[i].dataHash # new[i - 1].dataHash
  <2>1. CASE i = n + 1
    BY <1>1, <1>2, <2>1 DEF Fits
  <2>2. CASE i \in 1..n
    <3>1. new[i] = versions[i] /\ (i # 1 => i - 1 \in 1..n /\ new[i - 1] = versions[i - 1])
      BY <1>1, <1>2, <2>2
    <3>2. i # 1 => i \in 2..n
      BY <1>1, <2>2
    <3> QED BY <2>2, <3>1, <3>2 DEF Linked
  <2> QED BY <1>1, <1>2, <2>1, <2>2
<1>4. Linked(new)
  BY <1>3 DEF Linked
<1>5. \A i \in 2..Len(new) : new[i].dataHash # new[i - 1].dataHash
  BY <1>1, <1>2, <1>3
<1> QED BY <1>2, <1>4, <1>5 DEF new

(***************************************************************************)
(* Committing an endorsed transaction preserves the invariant.             *)
(***************************************************************************)
LEMMA CommitIInv ==
    ASSUME IInv, NEW tx \in pending, Commit(tx)
    PROVE  IInv'
<1>1. CASE MvccValid(tx) /\ tx.writes
  <2> DEFINE k == tx.key
  <2>1. /\ k \in Key /\ tx.readVersion = Len(history[k])
        /\ Fits(tx.rec, history[k], Len(history[k]))
    BY <1>1 DEF IInv, PendingFits, MvccValid
  <2>2. /\ history[k] \in Seq(Record) /\ Linked(history[k])
        /\ \A i \in 2..Len(history[k]) : history[k][i].dataHash # history[k][i - 1].dataHash
    BY <2>1 DEF IInv, TypeOK, ChainIntact, NoAdjacentDuplicates
  <2> DEFINE new == Append(history[k], tx.rec)
  <2>3. /\ new \in Seq(Record) /\ Len(new) = Len(history[k]) + 1
        /\ \A i \in 1..Len(history[k]) : new[i] = history[k][i]
        /\ Linked(new)
        /\ \A i \in 2..Len(new) : new[i].dataHash # new[i - 1].dataHash
    BY <2>1, <2>2, AppendFits
  <2>4. /\ history' = [history EXCEPT ![k] = new]
        /\ pending' = pending \ {tx} /\ nextTx' = nextTx
    BY <1>1 DEF Commit
  <2> HIDE DEF new, k
  <2>5. TypeOK'
    BY <2>1, <2>3, <2>4 DEF IInv, TypeOK
  <2>6. history'[k] = new /\ \A j \in Key \ {k} : history'[j] = history[j]
    BY <2>1, <2>4 DEF IInv, TypeOK
  <2>7. ChainIntact' /\ NoAdjacentDuplicates'
    BY <2>3, <2>6 DEF IInv, ChainIntact, NoAdjacentDuplicates
  <2>8. ASSUME NEW u \in pending
        PROVE  /\ u.key \in Key /\ u.readVersion \in 0..Len(history'[u.key])
               /\ u.writes => Fits(u.rec, history'[u.key], u.readVersion)
    <3>1. /\ u.key \in Key /\ u.readVersion \in 0..Len(history[u.key])
          /\ u.writes => Fits(u.rec, history[u.key], u.readVersion)
      BY DEF IInv, PendingFits
    <3>2. CASE u.key = k
      <4>1. u.readVersion # 0 => new[u.readVersion] = history[k][u.readVersion]
        BY <2>2, <2>3, <3>1, <3>2
      <4> QED BY <2>2, <2>3, <2>6, <3>1, <3>2, <4>1 DEF Fits
    <3>3. CASE u.key # k
      BY <2>6, <3>1, <3>3
    <3> QED BY <3>2, <3>3
  <2>9. PendingFits'
    BY <2>4, <2>8 DEF PendingFits
  <2> QED BY <2>5, <2>7, <2>9 DEF IInv
<1>2. CASE ~(MvccValid(tx) /\ tx.writes)
  BY <1>2 DEF Commit, IInv, TypeOK, PendingFits, ChainIntact, NoAdjacentDuplicates
<1> QED BY <1>1, <1>2

(***************************************************************************)
(* Every step on the channel preserves the invariant.                      *)
(***************************************************************************)
LEMMA NextIInv == IInv /\ [Next]_vars => IInv'
<1> SUFFICES ASSUME IInv, [Next]_vars PROVE IInv'
  OBVIOUS
<1>1. ASSUME NEW tx \in pending, Lose(tx) PROVE IInv'
  BY <1>1 DEF Lose, IInv, TypeOK, PendingFits, ChainIntact, NoAdjacentDuplicates
<1>2. CASE UNCHANGED vars
  BY <1>2 DEF vars, IInv, TypeOK, PendingFits, ChainIntact, NoAdjacentDuplicates
<1> QED BY <1>1, <1>2, CallIInv, CommitIInv DEF Next

(***************************************************************************)
(* The invariant holds on every channel.                                   *)
(***************************************************************************)
THEOREM ContractInvariant == Spec => []IInv
  BY InitIInv, NextIInv, PTL DEF Spec

(***************************************************************************)
(* Under every key, versions count up from 1 and each record names the     *)
(* dataHash of the one before it, however stale the endorsers were.        *)
(***************************************************************************)
THEOREM ChainsStayIntact == Spec => []ChainIntact
<1>1. IInv => ChainIntact
  BY DEF IInv
<1> QED BY <1>1, ContractInvariant, PTL

(***************************************************************************)
(* Identical content is never anchored twice in a row: the no-op rule      *)
(* holds at commit although it is checked at endorsement.                  *)
(***************************************************************************)
THEOREM NothingIsAnchoredTwice == Spec => []NoAdjacentDuplicates
<1>1. IInv => NoAdjacentDuplicates
  BY DEF IInv
<1> QED BY <1>1, ContractInvariant, PTL

(***************************************************************************)
(* Anchored records are immutable: a step may append to the history of a   *)
(* key and never changes or removes what is there.                         *)
(***************************************************************************)
HistoryGrows ==
    \A k \in Key :
        /\ Len(history[k]) <= Len(history'[k])
        /\ \A i \in 1..Len(history[k]) : history'[k][i] = history[k][i]

\* No transaction of RecordProfileSection rewrites a record that was anchored.
THEOREM RecordsAreImmutable == Spec => [][HistoryGrows]_vars
<1>1. IInv /\ [Next]_vars => [HistoryGrows]_vars
  <2> SUFFICES ASSUME IInv, Next PROVE HistoryGrows
    OBVIOUS
  <2>1. \A k \in Key : history[k] \in Seq(Record) /\ Len(history[k]) \in Nat
    BY DEF IInv, TypeOK
  <2>2. CASE history' = history
    BY <2>1, <2>2 DEF HistoryGrows
  <2>3. ASSUME NEW tx \in pending, Commit(tx), MvccValid(tx) /\ tx.writes PROVE HistoryGrows
    <3>1. tx.key \in Key /\ tx.rec \in Record
      BY <2>3 DEF IInv, PendingFits, Fits
    <3>2. history' = [history EXCEPT ![tx.key] = Append(history[tx.key], tx.rec)]
      BY <2>3 DEF Commit
    <3>3. \A k \in Key : history'[k] = IF k = tx.key THEN Append(history[k], tx.rec) ELSE history[k]
      BY <3>1, <3>2 DEF IInv, TypeOK
    <3>4. ASSUME NEW k \in Key
          PROVE  /\ Len(history[k]) <= Len(history'[k])
                 /\ \A i \in 1..Len(history[k]) : history'[k][i] = history[k][i]
      <4>1. CASE k = tx.key
        <5>1. history'[k] = Append(history[k], tx.rec)
          BY <3>3, <4>1
        <5>2. history[k] \in Seq(Record) /\ Len(history[k]) \in Nat
          BY <2>1
        <5> QED BY <3>1, <5>1, <5>2
      <4>2. CASE k # tx.key
        BY <2>1, <3>3, <4>2
      <4> QED BY <4>1, <4>2
    <3> QED BY <3>4 DEF HistoryGrows
  <2> QED BY <2>2, <2>3 DEF Next, Call, Endorse, Reject, Commit, Lose, vars
<1> QED BY <1>1, ContractInvariant, PTL DEF Spec

-----------------------------------------------------------------------------
(***************************************************************************)
(* Sorting.  Induction over the length of a list is replaced by the least  *)
(* counterexample.                                                         *)
(***************************************************************************)
LEMMA LeastElement ==
    ASSUME NEW T \in SUBSET Nat, T # {}
    PROVE  \E m \in T : \A n \in T : m <= n
<1>1. IsWellFoundedOn(OpToRel(<, Nat), Nat)
  BY NatLessThanWellFounded
<1>2. PICK m \in T : \A n \in T : ~(<<n, m>> \in OpToRel(<, Nat))
  BY <1>1, WFMin
<1>3. \A n \in T : ~(n < m)
  BY <1>2 DEF OpToRel
<1>4. m \in Nat /\ \A n \in T : n \in Nat
  OBVIOUS
<1>5. \A n \in T : m <= n
  BY <1>3, <1>4
<1> QED BY <1>5

(***************************************************************************)
(* A strictly increasing map of 1..n to itself moves nothing.              *)
(***************************************************************************)
LEMMA IncreasingIsIdentity ==
    ASSUME NEW n \in Nat, NEW g \in [1..n -> 1..n],
           \A i, j \in 1..n : i < j => g[i] < g[j]
    PROVE  \A i \in 1..n : g[i] = i
<1>1. ASSUME NEW i \in 1..n, g[i] < i PROVE FALSE
  <2> DEFINE T == {m \in 1..n : g[m] < m}
  <2>0. T \in SUBSET Nat /\ T # {}
    BY <1>1
  <2> HIDE DEF T
  <2>1. PICK m \in T : \A k \in T : m <= k
    BY <2>0, LeastElement
  <2>2. m \in 1..n /\ g[m] \in 1..n /\ g[m] < m
    BY <2>1 DEF T
  <2>3. m - 1 \in 1..n /\ g[m - 1] \in 1..n /\ g[m - 1] < g[m]
    BY <2>2
  <2>4. m - 1 \in T
    BY <2>2, <2>3 DEF T
  <2> QED BY <2>1, <2>2, <2>4
<1>2. ASSUME NEW i \in 1..n, g[i] > i PROVE FALSE
  <2> DEFINE T == {m \in 0..n : n - m \in 1..n /\ g[n - m] > n - m}
  <2>1. n - i \in 0..n /\ n - (n - i) = i
    OBVIOUS
  <2>0. T \in SUBSET Nat /\ n - i \in T
    <3>1. n - (n - i) \in 1..n /\ g[n - (n - i)] > n - (n - i)
      BY <1>2, <2>1, Zenon
    <3> QED BY <2>1, <3>1
  <2> HIDE DEF T
  <2>2. PICK m \in T : \A k \in T : m <= k
    BY <2>0, LeastElement
  <2>3. m \in 0..n /\ n - m \in 1..n /\ g[n - m] \in 1..n /\ g[n - m] > n - m
    BY <2>2 DEF T
  <2>4. m - 1 \in 0..n /\ n - (m - 1) \in 1..n /\ g[n - (m - 1)] \in 1..n
    BY <2>3
  <2>5. g[n - (m - 1)] > g[n - m]
    BY <2>3, <2>4
  <2>6. m - 1 \in T
    BY <2>3, <2>4, <2>5 DEF T
  <2> QED BY <2>2, <2>3, <2>6
<1>3. \A i \in 1..n : g[i] \in 1..n
  OBVIOUS
<1> QED BY <1>1, <1>2, <1>3

(***************************************************************************)
(* What a sort promises: the entries, rearranged in an order of versions.  *)
(***************************************************************************)
Ascending(entries, q) ==
    \A i, j \in 1..Len(entries) : i < j => entries[q[i]].version <= entries[q[j]].version

\* The sort of GetProfileHistory returns such a rearrangement when there is one.
LEMMA SortIsAscending ==
    ASSUME NEW entries,
           \E q \in Bijection(1..Len(entries), 1..Len(entries)) : Ascending(entries, q)
    PROVE  \E q \in Bijection(1..Len(entries), 1..Len(entries)) :
              /\ Ascending(entries, q)
              /\ SortByVersion(entries) = [i \in 1..Len(entries) |-> entries[q[i]]]
<1> DEFINE order == CHOOSE q \in Bijection(1..Len(entries), 1..Len(entries)) :
                       \A i, j \in 1..Len(entries) :
                          i < j => entries[q[i]].version <= entries[q[j]].version
<1>1. order \in Bijection(1..Len(entries), 1..Len(entries)) /\ Ascending(entries, order)
  BY Zenon DEF Ascending
<1>2. SortByVersion(entries) = [i \in 1..Len(entries) |-> entries[order[i]]]
  BY Zenon DEF SortByVersion
<1> QED BY <1>1, <1>2

(***************************************************************************)
(* A bijection of 1..n, and its inverse.                                   *)
(***************************************************************************)
LEMMA BijectionFacts ==
    ASSUME NEW n \in Nat, NEW p \in Bijection(1..n, 1..n)
    PROVE  /\ p \in [1..n -> 1..n]
           /\ \A i, j \in 1..n : p[i] = p[j] => i = j
           /\ \E q \in Bijection(1..n, 1..n) : \A k \in 1..n : p[q[k]] = k
<1>1. /\ p \in [1..n -> 1..n]
      /\ \A i, j \in 1..n : p[i] = p[j] => i = j
      /\ \A k \in 1..n : \E i \in 1..n : p[i] = k
  BY DEF Bijection, Injection, IsInjective, Surjection
<1> DEFINE q == [k \in 1..n |-> CHOOSE i \in 1..n : p[i] = k]
<1>2. q \in [1..n -> 1..n] /\ \A k \in 1..n : p[q[k]] = k
  BY <1>1
<1> HIDE DEF q
<1>3. \A i \in 1..n : p[i] \in 1..n /\ q[p[i]] = i
  BY <1>1, <1>2
<1>4. \A i, j \in 1..n : q[i] = q[j] => i = j
  BY <1>2
<1>5. q \in Injection(1..n, 1..n)
  BY <1>2, <1>4 DEF Injection, IsInjective
<1>6. q \in Surjection(1..n, 1..n)
  BY <1>2, <1>3 DEF Surjection
<1>7. q \in Bijection(1..n, 1..n)
  BY <1>5, <1>6 DEF Bijection
<1> QED BY <1>1, <1>2, <1>7

(***************************************************************************)
(* However the history iterator orders a chain, GetProfileHistory's sort   *)
(* gives the chain back.                                                   *)
(***************************************************************************)
LEMMA SortRestores ==
    ASSUME NEW versions \in Seq(Record), Linked(versions),
           NEW p \in Bijection(1..Len(versions), 1..Len(versions))
    PROVE  SortByVersion(Rearranged(versions, p)) = versions
<1> DEFINE n == Len(versions)
           entries == Rearranged(versions, p)
<1>1. n \in Nat
  OBVIOUS
<1>2. /\ p \in [1..n -> 1..n] /\ \A i, j \in 1..n : p[i] = p[j] => i = j
      /\ \E q \in Bijection(1..n, 1..n) : \A k \in 1..n : p[q[k]] = k
  BY <1>1, BijectionFacts
<1>3. /\ entries = [i \in 1..n |-> versions[p[i]]] /\ Len(entries) = n
      /\ \A i \in 1..n : entries[i] = versions[p[i]] /\ entries[i].version = p[i]
  BY <1>2 DEF Rearranged, Linked
<1> HIDE DEF entries, n
<1>4. \E q \in Bijection(1..n, 1..n) : Ascending(entries, q)
  <2>1. PICK q \in Bijection(1..n, 1..n) : \A k \in 1..n : p[q[k]] = k
    BY <1>2
  <2>2. q \in [1..n -> 1..n]
    BY <1>1, <2>1, BijectionFacts
  <2>3. \A i \in 1..n : q[i] \in 1..n /\ entries[q[i]].version = i
    BY <1>3, <2>1, <2>2
  <2>4. \A i, j \in 1..n : i < j => entries[q[i]].version <= entries[q[j]].version
    BY <1>1, <2>3
  <2> QED BY <1>3, <2>1, <2>4 DEF Ascending
<1>5. PICK q \in Bijection(1..n, 1..n) :
        /\ Ascending(entries, q)
        /\ SortByVersion(entries) = [i \in 1..n |-> entries[q[i]]]
  <2>1. \E q \in Bijection(1..Len(entries), 1..Len(entries)) : Ascending(entries, q)
    BY <1>3, <1>4
  <2>2. \E q \in Bijection(1..Len(entries), 1..Len(entries)) :
           /\ Ascending(entries, q)
           /\ SortByVersion(entries) = [i \in 1..Len(entries) |-> entries[q[i]]]
    BY <2>1, SortIsAscending
  <2>3. Len(entries) = n
    BY <1>3
  <2> QED BY <2>2, <2>3, Zenon
<1>6. q \in [1..n -> 1..n] /\ \A i, j \in 1..n : q[i] = q[j] => i = j
  BY <1>1, BijectionFacts
<1>7. \A i \in 1..n : q[i] \in 1..n /\ p[q[i]] \in 1..n /\ entries[q[i]].version = p[q[i]]
  BY <1>2, <1>3, <1>6
<1> DEFINE g == [i \in 1..n |-> p[q[i]]]
<1>8. g \in [1..n -> 1..n] /\ \A i \in 1..n : g[i] = p[q[i]]
  BY <1>7
<1> HIDE DEF g
<1>9. ASSUME NEW i \in 1..n, NEW j \in 1..n, i < j PROVE g[i] < g[j]
  <2>1. entries[q[i]].version <= entries[q[j]].version
    BY <1>3, <1>5, <1>9 DEF Ascending
  <2>2. p[q[i]] <= p[q[j]]
    BY <1>7, <2>1
  <2>3. q[i] # q[j]
    BY <1>1, <1>6, <1>9
  <2>4. p[q[i]] # p[q[j]]
    BY <1>2, <1>7, <2>3
  <2>5. g[i] = p[q[i]] /\ g[j] = p[q[j]] /\ p[q[i]] \in Nat /\ p[q[j]] \in Nat
    BY <1>1, <1>7, <1>8
  <2> QED BY <2>2, <2>4, <2>5
<1>10. \A i \in 1..n : g[i] = i
  BY <1>1, <1>8, <1>9, IncreasingIsIdentity
<1>11. \A i \in 1..n : entries[q[i]] = versions[i]
  BY <1>3, <1>7, <1>8, <1>10
<1>12. versions = [i \in 1..n |-> versions[i]]
  BY DEF n
<1> QED BY <1>5, <1>11, <1>12 DEF entries

(***************************************************************************)
(* The three read functions tell one story about every key: the history    *)
(* in order, its last entry as the record, its version and hash as the     *)
(* summary's, in whatever order the peer's iterator yields the history.    *)
(***************************************************************************)
THEOREM QueriesTellOneStory == Spec => []QueriesAgree
<1>1. IInv => QueriesAgree
  <2> SUFFICES ASSUME IInv, NEW k \in Key,
                      NEW p \in Bijection(1..Len(history[k]), 1..Len(history[k]))
               PROVE  StoriesAgree(GetProfileHistory(Rearranged(history[k], p), "Org3MSP", k[2]),
                                   GetEmployeeProfileSummary(k[1], "Org3MSP")[k[2]],
                                   GetProfileSectionRecord(history[k], "Org3MSP", k[2]))
    BY DEF QueriesAgree
  <2> DEFINE n == Len(history[k])
  <2>1. /\ history[k] \in Seq(Record) /\ Linked(history[k]) /\ n \in Nat
        /\ k[2] \in ProfileSection /\ k = <<k[1], k[2]>>
    BY DEF IInv, TypeOK, ChainIntact, Key
  <2>2. GetProfileHistory(Rearranged(history[k], p), "Org3MSP", k[2]) = history[k]
    BY <2>1, SortRestores DEF GetProfileHistory, authorizeEvaluate, IsValidProfileSection
  <2>3. GetEmployeeProfileSummary(k[1], "Org3MSP")[k[2]] = SummaryEntry(readHead(history[k]))
    BY <2>1 DEF GetEmployeeProfileSummary, authorizeEvaluate
  <2>4. CASE n = 0
    <3>1. history[k] = <<>> /\ readHead(history[k]) = NoRecord
      BY <2>1, <2>4 DEF readHead
    <3>2. GetProfileSectionRecord(history[k], "Org3MSP", k[2]).code = "NOT_FOUND"
      BY <2>1, <3>1 DEF GetProfileSectionRecord, authorizeEvaluate, IsValidProfileSection, Rejected
    <3>3. SummaryEntry(readHead(history[k])) = [dataHash |-> NoHash, version |-> 0]
      BY <3>1 DEF SummaryEntry
    <3> QED BY <2>1, <2>2, <2>3, <2>4, <3>1, <3>2, <3>3 DEF StoriesAgree
  <2>5. CASE n # 0
    <3>1. /\ history[k] # <<>> /\ readHead(history[k]) = history[k][n]
          /\ history[k][n] \in Record /\ history[k][n].version = n
      BY <2>1, <2>5 DEF readHead, Linked
    <3>2. GetProfileSectionRecord(history[k], "Org3MSP", k[2]).rec = history[k][n]
      BY <2>1, <3>1, NoRecordAssumption
      DEF GetProfileSectionRecord, authorizeEvaluate, IsValidProfileSection, NoOp
    <3>3. SummaryEntry(readHead(history[k])) = [dataHash |-> history[k][n].dataHash, version |-> n]
      BY <3>1, NoRecordAssumption DEF SummaryEntry
    <3> QED BY <2>1, <2>2, <2>3, <3>1, <3>2, <3>3 DEF StoriesAgree
  <2> QED BY <2>4, <2>5
<1> QED BY <1>1, ContractInvariant, PTL
=============================================================================

------------------------ MODULE GatewayClientProofs ------------------------
(***************************************************************************)
(* Proofs about GatewayClient, for any number of writers, any contents,    *)
(* any identities and any retry bound.                                     *)
(***************************************************************************)
EXTENDS GatewayClient, SequenceTheorems, TLAPS

(***************************************************************************)
(* The parts of a transaction identifier.                                  *)
(***************************************************************************)
LEMMA TxIdFacts ==
    /\ \A t \in TxId : Owner(t) \in Client /\ t[2] \in 0..MaxSubmitRetries
    /\ \A c \in Client, a \in 0..MaxSubmitRetries :
         <<c, a>> \in TxId /\ Owner(<<c, a>>) = c
BY RequestAssumption DEF Owner

(***************************************************************************)
(* Records and transactions under way belong to clients.                   *)
(***************************************************************************)
LEMMA Owners ==
    ASSUME TypeOK
    PROVE  /\ Len(history) \in Nat
           /\ \A i \in 1..Len(history) :
                /\ history[i] \in Record
                /\ history[i].recordID \in TxId
                /\ Owner(history[i].recordID) \in Client
           /\ \A tx \in ordering :
                /\ tx \in Transaction /\ tx.rec \in Record
                /\ tx.id \in TxId /\ Owner(tx.id) \in Client
<1>1. Len(history) \in Nat /\ \A i \in 1..Len(history) : history[i] \in Record
  BY DEF TypeOK
<1>2. \A r \in Record : r.recordID \in TxId
  BY DEF Record
<1>3. \A tx \in ordering : tx \in Transaction /\ tx.rec \in Record /\ tx.id \in TxId
  BY DEF TypeOK, Transaction
<1> QED BY <1>1, <1>2, <1>3, TxIdFacts

(***************************************************************************)
(* The head an endorsing or querying peer works with is the last record it *)
(* has committed (readHead on a peer's view).                              *)
(***************************************************************************)
LEMMA HeadOfView ==
    ASSUME TypeOK, SeenInv, NEW p \in Peer
    PROVE  readHead(View(p)) = IF seen[p] = 0 THEN NoRecord ELSE history[seen[p]]
<1>1. seen[p] \in Nat /\ seen[p] <= Len(history) /\ history \in Seq(Record)
  BY DEF TypeOK, SeenInv
<1>2. View(p) \in Seq(Record) /\ Len(View(p)) = seen[p]
  BY <1>1 DEF View
<1>3. CASE seen[p] = 0
  BY <1>1, <1>2, <1>3 DEF readHead, View
<1>4. CASE seen[p] # 0
  <2>1. View(p)[seen[p]] = history[seen[p]]
    BY <1>1, <1>4 DEF View
  <2>2. View(p) # <<>>
    BY <1>2, <1>4
  <2> QED BY <1>2, <1>4, <2>1, <2>2 DEF readHead
<1> QED BY <1>3, <1>4

(***************************************************************************)
(* What a successful endorsement yields: either a no-op that returns the   *)
(* head, or a record that extends it by one link (RecordProfileSection).   *)
(***************************************************************************)
LEMMA SimulationOk ==
    ASSUME TypeOK, SeenInv, ChainIntact, NEW c \in Client, NEW p \in Peer,
           Simulation(c, p).code = "OK"
    PROVE  /\ Simulation(c, p).writes \in BOOLEAN
           /\ Simulation(c, p).rec \in Record
           /\ Simulation(c, p).rec.dataHash = RequestHash[c]
           /\ Simulation(c, p).writes =>
                /\ Simulation(c, p).rec.version = seen[p] + 1
                /\ Simulation(c, p).rec.recordID = CurrentTx(c)
                /\ Simulation(c, p).rec.prevHash =
                     IF seen[p] = 0 THEN NoHash ELSE history[seen[p]].dataHash
                /\ Simulation(c, p).rec.prevHash # RequestHash[c]
           /\ ~Simulation(c, p).writes =>
                /\ seen[p] > 0
                /\ Simulation(c, p).rec = history[seen[p]]
<1> DEFINE head == readHead(View(p))
           args == [section |-> "PERSONAL", dataHash |-> RequestHash[c],
                    prevHash |-> prevHash[c], filled |-> TRUE]
<1>1. head = IF seen[p] = 0 THEN NoRecord ELSE history[seen[p]]
  BY HeadOfView
<1>2. /\ seen[p] \in Nat /\ seen[p] <= Len(history) /\ Len(history) \in Nat
      /\ seen[p] # 0 => history[seen[p]] \in Record /\ history[seen[p]].version = seen[p]
  BY DEF TypeOK, SeenInv, ChainIntact
<1>3. /\ RequestHash[c] \in Hash /\ NoHash \notin Hash
      /\ prevHash[c] \in Hash \union {NoHash}
      /\ CurrentTx(c) \in TxId /\ NoRecord \notin Record
  BY RequestAssumption, HashAssumption, TxIdFacts DEF TypeOK, CurrentTx
<1>4. Simulation(c, p) = RecordProfileSection(head, RequestMsp[c], args, CurrentTx(c))
  BY DEF Simulation
<1>5. \/ /\ head # NoRecord /\ head.dataHash = RequestHash[c]
         /\ Simulation(c, p) = NoOp(head)
      \/ /\ ~(head # NoRecord /\ head.dataHash = RequestHash[c])
         /\ Chains(head, prevHash[c])
         /\ Simulation(c, p) = Written(NextRecord(head, args, CurrentTx(c)))
  BY <1>4 DEF RecordProfileSection, Rejected
<1>6. CASE /\ head # NoRecord /\ head.dataHash = RequestHash[c]
           /\ Simulation(c, p) = NoOp(head)
  BY <1>1, <1>2, <1>3, <1>6 DEF NoOp
<1>7. CASE /\ ~(head # NoRecord /\ head.dataHash = RequestHash[c])
           /\ Chains(head, prevHash[c])
           /\ Simulation(c, p) = Written(NextRecord(head, args, CurrentTx(c)))
  <2> DEFINE new == NextRecord(head, args, CurrentTx(c))
  <2>1. Simulation(c, p).writes = TRUE /\ Simulation(c, p).rec = new
    BY <1>7 DEF Written
  <2>2. /\ new.dataHash = RequestHash[c] /\ new.prevHash = prevHash[c]
        /\ new.recordID = CurrentTx(c) /\ new.version = NextVersion(head)
        /\ new = [dataHash |-> RequestHash[c], prevHash |-> prevHash[c],
                  version |-> NextVersion(head), recordID |-> CurrentTx(c)]
    BY DEF NextRecord, deterministicRecordID
  <2>3. NextVersion(head) = seen[p] + 1
    BY <1>1, <1>2, <1>3 DEF NextVersion
  <2>4. new \in Record
    BY <1>2, <1>3, <2>2, <2>3 DEF Record
  <2>5. prevHash[c] = IF seen[p] = 0 THEN NoHash ELSE history[seen[p]].dataHash
    BY <1>1, <1>2, <1>3, <1>7 DEF Chains
  <2>6. prevHash[c] # RequestHash[c]
    BY <1>1, <1>2, <1>3, <1>7, <2>5
  <2> HIDE DEF new
  <2> QED BY <2>1, <2>2, <2>3, <2>4, <2>5, <2>6
<1> QED BY <1>5, <1>6, <1>7

(***************************************************************************)
(* The initial state satisfies the inductive invariant.                    *)
(***************************************************************************)
LEMMA InitIInv == Init => IInv
<1> SUFFICES ASSUME Init PROVE IInv
  OBVIOUS
<1>1. TypeOK
  BY RequestAssumption DEF Init, TypeOK, Code, Done, Transaction
<1>2. history = <<>> /\ ordering = {} /\ Len(history) = 0
  BY DEF Init
<1>3. SeenInv /\ ChainIntact /\ OrderingInv /\ HistoryInv
  BY <1>2 DEF Init, SeenInv, ChainIntact, OrderingInv, HistoryInv, Peer
<1>4. VerdictInv
  BY TxIdFacts, RequestAssumption DEF Init, VerdictInv, CurrentTx
<1> QED BY <1>1, <1>3, <1>4 DEF IInv

(***************************************************************************)
(* A client that has nothing on the ledger and nothing under way.          *)
(***************************************************************************)
Unattached(c) ==
    /\ \A i \in 1..Len(history) : Owner(history[i].recordID) # c
    /\ \A tx \in ordering : Owner(tx.id) # c

(***************************************************************************)
(* Before an attempt is handed in, after it was refused, and after it was  *)
(* found invalid, a call is unattached: this is why retrying is safe.      *)
(***************************************************************************)
LEMMA NotAttached ==
    ASSUME IInv, NEW c \in Client,
           \/ pc[c] \in {"seed", "submit", "reread"}
           \/ verdict[CurrentTx(c)].code \in {"MVCC_READ_CONFLICT", "OTHER_INVALID"}
    PROVE  Unattached(c)
<1>1. ASSUME NEW i \in 1..Len(history), Owner(history[i].recordID) = c
      PROVE  FALSE
  BY <1>1 DEF IInv, HistoryInv
<1>2. ASSUME NEW tx \in ordering, Owner(tx.id) = c
      PROVE  FALSE
  BY <1>2 DEF IInv, OrderingInv
<1> QED BY <1>1, <1>2 DEF Unattached

(***************************************************************************)
(* A step of an unattached client that leaves the chain and its attempt    *)
(* alone preserves the invariant.                                          *)
(***************************************************************************)
LEMMA ClientMoves ==
    ASSUME IInv, NEW c \in Client, Unattached(c),
           NEW l \in {"submit", "reread", "error"},
           pc' = [pc EXCEPT ![c] = l],
           l = "submit" => pc[c] = "seed",
           prevHash' \in [Client -> Hash \union {NoHash}],
           UNCHANGED <<attempt, result, chainVars>>
    PROVE  IInv'
<1> USE DEF chainVars
<1>1. TypeOK'
  BY DEF IInv, TypeOK, Done
<1>2. SeenInv' /\ ChainIntact'
  BY DEF IInv, SeenInv, ChainIntact
<1>3. \A d \in Client : d # c => pc'[d] = pc[d]
  BY DEF IInv, TypeOK
<1>4. OrderingInv'
  <2> SUFFICES ASSUME NEW tx \in ordering
               PROVE  /\ Fits(tx)'
                      /\ tx.id = CurrentTx(Owner(tx.id))'
                      /\ tx.rec = result[Owner(tx.id)]
                      /\ pc'[Owner(tx.id)] \in {"await", "error"}
                      /\ verdict[tx.id].code = "none"
                      /\ \A other \in ordering : other.id = tx.id => other = tx
    BY DEF OrderingInv
  <2>1. Owner(tx.id) \in Client /\ Owner(tx.id) # c
    BY Owners DEF IInv, Unattached
  <2> QED BY <2>1, <1>3 DEF IInv, OrderingInv, Fits, CurrentTx
<1>5. HistoryInv'
  <2> SUFFICES ASSUME NEW i \in 1..Len(history)
               PROVE  LET id == history[i].recordID
                      IN  /\ id = CurrentTx(Owner(id))'
                          /\ verdict[id].code = "VALID"
                          /\ pc'[Owner(id)] \in {"await", "ok", "error"}
                          /\ \A j \in 1..Len(history) : history[j].recordID = id => j = i
    BY DEF HistoryInv
  <2>1. Owner(history[i].recordID) \in Client /\ Owner(history[i].recordID) # c
    BY Owners DEF IInv, Unattached
  <2> QED BY <2>1, <1>3 DEF IInv, HistoryInv, CurrentTx
<1>6. VerdictInv'
  <2> SUFFICES ASSUME NEW d \in Client
               PROVE  /\ \A a \in 0..MaxSubmitRetries :
                            \/ a > attempt[d]
                            \/ a = attempt[d] /\ pc'[d] \in {"seed", "submit"}
                            => verdict[<<d, a>>].code = "none"
                      /\ verdict[CurrentTx(d)'].code = "VALID" => Anchored(d)'
                      /\ pc'[d] = "ok" => verdict[CurrentTx(d)'].code = "VALID"
    BY DEF VerdictInv
  <2>1. CASE d = c
    <3>1. pc'[c] = l
      BY DEF IInv, TypeOK
    <3> QED BY <2>1, <3>1 DEF IInv, VerdictInv, CurrentTx, Anchored
  <2>2. CASE d # c
    BY <2>2, <1>3 DEF IInv, VerdictInv, CurrentTx, Anchored
  <2> QED BY <2>1, <2>2
<1> QED BY <1>1, <1>2, <1>4, <1>5, <1>6 DEF IInv

(***************************************************************************)
(* A retry: the next attempt number is unused (Reread inside the loop).    *)
(***************************************************************************)
LEMMA RetryMoves ==
    ASSUME IInv, NEW c \in Client, Unattached(c),
           attempt[c] < MaxSubmitRetries,
           pc' = [pc EXCEPT ![c] = "submit"],
           attempt' = [attempt EXCEPT ![c] = @ + 1],
           prevHash' \in [Client -> Hash \union {NoHash}],
           UNCHANGED <<result, chainVars>>
    PROVE  IInv'
<1> USE DEF chainVars
<1>0. attempt[c] \in 0..MaxSubmitRetries /\ MaxSubmitRetries \in Nat
  BY RequestAssumption DEF IInv, TypeOK
<1>1. TypeOK'
  <2>1. attempt' \in [Client -> 0..MaxSubmitRetries]
    BY <1>0 DEF IInv, TypeOK
  <2> QED BY <2>1 DEF IInv, TypeOK, Done
<1>2. SeenInv' /\ ChainIntact'
  BY DEF IInv, SeenInv, ChainIntact
<1>3. \A d \in Client : d # c => pc'[d] = pc[d] /\ attempt'[d] = attempt[d]
  BY DEF IInv, TypeOK
<1>4. OrderingInv'
  <2> SUFFICES ASSUME NEW tx \in ordering
               PROVE  /\ Fits(tx)'
                      /\ tx.id = CurrentTx(Owner(tx.id))'
                      /\ tx.rec = result[Owner(tx.id)]
                      /\ pc'[Owner(tx.id)] \in {"await", "error"}
                      /\ verdict[tx.id].code = "none"
                      /\ \A other \in ordering : other.id = tx.id => other = tx
    BY DEF OrderingInv
  <2>1. Owner(tx.id) \in Client /\ Owner(tx.id) # c
    BY Owners DEF IInv, Unattached
  <2> QED BY <2>1, <1>3 DEF IInv, OrderingInv, Fits, CurrentTx
<1>5. HistoryInv'
  <2> SUFFICES ASSUME NEW i \in 1..Len(history)
               PROVE  LET id == history[i].recordID
                      IN  /\ id = CurrentTx(Owner(id))'
                          /\ verdict[id].code = "VALID"
                          /\ pc'[Owner(id)] \in {"await", "ok", "error"}
                          /\ \A j \in 1..Len(history) : history[j].recordID = id => j = i
    BY DEF HistoryInv
  <2>1. Owner(history[i].recordID) \in Client /\ Owner(history[i].recordID) # c
    BY Owners DEF IInv, Unattached
  <2> QED BY <2>1, <1>3 DEF IInv, HistoryInv, CurrentTx
<1>6. VerdictInv'
  <2> SUFFICES ASSUME NEW d \in Client
               PROVE  /\ \A a \in 0..MaxSubmitRetries :
                            \/ a > attempt'[d]
                            \/ a = attempt'[d] /\ pc'[d] \in {"seed", "submit"}
                            => verdict[<<d, a>>].code = "none"
                      /\ verdict[CurrentTx(d)'].code = "VALID" => Anchored(d)'
                      /\ pc'[d] = "ok" => verdict[CurrentTx(d)'].code = "VALID"
    BY DEF VerdictInv
  <2>1. CASE d = c
    <3>1. pc'[c] = "submit" /\ attempt'[c] = attempt[c] + 1
      BY DEF IInv, TypeOK
    <3>2. \A a \in 0..MaxSubmitRetries : a >= attempt'[c] => verdict[<<c, a>>].code = "none"
      BY <3>1, <1>0 DEF IInv, VerdictInv
    <3>3. verdict[CurrentTx(c)'].code = "none"
      BY <3>1, <3>2, <1>0 DEF CurrentTx
    <3> QED BY <2>1, <3>1, <3>2, <3>3, <1>0
  <2>2. CASE d # c
    BY <2>2, <1>3 DEF IInv, VerdictInv, CurrentTx, Anchored
  <2> QED BY <2>1, <2>2
<1> QED BY <1>1, <1>2, <1>4, <1>5, <1>6 DEF IInv

(***************************************************************************)
(* The end of a call that was waiting: with a valid transaction, or        *)
(* without a commit status (Committed, StatusUnavailable).                 *)
(***************************************************************************)
LEMMA CallEnds ==
    ASSUME IInv, NEW c \in Client, pc[c] = "await",
           NEW l \in {"ok", "error"},
           l = "ok" => verdict[CurrentTx(c)].code = "VALID",
           pc' = [pc EXCEPT ![c] = l],
           UNCHANGED <<attempt, prevHash, result, chainVars>>
    PROVE  IInv'
<1> USE DEF chainVars
<1>1. TypeOK'
  BY DEF IInv, TypeOK, Done
<1>2. SeenInv' /\ ChainIntact'
  BY DEF IInv, SeenInv, ChainIntact
<1>3. pc'[c] = l /\ \A d \in Client : d # c => pc'[d] = pc[d]
  BY DEF IInv, TypeOK
<1>4. OrderingInv'
  <2> SUFFICES ASSUME NEW tx \in ordering
               PROVE  /\ Fits(tx)'
                      /\ tx.id = CurrentTx(Owner(tx.id))'
                      /\ tx.rec = result[Owner(tx.id)]
                      /\ pc'[Owner(tx.id)] \in {"await", "error"}
                      /\ verdict[tx.id].code = "none"
                      /\ \A other \in ordering : other.id = tx.id => other = tx
    BY DEF OrderingInv
  <2>1. Owner(tx.id) \in Client
    BY Owners DEF IInv
  <2>2. Owner(tx.id) = c => l = "error"
    BY DEF IInv, OrderingInv
  <2> QED BY <2>1, <2>2, <1>3 DEF IInv, OrderingInv, Fits, CurrentTx
<1>5. HistoryInv'
  <2> SUFFICES ASSUME NEW i \in 1..Len(history)
               PROVE  LET id == history[i].recordID
                      IN  /\ id = CurrentTx(Owner(id))'
                          /\ verdict[id].code = "VALID"
                          /\ pc'[Owner(id)] \in {"await", "ok", "error"}
                          /\ \A j \in 1..Len(history) : history[j].recordID = id => j = i
    BY DEF HistoryInv
  <2>1. Owner(history[i].recordID) \in Client
    BY Owners DEF IInv
  <2> QED BY <2>1, <1>3 DEF IInv, HistoryInv, CurrentTx
<1>6. VerdictInv'
  BY <1>3 DEF IInv, VerdictInv, CurrentTx, Anchored
<1> QED BY <1>1, <1>2, <1>4, <1>5, <1>6 DEF IInv

(***************************************************************************)
(* Handing in an attempt (Submit).                                         *)
(***************************************************************************)
LEMMA SubmitPreserves ==
    ASSUME IInv, NEW c \in Client, Submit(c)
    PROVE  IInv'
<1> DEFINE new == [id          |-> CurrentTx(c),
                   readVersion |-> seen["org1"],
                   writes      |-> Simulation(c, "org1").writes,
                   rec         |-> Simulation(c, "org1").rec]
<1>1. /\ pc[c] = "submit"
      /\ Simulation(c, "org1").code = "OK"
      /\ ordering' = ordering \union {new}
      /\ result' = [result EXCEPT ![c] = Simulation(c, "org1").rec]
      /\ pc' = [pc EXCEPT ![c] = "await"]
      /\ UNCHANGED <<history, seen, verdict, attempt, prevHash>>
  BY DEF Submit, EndorsersAgree, Goto
<1>2. "org1" \in Peer /\ seen["org1"] \in Nat /\ seen["org1"] <= Len(history)
  BY DEF IInv, TypeOK, SeenInv, Peer
<1>3. CurrentTx(c) \in TxId /\ Owner(CurrentTx(c)) = c
  BY TxIdFacts DEF CurrentTx, IInv, TypeOK
<1>4. /\ new.id = CurrentTx(c) /\ new.readVersion = seen["org1"]
      /\ new.writes = Simulation(c, "org1").writes
      /\ new.rec = Simulation(c, "org1").rec
  OBVIOUS
<1>5. new \in Transaction /\ new.rec \in Record /\ Fits(new)
  <2>1. /\ new.writes \in BOOLEAN /\ new.rec \in Record
        /\ new.rec.dataHash = RequestHash[c]
        /\ new.writes =>
             /\ new.rec.version = seen["org1"] + 1
             /\ new.rec.recordID = CurrentTx(c)
             /\ new.rec.prevHash = IF seen["org1"] = 0 THEN NoHash
                                   ELSE history[seen["org1"]].dataHash
             /\ new.rec.prevHash # RequestHash[c]
        /\ ~new.writes => seen["org1"] > 0 /\ new.rec = history[seen["org1"]]
    BY <1>1, <1>2, <1>4, SimulationOk DEF IInv
  <2>2. new \in Transaction
    BY <1>2, <1>3, <2>1 DEF Transaction
  <2> HIDE DEF new
  <2> QED BY <1>2, <1>3, <1>4, <2>1, <2>2 DEF Fits
<1> HIDE DEF new
<1>6. Unattached(c)
  BY <1>1, NotAttached
<1>7. verdict[CurrentTx(c)].code = "none"
  BY <1>1, RequestAssumption DEF IInv, VerdictInv, CurrentTx, TypeOK
<1>8. /\ pc'[c] = "await" /\ result'[c] = new.rec
      /\ \A d \in Client : d # c => pc'[d] = pc[d] /\ result'[d] = result[d]
  BY <1>1, <1>4 DEF IInv, TypeOK
<1>9. TypeOK'
  BY <1>1, <1>4, <1>5 DEF IInv, TypeOK, Done
<1>10. SeenInv' /\ ChainIntact'
  BY <1>1 DEF IInv, SeenInv, ChainIntact
<1>11. OrderingInv'
  <2> SUFFICES ASSUME NEW tx \in ordering'
               PROVE  /\ Fits(tx)'
                      /\ tx.id = CurrentTx(Owner(tx.id))'
                      /\ tx.rec = result'[Owner(tx.id)]
                      /\ pc'[Owner(tx.id)] \in {"await", "error"}
                      /\ verdict'[tx.id].code = "none"
                      /\ \A other \in ordering' : other.id = tx.id => other = tx
    BY DEF OrderingInv
  <2>1. CASE tx = new
    <3>1. \A other \in ordering : other.id # new.id
      BY <1>3, <1>4, <1>6 DEF Unattached
    <3> QED BY <2>1, <3>1, <1>1, <1>3, <1>4, <1>5, <1>7, <1>8 DEF Fits, CurrentTx
  <2>2. CASE tx \in ordering
    <3>1. Owner(tx.id) \in Client /\ Owner(tx.id) # c
      BY <2>2, <1>6, Owners DEF IInv, Unattached
    <3>2. tx.id # new.id
      BY <3>1, <1>3, <1>4
    <3> QED BY <2>2, <3>1, <3>2, <1>1, <1>8 DEF IInv, OrderingInv, Fits, CurrentTx
  <2> QED BY <1>1, <2>1, <2>2
<1>12. HistoryInv'
  <2> SUFFICES ASSUME NEW i \in 1..Len(history)
               PROVE  LET id == history[i].recordID
                      IN  /\ id = CurrentTx(Owner(id))'
                          /\ verdict[id].code = "VALID"
                          /\ pc'[Owner(id)] \in {"await", "ok", "error"}
                          /\ \A j \in 1..Len(history) : history[j].recordID = id => j = i
    BY <1>1 DEF HistoryInv
  <2>1. Owner(history[i].recordID) \in Client
    BY Owners DEF IInv
  <2> QED BY <2>1, <1>1, <1>8 DEF IInv, HistoryInv, CurrentTx
<1>13. VerdictInv'
  <2> SUFFICES ASSUME NEW d \in Client
               PROVE  /\ \A a \in 0..MaxSubmitRetries :
                            \/ a > attempt[d]
                            \/ a = attempt[d] /\ pc'[d] \in {"seed", "submit"}
                            => verdict[<<d, a>>].code = "none"
                      /\ verdict[CurrentTx(d)].code = "VALID" => Anchored(d)'
                      /\ pc'[d] = "ok" => verdict[CurrentTx(d)].code = "VALID"
    BY <1>1 DEF VerdictInv, CurrentTx
  <2>1. CASE d = c
    BY <2>1, <1>7, <1>8 DEF IInv, VerdictInv
  <2>2. CASE d # c
    BY <2>2, <1>1, <1>8 DEF IInv, VerdictInv, Anchored
  <2> QED BY <2>1, <2>2
<1> QED BY <1>9, <1>10, <1>11, <1>12, <1>13 DEF IInv

(***************************************************************************)
(* Validation of a transaction: it extends the chain only when the record  *)
(* it read is still the last one (Order, OrderInvalid).                    *)
(***************************************************************************)
LEMMA ValidatePreserves ==
    ASSUME IInv, NEW tx \in ordering, NEW code \in Code \ {"none"},
           code = "VALID" => MvccValid(tx),
           Validate(tx, code)
    PROVE  IInv'
<1> DEFINE appends == code = "VALID" /\ tx.writes
           o == Owner(tx.id)
<1>1. /\ ordering' = ordering \ {tx}
      /\ history' = IF appends THEN Append(history, tx.rec) ELSE history
      /\ verdict' = [verdict EXCEPT ![tx.id] = [code |-> code, at |-> Len(history')]]
      /\ UNCHANGED <<seen, pc, attempt, prevHash, result>>
  BY DEF Validate, clientVars
<1>2. /\ tx.id \in TxId /\ o \in Client /\ tx.rec \in Record
      /\ Len(history) \in Nat /\ history \in Seq(Record)
      /\ tx \in Transaction /\ tx.readVersion \in Nat /\ tx.writes \in BOOLEAN
  BY Owners DEF IInv, TypeOK, Transaction
<1>3. /\ Fits(tx) /\ tx.id = CurrentTx(o) /\ tx.rec = result[o]
      /\ pc[o] \in {"await", "error"} /\ verdict[tx.id].code = "none"
      /\ \A other \in ordering : other.id = tx.id => other = tx
  BY DEF IInv, OrderingInv
<1>4. /\ history' \in Seq(Record)
      /\ Len(history') \in Nat /\ Len(history) <= Len(history')
      /\ \A i \in 1..Len(history) : history'[i] = history[i]
      /\ appends => Len(history') = Len(history) + 1 /\ history'[Len(history) + 1] = tx.rec
      /\ ~appends => history' = history
  BY <1>1, <1>2
<1>5. /\ verdict'[tx.id].code = code
      /\ \A t \in TxId : t # tx.id => verdict'[t] = verdict[t]
      /\ verdict' \in [TxId -> [code : Code, at : Nat]]
  BY <1>1, <1>2, <1>4 DEF IInv, TypeOK
<1>6. TypeOK'
  BY <1>1, <1>4, <1>5 DEF IInv, TypeOK
<1>7. SeenInv'
  BY <1>1, <1>2, <1>4 DEF IInv, TypeOK, SeenInv
<1>8. appends => /\ tx.readVersion = Len(history)
                 /\ tx.rec.version = Len(history) + 1
                 /\ tx.rec.recordID = tx.id
                 /\ tx.rec.prevHash = IF Len(history) = 0 THEN NoHash
                                      ELSE history[Len(history)].dataHash
                 /\ tx.rec.prevHash # tx.rec.dataHash
  BY <1>3 DEF Fits, MvccValid
<1>9. ChainIntact'
  <2> SUFFICES ASSUME NEW i \in 1..Len(history')
               PROVE  /\ history'[i].version = i
                      /\ history'[i].prevHash =
                           IF i = 1 THEN NoHash ELSE history'[i - 1].dataHash
                      /\ history'[i].prevHash # history'[i].dataHash
    BY DEF ChainIntact
  <2>1. CASE i \in 1..Len(history)
    <3>1. i # 1 => i - 1 \in 1..Len(history)
      BY <2>1, <1>2
    <3> QED BY <2>1, <3>1, <1>4 DEF IInv, ChainIntact
  <2>2. CASE i \notin 1..Len(history)
    <3>1. appends /\ i = Len(history) + 1
      BY <2>2, <1>2, <1>4
    <3>2. i # 1 => i - 1 = Len(history) /\ i - 1 \in 1..Len(history)
      BY <3>1, <1>2
    <3> QED BY <3>1, <3>2, <1>2, <1>4, <1>8
  <2> QED BY <2>1, <2>2
<1>10. OrderingInv'
  <2> SUFFICES ASSUME NEW t \in ordering, t # tx
               PROVE  /\ Fits(t)'
                      /\ t.id = CurrentTx(Owner(t.id))'
                      /\ t.rec = result'[Owner(t.id)]
                      /\ pc'[Owner(t.id)] \in {"await", "error"}
                      /\ verdict'[t.id].code = "none"
                      /\ \A other \in ordering' : other.id = t.id => other = t
    BY <1>1 DEF OrderingInv
  <2>1. t.id \in TxId /\ t.id # tx.id /\ t.readVersion \in Nat
    BY <1>3, Owners DEF IInv, Transaction
  <2>2. Fits(t)
    BY DEF IInv, OrderingInv
  <2>3. Fits(t)'
    <3>1. t.readVersion # 0 => t.readVersion \in 1..Len(history)
      BY <2>1, <2>2, <1>2 DEF Fits
    <3>2. t.readVersion # 0 => history'[t.readVersion] = history[t.readVersion]
      BY <3>1, <1>4
    <3> QED BY <2>1, <2>2, <3>2, <1>2, <1>4 DEF Fits
  <2> QED BY <2>1, <2>3, <1>1, <1>5 DEF IInv, OrderingInv, CurrentTx
<1>11. HistoryInv'
  <2>1. \A i \in 1..Len(history) : history[i].recordID # tx.id
    BY <1>3 DEF IInv, HistoryInv
  <2> SUFFICES ASSUME NEW i \in 1..Len(history')
               PROVE  /\ history'[i].recordID = CurrentTx(Owner(history[i].recordID))'
                      /\ verdict'[history'[i].recordID].code = "VALID"
                      /\ pc'[Owner(history'[i].recordID)] \in {"await", "ok", "error"}
                      /\ \A j \in 1..Len(history') :
                           history'[j].recordID = history'[i].recordID => j = i
    BY DEF HistoryInv
  <2>2. CASE i \in 1..Len(history)
    <3>1. history'[i] = history[i] /\ history[i].recordID \in TxId
      BY <2>2, <1>4, Owners DEF IInv
    <3>2. ASSUME NEW j \in 1..Len(history'), history'[j].recordID = history[i].recordID
          PROVE  j = i
      <4>1. CASE j \in 1..Len(history)
        BY <4>1, <3>2, <2>2, <1>4 DEF IInv, HistoryInv
      <4>2. CASE j \notin 1..Len(history)
        <5>1. appends /\ j = Len(history) + 1
          BY <4>2, <1>2, <1>4
        <5>2. history'[j].recordID = tx.id
          BY <5>1, <1>4, <1>8
        <5> QED BY <5>2, <3>2, <2>1, <2>2
      <4> QED BY <4>1, <4>2
    <3> QED BY <2>1, <2>2, <3>1, <3>2, <1>1, <1>5 DEF IInv, HistoryInv, CurrentTx
  <2>3. CASE i \notin 1..Len(history)
    <3>1. appends /\ i = Len(history) + 1
      BY <2>3, <1>2, <1>4
    <3>2. history'[i].recordID = tx.id
      BY <3>1, <1>4, <1>8
    <3>3. ASSUME NEW j \in 1..Len(history'), history'[j].recordID = tx.id
          PROVE  j = i
      <4>1. j \notin 1..Len(history)
        BY <3>3, <2>1, <1>4
      <4> QED BY <4>1, <3>1, <1>2, <1>4
    <3> QED BY <3>1, <3>2, <3>3, <1>1, <1>3, <1>5 DEF CurrentTx
  <2> QED BY <2>2, <2>3
<1>12. VerdictInv'
  <2> SUFFICES ASSUME NEW d \in Client
               PROVE  /\ \A a \in 0..MaxSubmitRetries :
                            \/ a > attempt[d]
                            \/ a = attempt[d] /\ pc[d] \in {"seed", "submit"}
                            => verdict'[<<d, a>>].code = "none"
                      /\ verdict'[CurrentTx(d)].code = "VALID" => Anchored(d)'
                      /\ pc[d] = "ok" => verdict'[CurrentTx(d)].code = "VALID"
    BY <1>1 DEF VerdictInv, CurrentTx
  <2>0. attempt[d] \in 0..MaxSubmitRetries /\ CurrentTx(d) \in TxId /\ Owner(CurrentTx(d)) = d
    BY TxIdFacts DEF IInv, TypeOK, CurrentTx
  <2>1. ASSUME NEW a \in 0..MaxSubmitRetries,
               a > attempt[d] \/ (a = attempt[d] /\ pc[d] \in {"seed", "submit"})
        PROVE  verdict'[<<d, a>>].code = "none"
    <3>1. <<d, a>> \in TxId /\ verdict[<<d, a>>].code = "none"
      BY <2>1, TxIdFacts DEF IInv, VerdictInv
    <3>2. <<d, a>> # tx.id
      <4>1. SUFFICES ASSUME <<d, a>> = tx.id PROVE FALSE
        OBVIOUS
      <4>2. o = d /\ <<d, a>> = <<d, attempt[d]>>
        BY <4>1, <1>3, TxIdFacts DEF CurrentTx
      <4>3. a = attempt[d]
        BY <4>2
      <4> QED BY <2>0, <2>1, <4>2, <4>3, <1>3
    <3> QED BY <3>1, <3>2, <1>5
  <2>2. Anchored(d) => Anchored(d)'
    BY <1>1, <1>2, <1>4 DEF Anchored
  <2>3. CASE d = o
    <3>1. tx.id = CurrentTx(d) /\ tx.rec = result[d] /\ pc[d] # "ok"
      BY <2>3, <1>3
    <3>2. ASSUME code = "VALID" PROVE Anchored(d)'
      <4>1. tx.readVersion = Len(history)
        BY <3>2 DEF MvccValid
      <4>2. result'[d] = tx.rec /\ tx.rec.dataHash = RequestHash[d]
        BY <3>1, <1>1, <1>3, <2>3 DEF Fits
      <4>3. CASE tx.writes
        BY <3>2, <4>1, <4>2, <4>3, <1>2, <1>4, <1>8 DEF Anchored
      <4>4. CASE ~tx.writes
        <5>1. Len(history) > 0 /\ tx.rec = history[Len(history)]
          BY <4>1, <4>4, <1>3 DEF Fits
        <5>2. tx.rec.version = Len(history)
          BY <5>1, <1>2 DEF IInv, ChainIntact
        <5> QED BY <4>2, <4>4, <5>1, <5>2, <1>2, <1>4 DEF Anchored
      <4> QED BY <4>3, <4>4, <1>2
    <3> QED BY <2>1, <3>1, <3>2, <1>5
  <2>4. CASE d # o
    <3>1. CurrentTx(d) # tx.id
      BY <2>0, <2>4
    <3>2. verdict'[CurrentTx(d)] = verdict[CurrentTx(d)]
      BY <3>1, <2>0, <1>5
    <3> QED BY <2>1, <2>2, <3>2 DEF IInv, VerdictInv
  <2> QED BY <2>3, <2>4
<1> QED BY <1>6, <1>7, <1>9, <1>10, <1>11, <1>12 DEF IInv

(***************************************************************************)
(* A lost transaction and a peer that catches up disturb nothing.          *)
(***************************************************************************)
LEMMA NetworkPreserves ==
    ASSUME IInv,
           (\E tx \in ordering : Lose(tx)) \/ (\E p \in Peer : CatchUp(p))
    PROVE  IInv'
<1>1. CASE \E tx \in ordering : Lose(tx)
  <2>1. PICK tx \in ordering : Lose(tx)
    BY <1>1
  <2>2. ordering' \subseteq ordering
        /\ UNCHANGED <<history, seen, verdict, pc, attempt, prevHash, result>>
    BY <2>1 DEF Lose, clientVars
  <2>3. TypeOK' /\ SeenInv' /\ ChainIntact'
    BY <2>2 DEF IInv, TypeOK, SeenInv, ChainIntact
  <2>4. OrderingInv'
    BY <2>2 DEF IInv, OrderingInv, Fits, CurrentTx
  <2>5. HistoryInv' /\ VerdictInv'
    BY <2>2 DEF IInv, HistoryInv, VerdictInv, Anchored, CurrentTx
  <2> QED BY <2>3, <2>4, <2>5 DEF IInv
<1>2. CASE \E p \in Peer : CatchUp(p)
  <2>1. PICK p \in Peer : CatchUp(p)
    BY <1>2
  <2>2. /\ seen[p] < Len(history) /\ seen' = [seen EXCEPT ![p] = @ + 1]
        /\ UNCHANGED <<history, ordering, verdict, pc, attempt, prevHash, result>>
    BY <2>1 DEF CatchUp, clientVars
  <2>3. Len(history) \in Nat /\ seen[p] \in Nat
    BY Owners DEF IInv, TypeOK
  <2>4. TypeOK' /\ SeenInv'
    BY <2>2, <2>3 DEF IInv, TypeOK, SeenInv
  <2>5. ChainIntact' /\ OrderingInv' /\ HistoryInv' /\ VerdictInv'
    BY <2>2 DEF IInv, ChainIntact, OrderingInv, Fits, HistoryInv, VerdictInv, Anchored, CurrentTx
  <2> QED BY <2>4, <2>5 DEF IInv
<1> QED BY <1>1, <1>2

(***************************************************************************)
(* The head a client is answered with carries a hash (Evaluate).           *)
(***************************************************************************)
LEMMA EvaluatedHash ==
    ASSUME IInv, NEW c \in Client, Evaluate(c).code = "OK"
    PROVE  Evaluate(c).rec.dataHash \in Hash
<1>1. readHead(View("org1")) =
        IF seen["org1"] = 0 THEN NoRecord ELSE history[seen["org1"]]
  BY HeadOfView DEF IInv, Peer
<1>2. Evaluate(c).rec = readHead(View("org1")) /\ readHead(View("org1")) # NoRecord
  BY DEF Evaluate, GetProfileSectionRecord, Rejected, NoOp
<1>3. seen["org1"] \in 1..Len(history)
  BY <1>1, <1>2 DEF IInv, TypeOK, SeenInv, Peer
<1> QED BY <1>1, <1>2, <1>3, Owners DEF IInv, Record

(***************************************************************************)
(* Every step preserves the inductive invariant: one case per action.      *)
(***************************************************************************)
LEMMA NextIInv == IInv /\ [Next]_vars => IInv'
<1> SUFFICES ASSUME IInv, [Next]_vars PROVE IInv'
  OBVIOUS
<1>0. prevHash \in [Client -> Hash \union {NoHash}]
  BY DEF IInv, TypeOK
<1>1. ASSUME NEW c \in Client, Seed(c) PROVE IInv'
  <2>1. Unattached(c)
    BY <1>1, NotAttached DEF Seed
  <2>2. prevHash' \in [Client -> Hash \union {NoHash}]
    BY <1>0, <1>1, EvaluatedHash DEF Seed
  <2> QED BY <1>1, <2>1, <2>2, ClientMoves DEF Seed, Goto
<1>2. ASSUME NEW c \in Client, SeedUnavailable(c) PROVE IInv'
  <2>1. Unattached(c)
    BY <1>2, NotAttached DEF SeedUnavailable
  <2> QED BY <1>0, <1>2, <2>1, ClientMoves DEF SeedUnavailable, Goto
<1>3. ASSUME NEW c \in Client,
             SubmitStale(c) \/ SubmitRefused(c) \/ SubmitUnavailable(c)
      PROVE  IInv'
  <2>1. /\ pc[c] = "submit"
        /\ \E l \in {"reread", "error"} : pc' = [pc EXCEPT ![c] = l]
        /\ UNCHANGED <<attempt, prevHash, result, chainVars>>
    BY <1>3 DEF SubmitStale, SubmitRefused, SubmitUnavailable, Goto
  <2>2. Unattached(c)
    BY <2>1, NotAttached
  <2> QED BY <1>0, <2>1, <2>2, ClientMoves
<1>4. ASSUME NEW c \in Client, Submit(c) PROVE IInv'
  BY <1>4, SubmitPreserves
<1>5. ASSUME NEW c \in Client, Committed(c) \/ StatusUnavailable(c) PROVE IInv'
  BY <1>5, CallEnds DEF Committed, StatusUnavailable, Status, Goto
<1>6. ASSUME NEW c \in Client, ReadConflict(c) \/ OtherwiseInvalid(c) PROVE IInv'
  <2>1. /\ verdict[CurrentTx(c)].code \in {"MVCC_READ_CONFLICT", "OTHER_INVALID"}
        /\ \E l \in {"reread", "error"} : pc' = [pc EXCEPT ![c] = l]
        /\ UNCHANGED <<attempt, prevHash, result, chainVars>>
    BY <1>6 DEF ReadConflict, OtherwiseInvalid, Status, Goto
  <2>2. Unattached(c)
    BY <2>1, NotAttached
  <2> QED BY <1>0, <2>1, <2>2, ClientMoves
<1>7. ASSUME NEW c \in Client, Reread(c) PROVE IInv'
  <2>1. Unattached(c)
    BY <1>7, NotAttached DEF Reread
  <2>2. prevHash' \in [Client -> Hash \union {NoHash}]
    BY <1>0, <1>7, EvaluatedHash DEF Reread
  <2>3. CASE attempt[c] < MaxSubmitRetries
    BY <1>7, <2>1, <2>2, <2>3, RetryMoves DEF Reread, Goto
  <2>4. CASE ~(attempt[c] < MaxSubmitRetries)
    BY <1>7, <2>1, <2>2, <2>4, ClientMoves DEF Reread, Goto
  <2> QED BY <2>3, <2>4
<1>8. ASSUME NEW c \in Client, RereadRefused(c) \/ RereadUnavailable(c) PROVE IInv'
  <2>1. /\ pc[c] = "reread" /\ pc' = [pc EXCEPT ![c] = "error"]
        /\ UNCHANGED <<attempt, prevHash, result, chainVars>>
    BY <1>8 DEF RereadRefused, RereadUnavailable, Goto
  <2>2. Unattached(c)
    BY <2>1, NotAttached
  <2> QED BY <1>0, <2>1, <2>2, ClientMoves
<1>9. ASSUME NEW tx \in ordering, Order(tx) \/ OrderInvalid(tx) PROVE IInv'
  BY <1>9, ValidatePreserves DEF Order, OrderInvalid, Code
<1>10. ASSUME (\E tx \in ordering : Lose(tx)) \/ (\E p \in Peer : CatchUp(p))
       PROVE  IInv'
  BY <1>10, NetworkPreserves
<1>11. CASE UNCHANGED vars
  BY <1>11 DEF vars, IInv, TypeOK, SeenInv, ChainIntact, OrderingInv, Fits,
               HistoryInv, VerdictInv, Anchored, CurrentTx
<1> QED
  BY <1>1, <1>2, <1>3, <1>4, <1>5, <1>6, <1>7, <1>8, <1>9, <1>10, <1>11
     DEF Next, ClientStep, ClientFault

(***************************************************************************)
(* The inductive invariant holds of every behaviour of the gateway client, *)
(* the contract and the network.                                           *)
(***************************************************************************)
THEOREM Invariance == Spec => []IInv
<1>1. Init => IInv
  BY InitIInv
<1>2. IInv /\ [Next]_vars => IInv'
  BY NextIInv
<1> QED BY <1>1, <1>2, PTL DEF Spec

(***************************************************************************)
(* SubmitRecordProfileSection and RecordProfileSection keep their types.   *)
(***************************************************************************)
THEOREM TypeCorrect == Spec => []TypeOK
<1>1. IInv => TypeOK
  BY DEF IInv
<1> QED BY <1>1, Invariance, PTL

(***************************************************************************)
(* The chain RecordProfileSection writes is never broken, for any number   *)
(* of concurrent writers, attempts, lagging peers and faults.              *)
(***************************************************************************)
THEOREM ChainNeverBreaks == Spec => []ChainIntact
<1>1. IInv => ChainIntact
  BY DEF IInv
<1> QED BY <1>1, Invariance, PTL

(***************************************************************************)
(* The retry loop of SubmitRecordProfileSection anchors at most once.      *)
(***************************************************************************)
THEOREM RetryIsSafe == Spec => []AtMostOnce
<1>1. ASSUME IInv PROVE AtMostOnce
  <2> SUFFICES ASSUME NEW i \in 1..Len(history), NEW j \in 1..Len(history),
                      Owner(history[i].recordID) = Owner(history[j].recordID)
               PROVE  i = j
    BY DEF AtMostOnce
  <2>1. history[i].recordID = history[j].recordID
    BY <1>1 DEF IInv, HistoryInv
  <2> QED BY <1>1, <2>1 DEF IInv, HistoryInv
<1> QED BY <1>1, Invariance, PTL

(***************************************************************************)
(* A nil error of SubmitRecordProfileSection means the content is on the   *)
(* ledger, at the version the response names.                              *)
(***************************************************************************)
THEOREM SuccessIsReal == Spec => []SuccessIsAnchored
<1>1. IInv => SuccessIsAnchored
  BY DEF IInv, VerdictInv, SuccessIsAnchored
<1> QED BY <1>1, Invariance, PTL

(***************************************************************************)
(* The retry loop of SubmitRecordProfileSection starts an attempt only     *)
(* when no earlier one is on the ledger or may still get there.            *)
(***************************************************************************)
THEOREM RetriesFollowDeath == Spec => RetryOnlyAfterDeath
<1>1. ASSUME IInv, Next, NEW c \in Client, attempt'[c] # attempt[c]
      PROVE  ~OnLedger(c) /\ ~UnderWay(c)
  <2>1. PICK d \in Client : Reread(d)
    BY <1>1 DEF Next, ClientStep, ClientFault, Seed, Submit, SubmitStale, SubmitRefused,
                Committed, ReadConflict, OtherwiseInvalid, RereadRefused, SeedUnavailable,
                SubmitUnavailable, StatusUnavailable, RereadUnavailable, Order, OrderInvalid,
                Validate, Lose, CatchUp, clientVars
  <2>2. d = c /\ pc[c] = "reread"
    BY <1>1, <2>1 DEF Reread, IInv, TypeOK
  <2> QED BY <1>1, <2>2, NotAttached DEF Unattached, OnLedger, UnderWay
<1>2. IInv /\ [Next]_vars =>
        [\A c \in Client : attempt'[c] # attempt[c] => ~OnLedger(c) /\ ~UnderWay(c)]_vars
  BY <1>1
<1> QED BY <1>2, Invariance, PTL DEF Spec, RetryOnlyAfterDeath
-----------------------------------------------------------------------------
(* The gateway client on its channel implements ProfileChain. *)

Link == [content : Hash, by : Client]

(***************************************************************************)
(* The abstract chain as a sequence, element by element.                   *)
(***************************************************************************)
LEMMA ChainFacts ==
    ASSUME TypeOK
    PROVE  /\ AbstractChain \in Seq(Link)
           /\ Len(AbstractChain) = Len(history)
           /\ \A i \in 1..Len(history) :
                /\ AbstractChain[i].content = history[i].dataHash
                /\ AbstractChain[i].by = Owner(history[i].recordID)
<1>1. /\ Len(history) \in Nat
      /\ \A i \in 1..Len(history) :
           history[i].dataHash \in Hash /\ Owner(history[i].recordID) \in Client
  BY Owners DEF Record
<1>2. AbstractChain \in [1..Len(history) -> Link]
  BY <1>1 DEF AbstractChain, Link
<1>3. AbstractChain \in Seq(Link)
  BY <1>1, <1>2, SeqDef
<1>4. Len(AbstractChain) = Len(history)
  BY <1>1, <1>2, <1>3, LenProperties
<1> QED BY <1>3, <1>4 DEF AbstractChain

(***************************************************************************)
(* A call has appended exactly when a record of the ledger is its own.     *)
(***************************************************************************)
LEMMA AppendedFacts ==
    ASSUME TypeOK, NEW c \in Client
    PROVE  Abstract!HasAppended(c) <=>
             \E i \in 1..Len(history) : Owner(history[i].recordID) = c
BY ChainFacts DEF Abstract!HasAppended

(***************************************************************************)
(* A step that leaves the ledger alone leaves the abstract chain alone.    *)
(***************************************************************************)
LEMMA ChainUnchanged ==
    ASSUME UNCHANGED history
    PROVE  UNCHANGED AbstractChain
BY DEF AbstractChain

(***************************************************************************)
(* The initial state is an initial state of the abstract chain.            *)
(***************************************************************************)
LEMMA InitRefines == Init => Abstract!Init
<1> SUFFICES ASSUME Init PROVE Abstract!Init
  OBVIOUS
<1>1. TypeOK /\ Len(history) = 0
  BY InitIInv DEF IInv, Init
<1>2. AbstractChain = <<>>
  BY <1>1, ChainFacts, EmptySeq, SeqEqual
<1>3. AbstractAnswer = [c \in Client |-> "none"]
  BY DEF Init, AbstractAnswer, Done
<1> QED BY <1>2, <1>3 DEF Abstract!Init

(***************************************************************************)
(* A client that moves without ending changes no answer; one that ends     *)
(* gives its only answer.                                                  *)
(***************************************************************************)
LEMMA AnswerMoves ==
    ASSUME IInv, NEW c \in Client, pc[c] \notin Done,
           NEW l \in {"submit", "await", "reread"} \union Done,
           pc' = [pc EXCEPT ![c] = l],
           UNCHANGED history,
           l = "ok" => \E i \in 1..Len(history) : history[i].dataHash = RequestHash[c]
    PROVE  [Abstract!Next]_<<AbstractChain, AbstractAnswer>>
<1>1. UNCHANGED AbstractChain
  BY ChainUnchanged
<1>2. pc \in [Client -> {"seed", "submit", "await", "reread"} \union Done] /\ TypeOK
  BY DEF IInv, TypeOK
<1>3. CASE l \notin Done
  <2>1. AbstractAnswer' = AbstractAnswer
    BY <1>2, <1>3 DEF AbstractAnswer
  <2> QED BY <1>1, <2>1
<1>4. CASE l \in Done
  <2>1. /\ AbstractAnswer[c] = "none"
        /\ AbstractAnswer' = [AbstractAnswer EXCEPT ![c] = l]
    BY <1>2, <1>4 DEF AbstractAnswer
  <2>2. Abstract!Reply(c, l)
    BY <1>1, <2>1 DEF Abstract!Reply
  <2>3. CASE l = "ok"
    <3>1. \E i \in 1..Len(AbstractChain) : AbstractChain[i].content = RequestHash[c]
      BY <2>3, <1>2, ChainFacts
    <3> QED BY <2>2, <2>3, <3>1 DEF Abstract!ReplyOk, Abstract!Next
  <2>4. CASE l = "error"
    BY <2>2, <2>4 DEF Abstract!ReplyError, Abstract!Next
  <2> QED BY <1>4, <2>3, <2>4 DEF Done
<1> QED BY <1>3, <1>4

(***************************************************************************)
(* A transaction that is ordered and valid is the abstract append of the   *)
(* call it belongs to; every other verdict is a stutter.                   *)
(***************************************************************************)
LEMMA ValidateRefines ==
    ASSUME IInv, NEW tx \in ordering, NEW code \in Code \ {"none"},
           code = "VALID" => MvccValid(tx),
           Validate(tx, code)
    PROVE  [Abstract!Next]_<<AbstractChain, AbstractAnswer>>
<1> DEFINE c == Owner(tx.id)
           link == [content |-> RequestHash[c], by |-> c]
<1>1. UNCHANGED AbstractAnswer
  BY DEF Validate, clientVars, AbstractAnswer
<1>2. CASE ~(code = "VALID" /\ tx.writes)
  <2>1. UNCHANGED history
    BY <1>2 DEF Validate
  <2> QED BY <1>1, <2>1, ChainUnchanged
<1>3. CASE code = "VALID" /\ tx.writes
  <2>1. /\ c \in Client /\ tx.rec \in Record /\ tx.id \in TxId
        /\ history \in Seq(Record) /\ Len(history) \in Nat /\ TypeOK
    BY Owners DEF IInv, TypeOK
  <2>2. history' = Append(history, tx.rec)
    BY <1>3 DEF Validate
  <2>3. /\ Len(history') = Len(history) + 1
        /\ history'[Len(history) + 1] = tx.rec
        /\ \A i \in 1..Len(history) : history'[i] = history[i]
    BY <2>1, <2>2
  <2>4. /\ tx.readVersion = Len(history) /\ tx.rec.dataHash = RequestHash[c]
        /\ tx.rec.recordID = tx.id
        /\ tx.rec.prevHash = IF Len(history) = 0 THEN NoHash
                             ELSE history[Len(history)].dataHash
        /\ tx.rec.prevHash # tx.rec.dataHash
    BY <1>3 DEF IInv, OrderingInv, Fits, MvccValid
  <2>5. AbstractChain' = Append(AbstractChain, link)
    <3>1. TypeOK'
      BY ValidatePreserves DEF IInv
    <3>2. /\ AbstractChain' \in Seq(Link)
          /\ Len(AbstractChain') = Len(history')
          /\ \A i \in 1..Len(history') :
               AbstractChain'[i] = [content |-> history'[i].dataHash,
                                    by |-> Owner(history'[i].recordID)]
      <4>1. /\ Len(history') \in Nat
            /\ \A i \in 1..Len(history') : history'[i] \in Record
        BY <3>1 DEF TypeOK
      <4>2. \A r \in Record : r.dataHash \in Hash /\ Owner(r.recordID) \in Client
        BY TxIdFacts DEF Record
      <4>3. AbstractChain' \in [1..Len(history') -> Link]
        BY <4>1, <4>2 DEF AbstractChain, Link
      <4>4. AbstractChain' \in Seq(Link)
        BY <4>1, <4>3, SeqDef
      <4> QED BY <4>1, <4>3, <4>4, LenProperties DEF AbstractChain
    <3>3. /\ AbstractChain \in Seq(Link) /\ Len(AbstractChain) = Len(history)
          /\ \A i \in 1..Len(history) :
               AbstractChain[i] = [content |-> history[i].dataHash,
                                   by |-> Owner(history[i].recordID)]
      BY <2>1, ChainFacts DEF AbstractChain
    <3>4. link \in Link
      BY <2>1, RequestAssumption DEF Link
    <3>5. /\ Append(AbstractChain, link) \in Seq(Link)
          /\ Len(Append(AbstractChain, link)) = Len(history) + 1
          /\ \A i \in 1..Len(history) : Append(AbstractChain, link)[i] = AbstractChain[i]
          /\ Append(AbstractChain, link)[Len(history) + 1] = link
      BY <2>1, <3>3, <3>4
    <3>6. ASSUME NEW i \in 1..Len(AbstractChain')
          PROVE  AbstractChain'[i] = Append(AbstractChain, link)[i]
      <4>1. CASE i \in 1..Len(history)
        BY <4>1, <2>1, <2>3, <3>2, <3>3, <3>5
      <4>2. CASE i = Len(history) + 1
        <5>1. history'[i].dataHash = RequestHash[c] /\ history'[i].recordID = tx.id
          BY <4>2, <2>3, <2>4
        <5>2. Owner(history'[i].recordID) = c
          BY <5>1, <2>1
        <5>3. AbstractChain'[i] = [content |-> history'[i].dataHash,
                                   by |-> Owner(history'[i].recordID)]
          BY <4>2, <2>1, <2>3, <3>2
        <5>4. AbstractChain'[i] = link
          BY <5>1, <5>2, <5>3
        <5> QED BY <4>2, <5>4, <3>5
      <4>3. i \in 1..Len(history) \/ i = Len(history) + 1
        <5>1. i \in 1..(Len(history) + 1)
          BY <2>3, <3>2
        <5> HIDE DEF c, link
        <5> QED BY <2>1, <5>1
      <4> HIDE DEF c, link
      <4> QED BY <4>1, <4>2, <4>3
    <3> QED BY <2>3, <3>2, <3>5, <3>6, SeqEqual
  <2>6. AbstractAnswer[c] \in {"none", "error"}
    BY <2>1 DEF IInv, OrderingInv, AbstractAnswer, Done
  <2>7. ~Abstract!HasAppended(c)
    <3>1. ASSUME NEW i \in 1..Len(history), Owner(history[i].recordID) = c PROVE FALSE
      BY <3>1 DEF IInv, HistoryInv, OrderingInv
    <3> QED BY <2>1, <3>1, AppendedFacts
  <2>8. AbstractChain # <<>> => AbstractChain[Len(AbstractChain)].content # RequestHash[c]
    <3>1. SUFFICES ASSUME AbstractChain # <<>>
                   PROVE  AbstractChain[Len(AbstractChain)].content # RequestHash[c]
      OBVIOUS
    <3>2. Len(history) \in 1..Len(history)
      BY <2>1, <3>1, ChainFacts, EmptySeq
    <3> QED BY <2>1, <2>4, <3>2, ChainFacts
  <2> HIDE DEF link
  <2>9. link = [content |-> RequestHash[c], by |-> c]
    BY DEF link
  <2> QED BY <1>1, <2>1, <2>5, <2>6, <2>7, <2>8, <2>9 DEF Abstract!Anchor, Abstract!Next
<1> QED BY <1>2, <1>3

(***************************************************************************)
(* Every step is a step of the abstract chain or a stutter.                *)
(***************************************************************************)
LEMMA NextRefines ==
    IInv /\ [Next]_vars => [Abstract!Next]_<<AbstractChain, AbstractAnswer>>
<1> SUFFICES ASSUME IInv, [Next]_vars
             PROVE  [Abstract!Next]_<<AbstractChain, AbstractAnswer>>
  OBVIOUS
<1> USE DEF chainVars, Goto
<1>1. ASSUME NEW c \in Client, Seed(c) \/ SeedUnavailable(c) \/ SubmitStale(c) \/ Submit(c)
                               \/ ReadConflict(c)
      PROVE  [Abstract!Next]_<<AbstractChain, AbstractAnswer>>
  <2>1. /\ pc[c] \notin Done /\ UNCHANGED history
        /\ \E l \in {"submit", "await", "reread"} : pc' = [pc EXCEPT ![c] = l]
    BY <1>1 DEF Seed, SeedUnavailable, SubmitStale, Submit, ReadConflict, Status, Done
  <2> QED BY <2>1, AnswerMoves
<1>2. ASSUME NEW c \in Client,
             \/ SubmitRefused(c) \/ SubmitUnavailable(c) \/ OtherwiseInvalid(c)
             \/ StatusUnavailable(c) \/ RereadRefused(c) \/ RereadUnavailable(c) \/ Reread(c)
      PROVE  [Abstract!Next]_<<AbstractChain, AbstractAnswer>>
  <2>1. /\ pc[c] \notin Done /\ UNCHANGED history
        /\ \E l \in {"submit", "error"} : pc' = [pc EXCEPT ![c] = l]
    BY <1>2 DEF SubmitRefused, SubmitUnavailable, OtherwiseInvalid, StatusUnavailable,
                RereadRefused, RereadUnavailable, Reread, Status, Done
  <2> QED BY <2>1, AnswerMoves DEF Done
<1>3. ASSUME NEW c \in Client, Committed(c)
      PROVE  [Abstract!Next]_<<AbstractChain, AbstractAnswer>>
  <2>1. /\ pc[c] = "await" /\ UNCHANGED history /\ pc' = [pc EXCEPT ![c] = "ok"]
        /\ verdict[CurrentTx(c)].code = "VALID"
    BY <1>3 DEF Committed, Status
  <2>2. Anchored(c)
    BY <2>1 DEF IInv, VerdictInv
  <2> QED BY <2>1, <2>2, AnswerMoves DEF Anchored, Done
<1>4. ASSUME NEW tx \in ordering, Order(tx) \/ OrderInvalid(tx)
      PROVE  [Abstract!Next]_<<AbstractChain, AbstractAnswer>>
  BY <1>4, ValidateRefines DEF Order, OrderInvalid, Code
<1>5. ASSUME (\E tx \in ordering : Lose(tx)) \/ (\E p \in Peer : CatchUp(p))
      PROVE  [Abstract!Next]_<<AbstractChain, AbstractAnswer>>
  <2>1. UNCHANGED <<history, pc>>
    BY <1>5 DEF Lose, CatchUp, clientVars
  <2> QED BY <2>1, ChainUnchanged DEF AbstractAnswer
<1>6. CASE UNCHANGED vars
  BY <1>6, ChainUnchanged DEF vars, AbstractAnswer
<1> QED
  BY <1>1, <1>2, <1>3, <1>4, <1>5, <1>6 DEF Next, ClientStep, ClientFault

(***************************************************************************)
(* SubmitRecordProfileSection over RecordProfileSection implements the     *)
(* abstract chain, for every number of writers and every retry bound.      *)
(***************************************************************************)
THEOREM Refinement == Spec => ImplementsProfileChain
<1>1. Init => Abstract!Init
  BY InitRefines
<1>2. IInv /\ [Next]_vars => [Abstract!Next]_<<AbstractChain, AbstractAnswer>>
  BY NextRefines
<1>3. Spec => []IInv
  BY Invariance
<1> QED
  BY <1>1, <1>2, <1>3, PTL DEF Spec, ImplementsProfileChain, Abstract!Spec, Abstract!vars
=============================================================================

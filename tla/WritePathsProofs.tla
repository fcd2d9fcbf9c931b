-------------------------- MODULE WritePathsProofs --------------------------
(***************************************************************************)
(* The bridge's requests, for every set of writes, verifications and       *)
(* erasures, every employee, section and record identity, and any number   *)
(* of faults and restarts, however they interleave.                        *)
(***************************************************************************)
EXTENDS WritePaths, TLAPS

(***************************************************************************)
(* The employee and the key lookup of a call: a write trims the record     *)
(* identity, a verification does not, an erasure derives the pseudonym of  *)
(* the employee's own record.                                              *)
(***************************************************************************)
EmployeeOf(c) == IF c \in Erasure THEN Subject[c] ELSE Target[c].employee

IdentityOf(c) == IF c \in Erasure THEN ""
                 ELSE IF c \in Write THEN TrimSpace[Target[c].identity]
                 ELSE Target[c].identity

LookupOf(c) == KeyLookup(EmployeeOf(c), IdentityOf(c))

Lookup == Employee \X Identity

\* The counter of the operational store that a write advances.
Counter(w) == <<Target[w].employee, Target[w].section>>

AnchorRecord == [by : Write, salt : Write]

WriteLabel  == {"idle", "key", "salt", "document", "pin", "submit", "done"}
VerifyLabel == {"idle", "history", "getsalt", "done"}
EraseLabel  == {"idle", "sections", "documentkey", "derive", "salts", "employeekey", "done"}

Response == {"none", "committed", "rejected", "partial_failure", "error", "no_anchor_found",
             "deletion_verified", "verified", "compromised", "erased"}

TypeOK ==
    /\ opVersion \in [Employee \X Section -> Nat]
    /\ keys \in [Lookup -> Nat]
    /\ salts \subseteq [employeeID : Nat, section : Section, version : Nat, salt : Write]
    /\ \A d \in documents : d.by \in Write
    /\ ledger \in [Pseudonym \X Section -> Seq(AnchorRecord)]
    /\ late \subseteq Write
    /\ pc \in [Call -> WriteLabel \union VerifyLabel \union EraseLabel]
    /\ \A w \in Write : pc[w] \in WriteLabel
    /\ \A v \in Verification : pc[v] \in VerifyLabel
    /\ \A e \in Erasure : pc[e] \in EraseLabel
    /\ employeeID \in [Call -> Nat]
    /\ version \in [Call -> Nat]
    /\ salt \in [Write -> Write \union {"none"}]
    /\ response \in [Call -> Response]
    /\ nextKey \in 1..(MaxKeys + 1)
    /\ restarts \in Nat
    /\ owner \in [Pseudonym -> Employee \union {"nobody"}]
    /\ shredded \subseteq Pseudonym

(***************************************************************************)
(* Keys.  A pseudonym belongs to one lookup for ever: the store holds it   *)
(* under that lookup, or has held it there until the employee was erased.  *)
(***************************************************************************)
Holds(c) ==
    /\ employeeID[c] < nextKey
    /\ owner[employeeID[c]] = EmployeeOf(c)
    /\ Erased(EmployeeOf(c)) \/ keys[LookupOf(c)] = employeeID[c]
    /\ \A l \in Lookup : keys[l] = employeeID[c] => l = LookupOf(c)
    /\ \A d \in Call : employeeID[d] = employeeID[c] => LookupOf(d) = LookupOf(c)

KeyInv ==
    /\ \A l \in Lookup : keys[l] # NoKey => keys[l] < nextKey /\ owner[keys[l]] = l[1]
    /\ \A l, m \in Lookup : keys[l] = keys[m] /\ keys[l] # NoKey => l = m
    /\ \A c \in Call : employeeID[c] # NoKey => Holds(c)
    /\ \A p \in shredded : p < nextKey

(***************************************************************************)
(* What a call has when it has come to a certain point.                    *)
(***************************************************************************)
Progress(c) ==
    /\ c \in Write =>
         /\ pc[c] = "idle" => version[c] = 0
         /\ pc[c] \in {"idle", "key", "salt"} => salt[c] = "none"
         /\ pc[c] \notin {"idle", "done"} => version[c] # 0
         /\ pc[c] = "salt" => employeeID[c] # NoKey
         /\ pc[c] \in {"document", "pin", "submit"} => salt[c] = c
         /\ salt[c] # "none" => salt[c] = c /\ employeeID[c] # NoKey /\ version[c] # 0
         /\ c \in late => pc[c] = "done" /\ salt[c] = c
    /\ c \in Verification =>
         /\ pc[c] \in {"history", "getsalt"} => employeeID[c] # NoKey
         /\ pc[c] = "getsalt" => version[c] \in DOMAIN Chain(c)
    /\ c \in Erasure =>
         /\ pc[c] \in {"salts", "employeekey"} => employeeID[c] # NoKey
         /\ pc[c] = "employeekey" => employeeID[c] \in shredded
    /\ pc[c] # "done" => response[c] = "none"

ProgressInv == \A c \in Call : Progress(c)

(***************************************************************************)
(* Salts.  An entry of the salt store is the one that its write put there, *)
(* and stays until the salts of its pseudonym are deleted.                 *)
(***************************************************************************)
SaltInv ==
    /\ \A s \in salts : salt[s.salt] = s.salt /\ s = FreshSalt(s.salt)
    /\ \A w \in Write : salt[w] = w => FreshSalt(w) \in salts \/ employeeID[w] \in shredded
    /\ \A d \in documents : salt[d.by] = d.by

(***************************************************************************)
(* The ledger.  A record is its write's only one, under its write's own    *)
(* pseudonym and section, digested with its write's own salt; the write is *)
(* over and nothing of it is on its way.                                   *)
(***************************************************************************)
OwnRecord(rec, ps) ==
    /\ rec.salt = rec.by
    /\ salt[rec.by] = rec.by
    /\ pc[rec.by] = "done" /\ rec.by \notin late
    /\ ps = <<employeeID[rec.by], Target[rec.by].section>>

LedgerInv ==
    \A ps \in Pseudonym \X Section : \A i \in DOMAIN ledger[ps] :
        /\ OwnRecord(ledger[ps][i], ps)
        /\ \A j \in DOMAIN ledger[ps] : ledger[ps][j].by = ledger[ps][i].by => j = i

(***************************************************************************)
(* Answers.                                                                *)
(***************************************************************************)
Answered(c) ==
    /\ c \in Write /\ response[c] = "committed" =>
         employeeID[c] # NoKey /\ \E i \in DOMAIN Chain(c) : Chain(c)[i].by = c
    /\ c \in Write /\ response[c] \in {"error", "rejected"} =>
         version[c] = 0 /\ salt[c] = "none"
    /\ c \in Verification /\ response[c] = "verified" =>
         /\ employeeID[c] # NoKey
         /\ version[c] \in DOMAIN Chain(c)
         /\ Content[Chain(c)[version[c]].by] = Content[c]

AnswerInv == \A c \in Call : Answered(c)

(***************************************************************************)
(* Until a restart, no two writes have the same version of a section.      *)
(***************************************************************************)
CounterInv ==
    restarts = 0 => \A w \in Write : version[w] # 0 =>
        /\ version[w] <= opVersion[Counter(w)]
        /\ \A u \in Write : Counter(u) = Counter(w) /\ version[u] = version[w] => u = w

IInv == TypeOK /\ KeyInv /\ ProgressInv /\ SaltInv /\ LedgerInv /\ AnswerInv /\ CounterInv

-----------------------------------------------------------------------------
(***************************************************************************)
(* The three kinds of call, their employees and their lookups.             *)
(***************************************************************************)
LEMMA CallFacts ==
    /\ \A c \in Call : EmployeeOf(c) \in Employee /\ LookupOf(c) \in Lookup
                      /\ LookupOf(c) = <<EmployeeOf(c), IdentityOf(c)>>
    /\ \A w \in Write : /\ w \in Call /\ w \notin Verification /\ w \notin Erasure
                        /\ w # "none" /\ Target[w].section \in Section
                        /\ Counter(w) \in Employee \X Section
                        /\ EmployeeOf(w) = Target[w].employee
                        /\ LookupOf(w) = KeyLookup(Target[w].employee, TrimSpace[Target[w].identity])
    /\ \A v \in Verification : /\ v \in Call /\ v \notin Write /\ v \notin Erasure
                               /\ Target[v].section \in Section
                               /\ EmployeeOf(v) = Target[v].employee
                               /\ LookupOf(v) = KeyLookup(Target[v].employee, Target[v].identity)
    /\ \A e \in Erasure : /\ e \in Call /\ e \notin Write /\ e \notin Verification
                          /\ EmployeeOf(e) = Subject[e]
                          /\ LookupOf(e) = KeyLookup(Subject[e], "")
  BY CallAssumption DEF Call, EmployeeOf, IdentityOf, LookupOf, KeyLookup, Lookup, Counter

(***************************************************************************)
(* What the pipeline answers a write (dispatch, classify and respond).     *)
(***************************************************************************)
LEMMA WriteAnswers ==
    ASSUME NEW c
    PROVE  /\ AnswerWrite(c, "nil") => Answer(c, "committed")
           /\ AnswerWrite(c, "partial") => Answer(c, "partial_failure")
           /\ AnswerWrite(c, "other") => Answer(c, "error") \/ Answer(c, "partial_failure")
<1>1. \A x \in BOOLEAN : respond(classify(dispatch("nil", x)), TRUE) = "committed"
  BY DEF respond, classify, dispatch
<1>2. \A x \in BOOLEAN : respond(classify(dispatch("partial", x)), TRUE) = "partial_failure"
  BY DEF respond, classify, dispatch
<1>3. \A x \in BOOLEAN : respond(classify(dispatch("other", x)), TRUE) \in {"error", "partial_failure"}
  BY DEF respond, classify, dispatch
<1> QED BY <1>1, <1>2, <1>3 DEF AnswerWrite

(***************************************************************************)
(* What a request is answered that [auth] or [validate] refuses.           *)
(***************************************************************************)
LEMMA RefuseAnswers ==
    ASSUME NEW c, Refuse(c)
    PROVE  Answer(c, "error") \/ Answer(c, "rejected")
<1>1. \A env \in Envelope : admit(env) # "nil" => classify(admit(env)) \in {"error", "rejected"}
  BY DEF admit, authenticate, validateRequest, classify
<1> QED BY <1>1 DEF Refuse

\* The bound on random draws.
LEMMA MaxKeysFacts == MaxKeys \in Nat /\ MaxRestarts \in Nat /\ Pseudonym = 1..MaxKeys /\ NoKey = 0
  BY CallAssumption DEF Pseudonym, NoKey

(***************************************************************************)
(* A pseudonym that a call has resolved indexes the ledger.                *)
(***************************************************************************)
LEMMA PseudonymFacts ==
    ASSUME TypeOK, KeyInv, NEW c \in Call, employeeID[c] # NoKey
    PROVE  employeeID[c] \in Pseudonym
<1>1. employeeID[c] \in Nat /\ nextKey \in 1..(MaxKeys + 1) /\ employeeID[c] < nextKey
  BY DEF TypeOK, KeyInv, Holds
<1> QED BY <1>1, MaxKeysFacts

(***************************************************************************)
(* What is on the ledger are records.                                      *)
(***************************************************************************)
LEMMA RecordFacts ==
    ASSUME TypeOK, NEW ps \in Pseudonym \X Section
    PROVE  /\ ledger[ps] \in Seq(AnchorRecord)
           /\ Len(ledger[ps]) \in Nat /\ DOMAIN ledger[ps] = 1..Len(ledger[ps])
           /\ \A i \in DOMAIN ledger[ps] : ledger[ps][i] \in AnchorRecord
           /\ \A i \in DOMAIN ledger[ps] : ledger[ps][i].by \in Write /\ ledger[ps][i].salt \in Write
<1>1. ledger[ps] \in Seq(AnchorRecord)
  BY DEF TypeOK
<1>2. DOMAIN ledger[ps] = 1..Len(ledger[ps]) /\ Len(ledger[ps]) \in Nat
  BY <1>1
<1>3. \A i \in DOMAIN ledger[ps] : ledger[ps][i] \in AnchorRecord
  BY <1>1, <1>2
<1>4. \A rec \in AnchorRecord : rec.by \in Write /\ rec.salt \in Write
  BY DEF AnchorRecord
<1> QED BY <1>1, <1>2, <1>3, <1>4

(***************************************************************************)
(* A call that moves to a label of its own kind.                           *)
(***************************************************************************)
LEMMA LabelTypes ==
    ASSUME TypeOK, NEW c \in Call, NEW label, pc' = [pc EXCEPT ![c] = label],
           c \in Write => label \in WriteLabel,
           c \in Verification => label \in VerifyLabel,
           c \in Erasure => label \in EraseLabel
    PROVE  /\ pc' \in [Call -> WriteLabel \union VerifyLabel \union EraseLabel]
           /\ \A u \in Write : pc'[u] \in WriteLabel
           /\ \A u \in Verification : pc'[u] \in VerifyLabel
           /\ \A u \in Erasure : pc'[u] \in EraseLabel
           /\ pc'[c] = label /\ \A d \in Call \ {c} : pc'[d] = pc[d]
<1>1. pc \in [Call -> WriteLabel \union VerifyLabel \union EraseLabel]
  BY DEF TypeOK
<1>2. label \in WriteLabel \union VerifyLabel \union EraseLabel
  BY DEF Call
<1>3. pc'[c] = label /\ \A d \in Call \ {c} : pc'[d] = pc[d]
  BY <1>1
<1>4. \A u \in Write : pc'[u] \in WriteLabel
  BY <1>3, CallFacts DEF TypeOK
<1>5. \A u \in Verification : pc'[u] \in VerifyLabel
  BY <1>3, CallFacts DEF TypeOK
<1>6. \A u \in Erasure : pc'[u] \in EraseLabel
  BY <1>3, CallFacts DEF TypeOK
<1> QED BY <1>1, <1>2, <1>3, <1>4, <1>5, <1>6

(***************************************************************************)
(* A fresh process satisfies the invariant.                                *)
(***************************************************************************)
LEMMA InitIInv == Init => IInv
<1> SUFFICES ASSUME Init PROVE IInv
  OBVIOUS
<1>0. MaxKeys \in Nat
  BY CallAssumption
<1>1. TypeOK
  <2>1. /\ opVersion \in [Employee \X Section -> Nat] /\ keys \in [Lookup -> Nat]
        /\ salts \subseteq [employeeID : Nat, section : Section, version : Nat, salt : Write]
        /\ \A d \in documents : d.by \in Write
        /\ late \subseteq Write /\ employeeID \in [Call -> Nat] /\ version \in [Call -> Nat]
        /\ salt \in [Write -> Write \union {"none"}] /\ response \in [Call -> Response]
    BY DEF Init, NoKey, Lookup, Response
  <2>2. ledger \in [Pseudonym \X Section -> Seq(AnchorRecord)]
    BY DEF Init
  <2>3. /\ pc \in [Call -> WriteLabel \union VerifyLabel \union EraseLabel]
        /\ \A c \in Call : pc[c] \in WriteLabel /\ pc[c] \in VerifyLabel /\ pc[c] \in EraseLabel
    BY DEF Init, WriteLabel, VerifyLabel, EraseLabel
  <2>4. /\ nextKey \in 1..(MaxKeys + 1) /\ restarts \in Nat /\ shredded \subseteq Pseudonym
        /\ owner \in [Pseudonym -> Employee \union {"nobody"}]
    BY <1>0 DEF Init
  <2> QED BY <2>1, <2>2, <2>3, <2>4 DEF TypeOK, Call
<1>2. KeyInv
  BY DEF Init, KeyInv, Lookup, NoKey
<1>3. ProgressInv
  BY DEF Init, ProgressInv, Progress, NoKey
<1>4. SaltInv
  BY CallFacts DEF Init, SaltInv
<1>7. LedgerInv
  <2>1. \A ps \in Pseudonym \X Section : ledger[ps] = <<>>
    BY DEF Init
  <2> QED BY <2>1 DEF LedgerInv
<1>5. AnswerInv
  BY DEF Init, AnswerInv, Answered
<1>6. CounterInv
  BY CallFacts DEF Init, CounterInv
<1> QED BY <1>1, <1>2, <1>3, <1>4, <1>5, <1>6, <1>7 DEF IInv

-----------------------------------------------------------------------------
(***************************************************************************)
(* Chains only grow.                                                       *)
(***************************************************************************)
Grows ==
    \A ps \in Pseudonym \X Section : \A i \in DOMAIN ledger[ps] :
        i \in DOMAIN ledger'[ps] /\ ledger'[ps][i] = ledger[ps][i]

(***************************************************************************)
(* A call that is not the one that steps keeps its part of the invariant.  *)
(***************************************************************************)
LEMMA CallFrame ==
    ASSUME IInv, NEW c \in Call,
           pc'[c] = pc[c], response'[c] = response[c],
           employeeID'[c] = employeeID[c], version'[c] = version[c],
           c \in Write => salt'[c] = salt[c] /\ (c \in late' => c \in late),
           shredded \subseteq shredded', Grows
    PROVE  Progress(c)' /\ Answered(c)'
<1>1. Progress(c) /\ Answered(c)
  BY DEF IInv, ProgressInv, AnswerInv
<1>2. ASSUME c \in Write \union Verification, employeeID[c] # NoKey
      PROVE  /\ <<employeeID[c], Target[c].section>> \in Pseudonym \X Section
             /\ \A i \in DOMAIN Chain(c) : i \in DOMAIN Chain(c)' /\ Chain(c)'[i] = Chain(c)[i]
  <2>1. <<employeeID[c], Target[c].section>> \in Pseudonym \X Section
    BY <1>2, PseudonymFacts, CallFacts DEF IInv
  <2> QED BY <2>1 DEF Grows, Chain
<1>3. Progress(c)'
  BY <1>1, <1>2 DEF Progress
<1>4. Answered(c)'
  BY <1>1, <1>2 DEF Answered
<1> QED BY <1>3, <1>4

(***************************************************************************)
(* A step that resolves and deletes no employee key.                       *)
(***************************************************************************)
LEMMA KeyFrame ==
    ASSUME TypeOK, KeyInv, UNCHANGED <<keys, owner, employeeID>>,
           nextKey' \in Nat, nextKey <= nextKey',
           shredded \subseteq shredded', \A p \in shredded' \ shredded : p \in Nat /\ p < nextKey
    PROVE  KeyInv'
<1>1. /\ nextKey \in Nat /\ keys \in [Lookup -> Nat] /\ employeeID \in [Call -> Nat]
      /\ shredded \subseteq Nat
  BY MaxKeysFacts DEF TypeOK
<1>2. \A l \in Lookup : keys'[l] # NoKey => keys'[l] < nextKey' /\ owner'[keys'[l]] = l[1]
  BY <1>1 DEF KeyInv
<1>3. \A l, m \in Lookup : keys'[l] = keys'[m] /\ keys'[l] # NoKey => l = m
  BY DEF KeyInv
<1>4. ASSUME NEW c \in Call, employeeID[c] # NoKey PROVE Holds(c)'
  <2>1. Holds(c)
    BY <1>4 DEF KeyInv
  <2>2. Erased(EmployeeOf(c)) => Erased(EmployeeOf(c))'
    BY DEF Erased
  <2>3. employeeID'[c] < nextKey'
    BY <1>1, <2>1 DEF Holds
  <2> QED BY <2>1, <2>2, <2>3 DEF Holds
<1>5. ASSUME NEW p \in shredded' PROVE p < nextKey'
  <2>1. p \in Nat /\ p < nextKey
    BY <1>1 DEF KeyInv
  <2> QED BY <1>1, <2>1
<1> QED BY <1>2, <1>3, <1>4, <1>5 DEF KeyInv

(***************************************************************************)
(* A step that anchors nothing.                                            *)
(***************************************************************************)
LEMMA LedgerFrame ==
    ASSUME TypeOK, LedgerInv, UNCHANGED ledger,
           \A w \in Write : pc[w] = "done" =>
              /\ pc'[w] = "done" /\ salt'[w] = salt[w] /\ employeeID'[w] = employeeID[w]
              /\ w \in late' => w \in late
    PROVE  LedgerInv'
<1>1. ASSUME NEW ps \in Pseudonym \X Section, NEW i \in DOMAIN ledger[ps]
      PROVE  OwnRecord(ledger[ps][i], ps)'
  <2>1. OwnRecord(ledger[ps][i], ps)
    BY DEF LedgerInv
  <2>2. ledger[ps][i].by \in Write
    BY RecordFacts
  <2> QED BY <2>1, <2>2 DEF OwnRecord
<1> QED BY <1>1 DEF LedgerInv

(***************************************************************************)
(* A step that touches no key, salt, record or version.                    *)
(***************************************************************************)
LEMMA OwnStep ==
    ASSUME IInv, NEW c \in Call, pc[c] # "done", NEW label,
           pc' = [pc EXCEPT ![c] = label],
           c \in Write => label \in WriteLabel,
           c \in Verification => label \in VerifyLabel,
           c \in Erasure => label \in EraseLabel,
           response' \in [Call -> Response],
           \A d \in Call \ {c} : response'[d] = response[d],
           UNCHANGED <<opVersion, keys, salts, ledger, employeeID, version, salt,
                       restarts, owner, shredded>>,
           nextKey' \in 1..(MaxKeys + 1), nextKey <= nextKey',
           \A d \in documents' : d \in documents \/ (d.by = c /\ c \in Write /\ salt[c] = c),
           late' \subseteq late \union {c}, c \in late' => c \in Write,
           Progress(c)', Answered(c)'
    PROVE  IInv'
<1>1. TypeOK'
  BY CallFacts DEF IInv, TypeOK, Call
<1>2. KeyInv'
  <2>1. nextKey' \in Nat
    OBVIOUS
  <2> QED BY <2>1, KeyFrame DEF IInv
<1>3. SaltInv'
  BY DEF IInv, SaltInv, FreshSalt
<1>4. LedgerInv'
  <2>1. \A w \in Write : pc[w] = "done" => pc'[w] = "done" /\ (w \in late' => w \in late)
    BY CallFacts DEF IInv, TypeOK
  <2> QED BY <2>1, LedgerFrame DEF IInv
<1>5. \A d \in Call \ {c} : Progress(d)' /\ Answered(d)'
  <2>1. Grows
    BY DEF Grows
  <2> QED BY <2>1, CallFrame DEF IInv, TypeOK
<1>6. CounterInv'
  BY DEF IInv, CounterInv
<1> QED BY <1>1, <1>2, <1>3, <1>4, <1>5, <1>6 DEF IInv, ProgressInv, AnswerInv

\* What such a step leaves alone.
unmoved == <<opVersion, keys, salts, ledger, employeeID, version, salt, restarts, owner, shredded>>

\* A call that goes on to its next label.
LEMMA GoesOn ==
    ASSUME IInv, NEW c \in Call, pc[c] # "done", NEW label, Goto(c, label),
           c \in Write => label \in WriteLabel \ {"idle", "salt", "done"} /\ version[c] # 0
                           /\ (label = "key" => salt[c] = "none")
                           /\ (label # "key" => salt[c] = c),
           c \in Verification => FALSE,
           c \in Erasure => label \in EraseLabel \ {"idle", "salts", "employeekey", "done"},
           UNCHANGED unmoved, UNCHANGED late,
           nextKey' \in 1..(MaxKeys + 1), nextKey <= nextKey',
           \A d \in documents' : d \in documents \/ (d.by = c /\ c \in Write /\ salt[c] = c)
    PROVE  IInv'
<1>1. pc' = [pc EXCEPT ![c] = label] /\ response' = response /\ response \in [Call -> Response]
      /\ pc'[c] = label
  BY DEF Goto, IInv, TypeOK
<1>2. Progress(c) /\ Answered(c) /\ response[c] = "none"
  BY DEF IInv, ProgressInv, Progress, AnswerInv
<1>3. Progress(c)'
  BY <1>1, <1>2, CallFacts DEF Progress, unmoved, WriteLabel, EraseLabel, Call
<1>4. Answered(c)'
  BY <1>1, <1>2 DEF Answered
<1>5. c \in late' => c \in Write
  BY DEF IInv, TypeOK
<1>6. c \in Write => label \in WriteLabel
  OBVIOUS
<1>7. c \in Erasure => label \in EraseLabel
  OBVIOUS
<1> QED BY <1>1, <1>3, <1>4, <1>5, <1>6, <1>7, OwnStep DEF unmoved

\* A call that ends, a write with anything but "committed".
LEMMA Ends ==
    ASSUME IInv, NEW c \in Call, pc[c] # "done", NEW a \in Response, Answer(c, a),
           UNCHANGED unmoved, UNCHANGED nextKey,
           \A d \in documents' : d \in documents \/ (d.by = c /\ c \in Write /\ salt[c] = c),
           late' \subseteq late \union {c}, c \in late' => c \in Write /\ salt[c] = c,
           c \in Write => a # "committed" /\ (a \in {"error", "rejected"} => pc[c] = "idle"),
           c \in Verification /\ a = "verified" =>
              pc[c] = "getsalt" /\ Content[Chain(c)[version[c]].by] = Content[c]
    PROVE  IInv'
<1>1. /\ pc' = [pc EXCEPT ![c] = "done"] /\ pc'[c] = "done"
      /\ response' = [response EXCEPT ![c] = a] /\ response'[c] = a
      /\ response' \in [Call -> Response]
      /\ \A d \in Call \ {c} : response'[d] = response[d]
  BY DEF Answer, IInv, TypeOK
<1>2. Progress(c) /\ Answered(c)
  BY DEF IInv, ProgressInv, AnswerInv
<1>3. Progress(c)'
  BY <1>1, <1>2, CallFacts DEF Progress, unmoved
<1>4. Answered(c)'
  BY <1>1, <1>2, CallFacts DEF Answered, Progress, unmoved, Chain
<1>5. "done" \in WriteLabel /\ "done" \in VerifyLabel /\ "done" \in EraseLabel
  BY DEF WriteLabel, VerifyLabel, EraseLabel
<1>6. nextKey' \in 1..(MaxKeys + 1) /\ nextKey <= nextKey'
  BY MaxKeysFacts DEF IInv, TypeOK
<1>7. c \in late' => c \in Write
  OBVIOUS
<1> QED BY <1>1, <1>3, <1>4, <1>5, <1>6, <1>7, OwnStep DEF unmoved

(***************************************************************************)
(* The steps that touch no key, salt, record or version: first a request   *)
(* that [auth] or [validate] refuses.                                      *)
(***************************************************************************)
LEMMA RefuseIInv ==
    ASSUME IInv, NEW c \in Call, Refuse(c)
    PROVE  IInv'
<1>1. PICK a \in {"error", "rejected"} : Answer(c, a)
  BY RefuseAnswers
<1>2. pc[c] = "idle" /\ UNCHANGED unmoved /\ UNCHANGED <<nextKey, documents, late>>
  BY DEF Refuse, stores, outside, locals, past, unmoved
<1>3. a \in Response
  BY DEF Response
<1>4. c \in late' => c \in Write /\ salt[c] = c
  BY <1>2 DEF IInv, TypeOK, ProgressInv, Progress
<1> QED BY <1>1, <1>2, <1>3, <1>4, Ends

\* A store, node or submission that fails a write.
LEMMA WriteFaultIInv ==
    ASSUME IInv, NEW w \in Write, WriteFault(w)
    PROVE  IInv'
<1>0. w \in Call /\ w \notin Verification /\ Progress(w)
  BY CallFacts DEF IInv, ProgressInv
<1>1. w \in late => salt[w] = w
  BY <1>0 DEF Progress
<1>2. {"error", "partial_failure"} \subseteq Response
  BY DEF Response
<1>3. CASE SaveSectionFails(w)
  <2>1. pc[w] = "idle" /\ UNCHANGED unmoved /\ UNCHANGED <<nextKey, documents, late>>
    BY <1>3 DEF SaveSectionFails, stores, outside, locals, past, unmoved
  <2>2. PICK a \in {"error", "partial_failure"} : Answer(w, a)
    BY <1>3, WriteAnswers DEF SaveSectionFails
  <2> QED BY <1>0, <1>1, <1>2, <2>1, <2>2, Ends
<1>4. CASE PinFails(w)
  <2>1. /\ pc[w] = "pin" /\ UNCHANGED unmoved /\ UNCHANGED <<nextKey, late>>
        /\ documents' = documents \union {[by |-> w, key |-> documentKey[w]]}
    BY <1>4 DEF PinFails, stores, outside, locals, past, unmoved
  <2>2. Answer(w, "partial_failure")
    BY <1>4, WriteAnswers DEF PinFails
  <2>3. \A d \in documents' : d \in documents \/ (d.by = w /\ salt[w] = w)
    BY <1>0, <2>1 DEF Progress
  <2> QED BY <1>0, <1>1, <1>2, <2>1, <2>2, <2>3, Ends
<1>5. CASE SubmitUnknown(w)
  <2>1. /\ pc[w] = "submit" /\ UNCHANGED unmoved /\ UNCHANGED <<nextKey, documents>>
        /\ late' = late \union {w}
    BY <1>5 DEF SubmitUnknown, stores, outside, locals, past, unmoved
  <2>2. Answer(w, "partial_failure")
    BY <1>5, WriteAnswers DEF SubmitUnknown
  <2>3. salt[w] = w
    BY <1>0, <2>1 DEF Progress
  <2> QED BY <1>0, <1>2, <2>1, <2>2, <2>3, Ends
<1>6. CASE AnchorFails(w)
  <2>1. /\ pc[w] # "done" /\ UNCHANGED unmoved /\ UNCHANGED <<nextKey, documents, late>>
    BY <1>6 DEF AnchorFails, stores, outside, locals, past, unmoved
  <2>2. Answer(w, "partial_failure")
    BY <1>6, WriteAnswers DEF AnchorFails
  <2> QED BY <1>0, <1>1, <1>2, <2>1, <2>2, Ends
<1> QED BY <1>3, <1>4, <1>5, <1>6 DEF WriteFault

\* A store or peer that fails a verification or an erasure.
LEMMA ReadFaultIInv ==
    ASSUME IInv, NEW c \in Verification \union Erasure,
           (c \in Verification /\ VerifyFails(c)) \/ (c \in Erasure /\ EraseFails(c))
    PROVE  IInv'
<1>1. c \in Call /\ c \notin Write
  BY CallFacts
<1>2. /\ pc[c] # "done" /\ Answer(c, "error") /\ UNCHANGED unmoved
      /\ UNCHANGED <<nextKey, documents, late>>
  BY DEF VerifyFails, EraseFails, stores, outside, locals, past, unmoved
<1>3. c \notin late'
  BY <1>1, <1>2 DEF IInv, TypeOK
<1>4. "error" \in Response
  BY DEF Response
<1> QED BY <1>1, <1>2, <1>3, <1>4, Ends

\* The document key and the ciphertext of a write.
LEMMA DocumentIInv ==
    ASSUME IInv, NEW w \in Write, FetchDocumentKey(w) \/ EncryptAndAdd(w)
    PROVE  IInv'
<1>0. w \in Call /\ w \notin Verification /\ w \notin Erasure /\ Progress(w)
  BY CallFacts DEF IInv, ProgressInv
<1>1. CASE FetchDocumentKey(w)
  <2>1. /\ pc[w] = "document" /\ Goto(w, "pin") /\ UNCHANGED unmoved /\ UNCHANGED <<documents, late>>
        /\ nextKey' = nextKey \/ (nextKey \in Pseudonym /\ nextKey' = nextKey + 1)
    BY <1>1 DEF FetchDocumentKey, GetOrCreateDocumentKey, outside, past, unmoved
  <2>2. nextKey' \in 1..(MaxKeys + 1) /\ nextKey <= nextKey'
    BY <2>1, MaxKeysFacts DEF IInv, TypeOK
  <2>3. salt[w] = w /\ version[w] # 0
    BY <1>0, <2>1 DEF Progress
  <2> QED BY <1>0, <2>1, <2>2, <2>3, GoesOn DEF WriteLabel
<1>2. CASE EncryptAndAdd(w)
  <2>1. /\ pc[w] = "pin" /\ Goto(w, "submit") /\ UNCHANGED unmoved /\ UNCHANGED <<late, nextKey>>
        /\ documents' = documents \union {[by |-> w, key |-> documentKey[w]]}
    BY <1>2 DEF EncryptAndAdd, stores, locals, past, unmoved
  <2>2. nextKey' \in 1..(MaxKeys + 1) /\ nextKey <= nextKey'
    BY <2>1, MaxKeysFacts DEF IInv, TypeOK
  <2>3. salt[w] = w /\ version[w] # 0
    BY <1>0, <2>1 DEF Progress
  <2>4. \A d \in documents' : d \in documents \/ (d.by = w /\ salt[w] = w)
    BY <2>1, <2>3
  <2> QED BY <1>0, <2>1, <2>2, <2>3, <2>4, GoesOn DEF WriteLabel
<1> QED BY <1>1, <1>2

\* The first part of an erasure: operational values and the document key.
LEMMA EraseSectionsIInv ==
    ASSUME IInv, NEW e \in Erasure, BeginErase(e) \/ DeleteSection(e) \/ DeleteDocumentKey(e)
    PROVE  IInv'
<1>1. e \in Call /\ e \notin Write /\ e \notin Verification
  BY CallFacts
<1>2. PICK label \in {"sections", "documentkey", "derive"} :
        /\ pc[e] # "done" /\ Goto(e, label) /\ UNCHANGED unmoved
        /\ UNCHANGED <<documents, late, nextKey>>
  BY DEF BeginErase, DeleteSection, DeleteDocumentKey, stores, outside, locals, past, unmoved
<1>3. nextKey' \in 1..(MaxKeys + 1) /\ nextKey <= nextKey'
  BY <1>2, MaxKeysFacts DEF IInv, TypeOK
<1> QED BY <1>1, <1>2, <1>3, GoesOn DEF EraseLabel

\* The comparison with the latest anchor.
LEMMA GetSaltIInv ==
    ASSUME IInv, NEW v \in Verification, GetSalt(v)
    PROVE  IInv'
<1>1. v \in Call /\ v \notin Write
  BY CallFacts
<1>2. pc[v] = "getsalt" /\ UNCHANGED unmoved /\ UNCHANGED <<nextKey, documents, late>>
  BY DEF GetSalt, stores, outside, locals, past, unmoved
<1>3. PICK a \in {"error", "verified", "compromised"} :
        /\ Answer(v, a)
        /\ a = "verified" => Content[Chain(v)[version[v]].by] = Content[v]
  BY DEF GetSalt, ComputeDataHash, Digest
<1>4. v \notin late'
  BY <1>1, <1>2 DEF IInv, TypeOK
<1>5. a \in Response
  BY DEF Response
<1> QED BY <1>1, <1>2, <1>3, <1>4, <1>5, Ends

-----------------------------------------------------------------------------
(***************************************************************************)
(* Saving a section gives the write a version nobody else has.             *)
(***************************************************************************)
LEMMA SaveIInv ==
    ASSUME IInv, NEW w \in Write, SaveSection(w)
    PROVE  IInv'
<1> DEFINE es == Counter(w)
           v  == opVersion[es] + 1
<1>0. /\ w \in Call /\ w \notin Verification /\ w \notin Erasure /\ es \in Employee \X Section
      /\ opVersion[es] \in Nat /\ Progress(w)
  BY CallFacts DEF IInv, TypeOK, ProgressInv
<1>1. /\ pc[w] = "idle" /\ pc' = [pc EXCEPT ![w] = "key"] /\ response' = response
      /\ opVersion' = [opVersion EXCEPT ![es] = v] /\ version' = [version EXCEPT ![w] = v]
      /\ UNCHANGED <<keys, salts, documents, ledger, late, employeeID, salt, nextKey,
                     restarts, owner, shredded>>
  BY DEF SaveSection, Goto, outside, past, Counter
<1>2. /\ pc'[w] = "key" /\ version'[w] = v /\ v \in Nat /\ v # 0 /\ opVersion'[es] = v
      /\ \A c \in Call \ {w} : pc'[c] = pc[c] /\ version'[c] = version[c]
      /\ \A k \in Employee \X Section : k # es => opVersion'[k] = opVersion[k]
  BY <1>0, <1>1 DEF IInv, TypeOK
<1>3. salt[w] = "none" /\ w \notin late /\ response[w] = "none"
  BY <1>0, <1>1, CallFacts DEF Progress
<1> HIDE DEF v, es
<1>4. TypeOK'
  <2>1. /\ opVersion' \in [Employee \X Section -> Nat] /\ version' \in [Call -> Nat]
        /\ pc' \in [Call -> WriteLabel \union VerifyLabel \union EraseLabel]
    BY <1>0, <1>1, <1>2 DEF IInv, TypeOK, WriteLabel
  <2>2. /\ \A u \in Write : pc'[u] \in WriteLabel
        /\ \A u \in Verification : pc'[u] \in VerifyLabel
        /\ \A u \in Erasure : pc'[u] \in EraseLabel
    BY <1>0, <1>2, CallFacts DEF IInv, TypeOK, WriteLabel
  <2> QED BY <1>1, <2>1, <2>2 DEF IInv, TypeOK
<1>5. KeyInv'
  <2>1. nextKey' \in Nat /\ nextKey <= nextKey'
    BY <1>1, MaxKeysFacts DEF IInv, TypeOK
  <2> QED BY <1>1, <2>1, KeyFrame DEF IInv
<1>6. SaltInv'
  <2>1. \A u \in Write : salt[u] = u => u # w /\ FreshSalt(u)' = FreshSalt(u)
    BY <1>1, <1>2, <1>3, CallFacts DEF FreshSalt
  <2>2. \A s \in salts : s.salt \in Write
    BY DEF IInv, TypeOK
  <2> QED BY <1>1, <2>1, <2>2 DEF IInv, SaltInv
<1>7. LedgerInv'
  BY <1>1, <1>2, CallFacts, LedgerFrame DEF IInv
<1>8. \A c \in Call : Progress(c)' /\ Answered(c)'
  <2>1. Progress(w)' /\ Answered(w)'
    BY <1>0, <1>1, <1>2, <1>3 DEF Progress, Answered
  <2>2. Grows
    BY <1>1 DEF Grows
  <2> QED BY <1>1, <1>2, <2>1, <2>2, CallFrame
<1>9. CounterInv'
  <2> SUFFICES ASSUME restarts = 0, NEW x \in Write, version'[x] # 0
               PROVE  /\ version'[x] <= opVersion'[Counter(x)]
                      /\ \A u \in Write : Counter(u) = Counter(x) /\ version'[u] = version'[x] => u = x
    BY <1>1 DEF CounterInv
  <2>1. \A u \in Write \ {w} : version'[u] = version[u] /\ version[u] \in Nat /\ Counter(u) \in Employee \X Section
    BY <1>2, CallFacts DEF IInv, TypeOK
  <2>2. \A u \in Write \ {w} : version[u] # 0 => version[u] <= opVersion[Counter(u)]
    BY DEF IInv, CounterInv
  <2>3. \A u \in Write \ {w} : Counter(u) = es /\ version[u] # 0 => version[u] < v
    BY <1>0, <2>1, <2>2 DEF v
  <2>4. CASE x = w
    BY <1>2, <2>1, <2>3, <2>4 DEF es
  <2>5. CASE x # w
    <3>1. version[x] <= opVersion[Counter(x)] /\ version[x] # 0
      BY <2>1, <2>2, <2>5
    <3>2. version'[x] <= opVersion'[Counter(x)]
      <4>1. CASE Counter(x) = es
        BY <1>2, <2>1, <2>3, <2>5, <3>1, <4>1
      <4>2. CASE Counter(x) # es
        BY <1>2, <2>1, <2>5, <3>1, <4>2
      <4> QED BY <4>1, <4>2
    <3>3. ASSUME NEW u \in Write, Counter(u) = Counter(x), version'[u] = version'[x] PROVE u = x
      <4>1. CASE u = w
        BY <1>2, <2>1, <2>3, <2>5, <3>1, <3>3, <4>1 DEF es
      <4>2. CASE u # w
        BY <2>1, <2>5, <3>1, <3>3, <4>2 DEF IInv, CounterInv
      <4> QED BY <4>1, <4>2
    <3> QED BY <3>2, <3>3
  <2> QED BY <2>4, <2>5
<1> QED BY <1>4, <1>5, <1>6, <1>7, <1>8, <1>9 DEF IInv, ProgressInv, AnswerInv

(***************************************************************************)
(* Resolving a pseudonym: found under the call's lookup, or drawn for it.  *)
(***************************************************************************)
LEMMA ResolveKeyInv ==
    ASSUME TypeOK, KeyInv, NEW c \in Call, NEW label,
           GetOrCreateEmployeeKey(c, LookupOf(c), label), UNCHANGED shredded
    PROVE  /\ KeyInv'
           /\ employeeID'[c] # NoKey
           /\ \A d \in Call \ {c} : employeeID'[d] = employeeID[d]
           /\ keys' \in [Lookup -> Nat] /\ employeeID' \in [Call -> Nat]
           /\ nextKey' \in 1..(MaxKeys + 1)
           /\ owner' \in [Pseudonym -> Employee \union {"nobody"}]
<1> DEFINE L == LookupOf(c)
           E == EmployeeOf(c)
<1>00. \A d : LookupOf(d)[1] = EmployeeOf(d)
  BY DEF LookupOf, KeyLookup
<1>0. /\ L \in Lookup /\ L[1] = E /\ E \in Employee
      /\ \A d \in Call : LookupOf(d) \in Lookup /\ EmployeeOf(d) \in Employee
      /\ \A d \in Call : LookupOf(d)[1] = EmployeeOf(d)
  BY <1>00, CallFacts
<1>1. /\ keys \in [Lookup -> Nat] /\ employeeID \in [Call -> Nat] /\ nextKey \in Nat
      /\ nextKey \in 1..(MaxKeys + 1) /\ owner \in [Pseudonym -> Employee \union {"nobody"}]
      /\ shredded \subseteq Pseudonym /\ Pseudonym \subseteq Nat
  BY MaxKeysFacts DEF TypeOK
<1>2. CASE keys[L] # NoKey
  <2>1. /\ employeeID' = [employeeID EXCEPT ![c] = keys[L]]
        /\ UNCHANGED <<keys, nextKey, owner, shredded>>
    BY <1>2 DEF GetOrCreateEmployeeKey
  <2>2. /\ employeeID'[c] = keys[L] /\ \A d \in Call \ {c} : employeeID'[d] = employeeID[d]
        /\ employeeID' \in [Call -> Nat]
    BY <1>0, <1>1, <2>1
  <2>3. keys[L] < nextKey /\ owner[keys[L]] = E /\ \A l \in Lookup : keys[l] = keys[L] => l = L
    BY <1>0, <1>2 DEF KeyInv
  <2> HIDE DEF L, E
  <2>4. ASSUME NEW d \in Call \ {c}, employeeID[d] # NoKey PROVE Holds(d)'
    <3>1. Holds(d)
      BY <2>4 DEF KeyInv
    <3>2. keys[L] = employeeID[d] => L = LookupOf(d)
      BY <1>0, <3>1 DEF Holds
    <3> QED BY <2>1, <2>2, <3>1, <3>2 DEF Holds, Erased, L
  <2>5. Holds(c)'
    <3>1. ASSUME NEW d \in Call, employeeID'[d] = keys[L] PROVE LookupOf(d) = L
      <4>1. CASE d = c
        BY <4>1 DEF L
      <4>2. CASE d # c
        <5>1. employeeID[d] = keys[L] /\ Holds(d)
          BY <1>2, <2>2, <3>1, <4>2 DEF KeyInv
        <5> QED BY <1>0, <5>1 DEF Holds
      <4> QED BY <4>1, <4>2
    <3> QED BY <2>1, <2>2, <2>3, <3>1 DEF Holds, L, E
  <2>6. KeyInv'
    BY <2>1, <2>2, <2>4, <2>5 DEF KeyInv
  <2> QED BY <1>1, <1>2, <2>1, <2>2, <2>6
<1>3. CASE keys[L] = NoKey
  <2>1. /\ nextKey \in Pseudonym
        /\ employeeID' = [employeeID EXCEPT ![c] = nextKey]
        /\ keys' = [keys EXCEPT ![L] = nextKey]
        /\ owner' = [owner EXCEPT ![nextKey] = E]
        /\ nextKey' = nextKey + 1
    BY <1>0, <1>3 DEF GetOrCreateEmployeeKey
  <2> HIDE DEF L, E
  <2>2. /\ employeeID'[c] = nextKey /\ \A d \in Call \ {c} : employeeID'[d] = employeeID[d]
        /\ employeeID' \in [Call -> Nat]
        /\ keys'[L] = nextKey /\ \A l \in Lookup \ {L} : keys'[l] = keys[l]
        /\ keys' \in [Lookup -> Nat]
        /\ owner'[nextKey] = E /\ \A p \in Pseudonym : p # nextKey => owner'[p] = owner[p]
        /\ owner' \in [Pseudonym -> Employee \union {"nobody"}]
    BY <1>0, <1>1, <2>1
  <2>3. nextKey # NoKey /\ nextKey' \in 1..(MaxKeys + 1) /\ nextKey < nextKey' /\ nextKey' \in Nat
    BY <1>1, <2>1, MaxKeysFacts
  <2>4. \A p \in Nat : p # NoKey /\ p < nextKey => p \in Pseudonym /\ p # nextKey /\ p < nextKey'
    BY <1>1, <2>1, MaxKeysFacts
  <2>5. \A l \in Lookup : keys[l] \in Nat /\ (keys[l] # NoKey => keys[l] < nextKey /\ owner[keys[l]] = l[1])
    BY <1>1 DEF KeyInv
  <2>6. \A l \in Lookup : keys'[l] # NoKey => keys'[l] < nextKey' /\ owner'[keys'[l]] = l[1]
    BY <1>0, <2>2, <2>3, <2>4, <2>5 DEF L, E
  <2>7. \A l, m \in Lookup : keys'[l] = keys'[m] /\ keys'[l] # NoKey => l = m
    BY <2>2, <2>4, <2>5 DEF KeyInv
  <2>8. \A e \in Employee : Erased(e) => Erased(e)'
    BY <1>1, <2>2, <2>4 DEF Erased, KeyInv
  <2>9. ASSUME NEW d \in Call \ {c}, employeeID[d] # NoKey PROVE Holds(d)'
    <3>1. Holds(d) /\ employeeID[d] \in Nat
      BY <1>1, <2>9 DEF KeyInv
    <3>2. employeeID[d] \in Pseudonym /\ employeeID[d] # nextKey /\ employeeID[d] < nextKey'
      BY <2>4, <2>9, <3>1 DEF Holds
    <3>3. owner'[employeeID[d]] = EmployeeOf(d)
      BY <2>2, <3>1, <3>2 DEF Holds
    <3>4. Erased(EmployeeOf(d))' \/ keys'[LookupOf(d)] = employeeID[d]
      BY <1>0, <1>3, <2>2, <2>8, <2>9, <3>1 DEF Holds
    <3>5. \A l \in Lookup : keys'[l] = employeeID[d] => l = LookupOf(d)
      BY <2>2, <3>1, <3>2 DEF Holds
    <3>6. \A x \in Call : employeeID'[x] = employeeID[d] => LookupOf(x) = LookupOf(d)
      BY <2>2, <3>1, <3>2 DEF Holds
    <3> QED BY <2>2, <3>2, <3>3, <3>4, <3>5, <3>6 DEF Holds
  <2>10. Holds(c)'
    <3>1. \A l \in Lookup : keys'[l] = nextKey => l = L
      BY <2>2, <2>4, <2>5, <2>3
    <3>2. \A d \in Call \ {c} : employeeID'[d] # nextKey
      <4>1. \A d \in Call \ {c} : employeeID[d] \in Nat /\ (employeeID[d] # NoKey => employeeID[d] < nextKey)
        BY <1>1 DEF KeyInv, Holds
      <4> QED BY <2>2, <2>3, <2>4, <4>1
    <3> QED BY <2>2, <2>3, <3>1, <3>2 DEF Holds, L, E
  <2>11. \A p \in shredded' : p < nextKey'
    BY <1>1, <2>3 DEF KeyInv
  <2>12. KeyInv'
    BY <2>2, <2>6, <2>7, <2>9, <2>10, <2>11 DEF KeyInv
  <2> QED BY <2>2, <2>3, <2>12
<1> QED BY <1>2, <1>3

(***************************************************************************)
(* A call that moves on with what it has just resolved.                    *)
(***************************************************************************)
LEMMA ResolveIInv ==
    ASSUME IInv, NEW c \in Call, NEW label,
           GetOrCreateEmployeeKey(c, LookupOf(c), label),
           UNCHANGED <<opVersion, salts, documents, ledger, late, version, salt, restarts, shredded>>,
           c \in Write => pc[c] = "key" /\ label = "salt",
           c \in Verification => pc[c] = "idle" /\ label = "history",
           c \in Erasure => pc[c] = "derive" /\ label = "salts"
    PROVE  IInv'
<1>1. /\ KeyInv' /\ employeeID'[c] # NoKey
      /\ \A d \in Call \ {c} : employeeID'[d] = employeeID[d]
      /\ keys' \in [Lookup -> Nat] /\ employeeID' \in [Call -> Nat]
      /\ nextKey' \in 1..(MaxKeys + 1)
      /\ owner' \in [Pseudonym -> Employee \union {"nobody"}]
  BY ResolveKeyInv DEF IInv
<1>2. /\ pc' = [pc EXCEPT ![c] = label] /\ response' = response
      /\ pc'[c] = label /\ \A d \in Call \ {c} : pc'[d] = pc[d]
  BY DEF GetOrCreateEmployeeKey, Goto, IInv, TypeOK
<1>3. Progress(c) /\ pc[c] # "done" /\ response[c] = "none"
  BY DEF IInv, ProgressInv, Progress, Call
<1>4. c \in Write => salt[c] = "none" /\ c \notin late
  BY <1>3, CallFacts DEF Progress
<1>5. TypeOK'
  <2>1. /\ pc' \in [Call -> WriteLabel \union VerifyLabel \union EraseLabel]
        /\ \A u \in Write : pc'[u] \in WriteLabel
        /\ \A u \in Verification : pc'[u] \in VerifyLabel
        /\ \A u \in Erasure : pc'[u] \in EraseLabel
    BY <1>2, CallFacts DEF IInv, TypeOK, WriteLabel, VerifyLabel, EraseLabel, Call
  <2> QED BY <1>1, <1>2, <2>1 DEF IInv, TypeOK
<1>6. SaltInv'
  <2>1. \A u \in Write : salt[u] = u => u # c /\ FreshSalt(u)' = FreshSalt(u) /\ employeeID'[u] = employeeID[u]
    BY <1>1, <1>4, CallFacts DEF FreshSalt
  <2>2. \A s \in salts : s.salt \in Write
    BY DEF IInv, TypeOK
  <2> QED BY <2>1, <2>2 DEF IInv, SaltInv
<1>7. LedgerInv'
  BY <1>1, <1>2, <1>3, CallFacts, LedgerFrame DEF IInv
<1>8. \A d \in Call : Progress(d)' /\ Answered(d)'
  <2>1. Progress(c)'
    BY <1>1, <1>2, <1>3, <1>4, CallFacts DEF Progress
  <2>2. Answered(c)'
    BY <1>2, <1>3 DEF Answered
  <2>3. Grows
    BY DEF Grows
  <2> QED BY <1>1, <1>2, <2>1, <2>2, <2>3, CallFrame
<1>9. CounterInv'
  BY DEF IInv, CounterInv
<1> QED BY <1>1, <1>5, <1>6, <1>7, <1>8, <1>9 DEF IInv, ProgressInv, AnswerInv

(***************************************************************************)
(* The three calls of GetOrCreateEmployeeKey.                              *)
(***************************************************************************)
LEMMA ResolveStepsIInv ==
    ASSUME IInv, NEW c \in Call,
           \/ c \in Write /\ ResolveEmployeeKey(c)
           \/ c \in Verification /\ ResolveEmployeeID(c)
           \/ c \in Erasure /\ DeriveEmployeeID(c)
    PROVE  IInv'
<1>1. ASSUME c \in Write, ResolveEmployeeKey(c) PROVE IInv'
  <2>1. pc[c] = "key" /\ GetOrCreateEmployeeKey(c, LookupOf(c), "salt")
    BY <1>1, CallFacts DEF ResolveEmployeeKey
  <2>2. UNCHANGED <<opVersion, salts, documents, ledger, late, version, salt, restarts, shredded>>
    BY <1>1 DEF ResolveEmployeeKey, outside
  <2> QED BY <1>1, <2>1, <2>2, CallFacts, ResolveIInv
<1>2. ASSUME c \in Verification, ResolveEmployeeID(c) PROVE IInv'
  <2>1. pc[c] = "idle" /\ GetOrCreateEmployeeKey(c, LookupOf(c), "history")
    BY <1>2, CallFacts DEF ResolveEmployeeID
  <2>2. UNCHANGED <<opVersion, salts, documents, ledger, late, version, salt, restarts, shredded>>
    BY <1>2 DEF ResolveEmployeeID, outside
  <2> QED BY <1>2, <2>1, <2>2, CallFacts, ResolveIInv
<1>3. ASSUME c \in Erasure, DeriveEmployeeID(c) PROVE IInv'
  <2>1. pc[c] = "derive" /\ GetOrCreateEmployeeKey(c, LookupOf(c), "salts")
    BY <1>3, CallFacts DEF DeriveEmployeeID
  <2>2. UNCHANGED <<opVersion, salts, documents, ledger, late, version, salt, restarts, shredded>>
    BY <1>3 DEF DeriveEmployeeID, outside
  <2> QED BY <1>3, <2>1, <2>2, CallFacts, ResolveIInv
<1> QED BY <1>1, <1>2, <1>3

(***************************************************************************)
(* PutSalt: refused, or a new entry for the write.                         *)
(***************************************************************************)
LEMMA PutSaltIInv ==
    ASSUME IInv, NEW w \in Write, PutSalt(w)
    PROVE  IInv'
<1>0. /\ w \in Call /\ w \notin Verification /\ w \notin Erasure /\ Progress(w)
      /\ w # "none" /\ Target[w].section \in Section
  BY CallFacts DEF IInv, ProgressInv
<1>1. /\ pc[w] = "salt" /\ UNCHANGED <<opVersion, keys, documents, ledger, late, employeeID,
                                       version, nextKey, restarts, owner, shredded>>
  BY DEF PutSalt, outside, past
<1>2. salt[w] = "none" /\ employeeID[w] # NoKey /\ version[w] # 0 /\ w \notin late /\ response[w] = "none"
  BY <1>0, <1>1 DEF Progress
<1>3. CASE SaltSlot(w) # {}
  <2>1. Answer(w, "partial_failure") /\ UNCHANGED <<salts, salt>>
    BY <1>3, WriteAnswers DEF PutSalt
  <2>2. "partial_failure" \in Response
    BY DEF Response
  <2>3. UNCHANGED unmoved
    BY <1>1, <2>1 DEF unmoved
  <2> QED BY <1>0, <1>1, <1>2, <2>1, <2>2, <2>3, Ends
<1>4. CASE SaltSlot(w) = {}
  <2> DEFINE label == IF w \in WithDocument THEN "document" ELSE "submit"
  <2>1. /\ salts' = salts \union {FreshSalt(w)} /\ salt' = [salt EXCEPT ![w] = w]
        /\ pc' = [pc EXCEPT ![w] = label] /\ response' = response
    BY <1>4 DEF PutSalt, Goto, FreshSalt
  <2>2. label \in {"document", "submit"}
    OBVIOUS
  <2> HIDE DEF label
  <2>3. /\ pc'[w] = label /\ salt'[w] = w
        /\ \A d \in Call \ {w} : pc'[d] = pc[d]
        /\ \A u \in Write \ {w} : salt'[u] = salt[u]
    BY <1>0, <2>1 DEF IInv, TypeOK
  <2>4. TypeOK'
    <3>1. FreshSalt(w) \in [employeeID : Nat, section : Section, version : Nat, salt : Write]
      BY <1>0 DEF FreshSalt, IInv, TypeOK
    <3>2. /\ pc' \in [Call -> WriteLabel \union VerifyLabel \union EraseLabel]
          /\ \A u \in Write : pc'[u] \in WriteLabel
          /\ \A u \in Verification : pc'[u] \in VerifyLabel
          /\ \A u \in Erasure : pc'[u] \in EraseLabel
      <4>1. label \in WriteLabel
        BY <2>2 DEF WriteLabel
      <4> QED BY <1>0, <2>1, <4>1, LabelTypes DEF IInv
    <3>3. salt' \in [Write -> Write \union {"none"}]
      BY <2>1 DEF IInv, TypeOK
    <3> QED BY <1>1, <2>1, <3>1, <3>2, <3>3 DEF IInv, TypeOK
  <2>5. KeyInv'
    <3>1. nextKey' \in Nat /\ nextKey <= nextKey'
      BY <1>1, MaxKeysFacts DEF IInv, TypeOK
    <3> QED BY <1>1, <3>1, KeyFrame DEF IInv
  <2>6. SaltInv'
    <3>1. \A u \in Write : FreshSalt(u)' = FreshSalt(u) /\ FreshSalt(u).salt = u
      BY <1>1 DEF FreshSalt
    <3>2. ASSUME NEW s \in salts' PROVE salt'[s.salt] = s.salt /\ s = FreshSalt(s.salt)'
      <4>1. CASE s = FreshSalt(w)
        BY <2>3, <3>1, <4>1
      <4>2. CASE s \in salts
        <5>1. s.salt \in Write /\ salt[s.salt] = s.salt /\ s = FreshSalt(s.salt)
          BY <4>2 DEF IInv, SaltInv, TypeOK
        <5>2. s.salt # w
          BY <1>0, <1>2, <5>1
        <5> QED BY <2>3, <3>1, <5>1, <5>2
      <4> QED BY <2>1, <4>1, <4>2
    <3>3. ASSUME NEW u \in Write, salt'[u] = u
          PROVE  FreshSalt(u)' \in salts' \/ employeeID'[u] \in shredded'
      BY <1>1, <2>1, <2>3, <3>1, <3>3 DEF IInv, SaltInv
    <3>4. \A d \in documents' : salt'[d.by] = d.by
      BY <1>0, <1>1, <1>2, <2>3 DEF IInv, SaltInv, TypeOK
    <3> QED BY <3>2, <3>3, <3>4 DEF SaltInv
  <2>7. LedgerInv'
    BY <1>0, <1>1, <2>3, CallFacts, LedgerFrame DEF IInv
  <2>8. \A d \in Call : Progress(d)' /\ Answered(d)'
    <3>1. Progress(w)' /\ Answered(w)'
      BY <1>0, <1>1, <1>2, <2>1, <2>2, <2>3 DEF Progress, Answered
    <3>2. Grows
      BY <1>1 DEF Grows
    <3> QED BY <1>1, <2>1, <2>3, <3>1, <3>2, CallFrame
  <2>9. CounterInv'
    BY <1>1 DEF IInv, CounterInv
  <2> QED BY <2>4, <2>5, <2>6, <2>7, <2>8, <2>9 DEF IInv, ProgressInv, AnswerInv
<1> QED BY <1>3, <1>4

-----------------------------------------------------------------------------
(***************************************************************************)
(* A write that has its salt and no record yet appends one: the digest at  *)
(* the head was made with another salt, so the contract does not refuse.   *)
(***************************************************************************)
LEMMA AnchorAppends ==
    ASSUME IInv, NEW w \in Write, salt[w] = w, pc[w] # "done" \/ w \in late, Anchor(w)
    PROVE  /\ <<employeeID[w], Target[w].section>> \in Pseudonym \X Section
           /\ ledger' = [ledger EXCEPT ![<<employeeID[w], Target[w].section>>] =
                            Append(ledger[<<employeeID[w], Target[w].section>>],
                                   [by |-> w, salt |-> w])]
           /\ \A ps \in Pseudonym \X Section : \A i \in DOMAIN ledger[ps] : ledger[ps][i].by # w
<1> DEFINE ps    == <<employeeID[w], Target[w].section>>
           chain == ledger[ps]
<1>1. w \in Call /\ w # "none" /\ Progress(w) /\ Target[w].section \in Section
  BY CallFacts DEF IInv, ProgressInv
<1>2. ps \in Pseudonym \X Section
  <2>1. employeeID[w] # NoKey
    BY <1>1 DEF Progress
  <2> QED BY <1>1, <2>1, PseudonymFacts DEF IInv
<1>3. \A qs \in Pseudonym \X Section : \A i \in DOMAIN ledger[qs] :
         ledger[qs][i].by # w /\ ledger[qs][i].salt = ledger[qs][i].by
  BY DEF IInv, LedgerInv, OwnRecord
<1>4. chain # <<>> => chain[Len(chain)].salt # w
  <2>1. chain # <<>> => Len(chain) \in DOMAIN chain
    BY <1>2, RecordFacts DEF IInv
  <2> QED BY <1>2, <1>3, <2>1
<1>5. chain # <<>> => Digest(chain[Len(chain)]) # Digest([by |-> w, salt |-> salt[w]])
  BY <1>4 DEF Digest, ComputeDataHash
<1>6. ledger' = [ledger EXCEPT ![ps] = Append(@, [by |-> w, salt |-> w])]
  BY <1>5 DEF Anchor
<1> QED BY <1>2, <1>3, <1>6

(***************************************************************************)
(* Appending it keeps the chains, and the record is its write's own.       *)
(***************************************************************************)
LEMMA AnchorLedger ==
    ASSUME IInv, NEW w \in Write, salt[w] = w, pc[w] # "done" \/ w \in late, Anchor(w),
           UNCHANGED <<salt, employeeID>>, pc'[w] = "done", w \notin late', late' \subseteq late,
           \A u \in Write : pc[u] = "done" => pc'[u] = "done"
    PROVE  /\ ledger' \in [Pseudonym \X Section -> Seq(AnchorRecord)]
           /\ Grows
           /\ LedgerInv'
           /\ employeeID[w] # NoKey /\ \E i \in DOMAIN Chain(w)' : Chain(w)'[i].by = w
<1> DEFINE ps  == <<employeeID[w], Target[w].section>>
           rec == [by |-> w, salt |-> w]
           Own(r, qs) == /\ r.salt = r.by
                         /\ salt'[r.by] = r.by
                         /\ pc'[r.by] = "done" /\ r.by \notin late'
                         /\ qs = <<employeeID'[r.by], Target[r.by].section>>
<1>1. /\ ps \in Pseudonym \X Section
      /\ ledger' = [ledger EXCEPT ![ps] = Append(ledger[ps], rec)]
      /\ \A qs \in Pseudonym \X Section : \A i \in DOMAIN ledger[qs] : ledger[qs][i].by # w
  BY AnchorAppends
<1>2. rec \in AnchorRecord /\ rec.by = w /\ rec.salt = w
  BY DEF AnchorRecord
<1>3. ledger \in [Pseudonym \X Section -> Seq(AnchorRecord)]
  BY DEF IInv, TypeOK
<1>4. employeeID[w] # NoKey
  <2>1. w # "none" /\ Progress(w)
    BY CallFacts DEF IInv, ProgressInv
  <2> QED BY <2>1 DEF Progress
<1>5. Own(rec, ps)
  BY <1>2
<1>6. ledger'[ps] = Append(ledger[ps], rec) /\ \A qs \in Pseudonym \X Section : qs # ps => ledger'[qs] = ledger[qs]
  BY <1>1, <1>3
<1> HIDE DEF rec, ps
<1>7. /\ Append(ledger[ps], rec) \in Seq(AnchorRecord)
      /\ DOMAIN ledger[ps] = 1..Len(ledger[ps]) /\ Len(ledger[ps]) \in Nat
      /\ DOMAIN ledger'[ps] = 1..(Len(ledger[ps]) + 1)
      /\ \A i \in DOMAIN ledger[ps] : ledger'[ps][i] = ledger[ps][i]
      /\ ledger'[ps][Len(ledger[ps]) + 1] = rec
  <2>1. ledger[ps] \in Seq(AnchorRecord)
    BY <1>1, <1>3
  <2> QED BY <1>2, <1>6, <2>1
<1>8. ledger' \in [Pseudonym \X Section -> Seq(AnchorRecord)]
  BY <1>1, <1>3, <1>7
<1>9. DOMAIN ledger[ps] \subseteq DOMAIN ledger'[ps]
  BY <1>7
<1>10. Grows
  BY <1>6, <1>7, <1>9 DEF Grows
<1>11. ASSUME NEW qs \in Pseudonym \X Section, NEW i \in DOMAIN ledger[qs]
       PROVE  Own(ledger[qs][i], qs)
  <2>1. OwnRecord(ledger[qs][i], qs) /\ ledger[qs][i].by # w
    BY <1>1 DEF IInv, LedgerInv
  <2>2. ledger[qs][i].by \in Write
    BY RecordFacts DEF IInv
  <2> QED BY <2>1, <2>2 DEF OwnRecord
<1> HIDE DEF Own
<1>12. ASSUME NEW qs \in Pseudonym \X Section, NEW i \in DOMAIN ledger'[qs]
       PROVE  /\ Own(ledger'[qs][i], qs)
              /\ \A j \in DOMAIN ledger'[qs] : ledger'[qs][j].by = ledger'[qs][i].by => j = i
  <2>1. CASE qs # ps
    <3>1. ledger'[qs] = ledger[qs]
      BY <1>6, <2>1
    <3> QED BY <1>11, <3>1 DEF IInv, LedgerInv
  <2>2. CASE qs = ps
    <3>1. \A j \in DOMAIN ledger'[ps] : j \in DOMAIN ledger[ps] \/ j = Len(ledger[ps]) + 1
      BY <1>7
    <3>2. \A j \in DOMAIN ledger[ps] : ledger'[ps][j].by # w
      BY <1>1, <1>7
    <3>3. CASE i = Len(ledger[ps]) + 1
      BY <1>2, <1>5, <1>7, <2>2, <3>1, <3>2, <3>3
    <3>4. CASE i \in DOMAIN ledger[ps]
      <4>1. Own(ledger'[ps][i], ps)
        BY <1>7, <1>11, <2>2, <3>4
      <4>2. \A j \in DOMAIN ledger[ps] : ledger[ps][j].by = ledger[ps][i].by => j = i
        BY <1>1, <3>4 DEF IInv, LedgerInv
      <4>3. \A j \in DOMAIN ledger'[ps] : ledger'[ps][j].by = ledger'[ps][i].by => j = i
        BY <1>2, <1>7, <3>1, <3>2, <3>4, <4>2
      <4> QED BY <2>2, <4>1, <4>3
    <3> QED BY <2>2, <3>1, <3>3, <3>4
  <2> QED BY <2>1, <2>2
<1>13. LedgerInv'
  BY <1>12 DEF LedgerInv, OwnRecord, Own
<1>14. \E i \in DOMAIN Chain(w)' : Chain(w)'[i].by = w
  <2>1. Chain(w)' = ledger'[ps]
    BY DEF Chain, ps
  <2>2. Len(ledger[ps]) + 1 \in DOMAIN ledger'[ps]
    BY <1>7
  <2> QED BY <1>2, <1>7, <2>1, <2>2
<1> QED BY <1>4, <1>8, <1>10, <1>13, <1>14

(***************************************************************************)
(* A submission that succeeds, and one whose outcome was unknown.          *)
(***************************************************************************)
LEMMA SubmitIInv ==
    ASSUME IInv, NEW w \in Write, SubmitSucceeds(w)
    PROVE  IInv'
<1>0. w \in Call /\ w \notin Verification /\ w \notin Erasure /\ w # "none" /\ Progress(w)
  BY CallFacts DEF IInv, ProgressInv
<1>1. /\ pc[w] = "submit" /\ Anchor(w) /\ Answer(w, "committed")
      /\ UNCHANGED <<opVersion, keys, salts, documents, late, employeeID, version, salt,
                     nextKey, restarts, owner, shredded>>
  BY WriteAnswers DEF SubmitSucceeds, stores, locals, past
<1>2. salt[w] = w /\ w \notin late
  BY <1>0, <1>1 DEF Progress
<1>3. pc' = [pc EXCEPT ![w] = "done"] /\ response' = [response EXCEPT ![w] = "committed"]
  BY <1>1 DEF Answer
<1>4. /\ pc' \in [Call -> WriteLabel \union VerifyLabel \union EraseLabel]
      /\ \A u \in Write : pc'[u] \in WriteLabel
      /\ \A u \in Verification : pc'[u] \in VerifyLabel
      /\ \A u \in Erasure : pc'[u] \in EraseLabel
      /\ pc'[w] = "done" /\ \A d \in Call \ {w} : pc'[d] = pc[d]
  <2>1. "done" \in WriteLabel
    BY DEF WriteLabel
  <2> QED BY <1>0, <1>3, <2>1, LabelTypes DEF IInv
<1>5. /\ response' \in [Call -> Response] /\ response'[w] = "committed"
      /\ \A d \in Call \ {w} : response'[d] = response[d]
  BY <1>0, <1>3 DEF IInv, TypeOK, Response
<1>6. \A u \in Write : pc[u] = "done" => pc'[u] = "done"
  BY <1>1, <1>4, CallFacts
<1>7. /\ ledger' \in [Pseudonym \X Section -> Seq(AnchorRecord)] /\ Grows /\ LedgerInv'
      /\ employeeID[w] # NoKey /\ \E i \in DOMAIN Chain(w)' : Chain(w)'[i].by = w
  BY <1>1, <1>2, <1>4, <1>6, AnchorLedger
<1>8. TypeOK'
  BY <1>1, <1>4, <1>5, <1>7 DEF IInv, TypeOK
<1>9. KeyInv'
  <2>1. nextKey' \in Nat /\ nextKey <= nextKey'
    BY <1>1, MaxKeysFacts DEF IInv, TypeOK
  <2> QED BY <1>1, <2>1, KeyFrame DEF IInv
<1>10. SaltInv'
  BY <1>1 DEF IInv, SaltInv, FreshSalt
<1>11. \A d \in Call : Progress(d)' /\ Answered(d)'
  <2>1. Progress(w)' /\ Answered(w)'
    BY <1>0, <1>1, <1>2, <1>4, <1>5, <1>7 DEF Progress, Answered
  <2> QED BY <1>1, <1>4, <1>5, <1>7, <2>1, CallFrame
<1>12. CounterInv'
  BY <1>1 DEF IInv, CounterInv
<1> QED BY <1>7, <1>8, <1>9, <1>10, <1>11, <1>12 DEF IInv, ProgressInv, AnswerInv

\* The late record of a write that was told "partial_failure".
LEMMA AnchorLateIInv ==
    ASSUME IInv, NEW w \in Write, AnchorLate(w)
    PROVE  IInv'
<1>0. w \in Call /\ Progress(w)
  BY CallFacts DEF IInv, ProgressInv
<1>1. /\ w \in late /\ late' = late \ {w} /\ Anchor(w)
      /\ UNCHANGED <<opVersion, keys, salts, documents, pc, employeeID, version, salt, response,
                     nextKey, restarts, owner, shredded>>
  BY DEF AnchorLate, stores, locals, past
<1>2. salt[w] = w /\ pc[w] = "done"
  BY <1>0, <1>1 DEF Progress
<1>3. ledger' \in [Pseudonym \X Section -> Seq(AnchorRecord)] /\ Grows /\ LedgerInv'
  BY <1>1, <1>2, AnchorLedger
<1>4. TypeOK'
  BY <1>1, <1>3 DEF IInv, TypeOK
<1>5. KeyInv'
  <2>1. nextKey' \in Nat /\ nextKey <= nextKey'
    BY <1>1, MaxKeysFacts DEF IInv, TypeOK
  <2> QED BY <1>1, <2>1, KeyFrame DEF IInv
<1>6. SaltInv'
  BY <1>1 DEF IInv, SaltInv, FreshSalt
<1>7. \A d \in Call : Progress(d)' /\ Answered(d)'
  BY <1>1, <1>3, CallFrame
<1>8. CounterInv'
  BY <1>1 DEF IInv, CounterInv
<1> QED BY <1>3, <1>4, <1>5, <1>6, <1>7, <1>8 DEF IInv, ProgressInv, AnswerInv

(***************************************************************************)
(* The history query: the entry taken is one that the chain has.           *)
(***************************************************************************)
LEMMA HistoryIInv ==
    ASSUME IInv, NEW v \in Verification, EvaluateGetProfileHistory(v)
    PROVE  IInv'
<1>0. v \in Call /\ v \notin Write /\ v \notin Erasure /\ Progress(v) /\ Target[v].section \in Section
  BY CallFacts DEF IInv, ProgressInv
<1>1. /\ pc[v] = "history" /\ version' = [version EXCEPT ![v] = Len(Chain(v))]
      /\ UNCHANGED <<opVersion, keys, salts, documents, ledger, late, employeeID, salt,
                     nextKey, restarts, owner, shredded>>
  BY DEF EvaluateGetProfileHistory, Latest, stores, outside, past
<1>2. employeeID[v] # NoKey /\ response[v] = "none"
  BY <1>0, <1>1 DEF Progress
<1>3. /\ Len(Chain(v)) \in Nat
      /\ Chain(v) # <<>> => Len(Chain(v)) \in DOMAIN Chain(v)
  <2>1. <<employeeID[v], Target[v].section>> \in Pseudonym \X Section
    BY <1>0, <1>2, PseudonymFacts DEF IInv
  <2>2. Chain(v) \in Seq(AnchorRecord)
    BY <2>1, RecordFacts DEF IInv, Chain
  <2> QED BY <2>2
<1>4. /\ version' \in [Call -> Nat] /\ version'[v] = Len(Chain(v))
      /\ \A d \in Call \ {v} : version'[d] = version[d]
  BY <1>0, <1>1, <1>3 DEF IInv, TypeOK
<1>5. PICK label \in {"done", "getsalt"}, a \in {"none", "no_anchor_found", "deletion_verified"} :
        /\ pc' = [pc EXCEPT ![v] = label]
        /\ response' = [response EXCEPT ![v] = a]
        /\ label = "getsalt" => Chain(v) # <<>> /\ a = "none"
  <2>1. response = [response EXCEPT ![v] = "none"]
    BY <1>0, <1>2 DEF IInv, TypeOK
  <2>2. CASE Chain(v) = <<>>
    BY <2>2 DEF EvaluateGetProfileHistory, Answer
  <2>3. CASE Chain(v) # <<>> /\ Content[v] = NoValue
    BY <2>3 DEF EvaluateGetProfileHistory, Answer
  <2>4. CASE Chain(v) # <<>> /\ Content[v] # NoValue
    BY <2>1, <2>4 DEF EvaluateGetProfileHistory, Goto
  <2> QED BY <2>2, <2>3, <2>4
<1>6. /\ pc' \in [Call -> WriteLabel \union VerifyLabel \union EraseLabel]
      /\ \A u \in Write : pc'[u] \in WriteLabel
      /\ \A u \in Verification : pc'[u] \in VerifyLabel
      /\ \A u \in Erasure : pc'[u] \in EraseLabel
      /\ pc'[v] = label /\ \A d \in Call \ {v} : pc'[d] = pc[d]
  <2>1. label \in VerifyLabel
    BY DEF VerifyLabel
  <2> QED BY <1>0, <1>5, <2>1, LabelTypes DEF IInv
<1>7. /\ response' \in [Call -> Response] /\ response'[v] = a
      /\ \A d \in Call \ {v} : response'[d] = response[d]
  BY <1>0, <1>5 DEF IInv, TypeOK, Response
<1>8. TypeOK'
  BY <1>1, <1>4, <1>6, <1>7 DEF IInv, TypeOK
<1>9. KeyInv'
  <2>1. nextKey' \in Nat /\ nextKey <= nextKey'
    BY <1>1, MaxKeysFacts DEF IInv, TypeOK
  <2> QED BY <1>1, <2>1, KeyFrame DEF IInv
<1>10. \A w \in Write : version'[w] = version[w] /\ pc'[w] = pc[w]
  BY <1>4, <1>6, CallFacts
<1>11. SaltInv'
  <2>1. \A w \in Write : FreshSalt(w)' = FreshSalt(w)
    BY <1>1, <1>10 DEF FreshSalt
  <2>2. \A s \in salts : s.salt \in Write
    BY DEF IInv, TypeOK
  <2> QED BY <1>1, <2>1, <2>2 DEF IInv, SaltInv
<1>12. LedgerInv'
  BY <1>1, <1>10, LedgerFrame DEF IInv
<1>13. \A d \in Call : Progress(d)' /\ Answered(d)'
  <2>1. Chain(v)' = Chain(v)
    BY <1>1 DEF Chain
  <2>2. Progress(v)' /\ Answered(v)'
    BY <1>0, <1>1, <1>2, <1>3, <1>4, <1>5, <1>6, <1>7, <2>1 DEF Progress, Answered
  <2>3. Grows
    BY <1>1 DEF Grows
  <2> QED BY <1>1, <1>4, <1>6, <1>7, <2>2, <2>3, CallFrame
<1>14. CounterInv'
  BY <1>1, <1>10 DEF IInv, CounterInv
<1> QED BY <1>8, <1>9, <1>11, <1>12, <1>13, <1>14 DEF IInv, ProgressInv, AnswerInv

-----------------------------------------------------------------------------
(***************************************************************************)
(* An erasure deletes the salts of the pseudonym it has derived, and then  *)
(* the key under the lookup the pseudonym belongs to.                      *)
(***************************************************************************)
LEMMA DeleteSaltsIInv ==
    ASSUME IInv, NEW e \in Erasure, DeleteAllSaltsForEmployee(e)
    PROVE  IInv'
<1>0. e \in Call /\ e \notin Write /\ e \notin Verification /\ Progress(e)
  BY CallFacts DEF IInv, ProgressInv
<1>1. /\ pc[e] = "salts" /\ pc' = [pc EXCEPT ![e] = "employeekey"] /\ response' = response
      /\ salts' = {s \in salts : s.employeeID # employeeID[e]}
      /\ shredded' = shredded \union {employeeID[e]}
      /\ UNCHANGED <<opVersion, keys, documents, ledger, late, employeeID, version, salt,
                     nextKey, restarts, owner>>
  BY DEF DeleteAllSaltsForEmployee, Goto, outside, locals
<1>2. employeeID[e] # NoKey /\ response[e] = "none"
  BY <1>0, <1>1 DEF Progress
<1>3. employeeID[e] \in Pseudonym /\ employeeID[e] \in Nat /\ employeeID[e] < nextKey
  BY <1>0, <1>2, PseudonymFacts DEF IInv, TypeOK, KeyInv, Holds
<1>4. /\ pc' \in [Call -> WriteLabel \union VerifyLabel \union EraseLabel]
      /\ \A u \in Write : pc'[u] \in WriteLabel
      /\ \A u \in Verification : pc'[u] \in VerifyLabel
      /\ \A u \in Erasure : pc'[u] \in EraseLabel
      /\ pc'[e] = "employeekey" /\ \A d \in Call \ {e} : pc'[d] = pc[d]
  <2>1. "employeekey" \in EraseLabel
    BY DEF EraseLabel
  <2> QED BY <1>0, <1>1, <2>1, LabelTypes DEF IInv
<1>5. TypeOK'
  <2>1. /\ shredded' \subseteq Pseudonym
        /\ salts' \subseteq [employeeID : Nat, section : Section, version : Nat, salt : Write]
    BY <1>1, <1>3 DEF IInv, TypeOK
  <2> QED BY <1>1, <1>4, <2>1 DEF IInv, TypeOK
<1>6. KeyInv'
  <2>1. nextKey' \in Nat /\ nextKey <= nextKey'
    BY <1>1, MaxKeysFacts DEF IInv, TypeOK
  <2>2. \A p \in shredded' \ shredded : p \in Nat /\ p < nextKey
    BY <1>1, <1>3
  <2> QED BY <1>1, <2>1, <2>2, KeyFrame DEF IInv
<1>7. SaltInv'
  <2>1. \A w \in Write : FreshSalt(w)' = FreshSalt(w) /\ FreshSalt(w).employeeID = employeeID[w]
    BY <1>1 DEF FreshSalt
  <2>2. \A s \in salts : s.salt \in Write
    BY DEF IInv, TypeOK
  <2> QED BY <1>1, <2>1, <2>2 DEF IInv, SaltInv
<1>8. \A w \in Write : pc'[w] = pc[w]
  BY <1>0, <1>4, CallFacts
<1>9. LedgerInv'
  BY <1>1, <1>8, LedgerFrame DEF IInv
<1>10. \A d \in Call : Progress(d)' /\ Answered(d)'
  <2>1. Progress(e)' /\ Answered(e)'
    BY <1>0, <1>1, <1>2, <1>4 DEF Progress, Answered
  <2>2. Grows
    BY <1>1 DEF Grows
  <2> QED BY <1>1, <1>4, <2>1, <2>2, CallFrame
<1>11. CounterInv'
  BY <1>1 DEF IInv, CounterInv
<1> QED BY <1>5, <1>6, <1>7, <1>9, <1>10, <1>11 DEF IInv, ProgressInv, AnswerInv

\* The key goes last, when the employee counts as erased.
LEMMA DeleteKeyIInv ==
    ASSUME IInv, NEW e \in Erasure, DeleteEmployeeKey(e)
    PROVE  IInv'
<1> DEFINE L == LookupOf(e)
<1>0. e \in Call /\ e \notin Write /\ e \notin Verification /\ Progress(e) /\ L \in Lookup
      /\ L = KeyLookup(Subject[e], "")
  BY CallFacts DEF IInv, ProgressInv
<1>1. /\ pc[e] = "employeekey" /\ pc' = [pc EXCEPT ![e] = "done"]
      /\ response' = [response EXCEPT ![e] = "erased"]
      /\ keys' = [keys EXCEPT ![L] = NoKey]
      /\ UNCHANGED <<opVersion, salts, documents, ledger, late, employeeID, version, salt,
                     nextKey, restarts, owner, shredded>>
  BY <1>0 DEF DeleteEmployeeKey, Answer, outside, locals, past
<1>2. employeeID[e] # NoKey /\ employeeID[e] \in shredded
  BY <1>0, <1>1 DEF Progress
<1>3. Erased(EmployeeOf(e))
  BY <1>0, <1>2 DEF IInv, KeyInv, Holds, Erased
<1>4. /\ pc' \in [Call -> WriteLabel \union VerifyLabel \union EraseLabel]
      /\ \A u \in Write : pc'[u] \in WriteLabel
      /\ \A u \in Verification : pc'[u] \in VerifyLabel
      /\ \A u \in Erasure : pc'[u] \in EraseLabel
      /\ pc'[e] = "done" /\ \A d \in Call \ {e} : pc'[d] = pc[d]
  <2>1. "done" \in EraseLabel
    BY DEF EraseLabel
  <2> QED BY <1>0, <1>1, <2>1, LabelTypes DEF IInv
<1>5. /\ response' \in [Call -> Response]
      /\ \A d \in Call \ {e} : response'[d] = response[d]
  BY <1>0, <1>1 DEF IInv, TypeOK, Response
<1> HIDE DEF L
<1>6. /\ keys' \in [Lookup -> Nat] /\ keys'[L] = NoKey
      /\ \A l \in Lookup : l # L => keys'[l] = keys[l]
  BY <1>0, <1>1 DEF IInv, TypeOK, NoKey
<1>7. TypeOK'
  BY <1>1, <1>4, <1>5, <1>6 DEF IInv, TypeOK
<1>8. KeyInv'
  <2>1. \A l \in Lookup : keys'[l] # NoKey => keys'[l] = keys[l]
    BY <1>6
  <2>2. ASSUME NEW c \in Call, employeeID[c] # NoKey PROVE Holds(c)'
    <3>1. Holds(c) /\ LookupOf(c) \in Lookup
      BY <2>2, CallFacts DEF IInv, KeyInv
    <3>2. \A d : LookupOf(d)[1] = EmployeeOf(d)
      BY DEF LookupOf, KeyLookup
    <3>3. LookupOf(c) = L => Erased(EmployeeOf(c))
      BY <1>3, <3>2 DEF L
    <3>4. Erased(EmployeeOf(c))' \/ keys'[LookupOf(c)] = employeeID[c]
      BY <1>1, <1>6, <3>1, <3>3 DEF Holds, Erased
    <3>5. \A l \in Lookup : keys'[l] = employeeID[c] => l = LookupOf(c)
      BY <2>1, <2>2, <3>1 DEF Holds
    <3> QED BY <1>1, <3>1, <3>4, <3>5 DEF Holds
  <2> QED BY <1>1, <2>1, <2>2 DEF IInv, KeyInv
<1>9. SaltInv'
  BY <1>1 DEF IInv, SaltInv, FreshSalt
<1>10. LedgerInv'
  <2>1. \A w \in Write : pc'[w] = pc[w]
    BY <1>0, <1>4, CallFacts
  <2> QED BY <1>1, <2>1, LedgerFrame DEF IInv
<1>11. \A d \in Call : Progress(d)' /\ Answered(d)'
  <2>1. Progress(e)' /\ Answered(e)'
    BY <1>0, <1>4 DEF Progress, Answered
  <2>2. Grows
    BY <1>1 DEF Grows
  <2> QED BY <1>1, <1>4, <1>5, <2>1, <2>2, CallFrame
<1>12. CounterInv'
  BY <1>1 DEF IInv, CounterInv
<1> QED BY <1>7, <1>8, <1>9, <1>10, <1>11, <1>12 DEF IInv, ProgressInv, AnswerInv

(***************************************************************************)
(* A restart: submissions in flight become late, the counters begin again. *)
(***************************************************************************)
LEMMA RestartIInv ==
    ASSUME IInv, Restart
    PROVE  IInv'
<1>1. /\ restarts' = restarts + 1 /\ opVersion' = [es \in Employee \X Section |-> 0]
      /\ pc' = [c \in Call |-> IF pc[c] = "idle" THEN "idle" ELSE "done"]
      /\ late' = late \union {w \in Write : pc[w] = "submit"}
      /\ UNCHANGED <<keys, salts, documents, ledger, employeeID, version, salt, response,
                     nextKey, owner, shredded>>
  BY DEF Restart, locals
<1>2. /\ \A c \in Call : (pc[c] = "idle" /\ pc'[c] = "idle") \/ (pc[c] # "idle" /\ pc'[c] = "done")
      /\ pc' \in [Call -> WriteLabel \union VerifyLabel \union EraseLabel]
  BY <1>1 DEF WriteLabel
<1>3. TypeOK'
  <2>1. /\ \A u \in Write : pc'[u] \in WriteLabel
        /\ \A u \in Verification : pc'[u] \in VerifyLabel
        /\ \A u \in Erasure : pc'[u] \in EraseLabel
    BY <1>2 DEF Call, WriteLabel, VerifyLabel, EraseLabel
  <2>2. restarts' \in Nat /\ opVersion' \in [Employee \X Section -> Nat] /\ late' \subseteq Write
    BY <1>1 DEF IInv, TypeOK
  <2> QED BY <1>1, <1>2, <2>1, <2>2 DEF IInv, TypeOK
<1>4. KeyInv'
  <2>1. nextKey' \in Nat /\ nextKey <= nextKey'
    BY <1>1, MaxKeysFacts DEF IInv, TypeOK
  <2> QED BY <1>1, <2>1, KeyFrame DEF IInv
<1>5. SaltInv'
  BY <1>1 DEF IInv, SaltInv, FreshSalt
<1>6. LedgerInv'
  <2>1. \A w \in Write : pc[w] = "done" => pc'[w] = "done" /\ (w \in late' => w \in late)
    BY <1>1, <1>2, CallFacts
  <2> QED BY <1>1, <2>1, LedgerFrame DEF IInv
<1>7. ASSUME NEW c \in Call PROVE Progress(c)' /\ Answered(c)'
  <2>1. Progress(c) /\ Answered(c) /\ Chain(c)' = Chain(c)
    BY <1>1 DEF IInv, ProgressInv, AnswerInv, Chain
  <2>2. Progress(c)'
    BY <1>1, <1>2, <2>1 DEF Progress
  <2>3. Answered(c)'
    BY <1>1, <2>1 DEF Answered
  <2> QED BY <2>2, <2>3
<1>8. CounterInv'
  <2>1. restarts' # 0
    BY <1>1 DEF IInv, TypeOK
  <2> QED BY <2>1 DEF CounterInv
<1> QED BY <1>3, <1>4, <1>5, <1>6, <1>7, <1>8 DEF IInv, ProgressInv, AnswerInv

-----------------------------------------------------------------------------
(***************************************************************************)
(* Every step keeps the invariant.                                         *)
(***************************************************************************)
LEMMA NextIInv == IInv /\ [Next]_vars => IInv'
<1> SUFFICES ASSUME IInv, [Next]_vars PROVE IInv'
  OBVIOUS
<1>1. ASSUME NEW c \in Call, Step(c) PROVE IInv'
  <2>1. CASE Refuse(c)
    BY <2>1, RefuseIInv
  <2>2. CASE c \in Write /\ WriteStep(c)
    BY <2>2, SaveIInv, ResolveStepsIInv, PutSaltIInv, DocumentIInv, SubmitIInv DEF WriteStep
  <2>3. CASE c \in Verification /\ VerifyStep(c)
    BY <2>3, ResolveStepsIInv, HistoryIInv, GetSaltIInv DEF VerifyStep
  <2>4. CASE c \in Erasure /\ EraseStep(c)
    BY <2>4, EraseSectionsIInv, ResolveStepsIInv, DeleteSaltsIInv, DeleteKeyIInv DEF EraseStep
  <2> QED BY <1>1, <2>1, <2>2, <2>3, <2>4 DEF Step
<1>2. ASSUME NEW c \in Call, Fault(c) PROVE IInv'
  BY <1>2, WriteFaultIInv, ReadFaultIInv DEF Fault
<1>3. ASSUME NEW w \in Write, AnchorLate(w) PROVE IInv'
  BY <1>3, AnchorLateIInv
<1>4. CASE Restart
  BY <1>4, RestartIInv
<1>5. CASE UNCHANGED vars
  <2>1. /\ UNCHANGED <<opVersion, keys, salts, documents, ledger, late, pc, employeeID, version,
                       salt, response, nextKey, restarts, owner, shredded>>
    BY <1>5 DEF vars, stores, outside, locals, past
  <2>2. TypeOK'
    BY <2>1 DEF IInv, TypeOK
  <2>3. KeyInv'
    BY <2>1 DEF IInv, KeyInv, Holds, Erased
  <2>4. ProgressInv'
    BY <2>1 DEF IInv, ProgressInv, Progress, Chain
  <2>5. SaltInv' /\ CounterInv'
    BY <2>1 DEF IInv, SaltInv, FreshSalt, CounterInv
  <2>6. LedgerInv'
    BY <2>1 DEF IInv, LedgerInv, OwnRecord
  <2>7. AnswerInv'
    BY <2>1 DEF IInv, AnswerInv, Answered, Chain
  <2> QED BY <2>2, <2>3, <2>4, <2>5, <2>6, <2>7 DEF IInv
<1> QED BY <1>1, <1>2, <1>3, <1>4, <1>5 DEF Next

(***************************************************************************)
(* Two calls that share a pseudonym are about one record of one employee.  *)
(***************************************************************************)
LEMMA SharedPseudonym ==
    ASSUME IInv, NEW c \in Call, NEW d \in Call,
           employeeID[c] # NoKey, employeeID[d] = employeeID[c]
    PROVE  EmployeeOf(d) = EmployeeOf(c) /\ IdentityOf(d) = IdentityOf(c)
<1>1. LookupOf(d) = LookupOf(c)
  BY DEF IInv, KeyInv, Holds
<1>2. \A x : LookupOf(x)[1] = EmployeeOf(x) /\ LookupOf(x)[2] = IdentityOf(x)
  BY DEF LookupOf, KeyLookup
<1> QED BY <1>1, <1>2

\* Whose record an entry of the ledger is.
LEMMA RecordOwner ==
    ASSUME IInv, NEW p \in Pseudonym, NEW section \in Section, NEW i \in DOMAIN ledger[<<p, section>>]
    PROVE  LET rec == ledger[<<p, section>>][i]
           IN  /\ rec.by \in Write /\ rec.salt = rec.by /\ salt[rec.by] = rec.by
               /\ rec.by \notin late
               /\ employeeID[rec.by] = p /\ Target[rec.by].section = section
               /\ \A j \in DOMAIN ledger[<<p, section>>] : ledger[<<p, section>>][j].by = rec.by => j = i
<1>1. <<p, section>> \in Pseudonym \X Section
  OBVIOUS
<1>2. /\ OwnRecord(ledger[<<p, section>>][i], <<p, section>>)
      /\ \A j \in DOMAIN ledger[<<p, section>>] :
           ledger[<<p, section>>][j].by = ledger[<<p, section>>][i].by => j = i
  BY <1>1 DEF IInv, LedgerInv
<1>3. ledger[<<p, section>>][i].by \in Write
  BY <1>1, RecordFacts DEF IInv
<1> QED BY <1>2, <1>3 DEF OwnRecord

(***************************************************************************)
(* The invariant holds however requests, faults, late records and restarts *)
(* interleave.                                                             *)
(***************************************************************************)
THEOREM WritePathsInvariant == Spec => []IInv
  BY InitIInv, NextIInv, PTL DEF Spec

(***************************************************************************)
(* Every digest on the ledger can be opened until an erasure deletes its   *)
(* salt: PutSalt is saved before the submission and never rotates.         *)
(***************************************************************************)
THEOREM AnchorsCanBeOpened == Spec => []EveryAnchorHasSalt
<1>1. IInv => EveryAnchorHasSalt
  <2> SUFFICES ASSUME IInv, NEW p \in Pseudonym \ shredded, NEW section \in Section,
                      NEW i \in DOMAIN ledger[<<p, section>>]
               PROVE  \E s \in salts : /\ s.employeeID = p /\ s.section = section
                                       /\ s.salt = ledger[<<p, section>>][i].salt
    BY DEF EveryAnchorHasSalt, Records
  <2> DEFINE w == ledger[<<p, section>>][i].by
  <2>1. /\ w \in Write /\ ledger[<<p, section>>][i].salt = w /\ salt[w] = w
        /\ employeeID[w] = p /\ Target[w].section = section
    BY RecordOwner
  <2>2. FreshSalt(w) \in salts
    BY <2>1 DEF IInv, SaltInv
  <2>3. /\ FreshSalt(w).employeeID = employeeID[w] /\ FreshSalt(w).section = Target[w].section
        /\ FreshSalt(w).salt = w
    BY DEF FreshSalt
  <2> QED BY <2>1, <2>2, <2>3
<1> QED BY <1>1, WritePathsInvariant, PTL

(***************************************************************************)
(* No salt digests two records: each write draws its own and is anchored   *)
(* at most once, now or late.                                              *)
(***************************************************************************)
THEOREM SaltsAreUsedOnce == Spec => []OneSaltPerRecord
<1>1. IInv => OneSaltPerRecord
  <2> SUFFICES ASSUME IInv, NEW p \in Pseudonym, NEW q \in Pseudonym,
                      NEW s \in Section, NEW t \in Section,
                      NEW i \in DOMAIN ledger[<<p, s>>], NEW j \in DOMAIN ledger[<<q, t>>],
                      ledger[<<p, s>>][i].salt = ledger[<<q, t>>][j].salt
               PROVE  p = q /\ s = t /\ i = j
    BY DEF OneSaltPerRecord
  <2>1. /\ ledger[<<p, s>>][i].salt = ledger[<<p, s>>][i].by
        /\ employeeID[ledger[<<p, s>>][i].by] = p /\ Target[ledger[<<p, s>>][i].by].section = s
        /\ \A k \in DOMAIN ledger[<<p, s>>] : ledger[<<p, s>>][k].by = ledger[<<p, s>>][i].by => k = i
    BY RecordOwner
  <2>2. /\ ledger[<<q, t>>][j].salt = ledger[<<q, t>>][j].by
        /\ employeeID[ledger[<<q, t>>][j].by] = q /\ Target[ledger[<<q, t>>][j].by].section = t
    BY RecordOwner
  <2>3. p = q /\ s = t
    BY <2>1, <2>2
  <2>4. i = j
    BY <2>1, <2>2, <2>3
  <2> QED BY <2>3, <2>4
<1> QED BY <1>1, WritePathsInvariant, PTL

(***************************************************************************)
(* The bridge answers "committed" only for a write that has exactly one    *)
(* record, under its own pseudonym, and none on its way.                   *)
(***************************************************************************)
THEOREM CommittedWritesAreAnchored == Spec => []CommittedIsAnchored
<1>1. IInv => CommittedIsAnchored
  <2> SUFFICES ASSUME IInv, NEW w \in Write, response[w] = "committed"
               PROVE  /\ w \notin late /\ employeeID[w] # NoKey
                      /\ \E i \in DOMAIN Chain(w) :
                           /\ Chain(w)[i].by = w
                           /\ \A j \in DOMAIN Chain(w) : Chain(w)[j].by = w => j = i
    BY DEF CommittedIsAnchored
  <2>1. w \in Call /\ Target[w].section \in Section /\ Answered(w)
    BY CallFacts DEF IInv, AnswerInv
  <2>2. employeeID[w] # NoKey /\ \E i \in DOMAIN Chain(w) : Chain(w)[i].by = w
    BY <2>1 DEF Answered
  <2>3. employeeID[w] \in Pseudonym
    BY <2>1, <2>2, PseudonymFacts DEF IInv
  <2>4. PICK i \in DOMAIN Chain(w) : Chain(w)[i].by = w
    BY <2>2
  <2>5. w \notin late /\ \A j \in DOMAIN Chain(w) : Chain(w)[j].by = w => j = i
    BY <2>1, <2>3, <2>4, RecordOwner DEF Chain
  <2> QED BY <2>2, <2>4, <2>5
<1> QED BY <1>1, WritePathsInvariant, PTL

(***************************************************************************)
(* A write answered "error" or "rejected" has left no salt, document or    *)
(* record, and none will come: only failures before the save answer so.    *)
(***************************************************************************)
THEOREM ErrorsLeaveNoTrace == Spec => []ErrorLeavesNoTrace
<1>1. IInv => ErrorLeavesNoTrace
  <2> SUFFICES ASSUME IInv, NEW w \in Write, response[w] \in {"error", "rejected"}
               PROVE  /\ version[w] = 0
                      /\ \A s \in salts : s.salt # w
                      /\ \A d \in documents : d.by # w
                      /\ ~AnchoredBy(w) /\ w \notin late
    BY DEF ErrorLeavesNoTrace
  <2>1. w \in Call /\ w # "none" /\ Answered(w) /\ Progress(w)
    BY CallFacts DEF IInv, AnswerInv, ProgressInv
  <2>2. version[w] = 0 /\ salt[w] # w
    BY <2>1 DEF Answered
  <2>3. (\A s \in salts : s.salt # w) /\ (\A d \in documents : d.by # w)
    BY <2>2 DEF IInv, SaltInv
  <2>4. w \notin late
    BY <2>1, <2>2 DEF Progress
  <2>5. ~AnchoredBy(w)
    <3> SUFFICES ASSUME NEW p \in Pseudonym, NEW section \in Section, NEW salted \in Write,
                        NEW i \in DOMAIN ledger[<<p, section>>],
                        ledger[<<p, section>>][i] = [by |-> w, salt |-> salted]
                 PROVE  FALSE
      BY DEF AnchoredBy, Records
    <3>1. ledger[<<p, section>>][i].by = w
      OBVIOUS
    <3> QED BY <2>2, <3>1, RecordOwner
  <2> QED BY <2>2, <2>3, <2>4, <2>5
<1> QED BY <1>1, WritePathsInvariant, PTL

(***************************************************************************)
(* Writes and verifications of one record resolve one pseudonym until the  *)
(* employee is erased: GetOrCreateEmployeeKey draws once per lookup.       *)
(***************************************************************************)
THEOREM OnePseudonymPerRecord == Spec => []PseudonymsAgree
<1>1. IInv => PseudonymsAgree
  <2> SUFFICES ASSUME IInv, NEW w \in Write, NEW v \in Verification,
                      Target[w].employee = Target[v].employee,
                      TrimSpace[Target[w].identity] = Target[v].identity,
                      ~Erased(Target[w].employee),
                      employeeID[w] # NoKey, employeeID[v] # NoKey
               PROVE  employeeID[w] = employeeID[v]
    BY DEF PseudonymsAgree
  <2>1. /\ w \in Call /\ v \in Call /\ LookupOf(w) = LookupOf(v)
        /\ EmployeeOf(w) = Target[w].employee /\ EmployeeOf(v) = Target[w].employee
    BY CallFacts
  <2>2. Holds(w) /\ Holds(v)
    BY <2>1 DEF IInv, KeyInv
  <2>3. keys[LookupOf(w)] = employeeID[w] /\ keys[LookupOf(v)] = employeeID[v]
    BY <2>1, <2>2 DEF Holds
  <2> QED BY <2>1, <2>3
<1> QED BY <1>1, WritePathsInvariant, PTL

\* No slot is taken before its write comes.
LEMMA SlotIsFree == IInv => SaltSlotIsFree
<1> SUFFICES ASSUME IInv, restarts = 0, NEW w \in Write, pc[w] = "salt", NEW s \in SaltSlot(w)
             PROVE  FALSE
  BY DEF SaltSlotIsFree
<1> DEFINE u == s.salt
<1>1. w \in Call /\ w # "none" /\ Progress(w) /\ EmployeeOf(w) = Target[w].employee
  BY CallFacts DEF IInv, ProgressInv
<1>2. salt[w] = "none" /\ employeeID[w] # NoKey /\ version[w] # 0
  BY <1>1 DEF Progress
<1>3. /\ s \in salts /\ s.employeeID = employeeID[w] /\ s.section = Target[w].section
      /\ s.version = version[w]
  BY DEF SaltSlot, SaltsAt
<1>4. u \in Write /\ salt[u] = u /\ s = FreshSalt(u)
  BY <1>3 DEF IInv, SaltInv, TypeOK
<1>5. u \in Call /\ u # "none" /\ EmployeeOf(u) = Target[u].employee
  BY <1>4, CallFacts
<1> HIDE DEF u
<1>6. /\ FreshSalt(u).employeeID = employeeID[u] /\ FreshSalt(u).section = Target[u].section
      /\ FreshSalt(u).version = version[u]
  BY DEF FreshSalt
<1>7. employeeID[u] = employeeID[w] /\ Target[u].section = Target[w].section /\ version[u] = version[w]
  BY <1>3, <1>4, <1>6
<1>8. Target[u].employee = Target[w].employee
  BY <1>1, <1>2, <1>5, <1>7, SharedPseudonym
<1>9. u = w
  BY <1>2, <1>4, <1>7, <1>8 DEF IInv, CounterInv, Counter
<1> QED BY <1>1, <1>2, <1>4, <1>9

(***************************************************************************)
(* Until a restart no write finds its salt slot taken: the operational     *)
(* store gives every save of a section a version of its own.               *)
(***************************************************************************)
THEOREM SlotsAreFree == Spec => []SaltSlotIsFree
  BY SlotIsFree, WritePathsInvariant, PTL

(***************************************************************************)
(* The verify route answers "verified" only for a value that a write of    *)
(* the same employee, section and record identity has anchored.            *)
(***************************************************************************)
THEOREM VerifiedValuesWereWritten == Spec => []VerifiedMeansWritten
<1>1. IInv => VerifiedMeansWritten
  <2> SUFFICES ASSUME IInv, NEW v \in Verification, response[v] = "verified"
               PROVE  LET w == Chain(v)[version[v]].by
                      IN  /\ Content[w] = Content[v]
                          /\ Target[w].employee = Target[v].employee
                          /\ Target[w].section = Target[v].section
                          /\ TrimSpace[Target[w].identity] = Target[v].identity
    BY DEF VerifiedMeansWritten
  <2> DEFINE w == Chain(v)[version[v]].by
  <2>1. v \in Call /\ v \notin Write /\ v \notin Erasure /\ Target[v].section \in Section /\ Answered(v)
    BY CallFacts DEF IInv, AnswerInv
  <2>2. employeeID[v] # NoKey /\ version[v] \in DOMAIN Chain(v) /\ Content[w] = Content[v]
    BY <2>1 DEF Answered
  <2>3. employeeID[v] \in Pseudonym
    BY <2>1, <2>2, PseudonymFacts DEF IInv
  <2>4. w \in Write /\ employeeID[w] = employeeID[v] /\ Target[w].section = Target[v].section
    BY <2>1, <2>2, <2>3, RecordOwner DEF Chain
  <2> HIDE DEF w
  <2>5. w \in Call /\ w \notin Erasure
    BY <2>4, CallFacts
  <2>6. EmployeeOf(w) = EmployeeOf(v) /\ IdentityOf(w) = IdentityOf(v)
    BY <2>1, <2>2, <2>4, <2>5, SharedPseudonym
  <2>7. Target[w].employee = Target[v].employee /\ TrimSpace[Target[w].identity] = Target[v].identity
    BY <2>1, <2>4, <2>5, <2>6 DEF EmployeeOf, IdentityOf
  <2> QED BY <2>2, <2>4, <2>7 DEF w
<1> QED BY <1>1, WritePathsInvariant, PTL

-----------------------------------------------------------------------------
(***************************************************************************)
(* Erasure among other requests.  Whatever runs beside it, the two keys an *)
(* erasure destroys do not come back: what a call draws later is new.      *)
(***************************************************************************)

\* A key that is gone, or was drawn after the erasure began.
NewKey(key, e) == key = NoKey \/ since[e] <= key

\* No draw that an erasure has still to see comes before its beginning.
SinceInv ==
    /\ since \in [Erasure -> Nat]
    /\ \A e \in Erasure : pc[e] # "idle" => since[e] <= nextKey

\* The erasure has destroyed the document key.
PastDocumentKey(e) == pc[e] \in {"derive", "salts", "employeekey"} \/ response[e] = "erased"

DocumentInv ==
    /\ docKeys \in [Employee -> Nat]
    /\ documentKey \in [Write -> Nat]
    /\ \A w \in Write : pc[w] = "pin" => documentKey[w] # NoKey
    /\ \A d \in documents : d.key \in Nat \ {NoKey}
    /\ \A e \in Erasure : PastDocumentKey(e) => NewKey(docKeys[Subject[e]], e)

GoneInv == \A e \in Erasure : response[e] = "erased" => NewKey(keys[LookupOf(e)], e)

DestroyedInv == SinceInv /\ DocumentInv /\ GoneInv

\* Draws are counted from 1.
LEMMA NextKeyFacts == IInv => nextKey \in Nat /\ nextKey # NoKey
<1> SUFFICES ASSUME IInv PROVE nextKey \in Nat /\ nextKey # NoKey
  OBVIOUS
<1>1. nextKey \in 1..(MaxKeys + 1)
  BY DEF IInv, TypeOK
<1> QED BY <1>1, MaxKeysFacts

(***************************************************************************)
(* A step that touches no key, salt or document: the call moves on, or     *)
(* answers.                                                                *)
(***************************************************************************)
secrets == <<keys, docKeys, salts, documents, employeeID, documentKey, nextKey, since>>

Plain(c) ==
    /\ UNCHANGED secrets
    /\ pc[c] # "done" /\ (c \in Erasure => pc[c] # "idle")
    /\ \E label : /\ label \notin {"idle", "pin", "derive", "salts", "employeekey"}
                  /\ pc' = [pc EXCEPT ![c] = label]
    /\ response'[c] # "erased" /\ \A d \in Call \ {c} : response'[d] = response[d]

\* The call answers.
LEMMA PlainAnswer ==
    ASSUME IInv, UNCHANGED secrets,
           NEW c \in Call, pc[c] # "done", c \in Erasure => pc[c] # "idle",
           NEW a, a # "erased", Answer(c, a)
    PROVE  Plain(c)
<1>1. response \in [Call -> Response]
  BY DEF IInv, TypeOK
<1>2. /\ pc' = [pc EXCEPT ![c] = "done"]
      /\ response'[c] # "erased" /\ \A d \in Call \ {c} : response'[d] = response[d]
  BY <1>1 DEF Answer
<1> QED BY <1>2 DEF Plain

\* The call goes on.
LEMMA PlainGoto ==
    ASSUME IInv, UNCHANGED secrets,
           NEW c \in Call, pc[c] # "done", c \in Erasure => pc[c] # "idle",
           NEW label, label \notin {"idle", "pin", "derive", "salts", "employeekey", "done"},
           Goto(c, label)
    PROVE  Plain(c)
<1>1. UNCHANGED response /\ pc' = [pc EXCEPT ![c] = label] /\ Progress(c)
  BY DEF Goto, IInv, ProgressInv
<1>2. response'[c] # "erased"
  BY <1>1 DEF Progress
<1> QED BY <1>1, <1>2 DEF Plain

(***************************************************************************)
(* The steps of a call that do touch a key, a salt or a document.          *)
(***************************************************************************)
Secretive(c) ==
    \/ c \in Write /\ (ResolveEmployeeKey(c) \/ PutSalt(c) \/ FetchDocumentKey(c))
    \/ c \in Write /\ (EncryptAndAdd(c) \/ PinFails(c))
    \/ c \in Verification /\ ResolveEmployeeID(c)
    \/ c \in Erasure /\ (BeginErase(c) \/ DeleteDocumentKey(c) \/ DeriveEmployeeID(c))
    \/ c \in Erasure /\ (DeleteAllSaltsForEmployee(c) \/ DeleteEmployeeKey(c))

\* All others are plain.
LEMMA PlainSteps ==
    ASSUME IInv, NEW c \in Call, Step(c) \/ Fault(c)
    PROVE  Plain(c) \/ Secretive(c)
<1>1. CASE Refuse(c)
  <2>1. pc[c] = "idle" /\ c \notin Erasure /\ UNCHANGED secrets
    BY <1>1, CallFacts DEF Refuse, secrets, stores, outside, locals, past
  <2> QED BY <1>1, <2>1, RefuseAnswers, PlainAnswer
<1>2. CASE c \in Write /\ (WriteStep(c) \/ WriteFault(c))
  <2>0. c \notin Erasure
    BY <1>2, CallFacts
  <2>1. CASE SaveSection(c)
    <3>1. Goto(c, "key") /\ pc[c] = "idle" /\ UNCHANGED secrets
      BY <2>1 DEF SaveSection, secrets, outside, past
    <3> QED BY <2>0, <3>1, PlainGoto
  <2>2. CASE SubmitSucceeds(c)
    <3>1. Answer(c, "committed") /\ pc[c] = "submit" /\ UNCHANGED secrets
      BY <2>2, WriteAnswers DEF SubmitSucceeds, secrets, stores, locals, past
    <3> QED BY <2>0, <3>1, PlainAnswer
  <2>3. CASE SaveSectionFails(c)
    <3>1. (Answer(c, "error") \/ Answer(c, "partial_failure")) /\ pc[c] = "idle" /\ UNCHANGED secrets
      BY <2>3, WriteAnswers DEF SaveSectionFails, secrets, stores, outside, locals, past
    <3> QED BY <2>0, <3>1, PlainAnswer
  <2>4. CASE SubmitUnknown(c) \/ AnchorFails(c)
    <3>1. Answer(c, "partial_failure") /\ pc[c] # "done" /\ UNCHANGED secrets
      BY <2>4, WriteAnswers DEF SubmitUnknown, AnchorFails, secrets, stores, outside, locals, past
    <3> QED BY <2>0, <3>1, PlainAnswer
  <2> QED BY <1>2, <2>1, <2>2, <2>3, <2>4 DEF WriteStep, WriteFault, Secretive
<1>3. CASE c \in Verification /\ (VerifyStep(c) \/ VerifyFails(c))
  <2>0. c \notin Erasure
    BY <1>3, CallFacts
  <2>1. CASE EvaluateGetProfileHistory(c)
    <3>1. pc[c] = "history" /\ UNCHANGED secrets
      BY <2>1 DEF EvaluateGetProfileHistory, secrets, stores, outside, past
    <3>2. Answer(c, "no_anchor_found") \/ Answer(c, "deletion_verified") \/ Goto(c, "getsalt")
      BY <2>1 DEF EvaluateGetProfileHistory
    <3>3. CASE Goto(c, "getsalt")
      BY <2>0, <3>1, <3>3, PlainGoto
    <3> QED BY <2>0, <3>1, <3>2, <3>3, PlainAnswer
  <2>2. CASE GetSalt(c)
    <3>1. pc[c] = "getsalt" /\ UNCHANGED secrets
      BY <2>2 DEF GetSalt, secrets, stores, outside, locals, past
    <3>2. \E a \in {"error", "verified", "compromised"} : Answer(c, a)
      BY <2>2 DEF GetSalt
    <3> QED BY <2>0, <3>1, <3>2, PlainAnswer
  <2>3. CASE VerifyFails(c)
    <3>1. pc[c] # "done" /\ Answer(c, "error") /\ UNCHANGED secrets
      BY <2>3 DEF VerifyFails, secrets, stores, outside, locals, past
    <3> QED BY <2>0, <3>1, PlainAnswer
  <2> QED BY <1>3, <2>1, <2>2, <2>3 DEF VerifyStep, Secretive
<1>4. CASE c \in Erasure /\ (EraseStep(c) \/ EraseFails(c))
  <2>1. CASE DeleteSection(c)
    <3>1. pc[c] = "sections" /\ UNCHANGED secrets
      BY <2>1 DEF DeleteSection, secrets, outside, past
    <3>2. \E label \in {"sections", "documentkey"} : Goto(c, label)
      BY <2>1 DEF DeleteSection
    <3> QED BY <3>1, <3>2, PlainGoto
  <2>2. CASE EraseFails(c)
    <3>1. pc[c] \notin {"idle", "done"} /\ Answer(c, "error") /\ UNCHANGED secrets
      BY <2>2 DEF EraseFails, secrets, stores, outside, locals, past
    <3> QED BY <3>1, PlainAnswer
  <2> QED BY <1>4, <2>1, <2>2 DEF EraseStep, Secretive
<1> QED BY <1>1, <1>2, <1>3, <1>4 DEF Step, Fault

(***************************************************************************)
(* A step that begins no erasure and leaves the documents alone: draws go  *)
(* up, and a key that appears is the draw of this step.                    *)
(***************************************************************************)
LEMMA DestroyedFrame ==
    ASSUME IInv, DestroyedInv, UNCHANGED <<docKeys, documentKey, documents, since>>,
           nextKey' \in Nat, nextKey <= nextKey',
           \A w \in Write : pc'[w] = "pin" => pc[w] = "pin",
           \A e \in Erasure : pc[e] = "idle" => pc'[e] = "idle",
           \A e \in Erasure : PastDocumentKey(e)' => PastDocumentKey(e),
           \A e \in Erasure : response'[e] = "erased" =>
             response[e] = "erased" \/ keys'[LookupOf(e)] = NoKey,
           \A l \in Lookup : keys'[l] = keys[l] \/ keys'[l] = NoKey \/ keys'[l] = nextKey
    PROVE  DestroyedInv'
<1>1. nextKey \in Nat /\ \A e \in Erasure : since[e] \in Nat
  BY NextKeyFacts DEF DestroyedInv, SinceInv
<1>2. SinceInv'
  BY <1>1 DEF DestroyedInv, SinceInv
<1>3. DocumentInv'
  <2>1. \A e \in Erasure : PastDocumentKey(e)' => NewKey(docKeys[Subject[e]], e)'
    BY DEF DestroyedInv, DocumentInv, NewKey
  <2> QED BY <2>1 DEF DestroyedInv, DocumentInv
<1>4. GoneInv'
  <2> SUFFICES ASSUME NEW e \in Erasure, response'[e] = "erased"
               PROVE  keys'[LookupOf(e)] = NoKey \/ since[e] <= keys'[LookupOf(e)]
    BY DEF GoneInv, NewKey
  <2>1. CASE response[e] = "erased"
    <3>1. e \in Call /\ LookupOf(e) \in Lookup /\ Progress(e)
      BY CallFacts DEF IInv, ProgressInv
    <3>2. since[e] <= nextKey /\ NewKey(keys[LookupOf(e)], e)
      BY <2>1, <3>1 DEF Progress, DestroyedInv, SinceInv, GoneInv
    <3> QED BY <3>1, <3>2 DEF NewKey
  <2> QED BY <2>1
<1> QED BY <1>2, <1>3, <1>4 DEF DestroyedInv

\* Plain steps.
LEMMA DestroyedPlain ==
    ASSUME IInv, DestroyedInv, NEW c \in Call, Plain(c)
    PROVE  DestroyedInv'
<1>1. PICK label : /\ label \notin {"idle", "pin", "derive", "salts", "employeekey"}
                   /\ pc' = [pc EXCEPT ![c] = label]
  BY DEF Plain
<1>2. pc'[c] = label /\ \A d \in Call \ {c} : pc'[d] = pc[d]
  BY <1>1 DEF IInv, TypeOK
<1>3. /\ UNCHANGED <<keys, since, nextKey, docKeys, documentKey, documents>>
      /\ response'[c] # "erased" /\ \A d \in Call \ {c} : response'[d] = response[d]
      /\ c \in Erasure => pc[c] # "idle"
  BY DEF Plain, secrets
<1>4. nextKey' \in Nat /\ nextKey <= nextKey'
  BY <1>3, NextKeyFacts
<1>5. \A w \in Write : pc'[w] = "pin" => pc[w] = "pin"
  BY <1>1, <1>2, CallFacts
<1>6. \A e \in Erasure : /\ pc[e] = "idle" => pc'[e] = "idle"
                         /\ PastDocumentKey(e)' => PastDocumentKey(e)
                         /\ response'[e] = "erased" => response[e] = "erased"
  BY <1>1, <1>2, <1>3, CallFacts DEF PastDocumentKey
<1> QED BY <1>3, <1>4, <1>5, <1>6, DestroyedFrame

\* A call that resolves its pseudonym: a key it draws is a new one.
LEMMA DestroyedResolve ==
    ASSUME IInv, DestroyedInv, NEW c \in Call, NEW label,
           GetOrCreateEmployeeKey(c, LookupOf(c), label),
           UNCHANGED <<docKeys, documentKey, documents, since>>,
           label # "pin", label # "idle",
           c \in Erasure => pc[c] = "derive"
    PROVE  DestroyedInv'
<1>1. /\ UNCHANGED response /\ LookupOf(c) \in Lookup /\ keys \in [Lookup -> Nat]
      /\ pc'[c] = label /\ \A d \in Call \ {c} : pc'[d] = pc[d]
  BY CallFacts DEF GetOrCreateEmployeeKey, Goto, IInv, TypeOK
<1>2. nextKey' \in Nat /\ nextKey <= nextKey'
  BY NextKeyFacts DEF GetOrCreateEmployeeKey
<1>3. \A l \in Lookup : keys'[l] = keys[l] \/ keys'[l] = nextKey
  BY <1>1 DEF GetOrCreateEmployeeKey
<1>4. \A w \in Write : pc'[w] = "pin" => pc[w] = "pin"
  BY <1>1, CallFacts
<1>5. \A e \in Erasure : /\ pc[e] = "idle" => pc'[e] = "idle"
                         /\ PastDocumentKey(e)' => PastDocumentKey(e)
  BY <1>1, CallFacts DEF PastDocumentKey
<1> QED BY <1>1, <1>2, <1>3, <1>4, <1>5, DestroyedFrame

(***************************************************************************)
(* A write whose ciphertext has been added, pinned or not.                 *)
(***************************************************************************)
LEMMA DestroyedAdd ==
    ASSUME IInv, DestroyedInv, NEW w \in Write, EncryptAndAdd(w) \/ PinFails(w)
    PROVE  DestroyedInv'
<1>0. /\ w \in Call /\ w \notin Erasure /\ Progress(w) /\ nextKey \in Nat
      /\ response \in [Call -> Response]
  BY CallFacts, NextKeyFacts DEF IInv, ProgressInv, TypeOK
<1>1. PICK label \in {"submit", "done"} : pc' = [pc EXCEPT ![w] = label]
  BY WriteAnswers DEF EncryptAndAdd, PinFails, Goto, Answer
<1>2. /\ pc[w] = "pin" /\ documents' = documents \union {[by |-> w, key |-> documentKey[w]]}
      /\ UNCHANGED <<keys, since, nextKey, docKeys, documentKey>>
  BY DEF EncryptAndAdd, PinFails, stores, locals, past
<1>3. \A d \in Call \ {w} : response'[d] = response[d]
  BY <1>0, WriteAnswers DEF EncryptAndAdd, PinFails, Goto, Answer
<1>4. pc'[w] = label /\ \A d \in Call \ {w} : pc'[d] = pc[d]
  BY <1>0, <1>1 DEF IInv, TypeOK
<1>5. \A e \in Erasure : pc'[e] = pc[e] /\ response'[e] = response[e]
  BY <1>0, <1>3, <1>4, CallFacts
<1>6. SinceInv' /\ GoneInv'
  BY <1>2, <1>5 DEF DestroyedInv, SinceInv, GoneInv, NewKey
<1>7. \A d \in documents' : d.key \in Nat \ {NoKey}
  <2>1. documentKey[w] \in Nat \ {NoKey}
    BY <1>2 DEF DestroyedInv, DocumentInv
  <2> QED BY <1>2, <2>1 DEF DestroyedInv, DocumentInv
<1>8. \A u \in Write : pc'[u] = "pin" => documentKey'[u] # NoKey
  BY <1>2, <1>4, CallFacts DEF DestroyedInv, DocumentInv
<1>9. \A e \in Erasure : PastDocumentKey(e)' => NewKey(docKeys[Subject[e]], e)'
  BY <1>2, <1>5 DEF DestroyedInv, DocumentInv, PastDocumentKey, NewKey
<1>10. DocumentInv'
  BY <1>2, <1>7, <1>8, <1>9 DEF DestroyedInv, DocumentInv
<1> QED BY <1>6, <1>10 DEF DestroyedInv

(***************************************************************************)
(* Writes.                                                                 *)
(***************************************************************************)
LEMMA DestroyedWrite ==
    ASSUME IInv, DestroyedInv, NEW w \in Write,
           ResolveEmployeeKey(w) \/ PutSalt(w) \/ FetchDocumentKey(w)
    PROVE  DestroyedInv'
<1>0. w \in Call /\ w \notin Erasure /\ w \notin Verification /\ Progress(w) /\ nextKey \in Nat
  BY CallFacts, NextKeyFacts DEF IInv, ProgressInv
<1>1. CASE ResolveEmployeeKey(w)
  <2>1. /\ GetOrCreateEmployeeKey(w, LookupOf(w), "salt")
        /\ UNCHANGED <<docKeys, documentKey, documents, since>>
    BY <1>1, CallFacts DEF ResolveEmployeeKey, outside
  <2> QED BY <1>0, <2>1, DestroyedResolve
<1>2. CASE PutSalt(w)
  <2>1. response \in [Call -> Response]
    BY DEF IInv, TypeOK
  <2>2. /\ UNCHANGED <<keys, since, docKeys, documentKey, documents, nextKey>>
        /\ \E label \in {"done", "document", "submit"} : pc' = [pc EXCEPT ![w] = label]
        /\ \A d \in Call \ {w} : response'[d] = response[d]
    <3>1. CASE SaltSlot(w) # {}
      BY <1>2, <2>1, <3>1, WriteAnswers DEF PutSalt, Answer, outside, past
    <3>2. CASE SaltSlot(w) = {}
      BY <1>2, <3>2 DEF PutSalt, Goto, outside, past
    <3> QED BY <3>1, <3>2
  <2>3. pc'[w] \in {"done", "document", "submit"} /\ \A d \in Call \ {w} : pc'[d] = pc[d]
    BY <1>0, <2>2 DEF IInv, TypeOK
  <2>4. \A e \in Erasure : pc'[e] = pc[e] /\ response'[e] = response[e]
    BY <1>0, <2>2, <2>3, CallFacts
  <2>5. \A e \in Erasure : PastDocumentKey(e)' => PastDocumentKey(e)
    BY <2>4 DEF PastDocumentKey
  <2>6. \A u \in Write : pc'[u] = "pin" => pc[u] = "pin"
    BY <1>0, <2>3, CallFacts
  <2>7. nextKey' \in Nat /\ nextKey <= nextKey'
    BY <1>0, <2>2
  <2> QED BY <2>2, <2>4, <2>5, <2>6, <2>7, DestroyedFrame
<1>3. CASE FetchDocumentKey(w)
  <2> DEFINE E == Target[w].employee
  <2>0. /\ E \in Employee /\ docKeys \in [Employee -> Nat] /\ documentKey \in [Write -> Nat]
        /\ nextKey # NoKey
    BY <1>0, CallFacts, NextKeyFacts DEF DestroyedInv, DocumentInv
  <2>1. /\ pc[w] = "document" /\ pc' = [pc EXCEPT ![w] = "pin"]
        /\ UNCHANGED <<keys, since, documents, response>>
        /\ GetOrCreateDocumentKey(w, E)
    BY <1>3 DEF FetchDocumentKey, Goto, outside, past
  <2>2. pc'[w] = "pin" /\ \A d \in Call \ {w} : pc'[d] = pc[d]
    BY <1>0, <2>1 DEF IInv, TypeOK
  <2>3. /\ nextKey' \in Nat /\ nextKey <= nextKey'
        /\ docKeys' \in [Employee -> Nat] /\ documentKey' \in [Write -> Nat]
        /\ documentKey'[w] # NoKey /\ \A u \in Write \ {w} : documentKey'[u] = documentKey[u]
        /\ \A x \in Employee : docKeys'[x] = docKeys[x] \/ docKeys'[x] = nextKey
    <3>1. CASE docKeys[E] # NoKey
      BY <1>0, <2>0, <2>1, <3>1 DEF GetOrCreateDocumentKey
    <3>2. CASE docKeys[E] = NoKey
      BY <1>0, <2>0, <2>1, <3>2 DEF GetOrCreateDocumentKey
    <3> QED BY <3>1, <3>2
  <2>4. \A e \in Erasure : pc'[e] = pc[e] /\ Subject[e] \in Employee /\ e \in Call
    BY <1>0, <2>2, CallFacts
  <2>5. SinceInv' /\ GoneInv'
    <3>1. \A e \in Erasure : since[e] \in Nat
      BY DEF DestroyedInv, SinceInv
    <3> QED BY <1>0, <2>1, <2>3, <2>4, <3>1 DEF DestroyedInv, SinceInv, GoneInv, NewKey
  <2>6. ASSUME NEW e \in Erasure, PastDocumentKey(e)' PROVE NewKey(docKeys[Subject[e]], e)'
    <3>1. PastDocumentKey(e) /\ Progress(e)
      BY <2>1, <2>4, <2>6 DEF PastDocumentKey, IInv, ProgressInv
    <3>2. since[e] <= nextKey /\ NewKey(docKeys[Subject[e]], e)
      BY <3>1 DEF PastDocumentKey, Progress, DestroyedInv, SinceInv, DocumentInv
    <3> QED BY <2>1, <2>3, <2>4, <3>2 DEF NewKey
  <2>7. \A u \in Write : pc'[u] = "pin" => documentKey'[u] # NoKey
    BY <2>2, <2>3, CallFacts DEF DestroyedInv, DocumentInv
  <2>8. DocumentInv'
    BY <2>1, <2>3, <2>6, <2>7 DEF DestroyedInv, DocumentInv
  <2> QED BY <2>5, <2>8 DEF DestroyedInv
<1> QED BY <1>1, <1>2, <1>3

(***************************************************************************)
(* Erasures.                                                               *)
(***************************************************************************)
LEMMA DestroyedErase ==
    ASSUME IInv, DestroyedInv, NEW e \in Erasure,
           \/ BeginErase(e) \/ DeleteDocumentKey(e) \/ DeriveEmployeeID(e)
           \/ DeleteAllSaltsForEmployee(e) \/ DeleteEmployeeKey(e)
    PROVE  DestroyedInv'
<1>0. /\ e \in Call /\ e \notin Write /\ e \notin Verification /\ Progress(e) /\ nextKey \in Nat
      /\ Subject[e] \in Employee /\ LookupOf(e) = KeyLookup(Subject[e], "") /\ LookupOf(e) \in Lookup
  BY CallFacts, NextKeyFacts DEF IInv, ProgressInv
<1>n. nextKey \in Nat
  BY NextKeyFacts
<1>1. CASE BeginErase(e)
  <2>1. /\ pc[e] = "idle" /\ since' = [since EXCEPT ![e] = nextKey] /\ pc' = [pc EXCEPT ![e] = "sections"]
        /\ UNCHANGED <<keys, docKeys, documentKey, documents, nextKey, response>>
    BY <1>1 DEF BeginErase, Goto, stores, outside, locals
  <2>2. pc'[e] = "sections" /\ \A d \in Call \ {e} : pc'[d] = pc[d]
    BY <1>0, <2>1 DEF IInv, TypeOK
  <2>3. since'[e] = nextKey /\ \A x \in Erasure \ {e} : since'[x] = since[x]
    BY <2>1 DEF DestroyedInv, SinceInv
  <2>4. response'[e] # "erased"
    BY <1>0, <2>1 DEF Progress
  <2>5. SinceInv'
    <3>1. since' \in [Erasure -> Nat]
      BY <1>0, <2>1 DEF DestroyedInv, SinceInv
    <3>2. \A x \in Erasure \ {e} : x \in Call /\ pc'[x] = pc[x] /\ since'[x] = since[x]
      BY <2>2, <2>3, CallFacts
    <3>3. \A x \in Erasure \ {e} : pc'[x] # "idle" => since'[x] <= nextKey'
      BY <2>1, <3>2 DEF DestroyedInv, SinceInv
    <3>4. since'[e] <= nextKey'
      BY <1>n, <2>1, <2>3
    <3> QED BY <3>1, <3>3, <3>4 DEF SinceInv
  <2>6. \A x \in Erasure : PastDocumentKey(x)' => PastDocumentKey(x) /\ x # e
    BY <2>1, <2>2, <2>4, CallFacts DEF PastDocumentKey
  <2>7. \A w \in Write : pc'[w] = "pin" => pc[w] = "pin"
    BY <1>0, <2>2, CallFacts
  <2>8. DocumentInv'
    BY <2>1, <2>3, <2>6, <2>7 DEF DestroyedInv, DocumentInv, NewKey
  <2>9. GoneInv'
    BY <2>1, <2>3, <2>4 DEF DestroyedInv, GoneInv, NewKey
  <2> QED BY <2>5, <2>8, <2>9 DEF DestroyedInv
<1>2. CASE DeleteDocumentKey(e)
  <2>1. /\ pc[e] = "documentkey" /\ docKeys' = [docKeys EXCEPT ![Subject[e]] = NoKey]
        /\ pc' = [pc EXCEPT ![e] = "derive"]
        /\ UNCHANGED <<keys, documentKey, documents, nextKey, since, response>>
    BY <1>2 DEF DeleteDocumentKey, Goto, outside, locals, past
  <2>2. pc'[e] = "derive" /\ \A d \in Call \ {e} : pc'[d] = pc[d]
    BY <1>0, <2>1 DEF IInv, TypeOK
  <2>3. /\ docKeys' \in [Employee -> Nat] /\ docKeys'[Subject[e]] = NoKey
        /\ \A x \in Employee : docKeys'[x] = docKeys[x] \/ docKeys'[x] = NoKey
    BY <1>0, <2>1, MaxKeysFacts DEF DestroyedInv, DocumentInv
  <2>4. SinceInv' /\ GoneInv'
    <3>1. \A x \in Erasure : pc'[x] # "idle" => pc[x] # "idle"
      BY <2>1, <2>2, CallFacts
    <3> QED BY <2>1, <3>1 DEF DestroyedInv, SinceInv, GoneInv, NewKey
  <2>5. \A x \in Erasure : PastDocumentKey(x)' => NewKey(docKeys[Subject[x]], x)'
    <3> SUFFICES ASSUME NEW x \in Erasure, PastDocumentKey(x)'
                 PROVE  docKeys'[Subject[x]] = NoKey \/ since[x] <= docKeys'[Subject[x]]
      BY <2>1 DEF NewKey
    <3>1. CASE x = e
      BY <2>3, <3>1
    <3>2. CASE x # e
      <4>1. Subject[x] \in Employee /\ PastDocumentKey(x)
        BY <2>1, <2>2, <3>2, CallFacts DEF PastDocumentKey
      <4> QED BY <2>3, <4>1 DEF DestroyedInv, DocumentInv, NewKey
    <3> QED BY <3>1, <3>2
  <2>6. \A w \in Write : pc'[w] = "pin" => pc[w] = "pin"
    BY <1>0, <2>2, CallFacts
  <2>7. DocumentInv'
    BY <2>1, <2>3, <2>5, <2>6 DEF DestroyedInv, DocumentInv
  <2> QED BY <2>4, <2>7 DEF DestroyedInv
<1>3. CASE DeriveEmployeeID(e)
  <2>1. /\ pc[e] = "derive" /\ GetOrCreateEmployeeKey(e, LookupOf(e), "salts")
        /\ UNCHANGED <<docKeys, documentKey, documents, since>>
    BY <1>0, <1>3 DEF DeriveEmployeeID, outside
  <2> QED BY <1>0, <2>1, DestroyedResolve
<1>4. CASE DeleteAllSaltsForEmployee(e) \/ DeleteEmployeeKey(e)
  <2>1. /\ pc[e] \in {"salts", "employeekey"}
        /\ UNCHANGED <<docKeys, documentKey, documents, nextKey, since>>
        /\ \E label \in {"employeekey", "done"} : pc' = [pc EXCEPT ![e] = label]
    BY <1>4 DEF DeleteAllSaltsForEmployee, DeleteEmployeeKey, Goto, Answer, outside, locals, past
  <2>2. /\ \A d \in Call \ {e} : response'[d] = response[d]
        /\ response'[e] = "erased" => keys'[LookupOf(e)] = NoKey
        /\ \A l \in Lookup : keys'[l] = keys[l] \/ keys'[l] = NoKey
    <3>1. response \in [Call -> Response] /\ keys \in [Lookup -> Nat]
      BY DEF IInv, TypeOK
    <3>2. CASE DeleteAllSaltsForEmployee(e)
      BY <1>0, <3>2 DEF DeleteAllSaltsForEmployee, Goto, Progress
    <3>3. CASE DeleteEmployeeKey(e)
      BY <1>0, <3>1, <3>3 DEF DeleteEmployeeKey, Answer
    <3> QED BY <1>4, <3>2, <3>3
  <2>3. pc'[e] \in {"employeekey", "done"} /\ \A d \in Call \ {e} : pc'[d] = pc[d]
    BY <1>0, <2>1 DEF IInv, TypeOK
  <2>4. \A x \in Erasure : /\ pc[x] = "idle" => pc'[x] = "idle"
                           /\ PastDocumentKey(x)' => PastDocumentKey(x)
    BY <1>0, <2>1, <2>2, <2>3, CallFacts DEF PastDocumentKey
  <2>5. \A x \in Erasure : response'[x] = "erased" => response[x] = "erased" \/ keys'[LookupOf(x)] = NoKey
    BY <2>2, CallFacts
  <2>6. \A w \in Write : pc'[w] = "pin" => pc[w] = "pin"
    BY <1>0, <2>3, CallFacts
  <2>7. nextKey' \in Nat /\ nextKey <= nextKey'
    BY <1>n, <2>1
  <2> QED BY <2>1, <2>2, <2>4, <2>5, <2>6, <2>7, DestroyedFrame
<1> QED BY <1>1, <1>2, <1>3, <1>4

(***************************************************************************)
(* Every step of every request, late submissions and restarts.             *)
(***************************************************************************)
LEMMA DestroyedNext ==
    ASSUME IInv, DestroyedInv, [Next]_vars
    PROVE  DestroyedInv'
<1>0. nextKey \in Nat
  BY NextKeyFacts
<1>1. ASSUME NEW c \in Call, Step(c) \/ Fault(c) PROVE DestroyedInv'
  <2>1. CASE Plain(c)
    BY <2>1, DestroyedPlain
  <2>2. CASE c \in Verification /\ ResolveEmployeeID(c)
    <3>1. /\ GetOrCreateEmployeeKey(c, LookupOf(c), "history") /\ c \notin Erasure
          /\ UNCHANGED <<docKeys, documentKey, documents, since>>
      BY <2>2, CallFacts DEF ResolveEmployeeID, outside
    <3> QED BY <3>1, DestroyedResolve
  <2> QED BY <1>1, <2>1, <2>2, PlainSteps, DestroyedAdd, DestroyedWrite, DestroyedErase DEF Secretive
<1>2. CASE Restart \/ (\E w \in Write : AnchorLate(w)) \/ UNCHANGED vars
  <2>1. UNCHANGED <<keys, docKeys, documentKey, documents, since, nextKey, response>>
    BY <1>2 DEF Restart, AnchorLate, vars, stores, outside, locals, past
  <2>2. \A c \in Call : pc'[c] = pc[c] \/ (pc[c] # "idle" /\ pc'[c] = "done")
    <3>1. CASE Restart
      BY <3>1 DEF Restart
    <3>2. CASE UNCHANGED pc
      BY <3>2
    <3> QED BY <1>2, <3>1, <3>2 DEF AnchorLate, vars
  <2>3. \A w \in Write : pc'[w] = "pin" => pc[w] = "pin"
    BY <2>2, CallFacts
  <2>4. \A e \in Erasure : /\ pc[e] = "idle" => pc'[e] = "idle"
                           /\ PastDocumentKey(e)' => PastDocumentKey(e)
    BY <2>1, <2>2, CallFacts DEF PastDocumentKey
  <2> QED BY <1>0, <2>1, <2>3, <2>4, DestroyedFrame
<1> QED BY <1>1, <1>2 DEF Next

\* A fresh process has no secrets.
LEMMA InitDestroyedInv == Init => DestroyedInv
<1> SUFFICES ASSUME Init PROVE DestroyedInv
  OBVIOUS
<1>1. SinceInv
  BY CallFacts DEF Init, SinceInv
<1>2. DocumentInv
  BY CallFacts, MaxKeysFacts DEF Init, DocumentInv, PastDocumentKey
<1>3. GoneInv
  BY CallFacts DEF Init, GoneInv
<1> QED BY <1>1, <1>2, <1>3 DEF DestroyedInv

(***************************************************************************)
(* A finished erasure has destroyed the key of the employee's own record   *)
(* and the document key: no key drawn before it began is in the store, and *)
(* no document encrypted before can be read.                               *)
(***************************************************************************)
ErasedKeysAreGone ==
    \A e \in Erasure : response[e] = "erased" =>
        /\ \A p \in 1..(since[e] - 1) : keys[KeyLookup(Subject[e], "")] # p
        /\ \A d \in documents :
             d.key < since[e] => ~FetchAndDecrypt(d, docKeys[Subject[e]])

(***************************************************************************)
(* After a finished erasure no request for the employee's own record gets  *)
(* a pseudonym from before it: what a request still in flight may put      *)
(* under an old pseudonym is all that will ever be put there.              *)
(***************************************************************************)
OldPseudonymsAreLeft ==
    [][\A e \in Erasure, c \in Call :
         /\ response[e] = "erased" /\ LookupOf(c) = LookupOf(e)
         /\ employeeID'[c] # employeeID[c]
         => since[e] <= employeeID'[c]]_vars

\* The invariant of both.
LEMMA DestroyedInvariance == Spec => [](IInv /\ DestroyedInv)
<1>1. Init => IInv /\ DestroyedInv
  BY InitIInv, InitDestroyedInv
<1>2. IInv /\ DestroyedInv /\ [Next]_vars => (IInv /\ DestroyedInv)'
  BY NextIInv, DestroyedNext
<1> QED BY <1>1, <1>2, PTL DEF Spec

(***************************************************************************)
(* What Erase destroys stays destroyed under all interleavings with other  *)
(* requests and erasures, all faults and restarts, sub-records included.   *)
(***************************************************************************)
THEOREM DestroyedKeysStayGone == Spec => []ErasedKeysAreGone
<1>1. IInv /\ DestroyedInv => ErasedKeysAreGone
  <2> SUFFICES ASSUME IInv, DestroyedInv, NEW e \in Erasure, response[e] = "erased"
               PROVE  /\ \A p \in 1..(since[e] - 1) : keys[KeyLookup(Subject[e], "")] # p
                      /\ \A d \in documents :
                           d.key < since[e] => ~FetchAndDecrypt(d, docKeys[Subject[e]])
    BY DEF ErasedKeysAreGone
  <2>0. since[e] \in Nat
    BY DEF DestroyedInv, SinceInv
  <2>1. NewKey(keys[KeyLookup(Subject[e], "")], e) /\ NewKey(docKeys[Subject[e]], e)
    BY CallFacts DEF DestroyedInv, GoneInv, DocumentInv, PastDocumentKey
  <2>2. ASSUME NEW p \in 1..(since[e] - 1) PROVE keys[KeyLookup(Subject[e], "")] # p
    <3>1. p # NoKey /\ ~(since[e] <= p)
      BY <2>0, MaxKeysFacts
    <3> QED BY <2>1, <3>1, Zenon DEF NewKey
  <2>3. ASSUME NEW d \in documents, d.key < since[e] PROVE ~FetchAndDecrypt(d, docKeys[Subject[e]])
    <3>1. d.key \in Nat /\ d.key # NoKey
      BY DEF DestroyedInv, DocumentInv
    <3>2. ~(since[e] <= d.key)
      BY <2>0, <2>3, <3>1
    <3>3. docKeys[Subject[e]] # d.key
      BY <2>1, <3>1, <3>2, Zenon DEF NewKey
    <3> QED BY <3>1, <3>3 DEF FetchAndDecrypt
  <2> QED BY <2>2, <2>3
<1> QED BY <1>1, DestroyedInvariance, PTL

(***************************************************************************)
(* The three places that resolve a pseudonym take the stored key or draw a *)
(* new one; after an erasure neither is from before it.                    *)
(***************************************************************************)
THEOREM OldPseudonymsStayUnused == Spec => OldPseudonymsAreLeft
<1> DEFINE Fresh == \A e \in Erasure, c \in Call :
                      /\ response[e] = "erased" /\ LookupOf(c) = LookupOf(e)
                      /\ employeeID'[c] # employeeID[c]
                      => since[e] <= employeeID'[c]
<1>1. IInv /\ DestroyedInv /\ [Next]_vars => [Fresh]_vars
  <2> SUFFICES ASSUME IInv, DestroyedInv, Next PROVE Fresh
    OBVIOUS
  <2>1. SUFFICES ASSUME NEW e \in Erasure, NEW c \in Call,
                        response[e] = "erased", LookupOf(c) = LookupOf(e),
                        employeeID'[c] # employeeID[c]
                 PROVE  since[e] <= employeeID'[c]
    BY DEF Fresh
  <2>2. NewKey(keys[LookupOf(c)], e) /\ since[e] <= nextKey
    <3>1. e \in Call /\ Progress(e)
      BY CallFacts DEF IInv, ProgressInv
    <3>2. pc[e] # "idle"
      BY <2>1, <3>1 DEF Progress
    <3> QED BY <2>1, <3>2 DEF DestroyedInv, GoneInv, SinceInv
  <2>3. ASSUME NEW d \in Call, NEW label, GetOrCreateEmployeeKey(d, LookupOf(d), label)
        PROVE  since[e] <= employeeID'[c]
    <3>1. employeeID \in [Call -> Nat]
      BY DEF IInv, TypeOK
    <3>2. d = c
      BY <2>1, <2>3, <3>1 DEF GetOrCreateEmployeeKey
    <3>3. employeeID'[c] = nextKey \/ (employeeID'[c] = keys[LookupOf(c)] /\ keys[LookupOf(c)] # NoKey)
      BY <2>3, <3>1, <3>2 DEF GetOrCreateEmployeeKey
    <3> QED BY <2>2, <3>3 DEF NewKey
  <2>4. ASSUME NEW d \in Call, Step(d) \/ Fault(d) PROVE since[e] <= employeeID'[c]
    <3>1. CASE Plain(d)
      BY <2>1, <3>1 DEF Plain, secrets
    <3>2. CASE d \in Write /\ ResolveEmployeeKey(d)
      BY <2>3, <3>2, CallFacts DEF ResolveEmployeeKey
    <3>3. CASE d \in Verification /\ ResolveEmployeeID(d)
      BY <2>3, <3>3, CallFacts DEF ResolveEmployeeID
    <3>4. CASE d \in Erasure /\ DeriveEmployeeID(d)
      BY <2>3, <3>4, CallFacts DEF DeriveEmployeeID
    <3>5. CASE PutSalt(d) \/ FetchDocumentKey(d) \/ EncryptAndAdd(d) \/ PinFails(d)
      BY <2>1, <3>5 DEF PutSalt, FetchDocumentKey, EncryptAndAdd, PinFails, locals
    <3>6. CASE \/ BeginErase(d) \/ DeleteDocumentKey(d)
               \/ DeleteAllSaltsForEmployee(d) \/ DeleteEmployeeKey(d)
      BY <2>1, <3>6 DEF BeginErase, DeleteDocumentKey, DeleteAllSaltsForEmployee,
                        DeleteEmployeeKey, locals
    <3> QED BY <2>4, <3>1, <3>2, <3>3, <3>4, <3>5, <3>6, PlainSteps DEF Secretive
  <2>5. CASE Restart \/ (\E w \in Write : AnchorLate(w))
    BY <2>1, <2>5 DEF Restart, AnchorLate, locals
  <2> QED BY <2>4, <2>5 DEF Next
<1>2. Spec => [][Fresh]_vars
  BY <1>1, DestroyedInvariance, PTL DEF Spec
<1> QED BY <1>2 DEF OldPseudonymsAreLeft

-----------------------------------------------------------------------------
(***************************************************************************)
(* Requests one after the other.  The rest of the module is about the      *)
(* employees' own records: Erase derives the pseudonym of those only, and  *)
(* a sub-record shares the version counter of its section.                 *)
(***************************************************************************)
MainRecordsOnly ==
    /\ \A w \in Write : TrimSpace[Target[w].identity] = ""
    /\ \A v \in Verification : Target[v].identity = ""

Active(c) == pc[c] \notin {"idle", "done"}

(***************************************************************************)
(* Employee keys and salts.  A salt is kept only as long as the store has  *)
(* the key of its pseudonym; an erasure takes the salts, then the key.     *)
(***************************************************************************)
KeptInv ==
    /\ \A l \in Lookup : l[2] # "" => keys[l] = NoKey
    /\ \A c \in Call : pc[c] = "idle" => employeeID[c] = NoKey
    /\ \A c \in Call : Active(c) /\ employeeID[c] # NoKey => keys[LookupOf(c)] = employeeID[c]
    /\ \A s \in salts : keys[LookupOf(s.salt)] = s.employeeID
    /\ \A e \in Erasure : pc[e] = "employeekey" => \A s \in salts : s.employeeID # employeeID[e]

\* Every lookup is that of an employee's own record.
LEMMA MainLookup ==
    ASSUME MainRecordsOnly
    PROVE  \A c \in Call : LookupOf(c) = <<EmployeeOf(c), "">> /\ LookupOf(c)[2] = ""
<1>1. \A c \in Call : IdentityOf(c) = ""
  BY CallFacts DEF MainRecordsOnly, IdentityOf, Call
<1>2. \A c \in Call : LookupOf(c) = <<EmployeeOf(c), IdentityOf(c)>>
  BY CallFacts
<1>3. \A c : <<EmployeeOf(c), "">>[2] = ""
  OBVIOUS
<1> QED BY <1>1, <1>2, <1>3, Zenon

\* The salts of the store and the pseudonyms they belong to.
LEMMA SaltFacts ==
    ASSUME IInv, NEW s \in salts
    PROVE  /\ s.salt \in Write /\ s.salt \in Call /\ s.employeeID # NoKey /\ s.employeeID \in Nat
           /\ s.employeeID = employeeID[s.salt] /\ s.version = version[s.salt]
           /\ s.section = Target[s.salt].section
<1> DEFINE u == s.salt
<1>1. u \in Write /\ salt[u] = u /\ s = FreshSalt(u) /\ s.employeeID \in Nat
  BY DEF IInv, SaltInv, TypeOK
<1>2. u \in Call /\ u # "none" /\ Progress(u)
  BY <1>1, CallFacts DEF IInv, ProgressInv
<1> HIDE DEF u
<1>3. /\ FreshSalt(u).employeeID = employeeID[u] /\ FreshSalt(u).section = Target[u].section
      /\ FreshSalt(u).version = version[u]
  BY DEF FreshSalt
<1>4. employeeID[u] # NoKey
  BY <1>1, <1>2 DEF Progress
<1> QED BY <1>1, <1>2, <1>3, <1>4 DEF u

(***************************************************************************)
(* A step that touches neither keys nor salts.                             *)
(***************************************************************************)
LEMMA KeptFrame ==
    ASSUME IInv, KeptInv, UNCHANGED <<keys, salts, employeeID>>,
           NEW c \in Call, pc[c] # "done", NEW label, label \notin {"idle", "employeekey"},
           pc' = [pc EXCEPT ![c] = label]
    PROVE  KeptInv'
<1>1. pc'[c] = label /\ \A d \in Call \ {c} : pc'[d] = pc[d]
  BY DEF IInv, TypeOK
<1>2. \A d \in Call : pc'[d] = "idle" => pc[d] = "idle"
  BY <1>1
<1>3. \A d \in Call : Active(d)' /\ employeeID[d] # NoKey => Active(d)
  BY <1>1 DEF Active, KeptInv
<1>4. \A e \in Erasure : pc'[e] = "employeekey" => pc[e] = "employeekey"
  BY <1>1, CallFacts
<1> QED BY <1>2, <1>3, <1>4 DEF KeptInv

(***************************************************************************)
(* A call that resolves its pseudonym: a key it draws is a new one.        *)
(***************************************************************************)
LEMMA KeptResolve ==
    ASSUME MainRecordsOnly, IInv, KeptInv,
           NEW c \in Call, pc[c] # "done", NEW label, label \notin {"idle", "employeekey"},
           GetOrCreateEmployeeKey(c, LookupOf(c), label), UNCHANGED salts
    PROVE  KeptInv'
<1> DEFINE L == LookupOf(c)
<1>1. pc'[c] = label /\ \A d \in Call \ {c} : pc'[d] = pc[d]
  BY DEF IInv, TypeOK, GetOrCreateEmployeeKey, Goto
<1>2. /\ L \in Lookup /\ L[2] = "" /\ keys \in [Lookup -> Nat] /\ employeeID \in [Call -> Nat]
      /\ nextKey \in Nat
  <2>1. L[2] = ""
    BY MainLookup, Zenon
  <2>2. L \in Lookup
    BY CallFacts
  <2>3. keys \in [Lookup -> Nat] /\ employeeID \in [Call -> Nat] /\ nextKey \in 1..(MaxKeys + 1)
    BY DEF IInv, TypeOK
  <2>4. nextKey \in Nat
    BY <2>3, MaxKeysFacts
  <2> QED BY <2>1, <2>2, <2>3, <2>4
<1>3. /\ \A l \in Lookup \ {L} : keys'[l] = keys[l]
      /\ keys'[L] = keys[L] \/ (keys[L] = NoKey /\ keys'[L] = nextKey)
      /\ employeeID'[c] = keys'[L] /\ \A d \in Call \ {c} : employeeID'[d] = employeeID[d]
  <2>1. CASE keys[L] # NoKey
    BY <1>2, <2>1 DEF GetOrCreateEmployeeKey
  <2>2. CASE keys[L] = NoKey
    BY <1>2, <2>2 DEF GetOrCreateEmployeeKey
  <2> QED BY <2>1, <2>2
<1> HIDE DEF L
<1>4. \A l \in Lookup : keys[l] # NoKey => keys'[l] = keys[l]
  BY <1>3
<1>5. \A l \in Lookup : l[2] # "" => keys'[l] = NoKey
  BY <1>2, <1>3 DEF KeptInv
<1>6. \A d \in Call : pc'[d] = "idle" => employeeID'[d] = NoKey
  BY <1>1, <1>3 DEF KeptInv
<1>7. \A d \in Call : Active(d)' /\ employeeID'[d] # NoKey => keys'[LookupOf(d)] = employeeID'[d]
  <2>1. keys'[LookupOf(c)] = employeeID'[c]
    BY <1>3 DEF L
  <2>2. \A d \in Call \ {c} : Active(d)' /\ employeeID'[d] # NoKey => keys'[LookupOf(d)] = employeeID'[d]
    <3> SUFFICES ASSUME NEW d \in Call \ {c}, Active(d)', employeeID'[d] # NoKey
                 PROVE  keys'[LookupOf(d)] = employeeID'[d]
      OBVIOUS
    <3>1. Active(d) /\ employeeID'[d] = employeeID[d] /\ LookupOf(d) \in Lookup
      BY <1>1, <1>3, CallFacts DEF Active
    <3>2. keys[LookupOf(d)] = employeeID[d]
      BY <3>1 DEF KeptInv
    <3> QED BY <1>4, <3>1, <3>2
  <2> QED BY <2>1, <2>2
<1>8. \A s \in salts' : keys'[LookupOf(s.salt)] = s.employeeID
  <2> SUFFICES ASSUME NEW s \in salts PROVE keys'[LookupOf(s.salt)] = s.employeeID
    OBVIOUS
  <2>1. s.salt \in Call /\ s.employeeID # NoKey /\ keys[LookupOf(s.salt)] = s.employeeID
    BY SaltFacts DEF KeptInv
  <2>2. LookupOf(s.salt) \in Lookup
    BY <2>1, CallFacts
  <2> QED BY <1>4, <2>1, <2>2
<1>9. \A e \in Erasure : pc'[e] = "employeekey" => \A s \in salts' : s.employeeID # employeeID'[e]
  <2> SUFFICES ASSUME NEW e \in Erasure, pc'[e] = "employeekey", NEW s \in salts
               PROVE  s.employeeID # employeeID'[e]
    OBVIOUS
  <2>1. e \in Call /\ e # c
    BY <1>1, CallFacts
  <2>2. pc[e] = "employeekey" /\ employeeID'[e] = employeeID[e]
    BY <1>1, <1>3, <2>1
  <2> QED BY <2>2 DEF KeptInv
<1> QED BY <1>5, <1>6, <1>7, <1>8, <1>9 DEF KeptInv

(***************************************************************************)
(* A write that stores its salt, while no erasure is under way.            *)
(***************************************************************************)
LEMMA KeptPutSalt ==
    ASSUME IInv, KeptInv, NEW w \in Write, Alone(w), PutSalt(w)
    PROVE  KeptInv'
<1>1. w \in Call /\ w # "none" /\ w \notin Erasure /\ Progress(w) /\ pc[w] = "salt"
  BY CallFacts DEF PutSalt, IInv, ProgressInv
<1>2. CASE SaltSlot(w) # {}
  <2>1. pc' = [pc EXCEPT ![w] = "done"] /\ UNCHANGED <<keys, salts, employeeID>>
    BY <1>2, WriteAnswers DEF PutSalt, Answer
  <2> QED BY <1>1, <2>1, KeptFrame
<1>3. CASE SaltSlot(w) = {}
  <2> DEFINE label == IF w \in WithDocument THEN "document" ELSE "submit"
  <2>1. /\ salts' = salts \union {FreshSalt(w)} /\ pc' = [pc EXCEPT ![w] = label]
        /\ UNCHANGED <<keys, employeeID>>
    BY <1>3 DEF PutSalt, Goto
  <2>2. pc'[w] = label /\ Active(w) /\ Active(w)' /\ \A d \in Call \ {w} : pc'[d] = pc[d]
    BY <1>1, <2>1 DEF IInv, TypeOK, Active
  <2>3. FreshSalt(w).salt = w /\ FreshSalt(w).employeeID = employeeID[w]
    BY DEF FreshSalt
  <2>4. keys[LookupOf(w)] = employeeID[w]
    BY <1>1, <2>2 DEF KeptInv, Progress
  <2>5. \A s \in salts' : keys'[LookupOf(s.salt)] = s.employeeID
    BY <2>1, <2>3, <2>4 DEF KeptInv
  <2>6. \A e \in Erasure : pc'[e] # "employeekey"
    BY <1>1, <2>2, CallFacts DEF Alone
  <2>7. \A d \in Call : pc'[d] = "idle" => employeeID'[d] = NoKey
    BY <2>1, <2>2 DEF KeptInv, Active
  <2>8. \A d \in Call : Active(d)' /\ employeeID'[d] # NoKey => keys'[LookupOf(d)] = employeeID'[d]
    BY <2>1, <2>2, <2>4 DEF KeptInv, Active
  <2> QED BY <2>1, <2>5, <2>6, <2>7, <2>8 DEF KeptInv
<1> QED BY <1>2, <1>3

(***************************************************************************)
(* An erasure that deletes the salts, then the key of its employee.        *)
(***************************************************************************)
LEMMA KeptDeleteSalts ==
    ASSUME IInv, KeptInv, NEW e \in Erasure, Alone(e), DeleteAllSaltsForEmployee(e)
    PROVE  KeptInv'
<1>1. /\ e \in Call /\ pc[e] = "salts" /\ salts' = {s \in salts : s.employeeID # employeeID[e]}
      /\ pc' = [pc EXCEPT ![e] = "employeekey"] /\ UNCHANGED <<keys, employeeID>>
  BY CallFacts DEF DeleteAllSaltsForEmployee, Goto, locals
<1>2. pc'[e] = "employeekey" /\ \A d \in Call \ {e} : pc'[d] = pc[d]
  BY <1>1 DEF IInv, TypeOK
<1>3. salts' \subseteq salts
  BY <1>1
<1>4. \A x \in Erasure : pc'[x] = "employeekey" => x = e
  BY <1>1, <1>2, CallFacts DEF Alone
<1>5. \A d \in Call : pc'[d] = "idle" => employeeID'[d] = NoKey
  BY <1>1, <1>2 DEF KeptInv
<1>6. \A d \in Call : Active(d)' => Active(d)
  BY <1>1, <1>2 DEF Active
<1> QED BY <1>1, <1>3, <1>4, <1>5, <1>6 DEF KeptInv

\* The salts are gone, so the key may go.
LEMMA KeptDeleteKey ==
    ASSUME MainRecordsOnly, IInv, KeptInv, NEW e \in Erasure, Alone(e), DeleteEmployeeKey(e)
    PROVE  KeptInv'
<1> DEFINE L == LookupOf(e)
<1>1. /\ e \in Call /\ L \in Lookup /\ L = KeyLookup(Subject[e], "") /\ pc[e] = "employeekey"
      /\ keys \in [Lookup -> Nat]
  BY CallFacts DEF DeleteEmployeeKey, IInv, TypeOK
<1>2. /\ keys' = [keys EXCEPT ![L] = NoKey] /\ pc' = [pc EXCEPT ![e] = "done"]
      /\ UNCHANGED <<salts, employeeID>>
  BY <1>1 DEF DeleteEmployeeKey, Answer, locals
<1>3. /\ keys'[L] = NoKey /\ \A l \in Lookup \ {L} : keys'[l] = keys[l]
      /\ pc'[e] = "done" /\ \A d \in Call \ {e} : pc'[d] = pc[d]
  BY <1>1, <1>2 DEF IInv, TypeOK
<1>4. keys[L] = employeeID[e]
  <2>1. Progress(e) /\ e \notin Write /\ e \notin Verification
    BY <1>1, CallFacts DEF IInv, ProgressInv
  <2> QED BY <1>1, <2>1 DEF KeptInv, Active, Progress
<1> HIDE DEF L
<1>5. \A s \in salts' : keys'[LookupOf(s.salt)] = s.employeeID
  <2> SUFFICES ASSUME NEW s \in salts PROVE keys'[LookupOf(s.salt)] = s.employeeID
    BY <1>2
  <2>1. s.salt \in Call /\ keys[LookupOf(s.salt)] = s.employeeID /\ s.employeeID # employeeID[e]
    BY <1>1, SaltFacts DEF KeptInv
  <2>2. LookupOf(s.salt) \in Lookup /\ LookupOf(s.salt) # L
    BY <1>4, <2>1, CallFacts
  <2> QED BY <1>3, <2>1, <2>2
<1>6. \A l \in Lookup : l[2] # "" => keys'[l] = NoKey
  BY <1>3 DEF KeptInv
<1>7. \A d \in Call : ~Active(d)'
  BY <1>1, <1>3 DEF Alone, Active
<1>8. \A d \in Call : pc'[d] = "idle" => employeeID'[d] = NoKey
  <2>1. \A d \in Call : pc'[d] = "idle" => pc[d] = "idle"
    BY <1>3
  <2> QED BY <1>2, <2>1 DEF KeptInv
<1>9. \A x \in Erasure : pc'[x] # "employeekey"
  BY <1>7, CallFacts DEF Active
<1> QED BY <1>5, <1>6, <1>7, <1>8, <1>9 DEF KeptInv

-----------------------------------------------------------------------------
\* Requests that come one after the other are a case of all requests.
LEMMA SerialIsNext == [SerialNext]_vars => [Next]_vars
  BY DEF SerialNext, Next

\* A fresh process has no secrets.
LEMMA InitKeptInv == Init => KeptInv
<1> SUFFICES ASSUME Init PROVE KeptInv
  OBVIOUS
<1>1. /\ \A l \in Lookup : keys[l] = NoKey
      /\ \A c \in Call : pc[c] = "idle" /\ employeeID[c] = NoKey
      /\ salts = {}
  BY DEF Init, Lookup
<1> QED BY <1>1, CallFacts DEF KeptInv, Active

\* Steps and faults of one call while all others rest.
LEMMA SerialKeptInv ==
    ASSUME MainRecordsOnly, IInv, KeptInv, [SerialNext]_vars
    PROVE  KeptInv'
<1>1. ASSUME NEW c \in Call, Alone(c), Step(c) \/ Fault(c) PROVE KeptInv'
  <2>1. CASE Plain(c)
    <3>1. PICK label : label \notin {"idle", "employeekey"} /\ pc' = [pc EXCEPT ![c] = label]
      BY <2>1 DEF Plain
    <3>2. pc[c] # "done" /\ UNCHANGED <<keys, salts, employeeID>>
      BY <2>1 DEF Plain, secrets
    <3> QED BY <3>1, <3>2, KeptFrame
  <2>2. CASE c \in Write /\ ResolveEmployeeKey(c)
    <3>1. pc[c] = "key" /\ GetOrCreateEmployeeKey(c, LookupOf(c), "salt") /\ UNCHANGED salts
      BY <2>2, CallFacts DEF ResolveEmployeeKey
    <3> QED BY <3>1, KeptResolve
  <2>3. CASE c \in Verification /\ ResolveEmployeeID(c)
    <3>1. pc[c] = "idle" /\ GetOrCreateEmployeeKey(c, LookupOf(c), "history") /\ UNCHANGED salts
      BY <2>3, CallFacts DEF ResolveEmployeeID
    <3> QED BY <3>1, KeptResolve
  <2>4. CASE c \in Erasure /\ DeriveEmployeeID(c)
    <3>1. pc[c] = "derive" /\ GetOrCreateEmployeeKey(c, LookupOf(c), "salts") /\ UNCHANGED salts
      BY <2>4, CallFacts DEF DeriveEmployeeID
    <3> QED BY <3>1, KeptResolve
  <2>5. CASE c \in Write /\ (FetchDocumentKey(c) \/ EncryptAndAdd(c) \/ PinFails(c))
    <3>1. /\ pc[c] \in {"document", "pin"} /\ UNCHANGED <<keys, salts, employeeID>>
          /\ \E label \in {"pin", "submit", "done"} : pc' = [pc EXCEPT ![c] = label]
      BY <2>5, WriteAnswers
      DEF FetchDocumentKey, EncryptAndAdd, PinFails, Goto, Answer, GetOrCreateDocumentKey, stores, locals
    <3> QED BY <3>1, KeptFrame
  <2>6. CASE c \in Erasure /\ (BeginErase(c) \/ DeleteDocumentKey(c))
    <3>1. /\ pc[c] \in {"idle", "documentkey"} /\ UNCHANGED <<keys, salts, employeeID>>
          /\ \E label \in {"sections", "derive"} : pc' = [pc EXCEPT ![c] = label]
      BY <2>6 DEF BeginErase, DeleteDocumentKey, Goto, stores, locals
    <3> QED BY <3>1, KeptFrame
  <2> QED BY <1>1, <2>1, <2>2, <2>3, <2>4, <2>5, <2>6, PlainSteps,
             KeptPutSalt, KeptDeleteSalts, KeptDeleteKey DEF Secretive
<1>2. CASE UNCHANGED vars
  <2>1. UNCHANGED <<keys, salts, employeeID, pc>>
    BY <1>2 DEF vars, stores, outside, locals, past
  <2> QED BY <2>1 DEF KeptInv, Active
<1> QED BY <1>1, <1>2 DEF SerialNext

(***************************************************************************)
(* A finished erasure leaves no salt, no key and no readable document of   *)
(* the employee's own records, whatever failed in the requests before and  *)
(* after it, as long as requests come one after the other and the process  *)
(* is not restarted: the salts go before the key that leads to them, and   *)
(* what is drawn later is new.                                             *)
(***************************************************************************)
THEOREM ErasureLeavesNothing ==
    MainRecordsOnly => (SerialSpec => []ErasureIsComplete)
<1> SUFFICES ASSUME MainRecordsOnly PROVE SerialSpec => []ErasureIsComplete
  OBVIOUS
<1>1. Init => IInv /\ DestroyedInv /\ KeptInv
  BY InitIInv, InitDestroyedInv, InitKeptInv
<1>2. IInv /\ DestroyedInv /\ KeptInv /\ [SerialNext]_vars => (IInv /\ DestroyedInv /\ KeptInv)'
  BY NextIInv, DestroyedNext, SerialIsNext, SerialKeptInv
<1>3. IInv /\ DestroyedInv /\ KeptInv => ErasureIsComplete
  <2> SUFFICES ASSUME IInv, DestroyedInv, KeptInv, NEW e \in Erasure, response[e] = "erased"
               PROVE  /\ \A p \in 1..(since[e] - 1) : owner[p] = Subject[e] =>
                           /\ \A s \in salts : s.employeeID # p
                           /\ \A l \in Employee \X Identity : keys[l] # p
                      /\ \A d \in documents :
                           d.key < since[e] => ~FetchAndDecrypt(d, docKeys[Subject[e]])
    BY DEF ErasureIsComplete
  <2>1. /\ NewKey(keys[LookupOf(e)], e) /\ NewKey(docKeys[Subject[e]], e) /\ e \in Call
        /\ since[e] \in Nat /\ EmployeeOf(e) = Subject[e]
    BY CallFacts DEF DestroyedInv, GoneInv, DocumentInv, PastDocumentKey, SinceInv
  <2>2. ASSUME NEW p \in 1..(since[e] - 1), owner[p] = Subject[e], NEW l \in Lookup, keys[l] = p
        PROVE  FALSE
    <3>1. p # NoKey /\ p \in Nat /\ ~(since[e] <= p)
      BY <2>1, MaxKeysFacts
    <3>2. l[2] = "" /\ l[1] = Subject[e]
      BY <2>2, <3>1 DEF IInv, KeyInv, KeptInv
    <3>3. l = LookupOf(e)
      <4>1. LookupOf(e) = <<Subject[e], "">>
        BY <2>1, MainLookup
      <4>2. l = <<l[1], l[2]>>
        BY DEF Lookup
      <4> QED BY <3>2, <4>1, <4>2
    <3> QED BY <2>1, <2>2, <3>1, <3>3 DEF NewKey
  <2>3. ASSUME NEW p \in 1..(since[e] - 1), owner[p] = Subject[e], NEW s \in salts, s.employeeID = p
        PROVE  FALSE
    <3>1. s.salt \in Call /\ keys[LookupOf(s.salt)] = p
      BY <2>3, SaltFacts DEF KeptInv
    <3>2. LookupOf(s.salt) \in Lookup
      BY <3>1, CallFacts
    <3> QED BY <2>2, <2>3, <3>1, <3>2
  <2>4. ASSUME NEW d \in documents, d.key < since[e] PROVE ~FetchAndDecrypt(d, docKeys[Subject[e]])
    <3>1. d.key \in Nat /\ d.key # NoKey
      BY DEF DestroyedInv, DocumentInv
    <3> QED BY <2>1, <2>4, <3>1 DEF NewKey, FetchAndDecrypt
  <2> QED BY <2>2, <2>3, <2>4 DEF Lookup
<1> QED BY <1>1, <1>2, <1>3, PTL DEF SerialSpec

-----------------------------------------------------------------------------
(***************************************************************************)
(* Versions.  The verify route looks up a salt by the version the ledger   *)
(* gives a record; the write path stored it under the version the          *)
(* operational store gave the save.  Without faults and interleavings the  *)
(* two counters go together until the employee is erased.                  *)
(***************************************************************************)
Count(E, S) == IF keys[<<E, "">>] = NoKey THEN 0 ELSE Len(ledger[<<keys[<<E, "">>], S>>])

Busy(E, S) == \E w \in Write : Active(w) /\ Counter(w) = <<E, S>>

InStep(E, S) == opVersion[<<E, S>>] = IF Busy(E, S) THEN Count(E, S) + 1 ELSE Count(E, S)

\* The record of w at place i of its chain.
Numbered(w, i) == Erased(Target[w].employee) \/ version[w] = i

\* A verification that has raised an alarm.
Alarm(v) ==
    response[v] = "compromised" /\ ~Erased(Target[v].employee) =>
        /\ employeeID[v] # NoKey
        /\ version[v] \in DOMAIN Chain(v)
        /\ Content[Chain(v)[version[v]].by] # Content[v]

VersionInv ==
    /\ restarts = 0
    /\ \A E \in Employee, S \in Section : Erased(E) \/ InStep(E, S)
    /\ \A w \in Write : Active(w) => version[w] = opVersion[Counter(w)]
    /\ \A ps \in Pseudonym \X Section : \A i \in DOMAIN ledger[ps] : Numbered(ledger[ps][i].by, i)
    /\ \A v \in Verification : Alarm(v)

\* Who has been erased stays erased.
LEMMA ErasedStays ==
    ASSUME IInv, shredded \subseteq shredded',
           \A p \in Pseudonym : p < nextKey => owner'[p] = owner[p]
    PROVE  \A E : Erased(E) => Erased(E)'
  BY DEF IInv, TypeOK, KeyInv, Erased

\* A verification that is not the one that steps.
LEMMA AlarmFrame ==
    ASSUME IInv, NEW v \in Verification, Alarm(v), Grows,
           response'[v] = response[v], employeeID'[v] = employeeID[v], version'[v] = version[v],
           \A E : Erased(E) => Erased(E)'
    PROVE  Alarm(v)'
<1> SUFFICES ASSUME (response[v] = "compromised")', (~Erased(Target[v].employee))'
             PROVE  (/\ employeeID[v] # NoKey
                     /\ version[v] \in DOMAIN Chain(v)
                     /\ Content[Chain(v)[version[v]].by] # Content[v])'
  BY DEF Alarm
<1>1. /\ employeeID[v] # NoKey /\ version[v] \in DOMAIN Chain(v)
      /\ Content[Chain(v)[version[v]].by] # Content[v]
  BY DEF Alarm
<1>2. <<employeeID[v], Target[v].section>> \in Pseudonym \X Section
  BY <1>1, PseudonymFacts, CallFacts DEF IInv
<1>3. version[v] \in DOMAIN Chain(v)' /\ Chain(v)'[version[v]] = Chain(v)[version[v]]
  BY <1>1, <1>2 DEF Grows, Chain
<1> QED BY <1>1, <1>3

(***************************************************************************)
(* A step that neither saves nor anchors, nor ends a write.                *)
(***************************************************************************)
LEMMA VersionFrame ==
    ASSUME IInv, VersionInv, UNCHANGED <<opVersion, ledger, restarts>>,
           \A w \in Write : version'[w] = version[w] /\ (Active(w)' <=> Active(w)),
           \A E : Erased(E) => Erased(E)',
           \A E \in Employee : ~Erased(E)' => \A S \in Section : Count(E, S)' = Count(E, S),
           \A v \in Verification : Alarm(v)'
    PROVE  VersionInv'
<1>1. \A E, S : Busy(E, S)' <=> Busy(E, S)
  BY DEF Busy
<1>2. ASSUME NEW E \in Employee, NEW S \in Section PROVE Erased(E)' \/ InStep(E, S)'
  <2>1. CASE ~Erased(E)'
    <3>1. InStep(E, S) /\ Count(E, S)' = Count(E, S)
      BY <2>1 DEF VersionInv
    <3> QED BY <1>1, <3>1 DEF InStep
  <2> QED BY <2>1
<1>3. ASSUME NEW ps \in Pseudonym \X Section, NEW i \in DOMAIN ledger'[ps]
      PROVE  Numbered(ledger[ps][i].by, i)'
  <2>1. Numbered(ledger[ps][i].by, i) /\ ledger[ps][i].by \in Write
    BY RecordFacts DEF VersionInv, IInv
  <2> QED BY <2>1 DEF Numbered
<1> QED BY <1>2, <1>3 DEF VersionInv

(***************************************************************************)
(* The same, when keys and erasures stay as they are.                      *)
(***************************************************************************)
LEMMA VersionPlain ==
    ASSUME IInv, VersionInv, NEW c \in Call,
           UNCHANGED <<opVersion, ledger, restarts, keys, owner, shredded>>,
           \A d \in Call \ {c} : /\ pc'[d] = pc[d] /\ response'[d] = response[d]
                                 /\ employeeID'[d] = employeeID[d] /\ version'[d] = version[d],
           c \in Write => version'[c] = version[c] /\ (Active(c)' <=> Active(c)),
           c \in Verification => Alarm(c)'
    PROVE  VersionInv'
<1>1. \A E : Erased(E)' <=> Erased(E)
  BY DEF Erased
<1>2. \A E \in Employee, S \in Section : Count(E, S)' = Count(E, S)
  BY DEF Count
<1>3. Grows
  BY DEF Grows
<1>4. ASSUME NEW v \in Verification PROVE Alarm(v)'
  <2>1. CASE v # c
    <3>1. v \in Call \ {c} /\ Alarm(v)
      BY <2>1, CallFacts DEF VersionInv
    <3> QED BY <1>1, <1>3, <3>1, AlarmFrame
  <2> QED BY <2>1
<1>5. \A w \in Write : version'[w] = version[w] /\ (Active(w)' <=> Active(w))
  BY CallFacts DEF Active
<1> QED BY <1>1, <1>2, <1>4, <1>5, VersionFrame

(***************************************************************************)
(* A call that resolves its pseudonym: a key it draws has no chain yet.    *)
(***************************************************************************)
LEMMA VersionResolve ==
    ASSUME MainRecordsOnly, IInv, VersionInv, NEW c \in Call, NEW label,
           pc[c] # "done", label \notin {"idle", "done"}, c \in Write => pc[c] # "idle",
           GetOrCreateEmployeeKey(c, LookupOf(c), label),
           UNCHANGED <<opVersion, ledger, restarts, version, shredded>>
    PROVE  VersionInv'
<1> DEFINE L == LookupOf(c)
<1>1. /\ pc'[c] = label /\ \A d \in Call \ {c} : pc'[d] = pc[d]
      /\ UNCHANGED response /\ Progress(c)
  BY DEF IInv, TypeOK, ProgressInv, GetOrCreateEmployeeKey, Goto
<1>2. /\ L \in Lookup /\ L = <<EmployeeOf(c), "">> /\ keys \in [Lookup -> Nat] /\ employeeID \in [Call -> Nat]
      /\ nextKey \in Nat /\ nextKey # NoKey /\ owner \in [Pseudonym -> Employee \union {"nobody"}]
  BY CallFacts, MainLookup, NextKeyFacts DEF IInv, TypeOK
<1>3. /\ \A l \in Lookup \ {L} : keys'[l] = keys[l]
      /\ keys'[L] = keys[L] \/ (keys[L] = NoKey /\ keys'[L] = nextKey /\ nextKey \in Pseudonym)
      /\ \A d \in Call \ {c} : employeeID'[d] = employeeID[d]
      /\ \A p \in Pseudonym : p < nextKey => owner'[p] = owner[p]
  <2>1. CASE keys[L] # NoKey
    BY <1>2, <2>1 DEF GetOrCreateEmployeeKey
  <2>2. CASE keys[L] = NoKey
    <3>1. /\ nextKey \in Pseudonym /\ keys' = [keys EXCEPT ![L] = nextKey]
          /\ employeeID' = [employeeID EXCEPT ![c] = nextKey]
          /\ owner' = [owner EXCEPT ![nextKey] = L[1]]
      BY <2>2 DEF GetOrCreateEmployeeKey
    <3> HIDE DEF L
    <3>2. /\ keys'[L] = nextKey /\ \A l \in Lookup \ {L} : keys'[l] = keys[l]
          /\ \A d \in Call \ {c} : employeeID'[d] = employeeID[d]
      BY <1>2, <3>1
    <3>3. \A p \in Pseudonym : p # nextKey => owner'[p] = owner[p]
      BY <1>2, <3>1
    <3>4. \A p \in Pseudonym : p < nextKey => p # nextKey
      <4>1. \A p \in Nat : ~(p < p)
        OBVIOUS
      <4> QED BY <1>2, <4>1, Zenon
    <3> QED BY <2>2, <3>1, <3>2, <3>3, <3>4
  <2> QED BY <2>1, <2>2
<1> HIDE DEF L
<1>4. \A E : Erased(E) => Erased(E)'
  BY <1>3, ErasedStays
<1>5. Grows
  BY DEF Grows
<1>6. \A v \in Verification : Alarm(v)'
  <2> SUFFICES ASSUME NEW v \in Verification PROVE Alarm(v)'
    OBVIOUS
  <2>1. CASE v = c
    BY <1>1, <2>1 DEF Alarm, Progress
  <2>2. CASE v # c
    <3>1. v \in Call \ {c} /\ Alarm(v)
      BY <2>2, CallFacts DEF VersionInv
    <3> QED BY <1>1, <1>3, <1>4, <1>5, <3>1, AlarmFrame
  <2> QED BY <2>1, <2>2
<1>7. \A w \in Write : version'[w] = version[w] /\ (Active(w)' <=> Active(w))
  BY <1>1, CallFacts DEF Active
<1>8. ASSUME NEW E \in Employee, NEW S \in Section PROVE Count(E, S)' = Count(E, S)
  <2>1. <<E, "">> \in Lookup
    BY CallAssumption DEF Lookup
  <2>2. CASE keys'[<<E, "">>] = keys[<<E, "">>]
    BY <2>2 DEF Count
  <2>3. CASE keys'[<<E, "">>] # keys[<<E, "">>]
    <3>1. keys[<<E, "">>] = NoKey /\ keys'[<<E, "">>] = nextKey /\ nextKey \in Pseudonym
      BY <1>3, <2>1, <2>3
    <3>2. ledger[<<nextKey, S>>] = <<>>
      <4>1. <<nextKey, S>> \in Pseudonym \X Section
        BY <3>1
      <4>2. ASSUME NEW i \in DOMAIN ledger[<<nextKey, S>>] PROVE FALSE
        <5> DEFINE w == ledger[<<nextKey, S>>][i].by
        <5>1. w \in Write /\ employeeID[w] = nextKey
          <6>1. nextKey \in Pseudonym
            BY <3>1
          <6> QED BY <4>2, <6>1, RecordOwner
        <5> HIDE DEF w
        <5>2. w \in Call /\ Holds(w)
          BY <1>2, <5>1, CallFacts DEF IInv, KeyInv
        <5>3. employeeID[w] < nextKey
          BY <5>2 DEF Holds
        <5>4. nextKey \in Nat
          BY <1>2
        <5> QED BY <5>1, <5>3, <5>4
      <4>3. /\ ledger[<<nextKey, S>>] \in Seq(AnchorRecord) /\ Len(ledger[<<nextKey, S>>]) \in Nat
            /\ DOMAIN ledger[<<nextKey, S>>] = 1..Len(ledger[<<nextKey, S>>])
        BY <4>1, RecordFacts DEF IInv
      <4>4. 1 \notin DOMAIN ledger[<<nextKey, S>>]
        BY <4>2
      <4>5. Len(ledger[<<nextKey, S>>]) = 0
        BY <4>3, <4>4
      <4> QED BY <4>3, <4>5
    <3>3. Len(ledger[<<nextKey, S>>]) = 0
      BY <3>2
    <3> QED BY <1>2, <3>1, <3>3 DEF Count
  <2> QED BY <2>2, <2>3
<1> QED BY <1>4, <1>6, <1>7, <1>8, VersionFrame

(***************************************************************************)
(* A write that saves: it is the only one under way.                       *)
(***************************************************************************)
LEMMA VersionSave ==
    ASSUME IInv, VersionInv, NEW w \in Write, Alone(w), SaveSection(w)
    PROVE  VersionInv'
<1> DEFINE es == Counter(w)
<1>1. /\ w \in Call /\ w \notin Verification /\ es \in Employee \X Section
      /\ opVersion \in [Employee \X Section -> Nat] /\ version \in [Call -> Nat]
  BY CallFacts DEF IInv, TypeOK
<1>2. /\ pc[w] = "idle" /\ pc' = [pc EXCEPT ![w] = "key"] /\ UNCHANGED response
      /\ opVersion' = [opVersion EXCEPT ![es] = @ + 1]
      /\ version' = [version EXCEPT ![w] = opVersion[es] + 1]
      /\ UNCHANGED <<keys, ledger, employeeID, restarts, owner, shredded>>
  BY DEF SaveSection, Goto, Counter, outside, past
<1> HIDE DEF es
<1>3. /\ pc'[w] = "key" /\ \A d \in Call \ {w} : pc'[d] = pc[d]
      /\ opVersion'[es] = opVersion[es] + 1 /\ \A x \in Employee \X Section : x # es => opVersion'[x] = opVersion[x]
      /\ version'[w] = opVersion[es] + 1 /\ \A d \in Call \ {w} : version'[d] = version[d]
  BY <1>1, <1>2 DEF IInv, TypeOK
<1>4. \A u \in Write : ~Active(u) /\ (Active(u)' <=> u = w)
  BY <1>1, <1>2, <1>3, CallFacts DEF Alone, Active
<1>5. \A E : Erased(E)' <=> Erased(E)
  BY <1>2 DEF Erased
<1>6. ASSUME NEW E \in Employee, NEW S \in Section PROVE Erased(E)' \/ InStep(E, S)'
  <2>1. CASE ~Erased(E)
    <3>1. ~Busy(E, S) /\ (Busy(E, S)' <=> <<E, S>> = es)
      BY <1>4 DEF Busy, es
    <3>2. Count(E, S)' = Count(E, S)
      BY <1>2 DEF Count
    <3>3. opVersion[<<E, S>>] = Count(E, S) /\ <<E, S>> \in Employee \X Section
      BY <2>1, <3>1 DEF VersionInv, InStep
    <3>4. CASE <<E, S>> = es
      BY <1>3, <3>1, <3>2, <3>3, <3>4 DEF InStep
    <3>5. CASE <<E, S>> # es
      BY <1>3, <3>1, <3>2, <3>3, <3>5 DEF InStep
    <3> QED BY <3>4, <3>5
  <2> QED BY <1>5, <2>1
<1>7. \A u \in Write : Active(u)' => version'[u] = opVersion'[Counter(u)]
  BY <1>3, <1>4 DEF es
<1>8. ASSUME NEW ps \in Pseudonym \X Section, NEW i \in DOMAIN ledger'[ps]
      PROVE  Numbered(ledger[ps][i].by, i)'
  <2>1. i \in DOMAIN ledger[ps] /\ ledger'[ps][i] = ledger[ps][i]
    BY <1>2
  <2>2. /\ Numbered(ledger[ps][i].by, i) /\ ledger[ps][i].by \in Write
        /\ pc[ledger[ps][i].by] = "done"
    BY <2>1, RecordFacts DEF VersionInv, IInv, LedgerInv, OwnRecord
  <2>3. version'[ledger[ps][i].by] = version[ledger[ps][i].by]
    BY <1>2, <1>3, <2>2, CallFacts
  <2> QED BY <1>5, <2>1, <2>2, <2>3 DEF Numbered
<1>9. \A v \in Verification : Alarm(v)'
  <2> SUFFICES ASSUME NEW v \in Verification PROVE Alarm(v)'
    OBVIOUS
  <2>1. v \in Call \ {w} /\ Alarm(v) /\ Grows
    BY <1>1, <1>2, CallFacts DEF VersionInv, Grows
  <2> QED BY <1>2, <1>3, <1>5, <2>1, AlarmFrame
<1>10. restarts' = 0
  BY <1>2 DEF VersionInv
<1> QED BY <1>6, <1>7, <1>8, <1>9, <1>10 DEF VersionInv

\* A key of the store is a pseudonym.
LEMMA KeyFacts ==
    ASSUME IInv, NEW l \in Lookup, keys[l] # NoKey
    PROVE  keys[l] \in Pseudonym
<1>1. keys[l] \in Nat /\ nextKey \in 1..(MaxKeys + 1) /\ keys[l] < nextKey
  BY DEF IInv, TypeOK, KeyInv
<1> QED BY <1>1, MaxKeysFacts

(***************************************************************************)
(* A write that is anchored: its chain has as many records as the section  *)
(* has had saves.                                                          *)
(***************************************************************************)
LEMMA VersionSubmit ==
    ASSUME MainRecordsOnly, IInv, VersionInv, NEW w \in Write, Alone(w), SubmitSucceeds(w)
    PROVE  VersionInv'
<1> DEFINE E0 == Target[w].employee
           S0 == Target[w].section
           p0 == employeeID[w]
           ch == ledger[<<p0, S0>>]
<1>1. /\ w \in Call /\ w \notin Verification /\ w \notin Erasure /\ Progress(w) /\ pc[w] = "submit"
      /\ E0 \in Employee /\ S0 \in Section /\ Counter(w) = <<E0, S0>> /\ EmployeeOf(w) = E0
      /\ LookupOf(w) = <<E0, "">>
  <2>1. LookupOf(w) = <<EmployeeOf(w), "">>
    BY CallFacts, MainLookup
  <2> QED BY <2>1, CallFacts DEF SubmitSucceeds, IInv, ProgressInv, Counter
<1>2. salt[w] = w /\ p0 # NoKey
  <2>1. salt[w] = w /\ w # "none"
    BY <1>1, CallFacts DEF Progress
  <2> QED BY <1>1, <2>1 DEF Progress
<1>3. Answer(w, "committed") /\ Anchor(w) /\ UNCHANGED <<opVersion, keys, employeeID, version, restarts, owner, shredded>>
  BY WriteAnswers DEF SubmitSucceeds, stores, locals, past
<1>4. /\ <<p0, S0>> \in Pseudonym \X Section
      /\ ledger' = [ledger EXCEPT ![<<p0, S0>>] = Append(ch, [by |-> w, salt |-> w])]
  BY <1>1, <1>2, <1>3, AnchorAppends
<1>5. /\ pc'[w] = "done" /\ \A d \in Call \ {w} : pc'[d] = pc[d]
      /\ \A d \in Call \ {w} : response'[d] = response[d]
  BY <1>1, <1>3 DEF Answer, IInv, TypeOK
<1>6. \A u \in Write : ~Active(u)' /\ (Active(u) <=> u = w)
  BY <1>1, <1>5, CallFacts DEF Alone, Active
<1>7. \A E : Erased(E)' <=> Erased(E)
  BY <1>3 DEF Erased
<1>8. /\ ch \in Seq(AnchorRecord) /\ Len(ch) \in Nat /\ DOMAIN ch = 1..Len(ch)
  BY <1>4, RecordFacts DEF IInv
<1>9. /\ ledger'[<<p0, S0>>] = Append(ch, [by |-> w, salt |-> w])
      /\ \A ps \in Pseudonym \X Section : ps # <<p0, S0>> => ledger'[ps] = ledger[ps]
  BY <1>4 DEF IInv, TypeOK
<1>10. [by |-> w, salt |-> w] \in AnchorRecord /\ [by |-> w, salt |-> w].by = w
  BY DEF AnchorRecord
<1> HIDE DEF ch
<1>11. /\ Len(ledger'[<<p0, S0>>]) = Len(ch) + 1 /\ DOMAIN ledger'[<<p0, S0>>] = 1..(Len(ch) + 1)
       /\ ledger'[<<p0, S0>>][Len(ch) + 1].by = w
       /\ \A i \in 1..Len(ch) : ledger'[<<p0, S0>>][i] = ch[i]
  BY <1>8, <1>9, <1>10
<1>12. \A l \in Lookup : keys[l] = p0 => l = <<E0, "">>
  BY <1>1, <1>2 DEF IInv, KeyInv, Holds
<1>13. ~Erased(E0) => keys[<<E0, "">>] = p0 /\ version[w] = Len(ch) + 1
  <2> SUFFICES ASSUME ~Erased(E0) PROVE keys[<<E0, "">>] = p0 /\ version[w] = Len(ch) + 1
    OBVIOUS
  <2>1. keys[<<E0, "">>] = p0
    BY <1>1, <1>2 DEF IInv, KeyInv, Holds
  <2>2. Busy(E0, S0) /\ InStep(E0, S0)
    BY <1>1, <1>6 DEF Busy, VersionInv
  <2>3. version[w] = opVersion[<<E0, S0>>]
    BY <1>1, <1>6 DEF VersionInv
  <2>4. Count(E0, S0) = Len(ch)
    BY <1>2, <2>1 DEF Count, ch
  <2> QED BY <2>1, <2>2, <2>3, <2>4 DEF InStep
<1> HIDE DEF E0, S0, p0
<1>14. ASSUME NEW E \in Employee, NEW S \in Section PROVE Erased(E)' \/ InStep(E, S)'
  <2>0. <<E, "">> \in Lookup /\ ~Busy(E, S)' /\ (Busy(E, S) <=> <<E, S>> = <<E0, S0>>)
    BY <1>1, <1>6, CallAssumption DEF Lookup, Busy
  <2>1. CASE ~Erased(E) /\ <<E, S>> = <<E0, S0>>
    <3>1. E = E0 /\ S = S0
      BY <2>1
    <3>2. Count(E, S) = Len(ch) /\ Count(E, S)' = Len(ch) + 1
      BY <1>2, <1>3, <1>11, <1>13, <2>1, <3>1 DEF Count, ch, p0
    <3>3. opVersion[<<E, S>>] = Count(E, S) + 1
      BY <2>0, <2>1 DEF VersionInv, InStep
    <3> QED BY <1>3, <2>0, <3>2, <3>3 DEF InStep
  <2>2. CASE ~Erased(E) /\ <<E, S>> # <<E0, S0>>
    <3>1. Count(E, S)' = Count(E, S)
      <4>1. CASE keys[<<E, "">>] = NoKey
        BY <1>3, <4>1 DEF Count
      <4>2. CASE keys[<<E, "">>] # NoKey
        <5>1. <<keys[<<E, "">>], S>> # <<p0, S0>>
          <6>1. keys[<<E, "">>] = p0 => E = E0
            BY <1>12, <2>0
          <6> QED BY <2>2, <6>1
        <5>2. <<keys[<<E, "">>], S>> \in Pseudonym \X Section
          <6>1. keys[<<E, "">>] \in Pseudonym
            BY <2>0, <4>2, KeyFacts
          <6> QED BY <6>1
        <5>3. ledger'[<<keys[<<E, "">>], S>>] = ledger[<<keys[<<E, "">>], S>>]
          BY <1>9, <5>1, <5>2
        <5> QED BY <1>3, <5>3 DEF Count
      <4> QED BY <4>1, <4>2
    <3>2. opVersion[<<E, S>>] = Count(E, S)
      BY <2>0, <2>2 DEF VersionInv, InStep
    <3> QED BY <1>3, <2>0, <3>1, <3>2 DEF InStep
  <2> QED BY <1>7, <2>1, <2>2
<1>15. ASSUME NEW ps \in Pseudonym \X Section, NEW i \in DOMAIN ledger'[ps]
       PROVE  Numbered(ledger[ps][i].by, i)'
  <2>1. CASE i \in DOMAIN ledger[ps] /\ ledger'[ps][i] = ledger[ps][i]
    <3>1. Numbered(ledger[ps][i].by, i)
      BY <2>1 DEF VersionInv
    <3> QED BY <1>3, <1>7, <2>1, <3>1 DEF Numbered
  <2>2. CASE ps = <<p0, S0>> /\ i = Len(ch) + 1
    <3>1. ledger'[ps][i].by = w
      BY <1>11, <2>2
    <3> QED BY <1>3, <1>7, <1>13, <2>2, <3>1 DEF Numbered, E0
  <2>3. CASE ps # <<p0, S0>>
    BY <1>9, <2>1, <2>3
  <2>4. CASE ps = <<p0, S0>> /\ i # Len(ch) + 1
    <3>1. i \in 1..Len(ch)
      BY <1>8, <1>11, <2>4
    <3>2. ledger[ps] = ch
      BY <2>4 DEF ch
    <3> QED BY <1>8, <1>11, <2>1, <2>4, <3>1, <3>2
  <2> QED BY <2>2, <2>3, <2>4
<1>16. Grows
  <2> SUFFICES ASSUME NEW ps \in Pseudonym \X Section, NEW i \in DOMAIN ledger[ps]
               PROVE  i \in DOMAIN ledger'[ps] /\ ledger'[ps][i] = ledger[ps][i]
    BY DEF Grows
  <2>1. CASE ps = <<p0, S0>>
    <3>1. ledger[ps] = ch /\ i \in 1..Len(ch)
      BY <1>8, <2>1 DEF ch
    <3> QED BY <1>8, <1>11, <2>1, <3>1
  <2>2. CASE ps # <<p0, S0>>
    BY <1>9, <2>2
  <2> QED BY <2>1, <2>2
<1>17. \A v \in Verification : Alarm(v)'
  <2> SUFFICES ASSUME NEW v \in Verification PROVE Alarm(v)'
    OBVIOUS
  <2>1. v \in Call \ {w} /\ Alarm(v)
    BY <1>1, CallFacts DEF VersionInv
  <2> QED BY <1>3, <1>5, <1>7, <1>16, <2>1, AlarmFrame
<1>18. restarts' = 0 /\ \A u \in Write : Active(u)' => version'[u] = opVersion'[Counter(u)]
  BY <1>3, <1>6 DEF VersionInv
<1> QED BY <1>14, <1>15, <1>17, <1>18 DEF VersionInv

(***************************************************************************)
(* The other steps of a write.  Its salt slot is free, so it goes on.      *)
(***************************************************************************)
LEMMA VersionWrite ==
    ASSUME MainRecordsOnly, IInv, VersionInv, NEW w \in Write, Alone(w), WriteStep(w)
    PROVE  VersionInv'
<1>0. w \in Call /\ w \notin Verification /\ w \notin Erasure
  BY CallFacts
<1>1. CASE SaveSection(w)
  BY <1>1, VersionSave
<1>2. CASE SubmitSucceeds(w)
  BY <1>2, VersionSubmit
<1>3. CASE ResolveEmployeeKey(w)
  <2>1. /\ pc[w] = "key" /\ GetOrCreateEmployeeKey(w, LookupOf(w), "salt")
        /\ UNCHANGED <<opVersion, ledger, restarts, version, shredded>>
    BY <1>3, CallFacts DEF ResolveEmployeeKey, outside
  <2> QED BY <1>0, <2>1, VersionResolve
<1>4. CASE PutSalt(w) \/ FetchDocumentKey(w) \/ EncryptAndAdd(w)
  <2>1. \E label \in {"document", "submit", "pin"} : Goto(w, label)
    <3>1. CASE PutSalt(w)
      <4>1. SaltSlot(w) = {}
        BY <3>1, SlotIsFree DEF PutSalt, VersionInv, SaltSlotIsFree
      <4> QED BY <3>1, <4>1 DEF PutSalt
    <3>2. CASE FetchDocumentKey(w) \/ EncryptAndAdd(w)
      BY <3>2 DEF FetchDocumentKey, EncryptAndAdd
    <3> QED BY <1>4, <3>1, <3>2
  <2>2. /\ pc[w] \in {"salt", "document", "pin"}
        /\ UNCHANGED <<opVersion, ledger, restarts, keys, owner, shredded, employeeID, version>>
    BY <1>4 DEF PutSalt, FetchDocumentKey, EncryptAndAdd, stores, outside, locals, past
  <2>3. /\ pc'[w] \in {"document", "submit", "pin"} /\ \A d \in Call \ {w} : pc'[d] = pc[d]
        /\ UNCHANGED response
    BY <1>0, <2>1 DEF Goto, IInv, TypeOK
  <2>4. Active(w) /\ Active(w)'
    BY <2>2, <2>3 DEF Active
  <2> QED BY <1>0, <2>2, <2>3, <2>4, VersionPlain
<1> QED BY <1>1, <1>2, <1>3, <1>4 DEF WriteStep

(***************************************************************************)
(* The salt that the verify route finds is that of the record it compares  *)
(* with: both have the version of the same save.                           *)
(***************************************************************************)
LEMMA SaltOfLatest ==
    ASSUME IInv, VersionInv, NEW v \in Verification, pc[v] = "getsalt", ~Erased(Target[v].employee)
    PROVE  LET w == Chain(v)[version[v]].by
           IN  /\ w \in Write /\ Chain(v)[version[v]].salt = w
               /\ FreshSalt(w) \in SaltsAt(employeeID[v], Target[v].section, version[v])
               /\ \A s \in SaltsAt(employeeID[v], Target[v].section, version[v]) : s.salt = w
<1> DEFINE w == Chain(v)[version[v]].by
           p == employeeID[v]
           S == Target[v].section
<1>1. /\ v \in Call /\ v \notin Write /\ v \notin Erasure /\ Progress(v) /\ S \in Section
      /\ EmployeeOf(v) = Target[v].employee
  BY CallFacts DEF IInv, ProgressInv
<1>2. p # NoKey /\ version[v] \in DOMAIN Chain(v)
  BY <1>1 DEF Progress
<1>3. p \in Pseudonym /\ owner[p] = Target[v].employee
  BY <1>1, <1>2, PseudonymFacts DEF IInv, KeyInv, Holds
<1>4. /\ w \in Write /\ Chain(v)[version[v]].salt = w /\ salt[w] = w
      /\ employeeID[w] = p /\ Target[w].section = S
  BY <1>1, <1>2, <1>3, RecordOwner DEF Chain
<1>5. Numbered(w, version[v]) /\ version[v] \in Nat /\ version[v] # 0
  <2>1. <<p, S>> \in Pseudonym \X Section
    BY <1>1, <1>3
  <2>2. Numbered(w, version[v])
    BY <1>2, <2>1 DEF VersionInv, Chain
  <2>3. DOMAIN Chain(v) = 1..Len(Chain(v)) /\ Len(Chain(v)) \in Nat
    BY <2>1, RecordFacts DEF Chain, IInv
  <2> QED BY <1>2, <2>2, <2>3
<1> HIDE DEF w
<1>6. w \in Call /\ EmployeeOf(w) = Target[w].employee
  BY <1>4, CallFacts
<1>7. Target[w].employee = Target[v].employee
  BY <1>1, <1>2, <1>4, <1>6, SharedPseudonym
<1>8. version[w] = version[v]
  BY <1>5, <1>7 DEF Numbered
<1>9. FreshSalt(w) \in salts
  BY <1>3, <1>4 DEF IInv, SaltInv, Erased
<1>10. FreshSalt(w) \in SaltsAt(p, S, version[v])
  <2>1. /\ FreshSalt(w).employeeID = employeeID[w] /\ FreshSalt(w).section = Target[w].section
        /\ FreshSalt(w).version = version[w]
    BY DEF FreshSalt
  <2> QED BY <1>4, <1>8, <1>9, <2>1 DEF SaltsAt
<1>11. ASSUME NEW s \in SaltsAt(p, S, version[v]) PROVE s.salt = w
  <2> DEFINE u == s.salt
  <2>1. s \in salts /\ s.employeeID = p /\ s.section = S /\ s.version = version[v]
    BY <1>11 DEF SaltsAt
  <2>2. u \in Write /\ u \in Call /\ employeeID[u] = p /\ Target[u].section = S /\ version[u] = version[v]
    BY <2>1, SaltFacts
  <2> HIDE DEF u
  <2>3. EmployeeOf(u) = Target[u].employee
    BY <2>2, CallFacts
  <2>4. Target[u].employee = Target[w].employee
    BY <1>2, <1>4, <1>6, <2>2, <2>3, SharedPseudonym
  <2>5. Counter(u) = Counter(w)
    BY <1>4, <2>2, <2>4 DEF Counter
  <2>6. u = w
    BY <1>4, <1>5, <1>8, <2>2, <2>5 DEF IInv, CounterInv, VersionInv
  <2> QED BY <2>6 DEF u
<1> QED BY <1>4, <1>10, <1>11 DEF w

(***************************************************************************)
(* Verifications.                                                          *)
(***************************************************************************)
LEMMA VersionVerify ==
    ASSUME MainRecordsOnly, IInv, VersionInv, NEW v \in Verification, VerifyStep(v)
    PROVE  VersionInv'
<1>0. /\ v \in Call /\ v \notin Write /\ v \notin Erasure /\ Progress(v)
      /\ version \in [Call -> Nat] /\ response \in [Call -> Response]
  BY CallFacts DEF IInv, ProgressInv, TypeOK
<1>1. CASE ResolveEmployeeID(v)
  <2>1. /\ pc[v] = "idle" /\ GetOrCreateEmployeeKey(v, LookupOf(v), "history")
        /\ UNCHANGED <<opVersion, ledger, restarts, version, shredded>>
    BY <1>1, CallFacts DEF ResolveEmployeeID, outside
  <2> QED BY <1>0, <2>1, VersionResolve
<1>2. CASE EvaluateGetProfileHistory(v)
  <2>1. /\ pc[v] = "history" /\ version' = [version EXCEPT ![v] = Latest(v)]
        /\ UNCHANGED <<opVersion, ledger, restarts, keys, owner, shredded, employeeID>>
    BY <1>2 DEF EvaluateGetProfileHistory, stores, outside, past
  <2>2. Answer(v, "no_anchor_found") \/ Answer(v, "deletion_verified") \/ Goto(v, "getsalt")
    BY <1>2 DEF EvaluateGetProfileHistory
  <2>3. /\ \A d \in Call \ {v} : pc'[d] = pc[d] /\ response'[d] = response[d] /\ version'[d] = version[d]
        /\ response'[v] # "compromised"
    <3>1. \A d \in Call \ {v} : version'[d] = version[d]
      BY <1>0, <2>1
    <3>2. CASE Goto(v, "getsalt")
      BY <1>0, <2>1, <3>1, <3>2 DEF Goto, IInv, TypeOK, Progress
    <3>3. CASE Answer(v, "no_anchor_found") \/ Answer(v, "deletion_verified")
      BY <1>0, <3>1, <3>3 DEF Answer, IInv, TypeOK
    <3> QED BY <2>2, <3>2, <3>3
  <2> QED BY <1>0, <2>1, <2>3, VersionPlain DEF Alarm
<1>3. CASE GetSalt(v)
  <2> DEFINE found == SaltsAt(employeeID[v], Target[v].section, version[v])
  <2>1. /\ pc[v] = "getsalt"
        /\ UNCHANGED <<opVersion, ledger, restarts, keys, owner, shredded, employeeID, version>>
    BY <1>3 DEF GetSalt, stores, outside, locals, past
  <2>2. PICK a \in {"error", "verified", "compromised"} :
          /\ Answer(v, a)
          /\ a = "compromised" => \E s \in found :
               ComputeDataHash(s.salt, Content[v]) # Digest(Chain(v)[version[v]])
    BY <1>3 DEF GetSalt
  <2>3. /\ \A d \in Call \ {v} : pc'[d] = pc[d] /\ response'[d] = response[d]
        /\ response'[v] = a
    BY <1>0, <2>2 DEF Answer, IInv, TypeOK
  <2>4. Alarm(v)'
    <3> SUFFICES ASSUME a = "compromised", ~Erased(Target[v].employee)
                 PROVE  /\ employeeID[v] # NoKey /\ version[v] \in DOMAIN Chain(v)
                        /\ Content[Chain(v)[version[v]].by] # Content[v]
      BY <2>1, <2>3 DEF Alarm, Erased, Chain
    <3>1. employeeID[v] # NoKey /\ version[v] \in DOMAIN Chain(v)
      BY <1>0, <2>1 DEF Progress
    <3>2. PICK s \in found : ComputeDataHash(s.salt, Content[v]) # Digest(Chain(v)[version[v]])
      BY <2>2
    <3>3. s.salt = Chain(v)[version[v]].by /\ Chain(v)[version[v]].salt = Chain(v)[version[v]].by
      BY <2>1, <3>2, SaltOfLatest
    <3> QED BY <3>1, <3>2, <3>3 DEF ComputeDataHash, Digest
  <2> QED BY <1>0, <2>1, <2>3, <2>4, VersionPlain
<1> QED BY <1>1, <1>2, <1>3 DEF VerifyStep

(***************************************************************************)
(* Erasures.  From the step that deletes the salts on, nothing is claimed  *)
(* of the employee's versions: the counter stays, the chain begins anew.   *)
(***************************************************************************)
LEMMA VersionErase ==
    ASSUME MainRecordsOnly, IInv, VersionInv, NEW e \in Erasure, EraseStep(e)
    PROVE  VersionInv'
<1>0. /\ e \in Call /\ e \notin Write /\ e \notin Verification /\ Progress(e)
      /\ response \in [Call -> Response]
  BY CallFacts DEF IInv, ProgressInv, TypeOK
<1>1. CASE DeriveEmployeeID(e)
  <2>1. /\ pc[e] = "derive" /\ GetOrCreateEmployeeKey(e, LookupOf(e), "salts")
        /\ UNCHANGED <<opVersion, ledger, restarts, version, shredded>>
    BY <1>1, CallFacts DEF DeriveEmployeeID, outside
  <2> QED BY <1>0, <2>1, VersionResolve
<1>2. CASE BeginErase(e) \/ DeleteSection(e) \/ DeleteDocumentKey(e)
  <2>1. UNCHANGED <<opVersion, ledger, restarts, keys, owner, shredded, employeeID, version>>
    BY <1>2 DEF BeginErase, DeleteSection, DeleteDocumentKey, stores, outside, locals, past
  <2>2. \E label : Goto(e, label)
    BY <1>2 DEF BeginErase, DeleteSection, DeleteDocumentKey
  <2>3. \A d \in Call \ {e} : pc'[d] = pc[d] /\ response'[d] = response[d]
    BY <1>0, <2>2 DEF Goto, IInv, TypeOK
  <2> QED BY <1>0, <2>1, <2>3, VersionPlain
<1>3. CASE DeleteAllSaltsForEmployee(e) \/ DeleteEmployeeKey(e)
  <2>1. /\ UNCHANGED <<opVersion, ledger, restarts, owner, employeeID, version>>
        /\ shredded \subseteq shredded'
    BY <1>3 DEF DeleteAllSaltsForEmployee, DeleteEmployeeKey, outside, locals, past
  <2>2. \A d \in Call \ {e} : pc'[d] = pc[d] /\ response'[d] = response[d]
    BY <1>0, <1>3 DEF DeleteAllSaltsForEmployee, DeleteEmployeeKey, Goto, Answer, IInv, TypeOK
  <2>3. \A E : Erased(E) => Erased(E)'
    BY <2>1 DEF Erased
  <2>4. ASSUME NEW E \in Employee, ~Erased(E)', NEW S \in Section PROVE Count(E, S)' = Count(E, S)
    <3>1. CASE DeleteAllSaltsForEmployee(e)
      BY <2>1, <3>1 DEF DeleteAllSaltsForEmployee, Count
    <3>2. CASE DeleteEmployeeKey(e)
      <4>1. /\ pc[e] = "employeekey" /\ keys' = [keys EXCEPT ![<<Subject[e], "">>] = NoKey]
            /\ UNCHANGED shredded
        BY <3>2 DEF DeleteEmployeeKey, KeyLookup, past
      <4>2. employeeID[e] \in shredded /\ owner[employeeID[e]] = Subject[e]
        BY <1>0, <4>1, CallFacts DEF Progress, IInv, KeyInv, Holds
      <4>3. E # Subject[e]
        BY <2>1, <2>4, <4>1, <4>2 DEF Erased
      <4>4. <<E, "">> \in Lookup /\ <<E, "">> # <<Subject[e], "">> /\ keys \in [Lookup -> Nat]
        BY <4>3, CallAssumption DEF Lookup, IInv, TypeOK
      <4>5. keys'[<<E, "">>] = keys[<<E, "">>]
        BY <4>1, <4>4
      <4> QED BY <2>1, <4>5 DEF Count
    <3> QED BY <1>3, <3>1, <3>2
  <2>5. \A w \in Write : version'[w] = version[w] /\ (Active(w)' <=> Active(w))
    BY <1>0, <2>1, <2>2, CallFacts DEF Active
  <2>6. \A v \in Verification : Alarm(v)'
    <3> SUFFICES ASSUME NEW v \in Verification PROVE Alarm(v)'
      OBVIOUS
    <3>1. v \in Call \ {e} /\ Alarm(v) /\ Grows
      BY <1>0, <2>1, CallFacts DEF VersionInv, Grows
    <3> QED BY <2>1, <2>2, <2>3, <3>1, AlarmFrame
  <2> QED BY <2>1, <2>3, <2>4, <2>5, <2>6, VersionFrame
<1> QED BY <1>1, <1>2, <1>3 DEF EraseStep

-----------------------------------------------------------------------------
\* Nothing has been saved or anchored.
LEMMA InitVersionInv == Init => VersionInv
<1> SUFFICES ASSUME Init PROVE VersionInv
  OBVIOUS
<1>1. /\ restarts = 0 /\ \A c \in Call : pc[c] = "idle" /\ response[c] = "none"
      /\ \A es \in Employee \X Section : opVersion[es] = 0
      /\ \A l \in Lookup : keys[l] = NoKey
  BY DEF Init, Lookup
<1>2. \A w \in Write : ~Active(w)
  BY <1>1, CallFacts DEF Active
<1>3. ASSUME NEW E \in Employee, NEW S \in Section PROVE InStep(E, S)
  <2>1. <<E, "">> \in Lookup /\ <<E, S>> \in Employee \X Section
    BY CallAssumption DEF Lookup
  <2> QED BY <1>1, <1>2, <2>1 DEF InStep, Busy, Count
<1>4. \A ps \in Pseudonym \X Section : ledger[ps] = <<>>
  BY DEF Init
<1>5. \A v \in Verification : Alarm(v)
  BY <1>1, CallFacts DEF Alarm
<1> QED BY <1>1, <1>2, <1>3, <1>4, <1>5 DEF VersionInv

\* Steps of one call while all others rest.
LEMMA QuietVersionInv ==
    ASSUME MainRecordsOnly, IInv, VersionInv, [QuietNext]_vars
    PROVE  VersionInv'
<1>1. ASSUME NEW c \in Call, Alone(c), Step(c) PROVE VersionInv'
  <2>1. CASE Refuse(c)
    <3>1. /\ pc[c] = "idle" /\ c \notin Erasure
          /\ UNCHANGED <<opVersion, ledger, restarts, keys, owner, shredded, employeeID, version>>
      BY <2>1, CallFacts DEF Refuse, stores, outside, locals, past
    <3>2. PICK a \in {"error", "rejected"} : Answer(c, a)
      BY <2>1, RefuseAnswers
    <3>3. /\ pc'[c] = "done" /\ response'[c] = a
          /\ \A d \in Call \ {c} : pc'[d] = pc[d] /\ response'[d] = response[d]
      BY <3>2 DEF Answer, IInv, TypeOK
    <3>4. ~Active(c) /\ ~Active(c)' /\ (c \in Verification => Alarm(c)')
      BY <3>1, <3>3 DEF Active, Alarm
    <3> QED BY <3>1, <3>3, <3>4, VersionPlain
  <2> QED BY <1>1, <2>1, VersionWrite, VersionVerify, VersionErase DEF Step
<1>2. CASE UNCHANGED vars
  <2>1. UNCHANGED <<opVersion, ledger, restarts, keys, owner, shredded, employeeID, version, pc, response>>
    BY <1>2 DEF vars, stores, outside, locals, past
  <2>2. \A E : Erased(E)' <=> Erased(E)
    BY <2>1 DEF Erased
  <2>3. \A E, S : Count(E, S)' = Count(E, S)
    BY <2>1 DEF Count
  <2>4. \A w \in Write : version'[w] = version[w] /\ (Active(w)' <=> Active(w))
    BY <2>1 DEF Active
  <2>5. \A v \in Verification : Alarm(v)'
    BY <2>1, <2>2 DEF VersionInv, Alarm, Chain
  <2> QED BY <2>1, <2>2, <2>3, <2>4, <2>5, VersionFrame
<1> QED BY <1>1, <1>2 DEF QuietNext

\* The two invariants of such requests.
LEMMA QuietInvariance == MainRecordsOnly => (QuietSpec => [](IInv /\ VersionInv))
<1> SUFFICES ASSUME MainRecordsOnly PROVE QuietSpec => [](IInv /\ VersionInv)
  OBVIOUS
<1>1. Init => IInv /\ VersionInv
  BY InitIInv, InitVersionInv
<1>2. [QuietNext]_vars => [Next]_vars
  BY DEF QuietNext, Next
<1>3. IInv /\ VersionInv /\ [QuietNext]_vars => (IInv /\ VersionInv)'
  BY <1>2, NextIInv, QuietVersionInv
<1> QED BY <1>1, <1>3, PTL DEF QuietSpec

(***************************************************************************)
(* Without faults and interleavings, every anchored record of an employee  *)
(* who was not erased can be verified: the salt is stored under the        *)
(* version the ledger gives the record.                                    *)
(***************************************************************************)
THEOREM AnchorsAreVerifiable ==
    MainRecordsOnly => (QuietSpec => []AnchoredIsVerifiable)
<1>1. IInv /\ VersionInv => AnchoredIsVerifiable
  <2> SUFFICES ASSUME IInv, VersionInv, NEW v \in Verification, pc[v] = "getsalt",
                      ~Erased(Target[v].employee)
               PROVE  SaltsAt(employeeID[v], Target[v].section, version[v]) # {}
    BY DEF AnchoredIsVerifiable
  <2> QED BY SaltOfLatest
<1> QED BY <1>1, QuietInvariance, PTL

(***************************************************************************)
(* Without faults and interleavings, "compromised" is answered only when   *)
(* the claimed value is not the one that was anchored last.                *)
(***************************************************************************)
THEOREM AlarmsAreReal ==
    MainRecordsOnly => (QuietSpec => []NoFalseAlarm)
<1>1. VersionInv => NoFalseAlarm
  BY DEF VersionInv, Alarm, NoFalseAlarm
<1> QED BY <1>1, QuietInvariance, PTL
=============================================================================

-------------------------- MODULE FileStoreProofs --------------------------
(***************************************************************************)
(* The file store, for every set of calls and identifiers and any number   *)
(* of crashes: its inductive invariant, and that it implements the atomic  *)
(* store.                                                                  *)
(***************************************************************************)
EXTENDS FileStore, TLAPS

(***************************************************************************)
(* Every operation maps a map to a map, and only an operation that saves   *)
(* changes it.                                                             *)
(***************************************************************************)
LEMMA OutcomeFacts ==
    ASSUME NEW m \in Map, NEW c \in Call
    PROVE  /\ Outcome(m, c).map \in Map
           /\ Outcome(m, c).answer \in Answer
           /\ Outcome(m, c).saves \in BOOLEAN
           /\ ~Outcome(m, c).saves => Outcome(m, c).map = m
<1>1. Of[c] \in Id /\ Kind[c] \in KindOfCall
  BY StoreAssumption
<1>2. m[Of[c]] \in Call \union {Absent}
  BY <1>1 DEF Map
<1>3. [m EXCEPT ![Of[c]] = c] \in Map
  BY <1>1 DEF Map
<1>4. CASE Kind[c] = "getorcreate"
  BY <1>2, <1>3, <1>4 DEF Outcome, GetOrCreate, Create, Reads, Saves, Answer
<1>5. CASE Kind[c] = "put"
  BY <1>2, <1>3, <1>5 DEF Outcome, Put, Create, Reads, Saves, Answer
<1>6. CASE Kind[c] = "get"
  BY <1>2, <1>6 DEF Outcome, Get, Reads, Answer
<1>7. CASE Kind[c] = "delete"
  <2>1. [i \in Id |-> IF i \in Scope[c] THEN Absent ELSE m[i]] \in Map
    BY DEF Map
  <2> QED BY <1>7, <2>1 DEF Outcome, Delete, Saves, Answer
<1> QED BY <1>1, <1>4, <1>5, <1>6, <1>7 DEF KindOfCall

(***************************************************************************)
(* The store starts as the invariant says: an empty map, nobody inside.    *)
(***************************************************************************)
LEMMA InitIInv == Init => IInv
<1> SUFFICES ASSUME Init PROVE IInv
  OBVIOUS
<1>1. Empty \in Map
  BY DEF Empty, Map
<1>2. TypeOK
  BY <1>1 DEF Init, TypeOK, Label
<1>3. MutualExclusion
  BY DEF Init, MutualExclusion, InCritical
<1>4. SaveInv
  BY DEF Init, SaveInv
<1> QED BY <1>2, <1>3, <1>4 DEF IInv

(***************************************************************************)
(* Every step of a call, and a crash, preserves the invariant.             *)
(***************************************************************************)
LEMMA NextIInv == IInv /\ [Next]_vars => IInv'
<1> SUFFICES ASSUME IInv, [Next]_vars PROVE IInv'
  OBVIOUS
<1> USE DEF IInv, TypeOK, Goto
<1>1. ASSUME NEW c \in Call, Lock(c) PROVE IInv'
  <2>1. TypeOK'
    BY <1>1 DEF Lock, Label
  <2>2. MutualExclusion'
    BY <1>1, FileStoreAssumption DEF Lock, MutualExclusion, InCritical
  <2>3. SaveInv'
    BY <1>1 DEF Lock, SaveInv
  <2> QED BY <2>1, <2>2, <2>3
<1>2. ASSUME NEW c \in Call, Load(c) PROVE IInv'
  <2>1. /\ Outcome(file, c).map \in Map /\ Outcome(file, c).answer \in Answer
        /\ Outcome(file, c).saves \in BOOLEAN
    BY OutcomeFacts
  <2>2. TypeOK'
    BY <1>2, <2>1 DEF Load, Label
  <2>3. MutualExclusion'
    BY <1>2 DEF Load, MutualExclusion, InCritical
  <2>4. SaveInv'
    BY <1>2, <2>1 DEF Load, SaveInv
  <2> QED BY <2>2, <2>3, <2>4
<1>3. ASSUME NEW c \in Call, WriteTmp(c) \/ WrittenTmp(c) PROVE IInv'
  <2>1. TypeOK'
    BY <1>3 DEF WriteTmp, WrittenTmp, Label
  <2>2. MutualExclusion'
    BY <1>3 DEF WriteTmp, WrittenTmp, MutualExclusion, InCritical
  <2>3. \A d \in Call \ {c} : pc[d] # "rename"
    BY <1>3, FileStoreAssumption DEF WriteTmp, WrittenTmp, MutualExclusion, InCritical
  <2>4. SaveInv'
    BY <1>3, <2>3 DEF WriteTmp, WrittenTmp, SaveInv
  <2> QED BY <2>1, <2>2, <2>4
<1>4. ASSUME NEW c \in Call, Rename(c) PROVE IInv'
  <2>1. TypeOK'
    BY <1>4 DEF Rename, SaveInv, Label
  <2>2. MutualExclusion'
    BY <1>4 DEF Rename, MutualExclusion, InCritical
  <2>3. \A d \in Call \ {c} : pc[d] \notin {"write", "written", "rename"}
    BY <1>4, FileStoreAssumption DEF Rename, MutualExclusion, InCritical
  <2>4. \A d \in Call : pc'[d] \notin {"write", "written", "rename"}
    BY <1>4, <2>3 DEF Rename
  <2> QED BY <2>1, <2>2, <2>4 DEF SaveInv
<1>5. ASSUME NEW c \in Call, IoError(c) \/ Unlock(c) PROVE IInv'
  <2>1. TypeOK'
    BY <1>5 DEF IoError, Unlock, Label, Answer
  <2>2. \A d \in Call \ {c} : ~InCritical(d)
    BY <1>5, FileStoreAssumption DEF IoError, Unlock, MutualExclusion, InCritical
  <2>3. MutualExclusion'
    BY <1>5, <2>2 DEF IoError, Unlock, MutualExclusion, InCritical
  <2>4. \A d \in Call : pc'[d] \notin {"write", "written", "rename"}
    BY <1>5, <2>2 DEF IoError, Unlock, InCritical
  <2> QED BY <2>1, <2>3, <2>4 DEF SaveInv
<1>6. ASSUME Crash PROVE IInv'
  <2>1. TypeOK'
    BY <1>6 DEF Crash, Label
  <2>2. \A d \in Call : pc'[d] \in {"lock", "returned", "gone"}
    BY <1>6 DEF Crash, Label
  <2>3. MutualExclusion' /\ SaveInv'
    BY <2>2 DEF MutualExclusion, InCritical, SaveInv
  <2> QED BY <2>1, <2>3
<1>7. CASE UNCHANGED vars
  BY <1>7 DEF vars, MutualExclusion, InCritical, SaveInv
<1> QED BY <1>1, <1>2, <1>3, <1>4, <1>5, <1>6, <1>7 DEF Next, Step

(***************************************************************************)
(* In every state the program reaches, the store file is a complete map,   *)
(* one call at a time is between load and unlock, and what it is about to  *)
(* save is the outcome of its operation on the file as it is now.          *)
(***************************************************************************)
THEOREM StoreInvariance == Spec => []IInv
<1>1. Init => IInv
  BY InitIInv
<1>2. IInv /\ [Next]_vars => IInv'
  BY NextIInv
<1> QED BY <1>1, <1>2, PTL DEF Spec

-----------------------------------------------------------------------------
(***************************************************************************)
(* The file store's steps as steps of the atomic store.                    *)
(***************************************************************************)
LEMMA InitRefines == Init => Atomic!Init
<1> SUFFICES ASSUME Init PROVE Atomic!Init
  OBVIOUS
<1>1. file = [i \in Id |-> Absent]
  BY DEF Init, Empty
<1>2. AbstractPhase = [c \in Call |-> "called"]
  BY DEF Init, AbstractPhase
<1>3. AbstractAnswer = [c \in Call |-> Absent]
  BY DEF Init, AbstractAnswer
<1> QED BY <1>1, <1>2, <1>3 DEF Atomic!Init

abstractVars == <<file, AbstractPhase, AbstractAnswer>>

\* A call that takes effect, with its answer, is the abstract Apply.
LEMMA ApplyRefines ==
    ASSUME IInv, NEW c \in Call,
           pc[c] \in {"load", "rename"}, pc' = [pc EXCEPT ![c] = "unlock"],
           file' = Outcome(file, c).map,
           answer' = [answer EXCEPT ![c] = Outcome(file, c).answer]
    PROVE  Atomic!Apply(c)
<1>1. AbstractPhase[c] = "called"
  BY DEF AbstractPhase
<1>2. AbstractPhase' = [AbstractPhase EXCEPT ![c] = "applied"]
  BY DEF IInv, TypeOK, AbstractPhase
<1>3. AbstractAnswer' = [AbstractAnswer EXCEPT ![c] = Outcome(file, c).answer]
  BY DEF IInv, TypeOK, AbstractAnswer
<1>4. Atomic!Outcome(file, c) = Outcome(file, c)
  BY DEF Atomic!Outcome, Outcome, Atomic!GetOrCreate, GetOrCreate, Atomic!Put, Put,
         Atomic!Get, Get, Atomic!Delete, Delete, Atomic!Create, Create,
         Atomic!Reads, Reads, Atomic!Saves, Saves
<1> QED BY <1>1, <1>2, <1>3, <1>4 DEF Atomic!Apply

(***************************************************************************)
(* Every step of the file store is a step of the atomic store or none.     *)
(***************************************************************************)
LEMMA NextRefines == IInv /\ [Next]_vars => [Atomic!Next]_abstractVars
<1> SUFFICES ASSUME IInv, [Next]_vars PROVE [Atomic!Next]_abstractVars
  OBVIOUS
<1> USE DEF IInv, TypeOK, Goto, abstractVars
<1>1. ASSUME NEW c \in Call, Lock(c) \/ WriteTmp(c) \/ WrittenTmp(c)
      PROVE  UNCHANGED abstractVars
  BY <1>1 DEF Lock, WriteTmp, WrittenTmp, AbstractPhase, AbstractAnswer
<1>2. ASSUME NEW c \in Call, Load(c) PROVE [Atomic!Next]_abstractVars
  <2>1. CASE Outcome(file, c).saves
    BY <1>2, <2>1 DEF Load, AbstractPhase, AbstractAnswer
  <2>2. CASE ~Outcome(file, c).saves
    <3>1. Outcome(file, c).map = file
      BY <2>2, OutcomeFacts
    <3>2. Atomic!Apply(c)
      BY <1>2, <2>2, <3>1, ApplyRefines DEF Load
    <3> QED BY <3>2 DEF Atomic!Next
  <2> QED BY <2>1, <2>2
<1>3. ASSUME NEW c \in Call, Rename(c) PROVE [Atomic!Next]_abstractVars
  <2>1. /\ file' = Outcome(file, c).map
        /\ answer' = [answer EXCEPT ![c] = Outcome(file, c).answer]
    BY <1>3 DEF Rename, SaveInv
  <2>2. Atomic!Apply(c)
    BY <1>3, <2>1, ApplyRefines DEF Rename
  <2> QED BY <2>2 DEF Atomic!Next
<1>4. ASSUME NEW c \in Call, IoError(c) PROVE [Atomic!Next]_abstractVars
  <2>1. Atomic!Fail(c)
    BY <1>4 DEF IoError, Atomic!Fail, AbstractPhase, AbstractAnswer
  <2> QED BY <2>1 DEF Atomic!Next
<1>5. ASSUME NEW c \in Call, Unlock(c) PROVE [Atomic!Next]_abstractVars
  <2>1. Atomic!Return(c)
    BY <1>5 DEF Unlock, Atomic!Return, AbstractPhase, AbstractAnswer
  <2> QED BY <2>1 DEF Atomic!Next
<1>6. ASSUME Crash PROVE [Atomic!Next]_abstractVars
  <2> DEFINE lost == {c \in Call : pc[c] \notin {"lock", "returned", "gone"}}
  <2>1. lost \in SUBSET {c \in Call : AbstractPhase[c] \in {"called", "applied"}}
    BY DEF AbstractPhase, Label
  <2>2. AbstractPhase' = [c \in Call |-> IF c \in lost THEN "gone" ELSE AbstractPhase[c]]
    BY <1>6 DEF Crash, AbstractPhase, Label
  <2>3. AbstractAnswer' = [c \in Call |-> IF c \in lost THEN Absent ELSE AbstractAnswer[c]]
    BY <1>6 DEF Crash, AbstractAnswer, Label
  <2>4. UNCHANGED file
    BY <1>6 DEF Crash
  <2> HIDE DEF lost
  <2>5. Atomic!Crash
    BY <2>1, <2>2, <2>3, <2>4 DEF Atomic!Crash
  <2> QED BY <2>5 DEF Atomic!Next
<1>7. CASE UNCHANGED vars
  BY <1>7 DEF vars, AbstractPhase, AbstractAnswer
<1> QED BY <1>1, <1>2, <1>3, <1>4, <1>5, <1>6, <1>7 DEF Next, Step

(***************************************************************************)
(* The encrypted-file store is an atomic store: each call of a key or salt *)
(* store takes effect at once or not at all, although it is a load and a   *)
(* save of the whole file, and although the process may die in between.    *)
(***************************************************************************)
THEOREM StoreRefinement == Spec => ImplementsAtomicStore
<1>1. Init => Atomic!Init
  BY InitRefines
<1>2. IInv /\ [Next]_vars => [Atomic!Next]_<<file, AbstractPhase, AbstractAnswer>>
  BY NextRefines DEF abstractVars
<1> QED BY <1>1, <1>2, StoreInvariance, PTL DEF Spec, ImplementsAtomicStore, Atomic!Spec

-----------------------------------------------------------------------------
(***************************************************************************)
(* What was handed out stays.  HandedOutIsKept speaks of calls that have   *)
(* returned; the invariant has to speak of a call from the moment it takes *)
(* effect, and to say that its answer is a secret: another call creates    *)
(* one only where the map has none.                                        *)
(***************************************************************************)
Undeleted(c) == \A d \in Call : Kind[d] = "delete" => Of[c] \notin Scope[d] \/ pc[d] = "lock"

KeptInv ==
    \A c \in Call :
        /\ pc[c] \in {"unlock", "returned"} /\ Kind[c] \in {"getorcreate", "put"}
        /\ answer[c] # "error"
        /\ Undeleted(c)
        => answer[c] # Absent /\ file[Of[c]] = answer[c]

(***************************************************************************)
(* What the operations that hand out a secret leave in the map: the secret *)
(* they answer, and every secret that was there.                           *)
(***************************************************************************)
LEMMA CreateFacts ==
    ASSUME NEW m \in Map, NEW c \in Call, Kind[c] # "delete"
    PROVE  /\ Kind[c] \in {"getorcreate", "put"} /\ Outcome(m, c).answer # "error" =>
                /\ Outcome(m, c).answer # Absent
                /\ Outcome(m, c).map[Of[c]] = Outcome(m, c).answer
           /\ \A i \in Id : m[i] # Absent => Outcome(m, c).map[i] = m[i]
<1>1. Of[c] \in Id /\ Kind[c] \in KindOfCall /\ c # Absent
  BY StoreAssumption
<1>2. m[Of[c]] \in Call \union {Absent}
  BY <1>1 DEF Map
<1>3. CASE Kind[c] = "getorcreate"
  BY <1>1, <1>2, <1>3 DEF Outcome, GetOrCreate, Create, Reads, Saves, Map
<1>4. CASE Kind[c] = "put"
  BY <1>1, <1>2, <1>4 DEF Outcome, Put, Create, Reads, Saves, Map
<1>5. CASE Kind[c] = "get"
  BY <1>5 DEF Outcome, Get, Reads
<1> QED BY <1>1, <1>3, <1>4, <1>5 DEF KindOfCall

(***************************************************************************)
(* A step after which nobody deletes it was taken when nobody deleted it.  *)
(***************************************************************************)
LEMMA UndeletedBackwards ==
    ASSUME IInv, NEW c \in Call, Undeleted(c)',
           \A d \in Call : pc'[d] = "lock" => pc[d] = "lock"
    PROVE  Undeleted(c)
  BY DEF Undeleted

(***************************************************************************)
(* Every step of a call, and a crash, keeps what was handed out.           *)
(***************************************************************************)
LEMMA NextKept == IInv /\ KeptInv /\ [Next]_vars => KeptInv'
<1> SUFFICES ASSUME IInv, KeptInv, [Next]_vars,
                    NEW c \in Call, pc'[c] \in {"unlock", "returned"},
                    Kind[c] \in {"getorcreate", "put"}, answer'[c] # "error", Undeleted(c)'
             PROVE  answer'[c] # Absent /\ file'[Of[c]] = answer'[c]
  BY DEF KeptInv
<1> USE DEF IInv, TypeOK, Goto
<1>1. \A d \in Call : pc'[d] = "lock" => pc[d] = "lock"
  BY DEF Next, Step, vars, Lock, Load, WriteTmp, WrittenTmp, Rename, IoError, Unlock, Crash
<1>2. Undeleted(c)
  BY <1>1, UndeletedBackwards
<1>3. ASSUME pc[c] \in {"unlock", "returned"}, answer'[c] = answer[c], file' = file
      PROVE  answer'[c] # Absent /\ file'[Of[c]] = answer'[c]
  BY <1>2, <1>3 DEF KeptInv
<1>4. ASSUME NEW d \in Call, Lock(d) \/ WriteTmp(d) \/ WrittenTmp(d) \/ IoError(d) \/ Unlock(d)
      PROVE  answer'[c] # Absent /\ file'[Of[c]] = answer'[c]
  BY <1>3, <1>4 DEF Lock, WriteTmp, WrittenTmp, IoError, Unlock
<1>5. ASSUME NEW d \in Call, Load(d)
      PROVE  answer'[c] # Absent /\ file'[Of[c]] = answer'[c]
  <2>1. CASE d = c
    <3>1. ~Outcome(file, c).saves /\ answer'[c] = Outcome(file, c).answer /\ file' = file
      BY <1>5, <2>1 DEF Load
    <3>2. Outcome(file, c).map = file
      BY <3>1, OutcomeFacts
    <3> QED BY <3>1, <3>2, CreateFacts
  <2>2. CASE d # c
    BY <1>3, <1>5, <2>2 DEF Load
  <2> QED BY <2>1, <2>2
<1>6. ASSUME NEW d \in Call, Rename(d)
      PROVE  answer'[c] # Absent /\ file'[Of[c]] = answer'[c]
  <2>1. file' = Outcome(file, d).map /\ answer[d] = Outcome(file, d).answer /\ answer' = answer
    BY <1>6 DEF Rename, SaveInv
  <2>2. CASE d = c
    BY <2>1, <2>2, CreateFacts
  <2>3. CASE d # c
    <3>1. answer[c] # Absent /\ file[Of[c]] = answer[c] /\ Of[c] \in Id
      BY <1>2, <1>6, <2>1, <2>3, StoreAssumption DEF Rename, KeptInv
    <3>2. CASE Kind[d] # "delete"
      BY <2>1, <3>1, <3>2, CreateFacts
    <3>3. CASE Kind[d] = "delete"
      <4>1. Of[c] \notin Scope[d]
        BY <1>2, <1>6, <3>3 DEF Undeleted, Rename
      <4>2. file' = [i \in Id |-> IF i \in Scope[d] THEN Absent ELSE file[i]]
        BY <2>1, <3>3 DEF Outcome, Delete, Saves
      <4> QED BY <2>1, <3>1, <4>1, <4>2
    <3> QED BY <3>2, <3>3
  <2> QED BY <2>2, <2>3
<1>7. CASE Crash
  BY <1>3, <1>7 DEF Crash
<1>8. CASE UNCHANGED vars
  BY <1>3, <1>8 DEF vars
<1> QED BY <1>4, <1>5, <1>6, <1>7, <1>8 DEF Next, Step

(***************************************************************************)
(* A key or salt that GetOrCreate or PutSalt has handed out is what the    *)
(* store holds from then on, through crashes and any other calls, until a  *)
(* call that deletes it begins.                                            *)
(***************************************************************************)
THEOREM SecretsAreKept == Spec => []HandedOutIsKept
<1>1. Init => KeptInv
  BY DEF Init, KeptInv
<1>2. IInv /\ KeptInv => HandedOutIsKept
  BY FileStoreAssumption DEF IInv, TypeOK, KeptInv, HandedOutIsKept, Undeleted
<1> QED BY <1>1, <1>2, NextKept, StoreInvariance, PTL DEF Spec
=============================================================================

----------------------------- MODULE WritePaths -----------------------------
(***************************************************************************)
(* The bridge process: concurrent requests to the write routes and to the  *)
(* verify route, and calls of the erasure hook, over the operational store *)
(* (in memory), the three persistent secret stores (employee keys, salts,  *)
(* document keys), the IPFS cluster and the ledger.                        *)
(*                                                                         *)
(* A step is one call on a store, which holds the store's mutex throughout *)
(* (FileStore shows that such a call is atomic, crashes included), so      *)
(* requests interleave between calls.  The ledger is the chain that        *)
(* ProfileChain specifies and GatewayClient implements: a submission that  *)
(* succeeds has appended one record, one that fails has appended none, one *)
(* whose outcome is unknown may append one later.                          *)
(*                                                                         *)
(* Abstracted: a key, and the pseudonym ComputeEmployeeID derives from it, *)
(* is the number of the random draw that made it; a salt is the write that *)
(* drew it; ComputeDataHash(salt, value) is the pair <<salt, value>>.      *)
(***************************************************************************)
EXTENDS BridgePipeline, Naturals, Sequences

CONSTANTS
    Write,          \* requests to a write route
    Verification,   \* requests to the verify route
    Erasure,        \* calls of Hooks.Erase
    Employee,       \* employeeInternalID
    Identity,       \* recordIdentity as sent
    Section,        \* profile sections in use
    Target,         \* the employee, identity and section of each request
    Content,        \* the value a write carries or a verification claims
    NoValue,        \* currentValue omitted or null
    WithDocument,   \* the writes that carry a document
    Subject,        \* the employee of each erasure
    TrimSpace,      \* the identity without surrounding blanks
    MaxKeys,        \* bound: random keys drawn
    MaxRestarts     \* bound: restarts of the process

Call      == Write \union Verification \union Erasure
Pseudonym == 1..MaxKeys
NoKey     == 0

ASSUME CallAssumption ==
    /\ Write \cap Verification = {} /\ (Write \union Verification) \cap Erasure = {}
    /\ "none" \notin Write
    /\ Target \in [Write \union Verification ->
                     [employee : Employee, identity : Identity, section : Section]]
    /\ \A w \in Write : Content[w] # NoValue
    /\ WithDocument \subseteq Write
    /\ "" \in Identity
    /\ Subject \in [Erasure -> Employee]
    /\ TrimSpace \in [Identity -> Identity]
    /\ MaxKeys \in Nat /\ MaxRestarts \in Nat

VARIABLES
    opVersion,    \* operational store: version counter per employee and section
    opValue,      \* operational store: the section's value
    keys,         \* employee key store, by employee and record identity
    docKeys,      \* document key store, by employee
    salts,        \* salt store: entries [employeeID, section, version, salt]
    documents,    \* ciphertexts on the IPFS cluster: [by, key]
    ledger,       \* per pseudonym and section, the anchored records [by, salt]
    late,         \* writes whose submission may still reach the ledger
    pc,           \* where each call is
    employeeID,   \* each call's pseudonym, once resolved
    version,      \* a write's operational version, a verification's latest
    salt,         \* the salt PutSalt returned to a write
    documentKey,  \* a write's KEY_EMPLOYEE
    todo,         \* the sections an erasure has not deleted yet
    response,     \* what each call answered
    nextKey,      \* the next random draw
    restarts,
    owner,        \* history: whose key each draw became
    shredded,     \* history: pseudonyms whose salts an erasure has deleted
    since         \* history: the draws made when an erasure began

stores  == <<opVersion, opValue, keys, docKeys, salts>>
locals  == <<employeeID, version, salt, documentKey, todo>>
outside == <<documents, ledger, late>>
past    == <<restarts, owner, shredded, since>>
vars    == <<stores, outside, pc, locals, response, nextKey, past>>

Init ==
    /\ opVersion   = [es \in Employee \X Section |-> 0]
    /\ opValue     = [es \in Employee \X Section |-> NoValue]
    /\ keys        = [l \in Employee \X Identity |-> NoKey]
    /\ docKeys     = [e \in Employee |-> NoKey]
    /\ salts       = {}
    /\ documents   = {}
    /\ ledger      = [ps \in Pseudonym \X Section |-> <<>>]
    /\ late        = {}
    /\ pc          = [c \in Call |-> "idle"]
    /\ employeeID  = [c \in Call |-> NoKey]
    /\ version     = [c \in Call |-> 0]
    /\ salt        = [w \in Write |-> "none"]
    /\ documentKey = [w \in Write |-> NoKey]
    /\ todo        = [e \in Erasure |-> Section]
    /\ response    = [c \in Call |-> "none"]
    /\ nextKey     = 1
    /\ restarts    = 0
    /\ owner       = [p \in Pseudonym |-> "nobody"]
    /\ shredded    = {}
    /\ since       = [e \in Erasure |-> 0]

Goto(c, label)    == pc' = [pc EXCEPT ![c] = label] /\ UNCHANGED response
Answer(c, answer) == /\ pc' = [pc EXCEPT ![c] = "done"]
                     /\ response' = [response EXCEPT ![c] = answer]

\* anchor() wraps every error of doAnchor in a PartialFailureError.
AnswerWrite(w, err) ==
    \E expired \in BOOLEAN : Answer(w, respond(classify(dispatch(err, expired)), TRUE))

-----------------------------------------------------------------------------
(***************************************************************************)
(* The secret stores.                                                      *)
(***************************************************************************)

\* Mutant: the record identity is left out.
KeyLookupByEmployee(employee, identity) == <<employee, "">>

\* The lookup identifier of an employee key: the record identity is part of it.
KeyLookup(employee, identity) == <<employee, identity>>

\* Mutant: a key is drawn at every lookup.
AlwaysCreateEmployeeKey(c, lookup, label) ==
    /\ nextKey \in Pseudonym
    /\ keys'  = [keys EXCEPT ![lookup] = nextKey]
    /\ owner' = [owner EXCEPT ![nextKey] = lookup[1]]
    /\ employeeID' = [employeeID EXCEPT ![c] = nextKey]
    /\ nextKey' = nextKey + 1
    /\ Goto(c, label)

\* GetOrCreateEmployeeKey: c continues at label with the pseudonym.
GetOrCreateEmployeeKey(c, lookup, label) ==
    /\ IF keys[lookup] # NoKey
       THEN /\ employeeID' = [employeeID EXCEPT ![c] = keys[lookup]]
            /\ UNCHANGED <<keys, nextKey, owner>>
       ELSE /\ nextKey \in Pseudonym
            /\ keys'  = [keys EXCEPT ![lookup] = nextKey]
            /\ owner' = [owner EXCEPT ![nextKey] = lookup[1]]
            /\ employeeID' = [employeeID EXCEPT ![c] = nextKey]
            /\ nextKey' = nextKey + 1
    /\ Goto(c, label)

GetOrCreateDocumentKey(w, employee) ==
    IF docKeys[employee] # NoKey
    THEN /\ documentKey' = [documentKey EXCEPT ![w] = docKeys[employee]]
         /\ UNCHANGED <<docKeys, nextKey>>
    ELSE /\ nextKey \in Pseudonym
         /\ docKeys' = [docKeys EXCEPT ![employee] = nextKey]
         /\ documentKey' = [documentKey EXCEPT ![w] = nextKey]
         /\ nextKey' = nextKey + 1

SaltsAt(p, section, v) ==
    {s \in salts : s.employeeID = p /\ s.section = section /\ s.version = v}

SaltSlot(w) == SaltsAt(employeeID[w], Target[w].section, version[w])

\* The entry a write adds to the salt store, with a salt drawn for it.
FreshSalt(w) == [employeeID |-> employeeID[w], section |-> Target[w].section,
                 version |-> version[w], salt |-> w]

-----------------------------------------------------------------------------
(***************************************************************************)
(* A write: [auth], [validate], then one of the six hooks.                 *)
(***************************************************************************)
Refuse(c) ==
    /\ c \in Write \union Verification
    /\ pc[c] = "idle"
    /\ \E env \in Envelope : admit(env) # "nil" /\ Answer(c, classify(admit(env)))
    /\ UNCHANGED <<stores, outside, locals, nextKey, past>>

\* Mutants: the counter stands still; the version from before is returned.
SaveSectionUncounted(w) ==
    LET es == <<Target[w].employee, Target[w].section>>
    IN  /\ pc[w] = "idle"
        /\ opValue' = [opValue EXCEPT ![es] = Content[w]]
        /\ version' = [version EXCEPT ![w] = opVersion[es] + 1]
        /\ Goto(w, "key")
        /\ UNCHANGED <<opVersion, keys, docKeys, salts, outside, employeeID, salt,
                       documentKey, todo, nextKey, past>>

SaveSectionOffByOne(w) ==
    LET es == <<Target[w].employee, Target[w].section>>
    IN  /\ pc[w] = "idle"
        /\ opVersion' = [opVersion EXCEPT ![es] = @ + 1]
        /\ opValue'   = [opValue EXCEPT ![es] = Content[w]]
        /\ version'   = [version EXCEPT ![w] = opVersion[es]]
        /\ Goto(w, "key")
        /\ UNCHANGED <<keys, docKeys, salts, outside, employeeID, salt, documentKey,
                       todo, nextKey, past>>

\* Store.SaveSection of the in-memory operational store.
SaveSection(w) ==
    LET es == <<Target[w].employee, Target[w].section>>
    IN  /\ pc[w] = "idle"
        /\ opVersion' = [opVersion EXCEPT ![es] = @ + 1]
        /\ opValue'   = [opValue EXCEPT ![es] = Content[w]]
        /\ version'   = [version EXCEPT ![w] = opVersion[es] + 1]
        /\ Goto(w, "key")
        /\ UNCHANGED <<keys, docKeys, salts, outside, employeeID, salt, documentKey,
                       todo, nextKey, past>>

\* A store that fails ends the hook before anchor().
SaveSectionFails(w) ==
    /\ pc[w] = "idle"
    /\ AnswerWrite(w, "other")
    /\ UNCHANGED <<stores, outside, locals, nextKey, past>>

ResolveEmployeeKey(w) ==
    /\ pc[w] = "key"
    /\ GetOrCreateEmployeeKey(
         w, KeyLookup(Target[w].employee, TrimSpace[Target[w].identity]), "salt")
    /\ UNCHANGED <<opVersion, opValue, docKeys, salts, outside, version, salt, documentKey,
                   todo, restarts, shredded, since>>

\* Mutants: a slot that is taken gets a new salt; its old salt is handed out.
PutSaltRotating(w) ==
    /\ pc[w] = "salt"
    /\ salts' = (salts \ SaltSlot(w)) \union {FreshSalt(w)}
    /\ salt'  = [salt EXCEPT ![w] = FreshSalt(w).salt]
    /\ Goto(w, IF w \in WithDocument THEN "document" ELSE "submit")
    /\ UNCHANGED <<opVersion, opValue, keys, docKeys, outside, employeeID, version,
                   documentKey, todo, nextKey, past>>

PutSaltReusing(w) ==
    /\ pc[w] = "salt"
    /\ \E s \in IF SaltSlot(w) # {} THEN SaltSlot(w) ELSE {FreshSalt(w)} :
         /\ salts' = salts \union {s}
         /\ salt'  = [salt EXCEPT ![w] = s.salt]
    /\ Goto(w, IF w \in WithDocument THEN "document" ELSE "submit")
    /\ UNCHANGED <<opVersion, opValue, keys, docKeys, outside, employeeID, version,
                   documentKey, todo, nextKey, past>>

\* PutSalt refuses a slot that is taken: a salt is never rotated in place.
PutSalt(w) ==
    /\ pc[w] = "salt"
    /\ IF SaltSlot(w) # {}
       THEN /\ AnswerWrite(w, "partial")
            /\ UNCHANGED <<salts, salt>>
       ELSE /\ salts' = salts \union {FreshSalt(w)}
            /\ salt'  = [salt EXCEPT ![w] = FreshSalt(w).salt]
            /\ Goto(w, IF w \in WithDocument THEN "document" ELSE "submit")
    /\ UNCHANGED <<opVersion, opValue, keys, docKeys, outside, employeeID, version,
                   documentKey, todo, nextKey, past>>

FetchDocumentKey(w) ==
    /\ pc[w] = "document"
    /\ GetOrCreateDocumentKey(w, Target[w].employee)
    /\ Goto(w, "pin")
    /\ UNCHANGED <<opVersion, opValue, keys, salts, outside, employeeID, version, salt,
                   todo, past>>

\* EncryptAndAdd: add to the primary node, pin on the replica.
EncryptAndAdd(w) ==
    /\ pc[w] = "pin"
    /\ documents' = documents \union {[by |-> w, key |-> documentKey[w]]}
    /\ Goto(w, "submit")
    /\ UNCHANGED <<stores, ledger, late, locals, nextKey, past>>

\* The replica could not pin: the hook fails, the ciphertext stays.
PinFails(w) ==
    /\ pc[w] = "pin"
    /\ documents' = documents \union {[by |-> w, key |-> documentKey[w]]}
    /\ AnswerWrite(w, "partial")
    /\ UNCHANGED <<stores, ledger, late, locals, nextKey, past>>

\* Whether a ciphertext opens under the document key a store holds.
FetchAndDecrypt(d, key) == d.key = key

\* ComputeDataHash(salt, value), and the digest of a record.
ComputeDataHash(usedSalt, value) == <<usedSalt, value>>
Digest(rec) == ComputeDataHash(rec.salt, Content[rec.by])

\* The contract appends, unless the digest is already at the head.
Anchor(w) ==
    LET chain == ledger[<<employeeID[w], Target[w].section>>]
        rec   == [by |-> w, salt |-> salt[w]]
    IN  ledger' = IF chain # <<>> /\ Digest(chain[Len(chain)]) = Digest(rec) THEN ledger
                  ELSE [ledger EXCEPT ![<<employeeID[w], Target[w].section>>] = Append(@, rec)]

SubmitSucceeds(w) ==
    /\ pc[w] = "submit"
    /\ Anchor(w)
    /\ AnswerWrite(w, "nil")
    /\ UNCHANGED <<stores, documents, late, locals, nextKey, past>>

SubmitUnknown(w) ==
    /\ pc[w] = "submit"
    /\ late' = late \union {w}
    /\ AnswerWrite(w, "partial")
    /\ UNCHANGED <<stores, documents, ledger, locals, nextKey, past>>

\* A key, salt or document key store that cannot load or save its file, an
\* IPFS node that cannot be reached, a submission that fails.
AnchorFails(w) ==
    /\ pc[w] \in {"key", "salt", "document", "pin", "submit"}
    /\ AnswerWrite(w, "partial")
    /\ UNCHANGED <<stores, outside, locals, nextKey, past>>

AnchorLate(w) ==
    /\ w \in late
    /\ late' = late \ {w}
    /\ Anchor(w)
    /\ UNCHANGED <<stores, documents, pc, locals, response, nextKey, past>>

-----------------------------------------------------------------------------
(***************************************************************************)
(* A verification: the pseudonym is resolved as a write resolves it (which *)
(* may create a key), the history is read and the entry with the highest   *)
(* version taken, then the salt is looked up under that version.           *)
(***************************************************************************)
ResolveEmployeeID(v) ==
    /\ pc[v] = "idle"
    /\ GetOrCreateEmployeeKey(
         v, KeyLookup(Target[v].employee, Target[v].identity), "history")
    /\ UNCHANGED <<opVersion, opValue, docKeys, salts, outside, version, salt, documentKey,
                   todo, restarts, shredded, since>>

Chain(v) == ledger[<<employeeID[v], Target[v].section>>]

Latest(v) == Len(Chain(v))

\* Evaluated at a peer that is up to date.
EvaluateGetProfileHistory(v) ==
    /\ pc[v] = "history"
    /\ version' = [version EXCEPT ![v] = Latest(v)]
    /\ CASE Chain(v) = <<>>                            -> Answer(v, "no_anchor_found")
         [] Chain(v) # <<>> /\ Content[v] = NoValue    -> Answer(v, "deletion_verified")
         [] Chain(v) # <<>> /\ Content[v] # NoValue    -> Goto(v, "getsalt")
    /\ UNCHANGED <<stores, outside, employeeID, salt, documentKey, todo, nextKey, past>>

\* Mutant: the salt of the first version is taken.
GetFirstSalt(v) ==
    LET found == SaltsAt(employeeID[v], Target[v].section, 1)
    IN  /\ pc[v] = "getsalt"
        /\ IF found = {} THEN Answer(v, "error")
           ELSE \E s \in found :
                  Answer(v, IF ComputeDataHash(s.salt, Content[v]) = Digest(Chain(v)[version[v]])
                            THEN "verified" ELSE "compromised")
        /\ UNCHANGED <<stores, outside, locals, nextKey, past>>

\* The digest is compared with the entry read before.
GetSalt(v) ==
    LET found == SaltsAt(employeeID[v], Target[v].section, version[v])
    IN  /\ pc[v] = "getsalt"
        /\ IF found = {} THEN Answer(v, "error")
           ELSE \E s \in found :
                  Answer(v, IF ComputeDataHash(s.salt, Content[v]) = Digest(Chain(v)[version[v]])
                            THEN "verified" ELSE "compromised")
        /\ UNCHANGED <<stores, outside, locals, nextKey, past>>

\* A store that cannot be read, a peer that cannot be reached.
VerifyFails(v) ==
    /\ pc[v] \in {"idle", "history", "getsalt"}
    /\ Answer(v, "error")
    /\ UNCHANGED <<stores, outside, locals, nextKey, past>>

-----------------------------------------------------------------------------
(***************************************************************************)
(* Hooks.Erase: delete the values of every section, destroy the document   *)
(* key, delete the salts of the employee's pseudonym (deriving it, which   *)
(* may create a key) and destroy the employee key.                         *)
(***************************************************************************)
BeginErase(e) ==
    /\ pc[e] = "idle"
    /\ since' = [since EXCEPT ![e] = nextKey]
    /\ Goto(e, "sections")
    /\ UNCHANGED <<stores, outside, locals, nextKey, restarts, owner, shredded>>

\* The value goes, the version counter stays.
DeleteSection(e) ==
    /\ pc[e] = "sections"
    /\ \E section \in todo[e] :
         /\ opValue' = [opValue EXCEPT ![<<Subject[e], section>>] = NoValue]
         /\ todo' = [todo EXCEPT ![e] = @ \ {section}]
         /\ Goto(e, IF todo'[e] = {} THEN "documentkey" ELSE "sections")
    /\ UNCHANGED <<opVersion, keys, docKeys, salts, outside, employeeID, version, salt,
                   documentKey, nextKey, past>>

\* Mutant: the employee key is destroyed before the pseudonym is derived.
DeleteBothKeys(e) ==
    /\ pc[e] = "documentkey"
    /\ docKeys' = [docKeys EXCEPT ![Subject[e]] = NoKey]
    /\ keys' = [keys EXCEPT ![KeyLookup(Subject[e], "")] = NoKey]
    /\ Goto(e, "derive")
    /\ UNCHANGED <<opVersion, opValue, salts, outside, locals, nextKey, past>>

DeleteDocumentKey(e) ==
    /\ pc[e] = "documentkey"
    /\ docKeys' = [docKeys EXCEPT ![Subject[e]] = NoKey]
    /\ Goto(e, "derive")
    /\ UNCHANGED <<opVersion, opValue, keys, salts, outside, locals, nextKey, past>>

DeriveEmployeeID(e) ==
    /\ pc[e] = "derive"
    /\ GetOrCreateEmployeeKey(e, KeyLookup(Subject[e], ""), "salts")
    /\ UNCHANGED <<opVersion, opValue, docKeys, salts, outside, version, salt, documentKey,
                   todo, restarts, shredded, since>>

DeleteAllSaltsForEmployee(e) ==
    /\ pc[e] = "salts"
    /\ salts' = {s \in salts : s.employeeID # employeeID[e]}
    /\ shredded' = shredded \union {employeeID[e]}
    /\ Goto(e, "employeekey")
    /\ UNCHANGED <<opVersion, opValue, keys, docKeys, outside, locals, nextKey,
                   restarts, owner, since>>

DeleteEmployeeKey(e) ==
    /\ pc[e] = "employeekey"
    /\ keys' = [keys EXCEPT ![KeyLookup(Subject[e], "")] = NoKey]
    /\ Answer(e, "erased")
    /\ UNCHANGED <<opVersion, opValue, docKeys, salts, outside, locals, nextKey, past>>

EraseFails(e) ==
    /\ pc[e] \in {"sections", "documentkey", "derive", "salts", "employeekey"}
    /\ Answer(e, "error")
    /\ UNCHANGED <<stores, outside, locals, nextKey, past>>

-----------------------------------------------------------------------------
(***************************************************************************)
(* The process ends and starts again: calls in progress never answer, the  *)
(* operational store starts empty, files stay.  A submission the process   *)
(* was waiting for may still reach the ledger.                             *)
(***************************************************************************)
Restart ==
    /\ restarts < MaxRestarts
    /\ restarts'  = restarts + 1
    /\ opVersion' = [es \in Employee \X Section |-> 0]
    /\ opValue'   = [es \in Employee \X Section |-> NoValue]
    /\ pc'        = [c \in Call |-> IF pc[c] = "idle" THEN "idle" ELSE "done"]
    /\ late'      = late \union {w \in Write : pc[w] = "submit"}
    /\ UNCHANGED <<keys, docKeys, salts, documents, ledger, locals, response, nextKey,
                   owner, shredded, since>>

WriteStep(w) ==
    \/ SaveSection(w) \/ ResolveEmployeeKey(w) \/ PutSalt(w)
    \/ FetchDocumentKey(w) \/ EncryptAndAdd(w) \/ SubmitSucceeds(w)

WriteFault(w) ==
    SaveSectionFails(w) \/ PinFails(w) \/ SubmitUnknown(w) \/ AnchorFails(w)

VerifyStep(v) == ResolveEmployeeID(v) \/ EvaluateGetProfileHistory(v) \/ GetSalt(v)

EraseStep(e) ==
    \/ BeginErase(e) \/ DeleteSection(e) \/ DeleteDocumentKey(e) \/ DeriveEmployeeID(e)
    \/ DeleteAllSaltsForEmployee(e) \/ DeleteEmployeeKey(e)

Step(c) ==
    \/ Refuse(c)
    \/ c \in Write /\ WriteStep(c)
    \/ c \in Verification /\ VerifyStep(c)
    \/ c \in Erasure /\ EraseStep(c)

Fault(c) ==
    \/ c \in Write /\ WriteFault(c)
    \/ c \in Verification /\ VerifyFails(c)
    \/ c \in Erasure /\ EraseFails(c)

Next ==
    \/ \E c \in Call : Step(c) \/ Fault(c)
    \/ \E w \in Write : AnchorLate(w)
    \/ Restart

Spec == Init /\ [][Next]_vars

\* The same calls one after the other, with and without faults.
Alone(c) == \A d \in Call \ {c} : pc[d] \in {"idle", "done"}

SerialNext == \E c \in Call : Alone(c) /\ (Step(c) \/ Fault(c))
SerialSpec == Init /\ [][SerialNext]_vars

QuietNext == \E c \in Call : Alone(c) /\ Step(c)
QuietSpec == Init /\ [][QuietNext]_vars

-----------------------------------------------------------------------------
Records(p, section) == {ledger[<<p, section>>][i] : i \in DOMAIN ledger[<<p, section>>]}

AnchoredBy(w) == \E p \in Pseudonym, section \in Section, salted \in Write :
                     [by |-> w, salt |-> salted] \in Records(p, section)

(***************************************************************************)
(* Every digest on the ledger can be opened: the salt it was made with is  *)
(* in the salt store, whatever failed, restarted or answered late, unless  *)
(* an erasure has deleted the salts of that pseudonym.                     *)
(***************************************************************************)
EveryAnchorHasSalt ==
    \A p \in Pseudonym \ shredded, section \in Section :
        \A rec \in Records(p, section) :
            \E s \in salts : s.employeeID = p /\ s.section = section /\ s.salt = rec.salt

(***************************************************************************)
(* No two records on the ledger were digested with the same salt, so equal *)
(* values never show as equal digests (PutSalt never hands out a salt      *)
(* twice, not even after a restart has reset the version counters).        *)
(***************************************************************************)
OneSaltPerRecord ==
    \A p, q \in Pseudonym, s, t \in Section :
        \A i \in DOMAIN ledger[<<p, s>>], j \in DOMAIN ledger[<<q, t>>] :
            ledger[<<p, s>>][i].salt = ledger[<<q, t>>][j].salt => p = q /\ s = t /\ i = j

(***************************************************************************)
(* A verification that answers "verified" is never about data nobody       *)
(* wrote: the entry it compared with was anchored by a write of the same   *)
(* employee, record identity and section, with exactly the claimed value.  *)
(***************************************************************************)
VerifiedMeansWritten ==
    \A v \in Verification : response[v] = "verified" =>
        LET w == Chain(v)[version[v]].by
        IN  /\ Content[w] = Content[v]
            /\ Target[w].employee = Target[v].employee
            /\ Target[w].section = Target[v].section
            /\ TrimSpace[Target[w].identity] = Target[v].identity

(***************************************************************************)
(* "committed" means committed: the write has one record on the ledger,    *)
(* under its own pseudonym, and nothing of it is still on its way.         *)
(***************************************************************************)
CommittedIsAnchored ==
    \A w \in Write : response[w] = "committed" =>
        /\ w \notin late
        /\ employeeID[w] # NoKey
        /\ \E i \in DOMAIN Chain(w) :
             /\ Chain(w)[i].by = w
             /\ \A j \in DOMAIN Chain(w) : Chain(w)[j].by = w => j = i

(***************************************************************************)
(* "error" and "rejected" mean that the domain was never reached: no salt, *)
(* document or record of the write exists, now or later.  Every failure    *)
(* after the save is told apart as "partial_failure".                      *)
(***************************************************************************)
ErrorLeavesNoTrace ==
    \A w \in Write : response[w] \in {"error", "rejected"} =>
        /\ version[w] = 0
        /\ \A s \in salts : s.salt # w
        /\ \A d \in documents : d.by # w
        /\ ~AnchoredBy(w) /\ w \notin late

Erased(employee) == \E p \in shredded : owner[p] = employee

(***************************************************************************)
(* Writes and verifications that name the same record meet under the same  *)
(* pseudonym, however their first key lookups interleave, as long as the   *)
(* employee has not been erased.  The same record means the identity that  *)
(* is left when the write's is trimmed: the verify route trims nothing.    *)
(***************************************************************************)
PseudonymsAgree ==
    \A w \in Write, v \in Verification :
        /\ Target[w].employee = Target[v].employee
        /\ TrimSpace[Target[w].identity] = Target[v].identity
        /\ ~Erased(Target[w].employee)
        /\ employeeID[w] # NoKey /\ employeeID[v] # NoKey
        => employeeID[w] = employeeID[v]

(***************************************************************************)
(* As long as the process lives, a write never finds its salt slot taken:  *)
(* the operational version it was given was not used before under this     *)
(* pseudonym, however writes of the record and of sub-records interleave   *)
(* and fail.  After a restart the counters begin again and it may be.      *)
(***************************************************************************)
SaltSlotIsFree ==
    restarts = 0 => \A w \in Write : pc[w] = "salt" => SaltSlot(w) = {}

(***************************************************************************)
(* When the verify route looks up the salt of the latest anchor by the     *)
(* anchor's ledger version, some salt is stored under that version (unless *)
(* the employee was erased): no anchored record becomes unverifiable.      *)
(***************************************************************************)
AnchoredIsVerifiable ==
    \A v \in Verification : pc[v] = "getsalt" /\ ~Erased(Target[v].employee) =>
        SaltsAt(employeeID[v], Target[v].section, version[v]) # {}

(***************************************************************************)
(* "compromised" is only answered when the claimed value differs from the  *)
(* value of the latest anchor: data nobody touched raises no alarm.        *)
(***************************************************************************)
NoFalseAlarm ==
    \A v \in Verification :
        response[v] = "compromised" /\ ~Erased(Target[v].employee) =>
            Content[Chain(v)[version[v]].by] # Content[v]

(***************************************************************************)
(* A finished erasure leaves nothing to recompute a digest with: for every *)
(* pseudonym the employee had when it began, no salt and no key is left,   *)
(* and no document pinned before can be decrypted.                         *)
(***************************************************************************)
ErasureIsComplete ==
    \A e \in Erasure : response[e] = "erased" =>
        /\ \A p \in 1..(since[e] - 1) : owner[p] = Subject[e] =>
             /\ \A s \in salts : s.employeeID # p
             /\ \A l \in Employee \X Identity : keys[l] # p
        /\ \A d \in documents :
             d.key < since[e] => ~FetchAndDecrypt(d, docKeys[Subject[e]])
=============================================================================

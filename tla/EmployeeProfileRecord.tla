----------------------- MODULE EmployeeProfileRecord -----------------------
(***************************************************************************)
(* The EmployeeProfileRecord chaincode: its authorization gate, its one    *)
(* submit function and the head query, as operators on the world state of  *)
(* one key.  A transaction function is executed against a head (the record *)
(* readHead finds, or NoRecord) and yields an outcome that says whether it *)
(* was rejected, and, if not, what it writes and what it returns; who      *)
(* applies the write, and when, is the business of the modules that use    *)
(* these operators.                                                        *)
(*                                                                         *)
(* Abstracted: digests are members of Hash; the pseudonym of the updating  *)
(* user, the CIDs, the two scheme tags and the timestamp travel with a     *)
(* record and are never read again by RecordProfileSection, so a record    *)
(* keeps only the fields the contract compares or returns as identity.     *)
(***************************************************************************)
EXTENDS Naturals, Sequences

CONSTANTS
    Hash,      \* the possible DataHash values
    NoHash,    \* the empty string, "no previous hash"
    TxId,      \* transaction identifiers
    NoRecord   \* what readHead returns when the key has never been written

ASSUME HashAssumption == NoHash \notin Hash

(***************************************************************************)
(* The five ratified sections, and one name that is not a section.         *)
(***************************************************************************)
ProfileSection == {"PERSONAL", "EMPLOYMENT", "EDUCATION", "ADDITIONAL", "PAYROLL"}
AnySection     == ProfileSection \union {"unknown-section"}

IsValidProfileSection(section) == section \in ProfileSection

(***************************************************************************)
(* Caller identities by what the MSP check tells apart.  OrgClientMSP      *)
(* stands for every OrgClient-<tenant>MSP, OtherMSP for any MSP of another *)
(* shape (the tenant-less "OrgClient-MSP" included), NoMSP for a creator   *)
(* whose MSP ID or certificate cannot be read.                             *)
(***************************************************************************)
Msp == {"Org1MSP", "Org3MSP", "OrgClientMSP", "OtherMSP", "NoMSP"}

isOrgClientMSP(msp) == msp = "OrgClientMSP"

authorizeEvaluate(msp) == msp \in {"Org1MSP", "Org3MSP"} \/ isOrgClientMSP(msp)

authorizeSubmit(msp) == msp = "Org1MSP" \/ isOrgClientMSP(msp)

(***************************************************************************)
(* The record stored under a key.  recordID is a pure function of the      *)
(* transaction identifier and is represented by it.                        *)
(***************************************************************************)
deterministicRecordID(txID) == txID

Record == [dataHash : Hash,
           prevHash : Hash \union {NoHash},
           version  : Nat \ {0},
           recordID : TxId]

(***************************************************************************)
(* The arguments of RecordProfileSection are a record [section, dataHash,  *)
(* prevHash, filled]; filled says that the five required strings other     *)
(* than dataHash are all non-empty.                                        *)
(***************************************************************************)
requiredStringArgs(args) == args.filled /\ args.dataHash # NoHash

(***************************************************************************)
(* Outcomes of a contract call.  A rejected call, and a call that finds    *)
(* its dataHash already at the head, write nothing.                        *)
(***************************************************************************)
Rejected(code) == [code |-> code, writes |-> FALSE, rec |-> NoRecord]
NoOp(head)     == [code |-> "OK", writes |-> FALSE, rec |-> head]
Written(rec)   == [code |-> "OK", writes |-> TRUE,  rec |-> rec]

(***************************************************************************)
(* The chain rule: prevHash names the head's dataHash, and is empty        *)
(* exactly when there is no head.                                          *)
(***************************************************************************)
Chains(head, prevHash) ==
    IF head = NoRecord THEN prevHash = NoHash ELSE prevHash = head.dataHash

NextVersion(head) == IF head = NoRecord THEN 1 ELSE head.version + 1

NextRecord(head, args, txID) ==
    [dataHash |-> args.dataHash,
     prevHash |-> args.prevHash,
     version  |-> NextVersion(head),
     recordID |-> deterministicRecordID(txID)]

\* Mutant: content that is already at the head is written again.
RecordProfileSectionAlwaysWriting(head, msp, args, txID) ==
    IF ~IsValidProfileSection(args.section) THEN Rejected("INVALID_ARGUMENT")
    ELSE IF ~authorizeSubmit(msp) THEN Rejected("UNAUTHORIZED")
    ELSE IF ~requiredStringArgs(args) THEN Rejected("INVALID_ARGUMENT")
    ELSE IF ~Chains(head, args.prevHash) THEN Rejected("STALE_CHAIN_REFERENCE")
    ELSE Written(NextRecord(head, args, txID))

(***************************************************************************)
(* RecordProfileSection, with its checks in the order of the code: section *)
(* enum, caller, required arguments, identical content, chain reference.   *)
(***************************************************************************)
RecordProfileSection(head, msp, args, txID) ==
    IF ~IsValidProfileSection(args.section) THEN Rejected("INVALID_ARGUMENT")
    ELSE IF ~authorizeSubmit(msp) THEN Rejected("UNAUTHORIZED")
    ELSE IF ~requiredStringArgs(args) THEN Rejected("INVALID_ARGUMENT")
    ELSE IF head # NoRecord /\ head.dataHash = args.dataHash THEN NoOp(head)
    ELSE IF ~Chains(head, args.prevHash) THEN Rejected("STALE_CHAIN_REFERENCE")
    ELSE Written(NextRecord(head, args, txID))

(***************************************************************************)
(* readHead and the head query.  versions is the committed history of the  *)
(* key, oldest first: its last element is the world state.                 *)
(***************************************************************************)
readHead(versions) ==
    IF versions = <<>> THEN NoRecord ELSE versions[Len(versions)]

GetProfileSectionRecord(versions, msp, section) ==
    IF ~authorizeEvaluate(msp) THEN Rejected("UNAUTHORIZED")
    ELSE IF ~IsValidProfileSection(section) THEN Rejected("INVALID_ARGUMENT")
    ELSE IF readHead(versions) = NoRecord THEN Rejected("NOT_FOUND")
    ELSE NoOp(readHead(versions))

=============================================================================

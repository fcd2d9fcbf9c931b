------------------------------ MODULE PilScan -------------------------------
(***************************************************************************)
(* pilscan: every block of every channel fetched from the first orderer,   *)
(* searched as bytes for the fixture dictionary, and taken apart for       *)
(* structural checks, while the channels go on growing.                    *)
(***************************************************************************)
EXTENDS FabricNetwork

CONSTANTS
    Channels,   \* the channels scanned, in order
    Facts       \* of each transaction: what the scan can tell about it

\* What the facts are: the envelope decodes; it is an endorser transaction;
\* its proposal response decodes; it is a RecordProfileSection; its arguments,
\* its written value and event have the required shape; its bytes hold a
\* string of the dictionary.
FactNames == {"decodes", "endorser", "responds", "record", "argsShaped",
              "valueShaped", "fixture"}

ASSUME FactsAssumption ==
    /\ Channels \in Seq(Channel) /\ Channels # <<>>
    /\ \A tx \in DOMAIN Facts : Facts[tx] \subseteq FactNames

Is(tx, fact) == fact \in Facts[tx]

StartScan ==
    Start("scan", "newest", [height |-> 0, n |-> 0, findings |-> {}, pass |-> TRUE],
          [c \in Channel |-> Len(ledger[c])])

containsFixture(tx) == Is(tx, "fixture")

\* The undecoded bytes of the whole block.
scanRawBackstop(block) == {<<"raw", tx>> : tx \in {x \in block : containsFixture(x)}}

checkRecordJSON(tx, location) ==
    IF Is(tx, "record") /\ ~Is(tx, "valueShaped") THEN {<<location, tx>>} ELSE {}

checkArgs(tx) ==
    IF containsFixture(tx) \/ (Is(tx, "record") /\ ~Is(tx, "argsShaped"))
    THEN {<<"args", tx>>} ELSE {}

\* World-state writes and events, read from the proposal response.
checkResponse(tx) ==
    IF ~Is(tx, "responds") THEN {}
    ELSE (IF containsFixture(tx) THEN {<<"write", tx>>, <<"event", tx>>} ELSE {})
           \union checkRecordJSON(tx, "write") \union checkRecordJSON(tx, "event")

parseBlock(block) ==
    scanRawBackstop(block)
      \union UNION {checkArgs(tx) \union checkResponse(tx) :
                      tx \in {x \in block : Is(x, "decodes") /\ Is(x, "endorser")}}

\* The channel is done with: on to the next one, or to the verdict.
EndChannel(pass) ==
    /\ local' = [height |-> 0, n |-> 0, findings |-> {}, pass |-> pass]
    /\ pc' = IF i < Len(Channels) THEN "newest" ELSE "verdict"
    /\ i' = IF i < Len(Channels) THEN i + 1 ELSE 1
    /\ UNCHANGED <<network, tool, runs, outcome, began>>

\* A fetch fails, or a block does not unmarshal.
ScanError == tool = "scan" /\ pc \in {"newest", "blocks"} /\ EndChannel(FALSE)

NewestBlock ==
    /\ At("scan", "newest") /\ Reachable(Channels[i])
    /\ local' = [local EXCEPT !.height = Len(ledger[Channels[i]]) - 1]
    /\ pc' = "blocks"
    /\ UNCHANGED <<network, tool, i, runs, outcome, began>>

\* Mutant: the newest block is left out.
MoreBlocksExclusive == local.n < local.height

MoreBlocks == local.n <= local.height

ScanBlock ==
    /\ At("scan", "blocks") /\ MoreBlocks
    /\ local' = [local EXCEPT !.n = @ + 1,
                   !.findings = @ \union parseBlock(ledger[Channels[i]][local.n + 1])]
    /\ UNCHANGED <<network, control>>

ScannedChannel ==
    /\ At("scan", "blocks") /\ ~MoreBlocks
    /\ EndChannel(local.pass /\ local.findings = {})

ScanVerdict ==
    /\ At("scan", "verdict")
    /\ Finish(IF local.pass THEN "success" ELSE "fatal")
    /\ UNCHANGED network

ScanNext ==
    StartScan \/ ScanError \/ NewestBlock \/ ScanBlock \/ ScannedChannel \/ ScanVerdict
=============================================================================

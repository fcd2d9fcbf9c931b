------------------------------- MODULE Tailer -------------------------------
(***************************************************************************)
(* The dashboard's two file watchers: rawLatencies tails the benchmark's   *)
(* latency records, callerLog its console log.  Both ask for the size,     *)
(* then read from the offset they remember up to the last line end, while  *)
(* the benchmark appends byte by byte, truncates or removes the file.      *)
(*                                                                         *)
(* What the benchmark ever writes is the fixed text of bytes Text; the     *)
(* file is the part of it after base.  Positions are positions in Text.    *)
(***************************************************************************)
EXTENDS Integers, Sequences, FiniteSetsExt, Functions

CONSTANTS
    Watcher,   \* "latencies", "log"
    Text       \* of each watcher: the bytes to come, by their class

\* A character is one byte, or a leading byte and its continuations.  JavaScript
\* counts a character of four bytes twice: "unit" is the last byte of one.
ByteClass == {"char", "lead", "cont", "unit", "newline"}

ASSUME TextAssumption == Text \in [Watcher -> Seq(ByteClass)]

VARIABLES
    watcher,   \* the watcher of this behaviour
    exists,    \* the file is there
    base, end, \* it holds the bytes base+1..end
    pc,        \* "off", "idle", "read"
    offset,    \* the bytes of the file already consumed
    from, size,\* the range of the read in progress
    shown,     \* broadcast: <<first, last>> of each piece of text
    isLive,
    start,     \* history: the end of the text when the watcher was started
    replaced   \* history: the file was truncated or removed since

vars == <<watcher, exists, base, end, pc, offset, from, size, shown, isLive, start, replaced>>

Bytes == Text[watcher]

Init ==
    /\ watcher \in Watcher
    /\ exists = FALSE /\ base = 0 /\ end = 0
    /\ pc = "off" /\ offset = 0 /\ from = 0 /\ size = 0
    /\ shown = <<>> /\ isLive = FALSE
    /\ start = 0 /\ replaced = FALSE

-----------------------------------------------------------------------------
(* The benchmark. *)

\* Another byte; the file is created by its first one.
Write ==
    /\ end < Len(Bytes)
    /\ end' = end + 1
    /\ exists' = TRUE
    /\ UNCHANGED <<watcher, base, pc, offset, from, size, shown, isLive, start, replaced>>

\* The next run begins with a line of its own.
NextLine == Min({k \in end..Len(Bytes) : k \in {0, Len(Bytes)} \/ Bytes[k] = "newline"})

\* A new run truncates the file, or the operator removes it.
Replace ==
    /\ exists /\ end > base
    /\ exists' \in BOOLEAN
    /\ base' = NextLine /\ end' = NextLine
    /\ replaced' = (pc # "off")
    /\ UNCHANGED <<watcher, pc, offset, from, size, shown, isLive, start>>

-----------------------------------------------------------------------------
(* The watcher. *)

\* baselineExistingFiles; the log's watcher does the same.
Baseline == IF exists THEN end - base ELSE 0

StartWatcher ==
    /\ pc = "off" /\ pc' = "idle"
    /\ offset' = Baseline
    /\ start' = end
    /\ UNCHANGED <<watcher, exists, base, end, from, size, shown, isLive, replaced>>

\* Mutant: a file that has become shorter is not noticed.
EffectiveOffsetKept == offset

\* A file shorter than the offset was replaced.
EffectiveOffset == IF end - base < offset THEN 0 ELSE offset

\* tick, up to statSync: nothing to do, or bytes to read.
Stat ==
    /\ pc = "idle" /\ exists
    /\ IF end - base <= EffectiveOffset
       THEN offset' = EffectiveOffset /\ UNCHANGED <<pc, from, size>>
       ELSE /\ pc' = "read" /\ from' = EffectiveOffset /\ size' = end - base
            /\ offset' = IF watcher = "log" THEN EffectiveOffset ELSE offset
    /\ UNCHANGED <<watcher, exists, base, end, shown, isLive, start, replaced>>

\* tick without a file: the log's watcher forgets its offset.
Absent ==
    /\ pc = "idle" /\ ~exists
    /\ offset' = IF watcher = "log" THEN 0 ELSE offset
    /\ UNCHANGED <<watcher, exists, base, end, pc, from, size, shown, isLive, start, replaced>>

\* The length of the decoded bytes a..b: a continuation counts only where the
\* read begins in the middle of its character.
Decoded(a, b) ==
    Cardinality({k \in a..b : Bytes[k] # "cont" \/ \A j \in a..k : Bytes[j] = "cont"})

\* The text between the line ends of the bytes a..b, without empty lines and
\* what follows the last line end: the <<first, last>> of each line.
Split(a, b) ==
    {p \in (a..b) \X (a..b) :
       /\ p[1] <= p[2] /\ p[2] < b
       /\ p[1] = a \/ Bytes[p[1] - 1] = "newline"
       /\ \A k \in p[1]..p[2] : Bytes[k] # "newline"
       /\ Bytes[p[2] + 1] = "newline"}

\* Pieces of the text in the order of the text.
InOrder(pieces) ==
    [i \in 1..Cardinality(pieces) |->
       CHOOSE p \in pieces : Cardinality({q \in pieces : q[1] < p[1]}) = i - 1]

Whole(p) == (p[1] = 1 \/ Bytes[p[1] - 1] = "newline") /\ Bytes[p[2] + 1] = "newline"

\* A latency record is a line that parses, the log shows every line.
Broadcast(pieces) == IF watcher = "log" THEN pieces ELSE {p \in pieces : Whole(p)}

\* Mutant: the offset goes to the end of what was read.
ConsumedAll(a, last) == size

\* The offset moves by the length of the decoded text.
Consumed(a, last) == from + Decoded(a, last)

\* readSync of what the file holds by now, and the rest of the tick.
Read ==
    /\ pc = "read" /\ exists
    /\ LET a        == base + from + 1
           b        == Min({base + size, end})
           newlines == {k \in a..b : Bytes[k] = "newline"}
           lines    == Broadcast(Split(a, b))
       IN  IF newlines = {}
           THEN offset' = from /\ UNCHANGED <<shown, isLive>>
           ELSE /\ offset' = Consumed(a, Max(newlines))
                /\ shown' = shown \o InOrder(lines)
                /\ isLive' = (isLive \/ (watcher = "latencies" /\ lines # {}))
    /\ pc' = "idle"
    /\ UNCHANGED <<watcher, exists, base, end, from, size, start, replaced>>

\* The file is gone between the two calls.
ReadFails ==
    /\ pc = "read" /\ ~exists
    /\ pc' = "idle"
    /\ UNCHANGED <<watcher, exists, base, end, offset, from, size, shown, isLive, start, replaced>>

Next == Write \/ Replace \/ StartWatcher \/ Stat \/ Absent \/ Read \/ ReadFails

\* setInterval calls tick for ever; the benchmark owes nothing.
Fairness == WF_vars(StartWatcher) /\ WF_vars(Stat) /\ WF_vars(Absent) /\ WF_vars(Read)
              /\ WF_vars(ReadFails)

Spec == Init /\ [][Next]_vars /\ Fairness

-----------------------------------------------------------------------------
OneByteOnly(a, b) == \A k \in a..b : Bytes[k] \in {"char", "newline"}

(***************************************************************************)
(* What was on disk when the watcher was started is never shown, and only  *)
(* a line written since makes the dashboard live.  As long as the file is  *)
(* not replaced, every line the offset has passed was shown, and with      *)
(* one-byte characters exactly those lines, in order, each once and whole  *)
(* however the writes and the two calls of a tick interleave (a line cut   *)
(* by the start is shown without its beginning in the log and not at all   *)
(* as a record).  readNewLines of both watchers, baselineExistingFiles.    *)
(***************************************************************************)
ShownOnceAndWhole ==
    /\ \A k \in DOMAIN shown : shown[k][1] > start /\ shown[k][2] < end
    /\ isLive => \E k \in DOMAIN shown : Whole(shown[k])
    /\ pc # "off" /\ ~replaced =>
         LET due == Broadcast(Split(start + 1, base + offset))
         IN  /\ due \subseteq Range(shown)
             /\ OneByteOnly(start + 1, base + offset) => shown = InOrder(due)

(***************************************************************************)
(* The watcher catches up: once the benchmark is silent its offset lies    *)
(* inside the file and no complete line after it stays unread, although    *)
(* the file may have been truncated, removed and written again at any      *)
(* moment of a tick.  tick and readNewLines of both watchers.              *)
(***************************************************************************)
CatchesUp ==
    <>[](exists => /\ base + offset <= end
                   /\ \A k \in (base + offset + 1)..end : Bytes[k] # "newline")
=============================================================================

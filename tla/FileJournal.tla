------------------------------ MODULE FileJournal ------------------------------
(***************************************************************************)
(* The append-only journal file of engine/persistence/journal.ts, as       *)
(* operators on the value of the file.  A file is                          *)
(*                                                                         *)
(*   lines   the complete (newline-terminated) lines, oldest first         *)
(*   torn    whether bytes without a newline follow them                   *)
(*   uncut   whether such bytes were cut off and the cut is not durable    *)
(*   synced  how many of the lines an fsync has made durable               *)
(*                                                                         *)
(* A line is a header, one of the three journal records, or Glued: bytes   *)
(* that end in a newline and are no JSON document.  Which bytes a line is  *)
(* made of is abstracted; what read() makes of them is kept.  The file     *)
(* system is external: what a write, an fsync or a power cut leaves behind *)
(* is a choice.                                                            *)
(***************************************************************************)
EXTENDS Naturals, Sequences, SequencesExt

CONSTANTS
    Identity,       \* (register, profile, chain, contract) tuples a store may be bound to
    NoIdentity      \* the file carries no header

ASSUME NoIdentityAssumption == NoIdentity \notin Identity

EmptyFile == [lines |-> <<>>, torn |-> FALSE, uncut |-> FALSE, synced |-> 0]

HeaderLine(id) == [kind |-> "header", identity |-> id]

Glued == [kind |-> "glued"]

-----------------------------------------------------------------------------
(* FileJournal.read: pure.  The torn tail is dropped; JSON.parse throws on  *)
(* a glued line; the last header wins.                                      *)

Parses(f) == \A i \in DOMAIN f.lines : f.lines[i].kind # "glued"

Records(f) == SelectSeq(f.lines, LAMBDA l : l.kind # "header")

StoredIdentity(f) ==
    LET headers == {i \in DOMAIN f.lines : f.lines[i].kind = "header"}
    IN  IF headers = {} THEN NoIdentity
        ELSE f.lines[CHOOSE i \in headers : \A j \in headers : j <= i].identity

-----------------------------------------------------------------------------
(* FileJournal.#write.                                                       *)

\* Seeded fault: the fragment of a dead process is left where it is.
OpenWithoutCut(f, opened) == f

\* #open: a fragment is cut off, durably, unless this object already holds the
\* file open.
Opened(f, opened) ==
    IF ~opened /\ f.torn
    THEN [lines |-> f.lines, torn |-> FALSE, uncut |-> FALSE, synced |-> Len(f.lines)]
    ELSE f

\* #truncateTo between its two calls: the fragment is cut off, the fsync has not
\* returned.
HalfOpened(f, opened) ==
    IF ~opened /\ f.torn
    THEN [lines |-> f.lines, torn |-> FALSE, uncut |-> TRUE, synced |-> f.synced]
    ELSE f

\* The whole line has reached the file, after whatever fragment was there.
Written(f, line) ==
    [lines |-> Append(f.lines, IF f.torn THEN Glued ELSE line),
     torn |-> FALSE, uncut |-> FALSE, synced |-> f.synced]

Synced(f) == [lines |-> f.lines, torn |-> f.torn, uncut |-> FALSE, synced |-> Len(f.lines)]

\* Seeded fault: the append returns without waiting for the disk.
DurablyWrittenUnsynced(f, opened, line) == Written(Opened(f, opened), line)

\* The file after a #write that returned.
DurablyWritten(f, opened, line) == Synced(Written(Opened(f, opened), line))

\* What the file may be when #write stopped somewhere inside, by an exception
\* or because the process died: before the file was opened, between the cut and
\* its fsync, after both, after some of the bytes, after all of them and before
\* the fsync.
CutShort(f, opened, line) ==
    LET g == Opened(f, opened)
        part == [lines |-> g.lines, torn |-> TRUE, uncut |-> FALSE, synced |-> g.synced]
    IN  {f, HalfOpened(f, opened), g, part, Written(g, line)}

\* Whether the object holds the file open after a #write that threw and left g.
\* A cut whose fsync threw was not followed by the open.
OpenAfterFailure(f, opened, g) ==
    (IF f.torn /\ g.uncut THEN {} ELSE {TRUE})
    \cup IF g \in {f, HalfOpened(f, opened), Opened(f, opened)} THEN {opened} ELSE {}

-----------------------------------------------------------------------------
(* Power is cut: the durable lines stay, of the rest any prefix may remain;  *)
(* a fragment whose cut was not durable may be back.                         *)

AfterPowerCut(f) ==
    {[lines |-> SubSeq(f.lines, 1, n), torn |-> FALSE, uncut |-> FALSE, synced |-> n] :
        n \in f.synced .. Len(f.lines)}
    \cup
    {[lines |-> SubSeq(f.lines, 1, n), torn |-> TRUE, uncut |-> FALSE, synced |-> n] :
        n \in {m \in f.synced .. Len(f.lines) : m < Len(f.lines) \/ f.torn \/ f.uncut}}
=============================================================================

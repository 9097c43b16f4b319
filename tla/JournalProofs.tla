----------------------------- MODULE JournalProofs -----------------------------
(***************************************************************************)
(* The register over its journal, for every value of the constants, every  *)
(* mix and number of append failures, crashes and power cuts: what was     *)
(* acknowledged is durable, the journal can always be replayed, memory is  *)
(* what it replays to, and readers are shown an append-only register.      *)
(*                                                                         *)
(* Where an append can fail this needs the two conditions of Disciplined,  *)
(* below, and neither can be dropped: the states that runs journal_reused  *)
(* and ethereum_rollback reach both lead to a record acknowledged on a     *)
(* line that does not parse.                                               *)
(*                                                                         *)
(* Three invariants, each resting on the ones before it: StoreInv (memory  *)
(* alone, ProjectionStoreProofs), DurableOK (what is on disk) and ReplayOK *)
(* (what the lines on disk replay to).                                     *)
(***************************************************************************)
EXTENDS ProjectionStoreProofs

(* What a write, a failed write and a power cut keep of a file.              *)

\* g still has, durably, every line that f had durably.
Keeps(f, g) ==
    /\ f.synced <= g.synced
    /\ g.synced <= Len(g.lines)
    /\ \A i \in 1 .. f.synced : g.lines[i] = f.lines[i]

WellSynced(f) == f \in FileType /\ f.synced <= Len(f.lines)

LEMMA OpenedKeeps ==
    ASSUME NEW f, WellSynced(f), NEW b \in BOOLEAN
    PROVE  Keeps(f, Opened(f, b)) /\ WellSynced(Opened(f, b)) /\ Opened(f, b).lines = f.lines
BY DEF WellSynced, FileType, Opened, Keeps

LEMMA HalfOpenedKeeps ==
    ASSUME NEW f, WellSynced(f), NEW b \in BOOLEAN
    PROVE  /\ Keeps(f, HalfOpened(f, b)) /\ WellSynced(HalfOpened(f, b))
           /\ HalfOpened(f, b).lines = f.lines
BY DEF WellSynced, FileType, HalfOpened, Keeps

LEMMA WrittenKeeps ==
    ASSUME NEW f, WellSynced(f), NEW line \in Line
    PROVE  Keeps(f, Written(f, line)) /\ WellSynced(Written(f, line))
<1>1. Written(f, line) \in FileType
  BY WrittenType DEF WellSynced
<1>2. PICK x \in Line : Written(f, line) = [lines |-> Append(f.lines, x), torn |-> FALSE,
                                            uncut |-> FALSE, synced |-> f.synced]
  <2>1. Glued \in Line
    BY DEF Line
  <2> QED
    BY <2>1 DEF Written
<1>3. f.lines \in Seq(Line) /\ f.synced \in Nat /\ f.synced <= Len(f.lines)
  BY DEF WellSynced, FileType
<1>4. /\ Len(Append(f.lines, x)) = Len(f.lines) + 1
      /\ \A i \in 1 .. f.synced : Append(f.lines, x)[i] = f.lines[i]
  BY <1>3
<1> QED
  BY <1>1, <1>2, <1>3, <1>4 DEF Keeps, WellSynced

LEMMA KeepsTransitive ==
    ASSUME NEW f, NEW g, NEW h, WellSynced(f), WellSynced(g), WellSynced(h),
           Keeps(f, g), Keeps(g, h)
    PROVE  Keeps(f, h)
BY DEF WellSynced, FileType, Keeps

LEMMA DurablyWrittenKeeps ==
    ASSUME NEW f, WellSynced(f), NEW b \in BOOLEAN, NEW line \in Line
    PROVE  /\ Keeps(f, DurablyWritten(f, b, line))
           /\ WellSynced(DurablyWritten(f, b, line))
           /\ (b => ~f.torn) =>
                \E i \in 1 .. DurablyWritten(f, b, line).synced :
                    DurablyWritten(f, b, line).lines[i] = line
           /\ ~DurablyWritten(f, b, line).torn
<1> DEFINE o == Opened(f, b)
           w == Written(o, line)
           d == DurablyWritten(f, b, line)
<1>1. Keeps(f, o) /\ WellSynced(o) /\ o.lines = f.lines
  BY OpenedKeeps
<1> HIDE DEF o
<1>2. Keeps(o, w) /\ WellSynced(w)
  BY <1>1, WrittenKeeps
<1>3. w.torn = FALSE /\ w.lines = Append(o.lines, IF o.torn THEN Glued ELSE line)
  BY DEF Written
<1> HIDE DEF w
<1>4. d = [lines |-> w.lines, torn |-> w.torn, uncut |-> FALSE, synced |-> Len(w.lines)]
  BY DEF DurablyWritten, Synced, o, w
<1> HIDE DEF d
<1>5. Keeps(w, d) /\ WellSynced(d)
  BY <1>2, <1>4 DEF Keeps, WellSynced, FileType
<1>6. Keeps(f, w)
  BY <1>1, <1>2, KeepsTransitive
<1>7. Keeps(f, d)
  BY <1>2, <1>5, <1>6, KeepsTransitive
<1>8. ASSUME b => ~f.torn
      PROVE  \E i \in 1 .. d.synced : d.lines[i] = line
  <2>1. o.torn = FALSE
    BY <1>8 DEF o, Opened, WellSynced, FileType
  <2>2. w.lines = Append(f.lines, line) /\ f.lines \in Seq(Line)
    BY <1>1, <1>3, <2>1 DEF WellSynced, FileType
  <2>3. d.synced = Len(f.lines) + 1 /\ d.lines[Len(f.lines) + 1] = line
    BY <1>4, <2>2
  <2>4. Len(f.lines) + 1 \in 1 .. d.synced
    BY <2>2, <2>3
  <2> QED
    BY <2>3, <2>4
<1> QED
  BY <1>3, <1>4, <1>5, <1>7, <1>8 DEF d

LEMMA CutShortKeeps ==
    ASSUME NEW f, WellSynced(f), NEW b \in BOOLEAN, NEW line \in Line, NEW g \in CutShort(f, b, line)
    PROVE  Keeps(f, g) /\ WellSynced(g)
<1> DEFINE o == Opened(f, b)
           part == [lines |-> o.lines, torn |-> TRUE, uncut |-> FALSE, synced |-> o.synced]
<1>1. Keeps(f, o) /\ WellSynced(o)
  BY OpenedKeeps
<1>2. Keeps(f, f)
  BY DEF Keeps, WellSynced, FileType
<1> HIDE DEF o
<1>3. Keeps(f, part) /\ WellSynced(part)
  BY <1>1 DEF Keeps, WellSynced, FileType
<1>4. Keeps(o, Written(o, line)) /\ WellSynced(Written(o, line))
  BY <1>1, WrittenKeeps
<1>5. Keeps(f, Written(o, line))
  BY <1>1, <1>4, KeepsTransitive
<1>6. g \in {f, HalfOpened(f, b), o, part, Written(o, line)}
  BY DEF CutShort, o
<1> HIDE DEF part
<1> QED
  BY <1>1, <1>2, <1>3, <1>4, <1>5, <1>6, HalfOpenedKeeps

LEMMA AfterPowerCutKeeps ==
    ASSUME NEW f, WellSynced(f), NEW g \in AfterPowerCut(f)
    PROVE  Keeps(f, g) /\ WellSynced(g)
<1>1. f.synced \in Nat /\ f.lines \in Seq(Line) /\ f.synced <= Len(f.lines)
  BY DEF WellSynced, FileType
<1>2. PICK n \in f.synced .. Len(f.lines), b \in BOOLEAN :
        g = [lines |-> SubSeq(f.lines, 1, n), torn |-> b, uncut |-> FALSE, synced |-> n]
  BY DEF AfterPowerCut
<1>3. /\ n \in Nat /\ n <= Len(f.lines)
      /\ SubSeq(f.lines, 1, n) \in Seq(Line)
      /\ Len(SubSeq(f.lines, 1, n)) = n
      /\ \A i \in 1 .. n : SubSeq(f.lines, 1, n)[i] = f.lines[i]
  BY <1>1
<1>4. g \in FileType
  BY AfterPowerCutType DEF WellSynced
<1> QED
  BY <1>1, <1>2, <1>3, <1>4 DEF Keeps, WellSynced

-----------------------------------------------------------------------------
(* The inductive invariant.  AckedDurable alone is not inductive: an append *)
(* to an open file that ends in a fragment acknowledges a glued line.  A    *)
(* store that may write has no fragment behind its descriptor, because a    *)
(* failed append has poisoned it and a new store opens the file anew.       *)

DurableOK ==
    /\ WellSynced(file)
    /\ AckedDurable
    /\ ~poisoned /\ opened => ~file.torn
    /\ mode = "down" => ~opened
    /\ poisoned => mode = "up" /\ "append" \in Fault

\* The two conditions on the use of a store, which matter only where an append
\* can fail.
Disciplined == "append" \in Fault => ~ReusesJournal /\ Adapter = "memory"

LEMMA AckedStaysDurable ==
    ASSUME AckedDurable, WellSynced(file), WellSynced(file'), Keeps(file, file'),
           UNCHANGED acked
    PROVE  AckedDurable'
<1>1. /\ file.synced \in Nat /\ file'.synced \in Nat /\ file.synced <= file'.synced
      /\ \A i \in 1 .. file.synced : file'.lines[i] = file.lines[i]
  BY DEF WellSynced, FileType, Keeps
<1> SUFFICES ASSUME NEW a \in acked
             PROVE  \E i \in 1 .. file'.synced : file'.lines[i] = a.record
  BY DEF AckedDurable
<1>2. PICK i \in 1 .. file.synced : file.lines[i] = a.record
  BY DEF AckedDurable
<1>3. i \in 1 .. file'.synced
  BY <1>1, <1>2
<1> QED
  BY <1>1, <1>2, <1>3

LEMMA DiesWritingKeeps ==
    ASSUME WellSynced(file), opened \in BOOLEAN, NEW line \in Line, DiesWriting(line)
    PROVE  Keeps(file, file') /\ WellSynced(file')
<1>1. CASE file' \in CutShort(file, opened, line)
  BY <1>1, CutShortKeeps
<1>2. CASE \E g \in CutShort(file, opened, line) : file' \in AfterPowerCut(g)
  <2>1. PICK g \in CutShort(file, opened, line) : file' \in AfterPowerCut(g)
    BY <1>2
  <2>2. Keeps(file, g) /\ WellSynced(g)
    BY CutShortKeeps
  <2>3. Keeps(g, file') /\ WellSynced(file')
    BY <2>1, <2>2, AfterPowerCutKeeps
  <2> QED
    BY <2>2, <2>3, KeepsTransitive
<1> QED
  BY <1>1, <1>2 DEF DiesWriting

LEMMA DiesWritingDurable ==
    ASSUME StoreOK, DurableOK, NEW line \in Line, DiesWriting(line)
    PROVE  DurableOK'
<1>1. WellSynced(file) /\ opened \in BOOLEAN
  BY DEF StoreOK, DurableOK
<1>2. Keeps(file, file') /\ WellSynced(file')
  BY <1>1, DiesWritingKeeps
<1>3. AckedDurable'
  BY <1>1, <1>2, AckedStaysDurable DEF DurableOK, DiesWriting
<1> QED
  BY <1>2, <1>3 DEF DurableOK, DiesWriting, ProcessGone

LEMMA RecordDurable ==
    ASSUME StoreOK, DurableOK, mode = "up", ~poisoned,
           NEW record \in JournalRecord, NEW applied, NEW undone,
           NEW restored, "append" \in Fault => restored = TRUE,
           Record(record, applied, undone, restored)
    PROVE  DurableOK'
<1>1. WellSynced(file) /\ opened \in BOOLEAN /\ record \in Line /\ (opened => ~file.torn)
  BY DEF StoreOK, DurableOK, Line
<1>2. CASE /\ file' = DurablyWritten(file, opened, record)
           /\ opened' = TRUE
           /\ acked' = acked \cup {[identity |-> identity, record |-> record]}
           /\ UNCHANGED <<mode, identity, poisoned, replayed, now, faults>>
  <2>1. /\ Keeps(file, file') /\ WellSynced(file') /\ ~file'.torn
        /\ \E i \in 1 .. file'.synced : file'.lines[i] = record
    BY <1>1, <1>2, DurablyWrittenKeeps
  <2>2. \A a \in acked : \E i \in 1 .. file'.synced : file'.lines[i] = a.record
    <3> SUFFICES ASSUME NEW a \in acked
                 PROVE  \E i \in 1 .. file'.synced : file'.lines[i] = a.record
      OBVIOUS
    <3>1. PICK i \in 1 .. file.synced : file.lines[i] = a.record
      BY DEF DurableOK, AckedDurable
    <3>2. i \in 1 .. file'.synced /\ file'.lines[i] = file.lines[i]
      BY <1>1, <2>1, <3>1 DEF Keeps, WellSynced, FileType
    <3> QED
      BY <3>1, <3>2
  <2>3. AckedDurable'
    BY <1>2, <2>1, <2>2 DEF AckedDurable
  <2> QED
    BY <1>2, <2>1, <2>3 DEF DurableOK
<1>3. CASE /\ May("append")
           /\ file' \in CutShort(file, opened, record)
           /\ poisoned' = PoisonedAfter(restored)
           /\ UNCHANGED <<mode, identity, replayed, now, acked>>
  <2>1. Keeps(file, file') /\ WellSynced(file')
    BY <1>1, <1>3, CutShortKeeps
  <2>2. AckedDurable'
    BY <1>1, <1>3, <2>1, AckedStaysDurable DEF DurableOK
  <2>3. poisoned' /\ mode' = "up" /\ "append" \in Fault
    BY <1>3 DEF PoisonedAfter, May
  <2> QED
    BY <2>1, <2>2, <2>3 DEF DurableOK
<1>4. CASE DiesWriting(record)
  BY <1>1, <1>4, DiesWritingDurable
<1> QED
  BY <1>2, <1>3, <1>4 DEF Record

LEMMA UnchangedDurable ==
    ASSUME DurableOK, UNCHANGED <<file, acked>>, opened' => opened, poisoned' = poisoned,
           mode' = "down" => mode = "down", mode = "up" => mode' = "up"
    PROVE  DurableOK'
BY DEF DurableOK, AckedDurable

LEMMA GoneDurable ==
    ASSUME DurableOK, Keeps(file, file'), WellSynced(file'), UNCHANGED acked, ~opened',
           poisoned' => poisoned /\ mode' = mode
    PROVE  DurableOK'
BY AckedStaysDurable DEF DurableOK

LEMMA StepDurable ==
    ASSUME Disciplined, StoreOK, DurableOK, Step
    PROVE  DurableOK'
<1>1. /\ WellSynced(file) /\ opened \in BOOLEAN /\ Keeps(file, file)
      /\ mem \in SoundMemory
  BY DEF StoreOK, DurableOK, Keeps, WellSynced, FileType
<1>2. ASSUME NEW sid \in SettlementId, NEW tok \in Token, NEW account \in Account,
             NEW holder \in Address, NEW deadline \in Time,
             Begin(sid, tok, account, holder, deadline)
      PROVE  DurableOK'
  <2> DEFINE settlement == [tokenId |-> tok, initiator |-> account, expectedHolder |-> holder,
                            deadline |-> deadline, status |-> "OPEN"]
             record == [kind |-> "gap-opened", tokenId |-> tok, settlementId |-> sid,
                        settlement |-> settlement]
  <2>1. settlement \in Settlement
    BY DEF Settlement
  <2>2. record \in JournalRecord
    BY <2>1 DEF JournalRecord, GapOpenedRecord
  <2>3. mode = "up" /\ ~poisoned /\ \E applied, undone : Record(record, applied, undone, TRUE)
    BY <1>2 DEF Begin, Writable
  <2> HIDE DEF record
  <2> QED
    BY <2>2, <2>3, RecordDurable
<1>3. ASSUME NEW sid \in SettlementId, NEW caller \in Account, Cancel(sid, caller)
      PROVE  DurableOK'
  <2> DEFINE tok == mem.settlements[sid].tokenId
             openId == mem.openGaps[tok]
             record == [kind |-> "gap-cancelled", tokenId |-> tok, settlementId |-> openId]
  <2>1. tok \in Token
    BY <1>1, <1>3 DEF SoundMemory, Memory, Settlement, Unrecorded, Cancel
  <2>2. openId \in SettlementId
    BY <1>1, <1>3, <2>1 DEF SoundMemory, Memory, Cancel
  <2>3. mode = "up" /\ ~poisoned /\ \E applied, undone : Record(record, applied, undone, TRUE)
    BY <1>3 DEF Cancel, Writable
  <2>4. record \in JournalRecord
    BY <2>1, <2>2 DEF JournalRecord, GapCancelledRecord
  <2> HIDE DEF record
  <2> QED
    BY <2>3, <2>4, RecordDurable
<1>4. ASSUME NEW tok \in Token, NEW c \in CandidateEntry, NEW h \in Height, StoreAdmit(tok, c, h)
      PROVE  DurableOK'
  <2> DEFINE record == [kind |-> "admitted", tokenId |-> tok, entry |-> c, remoteHeight |-> h,
                        settlementId |-> mem.openGaps[tok]]
  <2>1. mem.openGaps[tok] \in SettlementId \cup {NoGap}
    BY <1>1 DEF SoundMemory, Memory
  <2>2. record \in JournalRecord
    BY <2>1 DEF JournalRecord, AdmittedRecord
  <2>3. "append" \in Fault => \A heights, x : AdvanceThrows(heights, tok, x) = FALSE
    BY DEF AdvanceThrows, Disciplined
  <2>4. PICK applied, undone, restored :
          /\ restored = ~AdvanceThrows(applied.heights, tok, mem.heights[tok])
          /\ Record(record, applied, undone, restored)
    BY <1>4 DEF StoreAdmit
  <2>5. mode = "up" /\ ~poisoned
    BY <1>4 DEF StoreAdmit, Writable
  <2>6. "append" \in Fault => restored = TRUE
    BY <2>3, <2>4
  <2> HIDE DEF record
  <2> QED
    BY <2>2, <2>4, <2>5, <2>6, RecordDurable
<1>5. ASSUME NEW sid \in SettlementId, NEW c \in CandidateEntry, NEW h \in Height,
             Finalize(sid, c, h)
      PROVE  DurableOK'
  <2>1. mem.settlements[sid].tokenId \in Token
    BY <1>1, <1>5
       DEF SoundMemory, Memory, Settlement, Unrecorded, Finalize, SettlementAdmissible
  <2> QED
    BY <1>4, <1>5, <2>1 DEF Finalize
<1>6. ASSUME NEW id \in Identity, Restart(id)
      PROVE  DurableOK'
  <2>1. CASE UNCHANGED <<file, opened, faults>>
    BY <1>6, <2>1, UnchangedDurable DEF Restart, Replaying
  <2>2. CASE file' = DurablyWritten(file, opened, HeaderLine(id)) /\ opened' = TRUE
    <3>1. HeaderLine(id) \in Line
      BY DEF Line
    <3>2. Keeps(file, file') /\ WellSynced(file') /\ ~file'.torn
      BY <1>1, <2>2, <3>1, DurablyWrittenKeeps
    <3>3. UNCHANGED acked /\ mode' = "replaying"
      BY <1>6 DEF Restart, Replaying
    <3>4. AckedDurable'
      BY <1>1, <3>2, <3>3, AckedStaysDurable DEF DurableOK
    <3>5. ~poisoned'
      BY <1>6 DEF Restart, Replaying, DurableOK
    <3> QED
      BY <3>2, <3>3, <3>4, <3>5 DEF DurableOK
  <2> QED
    BY <1>6, <2>1, <2>2 DEF Restart
<1>7. ASSUME NEW id \in Identity, RestartFails(id)
      PROVE  DurableOK'
  <2>1. HeaderLine(id) \in Line
    BY DEF Line
  <2>2. CASE DiesWriting(HeaderLine(id))
    BY <2>1, <2>2, DiesWritingDurable
  <2>3. CASE /\ May("append")
             /\ file' \in CutShort(file, opened, HeaderLine(id))
             /\ IF ReusesJournal
                THEN opened' \in OpenAfterFailure(file, opened, file')
                ELSE opened' = FALSE
             /\ UNCHANGED <<mode, identity, mem, poisoned, replayed, acked>>
    <3>1. Keeps(file, file') /\ WellSynced(file')
      BY <1>1, <2>1, <2>3, CutShortKeeps
    <3>2. opened' = FALSE
      BY <2>3 DEF May, Disciplined
    <3> QED
      BY <2>3, <3>1, <3>2, GoneDurable
  <2> QED
    BY <1>7, <2>2, <2>3 DEF RestartFails
<1>8. ASSUME ReplayLine
      PROVE  DurableOK'
  <2>1. UNCHANGED <<file, acked>>
    BY <1>8 DEF ReplayLine
  <2>2. CASE ProcessGone
    BY <1>1, <2>1, <2>2, GoneDurable DEF ProcessGone
  <2>3. CASE UNCHANGED <<mode, identity, poisoned, opened>>
    BY <2>1, <2>3, UnchangedDurable
  <2> QED
    BY <1>8, <2>2, <2>3 DEF ReplayLine
<1>9. ASSUME Serve
      PROVE  DurableOK'
  BY <1>9, UnchangedDurable DEF Serve
<1>10. ASSUME Crash
       PROVE  DurableOK'
  BY <1>1, <1>10, GoneDurable DEF Crash, ProcessGone
<1>11. ASSUME PowerCut
       PROVE  DurableOK'
  <2>1. Keeps(file, file') /\ WellSynced(file')
    BY <1>1, <1>11, AfterPowerCutKeeps DEF PowerCut
  <2> QED
    BY <1>11, <2>1, GoneDurable DEF PowerCut, ProcessGone
<1>12. ASSUME GiveUp
       PROVE  DurableOK'
  BY <1>1, <1>12, GoneDurable DEF GiveUp, DurableOK, Disciplined
<1>13. ASSUME Close
       PROVE  DurableOK'
  <2>1. Keeps(file, file)
    BY <1>1 DEF Keeps, WellSynced, FileType
  <2> QED
    BY <1>1, <1>13, <2>1, GoneDurable DEF Close
<1>14. ASSUME Tick
       PROVE  DurableOK'
  BY <1>14, UnchangedDurable DEF Tick
<1> QED
  BY <1>2, <1>3, <1>4, <1>5, <1>6, <1>7, <1>8, <1>9, <1>10, <1>11, <1>12, <1>13, <1>14
     DEF Step, PostAdmission

\* Every record whose caller was told it succeeded stays on disk, durably,
\* through every later append failure, crash, restart and power cut.
THEOREM AcknowledgedStaysDurable ==
    ASSUME Disciplined
    PROVE  Spec => []AckedDurable
<1>1. Init => DurableOK
  BY DEF Init, DurableOK, WellSynced, FileType, EmptyFile, AckedDurable
<1>2. StoreInv /\ DurableOK /\ [Next]_vars => DurableOK'
  <2> SUFFICES ASSUME StoreInv, DurableOK, [Next]_vars
               PROVE  DurableOK'
    OBVIOUS
  <2>1. CASE Next
    BY <2>1, StepDurable DEF Next, StoreInv
  <2>2. CASE UNCHANGED vars
    BY <2>2, UnchangedDurable DEF vars
  <2> QED
    BY <2>1, <2>2
<1>3. DurableOK => AckedDurable
  BY DEF DurableOK
<1> QED
  BY <1>1, <1>2, <1>3, StoreInvariant, PTL DEF Spec

-----------------------------------------------------------------------------
(* Replay, line by line.  It is a recursive function of the number of lines  *)
(* replayed; its graph over 0 .. n is a trace, of which there is exactly one. *)

\* The states a replay goes through, from an empty store to after the n-th line.
EmptyReplay == [mem |-> FreshMemory, loads |-> TRUE]

Traces(f, lines, n) ==
    /\ f[0] = EmptyReplay
    /\ \A k \in 1 .. n : f[k] = ApplyRecord(f[k - 1], lines[k])

LEMMA TraceUnique ==
    ASSUME NEW n \in Nat, NEW f, NEW g, NEW lines, NEW others,
           Traces(f, lines, n), Traces(g, others, n),
           \A k \in 1 .. n : others[k] = lines[k]
    PROVE  f[n] = g[n]
<1> DEFINE T == {k \in 0 .. n : f[k] # g[k]}
<1> SUFFICES ASSUME T # {} PROVE FALSE
  OBVIOUS
<1>1. PICK x \in T : \A y \in T : x <= y
  <2>1. T \subseteq Nat
    OBVIOUS
  <2> HIDE DEF T
  <2> QED
    BY <2>1, LeastNatural
<1>2. x # 0 /\ x \in 1 .. n /\ x - 1 \in 0 .. n
  BY DEF Traces
<1>3. x - 1 \notin T
  BY <1>1, <1>2
<1>4. f[x - 1] = g[x - 1]
  BY <1>2, <1>3
<1>5. f[x] = g[x]
  BY <1>2, <1>4 DEF Traces
<1> QED
  BY <1>5

\* The recursive definition of Replay has a solution, because a trace of n - 1
\* lines extends to one of n.
LEMMA TraceExists ==
    ASSUME NEW lines, NEW N \in Nat
    PROVE  \E f : f = [k \in 0 .. N |->
                        IF k = 0 THEN EmptyReplay ELSE ApplyRecord(f[k - 1], lines[k])]
<1> DEFINE Solves(f, n) == f = [k \in 0 .. n |->
                        IF k = 0 THEN EmptyReplay ELSE ApplyRecord(f[k - 1], lines[k])]
           T == {n \in Nat : ~\E f : Solves(f, n)}
<1> SUFFICES ASSUME T # {} PROVE FALSE
  OBVIOUS
<1>1. PICK x \in T : \A y \in T : x <= y
  <2>1. T \subseteq Nat
    OBVIOUS
  <2> HIDE DEF T
  <2> QED
    BY <2>1, LeastNatural
<1>2. x \in Nat /\ \A f : ~Solves(f, x)
  OBVIOUS
<1>3. CASE x = 0
  <2>1. Solves([k \in 0 .. 0 |-> EmptyReplay], 0)
    OBVIOUS
  <2> QED
    BY <1>2, <1>3, <2>1
<1>4. CASE x # 0
  <2>1. x - 1 \in Nat /\ x - 1 \notin T
    BY <1>1, <1>2, <1>4
  <2>2. PICK f : Solves(f, x - 1)
    BY <2>1
  <2> DEFINE g == [k \in 0 .. x |-> IF k = x THEN ApplyRecord(f[x - 1], lines[x]) ELSE f[k]]
  <2>3. \A k \in 0 .. x - 1 : g[k] = f[k]
    BY <1>2, <2>1
  <2>4. \A k \in 0 .. x - 1 : f[k] = IF k = 0 THEN EmptyReplay ELSE ApplyRecord(f[k - 1], lines[k])
    BY <2>2
  <2>5. \A k \in 0 .. x : g[k] = IF k = 0 THEN EmptyReplay ELSE ApplyRecord(g[k - 1], lines[k])
    <3> SUFFICES ASSUME NEW k \in 0 .. x
                 PROVE  g[k] = IF k = 0 THEN EmptyReplay ELSE ApplyRecord(g[k - 1], lines[k])
      OBVIOUS
    <3>1. CASE k = x
      <4>1. g[x] = ApplyRecord(f[x - 1], lines[x])
        BY <1>2
      <4>2. g[x - 1] = f[x - 1]
        BY <2>1, <2>3
      <4> QED
        BY <1>4, <3>1, <4>1, <4>2
    <3>2. CASE k # x /\ k # 0
      <4>1. k \in 0 .. x - 1 /\ k - 1 \in 0 .. x - 1
        BY <1>2, <3>2
      <4> HIDE DEF g
      <4> QED
        BY <2>3, <2>4, <3>2, <4>1
    <3>3. CASE k = 0
      BY <1>2, <1>4, <2>1, <2>3, <2>4, <3>3
    <3> QED
      BY <3>1, <3>2, <3>3
  <2>6. Solves(g, x)
    BY <2>5
  <2> QED
    BY <1>2, <2>6
<1> QED
  BY <1>3, <1>4

\* Replay is the end of a trace.
LEMMA ReplayTraces ==
    ASSUME NEW lines, Len(lines) \in Nat
    PROVE  \E f : Traces(f, lines, Len(lines)) /\ Replay(lines) = f[Len(lines)]
<1> DEFINE f == CHOOSE f : f = [k \in 0 .. Len(lines) |->
                  IF k = 0 THEN EmptyReplay ELSE ApplyRecord(f[k - 1], lines[k])]
<1>1. f = [k \in 0 .. Len(lines) |->
                  IF k = 0 THEN EmptyReplay ELSE ApplyRecord(f[k - 1], lines[k])]
  BY TraceExists
<1>2. Replay(lines) = f[Len(lines)]
  BY DEF Replay, EmptyReplay
<1> HIDE DEF f
<1>3. Traces(f, lines, Len(lines))
  BY <1>1 DEF Traces
<1> QED
  BY <1>2, <1>3

-----------------------------------------------------------------------------
(* A lawful journal: the strengthening that makes replay inductive.  Every   *)
(* line is one the store could have written after the lines before it.       *)

\* The journal replayed up to its n-th line.
After(lines, n) == Replay(SubSeq(lines, 1, n))

\* A token points at a settlement exactly when that one is open on it.
GapsAgree(m) ==
    \A tok \in Token, sid \in SettlementId :
        m.openGaps[tok] = sid <=>
            m.settlements[sid].status = "OPEN" /\ m.settlements[sid].tokenId = tok

\* The line is about the end, or the beginning, of a gap.
Closes(line, sid) == line.kind \in {"admitted", "gap-cancelled"} /\ line.settlementId = sid

Opens(line, sid, settlement) ==
    /\ line.kind = "gap-opened"
    /\ line.settlementId = sid
    /\ line.tokenId = settlement.tokenId
    /\ line.settlement.expectedHolder = settlement.expectedHolder
    /\ line.settlement.deadline = settlement.deadline

\* The first n lines tell of a settlement what m knows of it: not closed as long
\* as it is unknown or open, and opened if it is open.
Told(lines, n, m) ==
    \A sid \in SettlementId :
        /\ m.settlements[sid].status \in {"NONE", "OPEN"} =>
              \A j \in 1 .. n : ~Closes(lines[j], sid)
        /\ m.settlements[sid].status = "OPEN" =>
              \E j \in 1 .. n : Opens(lines[j], sid, m.settlements[sid])

\* A store with memory m could have written r: replay accepts it, it raises the
\* token's height, and it closes the gap the token points at for its holder.
LawfulRecord(m, r) ==
    /\ r.kind # "header"
    /\ ReplayAccepts(m, r)
    /\ r.kind = "gap-opened" => r.settlement.tokenId = r.tokenId /\ r.settlement.status = "OPEN"
    /\ r.kind = "admitted" =>
          /\ r.remoteHeight > m.heights[r.tokenId]
          /\ r.settlementId = m.openGaps[r.tokenId]
          /\ r.settlementId # NoGap =>
                r.entry.holder = m.settlements[r.settlementId].expectedHolder

\* Replaying the first n lines is refused nowhere and leaves a sound memory
\* that those lines account for.
Sensible(lines, n) ==
    LET after == After(lines, n)
    IN  /\ after.loads
        /\ after.mem \in SoundMemory
        /\ GapsAgree(after.mem)
        /\ Told(lines, n, after.mem)

\* The n-th line is a header, or a record lawful after the lines before it.
LawfulLine(lines, n) ==
    lines[n].kind # "header" =>
        lines[n] \in JournalRecord /\ LawfulRecord(After(lines, n - 1).mem, lines[n])

\* Headers name one identity (checkIdentity).
OneIdentity(lines) ==
    \A i, j \in 1 .. Len(lines) :
        lines[i].kind = "header" /\ lines[j].kind = "header" => lines[i] = lines[j]

Lawful(lines) ==
    /\ \A n \in 0 .. Len(lines) : Sensible(lines, n)
    /\ \A n \in 1 .. Len(lines) : LawfulLine(lines, n)
    /\ OneIdentity(lines)

LEMMA FirstLines ==
    ASSUME NEW lines \in Seq(Line), NEW n \in 0 .. Len(lines)
    PROVE  /\ SubSeq(lines, 1, n) \in Seq(Line)
           /\ Len(SubSeq(lines, 1, n)) = n
           /\ \A i \in 1 .. n : SubSeq(lines, 1, n)[i] = lines[i]
OBVIOUS

LEMMA AfterNone ==
    ASSUME NEW lines \in Seq(Line)
    PROVE  After(lines, 0) = EmptyReplay
<1> DEFINE s == SubSeq(lines, 1, 0)
<1>1. Len(s) = 0
  BY FirstLines
<1> HIDE DEF s
<1>2. PICK f : Traces(f, s, 0) /\ Replay(s) = f[0]
  BY <1>1, ReplayTraces
<1> QED
  BY <1>2 DEF After, Traces, s

LEMMA AfterNext ==
    ASSUME NEW lines \in Seq(Line), NEW n \in 0 .. Len(lines), n # Len(lines)
    PROVE  After(lines, n + 1) = ApplyRecord(After(lines, n), lines[n + 1])
<1> DEFINE s == SubSeq(lines, 1, n)
           t == SubSeq(lines, 1, n + 1)
<1>1. n + 1 \in 0 .. Len(lines) /\ n \in Nat
  OBVIOUS
<1>2. Len(s) = n /\ \A i \in 1 .. n : s[i] = lines[i]
  BY FirstLines
<1>3. Len(t) = n + 1 /\ \A i \in 1 .. n + 1 : t[i] = lines[i]
  BY <1>1, FirstLines
<1> HIDE DEF s, t
<1>4. PICK f : Traces(f, s, n) /\ Replay(s) = f[n]
  BY <1>1, <1>2, ReplayTraces
<1>5. PICK g : Traces(g, t, n + 1) /\ Replay(t) = g[n + 1]
  BY <1>1, <1>3, ReplayTraces
<1>6. Traces(g, t, n) /\ g[n + 1] = ApplyRecord(g[n], t[n + 1])
  BY <1>1, <1>5 DEF Traces
<1>7. \A i \in 1 .. n : t[i] = s[i]
  BY <1>1, <1>2, <1>3
<1>8. f[n] = g[n]
  BY <1>1, <1>4, <1>6, <1>7, TraceUnique
<1> QED
  BY <1>1, <1>3, <1>4, <1>5, <1>6, <1>8 DEF After, s, t

LEMMA AfterAll ==
    ASSUME NEW lines \in Seq(Line)
    PROVE  After(lines, Len(lines)) = Replay(lines)
<1>1. SubSeq(lines, 1, Len(lines)) = lines
  OBVIOUS
<1> QED
  BY <1>1 DEF After

\* How a replay goes up to a line depends on the lines up to it.
LEMMA AfterAgrees ==
    ASSUME NEW lines \in Seq(Line), NEW others \in Seq(Line),
           NEW n \in 0 .. Len(lines), n <= Len(others),
           \A i \in 1 .. n : others[i] = lines[i]
    PROVE  After(others, n) = After(lines, n)
<1>1. SubSeq(others, 1, n) = SubSeq(lines, 1, n)
  OBVIOUS
<1> QED
  BY <1>1 DEF After

\* What a record does to the gaps: it opens one, closes the open one of its
\* token, or leaves them alone.
Opening(m, n, tok, sid, settlement) ==
    /\ tok \in Token /\ sid \in SettlementId
    /\ m.openGaps[tok] = NoGap /\ m.settlements[sid].status = "NONE"
    /\ settlement.tokenId = tok /\ settlement.status = "OPEN"
    /\ n.openGaps[tok] = sid /\ n.settlements[sid] = settlement
    /\ \A t \in Token \ {tok} : n.openGaps[t] = m.openGaps[t]
    /\ \A s \in SettlementId \ {sid} : n.settlements[s] = m.settlements[s]

Closing(m, n, tok, sid, status) ==
    /\ tok \in Token /\ sid \in SettlementId
    /\ m.openGaps[tok] = sid /\ status \in {"ADMITTED", "CANCELLED"}
    /\ n.openGaps[tok] = NoGap /\ n.settlements[sid].status = status
    /\ \A t \in Token \ {tok} : n.openGaps[t] = m.openGaps[t]
    /\ \A s \in SettlementId \ {sid} : n.settlements[s] = m.settlements[s]

Leaving(m, n) == n.openGaps = m.openGaps /\ n.settlements = m.settlements

LEMMA RecordKinds ==
    ASSUME NEW r \in JournalRecord
    PROVE  /\ r.kind \in {"gap-opened", "gap-cancelled", "admitted"}
           /\ r.kind = "gap-opened" => r \in GapOpenedRecord
           /\ r.kind = "gap-cancelled" => r \in GapCancelledRecord
           /\ r.kind = "admitted" => r \in AdmittedRecord
BY DEF JournalRecord, GapOpenedRecord, GapCancelledRecord, AdmittedRecord

LEMMA ClosedShape ==
    ASSUME NEW m \in SoundMemory, NEW tok \in Token, NEW sid \in SettlementId,
           NEW status \in {"ADMITTED", "CANCELLED"}, m.openGaps[tok] = sid,
           NEW k, k.openGaps = m.openGaps, k.settlements = m.settlements
    PROVE  Closing(m, GapClosed(k, tok, sid, status), tok, sid, status)
<1>1. /\ m.openGaps \in [Token -> SettlementId \cup {NoGap}]
      /\ m.settlements \in [SettlementId -> Settlement \cup Unrecorded]
  BY DEF SoundMemory, Memory
<1>2. m.settlements[sid] \in Settlement \cup Unrecorded
  BY <1>1
<1>3. [m.settlements[sid] EXCEPT !.status = status].status = status
  BY <1>2 DEF Settlement, Unrecorded
<1> DEFINE closed == [m.settlements[sid] EXCEPT !.status = status]
<1>4. /\ GapClosed(k, tok, sid, status).openGaps = [m.openGaps EXCEPT ![tok] = NoGap]
      /\ GapClosed(k, tok, sid, status).settlements = [m.settlements EXCEPT ![sid] = closed]
  BY DEF GapClosed
<1> HIDE DEF closed
<1>5. closed.status = status
  BY <1>3 DEF closed
<1> QED
  BY <1>1, <1>4, <1>5 DEF Closing

LEMMA RecordShape ==
    ASSUME NEW m \in SoundMemory, NEW r \in JournalRecord, LawfulRecord(m, r)
    PROVE  /\ r.kind = "gap-opened" =>
                Opening(m, ReplayResult(m, r), r.tokenId, r.settlementId, r.settlement)
           /\ r.kind = "gap-cancelled" =>
                Closing(m, ReplayResult(m, r), r.tokenId, r.settlementId, "CANCELLED")
           /\ r.kind = "admitted" /\ r.settlementId # NoGap =>
                Closing(m, ReplayResult(m, r), r.tokenId, r.settlementId, "ADMITTED")
           /\ r.kind = "admitted" /\ r.settlementId = NoGap =>
                Leaving(m, ReplayResult(m, r))
<1>1. /\ m.openGaps \in [Token -> SettlementId \cup {NoGap}]
      /\ m.settlements \in [SettlementId -> Settlement \cup Unrecorded]
  BY DEF SoundMemory, Memory
<1>2. ASSUME r.kind = "gap-opened"
      PROVE  Opening(m, ReplayResult(m, r), r.tokenId, r.settlementId, r.settlement)
  <2>1. r.tokenId \in Token /\ r.settlementId \in SettlementId
    BY <1>2, RecordKinds DEF GapOpenedRecord
  <2>2. /\ m.openGaps[r.tokenId] = NoGap
        /\ m.settlements[r.settlementId] = NoSettlement
        /\ r.settlement.tokenId = r.tokenId /\ r.settlement.status = "OPEN"
    BY <1>2 DEF LawfulRecord, ReplayAccepts
  <2>3. ReplayResult(m, r) = GapOpened(m, r.tokenId, r.settlementId, r.settlement)
    BY <1>2 DEF ReplayResult
  <2>4. /\ ReplayResult(m, r).openGaps = [m.openGaps EXCEPT ![r.tokenId] = r.settlementId]
        /\ ReplayResult(m, r).settlements =
              [m.settlements EXCEPT ![r.settlementId] = r.settlement]
    BY <2>3 DEF GapOpened
  <2>5. m.settlements[r.settlementId].status = "NONE"
    BY <2>2 DEF NoSettlement
  <2> QED
    BY <1>1, <2>1, <2>2, <2>4, <2>5 DEF Opening
<1>3. ASSUME r.kind = "gap-cancelled"
      PROVE  Closing(m, ReplayResult(m, r), r.tokenId, r.settlementId, "CANCELLED")
  <2>1. r.tokenId \in Token /\ r.settlementId \in SettlementId
    BY <1>3, RecordKinds DEF GapCancelledRecord
  <2>2. m.openGaps[r.tokenId] = r.settlementId
    BY <1>3 DEF LawfulRecord, ReplayAccepts
  <2>3. ReplayResult(m, r) = GapClosed(m, r.tokenId, r.settlementId, "CANCELLED")
    BY <1>3 DEF ReplayResult
  <2> QED
    BY <2>1, <2>2, <2>3, ClosedShape
<1>4. ASSUME r.kind = "admitted"
      PROVE  /\ r.tokenId \in Token
             /\ ReplayResult(m, r) =
                  AdmissionApplied(m, r.tokenId, r.entry, r.remoteHeight, r.settlementId)
             /\ r.settlementId \in SettlementId \cup {NoGap}
             /\ m.openGaps[r.tokenId] = r.settlementId
  <2>1. r.tokenId \in Token /\ r.settlementId \in SettlementId \cup {NoGap}
    BY <1>4, RecordKinds DEF AdmittedRecord
  <2>2. m.openGaps[r.tokenId] = r.settlementId
    BY <1>4 DEF LawfulRecord
  <2> QED
    BY <1>4, <2>1, <2>2 DEF ReplayResult
<1>5. ASSUME r.kind = "admitted", r.settlementId # NoGap
      PROVE  Closing(m, ReplayResult(m, r), r.tokenId, r.settlementId, "ADMITTED")
  <2> DEFINE k == EntryAdded(m, r.tokenId, r.entry, r.remoteHeight)
  <2>1. k.openGaps = m.openGaps /\ k.settlements = m.settlements
    BY DEF EntryAdded
  <2>2. ReplayResult(m, r) = GapClosed(k, r.tokenId, r.settlementId, "ADMITTED")
    BY <1>4, <1>5 DEF AdmissionApplied
  <2> HIDE DEF k
  <2>3. r.settlementId \in SettlementId
    BY <1>4, <1>5
  <2> QED
    BY <1>4, <1>5, <2>1, <2>2, <2>3, ClosedShape
<1>6. ASSUME r.kind = "admitted", r.settlementId = NoGap
      PROVE  Leaving(m, ReplayResult(m, r))
  BY <1>4, <1>6 DEF AdmissionApplied, EntryAdded, Leaving
<1> QED
  BY <1>2, <1>3, <1>5, <1>6

\* Opening a gap on a free token for an unknown settlement, or closing the open
\* one, keeps pointers and settlements in agreement.
LEMMA OpeningAgrees ==
    ASSUME NEW m, NEW n, NEW tok, NEW sid, NEW settlement,
           GapsAgree(m), Opening(m, n, tok, sid, settlement)
    PROVE  GapsAgree(n)
<1> SUFFICES ASSUME NEW t \in Token, NEW s \in SettlementId
             PROVE  n.openGaps[t] = s <=>
                      n.settlements[s].status = "OPEN" /\ n.settlements[s].tokenId = t
  BY DEF GapsAgree
<1>1. NoGap \notin SettlementId
  BY StoreAssumption
<1>2. CASE s = sid
  BY <1>1, <1>2 DEF GapsAgree, Opening
<1>3. CASE s # sid
  BY <1>1, <1>3 DEF GapsAgree, Opening
<1> QED
  BY <1>2, <1>3

LEMMA ClosingAgrees ==
    ASSUME NEW m, NEW n, NEW tok, NEW sid, NEW status,
           GapsAgree(m), Closing(m, n, tok, sid, status)
    PROVE  GapsAgree(n)
<1> SUFFICES ASSUME NEW t \in Token, NEW s \in SettlementId
             PROVE  n.openGaps[t] = s <=>
                      n.settlements[s].status = "OPEN" /\ n.settlements[s].tokenId = t
  BY DEF GapsAgree
<1>1. NoGap \notin SettlementId
  BY StoreAssumption
<1>2. m.settlements[sid].tokenId = tok
  BY DEF GapsAgree, Closing
<1>3. CASE s = sid
  BY <1>1, <1>2, <1>3 DEF GapsAgree, Closing
<1>4. CASE s # sid
  BY <1>1, <1>2, <1>4 DEF GapsAgree, Closing
<1> QED
  BY <1>3, <1>4

LEMMA RecordAgrees ==
    ASSUME NEW m \in SoundMemory, NEW r \in JournalRecord, LawfulRecord(m, r), GapsAgree(m)
    PROVE  GapsAgree(ReplayResult(m, r))
<1>1. CASE r.kind = "gap-opened"
  BY <1>1, RecordShape, OpeningAgrees
<1>2. CASE r.kind = "gap-cancelled"
  BY <1>2, RecordShape, ClosingAgrees
<1>3. CASE r.kind = "admitted" /\ r.settlementId # NoGap
  BY <1>3, RecordShape, ClosingAgrees
<1>4. CASE r.kind = "admitted" /\ r.settlementId = NoGap
  BY <1>4, RecordShape DEF Leaving, GapsAgree
<1> QED
  BY <1>1, <1>2, <1>3, <1>4, RecordKinds

LEMMA ToldNext ==
    ASSUME NEW lines, NEW n \in Nat, NEW m \in SoundMemory, lines[n + 1] \in JournalRecord,
           LawfulRecord(m, lines[n + 1]), Told(lines, n, m)
    PROVE  Told(lines, n + 1, ReplayResult(m, lines[n + 1]))
<1> DEFINE r == lines[n + 1]
           after == ReplayResult(m, r)
<1>0. r \in JournalRecord /\ LawfulRecord(m, r)
  OBVIOUS
<1>1. \A j \in 1 .. n + 1 : j \in 1 .. n \/ j = n + 1
  OBVIOUS
<1>2. n + 1 \in 1 .. n + 1 /\ \A j \in 1 .. n : j \in 1 .. n + 1
  OBVIOUS
<1> SUFFICES ASSUME NEW s \in SettlementId
             PROVE  /\ after.settlements[s].status \in {"NONE", "OPEN"} =>
                          \A j \in 1 .. n + 1 : ~Closes(lines[j], s)
                    /\ after.settlements[s].status = "OPEN" =>
                          \E j \in 1 .. n + 1 : Opens(lines[j], s, after.settlements[s])
  BY DEF Told
<1>3. /\ m.settlements[s].status \in {"NONE", "OPEN"} => \A j \in 1 .. n : ~Closes(lines[j], s)
      /\ m.settlements[s].status = "OPEN" => \E j \in 1 .. n : Opens(lines[j], s, m.settlements[s])
  BY DEF Told
<1>4. lines[n + 1] = r
  OBVIOUS
<1> HIDE DEF r
<1>5. ASSUME after.settlements[s] = m.settlements[s], ~Closes(r, s)
      PROVE  /\ after.settlements[s].status \in {"NONE", "OPEN"} =>
                   \A j \in 1 .. n + 1 : ~Closes(lines[j], s)
             /\ after.settlements[s].status = "OPEN" =>
                   \E j \in 1 .. n + 1 : Opens(lines[j], s, after.settlements[s])
  BY <1>1, <1>2, <1>3, <1>4, <1>5
<1>6. CASE r.kind = "gap-opened"
  <2>1. Opening(m, after, r.tokenId, r.settlementId, r.settlement)
    BY <1>0, <1>6, RecordShape
  <2>2. ~Closes(r, s)
    BY <1>6 DEF Closes
  <2>3. CASE s = r.settlementId
    <3>1. m.settlements[s].status = "NONE" /\ after.settlements[s] = r.settlement
      BY <2>1, <2>3 DEF Opening
    <3>2. Opens(r, s, after.settlements[s])
      BY <1>6, <2>1, <2>3, <3>1 DEF Opens, Opening
    <3> HIDE DEF after
    <3> QED
      BY <1>1, <1>2, <1>3, <1>4, <2>2, <3>1, <3>2
  <2>4. CASE s # r.settlementId
    <3>1. after.settlements[s] = m.settlements[s]
      BY <2>1, <2>4 DEF Opening
    <3> QED
      BY <1>5, <2>2, <3>1
  <2> QED
    BY <2>3, <2>4
<1>7. ASSUME NEW status, Closing(m, after, r.tokenId, r.settlementId, status)
      PROVE  /\ after.settlements[s].status \in {"NONE", "OPEN"} =>
                   \A j \in 1 .. n + 1 : ~Closes(lines[j], s)
             /\ after.settlements[s].status = "OPEN" =>
                   \E j \in 1 .. n + 1 : Opens(lines[j], s, after.settlements[s])
  <2>1. CASE s = r.settlementId
    <3>1. after.settlements[s].status \notin {"NONE", "OPEN"}
      BY <1>7, <2>1 DEF Closing
    <3> QED
      BY <3>1
  <2>2. CASE s # r.settlementId
    <3>1. after.settlements[s] = m.settlements[s]
      BY <1>7, <2>2 DEF Closing
    <3>2. ~Closes(r, s)
      BY <2>2 DEF Closes
    <3> QED
      BY <1>5, <3>1, <3>2
  <2> QED
    BY <2>1, <2>2
<1>8. CASE r.kind = "gap-cancelled"
  BY <1>0, <1>7, <1>8, RecordShape
<1>9. CASE r.kind = "admitted" /\ r.settlementId # NoGap
  BY <1>0, <1>7, <1>9, RecordShape
<1>10. CASE r.kind = "admitted" /\ r.settlementId = NoGap
  <2>1. Leaving(m, after)
    BY <1>0, <1>10, RecordShape
  <2>2. after.settlements[s] = m.settlements[s]
    BY <2>1 DEF Leaving
  <2>3. ~Closes(r, s)
    BY <1>10, StoreAssumption DEF Closes
  <2> QED
    BY <1>5, <2>2, <2>3
<1> QED
  BY <1>0, <1>6, <1>8, <1>9, <1>10, RecordKinds

LEMMA ToldAgrees ==
    ASSUME NEW lines, NEW others, NEW n, NEW m,
           \A i \in 1 .. n : others[i] = lines[i], Told(lines, n, m)
    PROVE  Told(others, n, m)
BY DEF Told

LEMMA FreshSensible ==
    ASSUME NEW lines \in Seq(Line)
    PROVE  Sensible(lines, 0)
<1>1. After(lines, 0) = EmptyReplay
  BY AfterNone
<1>2. GapsAgree(FreshMemory)
  BY StoreAssumption DEF GapsAgree, FreshMemory, NoSettlement
<1>3. Told(lines, 0, FreshMemory)
  <2>1. 1 .. 0 = {}
    OBVIOUS
  <2>2. \A sid \in SettlementId : FreshMemory.settlements[sid].status = "NONE"
    BY DEF FreshMemory, NoSettlement
  <2> QED
    BY <2>1, <2>2 DEF Told
<1> QED
  BY <1>1, <1>2, <1>3, FreshMemorySound DEF Sensible, EmptyReplay

\* One more lawful line is replayed without a refusal.
LEMMA SensibleNext ==
    ASSUME NEW lines \in Seq(Line), NEW n \in 0 .. Len(lines), n # Len(lines),
           Sensible(lines, n), LawfulLine(lines, n + 1)
    PROVE  /\ Sensible(lines, n + 1)
           /\ After(lines, n + 1).mem = ReplayResult(After(lines, n).mem, lines[n + 1])
<1> DEFINE m == After(lines, n).mem
           r == lines[n + 1]
<1>1. n \in Nat /\ n + 1 \in 1 .. Len(lines) /\ r \in Line /\ (n + 1) - 1 = n
  OBVIOUS
<1>2. After(lines, n).loads /\ m \in SoundMemory /\ GapsAgree(m) /\ Told(lines, n, m)
  BY DEF Sensible
<1>3. After(lines, n + 1) = ApplyRecord(After(lines, n), r)
  BY AfterNext
<1>4. ReplayAccepts(m, r)
  BY <1>1 DEF LawfulLine, LawfulRecord, ReplayAccepts
<1>5. After(lines, n + 1) = [mem |-> ReplayResult(m, r), loads |-> TRUE]
  BY <1>2, <1>3, <1>4 DEF ApplyRecord
<1>6. CASE r.kind = "header"
  <2>1. ReplayResult(m, r) = m
    BY <1>6 DEF ReplayResult
  <2>2. Told(lines, n + 1, m)
    <3>1. \A sid : ~Closes(r, sid)
      BY <1>6 DEF Closes
    <3>2. \A j \in 1 .. n + 1 : j \in 1 .. n \/ j = n + 1
      BY <1>1
    <3>3. \A j \in 1 .. n : j \in 1 .. n + 1
      BY <1>1
    <3> HIDE DEF m
    <3> QED
      BY <1>2, <3>1, <3>2, <3>3 DEF Told
  <2>3. Sensible(lines, n + 1)
    <3> HIDE DEF m, r
    <3> QED
      BY <1>2, <1>5, <2>1, <2>2 DEF Sensible
  <2> QED
    BY <1>5, <2>3
<1>7. CASE r.kind # "header"
  <2>1. r \in JournalRecord /\ LawfulRecord(m, r)
    BY <1>1, <1>7 DEF LawfulLine
  <2>2. ReplayResult(m, r) \in SoundMemory
    BY <1>1, <1>2, <1>4, ReplayResultSound
  <2>3. GapsAgree(ReplayResult(m, r))
    BY <1>2, <2>1, RecordAgrees
  <2>4. Told(lines, n + 1, ReplayResult(m, r))
    BY <1>1, <1>2, <2>1, ToldNext
  <2>5. Sensible(lines, n + 1)
    <3> HIDE DEF m, r
    <3> QED
      BY <1>5, <2>2, <2>3, <2>4 DEF Sensible
  <2> QED
    BY <1>5, <2>5
<1> QED
  BY <1>5, <1>6, <1>7

\* What is lawful of the first n lines does not depend on the lines after them.
LEMMA SensibleAgrees ==
    ASSUME NEW lines \in Seq(Line), NEW others \in Seq(Line),
           NEW n \in 0 .. Len(lines), n <= Len(others),
           \A i \in 1 .. n : others[i] = lines[i],
           Sensible(lines, n)
    PROVE  Sensible(others, n)
<1>1. After(others, n) = After(lines, n)
  BY AfterAgrees
<1> QED
  BY <1>1, ToldAgrees DEF Sensible

LEMMA LawfulLineAgrees ==
    ASSUME NEW lines \in Seq(Line), NEW others \in Seq(Line),
           NEW n \in 1 .. Len(lines), n <= Len(others),
           \A i \in 1 .. n : others[i] = lines[i],
           LawfulLine(lines, n)
    PROVE  LawfulLine(others, n)
<1>1. n - 1 \in 0 .. Len(lines) /\ n - 1 <= Len(others) /\ n \in 1 .. n
  OBVIOUS
<1>2. \A i \in 1 .. n - 1 : others[i] = lines[i]
  OBVIOUS
<1>3. After(others, n - 1) = After(lines, n - 1)
  BY <1>1, <1>2, AfterAgrees
<1>4. others[n] = lines[n]
  BY <1>1
<1> QED
  BY <1>3, <1>4 DEF LawfulLine

LEMMA LawfulEmpty == Lawful(<<>>)
<1>1. <<>> \in Seq(Line) /\ Len(<<>>) = 0
  OBVIOUS
<1>2. Sensible(<<>>, 0)
  BY <1>1, FreshSensible
<1>3. \A n \in 0 .. 0 : n = 0
  OBVIOUS
<1>4. 1 .. 0 = {}
  OBVIOUS
<1> QED
  BY <1>1, <1>2, <1>3, <1>4 DEF Lawful, OneIdentity

LEMMA LawfulPrefix ==
    ASSUME NEW lines \in Seq(Line), NEW k \in 0 .. Len(lines), Lawful(lines)
    PROVE  Lawful(SubSeq(lines, 1, k))
<1> DEFINE s == SubSeq(lines, 1, k)
<1>1. s \in Seq(Line) /\ Len(s) = k /\ \A i \in 1 .. k : s[i] = lines[i]
  BY FirstLines
<1> HIDE DEF s
<1>2. ASSUME NEW n \in 0 .. k
      PROVE  Sensible(s, n)
  <2>1. n \in 0 .. Len(lines) /\ n <= Len(s) /\ \A i \in 1 .. n : s[i] = lines[i]
    BY <1>1
  <2> QED
    BY <1>1, <2>1, SensibleAgrees DEF Lawful
<1>3. ASSUME NEW n \in 1 .. k
      PROVE  LawfulLine(s, n)
  <2>1. n \in 1 .. Len(lines) /\ n <= Len(s) /\ \A i \in 1 .. n : s[i] = lines[i]
    BY <1>1
  <2> QED
    BY <1>1, <2>1, LawfulLineAgrees DEF Lawful
<1>4. OneIdentity(s)
  BY <1>1 DEF Lawful, OneIdentity
<1> QED
  BY <1>1, <1>2, <1>3, <1>4 DEF Lawful, s

\* A line may follow lawful lines if it is their first header or a record that
\* the memory they replay to accepts.
MayFollow(lines, x) ==
    /\ x \in Line
    /\ x.kind = "header" => \A i \in 1 .. Len(lines) : lines[i].kind # "header"
    /\ x.kind # "header" => x \in JournalRecord /\ LawfulRecord(Replay(lines).mem, x)

LEMMA LawfulAppend ==
    ASSUME NEW lines \in Seq(Line), Lawful(lines), NEW x, MayFollow(lines, x)
    PROVE  /\ Lawful(Append(lines, x))
           /\ After(Append(lines, x), Len(lines)) = Replay(lines)
           /\ Replay(Append(lines, x)).mem = ReplayResult(Replay(lines).mem, x)
<1> DEFINE n == Len(lines)
           s == Append(lines, x)
<1>0. x \in Line
  BY DEF MayFollow
<1>1. /\ s \in Seq(Line) /\ Len(s) = n + 1 /\ n \in Nat
      /\ \A i \in 1 .. n : s[i] = lines[i]
      /\ s[n + 1] = x
  BY <1>0
<1> HIDE DEF s
<1>2. After(s, n) = Replay(lines)
  <2>1. n \in 0 .. Len(lines) /\ n <= Len(s)
    BY <1>1
  <2>2. After(s, n) = After(lines, n)
    BY <1>1, <2>1, AfterAgrees
  <2> QED
    BY <2>2, AfterAll
<1>3. ASSUME NEW k \in 0 .. n
      PROVE  Sensible(s, k)
  <2>1. k \in 0 .. Len(lines) /\ k <= Len(s) /\ \A i \in 1 .. k : s[i] = lines[i]
    BY <1>1
  <2> QED
    BY <1>1, <2>1, SensibleAgrees DEF Lawful
<1>4. ASSUME NEW k \in 1 .. n
      PROVE  LawfulLine(s, k)
  <2>1. k \in 1 .. Len(lines) /\ k <= Len(s) /\ \A i \in 1 .. k : s[i] = lines[i]
    BY <1>1
  <2> QED
    BY <1>1, <2>1, LawfulLineAgrees DEF Lawful
<1>5. LawfulLine(s, n + 1)
  <2>1. (n + 1) - 1 = n
    BY <1>1
  <2> QED
    BY <1>1, <1>2, <2>1 DEF LawfulLine, MayFollow
<1>6. Sensible(s, n + 1) /\ After(s, n + 1).mem = ReplayResult(After(s, n).mem, s[n + 1])
  <2>1. n \in 0 .. Len(s) /\ n # Len(s) /\ n \in 0 .. n
    BY <1>1
  <2>2. Sensible(s, n)
    BY <1>3, <2>1
  <2> QED
    BY <1>1, <1>5, <2>1, <2>2, SensibleNext
<1>7. Replay(s).mem = ReplayResult(Replay(lines).mem, x)
  BY <1>1, <1>2, <1>6, AfterAll
<1>8. OneIdentity(s)
  <2>1. \A i \in 1 .. n + 1 : i \in 1 .. n \/ i = n + 1
    BY <1>1
  <2> HIDE DEF n
  <2>2. \A i, j \in 1 .. n : lines[i].kind = "header" /\ lines[j].kind = "header"
                              => lines[i] = lines[j]
    BY DEF Lawful, OneIdentity, n
  <2>3. x.kind = "header" => \A i \in 1 .. n : lines[i].kind # "header"
    BY DEF MayFollow, n
  <2> QED
    BY <1>1, <2>1, <2>2, <2>3 DEF OneIdentity
<1>9. Lawful(s)
  <2>1. \A i \in 1 .. n + 1 : i \in 1 .. n \/ i = n + 1
    BY <1>1
  <2>2. \A i \in 0 .. n + 1 : i \in 0 .. n \/ i = n + 1
    BY <1>1
  <2> HIDE DEF n
  <2> QED
    BY <1>1, <1>3, <1>4, <1>5, <1>6, <1>8, <2>1, <2>2 DEF Lawful
<1> QED
  BY <1>2, <1>7, <1>9 DEF s

-----------------------------------------------------------------------------
(* What a lawful journal says.                                               *)

LEMMA LawfulLoads ==
    ASSUME NEW lines \in Seq(Line), Lawful(lines)
    PROVE  /\ Replay(lines).loads
           /\ Replay(lines).mem \in SoundMemory
           /\ GapsAgree(Replay(lines).mem)
           /\ \A i \in 1 .. Len(lines) : lines[i].kind # "glued"
<1>1. Len(lines) \in 0 .. Len(lines)
  OBVIOUS
<1>2. Sensible(lines, Len(lines))
  BY <1>1 DEF Lawful
<1>3. \A i \in 1 .. Len(lines) : lines[i].kind # "glued"
  BY RecordKinds DEF Lawful, LawfulLine
<1> QED
  BY <1>2, <1>3, AfterAll DEF Sensible

\* The settlement a lawful line closes was the open one of its token.
LEMMA ClosesOpenGap ==
    ASSUME NEW lines \in Seq(Line), Lawful(lines), NEW i \in 1 .. Len(lines),
           NEW sid \in SettlementId, Closes(lines[i], sid)
    PROVE  /\ \A j \in 1 .. i - 1 : ~Closes(lines[j], sid)
           /\ \E j \in 1 .. i - 1 :
                /\ Opens(lines[j], sid, After(lines, i - 1).mem.settlements[sid])
                /\ lines[j].tokenId = lines[i].tokenId
<1> DEFINE m == After(lines, i - 1).mem
           r == lines[i]
<1>1. i - 1 \in 0 .. Len(lines)
  OBVIOUS
<1>2. GapsAgree(m) /\ Told(lines, i - 1, m) /\ m \in SoundMemory
  BY <1>1 DEF Lawful, Sensible
<1>3. r \in JournalRecord /\ LawfulRecord(m, r)
  BY DEF Lawful, LawfulLine, Closes
<1>4. r.tokenId \in Token
  BY <1>3, RecordKinds DEF GapOpenedRecord, GapCancelledRecord, AdmittedRecord
<1>5. m.openGaps[r.tokenId] = sid
  BY <1>3 DEF LawfulRecord, ReplayAccepts, Closes
<1>6. m.settlements[sid].status = "OPEN" /\ m.settlements[sid].tokenId = r.tokenId
  BY <1>2, <1>4, <1>5 DEF GapsAgree
<1> HIDE DEF m
<1>7. \A j \in 1 .. i - 1 : ~Closes(lines[j], sid)
  BY <1>2, <1>6 DEF Told
<1>8. \E j \in 1 .. i - 1 : Opens(lines[j], sid, m.settlements[sid])
  BY <1>2, <1>6 DEF Told
<1>9. \E j \in 1 .. i - 1 :
        Opens(lines[j], sid, m.settlements[sid]) /\ lines[j].tokenId = r.tokenId
  BY <1>6, <1>8 DEF Opens
<1> QED
  BY <1>7, <1>9 DEF m

LEMMA LawfulHonours ==
    ASSUME file.lines \in Seq(Line), Lawful(file.lines)
    PROVE  SettlementsHonoured
<1> DEFINE lines == file.lines
<1>0. lines \in Seq(Line) /\ Lawful(lines) /\ DOMAIN lines = 1 .. Len(lines)
  OBVIOUS
<1> SUFFICES ASSUME NEW i \in 1 .. Len(lines), lines[i].kind = "admitted",
                    lines[i].settlementId # NoGap
             PROVE  /\ \E j \in 1 .. i - 1 :
                          /\ lines[j].kind = "gap-opened"
                          /\ lines[j].settlementId = lines[i].settlementId
                          /\ lines[j].tokenId = lines[i].tokenId
                          /\ lines[j].settlement.expectedHolder = lines[i].entry.holder
                    /\ \A j \in 1 .. Len(lines) \ {i} :
                          lines[j].kind \in {"admitted", "gap-cancelled"} =>
                              lines[j].settlementId # lines[i].settlementId
  BY <1>0 DEF SettlementsHonoured
<1> DEFINE sid == lines[i].settlementId
           m == After(lines, i - 1).mem
<1>1. lines[i] \in JournalRecord /\ LawfulRecord(m, lines[i])
  BY DEF Lawful, LawfulLine
<1>2. sid \in SettlementId
  BY <1>1, RecordKinds DEF AdmittedRecord
<1> HIDE DEF lines
<1>3. Closes(lines[i], sid)
  BY DEF Closes
<1>4. PICK j \in 1 .. i - 1 : Opens(lines[j], sid, m.settlements[sid])
                              /\ lines[j].tokenId = lines[i].tokenId
  BY <1>0, <1>2, <1>3, ClosesOpenGap
<1>5. lines[i].entry.holder = m.settlements[sid].expectedHolder
  BY <1>1 DEF LawfulRecord
<1>6. ASSUME NEW k \in 1 .. Len(lines) \ {i}, lines[k].kind \in {"admitted", "gap-cancelled"},
             lines[k].settlementId = sid
      PROVE  FALSE
  <2>1. Closes(lines[k], sid)
    BY <1>6 DEF Closes
  <2>2. CASE k < i
    <3>1. k \in 1 .. i - 1
      BY <1>6, <2>2
    <3> QED
      BY <1>0, <1>2, <1>3, <2>1, <3>1, ClosesOpenGap
  <2>3. CASE i < k
    <3>1. i \in 1 .. k - 1
      BY <1>6, <2>3
    <3> QED
      BY <1>0, <1>2, <1>3, <2>1, <3>1, ClosesOpenGap
  <2>4. k < i \/ i < k
    BY <1>6
  <2> QED
    BY <2>2, <2>3, <2>4
<1> QED
  BY <1>4, <1>5, <1>6 DEF Opens

-----------------------------------------------------------------------------
(* A rollback that runs to its end leaves memory exactly as it was.          *)

LEMMA MemoryFields ==
    ASSUME NEW m \in SoundMemory
    PROVE  /\ m = [projections |-> m.projections, openGaps |-> m.openGaps,
                   settlements |-> m.settlements, heights |-> m.heights]
           /\ m.projections \in [Token -> Seq(ProjectionEntry)]
           /\ m.openGaps \in [Token -> SettlementId \cup {NoGap}]
           /\ m.settlements \in [SettlementId -> Settlement \cup Unrecorded]
           /\ m.heights \in [Token -> Height]
BY DEF SoundMemory, Memory

LEMMA OpeningUndone ==
    ASSUME NEW m \in SoundMemory, NEW tok \in Token, NEW sid \in SettlementId, NEW settlement,
           m.openGaps[tok] = NoGap, m.settlements[sid] = NoSettlement
    PROVE  GapForgotten(GapOpened(m, tok, sid, settlement), tok, sid) = m
<1>1. [[m.openGaps EXCEPT ![tok] = sid] EXCEPT ![tok] = NoGap] = m.openGaps
  BY MemoryFields
<1>2. [[m.settlements EXCEPT ![sid] = settlement] EXCEPT ![sid] = NoSettlement] = m.settlements
  BY MemoryFields
<1>3. GapForgotten(GapOpened(m, tok, sid, settlement), tok, sid) =
        [projections |-> m.projections,
         openGaps |-> [[m.openGaps EXCEPT ![tok] = sid] EXCEPT ![tok] = NoGap],
         settlements |-> [[m.settlements EXCEPT ![sid] = settlement] EXCEPT ![sid] = NoSettlement],
         heights |-> m.heights]
  BY DEF GapForgotten, GapOpened
<1> QED
  BY <1>1, <1>2, <1>3, MemoryFields

LEMMA ClosingUndone ==
    ASSUME NEW m \in SoundMemory, NEW tok \in Token, NEW sid \in SettlementId, NEW status,
           m.openGaps[tok] = sid
    PROVE  GapOpened(GapClosed(m, tok, sid, status), tok, sid, m.settlements[sid]) = m
<1> DEFINE closed == [m.settlements EXCEPT ![sid].status = status]
<1>1. [[m.openGaps EXCEPT ![tok] = NoGap] EXCEPT ![tok] = sid] = m.openGaps
  BY MemoryFields
<1>2. [closed EXCEPT ![sid] = m.settlements[sid]] = m.settlements
  BY MemoryFields
<1>3. GapOpened(GapClosed(m, tok, sid, status), tok, sid, m.settlements[sid]) =
        [projections |-> m.projections,
         openGaps |-> [[m.openGaps EXCEPT ![tok] = NoGap] EXCEPT ![tok] = sid],
         settlements |-> [closed EXCEPT ![sid] = m.settlements[sid]],
         heights |-> m.heights]
  BY DEF GapClosed, GapOpened
<1> HIDE DEF closed
<1> QED
  BY <1>1, <1>2, <1>3, MemoryFields

\* Entry, then height, then gap, as the rollback of admit puts them back; a
\* height that may be set back is what it needs.
LEMMA AdmissionUndoneExactly ==
    ASSUME NEW m \in SoundMemory, NEW tok \in Token, NEW c \in CandidateEntry, NEW h \in Height,
           Adapter = "memory"
    PROVE  AdmissionUndone(m, AdmissionApplied(m, tok, c, h, m.openGaps[tok]), tok) = m
<1> DEFINE sid == m.openGaps[tok]
           added == EntryAdded(m, tok, c, h)
           applied == AdmissionApplied(m, tok, c, h, sid)
           undone == EntryRemoved(applied, tok, m.heights[tok])
           closed == [m.settlements EXCEPT ![sid].status = "ADMITTED"]
<1>1. m.projections[tok] \in Seq(ProjectionEntry) /\ IntervalsClosed(m.projections[tok])
  BY MemoryFields DEF SoundMemory, ProjectionInvariants
<1>2. UndoLastAdmit(Admit(m.projections[tok], c)) = m.projections[tok]
  BY <1>1, UndoRestores
<1>3. /\ applied.projections = [m.projections EXCEPT ![tok] = Admit(m.projections[tok], c)]
      /\ applied.heights = [m.heights EXCEPT ![tok] = h]
  BY DEF AdmissionApplied, GapClosed, EntryAdded
<1>4. undone = [projections |-> m.projections, openGaps |-> applied.openGaps,
                settlements |-> applied.settlements, heights |-> m.heights]
  <2> HIDE DEF applied
  <2>1. applied.projections[tok] = Admit(m.projections[tok], c)
    BY <1>3, MemoryFields
  <2>2. [applied.projections EXCEPT ![tok] = UndoLastAdmit(@)] =
           [applied.projections EXCEPT ![tok] = m.projections[tok]]
    BY <1>2, <2>1
  <2>3. [applied.projections EXCEPT ![tok] = m.projections[tok]] = m.projections
    BY <1>3, MemoryFields
  <2>4. [applied.heights EXCEPT ![tok] = m.heights[tok]] = m.heights
    BY <1>3, MemoryFields
  <2> QED
    BY <2>2, <2>3, <2>4 DEF EntryRemoved
<1>5. AdvanceThrows(applied.heights, tok, m.heights[tok]) = FALSE
  BY DEF AdvanceThrows
<1>6. CASE sid = NoGap
  <2>1. applied.openGaps = m.openGaps /\ applied.settlements = m.settlements
    BY <1>6 DEF AdmissionApplied, EntryAdded
  <2>2. AdmissionUndone(m, applied, tok) = undone
    BY <1>5, <1>6 DEF AdmissionUndone
  <2> HIDE DEF applied, undone
  <2>3. AdmissionUndone(m, applied, tok) = m
    BY <1>4, <2>1, <2>2, MemoryFields
  <2> QED
    BY <2>3 DEF applied
<1>7. CASE sid # NoGap
  <2>0. sid \in SettlementId
    BY <1>7, MemoryFields
  <2>1. applied.openGaps = [m.openGaps EXCEPT ![tok] = NoGap] /\ applied.settlements = closed
    BY <1>7 DEF AdmissionApplied, GapClosed, EntryAdded
  <2>2. AdmissionUndone(m, applied, tok) = GapOpened(undone, tok, sid, m.settlements[sid])
    BY <1>5, <1>7 DEF AdmissionUndone
  <2> HIDE DEF applied, undone
  <2>3. GapOpened(undone, tok, sid, m.settlements[sid]) =
          [projections |-> m.projections,
           openGaps |-> [applied.openGaps EXCEPT ![tok] = sid],
           settlements |-> [applied.settlements EXCEPT ![sid] = m.settlements[sid]],
           heights |-> m.heights]
    BY <1>4 DEF GapOpened
  <2>4. [applied.openGaps EXCEPT ![tok] = sid] = m.openGaps
    BY <2>1, MemoryFields
  <2>5. [applied.settlements EXCEPT ![sid] = m.settlements[sid]] = m.settlements
    <3>1. [closed EXCEPT ![sid] = m.settlements[sid]] = m.settlements
      BY <2>0, MemoryFields
    <3> QED
      BY <2>1, <3>1
  <2>6. AdmissionUndone(m, applied, tok) = m
    BY <2>2, <2>3, <2>4, <2>5, MemoryFields
  <2> QED
    BY <2>6 DEF applied
<1> QED
  BY <1>6, <1>7

-----------------------------------------------------------------------------
(* The lines of the file after a write, a failed write and a power cut.      *)

LEMMA DurablyWrittenLines ==
    ASSUME NEW f \in FileType, NEW b \in BOOLEAN, NEW line \in Line, b => ~f.torn
    PROVE  /\ DurablyWritten(f, b, line).lines = Append(f.lines, line)
           /\ DurablyWritten(f, b, line).synced = Len(f.lines) + 1
<1> DEFINE o == Opened(f, b)
<1>1. o.lines = f.lines /\ o.torn = FALSE
  BY DEF Opened, FileType
<1> HIDE DEF o
<1>2. Written(o, line).lines = Append(f.lines, line)
  BY <1>1 DEF Written
<1>3. f.lines \in Seq(Line)
  BY DEF FileType
<1>4. Len(Append(f.lines, line)) = Len(f.lines) + 1
  BY <1>3
<1> QED
  BY <1>2, <1>4 DEF DurablyWritten, Synced, o

LEMMA CutShortLines ==
    ASSUME NEW f \in FileType, NEW b \in BOOLEAN, NEW line \in Line, b => ~f.torn,
           NEW g \in CutShort(f, b, line)
    PROVE  g.lines = f.lines \/ g.lines = Append(f.lines, line)
<1> DEFINE o == Opened(f, b)
           part == [lines |-> o.lines, torn |-> TRUE, uncut |-> FALSE, synced |-> o.synced]
<1>1. o.lines = f.lines /\ o.torn = FALSE /\ HalfOpened(f, b).lines = f.lines
  BY DEF Opened, HalfOpened, FileType
<1>2. g \in {f, HalfOpened(f, b), o, part, Written(o, line)}
  BY DEF CutShort
<1> HIDE DEF o
<1>3. Written(o, line).lines = Append(f.lines, line)
  BY <1>1 DEF Written
<1> QED
  BY <1>1, <1>2, <1>3

LEMMA PowerCutLawful ==
    ASSUME NEW f \in FileType, Lawful(f.lines), NEW g \in AfterPowerCut(f)
    PROVE  Lawful(g.lines)
<1>1. f.synced \in Nat /\ f.lines \in Seq(Line)
  BY DEF FileType
<1>2. PICK n \in f.synced .. Len(f.lines), b \in BOOLEAN :
        g = [lines |-> SubSeq(f.lines, 1, n), torn |-> b, uncut |-> FALSE, synced |-> n]
  BY DEF AfterPowerCut
<1>3. n \in 0 .. Len(f.lines)
  BY <1>1
<1> QED
  BY <1>1, <1>2, <1>3, LawfulPrefix

LEMMA CutShortLawful ==
    ASSUME NEW f \in FileType, NEW b \in BOOLEAN, b => ~f.torn, Lawful(f.lines),
           NEW x, MayFollow(f.lines, x), NEW g \in CutShort(f, b, x)
    PROVE  Lawful(g.lines)
<1>1. x \in Line /\ f.lines \in Seq(Line)
  BY DEF MayFollow, FileType
<1>2. Lawful(Append(f.lines, x))
  BY <1>1, LawfulAppend
<1> QED
  BY <1>1, <1>2, CutShortLines

LEMMA DiesWritingLawful ==
    ASSUME StoreOK, DurableOK, ~poisoned, Lawful(file.lines),
           NEW x, MayFollow(file.lines, x), DiesWriting(x)
    PROVE  Lawful(file'.lines)
<1>1. file \in FileType /\ opened \in BOOLEAN /\ (opened => ~file.torn) /\ x \in Line
  BY DEF StoreOK, DurableOK, MayFollow
<1>2. ASSUME NEW g \in CutShort(file, opened, x)
      PROVE  g \in FileType /\ Lawful(g.lines)
  BY <1>1, CutShortType, CutShortLawful
<1>3. CASE file' \in CutShort(file, opened, x)
  BY <1>2, <1>3
<1>4. CASE \E g \in CutShort(file, opened, x) : file' \in AfterPowerCut(g)
  BY <1>2, <1>4, PowerCutLawful
<1> QED
  BY <1>3, <1>4 DEF DiesWriting

-----------------------------------------------------------------------------
(* The header of a file.                                                     *)

LEMMA LastIndex ==
    ASSUME NEW n \in Nat, NEW S, S \subseteq 1 .. n, S # {}
    PROVE  \E i \in S : \A j \in S : j <= i
<1> DEFINE fromEnd == {n - j : j \in S}
<1>0. PICK k : k \in S
  OBVIOUS
<1>1. fromEnd \subseteq Nat /\ fromEnd # {}
  <2>1. \A j \in S : n - j \in Nat
    OBVIOUS
  <2>2. n - k \in fromEnd
    BY <1>0
  <2> QED
    BY <2>1, <2>2
<1> HIDE DEF fromEnd
<1>2. PICK x \in fromEnd : \A y \in fromEnd : x <= y
  BY <1>1, LeastNatural
<1> USE DEF fromEnd
<1>3. PICK i \in S : x = n - i
  OBVIOUS
<1>4. \A j \in S : n - i <= n - j
  BY <1>2, <1>3
<1>5. \A j \in S : j <= i
  BY <1>4
<1> QED
  BY <1>5

LEMMA StoredHeader ==
    ASSUME NEW f \in FileType
    PROVE  \/ /\ StoredIdentity(f) = NoIdentity
              /\ \A i \in 1 .. Len(f.lines) : f.lines[i].kind # "header"
           \/ /\ StoredIdentity(f) \in Identity
              /\ \E i \in 1 .. Len(f.lines) : f.lines[i] = HeaderLine(StoredIdentity(f))
<1> DEFINE headers == {i \in DOMAIN f.lines : f.lines[i].kind = "header"}
           last == CHOOSE i \in headers : \A j \in headers : j <= i
<1>1. f.lines \in Seq(Line) /\ DOMAIN f.lines = 1 .. Len(f.lines) /\ Len(f.lines) \in Nat
  BY DEF FileType
<1>2. CASE headers = {}
  BY <1>1, <1>2 DEF StoredIdentity
<1>3. CASE headers # {}
  <2>1. headers \subseteq 1 .. Len(f.lines)
    BY <1>1
  <2>2. StoredIdentity(f) = f.lines[last].identity
    BY <1>3 DEF StoredIdentity
  <2>3. last \in headers
    <3> HIDE DEF headers
    <3>1. \E i \in headers : \A j \in headers : j <= i
      BY <1>1, <1>3, <2>1, LastIndex
    <3> QED
      BY <3>1
  <2>4. last \in 1 .. Len(f.lines) /\ f.lines[last].kind = "header"
    BY <1>1, <2>3
  <2> HIDE DEF last
  <2>5. f.lines[last] \in Line
    BY <1>1, <2>4
  <2>6. PICK id \in Identity : f.lines[last] = HeaderLine(id)
    BY <2>4, <2>5, RecordKinds DEF Line, Glued
  <2>7. StoredIdentity(f) = id
    BY <2>2, <2>6 DEF HeaderLine
  <2> QED
    BY <2>4, <2>6, <2>7
<1> QED
  BY <1>2, <1>3

-----------------------------------------------------------------------------
(* The inductive invariant.  The journal is lawful, so that every prefix    *)
(* replays without a refusal; memory is what the lines applied to it, or    *)
(* written by it, replay to; and the file carries the header of the store   *)
(* that runs and of every store that acknowledged something.                *)

\* Memory is what the lines replayed so far give; on a store that serves, all of
\* them, or all but the last one, whose append failed after writing it.
Remembers ==
    /\ mode = "down" => mem = FreshMemory
    /\ mode = "replaying" =>
          replayed \in 0 .. Len(file.lines) /\ mem = After(file.lines, replayed).mem
    /\ mode = "up" =>
          \/ mem = Replay(file.lines).mem
          \/ /\ poisoned
             /\ file.lines # <<>>
             /\ mem = After(file.lines, Len(file.lines) - 1).mem

\* The header of a store that runs is on disk.
Headed == mode # "down" => \E i \in 1 .. Len(file.lines) : file.lines[i] = HeaderLine(identity)

\* Of a store that acknowledged something, durably.
Vouched == \A a \in acked : \E i \in 1 .. file.synced : file.lines[i] = HeaderLine(a.identity)

ReplayOK == Lawful(file.lines) /\ Remembers /\ Headed /\ Vouched

\* The record closes the gap of memory on its side of the deadline.
Timely(r) ==
    /\ r.kind = "admitted" /\ r.settlementId # NoGap =>
          now <= mem.settlements[r.settlementId].deadline
    /\ r.kind = "gap-cancelled" => now > mem.settlements[r.settlementId].deadline

\* What every journaled mutation of a running store has in common: the record
\* it appends is lawful and in time, replaying the record does to memory what the mutation
\* did, and if the append throws the rollback is exact.
Journals(r) ==
    /\ mode = "up" /\ ~poisoned
    /\ LawfulRecord(mem, r)
    /\ Timely(r)
    /\ \E undone, restored :
          /\ "append" \in Fault => undone = mem /\ restored = TRUE
          /\ Record(r, ReplayResult(mem, r), undone, restored)

LEMMA BeginJournals ==
    ASSUME StoreOK, NEW sid \in SettlementId, NEW tok \in Token, NEW account \in Account,
           NEW holder \in Address, NEW deadline \in Time,
           Begin(sid, tok, account, holder, deadline)
    PROVE  \E r \in JournalRecord : Journals(r)
<1> DEFINE settlement == [tokenId |-> tok, initiator |-> account, expectedHolder |-> holder,
                          deadline |-> deadline, status |-> "OPEN"]
           applied == GapOpened(mem, tok, sid, settlement)
           undone == GapForgotten(applied, tok, sid)
           record == [kind |-> "gap-opened", tokenId |-> tok, settlementId |-> sid,
                      settlement |-> settlement]
<1>1. settlement \in Settlement
  BY DEF Settlement
<1>2. record \in JournalRecord
  BY <1>1 DEF JournalRecord, GapOpenedRecord
<1>3. /\ mem \in SoundMemory /\ mode = "up" /\ ~poisoned
      /\ mem.openGaps[tok] = NoGap /\ mem.settlements[sid].status = "NONE"
  BY DEF StoreOK, Begin, Writable
<1>4. mem.settlements[sid] = NoSettlement
  <2>1. mem.settlements[sid] \in Settlement \cup Unrecorded
    BY <1>3, MemoryFields
  <2> QED
    BY <1>3, <2>1 DEF Settlement, Unrecorded, NoSettlement
<1>5. LawfulRecord(mem, record)
  BY <1>3, <1>4 DEF LawfulRecord, ReplayAccepts
<1>6. ReplayResult(mem, record) = applied
  BY DEF ReplayResult
<1>7. Record(record, applied, undone, TRUE)
  BY DEF Begin
<1> HIDE DEF settlement
<1>8. undone = mem
  BY <1>3, <1>4, OpeningUndone
<1>9. Timely(record)
  BY DEF Timely
<1> HIDE DEF applied, undone, record
<1>10. Journals(record)
  BY <1>3, <1>5, <1>6, <1>7, <1>8, <1>9 DEF Journals
<1> QED
  BY <1>2, <1>10

LEMMA CancelJournals ==
    ASSUME StoreOK, GapsAgree(mem), NEW sid \in SettlementId, NEW caller \in Account,
           Cancel(sid, caller)
    PROVE  \E r \in JournalRecord : Journals(r)
<1> DEFINE tok == mem.settlements[sid].tokenId
           openId == mem.openGaps[tok]
           applied == GapClosed(mem, tok, openId, "CANCELLED")
           undone == GapOpened(applied, tok, openId, mem.settlements[openId])
           record == [kind |-> "gap-cancelled", tokenId |-> tok, settlementId |-> openId]
<1>1. mem \in SoundMemory /\ mode = "up" /\ ~poisoned
  BY DEF StoreOK, Cancel, Writable
<1>2. /\ mem.settlements[sid] \in Settlement \cup Unrecorded
      /\ mem.settlements[sid].status = "OPEN"
  BY <1>1, MemoryFields DEF Cancel
<1>3. tok \in Token
  BY <1>2 DEF Settlement, Unrecorded
<1>4. openId \in SettlementId
  <2>1. openId \in SettlementId \cup {NoGap}
    BY <1>1, <1>3, MemoryFields
  <2> QED
    BY <2>1 DEF Cancel
<1>5. Record(record, applied, undone, TRUE)
  BY DEF Cancel
<1>6. LawfulRecord(mem, record)
  BY DEF LawfulRecord, ReplayAccepts
<1>7. ReplayResult(mem, record) = applied
  BY DEF ReplayResult
<1>8. record \in JournalRecord
  BY <1>3, <1>4 DEF JournalRecord, GapCancelledRecord
<1>9. undone = mem
  <2> HIDE DEF tok
  <2> QED
    BY <1>1, <1>3, <1>4, ClosingUndone
<1>10. Timely(record)
  <2>1. openId = sid
    BY <1>2, <1>3 DEF GapsAgree
  <2>2. now > mem.settlements[sid].deadline
    BY DEF Cancel, HasExpired
  <2> HIDE DEF openId
  <2> QED
    BY <2>1, <2>2 DEF Timely
<1> HIDE DEF applied, undone, record
<1>11. Journals(record)
  BY <1>1, <1>5, <1>6, <1>7, <1>9, <1>10 DEF Journals
<1> QED
  BY <1>8, <1>11

LEMMA AdmitJournals ==
    ASSUME Disciplined, StoreOK, GapsAgree(mem), NEW tok \in Token, NEW c \in CandidateEntry,
           NEW h \in Height, StoreAdmit(tok, c, h),
           mem.openGaps[tok] # NoGap => SettlementAdmissible(mem.settlements[mem.openGaps[tok]], c)
    PROVE  \E r \in JournalRecord : Journals(r)
<1> DEFINE sid == mem.openGaps[tok]
           applied == AdmissionApplied(mem, tok, c, h, sid)
           undone == AdmissionUndone(mem, applied, tok)
           restored == ~AdvanceThrows(applied.heights, tok, mem.heights[tok])
           record == [kind |-> "admitted", tokenId |-> tok, entry |-> c, remoteHeight |-> h,
                      settlementId |-> sid]
<1>1. /\ mem \in SoundMemory /\ mode = "up" /\ ~poisoned
      /\ Admissible(mem.projections[tok], c) /\ h > mem.heights[tok]
  BY DEF StoreOK, StoreAdmit, Writable
<1>2. sid \in SettlementId \cup {NoGap}
  BY <1>1, MemoryFields
<1>3. record \in JournalRecord
  BY <1>2 DEF JournalRecord, AdmittedRecord
<1>4. Record(record, applied, undone, restored)
  BY DEF StoreAdmit
<1>5. ReplayResult(mem, record) = applied
  BY DEF ReplayResult
<1>6. LawfulRecord(mem, record)
  <2>1. mem.heights[tok] \in Nat /\ h \in Nat
    BY <1>1, StoreAssumption, MemoryFields DEF Height
  <2>2. ~AdvanceThrows(mem.heights, tok, h)
    BY <1>1, <2>1 DEF AdvanceThrows
  <2>3. sid # NoGap => c.holder = mem.settlements[sid].expectedHolder
    BY DEF SettlementAdmissible
  <2> QED
    BY <1>1, <2>2, <2>3 DEF LawfulRecord, ReplayAccepts
<1>7. "append" \in Fault => undone = mem /\ restored = TRUE
  <2> SUFFICES ASSUME "append" \in Fault
               PROVE  undone = mem /\ restored = TRUE
    OBVIOUS
  <2>1. Adapter = "memory"
    BY DEF Disciplined
  <2>2. restored = TRUE
    BY <2>1 DEF AdvanceThrows
  <2>3. undone = mem
    BY <1>1, <2>1, AdmissionUndoneExactly
  <2> QED
    BY <2>2, <2>3
<1>8. Timely(record)
  BY DEF Timely, SettlementAdmissible
<1> HIDE DEF applied, undone, restored, record
<1>9. Journals(record)
  BY <1>1, <1>4, <1>5, <1>6, <1>7, <1>8 DEF Journals
<1> QED
  BY <1>3, <1>9

-----------------------------------------------------------------------------
(* Steps.                                                                    *)

LEMMA StaysVouched ==
    ASSUME Vouched, WellSynced(file), WellSynced(file'), Keeps(file, file'), UNCHANGED acked
    PROVE  Vouched'
<1>1. /\ file.synced \in Nat /\ file'.synced \in Nat /\ file.synced <= file'.synced
      /\ \A i \in 1 .. file.synced : file'.lines[i] = file.lines[i]
  BY DEF WellSynced, FileType, Keeps
<1> SUFFICES ASSUME NEW a \in acked
             PROVE  \E i \in 1 .. file'.synced : file'.lines[i] = HeaderLine(a.identity)
  BY DEF Vouched
<1>2. PICK i \in 1 .. file.synced : file.lines[i] = HeaderLine(a.identity)
  BY DEF Vouched
<1>3. i \in 1 .. file'.synced
  BY <1>1, <1>2
<1> QED
  BY <1>1, <1>2, <1>3

LEMMA GoesDown ==
    ASSUME ReplayOK, WellSynced(file), WellSynced(file'), Keeps(file, file'), UNCHANGED acked,
           mode' = "down", mem' = FreshMemory, Lawful(file'.lines)
    PROVE  ReplayOK'
<1>1. Vouched'
  BY StaysVouched DEF ReplayOK
<1> QED
  BY <1>1 DEF ReplayOK, Remembers, Headed

LEMMA DiesWritingReplays ==
    ASSUME StoreOK, DurableOK, ReplayOK, ~poisoned,
           NEW x, MayFollow(file.lines, x), DiesWriting(x)
    PROVE  ReplayOK'
<1>1. x \in Line /\ WellSynced(file) /\ opened \in BOOLEAN
  BY DEF MayFollow, DurableOK, StoreOK
<1>2. Keeps(file, file') /\ WellSynced(file')
  BY <1>1, DiesWritingKeeps
<1>3. Lawful(file'.lines)
  BY DiesWritingLawful DEF ReplayOK
<1> QED
  BY <1>1, <1>2, <1>3, GoesDown DEF DiesWriting, ProcessGone

LEMMA UpReplays ==
    ASSUME ReplayOK, mode = "up", ~poisoned
    PROVE  mem = Replay(file.lines).mem
BY DEF ReplayOK, Remembers

LEMMA JournalsReplays ==
    ASSUME StoreOK, DurableOK, ReplayOK, NEW r \in JournalRecord, Journals(r)
    PROVE  ReplayOK'
<1> DEFINE lines == file.lines
<1>1. /\ WellSynced(file) /\ file \in FileType /\ opened \in BOOLEAN /\ (opened => ~file.torn)
      /\ r \in Line /\ lines \in Seq(Line) /\ Len(lines) \in Nat /\ file.synced \in Nat
      /\ file.synced <= Len(lines)
  BY DEF StoreOK, DurableOK, Line, Journals, FileType, WellSynced
<1>2. mem = Replay(lines).mem
  BY UpReplays DEF Journals
<1>3. MayFollow(lines, r)
  BY <1>1, <1>2, RecordKinds DEF MayFollow, Journals
<1>4. /\ Lawful(Append(lines, r))
      /\ After(Append(lines, r), Len(lines)) = Replay(lines)
      /\ Replay(Append(lines, r)).mem = ReplayResult(Replay(lines).mem, r)
  BY <1>1, <1>3, LawfulAppend DEF ReplayOK
<1>5. /\ Len(Append(lines, r)) = Len(lines) + 1
      /\ \A i \in 1 .. Len(lines) : Append(lines, r)[i] = lines[i]
      /\ Append(lines, r) # <<>>
  BY <1>1
<1>6. PICK h \in 1 .. Len(lines) : lines[h] = HeaderLine(identity)
  BY DEF ReplayOK, Headed, Journals
<1>7. PICK undone, restored :
        /\ "append" \in Fault => undone = mem /\ restored = TRUE
        /\ Record(r, ReplayResult(mem, r), undone, restored)
  BY DEF Journals
<1>8. CASE /\ mem' = ReplayResult(mem, r)
           /\ file' = DurablyWritten(file, opened, r)
           /\ acked' = acked \cup {[identity |-> identity, record |-> r]}
           /\ UNCHANGED <<mode, identity, poisoned, replayed, now, faults>>
  <2>1. file'.lines = Append(lines, r) /\ file'.synced = Len(lines) + 1
    BY <1>1, <1>8, DurablyWrittenLines
  <2>2. Remembers'
    BY <1>2, <1>4, <1>8, <2>1 DEF Remembers, Journals
  <2>3. h \in 1 .. file'.synced /\ h \in 1 .. Len(file'.lines)
        /\ file'.lines[h] = HeaderLine(identity)
    BY <1>1, <1>5, <1>6, <2>1
  <2>4. Headed'
    BY <1>8, <2>3 DEF Headed
  <2>5. Vouched'
    <3> SUFFICES ASSUME NEW a \in acked'
                 PROVE  \E i \in 1 .. file'.synced : file'.lines[i] = HeaderLine(a.identity)
      BY DEF Vouched
    <3>1. CASE a = [identity |-> identity, record |-> r]
      BY <2>3, <3>1
    <3>2. CASE a \in acked
      <4>1. PICK i \in 1 .. file.synced : lines[i] = HeaderLine(a.identity)
        BY <3>2 DEF ReplayOK, Vouched
      <4>2. i \in 1 .. file'.synced /\ i \in 1 .. Len(lines)
        BY <1>1, <2>1, <4>1
      <4> QED
        BY <1>5, <2>1, <4>1, <4>2
    <3> QED
      BY <1>8, <3>1, <3>2
  <2> QED
    BY <1>4, <2>1, <2>2, <2>4, <2>5 DEF ReplayOK
<1>9. CASE /\ May("append")
           /\ mem' = undone
           /\ file' \in CutShort(file, opened, r)
           /\ poisoned' = PoisonedAfter(restored)
           /\ UNCHANGED <<mode, identity, replayed, now, acked>>
  <2>1. mem' = mem /\ poisoned' = TRUE /\ mode' = "up"
    BY <1>7, <1>9 DEF May, PoisonedAfter, Journals
  <2>2. Keeps(file, file') /\ WellSynced(file')
    BY <1>1, <1>9, CutShortKeeps
  <2>3. Vouched'
    BY <1>1, <1>9, <2>2, StaysVouched DEF ReplayOK
  <2>4. file'.lines = lines \/ file'.lines = Append(lines, r)
    BY <1>1, <1>9, CutShortLines
  <2>5. CASE file'.lines = lines
    <3>1. Remembers'
      BY <1>2, <2>1, <2>5 DEF Remembers
    <3>2. Headed'
      BY <1>6, <1>9, <2>5 DEF Headed
    <3> QED
      BY <2>3, <2>5, <3>1, <3>2 DEF ReplayOK
  <2>6. CASE file'.lines = Append(lines, r)
    <3>1. Len(file'.lines) - 1 = Len(lines)
      BY <1>1, <1>5, <2>6
    <3>2. Remembers'
      BY <1>2, <1>4, <1>5, <2>1, <2>6, <3>1 DEF Remembers
    <3>3. h \in 1 .. Len(file'.lines) /\ file'.lines[h] = HeaderLine(identity')
      BY <1>1, <1>5, <1>6, <1>9, <2>6
    <3>4. Headed'
      BY <3>3 DEF Headed
    <3> QED
      BY <1>4, <2>3, <2>6, <3>2, <3>4 DEF ReplayOK
  <2> QED
    BY <2>4, <2>5, <2>6
<1>10. CASE DiesWriting(r)
  BY <1>3, <1>10, DiesWritingReplays DEF Journals
<1> QED
  BY <1>7, <1>8, <1>9, <1>10 DEF Record

LEMMA RestartReplays ==
    ASSUME StoreOK, DurableOK, ReplayOK, NEW id \in Identity, Restart(id)
    PROVE  ReplayOK'
<1> DEFINE lines == file.lines
<1>1. /\ WellSynced(file) /\ file \in FileType /\ opened \in BOOLEAN /\ ~opened /\ ~poisoned
      /\ lines \in Seq(Line) /\ Len(lines) \in Nat /\ mem = FreshMemory /\ Lawful(lines)
      /\ HeaderLine(id) \in Line
  BY DEF StoreOK, DurableOK, ReplayOK, Remembers, Restart, FileType, Line
<1>2. /\ mode' = "replaying" /\ identity' = id /\ replayed' = 0
      /\ mem' = FreshMemory /\ UNCHANGED <<poisoned, acked>>
  BY <1>1 DEF Restart, Replaying
<1>3. CASE BindChecks(id) /\ file' = file
  <2>1. \E i \in 1 .. Len(lines) : lines[i] = HeaderLine(id)
    BY <1>1, <1>3, NoIdentityAssumption, StoredHeader DEF BindChecks
  <2>2. Headed'
    BY <1>2, <1>3, <2>1 DEF Headed
  <2>3. After(lines, 0).mem = FreshMemory
    BY <1>1, AfterNone DEF EmptyReplay
  <2>4. Remembers'
    <3>1. 0 \in 0 .. Len(lines)
      BY <1>1
    <3> QED
      BY <1>2, <1>3, <2>3, <3>1 DEF Remembers
  <2> QED
    BY <1>2, <1>3, <2>2, <2>4 DEF ReplayOK, Vouched
<1>4. CASE BindWrites(id) /\ file' = DurablyWritten(file, opened, HeaderLine(id))
  <2> DEFINE longer == Append(lines, HeaderLine(id))
  <2>1. \A i \in 1 .. Len(lines) : lines[i].kind # "header"
    BY <1>1, <1>4, NoIdentityAssumption, StoredHeader DEF BindWrites
  <2>2. MayFollow(lines, HeaderLine(id))
    BY <1>1, <2>1 DEF MayFollow, HeaderLine
  <2>3. Lawful(longer)
    BY <1>1, <2>2, LawfulAppend
  <2>4. file'.lines = longer
    BY <1>1, <1>4, DurablyWrittenLines
  <2>5. /\ longer \in Seq(Line) /\ Len(longer) = Len(lines) + 1
        /\ longer[Len(lines) + 1] = HeaderLine(id)
    BY <1>1
  <2> HIDE DEF longer
  <2>6. After(longer, 0).mem = FreshMemory
    BY <2>5, AfterNone DEF EmptyReplay
  <2>7. Keeps(file, file') /\ WellSynced(file')
    BY <1>1, <1>4, DurablyWrittenKeeps
  <2>8. Vouched'
    BY <1>1, <1>2, <2>7, StaysVouched DEF ReplayOK
  <2>9. Len(lines) + 1 \in 1 .. Len(longer) /\ 0 \in 0 .. Len(longer)
    BY <1>1, <2>5
  <2>10. Headed'
    BY <1>2, <2>4, <2>5, <2>9 DEF Headed
  <2>11. Remembers'
    BY <1>2, <2>4, <2>6, <2>9 DEF Remembers
  <2> QED
    BY <2>3, <2>4, <2>8, <2>10, <2>11 DEF ReplayOK
<1> QED
  BY <1>3, <1>4 DEF Restart

LEMMA RestartFailsReplays ==
    ASSUME StoreOK, DurableOK, ReplayOK, NEW id \in Identity, RestartFails(id)
    PROVE  ReplayOK'
<1>1. /\ WellSynced(file) /\ file \in FileType /\ opened \in BOOLEAN /\ ~opened /\ ~poisoned
      /\ mode = "down" /\ mem = FreshMemory /\ Lawful(file.lines) /\ HeaderLine(id) \in Line
  BY DEF StoreOK, DurableOK, ReplayOK, Remembers, RestartFails, Line
<1>2. MayFollow(file.lines, HeaderLine(id))
  <2>1. \A i \in 1 .. Len(file.lines) : file.lines[i].kind # "header"
    BY <1>1, NoIdentityAssumption, StoredHeader DEF RestartFails, BindWrites
  <2> QED
    BY <1>1, <2>1 DEF MayFollow, HeaderLine
<1>3. CASE DiesWriting(HeaderLine(id))
  BY <1>1, <1>2, <1>3, DiesWritingReplays
<1>4. CASE /\ file' \in CutShort(file, opened, HeaderLine(id))
           /\ UNCHANGED <<mode, identity, mem, poisoned, replayed, acked>>
  <2>1. Keeps(file, file') /\ WellSynced(file')
    BY <1>1, <1>4, CutShortKeeps
  <2>2. Lawful(file'.lines)
    BY <1>1, <1>2, <1>4, CutShortLawful
  <2> QED
    BY <1>1, <1>4, <2>1, <2>2, GoesDown
<1> QED
  BY <1>3, <1>4 DEF RestartFails

\* No line is refused, and after each memory is what the lines so far replay to.
LEMMA ReplayLineReplays ==
    ASSUME StoreOK, ReplayOK, ReplayLine
    PROVE  ReplayOK'
<1> DEFINE lines == file.lines
<1>1. /\ lines \in Seq(Line) /\ Len(lines) \in Nat /\ Lawful(lines)
      /\ replayed \in 0 .. Len(lines) /\ replayed # Len(lines)
      /\ mem = After(lines, replayed).mem
  BY DEF StoreOK, FileType, ReplayOK, Remembers, ReplayLine
<1>2. replayed + 1 \in 1 .. Len(lines) /\ (replayed + 1) - 1 = replayed
  BY <1>1
<1>3. Sensible(lines, replayed) /\ LawfulLine(lines, replayed + 1)
  BY <1>1, <1>2 DEF Lawful
<1>4. After(lines, replayed + 1).mem = ReplayResult(mem, lines[replayed + 1])
  BY <1>1, <1>3, SensibleNext
<1>5. ReplayAccepts(mem, lines[replayed + 1])
  BY <1>1, <1>2, <1>3 DEF LawfulLine, LawfulRecord, ReplayAccepts
<1>6. /\ mem' = After(lines, replayed + 1).mem /\ replayed' = replayed + 1
      /\ UNCHANGED <<mode, identity, poisoned, file, acked>> /\ mode = "replaying"
  BY <1>4, <1>5 DEF ReplayLine
<1>7. Remembers'
  BY <1>2, <1>6 DEF Remembers
<1> QED
  BY <1>6, <1>7 DEF ReplayOK, Headed, Vouched

LEMMA ServeReplays ==
    ASSUME StoreOK, ReplayOK, Serve
    PROVE  ReplayOK'
<1>1. mem = Replay(file.lines).mem
  BY AfterAll DEF StoreOK, FileType, ReplayOK, Remembers, Serve
<1>2. Remembers'
  BY <1>1 DEF Remembers, Serve
<1> QED
  BY <1>2 DEF ReplayOK, Headed, Vouched, Serve

LEMMA UnchangedReplays ==
    ASSUME ReplayOK, UNCHANGED <<mode, identity, mem, poisoned, file, replayed, acked>>
    PROVE  ReplayOK'
BY DEF ReplayOK, Remembers, Headed, Vouched

LEMMA AgreeWhileUp ==
    ASSUME StoreOK, ReplayOK, mode = "up", ~poisoned
    PROVE  GapsAgree(mem)
BY UpReplays, LawfulLoads DEF StoreOK, FileType, ReplayOK

\* Every step of the store, or of the world around it, is one of six.
LEMMA StepKinds ==
    ASSUME Disciplined, StoreOK, ReplayOK, Step
    PROVE  \/ \E r \in JournalRecord : Journals(r)
           \/ \E id \in Identity : Restart(id) \/ RestartFails(id)
           \/ ReplayLine \/ Serve
           \/ Crash \/ PowerCut \/ GiveUp
           \/ Close \/ Tick
<1>1. ASSUME NEW sid \in SettlementId, NEW c \in CandidateEntry, NEW h \in Height,
             Finalize(sid, c, h)
      PROVE  \E r \in JournalRecord : Journals(r)
  <2> DEFINE tok == mem.settlements[sid].tokenId
  <2>1. mem \in SoundMemory /\ mode = "up" /\ ~poisoned
    BY <1>1 DEF StoreOK, Finalize, StoreAdmit, Writable
  <2>2. GapsAgree(mem)
    BY <2>1, AgreeWhileUp
  <2>3. mem.settlements[sid].status = "OPEN" /\ SettlementAdmissible(mem.settlements[sid], c)
    BY <1>1 DEF Finalize, SettlementAdmissible
  <2>4. tok \in Token
    BY <2>1, <2>3, MemoryFields DEF Settlement, Unrecorded
  <2>5. mem.openGaps[tok] = sid
    BY <2>2, <2>3, <2>4 DEF GapsAgree
  <2>6. StoreAdmit(tok, c, h)
    BY <1>1 DEF Finalize
  <2> HIDE DEF tok
  <2> QED
    BY <2>2, <2>3, <2>4, <2>5, <2>6, AdmitJournals
<1>2. ASSUME NEW tok \in Token, NEW c \in CandidateEntry, NEW h \in Height,
             PostAdmission(tok, c, h)
      PROVE  \E r \in JournalRecord : Journals(r)
  <2>1. GapsAgree(mem)
    BY <1>2, AgreeWhileUp DEF PostAdmission, StoreAdmit, Writable
  <2> QED
    BY <1>2, <2>1, AdmitJournals DEF PostAdmission
<1>3. ASSUME NEW sid \in SettlementId, NEW caller \in Account, Cancel(sid, caller)
      PROVE  \E r \in JournalRecord : Journals(r)
  <2>1. GapsAgree(mem)
    BY <1>3, AgreeWhileUp DEF Cancel, Writable
  <2> QED
    BY <1>3, <2>1, CancelJournals
<1>4. ASSUME NEW sid \in SettlementId, NEW tok \in Token, NEW account \in Account,
             NEW holder \in Address, NEW deadline \in Time,
             Begin(sid, tok, account, holder, deadline)
      PROVE  \E r \in JournalRecord : Journals(r)
  BY <1>4, BeginJournals
<1> QED
  BY <1>1, <1>2, <1>3, <1>4 DEF Step

LEMMA StepReplays ==
    ASSUME Disciplined, StoreOK, DurableOK, ReplayOK, Step
    PROVE  ReplayOK'
<1>1. WellSynced(file) /\ file \in FileType /\ Keeps(file, file) /\ Lawful(file.lines)
  BY DEF StoreOK, DurableOK, ReplayOK, Keeps, WellSynced, FileType
<1>2. CASE \E r \in JournalRecord : Journals(r)
  BY <1>2, JournalsReplays
<1>3. CASE \E id \in Identity : Restart(id) \/ RestartFails(id)
  BY <1>3, RestartReplays, RestartFailsReplays
<1>4. CASE ReplayLine
  BY <1>4, ReplayLineReplays
<1>5. CASE Serve
  BY <1>5, ServeReplays
<1>6. CASE Crash
  BY <1>1, <1>6, GoesDown DEF Crash, ProcessGone
<1>7. CASE PowerCut
  <2>1. Keeps(file, file') /\ WellSynced(file')
    BY <1>1, <1>7, AfterPowerCutKeeps DEF PowerCut
  <2>2. Lawful(file'.lines)
    BY <1>1, <1>7, PowerCutLawful DEF PowerCut
  <2> QED
    BY <1>1, <1>7, <2>1, <2>2, GoesDown DEF PowerCut, ProcessGone
<1>8. CASE GiveUp
  BY <1>1, <1>8, GoesDown DEF GiveUp
<1>9. CASE Close \/ Tick
  BY <1>9, UnchangedReplays DEF Close, Tick
<1> QED
  BY <1>2, <1>3, <1>4, <1>5, <1>6, <1>7, <1>8, <1>9, StepKinds

LEMMA InitReplays == Init => ReplayOK
<1> SUFFICES ASSUME Init PROVE ReplayOK
  OBVIOUS
<1>1. Lawful(file.lines)
  BY LawfulEmpty DEF Init, EmptyFile
<1> QED
  BY <1>1 DEF Init, ReplayOK, Remembers, Headed, Vouched

\* The three invariants together.
RegisterInv == StoreInv /\ DurableOK /\ ReplayOK

LEMMA InitRegister == Init => RegisterInv
<1>1. Init => DurableOK
  BY DEF Init, DurableOK, WellSynced, FileType, EmptyFile, AckedDurable
<1> QED
  BY <1>1, InitInv, InitReplays DEF RegisterInv

LEMMA NextRegister ==
    ASSUME Disciplined, RegisterInv, [Next]_vars
    PROVE  RegisterInv'
<1>1. StoreInv'
  BY NextInv DEF RegisterInv
<1>2. CASE Next
  <2>1. DurableOK' /\ ReplayOK'
    BY <1>2, StepDurable, StepReplays DEF RegisterInv, StoreInv, Next
  <2> QED
    BY <1>1, <2>1 DEF RegisterInv
<1>3. CASE UNCHANGED vars
  BY <1>1, <1>3, UnchangedDurable, UnchangedReplays DEF vars, RegisterInv
<1> QED
  BY <1>2, <1>3

\* A lawful journal, and memory that agrees with it, in every reachable state:
\* what the five theorems below are read off.
THEOREM RegisterInvariant ==
    ASSUME Disciplined
    PROVE  Spec => []RegisterInv
BY InitRegister, NextRegister, PTL DEF Spec

\* The file can always be read and replayed to its end: no failed or interrupted
\* append, and no recovery from one, leaves a journal that takes the register
\* down at the next start.
THEOREM JournalAlwaysLoads ==
    ASSUME Disciplined
    PROVE  Spec => []JournalLoads
<1>1. RegisterInv => JournalLoads
  BY LawfulLoads DEF RegisterInv, StoreInv, StoreOK, FileType, ReplayOK, JournalLoads, Parses
<1> QED
  BY <1>1, RegisterInvariant, PTL

\* A healthy store holds exactly what replaying its file would give.
THEOREM MemoryIsTheJournal ==
    ASSUME Disciplined
    PROVE  Spec => []MemoryMatchesJournal
<1>1. RegisterInv => MemoryMatchesJournal
  BY DEF RegisterInv, ReplayOK, Remembers, MemoryMatchesJournal, After
<1> QED
  BY <1>1, RegisterInvariant, PTL

LEMMA RegisterAgrees ==
    ASSUME RegisterInv
    PROVE  GapsAgree(mem)
<1>1. file.lines \in Seq(Line) /\ Len(file.lines) \in Nat /\ Lawful(file.lines)
  BY DEF RegisterInv, StoreInv, StoreOK, FileType, ReplayOK
<1>2. \A n \in 0 .. Len(file.lines) : GapsAgree(After(file.lines, n).mem)
  BY <1>1 DEF Lawful, Sensible
<1>3. /\ 0 \in 0 .. Len(file.lines) /\ Len(file.lines) \in 0 .. Len(file.lines)
      /\ file.lines # <<>> => Len(file.lines) - 1 \in 0 .. Len(file.lines)
  BY <1>1
<1>4. /\ FreshMemory = After(file.lines, 0).mem
      /\ Replay(file.lines) = After(file.lines, Len(file.lines))
  BY <1>1, AfterNone, AfterAll DEF EmptyReplay
<1>5. \E n \in 0 .. Len(file.lines) : mem = After(file.lines, n).mem
  BY <1>3, <1>4 DEF RegisterInv, StoreInv, StoreOK, ReplayOK, Remembers
<1> QED
  BY <1>2, <1>5

\* Open-gap pointers and settlement records tell the same story, live, rolled
\* back or half replayed.
THEOREM GapPointersAgree ==
    ASSUME Disciplined
    PROVE  Spec => []GapPointerConsistent
<1>1. RegisterInv => GapPointerConsistent
  BY RegisterAgrees DEF GapsAgree, GapPointerConsistent
<1> QED
  BY <1>1, RegisterInvariant, PTL

\* The journal closes a gap at most once, after it was opened and on its token,
\* by an entry for the holder it was opened for, and not after it was cancelled.
THEOREM SettlementsAreHonoured ==
    ASSUME Disciplined
    PROVE  Spec => []SettlementsHonoured
<1>1. RegisterInv => SettlementsHonoured
  BY LawfulHonours DEF RegisterInv, StoreInv, StoreOK, FileType, ReplayOK
<1> QED
  BY <1>1, RegisterInvariant, PTL

\* Whatever was ever acknowledged was acknowledged under the identity the store
\* runs with.
THEOREM IdentityStaysBound ==
    ASSUME Disciplined
    PROVE  Spec => []IdentityBound
<1>1. RegisterInv => IdentityBound
  <2> SUFFICES ASSUME RegisterInv, mode # "down", NEW a \in acked
               PROVE  a.identity = identity
    BY DEF IdentityBound
  <2>1. PICK i \in 1 .. Len(file.lines) : file.lines[i] = HeaderLine(identity)
    BY DEF RegisterInv, ReplayOK, Headed
  <2>2. PICK j \in 1 .. file.synced : file.lines[j] = HeaderLine(a.identity)
    BY DEF RegisterInv, ReplayOK, Vouched
  <2>3. j \in 1 .. Len(file.lines)
    BY <2>2 DEF RegisterInv, DurableOK, WellSynced, FileType
  <2>4. HeaderLine(a.identity) = HeaderLine(identity)
    BY <2>1, <2>2, <2>3 DEF RegisterInv, ReplayOK, Lawful, OneIdentity, HeaderLine
  <2> QED
    BY <2>4 DEF HeaderLine
<1> QED
  BY <1>1, RegisterInvariant, PTL

\* A record adds to a token's history exactly when it moves the token's height,
\* and then, and only then, it admits the settlement the token pointed at.
LEMMA RecordAtomic ==
    ASSUME NEW m \in SoundMemory, NEW r \in JournalRecord, LawfulRecord(m, r), GapsAgree(m),
           NEW n, n = ReplayResult(m, r), NEW tok \in Token
    PROVE  /\ n.heights[tok] # m.heights[tok] <=>
                Len(n.projections[tok]) > Len(m.projections[tok])
           /\ \A sid \in SettlementId :
                m.openGaps[tok] = sid =>
                   (Len(n.projections[tok]) > Len(m.projections[tok])
                      <=> n.settlements[sid].status = "ADMITTED")
<1>1. Len(m.projections[tok]) \in Nat
  BY MemoryFields
<1>2. \A sid \in SettlementId :
        m.openGaps[tok] = sid =>
            m.settlements[sid].status = "OPEN" /\ m.settlements[sid].tokenId = tok
  BY DEF GapsAgree
<1>3. CASE r.kind = "gap-opened"
  <2>1. n.projections = m.projections /\ n.heights = m.heights
    BY <1>3 DEF ReplayResult, GapOpened
  <2>2. Opening(m, n, r.tokenId, r.settlementId, r.settlement)
    BY <1>3, RecordShape
  <2>3. \A sid \in SettlementId : m.openGaps[tok] = sid => n.settlements[sid].status = "OPEN"
    BY <1>2, <2>2 DEF Opening
  <2> QED
    BY <1>1, <2>1, <2>3
<1>4. CASE r.kind = "gap-cancelled"
  <2>1. n.projections = m.projections /\ n.heights = m.heights
    BY <1>4 DEF ReplayResult, GapClosed
  <2>2. Closing(m, n, r.tokenId, r.settlementId, "CANCELLED")
    BY <1>4, RecordShape
  <2>3. \A sid \in SettlementId :
          m.openGaps[tok] = sid => n.settlements[sid].status \in {"OPEN", "CANCELLED"}
    BY <1>2, <2>2 DEF Closing
  <2> QED
    BY <1>1, <2>1, <2>3
<1>5. CASE r.kind = "admitted"
  <2> DEFINE t == r.tokenId
             longer == Admit(m.projections[t], r.entry)
  <2>1. r \in AdmittedRecord
    BY <1>5, RecordKinds
  <2>2. t \in Token /\ r.entry \in CandidateEntry /\ r.remoteHeight \in Height
        /\ r.settlementId \in SettlementId \cup {NoGap}
    BY <2>1 DEF AdmittedRecord
  <2>3. n = AdmissionApplied(m, t, r.entry, r.remoteHeight, r.settlementId)
    BY <1>5 DEF ReplayResult
  <2>4. /\ n.projections = [m.projections EXCEPT ![t] = longer]
        /\ n.heights = [m.heights EXCEPT ![t] = r.remoteHeight]
    BY <2>3 DEF AdmissionApplied, GapClosed, EntryAdded
  <2>5. Len(longer) = Len(m.projections[t]) + 1 /\ Len(m.projections[t]) \in Nat
    BY <2>2, MemoryFields, AdmitShape
  <2>6. r.remoteHeight > m.heights[t] /\ m.openGaps[t] = r.settlementId
    BY <1>5 DEF LawfulRecord
  <2>7. m.heights[t] \in Nat /\ r.remoteHeight \in Nat
    BY <2>2, StoreAssumption, MemoryFields DEF Height
  <2>8. r.settlementId # NoGap => Closing(m, n, t, r.settlementId, "ADMITTED")
    BY <1>5, RecordShape
  <2>9. r.settlementId = NoGap => n.settlements = m.settlements
    BY <1>5, RecordShape DEF Leaving
  <2> HIDE DEF t, longer
  <2>10. CASE tok = t
    <3>1. Len(n.projections[tok]) > Len(m.projections[tok])
      BY <2>2, <2>4, <2>5, <2>10, MemoryFields
    <3>2. n.heights[tok] # m.heights[tok]
      BY <2>2, <2>4, <2>6, <2>7, <2>10, MemoryFields
    <3>3. \A sid \in SettlementId :
            m.openGaps[tok] = sid => n.settlements[sid].status = "ADMITTED"
      BY <2>6, <2>8, <2>10, StoreAssumption DEF Closing
    <3> QED
      BY <3>1, <3>2, <3>3
  <2>11. CASE tok # t
    <3>1. n.projections[tok] = m.projections[tok] /\ n.heights[tok] = m.heights[tok]
      BY <2>2, <2>4, <2>11, MemoryFields
    <3>2. ASSUME NEW sid \in SettlementId, m.openGaps[tok] = sid
          PROVE  n.settlements[sid].status = "OPEN"
      <4>1. sid # r.settlementId
        BY <1>2, <2>2, <2>6, <2>11, <3>2 DEF GapsAgree
      <4>2. n.settlements[sid] = m.settlements[sid]
        BY <2>8, <2>9, <4>1 DEF Closing
      <4> QED
        BY <1>2, <3>2, <4>2
    <3> QED
      BY <1>1, <3>1, <3>2
  <2> QED
    BY <2>10, <2>11
<1> QED
  BY <1>3, <1>4, <1>5, RecordKinds

\* Entry, accepted height and gap move together or not at all, in every step of
\* a running store, whatever its append did.
THEOREM AdmissionsAreAtomic ==
    ASSUME Disciplined
    PROVE  Spec => AdmissionAtomic
<1> DEFINE Atomic ==
      mode = "up" /\ mode' = "up" =>
        \A tok \in Token :
            LET before == mem
                after == mem'
                admitted == Len(after.projections[tok]) > Len(before.projections[tok])
            IN  /\ after.heights[tok] # before.heights[tok] <=> admitted
                /\ \A sid \in SettlementId :
                     (before.openGaps[tok] = sid =>
                        (admitted <=> after.settlements[sid].status = "ADMITTED"))
<1>1. ASSUME RegisterInv, Next, mode = "up", mode' = "up", NEW tok \in Token
      PROVE  /\ mem'.heights[tok] # mem.heights[tok] <=>
                   Len(mem'.projections[tok]) > Len(mem.projections[tok])
             /\ \A sid \in SettlementId :
                   mem.openGaps[tok] = sid =>
                      (Len(mem'.projections[tok]) > Len(mem.projections[tok])
                         <=> mem'.settlements[sid].status = "ADMITTED")
  <2>1. StoreOK /\ ReplayOK /\ Step /\ mem \in SoundMemory
    BY <1>1 DEF RegisterInv, StoreInv, StoreOK, Next
  <2>2. CASE mem' = mem /\ GapsAgree(mem)
    <3>1. Len(mem.projections[tok]) \in Nat
      BY <2>1, MemoryFields
    <3> QED
      BY <2>2, <3>1 DEF GapsAgree
  <2>3. CASE \E r \in JournalRecord : Journals(r)
    <3>1. PICK r \in JournalRecord : Journals(r)
      BY <2>3
    <3>2. GapsAgree(mem) /\ LawfulRecord(mem, r)
      BY <2>1, <3>1, AgreeWhileUp DEF Journals
    <3>3. mem' = ReplayResult(mem, r) \/ mem' = mem
      BY <1>1, <3>1 DEF Journals, Record, DiesWriting, ProcessGone, May
    <3>4. CASE mem' = ReplayResult(mem, r)
      BY <2>1, <3>2, <3>4, RecordAtomic
    <3>5. CASE mem' = mem
      BY <2>2, <3>2, <3>5
    <3> QED
      BY <3>3, <3>4, <3>5
  <2>4. CASE Close \/ Tick
    <3>1. mem' = mem
      BY <2>4 DEF Close, Tick
    <3>2. GapsAgree(mem)
      BY <1>1, RegisterAgrees
    <3> QED
      BY <2>2, <3>1, <3>2
  <2>5. ~(\E id \in Identity : Restart(id) \/ RestartFails(id))
    BY <1>1 DEF Restart, RestartFails
  <2>6. ~(ReplayLine \/ Serve \/ Crash \/ PowerCut \/ GiveUp)
    BY <1>1 DEF ReplayLine, Serve, Crash, PowerCut, GiveUp, ProcessGone
  <2> QED
    BY <2>1, <2>3, <2>4, <2>5, <2>6, StepKinds
<1>2. RegisterInv /\ [Next]_vars => [Atomic]_vars
  <2> SUFFICES ASSUME RegisterInv, Next
               PROVE  Atomic
    OBVIOUS
  <2> QED
    BY <1>1
<1> QED
  BY <1>2, RegisterInvariant, PTL DEF Spec, AdmissionAtomic

-----------------------------------------------------------------------------
(* The deadline of a gap.                                                    *)

\* Of the lines a step leaves, the only one that may be new is x.
AddsAtMost(x) ==
    \A i \in 1 .. Len(file'.lines) :
        /\ i <= Len(file.lines) + 1
        /\ file'.lines[i] = Append(file.lines, x)[i]

LEMMA CutShortAdds ==
    ASSUME NEW f \in FileType, NEW b \in BOOLEAN, b => ~f.torn, NEW x \in Line,
           NEW g \in CutShort(f, b, x)
    PROVE  /\ g \in FileType
           /\ \A i \in 1 .. Len(g.lines) :
                i <= Len(f.lines) + 1 /\ g.lines[i] = Append(f.lines, x)[i]
<1>1. g.lines = f.lines \/ g.lines = Append(f.lines, x)
  BY CutShortLines
<1>2. /\ f.lines \in Seq(Line) /\ Len(f.lines) \in Nat
      /\ Len(Append(f.lines, x)) = Len(f.lines) + 1
      /\ \A i \in 1 .. Len(f.lines) : Append(f.lines, x)[i] = f.lines[i]
  BY DEF FileType
<1> QED
  BY <1>1, <1>2, CutShortType

LEMMA DiesWritingAdds ==
    ASSUME StoreOK, DurableOK, ~poisoned, NEW x \in Line, DiesWriting(x)
    PROVE  AddsAtMost(x)
<1>1. file \in FileType /\ opened \in BOOLEAN /\ (opened => ~file.torn)
  BY DEF StoreOK, DurableOK
<1>2. CASE file' \in CutShort(file, opened, x)
  BY <1>1, <1>2, CutShortAdds DEF AddsAtMost
<1>3. CASE \E g \in CutShort(file, opened, x) : file' \in AfterPowerCut(g)
  <2>1. PICK g \in CutShort(file, opened, x) : file' \in AfterPowerCut(g)
    BY <1>3
  <2>2. /\ g \in FileType
        /\ \A i \in 1 .. Len(g.lines) :
             i <= Len(file.lines) + 1 /\ g.lines[i] = Append(file.lines, x)[i]
    BY <1>1, CutShortAdds
  <2>3. PICK n \in g.synced .. Len(g.lines), b \in BOOLEAN :
          file' = [lines |-> SubSeq(g.lines, 1, n), torn |-> b, uncut |-> FALSE, synced |-> n]
    BY <2>1 DEF AfterPowerCut
  <2>4. n \in 0 .. Len(g.lines) /\ g.lines \in Seq(Line)
    BY <2>2 DEF FileType
  <2>5. /\ Len(file'.lines) = n /\ n <= Len(g.lines) /\ n \in Nat
        /\ \A i \in 1 .. n : file'.lines[i] = g.lines[i]
    BY <2>3, <2>4, FirstLines
  <2> QED
    BY <2>2, <2>4, <2>5 DEF AddsAtMost
<1> QED
  BY <1>2, <1>3 DEF DiesWriting

LEMMA JournalsAdds ==
    ASSUME StoreOK, DurableOK, NEW r \in JournalRecord, Journals(r)
    PROVE  AddsAtMost(r)
<1>1. /\ file \in FileType /\ opened \in BOOLEAN /\ (opened => ~file.torn) /\ r \in Line
      /\ ~poisoned
  BY DEF StoreOK, DurableOK, Journals, Line
<1>2. CASE file' = DurablyWritten(file, opened, r)
  <2>1. file'.lines = Append(file.lines, r)
    BY <1>1, <1>2, DurablyWrittenLines
  <2>2. Len(Append(file.lines, r)) = Len(file.lines) + 1
    BY <1>1 DEF FileType
  <2> QED
    BY <2>1, <2>2 DEF AddsAtMost
<1>3. CASE file' \in CutShort(file, opened, r)
  BY <1>1, <1>3, CutShortAdds DEF AddsAtMost
<1>4. CASE DiesWriting(r)
  BY <1>1, <1>4, DiesWritingAdds
<1> QED
  BY <1>2, <1>3, <1>4 DEF Journals, Record

\* The line of a journaled mutation closes its gap in time.
LEMMA ClosedInTime ==
    ASSUME StoreOK, ReplayOK, NEW r \in JournalRecord, Journals(r), AddsAtMost(r),
           NEW i \in 1 .. Len(file'.lines), i \notin 1 .. Len(file.lines), Len(file'.lines) \in Nat,
           file'.lines[i].kind \in {"admitted", "gap-cancelled"},
           file'.lines[i].settlementId # NoGap
    PROVE  \E j \in 1 .. i - 1 :
             /\ file'.lines[j].kind = "gap-opened"
             /\ file'.lines[j].settlementId = file'.lines[i].settlementId
             /\ file'.lines[i].kind = "admitted" => now <= file'.lines[j].settlement.deadline
             /\ file'.lines[i].kind = "gap-cancelled" => now > file'.lines[j].settlement.deadline
<1> DEFINE lines == file.lines
           sid == r.settlementId
<1>1. lines \in Seq(Line) /\ Len(lines) \in Nat /\ Lawful(lines)
  BY DEF StoreOK, FileType, ReplayOK
<1>2. i = Len(lines) + 1 /\ i - 1 = Len(lines)
  BY <1>1 DEF AddsAtMost
<1>3. file'.lines[i] = r
  BY <1>1, <1>2 DEF AddsAtMost
<1>4. \A j \in 1 .. i - 1 : file'.lines[j] = lines[j]
  BY <1>1, <1>2 DEF AddsAtMost
<1>5. mem = Replay(lines).mem
  BY UpReplays DEF Journals
<1>6. Sensible(lines, Len(lines)) /\ Replay(lines) = After(lines, Len(lines))
  BY <1>1, AfterAll DEF Lawful
<1>7. GapsAgree(mem) /\ Told(lines, Len(lines), mem)
  BY <1>5, <1>6 DEF Sensible
<1>8. r.tokenId \in Token /\ sid \in SettlementId /\ mem.openGaps[r.tokenId] = sid
  <2>1. r.kind = "admitted" \/ r.kind = "gap-cancelled"
    BY <1>3
  <2>2. mem.openGaps[r.tokenId] = sid
    BY <2>1 DEF Journals, LawfulRecord, ReplayAccepts
  <2> QED
    BY <1>3, <2>1, <2>2, RecordKinds DEF AdmittedRecord, GapCancelledRecord
<1>9. mem.settlements[sid].status = "OPEN"
  BY <1>7, <1>8 DEF GapsAgree
<1>10. PICK j \in 1 .. Len(lines) : Opens(lines[j], sid, mem.settlements[sid])
  BY <1>7, <1>8, <1>9 DEF Told
<1>11. /\ j \in 1 .. i - 1
       /\ file'.lines[j].kind = "gap-opened" /\ file'.lines[j].settlementId = sid
       /\ file'.lines[j].settlement.deadline = mem.settlements[sid].deadline
  BY <1>2, <1>4, <1>10 DEF Opens
<1>12. Timely(r)
  BY DEF Journals
<1> QED
  BY <1>3, <1>11, <1>12 DEF Timely

LEMMA StartAdds ==
    ASSUME StoreOK, DurableOK, NEW id \in Identity, Restart(id) \/ RestartFails(id)
    PROVE  AddsAtMost(HeaderLine(id))
<1> DEFINE x == HeaderLine(id)
<1>1. /\ file \in FileType /\ opened \in BOOLEAN /\ ~opened /\ ~poisoned /\ x \in Line
  BY DEF StoreOK, DurableOK, Restart, RestartFails, Line
<1>2. /\ file.lines \in Seq(Line) /\ Len(Append(file.lines, x)) = Len(file.lines) + 1
      /\ \A i \in 1 .. Len(file.lines) : Append(file.lines, x)[i] = file.lines[i]
  BY <1>1 DEF FileType
<1>3. CASE file' = file
  BY <1>2, <1>3 DEF AddsAtMost
<1>4. CASE file' = DurablyWritten(file, opened, x)
  <2>1. file'.lines = Append(file.lines, x)
    BY <1>1, <1>4, DurablyWrittenLines
  <2> QED
    BY <1>2, <2>1 DEF AddsAtMost
<1>5. CASE file' \in CutShort(file, opened, x)
  BY <1>1, <1>5, CutShortAdds DEF AddsAtMost
<1>6. CASE DiesWriting(x)
  BY <1>1, <1>6, DiesWritingAdds
<1> QED
  BY <1>3, <1>4, <1>5, <1>6 DEF Restart, RestartFails

\* A gap is closed on its side of the deadline it was opened with, across any
\* number of failed appends, crashes and restarts between the two.
THEOREM DeadlinesAreKept ==
    ASSUME Disciplined
    PROVE  Spec => GapsCloseInTime
<1> DEFINE InTime ==
      \A i \in DOMAIN file'.lines \ DOMAIN file.lines :
        LET r == file'.lines[i]
        IN  r.kind \in {"admitted", "gap-cancelled"} /\ r.settlementId # NoGap =>
                \E j \in 1 .. i - 1 :
                    /\ file'.lines[j].kind = "gap-opened"
                    /\ file'.lines[j].settlementId = r.settlementId
                    /\ r.kind = "admitted" => now <= file'.lines[j].settlement.deadline
                    /\ r.kind = "gap-cancelled" => now > file'.lines[j].settlement.deadline
<1>1. ASSUME RegisterInv, RegisterInv', Next,
             NEW i \in 1 .. Len(file'.lines), i \notin 1 .. Len(file.lines),
             file'.lines[i].kind \in {"admitted", "gap-cancelled"},
             file'.lines[i].settlementId # NoGap
      PROVE  \E j \in 1 .. i - 1 :
               /\ file'.lines[j].kind = "gap-opened"
               /\ file'.lines[j].settlementId = file'.lines[i].settlementId
               /\ file'.lines[i].kind = "admitted" => now <= file'.lines[j].settlement.deadline
               /\ file'.lines[i].kind = "gap-cancelled" => now > file'.lines[j].settlement.deadline
  <2>1. StoreOK /\ DurableOK /\ ReplayOK /\ Step
    BY <1>1 DEF RegisterInv, StoreInv, Next
  <2>2. /\ file \in FileType /\ file.lines \in Seq(Line) /\ Len(file.lines) \in Nat
        /\ Len(file'.lines) \in Nat
    BY <1>1 DEF RegisterInv, StoreInv, StoreOK, FileType
  <2>3. CASE \E r \in JournalRecord : Journals(r)
    BY <1>1, <2>1, <2>2, <2>3, JournalsAdds, ClosedInTime
  <2>4. ASSUME NEW id \in Identity, Restart(id) \/ RestartFails(id)
        PROVE  FALSE
    <3>1. AddsAtMost(HeaderLine(id))
      BY <2>1, <2>4, StartAdds
    <3>2. i = Len(file.lines) + 1
      BY <1>1, <2>2, <3>1 DEF AddsAtMost
    <3>3. file'.lines[i] = HeaderLine(id)
      BY <1>1, <2>2, <3>1, <3>2 DEF AddsAtMost
    <3> QED
      BY <1>1, <3>3 DEF HeaderLine
  <2>5. CASE ReplayLine \/ Serve \/ Crash \/ GiveUp \/ Close \/ Tick
    BY <1>1, <2>5 DEF ReplayLine, Serve, Crash, GiveUp, Close, Tick
  <2>6. CASE PowerCut
    <3>1. PICK n \in file.synced .. Len(file.lines), b \in BOOLEAN :
            file' = [lines |-> SubSeq(file.lines, 1, n), torn |-> b, uncut |-> FALSE, synced |-> n]
      BY <2>6 DEF PowerCut, AfterPowerCut
    <3>2. n \in 0 .. Len(file.lines)
      BY <2>2, <3>1 DEF FileType
    <3>3. Len(file'.lines) = n
      BY <2>2, <3>1, <3>2, FirstLines
    <3> QED
      BY <1>1, <2>2, <3>2, <3>3
  <2> QED
    BY <2>1, <2>3, <2>4, <2>5, <2>6, StepKinds
<1>2. RegisterInv /\ RegisterInv' /\ [Next]_vars => [InTime]_vars
  <2> SUFFICES ASSUME RegisterInv, RegisterInv', Next
               PROVE  InTime
    OBVIOUS
  <2>1. DOMAIN file.lines = 1 .. Len(file.lines) /\ DOMAIN file'.lines = 1 .. Len(file'.lines)
    BY DEF RegisterInv, StoreInv, StoreOK, FileType
  <2> QED
    BY <1>1, <2>1
<1> QED
  BY <1>2, RegisterInvariant, PTL DEF Spec, GapsCloseInTime

-----------------------------------------------------------------------------
(* What readers are shown.  Start-up does not sync the lines it replays, so *)
(* a line that a crash or a failed append left unsynced may be served and   *)
(* then lost to a power cut (run unsynced_restart).  Where power cuts come  *)
(* without those, or not at all, nothing served is ever taken back.         *)

\* Power is cut only where neither crashes nor failed appends leave lines that
\* were never synced.
ServesDurably == "power" \in Fault => "crash" \notin Fault /\ "append" \notin Fault

\* What readers saw is the journal, or the journal without its last line.
Lags(lines, shown) ==
    \/ shown = Replay(lines).mem.projections
    \/ /\ lines # <<>>
       /\ shown = After(lines, Len(lines) - 1).mem.projections
       /\ \E i \in 1 .. Len(lines) : lines[i].kind = "header"

\* What readers saw is on disk; while the store serves they see its memory.
ServedOK ==
    /\ "power" \in Fault => file.synced = Len(file.lines)
    /\ mode = "up" => served = mem.projections
    /\ Lags(file.lines, served)

LEMMA LagsOneRecord ==
    ASSUME NEW lines \in Seq(Line), Lawful(lines), NEW x, MayFollow(lines, x),
           NEW shown, shown = Replay(lines).mem.projections,
           \E i \in 1 .. Len(lines) : lines[i].kind = "header"
    PROVE  Lags(Append(lines, x), shown)
<1>1. x \in Line /\ Len(lines) \in Nat
  BY DEF MayFollow
<1>2. /\ Len(Append(lines, x)) = Len(lines) + 1
      /\ Append(lines, x) # <<>>
      /\ \A i \in 1 .. Len(lines) : Append(lines, x)[i] = lines[i]
  BY <1>1
<1>3. After(Append(lines, x), Len(lines)) = Replay(lines)
  BY LawfulAppend
<1>4. Len(Append(lines, x)) - 1 = Len(lines)
      /\ \A i \in 1 .. Len(lines) : i \in 1 .. Len(Append(lines, x))
  BY <1>1, <1>2
<1>5. \E i \in 1 .. Len(Append(lines, x)) : Append(lines, x)[i].kind = "header"
  BY <1>2, <1>4
<1> QED
  BY <1>2, <1>3, <1>4, <1>5 DEF Lags

LEMMA LagsNoHeader ==
    ASSUME NEW lines \in Seq(Line), Lawful(lines), NEW x, MayFollow(lines, x),
           x.kind = "header", NEW shown, Lags(lines, shown)
    PROVE  Lags(Append(lines, x), shown)
<1>1. shown = Replay(lines).mem.projections
  BY DEF Lags, MayFollow
<1>2. Replay(Append(lines, x)).mem = Replay(lines).mem
  BY LawfulAppend DEF ReplayResult
<1> QED
  BY <1>1, <1>2 DEF Lags

LEMMA DiesWritingLines ==
    ASSUME ServesDurably, StoreOK, DurableOK, ServedOK, ~poisoned, NEW x \in Line, DiesWriting(x)
    PROVE  /\ file'.lines = file.lines \/ file'.lines = Append(file.lines, x)
           /\ "power" \in Fault => file'.synced = Len(file'.lines)
<1>1. /\ file \in FileType /\ opened \in BOOLEAN /\ (opened => ~file.torn)
      /\ file.lines \in Seq(Line) /\ Len(file.lines) \in Nat
  BY DEF StoreOK, DurableOK, FileType
<1>2. CASE May("crash") /\ file' \in CutShort(file, opened, x)
  BY <1>1, <1>2, CutShortLines DEF May, ServesDurably
<1>3. CASE May("power") /\ \E g \in CutShort(file, opened, x) : file' \in AfterPowerCut(g)
  <2>1. file.synced = Len(file.lines)
    BY <1>3 DEF May, ServedOK
  <2>2. PICK g \in CutShort(file, opened, x) : file' \in AfterPowerCut(g)
    BY <1>3
  <2>3. g \in FileType /\ (g.lines = file.lines \/ g.lines = Append(file.lines, x))
    BY <1>1, CutShortType, CutShortLines
  <2>4. g.synced = Len(file.lines)
    BY <1>1, <2>1 DEF CutShort, Opened, HalfOpened, Written
  <2>5. PICK n \in g.synced .. Len(g.lines), b \in BOOLEAN :
          file' = [lines |-> SubSeq(g.lines, 1, n), torn |-> b, uncut |-> FALSE, synced |-> n]
    BY <2>2 DEF AfterPowerCut
  <2>6. g.lines \in Seq(Line) /\ n \in 0 .. Len(g.lines) /\ Len(SubSeq(g.lines, 1, n)) = n
    BY <1>1, <2>3, <2>4, <2>5 DEF FileType
  <2>7. file'.synced = Len(file'.lines)
    BY <2>5, <2>6
  <2>8. SubSeq(g.lines, 1, n) = file.lines \/ SubSeq(g.lines, 1, n) = Append(file.lines, x)
    <3>1. CASE g.lines = file.lines
      <4>1. n = Len(file.lines)
        BY <1>1, <2>4, <2>5, <3>1
      <4> QED
        BY <1>1, <3>1, <4>1
    <3>2. CASE g.lines = Append(file.lines, x)
      <4>1. n = Len(file.lines) \/ n = Len(file.lines) + 1
        BY <1>1, <2>4, <2>5, <3>2
      <4>2. SubSeq(Append(file.lines, x), 1, Len(file.lines)) = file.lines
        BY <1>1
      <4>3. SubSeq(Append(file.lines, x), 1, Len(file.lines) + 1) = Append(file.lines, x)
        BY <1>1
      <4> QED
        BY <3>2, <4>1, <4>2, <4>3
    <3> QED
      BY <2>3, <3>1, <3>2
  <2> QED
    BY <2>5, <2>7, <2>8
<1> QED
  BY <1>2, <1>3 DEF DiesWriting

\* While the store is up readers see its memory, which lags by the record of a
\* failed append at most.
LEMMA UpLags ==
    ASSUME ReplayOK', mode' = "up", Observe, "power" \in Fault => file'.synced = Len(file'.lines)
    PROVE  ServedOK'
<1>1. served' = mem'.projections
  BY DEF Observe
<1>2. \E i \in 1 .. Len(file'.lines) : file'.lines[i].kind = "header"
  BY DEF ReplayOK, Headed, HeaderLine
<1>3. Lags(file'.lines, served')
  BY <1>1, <1>2 DEF ReplayOK, Remembers, Lags
<1> QED
  BY <1>1, <1>3 DEF ServedOK

LEMMA SameFileLags ==
    ASSUME ServedOK, ReplayOK', Observe, UNCHANGED file
    PROVE  ServedOK'
<1>1. CASE mode' = "up"
  BY <1>1, UpLags DEF ServedOK
<1>2. CASE mode' # "up"
  BY <1>2 DEF ServedOK, Observe
<1> QED
  BY <1>1, <1>2

LEMMA ServedStep ==
    ASSUME Disciplined, ServesDurably, RegisterInv, ServedOK, Step, Observe
    PROVE  ServedOK'
<1>1. /\ StoreOK /\ DurableOK /\ ReplayOK /\ ReplayOK'
      /\ file \in FileType /\ opened \in BOOLEAN
      /\ file.lines \in Seq(Line) /\ Len(file.lines) \in Nat
      /\ Lawful(file.lines)
  BY StepReplays DEF RegisterInv, StoreInv, StoreOK, ReplayOK, FileType
<1>2. ASSUME NEW r \in JournalRecord, Journals(r)
      PROVE  ServedOK'
  <2>1. r \in Line /\ ~poisoned /\ mode = "up" /\ (opened => ~file.torn)
    BY <1>1, <1>2 DEF Line, Journals, DurableOK
  <2>2. mem = Replay(file.lines).mem
    BY <1>1, <2>1, UpReplays
  <2>3. MayFollow(file.lines, r)
    BY <1>2, <2>1, <2>2, RecordKinds DEF MayFollow, Journals
  <2>4. served = Replay(file.lines).mem.projections
    BY <2>1, <2>2 DEF ServedOK
  <2>5. \E i \in 1 .. Len(file.lines) : file.lines[i].kind = "header"
    BY <1>1, <2>1 DEF ReplayOK, Headed, HeaderLine
  <2>6. CASE mode' = mode /\ file' = DurablyWritten(file, opened, r)
    <3>1. file'.synced = Len(file'.lines)
      BY <1>1, <2>1, <2>6, DurablyWrittenLines
    <3> QED
      BY <1>1, <2>1, <2>6, <3>1, UpLags
  <2>7. CASE mode' = mode /\ May("append")
    BY <1>1, <2>1, <2>7, UpLags DEF May, ServesDurably
  <2>8. CASE DiesWriting(r)
    <3>1. /\ file'.lines = file.lines \/ file'.lines = Append(file.lines, r)
          /\ "power" \in Fault => file'.synced = Len(file'.lines)
      BY <1>1, <2>1, <2>8, DiesWritingLines
    <3>2. mode' = "down" /\ served' = served
      BY <2>8 DEF DiesWriting, ProcessGone, Observe
    <3>3. Lags(Append(file.lines, r), served)
      BY <1>1, <2>3, <2>4, <2>5, LagsOneRecord
    <3> QED
      BY <3>1, <3>2, <3>3 DEF ServedOK
  <2> QED
    BY <1>2, <2>6, <2>7, <2>8 DEF Journals, Record
<1>3. ASSUME NEW id \in Identity, Restart(id) \/ RestartFails(id)
      PROVE  ServedOK'
  <2>1. /\ HeaderLine(id) \in Line /\ HeaderLine(id).kind = "header"
        /\ ~poisoned /\ ~opened /\ mode = "down"
    BY <1>1, <1>3 DEF Line, HeaderLine, DurableOK, Restart, RestartFails
  <2>2. mode' # "up"
    BY <1>3, <2>1 DEF Restart, RestartFails, Replaying, DiesWriting, ProcessGone
  <2>3. served' = served
    BY <2>2 DEF Observe
  <2>4. CASE UNCHANGED file
    BY <1>1, <2>4, SameFileLags
  <2>5. ASSUME BindWrites(id),
               file'.lines = file.lines \/ file'.lines = Append(file.lines, HeaderLine(id)),
               "power" \in Fault => file'.synced = Len(file'.lines)
        PROVE  ServedOK'
    <3>1. \A i \in 1 .. Len(file.lines) : file.lines[i].kind # "header"
      BY <1>1, <2>5, NoIdentityAssumption, StoredHeader DEF BindWrites
    <3>2. MayFollow(file.lines, HeaderLine(id))
      BY <2>1, <3>1 DEF MayFollow
    <3>3. Lags(Append(file.lines, HeaderLine(id)), served)
      BY <1>1, <2>1, <3>2, LagsNoHeader DEF ServedOK
    <3> QED
      BY <2>2, <2>3, <2>5, <3>3 DEF ServedOK
  <2>6. CASE BindWrites(id) /\ file' = DurablyWritten(file, opened, HeaderLine(id))
    <3>1. file'.lines = Append(file.lines, HeaderLine(id)) /\ file'.synced = Len(file'.lines)
      BY <1>1, <2>1, <2>6, DurablyWrittenLines
    <3> QED
      BY <2>5, <2>6, <3>1
  <2>7. CASE BindWrites(id) /\ May("append") /\ file' \in CutShort(file, opened, HeaderLine(id))
    <3>1. file'.lines = file.lines \/ file'.lines = Append(file.lines, HeaderLine(id))
      BY <1>1, <2>1, <2>7, CutShortLines
    <3> QED
      BY <2>5, <2>7, <3>1 DEF May, ServesDurably
  <2>8. CASE BindWrites(id) /\ DiesWriting(HeaderLine(id))
    BY <1>1, <2>1, <2>5, <2>8, DiesWritingLines
  <2> QED
    BY <1>3, <2>4, <2>6, <2>7, <2>8 DEF Restart, RestartFails
<1>4. CASE PowerCut
  <2>1. file.synced = Len(file.lines) /\ mode' = "down"
    BY <1>4 DEF PowerCut, May, ServedOK, ProcessGone
  <2>2. PICK n \in file.synced .. Len(file.lines), b \in BOOLEAN :
          file' = [lines |-> SubSeq(file.lines, 1, n), torn |-> b, uncut |-> FALSE, synced |-> n]
    BY <1>4 DEF PowerCut, AfterPowerCut
  <2>3. n = Len(file.lines) /\ SubSeq(file.lines, 1, n) = file.lines
    BY <1>1, <2>1, <2>2
  <2>4. file'.lines = file.lines /\ file'.synced = Len(file'.lines)
    BY <2>2, <2>3
  <2> QED
    BY <2>1, <2>4 DEF ServedOK, Observe
<1>5. CASE ReplayLine \/ Serve \/ Crash \/ GiveUp \/ Close \/ Tick
  <2>1. UNCHANGED file
    BY <1>5 DEF ReplayLine, Serve, Crash, GiveUp, Close, Tick
  <2> QED
    BY <1>1, <2>1, SameFileLags
<1> QED
  BY <1>1, <1>2, <1>3, <1>4, <1>5, StepKinds

\* One token's history is longer by an admissible entry, the others as before.
OneAdmission(f, g) ==
    \E tok \in Token, c \in CandidateEntry :
        Admissible(f[tok], c) /\ g = [f EXCEPT ![tok] = Admit(f[tok], c)]

LEMMA RecordAdmitsOne ==
    ASSUME NEW m \in SoundMemory, NEW r \in JournalRecord, LawfulRecord(m, r)
    PROVE  \/ ReplayResult(m, r).projections = m.projections
           \/ OneAdmission(m.projections, ReplayResult(m, r).projections)
<1>1. CASE r.kind = "gap-opened"
  BY <1>1 DEF ReplayResult, GapOpened
<1>2. CASE r.kind = "gap-cancelled"
  BY <1>2 DEF ReplayResult, GapClosed
<1>3. CASE r.kind = "admitted"
  <2>1. r.tokenId \in Token /\ r.entry \in CandidateEntry
    BY <1>3, RecordKinds DEF AdmittedRecord
  <2>2. Admissible(m.projections[r.tokenId], r.entry)
    BY <1>3 DEF LawfulRecord, ReplayAccepts
  <2>3. ReplayResult(m, r).projections =
          [m.projections EXCEPT ![r.tokenId] = Admit(m.projections[r.tokenId], r.entry)]
    BY <1>3 DEF ReplayResult, AdmissionApplied, GapClosed, EntryAdded
  <2> QED
    BY <2>1, <2>2, <2>3 DEF OneAdmission
<1> QED
  BY <1>1, <1>2, <1>3, RecordKinds

\* Whatever the step, readers are shown at most one entry more.
LEMMA ShownStep ==
    ASSUME Disciplined, RegisterInv, ServedOK, Step, Observe
    PROVE  served' = served \/ OneAdmission(served, served')
<1>1. /\ StoreOK /\ ReplayOK /\ mem \in SoundMemory
      /\ file.lines \in Seq(Line) /\ Len(file.lines) \in Nat /\ Lawful(file.lines)
  BY DEF RegisterInv, StoreInv, StoreOK, ReplayOK, FileType
<1>2. CASE mode' # "up"
  BY <1>2 DEF Observe
<1>3. ASSUME mode' = "up", NEW r \in JournalRecord, Journals(r)
      PROVE  served' = served \/ OneAdmission(served, served')
  <2>1. served = mem.projections /\ served' = mem'.projections /\ LawfulRecord(mem, r)
    BY <1>3 DEF Journals, ServedOK, Observe
  <2>2. mem' = ReplayResult(mem, r) \/ mem' = mem
    BY <1>3 DEF Journals, Record, DiesWriting, ProcessGone, May
  <2> QED
    BY <1>1, <2>1, <2>2, RecordAdmitsOne
<1>4. ASSUME mode' = "up", Serve
      PROVE  served' = served \/ OneAdmission(served, served')
  <2>1. mem = Replay(file.lines).mem
    BY <1>1, <1>4, AfterAll DEF ReplayOK, Remembers, Serve
  <2>2. served' = Replay(file.lines).mem.projections
    BY <1>4, <2>1 DEF Serve, Observe
  <2>3. CASE served = Replay(file.lines).mem.projections
    BY <2>2, <2>3
  <2>4. CASE file.lines # <<>> /\ served = After(file.lines, Len(file.lines) - 1).mem.projections
    <3> DEFINE n == Len(file.lines) - 1
               m == After(file.lines, n).mem
               x == file.lines[n + 1]
    <3>1. n \in 0 .. Len(file.lines) /\ n # Len(file.lines) /\ n + 1 = Len(file.lines)
          /\ n + 1 \in 1 .. Len(file.lines) /\ (n + 1) - 1 = n
      BY <1>1, <2>4
    <3>2. Sensible(file.lines, n) /\ LawfulLine(file.lines, n + 1)
      BY <1>1, <3>1 DEF Lawful
    <3>3. After(file.lines, n + 1).mem = ReplayResult(m, x)
      BY <1>1, <3>1, <3>2, SensibleNext
    <3>4. Replay(file.lines).mem = ReplayResult(m, x)
      BY <1>1, <3>1, <3>3, AfterAll
    <3>5. m \in SoundMemory
      BY <3>2 DEF Sensible
    <3>6. x.kind # "header" => x \in JournalRecord /\ LawfulRecord(m, x)
      BY <3>1, <3>2 DEF LawfulLine
    <3> HIDE DEF x
    <3>7. CASE x.kind = "header"
      BY <2>2, <2>4, <3>4, <3>7 DEF ReplayResult
    <3>8. CASE x.kind # "header"
      <4>1. served = m.projections
        BY <2>4
      <4> HIDE DEF m
      <4> QED
        BY <2>2, <3>4, <3>5, <3>6, <3>8, <4>1, RecordAdmitsOne
    <3> QED
      BY <3>7, <3>8
  <2> QED
    BY <2>3, <2>4 DEF ServedOK, Lags
<1>5. ASSUME mode' = "up", Close \/ Tick
      PROVE  served' = served
  BY <1>5 DEF Close, Tick, ServedOK, Observe
<1>6. mode' = "up" =>
        /\ ~(\E id \in Identity : Restart(id) \/ RestartFails(id))
        /\ ~(ReplayLine \/ Crash \/ PowerCut \/ GiveUp)
  BY DEF Restart, Replaying, RestartFails, DiesWriting, ReplayLine, Crash, PowerCut, GiveUp,
         ProcessGone
<1> QED
  BY <1>1, <1>2, <1>3, <1>4, <1>5, <1>6, StepKinds

\* What readers were shown, as the abstract register has it.
Shown == [t \in Token |-> FactsOf(served[t])]

LEMMA ShownIsHistory ==
    Shown = [t \in Token |->
               [i \in DOMAIN served[t] |->
                  [holder |-> served[t][i].holder, effectiveAt |-> served[t][i].effectiveAt]]]
BY DEF Shown, FactsOf

LEMMA AdmissionIsAnAppend ==
    ASSUME served \in [Token -> Seq(ProjectionEntry)], OneAdmission(served, served')
    PROVE  \E tok \in Token, fact \in [holder : Address, effectiveAt : Uint64] :
             /\ Shown[tok] # <<>> => fact.effectiveAt > Shown[tok][Len(Shown[tok])].effectiveAt
             /\ Shown' = [Shown EXCEPT ![tok] = Append(Shown[tok], fact)]
<1>1. PICK tok \in Token, c \in CandidateEntry :
        /\ Admissible(served[tok], c)
        /\ served' = [served EXCEPT ![tok] = Admit(served[tok], c)]
  BY DEF OneAdmission
<1> DEFINE es == served[tok]
           fact == [holder |-> c.holder, effectiveAt |-> c.effectiveAt]
<1>2. es \in Seq(ProjectionEntry) /\ fact \in [holder : Address, effectiveAt : Uint64]
      /\ Shown[tok] = FactsOf(es)
  BY DEF CandidateEntry, Shown
<1>3. FactsOf(es) # <<>> => fact.effectiveAt > FactsOf(es)[Len(FactsOf(es))].effectiveAt
  BY <1>1, <1>2, AdmittedFactIsLater
<1>4. FactsOf(Admit(es, c)) = Append(FactsOf(es), fact)
  BY <1>2, AdmitAppendsFact
<1>5. \A other \in Token :
        served'[other] = IF other = tok THEN Admit(es, c) ELSE served[other]
  BY <1>1
<1>6. Shown' = [Shown EXCEPT ![tok] = Append(Shown[tok], fact)]
  BY <1>2, <1>4, <1>5 DEF Shown
<1> QED
  BY <1>2, <1>3, <1>6

LEMMA InitServed == Init => ServedOK
<1> SUFFICES ASSUME Init PROVE ServedOK
  OBVIOUS
<1>1. <<>> \in Seq(Line) /\ Len(<<>>) = 0
  OBVIOUS
<1>2. Replay(<<>>) = EmptyReplay
  BY <1>1, AfterNone, AfterAll
<1> QED
  BY <1>1, <1>2 DEF Init, EmptyFile, ServedOK, Lags, EmptyReplay

\* Across crashes, restarts and failed appends, and across power cuts where they
\* are the only faults, what readers are shown implements the append-only
\* register: nothing they saw is ever taken back, reordered or rewritten.
THEOREM StoreImplementsRegister ==
    ASSUME Disciplined, ServesDurably
    PROVE  Spec => ServesARegister
<1>1. Init => Register!Init /\ ServedOK
  <2>1. Init => Register!Init
    BY ShownIsHistory DEF Init, FreshMemory, Register!Init
  <2> QED
    BY <2>1, InitServed
<1>2. RegisterInv /\ ServedOK /\ [Next]_vars => ServedOK'
  <2>1. CASE UNCHANGED vars
    BY <2>1 DEF vars, ServedOK
  <2> QED
    BY <2>1, ServedStep DEF Next
<1>3. RegisterInv /\ ServedOK /\ [Next]_vars => [Register!Next]_Shown
  <2> SUFFICES ASSUME RegisterInv, ServedOK, [Next]_vars
               PROVE  Register!Next \/ Shown' = Shown
    OBVIOUS
  <2>1. CASE served' = served
    BY <2>1 DEF Shown
  <2>2. CASE OneAdmission(served, served')
    <3>1. served \in [Token -> Seq(ProjectionEntry)]
      BY DEF RegisterInv, StoreInv
    <3> QED
      BY <2>2, <3>1, AdmissionIsAnAppend, ShownIsHistory
      DEF Register!Next, Register!Append1, Register!Fact, Shown, FactsOf
  <2>3. CASE UNCHANGED vars
    BY <2>1, <2>3 DEF vars
  <2> QED
    BY <2>1, <2>2, <2>3, ShownStep DEF Next
<1> QED
  BY <1>1, <1>2, <1>3, RegisterInvariant, ShownIsHistory, PTL
  DEF Spec, ServesARegister, Register!Spec, Shown, FactsOf
=============================================================================

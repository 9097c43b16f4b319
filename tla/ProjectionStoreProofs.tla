------------------------- MODULE ProjectionStoreProofs -------------------------
(***************************************************************************)
(* What holds of the off-chain store for every value of its constants.     *)
(***************************************************************************)
EXTENDS ProjectionStore, TokenProjectionProofs

-----------------------------------------------------------------------------
(* The journal file keeps its type.                                          *)

FileType == [lines : Seq(Line), torn : BOOLEAN, uncut : BOOLEAN, synced : Nat]

LEMMA WrittenType ==
    ASSUME NEW f \in FileType, NEW line \in Line
    PROVE  Written(f, line) \in FileType
<1>1. Glued \in Line
  BY DEF Line
<1>2. (IF f.torn THEN Glued ELSE line) \in Line
  BY <1>1
<1>3. Append(f.lines, IF f.torn THEN Glued ELSE line) \in Seq(Line)
  BY <1>2 DEF FileType
<1> QED
  BY <1>3 DEF FileType, Written

LEMMA OpenedType ==
    ASSUME NEW f \in FileType, NEW b \in BOOLEAN
    PROVE  Opened(f, b) \in FileType
BY DEF FileType, Opened

LEMMA DurablyWrittenType ==
    ASSUME NEW f \in FileType, NEW b \in BOOLEAN, NEW line \in Line
    PROVE  DurablyWritten(f, b, line) \in FileType
<1>1. Written(Opened(f, b), line) \in FileType
  BY OpenedType, WrittenType
<1> QED
  BY <1>1 DEF DurablyWritten, Synced, FileType

LEMMA CutShortType ==
    ASSUME NEW f \in FileType, NEW b \in BOOLEAN, NEW line \in Line,
           NEW g \in CutShort(f, b, line)
    PROVE  g \in FileType
<1>1. Opened(f, b) \in FileType /\ HalfOpened(f, b) \in FileType
  BY OpenedType DEF FileType, HalfOpened
<1>2. Written(Opened(f, b), line) \in FileType
  BY <1>1, WrittenType
<1>3. [lines |-> Opened(f, b).lines, torn |-> TRUE, uncut |-> FALSE,
       synced |-> Opened(f, b).synced] \in FileType
  BY <1>1 DEF FileType
<1> QED
  BY <1>1, <1>2, <1>3 DEF CutShort

LEMMA AfterPowerCutType ==
    ASSUME NEW f \in FileType, NEW g \in AfterPowerCut(f)
    PROVE  g \in FileType
<1>1. f.synced \in Nat /\ f.lines \in Seq(Line)
  BY DEF FileType
<1>2. PICK n \in f.synced .. Len(f.lines), b \in BOOLEAN :
        g = [lines |-> SubSeq(f.lines, 1, n), torn |-> b, uncut |-> FALSE, synced |-> n]
  BY DEF AfterPowerCut
<1>3. n \in Nat /\ SubSeq(f.lines, 1, n) \in Seq(Line)
  BY <1>1
<1> QED
  BY <1>2, <1>3 DEF FileType

LEMMA OpenAfterFailureType ==
    ASSUME NEW f, NEW b \in BOOLEAN, NEW g, NEW x \in OpenAfterFailure(f, b, g)
    PROVE  x \in BOOLEAN
BY DEF OpenAfterFailure

-----------------------------------------------------------------------------
(* Every operation on memory keeps its type and the projection invariants,  *)
(* and either leaves a token's history alone or adds one admissible entry.  *)

SoundMemory ==
    {m \in Memory : \A tok \in Token : ProjectionInvariants(m.projections[tok])}

Grows(m, n) ==
    \A tok \in Token :
        \/ n.projections[tok] = m.projections[tok]
        \/ \E c \in CandidateEntry :
              /\ Admissible(m.projections[tok], c)
              /\ n.projections[tok] = Admit(m.projections[tok], c)

LEMMA FreshMemorySound == FreshMemory \in SoundMemory
<1>1. NoSettlement \in Unrecorded
  BY DEF NoSettlement, Unrecorded
<1>2. 0 \in Height
  BY StoreAssumption DEF Height
<1>3. <<>> \in Seq(ProjectionEntry)
  OBVIOUS
<1>4. FreshMemory \in Memory
  BY <1>1, <1>2, <1>3 DEF FreshMemory, Memory
<1>5. \A tok \in Token : FreshMemory.projections[tok] = <<>>
  BY DEF FreshMemory
<1> QED
  BY <1>4, <1>5, EmptyInvariants DEF SoundMemory

\* Opening and forgetting a gap leave every history alone.
LEMMA GapOpenedSound ==
    ASSUME NEW m \in SoundMemory, NEW tok \in Token, NEW sid \in SettlementId,
           NEW settlement \in Settlement \cup Unrecorded
    PROVE  /\ GapOpened(m, tok, sid, settlement) \in SoundMemory
           /\ GapOpened(m, tok, sid, settlement).projections = m.projections
<1> DEFINE n == GapOpened(m, tok, sid, settlement)
<1>1. n \in Memory
  BY DEF GapOpened, SoundMemory, Memory
<1>2. n.projections = m.projections
  BY DEF GapOpened
<1> QED
  BY <1>1, <1>2 DEF SoundMemory

LEMMA GapForgottenSound ==
    ASSUME NEW m \in SoundMemory, NEW tok \in Token, NEW sid \in SettlementId
    PROVE  /\ GapForgotten(m, tok, sid) \in SoundMemory
           /\ GapForgotten(m, tok, sid).projections = m.projections
<1> DEFINE n == GapForgotten(m, tok, sid)
<1>1. NoSettlement \in Unrecorded
  BY DEF NoSettlement, Unrecorded
<1>2. n \in Memory
  BY <1>1 DEF GapForgotten, SoundMemory, Memory
<1>3. n.projections = m.projections
  BY DEF GapForgotten
<1> QED
  BY <1>2, <1>3 DEF SoundMemory

\* So does closing one.
LEMMA GapClosedSound ==
    ASSUME NEW m \in SoundMemory, NEW tok \in Token, NEW sid \in SettlementId,
           NEW status \in {"ADMITTED", "CANCELLED"}
    PROVE  /\ GapClosed(m, tok, sid, status) \in SoundMemory
           /\ GapClosed(m, tok, sid, status).projections = m.projections
<1> DEFINE n == GapClosed(m, tok, sid, status)
           closed == [m.settlements[sid] EXCEPT !.status = status]
<1>1. m.settlements[sid] \in Settlement \cup Unrecorded
  BY DEF SoundMemory, Memory
<1>4. closed \in Settlement \cup Unrecorded
  <2>1. CASE m.settlements[sid] \in Settlement
    <3>1. closed \in Settlement
      BY <2>1 DEF Settlement
    <3> QED
      BY <3>1
  <2>2. CASE m.settlements[sid] \in Unrecorded
    <3>1. closed \in Unrecorded
      BY <2>2 DEF Unrecorded
    <3> QED
      BY <3>1
  <2> QED
    BY <1>1, <2>1, <2>2
<1>5. [m.settlements EXCEPT ![sid] = closed] \in [SettlementId -> Settlement \cup Unrecorded]
  BY <1>4 DEF SoundMemory, Memory
<1>6. n \in Memory
  BY <1>5 DEF GapClosed, SoundMemory, Memory
<1>7. n.projections = m.projections
  BY DEF GapClosed
<1> QED
  BY <1>6, <1>7 DEF SoundMemory

\* Adding an admissible entry grows one history.
LEMMA EntryAddedSound ==
    ASSUME NEW m \in SoundMemory, NEW tok \in Token, NEW c \in CandidateEntry, NEW h \in Height,
           Admissible(m.projections[tok], c)
    PROVE  /\ EntryAdded(m, tok, c, h) \in SoundMemory
           /\ EntryAdded(m, tok, c, h).projections =
                [m.projections EXCEPT ![tok] = Admit(m.projections[tok], c)]
           /\ Grows(m, EntryAdded(m, tok, c, h))
<1> DEFINE n == EntryAdded(m, tok, c, h)
           longer == Admit(m.projections[tok], c)
<1>1. m \in Memory /\ m.projections[tok] \in Seq(ProjectionEntry)
      /\ ProjectionInvariants(m.projections[tok])
  BY DEF SoundMemory, Memory
<1>2. longer \in Seq(ProjectionEntry)
  BY <1>1, AdmitShape
<1>3. ProjectionInvariants(longer)
  BY <1>1, AdmitPreserves
<1> HIDE DEF longer
<1>4. n.projections = [m.projections EXCEPT ![tok] = longer]
  BY DEF EntryAdded, longer
<1>5. n \in Memory
  BY <1>1, <1>2 DEF EntryAdded, Memory, longer
<1>6. \A t \in Token : n.projections[t] = IF t = tok THEN longer ELSE m.projections[t]
  BY <1>1, <1>4 DEF Memory
<1>7. n \in SoundMemory
  BY <1>3, <1>5, <1>6 DEF SoundMemory
<1>8. Grows(m, n)
  BY <1>6 DEF Grows, longer
<1> QED
  BY <1>4, <1>7, <1>8 DEF longer

\* The rollback of an admission leaves every history as it was before it.
LEMMA EntryRemovedSound ==
    ASSUME NEW m \in SoundMemory, NEW n \in SoundMemory, NEW tok \in Token,
           NEW c \in CandidateEntry, NEW h \in Height,
           n.projections = [m.projections EXCEPT ![tok] = Admit(m.projections[tok], c)]
    PROVE  /\ EntryRemoved(n, tok, h) \in SoundMemory
           /\ EntryRemoved(n, tok, h).projections = m.projections
<1>1. /\ m \in Memory /\ n \in Memory
      /\ m.projections \in [Token -> Seq(ProjectionEntry)]
      /\ m.projections[tok] \in Seq(ProjectionEntry)
      /\ IntervalsClosed(m.projections[tok])
  BY DEF SoundMemory, Memory, ProjectionInvariants
<1>2. UndoLastAdmit(Admit(m.projections[tok], c)) = m.projections[tok]
  BY <1>1, UndoRestores
<1>3. n.projections[tok] = Admit(m.projections[tok], c)
  BY <1>1
<1>4. EntryRemoved(n, tok, h).projections = [n.projections EXCEPT ![tok] = m.projections[tok]]
  BY <1>2, <1>3 DEF EntryRemoved
<1>5. EntryRemoved(n, tok, h).projections = m.projections
  BY <1>1, <1>4
<1>6. EntryRemoved(n, tok, h) \in Memory
  BY <1>1, <1>5 DEF EntryRemoved, Memory
<1> QED
  BY <1>1, <1>5, <1>6 DEF SoundMemory

LEMMA AdmissionAppliedSound ==
    ASSUME NEW m \in SoundMemory, NEW tok \in Token, NEW c \in CandidateEntry, NEW h \in Height,
           NEW sid \in SettlementId \cup {NoGap},
           Admissible(m.projections[tok], c)
    PROVE  /\ AdmissionApplied(m, tok, c, h, sid) \in SoundMemory
           /\ AdmissionApplied(m, tok, c, h, sid).projections =
                [m.projections EXCEPT ![tok] = Admit(m.projections[tok], c)]
           /\ Grows(m, AdmissionApplied(m, tok, c, h, sid))
<1> DEFINE added == EntryAdded(m, tok, c, h)
<1>1. /\ added \in SoundMemory
      /\ added.projections = [m.projections EXCEPT ![tok] = Admit(m.projections[tok], c)]
      /\ Grows(m, added)
  BY EntryAddedSound
<1>2. CASE sid = NoGap
  BY <1>1, <1>2 DEF AdmissionApplied
<1>3. CASE sid # NoGap
  <2>1. sid \in SettlementId /\ "ADMITTED" \in {"ADMITTED", "CANCELLED"}
    BY <1>3
  <2> HIDE DEF added
  <2>2. /\ GapClosed(added, tok, sid, "ADMITTED") \in SoundMemory
        /\ GapClosed(added, tok, sid, "ADMITTED").projections = added.projections
    BY <1>1, <2>1, GapClosedSound
  <2>3. AdmissionApplied(m, tok, c, h, sid) = GapClosed(added, tok, sid, "ADMITTED")
    BY <1>3 DEF AdmissionApplied, added
  <2> QED
    BY <1>1, <2>2, <2>3 DEF Grows
<1> QED
  BY <1>2, <1>3

LEMMA AdmissionUndoneSound ==
    ASSUME NEW m \in SoundMemory, NEW tok \in Token, NEW c \in CandidateEntry, NEW h \in Height,
           Admissible(m.projections[tok], c)
    PROVE  LET applied == AdmissionApplied(m, tok, c, h, m.openGaps[tok])
           IN  /\ AdmissionUndone(m, applied, tok) \in SoundMemory
               /\ AdmissionUndone(m, applied, tok).projections = m.projections
<1> DEFINE applied == AdmissionApplied(m, tok, c, h, m.openGaps[tok])
           undone == EntryRemoved(applied, tok, m.heights[tok])
           openId == m.openGaps[tok]
<1>1. /\ m.openGaps[tok] \in SettlementId \cup {NoGap}
      /\ m.heights[tok] \in Height
  BY DEF SoundMemory, Memory
<1>2. /\ applied \in SoundMemory
      /\ applied.projections = [m.projections EXCEPT ![tok] = Admit(m.projections[tok], c)]
  BY <1>1, AdmissionAppliedSound
<1> HIDE DEF applied
<1>3. applied.heights[tok] \in Height
  BY <1>2 DEF SoundMemory, Memory
<1>4. /\ undone \in SoundMemory
      /\ undone.projections = m.projections
  BY <1>1, <1>2, EntryRemovedSound
<1>5. /\ EntryRemoved(applied, tok, applied.heights[tok]) \in SoundMemory
      /\ EntryRemoved(applied, tok, applied.heights[tok]).projections = m.projections
  BY <1>2, <1>3, EntryRemovedSound
<1> HIDE DEF undone
<1>6. openId # NoGap =>
        /\ GapOpened(undone, tok, openId, m.settlements[openId]) \in SoundMemory
        /\ GapOpened(undone, tok, openId, m.settlements[openId]).projections = m.projections
  <2> SUFFICES ASSUME openId # NoGap
               PROVE  /\ GapOpened(undone, tok, openId, m.settlements[openId]) \in SoundMemory
                      /\ GapOpened(undone, tok, openId, m.settlements[openId]).projections
                           = m.projections
    OBVIOUS
  <2>1. openId \in SettlementId
    BY <1>1
  <2>2. m.settlements[openId] \in Settlement \cup Unrecorded
    BY <2>1 DEF SoundMemory, Memory
  <2> HIDE DEF openId
  <2> QED
    BY <1>4, <2>1, <2>2, GapOpenedSound
<1>7. AdmissionUndone(m, applied, tok) =
        IF AdvanceThrows(applied.heights, tok, m.heights[tok])
        THEN EntryRemoved(applied, tok, applied.heights[tok])
        ELSE IF openId = NoGap THEN undone
        ELSE GapOpened(undone, tok, openId, m.settlements[openId])
  BY DEF AdmissionUndone, undone
<1>8. /\ AdmissionUndone(m, applied, tok) \in SoundMemory
      /\ AdmissionUndone(m, applied, tok).projections = m.projections
  BY <1>4, <1>5, <1>6, <1>7
<1> QED
  BY <1>8 DEF applied

\* An accepted line of the journal, replayed, keeps memory sound: the kernel's
\* guards are applied again, whoever wrote the file.
LEMMA ReplayResultSound ==
    ASSUME NEW m \in SoundMemory, NEW line \in Line, ReplayAccepts(m, line)
    PROVE  ReplayResult(m, line) \in SoundMemory
<1>1. CASE line.kind = "header"
  BY <1>1 DEF ReplayResult
<1>2. CASE line.kind = "gap-opened"
  <2>1. line \in GapOpenedRecord
    BY <1>2 DEF Line, JournalRecord, GapCancelledRecord, AdmittedRecord, HeaderLine, Glued
  <2>2. /\ line.tokenId \in Token /\ line.settlementId \in SettlementId
        /\ line.settlement \in Settlement
    BY <2>1 DEF GapOpenedRecord
  <2> QED
    BY <1>2, <2>2, GapOpenedSound DEF ReplayResult
<1>3. CASE line.kind = "gap-cancelled"
  <2>1. line \in GapCancelledRecord
    BY <1>3 DEF Line, JournalRecord, GapOpenedRecord, AdmittedRecord, HeaderLine, Glued
  <2>2. line.tokenId \in Token /\ line.settlementId \in SettlementId
    BY <2>1 DEF GapCancelledRecord
  <2> QED
    BY <1>3, <2>2, GapClosedSound DEF ReplayResult
<1>4. CASE line.kind = "admitted"
  <2>1. line \in AdmittedRecord
    BY <1>4 DEF Line, JournalRecord, GapOpenedRecord, GapCancelledRecord, HeaderLine, Glued
  <2>2. /\ line.tokenId \in Token /\ line.entry \in CandidateEntry
        /\ line.remoteHeight \in Height /\ line.settlementId \in SettlementId \cup {NoGap}
    BY <2>1 DEF AdmittedRecord
  <2>3. Admissible(m.projections[line.tokenId], line.entry)
    BY <1>4 DEF ReplayAccepts
  <2> QED
    BY <1>4, <2>2, <2>3, AdmissionAppliedSound DEF ReplayResult
<1> QED
  BY <1>1, <1>2, <1>3, <1>4 DEF ReplayAccepts

-----------------------------------------------------------------------------
(* The inductive invariant: the types, the soundness of memory, and that a  *)
(* store which is not down was configured with a real identity (what it     *)
(* acknowledges is tagged with it).                                         *)

StoreOK ==
    /\ mode \in {"down", "replaying", "up"}
    /\ identity \in Identity \cup {NoIdentity}
    /\ mode # "down" => identity \in Identity
    /\ mem \in SoundMemory
    /\ poisoned \in BOOLEAN
    /\ file \in FileType
    /\ opened \in BOOLEAN
    /\ replayed \in Nat
    /\ now \in Time
    /\ faults \in 0 .. MaxFaults
    /\ acked \subseteq [identity : Identity, record : JournalRecord]

StoreInv == StoreOK /\ served \in [Token -> Seq(ProjectionEntry)]

\* While the store is up, its histories only grow.
UpGrows == mode = "up" /\ mode' = "up" => Grows(mem, mem')

LEMMA InitInv == Init => StoreInv
<1> SUFFICES ASSUME Init
             PROVE  StoreInv
  OBVIOUS
<1>1. EmptyFile \in FileType
  BY DEF EmptyFile, FileType
<1>2. 0 \in Time /\ 0 \in 0 .. MaxFaults
  BY StoreAssumption DEF Time
<1>3. FreshMemory.projections \in [Token -> Seq(ProjectionEntry)]
  BY FreshMemorySound DEF SoundMemory, Memory
<1> QED
  BY <1>1, <1>2, <1>3, FreshMemorySound DEF Init, StoreInv, StoreOK

\* A fault is counted and stays within its bound.
LEMMA MayCounts ==
    ASSUME StoreOK, NEW fault, May(fault)
    PROVE  faults' \in 0 .. MaxFaults
BY StoreAssumption DEF StoreOK, May

LEMMA ProcessGoneOK ==
    ASSUME StoreOK, ProcessGone, file' \in FileType, faults' \in 0 .. MaxFaults,
           UNCHANGED <<now, acked>>
    PROVE  StoreOK' /\ UpGrows
BY FreshMemorySound DEF StoreOK, ProcessGone, UpGrows

LEMMA DiesWritingOK ==
    ASSUME StoreOK, NEW line \in Line, DiesWriting(line), UNCHANGED now
    PROVE  StoreOK' /\ UpGrows
<1>1. file \in FileType /\ opened \in BOOLEAN
  BY DEF StoreOK
<1>2. file' \in FileType
  BY <1>1, CutShortType, AfterPowerCutType DEF DiesWriting
<1>3. faults' \in 0 .. MaxFaults
  BY MayCounts DEF DiesWriting
<1> QED
  BY <1>2, <1>3, ProcessGoneOK DEF DiesWriting

\* A journaled mutation, whether its append returns, throws or never ends.
LEMMA RecordOK ==
    ASSUME StoreOK, mode = "up",
           NEW record \in JournalRecord,
           NEW applied \in SoundMemory, NEW undone \in SoundMemory, NEW restored \in BOOLEAN,
           Grows(mem, applied), Grows(mem, undone),
           Record(record, applied, undone, restored)
    PROVE  StoreOK' /\ UpGrows
<1>1. file \in FileType /\ opened \in BOOLEAN /\ record \in Line
  BY DEF StoreOK, Line
<1>2. CASE /\ mem' = applied
           /\ file' = DurablyWritten(file, opened, record)
           /\ opened' = TRUE
           /\ acked' = acked \cup {[identity |-> identity, record |-> record]}
           /\ UNCHANGED <<mode, identity, poisoned, replayed, now, faults>>
  <2>1. file' \in FileType
    BY <1>1, <1>2, DurablyWrittenType
  <2>2. acked' \subseteq [identity : Identity, record : JournalRecord]
    BY <1>2 DEF StoreOK
  <2> QED
    BY <1>2, <2>1, <2>2 DEF StoreOK, UpGrows
<1>3. CASE /\ May("append")
           /\ mem' = undone
           /\ file' \in CutShort(file, opened, record)
           /\ opened' \in OpenAfterFailure(file, opened, file')
           /\ poisoned' = PoisonedAfter(restored)
           /\ UNCHANGED <<mode, identity, replayed, now, acked>>
  <2>1. file' \in FileType
    BY <1>1, <1>3, CutShortType
  <2>2. opened' \in BOOLEAN
    BY <1>1, <1>3, OpenAfterFailureType
  <2>3. faults' \in 0 .. MaxFaults
    BY <1>3, MayCounts
  <2>4. poisoned' \in BOOLEAN
    BY <1>3 DEF PoisonedAfter, StoreOK
  <2> QED
    BY <1>3, <2>1, <2>2, <2>3, <2>4 DEF StoreOK, UpGrows
<1>4. CASE DiesWriting(record) /\ UNCHANGED now
  BY <1>1, <1>4, DiesWritingOK
<1> QED
  BY <1>2, <1>3, <1>4 DEF Record

LEMMA SameHistoriesGrow ==
    ASSUME NEW m, NEW n, n.projections = m.projections
    PROVE  Grows(m, n)
BY DEF Grows

-----------------------------------------------------------------------------
(* One lemma per operation.                                                  *)

LEMMA BeginOK ==
    ASSUME StoreOK, NEW sid \in SettlementId, NEW tok \in Token, NEW account \in Account,
           NEW holder \in Address, NEW deadline \in Time,
           Begin(sid, tok, account, holder, deadline)
    PROVE  StoreOK' /\ UpGrows
<1> DEFINE settlement == [tokenId |-> tok, initiator |-> account, expectedHolder |-> holder,
                          deadline |-> deadline, status |-> "OPEN"]
           applied == GapOpened(mem, tok, sid, settlement)
           undone == GapForgotten(applied, tok, sid)
           record == [kind |-> "gap-opened", tokenId |-> tok, settlementId |-> sid,
                      settlement |-> settlement]
<1>1. settlement \in Settlement
  BY DEF Settlement
<1>2. record \in JournalRecord
  BY <1>1 DEF JournalRecord, GapOpenedRecord
<1>3. mem \in SoundMemory /\ mode = "up"
  BY DEF StoreOK, Begin, Writable
<1>4. Record(record, applied, undone, TRUE)
  BY DEF Begin
<1> HIDE DEF settlement
<1>5. applied \in SoundMemory /\ applied.projections = mem.projections
  BY <1>1, <1>3, GapOpenedSound
<1> HIDE DEF applied
<1>6. undone \in SoundMemory /\ undone.projections = mem.projections
  BY <1>5, GapForgottenSound
<1> HIDE DEF undone, record
<1>7. Grows(mem, applied) /\ Grows(mem, undone)
  BY <1>5, <1>6, SameHistoriesGrow
<1> QED
  BY <1>2, <1>3, <1>4, <1>5, <1>6, <1>7, RecordOK

LEMMA CancelOK ==
    ASSUME StoreOK, NEW sid \in SettlementId, NEW caller \in Account, Cancel(sid, caller)
    PROVE  StoreOK' /\ UpGrows
<1> DEFINE tok == mem.settlements[sid].tokenId
           openId == mem.openGaps[tok]
           applied == GapClosed(mem, tok, openId, "CANCELLED")
           undone == GapOpened(applied, tok, openId, mem.settlements[openId])
           record == [kind |-> "gap-cancelled", tokenId |-> tok, settlementId |-> openId]
<1>1. mem \in SoundMemory /\ mode = "up"
  BY DEF StoreOK, Cancel, Writable
<1>2. /\ mem.settlements[sid] \in Settlement \cup Unrecorded
      /\ mem.settlements[sid].status = "OPEN"
  BY <1>1 DEF SoundMemory, Memory, Cancel
<1>3. tok \in Token
  BY <1>2 DEF Settlement, Unrecorded
<1>4. openId \in SettlementId
  <2>1. openId \in SettlementId \cup {NoGap}
    BY <1>1, <1>3 DEF SoundMemory, Memory
  <2> QED
    BY <2>1 DEF Cancel
<1>5. mem.settlements[openId] \in Settlement \cup Unrecorded
  BY <1>1, <1>4 DEF SoundMemory, Memory
<1>6. Record(record, applied, undone, TRUE)
  BY DEF Cancel
<1> HIDE DEF tok, openId
<1>7. record \in JournalRecord
  BY <1>3, <1>4 DEF JournalRecord, GapCancelledRecord
<1>8. applied \in SoundMemory /\ applied.projections = mem.projections
  BY <1>1, <1>3, <1>4, GapClosedSound
<1> HIDE DEF applied
<1>9. undone \in SoundMemory /\ undone.projections = mem.projections
  BY <1>3, <1>4, <1>5, <1>8, GapOpenedSound
<1> HIDE DEF undone, record
<1>10. Grows(mem, applied) /\ Grows(mem, undone)
  BY <1>8, <1>9, SameHistoriesGrow
<1> QED
  BY <1>1, <1>6, <1>7, <1>8, <1>9, <1>10, RecordOK

LEMMA StoreAdmitOK ==
    ASSUME StoreOK, NEW tok \in Token, NEW c \in CandidateEntry, NEW h \in Height,
           StoreAdmit(tok, c, h)
    PROVE  StoreOK' /\ UpGrows
<1> DEFINE sid == mem.openGaps[tok]
           applied == AdmissionApplied(mem, tok, c, h, sid)
           undone == AdmissionUndone(mem, applied, tok)
           restored == ~AdvanceThrows(applied.heights, tok, mem.heights[tok])
           record == [kind |-> "admitted", tokenId |-> tok, entry |-> c, remoteHeight |-> h,
                      settlementId |-> sid]
<1>1. /\ mem \in SoundMemory /\ mode = "up"
      /\ Admissible(mem.projections[tok], c)
  BY DEF StoreOK, StoreAdmit, Writable
<1>2. sid \in SettlementId \cup {NoGap}
  BY <1>1 DEF SoundMemory, Memory
<1>3. record \in JournalRecord
  BY <1>2 DEF JournalRecord, AdmittedRecord
<1>4. applied \in SoundMemory /\ Grows(mem, applied)
  BY <1>1, <1>2, AdmissionAppliedSound
<1>5. undone \in SoundMemory /\ undone.projections = mem.projections
  BY <1>1, AdmissionUndoneSound
<1>6. restored \in BOOLEAN
  BY DEF AdvanceThrows
<1>7. Record(record, applied, undone, restored)
  BY DEF StoreAdmit
<1> HIDE DEF applied, undone, restored, record
<1>8. Grows(mem, undone)
  BY <1>5, SameHistoriesGrow
<1> QED
  BY <1>1, <1>3, <1>4, <1>5, <1>6, <1>7, <1>8, RecordOK

LEMMA FinalizeOK ==
    ASSUME StoreOK, NEW sid \in SettlementId, NEW c \in CandidateEntry, NEW h \in Height,
           Finalize(sid, c, h)
    PROVE  StoreOK' /\ UpGrows
<1>1. /\ mem.settlements[sid] \in Settlement \cup Unrecorded
      /\ mem.settlements[sid].status = "OPEN"
  BY DEF StoreOK, SoundMemory, Memory, Finalize, SettlementAdmissible
<1>2. mem.settlements[sid].tokenId \in Token
  BY <1>1 DEF Settlement, Unrecorded
<1> QED
  BY <1>2, StoreAdmitOK DEF Finalize

LEMMA RestartOK ==
    ASSUME StoreOK, NEW id \in Identity, Restart(id)
    PROVE  StoreOK' /\ UpGrows
<1>1. HeaderLine(id) \in Line /\ file \in FileType /\ opened \in BOOLEAN
  BY DEF Line, StoreOK
<1>2. DurablyWritten(file, opened, HeaderLine(id)) \in FileType
  BY <1>1, DurablyWrittenType
<1>3. file' \in FileType /\ opened' \in BOOLEAN
  BY <1>1, <1>2 DEF Restart
<1>4. /\ mode' = "replaying" /\ identity' = id /\ replayed' = 0
      /\ UNCHANGED <<mem, poisoned, now, acked, faults>>
  BY DEF Restart, Replaying
<1> QED
  BY <1>3, <1>4 DEF StoreOK, UpGrows

LEMMA RestartFailsOK ==
    ASSUME StoreOK, NEW id \in Identity, RestartFails(id)
    PROVE  StoreOK' /\ UpGrows
<1>1. HeaderLine(id) \in Line /\ file \in FileType /\ opened \in BOOLEAN
  BY DEF Line, StoreOK
<1>2. CASE DiesWriting(HeaderLine(id))
  BY <1>1, <1>2, DiesWritingOK DEF RestartFails
<1>3. CASE /\ May("append")
           /\ file' \in CutShort(file, opened, HeaderLine(id))
           /\ IF ReusesJournal
              THEN opened' \in OpenAfterFailure(file, opened, file')
              ELSE opened' = FALSE
           /\ UNCHANGED <<mode, identity, mem, poisoned, replayed, acked>>
  <2>1. file' \in FileType
    BY <1>1, <1>3, CutShortType
  <2>2. opened' \in BOOLEAN
    BY <1>1, <1>3, OpenAfterFailureType
  <2>3. faults' \in 0 .. MaxFaults
    BY <1>3, MayCounts
  <2> QED
    BY <1>3, <2>1, <2>2, <2>3 DEF StoreOK, RestartFails, UpGrows
<1> QED
  BY <1>2, <1>3 DEF RestartFails

LEMMA ReplayLineOK ==
    ASSUME StoreOK, ReplayLine
    PROVE  StoreOK' /\ UpGrows
<1> DEFINE line == file.lines[replayed + 1]
<1>1. line \in Line
  BY DEF StoreOK, FileType, ReplayLine
<1>2. CASE ReplayAccepts(mem, line)
  <2>1. ReplayResult(mem, line) \in SoundMemory
    BY <1>1, <1>2, ReplayResultSound DEF StoreOK
  <2> QED
    BY <1>2, <2>1 DEF StoreOK, ReplayLine, UpGrows
<1>3. CASE ~ReplayAccepts(mem, line)
  BY <1>3, ProcessGoneOK DEF StoreOK, ReplayLine
<1> QED
  BY <1>2, <1>3

LEMMA ServeOK ==
    ASSUME StoreOK, Serve
    PROVE  StoreOK' /\ UpGrows
BY DEF StoreOK, Serve, UpGrows

LEMMA CrashOK ==
    ASSUME StoreOK, Crash
    PROVE  StoreOK' /\ UpGrows
<1>1. faults' \in 0 .. MaxFaults
  BY MayCounts DEF Crash
<1> QED
  BY <1>1, ProcessGoneOK DEF StoreOK, Crash

LEMMA PowerCutOK ==
    ASSUME StoreOK, PowerCut
    PROVE  StoreOK' /\ UpGrows
<1>1. faults' \in 0 .. MaxFaults
  BY MayCounts DEF PowerCut
<1>2. file' \in FileType
  BY AfterPowerCutType DEF StoreOK, PowerCut
<1> QED
  BY <1>1, <1>2, ProcessGoneOK DEF PowerCut

LEMMA GiveUpOK ==
    ASSUME StoreOK, GiveUp
    PROVE  StoreOK' /\ UpGrows
BY FreshMemorySound DEF StoreOK, GiveUp, UpGrows

LEMMA CloseOK ==
    ASSUME StoreOK, Close
    PROVE  StoreOK' /\ UpGrows
<1>1. Grows(mem, mem)
  BY SameHistoriesGrow
<1> QED
  BY <1>1 DEF StoreOK, Close, UpGrows

LEMMA TickOK ==
    ASSUME StoreOK, Tick
    PROVE  StoreOK' /\ UpGrows
<1>1. now' \in Time
  BY StoreAssumption DEF StoreOK, Tick, Time
<1>2. Grows(mem, mem)
  BY SameHistoriesGrow
<1> QED
  BY <1>1, <1>2 DEF StoreOK, Tick, UpGrows

LEMMA StepOK ==
    ASSUME StoreOK, Step
    PROVE  StoreOK' /\ UpGrows
<1>1. CASE \E sid \in SettlementId, tok \in Token, account \in Account, holder \in Address,
             deadline \in Time : Begin(sid, tok, account, holder, deadline)
  BY <1>1, BeginOK
<1>2. CASE \E sid \in SettlementId, caller \in Account : Cancel(sid, caller)
  BY <1>2, CancelOK
<1>3. CASE \E sid \in SettlementId, c \in CandidateEntry, h \in Height : Finalize(sid, c, h)
  BY <1>3, FinalizeOK
<1>4. CASE \E tok \in Token, c \in CandidateEntry, h \in Height : PostAdmission(tok, c, h)
  BY <1>4, StoreAdmitOK DEF PostAdmission
<1>5. CASE \E id \in Identity : Restart(id)
  BY <1>5, RestartOK
<1>6. CASE \E id \in Identity : RestartFails(id)
  BY <1>6, RestartFailsOK
<1>7. CASE ReplayLine
  BY <1>7, ReplayLineOK
<1>8. CASE Serve
  BY <1>8, ServeOK
<1>9. CASE Crash
  BY <1>9, CrashOK
<1>10. CASE PowerCut
  BY <1>10, PowerCutOK
<1>11. CASE GiveUp
  BY <1>11, GiveUpOK
<1>12. CASE Close
  BY <1>12, CloseOK
<1>13. CASE Tick
  BY <1>13, TickOK
<1> QED
  BY <1>1, <1>2, <1>3, <1>4, <1>5, <1>6, <1>7, <1>8, <1>9, <1>10, <1>11, <1>12, <1>13 DEF Step

LEMMA NextInv ==
    ASSUME StoreInv, [Next]_vars
    PROVE  StoreInv'
<1>1. CASE Next
  <2>1. StoreOK'
    BY <1>1, StepOK DEF StoreInv, Next
  <2>2. mem'.projections \in [Token -> Seq(ProjectionEntry)]
    BY <2>1 DEF StoreOK, SoundMemory, Memory
  <2> QED
    BY <1>1, <2>1, <2>2 DEF StoreInv, Next, Observe
<1>2. CASE UNCHANGED vars
  BY <1>2 DEF vars, StoreInv, StoreOK
<1> QED
  BY <1>1, <1>2

THEOREM StoreInvariant == Spec => []StoreInv
BY InitInv, NextInv, PTL DEF Spec

-----------------------------------------------------------------------------

\* Every variable keeps its type, whatever faults happen and whatever is read
\* back from the file.
THEOREM TypeCorrect == Spec => []TypeOK
<1>1. StoreInv => TypeOK
  BY DEF StoreInv, StoreOK, TypeOK, FileType, SoundMemory
<1> QED
  BY <1>1, StoreInvariant, PTL

\* Every token's history satisfies the four projection invariants in every
\* state: live, half-replayed or rolled back.
THEOREM ProjectionsAlwaysSound == Spec => []ProjectionsSound
<1>1. StoreInv => ProjectionsSound
  BY DEF StoreInv, StoreOK, ProjectionsSound, SoundMemory
<1> QED
  BY <1>1, StoreInvariant, PTL

\* A final answer of a running store never changes.
LEMMA FinalAnswersStep ==
    ASSUME StoreInv, Next, mode = "up", mode' = "up",
           NEW tok \in Token, NEW t \in Uint64, IsFinalAsOf(mem.projections[tok], t)
    PROVE  /\ IsFinalAsOf(mem.projections'[tok], t)
           /\ EntryAsOf(mem.projections'[tok], t) = EntryAsOf(mem.projections[tok], t)
<1>1. Grows(mem, mem')
  BY StepOK DEF StoreInv, Next, UpGrows
<1>2. /\ mem.projections[tok] \in Seq(ProjectionEntry)
      /\ ProjectionInvariants(mem.projections[tok])
  BY DEF StoreInv, StoreOK, SoundMemory, Memory
<1>3. CASE mem'.projections[tok] = mem.projections[tok]
  BY <1>3
<1>4. CASE \E c \in CandidateEntry :
              /\ Admissible(mem.projections[tok], c)
              /\ mem'.projections[tok] = Admit(mem.projections[tok], c)
  BY <1>2, <1>4, FinalAnswerSurvivesAdmit
<1> QED
  BY <1>1, <1>3, <1>4 DEF Grows

THEOREM FinalAnswersNeverChange == Spec => FinalAnswersStable
<1> DEFINE Stable ==
      mode = "up" /\ mode' = "up" =>
        \A tok \in Token, t \in Uint64 :
            IsFinalAsOf(mem.projections[tok], t) =>
                /\ IsFinalAsOf(mem.projections'[tok], t)
                /\ EntryAsOf(mem.projections'[tok], t) = EntryAsOf(mem.projections[tok], t)
<1>1. StoreInv /\ [Next]_vars => [Stable]_vars
  <2> SUFFICES ASSUME StoreInv, Next
               PROVE  Stable
    OBVIOUS
  <2> QED
    BY FinalAnswersStep
<1> QED
  BY <1>1, StoreInvariant, PTL DEF Spec, FinalAnswersStable
=============================================================================

---------------------------- MODULE ProjectionStore ----------------------------
(***************************************************************************)
(* The off-chain register: engine/projection/store.ts with the settlement  *)
(* engine and the admission route that call it, over a FileJournal and a   *)
(* chain adapter, in a process that can die and be started again.          *)
(*                                                                         *)
(* Handlers are synchronous JavaScript, so each is one step; what can      *)
(* happen inside one is that the journal append throws, or that the        *)
(* process or the power goes.  Replay at start-up is one step per record.  *)
(*                                                                         *)
(* Abstracted: the proof.  profile.verify is a pure function of the        *)
(* submitted material; here a submitted candidate is one that it admits    *)
(* (a refused one changes nothing), so every candidate may be submitted.   *)
(* snapshotHash and openedAt of a settlement are left out: the first only  *)
(* feeds the proof binding, the second orders a listing.                   *)
(***************************************************************************)
EXTENDS TokenProjection, FileJournal

CONSTANTS
    Token,
    SettlementId,
    NoGap,              \* the zero word openGapOf answers with
    Account,            \* who may call begin and cancel
    Authority,          \* the accounts of the AllowListAuthority
    SettlementPeriod,
    FinalizedThrough,   \* the adapter's finalized frontier
    MaxHeight,          \* bound: remote heights submitted
    MaxTime,            \* bound: the clock
    Adapter,            \* "memory" or "ethereum"
    ReusesJournal,      \* whether a poisoned store is replaced over the same FileJournal object
    Fault,              \* which of "append", "crash", "power" may happen
    MaxFaults           \* bound: how many of them

ASSUME StoreAssumption ==
    /\ NoGap \notin SettlementId
    /\ Authority \subseteq Account
    /\ SettlementPeriod \in Nat /\ FinalizedThrough \in Nat
    /\ MaxHeight \in Nat /\ MaxTime \in Nat /\ MaxFaults \in Nat
    /\ Adapter \in {"memory", "ethereum"}
    /\ ReusesJournal \in BOOLEAN
    /\ Fault \subseteq {"append", "crash", "power"}

VARIABLES
    mode,       \* "down": no store; "replaying": restoreProjectionStore; "up": serving
    identity,   \* the identity the running store was configured with
    mem,        \* the store's maps and its adapter's accepted heights
    poisoned,   \* the #poisoned flag
    file,       \* the journal file
    opened,     \* whether the FileJournal object holds a descriptor
    replayed,   \* how many lines of the file restore has applied
    now,        \* the injected clock
    faults,     \* how many faults have happened (bounded by MaxFaults)
    acked,      \* history variable: the records whose caller was told they succeeded
    served      \* history variable: the entries readers were last shown

vars == <<mode, identity, mem, poisoned, file, opened, replayed, now, faults, acked, served>>

Height == 0 .. MaxHeight
Time == 0 .. MaxTime

\* What settlement() answers for an identifier it does not know.
NoSettlement == [status |-> "NONE"]

Settlement ==
    [tokenId : Token, initiator : Account, expectedHolder : Address, deadline : Time,
     status : {"OPEN", "ADMITTED", "CANCELLED"}]

\* Closing a settlement that was never recorded fills in a status and nothing
\* else; only replaying a foreign file could do it.
Unrecorded == [status : {"NONE", "ADMITTED", "CANCELLED"}]

Memory ==
    [projections : [Token -> Seq(ProjectionEntry)],
     openGaps : [Token -> SettlementId \cup {NoGap}],
     settlements : [SettlementId -> Settlement \cup Unrecorded],
     heights : [Token -> Height]]

\* A store and an adapter that have just been constructed.
FreshMemory ==
    [projections |-> [t \in Token |-> <<>>],
     openGaps |-> [t \in Token |-> NoGap],
     settlements |-> [s \in SettlementId |-> NoSettlement],
     heights |-> [t \in Token |-> 0]]

GapOpenedRecord ==
    [kind : {"gap-opened"}, tokenId : Token, settlementId : SettlementId, settlement : Settlement]
GapCancelledRecord ==
    [kind : {"gap-cancelled"}, tokenId : Token, settlementId : SettlementId]
AdmittedRecord ==
    [kind : {"admitted"}, tokenId : Token, entry : CandidateEntry, remoteHeight : Height,
     settlementId : SettlementId \cup {NoGap}]

JournalRecord == GapOpenedRecord \cup GapCancelledRecord \cup AdmittedRecord
Line == JournalRecord \cup {HeaderLine(id) : id \in Identity} \cup {Glued}

Init ==
    /\ mode = "down"
    /\ identity = NoIdentity
    /\ mem = FreshMemory
    /\ poisoned = FALSE
    /\ file = EmptyFile
    /\ opened = FALSE
    /\ replayed = 0
    /\ now = 0
    /\ faults = 0
    /\ acked = {}
    /\ served = FreshMemory.projections

-----------------------------------------------------------------------------
(* Faults.                                                                   *)

May(fault) == fault \in Fault /\ faults < MaxFaults /\ faults' = faults + 1

\* The process is gone, with its descriptor and everything in memory.
ProcessGone ==
    /\ mode' = "down"
    /\ identity' = NoIdentity
    /\ mem' = FreshMemory
    /\ poisoned' = FALSE
    /\ opened' = FALSE
    /\ replayed' = 0

\* The process or the power goes inside a #write of a line.
DiesWriting(line) ==
    /\ ProcessGone
    /\ \/ /\ May("crash")
          /\ file' \in CutShort(file, opened, line)
       \/ /\ May("power")
          /\ \E g \in CutShort(file, opened, line) : file' \in AfterPowerCut(g)
    /\ UNCHANGED acked

-----------------------------------------------------------------------------
(* Journaled mutations: ProjectionStore.#record.                             *)

\* advanceHeight of the two adapters: a setter, or a ratchet that throws.
AdvanceThrows(heights, t, h) == Adapter = "ethereum" /\ h <= heights[t]

\* Seeded fault: the failed store goes on accepting writes.
PoisonNever(restored) == FALSE

\* #poisoned after a failed append: set once rollback() has returned.
PoisonedAfter(restored) == restored \/ poisoned

\* The mutation has been applied to memory (applied); its record is appended.
\* If the append throws, rollback() leaves memory at undone, and restored says
\* whether it ran to its end.
Record(record, applied, undone, restored) ==
    \/ /\ mem' = applied
       /\ file' = DurablyWritten(file, opened, record)
       /\ opened' = TRUE
       /\ acked' = acked \cup {[identity |-> identity, record |-> record]}
       /\ UNCHANGED <<mode, identity, poisoned, replayed, now, faults>>
    \/ /\ May("append")
       /\ mem' = undone
       /\ file' \in CutShort(file, opened, record)
       /\ opened' \in OpenAfterFailure(file, opened, file')
       /\ poisoned' = PoisonedAfter(restored)
       /\ UNCHANGED <<mode, identity, replayed, now, acked>>
    \/ /\ DiesWriting(record)
       /\ UNCHANGED now

Writable == mode = "up" /\ ~poisoned

-----------------------------------------------------------------------------
(* Gaps: SettlementEngine.begin and cancel, with the store calls they make.  *)

GapOpened(m, tok, sid, settlement) ==
    [projections |-> m.projections,
     openGaps |-> [m.openGaps EXCEPT ![tok] = sid],
     settlements |-> [m.settlements EXCEPT ![sid] = settlement],
     heights |-> m.heights]

\* Seeded fault: the rollback keeps the settlement and resets its status.
GapReset(m, tok, sid) ==
    [projections |-> m.projections,
     openGaps |-> [m.openGaps EXCEPT ![tok] = NoGap],
     settlements |-> [m.settlements EXCEPT ![sid].status = "NONE"],
     heights |-> m.heights]

\* The rollback of openGap forgets the settlement altogether.
GapForgotten(m, tok, sid) ==
    [projections |-> m.projections,
     openGaps |-> [m.openGaps EXCEPT ![tok] = NoGap],
     settlements |-> [m.settlements EXCEPT ![sid] = NoSettlement],
     heights |-> m.heights]

\* Seeded fault: closing a gap leaves the token pointing at it.
GapClosedButPointer(m, tok, sid, status) ==
    [projections |-> m.projections,
     openGaps |-> m.openGaps,
     settlements |-> [m.settlements EXCEPT ![sid].status = status],
     heights |-> m.heights]

GapClosed(m, tok, sid, status) ==
    [projections |-> m.projections,
     openGaps |-> [m.openGaps EXCEPT ![tok] = NoGap],
     settlements |-> [m.settlements EXCEPT ![sid].status = status],
     heights |-> m.heights]

\* Seeded fault: begin no longer refuses a token whose gap is open.
BeginOverOpenGap(sid, tok, account, holder, deadline) ==
    LET settlement == [tokenId |-> tok, initiator |-> account, expectedHolder |-> holder,
                       deadline |-> deadline, status |-> "OPEN"]
        applied == GapOpened(mem, tok, sid, settlement)
    IN  /\ Writable
        /\ account \in Authority
        /\ mem.settlements[sid].status = "NONE"
        /\ deadline > now
        /\ deadline - now <= SettlementPeriod
        /\ Record([kind |-> "gap-opened", tokenId |-> tok, settlementId |-> sid,
                   settlement |-> settlement],
                  applied, GapForgotten(applied, tok, sid), TRUE)

Begin(sid, tok, account, holder, deadline) ==
    LET settlement == [tokenId |-> tok, initiator |-> account, expectedHolder |-> holder,
                       deadline |-> deadline, status |-> "OPEN"]
        applied == GapOpened(mem, tok, sid, settlement)
    IN  /\ Writable
        /\ account \in Authority
        /\ mem.settlements[sid].status = "NONE"
        /\ deadline > now
        /\ deadline - now <= SettlementPeriod
        /\ mem.openGaps[tok] = NoGap
        /\ Record([kind |-> "gap-opened", tokenId |-> tok, settlementId |-> sid,
                   settlement |-> settlement],
                  applied, GapForgotten(applied, tok, sid), TRUE)

HasExpired(settlement) == settlement.status = "OPEN" /\ now > settlement.deadline

\* The gap cancelGap closes is the one the token points to.
Cancel(sid, caller) ==
    LET record == mem.settlements[sid]
        tok == record.tokenId
        openId == mem.openGaps[tok]
        applied == GapClosed(mem, tok, openId, "CANCELLED")
    IN  /\ record.status = "OPEN"
        /\ caller = record.initiator
        /\ HasExpired(record)
        /\ Writable
        /\ openId # NoGap
        /\ Record([kind |-> "gap-cancelled", tokenId |-> tok, settlementId |-> openId],
                  applied, GapOpened(applied, tok, openId, mem.settlements[openId]), TRUE)

-----------------------------------------------------------------------------
(* Admission: ProjectionStore.admit.                                         *)

IsFinalizedHeight(h) == 0 < h /\ h <= FinalizedThrough

\* The entry and the height.
EntryAdded(m, tok, c, h) ==
    [projections |-> [m.projections EXCEPT ![tok] = Admit(@, c)],
     openGaps |-> m.openGaps,
     settlements |-> m.settlements,
     heights |-> [m.heights EXCEPT ![tok] = h]]

EntryRemoved(m, tok, h) ==
    [projections |-> [m.projections EXCEPT ![tok] = UndoLastAdmit(@)],
     openGaps |-> m.openGaps,
     settlements |-> m.settlements,
     heights |-> [m.heights EXCEPT ![tok] = h]]

\* Entry, height and the gap that settlement sid holds open, written together.
AdmissionApplied(m, tok, c, h, sid) ==
    IF sid = NoGap THEN EntryAdded(m, tok, c, h)
    ELSE GapClosed(EntryAdded(m, tok, c, h), tok, sid, "ADMITTED")

\* Seeded fault: the rollback forgets the height.
AdmissionUndoneButHeight(before, applied, tok) ==
    LET openId == before.openGaps[tok]
        undone == EntryRemoved(applied, tok, applied.heights[tok])
    IN  IF openId = NoGap THEN undone
        ELSE GapOpened(undone, tok, openId, before.settlements[openId])

\* Seeded fault: the rollback forgets the gap.
AdmissionUndoneButGap(before, applied, tok) ==
    EntryRemoved(applied, tok, before.heights[tok])

\* The rollback closure: entry, then height, then gap.  A height the adapter
\* refuses to move back ends it there.
AdmissionUndone(before, applied, tok) ==
    LET openId == before.openGaps[tok]
        undone == EntryRemoved(applied, tok, before.heights[tok])
    IN  IF AdvanceThrows(applied.heights, tok, before.heights[tok])
        THEN EntryRemoved(applied, tok, applied.heights[tok])
        ELSE IF openId = NoGap THEN undone
        ELSE GapOpened(undone, tok, openId, before.settlements[openId])

StoreAdmit(tok, c, h) ==
    LET applied == AdmissionApplied(mem, tok, c, h, mem.openGaps[tok])
        undone == AdmissionUndone(mem, applied, tok)
        restored == ~AdvanceThrows(applied.heights, tok, mem.heights[tok])
    IN  /\ Writable
        /\ ValidShape(c)
        /\ IsFinalizedHeight(h)
        /\ h > mem.heights[tok]
        /\ Admissible(mem.projections[tok], c)
        /\ Record([kind |-> "admitted", tokenId |-> tok, entry |-> c, remoteHeight |-> h,
                   settlementId |-> mem.openGaps[tok]],
                  applied, undone, restored)

\* Seeded fault: the holder the gap was opened for is not compared.
SettlementAdmissibleForAnyone(settlement, c) ==
    /\ settlement.status = "OPEN"
    /\ now <= settlement.deadline
    /\ ValidShape(c)

\* Seeded fault: the deadline of the gap is not looked at.
SettlementAdmissibleAnyTime(settlement, c) ==
    /\ settlement.status = "OPEN"
    /\ ValidShape(c)
    /\ c.holder = settlement.expectedHolder

\* assertSettlementAdmission.
SettlementAdmissible(settlement, c) ==
    /\ settlement.status = "OPEN"
    /\ now <= settlement.deadline
    /\ ValidShape(c)
    /\ c.holder = settlement.expectedHolder

\* SettlementEngine.finalize.
Finalize(sid, c, h) ==
    /\ SettlementAdmissible(mem.settlements[sid], c)
    /\ StoreAdmit(mem.settlements[sid].tokenId, c, h)

\* POST /projection/{tokenId}/admission.
PostAdmission(tok, c, h) ==
    /\ mem.openGaps[tok] # NoGap => SettlementAdmissible(mem.settlements[mem.openGaps[tok]], c)
    /\ StoreAdmit(tok, c, h)

-----------------------------------------------------------------------------
(* Start-up: restoreProjectionStore.                                         *)

\* Seeded fault: any header will do.
BindChecksNothing(id) == StoredIdentity(file) # NoIdentity

\* FileJournal.bind accepts the file for this identity as it stands.
BindChecks(id) == StoredIdentity(file) = id

\* FileJournal.bind may write the header: the file has no header and no record.
BindWrites(id) == StoredIdentity(file) = NoIdentity /\ Records(file) = <<>>

Replaying(id) ==
    /\ mode' = "replaying"
    /\ identity' = id
    /\ replayed' = 0
    /\ UNCHANGED <<mem, poisoned, now, acked>>

\* read, then the constructor's bind.  A file that does not parse, or belongs
\* to another identity, throws and leaves no store.
Restart(id) ==
    /\ mode = "down"
    /\ Parses(file)
    /\ \/ /\ BindChecks(id)
          /\ Replaying(id)
          /\ UNCHANGED <<file, opened, faults>>
       \/ /\ BindWrites(id)
          /\ Replaying(id)
          /\ file' = DurablyWritten(file, opened, HeaderLine(id))
          /\ opened' = TRUE
          /\ UNCHANGED faults

\* The header write fails: the constructor throws.  The caller may construct
\* again over the same FileJournal object, or the process ends.
RestartFails(id) ==
    /\ mode = "down"
    /\ Parses(file)
    /\ BindWrites(id)
    /\ \/ /\ May("append")
          /\ file' \in CutShort(file, opened, HeaderLine(id))
          /\ IF ReusesJournal
             THEN opened' \in OpenAfterFailure(file, opened, file')
             ELSE opened' = FALSE
          /\ UNCHANGED <<mode, identity, mem, poisoned, replayed, acked>>
       \/ DiesWriting(HeaderLine(id))
    /\ UNCHANGED now

\* The guards of replayGapOpened, replayGapCancelled and replayAdmitted.
ReplayAccepts(m, line) ==
    \/ line.kind = "header"
    \/ /\ line.kind = "gap-opened"
       /\ m.openGaps[line.tokenId] = NoGap
       /\ m.settlements[line.settlementId] = NoSettlement
    \/ /\ line.kind = "gap-cancelled"
       /\ m.openGaps[line.tokenId] = line.settlementId
    \/ /\ line.kind = "admitted"
       /\ Admissible(m.projections[line.tokenId], line.entry)
       /\ ~AdvanceThrows(m.heights, line.tokenId, line.remoteHeight)

\* What they do to memory.
ReplayResult(m, line) ==
    CASE line.kind = "header" -> m
      [] line.kind = "gap-opened" -> GapOpened(m, line.tokenId, line.settlementId, line.settlement)
      [] line.kind = "gap-cancelled" ->
            GapClosed(m, line.tokenId, line.settlementId, "CANCELLED")
      [] line.kind = "admitted" ->
            AdmissionApplied(m, line.tokenId, line.entry, line.remoteHeight, line.settlementId)

\* applyRecord, on the next line of the file.  A refused record throws, and no
\* store comes up.
ReplayLine ==
    LET line == file.lines[replayed + 1]
    IN  /\ mode = "replaying"
        /\ replayed < Len(file.lines)
        /\ IF ReplayAccepts(mem, line)
           THEN /\ mem' = ReplayResult(mem, line)
                /\ replayed' = replayed + 1
                /\ UNCHANGED <<mode, identity, poisoned, opened>>
           ELSE ProcessGone
        /\ UNCHANGED <<file, now, faults, acked>>

\* restoreProjectionStore returns the store.
Serve ==
    /\ mode = "replaying"
    /\ replayed = Len(file.lines)
    /\ mode' = "up"
    /\ replayed' = 0
    /\ UNCHANGED <<identity, mem, poisoned, file, opened, now, faults, acked>>

-----------------------------------------------------------------------------
(* The world around the store.                                               *)

\* The process dies between two calls.
Crash ==
    /\ mode # "down" \/ opened
    /\ May("crash")
    /\ ProcessGone
    /\ UNCHANGED <<file, now, acked>>

PowerCut ==
    /\ May("power")
    /\ ProcessGone
    /\ file' \in AfterPowerCut(file)
    /\ UNCHANGED <<now, acked>>

\* A poisoned store is given up: its process exits, or a new store is made
\* over the same journal object.
GiveUp ==
    /\ poisoned
    /\ IF ReusesJournal THEN UNCHANGED opened ELSE opened' = FALSE
    /\ mode' = "down"
    /\ identity' = NoIdentity
    /\ mem' = FreshMemory
    /\ poisoned' = FALSE
    /\ replayed' = 0
    /\ UNCHANGED <<file, now, faults, acked>>

\* FileJournal.close, called between two calls of the store, which may go on:
\* the next append opens the file again.
Close ==
    /\ opened
    /\ mode # "replaying"
    /\ opened' = FALSE
    /\ UNCHANGED <<mode, identity, mem, poisoned, file, replayed, now, faults, acked>>

Tick ==
    /\ now < MaxTime
    /\ now' = now + 1
    /\ UNCHANGED <<mode, identity, mem, poisoned, file, opened, replayed, faults, acked>>

-----------------------------------------------------------------------------

\* Readers are shown what memory holds whenever the store is up.
Observe == served' = IF mode' = "up" THEN mem'.projections ELSE served

\* Guards written here as well spare TLC the candidates they rule out.
Step ==
    \/ \E sid \in SettlementId, tok \in Token, account \in Account, holder \in Address,
          deadline \in Time : Begin(sid, tok, account, holder, deadline)
    \/ \E sid \in SettlementId, caller \in Account :
          mem.settlements[sid].status = "OPEN" /\ Cancel(sid, caller)
    \/ \E sid \in SettlementId, h \in Height :
          mem.settlements[sid].status = "OPEN" /\ \E c \in CandidateEntry : Finalize(sid, c, h)
    \/ \E tok \in Token, h \in Height :
          h > mem.heights[tok] /\ \E c \in CandidateEntry : PostAdmission(tok, c, h)
    \/ \E id \in Identity : Restart(id)
    \/ \E id \in Identity : RestartFails(id)
    \/ ReplayLine
    \/ Serve
    \/ Crash
    \/ PowerCut
    \/ GiveUp
    \/ Close
    \/ Tick

Next == Step /\ Observe

Spec == Init /\ [][Next]_vars

\* Whoever runs the process starts it again when it is down, and gives up a
\* poisoned store; a start-up that is not interrupted runs to its end.
Supervised ==
    /\ WF_vars((\E id \in Identity : Restart(id)) /\ Observe)
    /\ WF_vars(ReplayLine /\ Observe)
    /\ WF_vars(Serve /\ Observe)
    /\ WF_vars(GiveUp /\ Observe)

SupervisedSpec == Spec /\ Supervised

\* The clock goes on, and an initiator who may cancel keeps trying.
Attended ==
    /\ WF_vars(Tick /\ Observe)
    /\ \A sid \in SettlementId : WF_vars((\E caller \in Account : Cancel(sid, caller)) /\ Observe)

-----------------------------------------------------------------------------
(* Properties.                                                               *)

\* Every variable has its type.
TypeOK ==
    /\ mode \in {"down", "replaying", "up"}
    /\ identity \in Identity \cup {NoIdentity}
    /\ mem \in Memory
    /\ poisoned \in BOOLEAN
    /\ file \in [lines : Seq(Line), torn : BOOLEAN, uncut : BOOLEAN, synced : Nat]
    /\ opened \in BOOLEAN
    /\ replayed \in Nat
    /\ now \in Time
    /\ faults \in 0 .. MaxFaults
    /\ acked \subseteq [identity : Identity, record : JournalRecord]
    /\ served \in [Token -> Seq(ProjectionEntry)]

\* Every token's history in memory, half-replayed, rolled back or live, obeys
\* the four projection invariants and has its intervals closed.
ProjectionsSound == \A tok \in Token : ProjectionInvariants(mem.projections[tok])

\* The open-gap pointer and the settlement records tell the same story: a
\* token points at a settlement exactly when that settlement is its open one.
\* (store.ts keeps the two in separate maps, each written on its own.)
GapPointerConsistent ==
    \A tok \in Token, sid \in SettlementId :
        mem.openGaps[tok] = sid <=>
            /\ mem.settlements[sid].status = "OPEN"
            /\ mem.settlements[sid].tokenId = tok

\* What restoreProjectionStore would make of a sequence of lines: applyRecord on
\* one after another, up to the first it refuses.
ApplyRecord(before, line) ==
    IF before.loads /\ ReplayAccepts(before.mem, line)
    THEN [mem |-> ReplayResult(before.mem, line), loads |-> TRUE]
    ELSE [mem |-> before.mem, loads |-> FALSE]

Replay(lines) ==
    LET after[n \in 0 .. Len(lines)] ==
            IF n = 0 THEN [mem |-> FreshMemory, loads |-> TRUE]
            ELSE ApplyRecord(after[n - 1], lines[n])
    IN  after[Len(lines)]

\* The file on disk can always be read and replayed to the end: no failed or
\* interrupted append, and no recovery from one, leaves a journal that takes
\* the register down at the next start.
JournalLoads == Parses(file) /\ Replay(file.lines).loads

\* Memory and disk do not disagree: a healthy store holds exactly what replaying
\* its file would give; a poisoned one may lack the one record whose append
\* failed, and holds nothing the file does not.
MemoryMatchesJournal ==
    mode = "up" =>
        \/ mem = Replay(file.lines).mem
        \/ /\ poisoned
           /\ file.lines # <<>>
           /\ mem = Replay(SubSeq(file.lines, 1, Len(file.lines) - 1)).mem

\* A record whose caller was told it succeeded is on disk and durable, whatever
\* faults follow.
AckedDurable ==
    \A a \in acked : \E i \in 1 .. file.synced : file.lines[i] = a.record

\* A store never presents the entries of another register: all it has ever
\* acknowledged, in this process or an earlier one, was admitted under the
\* identity it runs with.
IdentityBound == mode # "down" => \A a \in acked : a.identity = identity

\* A gap is closed by admission at most once, after it was opened and on its
\* token, by an entry for the holder it was opened for, and not after it was
\* cancelled.
SettlementsHonoured ==
    \A i \in DOMAIN file.lines :
        LET r == file.lines[i]
        IN  r.kind = "admitted" /\ r.settlementId # NoGap =>
              /\ \E j \in 1 .. i - 1 :
                    /\ file.lines[j].kind = "gap-opened"
                    /\ file.lines[j].settlementId = r.settlementId
                    /\ file.lines[j].tokenId = r.tokenId
                    /\ file.lines[j].settlement.expectedHolder = r.entry.holder
              /\ \A j \in DOMAIN file.lines \ {i} :
                    file.lines[j].kind \in {"admitted", "gap-cancelled"} =>
                        file.lines[j].settlementId # r.settlementId

\* A gap is closed on its side of the deadline it was opened with: by admission
\* no later than it, by cancel strictly after it.  The deadline is the one of the
\* opening record on disk, so this holds the engine and the admission route to it
\* after any number of restarts in between; the record of a call that failed or
\* died half-way counts when its line stayed in the file.
GapsCloseInTime ==
    [][\A i \in DOMAIN file'.lines \ DOMAIN file.lines :
        LET r == file'.lines[i]
        IN  r.kind \in {"admitted", "gap-cancelled"} /\ r.settlementId # NoGap =>
                \E j \in 1 .. i - 1 :
                    /\ file'.lines[j].kind = "gap-opened"
                    /\ file'.lines[j].settlementId = r.settlementId
                    /\ r.kind = "admitted" => now <= file'.lines[j].settlement.deadline
                    /\ r.kind = "gap-cancelled" => now > file'.lines[j].settlement.deadline]_vars

\* While a store is up, an answer it has given as final never changes: the
\* instant stays final and the same entry answers for it.
FinalAnswersStable ==
    [][mode = "up" /\ mode' = "up" =>
        \A tok \in Token, t \in Uint64 :
            IsFinalAsOf(mem.projections[tok], t) =>
                /\ IsFinalAsOf(mem.projections'[tok], t)
                /\ EntryAsOf(mem.projections'[tok], t) = EntryAsOf(mem.projections[tok], t)]_vars

\* Entry, accepted height and gap move together or not at all, in every step of
\* a running store and whatever the append did: the header comment of class
\* ProjectionStore, store.ts:33-35.
AdmissionAtomic ==
    [][mode = "up" /\ mode' = "up" =>
        \A tok \in Token :
            LET before == mem
                after == mem'
                admitted == Len(after.projections[tok]) > Len(before.projections[tok])
            IN  /\ after.heights[tok] # before.heights[tok] <=> admitted
                /\ \A sid \in SettlementId :
                     (before.openGaps[tok] = sid =>
                        (admitted <=> after.settlements[sid].status = "ADMITTED"))]_vars

\* Across crashes, restarts and failed appends, what readers are shown is an
\* append-only register: nothing they saw is ever taken back.
Register ==
    INSTANCE AppendOnlyRegister WITH
        Instant <- Uint64,
        history <- [t \in Token |->
                      [i \in DOMAIN served[t] |->
                         [holder |-> served[t][i].holder,
                          effectiveAt |-> served[t][i].effectiveAt]]]

ServesARegister == Register!Spec

\* When the faults stop, a supervised register comes back into service and
\* stays able to write: no fault it can suffer is one it cannot restart from.
ServiceResumes == []<>Writable

\* No gap holds a token up for good while its initiator attends to it: whatever
\* faults come in between, a writable store no longer points at it in the end
\* (admission.ts refuses every admission after the deadline, so nothing but
\* cancel can end it then).  The clock of the model stops at MaxTime, where
\* nothing later than a deadline can come.
GapsEnd ==
    Attended =>
        \A tok \in Token, sid \in SettlementId :
            (/\ Writable
             /\ mem.openGaps[tok] = sid
             /\ mem.settlements[sid].deadline < MaxTime)
            ~> (Writable /\ mem.openGaps[tok] # sid)
=============================================================================

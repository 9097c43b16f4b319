------------------------ MODULE ProjectionClientProofs ------------------------
(***************************************************************************)
(* What callers are told stays true of the register they asked, for every  *)
(* value of the constants: any page sizes, tokens and instants, and a      *)
(* register that goes on admitting, failing, crashing and restarting       *)
(* between any two requests.  There is one caller, whose calls follow one  *)
(* another; what others read changes nothing it could see.                 *)
(*                                                                         *)
(* The proofs rest on one fact about the register, from JournalProofs: the *)
(* history readers are shown only grows.  Everything a caller holds, or    *)
(* that is on its way to it, is a reading of an earlier history; the       *)
(* invariant says in which sense it is still one of the present history.   *)
(***************************************************************************)
EXTENDS ProjectionClient, JournalProofs

-----------------------------------------------------------------------------
(* Histories that grow.                                                      *)

\* The fields of an entry that never change once it is admitted.
SameFact(e, f) ==
    /\ e.version = f.version
    /\ e.holder = f.holder
    /\ e.effectiveAt = f.effectiveAt
    /\ e.recordCommitment = f.recordCommitment

\* g is f with more entries behind it.
Continues(g, f) ==
    /\ Len(f) <= Len(g)
    /\ \A i \in 1 .. Len(f) : SameFact(g[i], f[i])

History == {es \in Seq(ProjectionEntry) : ProjectionInvariants(es)}

LEMMA AdmitContinues ==
    ASSUME NEW es \in Seq(ProjectionEntry), NEW c \in CandidateEntry
    PROVE  Continues(Admit(es, c), es)
<1> DEFINE longer == Admit(es, c)
<1>1. /\ Len(longer) = Len(es) + 1
      /\ \A i \in 1 .. Len(es) :
           longer[i] = IF i = Len(es) THEN [es[i] EXCEPT !.supersededAt = c.effectiveAt] ELSE es[i]
  BY AdmitShape
<1> HIDE DEF longer
<1>2. Len(es) \in Nat /\ \A i \in 1 .. Len(es) : es[i] \in ProjectionEntry
  OBVIOUS
<1>3. \A i \in 1 .. Len(es) : SameFact(longer[i], es[i])
  BY <1>1, <1>2 DEF SameFact, ProjectionEntry
<1> QED
  BY <1>1, <1>2, <1>3 DEF Continues, longer

LEMMA SameContinues ==
    ASSUME NEW es \in History
    PROVE  Continues(es, es)
BY DEF Continues, SameFact, History

LEMMA EntryTypes ==
    ASSUME NEW es \in Seq(ProjectionEntry), NEW i \in 1 .. Len(es)
    PROVE  /\ es[i] \in ProjectionEntry
           /\ es[i].effectiveAt \in Nat
           /\ es[i].version \in Nat
<1>1. es[i] \in ProjectionEntry
  OBVIOUS
<1> QED
  BY <1>1, WidthAssumption DEF ProjectionEntry, Uint64

\* Histories that agree on what has happened by an instant answer alike for it.
LEMMA AsOfAgrees ==
    ASSUME NEW es \in Seq(ProjectionEntry), NEW g \in Seq(ProjectionEntry),
           NEW t \in Uint64,
           NEW n \in 1 .. Len(es), n <= Len(g),
           \A i \in 1 .. n : SameFact(g[i], es[i]),
           Covered(es, t),
           \A i \in 1 .. Len(es) : es[i].effectiveAt <= t => i <= n,
           \A i \in 1 .. Len(g) : g[i].effectiveAt <= t => i <= n
    PROVE  Covered(g, t) /\ HolderAsOf(g, t) = HolderAsOf(es, t)
<1> DEFINE i == AsOfIndex(es, t)
<1>1. Len(es) \in Nat /\ Len(g) \in Nat
  OBVIOUS
<1>2. /\ i \in 1 .. Len(es)
      /\ es[i].effectiveAt <= t
      /\ \A j \in 1 .. Len(es) : es[j].effectiveAt <= t => j <= i
  BY <1>1, AsOfIndexExists
<1> HIDE DEF i
<1>3. i \in 1 .. n /\ i \in 1 .. Len(g)
  BY <1>1, <1>2
<1>4. \A j \in 1 .. n : j \in 1 .. Len(es) /\ g[j].effectiveAt = es[j].effectiveAt
                                           /\ g[j].holder = es[j].holder
  BY <1>1 DEF SameFact
<1>5. \A j \in 1 .. Len(g) : g[j].effectiveAt <= t => j <= i
  BY <1>1, <1>2, <1>4
<1>6. AsOfIndex(g, t) = i
  BY <1>1, <1>2, <1>3, <1>4, <1>5, AsOfIndexUnique
<1>7. Covered(g, t)
  <2>1. 1 \in 1 .. n /\ es[1].effectiveAt <= t
    BY <1>1, EntryTypes DEF Covered
  <2> QED
    BY <1>1, <1>4, <2>1, EntryTypes DEF Covered
<1> QED
  BY <1>3, <1>4, <1>6, <1>7 DEF HolderAsOf, EntryAsOf, i

\* An instant that is final stays final, with the same holder.
LEMMA FinalityStands ==
    ASSUME NEW es \in History, NEW g \in History, Continues(g, es), NEW t \in Uint64,
           IsFinalAsOf(es, t)
    PROVE  /\ IsFinalAsOf(g, t)
           /\ Covered(es, t)
           /\ HolderAsOf(g, t) = HolderAsOf(es, t)
<1>1. es \in Seq(ProjectionEntry) /\ g \in Seq(ProjectionEntry)
      /\ Len(es) \in Nat /\ Len(g) \in Nat /\ t \in Nat
      /\ Increasing(es) /\ Increasing(g)
  BY WidthAssumption DEF History, ProjectionInvariants, Uint64
<1>2. /\ es # <<>> /\ Len(es) \in 1 .. Len(es) /\ 1 \in 1 .. Len(es)
      /\ es[1].effectiveAt <= t /\ t < es[Len(es)].effectiveAt
  BY <1>1 DEF IsFinalAsOf
<1>3. /\ Len(es) <= Len(g) /\ \A i \in 1 .. Len(es) : SameFact(g[i], es[i])
  BY DEF Continues
<1>4. \A i \in 1 .. Len(es) : g[i].effectiveAt = es[i].effectiveAt
  BY <1>3 DEF SameFact
<1>5. \A i \in 1 .. Len(es) : es[i].effectiveAt \in Nat
  BY <1>1, EntryTypes
<1>6. \A i \in 1 .. Len(g) : g[i].effectiveAt \in Nat
  BY <1>1, EntryTypes
<1>7. \A i \in 1 .. Len(g) : g[i].effectiveAt <= t => i <= Len(es)
  <2> SUFFICES ASSUME NEW i \in 1 .. Len(g), ~(i <= Len(es))
               PROVE  ~(g[i].effectiveAt <= t)
    OBVIOUS
  <2>1. Len(es) \in 1 .. Len(g) /\ Len(es) < i
    BY <1>1, <1>2, <1>3
  <2>2. g[Len(es)].effectiveAt < g[i].effectiveAt
    BY <1>1, <2>1 DEF Increasing
  <2> QED
    BY <1>1, <1>2, <1>4, <1>5, <1>6, <2>1, <2>2
<1>8. Covered(es, t)
  BY <1>1, <1>2, <1>5 DEF Covered
<1>9. IsFinalAsOf(g, t)
  <2>1. Len(g) \in 1 .. Len(g) /\ Len(es) \in 1 .. Len(g) /\ g # <<>>
    BY <1>1, <1>2, <1>3
  <2>2. g[Len(es)].effectiveAt <= g[Len(g)].effectiveAt
    <3>1. CASE Len(es) = Len(g)
      BY <1>6, <2>1, <3>1
    <3>2. CASE Len(es) < Len(g)
      BY <1>1, <1>6, <2>1, <3>2 DEF Increasing
    <3> QED
      BY <1>1, <1>3, <3>1, <3>2
  <2> QED
    BY <1>1, <1>2, <1>4, <1>5, <1>6, <2>1, <2>2 DEF IsFinalAsOf
<1> QED
  BY <1>1, <1>2, <1>3, <1>7, <1>8, <1>9, AsOfAgrees

\* The first entries of a longer history answer as those of the shorter one did.
LEMMA PrefixAnswers ==
    ASSUME NEW es \in History, NEW g \in History, Continues(g, es), NEW t \in Uint64,
           NEW L \in 0 .. Len(es), Covered(SubSeq(es, 1, L), t)
    PROVE  /\ Covered(SubSeq(g, 1, L), t)
           /\ HolderAsOf(SubSeq(g, 1, L), t) = HolderAsOf(SubSeq(es, 1, L), t)
<1> DEFINE p == SubSeq(es, 1, L)
           q == SubSeq(g, 1, L)
<1>1. es \in Seq(ProjectionEntry) /\ g \in Seq(ProjectionEntry)
      /\ Len(es) \in Nat /\ Len(g) \in Nat /\ L <= Len(g)
      /\ \A i \in 1 .. Len(es) : SameFact(g[i], es[i])
  BY DEF History, Continues
<1>2. p \in Seq(ProjectionEntry) /\ Len(p) = L /\ \A i \in 1 .. L : p[i] = es[i]
  BY <1>1
<1>3. q \in Seq(ProjectionEntry) /\ Len(q) = L /\ \A i \in 1 .. L : q[i] = g[i]
  BY <1>1
<1>4. Covered(p, t)
  OBVIOUS
<1> HIDE DEF p, q
<1>5. \A i \in 1 .. L : SameFact(q[i], p[i])
  BY <1>1, <1>2, <1>3
<1>6. L \in 1 .. Len(p) /\ L <= Len(q)
  <2>1. p # <<>>
    BY <1>4 DEF Covered
  <2> QED
    BY <1>2, <1>3, <2>1
<1>7. Covered(q, t) /\ HolderAsOf(q, t) = HolderAsOf(p, t)
  BY <1>2, <1>3, <1>4, <1>5, <1>6, AsOfAgrees
<1> QED
  BY <1>7 DEF p, q

-----------------------------------------------------------------------------
(* What a caller holds, as readings of a history es of the token it asked    *)
(* about.                                                                    *)

\* got starts the history es: each entry a fact of es, and each interval that
\* was closed within the first total entries closed where the next one begins.
Starts(got, total, es) ==
    \A i \in 1 .. Len(got) :
        /\ SameFact(got[i], es[i])
        /\ i < total => got[i].supersededAt = es[i + 1].effectiveAt

\* The pages received so far.  since and total are lengths es has had.
Collected(c, es) ==
    /\ c.got \in Seq(ProjectionEntry)
    /\ c.pages \in Nat /\ c.total \in Nat /\ c.since \in Nat
    /\ c.pages = 0 => c.got = <<>> /\ c.total = 0
    /\ c.pages > 0 => c.since <= c.total
    /\ c.since <= Len(es)
    /\ Len(c.got) <= c.total /\ c.total <= Len(es)
    /\ Starts(c.got, c.total, es)

\* page is what es has behind its first n entries, when it had count of them.
Follows(page, n, count, es) ==
    \A k \in 1 .. Len(page) :
        /\ SameFact(page[k], es[n + k])
        /\ n + k < count => page[k].supersededAt = es[n + k + 1].effectiveAt

\* A page on its way to call c.
Page(c, body, es) ==
    /\ body.entries \in Seq(ProjectionEntry)
    /\ body.entryCount \in Nat
    /\ c.since <= body.entryCount /\ body.entryCount <= Len(es)
    /\ Len(c.got) + Len(body.entries) <= body.entryCount
    /\ Follows(body.entries, Len(c.got), body.entryCount, es)

\* Finality, and the holder it comes with, are those of es.
FactsStand(facts, es, t) ==
    "final" \in DOMAIN facts /\ facts.final =>
        /\ IsFinalAsOf(es, t)
        /\ "holder" \in DOMAIN facts => facts.holder = HolderAsOf(es, t)

LEMMA SameFactTransitive ==
    ASSUME NEW e, NEW f, NEW g, SameFact(e, f), SameFact(g, f)
    PROVE  SameFact(e, g)
BY DEF SameFact

LEMMA CollectedStands ==
    ASSUME NEW es \in History, NEW g \in History, Continues(g, es), NEW c, Collected(c, es)
    PROVE  Collected(c, g)
<1>1. /\ Len(es) \in Nat /\ Len(g) \in Nat /\ Len(es) <= Len(g)
      /\ \A i \in 1 .. Len(es) : SameFact(g[i], es[i])
  BY DEF History, Continues
<1>2. /\ c.got \in Seq(ProjectionEntry) /\ Len(c.got) \in Nat /\ c.total \in Nat /\ c.since \in Nat
      /\ Len(c.got) <= c.total /\ c.total <= Len(es) /\ c.since <= Len(es)
      /\ Starts(c.got, c.total, es)
  BY DEF Collected
<1>3. Starts(c.got, c.total, g)
  <2> SUFFICES ASSUME NEW i \in 1 .. Len(c.got)
               PROVE  /\ SameFact(c.got[i], g[i])
                      /\ i < c.total => c.got[i].supersededAt = g[i + 1].effectiveAt
    BY DEF Starts
  <2>1. i \in 1 .. Len(es) /\ (i < c.total => i + 1 \in 1 .. Len(es))
    BY <1>1, <1>2
  <2>2. SameFact(c.got[i], es[i]) /\ SameFact(g[i], es[i])
    BY <1>1, <1>2, <2>1 DEF Starts
  <2>3. i < c.total => g[i + 1].effectiveAt = es[i + 1].effectiveAt
    BY <1>1, <2>1 DEF SameFact
  <2> QED
    BY <1>2, <2>2, <2>3, SameFactTransitive DEF Starts
<1> QED
  BY <1>1, <1>2, <1>3 DEF Collected

LEMMA PageStands ==
    ASSUME NEW es \in History, NEW g \in History, Continues(g, es),
           NEW c, Collected(c, es), NEW body, Page(c, body, es)
    PROVE  Page(c, body, g)
<1> DEFINE n == Len(c.got)
           page == body.entries
<1>1. /\ Len(es) \in Nat /\ Len(g) \in Nat /\ Len(es) <= Len(g)
      /\ \A i \in 1 .. Len(es) : SameFact(g[i], es[i])
  BY DEF History, Continues
<1>2. c.got \in Seq(ProjectionEntry) /\ n \in Nat /\ c.since \in Nat
  BY DEF Collected
<1>3. /\ page \in Seq(ProjectionEntry) /\ Len(page) \in Nat
      /\ body.entryCount \in Nat /\ c.since <= body.entryCount
      /\ body.entryCount <= Len(es) /\ n + Len(page) <= body.entryCount
      /\ Follows(page, n, body.entryCount, es)
  <2>1. Page(c, body, es)
    OBVIOUS
  <2>2. page \in Seq(ProjectionEntry)
    BY <2>1 DEF Page
  <2>3. Len(page) \in Nat
    BY <2>2
  <2> QED
    BY <2>1, <2>2, <2>3, Zenon DEF Page
<1> HIDE DEF n, page
<1>4. ASSUME NEW k \in 1 .. Len(page)
      PROVE  /\ SameFact(page[k], g[n + k])
             /\ n + k < body.entryCount => page[k].supersededAt = g[n + k + 1].effectiveAt
  <2>1. n + k \in 1 .. Len(es) /\ (n + k < body.entryCount => n + k + 1 \in 1 .. Len(es))
    BY <1>1, <1>2, <1>3
  <2>2. SameFact(page[k], es[n + k]) /\ SameFact(g[n + k], es[n + k])
    BY <1>1, <1>3, <2>1 DEF Follows
  <2>3. n + k < body.entryCount => g[n + k + 1].effectiveAt = es[n + k + 1].effectiveAt
    BY <1>1, <2>1 DEF SameFact
  <2> QED
    BY <1>3, <2>2, <2>3, SameFactTransitive DEF Follows
<1> QED
  <2>1. Follows(page, n, body.entryCount, g)
    BY <1>4 DEF Follows
  <2>2. body.entryCount <= Len(g)
    BY <1>1, <1>3
  <2> QED
    BY <1>3, <2>1, <2>2 DEF Page, n, page

LEMMA FactsStandOn ==
    ASSUME NEW es \in History, NEW g \in History, Continues(g, es), NEW t \in Uint64,
           NEW facts, FactsStand(facts, es, t)
    PROVE  FactsStand(facts, g, t)
BY FinalityStands DEF FactsStand

LEMMA MinOfTwo ==
    ASSUME NEW a \in Int, NEW b \in Int
    PROVE  Min({a, b}) \in {a, b} /\ Min({a, b}) <= a /\ Min({a, b}) <= b
<1>1. \E x \in {a, b} : \A y \in {a, b} : x <= y
  OBVIOUS
<1> QED
  BY <1>1 DEF Min

\* A page that is accepted extends what the call has.
LEMMA PageCollected ==
    ASSUME NEW es \in History, NEW c, Collected(c, es), NEW body, Page(c, body, es),
           PageAccepted(c, body),
           NEW next, next.got = c.got \o body.entries, next.pages = c.pages + 1,
           next.total = Pinned(c, body), next.since = c.since
    PROVE  Collected(next, es)
<1> DEFINE n == Len(c.got)
           page == body.entries
<1>1. /\ c.got \in Seq(ProjectionEntry) /\ n \in Nat /\ Len(es) \in Nat
      /\ c.pages \in Nat /\ c.total \in Nat /\ c.since \in Nat
      /\ c.pages = 0 => c.got = <<>> /\ n = 0 /\ c.total = 0
      /\ c.pages > 0 => c.since <= c.total
      /\ c.since <= Len(es) /\ n <= c.total /\ c.total <= Len(es)
      /\ Starts(c.got, c.total, es)
  BY DEF Collected, History
<1>2. /\ page \in Seq(ProjectionEntry) /\ Len(page) \in Nat
      /\ body.entryCount \in Nat /\ c.since <= body.entryCount
      /\ body.entryCount <= Len(es) /\ n + Len(page) <= body.entryCount
      /\ Follows(page, n, body.entryCount, es)
  <2>1. Page(c, body, es)
    OBVIOUS
  <2>2. page \in Seq(ProjectionEntry)
    BY <2>1 DEF Page
  <2>3. Len(page) \in Nat
    BY <2>2
  <2> QED
    BY <2>1, <2>2, <2>3, Zenon DEF Page
<1>3. next.total = IF c.pages = 0 THEN body.entryCount ELSE c.total
  BY DEF Pinned
<1>4. n + Len(page) <= next.total /\ next.total <= body.entryCount /\ next.total \in Nat
  <2>1. body.entryCount >= c.total /\ Len(page) = Min({Limit(c), Pinned(c, body) - n})
    BY DEF PageAccepted
  <2>2. Limit(c) \in Int
    <3>1. PageSize \in Int
      BY ClientAssumption
    <3>2. c.total - Len(c.got) \in Int
      BY <1>1
    <3> QED
      BY <1>1, <3>1, <3>2, MinOfTwo DEF Limit
  <2>3. Pinned(c, body) - n \in Int /\ next.total = Pinned(c, body)
    BY <1>1, <1>2 DEF Pinned
  <2>4. Len(page) <= Pinned(c, body) - n
    BY <2>1, <2>2, <2>3, MinOfTwo
  <2> QED
    BY <1>1, <1>2, <1>3, <2>1, <2>3, <2>4
<1> HIDE DEF n, page
<1>5. /\ next.got \in Seq(ProjectionEntry)
      /\ Len(next.got) = n + Len(page)
      /\ \A i \in 1 .. n : next.got[i] = c.got[i]
      /\ \A k \in 1 .. Len(page) : next.got[n + k] = page[k]
  <2>1. c.got \in Seq(ProjectionEntry) /\ body.entries \in Seq(ProjectionEntry)
    BY <1>1, <1>2 DEF page
  <2>2. next.got = c.got \o body.entries
    OBVIOUS
  <2> DEFINE got == c.got
  <2>3. got \in Seq(ProjectionEntry) /\ page \in Seq(ProjectionEntry)
        /\ next.got = got \o page /\ n = Len(got)
    BY <2>1, <2>2 DEF n, page
  <2> HIDE DEF got
  <2>4. /\ got \o page \in Seq(ProjectionEntry)
        /\ Len(got \o page) = n + Len(page)
        /\ \A i \in 1 .. n : (got \o page)[i] = got[i]
        /\ \A k \in 1 .. Len(page) : (got \o page)[n + k] = page[k]
    BY <2>3
  <2> QED
    BY <2>3, <2>4 DEF got
<1>6. Starts(next.got, next.total, es)
  <2> SUFFICES ASSUME NEW i \in 1 .. n + Len(page)
               PROVE  /\ SameFact(next.got[i], es[i])
                      /\ i < next.total => next.got[i].supersededAt = es[i + 1].effectiveAt
    BY <1>5 DEF Starts
  <2>1. CASE i \in 1 .. n
    <3>1. c.pages # 0
      BY <1>1, <2>1
    <3>2. next.total = c.total
      BY <1>3, <3>1
    <3> QED
      BY <1>1, <1>5, <2>1, <3>2 DEF Starts, n
  <2>2. CASE i \notin 1 .. n
    <3>1. PICK k \in 1 .. Len(page) : i = n + k
      <4>1. i - n \in 1 .. Len(page) /\ i = n + (i - n)
        BY <1>1, <1>2, <2>2
      <4> QED
        BY <4>1
    <3>2. next.got[i] = page[k]
      BY <1>5, <3>1
    <3>3. i < next.total => n + k < body.entryCount
      BY <1>1, <1>2, <1>4, <3>1
    <3> QED
      BY <1>2, <3>1, <3>2, <3>3 DEF Follows
  <2> QED
    BY <2>1, <2>2
<1> QED
  BY <1>1, <1>2, <1>3, <1>4, <1>5, <1>6 DEF Collected

-----------------------------------------------------------------------------
(* What the routes answer from a store that readers see as es.               *)

LEMMA WithHolder ==
    ASSUME NEW h, NEW g, "holder" \notin DOMAIN g
    PROVE  /\ DOMAIN Together([holder |-> h], g) = {"holder"} \cup DOMAIN g
           /\ Together([holder |-> h], g).holder = h
           /\ "final" \in DOMAIN g => Together([holder |-> h], g).final = g.final
           /\ "openGap" \in DOMAIN g => Together([holder |-> h], g).openGap = g.openGap
<1> DEFINE f == [holder |-> h]
<1>1. DOMAIN f = {"holder"} /\ f["holder"] = h
  OBVIOUS
<1> HIDE DEF f
<1>2. /\ DOMAIN Together(f, g) = {"holder"} \cup DOMAIN g
      /\ Together(f, g)["holder"] = h
      /\ \A x \in DOMAIN g : Together(f, g)[x] = g[x]
  BY <1>1 DEF Together
<1> QED
  BY <1>2 DEF f

\* A page is a stretch of the history, of which only the last entry is open.
LEMMA EntriesPageFollows ==
    ASSUME NEW m, NEW c, NEW es \in History, m.projections[c.tok] = es,
           Collected(c, es), ~Refuses(EntriesPage(m, Request(c)))
    PROVE  Page(c, EntriesPage(m, Request(c)), es)
<1> DEFINE n == Len(c.got)
           limit == Limit(c)
           last == Min({n + limit, Len(es)})
           page == SubSeq(es, n + 1, last)
           body == [entryCount |-> Len(es), offset |-> n, entries |-> page]
<1>1. /\ es \in Seq(ProjectionEntry) /\ Len(es) \in Nat /\ IntervalsClosed(es)
      /\ c.got \in Seq(ProjectionEntry) /\ n \in Nat /\ n <= Len(es)
      /\ c.since <= Len(es)
  BY DEF History, ProjectionInvariants, Collected
<1>2. limit \in Nat /\ limit >= 1 /\ EntriesPage(m, Request(c)) = body
  <2>1. Request(c).tok = c.tok /\ Request(c).offset = n /\ Request(c).limit = limit
    BY DEF Request
  <2>2. CASE ~PageLimitAllowed(limit)
    <3>1. EntriesPage(m, Request(c)) = Refusal("MALFORMED_PAGE")
      BY <2>1, <2>2 DEF EntriesPage
    <3>2. Refuses(Refusal("MALFORMED_PAGE"))
      BY DEF Refuses, Refusal
    <3> QED
      BY <3>1, <3>2
  <2>3. CASE PageLimitAllowed(limit)
    <3>1. EntriesPage(m, Request(c)) = body
      BY <2>1, <2>3 DEF EntriesPage, Slice
    <3>2. limit \in 1 .. MAX_PAGE /\ MAX_PAGE \in Nat
      BY <2>3, ClientAssumption DEF PageLimitAllowed
    <3> QED
      BY <3>1, <3>2
  <2> QED
    BY <2>2, <2>3
<1> HIDE DEF limit
<1>3. last \in Nat /\ last <= Len(es) /\ n <= last
  <2>1. n + limit \in Int /\ Len(es) \in Int
    BY <1>1, <1>2
  <2>2. last \in {n + limit, Len(es)} /\ last <= n + limit /\ last <= Len(es)
    BY <2>1, MinOfTwo
  <2> HIDE DEF last
  <2> QED
    BY <1>1, <1>2, <2>2
<1> HIDE DEF last, n
<1>4. /\ page \in Seq(ProjectionEntry) /\ Len(page) = last - n
      /\ \A k \in 1 .. Len(page) : page[k] = es[n + k]
  BY <1>1, <1>3
<1> HIDE DEF page
<1>5. Follows(page, n, Len(es), es)
  <2> SUFFICES ASSUME NEW k \in 1 .. Len(page)
               PROVE  /\ SameFact(page[k], es[n + k])
                      /\ n + k < Len(es) => page[k].supersededAt = es[n + k + 1].effectiveAt
    BY DEF Follows
  <2>0. n + k + 1 = (n + k) + 1
    OBVIOUS
  <2>1. n + k \in 1 .. Len(es) /\ DOMAIN es = 1 .. Len(es)
    BY <1>1, <1>3, <1>4
  <2>2. es[n + k].supersededAt = IF n + k = Len(es) THEN 0 ELSE es[(n + k) + 1].effectiveAt
    BY <1>1, <2>1 DEF IntervalsClosed
  <2>3. page[k] = es[n + k] /\ SameFact(page[k], es[n + k])
    BY <1>4 DEF SameFact
  <2>4. n + k < Len(es) => n + k # Len(es)
    BY <1>1, <1>4
  <2> QED
    BY <2>0, <2>2, <2>3, <2>4
<1>6. /\ body.entries = page /\ body.entryCount = Len(es)
      /\ n + Len(page) <= Len(es)
  BY <1>1, <1>3, <1>4
<1> HIDE DEF body
<1>7. Page(c, body, es)
  BY <1>1, <1>4, <1>5, <1>6 DEF Page, n
<1> QED
  BY <1>2, <1>7

\* The answers about an instant: what they say of finality, and the holder that
\* they say it of, are read off the same history.
LEMMA AnswerStands ==
    ASSUME NEW m, NEW req, NEW es \in History, m.projections[req.tok] = es,
           NEW t \in Uint64, req.instant = t,
           req.route \in {"token", "overview", "finality", "resolve", "holder", "entry"},
           NEW body, body = Answer(m, req), ~Refuses(body)
    PROVE  /\ FactsStand(body, es, t)
           /\ req.route \in {"overview", "resolve"} /\ body.final => "holder" \in DOMAIN body
           /\ req.route = "holder" => DOMAIN body = {"holder"}
           /\ req.route = "resolve" =>
                {"openGap", "holder"} \subseteq DOMAIN body /\ body.openGap = m.openGaps[req.tok]
           /\ req.route \in {"holder", "resolve"} =>
                Covered(es, t) /\ body.holder = HolderAsOf(es, t)
<1>1. CASE req.route = "token"
  <2>1. body = [entryCount |-> Len(es), openGap |-> m.openGaps[req.tok]]
    BY <1>1 DEF Answer
  <2> QED
    BY <1>1, <2>1 DEF FactsStand
<1>2. IsFinalAsOf(es, t) => Covered(es, t)
  BY SameContinues, FinalityStands
<1> DEFINE final == IsFinalAsOf(es, t)
           gap == m.openGaps[req.tok]
           holder == HolderAsOf(es, t)
<1>3. CASE req.route = "overview"
  <2> DEFINE shown == [final |-> final, openGap |-> gap, entryCount |-> Len(es),
                       coverage |-> CASE es = <<>> -> "no-projection"
                                      [] Covered(es, t) -> "covered"
                                      [] OTHER -> "not-covered"]
  <2>1. body = IF Covered(es, t) THEN Together([holder |-> holder], shown) ELSE shown
    BY <1>3 DEF Answer, Overview
  <2>2. "final" \in DOMAIN shown /\ shown.final = final /\ "holder" \notin DOMAIN shown
    OBVIOUS
  <2> HIDE DEF shown
  <2>3. Covered(es, t) => /\ "final" \in DOMAIN body /\ body.final = final
                          /\ "holder" \in DOMAIN body /\ body.holder = holder
    <3>1. /\ DOMAIN Together([holder |-> holder], shown) = {"holder"} \cup DOMAIN shown
          /\ Together([holder |-> holder], shown).holder = holder
          /\ Together([holder |-> holder], shown).final = shown.final
      BY <2>2, WithHolder
    <3> QED
      BY <2>1, <2>2, <3>1
  <2>4. ~Covered(es, t) => body.final = final /\ "holder" \notin DOMAIN body
    BY <2>1, <2>2
  <2> QED
    BY <1>2, <1>3, <2>3, <2>4 DEF FactsStand
<1>4. CASE req.route \in {"finality", "resolve", "holder", "entry"}
  <2> DEFINE finality == [final |-> final, openGap |-> gap]
  <2>1. body = AsOfAnswer(m, req)
    BY <1>4 DEF Answer
  <2>2. /\ "final" \in DOMAIN finality /\ finality.final = final
        /\ "openGap" \in DOMAIN finality /\ finality.openGap = gap
        /\ "holder" \notin DOMAIN finality
    OBVIOUS
  <2>3. CASE req.route = "finality"
    <3>1. body = finality
      BY <2>1, <2>3 DEF AsOfAnswer
    <3> QED
      BY <2>2, <2>3, <3>1 DEF FactsStand
  <2>4. ASSUME req.route # "finality"
        PROVE  Covered(es, t)
    <3>1. ASSUME ~Covered(es, t) PROVE FALSE
      <4>1. body = Refusal("INSTANT_NOT_COVERED")
        BY <2>1, <2>4, <3>1 DEF AsOfAnswer
      <4> QED
        BY <4>1 DEF Refuses, Refusal
    <3> QED
      BY <3>1
  <2>5. CASE req.route = "resolve"
    <3>1. body = Together([holder |-> holder], finality)
      BY <2>1, <2>4, <2>5 DEF AsOfAnswer
    <3> HIDE DEF finality
    <3>2. /\ "holder" \in DOMAIN body /\ body.holder = holder
          /\ body.final = final
          /\ "openGap" \in DOMAIN body /\ body.openGap = gap
      <4>1. /\ DOMAIN Together([holder |-> holder], finality) = {"holder"} \cup DOMAIN finality
            /\ Together([holder |-> holder], finality).holder = holder
            /\ Together([holder |-> holder], finality).final = finality.final
            /\ Together([holder |-> holder], finality).openGap = finality.openGap
        BY <2>2, WithHolder
      <4> QED
        BY <2>2, <3>1, <4>1
    <3> QED
      BY <2>4, <2>5, <3>2 DEF FactsStand
  <2>6. CASE req.route = "holder"
    <3>1. body = [holder |-> holder]
      BY <2>1, <2>4, <2>6 DEF AsOfAnswer
    <3> QED
      BY <2>4, <2>6, <3>1 DEF FactsStand
  <2>7. CASE req.route = "entry"
    <3>1. body = [entry |-> EntryAsOf(es, t)]
      BY <2>1, <2>4, <2>7 DEF AsOfAnswer
    <3> QED
      BY <2>7, <3>1 DEF FactsStand
  <2> QED
    BY <1>4, <2>3, <2>5, <2>6, <2>7
<1> QED
  BY <1>1, <1>3, <1>4

-----------------------------------------------------------------------------
(* The invariant.  It says of a result, of a call in progress, and of an     *)
(* answer on its way, in which sense each is a reading of what readers would *)
(* be shown now.                                                             *)

\* A call that Calls has made and Receives may have carried on.
IsCall(c) ==
    /\ DOMAIN c = {"method", "tok", "instant", "routes", "facts", "got", "pages", "total", "since"}
    /\ c.routes = <<Route[c.method]>>
    /\ c.method \in DOMAIN Route
    /\ c.tok \in Token
    /\ c.instant \in Uint64

\* What the caller knew before the answer.
KnownBefore(c) ==
    \/ c.facts = <<>>
    \/ c.method = "holderAsOf" /\ c.facts = [final |-> TRUE]

\* What a method other than entries came back with.
Truthful(method, facts, es, t) ==
    /\ FactsStand(facts, es, t)
    /\ method \in {"resolve", "overview", "holderAsOf"} /\ "final" \in DOMAIN facts /\ facts.final =>
            "holder" \in DOMAIN facts

CallOK ==
    call # NoCall =>
        /\ IsCall(call)
        /\ Collected(call, served[call.tok])
        /\ KnownBefore(call)
        /\ FactsStand(call.facts, served[call.tok], call.instant)

WireOK ==
    /\ wire.kind \in {"nothing", "request", "response"}
    /\ wire.kind # "nothing" => call # NoCall
    /\ wire.kind = "request" => wire.req = Request(call)
    /\ wire.kind = "response" /\ ~Refuses(wire.body) =>
          IF call.method = "entries"
          THEN Page(call, wire.body, served[call.tok])
          ELSE Truthful(call.method, Together(call.facts, wire.body), served[call.tok],
                        call.instant)

ResultOK ==
    result.outcome = "returned" =>
        LET c == result.call
        IN  /\ c.tok \in Token /\ c.instant \in Uint64
            /\ FactsStand(c.facts, served[c.tok], c.instant)
            /\ IF c.method = "entries"
               THEN Collected(c, served[c.tok]) /\ c.pages > 0 /\ HasAll(c)
               ELSE Truthful(c.method, c.facts, served[c.tok], c.instant)

ClientOK == CallOK /\ WireOK /\ ResultOK

\* The register behind the client.
ServedInv == RegisterInv /\ ServedOK

LEMMA LagsSound ==
    ASSUME NEW lines \in Seq(Line), Lawful(lines), NEW shown, Lags(lines, shown),
           NEW tok \in Token
    PROVE  shown[tok] \in History
<1>1. \A n \in 0 .. Len(lines) : After(lines, n).mem \in SoundMemory
  BY DEF Lawful, Sensible
<1>2. Replay(lines) = After(lines, Len(lines)) /\ Len(lines) \in Nat
  BY AfterAll
<1>3. /\ Len(lines) \in 0 .. Len(lines)
      /\ lines # <<>> => Len(lines) - 1 \in 0 .. Len(lines)
  BY <1>2
<1>4. PICK m \in SoundMemory : shown = m.projections
  BY <1>1, <1>2, <1>3 DEF Lags
<1> QED
  BY <1>4 DEF SoundMemory, Memory, History

LEMMA ServedGrows ==
    ASSUME Disciplined, ServesDurably, ServedInv, [Next]_vars
    PROVE  /\ ServedInv'
           /\ \A tok \in Token : /\ served[tok] \in History
                                 /\ served'[tok] \in History
                                 /\ Continues(served'[tok], served[tok])
<1>1. ServedInv'
  <2>1. RegisterInv'
    BY NextRegister DEF ServedInv
  <2>2. CASE UNCHANGED vars
    BY <2>2, <2>1 DEF vars, ServedInv, ServedOK
  <2>3. CASE Next
    BY <2>1, <2>3, ServedStep DEF Next, ServedInv
  <2> QED
    BY <2>2, <2>3
<1>2. ASSUME NEW tok \in Token
      PROVE  served[tok] \in History /\ served'[tok] \in History
  <2>1. served[tok] \in History
    BY LagsSound DEF ServedInv, ServedOK, RegisterInv, StoreInv, StoreOK, FileType, ReplayOK
  <2>2. served'[tok] \in History
    <3>1. file'.lines \in Seq(Line) /\ Lawful(file'.lines) /\ Lags(file'.lines, served')
      BY <1>1 DEF ServedInv, ServedOK, RegisterInv, StoreInv, StoreOK, FileType, ReplayOK
    <3> QED
      BY <3>1, LagsSound
  <2> QED
    BY <2>1, <2>2
<1>3. served' = served \/ OneAdmission(served, served')
  BY ShownStep DEF ServedInv, Next, vars
<1>4. ASSUME NEW tok \in Token
      PROVE  Continues(served'[tok], served[tok])
  <2>1. CASE served'[tok] = served[tok]
    BY <1>2, <2>1, SameContinues
  <2>2. CASE served'[tok] # served[tok]
    <3>1. PICK other \in Token, c \in CandidateEntry :
            served' = [served EXCEPT ![other] = Admit(served[other], c)]
      BY <1>3, <2>2 DEF OneAdmission
    <3>2. served \in [Token -> Seq(ProjectionEntry)]
      BY DEF ServedInv, RegisterInv, StoreInv
    <3>3. served'[tok] = Admit(served[tok], c) /\ served[tok] \in Seq(ProjectionEntry)
      BY <2>2, <3>1, <3>2
    <3> QED
      BY <3>3, AdmitContinues
  <2> QED
    BY <2>1, <2>2
<1> QED
  BY <1>1, <1>2, <1>4

LEMMA TruthfulStands ==
    ASSUME NEW es \in History, NEW g \in History, Continues(g, es), NEW t \in Uint64,
           NEW method, NEW facts, Truthful(method, facts, es, t)
    PROVE  Truthful(method, facts, g, t)
BY FactsStandOn DEF Truthful

\* The register moves on behind the client.
LEMMA RegisterMoves ==
    ASSUME Disciplined, ServesDurably, ServedInv, ClientOK, [Next]_vars,
           call' = call, wire' = wire, result' = result
    PROVE  ClientOK'
<1>1. \A tok \in Token : /\ served[tok] \in History /\ served'[tok] \in History
                         /\ Continues(served'[tok], served[tok])
  BY ServedGrows
<1>2. CallOK'
  <2> SUFFICES ASSUME call # NoCall
               PROVE  /\ IsCall(call)
                      /\ Collected(call, served'[call.tok])
                      /\ KnownBefore(call)
                      /\ FactsStand(call.facts, served'[call.tok], call.instant)
    BY DEF CallOK
  <2>1. /\ IsCall(call) /\ Collected(call, served[call.tok]) /\ KnownBefore(call)
        /\ FactsStand(call.facts, served[call.tok], call.instant)
    BY DEF ClientOK, CallOK
  <2>2. call.tok \in Token /\ call.instant \in Uint64
    BY <2>1 DEF IsCall
  <2> QED
    BY <1>1, <2>1, <2>2, CollectedStands, FactsStandOn
<1>3. WireOK'
  <2>1. WireOK
    BY DEF ClientOK
  <2>2. ASSUME wire.kind = "response", ~Refuses(wire.body)
        PROVE  IF call.method = "entries"
               THEN Page(call, wire.body, served'[call.tok])
               ELSE Truthful(call.method, Together(call.facts, wire.body), served'[call.tok],
                             call.instant)
    <3>1. call # NoCall
      BY <2>1, <2>2 DEF WireOK
    <3>2. IsCall(call) /\ Collected(call, served[call.tok])
      BY <3>1 DEF ClientOK, CallOK
    <3>3. call.tok \in Token /\ call.instant \in Uint64
      BY <3>2 DEF IsCall
    <3>4. CASE call.method = "entries"
      <4>1. Page(call, wire.body, served[call.tok])
        BY <2>1, <2>2, <3>4 DEF WireOK
      <4> QED
        BY <1>1, <3>2, <3>3, <3>4, <4>1, PageStands
    <3>5. CASE call.method # "entries"
      <4>1. Truthful(call.method, Together(call.facts, wire.body), served[call.tok], call.instant)
        BY <2>1, <2>2, <3>5 DEF WireOK
      <4> QED
        BY <1>1, <3>3, <3>5, <4>1, TruthfulStands
    <3> QED
      BY <3>4, <3>5
  <2> QED
    BY <2>1, <2>2 DEF WireOK
<1>4. ResultOK'
  <2> DEFINE c == result.call
  <2> SUFFICES ASSUME result.outcome = "returned"
               PROVE  /\ c.tok \in Token /\ c.instant \in Uint64
                      /\ FactsStand(c.facts, served'[c.tok], c.instant)
                      /\ IF c.method = "entries"
                         THEN Collected(c, served'[c.tok]) /\ c.pages > 0 /\ HasAll(c)
                         ELSE Truthful(c.method, c.facts, served'[c.tok], c.instant)
    BY DEF ResultOK
  <2>1. /\ c.tok \in Token /\ c.instant \in Uint64
        /\ FactsStand(c.facts, served[c.tok], c.instant)
        /\ IF c.method = "entries"
           THEN Collected(c, served[c.tok]) /\ c.pages > 0 /\ HasAll(c)
           ELSE Truthful(c.method, c.facts, served[c.tok], c.instant)
    BY DEF ClientOK, ResultOK
  <2> HIDE DEF c
  <2>2. FactsStand(c.facts, served'[c.tok], c.instant)
    BY <1>1, <2>1, FactsStandOn
  <2>3. CASE c.method = "entries"
    BY <1>1, <2>1, <2>2, <2>3, CollectedStands
  <2>4. CASE c.method # "entries"
    BY <1>1, <2>1, <2>2, <2>4, TruthfulStands
  <2> QED
    BY <2>3, <2>4
<1> QED
  BY <1>2, <1>3, <1>4 DEF ClientOK

\* A method is called, about a token readers know so much of.
LEMMA CallMade ==
    ASSUME ServedInv, ClientOK, NEW method \in Methods, NEW tok \in Token, NEW t \in Instants,
           Calls(method, tok, t)
    PROVE  ClientOK'
<1> DEFINE known == IF method = "holderAsOf" THEN KnownFinal(tok, t) ELSE <<>>
           c == [method |-> method, tok |-> tok, instant |-> t, routes |-> RoutesOf(method),
                 facts |-> known, got |-> <<>>, pages |-> 0, total |-> 0,
                 since |-> Len(served[tok])]
<1>1. /\ call' = c /\ wire' = [kind |-> "request", req |-> Request(c)]
      /\ result' = NoResult /\ served' = served
  BY DEF Calls, Sends, vars
<1>2. method \in DOMAIN Route /\ t \in Uint64
  BY ClientAssumption
<1>3. /\ c.method = method /\ c.tok = tok /\ c.instant = t /\ c.facts = known /\ c.got = <<>>
      /\ c.pages = 0 /\ c.total = 0 /\ c.since = Len(served[tok])
      /\ c.routes = <<Route[method]>>
  BY DEF RoutesOf
<1>4. IsCall(c)
  BY <1>2 DEF IsCall, RoutesOf
<1> HIDE DEF c
<1>5. Collected(c, served[tok])
  <2>1. served[tok] \in Seq(ProjectionEntry)
    BY DEF ServedInv, RegisterInv, StoreInv
  <2> QED
    BY <1>3, <2>1 DEF Collected, Starts
<1>6. KnownBefore(c)
  <2>1. KnownFinal(tok, t) = [final |-> TRUE] \/ KnownFinal(tok, t) = <<>>
    BY Zenon DEF KnownFinal
  <2> QED
    BY <1>3, <2>1 DEF KnownBefore
<1>7. FactsStand(known, served[tok], t)
  <2>1. CASE known = <<>>
    BY <2>1 DEF FactsStand
  <2>2. CASE known # <<>>
    <3>1. /\ known = [final |-> TRUE]
          /\ result.outcome = "returned"
          /\ result.call.tok = tok /\ result.call.instant = t
          /\ "final" \in DOMAIN result.call.facts /\ result.call.facts.final
      BY <2>2 DEF KnownFinal
    <3>2. IsFinalAsOf(served[tok], t)
      BY <3>1 DEF ClientOK, ResultOK, FactsStand
    <3> QED
      BY <3>1, <3>2 DEF FactsStand
  <2> QED
    BY <2>1, <2>2
<1> HIDE DEF known
<1>8. CallOK'
  BY <1>1, <1>3, <1>4, <1>5, <1>6, <1>7 DEF CallOK
<1>9. WireOK'
  <2>1. c # NoCall
    BY <1>2, <1>3 DEF NoCall, Route
  <2> QED
    BY <1>1, <2>1 DEF WireOK
<1>10. ResultOK'
  BY <1>1 DEF ResultOK, NoResult
<1> QED
  BY <1>8, <1>9, <1>10 DEF ClientOK

LEMMA RouteOfRequest ==
    ASSUME NEW c, IsCall(c)
    PROVE  /\ Request(c).route = Route[c.method]
           /\ Request(c).tok = c.tok
           /\ Request(c).instant = c.instant
<1>1. c.routes = <<Route[c.method]>>
  BY DEF IsCall
<1>2. Head(c.routes) = Route[c.method]
  BY <1>1
<1> QED
  BY <1>2 DEF Request

LEMMA NothingTogether ==
    ASSUME NEW body
    PROVE  /\ DOMAIN Together(<<>>, body) = DOMAIN body
           /\ \A x \in DOMAIN body : Together(<<>>, body)[x] = body[x]
<1>1. DOMAIN <<>> = {}
  OBVIOUS
<1> QED
  BY <1>1 DEF Together

\* What the register answers, with what the caller knew, is truthful.
LEMMA AnswerTruthful ==
    ASSUME NEW m, NEW c, IsCall(c), KnownBefore(c), c.method # "entries",
           NEW es \in History, m.projections[c.tok] = es, FactsStand(c.facts, es, c.instant),
           NEW body, body = Answer(m, Request(c)), ~Refuses(body)
    PROVE  Truthful(c.method, Together(c.facts, body), es, c.instant)
<1> DEFINE t == c.instant
           all == Together(c.facts, body)
<1>1. c.instant \in Uint64 /\ c.method \in DOMAIN Route
  BY DEF IsCall
<1>2. /\ Request(c).route = Route[c.method]
      /\ Request(c).tok = c.tok
      /\ Request(c).instant = t
  BY RouteOfRequest
<1>3. Route[c.method] \in {"token", "overview", "finality", "resolve", "holder", "entry"}
  BY <1>1 DEF Route
<1>4. /\ FactsStand(body, es, t)
      /\ Route[c.method] \in {"overview", "resolve"} /\ body.final => "holder" \in DOMAIN body
      /\ Route[c.method] = "holder" =>
            DOMAIN body = {"holder"} /\ body.holder = HolderAsOf(es, t)
  BY <1>1, <1>2, <1>3, AnswerStands
<1>5. CASE c.facts = <<>>
  <2>1. DOMAIN all = DOMAIN body /\ \A x \in DOMAIN body : all[x] = body[x]
    BY <1>5, NothingTogether
  <2> HIDE DEF all
  <2>2. FactsStand(all, es, t)
    <3>1. "final" \in DOMAIN all => all.final = body.final
      BY <2>1
    <3>2. "holder" \in DOMAIN all => all.holder = body.holder
      BY <2>1
    <3> QED
      BY <1>4, <2>1, <3>1, <3>2 DEF FactsStand
  <2>3. c.method \in {"resolve", "overview", "holderAsOf"} /\ "final" \in DOMAIN all /\ all.final
          => "holder" \in DOMAIN all
    <3>1. /\ c.method \in {"resolve", "overview"} => Route[c.method] \in {"overview", "resolve"}
          /\ c.method = "holderAsOf" => Route[c.method] = "holder"
      BY DEF Route
    <3>2. "final" \in DOMAIN all => all.final = body.final
      BY <2>1
    <3> QED
      BY <1>4, <2>1, <3>1, <3>2
  <2> QED
    BY <2>2, <2>3 DEF Truthful, all
<1>6. CASE c.method = "holderAsOf" /\ c.facts = [final |-> TRUE]
  <2>1. DOMAIN body = {"holder"} /\ body.holder = HolderAsOf(es, t)
    BY <1>4, <1>6 DEF Route
  <2>2. "final" \in DOMAIN c.facts /\ c.facts.final = TRUE /\ "holder" \notin DOMAIN c.facts
    BY <1>6
  <2>3. /\ DOMAIN all = DOMAIN c.facts \cup DOMAIN body
        /\ all["holder"] = body["holder"]
    BY <2>1, <2>2 DEF Together
  <2> HIDE DEF all
  <2>4. IsFinalAsOf(es, t)
    BY <2>2 DEF FactsStand
  <2> QED
    BY <2>1, <2>3, <2>4 DEF Truthful, FactsStand, all
<1> QED
  BY <1>5, <1>6 DEF KnownBefore

\* The server answers, from the store that readers see.
LEMMA AnswerMade ==
    ASSUME ServedInv, ClientOK, Answers
    PROVE  ClientOK'
<1> DEFINE es == served[call.tok]
           body == Gateway(wire.req)
<1>1. /\ wire.kind = "request" /\ wire' = [kind |-> "response", body |-> body]
      /\ call' = call /\ result' = result /\ served' = served
  BY DEF Answers, vars
<1>2. call # NoCall /\ wire.req = Request(call)
  BY <1>1 DEF ClientOK, WireOK
<1>3. /\ IsCall(call) /\ Collected(call, es) /\ KnownBefore(call)
      /\ FactsStand(call.facts, es, call.instant)
  BY <1>2 DEF ClientOK, CallOK
<1>4. call.tok \in Token
  BY <1>3 DEF IsCall
<1>5. es \in History
  BY <1>4, LagsSound DEF ServedInv, ServedOK, RegisterInv, StoreInv, StoreOK, FileType, ReplayOK
<1>6. ASSUME ~Refuses(body)
      PROVE  IF call.method = "entries" THEN Page(call, body, es)
             ELSE Truthful(call.method, Together(call.facts, body), es, call.instant)
  <2>1. mode = "up" /\ body = Answer(mem, Request(call))
    <3>1. Refuses(Refusal("UNAUTHENTICATED")) /\ Refuses(Refusal("UNKNOWN_TENANT"))
      BY DEF Refuses, Refusal
    <3> QED
      BY <1>2, <1>6, <3>1 DEF Gateway, TenantHasStore
  <2>2. mem.projections[call.tok] = es
    BY <2>1 DEF ServedInv, ServedOK
  <2> HIDE DEF es, body
  <2>3. CASE call.method = "entries"
    <3>1. body = EntriesPage(mem, Request(call))
      <4>1. Request(call).route = "entries"
        BY <1>3, <2>3, RouteOfRequest DEF Route
      <4> QED
        BY <2>1, <4>1 DEF Answer
    <3> QED
      BY <1>3, <1>5, <1>6, <2>2, <2>3, <3>1, EntriesPageFollows
  <2>4. CASE call.method # "entries"
    BY <1>3, <1>5, <1>6, <2>1, <2>2, <2>4, AnswerTruthful
  <2> QED
    BY <2>3, <2>4
<1>7. CallOK' /\ ResultOK'
  BY <1>1 DEF ClientOK, CallOK, ResultOK
<1> HIDE DEF body
<1>8. WireOK'
  BY <1>1, <1>2, <1>6 DEF WireOK
<1> QED
  BY <1>7, <1>8 DEF ClientOK

\* A call ends, with nothing to tell.
LEMMA CallThrows ==
    ASSUME ClientOK, Throws, served' = served
    PROVE  ClientOK'
<1>1. call' = NoCall /\ wire' = [kind |-> "nothing"] /\ result' = [outcome |-> "threw"]
  BY DEF Throws, Ends, Nothing
<1> QED
  BY <1>1 DEF ClientOK, CallOK, WireOK, ResultOK

\* What a call becomes when a page has been received.
LEMMA PageReceived ==
    ASSUME NEW c, IsCall(c), NEW body, NEW next,
           next = [c EXCEPT !.got = @ \o body.entries, !.pages = @ + 1, !.total = Pinned(c, body)]
    PROVE  /\ next.got = c.got \o body.entries /\ next.pages = c.pages + 1
           /\ next.total = Pinned(c, body) /\ next.since = c.since
           /\ next.method = c.method /\ next.tok = c.tok /\ next.instant = c.instant
           /\ next.facts = c.facts
           /\ IsCall(next)
<1>1. /\ DOMAIN c = {"method", "tok", "instant", "routes", "facts", "got", "pages", "total", "since"}
      /\ c.routes = <<Route[c.method]>>
      /\ c.method \in DOMAIN Route /\ c.tok \in Token /\ c.instant \in Uint64
  BY DEF IsCall
<1>2. /\ next.got = c.got \o body.entries /\ next.pages = c.pages + 1
      /\ next.total = Pinned(c, body) /\ next.since = c.since
      /\ next.method = c.method /\ next.tok = c.tok /\ next.instant = c.instant
      /\ next.facts = c.facts /\ next.routes = c.routes
      /\ DOMAIN next = DOMAIN c
  BY <1>1
<1> QED
  BY <1>1, <1>2 DEF IsCall

\* What it becomes when the one answer it waits for has been.
LEMMA FactsReceived ==
    ASSUME NEW c, IsCall(c), NEW body, NEW next,
           next = [c EXCEPT !.facts = Together(@, body), !.routes = Tail(@)]
    PROVE  /\ next.routes = <<>> /\ next.facts = Together(c.facts, body)
           /\ next.method = c.method /\ next.tok = c.tok /\ next.instant = c.instant
<1>1. /\ DOMAIN c = {"method", "tok", "instant", "routes", "facts", "got", "pages", "total", "since"}
      /\ c.routes = <<Route[c.method]>>
  BY DEF IsCall
<1>2. Tail(c.routes) = <<>>
  BY <1>1
<1> QED
  BY <1>1, <1>2

\* The client takes the answer.
LEMMA AnswerReceived ==
    ASSUME ServedInv, ClientOK, Receives
    PROVE  ClientOK'
<1> DEFINE es == served[call.tok]
           body == wire.body
<1>1. wire.kind = "response" /\ served' = served
  BY DEF Receives, vars
<1>2. call # NoCall
  BY <1>1 DEF ClientOK, WireOK
<1>3. /\ IsCall(call) /\ Collected(call, es) /\ KnownBefore(call)
      /\ FactsStand(call.facts, es, call.instant)
  BY <1>2 DEF ClientOK, CallOK
<1>4. call.tok \in Token /\ call.instant \in Uint64
  BY <1>3 DEF IsCall
<1>5. es \in History
  BY <1>4, LagsSound DEF ServedInv, ServedOK, RegisterInv, StoreInv, StoreOK, FileType, ReplayOK
<1>6. CASE Throws
  BY <1>1, <1>6, CallThrows
<1>7. CASE ~Refuses(body) /\ call.method = "entries" /\ ReceivesPage(body) /\ ~Throws
  <2> DEFINE next == [call EXCEPT !.got = @ \o body.entries, !.pages = @ + 1,
                                  !.total = Pinned(call, body)]
  <2>1. PageAccepted(call, body)
        /\ (\/ HasAll(next) /\ Returns(next)
            \/ ~HasAll(next) /\ Sends(next) /\ UNCHANGED result)
    BY <1>7 DEF ReceivesPage
  <2>2. /\ next.got = call.got \o body.entries /\ next.pages = call.pages + 1
        /\ next.total = Pinned(call, body) /\ next.since = call.since
        /\ next.method = call.method /\ next.tok = call.tok /\ next.instant = call.instant
        /\ next.facts = call.facts
        /\ IsCall(next)
    BY <1>3, PageReceived
  <2> HIDE DEF next
  <2>3. Page(call, body, es)
    BY <1>1, <1>7 DEF ClientOK, WireOK
  <2>4. Collected(next, es)
    BY <1>3, <1>5, <2>1, <2>2, <2>3, PageCollected
  <2>5. CASE HasAll(next) /\ Returns(next)
    <3>1. /\ call' = NoCall /\ wire' = [kind |-> "nothing"]
          /\ result' = [outcome |-> "returned", call |-> next]
      BY <2>5 DEF Returns, Ends, Nothing
    <3>2. CallOK' /\ WireOK'
      BY <3>1 DEF CallOK, WireOK
    <3>3. result'.call = next
      BY <3>1
    <3>4. next.pages > 0
      BY <1>3, <2>2 DEF Collected
    <3>5. ResultOK'
      BY <1>1, <1>3, <1>4, <1>7, <2>2, <2>4, <2>5, <3>3, <3>4 DEF ResultOK
    <3> QED
      BY <3>2, <3>5 DEF ClientOK
  <2>6. CASE Sends(next) /\ UNCHANGED result
    <3>1. call' = next /\ wire' = [kind |-> "request", req |-> Request(next)]
      BY <2>6 DEF Sends
    <3>2. next # NoCall
      <4>1. next.method # "none"
        BY <1>7, <2>2
      <4> QED
        BY <4>1 DEF NoCall
    <3>3. KnownBefore(next)
      BY <1>3, <2>2 DEF KnownBefore
    <3>4. CallOK'
      BY <1>1, <1>3, <2>2, <2>4, <3>1, <3>3 DEF CallOK
    <3>5. WireOK'
      BY <3>1, <3>2 DEF WireOK
    <3>6. ResultOK'
      BY <1>1, <2>6 DEF ClientOK, ResultOK
    <3> QED
      BY <3>4, <3>5, <3>6 DEF ClientOK
  <2> QED
    BY <2>1, <2>5, <2>6
<1>8. CASE ~Refuses(body) /\ call.method # "entries" /\ ReceivesFacts(body)
  <2> DEFINE next == [call EXCEPT !.facts = Together(@, body), !.routes = Tail(@)]
  <2>1. /\ next.routes = <<>> /\ next.facts = Together(call.facts, body)
        /\ next.method = call.method /\ next.tok = call.tok /\ next.instant = call.instant
    BY <1>3, FactsReceived
  <2>2. Returns(next)
    BY <1>8, <2>1 DEF ReceivesFacts
  <2> HIDE DEF next
  <2>3. Truthful(call.method, Together(call.facts, body), es, call.instant)
    BY <1>1, <1>8 DEF ClientOK, WireOK
  <2>4. /\ call' = NoCall /\ wire' = [kind |-> "nothing"]
        /\ result' = [outcome |-> "returned", call |-> next]
    BY <2>2 DEF Returns, Ends, Nothing
  <2>5. CallOK' /\ WireOK'
    BY <2>4 DEF CallOK, WireOK
  <2>6. result'.call = next
    BY <2>4
  <2>7. ResultOK'
    BY <1>1, <1>4, <1>8, <2>1, <2>3, <2>6 DEF ResultOK, Truthful
  <2> QED
    BY <2>5, <2>7 DEF ClientOK
<1> QED
  BY <1>6, <1>7, <1>8 DEF Receives

\* The register does not notice its readers.
LEMMA ClientIsStore == ClientNext => [Next]_vars
BY DEF ClientNext, StoreStep, Calls, Answers, Receives, Fails, Issue, Revoke

LEMMA NextClient ==
    ASSUME Disciplined, ServesDurably, ServedInv, ClientOK, [ClientNext]_allVars
    PROVE  ServedInv' /\ ClientOK'
<1>1. [Next]_vars
  BY ClientIsStore DEF allVars
<1>2. ServedInv'
  BY <1>1, ServedGrows
<1>3. CASE StoreStep \/ Issue \/ Revoke \/ UNCHANGED allVars
  <2>1. call' = call /\ wire' = wire /\ result' = result
    BY <1>3 DEF StoreStep, Issue, Revoke, allVars, clientVars
  <2> QED
    BY <1>1, <1>2, <2>1, RegisterMoves
<1>4. ASSUME NEW method \in Methods, NEW tok \in Token, NEW t \in Instants,
             Calls(method, tok, t)
      PROVE  ClientOK'
  BY <1>4, CallMade
<1>5. CASE Fails
  <2>1. Throws /\ served' = served
    BY <1>5 DEF Fails, vars
  <2> QED
    BY <1>2, <2>1, CallThrows
<1> QED
  BY <1>2, <1>3, <1>4, <1>5, AnswerMade, AnswerReceived DEF ClientNext

\* The caller's steps are stutters of the store: what ProjectionStoreProofs and
\* JournalProofs prove of Spec, ServesARegister included, holds under ClientSpec.
LEMMA ReadersOnlyRead == ClientSpec => Spec
<1>1. ClientInit => Init
  BY DEF ClientInit
<1>2. [ClientNext]_allVars => [Next]_vars
  BY ClientIsStore DEF allVars
<1> QED
  BY <1>1, <1>2, PTL DEF ClientSpec, Spec

\* The invariant of a register with a reader.
THEOREM ClientInvariant ==
    ASSUME Disciplined, ServesDurably
    PROVE  ClientSpec => [](ServedInv /\ ClientOK)
<1>1. ClientInit => ServedInv /\ ClientOK
  <2>1. ClientInit => ServedInv
    BY InitRegister, InitServed DEF ClientInit, ServedInv
  <2>2. ClientInit => ClientOK
    BY DEF ClientInit, ClientOK, CallOK, WireOK, ResultOK, Nothing, NoResult
  <2> QED
    BY <2>1, <2>2
<1>2. ServedInv /\ ClientOK /\ [ClientNext]_allVars => ServedInv' /\ ClientOK'
  BY NextClient
<1> QED
  BY <1>1, <1>2, PTL DEF ClientSpec

\* A holder that comes with finality is the holder at that instant from then on.
THEOREM FinalHoldersStand ==
    ASSUME Disciplined, ServesDurably
    PROVE  ClientSpec => []FinalHolderStands
<1>1. ServedInv /\ ClientOK => FinalHolderStands
  <2> DEFINE c == result.call
             facts == c.facts
  <2> SUFFICES ASSUME ServedInv, ClientOK, Returned({"resolve", "overview", "holderAsOf"}),
                      mode = "up", "final" \in DOMAIN facts, facts.final
               PROVE  /\ "holder" \in DOMAIN facts
                      /\ facts.holder = HolderAsOf(mem.projections[c.tok], c.instant)
    BY DEF FinalHolderStands
  <2>1. /\ result.outcome = "returned" /\ c.method \in {"resolve", "overview", "holderAsOf"}
        /\ c.method # "entries"
    BY DEF Returned
  <2>2. Truthful(c.method, facts, served[c.tok], c.instant)
    BY <2>1 DEF ClientOK, ResultOK
  <2>3. served[c.tok] = mem.projections[c.tok]
    BY DEF ServedInv, ServedOK
  <2> HIDE DEF c
  <2> QED
    BY <2>1, <2>2, <2>3 DEF Truthful, FactsStand
<1> QED
  BY <1>1, ClientInvariant, PTL

\* What entries returns is one history, and the register's, though it was read
\* in pages at different moments.
THEOREM EntriesReadOneHistory ==
    ASSUME Disciplined, ServesDurably
    PROVE  ClientSpec => []EntriesAreOneHistory
<1>1. ServedInv /\ ClientOK => EntriesAreOneHistory
  <2> DEFINE c == result.call
             got == c.got
             es == served[c.tok]
  <2> SUFFICES ASSUME ServedInv, ClientOK, Returned({"entries"})
               PROVE  /\ Consecutive(got)
                      /\ mode = "up" =>
                          /\ Extends(mem.projections[c.tok], got)
                          /\ \A i \in 1 .. Len(got) - 1 :
                                got[i].supersededAt = got[i + 1].effectiveAt
    BY DEF EntriesAreOneHistory
  <2>1. result.outcome = "returned" /\ c.method = "entries"
    BY DEF Returned
  <2>2. c.tok \in Token /\ Collected(c, es)
    BY <2>1 DEF ClientOK, ResultOK
  <2>3. es \in History
    BY <2>2, LagsSound DEF ServedInv, ServedOK, RegisterInv, StoreInv, StoreOK, FileType, ReplayOK
  <2>4. mode = "up" => mem.projections[c.tok] = es
    BY DEF ServedInv, ServedOK
  <2> HIDE DEF c, es
  <2>5. /\ got \in Seq(ProjectionEntry) /\ Len(got) \in Nat
        /\ c.total \in Nat /\ Len(got) <= c.total
        /\ Len(es) \in Nat /\ DOMAIN es = 1 .. Len(es) /\ DOMAIN got = 1 .. Len(got)
        /\ c.total <= Len(es)
        /\ Starts(got, c.total, es)
    BY <2>2, <2>3 DEF Collected, History
  <2> HIDE DEF got
  <2>6. \A i \in 1 .. Len(got) : i \in 1 .. Len(es) /\ SameFact(got[i], es[i])
    BY <2>5 DEF Starts
  <2>7. Consecutive(got)
    <3>1. \A i \in 1 .. Len(es) : es[i].version = i
      BY <2>3, <2>5 DEF History, ProjectionInvariants, Consecutive
    <3> QED
      BY <2>5, <2>6, <3>1 DEF Consecutive, SameFact
  <2>8. Extends(es, got)
    BY <2>5, <2>6 DEF Extends, SameFact
  <2>9. ASSUME NEW i \in 1 .. Len(got) - 1
        PROVE  got[i].supersededAt = got[i + 1].effectiveAt
    <3>1. i \in 1 .. Len(got) /\ i + 1 \in 1 .. Len(got) /\ i < c.total
      BY <2>5
    <3>2. got[i].supersededAt = es[i + 1].effectiveAt
      BY <2>5, <3>1 DEF Starts
    <3>3. got[i + 1].effectiveAt = es[i + 1].effectiveAt
      BY <2>6, <3>1 DEF SameFact
    <3> QED
      BY <3>2, <3>3
  <2> QED
    BY <2>4, <2>7, <2>8, <2>9
<1> QED
  BY <1>1, ClientInvariant, PTL

\* And it is all that readers could see when it was called.
THEOREM EntriesReadItAll ==
    ASSUME Disciplined, ServesDurably
    PROVE  ClientSpec => []EntriesAreComplete
<1>1. ServedInv /\ ClientOK => EntriesAreComplete
  <2> DEFINE c == result.call
  <2> SUFFICES ASSUME ServedInv, ClientOK, Returned({"entries"})
               PROVE  Len(c.got) >= c.since
    BY DEF EntriesAreComplete
  <2>1. Collected(c, served[c.tok]) /\ c.pages > 0 /\ HasAll(c)
    BY DEF Returned, ClientOK, ResultOK
  <2> HIDE DEF c
  <2>2. c.got \in Seq(ProjectionEntry) /\ c.total \in Nat /\ c.since \in Nat /\ c.since <= c.total
    BY <2>1 DEF Collected
  <2> QED
    BY <2>1, <2>2 DEF HasAll
<1> QED
  BY <1>1, ClientInvariant, PTL

-----------------------------------------------------------------------------
(* An open gap that a caller was shown.  The journal says how it ends: by    *)
(* the entry that comes next on its token, or by being cancelled.            *)

\* As the first n lines have it, gap g stands open behind entry L of its token,
\* or has ended; if an entry ended it, it was entry L + 1.
GapStory(lines, n, g, tok, L) ==
    LET m == After(lines, n).mem
    IN  /\ m.settlements[g].status # "NONE"
        /\ m.settlements[g].status = "OPEN" =>
              m.settlements[g].tokenId = tok /\ Len(m.projections[tok]) = L
        /\ \A i \in 1 .. n :
              lines[i].kind = "admitted" /\ lines[i].settlementId = g =>
                  lines[i].entry.version = L + 1

LEMMA NextVersion ==
    ASSUME NEW es \in History, NEW c, Admissible(es, c)
    PROVE  c.version = Len(es) + 1
<1>1. Len(es) \in Nat /\ DOMAIN es = 1 .. Len(es) /\ \A i \in 1 .. Len(es) : es[i].version = i
  BY DEF History, ProjectionInvariants, Consecutive
<1>2. CASE es = <<>>
  BY <1>2 DEF Admissible, Succeeds, FIRST_VERSION
<1>3. CASE es # <<>>
  <2>1. Len(es) \in 1 .. Len(es)
    BY <1>1, <1>3 DEF History
  <2> QED
    BY <1>1, <1>3, <2>1 DEF Admissible, Succeeds
<1> QED
  BY <1>2, <1>3

\* A record about another settlement leaves an open gap and its token alone.
LEMMA RecordElsewhere ==
    ASSUME NEW m \in SoundMemory, GapsAgree(m), NEW r \in JournalRecord, LawfulRecord(m, r),
           NEW g \in SettlementId, NEW tok \in Token, m.settlements[g].status # "NONE",
           r.settlementId # g
    PROVE  /\ ReplayResult(m, r).settlements[g] = m.settlements[g]
           /\ m.settlements[g].status = "OPEN" /\ m.settlements[g].tokenId = tok =>
                ReplayResult(m, r).projections[tok] = m.projections[tok]
<1> DEFINE n == ReplayResult(m, r)
<1>1. CASE r.kind = "gap-opened"
  <2>1. n.settlements[g] = m.settlements[g]
    BY <1>1, RecordShape DEF Opening
  <2>2. n.projections = m.projections
    BY <1>1 DEF ReplayResult, GapOpened
  <2> QED
    BY <2>1, <2>2
<1>2. CASE r.kind = "gap-cancelled"
  <2>1. n.settlements[g] = m.settlements[g]
    BY <1>2, RecordShape DEF Closing
  <2>2. n.projections = m.projections
    BY <1>2 DEF ReplayResult, GapClosed
  <2> QED
    BY <2>1, <2>2
<1>3. CASE r.kind = "admitted"
  <2>1. n.settlements[g] = m.settlements[g]
    BY <1>3, RecordShape DEF Closing, Leaving
  <2>2. r.tokenId \in Token /\ r.settlementId = m.openGaps[r.tokenId]
    BY <1>3, RecordKinds DEF AdmittedRecord, LawfulRecord
  <2>3. m.settlements[g].status = "OPEN" /\ m.settlements[g].tokenId = tok => r.tokenId # tok
    BY <2>2 DEF GapsAgree
  <2>4. n.projections =
          [m.projections EXCEPT ![r.tokenId] = Admit(m.projections[r.tokenId], r.entry)]
    BY <1>3 DEF ReplayResult, AdmissionApplied, GapClosed, EntryAdded
  <2>5. m.projections \in [Token -> Seq(ProjectionEntry)]
    BY DEF SoundMemory, Memory
  <2>6. r.tokenId # tok => n.projections[tok] = m.projections[tok]
    BY <2>4, <2>5
  <2> QED
    BY <2>1, <2>3, <2>6
<1> QED
  BY <1>1, <1>2, <1>3, RecordKinds

LEMMA GapStoryNext ==
    ASSUME NEW lines \in Seq(Line), Lawful(lines), NEW n \in 0 .. Len(lines), n # Len(lines),
           NEW g \in SettlementId, NEW tok \in Token, NEW L \in Nat,
           GapStory(lines, n, g, tok, L)
    PROVE  GapStory(lines, n + 1, g, tok, L)
<1> DEFINE m == After(lines, n).mem
           x == lines[n + 1]
           k == After(lines, n + 1).mem
<1>1. n \in Nat /\ n + 1 \in 1 .. Len(lines) /\ (n + 1) - 1 = n /\ Len(lines) \in Nat
  OBVIOUS
<1>2. Sensible(lines, n) /\ LawfulLine(lines, n + 1)
  BY <1>1 DEF Lawful
<1>3. k = ReplayResult(m, x)
  BY <1>2, SensibleNext
<1>4. m \in SoundMemory /\ GapsAgree(m)
  BY <1>2 DEF Sensible
<1>5. x.kind # "header" => x \in JournalRecord /\ LawfulRecord(m, x)
  BY <1>1, <1>2 DEF LawfulLine
<1>6. /\ m.settlements[g].status # "NONE"
      /\ m.settlements[g].status = "OPEN" =>
            m.settlements[g].tokenId = tok /\ Len(m.projections[tok]) = L
      /\ \A i \in 1 .. n :
            lines[i].kind = "admitted" /\ lines[i].settlementId = g =>
                lines[i].entry.version = L + 1
  BY DEF GapStory
<1> HIDE DEF m, k
<1>7. ASSUME /\ k.settlements[g].status # "NONE"
             /\ k.settlements[g].status = "OPEN" =>
                   k.settlements[g].tokenId = tok /\ Len(k.projections[tok]) = L
             /\ x.kind = "admitted" /\ x.settlementId = g => x.entry.version = L + 1
      PROVE  GapStory(lines, n + 1, g, tok, L)
  <2>1. \A i \in 1 .. n + 1 : i \in 1 .. n \/ i = n + 1
    BY <1>1
  <2> QED
    BY <1>6, <1>7, <2>1 DEF GapStory, k
<1> HIDE DEF x
<1>8. CASE x.kind = "header"
  <2>1. k = m
    BY <1>3, <1>8 DEF ReplayResult
  <2> QED
    BY <1>6, <1>7, <1>8, <2>1
<1>9. CASE x.kind # "header" /\ x.settlementId # g
  <2>1. /\ k.settlements[g] = m.settlements[g]
        /\ m.settlements[g].status = "OPEN" /\ m.settlements[g].tokenId = tok =>
             k.projections[tok] = m.projections[tok]
    BY <1>3, <1>4, <1>5, <1>6, <1>9, RecordElsewhere
  <2> QED
    BY <1>6, <1>7, <1>9, <2>1
<1>10. CASE x.kind # "header" /\ x.settlementId = g
  <2>1. x \in JournalRecord /\ LawfulRecord(m, x)
    BY <1>5, <1>10
  <2>2. g # NoGap
    BY StoreAssumption
  <2>3. x.kind # "gap-opened"
    <3> SUFFICES ASSUME x.kind = "gap-opened" PROVE FALSE
      OBVIOUS
    <3>1. m.settlements[g].status = "NONE"
      BY <1>4, <1>10, <2>1, RecordShape DEF Opening
    <3> QED
      BY <1>6, <3>1
  <2>4. \E status \in {"ADMITTED", "CANCELLED"} : Closing(m, k, x.tokenId, g, status)
    BY <1>3, <1>4, <1>10, <2>1, <2>2, <2>3, RecordShape, RecordKinds
  <2>5. k.settlements[g].status \in {"ADMITTED", "CANCELLED"}
        /\ x.tokenId \in Token /\ m.openGaps[x.tokenId] = g
    BY <2>4 DEF Closing
  <2>6. m.settlements[g].status = "OPEN" /\ m.settlements[g].tokenId = x.tokenId
    BY <1>4, <2>5 DEF GapsAgree
  <2>7. x.tokenId = tok /\ Len(m.projections[tok]) = L
    BY <1>6, <2>6
  <2>8. x.kind = "admitted" => x.entry.version = L + 1
    <3> SUFFICES ASSUME x.kind = "admitted" PROVE x.entry.version = L + 1
      OBVIOUS
    <3>1. Admissible(m.projections[tok], x.entry)
      BY <2>1, <2>7 DEF LawfulRecord, ReplayAccepts
    <3>2. m.projections[tok] \in History
      BY <1>4 DEF SoundMemory, Memory, History
    <3> QED
      BY <2>7, <3>1, <3>2, NextVersion
  <2> QED
    BY <1>7, <2>5, <2>8
<1> QED
  BY <1>8, <1>9, <1>10

\* A story goes on when a line is appended.
LEMMA GapStoryAppended ==
    ASSUME NEW lines \in Seq(Line), Lawful(lines), NEW x, MayFollow(lines, x),
           NEW g \in SettlementId, NEW tok \in Token, NEW L \in Nat,
           GapStory(lines, Len(lines), g, tok, L)
    PROVE  GapStory(Append(lines, x), Len(Append(lines, x)), g, tok, L)
<1> DEFINE s == Append(lines, x)
           n == Len(lines)
<1>1. x \in Line
  BY DEF MayFollow
<1>2. /\ s \in Seq(Line) /\ Len(s) = n + 1 /\ n \in Nat
      /\ \A i \in 1 .. n : s[i] = lines[i]
  BY <1>1
<1>3. Lawful(s) /\ After(s, n) = Replay(lines) /\ Replay(lines) = After(lines, n)
  BY LawfulAppend, AfterAll
<1> HIDE DEF s, n
<1>4. GapStory(s, n, g, tok, L)
  <2>1. GapStory(lines, n, g, tok, L)
    BY DEF n
  <2> QED
    BY <1>2, <1>3, <2>1 DEF GapStory
<1>5. n \in 0 .. Len(s) /\ n # Len(s)
  BY <1>2
<1> QED
  BY <1>2, <1>3, <1>4, <1>5, GapStoryNext DEF s

\* The journal a step leaves is the one before it, or that with a line it may
\* have next.
LinesGrow(lines, longer) ==
    longer = lines \/ \E x \in Line : MayFollow(lines, x) /\ longer = Append(lines, x)

LEMMA LinesStep ==
    ASSUME Disciplined, ServesDurably, RegisterInv, ServedOK, [Next]_vars
    PROVE  LinesGrow(file.lines, file'.lines)
<1>1. /\ StoreOK /\ DurableOK /\ ReplayOK
      /\ file \in FileType /\ opened \in BOOLEAN
      /\ file.lines \in Seq(Line) /\ Len(file.lines) \in Nat
  BY DEF RegisterInv, StoreInv, StoreOK, ReplayOK, FileType
<1>2. CASE UNCHANGED vars
  BY <1>2 DEF vars, LinesGrow
<1>3. ASSUME NEW x \in Line, MayFollow(file.lines, x), ~poisoned, opened => ~file.torn,
             \/ file' = DurablyWritten(file, opened, x)
             \/ file' \in CutShort(file, opened, x)
             \/ DiesWriting(x)
      PROVE  LinesGrow(file.lines, file'.lines)
  BY <1>1, <1>3, DurablyWrittenLines, CutShortLines, DiesWritingLines DEF LinesGrow
<1>4. ASSUME NEW r \in JournalRecord, Journals(r)
      PROVE  LinesGrow(file.lines, file'.lines)
  <2>1. r \in Line /\ ~poisoned /\ mode = "up" /\ (opened => ~file.torn)
    BY <1>1, <1>4 DEF Line, Journals, DurableOK
  <2>2. mem = Replay(file.lines).mem
    BY <1>1, <2>1, UpReplays
  <2>3. MayFollow(file.lines, r)
    BY <1>4, <2>1, <2>2, RecordKinds DEF MayFollow, Journals
  <2> QED
    BY <1>3, <1>4, <2>1, <2>3 DEF Journals, Record
<1>5. ASSUME NEW id \in Identity, Restart(id) \/ RestartFails(id)
      PROVE  LinesGrow(file.lines, file'.lines)
  <2>1. /\ HeaderLine(id) \in Line /\ HeaderLine(id).kind = "header"
        /\ ~poisoned /\ (opened => ~file.torn)
    BY <1>1, <1>5 DEF Line, HeaderLine, DurableOK, Restart, RestartFails
  <2>2. CASE UNCHANGED file
    BY <2>2 DEF LinesGrow
  <2>3. CASE BindWrites(id)
    <3>1. \A i \in 1 .. Len(file.lines) : file.lines[i].kind # "header"
      BY <1>1, <2>3, NoIdentityAssumption, StoredHeader DEF BindWrites
    <3>2. MayFollow(file.lines, HeaderLine(id))
      BY <2>1, <3>1 DEF MayFollow
    <3> QED
      BY <1>3, <1>5, <2>1, <2>2, <3>2 DEF Restart, RestartFails
  <2> QED
    BY <1>5, <2>2, <2>3 DEF Restart, RestartFails
<1>6. CASE PowerCut
  <2>1. file.synced = Len(file.lines)
    BY <1>6 DEF PowerCut, May, ServedOK
  <2>2. PICK n \in file.synced .. Len(file.lines), b \in BOOLEAN :
          file' = [lines |-> SubSeq(file.lines, 1, n), torn |-> b, uncut |-> FALSE, synced |-> n]
    BY <1>6 DEF PowerCut, AfterPowerCut
  <2>3. n = Len(file.lines) /\ SubSeq(file.lines, 1, n) = file.lines
    BY <1>1, <2>1, <2>2
  <2> QED
    BY <2>2, <2>3 DEF LinesGrow
<1>7. CASE ReplayLine \/ Serve \/ Crash \/ GiveUp \/ Close \/ Tick
  BY <1>7 DEF ReplayLine, Serve, Crash, GiveUp, Close, Tick, LinesGrow
<1> QED
  BY <1>1, <1>2, <1>4, <1>5, <1>6, <1>7, StepKinds DEF Next

\* What a caller was told of an open gap beside a holder: the holder was read
\* behind the entry the gap stood open behind.
GapStands(facts, tok, t, es, lines) ==
    facts.openGap # NoGap =>
        /\ facts.openGap \in SettlementId
        /\ \E L \in 0 .. Len(es) :
              /\ GapStory(lines, Len(lines), facts.openGap, tok, L)
              /\ Covered(SubSeq(es, 1, L), t)
              /\ facts.holder = HolderAsOf(SubSeq(es, 1, L), t)

GapOK ==
    /\ wire.kind = "response" /\ ~Refuses(wire.body) /\ call.method = "resolve" =>
          GapStands(Together(call.facts, wire.body), call.tok, call.instant,
                    served[call.tok], file.lines)
    /\ result.outcome = "returned" /\ result.call.method = "resolve" =>
          GapStands(result.call.facts, result.call.tok, result.call.instant,
                    served[result.call.tok], file.lines)

LEMMA GapStandsOn ==
    ASSUME NEW es \in History, NEW g \in History, Continues(g, es),
           NEW lines \in Seq(Line), Lawful(lines), NEW longer, LinesGrow(lines, longer),
           NEW tok \in Token, NEW t \in Uint64, NEW facts, GapStands(facts, tok, t, es, lines)
    PROVE  GapStands(facts, tok, t, g, longer)
<1> DEFINE gap == facts.openGap
<1> SUFFICES ASSUME gap # NoGap
             PROVE  /\ gap \in SettlementId
                    /\ \E L \in 0 .. Len(g) :
                          /\ GapStory(longer, Len(longer), gap, tok, L)
                          /\ Covered(SubSeq(g, 1, L), t)
                          /\ facts.holder = HolderAsOf(SubSeq(g, 1, L), t)
  BY DEF GapStands
<1>1. gap \in SettlementId
  BY DEF GapStands
<1>2. PICK L \in 0 .. Len(es) :
        /\ GapStory(lines, Len(lines), gap, tok, L)
        /\ Covered(SubSeq(es, 1, L), t)
        /\ facts.holder = HolderAsOf(SubSeq(es, 1, L), t)
  BY DEF GapStands
<1> HIDE DEF gap
<1>3. L \in Nat /\ L \in 0 .. Len(g)
  BY DEF Continues, History
<1>4. GapStory(longer, Len(longer), gap, tok, L)
  BY <1>1, <1>2, <1>3, GapStoryAppended DEF LinesGrow
<1> QED
  BY <1>1, <1>2, <1>3, <1>4, PrefixAnswers

\* A store that serves shows a gap as open, and the entries before its end.
LEMMA GapShown ==
    ASSUME RegisterInv, mode = "up", NEW tok \in Token, mem.openGaps[tok] # NoGap
    PROVE  /\ mem.openGaps[tok] \in SettlementId
           /\ GapStory(file.lines, Len(file.lines), mem.openGaps[tok], tok,
                       Len(mem.projections[tok]))
<1> DEFINE lines == file.lines
           g == mem.openGaps[tok]
           L == Len(mem.projections[tok])
<1>1. /\ lines \in Seq(Line) /\ Lawful(lines) /\ Len(lines) \in Nat
      /\ Remembers /\ mem \in SoundMemory
  BY DEF RegisterInv, StoreInv, StoreOK, FileType, ReplayOK
<1>2. Replay(lines) = After(lines, Len(lines))
  BY <1>1, AfterAll
<1>3. PICK n \in 0 .. Len(lines) :
        mem = After(lines, n).mem /\ (n = Len(lines) \/ n + 1 = Len(lines))
  <2>1. CASE mem = Replay(lines).mem
    BY <1>1, <1>2, <2>1
  <2>2. CASE lines # <<>> /\ mem = After(lines, Len(lines) - 1).mem
    <3>1. Len(lines) - 1 \in 0 .. Len(lines) /\ (Len(lines) - 1) + 1 = Len(lines)
      BY <1>1, <2>2
    <3> QED
      BY <2>2, <3>1
  <2> QED
    BY <1>1, <2>1, <2>2 DEF Remembers
<1>4. g \in SettlementId /\ L \in Nat
  BY <1>1 DEF SoundMemory, Memory
<1>5. GapsAgree(mem) /\ Told(lines, n, mem)
  BY <1>1, <1>3 DEF Lawful, Sensible
<1>6. mem.settlements[g].status = "OPEN" /\ mem.settlements[g].tokenId = tok
  BY <1>4, <1>5 DEF GapsAgree
<1>7. \A i \in 1 .. n : ~Closes(lines[i], g)
  BY <1>4, <1>5, <1>6 DEF Told
<1> HIDE DEF lines, g
<1>8. GapStory(lines, n, g, tok, L)
  BY <1>3, <1>6, <1>7 DEF GapStory, Closes
<1> HIDE DEF L
<1>9. GapStory(lines, Len(lines), g, tok, L)
  BY <1>1, <1>3, <1>4, <1>8, GapStoryNext
<1> QED
  BY <1>4, <1>9 DEF lines, g, L

\* The server answers resolve.
LEMMA GapAnswered ==
    ASSUME ServedInv, ClientOK, GapOK, Answers
    PROVE  GapOK'
<1> DEFINE es == served[call.tok]
           body == Gateway(wire.req)
           all == Together(call.facts, body)
<1>1. /\ wire.kind = "request" /\ wire' = [kind |-> "response", body |-> body]
      /\ call' = call /\ result' = result /\ served' = served /\ file' = file
  BY DEF Answers, vars
<1>2. call # NoCall /\ wire.req = Request(call)
  BY <1>1 DEF ClientOK, WireOK
<1>3. IsCall(call) /\ KnownBefore(call)
  BY <1>2 DEF ClientOK, CallOK
<1>4. call.tok \in Token /\ call.instant \in Uint64
  BY <1>3 DEF IsCall
<1>5. es \in History
  BY <1>4, LagsSound DEF ServedInv, ServedOK, RegisterInv, StoreInv, StoreOK, FileType, ReplayOK
<1>6. ASSUME ~Refuses(body), call.method = "resolve"
      PROVE  GapStands(all, call.tok, call.instant, es, file.lines)
  <2>1. mode = "up" /\ body = Answer(mem, Request(call))
    <3>1. Refuses(Refusal("UNAUTHENTICATED")) /\ Refuses(Refusal("UNKNOWN_TENANT"))
      BY DEF Refuses, Refusal
    <3> QED
      BY <1>2, <1>6, <3>1 DEF Gateway, TenantHasStore
  <2>2. mem.projections[call.tok] = es
    BY <2>1 DEF ServedInv, ServedOK
  <2> HIDE DEF es, body
  <2>3. /\ Request(call).route = "resolve"
        /\ Request(call).tok = call.tok
        /\ Request(call).instant = call.instant
    BY <1>3, <1>6, RouteOfRequest DEF Route
  <2>4. /\ {"openGap", "holder"} \subseteq DOMAIN body
        /\ body.openGap = mem.openGaps[call.tok]
        /\ Covered(es, call.instant) /\ body.holder = HolderAsOf(es, call.instant)
    BY <1>4, <1>5, <1>6, <2>1, <2>2, <2>3, AnswerStands
  <2>5. all.openGap = body.openGap /\ all.holder = body.holder
    <3>1. call.facts = <<>>
      BY <1>3, <1>6 DEF KnownBefore
    <3> QED
      BY <2>4, <3>1, NothingTogether
  <2> HIDE DEF all
  <2>6. ASSUME mem.openGaps[call.tok] # NoGap
        PROVE  GapStands(all, call.tok, call.instant, es, file.lines)
    <3>1. /\ mem.openGaps[call.tok] \in SettlementId
          /\ GapStory(file.lines, Len(file.lines), mem.openGaps[call.tok], call.tok, Len(es))
      BY <1>4, <2>1, <2>2, <2>6, GapShown DEF ServedInv
    <3>2. Len(es) \in 0 .. Len(es) /\ SubSeq(es, 1, Len(es)) = es
      BY <1>5 DEF History
    <3> QED
      BY <2>4, <2>5, <3>1, <3>2 DEF GapStands
  <2> QED
    BY <2>4, <2>5, <2>6 DEF GapStands
<1> HIDE DEF body
<1> QED
  BY <1>1, <1>6 DEF GapOK

\* The client takes the answer.
LEMMA GapReceived ==
    ASSUME ClientOK, GapOK, Receives
    PROVE  GapOK'
<1> DEFINE body == wire.body
<1>1. wire.kind = "response" /\ served' = served /\ file' = file
  BY DEF Receives, vars
<1>2. IsCall(call)
  BY <1>1 DEF ClientOK, WireOK, CallOK
<1>3. CASE Throws
  BY <1>3 DEF Throws, Ends, Nothing, GapOK
<1>4. CASE ~Refuses(body) /\ call.method = "entries" /\ ReceivesPage(body) /\ ~Throws
  <2> DEFINE next == [call EXCEPT !.got = @ \o body.entries, !.pages = @ + 1,
                                  !.total = Pinned(call, body)]
  <2>1. Returns(next) \/ (Sends(next) /\ UNCHANGED result)
    BY <1>4 DEF ReceivesPage
  <2>2. next.method = call.method
    <3>1. DOMAIN call = {"method", "tok", "instant", "routes", "facts", "got", "pages", "total",
                         "since"}
      BY <1>2 DEF IsCall
    <3> QED
      BY <3>1
  <2> HIDE DEF next
  <2>3. CASE Returns(next)
    <3>1. wire' = [kind |-> "nothing"] /\ result' = [outcome |-> "returned", call |-> next]
      BY <2>3 DEF Returns, Ends, Nothing
    <3> QED
      BY <1>4, <2>2, <3>1 DEF GapOK
  <2>4. CASE Sends(next) /\ UNCHANGED result
    BY <1>1, <2>4 DEF Sends, GapOK
  <2> QED
    BY <2>1, <2>3, <2>4
<1>5. CASE ~Refuses(body) /\ call.method # "entries" /\ ReceivesFacts(body)
  <2> DEFINE next == [call EXCEPT !.facts = Together(@, body), !.routes = Tail(@)]
  <2>1. /\ next.routes = <<>> /\ next.facts = Together(call.facts, body)
        /\ next.method = call.method /\ next.tok = call.tok /\ next.instant = call.instant
    BY <1>2, FactsReceived
  <2>2. Returns(next)
    BY <1>5, <2>1 DEF ReceivesFacts
  <2> HIDE DEF next
  <2>3. wire' = [kind |-> "nothing"] /\ result' = [outcome |-> "returned", call |-> next]
    BY <2>2 DEF Returns, Ends, Nothing
  <2> QED
    BY <1>1, <1>5, <2>1, <2>3 DEF GapOK
<1> QED
  BY <1>3, <1>4, <1>5 DEF Receives

LEMMA NextGap ==
    ASSUME Disciplined, ServesDurably, ServedInv, ClientOK, GapOK, [ClientNext]_allVars
    PROVE  GapOK'
<1>1. [Next]_vars
  BY ClientIsStore DEF allVars
<1>2. CASE StoreStep \/ Issue \/ Revoke \/ UNCHANGED allVars
  <2>1. call' = call /\ wire' = wire /\ result' = result
    BY <1>2 DEF StoreStep, Issue, Revoke, allVars, clientVars
  <2>2. \A tok \in Token : /\ served[tok] \in History /\ served'[tok] \in History
                           /\ Continues(served'[tok], served[tok])
    BY <1>1, ServedGrows
  <2>3. LinesGrow(file.lines, file'.lines)
    BY <1>1, LinesStep DEF ServedInv
  <2>4. file.lines \in Seq(Line) /\ Lawful(file.lines)
    BY DEF ServedInv, RegisterInv, StoreInv, StoreOK, FileType, ReplayOK
  <2>5. ASSUME NEW tok \in Token, NEW t \in Uint64, NEW facts,
               GapStands(facts, tok, t, served[tok], file.lines)
        PROVE  GapStands(facts, tok, t, served'[tok], file'.lines)
    BY <2>2, <2>3, <2>4, <2>5, GapStandsOn
  <2>6. wire.kind = "response" => call.tok \in Token /\ call.instant \in Uint64
    BY DEF ClientOK, WireOK, CallOK, IsCall
  <2>7. result.outcome = "returned" => result.call.tok \in Token /\ result.call.instant \in Uint64
    BY DEF ClientOK, ResultOK
  <2> QED
    BY <2>1, <2>5, <2>6, <2>7 DEF GapOK
<1>3. ASSUME NEW method \in Methods, NEW tok \in Token, NEW t \in Instants,
             Calls(method, tok, t)
      PROVE  GapOK'
  BY <1>3 DEF Calls, Sends, NoResult, GapOK
<1>4. CASE Fails
  BY <1>4 DEF Fails, Throws, Ends, Nothing, GapOK
<1> QED
  BY <1>2, <1>3, <1>4, GapAnswered, GapReceived DEF ClientNext

\* A holder shown beside an open gap is from before the entry that closes it.
THEOREM GapAndHolderReadTogether ==
    ASSUME Disciplined, ServesDurably
    PROVE  ClientSpec => []GapAndHolderAgree
<1>1. ClientInit => GapOK
  BY DEF ClientInit, Nothing, NoResult, GapOK
<1>2. ServedInv /\ ClientOK /\ GapOK => GapAndHolderAgree
  <2> DEFINE c == result.call
             facts == c.facts
             lines == file.lines
  <2> SUFFICES ASSUME ServedInv, ClientOK, GapOK, Returned({"resolve"}), mode = "up",
                      NEW i \in DOMAIN lines, lines[i].kind = "admitted",
                      lines[i].settlementId # NoGap, lines[i].settlementId = facts.openGap
               PROVE  LET before == SubSeq(mem.projections[c.tok], 1, lines[i].entry.version - 1)
                      IN  /\ Covered(before, c.instant)
                          /\ facts.holder = HolderAsOf(before, c.instant)
    BY DEF GapAndHolderAgree
  <2>1. GapStands(facts, c.tok, c.instant, served[c.tok], lines)
    BY DEF Returned, GapOK
  <2>2. served[c.tok] = mem.projections[c.tok]
    BY DEF ServedInv, ServedOK
  <2>3. lines \in Seq(Line)
    BY DEF ServedInv, RegisterInv, StoreInv, StoreOK, FileType
  <2> HIDE DEF c, lines
  <2>4. PICK L \in 0 .. Len(served[c.tok]) :
          /\ GapStory(lines, Len(lines), facts.openGap, c.tok, L)
          /\ Covered(SubSeq(served[c.tok], 1, L), c.instant)
          /\ facts.holder = HolderAsOf(SubSeq(served[c.tok], 1, L), c.instant)
    BY <2>1 DEF GapStands
  <2>5. lines[i].entry.version = L + 1
    BY <2>3, <2>4 DEF GapStory
  <2>6. lines[i].entry.version - 1 = L
    BY <2>5
  <2> QED
    BY <2>2, <2>4, <2>6
<1>3. ServedInv /\ ClientOK /\ GapOK /\ [ClientNext]_allVars => GapOK'
  BY NextGap
<1> QED
  BY <1>1, <1>2, <1>3, ClientInvariant, PTL DEF ClientSpec
=============================================================================

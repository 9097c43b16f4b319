--------------------------- MODULE ProjectionClient ---------------------------
(***************************************************************************)
(* Readers of a register over HTTP: one caller of an SDK client            *)
(* (sdk/js/client.ts and sdk/python/erc8415/client.py, which agree), the   *)
(* gateway that authenticates it and the GET routes of api/routes.ts, in   *)
(* front of a ProjectionStore that goes on admitting, failing and          *)
(* restarting meanwhile.                                                   *)
(*                                                                         *)
(* The client awaits each response, so a call is a sequence of requests    *)
(* and anything may happen to the register between two of them.  A route   *)
(* is synchronous: each response is one reading of the store.              *)
(*                                                                         *)
(* Abstracted: URLs, JSON and decimal strings; the secret, its digest and  *)
(* the other tenants (a key leads to one tenant and one store); metrics.   *)
(* An open gap is shown by its identifier.  The console's overview reads the store in process; it is   *)
(* treated as one more route, since it too is one synchronous reading.     *)
(***************************************************************************)
EXTENDS ProjectionStore

CONSTANTS
    MAX_PAGE,       \* the most entries a listing answers with
    PageSize,       \* the limit the clients ask for (100 in the code)
    Methods,        \* bound: the methods that are called
    Instants,       \* bound: the instants that are asked about
    Revocable       \* whether keys are revoked

VARIABLES
    call,       \* the call in progress, or NoCall
    wire,       \* what is between client and server: nothing, a request, a response
    keyLive,    \* whether the caller's API key authenticates
    result      \* what the last call came back with; forgotten when the next begins

clientVars == <<call, wire, keyLive, result>>
allVars == <<vars, clientVars>>

-----------------------------------------------------------------------------
(* The routes: what one reading of a store m answers.                        *)

Refusal(code) == [error |-> code]
Refuses(body) == "error" \in DOMAIN body

\* What f and g say together, f where both speak: f @@ g of module TLC, which the
\* provers cannot expand.
Together(f, g) ==
    [x \in DOMAIN f \cup DOMAIN g |-> IF x \in DOMAIN f THEN f[x] ELSE g[x]]

\* parsePage lets the limit through.
PageLimitAllowed(limit) == limit \in 1 .. MAX_PAGE

\* Seeded fault: a listing that starts with the newest entry.
NewestFirst(es, offset, limit) ==
    SubSeq(Reverse(es), offset + 1, Min({offset + limit, Len(es)}))

\* all.slice(offset, offset + limit)
Slice(es, offset, limit) == SubSeq(es, offset + 1, Min({offset + limit, Len(es)}))

\* GET entries.
EntriesPage(m, req) ==
    LET es == m.projections[req.tok]
    IN  IF ~PageLimitAllowed(req.limit) THEN Refusal("MALFORMED_PAGE")
        ELSE [entryCount |-> Len(es), offset |-> req.offset,
              entries |-> Slice(es, req.offset, req.limit)]

\* GET one of the as-of routes.
AsOfAnswer(m, req) ==
    LET es == m.projections[req.tok]
        finality == [final |-> IsFinalAsOf(es, req.instant), openGap |-> m.openGaps[req.tok]]
    IN  IF req.route = "finality" THEN finality
        ELSE IF ~Covered(es, req.instant) THEN Refusal("INSTANT_NOT_COVERED")
        ELSE CASE req.route = "resolve" ->
                     Together([holder |-> HolderAsOf(es, req.instant)], finality)
               [] req.route = "holder" -> [holder |-> HolderAsOf(es, req.instant)]
               [] req.route = "entry" -> [entry |-> EntryAsOf(es, req.instant)]

\* overview, without the ERC-721 owner, which is shown beside it.
Overview(m, req) ==
    LET es == m.projections[req.tok]
        shown == [final |-> IsFinalAsOf(es, req.instant), openGap |-> m.openGaps[req.tok],
                  entryCount |-> Len(es),
                  coverage |-> CASE es = <<>> -> "no-projection"
                                 [] Covered(es, req.instant) -> "covered"
                                 [] OTHER -> "not-covered"]
    IN  IF Covered(es, req.instant)
        THEN Together([holder |-> HolderAsOf(es, req.instant)], shown)
        ELSE shown

\* route, on a GET.
Answer(m, req) ==
    CASE req.route = "token" ->
            [entryCount |-> Len(m.projections[req.tok]), openGap |-> m.openGaps[req.tok]]
      [] req.route = "entries" -> EntriesPage(m, req)
      [] req.route = "overview" -> Overview(m, req)
      [] OTHER -> AsOfAnswer(m, req)

-----------------------------------------------------------------------------
(* The client.                                                               *)

\* The route behind each method.
Route == [entries |-> "entries", resolve |-> "resolve", isFinalAsOf |-> "finality",
          holderAsOf |-> "holder", entryAsOf |-> "entry", openGapOf |-> "token",
          overview |-> "overview"]

ASSUME ClientAssumption ==
    /\ MAX_PAGE \in Nat
    /\ PageSize \in 1 .. MAX_PAGE
    /\ Methods \subseteq DOMAIN Route
    /\ Instants \subseteq Uint64
    /\ Revocable \in BOOLEAN

\* Seeded fault: resolve asks for the holder, then for its finality.
HolderThenFinality(method) ==
    IF method = "resolve" THEN <<"holder", "finality">> ELSE <<Route[method]>>

\* Seeded fault: resolve asks for the open gap, then for the rest.
GapThenHolder(method) ==
    IF method = "resolve" THEN <<"token", "resolve">> ELSE <<Route[method]>>

\* What a method asks, in order: one request, "entries" one for each page.
RoutesOf(method) == <<Route[method]>>

NoCall == [method |-> "none"]
Nothing == [kind |-> "nothing"]
NoResult == [outcome |-> "none"]

\* The limit of the next page, when total is pinned from the first one on.
Limit(c) == IF c.pages = 0 THEN PageSize ELSE Min({PageSize, c.total - Len(c.got)})

Request(c) ==
    [route |-> Head(c.routes), tok |-> c.tok, instant |-> c.instant,
     offset |-> Len(c.got), limit |-> Limit(c)]

Sends(c) ==
    /\ call' = c
    /\ wire' = [kind |-> "request", req |-> Request(c)]

Ends(outcome) ==
    /\ call' = NoCall
    /\ wire' = Nothing
    /\ result' = outcome

Throws == Ends([outcome |-> "threw"])
Returns(c) == Ends([outcome |-> "returned", call |-> c])

\* What the caller already knows when it asks about the same instant again:
\* that it was told the instant is final.
KnownFinal(tok, t) ==
    IF /\ result.outcome = "returned"
       /\ result.call.tok = tok /\ result.call.instant = t
       /\ "final" \in DOMAIN result.call.facts
       /\ result.call.facts.final
    THEN [final |-> TRUE]
    ELSE <<>>

\* A method is called.  since is how much of the history readers had been
\* shown by then.
Calls(method, tok, t) ==
    /\ call = NoCall
    /\ Sends([method |-> method, tok |-> tok, instant |-> t, routes |-> RoutesOf(method),
              facts |-> IF method = "holderAsOf" THEN KnownFinal(tok, t) ELSE <<>>,
              got |-> <<>>, pages |-> 0, total |-> 0, since |-> Len(served[tok])])
    /\ result' = NoResult
    /\ UNCHANGED <<vars, keyLive>>

\* ApiKeyStore.authenticate knows the key, and it has not been revoked.
Authenticates == keyLive

\* TenantRegistry.storeFor finds a store: one has been registered.
TenantHasStore == mode = "up"

\* handleGateway: the key, then its tenant's store, then the route.
Gateway(req) ==
    CASE ~Authenticates -> Refusal("UNAUTHENTICATED")
      [] Authenticates /\ ~TenantHasStore -> Refusal("UNKNOWN_TENANT")
      [] OTHER -> Answer(mem, req)

\* The request has arrived whole and is answered from the store as it is now.
Answers ==
    /\ wire.kind = "request"
    /\ wire' = [kind |-> "response", body |-> Gateway(wire.req)]
    /\ UNCHANGED <<vars, call, keyLive, result>>

Pinned(c, body) == IF c.pages = 0 THEN body.entryCount ELSE c.total

\* The checks of entries() on a page.
PageAccepted(c, body) ==
    /\ body.entryCount >= c.total
    /\ body.offset = Len(c.got)
    /\ Len(body.entries) = Min({Limit(c), Pinned(c, body) - Len(c.got)})

\* Seeded fault: the history ends with the first page that is not full.
FirstPageIsAll(c) == TRUE

\* entries.length < total no longer holds.
HasAll(c) == Len(c.got) >= c.total

ReceivesPage(body) ==
    LET c == [call EXCEPT !.got = @ \o body.entries, !.pages = @ + 1,
                          !.total = Pinned(call, body)]
    IN  IF ~PageAccepted(call, body) THEN Throws
        ELSE IF HasAll(c) THEN Returns(c)
        ELSE Sends(c) /\ UNCHANGED result

ReceivesFacts(body) ==
    LET c == [call EXCEPT !.facts = Together(@, body), !.routes = Tail(@)]
    IN  IF c.routes = <<>> THEN Returns(c) ELSE Sends(c) /\ UNCHANGED result

\* #get returns, or throws what the status says.
Receives ==
    /\ wire.kind = "response"
    /\ IF Refuses(wire.body) THEN Throws
       ELSE IF call.method = "entries" THEN ReceivesPage(wire.body)
       ELSE ReceivesFacts(wire.body)
    /\ UNCHANGED <<vars, keyLive>>

\* The deadline of #get passes, or the connection fails: nothing is retried,
\* and an answer still under way reaches nobody.
Fails ==
    /\ call # NoCall
    /\ Throws
    /\ UNCHANGED <<vars, keyLive>>

-----------------------------------------------------------------------------
(* ApiKeyStore, in memory.  A revoked key stays revoked; the caller can be   *)
(* given another.                                                            *)

Issue ==
    /\ ~keyLive
    /\ call = NoCall
    /\ mode = "up"
    /\ keyLive' = TRUE
    /\ UNCHANGED <<vars, call, wire, result>>

Revoke ==
    /\ Revocable
    /\ keyLive
    /\ keyLive' = FALSE
    /\ UNCHANGED <<vars, call, wire, result>>

-----------------------------------------------------------------------------

ClientInit ==
    /\ Init
    /\ call = NoCall
    /\ wire = Nothing
    /\ keyLive = TRUE
    /\ result = NoResult

Extends(longer, shorter) ==
    /\ Len(shorter) <= Len(longer)
    /\ \A i \in DOMAIN shorter : longer[i].recordCommitment = shorter[i].recordCommitment

\* The register takes a step of its own.  Keys end with the process; a poisoned
\* store may be replaced in it.
StoreStep ==
    /\ Next
    /\ keyLive' \in IF mode' # "down" THEN {keyLive}
                   ELSE IF faults' # faults THEN {FALSE} ELSE {keyLive, FALSE}
    /\ UNCHANGED <<call, wire, result>>

ClientNext ==
    \/ StoreStep
    \/ \E method \in Methods, tok \in Token, t \in Instants : Calls(method, tok, t)
    \/ Answers
    \/ Receives
    \/ Fails
    \/ Issue
    \/ Revoke

ClientSpec == ClientInit /\ [][ClientNext]_allVars

-----------------------------------------------------------------------------
(* Properties.                                                               *)

Returned(methods) == result.outcome = "returned" /\ result.call.method \in methods

\* entries() returns one history though it reads it in pages at different
\* moments: versions count up from 1 whatever happened in between, every entry
\* is the register's, and all intervals but the last are closed where the next
\* begins.
EntriesAreOneHistory ==
    Returned({"entries"}) =>
        LET got == result.call.got
            history == mem.projections[result.call.tok]
        IN  /\ Consecutive(got)
            /\ mode = "up" =>
                /\ Extends(history, got)
                /\ \A i \in 1 .. Len(got) - 1 : got[i].supersededAt = got[i + 1].effectiveAt

\* entries() never returns less than readers could already see when it was
\* called: a call that cannot get all of it throws.
EntriesAreComplete ==
    Returned({"entries"}) => Len(result.call.got) >= result.call.since

\* A holder that comes with finality, from resolve, from the overview, or from
\* holderAsOf asked after isFinalAsOf, is the holder at that instant for as
\* long as the register exists (client.ts: acting on holder without reading
\* final is the integration error).
FinalHolderStands ==
    Returned({"resolve", "overview", "holderAsOf"}) /\ mode = "up" =>
        LET facts == result.call.facts
        IN  ("final" \in DOMAIN facts /\ facts.final) =>
                /\ "holder" \in DOMAIN facts
                /\ facts.holder =
                     HolderAsOf(mem.projections[result.call.tok], result.call.instant)

\* What resolve answers beside an open gap is from before the entry that gap is
\* closed by: it never shows the change as both in flight and done.
GapAndHolderAgree ==
    Returned({"resolve"}) /\ mode = "up" =>
        LET facts == result.call.facts
            closing == {i \in DOMAIN file.lines :
                          /\ file.lines[i].kind = "admitted"
                          /\ file.lines[i].settlementId # NoGap
                          /\ file.lines[i].settlementId = facts.openGap}
        IN  \A i \in closing :
                LET before == SubSeq(mem.projections[result.call.tok], 1,
                                     file.lines[i].entry.version - 1)
                IN  /\ Covered(before, result.call.instant)
                    /\ facts.holder = HolderAsOf(before, result.call.instant)
=============================================================================

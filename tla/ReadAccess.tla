------------------------------ MODULE ReadAccess ------------------------------
(***************************************************************************)
(* Who is shown which register: the API server (api/server.ts), the        *)
(* gateway with its keys and tenants (api/gateway.ts, engine/ops), and the *)
(* console with its role directory (console/server.ts,                     *)
(* engine/access/roles.ts).                                                *)
(*                                                                         *)
(* A request is spread over time: its body arrives in pieces, or its       *)
(* credential is verified asynchronously, while keys and roles are given   *)
(* and taken back and a tenant's register is replaced.  The handler        *)
(* behind it is synchronous, one step.                                     *)
(*                                                                         *)
(* Abstracted: what a register answers (ProjectionClient has that), the    *)
(* secret and its digest (whoever presents a key holds its secret),        *)
(* metrics, rendering.                                                     *)
(***************************************************************************)
EXTENDS Integers, Functions

CONSTANTS
    Tenant,
    Register,           \* the projection stores there are
    Key,                \* bound: the key identifiers issue comes up with
    NoKey,              \* no bearer credential
    Person,             \* users of the console
    Administrator,      \* the person the directory is constructed with
    Nobody,             \* what authenticate answers without a session
    BODY_LIMIT,         \* in pieces
    ApiConnection, ConsoleConnection

ASSUME AccessAssumption ==
    /\ NoKey \notin Key
    /\ Administrator \in Person
    /\ Nobody \notin Person \X {"given", "lower"}
    /\ BODY_LIMIT \in Nat
    /\ ApiConnection \cap ConsoleConnection = {}

VARIABLES
    records,    \* ApiKeyStore.#records
    stores,     \* TenantRegistry.#stores
    roles,      \* Directory.#roles
    calls,      \* the request each connection carries, or its answer
    entitled,   \* history variable: the tenant each key that is not withdrawn was issued for
    granted     \* history variable: the role each person was last given and still has

vars == <<records, stores, roles, calls, entitled, granted>>

\* Map.set: f with value at x.
Put(f, x, value) == [y \in DOMAIN f \cup {x} |-> IF y = x THEN value ELSE f[y]]

-----------------------------------------------------------------------------
(* API keys and tenants.                                                     *)

Issue(key, tenant) ==
    /\ key \notin DOMAIN records
    /\ records' = Put(records, key, [tenant |-> tenant, revoked |-> FALSE])
    /\ entitled' = Put(entitled, key, tenant)
    /\ UNCHANGED <<stores, roles, calls, granted>>

RevokeKey(key) ==
    /\ key \in DOMAIN records
    /\ records' = [records EXCEPT ![key].revoked = TRUE]
    /\ entitled' = Restrict(entitled, DOMAIN entitled \ {key})
    /\ UNCHANGED <<stores, roles, calls, granted>>

\* Seeded fault: a revoked key still authenticates.
AuthenticatesOnce(key) == key \in DOMAIN records

\* authenticate finds the record, and it has not been revoked.
Authenticates(key) == key \in DOMAIN records /\ ~records[key].revoked

\* TenantRegistry.add, for a new tenant or over its present store.
AddStore(tenant, register) ==
    /\ stores' = Put(stores, tenant, register)
    /\ UNCHANGED <<records, roles, calls, entitled, granted>>

-----------------------------------------------------------------------------
(* The role directory.  A person's name comes as it was given somewhere, or  *)
(* in lower case.                                                            *)

Name == Person \X {"given", "lower"}
Lower(name) == <<name[1], "lower">>

Role == {"ADMIN", "AUDITOR", "VIEWER"}

GRANTS ==
    [VIEWER |-> {"projection:read"},
     AUDITOR |-> {"projection:read", "audit:read"},
     ADMIN |-> {"projection:read", "audit:read", "permissions:manage"}]

HasRole(name) == Lower(name) \in DOMAIN roles
Can(name, permission) == HasRole(name) /\ permission \in GRANTS[roles[Lower(name)]]

Assign(actor, name, role) ==
    /\ Can(actor, "permissions:manage")
    /\ roles' = Put(roles, Lower(name), role)
    /\ granted' = Put(granted, name[1], role)
    /\ UNCHANGED <<records, stores, calls, entitled>>

\* Seeded fault: the name is deleted as it was spelled.
DeletedAsGiven(name) == Restrict(roles, DOMAIN roles \ {name})

\* #roles.delete of the lower-cased name.
Deleted(name) == Restrict(roles, DOMAIN roles \ {Lower(name)})

RevokeRole(actor, name) ==
    /\ Can(actor, "permissions:manage")
    /\ roles' = Deleted(name)
    /\ granted' = Restrict(granted, DOMAIN granted \ {name[1]})
    /\ UNCHANGED <<records, stores, calls, entitled>>

-----------------------------------------------------------------------------
(* The API server.                                                           *)

Idle == [at |-> "idle"]
Refused(status) == [at |-> "answered", status |-> status]
Shown(what) == [at |-> "answered", status |-> 200, shown |-> what]
ShownTo(what, user) == [at |-> "answered", status |-> 200, shown |-> what, user |-> user]

Becomes(c, call) ==
    /\ calls' = [calls EXCEPT ![c] = call]
    /\ UNCHANGED <<records, stores, roles, entitled, granted>>

RequestArrives(c, key) ==
    /\ calls[c] = Idle
    /\ Becomes(c, [at |-> "body", key |-> key, size |-> 0])

\* 'data': a piece of the body; the first one past the limit is answered at
\* once, and none after it is looked at.
Piece(c) ==
    /\ calls[c].at = "body"
    /\ Becomes(c, IF calls[c].size + 1 > BODY_LIMIT THEN Refused(413)
                  ELSE [calls[c] EXCEPT !.size = @ + 1])

\* handleGateway: the register of the tenant of the key.  What it answers may
\* be a refusal of its own, which its reader is shown just the same.
Gateway(key) ==
    IF key = NoKey \/ ~Authenticates(key) THEN Refused(401)
    ELSE IF records[key].tenant \notin DOMAIN stores THEN Refused(403)
    ELSE Shown(stores[records[key].tenant])

\* 'end': the body is whole.  It may not be JSON; the address may not parse, or
\* the register may throw.
Whole(c) ==
    /\ calls[c].at = "body"
    /\ \/ Becomes(c, Gateway(calls[c].key))
       \/ calls[c].size > 0 /\ Becomes(c, Refused(400))
       \/ Becomes(c, Refused(500))

-----------------------------------------------------------------------------
(* The console.                                                              *)

\* What each page requires.
Requires == [token |-> "projection:read", timeline |-> "audit:read",
             permissions |-> "permissions:manage"]
Page == DOMAIN Requires \cup {"home", "other"}

\* A page is asked for; the server awaits authenticate.
PageRequested(c, page) ==
    /\ calls[c] = Idle
    /\ Becomes(c, [at |-> "authenticating", page |-> page])

\* handleConsole, for the user authenticate came back with.
HandleConsole(page, user) ==
    CASE page = "home" -> Shown(page)
      [] page # "home" /\ user = Nobody -> Refused(401)
      [] page # "home" /\ user # Nobody /\ ~HasRole(user) -> Refused(403)
      [] page \in DOMAIN Requires /\ user # Nobody /\ HasRole(user) ->
            IF Can(user, Requires[page]) THEN ShownTo(page, user) ELSE Refused(403)
      [] page = "other" /\ user # Nobody /\ HasRole(user) -> Refused(404)

\* authenticate answers, and the page is handled.  What is asked of the register
\* may be malformed, or something it has no answer for.
Authenticated(c, user) ==
    LET answer == HandleConsole(calls[c].page, user)
    IN  /\ calls[c].at = "authenticating"
        /\ \/ Becomes(c, answer)
           \/ /\ "user" \in DOMAIN answer
              /\ calls[c].page \in {"token", "timeline"}
              /\ \E status \in {400, 404} : Becomes(c, Refused(status))

\* authenticate throws or rejects.
AuthenticationFails(c) ==
    /\ calls[c].at = "authenticating"
    /\ Becomes(c, Refused(401))

\* The answer has been sent; or there will be none, because the connection is
\* lost or because of an exception the console does not turn into an answer.
Closes(c) ==
    /\ calls[c] # Idle
    /\ Becomes(c, Idle)

-----------------------------------------------------------------------------

Init ==
    /\ records = <<>>
    /\ stores = <<>>
    /\ roles = Put(<<>>, Lower(<<Administrator, "given">>), "ADMIN")
    /\ calls = [c \in ApiConnection \cup ConsoleConnection |-> Idle]
    /\ entitled = <<>>
    /\ granted = Put(<<>>, Administrator, "ADMIN")

Next ==
    \/ \E key \in Key, tenant \in Tenant : Issue(key, tenant)
    \/ \E key \in Key : RevokeKey(key)
    \/ \E tenant \in Tenant, register \in Register : AddStore(tenant, register)
    \/ \E actor, name \in Name, role \in Role : Assign(actor, name, role)
    \/ \E actor, name \in Name : RevokeRole(actor, name)
    \/ \E c \in ApiConnection :
          \/ \E key \in Key \cup {NoKey} : RequestArrives(c, key)
          \/ Piece(c)
          \/ Whole(c)
    \/ \E c \in ConsoleConnection :
          \/ \E page \in Page : PageRequested(c, page)
          \/ \E user \in Name \cup {Nobody} : Authenticated(c, user)
          \/ AuthenticationFails(c)
    \/ \E c \in ApiConnection \cup ConsoleConnection : Closes(c)

Spec == Init /\ [][Next]_vars

-----------------------------------------------------------------------------
(* Properties.                                                               *)

Answers(c) == calls'[c] # calls[c] /\ calls'[c].at = "answered" /\ "shown" \in DOMAIN calls'[c]

\* However long its body takes, a request is answered from the register that
\* serves, when it is answered, the tenant its key was issued for; and not at
\* all once revoke has returned for that key.
OwnRegisterOnly ==
    [][\A c \in ApiConnection : Answers(c) =>
         LET key == calls[c].key
         IN  /\ key \in DOMAIN entitled
             /\ entitled[key] \in DOMAIN stores
             /\ calls'[c].shown = stores[entitled[key]]]_vars

\* However long authentication takes, a page is shown only to a person whom an
\* administrator last gave a role that grants it and has not taken it back from,
\* under whatever spelling of the name.
PagesByRole ==
    [][\A c \in ConsoleConnection : Answers(c) /\ calls'[c].shown # "home" =>
         LET person == calls'[c].user[1]
         IN  /\ person \in DOMAIN granted
             /\ Requires[calls'[c].shown] \in GRANTS[granted[person]]]_vars
=============================================================================

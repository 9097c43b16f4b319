---------------------------- MODULE ReadAccessProofs ----------------------------
(***************************************************************************)
(* Whoever is shown a register or a page is entitled to it at that moment, *)
(* for any number of tenants, keys, persons and connections.               *)
(*                                                                         *)
(* Between the moment a request arrives and the moment it is answered,     *)
(* keys, stores and roles may change; the handler looks at none of them    *)
(* before it answers.  What the invariant has to say is that the tables    *)
(* the handler looks at then agree with what was given and taken back.     *)
(***************************************************************************)
EXTENDS ReadAccess, TLAPS

Connection == ApiConnection \cup ConsoleConnection

\* What connection c may carry: of a page, one there is.
Carried(c, call) ==
    /\ "at" \in DOMAIN call
    /\ c \in ConsoleConnection /\ call.at = "authenticating" => call.page \in Page

CallsTyped ==
    /\ DOMAIN calls = Connection
    /\ \A c \in Connection : Carried(c, calls[c])

\* A key that authenticates has been issued, for the tenant it is recorded with,
\* and has not been withdrawn.
KeysAgree ==
    \A key \in DOMAIN records :
        /\ records[key] \in [tenant : Tenant, revoked : BOOLEAN]
        /\ ~records[key].revoked =>
              key \in DOMAIN entitled /\ records[key].tenant = entitled[key]

\* A role the directory holds is the one its person was last given and has not
\* lost.
RolesAgree ==
    \A name \in Name :
        Lower(name) \in DOMAIN roles =>
            /\ name[1] \in DOMAIN granted
            /\ roles[Lower(name)] = granted[name[1]]

AccessInv == CallsTyped /\ KeysAgree /\ RolesAgree

-----------------------------------------------------------------------------
(* Operators.                                                                *)

LEMMA RestrictSays ==
    ASSUME NEW f, NEW S
    PROVE  /\ DOMAIN Restrict(f, S) = S
           /\ \A y \in S : Restrict(f, S)[y] = f[y]
BY DEF Restrict

\* Names of one person, and of no other, are the same in lower case.
LEMMA LowerTellsPersons ==
    ASSUME NEW name \in Name, NEW other \in Name
    PROVE  Lower(name) = Lower(other) <=> name[1] = other[1]
BY DEF Lower

-----------------------------------------------------------------------------
(* The tables.                                                               *)

LEMMA CallsUntouched ==
    ASSUME CallsTyped, UNCHANGED calls
    PROVE  CallsTyped'
BY DEF CallsTyped

LEMMA TablesUntouched ==
    ASSUME KeysAgree, RolesAgree, UNCHANGED <<records, roles, entitled, granted>>
    PROVE  KeysAgree' /\ RolesAgree'
BY DEF KeysAgree, RolesAgree

LEMMA IssueAgrees ==
    ASSUME AccessInv, NEW key \in Key, NEW tenant \in Tenant, Issue(key, tenant)
    PROVE  AccessInv'
<1> DEFINE record == [tenant |-> tenant, revoked |-> FALSE]
<1>1. /\ records' = Put(records, key, record) /\ entitled' = Put(entitled, key, tenant)
      /\ UNCHANGED <<roles, calls, granted>>
  BY DEF Issue
<1>2. record \in [tenant : Tenant, revoked : BOOLEAN] /\ record.tenant = tenant
  OBVIOUS
<1> HIDE DEF record
<1>3. /\ DOMAIN records' = DOMAIN records \cup {key} /\ records'[key] = record
      /\ \A y \in DOMAIN records : y # key => records'[y] = records[y]
  <2>1. /\ DOMAIN Put(records, key, record) = DOMAIN records \cup {key}
        /\ Put(records, key, record)[key] = record
        /\ \A y \in DOMAIN records : y # key => Put(records, key, record)[y] = records[y]
    BY DEF Put
  <2> QED
    BY <1>1, <2>1
<1>4. /\ DOMAIN entitled' = DOMAIN entitled \cup {key} /\ entitled'[key] = tenant
      /\ \A y \in DOMAIN entitled : y # key => entitled'[y] = entitled[y]
  <2>1. /\ DOMAIN Put(entitled, key, tenant) = DOMAIN entitled \cup {key}
        /\ Put(entitled, key, tenant)[key] = tenant
        /\ \A y \in DOMAIN entitled : y # key => Put(entitled, key, tenant)[y] = entitled[y]
    BY DEF Put
  <2> QED
    BY <1>1, <2>1
<1>5. KeysAgree'
  BY <1>2, <1>3, <1>4 DEF AccessInv, KeysAgree
<1> QED
  BY <1>1, <1>5 DEF AccessInv, CallsTyped, RolesAgree

LEMMA RevokeKeyAgrees ==
    ASSUME AccessInv, NEW key \in Key, RevokeKey(key)
    PROVE  AccessInv'
<1>1. /\ key \in DOMAIN records /\ records' = [records EXCEPT ![key].revoked = TRUE]
      /\ entitled' = Restrict(entitled, DOMAIN entitled \ {key})
      /\ UNCHANGED <<roles, calls, granted>>
  BY DEF RevokeKey
<1>2. \A y \in DOMAIN records : records[y] \in [tenant : Tenant, revoked : BOOLEAN]
  BY DEF AccessInv, KeysAgree
<1>3. /\ DOMAIN records' = DOMAIN records
      /\ records'[key] = [records[key] EXCEPT !.revoked = TRUE]
      /\ \A y \in DOMAIN records : y # key => records'[y] = records[y]
  BY <1>1
<1>4. records'[key] \in [tenant : Tenant, revoked : BOOLEAN] /\ records'[key].revoked = TRUE
  BY <1>1, <1>2, <1>3
<1>5. /\ DOMAIN entitled' = DOMAIN entitled \ {key}
      /\ \A y \in DOMAIN entitled \ {key} : entitled'[y] = entitled[y]
  BY <1>1, RestrictSays
<1>6. KeysAgree'
  BY <1>3, <1>4, <1>5 DEF AccessInv, KeysAgree
<1> QED
  BY <1>1, <1>6 DEF AccessInv, CallsTyped, RolesAgree

LEMMA AssignAgrees ==
    ASSUME AccessInv, NEW actor \in Name, NEW name \in Name, NEW role \in Role,
           Assign(actor, name, role)
    PROVE  AccessInv'
<1>1. /\ roles' = Put(roles, Lower(name), role) /\ granted' = Put(granted, name[1], role)
      /\ UNCHANGED <<records, calls, entitled>>
  BY DEF Assign
<1>2. /\ DOMAIN roles' = DOMAIN roles \cup {Lower(name)} /\ roles'[Lower(name)] = role
      /\ \A y \in DOMAIN roles : y # Lower(name) => roles'[y] = roles[y]
  <2>1. /\ DOMAIN Put(roles, Lower(name), role) = DOMAIN roles \cup {Lower(name)}
        /\ Put(roles, Lower(name), role)[Lower(name)] = role
        /\ \A y \in DOMAIN roles : y # Lower(name) => Put(roles, Lower(name), role)[y] = roles[y]
    BY DEF Put
  <2> QED
    BY <1>1, <2>1
<1>3. /\ DOMAIN granted' = DOMAIN granted \cup {name[1]} /\ granted'[name[1]] = role
      /\ \A y \in DOMAIN granted : y # name[1] => granted'[y] = granted[y]
  <2>1. /\ DOMAIN Put(granted, name[1], role) = DOMAIN granted \cup {name[1]}
        /\ Put(granted, name[1], role)[name[1]] = role
        /\ \A y \in DOMAIN granted : y # name[1] => Put(granted, name[1], role)[y] = granted[y]
    BY DEF Put
  <2> QED
    BY <1>1, <2>1
<1>4. RolesAgree'
  <2> SUFFICES ASSUME NEW other \in Name, Lower(other) \in DOMAIN roles'
               PROVE  /\ other[1] \in DOMAIN granted'
                      /\ roles'[Lower(other)] = granted'[other[1]]
    BY DEF RolesAgree, Lower
  <2>1. Lower(name) = Lower(other) <=> name[1] = other[1]
    BY LowerTellsPersons
  <2> QED
    BY <1>2, <1>3, <2>1 DEF AccessInv, RolesAgree
<1> QED
  BY <1>1, <1>4 DEF AccessInv, CallsTyped, KeysAgree

LEMMA RevokeRoleAgrees ==
    ASSUME AccessInv, NEW actor \in Name, NEW name \in Name, RevokeRole(actor, name)
    PROVE  AccessInv'
<1>1. /\ roles' = Restrict(roles, DOMAIN roles \ {Lower(name)})
      /\ granted' = Restrict(granted, DOMAIN granted \ {name[1]})
      /\ UNCHANGED <<records, calls, entitled>>
  BY DEF RevokeRole, Deleted
<1>2. /\ DOMAIN roles' = DOMAIN roles \ {Lower(name)}
      /\ \A y \in DOMAIN roles \ {Lower(name)} : roles'[y] = roles[y]
  BY <1>1, RestrictSays
<1>3. /\ DOMAIN granted' = DOMAIN granted \ {name[1]}
      /\ \A y \in DOMAIN granted \ {name[1]} : granted'[y] = granted[y]
  BY <1>1, RestrictSays
<1>4. RolesAgree'
  <2> SUFFICES ASSUME NEW other \in Name, Lower(other) \in DOMAIN roles'
               PROVE  /\ other[1] \in DOMAIN granted'
                      /\ roles'[Lower(other)] = granted'[other[1]]
    BY DEF RolesAgree, Lower
  <2>1. Lower(name) = Lower(other) <=> name[1] = other[1]
    BY LowerTellsPersons
  <2> QED
    BY <1>2, <1>3, <2>1 DEF AccessInv, RolesAgree
<1> QED
  BY <1>1, <1>4 DEF AccessInv, CallsTyped, KeysAgree

-----------------------------------------------------------------------------
(* The connections.                                                          *)

LEMMA BecomesAgrees ==
    ASSUME AccessInv, NEW c \in Connection, NEW call, Carried(c, call), Becomes(c, call)
    PROVE  /\ AccessInv'
           /\ calls'[c] = call
           /\ \A d \in Connection : d # c => calls'[d] = calls[d]
<1>1. /\ calls' = [calls EXCEPT ![c] = call]
      /\ UNCHANGED <<records, roles, entitled, granted>>
  BY DEF Becomes
<1>2. DOMAIN calls = Connection /\ \A d \in Connection : Carried(d, calls[d])
  BY DEF AccessInv, CallsTyped
<1>3. /\ DOMAIN calls' = Connection /\ calls'[c] = call
      /\ \A d \in Connection : d # c => calls'[d] = calls[d]
  BY <1>1, <1>2
<1>4. CallsTyped'
  BY <1>2, <1>3 DEF CallsTyped
<1> QED
  BY <1>1, <1>3, <1>4, TablesUntouched DEF AccessInv

\* What a step of a connection makes of it.
OwnRegister(c) ==
    Answers(c) =>
        LET key == calls[c].key
        IN  /\ key \in DOMAIN entitled
            /\ entitled[key] \in DOMAIN stores
            /\ calls'[c].shown = stores[entitled[key]]

ByRole(c) ==
    Answers(c) /\ calls'[c].shown # "home" =>
        LET person == calls'[c].user[1]
        IN  /\ person \in DOMAIN granted
            /\ Requires[calls'[c].shown] \in GRANTS[granted[person]]

\* The shapes of what a connection carries.
LEMMA Shapes ==
    /\ \A c : Carried(c, Idle) /\ Idle.at = "idle"
    /\ \A c, status : Carried(c, Refused(status)) /\ "shown" \notin DOMAIN Refused(status)
    /\ \A c, what : Carried(c, Shown(what)) /\ Shown(what).shown = what
    /\ \A c, what, user : Carried(c, ShownTo(what, user))
                          /\ ShownTo(what, user).shown = what
                          /\ ShownTo(what, user).user = user
BY DEF Idle, Refused, Shown, ShownTo, Carried

\* A key that authenticates is shown the register of the tenant it was issued for.
LEMMA GatewayShows ==
    ASSUME AccessInv, NEW key, NEW c
    PROVE  /\ Carried(c, Gateway(key))
           /\ "shown" \in DOMAIN Gateway(key) =>
                 /\ key \in DOMAIN entitled
                 /\ entitled[key] \in DOMAIN stores
                 /\ Gateway(key).shown = stores[entitled[key]]
<1>1. CASE key = NoKey \/ ~Authenticates(key)
  <2>1. Gateway(key) = Refused(401)
    BY <1>1 DEF Gateway
  <2> QED
    BY <2>1, Shapes
<1>2. CASE ~(key = NoKey \/ ~Authenticates(key)) /\ records[key].tenant \notin DOMAIN stores
  <2>1. Gateway(key) = Refused(403)
    BY <1>2 DEF Gateway
  <2> QED
    BY <2>1, Shapes
<1>3. CASE ~(key = NoKey \/ ~Authenticates(key)) /\ records[key].tenant \in DOMAIN stores
  <2>1. Gateway(key) = Shown(stores[records[key].tenant])
    BY <1>3 DEF Gateway
  <2>2. key \in DOMAIN entitled /\ records[key].tenant = entitled[key]
    BY <1>3 DEF Authenticates, AccessInv, KeysAgree
  <2> QED
    BY <1>3, <2>1, <2>2, Shapes
<1> QED
  BY <1>1, <1>2, <1>3

LEMMA ApiStep ==
    ASSUME AccessInv, NEW c \in ApiConnection,
           \/ \E key \in Key \cup {NoKey} : RequestArrives(c, key)
           \/ Piece(c)
           \/ Whole(c)
    PROVE  /\ AccessInv'
           /\ OwnRegister(c)
           /\ \A d \in Connection : d # c => calls'[d] = calls[d]
<1>1. c \in Connection /\ c \notin ConsoleConnection /\ "at" \in DOMAIN calls[c]
  BY AccessAssumption DEF Connection, AccessInv, CallsTyped, Carried
<1>2. ASSUME NEW call, Becomes(c, call), Carried(c, call),
             call.at = "answered" /\ "shown" \in DOMAIN call => call = Gateway(calls[c].key)
      PROVE  /\ AccessInv'
             /\ OwnRegister(c)
             /\ \A d \in Connection : d # c => calls'[d] = calls[d]
  <2>1. /\ AccessInv' /\ calls'[c] = call
        /\ \A d \in Connection : d # c => calls'[d] = calls[d]
    BY <1>1, <1>2, BecomesAgrees
  <2>2. OwnRegister(c)
    BY <1>2, <2>1, GatewayShows DEF OwnRegister, Answers
  <2> QED
    BY <2>1, <2>2
<1>3. ASSUME NEW key \in Key \cup {NoKey}, RequestArrives(c, key)
      PROVE  Becomes(c, [at |-> "body", key |-> key, size |-> 0])
  BY <1>3 DEF RequestArrives
<1>4. ASSUME NEW key
      PROVE  Carried(c, [at |-> "body", key |-> key, size |-> 0])
             /\ [at |-> "body", key |-> key, size |-> 0].at # "answered"
  BY DEF Carried
<1>5. CASE Piece(c)
  <2>1. calls[c].at = "body"
    BY <1>5 DEF Piece
  <2>2. CASE Becomes(c, Refused(413))
    BY <1>2, <2>2, Shapes
  <2>3. CASE Becomes(c, [calls[c] EXCEPT !.size = @ + 1])
    <3> DEFINE call == [calls[c] EXCEPT !.size = @ + 1]
    <3>1. Carried(c, call) /\ call.at = "body"
      BY <1>1, <2>1 DEF Carried
    <3> QED
      BY <1>2, <2>3, <3>1
  <2> QED
    BY <1>5, <2>2, <2>3 DEF Piece
<1>6. CASE Whole(c)
  <2>1. calls[c].at = "body"
    BY <1>6 DEF Whole
  <2>2. CASE Becomes(c, Gateway(calls[c].key))
    BY <1>2, <2>1, <2>2, GatewayShows
  <2>3. CASE Becomes(c, Refused(400)) \/ Becomes(c, Refused(500))
    BY <1>2, <2>3, Shapes
  <2> QED
    BY <1>6, <2>2, <2>3 DEF Whole
<1> QED
  BY <1>2, <1>3, <1>4, <1>5, <1>6

\* A page is shown to a person whose role grants it, or is the home page.
LEMMA ConsoleShows ==
    ASSUME AccessInv, NEW page \in Page, NEW user \in Name \cup {Nobody}, NEW c
    PROVE  /\ Carried(c, HandleConsole(page, user))
           /\ "shown" \in DOMAIN HandleConsole(page, user)
              /\ HandleConsole(page, user).shown # "home" =>
                 /\ "user" \in DOMAIN HandleConsole(page, user)
                 /\ HandleConsole(page, user).user[1] \in DOMAIN granted
                 /\ Requires[HandleConsole(page, user).shown]
                      \in GRANTS[granted[HandleConsole(page, user).user[1]]]
<1> DEFINE answer == HandleConsole(page, user)
<1>1. CASE page = "home"
  <2>1. answer = Shown(page)
    BY <1>1 DEF HandleConsole, Requires
  <2> QED
    BY <1>1, <2>1, Shapes
<1>2. CASE page # "home" /\ (user = Nobody \/ ~HasRole(user))
  <2>1. answer = Refused(401) \/ answer = Refused(403)
    BY <1>2 DEF HandleConsole, Page, Requires
  <2> QED
    BY <2>1, Shapes
<1>3. CASE page # "home" /\ user # Nobody /\ HasRole(user) /\ page = "other"
  <2>1. answer = Refused(404)
    BY <1>3 DEF HandleConsole, Requires
  <2> QED
    BY <2>1, Shapes
<1>4. CASE page # "home" /\ user # Nobody /\ HasRole(user) /\ page # "other"
  <2>1. page \in DOMAIN Requires /\ user \in Name
    BY <1>4 DEF Page
  <2>2. answer = IF Can(user, Requires[page]) THEN ShownTo(page, user) ELSE Refused(403)
    BY <1>4, <2>1 DEF HandleConsole
  <2>3. CASE Can(user, Requires[page])
    <3>1. answer = ShownTo(page, user)
      BY <2>2, <2>3
    <3>2. Lower(user) \in DOMAIN roles /\ Requires[page] \in GRANTS[roles[Lower(user)]]
      BY <2>3 DEF Can, HasRole
    <3>3. user[1] \in DOMAIN granted /\ roles[Lower(user)] = granted[user[1]]
      BY <2>1, <3>2 DEF AccessInv, RolesAgree
    <3>4. "user" \in DOMAIN answer
      BY <3>1 DEF ShownTo
    <3> HIDE DEF answer
    <3> QED
      BY <3>1, <3>2, <3>3, <3>4, Shapes DEF answer
  <2>4. CASE ~Can(user, Requires[page])
    BY <2>2, <2>4, Shapes
  <2> QED
    BY <2>3, <2>4
<1> QED
  BY <1>1, <1>2, <1>3, <1>4

LEMMA ConsoleStep ==
    ASSUME AccessInv, NEW c \in ConsoleConnection,
           \/ \E page \in Page : PageRequested(c, page)
           \/ \E user \in Name \cup {Nobody} : Authenticated(c, user)
           \/ AuthenticationFails(c)
    PROVE  /\ AccessInv'
           /\ ByRole(c)
           /\ \A d \in Connection : d # c => calls'[d] = calls[d]
<1>1. c \in Connection
  BY DEF Connection
<1>2. ASSUME NEW call, Becomes(c, call), Carried(c, call),
             call.at = "answered" /\ "shown" \in DOMAIN call /\ call.shown # "home" =>
                /\ call.user[1] \in DOMAIN granted
                /\ Requires[call.shown] \in GRANTS[granted[call.user[1]]]
      PROVE  /\ AccessInv'
             /\ ByRole(c)
             /\ \A d \in Connection : d # c => calls'[d] = calls[d]
  <2>1. /\ AccessInv' /\ calls'[c] = call
        /\ \A d \in Connection : d # c => calls'[d] = calls[d]
    BY <1>1, <1>2, BecomesAgrees
  <2>2. ByRole(c)
    BY <1>2, <2>1 DEF ByRole, Answers
  <2> QED
    BY <2>1, <2>2
<1>3. CASE \E page \in Page : PageRequested(c, page)
  <2>1. PICK page \in Page : Becomes(c, [at |-> "authenticating", page |-> page])
    BY <1>3 DEF PageRequested
  <2> DEFINE call == [at |-> "authenticating", page |-> page]
  <2>2. Carried(c, call) /\ call.at # "answered"
    BY DEF Carried
  <2>3. Becomes(c, call)
    BY <2>1
  <2> HIDE DEF call
  <2> QED
    BY <1>2, <2>2, <2>3
<1>4. ASSUME NEW user \in Name \cup {Nobody}, Authenticated(c, user)
      PROVE  /\ AccessInv'
             /\ ByRole(c)
             /\ \A d \in Connection : d # c => calls'[d] = calls[d]
  <2> DEFINE answer == HandleConsole(calls[c].page, user)
  <2>1. calls[c].page \in Page
    BY <1>1, <1>4 DEF Authenticated, AccessInv, CallsTyped, Carried
  <2>2. CASE Becomes(c, answer)
    <3>1. /\ Carried(c, answer)
          /\ "shown" \in DOMAIN answer /\ answer.shown # "home" =>
                /\ answer.user[1] \in DOMAIN granted
                /\ Requires[answer.shown] \in GRANTS[granted[answer.user[1]]]
      BY <2>1, ConsoleShows
    <3> HIDE DEF answer
    <3> QED
      BY <1>2, <2>2, <3>1
  <2>3. CASE \E status \in {400, 404} : Becomes(c, Refused(status))
    BY <1>2, <2>3, Shapes
  <2> QED
    BY <1>4, <2>2, <2>3 DEF Authenticated
<1>5. CASE AuthenticationFails(c)
  <2>1. Becomes(c, Refused(401))
    BY <1>5 DEF AuthenticationFails
  <2> QED
    BY <1>2, <2>1, Shapes
<1> QED
  BY <1>3, <1>4, <1>5

-----------------------------------------------------------------------------
(* Every step.                                                               *)

LEMMA InitAgrees == Init => AccessInv
<1> SUFFICES ASSUME Init PROVE AccessInv
  OBVIOUS
<1>1. CallsTyped
  BY Shapes DEF Init, CallsTyped, Connection
<1>2. KeysAgree
  <2>1. records = <<>> /\ DOMAIN <<>> = {}
    BY DEF Init
  <2> QED
    BY <2>1 DEF KeysAgree
<1>3. RolesAgree
  <2> DEFINE first == <<Administrator, "given">>
  <2>1. DOMAIN <<>> = {}
    OBVIOUS
  <2>2. roles = Put(<<>>, Lower(first), "ADMIN") /\ granted = Put(<<>>, Administrator, "ADMIN")
    BY DEF Init
  <2>3. /\ DOMAIN roles = {Lower(first)} /\ roles[Lower(first)] = "ADMIN"
        /\ DOMAIN granted = {Administrator} /\ granted[Administrator] = "ADMIN"
    BY <2>1, <2>2 DEF Put
  <2>4. first \in Name /\ first[1] = Administrator
    BY AccessAssumption DEF Name
  <2> HIDE DEF first
  <2> QED
    BY <2>3, <2>4, LowerTellsPersons DEF RolesAgree
<1> QED
  BY <1>1, <1>2, <1>3 DEF AccessInv

LEMMA NextAgrees ==
    ASSUME AccessInv, [Next]_vars
    PROVE  /\ AccessInv'
           /\ \A c \in ApiConnection : OwnRegister(c)
           /\ \A c \in ConsoleConnection : ByRole(c)
<1>1. \A c \in ApiConnection : c \in Connection /\ c \notin ConsoleConnection
  BY AccessAssumption DEF Connection
<1>2. \A c \in ConsoleConnection : c \in Connection
  BY DEF Connection
<1>3. ASSUME AccessInv', UNCHANGED calls
      PROVE  /\ AccessInv'
             /\ \A c \in ApiConnection : OwnRegister(c)
             /\ \A c \in ConsoleConnection : ByRole(c)
  BY <1>3 DEF OwnRegister, ByRole, Answers
<1>4. CASE UNCHANGED vars
  <2>1. AccessInv'
    BY <1>4 DEF vars, AccessInv, CallsTyped, KeysAgree, RolesAgree
  <2> QED
    BY <1>3, <1>4, <2>1 DEF vars
<1>5. ASSUME NEW key \in Key, NEW tenant \in Tenant, Issue(key, tenant)
      PROVE  AccessInv' /\ UNCHANGED calls
  BY <1>5, IssueAgrees DEF Issue
<1>6. ASSUME NEW key \in Key, RevokeKey(key)
      PROVE  AccessInv' /\ UNCHANGED calls
  BY <1>6, RevokeKeyAgrees DEF RevokeKey
<1>7. ASSUME NEW tenant \in Tenant, NEW register \in Register, AddStore(tenant, register)
      PROVE  AccessInv' /\ UNCHANGED calls
  BY <1>7, CallsUntouched, TablesUntouched DEF AddStore, AccessInv
<1>8. ASSUME NEW actor \in Name, NEW name \in Name, NEW role \in Role,
             Assign(actor, name, role)
      PROVE  AccessInv' /\ UNCHANGED calls
  BY <1>8, AssignAgrees DEF Assign
<1>9. ASSUME NEW actor \in Name, NEW name \in Name, RevokeRole(actor, name)
      PROVE  AccessInv' /\ UNCHANGED calls
  BY <1>9, RevokeRoleAgrees DEF RevokeRole
<1>10. ASSUME NEW c \in ApiConnection,
              \/ \E key \in Key \cup {NoKey} : RequestArrives(c, key)
              \/ Piece(c)
              \/ Whole(c)
       PROVE  /\ AccessInv'
              /\ \A d \in ApiConnection : OwnRegister(d)
              /\ \A d \in ConsoleConnection : ByRole(d)
  <2>1. /\ AccessInv' /\ OwnRegister(c)
        /\ \A d \in Connection : d # c => calls'[d] = calls[d]
    BY <1>10, ApiStep
  <2> QED
    BY <1>1, <1>2, <2>1 DEF OwnRegister, ByRole, Answers
<1>11. ASSUME NEW c \in ConsoleConnection,
              \/ \E page \in Page : PageRequested(c, page)
              \/ \E user \in Name \cup {Nobody} : Authenticated(c, user)
              \/ AuthenticationFails(c)
       PROVE  /\ AccessInv'
              /\ \A d \in ApiConnection : OwnRegister(d)
              /\ \A d \in ConsoleConnection : ByRole(d)
  <2>1. /\ AccessInv' /\ ByRole(c)
        /\ \A d \in Connection : d # c => calls'[d] = calls[d]
    BY <1>11, ConsoleStep
  <2> QED
    BY <1>1, <1>2, <2>1 DEF OwnRegister, ByRole, Answers
<1>12. ASSUME NEW c \in Connection, Closes(c)
       PROVE  /\ AccessInv'
              /\ \A d \in ApiConnection : OwnRegister(d)
              /\ \A d \in ConsoleConnection : ByRole(d)
  <2>1. Becomes(c, Idle)
    BY <1>12 DEF Closes
  <2>2. /\ AccessInv' /\ calls'[c] = Idle
        /\ \A d \in Connection : d # c => calls'[d] = calls[d]
    BY <2>1, Shapes, BecomesAgrees
  <2>3. \A d \in Connection : ~Answers(d)
    BY <2>2, Shapes DEF Answers
  <2> QED
    BY <1>1, <1>2, <2>2, <2>3 DEF OwnRegister, ByRole
<1> QED
  BY <1>3, <1>4, <1>5, <1>6, <1>7, <1>8, <1>9, <1>10, <1>11, <1>12 DEF Next, Connection

\* The tables the handlers look at agree with what was given and taken back.
THEOREM TablesAgree == Spec => []AccessInv
<1>1. AccessInv /\ [Next]_vars => AccessInv'
  BY NextAgrees
<1> QED
  BY <1>1, InitAgrees, PTL DEF Spec

\* A request is answered from the register that serves, when it is answered, the
\* tenant its key was issued for (handleGateway, gateway.ts).
THEOREM RegistersAreOwn == Spec => OwnRegisterOnly
<1> DEFINE Own == \A c \in ApiConnection : Answers(c) =>
                    LET key == calls[c].key
                    IN  /\ key \in DOMAIN entitled
                        /\ entitled[key] \in DOMAIN stores
                        /\ calls'[c].shown = stores[entitled[key]]
<1>1. AccessInv /\ [Next]_vars => [Own]_vars
  BY NextAgrees DEF OwnRegister
<1> QED
  BY <1>1, TablesAgree, PTL DEF Spec, OwnRegisterOnly

\* A page is shown to a person who, when it is shown, has a role that grants it
\* (handleConsole, view.ts; Directory, roles.ts).
THEOREM PagesAreByRole == Spec => PagesByRole
<1> DEFINE Granted == \A c \in ConsoleConnection : Answers(c) /\ calls'[c].shown # "home" =>
                        LET person == calls'[c].user[1]
                        IN  /\ person \in DOMAIN granted
                            /\ Requires[calls'[c].shown] \in GRANTS[granted[person]]
<1>1. AccessInv /\ [Next]_vars => [Granted]_vars
  BY NextAgrees DEF ByRole
<1> QED
  BY <1>1, TablesAgree, PTL DEF Spec, PagesByRole
=============================================================================

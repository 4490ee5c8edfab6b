----------------------------- MODULE HttpProofs ------------------------------
(* Parts of MCHttp that are proved: who is let in at the HTTP server, for    *)
(* any users, logins at once, roles, answers of the access control server,   *)
(* ages and bounds; and the life of that server inside the manager, for any  *)
(* number of attempts, requests and failures (S).                            *)
EXTENDS MCHttp, SequenceTheorems, TLAPS

-----------------------------------------------------------------------------
(* The rows of the tables and the records of the handlers.                  *)
Stage     == {"idle", "authenticate", "find", "principal", "identity", "session", "link"}
ScopeSet  == {{"inherit"}} \cup {q[1] : q \in Requests \ {<< >>}}
AccessRow == [users : [User -> SUBSET Role], expires : Nat, next : Nat]
Session   == [principal : Nat, user : User, expires : Nat, revoked : BOOLEAN, gone : BOOLEAN, ended : Nat]
Key       == [principal : Nat, scopes : ScopeSet, expires : Nat, from : Nat, gone : BOOLEAN]
Code      == [id : 0..MaxCodes, live : BOOLEAN, expires : Nat, session : Nat]
Token     == [access : Nat, refresh : Nat]
Handler   == [at : Stage, user : User \cup {Nobody}, kind : Kind, code : Nat, principal : Nat, session : Nat]
Record    == [requests : Nat, failures : Nat, given : [1..MaxCodes -> Nat]]

Types ==
    /\ clock \in Nat \ {0} /\ access \in AccessRow
    /\ identities \in [User -> Nat] /\ principals \in Nat
    /\ sessions \in Seq(Session) /\ Len(sessions) <= MaxSessions
    /\ keys \in Seq(Key) /\ Len(keys) <= MaxKeys
    /\ pending \in Code /\ pending.session <= Len(sessions)
    /\ tokens \in [1..MaxSessions -> Token]
    /\ logins \in [Login -> Handler]
    /\ \A l \in Login : logins[l].at # "idle" => logins[l].user \in User
    /\ \A l \in Login : logins[l].at = "link" => logins[l].session \in 1..Len(sessions)
    /\ refreshing \in 0..Len(sessions)
    /\ seen \in Record

(* Identities have principals of their own, and so has a login that is about *)
(* to add one.                                                               *)
Principals ==
    /\ \A u \in User : identities[u] <= principals
    /\ \A u, v \in User : u # v /\ identities[u] # 0 => identities[u] # identities[v]
    /\ \A l \in Login : logins[l].at = "identity" =>
           /\ logins[l].principal \in 1..principals
           /\ \A u \in User : identities[u] # logins[l].principal
           /\ \A m \in Login \ {l} : logins[m].at = "identity" => logins[m].principal # logins[l].principal
    /\ \A l \in Login : logins[l].at = "session" =>
           logins[l].principal # 0 /\ identities[logins[l].user] = logins[l].principal
    /\ \A s \in DOMAIN sessions :
           sessions[s].principal # 0 /\ identities[sessions[s].user] = sessions[s].principal

Codes ==
    /\ pending.live => pending.id # 0 /\ seen.given[pending.id] = 0
    /\ \A c \in 1..MaxCodes : seen.given[c] <= 1 /\ (c > pending.id => seen.given[c] = 0)
    /\ \A l \in Login : logins[l].code <= pending.id

(* Sessions that a client may be given for the device code.                  *)
Unused == {s \in DOMAIN sessions :
               tokens[s] = NoTokens /\ ~sessions[s].revoked /\ sessions[s].expires >= pending.expires}

Linked ==
    pending.live =>
        /\ pending.expires <= clock + CodeAge
        /\ pending.session # 0 => pending.session \in Unused
        /\ \A l \in Login : logins[l].at = "link" /\ logins[l].code = pending.id => logins[l].session \in Unused

Ends ==
    /\ \A s \in DOMAIN sessions :
           /\ sessions[s].ended = 0 <=> ~sessions[s].revoked
           /\ tokens[s].access <= clock + AccessAge
           /\ tokens[s].access <= sessions[s].expires + AccessAge
           /\ sessions[s].revoked => tokens[s].access <= sessions[s].ended + AccessAge
    /\ \A s \in 1..MaxSessions : s > Len(sessions) => tokens[s] = NoTokens
    /\ refreshing # 0 =>
           /\ tokens[refreshing].refresh > 0 /\ sessions[refreshing].expires >= clock
           /\ sessions[refreshing].revoked => sessions[refreshing].ended = clock

MadeFrom ==
    \A k \in DOMAIN keys : keys[k].from # 0 =>
        /\ keys[k].from < k
        /\ keys[k].principal = keys[keys[k].from].principal
        /\ "inherit" \in keys[keys[k].from].scopes \/ keys[k].scopes \subseteq keys[keys[k].from].scopes

Fresh ==
    /\ clock <= access.next
    /\ \A u \in User : Known(u) => access.next <= access.expires + UpdatePeriod + 1

AccessInv == Types /\ Principals /\ Codes /\ Linked /\ Ends /\ MadeFrom /\ Fresh

-----------------------------------------------------------------------------
(* What the parts of the invariant have to know of the rows: of sessions and *)
(* their tokens, ...                                                         *)
LEMMA SessionShapes ==
  ASSUME Types
  PROVE  /\ clock \in Nat /\ clock > 0
         /\ DOMAIN sessions = 1..Len(sessions) /\ Len(sessions) \in Nat /\ Len(sessions) <= MaxSessions
         /\ refreshing \in 0..Len(sessions)
         /\ \A s \in DOMAIN sessions :
                /\ sessions[s] \in Session /\ sessions[s].principal \in Nat /\ sessions[s].user \in User
                /\ sessions[s].expires \in Nat /\ sessions[s].ended \in Nat
                /\ s \in 1..MaxSessions
         /\ \A s \in 1..MaxSessions : tokens[s].access \in Nat /\ tokens[s].refresh \in Nat
<1>1. clock \in Nat /\ clock > 0 /\ Len(sessions) <= MaxSessions /\ refreshing \in 0..Len(sessions)
  BY DEF Types
<1>2. DOMAIN sessions = 1..Len(sessions) /\ Len(sessions) \in Nat
      /\ \A s \in DOMAIN sessions : sessions[s] \in Session
  BY DEF Types
<1>3. \A s \in DOMAIN sessions : s \in 1..MaxSessions
  BY <1>1, <1>2, AccessAssumption
<1>4. \A s \in DOMAIN sessions :
          /\ sessions[s].principal \in Nat /\ sessions[s].user \in User
          /\ sessions[s].expires \in Nat /\ sessions[s].ended \in Nat
  BY <1>2 DEF Session
<1>5. \A s \in 1..MaxSessions : tokens[s].access \in Nat /\ tokens[s].refresh \in Nat
  BY DEF Types, Token
<1>6. QED
  BY <1>1, <1>2, <1>3, <1>4, <1>5

(* ... of handlers at work and of the device code.                           *)
LEMMA LoginShapes ==
  ASSUME Types
  PROVE  /\ \A l \in Login :
                /\ logins[l] \in Handler /\ logins[l].code \in Nat /\ logins[l].principal \in Nat
                /\ logins[l].at # "idle" => logins[l].user \in User
                /\ logins[l].at = "link" => logins[l].session \in DOMAIN sessions
         /\ pending.id \in 0..MaxCodes /\ pending.expires \in Nat /\ pending.session \in 0..Len(sessions)
         /\ seen.given \in [1..MaxCodes -> Nat]
<1>1. \A l \in Login : logins[l] \in Handler
  BY DEF Types
<1>2. \A l \in Login : logins[l].code \in Nat /\ logins[l].principal \in Nat
  BY <1>1 DEF Handler
<1>3. \A l \in Login :
          /\ logins[l].at # "idle" => logins[l].user \in User
          /\ logins[l].at = "link" => logins[l].session \in DOMAIN sessions
  BY DEF Types
<1>4. pending.id \in 0..MaxCodes /\ pending.expires \in Nat /\ pending.session \in 0..Len(sessions)
  BY DEF Types, Code
<1>5. seen.given \in [1..MaxCodes -> Nat]
  BY DEF Types, Record
<1>6. QED
  BY <1>1, <1>2, <1>3, <1>4, <1>5

-----------------------------------------------------------------------------
(* In the first state nobody has logged in.                                  *)
LEMMA InitAccessInv == Init => AccessInv
<1> SUFFICES ASSUME Init PROVE AccessInv
  OBVIOUS
<1> USE AccessAssumption
<1>1. Types
  <2>1. access \in AccessRow
    BY DEF Init, AccessRow
  <2>2. pending \in Code /\ pending.session <= Len(sessions)
    BY DEF Init, Code, NoPending
  <2>3. tokens \in [1..MaxSessions -> Token]
    BY DEF Init, Token, NoTokens
  <2>4. logins \in [Login -> Handler]
    BY DEF Init, Idle, Handler, Stage, Kind
  <2>5. seen \in Record
    BY DEF Init, Record
  <2>6. clock \in Nat \ {0} /\ identities \in [User -> Nat] /\ principals \in Nat /\ refreshing \in 0..Len(sessions)
    BY DEF Init
  <2>7. sessions \in Seq(Session) /\ Len(sessions) <= MaxSessions /\ keys \in Seq(Key) /\ Len(keys) <= MaxKeys
    BY DEF Init
  <2>8. \A l \in Login : logins[l].at = "idle"
    BY DEF Init, Idle
  <2>9. QED
    BY <2>1, <2>2, <2>3, <2>4, <2>5, <2>6, <2>7, <2>8 DEF Types
<1>2. Principals
  BY DEF Principals, Init, Idle
<1>3. Codes
  BY DEF Codes, Init, NoPending, Idle
<1>4. Linked
  BY DEF Linked, Init, NoPending
<1>5. Ends
  BY DEF Ends, Init
<1>6. MadeFrom
  BY DEF MadeFrom, Init
<1>7. Fresh
  BY DEF Fresh, Init, Known
<1>8. QED
  BY <1>1, <1>2, <1>3, <1>4, <1>5, <1>6, <1>7 DEF AccessInv

(* What the invariant says of users, keys and tokens.                        *)
LEMMA AccessInvGives == AccessInv => AccessTrue
<1> SUFFICES ASSUME AccessInv PROVE AccessTrue
  OBVIOUS
<1> USE AccessAssumption
<1>1. TypeOK
  BY DEF AccessInv, Types, Principals, TypeOK, AccessRow, Code
<1>2. OnePrincipal
  BY DEF AccessInv, Types, Principals, OnePrincipal, Session
<1>3. CodeUsedOnce
  BY DEF AccessInv, Codes, CodeUsedOnce
<1>4. SessionsEnd
  BY DEF AccessInv, Ends, SessionsEnd
<1>5. KeysWithin
  <2>1. \A p, scopes : Conferred(p, scopes) \subseteq PrincipalScopes(p)
    BY DEF Conferred
  <2>2. ASSUME NEW k \in DOMAIN keys
        PROVE  KeyScopes(k) \subseteq PrincipalScopes(keys[k].principal)
    BY <2>1 DEF KeyScopes
  <2>3. ASSUME NEW k \in DOMAIN keys, keys[k].from # 0
        PROVE  KeyScopes(k) \subseteq KeyScopes(keys[k].from)
    <3> DEFINE j == keys[k].from
               p == keys[k].principal
    <3>1. keys[j].principal = p /\ ("inherit" \in keys[j].scopes \/ keys[k].scopes \subseteq keys[j].scopes)
      BY <2>3 DEF AccessInv, MadeFrom
    <3>2. CASE Usernames(p) = {}
      BY <3>1, <3>2 DEF KeyScopes
    <3>3. CASE Usernames(p) # {} /\ "inherit" \in keys[j].scopes
      BY <2>2, <3>1, <3>3 DEF KeyScopes, Conferred
    <3>4. CASE Usernames(p) # {} /\ "inherit" \notin keys[j].scopes
      BY <3>1, <3>4 DEF KeyScopes, Conferred
    <3>5. QED
      BY <3>2, <3>3, <3>4
  <2>4. QED
    BY <2>2, <2>3 DEF KeysWithin
<1>6. AccessExpires
  <2>1. ASSUME NEW u \in User, Known(u), clock > access.expires + UpdatePeriod + 1
        PROVE  FALSE
    BY <2>1 DEF AccessInv, Types, AccessRow, Fresh
  <2>2. QED
    BY <2>1 DEF AccessExpires
<1>7. QED
  BY <1>1, <1>2, <1>3, <1>4, <1>5, <1>6 DEF AccessTrue

-----------------------------------------------------------------------------
(* Time and the access control data.                                         *)
LEMMA TickKeeps == AccessInv /\ Tick => AccessInv'
<1> SUFFICES ASSUME AccessInv, Tick PROVE AccessInv'
  OBVIOUS
<1> USE AccessAssumption
<1>1. Types'
  BY DEF AccessInv, Types, Tick
<1>2. Principals'
  BY DEF AccessInv, Principals, Tick
<1>3. Codes'
  BY DEF AccessInv, Codes, Tick
<1>4. Linked'
  BY SessionShapes, LoginShapes DEF AccessInv, Linked, Unused, Tick
<1>5. Ends'
  <2>1. clock' = clock + 1 /\ sessions' = sessions /\ tokens' = tokens /\ refreshing' = 0
    BY DEF Tick
  <2>2. \A s \in DOMAIN sessions : tokens[s].access <= clock + 1 + AccessAge
    BY SessionShapes DEF AccessInv, Ends
  <2>3. QED
    BY <2>1, <2>2 DEF AccessInv, Ends
<1>6. MadeFrom'
  BY DEF AccessInv, MadeFrom, Tick
<1>7. Fresh'
  BY DEF AccessInv, Types, AccessRow, Fresh, Known, Tick
<1>8. QED
  BY <1>1, <1>2, <1>3, <1>4, <1>5, <1>6, <1>7 DEF AccessInv

(* An answer, or none, moves the next update ahead of the clock.             *)
LEMMA UpdatedKeeps == AccessInv /\ (Updated \/ UpdateFails) => AccessInv'
<1> SUFFICES ASSUME AccessInv, Updated \/ UpdateFails PROVE AccessInv'
  OBVIOUS
<1> USE AccessAssumption
<1> DEFINE noRoles == [u \in User |-> {}]
<1>1. UNCHANGED <<clock, identities, principals, sessions, keys, pending, tokens, logins, refreshing, seen>>
  BY DEF Updated, UpdateFails
<1>2. clock \in Nat /\ access \in AccessRow /\ Fresh
  BY DEF AccessInv, Types
<1>3. access' \in AccessRow /\ Fresh'
  <2>1. CASE Updated
    <3>1. PICK groups \in ServerAnswers, n \in NextUpdate :
              access' = [users |-> InfoOf(groups), expires |-> clock + Expiration, next |-> n]
      BY <2>1 DEF Updated
    <3>2. InfoOf(groups) \in [User -> SUBSET Role]
      BY DEF InfoOf
    <3>3. n \in Nat /\ clock <= n /\ n <= clock + UpdatePeriod + 1
      BY <1>2 DEF NextUpdate
    <3>4. QED
      BY <1>1, <1>2, <3>1, <3>2, <3>3 DEF AccessRow, Fresh
  <2>2. CASE UpdateFails
    <3>1. PICK n \in NextUpdate :
              access' = [access EXCEPT !.next = n,
                                       !.users = IF clock > access.expires THEN noRoles ELSE @]
      BY <2>2 DEF UpdateFails
    <3>2. n \in Nat /\ clock <= n /\ n <= clock + UpdatePeriod + 1
      BY <1>2 DEF NextUpdate
    <3>3. access'.users = (IF clock > access.expires THEN noRoles ELSE access.users)
          /\ access'.next = n /\ access'.expires = access.expires /\ access' \in AccessRow
      BY <1>2, <3>1, <3>2 DEF AccessRow
    <3>4. QED
      BY <1>1, <1>2, <3>2, <3>3 DEF AccessRow, Fresh, Known
  <2>3. QED
    BY <2>1, <2>2
<1>4. Types'
  BY <1>1, <1>3 DEF AccessInv, Types
<1>5. Principals'
  BY <1>1 DEF AccessInv, Principals
<1>6. Codes'
  BY <1>1 DEF AccessInv, Codes
<1>7. Linked'
  BY <1>1 DEF AccessInv, Linked, Unused
<1>8. Ends'
  BY <1>1 DEF AccessInv, Ends
<1>9. MadeFrom'
  BY <1>1 DEF AccessInv, MadeFrom
<1>10. QED
  BY <1>3, <1>4, <1>5, <1>6, <1>7, <1>8, <1>9 DEF AccessInv

-----------------------------------------------------------------------------
(* Logins.                                                                   *)
LEMMA Counted ==
  ASSUME seen \in Record,
         \/ seen' = seen
         \/ seen' = [seen EXCEPT !.requests = @ + 1]
         \/ seen' = [seen EXCEPT !.failures = @ + 1]
  PROVE  seen' \in Record /\ seen'.given = seen.given
BY DEF Record

(* One handler goes on and the others stay as they are.                      *)
LEMMA HandlerSet ==
  ASSUME Types, NEW l \in Login, NEW h \in Handler, logins' = [logins EXCEPT ![l] = h]
  PROVE  logins' \in [Login -> Handler] /\ logins'[l] = h /\ \A m \in Login \ {l} : logins'[m] = logins[m]
BY DEF Types

(* A handler that goes on where nothing depends on it, or ends, changes      *)
(* nothing that the invariant speaks of.                                     *)
LEMMA HandlerMoves ==
  ASSUME AccessInv, NEW l \in Login, NEW h \in Handler,
         h.at # "idle" => h.user \in User,
         h.at \notin {"identity", "session", "link"}, h.code <= pending.id,
         logins' = [logins EXCEPT ![l] = h],
         UNCHANGED <<clock, access, identities, principals, sessions, keys, pending, tokens, refreshing>>,
         seen' \in Record, seen'.given = seen.given
  PROVE  AccessInv'
<1>1. logins' \in [Login -> Handler] /\ logins'[l] = h /\ \A m \in Login \ {l} : logins'[m] = logins[m]
  BY HandlerSet DEF AccessInv
<1>2. Types'
  BY <1>1 DEF AccessInv, Types
<1>3. Principals'
  BY <1>1 DEF AccessInv, Principals
<1>4. Codes'
  BY <1>1 DEF AccessInv, Codes
<1>5. Linked'
  BY <1>1 DEF AccessInv, Linked, Unused
<1>6. Ends' /\ MadeFrom' /\ Fresh'
  BY DEF AccessInv, Ends, MadeFrom, Fresh, Known
<1>7. QED
  BY <1>2, <1>3, <1>4, <1>5, <1>6 DEF AccessInv

LEMMA IdleHandler == Idle \in Handler /\ Idle.at = "idle" /\ Idle.code = 0
BY DEF Idle, Handler, Stage, Kind

LEMMA BeginsKeeps ==
  ASSUME AccessInv, NEW l \in Login, NEW u \in User, NEW kind \in LoginKinds[l], Begins(l, u, kind)
  PROVE  AccessInv'
<1> DEFINE c == IF kind = "device" THEN pending.id ELSE 0
           h == [Idle EXCEPT !.at = "authenticate", !.user = u, !.kind = kind, !.code = c]
<1>1. c \in Nat /\ c <= pending.id
  BY LoginShapes DEF AccessInv
<1>2. kind \in Kind
  BY AccessAssumption
<1>3. h \in Handler /\ h.at = "authenticate" /\ h.user = u /\ h.code = c
  BY <1>1, <1>2 DEF Idle, Handler, Stage
<1>4. logins' = [logins EXCEPT ![l] = h]
  BY DEF Begins
<1>5. seen' \in Record /\ seen'.given = seen.given
  BY Counted DEF AccessInv, Types, Begins, Requested
<1>6. UNCHANGED <<clock, access, identities, principals, sessions, keys, pending, tokens, refreshing>>
  BY DEF Begins, dbOnly
<1> HIDE DEF h, c
<1>7. QED
  BY <1>1, <1>3, <1>4, <1>5, <1>6, HandlerMoves

LEMMA AuthenticatedKeeps ==
  ASSUME AccessInv, NEW l \in Login, Authenticated(l)
  PROVE  AccessInv'
<1>1. logins[l] \in Handler /\ logins[l].user \in User /\ logins[l].code <= pending.id
  BY LoginShapes DEF AccessInv, Codes, Authenticated
<1>2. PICK h \in {Idle, [logins[l] EXCEPT !.at = "find"]} : logins' = [logins EXCEPT ![l] = h]
  <2> DEFINE f == [logins[l] EXCEPT !.at = "find"]
  <2>1. PICK confirmed \in BOOLEAN :
            logins' = [logins EXCEPT ![l] =
                          IF confirmed /\ (logins[l].kind = "external" \/ Known(logins[l].user)) THEN f ELSE Idle]
    BY DEF Authenticated, AccessInv, Types
  <2> HIDE DEF f
  <2>2. logins' = [logins EXCEPT ![l] = f] \/ logins' = [logins EXCEPT ![l] = Idle]
    BY <2>1
  <2>3. QED
    BY <2>2 DEF f
<1>3. h \in Handler /\ (h.at # "idle" => h.user \in User) /\ h.at \in {"idle", "find"} /\ h.code <= pending.id
  BY <1>1, <1>2, IdleHandler, LoginShapes DEF Handler, Stage, AccessInv
<1>4. UNCHANGED <<clock, access, identities, principals, sessions, keys, pending, tokens, refreshing>> /\ seen' = seen
  BY DEF Authenticated, dbOnly
<1>5. seen' \in Record /\ seen'.given = seen.given
  BY <1>4 DEF AccessInv, Types
<1>6. QED
  BY <1>2, <1>3, <1>4, <1>5, HandlerMoves

LEMMA LoginFailsKeeps ==
  ASSUME AccessInv, NEW l \in Login, LoginFails(l)
  PROVE  AccessInv'
<1>1. logins' = [logins EXCEPT ![l] = Idle]
      /\ UNCHANGED <<clock, access, identities, principals, sessions, keys, pending, tokens, refreshing>>
  BY DEF LoginFails, dbOnly
<1>2. seen' \in Record /\ seen'.given = seen.given
  BY Counted DEF AccessInv, Types, LoginFails
<1>3. Idle.code <= pending.id
  BY IdleHandler, LoginShapes DEF AccessInv
<1>4. QED
  BY <1>1, <1>2, <1>3, IdleHandler, HandlerMoves

(* Identified(l, p): the handler is done or goes on to make a session.       *)
LEMMA IdentifiedHandler ==
  ASSUME Types, NEW l \in Login, NEW p \in Nat
  PROVE  \/ Identified(l, p) = Idle
         \/ /\ Identified(l, p) \in Handler /\ Identified(l, p).at = "session"
            /\ Identified(l, p).principal = p /\ Identified(l, p).user = logins[l].user
            /\ Identified(l, p).code = logins[l].code
BY LoginShapes DEF Identified, Handler, Stage

LEMMA FindsIdentityKeeps ==
  ASSUME AccessInv, NEW l \in Login, FindsIdentity(l)
  PROVE  AccessInv'
<1> DEFINE p == identities[logins[l].user]
           toPrincipal == [logins[l] EXCEPT !.at = "principal"]
<1>1. /\ Types /\ logins[l] \in Handler /\ logins[l].user \in User /\ logins[l].code <= pending.id
      /\ p \in Nat /\ 0 <= pending.id
  <2>1. Types /\ logins[l].at # "idle"
    BY DEF AccessInv, FindsIdentity
  <2>2. logins[l].user \in User /\ logins[l] \in Handler
    BY <2>1, LoginShapes
  <2>3. QED
    BY <2>1, <2>2, LoginShapes DEF AccessInv, Types, Codes
<1>2. UNCHANGED <<clock, access, identities, principals, sessions, keys, pending, tokens, refreshing>> /\ seen' = seen
  BY DEF FindsIdentity, dbOnly
<1>3. seen' \in Record /\ seen'.given = seen.given
  BY <1>1, <1>2 DEF Types
<1>4. CASE p = 0
  <2>1. logins' = [logins EXCEPT ![l] = toPrincipal]
    BY <1>1, <1>4 DEF FindsIdentity, Types
  <2>2. toPrincipal \in Handler /\ toPrincipal.at = "principal" /\ toPrincipal.user = logins[l].user
        /\ toPrincipal.code = logins[l].code
    BY <1>1 DEF Handler, Stage
  <2>3. QED
    BY <1>1, <1>2, <1>3, <2>1, <2>2, HandlerMoves
<1>5. CASE p # 0 /\ Identified(l, p) = Idle
  <2>1. logins' = [logins EXCEPT ![l] = Idle]
    BY <1>5 DEF FindsIdentity
  <2>2. QED
    BY <1>1, <1>2, <1>3, <2>1, IdleHandler, HandlerMoves
<1>6. CASE p # 0 /\ Identified(l, p) # Idle
  <2> DEFINE h == Identified(l, p)
  <2>1. logins' = [logins EXCEPT ![l] = h]
    BY <1>6 DEF FindsIdentity
  <2>2. h \in Handler /\ h.at = "session" /\ h.principal = p /\ h.user = logins[l].user /\ h.code = logins[l].code
    BY <1>1, <1>6, IdentifiedHandler
  <2> HIDE DEF h
  <2>3. logins' \in [Login -> Handler] /\ logins'[l] = h /\ \A m \in Login \ {l} : logins'[m] = logins[m]
    BY <1>1, <2>1, <2>2, HandlerSet
  <2>4. Types'
    BY <1>1, <1>2, <2>2, <2>3 DEF Types
  <2>5. Principals'
    BY <1>1, <1>2, <1>6, <2>2, <2>3 DEF AccessInv, Principals
  <2>6. Codes'
    BY <1>1, <1>2, <2>2, <2>3 DEF AccessInv, Codes
  <2>7. Linked'
    BY <1>2, <2>2, <2>3 DEF AccessInv, Linked, Unused
  <2>8. Ends' /\ MadeFrom' /\ Fresh'
    BY <1>2 DEF AccessInv, Ends, MadeFrom, Fresh, Known
  <2>9. QED
    BY <2>4, <2>5, <2>6, <2>7, <2>8 DEF AccessInv
<1>7. QED
  BY <1>4, <1>5, <1>6

(* A new principal is nobody's yet.                                          *)
LEMMA AddsPrincipalKeeps ==
  ASSUME AccessInv, NEW l \in Login, AddsPrincipal(l)
  PROVE  AccessInv'
<1> DEFINE next == principals + 1
           h    == [logins[l] EXCEPT !.at = "identity", !.principal = next]
<1>1. Types /\ principals \in Nat /\ logins[l] \in Handler /\ logins[l].user \in User
  <2>1. Types /\ logins[l].at # "idle"
    BY DEF AccessInv, AddsPrincipal
  <2>2. QED
    BY <2>1, LoginShapes DEF Types
<1>2. UNCHANGED <<clock, access, identities, sessions, keys, pending, tokens, refreshing, seen>>
      /\ principals' = next /\ next \in Nat /\ next > principals
  BY <1>1 DEF AddsPrincipal, dbOnly
<1>3. logins' = [logins EXCEPT ![l] = h]
  BY <1>1 DEF AddsPrincipal, Types
<1> HIDE DEF next
<1>4. h \in Handler /\ h.at = "identity" /\ h.principal = next /\ h.user = logins[l].user
      /\ h.code = logins[l].code
  BY <1>1, <1>2 DEF Handler, Stage
<1> HIDE DEF h
<1>5. logins' \in [Login -> Handler] /\ logins'[l] = h /\ \A m \in Login \ {l} : logins'[m] = logins[m]
  BY <1>1, <1>3, <1>4, HandlerSet
<1>6. Types'
  BY <1>1, <1>2, <1>4, <1>5 DEF Types
<1>7. Principals'
  <2>1. \A u \in User : identities[u] \in Nat
    BY <1>1 DEF Types
  <2>2. \A m \in Login : logins[m].principal \in Nat
    BY <1>1, LoginShapes
  <2>3. QED
    BY <1>1, <1>2, <1>4, <1>5, <2>1, <2>2 DEF AccessInv, Principals
<1>8. Codes'
  BY <1>2, <1>4, <1>5 DEF AccessInv, Codes
<1>9. Linked'
  BY <1>2, <1>4, <1>5 DEF AccessInv, Linked, Unused
<1>10. Ends' /\ MadeFrom' /\ Fresh'
  BY <1>2 DEF AccessInv, Ends, MadeFrom, Fresh, Known
<1>11. QED
  BY <1>6, <1>7, <1>8, <1>9, <1>10 DEF AccessInv

(* The identity is added for a principal that no other identity has.         *)
LEMMA AddsIdentityKeeps ==
  ASSUME AccessInv, NEW l \in Login, AddsIdentity(l)
  PROVE  AccessInv'
<1> DEFINE u == logins[l].user
           p == logins[l].principal
<1>1. /\ Types /\ logins[l] \in Handler /\ u \in User /\ p \in Nat /\ p \in 1..principals
      /\ logins[l].at = "identity" /\ logins[l].code <= pending.id /\ 0 <= pending.id
      /\ \A v \in User : identities[v] # p
      /\ \A m \in Login \ {l} : logins[m].at = "identity" => logins[m].principal # p
  <2>1. Types /\ logins[l].at = "identity"
    BY DEF AccessInv, AddsIdentity
  <2>2. logins[l] \in Handler /\ u \in User /\ p \in Nat /\ 0 <= pending.id
    BY <2>1, LoginShapes
  <2>3. QED
    BY <2>1, <2>2 DEF AccessInv, Codes, Principals
<1>2. UNCHANGED <<clock, access, principals, sessions, keys, pending, tokens, refreshing>> /\ seen' = seen
  BY DEF AddsIdentity, dbOnly
<1>3. seen' \in Record /\ seen'.given = seen.given
  BY <1>1, <1>2 DEF Types
<1>4. CASE identities[u] # 0
  <2>1. logins' = [logins EXCEPT ![l] = Idle] /\ identities' = identities
    BY <1>4 DEF AddsIdentity
  <2>2. QED
    BY <1>1, <1>2, <1>3, <2>1, IdleHandler, HandlerMoves
<1>5. CASE identities[u] = 0
  <2> DEFINE h == Identified(l, p)
  <2>1. logins' = [logins EXCEPT ![l] = h] /\ identities' = [identities EXCEPT ![u] = p]
    BY <1>5 DEF AddsIdentity
  <2>2. h \in Handler /\ h.code <= pending.id
        /\ (h.at = "idle" \/ (h.at = "session" /\ h.principal = p /\ h.user = u))
    BY <1>1, IdentifiedHandler, IdleHandler
  <2> HIDE DEF h
  <2>3. logins' \in [Login -> Handler] /\ logins'[l] = h /\ \A m \in Login \ {l} : logins'[m] = logins[m]
    BY <1>1, <2>1, <2>2, HandlerSet
  <2>4. identities' \in [User -> Nat] /\ identities'[u] = p /\ \A v \in User \ {u} : identities'[v] = identities[v]
    BY <1>1, <2>1 DEF Types
  <2>5. Types'
    BY <1>1, <1>2, <2>2, <2>3, <2>4 DEF Types
  <2>6. Principals'
    <3> HIDE DEF u, p
    <3>1. \A v \in User : identities'[v] <= principals'
      BY <1>1, <1>2, <2>4 DEF AccessInv, Principals
    <3>2. \A v, w \in User : v # w /\ identities'[v] # 0 => identities'[v] # identities'[w]
      BY <1>1, <2>4 DEF AccessInv, Principals
    <3>3. ASSUME NEW m \in Login, logins'[m].at = "identity"
          PROVE  /\ logins'[m].principal \in 1..principals'
                 /\ \A v \in User : identities'[v] # logins'[m].principal
                 /\ \A n \in Login \ {m} : logins'[n].at = "identity" => logins'[n].principal # logins'[m].principal
      <4>1. m # l /\ logins'[m] = logins[m] /\ logins[m].principal # p
        BY <1>1, <2>2, <2>3, <3>3
      <4>2. \A n \in Login \ {m} : logins'[n].at = "identity" => n # l
        BY <2>2, <2>3
      <4>3. QED
        BY <1>2, <2>3, <2>4, <3>3, <4>1, <4>2 DEF AccessInv, Principals
    <3>4. ASSUME NEW m \in Login, logins'[m].at = "session"
          PROVE  logins'[m].principal # 0 /\ identities'[logins'[m].user] = logins'[m].principal
      <4>1. CASE m = l
        BY <1>1, <2>2, <2>3, <2>4, <3>4, <4>1
      <4>2. CASE m # l
        <5>1. logins[m].at = "session" /\ logins[m].user \in User /\ logins'[m] = logins[m]
          BY <1>1, <2>3, <3>4, <4>2, LoginShapes
        <5>2. logins[m].principal # 0 /\ identities[logins[m].user] = logins[m].principal
          BY <5>1 DEF AccessInv, Principals
        <5>3. QED
          BY <1>5, <2>4, <5>1, <5>2 DEF u
      <4>3. QED
        BY <4>1, <4>2
    <3>5. ASSUME NEW s \in DOMAIN sessions
          PROVE  sessions[s].principal # 0 /\ identities'[sessions[s].user] = sessions[s].principal
      <4>1. sessions[s].user \in User /\ sessions[s].principal # 0 /\ identities[sessions[s].user] = sessions[s].principal
        BY <1>1, SessionShapes DEF AccessInv, Principals
      <4>2. QED
        BY <1>5, <2>4, <4>1 DEF u
    <3>6. QED
      BY <1>2, <3>1, <3>2, <3>3, <3>4, <3>5 DEF Principals
  <2>7. Codes'
    BY <1>2, <2>2, <2>3 DEF AccessInv, Codes
  <2>8. Linked'
    BY <1>2, <2>2, <2>3 DEF AccessInv, Linked, Unused
  <2>9. Ends' /\ MadeFrom' /\ Fresh'
    BY <1>2 DEF AccessInv, Ends, MadeFrom, Fresh, Known
  <2>10. QED
    BY <2>5, <2>6, <2>7, <2>8, <2>9 DEF AccessInv
<1>6. QED
  BY <1>4, <1>5

(* A session has the principal of its user; its tokens are made at once or,  *)
(* for a device code, when the code is polled.                               *)
LEMMA AddsSessionKeeps ==
  ASSUME AccessInv, NEW l \in Login, AddsSession(l)
  PROVE  AccessInv'
<1> USE AccessAssumption
<1> DEFINE n == Len(sessions) + 1
           end == clock + SessionAge
           e == [principal |-> logins[l].principal, user |-> logins[l].user, expires |-> end,
                 revoked |-> FALSE, gone |-> FALSE, ended |-> 0]
           device == [logins[l] EXCEPT !.at = "link", !.session = n]
<1>1. /\ Types /\ logins[l] \in Handler /\ logins[l].user \in User /\ logins[l].principal \in Nat
      /\ logins[l].at = "session" /\ logins[l].code <= pending.id /\ 0 <= pending.id
      /\ logins[l].principal # 0 /\ identities[logins[l].user] = logins[l].principal
  <2>1. Types /\ logins[l].at = "session"
    BY DEF AccessInv, AddsSession
  <2>2. logins[l] \in Handler /\ logins[l].user \in User /\ logins[l].principal \in Nat /\ 0 <= pending.id
    BY <2>1, LoginShapes
  <2>3. QED
    BY <2>1, <2>2 DEF AccessInv, Codes, Principals
<1>2. /\ UNCHANGED <<clock, access, identities, principals, keys, pending, refreshing>> /\ seen' = seen
      /\ sessions' = Append(sessions, e)
      /\ \/ logins' = [logins EXCEPT ![l] = device] /\ tokens' = tokens
         \/ logins' = [logins EXCEPT ![l] = Idle] /\ tokens' = [tokens EXCEPT ![n] = NewTokens]
  <2>1. [logins EXCEPT ![l] = [@ EXCEPT !.at = "link", !.session = Len(sessions) + 1]] = [logins EXCEPT ![l] = device]
    BY <1>1 DEF Types
  <2>2. QED
    BY <2>1 DEF AddsSession, dbOnly
<1>3. /\ n \in 1..MaxSessions /\ n \in Nat /\ n = Len(sessions) + 1 /\ end \in Nat /\ end = clock + SessionAge
      /\ clock \in Nat
  <2>1. Len(sessions) < MaxSessions
    BY DEF AddsSession
  <2>2. Len(sessions) \in Nat /\ clock \in Nat
    BY <1>1, SessionShapes DEF Types
  <2>3. QED
    BY <2>1, <2>2
<1> HIDE DEF n, end
<1>4. e \in Session /\ e.principal = logins[l].principal /\ e.user = logins[l].user /\ e.expires = end
      /\ e.revoked = FALSE /\ e.ended = 0
  BY <1>1, <1>3 DEF Session
<1>5. device \in Handler /\ device.at = "link" /\ device.session = n /\ device.code = logins[l].code
      /\ device.user = logins[l].user
  BY <1>1, <1>3 DEF Handler, Stage
<1> HIDE DEF e, device
<1>6. /\ sessions' \in Seq(Session) /\ Len(sessions') = n /\ DOMAIN sessions' = 1..n /\ sessions'[n] = e
      /\ DOMAIN sessions = 1..(n - 1)
      /\ \A s \in DOMAIN sessions : sessions'[s] = sessions[s]
  BY <1>1, <1>2, <1>3, <1>4, AppendProperties DEF Types
<1>7. NewTokens \in Token /\ NewTokens.access = clock + AccessAge
  BY <1>3 DEF NewTokens, Token
<1>8. PICK h \in {device, Idle} : logins' = [logins EXCEPT ![l] = h] /\ (h = device => tokens' = tokens)
  BY <1>2, <1>5, IdleHandler
<1>9. h \in Handler /\ h.code <= pending.id /\ (h.at # "idle" => h = device)
  BY <1>1, <1>5, <1>8, IdleHandler
<1>10. logins' \in [Login -> Handler] /\ logins'[l] = h /\ \A m \in Login \ {l} : logins'[m] = logins[m]
  BY <1>1, <1>8, <1>9, HandlerSet
<1>11. /\ tokens' \in [1..MaxSessions -> Token] /\ tokens'[n] \in {tokens[n], NewTokens}
       /\ \A s \in (1..MaxSessions) \ {n} : tokens'[s] = tokens[s]
  BY <1>1, <1>2, <1>3, <1>7 DEF Types
<1>12. tokens[n] = NoTokens
  BY <1>3 DEF AccessInv, Ends
<1>13. \A s \in DOMAIN sessions : s \in 1..MaxSessions /\ s # n /\ s \in DOMAIN sessions'
  BY <1>1, <1>3, <1>6, SessionShapes
<1>14. Types'
  <2>1. ASSUME NEW m \in Login, logins'[m].at = "link"
        PROVE  logins'[m].session \in 1..n
    <3>1. CASE m = l
      BY <1>3, <1>5, <1>9, <1>10, <2>1, <3>1, IdleHandler
    <3>2. CASE m # l
      <4>1. logins[m].at = "link" /\ logins'[m] = logins[m]
        BY <1>10, <2>1, <3>2
      <4>2. logins[m].session \in 1..Len(sessions)
        BY <1>1, <4>1, LoginShapes
      <4>3. QED
        BY <1>1, <1>3, <4>1, <4>2, SessionShapes
    <3>3. QED
      BY <3>1, <3>2
  <2>2. \A m \in Login : logins'[m].at # "idle" => logins'[m].user \in User
    BY <1>1, <1>5, <1>9, <1>10, LoginShapes
  <2>3. pending'.session <= n /\ refreshing' \in 0..n /\ pending' \in Code
    BY <1>1, <1>2, <1>3, LoginShapes DEF Types
  <2>4. n <= MaxSessions
    BY <1>3
  <2>5. QED
    BY <1>1, <1>2, <1>6, <1>10, <1>11, <2>1, <2>2, <2>3, <2>4 DEF Types
<1>15. Principals'
  <2>1. \A s \in DOMAIN sessions' : sessions'[s].principal # 0 /\ identities[sessions'[s].user] = sessions'[s].principal
    BY <1>1, <1>3, <1>4, <1>6 DEF AccessInv, Principals
  <2>2. \A m \in Login : logins'[m].at \in {"identity", "session"} => m # l /\ logins'[m] = logins[m]
    BY <1>5, <1>9, <1>10
  <2>3. QED
    BY <1>2, <2>1, <2>2 DEF AccessInv, Principals
<1>16. Codes'
  BY <1>2, <1>9, <1>10 DEF AccessInv, Codes
<1>17. Linked'
  <2>1. SUFFICES ASSUME pending.live PROVE Linked'
    BY <1>2 DEF Linked
  <2>2. pending.expires <= clock + CodeAge /\ pending.expires \in Nat /\ pending.session \in 0..Len(sessions)
    BY <1>1, <2>1, LoginShapes DEF AccessInv, Linked
  <2>3. ASSUME NEW s \in DOMAIN sessions, s \in Unused
        PROVE  s \in Unused'
    BY <1>2, <1>6, <1>11, <1>13, <2>3 DEF Unused
  <2>4. ASSUME tokens' = tokens
        PROVE  n \in Unused'
    <3>1. tokens'[n] = NoTokens /\ n \in DOMAIN sessions'
      BY <1>3, <1>6, <1>12, <2>4
    <3>2. sessions'[n].expires >= clock' /\ sessions'[n].expires >= pending'.expires
      BY <1>2, <1>3, <1>4, <1>6, <2>2
    <3>3. ~sessions'[n].revoked
      BY <1>4, <1>6
    <3>4. QED
      BY <3>1, <3>2, <3>3 DEF Unused
  <2>5. pending.session # 0 => pending.session \in Unused'
    BY <1>1, <2>1, <2>2, <2>3, SessionShapes DEF AccessInv, Linked
  <2>6. ASSUME NEW m \in Login, logins'[m].at = "link", logins'[m].code = pending.id
        PROVE  logins'[m].session \in Unused'
    <3>1. CASE m = l
      BY <1>5, <1>8, <1>9, <1>10, <2>4, <2>6, <3>1
    <3>2. CASE m # l
      BY <1>1, <1>10, <2>1, <2>3, <2>6, <3>2, LoginShapes DEF AccessInv, Linked
    <3>3. QED
      BY <3>1, <3>2
  <2>7. QED
    BY <1>2, <2>2, <2>5, <2>6 DEF Linked
<1>18. Ends'
  <2>1. ASSUME NEW s \in DOMAIN sessions'
        PROVE  /\ sessions'[s].ended = 0 <=> ~sessions'[s].revoked
               /\ tokens'[s].access <= clock' + AccessAge
               /\ tokens'[s].access <= sessions'[s].expires + AccessAge
               /\ sessions'[s].revoked => tokens'[s].access <= sessions'[s].ended + AccessAge
    <3>1. CASE s = n
      BY <1>2, <1>3, <1>4, <1>6, <1>7, <1>11, <1>12, <3>1 DEF NoTokens
    <3>2. CASE s # n
      <4>1. s \in DOMAIN sessions
        BY <1>3, <1>6, <3>2
      <4>2. QED
        BY <1>2, <1>6, <1>11, <1>13, <3>2, <4>1 DEF AccessInv, Ends
    <3>3. QED
      BY <3>1, <3>2
  <2>2. \A s \in 1..MaxSessions : s > Len(sessions') => tokens'[s] = NoTokens
    BY <1>1, <1>3, <1>6, <1>11 DEF AccessInv, Ends
  <2>3. refreshing # 0 => refreshing \in DOMAIN sessions
    BY <1>1, SessionShapes
  <2>4. refreshing' # 0 =>
            /\ tokens'[refreshing'].refresh > 0 /\ sessions'[refreshing'].expires >= clock'
            /\ sessions'[refreshing'].revoked => sessions'[refreshing'].ended = clock'
    BY <1>2, <1>6, <1>11, <1>13, <2>3 DEF AccessInv, Ends
  <2>5. QED
    BY <2>1, <2>2, <2>4 DEF Ends
<1>19. MadeFrom' /\ Fresh'
  BY <1>2 DEF AccessInv, MadeFrom, Fresh, Known
<1>20. QED
  BY <1>14, <1>15, <1>16, <1>17, <1>18, <1>19 DEF AccessInv

(* The session of a device is linked before its tokens are made.             *)
LEMMA LinksKeeps ==
  ASSUME AccessInv, NEW l \in Login, Links(l)
  PROVE  AccessInv'
<1> DEFINE s == logins[l].session
           linked == [pending EXCEPT !.session = s]
<1>1. Types /\ logins[l].at = "link" /\ s \in DOMAIN sessions /\ s \in Nat /\ 0 <= pending.id
  <2>1. Types /\ logins[l].at = "link"
    BY DEF AccessInv, Links
  <2>2. QED
    BY <2>1, LoginShapes, SessionShapes
<1>2. UNCHANGED <<clock, access, identities, principals, sessions, keys, tokens, refreshing>> /\ seen' = seen
      /\ logins' = [logins EXCEPT ![l] = Idle]
  BY DEF Links, dbOnly
<1>3. logins' \in [Login -> Handler] /\ logins'[l] = Idle /\ \A m \in Login \ {l} : logins'[m] = logins[m]
  BY <1>1, <1>2, HandlerSet, IdleHandler
<1>4. /\ pending' \in Code /\ pending'.session <= Len(sessions)
      /\ pending'.id = pending.id /\ pending'.live = pending.live /\ pending'.expires = pending.expires
      /\ \/ pending'.session = pending.session
         \/ pending.live /\ pending.id = logins[l].code /\ pending'.session = s
  <2>1. CASE pending.live /\ pending.id = logins[l].code
    <3>1. pending' = linked
      BY <2>1 DEF Links
    <3> HIDE DEF s
    <3>2. linked \in Code /\ linked.session = s /\ linked.id = pending.id /\ linked.live = pending.live
          /\ linked.expires = pending.expires
      BY <1>1 DEF Types, Code
    <3>3. s <= Len(sessions)
      BY <1>1, SessionShapes
    <3>4. QED
      BY <2>1, <3>1, <3>2, <3>3
  <2>2. CASE ~(pending.live /\ pending.id = logins[l].code)
    BY <1>1, <2>2 DEF Links, Types
  <2>3. QED
    BY <2>1, <2>2
<1>5. Types'
  BY <1>1, <1>2, <1>3, <1>4, IdleHandler DEF Types
<1>6. Principals'
  BY <1>2, <1>3, IdleHandler DEF AccessInv, Principals
<1>7. Codes'
  BY <1>1, <1>2, <1>3, <1>4, IdleHandler DEF AccessInv, Codes
<1>8. Linked'
  <2>1. SUFFICES ASSUME pending.live PROVE Linked'
    BY <1>4 DEF Linked
  <2>2. Unused \subseteq Unused'
    BY <1>2, <1>4 DEF Unused
  <2>3. pending'.session # 0 => pending'.session \in Unused'
    BY <1>1, <1>4, <2>1, <2>2 DEF AccessInv, Linked
  <2>4. \A m \in Login : logins'[m].at = "link" => m # l
    BY <1>3, IdleHandler
  <2>5. QED
    BY <1>2, <1>3, <1>4, <2>1, <2>2, <2>3, <2>4 DEF AccessInv, Linked
<1>9. Ends' /\ MadeFrom' /\ Fresh'
  BY <1>2 DEF AccessInv, Ends, MadeFrom, Fresh, Known
<1>10. QED
  BY <1>5, <1>6, <1>7, <1>8, <1>9 DEF AccessInv

-----------------------------------------------------------------------------
(* Device codes.                                                             *)
LEMMA FormRefusedKeeps ==
  ASSUME AccessInv, FormRefused
  PROVE  AccessInv'
<1>1. UNCHANGED <<clock, access, identities, principals, sessions, keys, tokens, logins, refreshing, seen>>
  BY DEF FormRefused, dbOnly
<1>2. pending' \in Code /\ pending'.live = FALSE /\ pending'.id = pending.id /\ pending'.session = pending.session
  BY DEF FormRefused, AccessInv, Types, Code
<1>3. Types'
  BY <1>1, <1>2 DEF AccessInv, Types
<1>4. Codes'
  BY <1>1, <1>2 DEF AccessInv, Codes
<1>5. Linked'
  BY <1>2 DEF Linked
<1>6. Principals' /\ Ends' /\ MadeFrom' /\ Fresh'
  BY <1>1 DEF AccessInv, Principals, Ends, MadeFrom, Fresh, Known
<1>7. QED
  BY <1>3, <1>4, <1>5, <1>6 DEF AccessInv

(* A new code is greater than every code that a login was begun with.        *)
LEMMA CodeAskedKeeps ==
  ASSUME AccessInv, CodeAsked
  PROVE  AccessInv'
<1> USE AccessAssumption
<1> DEFINE n == pending.id + 1
           end == clock + CodeAge
<1>1. Types /\ clock \in Nat /\ pending.id \in 0..MaxCodes /\ seen.given \in [1..MaxCodes -> Nat]
      /\ \A l \in Login : logins[l].code \in Nat /\ logins[l].code <= pending.id
  BY SessionShapes, LoginShapes DEF AccessInv, Codes
<1>2. UNCHANGED <<clock, access, identities, principals, sessions, keys, tokens, logins, refreshing>>
      /\ pending' = [id |-> n, live |-> TRUE, expires |-> end, session |-> 0]
  BY DEF CodeAsked, dbOnly
<1>3. n \in 1..MaxCodes /\ n = pending.id + 1 /\ end \in Nat /\ end <= clock + CodeAge
  BY <1>1 DEF CodeAsked
<1> HIDE DEF n, end
<1>4. pending' \in Code /\ pending'.live /\ pending'.id = n /\ pending'.session = 0 /\ pending'.expires = end
  BY <1>2, <1>3 DEF Code
<1>5. seen' \in Record /\ seen'.given = seen.given
  BY <1>1, Counted DEF Types, CodeAsked, Requested
<1>6. Types'
  BY <1>1, <1>2, <1>4, <1>5, SessionShapes DEF Types
<1>7. Codes'
  <2>1. n # 0 /\ n > pending.id /\ seen.given[n] = 0
    BY <1>1, <1>3 DEF AccessInv, Codes
  <2>2. \A c \in 1..MaxCodes : seen.given[c] <= 1 /\ (c > n => seen.given[c] = 0)
    BY <1>1, <1>3 DEF AccessInv, Codes
  <2>3. \A l \in Login : logins[l].code <= n
    BY <1>1, <1>3
  <2>4. QED
    BY <1>2, <1>4, <1>5, <2>1, <2>2, <2>3 DEF Codes
<1>8. Linked'
  <2>1. \A l \in Login : logins'[l].code # n
    BY <1>1, <1>2, <1>3
  <2>2. QED
    BY <1>2, <1>3, <1>4, <2>1 DEF Linked
<1>9. Principals' /\ Ends' /\ MadeFrom' /\ Fresh'
  BY <1>2 DEF AccessInv, Principals, Ends, MadeFrom, Fresh, Known
<1>10. QED
  BY <1>6, <1>7, <1>8, <1>9 DEF AccessInv

(* The poll that is given the tokens uses the code up.                       *)
LEMMA PolledKeeps ==
  ASSUME AccessInv, Polled
  PROVE  AccessInv'
<1> USE AccessAssumption
<1> DEFINE s == pending.session
           c == pending.id
<1>1. Types /\ clock \in Nat /\ c \in 0..MaxCodes /\ seen.given \in [1..MaxCodes -> Nat] /\ pending.live
      /\ pending.expires \in Nat
  BY SessionShapes, LoginShapes DEF AccessInv, Polled
<1>2. UNCHANGED <<clock, access, identities, principals, sessions, keys, logins, refreshing>>
  BY DEF Polled, dbOnly
<1>3. pending' \in Code /\ pending'.live = FALSE /\ pending'.id = c /\ pending'.session = s
  BY <1>1 DEF Polled, Types, Code
<1>4. Linked'
  BY <1>3 DEF Linked
<1>5. CASE UNCHANGED <<tokens, seen>>
  <2>1. Types'
    BY <1>1, <1>2, <1>3, <1>5 DEF Types
  <2>2. Codes'
    BY <1>2, <1>3, <1>5 DEF AccessInv, Codes
  <2>3. Principals' /\ Ends' /\ MadeFrom' /\ Fresh'
    BY <1>2, <1>5 DEF AccessInv, Principals, Ends, MadeFrom, Fresh, Known
  <2>4. QED
    BY <1>4, <2>1, <2>2, <2>3 DEF AccessInv
<1>6. CASE /\ clock <= pending.expires /\ s # 0
           /\ tokens' = [tokens EXCEPT ![s] = NewTokens]
           /\ seen' = [seen EXCEPT !.given[c] = @ + 1]
  <2>1. s \in Unused /\ s \in DOMAIN sessions /\ s \in 1..MaxSessions /\ sessions[s].expires \in Nat
    BY <1>1, <1>6, SessionShapes DEF AccessInv, Linked, Unused
  <2>2. NewTokens \in Token /\ NewTokens.access = clock + AccessAge /\ NewTokens.refresh \in Nat
    BY <1>1 DEF NewTokens, Token
  <2>3. tokens' \in [1..MaxSessions -> Token] /\ tokens'[s] = NewTokens
        /\ \A r \in (1..MaxSessions) \ {s} : tokens'[r] = tokens[r]
    BY <1>1, <1>6, <2>1, <2>2 DEF Types
  <2>4. c \in 1..MaxCodes /\ seen.given[c] = 0
    BY <1>1 DEF AccessInv, Codes
  <2>5. seen' \in Record /\ seen'.given[c] = 1 /\ \A d \in (1..MaxCodes) \ {c} : seen'.given[d] = seen.given[d]
    <3> DEFINE g == [seen.given EXCEPT ![c] = 1]
    <3>1. g \in [1..MaxCodes -> Nat] /\ g[c] = 1 /\ \A d \in (1..MaxCodes) \ {c} : g[d] = seen.given[d]
      BY <1>1, <2>4
    <3>2. seen' = [seen EXCEPT !.given = g]
      BY <1>1, <1>6, <2>4 DEF Types, Record
    <3> HIDE DEF g
    <3>3. seen' \in Record /\ seen'.given = g
      BY <1>1, <3>1, <3>2 DEF Types, Record
    <3>4. QED
      BY <3>1, <3>3
  <2>6. Types'
    BY <1>1, <1>2, <1>3, <2>3, <2>5 DEF Types
  <2>7. Codes'
    BY <1>1, <1>2, <1>3, <2>4, <2>5 DEF AccessInv, Codes
  <2>8. Ends'
    <3>1. ASSUME NEW r \in DOMAIN sessions'
          PROVE  /\ sessions'[r].ended = 0 <=> ~sessions'[r].revoked
                 /\ tokens'[r].access <= clock' + AccessAge
                 /\ tokens'[r].access <= sessions'[r].expires + AccessAge
                 /\ sessions'[r].revoked => tokens'[r].access <= sessions'[r].ended + AccessAge
      <4>1. CASE r = s
        <5>1. sessions[s].expires >= clock /\ ~sessions[s].revoked
          <6>1. sessions[s].expires >= pending.expires /\ ~sessions[s].revoked
            BY <2>1 DEF Unused
          <6>2. pending.expires >= clock /\ pending.expires \in Nat /\ clock \in Nat
            BY <1>1, <1>6 DEF Types, Code
          <6>3. QED
            BY <2>1, <6>1, <6>2
        <5>2. sessions[s].ended = 0 <=> ~sessions[s].revoked
          BY <2>1 DEF AccessInv, Ends
        <5>3. QED
          BY <1>1, <1>2, <2>1, <2>2, <2>3, <4>1, <5>1, <5>2
      <4>2. CASE r # s
        BY <1>1, <1>2, <2>3, <3>1, <4>2, SessionShapes DEF AccessInv, Ends
      <4>3. QED
        BY <4>1, <4>2
    <3>2. \A r \in 1..MaxSessions : r > Len(sessions') => tokens'[r] = NoTokens
      <4>1. sessions' = sessions /\ s \in 1..Len(sessions) /\ Len(sessions) \in Nat
        BY <1>1, <1>2, <2>1, SessionShapes
      <4>2. \A r \in 1..MaxSessions : r > Len(sessions) => tokens[r] = NoTokens /\ r # s
        BY <4>1 DEF AccessInv, Ends
      <4>3. QED
        BY <2>3, <4>1, <4>2
    <3>3. refreshing # 0 => refreshing # s /\ refreshing \in 1..MaxSessions
      BY <1>1, <2>1, SessionShapes DEF AccessInv, Ends, Unused, NoTokens
    <3>4. refreshing' # 0 =>
              /\ tokens'[refreshing'].refresh > 0 /\ sessions'[refreshing'].expires >= clock'
              /\ sessions'[refreshing'].revoked => sessions'[refreshing'].ended = clock'
      BY <1>2, <2>3, <3>3 DEF AccessInv, Ends
    <3>5. QED
      BY <3>1, <3>2, <3>4 DEF Ends
  <2>9. Principals' /\ MadeFrom' /\ Fresh'
    BY <1>2 DEF AccessInv, Principals, MadeFrom, Fresh, Known
  <2>10. QED
    BY <1>4, <2>6, <2>7, <2>8, <2>9 DEF AccessInv
<1>7. QED
  BY <1>5, <1>6 DEF Polled

-----------------------------------------------------------------------------
(* Sessions.                                                                 *)
LEMMA RefreshAskedKeeps ==
  ASSUME AccessInv, NEW s \in DOMAIN sessions, RefreshAsked(s)
  PROVE  AccessInv'
<1>1. UNCHANGED <<clock, access, identities, principals, sessions, keys, pending, tokens, logins>> /\ refreshing' = s
  BY DEF RefreshAsked, dbOnly
<1>2. seen' \in Record /\ seen'.given = seen.given
  BY Counted DEF AccessInv, Types, RefreshAsked, Requested
<1>3. clock \in Nat /\ clock > 0 /\ s \in 0..Len(sessions) /\ tokens[s].refresh \in Nat /\ sessions[s].expires \in Nat
  BY SessionShapes DEF AccessInv
<1>4. Types'
  BY <1>1, <1>2, <1>3 DEF AccessInv, Types
<1>5. Codes'
  BY <1>1, <1>2 DEF AccessInv, Codes
<1>6. Ends'
  <2>1. tokens[s].refresh > 0 /\ sessions[s].expires >= clock /\ ~sessions[s].revoked
    BY <1>3 DEF RefreshAsked, SessionLives
  <2>2. QED
    BY <1>1, <2>1 DEF AccessInv, Ends
<1>7. Principals' /\ Linked' /\ MadeFrom' /\ Fresh'
  BY <1>1 DEF AccessInv, Principals, Linked, Unused, MadeFrom, Fresh, Known
<1>8. QED
  BY <1>4, <1>5, <1>6, <1>7 DEF AccessInv

(* A session that is being refreshed has not expired, and was not revoked    *)
(* before this instant.                                                      *)
LEMMA RefreshAnsweredKeeps ==
  ASSUME AccessInv, RefreshAnswered
  PROVE  AccessInv'
<1> USE AccessAssumption
<1> DEFINE s == refreshing
<1>1. Types /\ clock \in Nat /\ s \in DOMAIN sessions /\ s \in 1..MaxSessions /\ sessions[s].expires \in Nat
      /\ sessions[s].ended \in Nat
  BY SessionShapes DEF AccessInv, RefreshAnswered
<1>2. UNCHANGED <<clock, access, identities, principals, sessions, keys, pending, logins, seen>> /\ refreshing' = 0
      /\ (tokens' = tokens \/ tokens' = [tokens EXCEPT ![s] = NewTokens])
  BY DEF RefreshAnswered, dbOnly
<1>3. NewTokens \in Token /\ NewTokens.access = clock + AccessAge
  BY <1>1 DEF NewTokens, Token
<1>4. tokens' \in [1..MaxSessions -> Token] /\ tokens'[s] \in {tokens[s], NewTokens}
      /\ \A r \in (1..MaxSessions) \ {s} : tokens'[r] = tokens[r]
  BY <1>1, <1>2, <1>3 DEF Types
<1>5. tokens[s] # NoTokens
  BY <1>1 DEF AccessInv, Ends, NoTokens
<1> HIDE DEF s
<1>6. Types'
  BY <1>1, <1>2, <1>4, SessionShapes DEF Types
<1>7. Linked'
  <2>1. Unused \subseteq Unused'
    BY <1>1, <1>2, <1>4, <1>5, SessionShapes DEF Unused
  <2>2. QED
    BY <1>2, <2>1 DEF AccessInv, Linked
<1>8. Ends'
  <2>1. ASSUME NEW r \in DOMAIN sessions'
        PROVE  /\ sessions'[r].ended = 0 <=> ~sessions'[r].revoked
               /\ tokens'[r].access <= clock' + AccessAge
               /\ tokens'[r].access <= sessions'[r].expires + AccessAge
               /\ sessions'[r].revoked => tokens'[r].access <= sessions'[r].ended + AccessAge
    <3>1. CASE tokens'[r] = tokens[r]
      BY <1>2, <3>1 DEF AccessInv, Ends
    <3>2. CASE tokens'[r] # tokens[r]
      <4>1. r = s /\ tokens'[r] = NewTokens
        BY <1>1, <1>2, <1>4, <3>2, SessionShapes
      <4>2. sessions[s].expires >= clock /\ (sessions[s].revoked => sessions[s].ended = clock)
        BY <1>1, SessionShapes DEF AccessInv, Ends, s
      <4>3. sessions[s].ended = 0 <=> ~sessions[s].revoked
        BY <1>1 DEF AccessInv, Ends
      <4>4. QED
        BY <1>1, <1>2, <1>3, <4>1, <4>2, <4>3
    <3>3. QED
      BY <3>1, <3>2
  <2>2. ASSUME NEW r \in 1..MaxSessions, r > Len(sessions')
        PROVE  tokens'[r] = NoTokens
    <3>1. r # s
      BY <1>1, <1>2, <2>2, SessionShapes
    <3>2. QED
      BY <1>2, <1>4, <2>2, <3>1 DEF AccessInv, Ends
  <2>3. QED
    BY <1>2, <2>1, <2>2 DEF Ends
<1>9. Principals' /\ Codes' /\ MadeFrom' /\ Fresh'
  BY <1>2 DEF AccessInv, Principals, Codes, MadeFrom, Fresh, Known
<1>10. QED
  BY <1>6, <1>7, <1>8, <1>9 DEF AccessInv

(* What revoking, and deleting, leave of the sessions.                       *)
LEMMA SessionsChange ==
  ASSUME AccessInv,
         UNCHANGED <<clock, access, identities, principals, pending, tokens, logins, refreshing>>,
         seen' \in Record, seen'.given = seen.given,
         sessions' \in Seq(Session), DOMAIN sessions' = DOMAIN sessions,
         \A s \in DOMAIN sessions :
             /\ sessions'[s].principal = sessions[s].principal /\ sessions'[s].user = sessions[s].user
             /\ sessions'[s].expires = sessions[s].expires
             /\ \/ sessions'[s].revoked = sessions[s].revoked /\ sessions'[s].ended = sessions[s].ended
                \/ /\ tokens[s] # NoTokens /\ sessions'[s].revoked
                   /\ sessions'[s].ended = IF sessions[s].ended = 0 THEN clock ELSE sessions[s].ended,
         keys' \in Seq(Key), Len(keys') <= MaxKeys, MadeFrom'
  PROVE  AccessInv'
<1>1. Types /\ clock \in Nat /\ clock > 0
      /\ DOMAIN sessions = 1..Len(sessions) /\ DOMAIN sessions' = 1..Len(sessions')
      /\ Len(sessions) \in Nat /\ Len(sessions') \in Nat
  BY SessionShapes DEF AccessInv
<1>2. Len(sessions') = Len(sessions)
  BY <1>1
<1>3. Types'
  BY <1>1, <1>2 DEF Types
<1>4. Principals'
  BY DEF AccessInv, Principals
<1>5. Codes'
  BY DEF AccessInv, Codes
<1>6. Linked'
  <2>1. Unused \subseteq Unused'
    BY DEF Unused
  <2>2. QED
    BY <2>1 DEF AccessInv, Linked
<1>7. Ends'
  <2>1. ASSUME NEW s \in DOMAIN sessions'
        PROVE  /\ sessions'[s].ended = 0 <=> ~sessions'[s].revoked
               /\ tokens'[s].access <= clock' + AccessAge
               /\ tokens'[s].access <= sessions'[s].expires + AccessAge
               /\ sessions'[s].revoked => tokens'[s].access <= sessions'[s].ended + AccessAge
    BY <1>1, SessionShapes DEF AccessInv, Ends
  <2>2. \A s \in 1..MaxSessions : s > Len(sessions') => tokens'[s] = NoTokens
    BY <1>2 DEF AccessInv, Ends
  <2>3. refreshing # 0 => refreshing \in DOMAIN sessions
    BY <1>1, SessionShapes
  <2>4. refreshing' # 0 =>
            /\ tokens'[refreshing'].refresh > 0 /\ sessions'[refreshing'].expires >= clock'
            /\ sessions'[refreshing'].revoked => sessions'[refreshing'].ended = clock'
    BY <2>3 DEF AccessInv, Ends
  <2>5. QED
    BY <2>1, <2>2, <2>4 DEF Ends
<1>8. Fresh'
  BY DEF AccessInv, Fresh, Known
<1>9. QED
  BY <1>3, <1>4, <1>5, <1>6, <1>7, <1>8 DEF AccessInv

LEMMA RevokesKeeps ==
  ASSUME AccessInv, NEW s \in DOMAIN sessions, NEW by \in DOMAIN sessions, Revokes(s, by)
  PROVE  AccessInv'
<1> DEFINE end == IF sessions[s].ended = 0 THEN clock ELSE sessions[s].ended
           e   == [sessions[s] EXCEPT !.revoked = TRUE, !.ended = end]
<1>1. Types /\ clock \in Nat /\ sessions[s] \in Session /\ sessions \in Seq(Session)
      /\ DOMAIN sessions = 1..Len(sessions) /\ Len(sessions) \in Nat /\ sessions[s].ended \in Nat
  BY SessionShapes DEF AccessInv, Types
<1>2. end \in Nat
  BY <1>1
<1>3. UNCHANGED <<clock, access, identities, principals, keys, pending, tokens, logins, refreshing>>
      /\ sessions' = [sessions EXCEPT ![s] = e] /\ tokens[s] # NoTokens
  BY <1>1 DEF Revokes, dbOnly
<1> HIDE DEF end
<1>4. e \in Session /\ e.revoked /\ e.ended = end /\ e.principal = sessions[s].principal
      /\ e.user = sessions[s].user /\ e.expires = sessions[s].expires
  BY <1>1, <1>2 DEF Session
<1> HIDE DEF e
<1>5. sessions' \in Seq(Session) /\ DOMAIN sessions' = DOMAIN sessions /\ sessions'[s] = e
      /\ \A r \in DOMAIN sessions \ {s} : sessions'[r] = sessions[r]
  BY <1>1, <1>3, <1>4
<1>6. seen' \in Record /\ seen'.given = seen.given
  BY Counted DEF AccessInv, Types, Revokes, Requested
<1>7. keys' \in Seq(Key) /\ Len(keys') <= MaxKeys /\ MadeFrom'
  BY <1>3 DEF AccessInv, Types, MadeFrom
<1>8. QED
  BY <1>3, <1>4, <1>5, <1>6, <1>7, SessionsChange DEF end

LEMMA SeqOfFunction ==
  ASSUME NEW Item, NEW n \in Nat, NEW f \in [1..n -> Item]
  PROVE  f \in Seq(Item) /\ Len(f) = n /\ DOMAIN f = 1..n
OBVIOUS

LEMMA DeletedKeeps ==
  ASSUME AccessInv, Deleted
  PROVE  AccessInv'
<1>1. /\ Types /\ sessions \in Seq(Session) /\ keys \in Seq(Key)
      /\ DOMAIN sessions = 1..Len(sessions) /\ Len(sessions) \in Nat
      /\ DOMAIN keys = 1..Len(keys) /\ Len(keys) \in Nat
      /\ \A s \in DOMAIN sessions : sessions[s] \in Session
      /\ \A k \in DOMAIN keys : keys[k] \in Key
  BY DEF AccessInv, Types
<1>2. UNCHANGED <<clock, access, identities, principals, pending, tokens, logins, refreshing>> /\ seen' = seen
  BY DEF Deleted, dbOnly
<1>3. /\ sessions' \in Seq(Session) /\ DOMAIN sessions' = DOMAIN sessions
      /\ \A s \in DOMAIN sessions : sessions'[s] \in {sessions[s], [sessions[s] EXCEPT !.gone = TRUE]}
  <2>1. /\ sessions' = [s \in 1..Len(sessions) |-> sessions'[s]]
        /\ \A s \in DOMAIN sessions : sessions'[s] \in {sessions[s], [sessions[s] EXCEPT !.gone = TRUE]}
    BY <1>1 DEF Deleted
  <2>2. ASSUME NEW s \in 1..Len(sessions)
        PROVE  sessions'[s] \in Session
    <3>1. sessions[s] \in Session
      BY <1>1
    <3>2. [sessions[s] EXCEPT !.gone = TRUE] \in Session
      BY <3>1 DEF Session
    <3>3. QED
      BY <1>1, <2>1, <3>1, <3>2
  <2>3. sessions' \in [1..Len(sessions) -> Session]
    BY <2>1, <2>2
  <2>4. QED
    BY <1>1, <2>1, <2>3, SeqOfFunction
<1>4. \A s \in DOMAIN sessions :
          /\ sessions'[s].principal = sessions[s].principal /\ sessions'[s].user = sessions[s].user
          /\ sessions'[s].expires = sessions[s].expires
          /\ sessions'[s].revoked = sessions[s].revoked /\ sessions'[s].ended = sessions[s].ended
  BY <1>1, <1>3 DEF Session
<1>5. /\ keys' \in Seq(Key) /\ DOMAIN keys' = DOMAIN keys /\ Len(keys') = Len(keys)
      /\ \A k \in DOMAIN keys : keys'[k] \in {keys[k], [keys[k] EXCEPT !.gone = TRUE]}
  <2>1. /\ keys' = [k \in 1..Len(keys) |-> keys'[k]]
        /\ \A k \in DOMAIN keys : keys'[k] \in {keys[k], [keys[k] EXCEPT !.gone = TRUE]}
    BY <1>1 DEF Deleted
  <2>2. ASSUME NEW k \in 1..Len(keys)
        PROVE  keys'[k] \in Key
    <3>1. keys[k] \in Key
      BY <1>1
    <3>2. [keys[k] EXCEPT !.gone = TRUE] \in Key
      BY <3>1 DEF Key
    <3>3. QED
      BY <1>1, <2>1, <3>1, <3>2
  <2>3. keys' \in [1..Len(keys) -> Key]
    BY <2>1, <2>2
  <2>4. QED
    BY <1>1, <2>1, <2>3, SeqOfFunction
<1>6. \A k \in DOMAIN keys :
          keys'[k].principal = keys[k].principal /\ keys'[k].from = keys[k].from /\ keys'[k].scopes = keys[k].scopes
  BY <1>1, <1>5 DEF Key
<1>7. MadeFrom' /\ Len(keys') <= MaxKeys
  <2>1. \A k \in DOMAIN keys : keys[k].from \in Nat
    BY <1>1 DEF Key
  <2>2. \A k \in DOMAIN keys : keys[k].from # 0 => keys[k].from \in DOMAIN keys
    BY <1>1, <2>1 DEF AccessInv, MadeFrom
  <2>3. MadeFrom'
    BY <1>5, <1>6, <2>2 DEF AccessInv, MadeFrom
  <2>4. QED
    BY <1>5, <2>3 DEF AccessInv, Types
<1>8. seen' \in Record /\ seen'.given = seen.given
  BY <1>1, <1>2 DEF Types
<1>9. QED
  BY <1>2, <1>3, <1>4, <1>5, <1>7, <1>8, SessionsChange

-----------------------------------------------------------------------------
(* Keys.  A key is made with a token, with an older key of the same          *)
(* principal, or by an administrator.                                        *)
LEMMA AskedWithin ==
  ASSUME NEW source \in ScopeSet, NEW allowed, NEW requested \in Requests,
         Asked(requested, <<source>>) \subseteq Grantable(allowed, <<source>>) \cup {"inherit"}
  PROVE  "inherit" \in source \/ Asked(requested, <<source>>) \subseteq source
BY DEF Asked, Grantable

LEMMA AskedScopes ==
  ASSUME NEW source \in ScopeSet, NEW requested \in Requests
  PROVE  Asked(requested, << >>) \in ScopeSet /\ Asked(requested, <<source>>) \in ScopeSet
BY DEF Asked, ScopeSet

(* Appending a key keeps the others, and it keeps within the key that it was *)
(* made with.                                                                *)
LEMMA NewKeyKeeps ==
  ASSUME AccessInv, NEW p \in Nat, NEW allowed, NEW source, NEW from \in Nat, NewKey(p, allowed, source, from),
         \/ from = 0 /\ source = << >>
         \/ from \in DOMAIN keys /\ keys[from].principal = p /\ source = <<keys[from].scopes>>
  PROVE  AccessInv'
<1> USE AccessAssumption
<1> DEFINE n == Len(keys) + 1
<1>1. Types /\ keys \in Seq(Key) /\ DOMAIN keys = 1..Len(keys) /\ Len(keys) \in Nat /\ clock \in Nat
      /\ \A k \in DOMAIN keys : keys[k] \in Key
  BY DEF AccessInv, Types
<1>2. PICK requested \in Requests, expires \in {0, clock + KeyAge} :
          /\ Asked(requested, source) \subseteq Grantable(allowed, source) \cup {"inherit"}
          /\ keys' = Append(keys, [principal |-> p, scopes |-> Asked(requested, source), expires |-> expires,
                                   from |-> from, gone |-> FALSE])
  BY DEF NewKey
<1> DEFINE scopes == Asked(requested, source)
           e == [principal |-> p, scopes |-> scopes, expires |-> expires, from |-> from, gone |-> FALSE]
<1>3. UNCHANGED <<clock, access, identities, principals, sessions, pending, tokens, logins, refreshing>>
      /\ Len(keys) < MaxKeys
  BY DEF NewKey, dbOnly
<1>4. from \in DOMAIN keys => keys[from].scopes \in ScopeSet
  BY <1>1 DEF Key
<1>5. scopes \in ScopeSet
  <2>1. {"inherit"} \in ScopeSet
    BY DEF ScopeSet
  <2>2. QED
    BY <1>4, <2>1, AskedScopes
<1>6. ASSUME from \in DOMAIN keys
      PROVE  "inherit" \in keys[from].scopes \/ scopes \subseteq keys[from].scopes
  <2>1. source = <<keys[from].scopes>>
    BY <1>1, <1>6
  <2> DEFINE own == keys[from].scopes
  <2>2. own \in ScopeSet
    BY <1>4, <1>6
  <2>3. Asked(requested, <<own>>) \subseteq Grantable(allowed, <<own>>) \cup {"inherit"}
    BY <1>2, <2>1
  <2> HIDE DEF own
  <2>4. "inherit" \in own \/ Asked(requested, <<own>>) \subseteq own
    BY <1>2, <2>2, <2>3, AskedWithin
  <2>5. QED
    BY <2>1, <2>4 DEF own
<1> HIDE DEF scopes
<1>7. expires \in Nat
  BY <1>1
<1>8. e \in Key /\ e.principal = p /\ e.scopes = scopes /\ e.from = from
  BY <1>5, <1>7 DEF Key
<1>9. keys' = Append(keys, e)
  BY <1>2 DEF scopes
<1> HIDE DEF e
<1>10. /\ keys' \in Seq(Key) /\ Len(keys') = n /\ DOMAIN keys' = 1..n /\ keys'[n] = e
       /\ \A k \in DOMAIN keys : keys'[k] = keys[k]
  BY <1>1, <1>8, <1>9, AppendProperties
<1>11. seen' \in Record /\ seen'.given = seen.given
  BY Counted DEF AccessInv, Types, NewKey, Requested
<1>12. Types'
  BY <1>1, <1>3, <1>10, <1>11 DEF Types
<1>13. MadeFrom'
  <2>1. ASSUME NEW k \in DOMAIN keys', keys'[k].from # 0
        PROVE  /\ keys'[k].from < k
               /\ keys'[k].principal = keys'[keys'[k].from].principal
               /\ \/ "inherit" \in keys'[keys'[k].from].scopes
                  \/ keys'[k].scopes \subseteq keys'[keys'[k].from].scopes
    <3>1. CASE k = n
      BY <1>1, <1>6, <1>8, <1>10, <2>1, <3>1
    <3>2. CASE k # n
      <4>1. k \in DOMAIN keys /\ keys[k].from \in Nat /\ keys[k].from # 0 /\ keys'[k] = keys[k]
        <5>1. k \in DOMAIN keys
          BY <1>1, <1>10, <3>2
        <5>2. keys[k].from \in Nat
          BY <1>1, <5>1 DEF Key
        <5>3. QED
          BY <1>10, <2>1, <5>1, <5>2
      <4>2. keys[k].from < k
        BY <4>1 DEF AccessInv, MadeFrom
      <4>3. keys[k].from \in DOMAIN keys
        BY <1>1, <4>1, <4>2
      <4>4. QED
        BY <1>10, <4>1, <4>2, <4>3 DEF AccessInv, MadeFrom
    <3>3. QED
      BY <3>1, <3>2
  <2>2. QED
    BY <2>1 DEF MadeFrom
<1>14. Codes'
  BY <1>3, <1>11 DEF AccessInv, Codes
<1>15. Principals' /\ Linked' /\ Ends' /\ Fresh'
  BY <1>3 DEF AccessInv, Principals, Linked, Unused, Ends, Fresh, Known
<1>16. QED
  BY <1>12, <1>13, <1>14, <1>15 DEF AccessInv

LEMMA KeyMadeKeeps ==
  ASSUME AccessInv,
         \/ \E s \in DOMAIN sessions : KeyWithToken(s)
         \/ \E k \in DOMAIN keys : KeyWithKey(k)
         \/ \E s \in DOMAIN sessions, p \in 1..principals : KeyForPrincipal(s, p)
  PROVE  AccessInv'
<1>1. Types
  BY DEF AccessInv
<1>2. ASSUME NEW s \in DOMAIN sessions, KeyWithToken(s)
      PROVE  AccessInv'
  BY <1>1, <1>2, SessionShapes, NewKeyKeeps DEF KeyWithToken
<1>3. ASSUME NEW k \in DOMAIN keys, KeyWithKey(k)
      PROVE  AccessInv'
  <2>1. keys[k] \in Key /\ k \in Nat
    BY <1>1 DEF Types
  <2>2. keys[k].principal \in Nat
    BY <2>1 DEF Key
  <2>3. QED
    BY <1>3, <2>1, <2>2, NewKeyKeeps DEF KeyWithKey
<1>4. ASSUME NEW s \in DOMAIN sessions, NEW p \in 1..principals, KeyForPrincipal(s, p)
      PROVE  AccessInv'
  BY <1>4, NewKeyKeeps DEF KeyForPrincipal
<1>5. QED
  BY <1>2, <1>3, <1>4

LEMMA RevokesKeyKeeps ==
  ASSUME AccessInv, NEW k \in DOMAIN keys, NEW s \in DOMAIN sessions, RevokesKey(k, s)
  PROVE  AccessInv'
<1> DEFINE e == [keys[k] EXCEPT !.gone = TRUE]
<1>1. Types /\ keys \in Seq(Key) /\ DOMAIN keys = 1..Len(keys) /\ Len(keys) \in Nat
      /\ \A j \in DOMAIN keys : keys[j] \in Key
  BY DEF AccessInv, Types
<1>2. UNCHANGED <<clock, access, identities, principals, sessions, pending, tokens, logins, refreshing>>
      /\ keys' = [keys EXCEPT ![k] = e]
  BY <1>1 DEF RevokesKey, dbOnly
<1>3. e \in Key /\ e.principal = keys[k].principal /\ e.from = keys[k].from /\ e.scopes = keys[k].scopes
  BY <1>1 DEF Key
<1> HIDE DEF e
<1>4. /\ keys' \in Seq(Key) /\ DOMAIN keys' = DOMAIN keys /\ Len(keys') = Len(keys) /\ keys'[k] = e
      /\ \A j \in DOMAIN keys \ {k} : keys'[j] = keys[j]
  BY <1>1, <1>2, <1>3
<1>5. \A j \in DOMAIN keys :
          keys'[j].principal = keys[j].principal /\ keys'[j].from = keys[j].from /\ keys'[j].scopes = keys[j].scopes
  BY <1>3, <1>4
<1>6. seen' \in Record /\ seen'.given = seen.given
  BY Counted DEF AccessInv, Types, RevokesKey, Requested
<1>7. Types'
  BY <1>2, <1>4, <1>6 DEF AccessInv, Types
<1>8. MadeFrom'
  <2>1. \A j \in DOMAIN keys : keys[j].from \in Nat
    BY <1>1 DEF Key
  <2>2. \A j \in DOMAIN keys : keys[j].from # 0 => keys[j].from \in DOMAIN keys
    BY <1>1, <2>1 DEF AccessInv, MadeFrom
  <2>3. QED
    BY <1>4, <1>5, <2>2 DEF AccessInv, MadeFrom
<1>9. Codes'
  BY <1>2, <1>6 DEF AccessInv, Codes
<1>10. Principals' /\ Linked' /\ Ends' /\ Fresh'
  BY <1>2 DEF AccessInv, Principals, Linked, Unused, Ends, Fresh, Known
<1>11. QED
  BY <1>7, <1>8, <1>9, <1>10 DEF AccessInv

-----------------------------------------------------------------------------
LEMMA NextKeeps == AccessInv /\ [Next]_vars => AccessInv'
<1> SUFFICES ASSUME AccessInv, [Next]_vars PROVE AccessInv'
  OBVIOUS
<1>1. CASE Tick \/ Updated \/ UpdateFails
  BY <1>1, TickKeeps, UpdatedKeeps
<1>2. CASE FormRefused \/ CodeAsked \/ Polled
  BY <1>2, FormRefusedKeeps, CodeAskedKeeps, PolledKeeps
<1>3. CASE RefreshAnswered \/ Deleted
  BY <1>3, RefreshAnsweredKeeps, DeletedKeeps
<1>4. ASSUME NEW l \in Login,
             \/ \E u \in User, kind \in LoginKinds[l] : Begins(l, u, kind)
             \/ Authenticated(l) \/ FindsIdentity(l) \/ AddsPrincipal(l) \/ AddsIdentity(l)
             \/ AddsSession(l) \/ Links(l) \/ LoginFails(l)
      PROVE  AccessInv'
  BY <1>4, BeginsKeeps, AuthenticatedKeeps, FindsIdentityKeeps, AddsPrincipalKeeps, AddsIdentityKeeps,
     AddsSessionKeeps, LinksKeeps, LoginFailsKeeps
<1>5. ASSUME NEW s \in DOMAIN sessions, NEW by \in DOMAIN sessions, RefreshAsked(s) \/ Revokes(s, by)
      PROVE  AccessInv'
  BY <1>5, RefreshAskedKeeps, RevokesKeeps
<1>6. ASSUME NEW k \in DOMAIN keys, NEW s \in DOMAIN sessions, RevokesKey(k, s)
      PROVE  AccessInv'
  BY <1>6, RevokesKeyKeeps
<1>7. CASE UNCHANGED vars
  BY <1>7 DEF vars, AccessInv, Types, Principals, Codes, Linked, Unused, Ends, MadeFrom, Fresh, Known
<1>8. QED
  BY <1>1, <1>2, <1>3, <1>4, <1>5, <1>6, <1>7, KeyMadeKeeps DEF Next

(* Who is let in is one principal, for as long as the session, the key and   *)
(* the access data say, for any users and answers of the access control      *)
(* server and however many logins, refreshes, keys and codes interleave: two *)
(* first logins of a user make one identity; the tokens for a device code    *)
(* are given once; a session that is revoked while it is refreshed ends; a   *)
(* key made with a key never confers more than that one does now.            *)
THEOREM AccessHolds == Spec => []AccessTrue
<1>1. Init => AccessInv
  BY InitAccessInv
<1>2. AccessInv /\ [Next]_vars => AccessInv'
  BY NextKeeps
<1>3. AccessInv => AccessTrue
  BY AccessInvGives
<1>4. QED
  BY <1>1, <1>2, <1>3, PTL DEF Spec
-----------------------------------------------------------------------------
(* The HTTP server inside the manager.                                      *)

ServerBounds == MaxAttempts \in Nat \ {0} /\ MaxRestarts \in Nat /\ MaxTroubles \in Nat

(* The supervisor is at work, and may have a server.                        *)
AtWork  == {"begin", "starting", "running", "waiting"}
Serving == {"starting", "running"}

Servers   == [at : {"gone", "startup", "up", "closing"}, exit : BOOLEAN,
              result : {"none", "returned", "exit", "crash"}]
Sups      == [at : AtWork \cup {"done", "cancelled"}, attempts : 0 .. MaxAttempts, cancelled : BOOLEAN]
Watchdogs == [told : BOOLEAN, restarts : Nat]
Troubles  == [requests : Nat, failures : Nat, leaked : Nat, overwritten : BOOLEAN, raced : BOOLEAN]

ServerTypes ==
    /\ server \in Servers /\ sup \in Sups /\ watchdog \in Watchdogs /\ trouble \in Troubles
    /\ supervised \in BOOLEAN /\ stopEvent \in BOOLEAN /\ stopping \in BOOLEAN
    /\ serverState \in {"starting", "running", "retrying", "failed", "stopped"}
    /\ restart \in {"none", "sleep", "stopping", "cancelling", "dropped", "done"}
    /\ main \in {"serving", "replying", "stopping", "cancelling", "closing", "aborted", "stopped"}
    /\ apps \in Nat

(* A server is there only while its supervisor serves, and the supervisor   *)
(* is known while it is at work.  The state follows the supervisor.         *)
Supervised ==
    /\ server.at # "gone" => sup.at \in Serving
    /\ sup.at \in AtWork => supervised
    /\ sup.at \in {"begin", "waiting"} => sup.attempts < MaxAttempts
    /\ sup.at = "cancelled" => sup.cancelled
    /\ serverState = "running" => sup.at = "running"
    /\ serverState = "failed"  => sup.at = "done"
    /\ serverState = "stopped" => sup.at \notin Serving

(* A restart that waits for the supervisor belongs to a manager that goes   *)
(* on or has not come to its server; and nobody else cancels the supervisor *)
(* before, unless a restart was dropped at that point.                      *)
StopsInOrder ==
    /\ main # "serving" => stopping \/ ~ S!Up
    /\ restart \in {"stopping", "cancelling"} => main \in {"serving", "replying"}
    /\ main \in {"closing", "stopped"} => sup.at \notin AtWork /\ ~ supervised
    /\ sup.cancelled => \/ restart = "cancelling" \/ trouble.raced
                        \/ main \notin {"serving", "replying", "stopping"}
    /\ main = "aborted" \/ watchdog.restarts > 0 => trouble.raced

AppsCounted ==
    /\ ~ trouble.overwritten
    /\ S!Up => apps = trouble.leaked + (IF server.at \in {"up", "closing"} THEN 1 ELSE 0)

ServerInv == ServerTypes /\ Supervised /\ StopsInOrder /\ AppsCounted

(* A supervisor that starts.                                                *)
LEMMA SupBegins ==
  ASSUME ServerBounds
  PROVE  LET new == [S!NoSup EXCEPT !.at = "begin"]
         IN  new \in Sups /\ new.at = "begin" /\ new.attempts = 0 /\ new.cancelled = FALSE
<1> DEFINE no == FALSE
<1>1. S!NoSup = [at |-> "none", attempts |-> 0, cancelled |-> no]
  BY DEF S!NoSup
<1>2. 0 \in 0 .. MaxAttempts /\ no \in BOOLEAN
  BY DEF ServerBounds
<1> HIDE DEF no
<1>3. [S!NoSup EXCEPT !.at = "begin"] = [at |-> "begin", attempts |-> 0, cancelled |-> no]
  BY <1>1
<1>4. QED
  BY <1>2, <1>3 DEF Sups, AtWork, no

(* After an attempt the supervisor is through, or waits and has another.    *)
LEMMA DecidedSup ==
  ASSUME ServerBounds, sup \in Sups, NEW n \in 0 .. MaxAttempts, S!Decided(n)
  PROVE  /\ sup' \in Sups /\ sup'.at \in {"waiting", "done"} /\ sup'.cancelled = sup.cancelled
         /\ sup'.at = "waiting" => sup'.attempts < MaxAttempts
         /\ serverState' \in {"stopped", "failed", "retrying"}
         /\ serverState' # "retrying" => sup'.at = "done"
<1> USE DEF S!Decided, Sups, AtWork
<1>1. CASE stopEvent
  BY <1>1
<1>2. CASE ~ stopEvent /\ n >= MaxAttempts
  BY <1>2
<1>3. CASE ~ stopEvent /\ ~ (n >= MaxAttempts)
  <2>1. n < MaxAttempts
    BY <1>3 DEF ServerBounds
  <2>2. sup' = [sup EXCEPT !.at = "waiting", !.attempts = n] /\ serverState' = "retrying"
    BY <1>3
  <2>3. QED
    BY <2>1, <2>2
<1>4. QED
  BY <1>1, <1>2, <1>3

LEMMA ServerStartsKeeps == ASSUME ServerBounds, ServerInv, S!ServerStarts PROVE ServerInv'
<1> USE DEF ServerBounds, ServerInv, S!ServerStarts, S!Fails, S!Fail, AtWork, Serving
<1>1. ServerTypes'
  <2>1. server' \in Servers
    BY DEF ServerTypes, Servers, Supervised
  <2>2. sup' \in Sups
    BY DEF ServerTypes, Sups, Supervised
  <2>3. watchdog' \in Watchdogs
    BY DEF ServerTypes, Watchdogs
  <2>4. trouble' \in Troubles
    BY DEF ServerTypes, Troubles
  <2>5. apps' \in Nat
    BY DEF ServerTypes, AppsCounted, Troubles, Servers, S!Up
  <2>6. supervised' \in BOOLEAN /\ stopEvent' \in BOOLEAN /\ stopping' \in BOOLEAN
    BY DEF ServerTypes
  <2>7. serverState' \in {"starting", "running", "retrying", "failed", "stopped"}
    BY DEF ServerTypes
  <2>8. restart' \in {"none", "sleep", "stopping", "cancelling", "dropped", "done"}
    BY DEF ServerTypes
  <2>9. main' \in {"serving", "replying", "stopping", "cancelling", "closing", "aborted", "stopped"}
    BY DEF ServerTypes
  <2>10. QED
    BY <2>1, <2>2, <2>3, <2>4, <2>5, <2>6, <2>7, <2>8, <2>9 DEF ServerTypes
<1>2. Supervised'
  BY DEF ServerTypes, Supervised, Servers, Sups
<1>3. StopsInOrder'
  BY DEF ServerTypes, Supervised, StopsInOrder, S!Up, Sups, Watchdogs, Troubles
<1>4. AppsCounted'
  <2>1. CASE server' = [server EXCEPT !.at = "up"] /\ apps' = apps + 1 /\ UNCHANGED trouble
    BY <2>1 DEF ServerTypes, AppsCounted, S!Up, Servers, Troubles
  <2>2. CASE /\ trouble' = [trouble EXCEPT !.failures = @ + 1] /\ UNCHANGED apps
             /\ \E how \in {"returned", "exit"} : server' = [server EXCEPT !.at = "gone", !.result = how]
    BY <2>2 DEF ServerTypes, AppsCounted, S!Up, Servers, Troubles
  <2>3. CASE /\ server' = [server EXCEPT !.at = "gone", !.result = "returned"]
             /\ \E open \in {0, 1} : apps' = apps + open /\ trouble' = [trouble EXCEPT !.leaked = @ + open]
    <3>1. PICK open \in {0, 1} : apps' = apps + open /\ trouble' = [trouble EXCEPT !.leaked = @ + open]
      BY <2>3
    <3>2. trouble'.leaked = trouble.leaked + open /\ trouble'.overwritten = trouble.overwritten
      BY <3>1 DEF ServerTypes, Troubles
    <3>3. server'.at = "gone" /\ server.at = "startup" /\ S!Up
      BY <2>3 DEF ServerTypes, Servers
    <3>4. apps = trouble.leaked /\ trouble.leaked \in Nat
      BY <3>3 DEF AppsCounted, ServerTypes, Troubles
    <3>5. QED
      BY <3>1, <3>2, <3>3, <3>4 DEF AppsCounted
  <2>4. QED
    BY <2>1, <2>2, <2>3
<1>5. QED
  BY <1>1, <1>2, <1>3, <1>4

LEMMA ServerClosesKeeps == ASSUME ServerBounds, ServerInv, S!ServerCloses PROVE ServerInv'
<1> USE DEF ServerBounds, ServerInv, S!ServerCloses, AtWork, Serving
<1>1. ServerTypes'
  BY DEF ServerTypes, Servers, Sups, Watchdogs, Troubles
<1>2. Supervised'
  BY DEF ServerTypes, Supervised, Servers, Sups
<1>3. StopsInOrder'
  BY DEF ServerTypes, Supervised, StopsInOrder, S!Up, Sups, Watchdogs, Troubles
<1>4. AppsCounted'
  BY DEF ServerTypes, Supervised, StopsInOrder, AppsCounted, S!Up, Servers, Sups, Troubles
<1>5. QED
  BY <1>1, <1>2, <1>3, <1>4

LEMMA ServerEndsKeeps == ASSUME ServerBounds, ServerInv, S!ServerEnds PROVE ServerInv'
<1> USE DEF ServerBounds, ServerInv, S!ServerEnds, AtWork, Serving
<1>1. ServerTypes'
  <2>1. server' \in Servers
    BY DEF ServerTypes, Servers, Supervised
  <2>2. sup' \in Sups
    BY DEF ServerTypes, Sups, Supervised
  <2>3. watchdog' \in Watchdogs
    BY DEF ServerTypes, Watchdogs
  <2>4. trouble' \in Troubles
    BY DEF ServerTypes, Troubles
  <2>5. apps' \in Nat
    BY DEF ServerTypes, AppsCounted, Troubles, Servers, S!Up
  <2>6. supervised' \in BOOLEAN /\ stopEvent' \in BOOLEAN /\ stopping' \in BOOLEAN
    BY DEF ServerTypes
  <2>7. serverState' \in {"starting", "running", "retrying", "failed", "stopped"}
    BY DEF ServerTypes
  <2>8. restart' \in {"none", "sleep", "stopping", "cancelling", "dropped", "done"}
    BY DEF ServerTypes
  <2>9. main' \in {"serving", "replying", "stopping", "cancelling", "closing", "aborted", "stopped"}
    BY DEF ServerTypes
  <2>10. QED
    BY <2>1, <2>2, <2>3, <2>4, <2>5, <2>6, <2>7, <2>8, <2>9 DEF ServerTypes
<1>2. Supervised'
  BY DEF ServerTypes, Supervised, Servers, Sups
<1>3. StopsInOrder'
  BY DEF ServerTypes, Supervised, StopsInOrder, S!Up, Sups, Watchdogs, Troubles
<1>4. AppsCounted'
  BY DEF ServerTypes, Supervised, StopsInOrder, AppsCounted, S!Up, Servers, Sups, Troubles
<1>5. QED
  BY <1>1, <1>2, <1>3, <1>4

LEMMA ServerCrashesKeeps == ASSUME ServerBounds, ServerInv, S!ServerCrashes PROVE ServerInv'
<1> USE DEF ServerBounds, ServerInv, S!ServerCrashes, S!Fails, S!Fail, AtWork, Serving
<1>1. ServerTypes'
  <2>1. server' \in Servers
    BY DEF ServerTypes, Servers, Supervised
  <2>2. sup' \in Sups
    BY DEF ServerTypes, Sups, Supervised
  <2>3. watchdog' \in Watchdogs
    BY DEF ServerTypes, Watchdogs
  <2>4. trouble' \in Troubles
    BY DEF ServerTypes, Troubles
  <2>5. apps' \in Nat
    BY DEF ServerTypes, AppsCounted, Troubles, Servers, S!Up
  <2>6. supervised' \in BOOLEAN /\ stopEvent' \in BOOLEAN /\ stopping' \in BOOLEAN
    BY DEF ServerTypes
  <2>7. serverState' \in {"starting", "running", "retrying", "failed", "stopped"}
    BY DEF ServerTypes
  <2>8. restart' \in {"none", "sleep", "stopping", "cancelling", "dropped", "done"}
    BY DEF ServerTypes
  <2>9. main' \in {"serving", "replying", "stopping", "cancelling", "closing", "aborted", "stopped"}
    BY DEF ServerTypes
  <2>10. QED
    BY <2>1, <2>2, <2>3, <2>4, <2>5, <2>6, <2>7, <2>8, <2>9 DEF ServerTypes
<1>2. Supervised'
  BY DEF ServerTypes, Supervised, Servers, Sups
<1>3. StopsInOrder'
  BY DEF ServerTypes, Supervised, StopsInOrder, S!Up, Sups, Watchdogs, Troubles
<1>4. AppsCounted'
  BY DEF ServerTypes, Supervised, StopsInOrder, AppsCounted, S!Up, Servers, Sups, Troubles
<1>5. QED
  BY <1>1, <1>2, <1>3, <1>4

LEMMA SimulatedExitKeeps == ASSUME ServerBounds, ServerInv, S!SimulatedExit PROVE ServerInv'
<1> USE DEF ServerBounds, ServerInv, S!SimulatedExit, S!Fails, S!Fail, AtWork, Serving
<1>1. ServerTypes'
  <2>1. server' \in Servers
    BY DEF ServerTypes, Servers, Supervised
  <2>2. sup' \in Sups
    BY DEF ServerTypes, Sups, Supervised
  <2>3. watchdog' \in Watchdogs
    BY DEF ServerTypes, Watchdogs
  <2>4. trouble' \in Troubles
    BY DEF ServerTypes, Troubles
  <2>5. apps' \in Nat
    BY DEF ServerTypes, AppsCounted, Troubles, Servers, S!Up
  <2>6. supervised' \in BOOLEAN /\ stopEvent' \in BOOLEAN /\ stopping' \in BOOLEAN
    BY DEF ServerTypes
  <2>7. serverState' \in {"starting", "running", "retrying", "failed", "stopped"}
    BY DEF ServerTypes
  <2>8. restart' \in {"none", "sleep", "stopping", "cancelling", "dropped", "done"}
    BY DEF ServerTypes
  <2>9. main' \in {"serving", "replying", "stopping", "cancelling", "closing", "aborted", "stopped"}
    BY DEF ServerTypes
  <2>10. QED
    BY <2>1, <2>2, <2>3, <2>4, <2>5, <2>6, <2>7, <2>8, <2>9 DEF ServerTypes
<1>2. Supervised'
  BY DEF ServerTypes, Supervised, Servers, Sups
<1>3. StopsInOrder'
  BY DEF ServerTypes, Supervised, StopsInOrder, S!Up, Sups, Watchdogs, Troubles
<1>4. AppsCounted'
  BY DEF ServerTypes, Supervised, StopsInOrder, AppsCounted, S!Up, Servers, Sups, Troubles
<1>5. QED
  BY <1>1, <1>2, <1>3, <1>4

LEMMA AttemptsKeeps == ASSUME ServerBounds, ServerInv, S!Attempts PROVE ServerInv'
<1> USE DEF ServerInv
<1>1. /\ S!Up /\ sup.at = "begin" /\ ~ sup.cancelled /\ server.at = "gone" /\ sup.attempts < MaxAttempts
      /\ UNCHANGED <<supervised, stopEvent, apps, restart, main, stopping, watchdog>>
  BY DEF S!Attempts, S!supOnly, Supervised, Serving
<1>2. /\ sup \in Sups /\ server \in Servers /\ trouble \in Troubles
      /\ sup.attempts + 1 \in 0 .. MaxAttempts /\ trouble.failures + 1 \in Nat
  BY <1>1 DEF ServerBounds, ServerTypes, Sups, Troubles
<1>3. CASE /\ server' = [at |-> "startup", exit |-> FALSE, result |-> "none"]
           /\ sup' = [sup EXCEPT !.at = "starting", !.attempts = @ + 1] /\ serverState' = "starting"
           /\ trouble' = [trouble EXCEPT !.overwritten = @ \/ server.at # "gone"]
  <2>1. server' \in Servers /\ server'.at = "startup"
    BY <1>3 DEF Servers
  <2>2. sup' \in Sups /\ sup'.at = "starting" /\ sup'.cancelled = sup.cancelled
    <3> DEFINE k == sup.attempts + 1
    <3>1. sup' = [sup EXCEPT !.at = "starting", !.attempts = k] /\ k \in 0 .. MaxAttempts
      BY <1>2, <1>3
    <3> HIDE DEF k
    <3>2. QED
      BY <1>2, <3>1 DEF Sups, AtWork
  <2>3. trouble' = trouble
    <3>1. trouble' = [trouble EXCEPT !.overwritten = FALSE] /\ trouble.overwritten = FALSE
      BY <1>1, <1>2, <1>3 DEF AppsCounted, Troubles
    <3>2. QED
      BY <1>2, <3>1 DEF Troubles
  <2>4. ServerTypes'
    BY <1>1, <1>2, <1>3, <2>1, <2>2, <2>3 DEF ServerTypes
  <2>5. Supervised'
    BY <1>1, <1>3, <2>1, <2>2 DEF Supervised, AtWork, Serving
  <2>6. StopsInOrder'
    BY <1>1, <2>2, <2>3 DEF StopsInOrder, AtWork, S!Up
  <2>7. AppsCounted'
    BY <1>1, <2>1, <2>3 DEF AppsCounted, S!Up
  <2>8. QED
    BY <2>4, <2>5, <2>6, <2>7
<1>4. CASE /\ trouble' = [trouble EXCEPT !.failures = @ + 1]
           /\ S!Decided(sup.attempts + 1) /\ UNCHANGED server
  <2>1. /\ sup' \in Sups /\ sup'.at \in {"waiting", "done"} /\ sup'.cancelled = sup.cancelled
        /\ sup'.at = "waiting" => sup'.attempts < MaxAttempts
        /\ serverState' \in {"stopped", "failed", "retrying"}
        /\ serverState' # "retrying" => sup'.at = "done"
    BY <1>2, <1>4, DecidedSup
  <2>2. trouble' \in Troubles /\ trouble'.leaked = trouble.leaked /\ trouble'.raced = trouble.raced
        /\ trouble'.overwritten = trouble.overwritten
    BY <1>2, <1>4 DEF Troubles
  <2>3. ServerTypes'
    BY <1>1, <1>2, <1>4, <2>1, <2>2 DEF ServerTypes
  <2>4. Supervised'
    BY <1>1, <1>4, <2>1 DEF Supervised, AtWork, Serving
  <2>5. StopsInOrder'
    BY <1>1, <2>1, <2>2 DEF StopsInOrder, AtWork, S!Up
  <2>6. AppsCounted'
    BY <1>1, <1>4, <2>2 DEF AppsCounted, S!Up
  <2>7. QED
    BY <2>3, <2>4, <2>5, <2>6
<1>5. QED
  BY <1>3, <1>4 DEF S!Attempts, S!Fail

LEMMA SeesStartedKeeps == ASSUME ServerBounds, ServerInv, S!SeesStarted PROVE ServerInv'
<1> USE DEF ServerBounds, ServerInv, S!SeesStarted, S!supOnly, AtWork, Serving
<1>1. ServerTypes'
  BY DEF ServerTypes, Servers, Sups, Watchdogs, Troubles
<1>2. Supervised'
  BY DEF ServerTypes, Supervised, Servers, Sups
<1>3. StopsInOrder'
  BY DEF ServerTypes, Supervised, StopsInOrder, S!Up, Sups, Watchdogs, Troubles
<1>4. AppsCounted'
  BY DEF ServerTypes, Supervised, StopsInOrder, AppsCounted, S!Up, Servers, Sups, Troubles
<1>5. QED
  BY <1>1, <1>2, <1>3, <1>4

LEMMA SeesGoneKeeps == ASSUME ServerBounds, ServerInv, S!SeesGone PROVE ServerInv'
<1> USE DEF ServerInv
<1>1. /\ S!Up /\ sup.at \in Serving /\ ~ sup.cancelled /\ server.at = "gone" /\ UNCHANGED <<server, trouble>>
      /\ UNCHANGED <<supervised, stopEvent, apps, restart, main, stopping, watchdog>>
  BY DEF S!SeesGone, S!supOnly, Serving
<1>2. PICK n \in 0 .. MaxAttempts : S!Decided(n)
  <2>1. sup.attempts \in 0 .. MaxAttempts /\ 0 \in 0 .. MaxAttempts
    BY DEF ServerTypes, Sups, ServerBounds
  <2>2. QED
    BY <2>1 DEF S!SeesGone
<1>3. /\ sup' \in Sups /\ sup'.at \in {"waiting", "done"} /\ sup'.cancelled = sup.cancelled
      /\ sup'.at = "waiting" => sup'.attempts < MaxAttempts
      /\ serverState' \in {"stopped", "failed", "retrying"}
      /\ serverState' # "retrying" => sup'.at = "done"
  BY <1>2, DecidedSup DEF ServerTypes
<1>4. ServerTypes'
  BY <1>1, <1>3 DEF ServerTypes
<1>5. Supervised'
  BY <1>1, <1>3 DEF Supervised, AtWork, Serving
<1>6. StopsInOrder'
  BY <1>1, <1>3 DEF StopsInOrder, AtWork, Serving, S!Up
<1>7. AppsCounted'
  BY <1>1 DEF AppsCounted, S!Up
<1>8. QED
  BY <1>4, <1>5, <1>6, <1>7

LEMMA WaitedKeeps == ASSUME ServerBounds, ServerInv, S!Waited PROVE ServerInv'
<1> USE DEF ServerBounds, ServerInv, S!Waited, S!supOnly, AtWork, Serving
<1>1. ServerTypes'
  BY DEF ServerTypes, Servers, Sups, Watchdogs, Troubles
<1>2. Supervised'
  BY DEF ServerTypes, Supervised, Servers, Sups
<1>3. StopsInOrder'
  BY DEF ServerTypes, Supervised, StopsInOrder, S!Up, Sups, Watchdogs, Troubles
<1>4. AppsCounted'
  BY DEF ServerTypes, Supervised, StopsInOrder, AppsCounted, S!Up, Servers, Sups, Troubles
<1>5. QED
  BY <1>1, <1>2, <1>3, <1>4

LEMMA CancelledKeeps == ASSUME ServerBounds, ServerInv, S!Cancelled PROVE ServerInv'
<1> USE DEF ServerBounds, ServerInv, S!Cancelled, S!supOnly, AtWork, Serving
<1>1. ServerTypes'
  BY DEF ServerTypes, Servers, Sups, Watchdogs, Troubles
<1>2. Supervised'
  BY DEF ServerTypes, Supervised, Servers, Sups
<1>3. StopsInOrder'
  BY DEF ServerTypes, Supervised, StopsInOrder, S!Up, Sups, Watchdogs, Troubles
<1>4. AppsCounted'
  BY DEF ServerTypes, Supervised, StopsInOrder, AppsCounted, S!Up, Servers, Sups, Troubles
<1>5. QED
  BY <1>1, <1>2, <1>3, <1>4

LEMMA RestartAskedKeeps == ASSUME ServerBounds, ServerInv, S!RestartAsked PROVE ServerInv'
<1> USE DEF ServerBounds, ServerInv, S!RestartAsked, AtWork, Serving
<1>1. ServerTypes'
  BY DEF ServerTypes, Servers, Sups, Watchdogs, Troubles
<1>2. Supervised'
  BY DEF ServerTypes, Supervised, Servers, Sups
<1>3. StopsInOrder'
  BY DEF ServerTypes, Supervised, StopsInOrder, S!Up, Sups, Watchdogs, Troubles
<1>4. AppsCounted'
  BY DEF ServerTypes, Supervised, StopsInOrder, AppsCounted, S!Up, Servers, Sups, Troubles
<1>5. QED
  BY <1>1, <1>2, <1>3, <1>4

LEMMA RestartBeginsKeeps == ASSUME ServerBounds, ServerInv, S!RestartBegins PROVE ServerInv'
<1> USE DEF ServerBounds, ServerInv, S!RestartBegins, S!Stop, AtWork, Serving
<1>1. ServerTypes'
  <2>1. server' \in Servers
    BY DEF ServerTypes, Servers, Supervised
  <2>2. sup' \in Sups
    BY DEF ServerTypes, Sups, Supervised
  <2>3. watchdog' \in Watchdogs
    BY DEF ServerTypes, Watchdogs
  <2>4. trouble' \in Troubles
    BY DEF ServerTypes, Troubles
  <2>5. apps' \in Nat
    BY DEF ServerTypes, AppsCounted, Troubles, Servers, S!Up
  <2>6. supervised' \in BOOLEAN /\ stopEvent' \in BOOLEAN /\ stopping' \in BOOLEAN
    BY DEF ServerTypes
  <2>7. serverState' \in {"starting", "running", "retrying", "failed", "stopped"}
    BY DEF ServerTypes
  <2>8. restart' \in {"none", "sleep", "stopping", "cancelling", "dropped", "done"}
    BY DEF ServerTypes
  <2>9. main' \in {"serving", "replying", "stopping", "cancelling", "closing", "aborted", "stopped"}
    BY DEF ServerTypes
  <2>10. QED
    BY <2>1, <2>2, <2>3, <2>4, <2>5, <2>6, <2>7, <2>8, <2>9 DEF ServerTypes
<1>2. Supervised'
  BY DEF ServerTypes, Supervised, Servers, Sups
<1>3. StopsInOrder'
  BY DEF ServerTypes, Supervised, StopsInOrder, S!Up, Sups, Watchdogs, Troubles
<1>4. AppsCounted'
  BY DEF ServerTypes, Supervised, StopsInOrder, AppsCounted, S!Up, Servers, Sups, Troubles
<1>5. QED
  BY <1>1, <1>2, <1>3, <1>4

LEMMA RestartTimesOutKeeps == ASSUME ServerBounds, ServerInv, S!RestartTimesOut PROVE ServerInv'
<1> USE DEF ServerBounds, ServerInv, S!RestartTimesOut, S!SupEnded, S!TimesOut, AtWork, Serving
<1>1. ServerTypes'
  <2>1. server' \in Servers
    BY DEF ServerTypes, Servers, Supervised
  <2>2. sup' \in Sups
    BY DEF ServerTypes, Sups, Supervised
  <2>3. watchdog' \in Watchdogs
    BY DEF ServerTypes, Watchdogs
  <2>4. trouble' \in Troubles
    BY DEF ServerTypes, Troubles
  <2>5. apps' \in Nat
    BY DEF ServerTypes, AppsCounted, Troubles, Servers, S!Up
  <2>6. supervised' \in BOOLEAN /\ stopEvent' \in BOOLEAN /\ stopping' \in BOOLEAN
    BY DEF ServerTypes
  <2>7. serverState' \in {"starting", "running", "retrying", "failed", "stopped"}
    BY DEF ServerTypes
  <2>8. restart' \in {"none", "sleep", "stopping", "cancelling", "dropped", "done"}
    BY DEF ServerTypes
  <2>9. main' \in {"serving", "replying", "stopping", "cancelling", "closing", "aborted", "stopped"}
    BY DEF ServerTypes
  <2>10. QED
    BY <2>1, <2>2, <2>3, <2>4, <2>5, <2>6, <2>7, <2>8, <2>9 DEF ServerTypes
<1>2. Supervised'
  BY DEF ServerTypes, Supervised, Servers, Sups
<1>3. StopsInOrder'
  BY DEF ServerTypes, Supervised, StopsInOrder, S!Up, Sups, Watchdogs, Troubles
<1>4. AppsCounted'
  BY DEF ServerTypes, Supervised, StopsInOrder, AppsCounted, S!Up, Servers, Sups, Troubles
<1>5. QED
  BY <1>1, <1>2, <1>3, <1>4

LEMMA RestartGoesOnKeeps == ASSUME ServerBounds, ServerInv, S!RestartGoesOn PROVE ServerInv'
<1> USE DEF ServerBounds, ServerInv, S!RestartGoesOn, S!SupEnded, S!NoServer, S!NoSup, AtWork, Serving
<1>1. ServerTypes'
  <2>1. server' \in Servers
    BY DEF ServerTypes, Servers, Supervised
  <2>2. sup' \in Sups
    BY SupBegins
  <2>3. watchdog' \in Watchdogs
    BY DEF ServerTypes, Watchdogs
  <2>4. trouble' \in Troubles
    BY DEF ServerTypes, Troubles
  <2>5. apps' \in Nat
    BY DEF ServerTypes, AppsCounted, Troubles, Servers, S!Up
  <2>6. supervised' \in BOOLEAN /\ stopEvent' \in BOOLEAN /\ stopping' \in BOOLEAN
    BY DEF ServerTypes
  <2>7. serverState' \in {"starting", "running", "retrying", "failed", "stopped"}
    BY DEF ServerTypes
  <2>8. restart' \in {"none", "sleep", "stopping", "cancelling", "dropped", "done"}
    BY DEF ServerTypes
  <2>9. main' \in {"serving", "replying", "stopping", "cancelling", "closing", "aborted", "stopped"}
    BY DEF ServerTypes
  <2>10. QED
    BY <2>1, <2>2, <2>3, <2>4, <2>5, <2>6, <2>7, <2>8, <2>9 DEF ServerTypes
<1>2. Supervised'
  BY DEF ServerTypes, Supervised, Servers, Sups
<1>3. StopsInOrder'
  BY DEF ServerTypes, Supervised, StopsInOrder, S!Up, Sups, Watchdogs, Troubles
<1>4. AppsCounted'
  BY DEF ServerTypes, Supervised, StopsInOrder, AppsCounted, S!Up, Servers, Sups, Troubles
<1>5. QED
  BY <1>1, <1>2, <1>3, <1>4

LEMMA RestartDroppedKeeps == ASSUME ServerBounds, ServerInv, S!RestartDropped PROVE ServerInv'
<1> USE DEF ServerBounds, ServerInv, S!RestartDropped, S!SupEnded, S!Forgets, S!NoServer, AtWork, Serving
<1>1. ServerTypes'
  BY DEF ServerTypes, Servers, Sups, Watchdogs, Troubles
<1>2. Supervised'
  BY DEF ServerTypes, Supervised, Servers, Sups
<1>3. StopsInOrder'
  BY DEF ServerTypes, Supervised, StopsInOrder, S!Up, Sups, Watchdogs, Troubles
<1>4. AppsCounted'
  BY DEF ServerTypes, Supervised, StopsInOrder, AppsCounted, S!Up, Servers, Sups, Troubles
<1>5. QED
  BY <1>1, <1>2, <1>3, <1>4

LEMMA StopAskedKeeps == ASSUME ServerBounds, ServerInv, S!StopAsked PROVE ServerInv'
<1> USE DEF ServerBounds, ServerInv, S!StopAsked, AtWork, Serving
<1>1. ServerTypes'
  BY DEF ServerTypes, Servers, Sups, Watchdogs, Troubles
<1>2. Supervised'
  BY DEF ServerTypes, Supervised, Servers, Sups
<1>3. StopsInOrder'
  BY DEF ServerTypes, Supervised, StopsInOrder, S!Up, Sups, Watchdogs, Troubles
<1>4. AppsCounted'
  BY DEF ServerTypes, Supervised, StopsInOrder, AppsCounted, S!Up, Servers, Sups, Troubles
<1>5. QED
  BY <1>1, <1>2, <1>3, <1>4

LEMMA StopsServerKeeps == ASSUME ServerBounds, ServerInv, S!StopsServer PROVE ServerInv'
<1> USE DEF ServerBounds, ServerInv, S!StopsServer, S!DropsRestart, S!Stop, S!SupEnded, AtWork, Serving
<1>1. ServerTypes'
  BY DEF ServerTypes, Servers, Sups, Watchdogs, Troubles
<1>2. Supervised'
  BY DEF ServerTypes, Supervised, Servers, Sups
<1>3. StopsInOrder'
  BY DEF ServerTypes, Supervised, StopsInOrder, S!Up, Sups, Watchdogs, Troubles
<1>4. AppsCounted'
  BY DEF ServerTypes, Supervised, StopsInOrder, AppsCounted, S!Up, Servers, Sups, Troubles
<1>5. QED
  BY <1>1, <1>2, <1>3, <1>4

LEMMA StopTimesOutKeeps == ASSUME ServerBounds, ServerInv, S!StopTimesOut PROVE ServerInv'
<1> USE DEF ServerBounds, ServerInv, S!StopTimesOut, S!SupEnded, S!TimesOut, AtWork, Serving
<1>1. ServerTypes'
  <2>1. server' \in Servers
    BY DEF ServerTypes, Servers, Supervised
  <2>2. sup' \in Sups
    BY DEF ServerTypes, Sups, Supervised
  <2>3. watchdog' \in Watchdogs
    BY DEF ServerTypes, Watchdogs
  <2>4. trouble' \in Troubles
    BY DEF ServerTypes, Troubles
  <2>5. apps' \in Nat
    BY DEF ServerTypes, AppsCounted, Troubles, Servers, S!Up
  <2>6. supervised' \in BOOLEAN /\ stopEvent' \in BOOLEAN /\ stopping' \in BOOLEAN
    BY DEF ServerTypes
  <2>7. serverState' \in {"starting", "running", "retrying", "failed", "stopped"}
    BY DEF ServerTypes
  <2>8. restart' \in {"none", "sleep", "stopping", "cancelling", "dropped", "done"}
    BY DEF ServerTypes
  <2>9. main' \in {"serving", "replying", "stopping", "cancelling", "closing", "aborted", "stopped"}
    BY DEF ServerTypes
  <2>10. QED
    BY <2>1, <2>2, <2>3, <2>4, <2>5, <2>6, <2>7, <2>8, <2>9 DEF ServerTypes
<1>2. Supervised'
  BY DEF ServerTypes, Supervised, Servers, Sups
<1>3. StopsInOrder'
  BY DEF ServerTypes, Supervised, StopsInOrder, S!Up, Sups, Watchdogs, Troubles
<1>4. AppsCounted'
  BY DEF ServerTypes, Supervised, StopsInOrder, AppsCounted, S!Up, Servers, Sups, Troubles
<1>5. QED
  BY <1>1, <1>2, <1>3, <1>4

LEMMA ServerStoppedKeeps == ASSUME ServerBounds, ServerInv, S!ServerStopped PROVE ServerInv'
<1> USE DEF ServerBounds, ServerInv, S!ServerStopped, S!SupEnded, S!Forgets, S!NoServer, AtWork, Serving
<1>1. ServerTypes'
  BY DEF ServerTypes, Servers, Sups, Watchdogs, Troubles
<1>2. Supervised'
  BY DEF ServerTypes, Supervised, Servers, Sups
<1>3. StopsInOrder'
  BY DEF ServerTypes, Supervised, StopsInOrder, S!Up, Sups, Watchdogs, Troubles
<1>4. AppsCounted'
  BY DEF ServerTypes, Supervised, StopsInOrder, AppsCounted, S!Up, Servers, Sups, Troubles
<1>5. QED
  BY <1>1, <1>2, <1>3, <1>4

LEMMA ClosesKeeps == ASSUME ServerBounds, ServerInv, S!Closes PROVE ServerInv'
<1> USE DEF ServerBounds, ServerInv, S!Closes, AtWork, Serving
<1>1. ServerTypes'
  <2>1. server' \in Servers
    BY DEF ServerTypes, Servers, Supervised
  <2>2. sup' \in Sups
    BY DEF ServerTypes, Sups, Supervised
  <2>3. watchdog' \in Watchdogs
    BY DEF ServerTypes, Watchdogs
  <2>4. trouble' \in Troubles
    BY DEF ServerTypes, Troubles
  <2>5. apps' \in Nat
    BY DEF ServerTypes, AppsCounted, Troubles, Servers, S!Up
  <2>6. supervised' \in BOOLEAN /\ stopEvent' \in BOOLEAN /\ stopping' \in BOOLEAN
    BY DEF ServerTypes
  <2>7. serverState' \in {"starting", "running", "retrying", "failed", "stopped"}
    BY DEF ServerTypes
  <2>8. restart' \in {"none", "sleep", "stopping", "cancelling", "dropped", "done"}
    BY DEF ServerTypes
  <2>9. main' \in {"serving", "replying", "stopping", "cancelling", "closing", "aborted", "stopped"}
    BY DEF ServerTypes
  <2>10. QED
    BY <2>1, <2>2, <2>3, <2>4, <2>5, <2>6, <2>7, <2>8, <2>9 DEF ServerTypes
<1>2. Supervised'
  BY DEF ServerTypes, Supervised, Servers, Sups
<1>3. StopsInOrder'
  BY DEF ServerTypes, Supervised, StopsInOrder, S!Up, Sups, Watchdogs, Troubles
<1>4. AppsCounted'
  BY DEF ServerTypes, Supervised, StopsInOrder, AppsCounted, S!Up, Servers, Sups, Troubles
<1>5. QED
  BY <1>1, <1>2, <1>3, <1>4

LEMMA WatchdogRestartsKeeps == ASSUME ServerBounds, ServerInv, S!WatchdogRestarts PROVE ServerInv'
<1> USE DEF ServerBounds, ServerInv, S!WatchdogRestarts, S!NoServer, S!NoSup, AtWork, Serving
<1>1. ServerTypes'
  <2>1. server' \in Servers
    BY DEF ServerTypes, Servers, Supervised
  <2>2. sup' \in Sups
    BY SupBegins
  <2>3. watchdog' \in Watchdogs
    BY DEF ServerTypes, Watchdogs
  <2>4. trouble' \in Troubles
    BY DEF ServerTypes, Troubles
  <2>5. apps' \in Nat
    BY DEF ServerTypes, AppsCounted, Troubles, Servers, S!Up
  <2>6. supervised' \in BOOLEAN /\ stopEvent' \in BOOLEAN /\ stopping' \in BOOLEAN
    BY DEF ServerTypes
  <2>7. serverState' \in {"starting", "running", "retrying", "failed", "stopped"}
    BY DEF ServerTypes
  <2>8. restart' \in {"none", "sleep", "stopping", "cancelling", "dropped", "done"}
    BY DEF ServerTypes
  <2>9. main' \in {"serving", "replying", "stopping", "cancelling", "closing", "aborted", "stopped"}
    BY DEF ServerTypes
  <2>10. QED
    BY <2>1, <2>2, <2>3, <2>4, <2>5, <2>6, <2>7, <2>8, <2>9 DEF ServerTypes
<1>2. Supervised'
  BY DEF ServerTypes, Supervised, Servers, Sups
<1>3. StopsInOrder'
  BY DEF ServerTypes, Supervised, StopsInOrder, S!Up, Sups, Watchdogs, Troubles
<1>4. AppsCounted'
  BY DEF ServerTypes, Supervised, StopsInOrder, AppsCounted, S!Up, Servers, Sups, Troubles
<1>5. QED
  BY <1>1, <1>2, <1>3, <1>4

LEMMA ServerInitInv == ASSUME ServerBounds, S!Init PROVE ServerInv
<1>1. /\ server.at = "gone" /\ server.exit = FALSE /\ server.result = "none" /\ server \in Servers
  BY DEF S!Init, S!NoServer, Servers
<1>2. sup \in Sups /\ sup.at = "begin" /\ sup.attempts = 0 /\ sup.cancelled = FALSE
  BY SupBegins DEF S!Init
<1>3. trouble \in Troubles /\ trouble.leaked = 0 /\ trouble.overwritten = FALSE
  BY DEF S!Init, Troubles
<1>4. watchdog \in Watchdogs /\ watchdog.restarts = 0 /\ apps = 0 /\ main = "serving" /\ supervised
      /\ restart = "none" /\ serverState = "starting"
  BY DEF S!Init, Watchdogs
<1>5. ServerTypes
  <2>1. supervised \in BOOLEAN /\ stopEvent \in BOOLEAN /\ stopping \in BOOLEAN
    BY DEF S!Init
  <2>2. apps \in Nat
    BY <1>4
  <2>3. QED
    BY <1>1, <1>2, <1>3, <1>4, <2>1, <2>2 DEF ServerTypes
<1>6. Supervised
  BY <1>1, <1>2, <1>4 DEF Supervised, ServerBounds
<1>7. StopsInOrder
  BY <1>2, <1>4 DEF StopsInOrder, S!Up
<1>8. AppsCounted
  BY <1>1, <1>3, <1>4 DEF AppsCounted
<1>9. QED
  BY <1>5, <1>6, <1>7, <1>8 DEF ServerInv

LEMMA ServerNextKeeps == ASSUME ServerBounds, ServerInv, [S!Next]_S!vars PROVE ServerInv'
<1>1. CASE S!ServerStarts \/ S!ServerCloses \/ S!ServerEnds \/ S!ServerCrashes \/ S!SimulatedExit
  BY <1>1, ServerStartsKeeps, ServerClosesKeeps, ServerEndsKeeps, ServerCrashesKeeps, SimulatedExitKeeps
<1>2. CASE S!Attempts \/ S!SeesStarted \/ S!SeesGone \/ S!Waited \/ S!Cancelled
  BY <1>2, AttemptsKeeps, SeesStartedKeeps, SeesGoneKeeps, WaitedKeeps, CancelledKeeps
<1>3. CASE S!RestartAsked \/ S!RestartBegins \/ S!RestartTimesOut \/ S!RestartGoesOn \/ S!RestartDropped
  BY <1>3, RestartAskedKeeps, RestartBeginsKeeps, RestartTimesOutKeeps, RestartGoesOnKeeps, RestartDroppedKeeps
<1>4. CASE \/ S!StopAsked \/ S!StopsServer \/ S!StopTimesOut \/ S!ServerStopped \/ S!Closes
           \/ S!WatchdogRestarts
  BY <1>4, StopAskedKeeps, StopsServerKeeps, StopTimesOutKeeps, ServerStoppedKeeps, ClosesKeeps,
     WatchdogRestartsKeeps
<1>5. CASE UNCHANGED S!vars
  BY <1>5 DEF S!vars, ServerInv, ServerTypes, Supervised, StopsInOrder, AppsCounted, S!Up
<1>6. QED
  BY <1>1, <1>2, <1>3, <1>4, <1>5 DEF S!Next

LEMMA ServerInvGives == ASSUME ServerInv PROVE S!ServerTrue
<1> USE DEF ServerInv
<1>1. S!TypeOK
  BY DEF ServerTypes, Sups, S!TypeOK
<1>2. S!OneServer
  BY DEF AppsCounted, S!OneServer
<1>3. server.at # "gone" => sup.at \in {"starting", "running"}
  BY DEF Supervised, Serving
<1>4. S!StateTrue
  BY <1>3 DEF Supervised, AtWork, Serving, S!StateTrue
<1>5. S!QuietAtEnd
  BY <1>3 DEF StopsInOrder, AtWork, S!QuietAtEnd
<1>6. S!StopIsFinal
  BY DEF StopsInOrder, S!StopIsFinal
<1>7. QED
  BY <1>1, <1>2, <1>4, <1>5, <1>6 DEF S!ServerTrue

(* At any time there is one HTTP server; the status of the manager says     *)
(* what it does; none is left, and none comes up, once the manager closes;  *)
(* and a manager that was asked to stop comes back only if that dropped a   *)
(* restart which waited for its supervisor: for any number of attempts,     *)
(* requests and failures (manager/http_server.py and manager_stop).         *)
THEOREM ServerHolds == ASSUME ServerBounds PROVE SpecAll => []ServerTrue
<1> DEFINE Mine == part = "server" => ServerInv
<1>1. InitAll => Mine
  BY ServerInitInv DEF InitAll
<1>2. Mine /\ [NextAll]_everything => Mine'
  <2> SUFFICES ASSUME Mine, [NextAll]_everything PROVE Mine'
    OBVIOUS
  <2>1. part' = part
    BY DEF NextAll, everything
  <2>2. part = "server" => [S!Next]_S!vars
    BY DEF NextAll, everything, serving, S!vars
  <2>3. QED
    BY <2>1, <2>2, ServerNextKeeps
<1>3. Mine => ServerTrue
  BY ServerInvGives DEF ServerTrue
<1> HIDE DEF Mine
<1>4. QED
  BY <1>1, <1>2, <1>3, PTL DEF SpecAll

=============================================================================

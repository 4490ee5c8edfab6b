------------------------------ MODULE HttpAccess ------------------------------
(* Who may do what at the HTTP server: the access control data that a server  *)
(* is asked for (authorization/api_access.py), logins with a password, with a *)
(* code of the provider and with a device code, sessions and their tokens,    *)
(* API keys (authentication.py, database/core.py).                            *)
(*                                                                            *)
(* Logins run their database steps in a thread of the executor, and refresh,  *)
(* revoke and the keys in threads of the pool, so steps of two of them        *)
(* interleave; the device code routes are coroutines and atomic between       *)
(* awaits.  Tokens are signed: a client has what it was given.  Not modelled: *)
(* cookies, headers, the pages shown to a browser.                            *)
EXTENDS Naturals, Sequences

CONSTANTS
    User, Nobody,
    Login,           \* handlers of logins at work at the same time
    Role, Defaults,  \* the default scopes of a role
    Changes,         \* Role -> [set, add, remove], the configured changes
    ServerAnswers,         \* what the access control server may answer: groups of users
    LoginKinds,           \* Login -> ways of logging in: password, device code, external token
    Requests,        \* scopes that may be asked for with a key; << >>: none named
    UpdatePeriod, Expiration, SessionAge, AccessAge, RefreshAge, CodeAge, KeyAge,
    MaxTime, MaxSessions, MaxKeys, MaxCodes, MaxFailures, MaxRequests

Kind == {"password", "device", "external"}

(* A session lives longer than the code of a device that waits for it.        *)
ASSUME AccessAssumption ==
    /\ UpdatePeriod \in Nat /\ Expiration \in Nat
    /\ SessionAge \in Nat /\ AccessAge \in Nat /\ RefreshAge \in Nat /\ CodeAge \in Nat /\ KeyAge \in Nat
    /\ MaxSessions \in Nat /\ MaxKeys \in Nat /\ MaxCodes \in Nat
    /\ CodeAge <= SessionAge
    /\ \A l \in Login : LoginKinds[l] \subseteq Kind

VARIABLES
    clock,
    access,      \* users: roles of the known users, expires, and next update
    identities,  \* User -> principal, 0: never logged in
    principals,  \* how many there are
    sessions, keys, pending,  \* rows of the database; pending: the device code
    tokens,      \* session -> until when its newest access and refresh tokens live
    logins, refreshing,       \* handlers at work
    seen         \* history: requests, failures, and how often a code was given

vars == <<clock, access, identities, principals, sessions, keys, pending, tokens, logins, refreshing, seen>>

Idle      == [at |-> "idle", user |-> Nobody, kind |-> "password", code |-> 0, principal |-> 0, session |-> 0]
NoPending == [id |-> 0, live |-> FALSE, expires |-> 0, session |-> 0]
NoTokens  == [access |-> 0, refresh |-> 0]

-----------------------------------------------------------------------------
(* The scopes of a role: set, then add, then remove.                          *)
RoleScopes(r) ==
    ((IF Changes[r].set # << >> THEN Changes[r].set[1] ELSE Defaults[r]) \cup Changes[r].add)
        \ Changes[r].remove

Known(u)      == access.users[u] # {}
UserScopes(u) == UNION {RoleScopes(r) : r \in access.users[u]}

(* The users behind a principal that are known now.                           *)
Usernames(p)       == {u \in User : identities[u] = p /\ Known(u)}
PrincipalScopes(p) == UNION {UserScopes(u) : u \in Usernames(p)}

(* What a key confers: its scopes as far as the principal still has them.     *)
Conferred(p, scopes) ==
    LET own == scopes \cap (PrincipalScopes(p) \cup {"inherit"})
    IN  IF "inherit" \in own THEN PrincipalScopes(p) ELSE own

KeyScopes(k) ==
    IF Usernames(keys[k].principal) = {} THEN {} ELSE Conferred(keys[k].principal, keys[k].scopes)

KeyValid(k)     == ~keys[k].gone /\ ~(keys[k].expires # 0 /\ keys[k].expires < clock)
TokenValid(s)   == tokens[s].access >= clock /\ s <= Len(sessions)
SessionLives(s) == ~sessions[s].gone /\ ~(sessions[s].expires < clock)

Init ==
    /\ clock = 1
    /\ access = [users |-> [u \in User |-> {}], expires |-> 1, next |-> 1]
    /\ identities = [u \in User |-> 0] /\ principals = 0
    /\ sessions = << >> /\ keys = << >> /\ pending = NoPending
    /\ tokens = [s \in 1..MaxSessions |-> NoTokens]
    /\ logins = [l \in Login |-> Idle] /\ refreshing = 0
    /\ seen = [requests |-> 0, failures |-> 0, given |-> [c \in 1..MaxCodes |-> 0]]

dbOnly == UNCHANGED <<clock, access>>

(* The requests of clients are bounded.                                       *)
Requested ==
    /\ seen.requests < MaxRequests
    /\ seen' = [seen EXCEPT !.requests = @ + 1]

(* Time passes; what is due happens first, and database steps are short.      *)
Tick ==
    /\ clock < MaxTime /\ access.next > clock /\ refreshing = 0
    /\ clock' = clock + 1
    /\ UNCHANGED <<access, identities, principals, sessions, keys, pending, tokens, logins, refreshing, seen>>

-----------------------------------------------------------------------------
(* The access control data is asked for once a period, plus or minus a part.  *)
NextUpdate == {clock + UpdatePeriod, clock + UpdatePeriod + 1}

(* Roles that are not known are ignored.                                      *)
InfoOf(groups) == [u \in User |-> {r \in Role \cap DOMAIN groups : u \in groups[r]}]

Updated ==
    /\ clock >= access.next
    /\ \E groups \in ServerAnswers, n \in NextUpdate :
           access' = [users |-> InfoOf(groups), expires |-> clock + Expiration, next |-> n]
    /\ UNCHANGED <<clock, identities, principals, sessions, keys, pending, tokens, logins, refreshing, seen>>

(* No answer, or one that makes no sense: users are cleared once the data is  *)
(* out of date.                                                               *)
UpdateFails ==
    /\ clock >= access.next
    /\ \E n \in NextUpdate :
           access' = [access EXCEPT !.next = n,
                                    !.users = IF clock > access.expires THEN [u \in User |-> {}] ELSE @]
    /\ UNCHANGED <<clock, identities, principals, sessions, keys, pending, tokens, logins, refreshing, seen>>

-----------------------------------------------------------------------------
(* Logins: with a password or a code of the provider (a session and tokens),  *)
(* with a device code (a session for the client that polls), with a token of  *)
(* an external provider (a principal only).                                   *)
Begins(l, u, kind) ==
    /\ Requested
    /\ logins[l] = Idle
    /\ kind = "device" => pending.live /\ clock <= pending.expires
    /\ logins' = [logins EXCEPT ![l] = [Idle EXCEPT !.at = "authenticate", !.user = u, !.kind = kind,
                                            !.code = IF kind = "device" THEN pending.id ELSE 0]]
    /\ dbOnly /\ UNCHANGED <<identities, principals, sessions, keys, pending, tokens, refreshing>>

(* The form for a code that was not stored or is out of date.                 *)
FormRefused ==
    /\ pending.live /\ clock > pending.expires
    /\ pending' = [pending EXCEPT !.live = FALSE]
    /\ dbOnly /\ UNCHANGED <<identities, principals, sessions, keys, tokens, logins, refreshing, seen>>

(* Whom the provider does not confirm, or who has no access here, is refused; *)
(* a token of an external provider is enough of itself.                       *)
Authenticated(l) ==
    /\ logins[l].at = "authenticate"
    /\ \E confirmed \in BOOLEAN :
           logins' = [logins EXCEPT ![l] =
                         IF confirmed /\ (logins[l].kind = "external" \/ Known(logins[l].user))
                         THEN [@ EXCEPT !.at = "find"] ELSE Idle]
    /\ dbOnly /\ UNCHANGED <<identities, principals, sessions, keys, pending, tokens, refreshing, seen>>

(* A login with an external token needs no session.                           *)
Identified(l, p) ==
    IF logins[l].kind = "external" THEN Idle ELSE [logins[l] EXCEPT !.at = "session", !.principal = p]

FindsIdentity(l) ==
    /\ logins[l].at = "find"
    /\ LET p == identities[logins[l].user]
       IN  logins' = [logins EXCEPT ![l] = IF p # 0 THEN Identified(l, p) ELSE [@ EXCEPT !.at = "principal"]]
    /\ dbOnly /\ UNCHANGED <<identities, principals, sessions, keys, pending, tokens, refreshing, seen>>

(* A new principal is committed before its identity ...                       *)
AddsPrincipal(l) ==
    /\ logins[l].at = "principal"
    /\ principals' = principals + 1
    /\ logins' = [logins EXCEPT ![l] = [@ EXCEPT !.at = "identity", !.principal = principals + 1]]
    /\ dbOnly /\ UNCHANGED <<identities, sessions, keys, pending, tokens, refreshing, seen>>

AddsIdentity_Again(l) ==
    /\ logins[l].at = "identity"
    /\ identities' = [identities EXCEPT ![logins[l].user] = logins[l].principal]
    /\ logins' = [logins EXCEPT ![l] = Identified(l, logins[l].principal)]
    /\ dbOnly /\ UNCHANGED <<principals, sessions, keys, pending, tokens, refreshing, seen>>

(* ... which somebody else may have added in between: the request fails.      *)
AddsIdentity(l) ==
    /\ logins[l].at = "identity"
    /\ IF identities[logins[l].user] = 0
       THEN /\ identities' = [identities EXCEPT ![logins[l].user] = logins[l].principal]
            /\ logins' = [logins EXCEPT ![l] = Identified(l, logins[l].principal)]
       ELSE /\ logins' = [logins EXCEPT ![l] = Idle]
            /\ UNCHANGED identities
    /\ dbOnly /\ UNCHANGED <<principals, sessions, keys, pending, tokens, refreshing, seen>>

(* The tokens that are made for a session.                                    *)
NewTokens == [access |-> clock + AccessAge, refresh |-> clock + RefreshAge]

AddsSession(l) ==
    /\ logins[l].at = "session" /\ Len(sessions) < MaxSessions
    /\ sessions' = Append(sessions, [principal |-> logins[l].principal, user |-> logins[l].user,
                                     expires |-> clock + SessionAge, revoked |-> FALSE, gone |-> FALSE,
                                     ended |-> 0])
    /\ IF logins[l].kind = "device"
       THEN /\ logins' = [logins EXCEPT ![l] = [@ EXCEPT !.at = "link", !.session = Len(sessions) + 1]]
            /\ UNCHANGED tokens
       ELSE /\ logins' = [logins EXCEPT ![l] = Idle]
            /\ tokens' = [tokens EXCEPT ![Len(sessions) + 1] = NewTokens]
    /\ dbOnly /\ UNCHANGED <<identities, principals, keys, pending, refreshing, seen>>

(* The session is given to who polls with the device code, if that is still   *)
(* there: the update of a row that is gone fails.                             *)
Links(l) ==
    /\ logins[l].at = "link"
    /\ pending' = IF pending.live /\ pending.id = logins[l].code
                  THEN [pending EXCEPT !.session = logins[l].session] ELSE pending
    /\ logins' = [logins EXCEPT ![l] = Idle]
    /\ dbOnly /\ UNCHANGED <<identities, principals, sessions, keys, tokens, refreshing, seen>>

(* A step in the database fails: the request does, and what is committed stays. *)
LoginFails(l) ==
    /\ logins[l].at \in {"find", "principal", "identity", "session", "link"}
    /\ seen.failures < MaxFailures
    /\ logins' = [logins EXCEPT ![l] = Idle]
    /\ seen' = [seen EXCEPT !.failures = @ + 1]
    /\ dbOnly /\ UNCHANGED <<identities, principals, sessions, keys, pending, tokens, refreshing>>

-----------------------------------------------------------------------------
(* Device codes: asked for, then polled until there is a session.             *)
CodeAsked ==
    /\ Requested
    /\ pending.id < MaxCodes /\ ~pending.live
    /\ pending' = [id |-> pending.id + 1, live |-> TRUE, expires |-> clock + CodeAge, session |-> 0]
    /\ dbOnly /\ UNCHANGED <<identities, principals, sessions, keys, tokens, logins, refreshing>>

Polled ==
    /\ pending.live
    /\ \/ clock > pending.expires
          /\ pending' = [pending EXCEPT !.live = FALSE] /\ UNCHANGED <<tokens, seen>>
       \/ clock <= pending.expires /\ pending.session # 0 /\ ~sessions[pending.session].gone
          /\ pending' = [pending EXCEPT !.live = FALSE]
          /\ tokens' = [tokens EXCEPT ![pending.session] = NewTokens]
          /\ seen' = [seen EXCEPT !.given[pending.id] = @ + 1]
    /\ dbOnly /\ UNCHANGED <<identities, principals, sessions, keys, logins, refreshing>>

-----------------------------------------------------------------------------
(* A session is looked up with its refresh token; an expired one is deleted.  *)
RefreshAsked(s) ==
    /\ Requested
    /\ refreshing = 0 /\ s <= Len(sessions) /\ tokens[s].refresh >= clock
    /\ SessionLives(s) /\ ~sessions[s].revoked
    /\ refreshing' = s
    /\ dbOnly /\ UNCHANGED <<identities, principals, sessions, keys, pending, tokens, logins>>

(* New tokens, unless nobody behind the principal has access any more.        *)
RefreshAnswered ==
    /\ refreshing # 0 /\ refreshing' = 0
    /\ tokens' = IF Usernames(sessions[refreshing].principal) = {} THEN tokens
                 ELSE [tokens EXCEPT ![refreshing] = NewTokens]
    /\ dbOnly /\ UNCHANGED <<identities, principals, sessions, keys, pending, logins, seen>>

(* A user revokes one of the user's own sessions, with a token of any of them: *)
(* the refresh token says which session it is.                                *)
Revokes(s, by) ==
    /\ Requested
    /\ s <= Len(sessions) /\ tokens[s] # NoTokens /\ TokenValid(by) /\ SessionLives(s)
    /\ sessions[by].principal = sessions[s].principal
    /\ sessions' = [sessions EXCEPT ![s].revoked = TRUE, ![s].ended = IF @ = 0 THEN clock ELSE @]
    /\ dbOnly /\ UNCHANGED <<identities, principals, keys, pending, tokens, logins, refreshing>>

(* What expired is deleted: all of it now and then, and one when it is used.  *)
Deleted ==
    /\ \/ \E s \in DOMAIN sessions : ~sessions[s].gone /\ sessions[s].expires < clock
       \/ \E k \in DOMAIN keys : ~keys[k].gone /\ ~KeyValid(k)
    /\ sessions' = [s \in DOMAIN sessions |->
                       IF sessions[s].expires < clock THEN [sessions[s] EXCEPT !.gone = TRUE] ELSE sessions[s]]
    /\ keys' = [k \in DOMAIN keys |-> IF KeyValid(k) THEN keys[k] ELSE [keys[k] EXCEPT !.gone = TRUE]]
    /\ dbOnly /\ UNCHANGED <<identities, principals, pending, tokens, logins, refreshing, seen>>

-----------------------------------------------------------------------------
(* API keys.  allowed: scopes of the request, source: scopes of the key that  *)
(* it was made with, << >> for a token.                                       *)
Grantable(allowed, source) ==
    IF source # << >> /\ "inherit" \notin source[1] THEN source[1] ELSE allowed

Asked(requested, source) ==
    IF requested = << >> \/ "inherit" \in requested[1]
    THEN IF source = << >> \/ "inherit" \in source[1] THEN {"inherit"} ELSE source[1]
    ELSE requested[1]

NewKey(p, allowed, source, from) ==
    /\ Requested
    /\ Len(keys) < MaxKeys
    /\ \E requested \in Requests, expires \in {0, clock + KeyAge} :
           /\ Asked(requested, source) \subseteq Grantable(allowed, source) \cup {"inherit"}
           /\ keys' = Append(keys, [principal |-> p, scopes |-> Asked(requested, source), expires |-> expires,
                                    from |-> from, gone |-> FALSE])
    /\ dbOnly /\ UNCHANGED <<identities, principals, sessions, pending, tokens, logins, refreshing>>

KeyWithToken(s) ==
    /\ TokenValid(s)
    /\ "user:apikeys" \in PrincipalScopes(sessions[s].principal)
    /\ NewKey(sessions[s].principal, PrincipalScopes(sessions[s].principal), << >>, 0)

KeyWithKey(k) ==
    /\ KeyValid(k) /\ "user:apikeys" \in KeyScopes(k)
    /\ NewKey(keys[k].principal, KeyScopes(k), <<keys[k].scopes>>, k)

(* An administrator makes a key for somebody else.                            *)
KeyForPrincipal(s, p) ==
    /\ TokenValid(s) /\ "admin:apikeys" \in PrincipalScopes(sessions[s].principal)
    /\ \E u \in User : identities[u] = p
    /\ NewKey(p, PrincipalScopes(p), << >>, 0)

RevokesKey(k, s) ==
    /\ Requested
    /\ TokenValid(s) /\ ~keys[k].gone /\ keys[k].principal = sessions[s].principal
    /\ "user:apikeys" \in PrincipalScopes(sessions[s].principal)
    /\ keys' = [keys EXCEPT ![k].gone = TRUE]
    /\ dbOnly /\ UNCHANGED <<identities, principals, sessions, pending, tokens, logins, refreshing>>

-----------------------------------------------------------------------------
Next ==
    \/ Tick \/ Updated \/ UpdateFails \/ FormRefused \/ CodeAsked \/ Polled \/ RefreshAnswered \/ Deleted
    \/ \E l \in Login :
          \/ \E u \in User, kind \in LoginKinds[l] : Begins(l, u, kind)
          \/ Authenticated(l) \/ FindsIdentity(l) \/ AddsPrincipal(l) \/ AddsIdentity(l)
          \/ AddsSession(l) \/ Links(l) \/ LoginFails(l)
    \/ \E s \in DOMAIN sessions : RefreshAsked(s) \/ KeyWithToken(s)
    \/ \E s, by \in DOMAIN sessions : Revokes(s, by)
    \/ \E k \in DOMAIN keys : KeyWithKey(k)
    \/ \E k \in DOMAIN keys, s \in DOMAIN sessions : RevokesKey(k, s)
    \/ \E s \in DOMAIN sessions, p \in 1..principals : KeyForPrincipal(s, p)

Spec == Init /\ [][Next]_vars

-----------------------------------------------------------------------------
TypeOK ==
    /\ \A u \in User : access.users[u] \subseteq Role /\ identities[u] \in 0..principals
    /\ Len(sessions) <= MaxSessions /\ Len(keys) <= MaxKeys /\ pending.session \in 0..Len(sessions)

(* A session belongs to the one principal of its user, whatever logins raced. *)
OnePrincipal ==
    /\ \A s \in DOMAIN sessions : identities[sessions[s].user] = sessions[s].principal
    /\ \A u, v \in User : u # v /\ identities[u] # 0 => identities[u] # identities[v]

(* The tokens for a device code are given once.                               *)
CodeUsedOnce == \A c \in 1..MaxCodes : seen.given[c] <= 1

(* The last access token of a session that was revoked, or that expired, dies *)
(* within the age of such tokens.                                             *)
SessionsEnd ==
    \A s \in DOMAIN sessions :
        /\ sessions[s].revoked => tokens[s].access <= sessions[s].ended + AccessAge
        /\ tokens[s].access <= sessions[s].expires + AccessAge

(* A key never confers more than the key it was made with, nor more than its  *)
(* principal has now.                                                         *)
KeysWithin ==
    \A k \in DOMAIN keys :
        /\ KeyScopes(k) \subseteq PrincipalScopes(keys[k].principal)
        /\ keys[k].from # 0 => KeyScopes(k) \subseteq KeyScopes(keys[k].from)

(* Access data that is out of date for more than an update is not used.       *)
AccessExpires ==
    clock > access.expires + UpdatePeriod + 1 => \A u \in User : ~Known(u)

AccessTrue == TypeOK /\ OnePrincipal /\ CodeUsedOnce /\ SessionsEnd /\ KeysWithin /\ AccessExpires
=============================================================================

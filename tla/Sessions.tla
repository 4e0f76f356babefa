------------------------------ MODULE Sessions ------------------------------
(***************************************************************************)
(* Sessions of the Auth service (apps/auth/src/auth.service.ts): login,    *)
(* verify, refresh, logout and the nightly clean-up, with the Redis copies *)
(* session:<id>. A JWT names a session; the gateway's guard verifies that  *)
(* session on every request, the logout request included.                  *)
(*                                                                         *)
(* Every statement on the table and every call to Redis or to Users is a   *)
(* step of its own, requests run concurrently on any number of replicas,   *)
(* and a request may end early: refused, failed, or with its process.      *)
(* Refresh tokens are numbers in the order a session issues them.          *)
(***************************************************************************)
EXTENDS Naturals

CONSTANTS
  SessionIds,   \* random UUIDs, never used twice
  Requests,     \* requests that can be in progress at the same time
  Ttl,          \* life time a login or a refresh grants
  MaxNow,       \* bound of the clock
  MaxToken,     \* bound of the refresh tokens of one session
  RedisFails,   \* may calls to Redis fail?
  None

ASSUME SessionsAssumption ==
  /\ Ttl \in Nat \ {0}
  /\ MaxNow \in Nat
  /\ MaxToken \in Nat
  /\ RedisFails \in BOOLEAN
  /\ None \notin Nat \cup [token : Nat, expires : Nat, revoked : BOOLEAN]

VARIABLES
  now,
  row,          \* the sessions table; None for a row that does not exist
  cache,        \* the copy of the row in Redis, or None
  issued,       \* history: the newest token of every session; None before login
  heirs,        \* history: which token was exchanged for which
  loggedOut,    \* history: sessions whose logout was answered
  strays,       \* history: sessions whose copy was read before a write that
                \* overtook it, or outlived an eviction that did not happen
  pc, job

tables == <<row, issued, heirs>>
control == <<pc, job>>
redis == <<cache, strays>>
vars == <<now, tables, redis, loggedOut, control>>

NoJob == [task |-> "none", session |-> None, token |-> 0, seen |-> None,
          late |-> FALSE]

\* CacheService logs an error of Redis and goes on: nothing was changed.
CacheBecomes(new, straysThen, straysElse) ==
  \/ cache' = new /\ strays' = straysThen
  \/ RedisFails /\ UNCHANGED cache /\ strays' = straysElse

\* The copy of a session after its eviction did not happen, if it has one.
Strayed(s) == IF cache[s] = None THEN strays ELSE strays \cup {s}

Goto(r, label) == pc' = [pc EXCEPT ![r] = label]
End(r) == Goto(r, "idle") /\ job' = [job EXCEPT ![r] = NoJob]

NextExpiresAtInMillis == now + 1000 * Ttl
NextExpiresAt == now + Ttl

\* isSessionActive
Active(s) == s # None /\ ~ s.revoked /\ s.expires > now

----------------------------------------------------------------------------
Init ==
  /\ now = 0
  /\ row = [s \in SessionIds |-> None]
  /\ cache = [s \in SessionIds |-> None]
  /\ issued = [s \in SessionIds |-> None]
  /\ heirs = [s \in SessionIds |-> {}]
  /\ loggedOut = {} /\ strays = {}
  /\ pc = [r \in Requests |-> "idle"]
  /\ job = [r \in Requests |-> NoJob]

\* openSession, for register and login.
OpenSession(s) ==
  /\ issued[s] = None
  /\ issued' = [issued EXCEPT ![s] = 0]
  /\ row' = [row EXCEPT ![s] = [token |-> 0, expires |-> NextExpiresAt,
                                revoked |-> FALSE]]
  /\ UNCHANGED <<now, heirs, redis, loggedOut, control>>

Begin(r, task, s, token, label) ==
  /\ pc[r] = "idle"
  /\ issued[s] # None
  /\ job' = [job EXCEPT ![r] = [task |-> task, session |-> s, token |-> token,
                                seen |-> None, late |-> s \in loggedOut]]
  /\ Goto(r, label)
  /\ UNCHANGED <<now, tables, redis, loggedOut>>

VerifyRequest(r, s) == Begin(r, "verify", s, 0, "lookup")
LogoutRequest(r, s) == Begin(r, "logout", s, 0, "lookup")
RefreshRequest(r, s, token) == Begin(r, "refresh", s, token, "find")

----------------------------------------------------------------------------
(* verify: loadActiveSession, then the user *)

\* A cached copy decides alone, whether or not it is active.
CacheHit(r) ==
  LET copy == cache[job[r].session] IN
  /\ pc[r] = "lookup"
  /\ copy # None
  /\ IF Active(copy) THEN Goto(r, "user") /\ UNCHANGED job ELSE End(r)
  /\ UNCHANGED <<now, tables, redis, loggedOut>>

\* A failing Redis counts as a miss.
CacheMiss(r) ==
  /\ pc[r] = "lookup"
  /\ cache[job[r].session] = None \/ RedisFails
  /\ Goto(r, "read")
  /\ UNCHANGED <<now, tables, redis, loggedOut, job>>

ReadRow(r) ==
  LET found == row[job[r].session] IN
  /\ pc[r] = "read"
  /\ IF Active(found)
     THEN Goto(r, "store") /\ job' = [job EXCEPT ![r].seen = found]
     ELSE End(r)
  /\ UNCHANGED <<now, tables, redis, loggedOut>>

StoreCopy(r) ==
  /\ pc[r] = "store"
  /\ LET s == job[r].session
         copy == job[r].seen
     IN  CacheBecomes([cache EXCEPT ![s] = copy],
                      IF copy = row[s] THEN strays \ {s} ELSE strays \cup {s},
                      strays)
  /\ Goto(r, "user")
  /\ UNCHANGED <<now, tables, loggedOut, job>>

\* The user exists: the request is let through, or the logout goes on.
Accept(r) ==
  /\ pc[r] = "user"
  /\ IF job[r].task = "logout"
     THEN Goto(r, "revoke") /\ UNCHANGED job
     ELSE End(r)
  /\ UNCHANGED <<now, tables, redis, loggedOut>>

----------------------------------------------------------------------------
(* logout *)

\* A statement that wrote the row is followed by the eviction of its copy.
WroteAndReplies(r) == Goto(r, "reply")
Wrote(r) == Goto(r, "evict")

RevokedKept(s) == s
Revoked(s) == IF s = None THEN s ELSE [s EXCEPT !.revoked = TRUE]

Revoke(r) ==
  /\ pc[r] = "revoke"
  /\ row' = [row EXCEPT ![job[r].session] = Revoked(@)]
  /\ Wrote(r)
  /\ UNCHANGED <<now, issued, heirs, redis, loggedOut, job>>

\* cache.del after a logout and after a refresh; a failure is only logged.
Evict(r) ==
  /\ pc[r] = "evict"
  /\ LET s == job[r].session
     IN  CacheBecomes([cache EXCEPT ![s] = None], strays \ {s}, Strayed(s))
  /\ Goto(r, "reply")
  /\ UNCHANGED <<now, tables, loggedOut, job>>

Reply(r) ==
  /\ pc[r] = "reply"
  /\ loggedOut' = IF job[r].task = "logout"
                  THEN loggedOut \cup {job[r].session} ELSE loggedOut
  /\ End(r)
  /\ UNCHANGED <<now, tables, redis>>

----------------------------------------------------------------------------
(* refresh *)

FindByToken(r) ==
  LET found == row[job[r].session] IN
  /\ pc[r] = "find"
  /\ IF Active(found) /\ found.token = job[r].token
     THEN Goto(r, "swap") /\ job' = [job EXCEPT ![r].seen = found]
     ELSE End(r)
  /\ UNCHANGED <<now, tables, redis, loggedOut>>

\* The conditional UPDATE: the token read before is still the row's, and the
\* session was neither revoked nor expired meanwhile.
MaySwapAnyToken(s, token) == Active(row[s])
MaySwapRevoked(s, token) ==
  row[s] # None /\ row[s].token = token /\ row[s].expires > now
MaySwap(s, token) == Active(row[s]) /\ row[s].token = token

Swap(r) ==
  LET s == job[r].session IN
  /\ pc[r] = "swap"
  /\ MaySwap(s, job[r].seen.token)
  /\ issued[s] < MaxToken
  /\ issued' = [issued EXCEPT ![s] = @ + 1]
  /\ row' = [row EXCEPT ![s].token = issued[s] + 1, ![s].expires = NextExpiresAt]
  /\ heirs' = [heirs EXCEPT ![s] = @ \cup {<<job[r].token, issued[s] + 1>>}]
  /\ Wrote(r)
  /\ UNCHANGED <<now, redis, loggedOut, job>>

----------------------------------------------------------------------------
\* A refusal, an error, or the end of the process.
Fail(r) ==
  /\ pc[r] # "idle"
  /\ End(r)
  /\ strays' = IF pc[r] = "evict" THEN Strayed(job[r].session) ELSE strays
  /\ UNCHANGED <<now, tables, cache, loggedOut>>

\* cleanupSessions: one DELETE of all expired or revoked rows.
Dead(s) == s # None /\ (s.revoked \/ s.expires < now)
CleanUp ==
  /\ \E s \in SessionIds : Dead(row[s])
  /\ row' = [s \in SessionIds |-> IF Dead(row[s]) THEN None ELSE row[s]]
  /\ UNCHANGED <<now, issued, heirs, redis, loggedOut, control>>

CacheExpires(s) ==
  /\ cache[s] # None
  /\ cache' = [cache EXCEPT ![s] = None]
  /\ strays' = strays \ {s}
  /\ UNCHANGED <<now, tables, loggedOut, control>>

Tick ==
  /\ now < MaxNow
  /\ now' = now + 1
  /\ UNCHANGED <<tables, redis, loggedOut, control>>

Verify(r) == CacheHit(r) \/ CacheMiss(r) \/ ReadRow(r) \/ StoreCopy(r) \/ Accept(r)
Logout(r) == Revoke(r) \/ Evict(r) \/ Reply(r)
Refresh(r) == FindByToken(r) \/ Swap(r)

Next ==
  \/ \E s \in SessionIds : OpenSession(s) \/ CacheExpires(s)
  \/ \E r \in Requests, s \in SessionIds :
       \/ VerifyRequest(r, s) \/ LogoutRequest(r, s)
       \/ \E token \in 0..MaxToken :
            issued[s] # None /\ token <= issued[s] /\ RefreshRequest(r, s, token)
  \/ \E r \in Requests : Verify(r) \/ Logout(r) \/ Refresh(r) \/ Fail(r)
  \/ CleanUp \/ Tick

Spec == Init /\ [][Next]_vars

\* Requests end, and Redis drops its entries after their time to live.
FairSpec ==
  /\ Spec
  /\ \A r \in Requests : WF_vars(Verify(r) \/ Logout(r) \/ Refresh(r) \/ Fail(r))
  /\ \A s \in SessionIds : WF_vars(CacheExpires(s))

----------------------------------------------------------------------------
(* Properties *)

Rows == [token : 0..MaxToken, expires : 0..(MaxNow + Ttl), revoked : BOOLEAN]

SessionsTypeOK ==
  /\ now \in 0..MaxNow
  /\ row \in [SessionIds -> Rows \cup {None}]
  /\ cache \in [SessionIds -> Rows \cup {None}]
  /\ issued \in [SessionIds -> 0..MaxToken \cup {None}]
  /\ heirs \in [SessionIds -> SUBSET ((0..MaxToken) \X (0..MaxToken))]
  /\ loggedOut \subseteq SessionIds /\ strays \subseteq SessionIds
  /\ pc \in [Requests -> {"idle", "lookup", "read", "store", "user", "revoke",
                          "evict", "reply", "find", "swap"}]
  /\ job \in [Requests -> [task : {"none", "verify", "logout", "refresh"},
                           session : SessionIds \cup {None},
                           token : 0..MaxToken, seen : Rows \cup {None},
                           late : BOOLEAN]]

\* "Compare-and-swap consumes the old token exactly once, even across
\* replicas": no token is exchanged for two others, so a session never forks,
\* and the newest token is always the one the row accepts.
TokensSpentOnce ==
  \A s \in SessionIds :
    /\ \A x, y \in heirs[s] : x[1] = y[1] => x = y
    /\ row[s] # None => row[s].token = issued[s]

\* "Checking revocation here also fences a concurrent logout": from the moment
\* a session is revoked no refresh that was under way extends it or gets a
\* token for it.
RevokedForGood ==
  [][\A s \in SessionIds :
       row[s] # None /\ row[s].revoked =>
         row'[s] \in {row[s], None} /\ issued'[s] = issued[s]]_vars

\* A copy in Redis that still counts as active is the row itself, except
\* while the request that wrote the row is about to evict it, or when its
\* eviction failed or it was stored by a verification that the write overtook:
\* nothing else lets a revoked session pass.
ActiveCopiesAreCurrent ==
  \A s \in SessionIds :
    Active(cache[s]) /\ cache[s] # row[s] =>
      \/ s \in strays
      \/ \E r \in Requests : pc[r] = "evict" /\ job[r].session = s

\* However verifications race with a logout, Redis holds an active copy of a
\* logged out session for a while at most, and then never again.
LogoutWins ==
  \A s \in SessionIds : s \in loggedOut ~> [](~ Active(cache[s]))

\* README.md, on the guard that verifies every request: "logout instantly
\* invalidates the access token". A request that begins after the answer to
\* the logout is never let through.
LogoutIsInstant ==
  [][\A r \in Requests :
       Accept(r) /\ job[r].task = "verify" => ~ job[r].late]_vars
=============================================================================

-------------------------- MODULE Sessions_proofs --------------------------
(***************************************************************************)
(* Safety of Sessions for any number of sessions, requests and tokens,     *)
(* with a Redis that may fail or not: refresh tokens are spent once, and   *)
(* nothing brings a revoked session back. The invariant says that the row  *)
(* accepts the newest token only, that every token that was exchanged is   *)
(* older, and that a refresh swaps the token it looked up.                 *)
(***************************************************************************)
EXTENDS Sessions, TLAPS

JobSet == [task : {"none", "verify", "logout", "refresh"},
           session : SessionIds \cup {None}, token : 0..MaxToken,
           seen : Rows \cup {None}, late : BOOLEAN]

\* A request that is under way names a session; past its look-up, a refresh
\* has seen the token it was given, and a verification an active row.
RequestOK(r) ==
  /\ pc[r] # "idle" => job[r].session \in SessionIds
  /\ pc[r] \in {"store", "swap"} => job[r].seen \in Rows
  /\ pc[r] = "swap" => job[r].seen.token = job[r].token
RequestsOK == \A r \in Requests : RequestOK(r)

\* Tokens that were exchanged are older than the newest; a session that was
\* never opened has neither a row nor tokens.
TokensInOrder ==
  \A s \in SessionIds :
    /\ issued[s] = None => row[s] = None /\ heirs[s] = {}
    /\ \A x \in heirs[s] : x[1] < issued[s]

SessionsInv ==
  /\ SessionsTypeOK /\ RequestsOK /\ TokensInOrder /\ TokensSpentOnce

----------------------------------------------------------------------------
LEMMA NoneIsNoRow == None \notin Rows /\ None \notin 0..MaxToken
  BY SessionsAssumption DEF Rows

LEMMA NoJobType == NoJob \in JobSet
  BY SessionsAssumption DEF NoJob, JobSet

LEMMA InitSessions == Init => SessionsInv
<1> SUFFICES ASSUME Init PROVE SessionsInv
  OBVIOUS
<1>1. SessionsTypeOK
  BY SessionsAssumption, NoJobType DEF Init, SessionsTypeOK, JobSet
<1> QED
  BY <1>1 DEF Init, SessionsInv, RequestsOK, RequestOK, TokensInOrder,
              TokensSpentOnce

\* What a row may become is a row.
LEMMA RowTypes ==
  ASSUME SessionsTypeOK, NEW s \in SessionIds, NEW t \in 0..MaxToken
  PROVE  /\ NextExpiresAt \in 0..(MaxNow + Ttl)
         /\ [token |-> t, expires |-> NextExpiresAt, revoked |-> FALSE] \in Rows
         /\ Revoked(row[s]) \in Rows \cup {None}
         /\ row[s] # None => Revoked(row[s]) \in Rows
                             /\ Revoked(row[s]).token = row[s].token
<1>1. NextExpiresAt \in 0..(MaxNow + Ttl)
  BY SessionsAssumption DEF NextExpiresAt, SessionsTypeOK
<1>2. row[s] \in Rows \cup {None}
  BY DEF SessionsTypeOK
<1>3. row[s] # None => Revoked(row[s]) \in Rows
                       /\ Revoked(row[s]).token = row[s].token
  BY <1>2 DEF Revoked, Rows
<1> QED
  BY <1>1, <1>2, <1>3 DEF Rows, Revoked

\* Steps that leave the sessions table alone.
LEMMA TablesUntouched ==
  ASSUME SessionsInv, UNCHANGED tables
  PROVE  TokensInOrder' /\ TokensSpentOnce'
  BY DEF SessionsInv, TokensInOrder, TokensSpentOnce, tables

\* A request that begins or ends is in order.
LEMMA BeginPreserves ==
  ASSUME SessionsInv, NEW r \in Requests, NEW s \in SessionIds,
         NEW token \in 0..MaxToken, NEW task \in {"verify", "logout", "refresh"},
         NEW label \in {"lookup", "find"}, Begin(r, task, s, token, label)
  PROVE  SessionsInv'
<1> DEFINE new == [task |-> task, session |-> s, token |-> token,
                   seen |-> None, late |-> s \in loggedOut]
<1>1. /\ pc' = [pc EXCEPT ![r] = label] /\ job' = [job EXCEPT ![r] = new]
      /\ UNCHANGED <<now, row, issued, heirs, cache, strays, loggedOut>>
  BY DEF Begin, Goto, tables, redis
<1>2. new \in JobSet /\ new.session = s
  BY DEF JobSet
<1> HIDE DEF new
<1>3. SessionsTypeOK'
  BY <1>1, <1>2 DEF SessionsInv, SessionsTypeOK, JobSet
<1>4. RequestsOK'
  BY <1>1, <1>2 DEF SessionsInv, SessionsTypeOK, RequestsOK, RequestOK
<1> QED
  BY <1>1, <1>3, <1>4, TablesUntouched DEF SessionsInv, tables

LEMMA EndPreserves ==
  ASSUME SessionsInv, NEW r \in Requests, End(r),
         UNCHANGED <<now, tables, cache>>,
         loggedOut' \subseteq SessionIds, strays' \subseteq SessionIds
  PROVE  SessionsInv'
<1>1. /\ pc' = [pc EXCEPT ![r] = "idle"] /\ job' = [job EXCEPT ![r] = NoJob]
      /\ UNCHANGED <<now, row, issued, heirs, cache>>
  BY DEF End, Goto, tables
<1>2. SessionsTypeOK'
  BY <1>1, NoJobType DEF SessionsInv, SessionsTypeOK, JobSet
<1>3. RequestsOK'
  BY <1>1 DEF SessionsInv, SessionsTypeOK, RequestsOK, RequestOK
<1> QED
  BY <1>2, <1>3, TablesUntouched DEF SessionsInv

\* A request goes on to its next step, possibly with a row it has just read.
LEMMA StepPreserves ==
  ASSUME SessionsInv, NEW r \in Requests,
         NEW label \in {"read", "user", "revoke", "reply"}, Goto(r, label),
         pc[r] # "idle", UNCHANGED <<now, tables, loggedOut, job>>,
         cache' \in [SessionIds -> Rows \cup {None}], strays' \subseteq SessionIds
  PROVE  SessionsInv'
<1>1. SessionsTypeOK'
  BY DEF Goto, SessionsInv, SessionsTypeOK, tables
<1>2. RequestsOK'
  BY DEF Goto, SessionsInv, SessionsTypeOK, RequestsOK, RequestOK
<1> QED
  BY <1>1, <1>2, TablesUntouched DEF SessionsInv

LEMMA SeenPreserves ==
  ASSUME SessionsInv, NEW r \in Requests, NEW found \in Rows,
         NEW label \in {"store", "swap"}, Goto(r, label), pc[r] # "idle",
         job' = [job EXCEPT ![r].seen = found],
         label = "swap" => found.token = job[r].token,
         UNCHANGED <<now, tables, redis, loggedOut>>
  PROVE  SessionsInv'
<1>1. /\ job[r] \in JobSet /\ job'[r] = [job[r] EXCEPT !.seen = found]
      /\ \A q \in Requests \ {r} : job'[q] = job[q] /\ pc'[q] = pc[q]
      /\ pc'[r] = label
  BY DEF Goto, SessionsInv, SessionsTypeOK, JobSet
<1>2. /\ job'[r] \in JobSet /\ job'[r].seen = found
      /\ job'[r].session = job[r].session /\ job'[r].token = job[r].token
  BY <1>1 DEF JobSet
<1>3. job' \in [Requests -> JobSet]
  BY <1>1, <1>2 DEF SessionsInv, SessionsTypeOK, JobSet
<1>4. SessionsTypeOK'
  BY <1>3 DEF Goto, SessionsInv, SessionsTypeOK, JobSet, tables, redis
<1>5. RequestsOK'
  BY <1>1, <1>2 DEF SessionsInv, RequestsOK, RequestOK
<1> QED
  BY <1>4, <1>5, TablesUntouched DEF SessionsInv

----------------------------------------------------------------------------
(* Steps that write the table *)

\* A new session gets a row and its first token.
LEMMA OpenPreserves ==
  ASSUME SessionsInv, NEW s \in SessionIds, OpenSession(s)
  PROVE  SessionsInv'
<1> DEFINE new == [token |-> 0, expires |-> NextExpiresAt, revoked |-> FALSE]
<1>1. /\ issued[s] = None /\ issued' = [issued EXCEPT ![s] = 0]
      /\ row' = [row EXCEPT ![s] = new]
      /\ UNCHANGED <<now, heirs, cache, strays, loggedOut, pc, job>>
  BY DEF OpenSession, control, redis
<1>2. 0 \in 0..MaxToken /\ new \in Rows /\ new.token = 0
  BY RowTypes, SessionsAssumption DEF SessionsInv
<1> HIDE DEF new
<1>3. SessionsTypeOK'
  BY <1>1, <1>2 DEF SessionsInv, SessionsTypeOK
<1>4. RequestsOK'
  BY <1>1 DEF SessionsInv, RequestsOK, RequestOK
<1>5. TokensInOrder'
  BY <1>1, <1>2, NoneIsNoRow DEF SessionsInv, SessionsTypeOK, TokensInOrder
<1>6. TokensSpentOnce'
  BY <1>1, <1>2 DEF SessionsInv, SessionsTypeOK, TokensSpentOnce
<1> QED
  BY <1>3, <1>4, <1>5, <1>6 DEF SessionsInv

LEMMA RevokePreserves ==
  ASSUME SessionsInv, NEW r \in Requests, Revoke(r)
  PROVE  SessionsInv'
<1> DEFINE s == job[r].session
<1>1. /\ pc[r] = "revoke" /\ pc' = [pc EXCEPT ![r] = "evict"]
      /\ row' = [row EXCEPT ![s] = Revoked(row[s])]
      /\ UNCHANGED <<now, issued, heirs, cache, strays, loggedOut, job>>
  BY DEF Revoke, Wrote, Goto, redis
<1>2. s \in SessionIds
  BY <1>1 DEF SessionsInv, RequestsOK, RequestOK
<1>3. 0 \in 0..MaxToken
  BY SessionsAssumption
<1>4. /\ Revoked(row[s]) \in Rows \cup {None}
      /\ row[s] = None => Revoked(row[s]) = None
      /\ row[s] # None => Revoked(row[s]).token = row[s].token
  BY <1>2, <1>3, RowTypes DEF SessionsInv, Revoked
<1>5. SessionsTypeOK'
  BY <1>1, <1>4 DEF SessionsInv, SessionsTypeOK
<1>6. RequestsOK'
  BY <1>1 DEF SessionsInv, SessionsTypeOK, RequestsOK, RequestOK
<1>7. TokensInOrder'
  BY <1>1, <1>2, <1>4 DEF SessionsInv, SessionsTypeOK, TokensInOrder
<1>8. TokensSpentOnce'
  BY <1>1, <1>2, <1>4 DEF SessionsInv, SessionsTypeOK, TokensSpentOnce
<1> QED
  BY <1>5, <1>6, <1>7, <1>8 DEF SessionsInv

\* The compare-and-swap spends the newest token, which nobody spent before.
LEMMA SwapPreserves ==
  ASSUME SessionsInv, NEW r \in Requests, Swap(r)
  PROVE  SessionsInv'
<1> DEFINE s == job[r].session
           next == issued[s] + 1
<1>1. /\ pc[r] = "swap" /\ pc' = [pc EXCEPT ![r] = "evict"]
      /\ Active(row[s]) /\ row[s].token = job[r].seen.token
      /\ issued[s] < MaxToken /\ issued' = [issued EXCEPT ![s] = @ + 1]
      /\ row' = [row EXCEPT ![s].token = next, ![s].expires = NextExpiresAt]
      /\ heirs' = [heirs EXCEPT ![s] = @ \cup {<<job[r].token, next>>}]
      /\ UNCHANGED <<now, cache, strays, loggedOut, job>>
  BY DEF Swap, MaySwap, Wrote, Goto, redis
<1>2. /\ s \in SessionIds /\ job[r].seen.token = job[r].token
      /\ job[r].token \in 0..MaxToken
  BY <1>1 DEF SessionsInv, SessionsTypeOK, RequestsOK, RequestOK
<1>3. row[s] \in Rows /\ row[s].token = issued[s]
  BY <1>1, <1>2 DEF Active, SessionsInv, SessionsTypeOK, TokensSpentOnce
<1>4. job[r].token = issued[s] /\ issued[s] \in 0..MaxToken
  BY <1>1, <1>2, <1>3
<1>5. next \in 0..MaxToken /\ next > issued[s]
  BY <1>1, <1>4, SessionsAssumption
<1>6. /\ row'[s] \in Rows /\ row'[s].token = next
      /\ row' \in [SessionIds -> Rows \cup {None}]
      /\ \A q \in SessionIds \ {s} : row'[q] = row[q]
  <2>1. NextExpiresAt \in 0..(MaxNow + Ttl)
    BY <1>2, <1>4, RowTypes DEF SessionsInv
  <2>2. [row[s] EXCEPT !.token = next, !.expires = NextExpiresAt] \in Rows
    BY <1>3, <1>5, <2>1 DEF Rows
  <2>3. row' = [row EXCEPT ![s] = [row[s] EXCEPT !.token = next,
                                                 !.expires = NextExpiresAt]]
    BY <1>1, <1>2 DEF SessionsInv, SessionsTypeOK
  <2> QED
    BY <1>2, <1>3, <2>2, <2>3 DEF SessionsInv, SessionsTypeOK, Rows
<1>7. /\ issued'[s] = next /\ \A q \in SessionIds \ {s} : issued'[q] = issued[q]
      /\ issued' \in [SessionIds -> 0..MaxToken \cup {None}]
  BY <1>1, <1>2, <1>5 DEF SessionsInv, SessionsTypeOK
<1>8. /\ heirs'[s] = heirs[s] \cup {<<job[r].token, next>>}
      /\ \A q \in SessionIds \ {s} : heirs'[q] = heirs[q]
      /\ heirs' \in [SessionIds -> SUBSET ((0..MaxToken) \X (0..MaxToken))]
  BY <1>1, <1>2, <1>5 DEF SessionsInv, SessionsTypeOK
<1>9. \A x \in heirs[s] : x[1] < issued[s] /\ x[1] \in 0..MaxToken
  BY <1>2 DEF SessionsInv, SessionsTypeOK, TokensInOrder
<1> HIDE DEF next, s
<1>10. SessionsTypeOK'
  BY <1>1, <1>6, <1>7, <1>8 DEF SessionsInv, SessionsTypeOK
<1>11. RequestsOK'
  BY <1>1 DEF SessionsInv, SessionsTypeOK, RequestsOK, RequestOK
<1>12. TokensInOrder'
  <2> SUFFICES ASSUME NEW q \in SessionIds
               PROVE  /\ issued'[q] = None => row'[q] = None /\ heirs'[q] = {}
                      /\ \A x \in heirs'[q] : x[1] < issued'[q]
    BY DEF TokensInOrder
  <2>1. CASE q = s
    <3>1. \A x \in heirs'[s] : x[1] < next
      BY <1>4, <1>5, <1>8, <1>9
    <3>2. issued'[s] # None
      BY <1>5, <1>7, NoneIsNoRow
    <3> QED
      BY <1>7, <2>1, <3>1, <3>2
  <2>2. CASE q # s
    BY <1>6, <1>7, <1>8, <2>2 DEF SessionsInv, TokensInOrder
  <2> QED
    BY <2>1, <2>2
<1>13. TokensSpentOnce'
  <2> SUFFICES ASSUME NEW q \in SessionIds
               PROVE  /\ \A x, y \in heirs'[q] : x[1] = y[1] => x = y
                      /\ row'[q] # None => row'[q].token = issued'[q]
    BY DEF TokensSpentOnce
  <2>1. CASE q = s
    <3>1. \A x, y \in heirs'[s] : x[1] = y[1] => x = y
      BY <1>2, <1>4, <1>8, <1>9 DEF SessionsInv, TokensSpentOnce
    <3> QED
      BY <1>6, <1>7, <2>1, <3>1
  <2>2. CASE q # s
    BY <1>6, <1>7, <1>8, <2>2 DEF SessionsInv, TokensSpentOnce
  <2> QED
    BY <2>1, <2>2
<1> QED
  BY <1>10, <1>11, <1>12, <1>13 DEF SessionsInv

\* The clean-up only removes rows.
LEMMA CleanUpPreserves ==
  ASSUME SessionsInv, CleanUp
  PROVE  SessionsInv'
<1>1. /\ \A s \in SessionIds : row'[s] = None \/ row'[s] = row[s]
      /\ row' \in [SessionIds -> Rows \cup {None}]
      /\ UNCHANGED <<now, issued, heirs, cache, strays, loggedOut, pc, job>>
  BY DEF CleanUp, control, redis, SessionsInv, SessionsTypeOK
<1> QED
  BY <1>1 DEF SessionsInv, SessionsTypeOK, RequestsOK, RequestOK, TokensInOrder,
              TokensSpentOnce

\* Redis and the clock.
LEMMA EnvironmentPreserves ==
  ASSUME SessionsInv, Tick \/ \E s \in SessionIds : CacheExpires(s)
  PROVE  SessionsInv'
<1>1. /\ UNCHANGED <<row, issued, heirs, loggedOut, pc, job>>
      /\ now' \in 0..MaxNow /\ cache' \in [SessionIds -> Rows \cup {None}]
      /\ strays' \subseteq SessionIds
  BY SessionsAssumption
     DEF Tick, CacheExpires, tables, control, redis, SessionsInv, SessionsTypeOK
<1> QED
  BY <1>1 DEF SessionsInv, SessionsTypeOK, RequestsOK, RequestOK, TokensInOrder,
              TokensSpentOnce

----------------------------------------------------------------------------
LEMMA StepOfRequestPreserves ==
  ASSUME SessionsInv, NEW r \in Requests,
         Verify(r) \/ Logout(r) \/ Refresh(r) \/ Fail(r)
  PROVE  SessionsInv'
<1>1. CASE CacheHit(r)
  <2>1. End(r) => SessionsInv'
    BY <1>1, EndPreserves DEF CacheHit, redis, SessionsInv, SessionsTypeOK
  <2>2. Goto(r, "user") /\ UNCHANGED job => SessionsInv'
    BY <1>1, StepPreserves DEF CacheHit, redis, SessionsInv, SessionsTypeOK
  <2> QED
    BY <1>1, <2>1, <2>2 DEF CacheHit
<1>2. CASE CacheMiss(r)
  BY <1>2, StepPreserves DEF CacheMiss, redis, SessionsInv, SessionsTypeOK
<1>3. CASE ReadRow(r)
  <2>1. End(r) => SessionsInv'
    BY <1>3, EndPreserves DEF ReadRow, redis, SessionsInv, SessionsTypeOK
  <2>2. CASE ~ End(r)
    <3>1. /\ pc[r] = "read" /\ Active(row[job[r].session]) /\ Goto(r, "store")
          /\ job' = [job EXCEPT ![r].seen = row[job[r].session]]
          /\ UNCHANGED <<now, tables, redis, loggedOut>>
      BY <1>3, <2>2 DEF ReadRow
    <3>2. row[job[r].session] \in Rows
      BY <3>1 DEF Active, SessionsInv, SessionsTypeOK, RequestsOK, RequestOK
    <3> QED
      BY <3>1, <3>2, SeenPreserves
  <2> QED
    BY <2>1, <2>2
<1>4. CASE StoreCopy(r)
  <2>1. /\ pc[r] = "store" /\ Goto(r, "user")
        /\ UNCHANGED <<now, tables, loggedOut, job>>
    BY <1>4 DEF StoreCopy
  <2>2. /\ cache' \in [SessionIds -> Rows \cup {None}]
        /\ strays' \subseteq SessionIds
    BY <1>4 DEF StoreCopy, CacheBecomes, SessionsInv, SessionsTypeOK, RequestsOK,
                RequestOK
  <2> QED
    BY <2>1, <2>2, StepPreserves
<1>5. CASE Accept(r)
  <2>1. End(r) => SessionsInv'
    BY <1>5, EndPreserves DEF Accept, redis, SessionsInv, SessionsTypeOK
  <2>2. Goto(r, "revoke") /\ UNCHANGED job => SessionsInv'
    BY <1>5, StepPreserves DEF Accept, redis, SessionsInv, SessionsTypeOK
  <2> QED
    BY <1>5, <2>1, <2>2 DEF Accept
<1>6. CASE Evict(r)
  <2>1. /\ pc[r] = "evict" /\ Goto(r, "reply")
        /\ UNCHANGED <<now, tables, loggedOut, job>>
    BY <1>6 DEF Evict
  <2>2. /\ cache' \in [SessionIds -> Rows \cup {None}]
        /\ strays' \subseteq SessionIds
    BY <1>6 DEF Evict, CacheBecomes, Strayed, SessionsInv, SessionsTypeOK,
                RequestsOK, RequestOK
  <2> QED
    BY <2>1, <2>2, StepPreserves
<1>7. CASE Reply(r)
  <2>1. loggedOut' \subseteq SessionIds
    BY <1>7 DEF Reply, SessionsInv, SessionsTypeOK, RequestsOK, RequestOK
  <2> QED
    BY <1>7, <2>1, EndPreserves DEF Reply, redis, SessionsInv, SessionsTypeOK
<1>8. CASE FindByToken(r)
  <2>1. End(r) => SessionsInv'
    BY <1>8, EndPreserves DEF FindByToken, redis, SessionsInv, SessionsTypeOK
  <2>2. CASE ~ End(r)
    <3>1. /\ pc[r] = "find" /\ Active(row[job[r].session]) /\ Goto(r, "swap")
          /\ row[job[r].session].token = job[r].token
          /\ job' = [job EXCEPT ![r].seen = row[job[r].session]]
          /\ UNCHANGED <<now, tables, redis, loggedOut>>
      BY <1>8, <2>2 DEF FindByToken
    <3>2. row[job[r].session] \in Rows
      BY <3>1 DEF Active, SessionsInv, SessionsTypeOK, RequestsOK, RequestOK
    <3> QED
      BY <3>1, <3>2, SeenPreserves
  <2> QED
    BY <2>1, <2>2
<1>9. CASE Fail(r)
  <2>1. strays' \subseteq SessionIds
    BY <1>9 DEF Fail, Strayed, SessionsInv, SessionsTypeOK, RequestsOK, RequestOK
  <2> QED
    BY <1>9, <2>1, EndPreserves DEF Fail, SessionsInv, SessionsTypeOK
<1> QED
  BY <1>1, <1>2, <1>3, <1>4, <1>5, <1>6, <1>7, <1>8, <1>9, RevokePreserves,
     SwapPreserves DEF Verify, Logout, Refresh

LEMMA RequestPreserves ==
  ASSUME SessionsInv, NEW r \in Requests, NEW s \in SessionIds,
         \/ VerifyRequest(r, s) \/ LogoutRequest(r, s)
         \/ \E token \in 0..MaxToken : RefreshRequest(r, s, token)
  PROVE  SessionsInv'
<1>1. 0 \in 0..MaxToken
  BY SessionsAssumption
<1> QED
  BY <1>1, BeginPreserves DEF VerifyRequest, LogoutRequest, RefreshRequest

\* The inductive invariant of the session handlers (auth.service.ts), for any
\* number of sessions, concurrent requests and replicas.
THEOREM SessionsInvariance == Spec => []SessionsInv
<1>1. SessionsInv /\ [Next]_vars => SessionsInv'
  <2> SUFFICES ASSUME SessionsInv, [Next]_vars PROVE SessionsInv'
    OBVIOUS
  <2>1. CASE Next
    BY <2>1, OpenPreserves, RequestPreserves, StepOfRequestPreserves,
       CleanUpPreserves, EnvironmentPreserves DEF Next
  <2>2. CASE UNCHANGED vars
    BY <2>2 DEF vars, tables, redis, control, SessionsInv, SessionsTypeOK, RequestsOK,
                RequestOK, TokensInOrder, TokensSpentOnce
  <2> QED
    BY <2>1, <2>2
<1> QED
  BY <1>1, InitSessions, PTL DEF Spec

\* The sessions table, its Redis copies and the requests keep their types.
THEOREM SessionsTypeCorrect == Spec => []SessionsTypeOK
  BY SessionsInvariance, PTL DEF SessionsInv

\* refreshTokens' compare-and-swap consumes a token once, across replicas.
THEOREM TokensAreSpentOnce == Spec => []TokensSpentOnce
  BY SessionsInvariance, PTL DEF SessionsInv

\* Only an active row changes its token, and a revoked row at most disappears.
LEMMA RevokedStaysRevoked ==
  ASSUME SessionsInv, Next, NEW s \in SessionIds, row[s] # None, row[s].revoked
  PROVE  row'[s] \in {row[s], None} /\ issued'[s] = issued[s]
<1>1. CASE \E q \in SessionIds : OpenSession(q)
  <2>1. PICK q \in SessionIds : OpenSession(q)
    BY <1>1
  <2>2. q # s
    BY <2>1 DEF OpenSession, SessionsInv, TokensInOrder
  <2> QED
    BY <2>1, <2>2 DEF OpenSession, SessionsInv, SessionsTypeOK
<1>2. CASE \E r \in Requests : Revoke(r)
  <2>1. PICK r \in Requests : Revoke(r)
    BY <1>2
  <2>2. row[s] \in Rows
    BY DEF SessionsInv, SessionsTypeOK
  <2>3. Revoked(row[s]) = row[s]
    BY <2>2 DEF Revoked, Rows
  <2> QED
    BY <2>1, <2>3 DEF Revoke, SessionsInv, SessionsTypeOK
<1>3. CASE \E r \in Requests : Swap(r)
  <2>1. PICK r \in Requests : Swap(r)
    BY <1>3
  <2>2. job[r].session # s
    BY <2>1 DEF Swap, MaySwap, Active
  <2> QED
    BY <2>1, <2>2 DEF Swap, SessionsInv, SessionsTypeOK
<1>4. CASE CleanUp
  BY <1>4 DEF CleanUp
<1>5. CASE UNCHANGED tables
  BY <1>5 DEF tables
<1>6. \/ \E q \in SessionIds : OpenSession(q)
      \/ \E r \in Requests : Revoke(r) \/ Swap(r)
      \/ CleanUp \/ UNCHANGED tables
  BY DEF Next, Verify, Logout, Refresh, VerifyRequest, LogoutRequest,
         RefreshRequest, Begin, CacheHit, CacheMiss, ReadRow, StoreCopy, Accept,
         Evict, Reply, FindByToken, Fail, CacheExpires, Tick
<1> QED
  BY <1>1, <1>2, <1>3, <1>4, <1>5, <1>6

\* A refresh that was under way when its session was revoked neither extends
\* the session nor gets a token for it.
THEOREM RevocationIsFinal == Spec => RevokedForGood
<1>1. SessionsInv /\ [Next]_vars =>
        [\A s \in SessionIds :
           row[s] # None /\ row[s].revoked =>
             row'[s] \in {row[s], None} /\ issued'[s] = issued[s]]_vars
  BY RevokedStaysRevoked
<1> QED
  BY <1>1, SessionsInvariance, PTL DEF Spec, RevokedForGood

----------------------------------------------------------------------------
(* The copies in Redis *)

Evicting(s) == \E r \in Requests : pc[r] = "evict" /\ job[r].session = s
Explained(s) ==
  Active(cache[s]) /\ cache[s] # row[s] => s \in strays \/ Evicting(s)

\* A request that does not wait for its eviction goes on.
LEMMA EvictingStays ==
  ASSUME SessionsInv, NEW r \in Requests, pc[r] # "evict", NEW s \in SessionIds,
         \A q \in Requests \ {r} : pc'[q] = pc[q] /\ job'[q] = job[q]
  PROVE  Evicting(s) => Evicting(s)'
BY DEF Evicting

LEMMA CopiesPreserved ==
  ASSUME SessionsInv, ActiveCopiesAreCurrent, [Next]_vars
  PROVE  ActiveCopiesAreCurrent'
<1> SUFFICES ASSUME NEW s \in SessionIds PROVE Explained(s)'
  BY DEF ActiveCopiesAreCurrent, Explained, Evicting
<1>0. Explained(s)
  BY DEF ActiveCopiesAreCurrent, Explained, Evicting
<1> USE DEF SessionsInv, SessionsTypeOK
<1>1. ASSUME UNCHANGED <<now, redis, row>>, Evicting(s) => Evicting(s)'
      PROVE  Explained(s)'
  BY <1>0, <1>1 DEF Explained, Active, redis
<1>2. ASSUME NEW q \in SessionIds, OpenSession(q) PROVE Explained(s)'
  <2>1. /\ row'[s] = row[s] \/ row[s] = None
        /\ UNCHANGED <<now, cache, strays, pc, job>>
    BY <1>2 DEF OpenSession, redis, control, TokensInOrder
  <2> QED
    BY <1>0, <2>1 DEF Explained, Active, Evicting
<1>3. ASSUME NEW r \in Requests, NEW q \in SessionIds, NEW token \in 0..MaxToken,
             VerifyRequest(r, q) \/ LogoutRequest(r, q) \/ RefreshRequest(r, q, token)
      PROVE  Explained(s)'
  <2>1. pc[r] = "idle" /\ UNCHANGED <<now, redis, row>>
    BY <1>3 DEF VerifyRequest, LogoutRequest, RefreshRequest, Begin, tables
  <2>2. \A x \in Requests \ {r} : pc'[x] = pc[x] /\ job'[x] = job[x]
    BY <1>3 DEF VerifyRequest, LogoutRequest, RefreshRequest, Begin, Goto
  <2>3. Evicting(s) => Evicting(s)'
    BY <2>1, <2>2, EvictingStays
  <2> QED
    BY <1>1, <2>1, <2>3
<1>4. ASSUME NEW r \in Requests,
             \/ CacheHit(r) \/ CacheMiss(r) \/ ReadRow(r) \/ Accept(r) \/ Reply(r)
             \/ FindByToken(r)
      PROVE  Explained(s)'
  <2>1. pc[r] # "evict" /\ UNCHANGED <<now, redis, row>>
    BY <1>4 DEF CacheHit, CacheMiss, ReadRow, Accept, Reply, FindByToken, tables
  <2>2. \A q \in Requests \ {r} : pc'[q] = pc[q] /\ job'[q] = job[q]
    BY <1>4 DEF CacheHit, CacheMiss, ReadRow, Accept, Reply, FindByToken, Goto,
                End
  <2>3. Evicting(s) => Evicting(s)'
    BY <2>1, <2>2, EvictingStays
  <2> QED
    BY <1>1, <2>1, <2>3
\* A copy that was overtaken is a stray, any other is the row.
<1>5. ASSUME NEW r \in Requests, StoreCopy(r) PROVE Explained(s)'
  <2>1. /\ pc[r] = "store" /\ job[r].session \in SessionIds
        /\ UNCHANGED <<now, row, job>>
        /\ \A q \in Requests \ {r} : pc'[q] = pc[q]
    BY <1>5 DEF StoreCopy, Goto, tables, RequestsOK, RequestOK
  <2>2. Evicting(s) => Evicting(s)'
    BY <2>1, EvictingStays
  <2>3. CASE UNCHANGED <<cache, strays>>
    BY <1>1, <2>1, <2>2, <2>3 DEF redis
  <2>4. CASE s # job[r].session /\ ~ UNCHANGED <<cache, strays>>
    <3>1. cache'[s] = cache[s] /\ (s \in strays => s \in strays')
      BY <1>5, <2>1, <2>4 DEF StoreCopy, CacheBecomes
    <3> QED
      BY <1>0, <2>1, <2>2, <3>1 DEF Explained, Active
  <2>5. CASE s = job[r].session /\ ~ UNCHANGED <<cache, strays>>
    <3>1. /\ cache'[s] = job[r].seen
          /\ cache'[s] # row[s] => s \in strays'
      BY <1>5, <2>1, <2>5 DEF StoreCopy, CacheBecomes
    <3> QED
      BY <2>1, <3>1 DEF Explained
  <2> QED
    BY <2>3, <2>4, <2>5
<1>6. ASSUME NEW r \in Requests, Evict(r) PROVE Explained(s)'
  <2>1. /\ pc[r] = "evict" /\ job[r].session \in SessionIds
        /\ UNCHANGED <<now, row, job>>
        /\ \A q \in Requests \ {r} : pc'[q] = pc[q]
    BY <1>6 DEF Evict, Goto, tables, RequestsOK, RequestOK
  <2>2. CASE s # job[r].session
    <3>1. cache'[s] = cache[s] /\ (s \in strays => s \in strays')
      BY <1>6, <2>1, <2>2 DEF Evict, CacheBecomes, Strayed
    <3>2. Evicting(s) => Evicting(s)'
      BY <2>1, <2>2 DEF Evicting
    <3> QED
      BY <1>0, <2>1, <3>1, <3>2 DEF Explained, Active
  <2>3. CASE s = job[r].session
    <3>1. cache'[s] = None \/ s \in strays'
      BY <1>6, <2>1, <2>3 DEF Evict, CacheBecomes, Strayed
    <3> QED
      BY <3>1 DEF Explained, Active
  <2> QED
    BY <2>2, <2>3
\* Whoever writes a row is the one who evicts its copy.
<1>7. ASSUME NEW r \in Requests, Revoke(r) \/ Swap(r) PROVE Explained(s)'
  <2>1. /\ pc[r] \in {"revoke", "swap"} /\ job[r].session \in SessionIds
        /\ UNCHANGED <<now, redis, job>> /\ pc' = [pc EXCEPT ![r] = "evict"]
    BY <1>7 DEF Revoke, Swap, Wrote, Goto, RequestsOK, RequestOK
  <2>2. CASE s = job[r].session
    BY <2>1, <2>2 DEF Explained, Evicting
  <2>3. CASE s # job[r].session
    <3>1. row'[s] = row[s]
      BY <1>7, <2>1, <2>3 DEF Revoke, Swap
    <3>2. Evicting(s) => Evicting(s)'
      BY <2>1 DEF Evicting
    <3> QED
      BY <1>0, <2>1, <3>1, <3>2 DEF Explained, Active, redis
  <2> QED
    BY <2>2, <2>3
<1>8. ASSUME NEW r \in Requests, Fail(r) PROVE Explained(s)'
  <2>1. /\ UNCHANGED <<now, row, cache>> /\ pc[r] # "idle"
        /\ \A q \in Requests \ {r} : pc'[q] = pc[q] /\ job'[q] = job[q]
    BY <1>8 DEF Fail, End, Goto, tables
  <2>2. s \in strays => s \in strays'
    BY <1>8 DEF Fail, Strayed
  <2>3. CASE pc[r] = "evict" /\ job[r].session = s
    <3>1. cache'[s] = None \/ s \in strays'
      BY <1>8, <2>1, <2>3 DEF Fail, Strayed
    <3> QED
      BY <3>1 DEF Explained, Active
  <2>4. CASE ~ (pc[r] = "evict" /\ job[r].session = s)
    <3>1. Evicting(s) => Evicting(s)'
      BY <2>1, <2>4 DEF Evicting
    <3> QED
      BY <1>0, <2>1, <2>2, <3>1 DEF Explained, Active
  <2> QED
    BY <2>3, <2>4
\* The clean-up removes rows whose copy, if it is the row, is not active.
<1>9. ASSUME CleanUp PROVE Explained(s)'
  <2>1. UNCHANGED <<now, cache, strays, pc, job>>
    BY <1>9 DEF CleanUp, redis, control
  <2>2. CASE row'[s] = row[s]
    BY <1>0, <2>1, <2>2 DEF Explained, Active, Evicting
  <2>3. CASE row'[s] # row[s]
    <3>1. Dead(row[s]) /\ row[s] \in Rows
      BY <1>9, <2>3 DEF CleanUp, Dead
    <3>2. ~ Active(row[s])
      BY <3>1 DEF Dead, Active, Rows
    <3> QED
      BY <1>0, <2>1, <3>2 DEF Explained, Active, Evicting
  <2> QED
    BY <2>2, <2>3
<1>10. ASSUME NEW q \in SessionIds, CacheExpires(q) PROVE Explained(s)'
  <2>1. UNCHANGED <<now, row, pc, job>>
    BY <1>10 DEF CacheExpires, tables, control
  <2>2. cache'[s] = None \/ (cache'[s] = cache[s] /\ (s \in strays => s \in strays'))
    BY <1>10 DEF CacheExpires
  <2> QED
    BY <1>0, <2>1, <2>2 DEF Explained, Active, Evicting
<1>11. ASSUME Tick PROVE Explained(s)'
  <2>1. now' > now /\ now \in Nat /\ UNCHANGED <<row, cache, strays, pc, job>>
    BY <1>11, SessionsAssumption DEF Tick, tables, redis, control
  <2>2. Active(cache[s])' => Active(cache[s])
    <3>1. cache[s] = None \/ cache[s].expires \in 0..(MaxNow + Ttl)
      BY DEF Rows
    <3>2. MaxNow + Ttl \in Nat
      BY SessionsAssumption
    <3>3. cache[s] = None \/ cache[s].expires \in Nat
      BY <3>1, <3>2
    <3>4. now' \in Nat
      BY <1>11, <2>1 DEF Tick
    <3> QED
      BY <2>1, <3>3, <3>4 DEF Active
  <2> QED
    BY <1>0, <2>1, <2>2 DEF Explained, Evicting
<1>12. CASE UNCHANGED vars
  BY <1>1, <1>12 DEF vars, tables, control, Evicting
<1> QED
  BY <1>2, <1>3, <1>4, <1>5, <1>6, <1>7, <1>8, <1>9, <1>10, <1>11, <1>12
     DEF Next, Verify, Logout, Refresh

\* A failed eviction and a verification that a write overtook are the only
\* reasons for which Redis lets a session pass that its row no longer lets.
THEOREM CopiesAreCurrent == Spec => []ActiveCopiesAreCurrent
<1>1. Init => ActiveCopiesAreCurrent
  BY DEF Init, ActiveCopiesAreCurrent, Active
<1> QED
  BY <1>1, CopiesPreserved, SessionsInvariance, PTL DEF Spec

----------------------------------------------------------------------------
(* Requests that begin after the answer to a logout *)

\* Revoked, and its row perhaps already removed.
Ended(s) == issued[s] # None /\ (row[s] = None \/ row[s].revoked)

\* The session of a late request has ended, so it reads no active row; a
\* logout that gets to its answer has ended its session.
LateOK(r) ==
  /\ pc[r] # "idle" => issued[job[r].session] # None
  /\ pc[r] \in {"evict", "reply"} /\ job[r].task = "logout" =>
       Ended(job[r].session)
  /\ pc[r] \in {"find", "swap"} => job[r].task = "refresh"
  /\ job[r].late => /\ pc[r] \notin {"idle", "store", "swap"}
                    /\ Ended(job[r].session)
LogoutsOK ==
  /\ \A s \in loggedOut : Ended(s)
  /\ \A r \in Requests : LateOK(r)

LEMMA EndedStays ==
  ASSUME SessionsInv, Next, NEW s \in SessionIds, Ended(s)
  PROVE  Ended(s)'
<1>1. CASE row[s] # None
  BY <1>1, RevokedStaysRevoked DEF Ended
<1>2. CASE row[s] = None
  <2> USE DEF SessionsInv, SessionsTypeOK
  <2>1. CASE \E q \in SessionIds : OpenSession(q)
    BY <1>2, <2>1 DEF OpenSession, Ended
  <2>2. CASE \E r \in Requests : Revoke(r)
    BY <1>2, <2>2 DEF Revoke, Revoked, Ended
  <2>3. CASE \E r \in Requests : Swap(r)
    BY <1>2, <2>3 DEF Swap, MaySwap, Active, Ended
  <2>4. CASE CleanUp
    BY <1>2, <2>4 DEF CleanUp, Dead, Ended
  <2>5. CASE UNCHANGED tables
    BY <1>2, <2>5 DEF tables, Ended
  <2>6. \/ \E q \in SessionIds : OpenSession(q)
        \/ \E r \in Requests : Revoke(r) \/ Swap(r)
        \/ CleanUp \/ UNCHANGED tables
    BY DEF Next, Verify, Logout, Refresh, VerifyRequest, LogoutRequest,
           RefreshRequest, Begin, CacheHit, CacheMiss, ReadRow, StoreCopy,
           Accept, Evict, Reply, FindByToken, Fail, CacheExpires, Tick
  <2> QED
    BY <2>1, <2>2, <2>3, <2>4, <2>5, <2>6
<1> QED
  BY <1>1, <1>2

\* A session never loses the tokens it was issued.
LEMMA IssuedStays ==
  ASSUME SessionsInv, Next, NEW s \in SessionIds, issued[s] # None
  PROVE  issued'[s] # None
<1> USE DEF SessionsInv, SessionsTypeOK
<1>1. CASE \E q \in SessionIds : OpenSession(q)
  BY <1>1, NoneIsNoRow, SessionsAssumption DEF OpenSession
<1>2. CASE \E r \in Requests : Swap(r)
  <2>1. PICK r \in Requests : Swap(r)
    BY <1>2
  <2>2. CASE job[r].session = s
    <3>1. issued[s] \in 0..MaxToken /\ issued'[s] = issued[s] + 1
      BY <2>1, <2>2 DEF Swap
    <3> QED
      BY <3>1, SessionsAssumption
  <2>3. CASE job[r].session # s
    BY <2>1, <2>3 DEF Swap
  <2> QED
    BY <2>2, <2>3
<1>3. \/ \E q \in SessionIds : OpenSession(q)
      \/ \E r \in Requests : Swap(r)
      \/ UNCHANGED issued
  BY DEF Next, Verify, Logout, Refresh, VerifyRequest, LogoutRequest,
         RefreshRequest, Begin, CacheHit, CacheMiss, ReadRow, StoreCopy,
         Accept, Evict, Reply, FindByToken, Fail, CacheExpires, Tick, CleanUp,
         Revoke, tables
<1> QED
  BY <1>1, <1>2, <1>3

\* A request in which nothing happens stays in order.
LEMMA LateOKStays ==
  ASSUME SessionsInv, LogoutsOK, Next, NEW r \in Requests,
         pc'[r] = pc[r], job'[r] = job[r]
  PROVE  LateOK(r)'
<1>1. pc[r] # "idle" => job[r].session \in SessionIds
  BY DEF SessionsInv, RequestsOK, RequestOK
<1>2. LateOK(r)
  BY DEF LogoutsOK
<1> QED
  BY <1>1, <1>2, EndedStays, IssuedStays DEF LateOK

\* A request that goes on, in the same job.
LEMMA LateOKGoesOn ==
  ASSUME SessionsInv, LogoutsOK, Next, NEW r \in Requests, pc[r] # "idle",
         pc'[r] # "idle", job'[r].session = job[r].session,
         job'[r].task = job[r].task, job'[r].late = job[r].late,
         pc'[r] \in {"evict", "reply"} /\ job[r].task = "logout" =>
           pc[r] \in {"evict", "reply"} \/ Ended(job[r].session)',
         pc'[r] \in {"store", "swap"} => ~ job[r].late,
         pc'[r] \in {"find", "swap"} => pc[r] = "find"
  PROVE  LateOK(r)'
<1>1. job[r].session \in SessionIds
  BY DEF SessionsInv, RequestsOK, RequestOK
<1>2. LateOK(r)
  BY DEF LogoutsOK
<1>3. issued'[job[r].session] # None
  BY <1>1, <1>2, IssuedStays DEF LateOK
<1>4. Ended(job[r].session) => Ended(job[r].session)'
  BY <1>1, EndedStays
<1> QED
  BY <1>2, <1>3, <1>4 DEF LateOK, Ended

LEMMA LogoutsOfRequest ==
  ASSUME SessionsInv, LogoutsOK, Next, NEW r \in Requests,
         Verify(r) \/ Logout(r) \/ Refresh(r) \/ Fail(r)
  PROVE  LateOK(r)'
<1> USE DEF SessionsInv, SessionsTypeOK
<1>0. LateOK(r)
  BY DEF LogoutsOK
<1>1. ASSUME End(r) PROVE LateOK(r)'
  BY <1>1 DEF End, Goto, NoJob, LateOK
<1>2. CASE CacheHit(r) \/ CacheMiss(r) \/ StoreCopy(r)
  <2>1. End(r) \/ /\ pc[r] \in {"lookup", "store"} /\ pc'[r] \in {"read", "user"}
                  /\ job' = job
    BY <1>2 DEF CacheHit, CacheMiss, StoreCopy, Goto
  <2> QED
    BY <1>1, <2>1, LateOKGoesOn
<1>3. CASE ReadRow(r) \/ FindByToken(r)
  <2>1. CASE End(r)
    BY <1>1, <2>1
  <2>2. CASE ~ End(r)
    <3> DEFINE found == row[job[r].session]
    <3>1. /\ pc[r] \in {"read", "find"} /\ Active(found)
          /\ pc'[r] = IF pc[r] = "read" THEN "store" ELSE "swap"
          /\ job' = [job EXCEPT ![r].seen = found]
      BY <1>3, <2>2 DEF ReadRow, FindByToken, Goto
    <3>2. ~ job[r].late
      BY <1>0, <3>1 DEF LateOK, Ended, Active
    <3>3. /\ job'[r].session = job[r].session /\ job'[r].task = job[r].task
          /\ job'[r].late = job[r].late
      BY <3>1
    <3> QED
      BY <3>1, <3>2, <3>3, LateOKGoesOn
  <2> QED
    BY <2>1, <2>2
<1>4. CASE Accept(r)
  <2>1. End(r) \/ (pc[r] = "user" /\ pc'[r] = "revoke" /\ job' = job)
    BY <1>4 DEF Accept, Goto
  <2> QED
    BY <1>1, <2>1, LateOKGoesOn
\* The row a logout has written is revoked, or was removed before.
<1>5. CASE Revoke(r)
  <2>1. /\ pc[r] = "revoke" /\ pc'[r] = "evict" /\ job' = job
        /\ row' = [row EXCEPT ![job[r].session] = Revoked(@)]
        /\ UNCHANGED issued
    BY <1>5 DEF Revoke, Wrote, Goto
  <2>2. job[r].session \in SessionIds
    BY <2>1 DEF RequestsOK, RequestOK
  <2>3. row[job[r].session] \in Rows \cup {None}
    BY <2>2
  <2>4. row'[job[r].session] = None \/ row'[job[r].session].revoked
    BY <2>1, <2>2, <2>3 DEF Revoked, Rows
  <2>5. Ended(job[r].session)'
    BY <1>0, <2>1, <2>4 DEF LateOK, Ended
  <2> QED
    BY <2>1, <2>5, LateOKGoesOn
<1>6. CASE Evict(r)
  <2>1. pc[r] = "evict" /\ pc'[r] = "reply" /\ job' = job
    BY <1>6 DEF Evict, Goto
  <2> QED
    BY <2>1, LateOKGoesOn
<1>7. CASE Reply(r) \/ Fail(r)
  BY <1>1, <1>7 DEF Reply, Fail
<1>8. CASE Swap(r)
  <2>1. pc[r] = "swap" /\ pc'[r] = "evict" /\ job' = job
    BY <1>8 DEF Swap, Wrote, Goto
  <2>2. job[r].task = "refresh"
    BY <1>0, <2>1 DEF LateOK
  <2> QED
    BY <2>1, <2>2, LateOKGoesOn
<1> QED
  BY <1>2, <1>3, <1>4, <1>5, <1>6, <1>7, <1>8 DEF Verify, Logout, Refresh

\* Nobody moves a request but its own steps.
LEMMA OthersUntouched ==
  ASSUME SessionsInv, Next, NEW r \in Requests
  PROVE  \/ pc'[r] = pc[r] /\ job'[r] = job[r]
         \/ Verify(r) \/ Logout(r) \/ Refresh(r) \/ Fail(r)
         \/ \E s \in SessionIds :
              \/ VerifyRequest(r, s) \/ LogoutRequest(r, s)
              \/ \E token \in 0..MaxToken : RefreshRequest(r, s, token)
<1>1. ASSUME NEW q \in Requests, q # r,
             \/ Verify(q) \/ Logout(q) \/ Refresh(q) \/ Fail(q)
             \/ \E s \in SessionIds :
                  \/ VerifyRequest(q, s) \/ LogoutRequest(q, s)
                  \/ \E token \in 0..MaxToken : RefreshRequest(q, s, token)
      PROVE  pc'[r] = pc[r] /\ job'[r] = job[r]
  <2>1. ASSUME NEW s \in SessionIds, NEW token, NEW task, NEW label,
               Begin(q, task, s, token, label)
        PROVE  pc'[r] = pc[r] /\ job'[r] = job[r]
    BY <1>1, <2>1 DEF Begin, Goto
  <2>2. ASSUME End(q) PROVE pc'[r] = pc[r] /\ job'[r] = job[r]
    BY <1>1, <2>2 DEF End, Goto
  <2>3. ASSUME NEW label, Goto(q, label), UNCHANGED job
        PROVE  pc'[r] = pc[r] /\ job'[r] = job[r]
    BY <1>1, <2>3 DEF Goto
  <2>4. CASE CacheHit(q) \/ CacheMiss(q) \/ StoreCopy(q) \/ Accept(q)
    BY <2>2, <2>3, <2>4 DEF CacheHit, CacheMiss, StoreCopy, Accept
  <2>5. CASE ReadRow(q) \/ FindByToken(q)
    <3>1. ASSUME NEW label, NEW found, Goto(q, label),
                 job' = [job EXCEPT ![q].seen = found]
          PROVE  pc'[r] = pc[r] /\ job'[r] = job[r]
      BY <1>1, <3>1 DEF Goto
    <3> QED
      BY <2>2, <2>5, <3>1 DEF ReadRow, FindByToken
  <2>6. CASE Logout(q) \/ Swap(q) \/ Fail(q)
    BY <2>2, <2>3, <2>6 DEF Logout, Revoke, Evict, Reply, Swap, Fail, Wrote
  <2> QED
    BY <1>1, <2>1, <2>4, <2>5, <2>6
       DEF Verify, Refresh, VerifyRequest, LogoutRequest, RefreshRequest
<1>2. \/ UNCHANGED control
      \/ \E q \in Requests :
           \/ Verify(q) \/ Logout(q) \/ Refresh(q) \/ Fail(q)
           \/ \E s \in SessionIds :
                \/ VerifyRequest(q, s) \/ LogoutRequest(q, s)
                \/ \E token \in 0..MaxToken : RefreshRequest(q, s, token)
  BY DEF Next, OpenSession, CacheExpires, CleanUp, Tick
<1> QED
  BY <1>1, <1>2 DEF control

LEMMA LogoutsPreserved ==
  ASSUME SessionsInv, LogoutsOK, [Next]_vars
  PROVE  LogoutsOK'
<1> USE DEF SessionsInv, SessionsTypeOK
<1>1. CASE UNCHANGED vars
  BY <1>1 DEF vars, tables, control, LogoutsOK, LateOK, Ended
<1>2. CASE Next
  <2>1. ASSUME NEW s \in loggedOut' PROVE Ended(s)'
    <3>1. CASE s \in loggedOut
      BY <1>2, <3>1, EndedStays DEF LogoutsOK
    <3>2. CASE s \notin loggedOut
      <4>1. PICK r \in Requests : Reply(r)
        BY <1>2, <2>1, <3>2
           DEF Next, Verify, Logout, Refresh, VerifyRequest, LogoutRequest,
               RefreshRequest, Begin, CacheHit, CacheMiss, ReadRow, StoreCopy,
               Accept, Evict, FindByToken, Fail, CacheExpires, Tick, CleanUp,
               Revoke, Swap, OpenSession
      <4>2. pc[r] = "reply" /\ job[r].task = "logout" /\ s = job[r].session
        BY <2>1, <3>2, <4>1 DEF Reply
      <4>3. Ended(s) /\ s \in SessionIds
        BY <4>2 DEF LogoutsOK, LateOK, RequestsOK, RequestOK
      <4> QED
        BY <1>2, <4>3, EndedStays
    <3> QED
      BY <3>1, <3>2
  <2>2. ASSUME NEW r \in Requests PROVE LateOK(r)'
    <3>1. CASE pc'[r] = pc[r] /\ job'[r] = job[r]
      BY <1>2, <3>1, LateOKStays
    <3>2. CASE Verify(r) \/ Logout(r) \/ Refresh(r) \/ Fail(r)
      BY <1>2, <3>2, LogoutsOfRequest
    <3>3. ASSUME NEW s \in SessionIds, NEW token \in 0..MaxToken,
                 \/ VerifyRequest(r, s) \/ LogoutRequest(r, s)
                 \/ RefreshRequest(r, s, token)
          PROVE  LateOK(r)'
      <4>1. /\ issued[s] # None /\ issued' = issued /\ row' = row
            /\ job'[r].session = s /\ job'[r].late = (s \in loggedOut)
            /\ \/ pc'[r] = "lookup"
               \/ pc'[r] = "find" /\ job'[r].task = "refresh"
        BY <3>3 DEF VerifyRequest, LogoutRequest, RefreshRequest, Begin, Goto,
                    tables
      <4> QED
        BY <4>1 DEF LateOK, LogoutsOK, Ended
    <3>4. 0 \in 0..MaxToken
      BY SessionsAssumption
    <3> QED
      BY <1>2, <3>1, <3>2, <3>3, <3>4, OthersUntouched
  <2> QED
    BY <2>1, <2>2 DEF LogoutsOK
<1> QED
  BY <1>1, <1>2

THEOREM LogoutsInvariance == Spec => []LogoutsOK
<1>1. Init => LogoutsOK
  BY DEF Init, LogoutsOK, LateOK, NoJob
<1> QED
  BY <1>1, LogoutsPreserved, SessionsInvariance, PTL DEF Spec

\* What is left of "logout instantly invalidates the access token": a request
\* that begins after the answer to the logout never gets past the sessions
\* table, and passes the cache only by a copy whose eviction failed, or has
\* yet to come, or that a verification stored after the row was written.
LateRequestsPassByStraysOnly ==
  [][\A r \in Requests :
       job[r].late /\ pc[r] \in {"lookup", "read", "store"}
                   /\ pc'[r] \in {"store", "user"} =>
         /\ pc[r] = "lookup"
         /\ job[r].session \in strays \/ Evicting(job[r].session)]_vars

\* A late request that gets from its look-up to the user did so by CacheHit.
LEMMA LateStep ==
  ASSUME SessionsInv, LogoutsOK, ActiveCopiesAreCurrent, Next,
         NEW r \in Requests, job[r].late, pc[r] \in {"lookup", "read", "store"},
         pc'[r] \in {"store", "user"}
  PROVE  /\ pc[r] = "lookup"
         /\ job[r].session \in strays \/ Evicting(job[r].session)
<1> USE DEF SessionsInv, SessionsTypeOK
<1> DEFINE s == job[r].session
<1>1. /\ s \in SessionIds /\ Ended(s) /\ pc[r] # "store"
      /\ row[s] \in Rows \cup {None}
  BY DEF LogoutsOK, LateOK, RequestsOK, RequestOK
<1>2. ~ Active(row[s])
  BY <1>1 DEF Ended, Active
<1>3. \/ CacheHit(r) /\ pc'[r] = "user"
      \/ ReadRow(r) /\ pc'[r] = "store"
  <2>1. Verify(r) \/ Logout(r) \/ Refresh(r) \/ Fail(r)
    <3>1. pc'[r] # pc[r]
      BY <1>1
    <3>2. pc[r] # "idle"
      OBVIOUS
    <3> QED
      BY <3>1, <3>2, OthersUntouched
         DEF VerifyRequest, LogoutRequest, RefreshRequest, Begin
  <2>2. CacheHit(r) \/ CacheMiss(r) \/ ReadRow(r) \/ Fail(r)
    BY <1>1, <2>1 DEF Verify, Logout, Refresh, StoreCopy, Accept, Evict, Reply,
                      FindByToken, Revoke, Swap
  <2> QED
    BY <2>2 DEF CacheHit, CacheMiss, ReadRow, Fail, Goto, End
<1>4. CacheHit(r) /\ Active(cache[s])
  BY <1>1, <1>2, <1>3 DEF CacheHit, ReadRow, Goto, End
<1>5. cache[s] # row[s]
  BY <1>2, <1>4
<1> QED
  BY <1>1, <1>4, <1>5 DEF CacheHit, ActiveCopiesAreCurrent, Evicting

\* For any number of sessions and requests, and a Redis that may fail.
THEOREM LateRequestsNeedStrays == Spec => LateRequestsPassByStraysOnly
<1>1. SessionsInv /\ LogoutsOK /\ ActiveCopiesAreCurrent /\ [Next]_vars =>
        [\A r \in Requests :
           job[r].late /\ pc[r] \in {"lookup", "read", "store"}
                       /\ pc'[r] \in {"store", "user"} =>
             /\ pc[r] = "lookup"
             /\ job[r].session \in strays \/ Evicting(job[r].session)]_vars
  BY LateStep
<1> QED
  BY <1>1, SessionsInvariance, LogoutsInvariance, CopiesAreCurrent, PTL
     DEF Spec, LateRequestsPassByStraysOnly
=============================================================================

------------------------ MODULE EventStreams_proofs ------------------------
(***************************************************************************)
(* Safety of the event streams for any number of streams, resources and    *)
(* sessions and every bound on the hints: queues are bounded, every hint   *)
(* that waits has a verification that will deal with it, and none is sent  *)
(* for a session that was dead when its verification began. The invariant  *)
(* adds that a dead session stays dead, so that a verification that began  *)
(* on one is never answered with success, and that every copy in Redis is  *)
(* the last version, about to be evicted, or one of the strays, so that a  *)
(* hint spent on any other copy is followed by another one.                *)
(***************************************************************************)
EXTENDS EventStreams, FiniteSetTheorems, TLAPS

QueueOK(s) == IsFiniteSet(pending[s]) /\ Cardinality(pending[s]) <= MaxPending
QueuesOK == \A s \in Streams : QueueOK(s)

DeadStaysDead ==
  \A s \in Streams :
    doomed[s] =>
      /\ check[s] = "asked" => ~ Accepted(SessionOf[s])
      /\ check[s] # "accepted"

StreamsInv ==
  /\ StreamsTypeOK /\ QueuesOK /\ HintsAwaitVerification /\ DeadStaysDead

----------------------------------------------------------------------------
LEMMA InitStreams == Init => StreamsInv
<1> SUFFICES ASSUME Init PROVE StreamsInv
  OBVIOUS
<1>1. StreamsTypeOK
  BY StreamsAssumption DEF Init, StreamsTypeOK
<1>2. QueuesOK
  BY FS_EmptySet, StreamsAssumption DEF Init, QueuesOK, QueueOK
<1> QED
  BY <1>1, <1>2 DEF Init, StreamsInv, HintsAwaitVerification, DeadStaysDead

\* A session Auth does not accept is never accepted again: an active copy can
\* only be left behind by what overlaps the revocation.
LEMMA SessionsStayDead ==
  ASSUME StreamsInv, [Next]_vars, NEW x \in Sessions, ~ Accepted(x)
  PROVE  ~ Accepted(x)'
<1>1. x \in revoked /\ x \notin spared
  BY DEF Accepted
<1>2. revoked \subseteq revoked' /\ (x \in revoked => x \notin spared')
  BY <1>1 DEF Next, vars, source, writers, redis, auth, client, Commit, Write,
     Evict, Emit, Store, Expire, Admit, Subscribe, Heartbeat, Checking,
     AuthAccepts, AuthRefuses, Flush, GiveUp, Notify, TakenElsewhere, Load, Revoke,
     CopyExpires, CloseSession, Disconnect
<1> QED
  BY <1>1, <1>2 DEF Accepted

----------------------------------------------------------------------------
(* What closing streams and adding a hint do to the queues *)

\* Closing streams empties their queues and leaves the others alone.
LEMMA CloseFacts ==
  ASSUME NEW hints \in [Streams -> SUBSET Resources],
         NEW set \in SUBSET Streams, CloseAfter(hints, set), StreamsTypeOK
  PROVE  /\ stream' \in [Streams -> {"none", "admitted", "open", "closed"}]
         /\ pending' \in [Streams -> SUBSET Resources]
         /\ \A s \in set : stream'[s] = "closed" /\ pending'[s] = {}
         /\ \A s \in Streams \ set :
              stream'[s] = stream[s] /\ pending'[s] = hints[s]
  BY DEF CloseAfter, StreamsTypeOK

\* A queue that does not overflow with one more hint is within its bound.
LEMMA OneMoreHint ==
  ASSUME NEW s \in Streams, NEW k \in Resources, QueueOK(s),
         ~ Overflows(pending[s] \cup {k})
  PROVE  /\ IsFiniteSet(pending[s] \cup {k})
         /\ Cardinality(pending[s] \cup {k}) <= MaxPending
<1>1. IsFiniteSet(pending[s] \cup {k})
  BY FS_AddElement DEF QueueOK
<1>2. Cardinality(pending[s] \cup {k}) \in Nat
  BY <1>1, FS_CardinalityType
<1> QED
  BY <1>1, <1>2, StreamsAssumption DEF Overflows

\* A queue that was emptied, or left as it was, is within its bound.
LEMMA QueuesAfterClosing ==
  ASSUME StreamsInv, NEW set \in SUBSET Streams,
         \A q \in set : pending'[q] = {},
         \A q \in Streams \ set : pending'[q] = pending[q]
  PROVE  QueuesOK'
<1> SUFFICES ASSUME NEW q \in Streams PROVE QueueOK(q)'
  BY DEF QueuesOK
<1>1. CASE q \in set
  <2>1. IsFiniteSet({}) /\ Cardinality({}) = 0
    BY FS_EmptySet
  <2>2. 0 <= MaxPending
    BY StreamsAssumption
  <2>3. pending'[q] = {}
    BY <1>1
  <2> QED
    BY <2>1, <2>2, <2>3, Zenon DEF QueueOK
<1>2. CASE q \notin set
  BY <1>2 DEF StreamsInv, QueuesOK, QueueOK
<1> QED
  BY <1>1, <1>2

\* Steps that touch neither streams nor queues nor verifications.
LEMMA SourcePreserves ==
  ASSUME StreamsInv, [Next]_vars, UNCHANGED <<stream, pending, check, doomed>>,
         StreamsTypeOK'
  PROVE  StreamsInv'
<1>1. DeadStaysDead'
  BY SessionsStayDead, StreamsAssumption DEF StreamsInv, DeadStaysDead
<1> QED
  BY <1>1 DEF StreamsInv, QueuesOK, QueueOK, HintsAwaitVerification, Open, Free

\* The parts of the type that no step of a stream touches.
SourceTypeOK ==
  /\ version \in [Resources -> 0..MaxVersion]
  /\ evicting \subseteq Cached \X (1..MaxVersion) /\ emitting \subseteq Changes
  /\ copy \in [Resources -> SUBSET (0..MaxVersion)]
  /\ \A k \in Resources : copy[k] # {} => k \in Cached
  /\ strays \subseteq Cached
  /\ topic \subseteq Resources
  /\ missed \in [Streams -> SUBSET Resources]

\* What is missed are resources.
LEMMA MissType ==
  ASSUME StreamsTypeOK, NEW k \in Resources, Miss(k)
  PROVE  missed' \in [Streams -> SUBSET Resources]
  BY DEF Miss, StreamsTypeOK

LEMMA WriterPreserves ==
  ASSUME StreamsInv, [Next]_vars,
         \/ \E k \in Resources :
              Commit(k) \/ Store(k) \/ Expire(k) \/ TakenElsewhere(k)
         \/ \E c \in Changes : Write(c)
  PROVE  StreamsInv'
<1> USE DEF StreamsInv, StreamsTypeOK
<1>1. UNCHANGED <<auth, stream, pending, check, doomed, toLoad, loaded>>
  BY DEF Commit, Store, Expire, TakenElsewhere, Write, Evict, Emit, auth, client
<1>2. ASSUME NEW k \in Resources, Commit(k) PROVE SourceTypeOK'
  <2>1. version[k] \in 0..MaxVersion /\ version[k] < MaxVersion
    BY <1>2 DEF Commit
  <2>2. version[k] + 1 \in 1..MaxVersion /\ version[k] + 1 \in 0..MaxVersion
    BY <2>1, StreamsAssumption
  <2>3. /\ <<k, version[k] + 1>> \in Changes
        /\ k \in Cached => <<k, version[k] + 1>> \in Cached \X (1..MaxVersion)
    BY <2>2 DEF Changes
  <2>4. /\ evicting' \subseteq Cached \X (1..MaxVersion)
        /\ emitting' \subseteq Changes
    BY <1>2, <2>3 DEF Commit
  <2>5. /\ version' = [version EXCEPT ![k] = version[k] + 1]
        /\ UNCHANGED <<copy, strays, topic>>
        /\ missed' = [s \in Streams |-> missed[s] \ {k}]
    BY <1>2 DEF Commit, redis
  <2>6. version' \in [Resources -> 0..MaxVersion]
    BY <2>2, <2>5
  <2>7. missed' \in [Streams -> SUBSET Resources]
    BY <2>5
  <2> QED
    BY <2>4, <2>5, <2>6, <2>7 DEF SourceTypeOK
<1>3. ASSUME NEW c \in Changes, Evict(c) PROVE SourceTypeOK'
  <2>1. /\ c[1] \in Resources /\ c[1] \in Cached
        /\ evicting' \subseteq evicting /\ emitting' \subseteq Changes
        /\ UNCHANGED <<version, topic, missed>>
    BY <1>3 DEF Evict, client, Changes
  <2>2. CASE Evicts(c[1])
    BY <2>1, <2>2 DEF Evicts, SourceTypeOK
  <2>3. CASE FailsToEvict(c[1])
    BY <2>1, <2>3 DEF FailsToEvict, SourceTypeOK
  <2> QED
    BY <1>3, <2>2, <2>3 DEF Evict
<1>4. ASSUME NEW c \in Changes, Emit(c) PROVE SourceTypeOK'
  <2>1. c[1] \in Resources
    BY DEF Changes
  <2>2. missed' \in [Streams -> SUBSET Resources]
    BY <1>4, <2>1, MissType DEF Emit
  <2> QED
    BY <1>4, <2>1, <2>2 DEF Emit, redis, SourceTypeOK
<1>5. ASSUME NEW k \in Resources, Store(k) PROVE SourceTypeOK'
  <2>1. PICK v \in 0..version[k] :
          /\ copy' = [copy EXCEPT ![k] = {v}]
          /\ strays' = IF v = version[k] THEN strays \ {k} ELSE strays \cup {k}
    BY <1>5 DEF Store
  <2>2. k \in Cached /\ UNCHANGED <<version, evicting, emitting, topic, missed>>
    BY <1>5 DEF Store, writers, client
  <2>3. v \in 0..MaxVersion
    BY StreamsAssumption
  <2> QED
    BY <2>1, <2>2, <2>3 DEF SourceTypeOK
<1>6. ASSUME NEW k \in Resources, Expire(k) PROVE SourceTypeOK'
  BY <1>6 DEF Expire, writers, client, SourceTypeOK
<1>7. ASSUME NEW k \in Resources, TakenElsewhere(k) PROVE SourceTypeOK'
  <2>1. missed' \in [Streams -> SUBSET Resources]
    BY <1>7, MissType DEF TakenElsewhere
  <2> QED
    BY <1>7, <2>1 DEF TakenElsewhere, writers, redis, SourceTypeOK
<1>8. SourceTypeOK'
  BY <1>2, <1>3, <1>4, <1>5, <1>6, <1>7 DEF Write
<1>9. StreamsTypeOK'
  BY <1>1, <1>8 DEF SourceTypeOK, auth, Mine
<1> QED
  BY <1>1, <1>9, SourcePreserves

LEMMA SessionStepPreserves ==
  ASSUME StreamsInv, [Next]_vars, NEW x \in Sessions,
         Revoke(x) \/ CopyExpires(x)
  PROVE  StreamsInv'
<1>1. StreamsTypeOK'
  BY DEF Revoke, CopyExpires, StreamsInv, StreamsTypeOK, source, writers,
         redis, client, Mine
<1> QED
  BY <1>1, SourcePreserves DEF Revoke, CopyExpires

LEMMA LoadPreserves ==
  ASSUME StreamsInv, [Next]_vars, NEW s \in Streams, NEW k \in Resources,
         Load(s, k)
  PROVE  StreamsInv'
<1>1. StreamsTypeOK'
  BY DEF Load, StreamsInv, StreamsTypeOK, source, writers, redis, auth, Mine
<1> QED
  BY <1>1, SourcePreserves DEF Load

\* A stream that opens has no hints yet.
LEMMA OpeningPreserves ==
  ASSUME StreamsInv, [Next]_vars, NEW s \in Streams, Admit(s) \/ Subscribe(s)
  PROVE  StreamsInv'
<1>1. /\ UNCHANGED <<source, revoked, spared, leaving, pending, check, doomed,
                     loaded, missed>>
      /\ stream[s] \in {"none", "admitted"}
      /\ \A q \in Streams \ {s} : stream'[q] = stream[q]
  BY DEF Admit, Subscribe, source, writers, redis, auth, client, StreamsInv,
         StreamsTypeOK
<1>2. StreamsTypeOK'
  <2>1. stream' \in [Streams -> {"none", "admitted", "open", "closed"}]
    BY DEF Admit, Subscribe, StreamsInv, StreamsTypeOK
  <2>2. toLoad' = toLoad \/ toLoad' = [toLoad EXCEPT ![s] = Mine(s)]
    BY DEF Admit, Subscribe, client
  <2>3. Mine(s) \subseteq Resources
    BY DEF Mine
  <2>4. /\ toLoad' \in [Streams -> SUBSET Resources]
        /\ \A q \in Streams : toLoad'[q] = toLoad[q] \/ toLoad'[q] = Mine(q)
    BY <2>2, <2>3 DEF StreamsInv, StreamsTypeOK
  <2> QED
    BY <1>1, <2>1, <2>4
       DEF StreamsInv, StreamsTypeOK, source, writers, redis, Mine
<1>3. HintsAwaitVerification'
  BY <1>1 DEF StreamsInv, HintsAwaitVerification, Open, Free
<1>4. DeadStaysDead'
  BY <1>1, SessionsStayDead, StreamsAssumption DEF StreamsInv, DeadStaysDead
<1> QED
  BY <1>1, <1>2, <1>3, <1>4 DEF StreamsInv, QueuesOK, QueueOK

----------------------------------------------------------------------------
(* Verifications and notifications *)

\* A verification that begins notes whether its session is dead already.
LEMMA VerifyFacts ==
  ASSUME StreamsInv, NEW set \in SUBSET Streams, NEW expired \in SUBSET set,
         Verify(set, expired), UNCHANGED auth,
         \A s \in set : Free(s)
  PROVE  /\ check' \in [Streams -> {"none", "asked", "accepted", "refused"}]
         /\ doomed' \in [Streams -> BOOLEAN]
         /\ \A s \in Streams : s \in set \ expired => check'[s] = "asked"
         /\ \A s \in Streams : s \notin set \ expired => check'[s] = check[s]
         /\ DeadStaysDead'
<1>1. /\ check' \in [Streams -> {"none", "asked", "accepted", "refused"}]
      /\ \A s \in Streams : s \in set \ expired => check'[s] = "asked"
      /\ \A s \in Streams : s \notin set \ expired => check'[s] = check[s]
  BY DEF Verify, StreamsInv, StreamsTypeOK
<1>2. /\ \A s \in set : doomed'[s] = ~ Accepted(SessionOf[s])
      /\ \A s \in Streams \ set : doomed'[s] = doomed[s]
      /\ \A s \in Streams : Accepted(SessionOf[s])' = Accepted(SessionOf[s])
  BY DEF Verify, auth, Accepted
<1>3. doomed' \in [Streams -> BOOLEAN]
  BY DEF Verify, Accepted, StreamsInv, StreamsTypeOK
<1>4. ASSUME NEW s \in Streams, doomed'[s]
      PROVE  /\ check'[s] = "asked" => ~ Accepted(SessionOf[s])'
             /\ check'[s] # "accepted"
  <2>1. CASE s \in set
    BY <1>1, <1>2, <1>4, <2>1 DEF Free
  <2>2. CASE s \notin set
    BY <1>1, <1>2, <1>4, <2>2 DEF StreamsInv, DeadStaysDead
  <2> QED
    BY <2>1, <2>2
<1> QED
  BY <1>1, <1>3, <1>4 DEF DeadStaysDead

LEMMA HeartbeatPreserves ==
  ASSUME StreamsInv, [Next]_vars, NEW s \in Streams, Heartbeat(s)
  PROVE  StreamsInv'
<1>1. PICK expired \in SUBSET {s} :
        Verify({s}, expired) /\ CloseAfter(pending, expired)
  BY DEF Heartbeat, Close
<1>2. Open(s) /\ Free(s) /\ UNCHANGED <<source, auth, client>>
  BY DEF Heartbeat
<1>3. /\ check' \in [Streams -> {"none", "asked", "accepted", "refused"}]
      /\ doomed' \in [Streams -> BOOLEAN] /\ DeadStaysDead'
      /\ \A q \in Streams : check'[q] = "asked" \/ check'[q] = check[q]
  <2>1. {s} \in SUBSET Streams /\ \A q \in {s} : Free(q)
    BY <1>2
  <2>2. UNCHANGED auth
    BY <1>2
  <2> QED
    BY <1>1, <2>1, <2>2, VerifyFacts
<1>4. /\ stream' \in [Streams -> {"none", "admitted", "open", "closed"}]
      /\ pending' \in [Streams -> SUBSET Resources]
      /\ \A q \in expired : stream'[q] = "closed" /\ pending'[q] = {}
      /\ \A q \in Streams \ expired :
           stream'[q] = stream[q] /\ pending'[q] = pending[q]
  <2>1. pending \in [Streams -> SUBSET Resources] /\ StreamsTypeOK
    BY DEF StreamsInv, StreamsTypeOK
  <2>2. expired \in SUBSET Streams
    OBVIOUS
  <2> QED
    BY <1>1, <2>1, <2>2, CloseFacts
<1>5. StreamsTypeOK'
  BY <1>2, <1>3, <1>4 DEF StreamsInv, StreamsTypeOK, source, writers, redis,
                          auth, client, Mine
<1>6. QueuesOK'
  BY <1>4, QueuesAfterClosing
<1>7. HintsAwaitVerification'
  BY <1>3, <1>4 DEF StreamsInv, HintsAwaitVerification, Open, Free
<1> QED
  BY <1>3, <1>5, <1>6, <1>7 DEF StreamsInv

\* Auth answers, and the verification has not gone on yet.
LEMMA AnswerPreserves ==
  ASSUME StreamsInv, [Next]_vars, NEW s \in Streams,
         AuthAccepts(s) \/ AuthRefuses(s)
  PROVE  StreamsInv'
<1>1. /\ check[s] = "asked" /\ check'[s] \in {"accepted", "refused"}
      /\ \A q \in Streams \ {s} : check'[q] = check[q]
      /\ check' \in [Streams -> {"none", "asked", "accepted", "refused"}]
      /\ UNCHANGED <<source, revoked, spared, leaving, stream, pending, doomed,
                     toLoad, loaded, missed>>
  BY DEF AuthAccepts, AuthRefuses, source, writers, redis, auth, client,
         StreamsInv, StreamsTypeOK
<1>2. StreamsTypeOK'
  BY <1>1 DEF StreamsInv, StreamsTypeOK, source, writers, redis, Mine
<1>3. HintsAwaitVerification'
  BY <1>1 DEF StreamsInv, HintsAwaitVerification, Open, Free
<1>4. doomed[s] => check'[s] # "accepted"
  BY <1>1 DEF AuthAccepts, AuthRefuses, StreamsInv, StreamsTypeOK, DeadStaysDead
<1>5. DeadStaysDead'
  BY <1>1, <1>4 DEF StreamsInv, DeadStaysDead, Accepted
<1> QED
  BY <1>1, <1>2, <1>3, <1>5 DEF StreamsInv, QueuesOK, QueueOK

\* The hints that waited are sent; a stream that closed meanwhile has none.
LEMMA FlushPreserves ==
  ASSUME StreamsInv, [Next]_vars, NEW s \in Streams, Flush(s)
  PROVE  StreamsInv'
<1>1. /\ check' = [check EXCEPT ![s] = "none"]
      /\ UNCHANGED <<source, revoked, spared, leaving, stream, doomed, loaded,
                     missed>>
  BY DEF Flush, source, writers, redis, auth
<1>2. /\ pending' \in [Streams -> SUBSET Resources] /\ pending'[s] = {}
      /\ \A q \in Streams \ {s} : pending'[q] = pending[q]
  BY DEF Flush, StreamsInv, StreamsTypeOK, HintsAwaitVerification
<1>3. /\ toLoad' \in [Streams -> SUBSET Resources]
      /\ \A q \in Streams : toLoad'[q] \subseteq Mine(q)
  <2>1. toLoad' = toLoad \/ toLoad' = [toLoad EXCEPT ![s] = @ \cup pending[s]]
    BY DEF Flush
  <2>2. \A q \in Streams : toLoad'[q] \subseteq pending[q] \cup toLoad[q]
    <3>1. toLoad \in [Streams -> SUBSET Resources]
      BY DEF StreamsInv, StreamsTypeOK
    <3>2. CASE toLoad' = toLoad
      BY <3>2
    <3>3. CASE toLoad' = [toLoad EXCEPT ![s] = @ \cup pending[s]]
      <4>1. toLoad'[s] = toLoad[s] \cup pending[s]
        BY <3>1, <3>3
      <4>2. \A q \in Streams \ {s} : toLoad'[q] = toLoad[q]
        BY <3>1, <3>3
      <4> QED
        BY <4>1, <4>2
    <3> QED
      BY <2>1, <3>2, <3>3
  <2>3. toLoad' \in [Streams -> SUBSET Resources]
    <3>1. /\ toLoad \in [Streams -> SUBSET Resources]
          /\ pending \in [Streams -> SUBSET Resources]
      BY DEF StreamsInv, StreamsTypeOK
    <3>2. toLoad[s] \cup pending[s] \in SUBSET Resources
      BY <3>1
    <3> QED
      BY <2>1, <3>1, <3>2
  <2> QED
    BY <2>2, <2>3 DEF StreamsInv, StreamsTypeOK
<1>4. StreamsTypeOK'
  BY <1>1, <1>2, <1>3
     DEF StreamsInv, StreamsTypeOK, source, writers, redis, Mine
<1>5. QueuesOK'
  <2>1. {s} \in SUBSET Streams /\ \A q \in {s} : pending'[q] = {}
    BY <1>2
  <2> QED
    BY <1>2, <2>1, QueuesAfterClosing
<1>6. HintsAwaitVerification'
  BY <1>1, <1>2
     DEF StreamsInv, StreamsTypeOK, HintsAwaitVerification, Open, Free
<1>7. DeadStaysDead'
  BY <1>1 DEF StreamsInv, StreamsTypeOK, DeadStaysDead, Accepted
<1> QED
  BY <1>4, <1>5, <1>6, <1>7 DEF StreamsInv

\* Streams that end, with or without a verification that failed.
LEMMA ClosePreserves ==
  ASSUME StreamsInv, [Next]_vars, NEW set \in SUBSET Streams, Close(set),
         UNCHANGED <<source, revoked, spared, doomed, client>>,
         leaving' \in SUBSET leaving,
         check' = check \/ \E s \in set : check' = [check EXCEPT ![s] = "none"]
  PROVE  StreamsInv'
<1>1. /\ stream' \in [Streams -> {"none", "admitted", "open", "closed"}]
      /\ pending' \in [Streams -> SUBSET Resources]
      /\ \A q \in set : stream'[q] = "closed" /\ pending'[q] = {}
      /\ \A q \in Streams \ set :
           stream'[q] = stream[q] /\ pending'[q] = pending[q]
  <2>1. pending \in [Streams -> SUBSET Resources] /\ StreamsTypeOK
    BY DEF StreamsInv, StreamsTypeOK
  <2>2. CloseAfter(pending, set)
    BY DEF Close
  <2> QED
    BY <2>1, <2>2, CloseFacts
<1>2. /\ check' \in [Streams -> {"none", "asked", "accepted", "refused"}]
      /\ \A q \in Streams : check'[q] = check[q] \/ check'[q] = "none"
      /\ \A q \in Streams \ set : check'[q] = check[q]
  BY DEF StreamsInv, StreamsTypeOK
<1>3. StreamsTypeOK'
  BY <1>1, <1>2
     DEF StreamsInv, StreamsTypeOK, source, writers, redis, client, Mine
<1>4. QueuesOK'
  BY <1>1, QueuesAfterClosing
<1>5. HintsAwaitVerification'
  BY <1>1, <1>2 DEF StreamsInv, HintsAwaitVerification, Open, Free
<1>6. DeadStaysDead'
  BY <1>2 DEF StreamsInv, DeadStaysDead, Accepted
<1> QED
  BY <1>3, <1>4, <1>5, <1>6 DEF StreamsInv

\* One notification meets every stream of its user at once.
LEMMA NotifyPreserves ==
  ASSUME StreamsInv, [Next]_vars, NEW k \in Resources, Notify(k)
  PROVE  StreamsInv'
<1> DEFINE takers == {s \in Streams : Takes(s, k)}
           full == {s \in takers : Overflows(pending[s] \cup {k})}
           checked == {s \in takers \ full : Free(s)}
           hints == [s \in Streams |-> IF s \in takers THEN pending[s] \cup {k}
                                       ELSE pending[s]]
<1>1. /\ UNCHANGED <<writers, redis, auth, client>>
      /\ topic' \subseteq Resources
  BY DEF Notify, StreamsInv, StreamsTypeOK
<1>2. PICK expired \in SUBSET checked :
        Verify(checked, expired) /\ CloseAfter(hints, full \cup expired)
  BY DEF Notify
<1> DEFINE closing == full \cup expired
<1>3. /\ hints \in [Streams -> SUBSET Resources]
      /\ closing \in SUBSET Streams /\ checked \in SUBSET Streams
      /\ \A s \in checked : Free(s)
      /\ \A s \in Streams : hints[s] \subseteq pending[s] \cup {k}
  BY DEF StreamsInv, StreamsTypeOK
<1>4. \A s \in Streams : hints[s] \subseteq Mine(s)
  BY DEF StreamsInv, StreamsTypeOK, Takes
<1>5. \A s \in Streams \ closing : hints[s] # {} => Open(s)
  BY DEF Takes, StreamsInv, HintsAwaitVerification
<1>6. \A s \in Streams \ closing :
        hints[s] # {} => ~ Free(s) \/ s \in checked \ expired
  BY DEF StreamsInv, HintsAwaitVerification
<1>7. \A s \in Streams \ closing :
        IsFiniteSet(hints[s]) /\ Cardinality(hints[s]) <= MaxPending
  <2> SUFFICES ASSUME NEW s \in Streams \ closing
               PROVE  IsFiniteSet(hints[s]) /\ Cardinality(hints[s]) <= MaxPending
    OBVIOUS
  <2>1. QueueOK(s)
    BY DEF StreamsInv, QueuesOK
  <2>2. CASE s \in takers
    <3>1. ~ Overflows(pending[s] \cup {k}) /\ hints[s] = pending[s] \cup {k}
      BY <2>2
    <3> QED
      BY <2>1, <3>1, OneMoreHint
  <2>3. CASE s \notin takers
    BY <2>1, <2>3 DEF QueueOK
  <2> QED
    BY <2>2, <2>3
<1> HIDE DEF takers, full, checked, hints, closing
<1>8. /\ stream' \in [Streams -> {"none", "admitted", "open", "closed"}]
      /\ pending' \in [Streams -> SUBSET Resources]
      /\ \A q \in closing : stream'[q] = "closed" /\ pending'[q] = {}
      /\ \A q \in Streams \ closing :
           stream'[q] = stream[q] /\ pending'[q] = hints[q]
  <2>1. CloseAfter(hints, closing)
    BY <1>2 DEF closing
  <2> QED
    BY <1>3, <2>1, CloseFacts DEF StreamsInv
<1>9. /\ check' \in [Streams -> {"none", "asked", "accepted", "refused"}]
      /\ doomed' \in [Streams -> BOOLEAN] /\ DeadStaysDead'
      /\ \A q \in Streams : q \in checked \ expired => check'[q] = "asked"
      /\ \A q \in Streams : q \notin checked \ expired => check'[q] = check[q]
  BY <1>1, <1>2, <1>3, VerifyFacts
<1>10. StreamsTypeOK'
  <2>1. \A q \in Streams : pending'[q] \subseteq Mine(q)
    BY <1>4, <1>8
  <2> QED
    BY <1>1, <1>8, <1>9, <2>1
       DEF StreamsInv, StreamsTypeOK, writers, redis, auth, client, Mine
<1>11. QueuesOK'
  <2> SUFFICES ASSUME NEW q \in Streams PROVE QueueOK(q)'
    BY DEF QueuesOK
  <2>1. CASE q \in closing
    <3>1. IsFiniteSet({}) /\ Cardinality({}) = 0 /\ 0 <= MaxPending
      BY FS_EmptySet, StreamsAssumption
    <3>2. pending'[q] = {}
      BY <1>8, <2>1
    <3> QED
      BY <3>1, <3>2, Zenon DEF QueueOK
  <2>2. CASE q \notin closing
    BY <1>7, <1>8, <2>2 DEF QueueOK
  <2> QED
    BY <2>1, <2>2
<1>12. HintsAwaitVerification'
  BY <1>5, <1>6, <1>8, <1>9 DEF HintsAwaitVerification, Open, Free
<1> QED
  BY <1>9, <1>10, <1>11, <1>12 DEF StreamsInv

----------------------------------------------------------------------------
\* The invariant behind the safety of the streams, for any number of streams
\* and sessions and whatever Kafka, Auth and the clients do.
THEOREM StreamsInvariance == Spec => []StreamsInv
<1>1. StreamsInv /\ [Next]_vars => StreamsInv'
  <2> SUFFICES ASSUME StreamsInv, [Next]_vars PROVE StreamsInv'
    OBVIOUS
  <2>1. ASSUME NEW s \in Streams, GiveUp(s) PROVE StreamsInv'
    BY <2>1, ClosePreserves
       DEF GiveUp, AfterFailure, source, writers, redis, auth
  <2>2. ASSUME NEW x \in Sessions, CloseSession(x) PROVE StreamsInv'
    BY <2>2, ClosePreserves DEF CloseSession, source, writers, redis
  <2>3. ASSUME NEW set \in SUBSET Streams, Disconnect(set) PROVE StreamsInv'
    BY <2>3, ClosePreserves DEF Disconnect, source, writers, redis, auth
  <2>4. CASE UNCHANGED vars
    BY <2>4, SourcePreserves
       DEF vars, source, writers, redis, auth, client, StreamsInv,
           StreamsTypeOK, Mine
  <2> QED
    BY <2>1, <2>2, <2>3, <2>4, WriterPreserves, NotifyPreserves,
       OpeningPreserves, HeartbeatPreserves, AnswerPreserves, FlushPreserves,
       LoadPreserves, SessionStepPreserves DEF Next, Checking
<1> QED
  BY <1>1, InitStreams, PTL DEF Spec

\* Streams, queues and verifications keep their types, and a queue only ever
\* names resources of the stream's user.
THEOREM StreamsTypeCorrect == Spec => []StreamsTypeOK
  BY StreamsInvariance, PTL DEF StreamsInv

\* However slow Auth is, no stream keeps more than MaxPending hints.
THEOREM QueuesStayBounded == Spec => []QueuesAreBounded
<1>1. StreamsInv => QueuesAreBounded
  BY DEF StreamsInv, QueuesOK, QueueOK, QueuesAreBounded
<1> QED
  BY <1>1, StreamsInvariance, PTL

\* No hint is stranded: a verification that will flush or end the stream is
\* under way as long as one waits.
THEOREM NoHintIsStranded == Spec => []HintsAwaitVerification
  BY StreamsInvariance, PTL DEF StreamsInv

----------------------------------------------------------------------------
(* What becomes of a change *)

\* A copy in Redis is the committed version, or about to be evicted, or one
\* of those that slip past the evictions.
CopiesOK ==
  \A k \in Resources :
    \/ copy[k] \subseteq {version[k]} \/ k \in strays
    \/ \E c \in evicting : c[1] = k

LEMMA CopiesStayAccounted ==
  ASSUME StreamsTypeOK, CopiesOK, [Next]_vars
  PROVE  CopiesOK'
<1> SUFFICES ASSUME NEW k \in Resources
             PROVE  \/ copy'[k] \subseteq {version'[k]} \/ k \in strays'
                    \/ \E c \in evicting' : c[1] = k
  BY DEF CopiesOK
<1> DEFINE Good == \/ copy'[k] \subseteq {version'[k]} \/ k \in strays'
                   \/ \E c \in evicting' : c[1] = k
<1> USE DEF StreamsTypeOK
<1>1. ASSUME UNCHANGED <<version, evicting, copy, strays>> PROVE Good
  BY <1>1 DEF CopiesOK
<1>2. ASSUME NEW x \in Resources, Commit(x) PROVE Good
  <2>1. /\ version' = [version EXCEPT ![x] = version[x] + 1]
        /\ UNCHANGED <<copy, strays>> /\ evicting \subseteq evicting'
        /\ x \in Cached => <<x, version[x] + 1>> \in evicting'
    BY <1>2 DEF Commit, redis
  <2>2. CASE x = k
    <3>1. CASE k \in Cached
      <4>1. <<k, version[k] + 1>> \in evicting' /\ <<k, version[k] + 1>>[1] = k
        BY <2>1, <2>2, <3>1
      <4> QED
        BY <4>1
    <3>2. CASE k \notin Cached
      BY <2>1, <3>2
    <3> QED
      BY <3>1, <3>2
  <2>3. CASE x # k
    <3>1. version'[k] = version[k]
      BY <2>1, <2>3
    <3> QED
      BY <2>1, <3>1 DEF CopiesOK
  <2> QED
    BY <2>2, <2>3
<1>3. ASSUME NEW c \in Changes, Evict(c) PROVE Good
  <2>1. version' = version /\ evicting' = evicting \ {c} /\ c[1] \in Resources
    BY <1>3 DEF Evict, Changes
  <2>2. CASE c[1] = k
    <3>1. CASE Evicts(c[1])
      BY <2>2, <3>1 DEF Evicts
    <3>2. CASE FailsToEvict(c[1])
      BY <2>1, <2>2, <3>2 DEF FailsToEvict
    <3> QED
      BY <1>3, <3>1, <3>2 DEF Evict
  <2>3. CASE c[1] # k
    <3>1. copy'[k] = copy[k] /\ (k \in strays => k \in strays')
      BY <1>3, <2>1, <2>3 DEF Evict, Evicts, FailsToEvict
    <3>2. \A d \in evicting : d[1] = k => d \in evicting'
      BY <2>1, <2>3
    <3> QED
      BY <2>1, <3>1, <3>2 DEF CopiesOK
  <2> QED
    BY <2>2, <2>3
<1>4. ASSUME NEW x \in Resources, Store(x) \/ Expire(x) PROVE Good
  <2>1. UNCHANGED <<version, evicting>>
    BY <1>4 DEF Store, Expire, writers
  <2>2. CASE x = k
    BY <1>4, <2>1, <2>2 DEF Store, Expire
  <2>3. CASE x # k
    <3>1. copy'[k] = copy[k] /\ (k \in strays => k \in strays')
      BY <1>4, <2>3 DEF Store, Expire
    <3> QED
      BY <2>1, <3>1 DEF CopiesOK
  <2> QED
    BY <2>2, <2>3
<1>5. ASSUME NEW c \in Changes, Emit(c) PROVE Good
  BY <1>1, <1>5 DEF Emit, redis
<1>6. ASSUME NEW x \in Resources, Notify(x) \/ TakenElsewhere(x) PROVE Good
  BY <1>1, <1>6 DEF Notify, TakenElsewhere, writers, redis
<1>7. ASSUME NEW q \in Streams,
             \/ Admit(q) \/ Subscribe(q) \/ Heartbeat(q) \/ Checking(q)
             \/ \E x \in Resources : Load(q, x)
      PROVE  Good
  BY <1>1, <1>7 DEF Admit, Subscribe, Heartbeat, Checking, AuthAccepts,
     AuthRefuses, Flush, GiveUp, Load, source, writers, redis
<1>8. ASSUME NEW x \in Sessions, Revoke(x) \/ CopyExpires(x) \/ CloseSession(x)
      PROVE  Good
  BY <1>1, <1>8 DEF Revoke, CopyExpires, CloseSession, source, writers, redis
<1>9. ASSUME NEW set \in SUBSET Streams, Disconnect(set) PROVE Good
  BY <1>1, <1>9 DEF Disconnect, source, writers, redis
<1>10. CASE UNCHANGED vars
  BY <1>1, <1>10 DEF vars, source, writers, redis
<1> QED
  BY <1>2, <1>3, <1>4, <1>5, <1>6, <1>7, <1>8, <1>9, <1>10 DEF Next, Write

\* What happens to the event of resource x between its emission and the
\* gateway: a client that lags behind on x is told otherwise or is missed.
LEMMA MissFacts ==
  ASSUME StreamsTypeOK, NEW x \in Resources, Miss(x),
         UNCHANGED <<version, stream, loaded>>,
         NEW s \in Streams, Open(s), NEW k \in Mine(s)
  PROVE  /\ missed[s] \subseteq missed'[s]
         /\ k = x /\ loaded[s][k] # version[k] =>
              Coming(s, k)' \/ k \in missed'[s]
<1>1. missed'[s] = IF /\ Open(s) /\ x \in Mine(s) /\ loaded[s][x] # version[x]
                      /\ ~ Coming(s, x)'
                   THEN missed[s] \cup {x} ELSE missed[s]
  BY DEF Miss
<1> QED
  BY <1>1

\* No step loses the last change of a resource for the client of s: it stays
\* on its way, or the client has loaded it, or the resource is missed.
LEMMA NothingIsForgotten ==
  ASSUME StreamsInv, CopiesOK, NoChangeForgotten, [Next]_vars
  PROVE  NoChangeForgotten'
<1> SUFFICES ASSUME NEW s \in Streams, Open(s)', NEW k \in Mine(s),
                    loaded'[s][k] # version'[k]
             PROVE  Coming(s, k)' \/ k \in missed'[s]
  BY DEF NoChangeForgotten, Mine
<1> USE DEF StreamsInv, StreamsTypeOK
<1> DEFINE Told == Coming(s, k)' \/ k \in missed'[s]
<1>1. k \in Resources /\ k \in Mine(s) /\ OwnerOf[k] = UserOf[s]
  BY DEF Mine
<1>2. ASSUME Open(s), loaded'[s][k] = loaded[s][k], version'[k] = version[k]
      PROVE  Coming(s, k) \/ k \in missed[s]
  BY <1>1, <1>2 DEF NoChangeForgotten
<1>3. ASSUME NEW x \in Resources, Commit(x) PROVE Told
  <2>1. /\ UNCHANGED <<topic, stream, pending, toLoad, loaded>>
        /\ missed'[s] = missed[s] \ {x}
        /\ version' = [version EXCEPT ![x] = version[x] + 1]
    BY <1>3 DEF Commit
  <2>2. /\ evicting \subseteq evicting' /\ emitting \subseteq emitting'
        /\ <<x, version[x] + 1>> \in evicting' \cup emitting'
    BY <1>3 DEF Commit
  <2>3. CASE x = k
    <3>1. <<k, version[k] + 1>>[1] = k
      OBVIOUS
    <3> QED
      BY <2>2, <2>3, <3>1, Zenon DEF Coming, Writing
  <2>4. CASE x # k
    <3>1. version'[k] = version[k]
      BY <1>1, <2>1, <2>4
    <3>2. Coming(s, k) \/ k \in missed[s]
      BY <1>2, <2>1, <3>1 DEF Open
    <3>3. Writing \subseteq Writing'
      BY <2>2 DEF Writing
    <3> QED
      BY <2>1, <2>4, <3>2, <3>3 DEF Coming
  <2> QED
    BY <2>3, <2>4
<1>4. ASSUME NEW c \in Changes, Evict(c) PROVE Told
  <2>1. /\ UNCHANGED <<version, topic, stream, pending, toLoad, loaded, missed>>
        /\ evicting' \cup emitting' = evicting \cup emitting
    BY <1>4 DEF Evict, client
  <2>2. Writing' = Writing
    BY <2>1 DEF Writing
  <2> QED
    BY <1>2, <2>1, <2>2 DEF Coming, Open
<1>5. ASSUME NEW c \in Changes, Emit(c) PROVE Told
  <2>1. /\ UNCHANGED <<version, evicting, stream, pending, toLoad, loaded>>
        /\ emitting' = emitting \ {c} /\ topic \subseteq topic'
        /\ topic' = topic \cup {c[1]} \/ Miss(c[1])
        /\ missed' = missed \/ Miss(c[1])
    BY <1>5 DEF Emit
  <2>2. c[1] \in Resources
    BY DEF Changes
  <2>3. Open(s)
    BY <2>1 DEF Open
  <2>4. missed[s] \subseteq missed'[s]
    BY <2>1, <2>2, <2>3, MissFacts
  <2>5. CASE k = c[1]
    <3>1. CASE topic' = topic \cup {c[1]}
      BY <2>5, <3>1 DEF Coming
    <3>2. CASE Miss(c[1])
      BY <2>1, <2>2, <2>3, <2>5, <3>2, MissFacts
    <3> QED
      BY <2>1, <3>1, <3>2
  <2>6. CASE k # c[1]
    <3>1. k \in Writing => k \in Writing'
      BY <2>1, <2>6 DEF Writing
    <3>2. Coming(s, k) => Coming(s, k)'
      BY <2>1, <3>1 DEF Coming
    <3> QED
      BY <1>2, <2>1, <2>3, <2>4, <3>2
  <2> QED
    BY <2>5, <2>6
<1>6. ASSUME NEW x \in Resources, Store(x) \/ Expire(x) PROVE Told
  <2>1. UNCHANGED <<version, evicting, emitting, topic, stream, pending, toLoad,
                    loaded, missed>>
    BY <1>6 DEF Store, Expire, writers, client
  <2> QED
    BY <1>2, <2>1 DEF Coming, Writing, Open
<1>7. ASSUME NEW x \in Resources, TakenElsewhere(x) PROVE Told
  <2>1. /\ UNCHANGED <<version, evicting, emitting, stream, pending, toLoad,
                       loaded>>
        /\ topic' = topic \ {x} /\ Miss(x)
    BY <1>7 DEF TakenElsewhere, writers
  <2>2. Open(s)
    BY <2>1 DEF Open
  <2>3. CASE k = x
    BY <2>1, <2>2, <2>3, MissFacts
  <2>4. CASE k # x
    <3>1. Coming(s, k) => Coming(s, k)'
      BY <2>1, <2>4 DEF Coming, Writing
    <3>2. missed[s] \subseteq missed'[s]
      BY <2>1, <2>2, MissFacts
    <3> QED
      BY <1>2, <2>1, <2>2, <3>1, <3>2
  <2> QED
    BY <2>3, <2>4
<1>8. ASSUME NEW q \in Streams, Subscribe(q) PROVE Told
  <2>1. /\ UNCHANGED <<version, evicting, emitting, topic, pending, loaded,
                       missed>>
        /\ toLoad' = [toLoad EXCEPT ![q] = Mine(q)]
        /\ stream' = [stream EXCEPT ![q] = "open"]
    BY <1>8 DEF Subscribe, source, writers
  <2>2. CASE q = s
    BY <1>1, <2>1, <2>2 DEF Coming
  <2>3. CASE q # s
    <3>1. Open(s) /\ toLoad'[s] = toLoad[s]
      BY <2>1, <2>3 DEF Open
    <3> QED
      BY <1>2, <2>1, <3>1 DEF Coming, Writing
  <2> QED
    BY <2>2, <2>3
<1>9. ASSUME NEW q \in Streams, Flush(q) PROVE Told
  <2>1. UNCHANGED <<version, evicting, emitting, topic, stream, loaded, missed>>
    BY <1>9 DEF Flush, source, writers
  <2>2. pending[s] \cup toLoad[s] \subseteq pending'[s] \cup toLoad'[s]
    BY <1>9 DEF Flush
  <2> QED
    BY <1>2, <2>1, <2>2 DEF Coming, Writing, Open
<1>10. ASSUME NEW q \in Streams, NEW x \in Resources, Load(q, x) PROVE Told
  <2>1. /\ UNCHANGED <<version, evicting, emitting, copy, strays, topic, stream,
                       pending>>
        /\ toLoad' = [toLoad EXCEPT ![q] = toLoad[q] \ {x}]
    BY <1>10 DEF Load, source, writers, redis
  <2>2. PICK v \in copy[x] \cup {version[x]} :
          /\ loaded' = [loaded EXCEPT ![q][x] = v]
          /\ missed' = [missed EXCEPT ![q] =
                          IF v # version[x] /\ x \in strays /\ ~ Coming(q, x)'
                          THEN @ \cup {x} ELSE @ \ {x}]
    BY <1>10 DEF Load
  <2>3. CASE q = s /\ x = k
    <3>1. loaded'[s][k] = v
      BY <2>2, <2>3
    <3>2. v # version[k] /\ v \in copy[k]
      BY <2>1, <2>2, <2>3, <3>1
    <3>3. k \in strays \/ \E c \in evicting : c[1] = k
      BY <1>1, <3>2 DEF CopiesOK
    <3>4. CASE k \in strays
      BY <2>2, <2>3, <3>2, <3>4
    <3>5. CASE \E c \in evicting : c[1] = k
      BY <2>1, <3>5 DEF Coming, Writing
    <3> QED
      BY <3>3, <3>4, <3>5
  <2>4. CASE ~ (q = s /\ x = k)
    <3>1. loaded'[s][k] = loaded[s][k] /\ (k \in toLoad[s] => k \in toLoad'[s])
      BY <1>1, <2>1, <2>2, <2>4
    <3>2. k \in missed[s] => k \in missed'[s]
      BY <2>2, <2>4
    <3> QED
      BY <1>2, <2>1, <3>1, <3>2 DEF Coming, Writing, Open
  <2> QED
    BY <2>3, <2>4
<1>11. ASSUME NEW x \in Resources, Notify(x) PROVE Told
  <2> DEFINE takers == {q \in Streams : Takes(q, x)}
             full == {q \in takers : Overflows(pending[q] \cup {x})}
             hints == [q \in Streams |-> IF q \in takers THEN pending[q] \cup {x}
                                         ELSE pending[q]]
  <2>0. PICK expired : CloseAfter(hints, full \cup expired)
    BY <1>11 DEF Notify
  <2> DEFINE closing == full \cup expired
  <2>1. /\ stream' = [q \in Streams |-> IF q \in closing THEN "closed" ELSE stream[q]]
        /\ pending' = [q \in Streams |-> IF q \in closing THEN {} ELSE hints[q]]
    BY <2>0 DEF CloseAfter
  <2>2. /\ UNCHANGED <<version, evicting, emitting, toLoad, loaded, missed>>
        /\ topic \ {x} \subseteq topic'
    BY <1>11 DEF Notify, client, writers
  <2>3. s \notin closing /\ Open(s) /\ pending'[s] = hints[s]
    BY <2>1 DEF Open
  <2>4. CASE k = x
    BY <1>1, <2>3, <2>4 DEF Takes, Coming
  <2>5. CASE k # x
    <3>1. Coming(s, k) => Coming(s, k)'
      BY <2>2, <2>3, <2>5 DEF Coming, Writing
    <3> QED
      BY <1>2, <2>2, <2>3, <3>1
  <2> QED
    BY <2>4, <2>5
<1>12. ASSUME NEW closing \in SUBSET Streams, Close(closing),
              UNCHANGED <<source, client>>
       PROVE  Told
  <2>1. s \notin closing /\ Open(s) /\ pending'[s] = pending[s]
    BY <1>12 DEF Close, CloseAfter, Open
  <2> QED
    BY <1>2, <1>12, <2>1 DEF source, writers, client, Coming, Writing
<1>13. ASSUME UNCHANGED <<source, pending, client>>, Open(s)' => Open(s)
       PROVE  Told
  BY <1>2, <1>13 DEF source, writers, client, Coming, Writing
<1>14. ASSUME NEW q \in Streams, Heartbeat(q) \/ GiveUp(q) PROVE Told
  BY <1>12, <1>14 DEF Heartbeat, GiveUp, AfterFailure
<1>15. ASSUME NEW q \in Streams, Admit(q) \/ AuthAccepts(q) \/ AuthRefuses(q)
       PROVE  Told
  BY <1>13, <1>15 DEF Admit, AuthAccepts, AuthRefuses, Open
<1>16. ASSUME NEW x \in Sessions, Revoke(x) \/ CopyExpires(x) PROVE Told
  BY <1>13, <1>16 DEF Revoke, CopyExpires, Open
<1>17. ASSUME NEW x \in Sessions, CloseSession(x) PROVE Told
  BY <1>12, <1>17 DEF CloseSession
<1>18. ASSUME NEW set \in SUBSET Streams, Disconnect(set) PROVE Told
  BY <1>12, <1>18 DEF Disconnect
<1>19. CASE UNCHANGED vars
  BY <1>13, <1>19 DEF vars, Open
<1> HIDE DEF Told
<1> QED
  BY <1>3, <1>4, <1>5, <1>6, <1>7, <1>8, <1>9, <1>10, <1>11, <1>14, <1>15,
     <1>16, <1>17, <1>18, <1>19 DEF Next, Checking, Write, Told

\* The safe half of ClientsCatchUp: as long as the client of an open stream
\* lags behind, its last change is still with the service that made it, in
\* Kafka, among the hints or in what the client was told to load, unless the
\* event went elsewhere or the client's last hint met a stray copy. No other
\* interleaving of the commit, the eviction, the event and the reload loses
\* it.
THEOREM ChangesStayOnTheirWay == Spec => []NoChangeForgotten
<1>1. Init => CopiesOK /\ NoChangeForgotten
  BY DEF Init, CopiesOK, NoChangeForgotten, Open
<1>2. StreamsInv /\ CopiesOK /\ NoChangeForgotten /\ [Next]_vars =>
        CopiesOK' /\ NoChangeForgotten'
  BY CopiesStayAccounted, NothingIsForgotten DEF StreamsInv
<1> QED
  BY <1>1, <1>2, StreamsInvariance, PTL DEF Spec

\* A hint only goes to the owner of its resource, and never on the strength
\* of a verification that began when the session was dead.
THEOREM HintsGoToTheirOwners == Spec => HintsAreAuthorized
<1>1. StreamsInv /\ [Next]_vars =>
        \A s \in Streams : \A k \in toLoad'[s] \ toLoad[s] :
          /\ OwnerOf[k] = UserOf[s]
          /\ Open(s) => ~ doomed[s]
  <2> SUFFICES ASSUME StreamsInv, [Next]_vars, NEW s \in Streams,
                      NEW k \in toLoad'[s] \ toLoad[s]
               PROVE  OwnerOf[k] = UserOf[s] /\ (Open(s) => ~ doomed[s])
    OBVIOUS
  <2>1. Subscribe(s) \/ Flush(s)
    <3>1. toLoad' # toLoad
      OBVIOUS
    <3>2. \/ \E q \in Streams : Subscribe(q) \/ Flush(q)
          \/ \E q \in Streams, x \in Resources : Load(q, x)
      BY <3>1 DEF Next, vars, client, Commit, Store, Expire, Write, Evict, Emit,
         TakenElsewhere, Admit, Heartbeat, Checking, AuthAccepts, AuthRefuses,
         GiveUp, Notify, Revoke, CopyExpires, CloseSession, Disconnect
    <3>3. ASSUME NEW q \in Streams, NEW x \in Resources, Load(q, x)
          PROVE  FALSE
      BY <3>3 DEF Load, StreamsInv, StreamsTypeOK
    <3>4. ASSUME NEW q \in Streams, Subscribe(q) \/ Flush(q)
          PROVE  q = s
      BY <3>4 DEF Subscribe, Flush, StreamsInv, StreamsTypeOK
    <3> QED
      BY <3>2, <3>3, <3>4
  <2>2. CASE Subscribe(s)
    BY <2>2 DEF Subscribe, Open, Mine, StreamsInv, StreamsTypeOK
  <2>3. CASE Flush(s)
    BY <2>3 DEF Flush, Answered, Open, Mine, StreamsInv, StreamsTypeOK,
                DeadStaysDead
  <2> QED
    BY <2>1, <2>2, <2>3
<1> QED
  BY <1>1, StreamsInvariance, PTL DEF Spec, HintsAreAuthorized

=============================================================================

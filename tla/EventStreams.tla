---------------------------- MODULE EventStreams ----------------------------
(***************************************************************************)
(* The event streams of the gateway (apps/gateway/src/events), from the    *)
(* change of an order or a cart, through its Kafka event and the hints     *)
(* pending in a stream, to the client that reloads what the hint names.    *)
(*                                                                         *)
(* A resource stands for one key of the map of pending hints, an event     *)
(* type with an order id, or the cart, and for what REST answers when it   *)
(* is reloaded: orders from the copies in Redis, the cart from its table.  *)
(* Hints carry no content, so a client is up to date when it has loaded    *)
(* the committed version. The module follows one replica of the gateway.   *)
(* JavaScript runs a callback to its end: what happens between two awaits  *)
(* is one step.                                                            *)
(***************************************************************************)
EXTENDS Naturals, FiniteSets

CONSTANTS
  Users,
  Sessions,
  Streams,
  Resources,
  Cached,       \* resources Orders answers from Redis
  OwnerOf,      \* the user a resource belongs to
  UserOf,       \* sub of the access token a stream was opened with
  SessionOf,    \* sid of that token
  SharedGroup,  \* TRUE when other replicas consume in the gateway's group
  MaxPending,   \* 100 in the code
  MaxVersion    \* bound of the changes of a resource

ASSUME StreamsAssumption ==
  /\ Cached \subseteq Resources
  /\ OwnerOf \in [Resources -> Users]
  /\ UserOf \in [Streams -> Users]
  /\ SessionOf \in [Streams -> Sessions]
  /\ SharedGroup \in BOOLEAN
  /\ MaxPending \in Nat
  /\ MaxVersion \in Nat

VARIABLES
  version,      \* changes of a resource that are committed
  evicting,     \* committed changes that still have to evict the copies
  emitting,     \* those whose event is still to be emitted
  copy,         \* the version Redis has of a resource, if it has one
  strays,       \* history: resources whose copy was stored by a read that a
                \* change overtook, or outlived an eviction that failed
  topic,        \* resources with an event on its way through Kafka
  revoked,      \* sessions that are revoked
  spared,       \* revoked sessions Auth may still accept: an active copy is
                \* in Redis or, from an overlapping verification, on its way
  leaving,      \* sessions whose logout this gateway is about to complete
  stream,       \* where a stream is between its request and its end
  pending,      \* hints waiting for a verification
  check,        \* the verification of a stream, if one runs
  doomed,       \* history: that verification began on a dead session
  toLoad,       \* resources the client was told to load
  loaded,       \* the version of every resource the client has
  missed        \* history: resources whose last change the client is not told
                \* of, or spent its last hint of on a stray copy

redis == <<copy, strays>>
writers == <<version, evicting, emitting>>
source == <<writers, redis, topic>>
auth == <<revoked, spared, leaving>>
client == <<toLoad, loaded, missed>>
vars == <<source, auth, stream, pending, check, doomed, client>>

Open(s) == stream[s] = "open"
Mine(s) == {k \in Resources : OwnerOf[k] = UserOf[s]}
Changes == Resources \X (1..MaxVersion)
Writing == {c[1] : c \in evicting \cup emitting}

\* The client of s will still be told to load k.
Coming(s, k) == k \in topic \cup pending[s] \cup toLoad[s] \cup Writing

Accepted(x) == x \notin revoked \/ x \in spared

\* complete() and the teardown it runs, for every stream of a set.
CloseAfter(hints, set) ==
  /\ stream' = [s \in Streams |-> IF s \in set THEN "closed" ELSE stream[s]]
  /\ pending' = [s \in Streams |-> IF s \in set THEN {} ELSE hints[s]]
Close(set) == CloseAfter(pending, set)

----------------------------------------------------------------------------
Init ==
  /\ version = [k \in Resources |-> 0]
  /\ evicting = {} /\ emitting = {}
  /\ copy = [k \in Resources |-> {}] /\ strays = {}
  /\ topic = {}
  /\ revoked = {} /\ spared = {} /\ leaving = {}
  /\ stream = [s \in Streams |-> "none"]
  /\ pending = [s \in Streams |-> {}]
  /\ check = [s \in Streams |-> "none"]
  /\ doomed = [s \in Streams |-> FALSE]
  /\ toLoad = [s \in Streams |-> {}]
  /\ loaded = [s \in Streams |-> [k \in Resources |-> 0]]
  /\ missed = [s \in Streams |-> {}]

----------------------------------------------------------------------------
(* Changes, and the copies in Redis *)

\* A change commits. Orders evicts the copies and then emits the event, the
\* Cart only emits.
Commit(k) ==
  LET c == <<k, version[k] + 1>> IN
  /\ version[k] < MaxVersion
  /\ version' = [version EXCEPT ![k] = @ + 1]
  /\ IF k \in Cached
     THEN evicting' = evicting \cup {c} /\ UNCHANGED emitting
     ELSE emitting' = emitting \cup {c} /\ UNCHANGED evicting
  /\ missed' = [s \in Streams |-> missed[s] \ {k}]
  /\ UNCHANGED <<redis, topic, auth, stream, pending, check, doomed, toLoad,
                 loaded>>

EvictsNothing(k) == UNCHANGED redis
Evicts(k) ==
  /\ copy' = [copy EXCEPT ![k] = {}]
  /\ strays' = strays \ {k}

\* Redis fails, and the service only logs it, or the process dies.
FailsToEvict(k) ==
  /\ strays' = IF copy[k] \subseteq {version[k]} THEN strays ELSE strays \cup {k}
  /\ UNCHANGED copy

Evict(c) ==
  /\ c \in evicting
  /\ evicting' = evicting \ {c}
  /\ emitting' = emitting \cup {c}
  /\ Evicts(c[1]) \/ FailsToEvict(c[1])
  /\ UNCHANGED <<version, topic, auth, stream, pending, check, doomed,
                 client>>

\* The event of a change is gone for the clients that lag behind and that no
\* other event or hint of k will reach.
Miss(k) ==
  missed' = [s \in Streams |->
              IF /\ Open(s) /\ k \in Mine(s) /\ loaded[s][k] # version[k]
                 /\ ~ Coming(s, k)'
              THEN missed[s] \cup {k} ELSE missed[s]]

\* Kafka takes the event or refuses it, or the process is dead: nothing
\* repeats the event.
Emit(c) ==
  /\ c \in emitting
  /\ emitting' = emitting \ {c}
  /\ UNCHANGED <<version, evicting, redis, auth, stream, pending, check,
                 doomed, toLoad, loaded>>
  /\ \/ topic' = topic \cup {c[1]} /\ UNCHANGED missed
     \/ UNCHANGED topic /\ Miss(c[1])

\* wrap stores what its query read. Such calls begin at any time and take any
\* time, so that it may be the version of every moment up to now.
Store(k) ==
  /\ k \in Cached
  /\ \E v \in 0..version[k] :
       /\ copy' = [copy EXCEPT ![k] = {v}]
       /\ strays' = IF v = version[k] THEN strays \ {k} ELSE strays \cup {k}
  /\ UNCHANGED <<writers, topic, auth, stream, pending, check, doomed, client>>

Expire(k) ==
  /\ copy[k] # {}
  /\ copy' = [copy EXCEPT ![k] = {}]
  /\ strays' = strays \ {k}
  /\ UNCHANGED <<writers, topic, auth, stream, pending, check, doomed, client>>

----------------------------------------------------------------------------
(* Streams open *)

\* The guard lets the request for the stream through.
Admit(s) ==
  /\ stream[s] = "none"
  /\ Accepted(SessionOf[s])
  /\ stream' = [stream EXCEPT ![s] = "admitted"]
  /\ UNCHANGED <<source, auth, pending, check, doomed, client>>

\* The stream subscribes to the notifications and then tells the client it
\* is ready, which makes the client load everything it shows.
Subscribe(s) ==
  /\ stream[s] = "admitted"
  /\ stream' = [stream EXCEPT ![s] = "open"]
  /\ toLoad' = [toLoad EXCEPT ![s] = Mine(s)]
  /\ UNCHANGED <<source, auth, pending, check, doomed, loaded, missed>>

----------------------------------------------------------------------------
(* verify(): at most one runs per stream *)

Free(s) == check[s] = "none"

\* The checks of the streams of a set begin. Those of a token past its exp
\* only end the stream.
Verify(set, expired) ==
  /\ check' = [s \in Streams |->
                 IF s \in set \ expired THEN "asked" ELSE check[s]]
  /\ doomed' = [s \in Streams |->
                  IF s \in set THEN ~ Accepted(SessionOf[s]) ELSE doomed[s]]

Heartbeat(s) ==
  /\ Open(s) /\ Free(s)
  /\ \E expired \in SUBSET {s} : Verify({s}, expired) /\ Close(expired)
  /\ UNCHANGED <<source, auth, client>>

AuthAccepts(s) ==
  /\ check[s] = "asked"
  /\ Accepted(SessionOf[s])
  /\ check' = [check EXCEPT ![s] = "accepted"]
  /\ UNCHANGED <<source, auth, stream, pending, doomed, client>>

\* Auth refuses, cannot be reached, or does not answer within 5 seconds.
AuthRefuses(s) ==
  /\ check[s] = "asked"
  /\ check' = [check EXCEPT ![s] = "refused"]
  /\ UNCHANGED <<source, auth, stream, pending, doomed, client>>

\* The verification goes on after its await.
AnsweredAtAll(s) == check[s] \in {"accepted", "refused"}
Answered(s) == check[s] = "accepted"
Flush(s) ==
  /\ Answered(s)
  /\ check' = [check EXCEPT ![s] = "none"]
  /\ IF Open(s)
     THEN /\ toLoad' = [toLoad EXCEPT ![s] = @ \cup pending[s]]
          /\ pending' = [pending EXCEPT ![s] = {}]
     ELSE UNCHANGED <<toLoad, pending>>
  /\ UNCHANGED <<source, auth, stream, doomed, loaded, missed>>

\* catch ends the stream; finally lets the next verification run.
AfterFailureStay(s) == UNCHANGED <<stream, pending>>
AfterFailure(s) == Close({s})
GiveUp(s) ==
  /\ check[s] = "refused"
  /\ check' = [check EXCEPT ![s] = "none"]
  /\ AfterFailure(s)
  /\ UNCHANGED <<source, auth, doomed, client>>

----------------------------------------------------------------------------
(* Notifications *)

\* A hint that comes while a verification runs waits for its end.
TakesAll(s, k) == Open(s)
TakesIdleOnly(s, k) == Open(s) /\ k \in Mine(s) /\ Free(s)
Takes(s, k) == Open(s) /\ k \in Mine(s)

OverflowsLate(hints) == Cardinality(hints) > MaxPending + 1
Overflows(hints) == Cardinality(hints) > MaxPending

\* publish runs the subscriber of every stream. A Kafka event may come
\* again, and one notification may meet several streams of its user.
Notify(k) ==
  LET takers == {s \in Streams : Takes(s, k)}
      full == {s \in takers : Overflows(pending[s] \cup {k})}
      checked == {s \in takers \ full : Free(s)}
  IN  /\ k \in topic
      /\ topic' = topic \/ topic' = topic \ {k}
      /\ \E expired \in SUBSET checked :
           /\ Verify(checked, expired)
           /\ CloseAfter([s \in Streams |->
                            IF s \in takers THEN pending[s] \cup {k}
                            ELSE pending[s]],
                         full \cup expired)
      /\ UNCHANGED <<writers, redis, auth, client>>

\* The replicas of the gateway consume in one group: one of them gets it.
TakenElsewhere(k) ==
  /\ SharedGroup
  /\ k \in topic
  /\ topic' = topic \ {k}
  /\ UNCHANGED <<writers, redis, auth, stream, pending, check, doomed, toLoad,
                 loaded>>
  /\ Miss(k)

\* The client reloads over REST; the guard verifies that request, too. It is
\* answered with the copy in Redis or, without one or when Redis fails, with
\* what is committed.
Load(s, k) ==
  /\ Open(s)
  /\ Accepted(SessionOf[s])
  /\ k \in toLoad[s]
  /\ toLoad' = [toLoad EXCEPT ![s] = @ \ {k}]
  /\ UNCHANGED <<source, auth, stream, pending, check, doomed>>
  /\ \E v \in copy[k] \cup {version[k]} :
       /\ loaded' = [loaded EXCEPT ![s][k] = v]
       /\ missed' = [missed EXCEPT ![s] =
                       IF v # version[k] /\ k \in strays /\ ~ Coming(s, k)'
                       THEN @ \cup {k} ELSE @ \ {k}]

----------------------------------------------------------------------------
(* The end of sessions, tokens and streams *)

\* A session is revoked, by a logout through this gateway or elsewhere; a
\* verification that overlaps it may leave an active copy in Redis.
Revoke(x) ==
  /\ x \notin revoked
  /\ revoked' = revoked \cup {x}
  /\ spared' = spared \/ spared' = spared \cup {x}
  /\ leaving' = leaving \/ leaving' = leaving \cup {x}
  /\ UNCHANGED <<source, stream, pending, check, doomed, client>>

CopyExpires(x) ==
  /\ x \in spared
  /\ spared' = spared \ {x}
  /\ UNCHANGED <<source, revoked, leaving, stream, pending, check, doomed,
                 client>>

\* The gateway got the answer to the logout.
CloseSession(x) ==
  /\ x \in leaving
  /\ leaving' = leaving \ {x}
  /\ Close({s \in Streams : Open(s) /\ SessionOf[s] = x})
  /\ UNCHANGED <<source, revoked, spared, check, doomed, client>>

\* The client disconnects, its token expires, or the gateway shuts down.
Disconnect(set) ==
  /\ set # {} /\ \A s \in set : Open(s)
  /\ Close(set)
  /\ UNCHANGED <<source, auth, check, doomed, client>>

Checking(s) == AuthAccepts(s) \/ AuthRefuses(s) \/ Flush(s) \/ GiveUp(s)

Write(c) == Evict(c) \/ Emit(c)

Next ==
  \/ \E k \in Resources : Commit(k) \/ Store(k) \/ Expire(k)
  \/ \E c \in Changes : Write(c)
  \/ \E k \in Resources : Notify(k) \/ TakenElsewhere(k)
  \/ \E s \in Streams : Admit(s) \/ Subscribe(s) \/ Heartbeat(s) \/ Checking(s)
  \/ \E s \in Streams, k \in Resources : Load(s, k)
  \/ \E x \in Sessions : Revoke(x) \/ CopyExpires(x) \/ CloseSession(x)
  \/ \E set \in SUBSET Streams : Disconnect(set)

Spec == Init /\ [][Next]_vars

\* Who changed a resource goes on, whatever fails; calls to Auth end after 5
\* seconds at the latest, the timer fires, Kafka delivers what it took and
\* not for ever the same event, Redis drops the copies of sessions, and
\* clients do what they are told.
FairSpec ==
  /\ Spec
  /\ \A s \in Streams : /\ WF_vars(Heartbeat(s) \/ Checking(s))
                        /\ WF_vars(\E k \in Resources : Load(s, k))
  /\ WF_vars(\E c \in Changes : Write(c))
  /\ WF_vars(\E k \in Resources : Notify(k) /\ k \notin topic')
  /\ \A x \in Sessions : WF_vars(CopyExpires(x))

----------------------------------------------------------------------------
(* Properties *)

StreamsTypeOK ==
  /\ version \in [Resources -> 0..MaxVersion]
  /\ evicting \subseteq Cached \X (1..MaxVersion) /\ emitting \subseteq Changes
  /\ copy \in [Resources -> SUBSET (0..MaxVersion)]
  /\ \A k \in Resources : copy[k] # {} => k \in Cached
  /\ strays \subseteq Cached
  /\ topic \subseteq Resources
  /\ revoked \subseteq Sessions /\ spared \subseteq Sessions
  /\ leaving \subseteq Sessions
  /\ stream \in [Streams -> {"none", "admitted", "open", "closed"}]
  /\ pending \in [Streams -> SUBSET Resources]
  /\ \A s \in Streams : pending[s] \cup toLoad[s] \subseteq Mine(s)
  /\ check \in [Streams -> {"none", "asked", "accepted", "refused"}]
  /\ doomed \in [Streams -> BOOLEAN]
  /\ toLoad \in [Streams -> SUBSET Resources]
  /\ loaded \in [Streams -> [Resources -> 0..MaxVersion]]
  /\ missed \in [Streams -> SUBSET Resources]

\* "Bound queued hints for slow authorization dependencies": no stream keeps
\* more than MaxPending hints, however slow Auth is and whatever arrives.
QueuesAreBounded == \A s \in Streams : Cardinality(pending[s]) <= MaxPending

\* README.md: "the session is verified before notifications are sent", and
\* they go "only to the owner". A verification that began on a session Auth
\* no longer accepted never lets a hint through, and no hint names another
\* user's resource.
HintsAreAuthorized ==
  [][\A s \in Streams :
       \A k \in toLoad'[s] \ toLoad[s] :
         /\ OwnerOf[k] = UserOf[s]
         /\ Open(s) => ~ doomed[s]]_vars

\* A hint is waiting only while a verification that will flush it is running.
HintsAwaitVerification ==
  \A s \in Streams : pending[s] # {} => Open(s) /\ ~ Free(s)

\* No change is forgotten, whatever Orders, Redis, Kafka, Auth and the client
\* are doing at this moment: what the client of an open stream has not loaded
\* in its last version is still on its way to it, with these exceptions: the
\* event did not reach Kafka, another replica of the gateway took it, or the
\* client spent its hint on a copy that an overtaken read or a failed
\* eviction had left in Redis. The other copies are gone before the hint.
NoChangeForgotten ==
  \A s \in Streams : Open(s) =>
    \A k \in Mine(s) :
      loaded[s][k] # version[k] => Coming(s, k) \/ k \in missed[s]

\* No change is missed: the client of an open stream gets to see the last
\* change of everything it may see, or the stream ends and it has to connect
\* again, with the same exceptions.
ClientsCatchUp ==
  \A s \in Streams : \A k \in Mine(s) :
    Open(s) /\ loaded[s][k] < version[k]
      ~> loaded[s][k] = version[k] \/ ~ Open(s) \/ k \in missed[s]

\* The streams of a revoked session end, also when it was revoked elsewhere
\* or while the stream was being opened.
RevokedStreamsEnd ==
  \A s \in Streams : Open(s) /\ SessionOf[s] \in revoked ~> ~ Open(s)
=============================================================================

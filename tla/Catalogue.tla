----------------------------- MODULE Catalogue -----------------------------
(***************************************************************************)
(* The product catalogue as readers see it: the rows of StockLedger with   *)
(* their cache-aside copies in Redis (libs/cache/src/cache.service.ts).    *)
(* The key of a product holds its row, the key All the list of all rows.   *)
(*                                                                         *)
(* A call that wrote rows evicts keys after its COMMIT, one call to Redis  *)
(* per key. Redis may fail at every call: CacheService logs and goes on.   *)
(***************************************************************************)
EXTENDS StockLedger

CONSTANTS
  Readers,      \* wrap calls in progress at the same time
  All,          \* LIST_CACHE_KEY
  None,
  MaxDue        \* bound of the evictions of one key that are still to come

ASSUME CatalogueAssumption ==
  /\ All \notin Products
  /\ None \notin Products \cup {All} \cup 0..MaxInt
                                     \cup [Products -> 0..MaxInt \cup {None}]
  /\ MaxDue \in Nat

VARIABLES
  copy,         \* what Redis has under every key, or None
  due,          \* evictions of every key that committed writes still make
  reading,      \* the wrap call of every reader between its query and its set
  excused       \* history: keys whose copy was stored by a call that a write
                \* overtook, or outlived an eviction that failed

cacheVars == <<copy, due, reading, excused>>
vars == <<ledgerVars, cacheVars>>

Keys == Products \cup {All}

RowOf(p) == IF p \in catalogue THEN stock[p] ELSE None
Current(k) == IF k = All THEN [p \in Products |-> RowOf(p)] ELSE RowOf(k)

NoRead == [key |-> None, seen |-> None, overtaken |-> FALSE]

Init ==
  /\ LedgerInit
  /\ copy = [k \in Keys |-> None]
  /\ due = [k \in Keys |-> 0]
  /\ reading = [r \in Readers |-> NoRead]
  /\ excused = {}

----------------------------------------------------------------------------
(* Writes *)

\* invalidate: the row's own key and the list.
KeysOfRow(p) == {p}
KeysOf(p) == {p, All}
KeysOfAll(set) == UNION {KeysOf(p) : p \in set}

\* Rows were written; the keys are evicted afterwards.
Invalidate(keys) ==
  /\ \A k \in keys : due[k] < MaxDue
  /\ due' = [k \in Keys |-> IF k \in keys THEN due[k] + 1 ELSE due[k]]
  /\ reading' = [r \in Readers |->
                   [reading[r] EXCEPT !.overtaken = @ \/ reading[r].key \in keys]]
  /\ UNCHANGED <<copy, excused>>

ReserveStock(o, items) ==
  Reserve(o, items) /\ Invalidate(KeysOfAll(Listed(items)))
\* The items of the row the call found or made, released or not.
ReleaseStock(o, legacy) ==
  /\ Release(o, legacy)
  /\ Invalidate(KeysOfAll(Listed(RowToRelease(o, legacy).items)))
Create(p, n) == CreateProduct(p, n) /\ Invalidate({All})
Update(p, n) == SetStock(p, n) /\ Invalidate(KeysOf(p))
Remove(p) == RemoveProduct(p) /\ Invalidate(KeysOf(p))

Evict(k) ==
  /\ due[k] > 0
  /\ due' = [due EXCEPT ![k] = @ - 1]
  /\ copy' = [copy EXCEPT ![k] = None]
  /\ excused' = excused \ {k}
  /\ UNCHANGED <<ledgerVars, reading>>

\* Redis fails, or the process dies first, or update throws when the row it
\* wrote cannot be read back (products.service.ts:181-184): the copy stays.
EvictionFails(k) ==
  /\ due[k] > 0
  /\ due' = [due EXCEPT ![k] = @ - 1]
  /\ excused' = IF copy[k] = None THEN excused ELSE excused \cup {k}
  /\ UNCHANGED <<ledgerVars, copy, reading>>

Expire(k) ==
  /\ copy[k] # None
  /\ copy' = [copy EXCEPT ![k] = None]
  /\ excused' = excused \ {k}
  /\ UNCHANGED <<ledgerVars, due, reading>>

----------------------------------------------------------------------------
(* findOne and findAll: wrap *)

\* A miss, or a get that fails: the factory queries the table. It throws for
\* a product without a row, and nothing is stored.
Query(r, k) ==
  /\ reading[r] = NoRead
  /\ Current(k) # None
  /\ reading' = [reading EXCEPT ![r] = [key |-> k, seen |-> Current(k),
                                        overtaken |-> FALSE]]
  /\ UNCHANGED <<ledgerVars, copy, due, excused>>

\* The value is stored, whatever happened since the query.
Store(r) ==
  LET read == reading[r] IN
  /\ read # NoRead
  /\ copy' = [copy EXCEPT ![read.key] = read.seen]
  /\ excused' = IF read.overtaken THEN excused \cup {read.key}
                ELSE excused \ {read.key}
  /\ reading' = [reading EXCEPT ![r] = NoRead]
  /\ UNCHANGED <<ledgerVars, due>>

\* set fails, or the process dies.
StoreFails(r) ==
  /\ reading[r] # NoRead
  /\ reading' = [reading EXCEPT ![r] = NoRead]
  /\ UNCHANGED <<ledgerVars, copy, due, excused>>

Write ==
  \/ \E o \in Orders, items \in KnownBaskets : ReserveStock(o, items)
  \/ \E o \in Orders, legacy \in KnownBaskets \cup {NoLegacy} :
       ReleaseStock(o, legacy)
  \/ \E p \in Products, n \in 0..MaxInt : Create(p, n) \/ Update(p, n)
  \/ \E p \in Products : Remove(p)

Next ==
  \/ Write
  \/ \E k \in Keys : Evict(k) \/ EvictionFails(k) \/ Expire(k)
  \/ \E r \in Readers : Store(r) \/ StoreFails(r)
  \/ \E r \in Readers, k \in Keys : Query(r, k)

Spec == Init /\ [][Next]_vars

----------------------------------------------------------------------------
(* Properties *)

\* A reader is shown an old row, or an old list, only while the write that
\* changed it has not evicted it yet, after a failed eviction, or when its
\* copy was stored by a call that the write overtook. Every other copy in
\* Redis is what the table holds: each write evicts every key it makes stale.
StaleOnlyByRace ==
  \A k \in Keys :
    copy[k] # None /\ copy[k] # Current(k) => due[k] > 0 \/ k \in excused
=============================================================================

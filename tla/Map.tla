--------------------------------- MODULE Map ---------------------------------
(***************************************************************************)
(* Map (applications/map): a chained hash table.  A bucket has the chain   *)
(* of its entries and its own item count, which lookup, insert, update and *)
(* remove trust: they follow `first` whenever the count is not zero.  The  *)
(* map is sequential, so an operation is one step.                         *)
(***************************************************************************)
EXTENDS Naturals, Sequences, FiniteSets, SequencesExt, FiniteSetsExt, Functions

CONSTANTS
    Keys,
    Values,
    DANGLING,               \* what is read through a pointer to a dead parameter
    Hash,                   \* the hash functor
    DEFAULT_INIT_CAPACITY,
    MaxCapacity,            \* max_capacity, as passed to the constructor
    MaxItems                \* bound: n_items

ASSUME MapAssumption ==
    /\ DANGLING \notin Values
    /\ Hash \in [Keys -> Nat]
    /\ DEFAULT_INIT_CAPACITY \in Nat \ {0}
    /\ MaxCapacity \in Nat \ {0}    \* the constructor throws on 0
    /\ MaxItems \in Nat

VARIABLES
    n_items,   \* Map::n_items
    capacity,  \* Map::capacity
    buckets,   \* Map::buckets
    result,    \* what the last operation returned, as its caller reads it
    dropped,   \* history: a removal took entries along that precede its own
    crashed    \* an operation followed a null pointer

vars == <<n_items, capacity, buckets, result, dropped, crashed>>

Entry == [key : Keys, value : Values]
Bucket == [chain : Seq(Entry), n_items : Nat]
Answer == [key : Keys, value : Values \cup {DANGLING}]
Result == [ok : BOOLEAN, entry : Answer \cup {<<>>}]

EmptyBucket == [chain |-> <<>>, n_items |-> 0]

\* Nothing found, nothing removed.
Nothing == [ok |-> FALSE, entry |-> <<>>]

TypeOK ==
    /\ n_items \in Nat
    /\ capacity \in Nat
    /\ DOMAIN buckets = 0..(capacity - 1)
    /\ \A i \in DOMAIN buckets : buckets[i] \in Bucket
    /\ result \in Result
    /\ dropped \in BOOLEAN
    /\ crashed \in BOOLEAN

\* The least power of 2 that is not less than n (n > 0).
next_power_of_2(n) == Min({2 ^ i : i \in 0..n} \cap {p \in 0..(2 * n) : p >= n})

InitCapacity == next_power_of_2(Min({DEFAULT_INIT_CAPACITY, MaxCapacity})) \div 2

\* A map with max_capacity = 1 would get no bucket at all.
ASSUME CapacityAssumption == InitCapacity \in 1..MaxCapacity

Init ==
    /\ n_items = 0
    /\ capacity = InitCapacity
    /\ buckets = [i \in 0..(InitCapacity - 1) |-> EmptyBucket]
    /\ result = Nothing
    /\ dropped = FALSE
    /\ crashed = FALSE

-----------------------------------------------------------------------------
\* hash & (cap - 1), for cap a power of 2.
IndexIn(k, cap) == Hash[k] % cap

bucket_index_for_key(k) == IndexIn(k, capacity)

BucketOf(k) == buckets[bucket_index_for_key(k)]

\* The places of a key in a chain; the loops stop at the first one.
Places(k, chain) == {i \in DOMAIN chain : chain[i].key = k}

\* The table is intact enough for an operation on k to run: it follows
\* bucket.first when the bucket claims to have items.
CanWalk(k) == BucketOf(k).n_items = 0 \/ BucketOf(k).chain # <<>>

Found(k) == BucketOf(k).n_items # 0 /\ Places(k, BucketOf(k).chain) # {}

FirstPlace(k) == Min(Places(k, BucketOf(k).chain))

FoundEntry(k) == BucketOf(k).chain[FirstPlace(k)]

-----------------------------------------------------------------------------
\* insert_into_bucket, for the entries of a chain in turn: those that hash to j.
Kept(c, newCap, j) ==
    LET kept[m \in 0..Len(c)] ==
            IF m = 0 THEN <<>>
            ELSE IF IndexIn(c[m].key, newCap) = j THEN Append(kept[m - 1], c[m])
            ELSE kept[m - 1]
    IN  kept[Len(c)]

\* The bucket j of the new table, after the walk over the old buckets.
Rehashed(b, cap, newCap, j) ==
    LET walk[i \in 0..cap] ==
            IF i = 0 THEN <<>> ELSE walk[i - 1] \o Kept(b[i - 1].chain, newCap, j)
    IN  [chain |-> walk[cap], n_items |-> Len(walk[cap])]

\* Fault: the table doubles and the entries stay in the bucket they were in.
ResizedInPlace(n, cap, b) ==
    IF 2 * n > cap /\ 2 * cap <= MaxCapacity
    THEN [i \in 0..(2 * cap - 1) |-> IF i < cap THEN b[i] ELSE EmptyBucket]
    ELSE b

\* The load factor exceeds MAX_LOAD_FACTOR = 1/2 and the table may double.
resize_required(n, cap) == 2 * n > cap /\ 2 * cap <= MaxCapacity

\* perform_resize_if_required: the table after an insertion.
Resized(n, cap, b) ==
    IF resize_required(n, cap)
    THEN [j \in 0..(2 * cap - 1) |-> Rehashed(b, cap, 2 * cap, j)]
    ELSE b

\* The entry goes to the end of its chain (whose first entry it is when the
\* bucket is empty), the counts go up, the table grows.  The result points to the
\* caller's key and to `value`, the parameter of the call that returns.
AddEntry(k, v) ==
    LET i == bucket_index_for_key(k)
        e == [key |-> k, value |-> v]
        old == IF buckets[i].n_items = 0 THEN <<>> ELSE buckets[i].chain
        b == [buckets EXCEPT ![i] =
                [chain |-> Append(old, e), n_items |-> @.n_items + 1]]
    IN  /\ n_items < MaxItems
        /\ n_items' = n_items + 1
        /\ buckets' = Resized(n_items + 1, capacity, b)
        /\ capacity' = IF resize_required(n_items + 1, capacity)
                       THEN 2 * capacity ELSE capacity
        /\ result' = [ok |-> TRUE, entry |-> [key |-> k, value |-> DANGLING]]

-----------------------------------------------------------------------------
LookupKV(k) ==
    /\ ~crashed /\ CanWalk(k)
    /\ result' = IF Found(k) THEN [ok |-> TRUE, entry |-> FoundEntry(k)] ELSE Nothing
    /\ UNCHANGED <<n_items, capacity, buckets, dropped, crashed>>

\* Fault: the collision is not noticed.
InsertAlways(k, v) ==
    /\ ~crashed /\ CanWalk(k)
    /\ AddEntry(k, v)
    /\ UNCHANGED <<dropped, crashed>>

InsertKV(k, v) ==
    /\ ~crashed /\ CanWalk(k)
    /\ \/ /\ Found(k)
          /\ result' = [ok |-> FALSE, entry |-> FoundEntry(k)]
          /\ UNCHANGED <<n_items, capacity, buckets>>
       \/ /\ ~Found(k)
          /\ AddEntry(k, v)
    /\ UNCHANGED <<dropped, crashed>>

UpdateKV(k, v) ==
    /\ ~crashed /\ CanWalk(k)
    /\ \/ /\ Found(k)
          /\ buckets' = [buckets EXCEPT
                ![bucket_index_for_key(k)].chain[FirstPlace(k)].value = v]
          /\ result' = [ok |-> TRUE, entry |-> [key |-> k, value |-> v]]
          /\ UNCHANGED <<n_items, capacity>>
       \/ /\ ~Found(k)
          /\ AddEntry(k, v)
    /\ UNCHANGED <<dropped, crashed>>

\* `prev` stays nullptr throughout the loop, so bucket.first is always set to
\* the entry's successor: whatever precedes the entry leaves the chain too.
RemoveKV(k) ==
    /\ ~crashed /\ CanWalk(k)
    /\ IF Found(k)
       THEN /\ buckets' = [buckets EXCEPT ![bucket_index_for_key(k)] =
                             [chain |-> SubSeq(@.chain, FirstPlace(k) + 1, Len(@.chain)),
                              n_items |-> @.n_items - 1]]
            /\ n_items' = n_items - 1
            /\ result' = [ok |-> TRUE, entry |-> FoundEntry(k)]
            /\ dropped' = (dropped \/ FirstPlace(k) > 1)
       ELSE /\ result' = Nothing
            /\ UNCHANGED <<n_items, buckets, dropped>>
    /\ UNCHANGED <<capacity, crashed>>

\* Any operation on k reads entry->key of a null bucket.first.
Crash(k) ==
    /\ ~crashed /\ ~CanWalk(k)
    /\ crashed' = TRUE
    /\ UNCHANGED <<n_items, capacity, buckets, result, dropped>>

Next ==
    \E k \in Keys :
        \/ LookupKV(k)
        \/ \E v \in Values : InsertKV(k, v) \/ UpdateKV(k, v)
        \/ RemoveKV(k)
        \/ Crash(k)

Spec == Init /\ [][Next]_vars

-----------------------------------------------------------------------------
\* The keys of all entries; EntriesInPlace says that no two share one.
Stored == UNION {{buckets[i].chain[m].key : m \in DOMAIN buckets[i].chain} :
                     i \in DOMAIN buckets}

\* Until a removal drops entries, every count the map keeps is the number of
\* what it counts, across inserts, removals and the resizes that recount the
\* buckets: an operation trusts the bucket's count before it follows the chain.
CountsAgree ==
    ~dropped =>
        /\ \A i \in DOMAIN buckets : buckets[i].n_items = Len(buckets[i].chain)
        /\ n_items = Cardinality(Stored)

\* Every key is in the bucket where a lookup will search it, once, however the
\* table grew since it was inserted and whatever removals dropped.
EntriesInPlace ==
    \A i \in DOMAIN buckets : \A m, n \in DOMAIN buckets[i].chain :
        /\ bucket_index_for_key(buckets[i].chain[m].key) = i
        /\ buckets[i].chain[m].key = buckets[i].chain[n].key => m = n

\* After every operation at most half as many items as buckets, until the table
\* cannot double any more; and it never grows past max_capacity.
LoadBounded ==
    /\ 2 * n_items <= capacity \/ 2 * capacity > MaxCapacity
    /\ capacity <= MaxCapacity

\* What every operation of the map relies on in the table the one before left.
TableIsExact == TypeOK /\ CountsAgree /\ EntriesInPlace /\ LoadBounded

-----------------------------------------------------------------------------
\* What lookup finds.
Contents == [k \in {x \in Keys : Found(x)} |-> FoundEntry(k).value]

Abstract == INSTANCE AbstractMap WITH dict <- Contents

\* "Remove a key / value pair from the map": the map is the partial function that
\* its interface documents.
ImplementsMap == Abstract!Spec

\* The keys that share k's bucket.
BucketMates(k) == {x \in Keys : bucket_index_for_key(x) = bucket_index_for_key(k)}

\* What the map is instead, whatever collisions, resizes and removals came before:
\* that function, with a removal that may also lose keys of the same bucket, and
\* only those.  Every operation, on a chain that lost entries too, answers as
\* documented, and keeps the values of all other keys.
ImplementsLossyMap ==
    /\ Abstract!Init
    /\ [][[ \/ Abstract!Next
            \/ \E k \in DOMAIN Contents : \E lost \in SUBSET BucketMates(k) :
                  Abstract!RemoveLosing(k, lost)
         ]_<<Contents, result>>]_<<buckets, capacity, result>>

=============================================================================

------------------------------- MODULE HashMap -------------------------------
(***************************************************************************)
(* The hash map of libbpf (libbpf/src/hashmap.c), as btf.c, btf_dump.c and *)
(* libbpf.c use it: chains of entries that are found by the upper bits of  *)
(* a hash, a table that doubles, four strategies of insertion.  A call is  *)
(* a step.  hashmap__clear only runs inside hashmap__free, after which the *)
(* map is made anew.                                                       *)
(***************************************************************************)
EXTENDS Integers, SequencesExt

CONSTANTS
  Keys, Values,
  WordSize,     \* bits of a hash
  Hash,         \* the shuffled hash of a key
  Strategies,   \* the strategies that are used
  MaxEntries    \* bound: entries of the map

HashMapAssumption ==
  /\ WordSize \in Nat \ {0, 1} /\ MaxEntries \in Nat
  /\ Hash \in [Keys -> 0 .. 2 ^ WordSize - 1]
  /\ Strategies \subseteq {"ADD", "SET", "UPDATE", "APPEND"}

HASHMAP_MIN_CAP_BITS == 2
NULL == <<>>

VARIABLES
  buckets,      \* chains of entries: a function from 0 .. cap - 1, or NULL
  cap, cap_bits, sz,
  ret           \* the answer of the last call

vars == <<buckets, cap, cap_bits, sz, ret>>

hashmap__init ==
  /\ buckets = NULL /\ cap = 0 /\ cap_bits = 0 /\ sz = 0
  /\ ret = <<"none">>

Entry == [key : Keys, value : Values]

\* The shift by the whole word, with cap_bits = 0, is undefined; no bucket is read then.
hash_bits(k, bits) == Hash[k] \div 2 ^ (WordSize - bits)

hashmap_needs_to_grow == cap = 0 \/ ((sz + 1) * 4) \div 3 > cap

\* The entries in the order of hashmap__for_each_entry.
AllEntries == FlattenSeq([b \in 1 .. cap |-> buckets[b - 1]])

\* Each entry is put in front of its new chain: a chain is turned round.
hashmap_grow(bits) ==
  [b \in 0 .. 2 ^ bits - 1 |-> Reverse(SelectSeq(AllEntries, LAMBDA x : hash_bits(x.key, bits) = b))]
GrownBits == IF cap_bits + 1 < HASHMAP_MIN_CAP_BITS THEN HASHMAP_MIN_CAP_BITS ELSE cap_bits + 1

\* The chain a key is looked for in, and where in it the first entry of the key is.
Chain(k) == IF buckets = NULL THEN <<>> ELSE buckets[hash_bits(k, cap_bits)]
hashmap_find_entry(k) == SelectInSeq(Chain(k), LAMBDA x : x.key = k)
Known(k) == hashmap_find_entry(k) # 0
ValueOf(k) == Chain(k)[hashmap_find_entry(k)].value

\* The new entry is put in front.
BugAtEnd(k, v, table, bits) ==
  [table EXCEPT ![hash_bits(k, bits)] = @ \o <<[key |-> k, value |-> v]>>]
hashmap_add_entry(k, v, table, bits) ==
  [table EXCEPT ![hash_bits(k, bits)] = <<[key |-> k, value |-> v]>> \o @]

InsertNew(k, v) ==
  LET bits == IF hashmap_needs_to_grow THEN GrownBits ELSE cap_bits
      table == IF hashmap_needs_to_grow THEN hashmap_grow(bits) ELSE buckets
  IN  /\ sz < MaxEntries
      /\ buckets' = hashmap_add_entry(k, v, table, bits)
      /\ cap' = 2 ^ bits /\ cap_bits' = bits
      /\ sz' = sz + 1 /\ ret' = <<"added">>

\* calloc of the table fails, or malloc of the entry when the table has already grown.
NoMemory ==
  /\ \/ UNCHANGED <<buckets, cap, cap_bits>>
     \/ /\ hashmap_needs_to_grow /\ sz < MaxEntries
        /\ buckets' = hashmap_grow(GrownBits) /\ cap' = 2 ^ GrownBits /\ cap_bits' = GrownBits
  /\ UNCHANGED sz /\ ret' = <<"ENOMEM">>

hashmap__insert(k, v, strategy) ==
  LET known == strategy # "APPEND" /\ Known(k) IN
  \/ /\ known /\ strategy \in {"SET", "UPDATE"}
     /\ buckets' = [buckets EXCEPT ![hash_bits(k, cap_bits)][hashmap_find_entry(k)] = [key |-> k, value |-> v]]
     /\ ret' = <<"replaced", ValueOf(k)>>
     /\ UNCHANGED <<cap, cap_bits, sz>>
  \/ /\ known /\ strategy = "ADD"
     /\ ret' = <<"EEXIST", ValueOf(k)>>
     /\ UNCHANGED <<buckets, cap, cap_bits, sz>>
  \/ /\ ~ known /\ strategy = "UPDATE"
     /\ ret' = <<"ENOENT">>
     /\ UNCHANGED <<buckets, cap, cap_bits, sz>>
  \/ ~ known /\ strategy # "UPDATE" /\ (InsertNew(k, v) \/ NoMemory)

hashmap__find(k) ==
  /\ ret' = IF Known(k) THEN <<"found", ValueOf(k)>> ELSE <<"missing">>
  /\ UNCHANGED <<buckets, cap, cap_bits, sz>>

hashmap__delete(k) ==
  /\ IF Known(k)
     THEN /\ buckets' = [buckets EXCEPT ![hash_bits(k, cap_bits)] = RemoveAt(@, hashmap_find_entry(k))]
          /\ sz' = sz - 1 /\ ret' = <<"deleted", ValueOf(k)>>
     ELSE UNCHANGED <<buckets, sz>> /\ ret' = <<"missing">>
  /\ UNCHANGED <<cap, cap_bits>>

\* The values that the entries of a key have in a sequence of entries.
ValuesIn(entries, k) ==
  LET mine == SelectSeq(entries, LAMBDA x : x.key = k) IN [i \in DOMAIN mine |-> mine[i].value]
Contents == [k \in Keys |-> ValuesIn(AllEntries, k)]

hashmap__for_each_entry ==
  /\ ret' = <<"entries", Contents>>
  /\ UNCHANGED <<buckets, cap, cap_bits, sz>>

hashmap__for_each_key_entry(k) ==
  /\ ret' = <<"values", ValuesIn(Chain(k), k)>>
  /\ UNCHANGED <<buckets, cap, cap_bits, sz>>

hashmap__free ==
  buckets' = NULL /\ cap' = 0 /\ cap_bits' = 0 /\ sz' = 0 /\ ret' = <<"none">>

Init == hashmap__init
Next ==
  \/ \E k \in Keys, v \in Values, s \in Strategies : hashmap__insert(k, v, s)
  \/ \E k \in Keys : hashmap__find(k) \/ hashmap__delete(k) \/ hashmap__for_each_key_entry(k)
  \/ hashmap__for_each_entry \/ hashmap__free

Spec == Init /\ [][Next]_vars

\* hashmap__append and hashmap__find alone, the values numbered in the order of insertion.
AppendNext == \E k \in Keys : hashmap__insert(k, sz + 1, "APPEND") \/ hashmap__find(k)
AppendSpec == Init /\ [][AppendNext]_vars
-----------------------------------------------------------------------------
\* cap is a power of two of at least four, sz the number of entries.
TypeOK ==
  /\ cap = IF cap_bits = 0 THEN 0 ELSE 2 ^ cap_bits
  /\ buckets = NULL \/ buckets \in [0 .. cap - 1 -> Seq(Entry)]
  /\ cap_bits = 0 \/ cap_bits \in HASHMAP_MIN_CAP_BITS .. WordSize
  /\ sz = Len(AllEntries)

\* However often the table was doubled, every entry is in the chain its key is looked for
\* in: no call misses a key that is there.
InItsChain == \A b \in DOMAIN buckets : \A i \in DOMAIN buckets[b] : hash_bits(buckets[b][i].key, cap_bits) = b

\* Every call answers, and leaves the map, as the interface promises: it meets the last inserted
\* of a key's values, unless the table has grown since, which turns them round.
Promise == INSTANCE MultiMap WITH
  of <- Contents, room <- cap
AsPromised == Promise!Next \/ UNCHANGED <<Contents, cap, ret>>
IsMultiMap == Promise!Init /\ [][AsPromised]_vars

\* hashmap.h 77-79: hashmap__find returns the last inserted of the entries of a key.  AppendSpec
\* does not keep it once the table has grown.
FindsLastInserted ==
  \A k \in Keys : Known(k) =>
    \A i \in DOMAIN AllEntries : AllEntries[i].key = k => AllEntries[i].value <= ValueOf(k)
=============================================================================

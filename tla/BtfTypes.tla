------------------------------ MODULE BtfTypes ------------------------------
(***************************************************************************)
(* Questions about the types of a btf: btf__type_by_id, btf__resolve_size, *)
(* btf__resolve_type, btf__find_by_name and btf__get_map_kv_tids, each as  *)
(* the walk that the code makes.                                           *)
(*                                                                         *)
(* A type is its kind, name, the type it refers to, size, nelems (of an    *)
(* array) and the types of its members.  Names are sequences of letters.   *)
(***************************************************************************)
EXTENDS Integers, Sequences, FiniteSets, SequencesExt

CONSTANTS
  Tables,               \* the types that a btf may have
  Names,                \* names asked for
  Sizes,                \* key and value sizes that a map definition expects
  MAX_RESOLVE_DEPTH,
  UINT32_MAX,
  MaxName,              \* max_name, 256
  MapPrefix             \* ____btf_map_

BtfTypesAssumption ==
  {MAX_RESOLVE_DEPTH, UINT32_MAX, MaxName} \subseteq Nat \ {0} /\ Sizes \subseteq Nat

VARIABLES
  T,            \* btf->types[1 .. nr_types]
  asked,        \* the question: what, id, name, key and value
  at,           \* the walk that is on: "idle", "size", "type", "kv_key", "kv_value", "done"
  id, depth,    \* where it is
  nelems,       \* product of the array lengths met
  container,    \* container_id
  ret           \* the answer, or a negative error

vars == <<T, asked, at, id, depth, nelems, container, ret>>

EINVAL == -22
E2BIG == -7
ENOENT == -2
Mods == {"const", "volatile", "restrict"}
Sized == {"int", "struct", "union", "enum", "datasec", "ptr"}

\* btf__type_by_id and btf_type_is_void_or_null: no such type, void, or a forward.
Is(n, kinds) == n \in 1 .. Len(T) /\ T[n].kind \in kinds
VoidOrNull(n) == n \notin 1 .. Len(T) \/ Is(n, {"fwd"})

NoQuestion == [what |-> "none", id |-> 0, name |-> <<>>, key |-> 0, value |-> 0]

Init ==
  /\ T \in Tables /\ asked = NoQuestion /\ at = "idle"
  /\ id = 0 /\ depth = 0 /\ nelems = 1 /\ container = 0 /\ ret = 0

-----------------------------------------------------------------------------
(* btf__resolve_size *)

\* The end of the walk, at `done'.
BugProduct(size) == (nelems * size) % (UINT32_MAX + 1)
Product(size) == IF nelems # 0 /\ size > UINT32_MAX \div nelems THEN E2BIG ELSE nelems * size

WithinDepth == depth < MAX_RESOLVE_DEPTH
Deeper == depth + 1

\* Where a walk over sizes ends, and what it ends with.
ArrayFits == nelems = 0 \/ T[id].nelems <= UINT32_MAX \div nelems
Ends ==
  \/ ~ (WithinDepth /\ Is(id, Mods \cup {"typedef", "var", "array"}))
  \/ Is(id, {"array"}) /\ ~ ArrayFits
SizeAnswer ==
  IF WithinDepth /\ Is(id, Sized) THEN Product(T[id].size)
  ELSE IF WithinDepth /\ Is(id, {"array"}) THEN E2BIG
  ELSE EINVAL

\* One turn of the loop: through a modifier, a typedef, a variable or an array.
Follow ==
  /\ ~ Ends /\ id' = T[id].type /\ depth' = Deeper
  /\ nelems' = IF T[id].kind = "array" THEN nelems * T[id].nelems ELSE nelems

ResolveSize ==
  /\ at = "size"
  /\ \/ Follow /\ UNCHANGED <<at, ret>>
     \/ Ends /\ at' = "done" /\ ret' = SizeAnswer /\ UNCHANGED <<id, depth, nelems>>
  /\ UNCHANGED <<T, asked, container>>

-----------------------------------------------------------------------------
(* btf__resolve_type *)

Through == Mods \cup {"typedef", "var"}

ResolveType ==
  /\ at = "type"
  /\ \/ /\ WithinDepth /\ Is(id, Through) /\ id' = T[id].type /\ depth' = Deeper
        /\ UNCHANGED <<at, ret>>
     \/ /\ ~ (WithinDepth /\ Is(id, Through)) /\ at' = "done"
        /\ ret' = IF depth = MAX_RESOLVE_DEPTH \/ VoidOrNull(id) THEN EINVAL ELSE id
        /\ UNCHANGED <<id, depth>>
  /\ UNCHANGED <<T, asked, nelems, container>>

-----------------------------------------------------------------------------
(* btf__find_by_name and btf__get_map_kv_tids *)

FindByName(name) ==
  LET found == {n \in 1 .. Len(T) : T[n].name = name} IN
  IF name = <<"void">> THEN 0
  ELSE IF found = {} THEN ENOENT
  ELSE CHOOSE n \in found : \A k \in found : n <= k

\* snprintf cuts what does not fit and returns the length that there was.
ContainerName(name) ==
  LET full == MapPrefix \o name IN
  IF Len(full) < MaxName THEN full ELSE SubSeq(full, 1, MaxName - 1)

TwoMembers(n) == T[n].kind = "struct" /\ Len(T[n].members) >= 2

FindContainer ==
  /\ at = "container"
  /\ LET n == FindByName(ContainerName(asked.name))
         tooLong == Len(MapPrefix \o asked.name) = MaxName IN
     IF ~ tooLong /\ n > 0 /\ TwoMembers(n)
     THEN /\ at' = "kv_key" /\ container' = n /\ id' = T[n].members[1] /\ UNCHANGED ret
     ELSE /\ at' = "done" /\ UNCHANGED <<container, id>>
          /\ ret' = IF ~ tooLong /\ n < 0 THEN n ELSE EINVAL
  /\ UNCHANGED <<T, asked, depth, nelems>>

\* The sizes of the first two members against those of the map definition.
SizeExpected == IF at = "kv_key" THEN asked.key ELSE asked.value
KvSize ==
  /\ at \in {"kv_key", "kv_value"}
  /\ \/ Follow /\ UNCHANGED <<at, ret>>
     \/ /\ Ends /\ depth' = 0 /\ nelems' = 1
        /\ IF SizeAnswer # SizeExpected
           THEN at' = "done" /\ ret' = (IF SizeAnswer < 0 THEN SizeAnswer ELSE EINVAL) /\ UNCHANGED id
           ELSE IF at = "kv_key"
           THEN at' = "kv_value" /\ id' = T[container].members[2] /\ UNCHANGED ret
           ELSE at' = "done" /\ ret' = 0 /\ UNCHANGED id
  /\ UNCHANGED <<T, asked, container>>

Ask ==
  /\ at = "idle"
  /\ \/ \E what \in {"size", "type"}, n \in 0 .. Len(T) + 1 :
          asked' = [NoQuestion EXCEPT !.what = what, !.id = n] /\ at' = what /\ id' = n
     \/ \E name \in Names, k \in Sizes, v \in Sizes :
          /\ asked' = [what |-> "kv", id |-> 0, name |-> name, key |-> k, value |-> v]
          /\ at' = "container" /\ UNCHANGED id
  /\ UNCHANGED <<T, depth, nelems, container, ret>>

Working == ResolveSize \/ ResolveType \/ FindContainer \/ KvSize
Next == Ask \/ Working

Spec == Init /\ [][Next]_vars /\ WF_vars(Working)

-----------------------------------------------------------------------------
(* Properties *)

TypeOK ==
  /\ at \in {"idle", "size", "type", "container", "kv_key", "kv_value", "done"}
  /\ depth \in 0 .. MAX_RESOLVE_DEPTH /\ nelems \in 0 .. UINT32_MAX
  /\ ret \in {EINVAL, E2BIG, ENOENT} \cup 0 .. UINT32_MAX \cup 1 .. Len(T)

\* The size of a type over unbounded numbers, -1 where there is none within the depth.
RECURSIVE ExactSize(_, _)
ExactSize(n, fuel) ==
  IF fuel = 0 \/ VoidOrNull(n) \/ Is(n, {"func", "func_proto"}) THEN -1
  ELSE IF T[n].kind \in Sized THEN T[n].size
  ELSE LET below == ExactSize(T[n].type, fuel - 1) IN
       IF T[n].kind = "array" /\ below >= 0 THEN T[n].nelems * below ELSE below

\* btf__resolve_size multiplies in 32 bits: a size it answers is the true one, a type whose
\* size fits is given it, and one whose size does not fit is refused.
SizeExact ==
  at = "done" /\ asked.what = "size" =>
    LET exact == ExactSize(asked.id, MAX_RESOLVE_DEPTH) IN
    /\ ret >= 0 => ret = exact
    /\ exact \in 1 .. UINT32_MAX => ret = exact
    /\ exact > UINT32_MAX => ret = E2BIG

\* What btf__resolve_type answers is a type of its own, of the same size as the one asked.
ResolvedIsSame ==
  at = "done" /\ asked.what = "type" /\ ret > 0 =>
    /\ T[ret].kind \notin {"const", "volatile", "restrict", "typedef", "var"}
    /\ ExactSize(asked.id, MAX_RESOLVE_DEPTH) \in {-1, ExactSize(ret, MAX_RESOLVE_DEPTH)}

\* The key and value types given for a map have the sizes of its definition.
KvMatches ==
  at = "done" /\ asked.what = "kv" /\ ret = 0 =>
    /\ Is(container, {"struct"})
    /\ ExactSize(T[container].members[1], MAX_RESOLVE_DEPTH) = asked.key
    /\ ExactSize(T[container].members[2], MAX_RESOLVE_DEPTH) = asked.value

\* Types may refer to each other in a circle, which the depth ends: every question is
\* answered (MAX_RESOLVE_DEPTH).
Answered == (at # "idle") ~> (at = "done")

\* The message of btf__get_map_kv_tids for the names it refuses is "length of '____btf_map_%s'
\* is too long"; only a length of exactly max_name is refused, a longer name is cut.
LongNamesRefused ==
  at = "done" /\ asked.what = "kv" /\ Len(MapPrefix \o asked.name) >= MaxName => ret < 0
=============================================================================

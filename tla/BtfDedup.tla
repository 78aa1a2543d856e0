------------------------------ MODULE BtfDedup ------------------------------
(***************************************************************************)
(* btf__dedup: the type descriptions of several compilation units, one     *)
(* after the other in one BTF section, reduced to one description of each  *)
(* type.  Six passes over the types: strings, primitive types, structs,    *)
(* reference types, compaction, renumbering.                               *)
(*                                                                         *)
(* A type is its kind, names (its own first, then those of its members,    *)
(* values or parameters) as offsets into the strings, `data' (sizes,       *)
(* offsets, flags) and refs, the types it refers to; 0 is void.            *)
(***************************************************************************)
EXTENDS Integers, Sequences, FiniteSets, SequencesExt, FiniteSetsExt

CONSTANTS
  Inputs,       \* sections to start from: types, strs, line and func
  Contents,     \* every string in use, in the order of strcmp, the empty one first
  KeepFwds,     \* values of opts.dont_resolve_fwds
  NoMemory      \* whether an allocation may fail

BtfDedupAssumption ==
  /\ KeepFwds \subseteq BOOLEAN /\ NoMemory \in BOOLEAN /\ Contents[1] = ""

VARIABLES
  input,        \* the section as it was given
  dont_resolve_fwds,
  pass, i,      \* the pass, and the type it is at
  types, strs,  \* btf->types and the strings
  line,         \* string offsets in the line_info of .BTF.ext
  func,         \* and in its func_info
  map,          \* d->map
  table,        \* d->dedup_table, the way its one chain is walked
  new_id        \* d->hypot_map as compaction leaves it

vars == <<input, dont_resolve_fwds, pass, i, types, strs, line, func, map, table, new_id>>

UNPROCESSED == -1
IN_PROGRESS == -2
Ids == 1 .. Len(input.types)
Records == {"struct", "union"}
References == {"const", "volatile", "restrict", "ptr", "typedef", "func"}
SelfCanonical == {"var", "datasec"}

\* btf_dedup_new.
NewMap(T) == [n \in 0 .. Len(T) |-> IF n = 0 \/ T[n].kind \in SelfCanonical THEN n ELSE UNPROCESSED]

Init ==
  /\ input \in Inputs /\ dont_resolve_fwds \in KeepFwds
  /\ types = input.types /\ strs = input.strs /\ line = input.line /\ func = input.func
  /\ pass = "strings" /\ i = 1
  /\ map = NewMap(types) /\ table = <<>>
  /\ new_id = [n \in 0 .. Len(types) |-> UNPROCESSED]

-----------------------------------------------------------------------------
(* Strings *)

Text(S, off) == S[off + 1]

\* btf_for_each_str_off with btf_str_mark_as_used.
UsedOffsets == UNION {ToSet(types[t].names) : t \in Ids} \cup ToSet(line)

\* One instance of every string that is used, sorted, the empty one kept at offset 0.
DedupedStrings(used) == SelectSeq(Contents, LAMBDA c : c = "" \/ c \in {Text(strs, o) : o \in used})

\* btf_str_remap_offset.
NewOffset(o, S) == IF o = 0 THEN 0 ELSE (CHOOSE k \in 1 .. Len(S) : S[k] = Text(strs, o)) - 1

btf_dedup_strings ==
  /\ pass = "strings" /\ pass' = "prim"
  /\ LET S == DedupedStrings(UsedOffsets)
         Moved(offs) == [k \in 1 .. Len(offs) |-> NewOffset(offs[k], S)] IN
     /\ strs' = S
     /\ types' = [t \in Ids |-> [types[t] EXCEPT !.names = Moved(@)]]
     /\ line' = Moved(line)
  /\ UNCHANGED <<input, dont_resolve_fwds, i, func, map, table, new_id>>

-----------------------------------------------------------------------------
(* What makes two types equal *)

Void == [kind |-> "unkn", names |-> <<0>>, data |-> 0, refs |-> <<>>]
Type(t) == IF t = 0 THEN Void ELSE types[t]
Name(a) == Head(a.names)

\* btf_shallow_equal_struct, btf_compat_array, btf_compat_fnproto: all but the types they
\* refer to.
Shallow(a, b) == a.kind = b.kind /\ a.names = b.names /\ a.data = b.data

\* btf_equal_int, _enum, _array, _fnproto and _common.
Equal(a, b) == Shallow(a, b) /\ a.refs = b.refs

EnumFwd(a) == a.kind = "enum" /\ Len(a.names) = 1

CompatEnum(a, b) ==
  IF EnumFwd(a) \/ EnumFwd(b)
  THEN a.kind = b.kind /\ Name(a) = Name(b) /\ a.data = b.data
  ELSE Equal(a, b)

\* hashmap__append.  The entries of a chain come newest first, and growing the table turns
\* every chain round.  Types whose hashes collide share a chain.
GrowsAt == {1, 4, 7, 13, 25}
TableAdd(T, t) == <<t>> \o (IF Len(T) + 1 \in GrowsAt THEN Reverse(T) ELSE T)

-----------------------------------------------------------------------------
(* Primitive types *)

CandOr(T, k, t) == IF k = 0 THEN t ELSE T[k]

\* btf_dedup_prim_type on an enum: the walk ends at an equal enum or, for a forward
\* declaration, at one it may stand for; forward declarations passed on the way now stand
\* for this enum.
DedupEnum(t) ==
  LET a == types[t]
      Stops(c) == Equal(a, types[c]) \/ (~ dont_resolve_fwds /\ EnumFwd(a) /\ CompatEnum(a, types[c]))
      k == SelectInSeq(table, Stops)
      passed == {n \in 1 .. Len(table) : k = 0 \/ n < k}
      fwds == IF dont_resolve_fwds THEN {}
              ELSE {table[n] : n \in {m \in passed : CompatEnum(a, types[table[m]])}} IN
  [n \in DOMAIN map |-> IF n = t THEN CandOr(table, k, t) ELSE IF n \in fwds THEN t ELSE map[n]]

btf_dedup_prim_type(t) ==
  CASE types[t].kind = "enum" -> DedupEnum(t)
    [] types[t].kind \in {"int", "fwd"} ->
         LET k == SelectInSeq(table, LAMBDA c : Equal(types[t], types[c])) IN
         [map EXCEPT ![t] = CandOr(table, k, t)]
    [] OTHER -> map

\* One round of the loop over the types that each of the next three passes is.
After(next) == IF i < Len(types) THEN <<pass, i + 1>> ELSE <<next, 1>>

btf_dedup_prim_types ==
  /\ pass = "prim" /\ pass' = After("struct")[1] /\ i' = After("struct")[2]
  /\ map' = btf_dedup_prim_type(i)
  /\ table' = IF types[i].kind \in {"int", "enum", "fwd"} /\ map'[i] = i THEN TableAdd(table, i) ELSE table
  /\ UNCHANGED <<input, dont_resolve_fwds, types, strs, line, func, new_id>>

-----------------------------------------------------------------------------
(* Structs and unions *)

Mapped(M, t) == M[t] >= 0

\* resolve_type_id, which goes on for ever when M has a loop.
RECURSIVE Resolve(_, _)
Resolve(M, t) == IF Mapped(M, t) /\ M[t] # t THEN Resolve(M, M[t]) ELSE t

\* resolve_fwd_id.
ResolveFwd(M, t) ==
  IF Type(t).kind = "fwd" /\ Type(Resolve(M, t)).kind # "fwd" THEN Resolve(M, t) ELSE t

\* The comparisons of btf_dedup_is_equiv before it goes on to the types referred to.  The data
\* of a forward declaration is the kind of what it declares.
FwdPair(a, b) == ~ dont_resolve_fwds /\ a.kind # b.kind /\ "fwd" \in {a.kind, b.kind}
Alike(a, b) ==
  Name(a) = Name(b) /\
  CASE FwdPair(a, b) -> IF a.kind = "fwd" THEN a.data = b.kind ELSE b.data = a.kind
    [] a.kind = "enum" /\ b.kind = "enum" /\ ~ dont_resolve_fwds -> CompatEnum(a, b)
    [] OTHER -> Shallow(a, b)

\* The pairs of types it then compares: for an array the index type comes first.
Below(a, b) ==
  IF a.kind # b.kind THEN <<>>
  ELSE LET P == [k \in 1 .. Len(a.refs) |-> <<a.refs[k], b.refs[k]>>]
       IN IF a.kind = "array" THEN Reverse(P) ELSE P

\* btf_dedup_is_equiv: pairs <<candidate, canonical>> in the order of the depth-first walk,
\* and the hypothetical map it builds, as pairs <<canonical, candidate>> in hypot_list's order.
RECURSIVE IsEquiv(_, _, _)
IsEquiv(M, todo, hypot) ==
  IF todo = <<>> THEN [eq |-> TRUE, hypot |-> hypot]
  ELSE LET cand == Head(todo)[1]
           canon == ResolveFwd(M, Head(todo)[2])
           known == {k \in 1 .. Len(hypot) : hypot[k][1] = canon}
           no == [eq |-> FALSE, hypot |-> hypot] IN
       IF Resolve(M, cand) = Resolve(M, Head(todo)[2]) THEN IsEquiv(M, Tail(todo), hypot)
       ELSE IF known # {}
       THEN IF \E k \in known : hypot[k][2] = cand THEN IsEquiv(M, Tail(todo), hypot) ELSE no
       ELSE IF ~ Alike(Type(cand), Type(canon)) THEN no
       ELSE IsEquiv(M, Below(Type(cand), Type(canon)) \o Tail(todo), Append(hypot, <<canon, cand>>))

\* btf_dedup_merge_hypot_map, for one pair.
BugMergeOne(M, pair) ==
  LET c == Resolve(M, pair[1]) t == Resolve(M, pair[2]) IN
  IF {Type(t).kind, Type(c).kind} \subseteq Records THEN [M EXCEPT ![t] = c] ELSE M
MergeOne(M, pair) ==
  LET c == Resolve(M, pair[1])
      t == Resolve(M, pair[2])
      ck == Type(c).kind
      tk == Type(t).kind IN
  IF tk # "fwd" /\ ck = "fwd" THEN [M EXCEPT ![c] = t]
  ELSE IF tk = "fwd" /\ ck # "fwd" THEN [M EXCEPT ![t] = c]
  ELSE IF tk \in Records /\ ck # "fwd" /\ Mapped(M, c) /\ ~ Mapped(M, t) THEN [M EXCEPT ![t] = c]
  ELSE M

Candidate(t, c) == Shallow(types[t], types[c])

\* btf_dedup_struct_type.
DedupStruct(t) ==
  LET Equiv(c) == IsEquiv(map, <<<<t, c>>>>, <<>>)
      k == SelectInSeq(table, LAMBDA c : Candidate(t, c) /\ Equiv(c).eq) IN
  IF k = 0 THEN [map EXCEPT ![t] = t]
  ELSE [FoldLeft(MergeOne, map, Equiv(table[k]).hypot)
          EXCEPT ![t] = table[k]]

btf_dedup_struct_types ==
  /\ pass = "struct" /\ pass' = After("ref")[1] /\ i' = After("ref")[2]
  /\ IF Mapped(map, i) \/ types[i].kind \notin Records
     THEN UNCHANGED <<map, table>>
     ELSE /\ map' = DedupStruct(i)
          /\ table' = IF map'[i] = i THEN TableAdd(table, i) ELSE table
  /\ UNCHANGED <<input, dont_resolve_fwds, types, strs, line, func, new_id>>

-----------------------------------------------------------------------------
(* Reference types *)

\* btf_dedup_ref_type, s its map, types, table and error; DedupRefs is its work on the k-th
\* type referred to and on those after it.
RECURSIVE DedupRef(_, _)
RECURSIVE DedupRefs(_, _, _)
DedupRefs(s, t, k) ==
  IF s.err # 0 \/ k > Len(s.types[t].refs) THEN s
  ELSE LET r == s.types[t].refs[k]
           d == DedupRef(s, r) IN
       DedupRefs([d EXCEPT !.types[t].refs[k] = Resolve(d.map, r)], t, k + 1)
DedupRef(s, t) ==
  IF s.err # 0 \/ Mapped(s.map, t) THEN s
  ELSE IF s.map[t] = IN_PROGRESS \/ types[t].kind \notin References \cup {"array", "func_proto"}
  THEN [s EXCEPT !.err = 1]
  ELSE LET d == DedupRefs([s EXCEPT !.map[t] = IN_PROGRESS], t, 1)
           k == SelectInSeq(d.table, LAMBDA c : Equal(d.types[t], d.types[c]))
       IN IF d.err # 0 THEN d
          ELSE [d EXCEPT !.map[t] = CandOr(d.table, k, t),
                         !.table = IF k = 0 THEN TableAdd(d.table, t) ELSE d.table]

btf_dedup_ref_types ==
  /\ pass = "ref"
  /\ LET d == DedupRef([map |-> map, types |-> types, table |-> table, err |-> 0], i) IN
     /\ types' = d.types /\ map' = d.map /\ table' = d.table
     /\ pass' = IF d.err # 0 THEN "invalid" ELSE After("compact")[1]
     /\ i' = After("compact")[2]
  /\ UNCHANGED <<input, dont_resolve_fwds, strs, line, func, new_id>>

-----------------------------------------------------------------------------
(* Compaction and renumbering *)

Kept == SelectSeq([n \in Ids |-> n], LAMBDA n : map[n] = n)

btf_dedup_compact_types ==
  /\ pass = "compact" /\ pass' = "remap"
  /\ types' = [k \in 1 .. Len(Kept) |-> types[Kept[k]]]
  /\ new_id' = [n \in 0 .. Len(types) |-> IF n = 0 THEN 0
                 ELSE IF map[n] = n THEN CHOOSE k \in 1 .. Len(Kept) : Kept[k] = n
                 ELSE UNPROCESSED]
  /\ table' = <<>>
  /\ UNCHANGED <<input, dont_resolve_fwds, i, strs, line, func, map>>

\* btf_dedup_remap_type_id.
RemapId(t) == new_id[Resolve(map, t)]

btf_dedup_remap_types ==
  /\ pass = "remap"
  /\ LET T == [k \in 1 .. Len(types) |->
                 [types[k] EXCEPT !.refs = [n \in 1 .. Len(@) |-> RemapId(@[n])]]] IN
     /\ types' = T
     /\ pass' = IF \E k \in 1 .. Len(T) : UNPROCESSED \in ToSet(T[k].refs) THEN "invalid" ELSE "done"
  /\ UNCHANGED <<input, dont_resolve_fwds, i, strs, line, func, map, table, new_id>>

\* malloc, realloc or hashmap__append fails.
OutOfMemory ==
  /\ NoMemory /\ pass \in {"strings", "prim", "struct", "ref", "compact"} /\ pass' = "failed"
  /\ UNCHANGED <<input, dont_resolve_fwds, i, types, strs, line, func, map, table, new_id>>

Dedup ==
  \/ btf_dedup_strings \/ btf_dedup_prim_types \/ btf_dedup_struct_types
  \/ btf_dedup_ref_types \/ btf_dedup_compact_types \/ btf_dedup_remap_types

Next == Dedup \/ OutOfMemory

Spec == Init /\ [][Next]_vars

-----------------------------------------------------------------------------
(* Properties *)

TypeOK ==
  /\ pass \in {"strings", "prim", "struct", "ref", "compact", "remap", "done", "invalid", "failed"}
  /\ i \in Ids
  /\ \A n \in 0 .. Len(input.types) : map[n] \in {UNPROCESSED} \cup 0 .. Len(input.types)
  /\ \A k \in 1 .. Len(types) : ToSet(types[k].refs) \subseteq 0 .. Len(input.types)

\* Following d->map from any type comes to an end: a FWD is never resolved into a struct that is
\* itself mapped to that FWD (the loop which btf_dedup_struct_type guards against).
RECURSIVE EndsWithin(_, _)
EndsWithin(t, n) == ~ Mapped(map, t) \/ map[t] = t \/ (n > 0 /\ EndsWithin(map[t], n - 1))
NoLoop == \A t \in Ids : EndsWithin(t, Len(input.types))

\* A struct or union found to be canonical stays so: the types already mapped to it, and
\* the equivalences derived from it, are not undone by a later merge.
MappingKept ==
  \A t \in Ids : pass = "struct" /\ types[t].kind \in Records /\ Mapped(map, t) => map'[t] = map[t]
CanonicalStays == [][MappingKept]_vars

Final(t) == new_id[Resolve(map, t)]
Texts(S, offs) == [k \in 1 .. Len(offs) |-> Text(S, offs[k])]

\* The deduplicated type says what the given one said, or defines what that one declared.
SaysTheSame(was, is) ==
  \/ /\ is.kind = was.kind /\ is.data = was.data
     /\ Texts(strs, is.names) = Texts(input.strs, was.names)
     /\ is.refs = [k \in 1 .. Len(was.refs) |-> Final(was.refs[k])]
  \/ /\ ~ dont_resolve_fwds /\ EnumFwd(was)
     /\ is.kind = "enum" /\ is.data = was.data
     /\ Text(strs, Name(is)) = Text(input.strs, Name(was))
  \/ /\ ~ dont_resolve_fwds /\ was.kind = "fwd"
     /\ is.kind = was.data /\ Text(strs, Name(is)) = Text(input.strs, Name(was))

\* Nothing is lost: with "deduplicated types and strings without any loss of information" every
\* type of the input has a type in the result that says the same, and what it refers to is what
\* the result of its own references is, across all the structs that were merged.
NothingLost ==
  pass = "done" =>
    \A t \in Ids : Final(t) \in 1 .. Len(types) /\ SaysTheSame(input.types[t], types[Final(t)])

\* Every string of a type and of line_info reads as before once strings are deduplicated, each
\* string is there once, and those nothing refers to are gone.
StringsKept ==
  pass = "prim" =>
    /\ \A t \in Ids : Texts(strs, types[t].names) = Texts(input.strs, input.types[t].names)
    /\ Texts(strs, line) = Texts(input.strs, input.line)
    /\ ToSet(strs) = {""} \cup ToSet(Texts(strs, line))
                     \cup UNION {ToSet(Texts(strs, types[t].names)) : t \in Ids}
    /\ Cardinality(ToSet(strs)) = Len(strs)

\* Reference for equivalence: the largest set of pairs of alike types whose references are in
\* it, too.
RECURSIVE Bisimilar(_)
Bisimilar(R) ==
  LET Q == {p \in R : \A k \in 1 .. Len(types[p[1]].refs) :
              LET r == <<types[p[1]].refs[k], types[p[2]].refs[k]>> IN r[1] = r[2] \/ r \in R}
  IN IF Q = R THEN R ELSE Bisimilar(Q)

\* "Each unique type is represented by single BTF type descriptor": no two types of the result,
\* variables and sections apart, describe the same, cycles of structs included.
NoDuplicates ==
  pass = "done" =>
    Bisimilar({p \in (1 .. Len(types)) \X (1 .. Len(types)) :
                 /\ p[1] # p[2] /\ types[p[1]].kind \notin SelfCanonical
                 /\ Shallow(types[p[1]], types[p[2]])}) = {}

\* Types as a C program has them are always taken: neither a cycle of references nor a reference
\* to a type that was dropped is met.
Accepted == pass # "invalid"

\* "All the strings referenced from .BTF.ext section are honored and updated to point to the
\* right offsets after deduplication": those of func_info, too.
ExtHonoured ==
  pass = "done" =>
    \A k \in 1 .. Len(func) :
      func[k] < Len(strs) /\ Text(strs, func[k]) = Text(input.strs, input.func[k])

=============================================================================

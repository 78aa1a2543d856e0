------------------------------ MODULE MapDefs ------------------------------
(***************************************************************************)
(* bpf_object__init_maps: the maps of an object file, from the definitions *)
(* in its "maps" section, those that BTF describes in ".maps", and one for *)
(* each of .data, .rodata and .bss; then bpf_map__resize until the maps    *)
(* are created.                                                            *)
(*                                                                         *)
(* The "maps" section is a sequence of words, of which a definition takes  *)
(* the five of struct bpf_map_def, fewer or more.  A definition in BTF is  *)
(* a sequence of fields, each with the integer its array type encodes      *)
(* (-1 when its type is another) or the type that its pointer points to.   *)
(***************************************************************************)
EXTENDS Integers, Sequences, FiniteSets, SequencesExt

CONSTANTS
  Objects,        \* object files
  SizeOf,         \* btf__resolve_size of the types that fields point to, by id
  Strict,         \* values of !relaxed_maps
  FirstCap,       \* 4, the room for maps at first
  NrCpus,         \* what libbpf_num_possible_cpus counts
  NoMemory

MapDefsAssumption ==
  /\ FirstCap \in Nat /\ FirstCap >= 2 /\ NrCpus \in Nat \ {0} /\ Strict \subseteq BOOLEAN /\ NoMemory \in BOOLEAN

VARIABLES
  obj, strict,
  at, i, j,       \* the stage, the definition it is at, and the field of that
  maps,           \* obj->maps[0 .. maps_cap - 1]
  nr_maps,
  made,           \* max_entries that the kernel was given, by map
  ret

vars == <<obj, strict, at, i, j, maps, nr_maps, made, ret>>

Fields == <<"type", "key_size", "value_size", "max_entries", "map_flags">>
ZeroMap ==
  [name |-> "", sec |-> 0, off |-> 0, type |-> 0, key_size |-> 0, value_size |-> 0,
   max_entries |-> 0, map_flags |-> 0, key_id |-> 0, value_id |-> 0, pin |-> FALSE, fd |-> 0]

Init ==
  /\ obj \in Objects /\ strict \in Strict
  /\ at = "legacy" /\ i = 0 /\ j = 0 /\ maps = <<>> /\ nr_maps = 0 /\ made = {} /\ ret = "0"

Fail(e) == at' = "failed" /\ ret' = e

-----------------------------------------------------------------------------
(* Room for one more *)

Cap == Len(maps)
NewCap == IF FirstCap > (Cap * 3) \div 2 THEN FirstCap ELSE (Cap * 3) \div 2

\* bpf_object__add_map: the entries, the next of which is the new map's.
Added ==
  IF nr_maps < Cap THEN maps
  ELSE [n \in 1 .. NewCap |-> IF n <= Cap THEN maps[n] ELSE [ZeroMap EXCEPT !.fd = -1]]

\* The map being defined, and the array with that map as m.
New == Added[nr_maps + 1]
Store(m) == maps' = [Added EXCEPT ![nr_maps + 1] = m] /\ nr_maps' = nr_maps + 1
Current == maps[nr_maps]
Set(m) == maps' = [maps EXCEPT ![nr_maps] = m] /\ UNCHANGED nr_maps

\* realloc fails, or strdup or malloc for a map that has been counted.
Adding ==
  \/ at = "legacy_map" /\ i <= Len(SelectSeq(obj.symbols, LAMBDA s : s.sec = "maps"))
  \/ at = "btf" /\ i <= Len(obj.vars)
  \/ at = "global" /\ i <= 3 /\ obj.global_data
OutOfMemory ==
  /\ NoMemory /\ Adding /\ Fail("ENOMEM")
  /\ Store(New) \/ UNCHANGED <<maps, nr_maps>>
  /\ UNCHANGED <<obj, strict, i, j, made>>

-----------------------------------------------------------------------------
(* bpf_object__init_user_maps *)

Symbols == SelectSeq(obj.symbols, LAMBDA s : s.sec = "maps")
DefSize == Len(obj.words) \div Len(Symbols)

LegacyMaps ==
  /\ at = "legacy"
  /\ LET n == Len(Symbols) IN
     IF ~ obj.legacy THEN at' = "btf_maps" /\ UNCHANGED ret
     ELSE IF Len(obj.words) = 0 \/ n = 0 THEN Fail("EINVAL")
     ELSE IF Len(obj.words) % n # 0 THEN Fail("EINVAL")
     ELSE at' = "legacy_map" /\ UNCHANGED ret
  /\ i' = 1 /\ UNCHANGED <<obj, strict, j, maps, nr_maps, made>>

\* The words that a definition at `off' begins with, its fields and what is beyond them.
WordsAt(s) == SubSeq(obj.words, s.off + 1, s.off + DefSize)
\* memcpy of the words that there are over a map that bpf_object__add_map has cleared.
Field(words, f) ==
  LET n == CHOOSE k \in 1 .. Len(Fields) : Fields[k] = f IN IF n <= Len(words) THEN words[n] ELSE New[f]
Excess(words) == \E k \in Len(Fields) + 1 .. Len(words) : words[k] # 0

TooMuch(words) == strict /\ Excess(words)

LegacyMap ==
  /\ at = "legacy_map" /\ i <= Len(Symbols)
  /\ LET s == Symbols[i]
         placed == [New EXCEPT !.sec = obj.index["maps"], !.off = s.off]
         fits == s.off + DefSize <= Len(obj.words) IN
     IF ~ fits THEN Fail("EINVAL") /\ Store(placed) /\ UNCHANGED i
     ELSE IF TooMuch(WordsAt(s)) THEN Fail("EINVAL") /\ Store([placed EXCEPT !.name = s.name]) /\ UNCHANGED i
     ELSE /\ LET w == WordsAt(s)
                 F(f) == Field(w, f) IN
             Store([placed EXCEPT !.name = s.name, !.type = F("type"), !.key_size = F("key_size"),
                                  !.value_size = F("value_size"), !.max_entries = F("max_entries"),
                                  !.map_flags = F("map_flags")])
          /\ i' = i + 1 /\ UNCHANGED <<at, ret>>
  /\ UNCHANGED <<obj, strict, j, made>>

LegacyDone ==
  /\ at = "legacy_map" /\ i > Len(Symbols) /\ at' = "btf_maps" /\ i' = 1
  /\ UNCHANGED <<obj, strict, j, maps, nr_maps, made, ret>>

-----------------------------------------------------------------------------
(* bpf_object__init_user_btf_maps *)

BtfMaps ==
  /\ at = "btf_maps" /\ i' = 1
  /\ IF ~ obj.btf THEN at' = "global" /\ UNCHANGED ret
     ELSE IF ~ obj.datasec THEN Fail("ENOENT") ELSE at' = "btf" /\ UNCHANGED ret
  /\ UNCHANGED <<obj, strict, j, maps, nr_maps, made>>

\* What bpf_object__init_user_btf_map refuses before it adds a map.
VarError(v) ==
  IF v.name = "" \/ v.off + v.size > obj.btf_size \/ v.kind # "var" THEN "EINVAL"
  ELSE IF v.linkage \notin {"static", "global"} THEN "EOPNOTSUPP"
  ELSE IF v.def_kind # "struct" \/ v.def_size > v.size THEN "EINVAL" ELSE "0"

BtfMap ==
  /\ at = "btf" /\ i <= Len(obj.vars)
  /\ LET v == obj.vars[i] IN
     IF VarError(v) # "0" THEN Fail(VarError(v)) /\ UNCHANGED <<j, maps, nr_maps>>
     ELSE /\ Store([New EXCEPT !.name = v.name, !.sec = obj.index[".maps"], !.off = v.off])
          /\ at' = "field" /\ j' = 1 /\ UNCHANGED ret
  /\ UNCHANGED <<obj, strict, i, made>>

\* The sizes of key and value may be said twice, as a number and as a type.
Conflict(old, size) == old # 0 /\ old # size

PointedSize(f) == IF f.ptr = 0 THEN -1 ELSE SizeOf[f.ptr]

\* The error that a field is refused with.
FieldError(f, m) ==
  CASE f.name \in {"type", "max_entries", "map_flags"} -> IF f.int < 0 THEN "EINVAL" ELSE "0"
    [] f.name \in {"key_size", "value_size"} ->
         IF f.int < 0 \/ Conflict(m[f.name], f.int) THEN "EINVAL" ELSE "0"
    [] f.name = "key" ->
         IF PointedSize(f) < 0 \/ Conflict(m.key_size, PointedSize(f)) THEN "EINVAL" ELSE "0"
    [] f.name = "value" ->
         IF PointedSize(f) < 0 \/ Conflict(m.value_size, PointedSize(f)) THEN "EINVAL" ELSE "0"
    [] f.name = "pinning" -> IF f.int \notin {0, 1} THEN "EINVAL" ELSE "0"
    [] OTHER -> IF strict THEN "ENOTSUP" ELSE "0"

WithField(f, m) ==
  CASE f.name \in {"type", "max_entries", "map_flags", "key_size", "value_size"} -> [m EXCEPT ![f.name] = f.int]
    [] f.name = "key" -> [m EXCEPT !.key_size = PointedSize(f), !.key_id = f.ptr]
    [] f.name = "value" -> [m EXCEPT !.value_size = PointedSize(f), !.value_id = f.ptr]
    [] f.name = "pinning" -> [m EXCEPT !.pin = @ \/ f.int = 1]
    [] OTHER -> m

BtfField ==
  /\ at = "field" /\ j <= Len(obj.vars[i].fields)
  /\ LET f == obj.vars[i].fields[j] IN
     IF FieldError(f, Current) # "0" THEN Fail(FieldError(f, Current)) /\ UNCHANGED <<j, maps, nr_maps>>
     ELSE Set(WithField(f, Current)) /\ j' = j + 1 /\ UNCHANGED <<at, ret>>
  /\ UNCHANGED <<obj, strict, i, made>>

BtfMapDone ==
  /\ at = "field" /\ j > Len(obj.vars[i].fields) /\ j' = 0
  /\ IF Current.type = 0 THEN Fail("EINVAL") /\ UNCHANGED i
     ELSE at' = "btf" /\ i' = i + 1 /\ UNCHANGED ret
  /\ UNCHANGED <<obj, strict, maps, nr_maps, made>>

BtfDone ==
  /\ at = "btf" /\ i > Len(obj.vars) /\ at' = "global" /\ i' = 1
  /\ UNCHANGED <<obj, strict, j, maps, nr_maps, made, ret>>

-----------------------------------------------------------------------------
(* Global data, and the order of the maps *)

\* bpf_object__init_internal_map; the third is .bss, whose contents need no copy.
InternalMap(s) ==
  [New EXCEPT !.name = s, !.sec = obj.index[s], !.off = 0, !.type = 2, !.key_size = 1,
              !.value_size = obj.global[s], !.max_entries = 1, !.map_flags = IF s = "rodata" THEN 1 ELSE 0]

GlobalMaps ==
  /\ at = "global" /\ i <= 3
  /\ LET s == <<"data", "rodata", "bss">>[i] IN
     IF obj.global_data /\ obj.global[s] > 0 THEN Store(InternalMap(s)) ELSE UNCHANGED <<maps, nr_maps>>
  /\ i' = i + 1 /\ UNCHANGED <<obj, strict, at, j, made, ret>>

\* compare_bpf_map.
Before(a, b) == IF a.sec # b.sec THEN a.sec < b.sec ELSE a.off < b.off

\* qsort of the maps in use.
BugSorted == maps
Sorted ==
  LET used == SubSeq(maps, 1, nr_maps) IN
  SortSeq(used, Before) \o SubSeq(maps, nr_maps + 1, Cap)

SortMaps ==
  /\ at = "global" /\ i > 3 /\ at' = "done"
  /\ maps' = IF nr_maps = 0 THEN maps ELSE Sorted
  /\ i' = 0 /\ UNCHANGED <<obj, strict, j, nr_maps, made, ret>>

-----------------------------------------------------------------------------
(* Until the maps are created *)

Fixed(m) == m.fd >= 0

\* bpf_map__resize.
Resize(n, entries) ==
  /\ at = "done" /\ ~ Fixed(maps[n]) /\ entries # 0 /\ entries # maps[n].max_entries
  /\ maps' = [maps EXCEPT ![n].max_entries = entries]
  /\ UNCHANGED <<obj, strict, at, i, j, nr_maps, made, ret>>

PERF_EVENT_ARRAY == 4

\* A perf event array without a size gets one entry for each CPU; its definition keeps the 0.
PerCpu(m) == m.type = PERF_EVENT_ARRAY /\ m.max_entries = 0
Entries(m) == IF PerCpu(m) THEN NrCpus ELSE m.max_entries

\* bpf_object__create_maps gives the kernel the definition of a map, in order.  (BpfObject has
\* the maps that are reused and pinned, BtfLoad the types and the contents that they are given.)
Creating == at = "done" /\ Cardinality(made) < nr_maps
Create ==
  /\ Creating
  /\ LET n == Cardinality(made) + 1 IN
     /\ maps' = [maps EXCEPT ![n].fd = n + 2]
     /\ made' = made \cup {<<n, Entries(maps[n])>>}
  /\ UNCHANGED <<obj, strict, at, i, j, nr_maps, ret>>

\* The CPUs cannot be counted, the kernel refuses the map or its contents: those before it are
\* closed.
CreateFails ==
  /\ Creating
  /\ LET n == Cardinality(made) + 1 IN
     Fail("create") \/ (PerCpu(maps[n]) /\ Fail("cpus"))
  /\ maps' = [n \in 1 .. Cap |-> IF \E e \in made : e[1] = n THEN [maps[n] EXCEPT !.fd = -1] ELSE maps[n]]
  /\ made' = {} /\ UNCHANGED <<obj, strict, i, j, nr_maps>>

Next ==
  \/ OutOfMemory \/ LegacyMaps \/ LegacyMap \/ LegacyDone \/ BtfMaps \/ BtfMap \/ BtfField \/ BtfMapDone
  \/ BtfDone \/ GlobalMaps \/ SortMaps \/ Create \/ CreateFails
  \/ \E n \in 1 .. nr_maps : Resize(n, 7)

Spec == Init /\ [][Next]_vars

-----------------------------------------------------------------------------
(* Properties *)

TypeOK ==
  /\ at \in {"legacy", "legacy_map", "btf_maps", "btf", "field", "global", "done", "failed"}
  /\ nr_maps \in 0 .. Cap /\ strict \in BOOLEAN /\ {i, j} \subseteq Nat
  /\ ret \in {"0", "EINVAL", "ENOMEM", "ENOENT", "EOPNOTSUPP", "ENOTSUP", "create", "cpus"}
  /\ (at = "failed") = (ret # "0")

\* Closing an object closes the descriptor of every map that has one.  Until a map is created
\* it has none, so that an object that fails half way does not close the descriptor 0
\* (bpf_object__add_map).
NoForeignFd == \A n \in 1 .. Cap : maps[n].fd >= 0 => \E e \in made : e[1] = n

\* A map of the "maps" section has the definition that stands where its symbol says, whatever
\* the order of the symbols and however often the array grew; fields that the section does not
\* have are zero, and more than there are fields is accepted only as zeros, or when relaxed.
LegacyAsWritten ==
  at = "done" =>
    \A n \in 1 .. nr_maps :
      maps[n].sec = obj.index["maps"] =>
        \E s \in ToSet(obj.symbols) :
          /\ s.sec = "maps" /\ s.name = maps[n].name /\ s.off = maps[n].off
          /\ \A k \in 1 .. Len(Fields) :
               \/ Fields[k] = "max_entries" /\ maps[n].max_entries = 7
               \/ maps[n][Fields[k]] = IF k <= DefSize THEN obj.words[s.off + k] ELSE 0
          /\ strict => \A k \in s.off + 6 .. s.off + DefSize : obj.words[k] = 0

\* The sizes of a map that BTF describes agree with each other and with its types: every size
\* said of its key is the one it gets, and that of its type.
SizesAgree ==
  at = "done" =>
    \A n \in 1 .. nr_maps, v \in ToSet(obj.vars) :
      obj.btf /\ maps[n].sec = obj.index[".maps"] /\ v.name = maps[n].name =>
        \A f \in ToSet(v.fields) :
          /\ f.name = "key_size" /\ f.int > 0 => maps[n].key_size = f.int
          /\ f.name = "value_size" /\ f.int > 0 => maps[n].value_size = f.int
          /\ f.name = "key" => maps[n].key_size = SizeOf[maps[n].key_id]
          /\ f.name = "value" => maps[n].value_size = SizeOf[maps[n].value_id]
          /\ f.name = "pinning" /\ f.int = 1 => maps[n].pin

\* The maps are those of the file, one for each definition, in the order of their place in it,
\* by which relocations find them.
AllInOrder ==
  at = "done" =>
    /\ \A n \in 1 .. nr_maps - 1 :
         \/ maps[n].sec < maps[n + 1].sec
         \/ maps[n].sec = maps[n + 1].sec /\ maps[n].off < maps[n + 1].off
    /\ nr_maps = (IF obj.legacy THEN Len(Symbols) ELSE 0) + (IF obj.btf THEN Len(obj.vars) ELSE 0)
                 + (IF obj.global_data THEN Cardinality({s \in DOMAIN obj.global : obj.global[s] > 0}) ELSE 0)

\* "If map already created, its attributes can't be changed": what an object says of the size
\* of a map is what the kernel was given (bpf_map__resize).  With one exception: a perf event
\* array that is created for all CPUs says 0 ever after (bpf_object__create_maps).
SizeAsMade ==
  \A e \in made :
    LET m == maps[e[1]] IN
    \/ m.max_entries = e[2]
    \/ m.type = PERF_EVENT_ARRAY /\ m.max_entries = 0 /\ e[2] = NrCpus
=============================================================================

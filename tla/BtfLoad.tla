------------------------------ MODULE BtfLoad ------------------------------
(***************************************************************************)
(* The BTF of an object on its way to the kernel: bpf_object__probe_caps,  *)
(* bpf_object__init_btf with btf__finalize_data, the rewriting of kinds    *)
(* that the kernel does not know, btf__load, and the maps that are created *)
(* with a reference to it.                                                 *)
(*                                                                         *)
(* A type is its kind, the offset of its name, the word that is both size  *)
(* and type, its linkage, and what follows it, three words an item: type,  *)
(* offset and size in a DATASEC; name, type and offset in a STRUCT.        *)
(* A string is whether it has a dot in it, and the rest.                   *)
(***************************************************************************)
EXTENDS Integers, Sequences, FiniteSets, SequencesExt

CONSTANTS
  Objects,      \* object files: BTF, .BTF.ext, sections, symbols and maps
  Kernels       \* what the kernel knows of: name, global_data, func, datasec, and whether it
                \* lets this process load anything

VARIABLES
  obj, kernel,
  at, i,
  caps,         \* obj->caps
  types, strs,  \* of obj->btf
  btf,          \* obj->btf: "null", "parsed" or "loaded"
  ext,          \* obj->btf_ext is there
  maps,         \* key and value ids in obj->maps, and what the kernel has of each
  ret

vars == <<obj, kernel, at, i, caps, types, strs, btf, ext, maps, ret>>

NoCaps == [name |-> FALSE, global_data |-> FALSE, func |-> FALSE, datasec |-> FALSE]
Probes == <<"name", "global_data", "func", "datasec">>
Internal == {"data", "rodata", "bss"}
NewMap(m) ==
  [kind |-> m.kind, key |-> m.key, value |-> m.value, fd |-> FALSE, kkey |-> 0, kvalue |-> 0,
   content |-> "zero", frozen |-> FALSE]

Init ==
  /\ obj \in Objects /\ kernel \in Kernels
  /\ at = "probe" /\ i = 1 /\ caps = NoCaps
  /\ types = obj.types /\ strs = obj.strs /\ btf = "null" /\ ext = FALSE
  /\ maps = [n \in DOMAIN obj.maps |-> NewMap(obj.maps[n])] /\ ret = "0"

Fail(e) == at' = "failed" /\ ret' = e

-----------------------------------------------------------------------------
(* bpf_object__probe_caps *)

\* A probe tries what its feature needs: probe_name a program, twice, probe_global_data a map and
\* a program that stores into it, the others a BTF.  It closes what it got.
Probe ==
  /\ at = "probe" /\ i <= Len(Probes)
  /\ caps' = [caps EXCEPT ![Probes[i]] = kernel.allowed /\ kernel[Probes[i]]]
  /\ i' = i + 1 /\ UNCHANGED <<obj, kernel, at, types, strs, btf, ext, maps, ret>>

-----------------------------------------------------------------------------
(* bpf_object__init_btf *)

Required == obj.required      \* bpf_object__is_btf_mandatory

\* btf__new, then every DATASEC; no BTF at all is an error only when it is required.
InitBtf ==
  /\ at = "probe" /\ i > Len(Probes) /\ i' = 1
  /\ IF obj.btf = "good" THEN at' = "finalize" /\ btf' = "parsed" /\ UNCHANGED ret
     ELSE /\ UNCHANGED btf
          /\ IF Required THEN Fail(IF obj.btf = "bad" THEN "EINVAL" ELSE "ENOENT")
             ELSE at' = "sanitize" /\ UNCHANGED ret
  /\ UNCHANGED <<obj, kernel, caps, types, strs, ext, maps>>

\* bpf_object__section_size and bpf_object__variable_offset, 0 and -1 where there is none.
SectionSize(name) == IF name \in DOMAIN obj.sections THEN obj.sections[name] ELSE 0
VarOffset(name) == IF name \in DOMAIN obj.symbols THEN obj.symbols[name] ELSE -1

\* The items of a DATASEC with the offsets of the symbol table, in the order of offsets.
BugPlaced(t) ==
  [k \in 1 .. Len(t.items) |->
    LET v == types[t.items[k][1]] IN
    IF v.linkage = "static" THEN t.items[k] ELSE [t.items[k] EXCEPT ![2] = VarOffset(strs[v.name])]]
Placed(t) ==
  SortSeq([k \in 1 .. Len(t.items) |->
             LET v == types[t.items[k][1]] IN
             IF v.linkage = "static" THEN t.items[k]
             ELSE [t.items[k] EXCEPT ![2] = VarOffset(strs[v.name])]],
          LAMBDA a, b : a[2] < b[2])

FixupError(t) ==
  LET size == SectionSize(strs[t.name]) IN
  IF size = 0 \/ t.word \notin {0, size} THEN "ENOENT"
  ELSE IF \E k \in 1 .. Len(t.items) : types[t.items[k][1]].kind # "var" THEN "EINVAL"
  ELSE IF \E k \in 1 .. Len(t.items) :
            LET v == types[t.items[k][1]] IN v.linkage # "static" /\ VarOffset(strs[v.name]) = -1
  THEN "ENOENT" ELSE "0"

\* btf__finalize_data, one type.  A failure drops the BTF, unless it is required.
Finalize ==
  /\ at = "finalize" /\ i <= Len(types)
  /\ LET t == types[i] IN
     IF t.kind = "datasec" /\ FixupError(t) # "0"
     THEN /\ btf' = "null" /\ UNCHANGED <<i, types>>
          /\ IF Required THEN Fail(FixupError(t)) ELSE at' = "sanitize" /\ UNCHANGED ret
     ELSE /\ i' = i + 1 /\ UNCHANGED <<at, ret, btf>>
          /\ types' = IF t.kind # "datasec" THEN types
                      ELSE [types EXCEPT ![i].word = SectionSize(strs[t.name]), ![i].items = Placed(t)]
  /\ UNCHANGED <<obj, kernel, caps, strs, ext, maps>>

\* .BTF.ext is ignored when it cannot be read.
InitExt ==
  /\ at = "finalize" /\ i > Len(types) /\ at' = "sanitize" /\ i' = 1
  /\ ext' = (obj.ext = "good")
  /\ UNCHANGED <<obj, kernel, caps, types, strs, btf, maps, ret>>

-----------------------------------------------------------------------------
(* bpf_object__sanitize_btf *)

\* An item of a DATASEC overwritten, word by word, as a member of a STRUCT.
Member(v) ==
  LET placed == [v EXCEPT ![3] = 8 * v[2]]
      typed == [placed EXCEPT ![2] = placed[1]] IN
  [typed EXCEPT ![1] = types[typed[1]].name]

Sanitized(t) ==
  IF ~ caps.datasec /\ t.kind = "var" THEN [t EXCEPT !.kind = "int", !.word = 1]
  ELSE IF ~ caps.datasec /\ t.kind = "datasec"
  THEN [t EXCEPT !.kind = "struct", !.items = [k \in 1 .. Len(t.items) |-> Member(t.items[k])]]
  ELSE IF ~ caps.func /\ t.kind = "func_proto" THEN [t EXCEPT !.kind = "enum", !.word = 4]
  ELSE IF ~ caps.func /\ t.kind = "func" THEN [t EXCEPT !.kind = "typedef"]
  ELSE t

\* The names of sections lose their dots, where they stand.
Renamed ==
  [o \in DOMAIN strs |->
    IF ~ caps.datasec /\ \E n \in 1 .. Len(types) : types[n].kind = "datasec" /\ types[n].name = o
    THEN [strs[o] EXCEPT ![1] = FALSE] ELSE strs[o]]

\* The maps of global data are not there for a kernel that does not know them
\* (bpf_object__init_maps, between the two).
MapsOf == SelectSeq(maps, LAMBDA m : m.kind \in Internal => caps.global_data)

\* bpf_object__sanitize_and_load_btf, up to the system call.
Sanitize ==
  /\ at = "sanitize" /\ at' = IF btf = "null" THEN "create" ELSE "load"
  /\ i' = 1 /\ maps' = MapsOf
  /\ IF btf = "null" THEN UNCHANGED <<types, strs, ext>>
     ELSE /\ types' = [n \in 1 .. Len(types) |-> Sanitized(types[n])]
          /\ strs' = Renamed
          /\ ext' = (ext /\ caps.func)        \* bpf_object__sanitize_btf_ext
  /\ UNCHANGED <<obj, kernel, caps, btf, ret>>

\* What the kernel asks of the types it is given.
Ascending(items, f) == \A k \in 1 .. Len(items) - 1 : items[k][f] < items[k + 1][f]
TypeAccepted(t) ==
  CASE t.kind = "var" -> kernel.datasec
    [] t.kind = "datasec" ->
         /\ kernel.datasec /\ Ascending(t.items, 2)
         /\ \A k \in 1 .. Len(t.items) : t.items[k][2] + t.items[k][3] <= t.word
    [] t.kind \in {"func", "func_proto"} -> kernel.func
    [] t.kind = "struct" ->
         /\ ~ strs[t.name][1] /\ Ascending(t.items, 3)
         /\ \A k \in 1 .. Len(t.items) :
              t.items[k][1] \in DOMAIN strs /\ t.items[k][2] \in 1 .. Len(types) /\ t.items[k][3] < 8 * t.word
    [] t.kind = "enum" -> t.word = 4
    [] t.kind = "typedef" -> t.word \in 1 .. Len(types)
    [] t.kind = "int" -> t.word \in {1, 2, 4, 8}
Accepted == \A n \in 1 .. Len(types) : TypeAccepted(types[n])

\* btf__load.  When it fails neither btf nor btf_ext is kept.
ExtDropped == FALSE
Load ==
  /\ at = "load"
  /\ \/ /\ kernel.allowed /\ Accepted
        /\ at' = "create" /\ btf' = "loaded" /\ UNCHANGED <<ext, ret>>
     \/ /\ btf' = "null" /\ ext' = ExtDropped                      \* refused, or out of memory
        /\ IF Required THEN Fail("EINVAL") ELSE at' = "create" /\ UNCHANGED ret
  /\ UNCHANGED <<obj, kernel, i, caps, types, strs, maps>>

-----------------------------------------------------------------------------
(* Maps created with a reference to the BTF *)

\* btf__find_by_name of a section.
Named(s) == {n \in 1 .. Len(types) : strs[types[n].name] = <<TRUE, s>>}

\* bpf_map_find_btf_info: the ids of a map, of its annotation, or of its section.
Found(m) ==
  IF m.kind = "btf" THEN TRUE
  ELSE IF m.kind = "legacy" THEN obj.annotated ELSE Named(m.kind) # {}
Ids(m) ==
  IF m.kind = "btf" THEN <<m.key, m.value>>
  ELSE IF m.kind = "legacy" THEN <<1, 1>>
  ELSE <<0, CHOOSE n \in Named(m.kind) : \A k \in Named(m.kind) : n <= k>>

\* A map that the kernel refuses with its types is created without.
Forget(m) == [m EXCEPT !.key = 0, !.value = 0]
CreateMap ==
  /\ at = "create" /\ i <= Len(maps)
  /\ LET with == btf # "null" /\ Found(maps[i])
         m == IF with THEN [maps[i] EXCEPT !.key = Ids(maps[i])[1], !.value = Ids(maps[i])[2]] ELSE maps[i] IN
     \/ /\ with
        /\ maps' = [maps EXCEPT ![i] = [m EXCEPT !.fd = TRUE, !.kkey = m.key, !.kvalue = m.value]]
     \/ /\ with /\ m.key + m.value > 0
        /\ maps' = [maps EXCEPT ![i] = [Forget(m) EXCEPT !.fd = TRUE]]
     \/ ~ with /\ maps' = [maps EXCEPT ![i] = [m EXCEPT !.fd = TRUE]]
  /\ at' = "populate" /\ UNCHANGED <<obj, kernel, i, caps, types, strs, btf, ext, ret>>

\* bpf_object__populate_internal_map: a frozen map takes no more updates from here.
Fill(m) ==
  IF m.kind \notin {"data", "rodata"} THEN m
  ELSE [m EXCEPT !.content = m.kind, !.frozen = (m.kind = "rodata")]
Populate ==
  /\ at = "populate" /\ at' = "create" /\ i' = i + 1
  /\ \/ maps' = [maps EXCEPT ![i] = Fill(@)]
     \/ /\ maps[i].kind = "rodata"             \* freezing may fail, which is ignored
        /\ maps' = [maps EXCEPT ![i] = [Fill(@) EXCEPT !.frozen = FALSE]]
  /\ UNCHANGED <<obj, kernel, caps, types, strs, btf, ext, ret>>

\* The kernel refuses a map or its contents: what was created is closed.
CreateFails ==
  /\ (at = "create" /\ i <= Len(maps)) \/ (at = "populate" /\ maps[i].kind \in {"data", "rodata"})
  /\ Fail("create") /\ maps' = [n \in DOMAIN maps |-> [maps[n] EXCEPT !.fd = FALSE]]
  /\ UNCHANGED <<obj, kernel, i, caps, types, strs, btf, ext>>

Next ==
  \/ Probe \/ InitBtf \/ Finalize \/ InitExt \/ Sanitize \/ Load \/ CreateMap \/ Populate \/ CreateFails

Spec == Init /\ [][Next]_vars

-----------------------------------------------------------------------------
(* Properties *)

TypeOK ==
  /\ at \in {"probe", "finalize", "sanitize", "load", "create", "populate", "failed"}
  /\ DOMAIN caps = DOMAIN NoCaps /\ btf \in {"null", "parsed", "loaded"}
  /\ ext \in BOOLEAN /\ Len(types) = Len(obj.types) /\ (at = "failed") = (ret # "0")

\* However little the kernel knows, the BTF it is given is one that it takes: every kind it does
\* not know is replaced, and what replaces it is well formed (bpf_object__sanitize_btf,
\* btf_fixup_datasec).
SanitizedAccepted == at = "load" => Accepted

\* A DATASEC that became a STRUCT has a member for each variable, with its name, its type and
\* its place in bits, although members overwrite the words that they are made of.
MembersAreVariables ==
  at = "load" =>
    \A n \in 1 .. Len(types) :
      types[n].kind = "struct" /\ obj.types[n].kind = "datasec" =>
        \A k \in 1 .. Len(types[n].items) :
          LET m == types[n].items[k] IN
          \E v \in ToSet(obj.types[n].items) :
            /\ m[2] = v[1] /\ m[1] = obj.types[v[1]].name
            /\ m[3] = 8 * (IF obj.types[v[1]].linkage = "static" THEN v[2]
                           ELSE obj.symbols[obj.strs[obj.types[v[1]].name]])

\* "btf_ext can't exist without btf", and is not kept for a kernel that has no functions in BTF,
\* which would refuse the programs for it.
ExtNeedsBtf ==
  /\ ext => btf # "null"
  /\ ext /\ at \in {"load", "create", "populate"} => caps.func

\* What an object says of the types of a map is what the kernel was given, of a BTF that the
\* kernel has; the type of a map of global data is its section.
MapTypesAgree ==
  \A n \in 1 .. Len(maps) :
    LET m == maps[n] IN
    m.fd =>
      /\ m.kkey + m.kvalue > 0 => btf = "loaded"
      /\ btf = "loaded" => m.key = m.kkey /\ m.value = m.kvalue
      /\ m.kind \in Internal /\ m.kvalue > 0 =>
           types[m.kvalue].kind = "datasec" /\ strs[types[m.kvalue].name] = <<TRUE, m.kind>>

\* The programs find in .data and .rodata what the file has there.
GlobalsFilled ==
  at = "create" =>
    \A n \in 1 .. i - 1 : maps[n].kind \in {"data", "rodata"} => maps[n].content = maps[n].kind
=============================================================================

------------------------------- MODULE MCBtf --------------------------------
(***************************************************************************)
(* BTF in libbpf: parsing and asking for types, deduplication, dumping as  *)
(* C (the order and the names of declarations, one declaration, the layout *)
(* of a structure), and the hash map that they use.                        *)
(*                                                                         *)
(* The parts share no variables, so that a behaviour of one of them at a   *)
(* time shows all that a product of them would: part says which.           *)
(***************************************************************************)
EXTENDS Integers, Sequences, SequencesExt

CONSTANT Nil      \* of a variable whose part does not run

-----------------------------------------------------------------------------
\* BtfParse.  Sections of every kind of type, of up to 15 types, and with a fault in the header
\* or the strings; parts of .BTF.ext that fit and that do not.
Entry(k, n) == [kind |-> k, vlen |-> n]
BytesOf(t) == CASE t.kind \in {"int", "new"} -> 16 [] t.kind = "array" -> 24 [] t.kind = "ptr" -> 12
                [] t.kind \in {"struct", "datasec"} -> 12 + 12 * t.vlen [] t.kind = "enum" -> 12 + 8 * t.vlen
Bytes(ts) == FoldSeq(LAMBDA t, acc : acc + BytesOf(t), 0, ts)
RawSection(ts, at_) ==
  [magic |-> TRUE, version |-> 1, flags |-> 0, type_off |-> at_, str_off |-> at_ + Bytes(ts),
   str_len |-> 4, body |-> at_ + Bytes(ts) + 4, terminated |-> TRUE, types |-> ts]
Ints(n) == [j \in 1 .. n |-> Entry("int", 0)]
EveryKind == <<Entry("struct", 2), Entry("enum", 1), Entry("array", 0), Entry("ptr", 0), Entry("datasec", 1)>>
GoodSection == RawSection(Ints(2), 0)
RawSections ==
  {RawSection(Ints(n), 4) : n \in 1 .. 15} \cup
  {GoodSection, RawSection(EveryKind, 0), [RawSection(<<Entry("int", 0), Entry("new", 0)>>, 0) EXCEPT !.str_off = 32, !.body = 36],
   RawSection(Ints(2), 2), [GoodSection EXCEPT !.magic = FALSE], [GoodSection EXCEPT !.version = 2],
   [GoodSection EXCEPT !.flags = 1], [GoodSection EXCEPT !.body = 0], [GoodSection EXCEPT !.body = 8],
   [GoodSection EXCEPT !.type_off = 64], [GoodSection EXCEPT !.str_off = 0], [GoodSection EXCEPT !.str_len = 0],
   [GoodSection EXCEPT !.terminated = FALSE]}

ExtPart(len, rec, nums) == [off |-> 0, len |-> len, rec |-> rec, nums |-> nums]
ExtParts ==
  {ExtPart(0, 0, <<>>), ExtPart(2, 8, <<>>), ExtPart(4, 16, <<>>), ExtPart(28, 16, <<1>>), ExtPart(56, 16, <<1, 1, 5>>),
   ExtPart(44, 16, <<2, 0>>), ExtPart(40, 16, <<1, 1>>), ExtPart(32, 16, <<1, 1>>), ExtPart(30, 18, <<1>>),
   ExtPart(36, 16, <<1, 0>>), [ExtPart(28, 16, <<1>>) EXCEPT !.off = 2], [ExtPart(28, 16, <<1>>) EXCEPT !.off = 44]}
RawExt(hdr, f, l, r) ==
  [magic |-> TRUE, version |-> 1, flags |-> 0, hdr_len |-> hdr, size |-> hdr + 64,
   parts |-> [func |-> f, line |-> l, reloc |-> r]]
GoodPart == ExtPart(28, 16, <<1>>)
GoodExt == RawExt(24, GoodPart, GoodPart, GoodPart)
RawExts ==
  {RawExt(hdr, f, GoodPart, r) : hdr \in {8, 24, 32}, f \in ExtParts, r \in {GoodPart, ExtPart(36, 16, <<1, 0>>)}}
  \cup {RawExt(24, GoodPart, l, GoodPart) : l \in ExtParts}
  \cup {[GoodExt EXCEPT !.magic = FALSE], [GoodExt EXCEPT !.version = 2], [GoodExt EXCEPT !.size = 24], [GoodExt EXCEPT !.size = 6]}
BtfFiles ==
  {[elf |-> FALSE, names |-> <<>>], [elf |-> TRUE, names |-> <<".text">>],
   [elf |-> TRUE, names |-> <<".text", ".BTF", ".BTF.ext">>], [elf |-> TRUE, names |-> <<".BTF">>]}

-----------------------------------------------------------------------------
\* BtfTypes.  Every table of three types, the first of them any and the others of the kinds that
\* matter, with references that may form circles; and tables with a container of a map.
TableTy(kind, type, size, n, name, m) ==
  [kind |-> kind, type |-> type, size |-> size, nelems |-> n, name |-> name, members |-> m]
SimpleTypes(refs) ==
  {TableTy("int", 0, 2, 0, <<>>, <<>>), TableTy("ptr", 1, 8, 0, <<>>, <<>>), TableTy("fwd", 0, 0, 0, <<>>, <<>>),
   TableTy("func", 1, 0, 0, <<>>, <<>>)}
  \cup {TableTy(kind, r, 0, 0, <<>>, <<>>) : kind \in {"const", "typedef", "var"}, r \in refs}
  \cup {TableTy("array", r, 0, n, <<>>, <<>>) : r \in refs, n \in {0, 1, 3, 5}}
ChainTables == {<<a, b, c>> : a \in SimpleTypes({0, 2}), b \in SimpleTypes({1, 3}), c \in SimpleTypes({3, 4})}
ContainerTables ==
  {<<TableTy("struct", 0, 16, 0, <<"m", "a">>, m), a, TableTy(kind, 2, 5, 0, n, <<2, 1>>)>> :
     m \in {<<2>>, <<2, 3>>, <<3, 3, 2>>}, a \in SimpleTypes({2, 3}),
     kind \in {"struct", "enum", "typedef"}, n \in {<<"m", "b">>, <<"m">>}}
MapNames == {<<"a">>, <<"b">>, <<"c">>, <<"a", "a">>, <<>>}

-----------------------------------------------------------------------------
\* BtfDedup.  Sections as a linker puts them together: the types of a few compilation units,
\* each with one description of each of its types.  A unit defines, declares or does not
\* mention each of the structs A and S and the enum E.
Texts == <<"", "A", "E", "S", "f", "int", "p", "t", "v", "x", "y">>
Tags == {"A", "S"}
Views == [Tags \cup {"E"} -> {"no", "fwd", "full"}]

\* What an entity of a unit refers to, d the definitions of its structs.
Uses(e, v, d) ==
  CASE e \in Tags -> IF v[e] = "full" THEN d[e] ELSE <<>>
    [] e = "*A" -> <<"A">>
    [] e = "*S" -> <<"S">>
    [] e \in {"const", "restrict"} -> <<"*A">>
    [] e = "volatile" -> <<"int">>
    [] e = "t" -> <<"S">>
    [] e = "array" -> <<"*S", "int">>
    [] e = "proto" -> <<"int", "*A", "t">>
    [] e = "func" -> <<"proto">>
    [] e = "v" -> <<"t">>
    [] e = "sec" -> <<"v">>
    [] OTHER -> <<>>
KindOf(e, v) ==
  CASE e \in Tags -> IF v[e] = "full" THEN (IF e = "A" THEN "struct" ELSE "union") ELSE "fwd"
    [] e \in {"*A", "*S"} -> "ptr"
    [] e = "E" -> "enum"
    [] e = "t" -> "typedef"
    [] e = "proto" -> "func_proto"
    [] e = "v" -> "var"
    [] e = "sec" -> "datasec"
    [] OTHER -> e
NamesOf(e, v, d) ==
  CASE e \in Tags -> <<e>> \o (IF v[e] = "full" THEN SubSeq(<<"x", "y">>, 1, Len(d[e])) ELSE <<>>)
    [] e = "E" -> IF v[e] = "full" THEN <<e, "x">> ELSE <<e>>
    [] e \in {"int", "t", "v"} -> <<e>>
    [] e = "proto" -> <<"", "p", "x">>
    [] e = "func" -> <<"f">>
    [] OTHER -> <<"">>
\* S is a union, so that declarations of both kinds occur; A of one member has another size.
DataOf(e, v, d) ==
  CASE e \in Tags -> IF v[e] # "full" THEN (IF e = "A" THEN "struct" ELSE "union")
                     ELSE IF Len(d[e]) = 1 THEN "4" ELSE "8"
    [] e = "array" -> "3"
    [] OTHER -> "0"

\* Two orders in which a compiler may number them: uses before definitions, or after.
UsesFirst == <<"sec", "v", "func", "proto", "array", "t", "const", "restrict", "volatile", "*S", "*A", "S", "A", "E", "int">>
Orders == {UsesFirst, Reverse(UsesFirst)}

RECURSIVE Closure(_, _, _)
Closure(es, v, d) ==
  LET more == es \cup UNION {ToSet(Uses(e, v, d)) : e \in es}
  IN IF more = es THEN es ELSE Closure(more, v, d)
Entities(v, d, x) == Closure({n \in Tags : v[n] = "full"} \cup x, v, d)

\* A unit holds the structs it defines and what these, or the extras, use.
SoundUnit(v, d, x) ==
  /\ \A n \in DOMAIN v : (v[n] # "no") = (n \in Entities(v, d, x))
  /\ \A n \in Tags : (v[n] = "full") = (d[n] # <<>>)

\* The types of a unit behind `base' earlier ones, and its strings behind `sbase' earlier ones.
UnitStrings == Tail(Texts)
UnitTypes(v, d, x, order, base, sbase) ==
  LET es == SelectSeq(order, LAMBDA e : e \in Entities(v, d, x))
      Id(e) == base + CHOOSE n \in 1 .. Len(es) : es[n] = e
      Off(c) == IF c = "" THEN 0 ELSE sbase + CHOOSE n \in 1 .. Len(UnitStrings) : UnitStrings[n] = c IN
  [m \in 1 .. Len(es) |->
     [kind |-> KindOf(es[m], v), data |-> DataOf(es[m], v, d),
      names |-> [n \in 1 .. Len(NamesOf(es[m], v, d)) |-> Off(NamesOf(es[m], v, d)[n])],
      refs |-> [n \in 1 .. Len(Uses(es[m], v, d)) |-> Id(Uses(es[m], v, d)[n])]]]
RECURSIVE AllTypes(_, _, _)
AllTypes(us, order, n) ==
  IF n = 0 THEN <<>>
  ELSE LET before == AllTypes(us, order, n - 1)
       IN before \o UnitTypes(us[n][1], us[n][2], us[n][3], order, Len(before), (n - 1) * Len(UnitStrings))
Linked(us, order) ==
  [types |-> AllTypes(us, order, Len(us)),
   strs |-> <<"">> \o FlattenSeq([n \in 1 .. Len(us) |-> UnitStrings]),
   line |-> [n \in 1 .. Len(us) |-> (n - 1) * Len(UnitStrings) + 5],
   func |-> [n \in 1 .. Len(us) |-> (n - 1) * Len(UnitStrings) + 6]]

\* Sections of n units whose structs have one of the member lists defs, and that hold what is
\* in x besides; one: a struct has the same definition in all of them.
Units(defs, x) ==
  {u \in Views \X [Tags -> defs \cup {<<>>}] \X {x} : SoundUnit(u[1], u[2], u[3]) /\ Entities(u[1], u[2], u[3]) # {}}
SameDefs(us) ==
  \A m, n \in 1 .. Len(us), g \in Tags : <<>> \in {us[m][2][g], us[n][2][g]} \/ us[m][2][g] = us[n][2][g]
LinkedSections(n, defs, one, x) ==
  {Linked(us, o) : us \in {q \in [1 .. n -> Units(defs, x)] : one => SameDefs(q)}, o \in Orders}
StructSections == LinkedSections(3, {<<"*S", "*A">>, <<"*A", "E">>}, TRUE, {})
KindSections == LinkedSections(2, {<<"*S">>, <<"E">>}, FALSE, {"const", "restrict", "volatile", "array", "func", "sec"})

-----------------------------------------------------------------------------
\* BtfDump.  Small graphs of types that a C program can have.
DumpTy(kind, name, type, refs) == [kind |-> kind, name |-> name, type |-> type, refs |-> refs, values |-> <<>>]
Composites == {"struct", "union"}

\* What the declaration of a type needs, past pointers to structures with a name.
Needs(W, p) ==
  LET t == IF p[1] = 0 THEN DumpTy("void", <<>>, 0, <<>>) ELSE W[p[1]] IN
  CASE t.kind \in Composites -> IF p[2] /\ t.name # <<>> THEN {} ELSE {<<x, FALSE>> : x \in ToSet(t.refs)}
    [] t.kind = "ptr" -> {<<t.type, TRUE>>}
    [] t.kind \in {"const", "array", "typedef"} -> {<<t.type, p[2]>>}
    [] t.kind = "proto" -> {<<x, p[2]>> : x \in ToSet(t.refs) \cup {t.type}}
    [] OTHER -> {}
RECURSIVE Reach(_, _, _)
Reach(W, S, n) ==
  LET more == UNION {Needs(W, p) : p \in S} \ S IN
  IF more = {} \/ n = 0 THEN S ELSE Reach(W, S \cup more, n - 1)
RECURSIVE ObjectType(_, _)
ObjectType(W, x) ==
  x # 0 /\ CASE W[x].kind \in {"proto", "fwd"} -> FALSE
             [] W[x].kind \in {"const", "typedef"} -> ObjectType(W, W[x].type)
             [] OTHER -> TRUE

\* No type needs itself, and fields and elements have a size.
ValidTypes(W) ==
  /\ \A x \in 1 .. Len(W), p \in BOOLEAN : <<x, p>> \notin Reach(W, Needs(W, <<x, p>>), 12)
  /\ \A x \in 1 .. Len(W) :
       /\ W[x].kind \in Composites => \A y \in ToSet(W[x].refs) : ObjectType(W, y)
       /\ W[x].kind = "array" => ObjectType(W, W[x].type)

\* A pointer to an array of structures, whose forward declaration is not legal C (README,
\* "Deviations").
RECURSIVE ToStructs(_, _, _)
ToStructs(W, x, array) ==
  x # 0 /\ IF W[x].kind \in {"const", "typedef", "array"} THEN ToStructs(W, W[x].type, array \/ W[x].kind = "array")
           ELSE array /\ W[x].kind = "struct" /\ W[x].name # <<>>
PointerToArray(W) == \E x \in 1 .. Len(W) : W[x].kind = "ptr" /\ ToStructs(W, W[x].type, FALSE)

\* Two structures, a pointer, and two types of other kinds between them.  No name looks like a
\* numbered one, which would be taken twice (README, "Deviations").
MiddleTypes ==
  {DumpTy(kind, <<>>, x, <<>>) : kind \in {"const", "array"}, x \in {2, 5}}
    \cup {DumpTy("typedef", <<"t">>, x, <<>>) : x \in {0, 1, 5}}
    \cup {DumpTy("struct", <<>>, 0, <<x>>) : x \in {2, 3, 5}}
    \cup {DumpTy("proto", <<>>, 2, <<y>>) : y \in {0, 1, 5}}
    \cup {DumpTy("fwd", <<"s">>, 0, <<>>), DumpTy("enum", <<"s">>, 0, <<>>)}
OuterTypes ==
  {DumpTy("ptr", <<>>, x, <<>>) : x \in {1, 4}} \cup {DumpTy("typedef", <<"t">>, x, <<>>) : x \in {2, 3, 4}}
    \cup {DumpTy("union", <<>>, 0, <<x>>) : x \in {3, 4}}
TypeGraphs ==
  {<<DumpTy("struct", <<"s">>, 0, a), DumpTy("struct", <<"s">>, 0, b), DumpTy("ptr", <<>>, p, <<>>), m, o>> :
     a \in {<<4, 3>>, <<5, 2>>, <<4>>}, b \in {<<>>, <<1>>, <<3>>, <<4>>, <<5>>}, p \in {1, 4, 5}, m \in MiddleTypes, o \in OuterTypes}

\* Enumerators, alone, in a field and in a typedef; and a builtin.
EnumTy(name, values) == [DumpTy("enum", name, 0, <<>>) EXCEPT !.values = values]
EnumGraphs ==
  {<<EnumTy(<<>>, <<<<"t">>>>), EnumTy(n, <<<<"t">>, <<"v">>>>), DumpTy("typedef", <<"t">>, x, <<>>),
     DumpTy("struct", <<"s">>, 0, a), DumpTy("typedef", <<"__builtin_va_list">>, 0, <<>>), DumpTy("int", <<"i">>, 0, <<>>)>> :
     n \in {<<>>, <<"s">>}, x \in {1, 2, 5}, a \in {<<1>>, <<2>>, <<3, 1>>, <<2, 3>>, <<6, 3>>}}
CTypes == {W \in TypeGraphs \cup EnumGraphs : ValidTypes(W) /\ ~ PointerToArray(W)}

\* Structures that embed each other, which no compiler lets through.
LoopTypes ==
  {<<DumpTy("struct", <<"s">>, 0, a), DumpTy("union", <<"u">>, 0, b), DumpTy("ptr", <<>>, p, <<>>), DumpTy("array", <<>>, 2, <<>>),
     DumpTy("typedef", <<"t">>, q, <<>>)>> :
     a \in {<<>>, <<1>>, <<3>>, <<4>>, <<5>>}, b \in {<<>>, <<1>>, <<3>>}, p \in {0, 1, 2}, q \in {0, 1, 2}}

-----------------------------------------------------------------------------
\* BtfDecl.  The declarations of up to four types in a chain that C allows.  The stack of ids
\* never outgrows its first 16 entries, so that no view of it is left behind (README,
\* "Deviations").
ChainLinks == {<<"ptr">>, <<"const">>, <<"array", 2>>, <<"array", 3>>, <<"proto">>}
RECURSIVE PastConst(_)
PastConst(c) == IF Head(c)[1] = "const" THEN PastConst(Tail(c)) ELSE Head(c)[1]
ValidChain(c) ==
  \A n \in 1 .. Len(c) - 1 :
    /\ c[n][1] = "array" => PastConst(SubSeq(c, n + 1, Len(c))) \notin {"proto", "void"}
    /\ c[n][1] = "proto" => PastConst(SubSeq(c, n + 1, Len(c))) \notin {"proto", "array"}
    /\ c[n][1] = "const" => PastConst(SubSeq(c, n, Len(c))) # "proto"
DeclChains == {c \in {Append(l, e) : l \in SeqOf(ChainLinks, 4), e \in {<<"int">>, <<"void">>, <<"struct", 2>>}} : ValidChain(c)}

\* BtfLayout.  Structures of up to four fields.  None that are packed have bit fields, whose
\* layout may not be kept (README, "Deviations").
Field(size, bits, attr) == [size |-> size, bits |-> bits, attr |-> attr, name |-> TRUE]
PlainFields == {Field(b, 0, 1) : b \in {1, 2, 4, 8}} \cup {Field(1, 0, 4), Field(1, 0, 8), Field(4, 0, 16)}
BitFields == {Field(1, 5, 1), Field(4, 3, 1), Field(4, 30, 1), Field(8, 40, 1)}
Layouts ==
  {[fields |-> f, packed |-> FALSE] : f \in SeqOf(PlainFields \cup BitFields, 3)}
    \cup {[fields |-> f, packed |-> FALSE] : f \in SeqOf({Field(1, 0, 1), Field(8, 0, 1), Field(1, 5, 1), Field(4, 30, 1)}, 4)}
    \cup {[fields |-> f, packed |-> TRUE] : f \in SeqOf(PlainFields, 3)}

\* HashMap.  Two keys that share a bucket of four and part in a table of eight.
HashedKeys == {"a", "b"}
HashOf == [x \in HashedKeys |-> IF x = "a" THEN 2 ELSE 3]
-----------------------------------------------------------------------------

VARIABLES
  part,   \* the module whose behaviour this is; the variables of the others are Nil
  \* BtfParse
  call, parse_at, section, ext, live, parse_types, types_size, next_type, buffer, info, fds,
  parse_ret,
  types_T, types_asked, types_at, id, depth, nelems, container, types_ret,   \* BtfTypes
  \* BtfDedup
  input, dont_resolve_fwds, pass, i, dedup_types, strs, line, func, map, table, new_id,
  dump_T, d, dump_asked, dump_ret,   \* BtfDump
  chain, fname, decl_at, cnt, decl_cap, moved, stale, left, ptr, out, tail,   \* BtfDecl
  src, k, off, text, layout_at,   \* BtfLayout
  buckets, hash_cap, cap_bits, sz, hash_ret   \* HashMap

parseVars == <<call, parse_at, section, ext, live, parse_types, types_size, next_type, buffer,
               info, fds, parse_ret>>
typesVars == <<types_T, types_asked, types_at, id, depth, nelems, container, types_ret>>
dedupVars == <<input, dont_resolve_fwds, pass, i, dedup_types, strs, line, func, map, table,
               new_id>>
dumpVars == <<dump_T, d, dump_asked, dump_ret>>
declVars == <<chain, fname, decl_at, cnt, decl_cap, moved, stale, left, ptr, out, tail>>
layoutVars == <<src, k, off, text, layout_at>>
hashVars == <<buckets, hash_cap, cap_bits, sz, hash_ret>>
vars == <<part, parseVars, typesVars, dedupVars, dumpVars, declVars, layoutVars, hashVars>>

\* btf__new, btf__parse_elf, btf__get_from_id, btf_ext__new.
Parser == INSTANCE BtfParse WITH
  Sections <- RawSections, Exts <- RawExts, Files <- BtfFiles, FirstBuffer <- 120, Step <- 2,
  BTF_MAX_NR_TYPES <- 13, NoMemory <- TRUE, at <- parse_at, types <- parse_types,
  ret <- parse_ret
\* Sizes and types behind chains of references; the types of a map.
ChainTypes == INSTANCE BtfTypes WITH
  MAX_RESOLVE_DEPTH <- 3, UINT32_MAX <- 15, MaxName <- 3, MapPrefix <- <<"m">>,
  Tables <- ChainTables, Names <- {}, Sizes <- {}, T <- types_T, asked <- types_asked,
  at <- types_at, ret <- types_ret
MapTypes == INSTANCE BtfTypes WITH
  MAX_RESOLVE_DEPTH <- 3, UINT32_MAX <- 15, MaxName <- 3, MapPrefix <- <<"m">>,
  Tables <- ContainerTables, Names <- MapNames, Sizes <- {2, 6, 8}, T <- types_T,
  asked <- types_asked, at <- types_at, ret <- types_ret
\* Three units with two structs, an enum and their declarations; two units with types of every kind.
Merge == INSTANCE BtfDedup WITH
  Inputs <- StructSections, Contents <- Texts, KeepFwds <- BOOLEAN, NoMemory <- FALSE,
  types <- dedup_types
MergeKinds == INSTANCE BtfDedup WITH
  Inputs <- KindSections, Contents <- Texts, KeepFwds <- {TRUE}, NoMemory <- TRUE,
  types <- dedup_types
\* Types that C allows, and loops.
Dump == INSTANCE BtfDump WITH
  Worlds <- CTypes, NoMemory <- FALSE, T <- dump_T, asked <- dump_asked, ret <- dump_ret
Loops == INSTANCE BtfDump WITH
  Worlds <- LoopTypes, NoMemory <- TRUE, T <- dump_T, asked <- dump_asked, ret <- dump_ret
\* One declaration.
Decl == INSTANCE BtfDecl WITH
  Chains <- DeclChains, Names <- {"x", ""}, CAP <- 16, at <- decl_at, cap <- decl_cap
\* The fields of one structure.
Layout == INSTANCE BtfLayout WITH
  Structs <- Layouts, at <- layout_at
\* A table that grows up to four entries.
Table == INSTANCE HashMap WITH
  Keys <- HashedKeys, Values <- {1, 2}, WordSize <- 3, Hash <- HashOf,
  Strategies <- {"ADD", "SET", "UPDATE", "APPEND"}, MaxEntries <- 4, cap <- hash_cap,
  ret <- hash_ret

Parts == {"parse", "chains", "containers", "structs", "kinds", "dump", "loops", "decl", "layout",
          "hash"}

Init ==
  /\ part \in Parts
  /\ IF part = "parse" THEN Parser!Init ELSE
       call = Nil /\ parse_at = Nil /\ section = Nil /\ ext = Nil /\ live = Nil /\
       parse_types = Nil /\ types_size = Nil /\ next_type = Nil /\ buffer = Nil /\ info = Nil /\
       fds = Nil /\ parse_ret = Nil
  /\ IF part = "chains" THEN ChainTypes!Init ELSE IF part = "containers" THEN MapTypes!Init ELSE
       types_T = Nil /\ types_asked = Nil /\ types_at = Nil /\ id = Nil /\ depth = Nil /\
       nelems = Nil /\ container = Nil /\ types_ret = Nil
  /\ IF part = "structs" THEN Merge!Init ELSE IF part = "kinds" THEN MergeKinds!Init ELSE
       input = Nil /\ dont_resolve_fwds = Nil /\ pass = Nil /\ i = Nil /\ dedup_types = Nil /\
       strs = Nil /\ line = Nil /\ func = Nil /\ map = Nil /\ table = Nil /\ new_id = Nil
  /\ IF part = "dump" THEN Dump!Init ELSE IF part = "loops" THEN Loops!Init ELSE
       dump_T = Nil /\ d = Nil /\ dump_asked = Nil /\ dump_ret = Nil
  /\ IF part = "decl" THEN Decl!Init ELSE
       chain = Nil /\ fname = Nil /\ decl_at = Nil /\ cnt = Nil /\ decl_cap = Nil /\
       moved = Nil /\ stale = Nil /\ left = Nil /\ ptr = Nil /\ out = Nil /\ tail = Nil
  /\ IF part = "layout" THEN Layout!Init ELSE
       src = Nil /\ k = Nil /\ off = Nil /\ text = Nil /\ layout_at = Nil
  /\ IF part = "hash" THEN Table!Init ELSE
       buckets = Nil /\ hash_cap = Nil /\ cap_bits = Nil /\ sz = Nil /\ hash_ret = Nil

Step ==
  /\ UNCHANGED part
  /\ IF part = "parse" THEN Parser!Next ELSE UNCHANGED parseVars
  /\ IF part = "chains" THEN ChainTypes!Next ELSE IF part = "containers" THEN MapTypes!Next ELSE UNCHANGED typesVars
  /\ IF part = "structs" THEN Merge!Next ELSE IF part = "kinds" THEN MergeKinds!Next ELSE UNCHANGED dedupVars
  /\ IF part = "dump" THEN Dump!Next ELSE IF part = "loops" THEN Loops!Next ELSE UNCHANGED dumpVars
  /\ IF part = "decl" THEN Decl!Next ELSE UNCHANGED declVars
  /\ IF part = "layout" THEN Layout!Next ELSE UNCHANGED layoutVars
  /\ IF part = "hash" THEN Table!Next ELSE UNCHANGED hashVars

\* Where a call is over, or what a bound allows has happened, nothing more has to.
MayStop == part \in {"parse", "chains", "containers", "structs", "kinds", "dump", "loops",
                     "decl", "layout"} /\ UNCHANGED vars

Next == Step \/ MayStop

\* A call that runs goes on; nobody has to make one, and no allocation has to fail.
Fairness ==
  /\ WF_parseVars(part = "parse" /\ Parser!Working)
  /\ WF_typesVars(part = "chains" /\ ChainTypes!Working)
  /\ WF_typesVars(part = "containers" /\ MapTypes!Working)

Spec == Init /\ [][Next]_vars /\ Fairness
-----------------------------------------------------------------------------
ASSUME BtfAssumption ==
  /\ Parser!BtfParseAssumption /\ ChainTypes!BtfTypesAssumption /\ MapTypes!BtfTypesAssumption
  /\ Merge!BtfDedupAssumption /\ MergeKinds!BtfDedupAssumption /\ Dump!BtfDumpAssumption
  /\ Loops!BtfDumpAssumption /\ Decl!BtfDeclAssumption /\ Table!HashMapAssumption

\* A btf has the types of its section, all of them and in their order, wherever the bytes came
\* from, and however often btf->types grew it is written within it (btf_add_type); the blocks
\* of .BTF.ext end where their part ends, as later walks rely on; a call that fails leaves no
\* memory and no descriptor; every call comes back, the kernel being asked at most twice
\* (btf.c btf__new, btf__parse_elf, btf__get_from_id, btf_ext_setup_info).
BtfRead ==
  /\ [](part = "parse" =>
          /\ Parser!TypeOK /\ Parser!NoOverrun /\ Parser!NothingLeaks
          /\ Parser!TypesWhole /\ Parser!BlocksEnd)
  /\ []<>~ (part = "parse" /\ parse_at \in {"ask", "types"})

\* Types may refer to each other in a circle, and every question about them is answered.  A
\* size, multiplied in 32 bits, is the true one or is refused; a resolved type has the size of
\* the one asked; the key and value types given for a map have the sizes of its definition
\* (btf.c btf__resolve_size, btf__resolve_type, btf__get_map_kv_tids).
TypesAnswered ==
  /\ [](part = "chains" => ChainTypes!TypeOK /\ ChainTypes!SizeExact /\ ChainTypes!ResolvedIsSame)
  /\ [](part = "containers" => MapTypes!TypeOK /\ MapTypes!KvMatches)
  /\ []<>~ (part \in {"chains", "containers"} /\ types_at \notin {"idle", "done"})

\* btf__dedup merges what is equal and nothing else.  Every type of the input has one in the
\* result that says the same and refers to what became of its references, no two of the result
\* describe the same, cycles of structs included, and strings read as before; types of a C
\* program are never refused, no chain of mappings is circular, and a struct found to be
\* canonical stays so through all later merges (btf.c btf_dedup_merge_hypot_map).
Merged ==
  /\ [](part = "structs" =>
          /\ Merge!TypeOK /\ Merge!NoLoop /\ Merge!NothingLost /\ Merge!NoDuplicates
          /\ Merge!StringsKept /\ Merge!Accepted)
  /\ [](part = "kinds" =>
          /\ MergeKinds!TypeOK /\ MergeKinds!NothingLost /\ MergeKinds!NoDuplicates
          /\ MergeKinds!Accepted)
  /\ [][part = "structs" => Merge!MappingKept]_vars

\* "Dump BTF type in a compilable C syntax, including all the necessary dependent types": each
\* declaration is legal after those before it, whatever was dumped before, no name is given
\* twice, what was asked for has been defined and a type that embeds itself is refused; what
\* is written, read as C reads it, declares the type that was given and is laid out as the
\* original was, every field at its offset (btf_dump.c btf_dump_order_type,
\* btf_dump_emit_type_chain, btf_dump_emit_bit_padding).
DumpIsFaithful ==
  /\ part = "dump" => Dump!TypeOK /\ Dump!Compiles /\ Dump!UniqueNames /\ Dump!AskedDefined
  /\ part = "loops" => Loops!LoopsRefused
  /\ part = "decl" => Decl!RoundTrip /\ Decl!Spaced
  /\ part = "layout" => Layout!LayoutKept

\* The hash map implements the map of hashmap.h: no call loses or invents a value, and each meets
\* the last inserted of a key's values; with one exception, which MultiMap names as none of the
\* promise: an insertion that makes the table grow turns the values of every key round (hashmap.c
\* 105-108 against hashmap.h 77-79).  However often the table was doubled, every entry is in the
\* chain its key is looked for in.
IsMultiMap ==
  /\ part = "hash" => Table!Promise!Init
  /\ [][part = "hash" => Table!AsPromised]_vars
  /\ [](part = "hash" => Table!TypeOK /\ Table!InItsChain)
=============================================================================

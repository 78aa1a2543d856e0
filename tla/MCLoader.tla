------------------------------ MODULE MCLoader ------------------------------
(***************************************************************************)
(* Loading with libbpf: objects that are opened, loaded, shared and        *)
(* closed, pinning, the maps of an object file, relocations, BTF for the   *)
(* kernel, CO-RE, the call that loads a program, and what is asked of a    *)
(* loaded one.                                                             *)
(*                                                                         *)
(* The parts share no variables, so that a behaviour of one of them at a   *)
(* time shows all that a product of them would: part says which.           *)
(***************************************************************************)
EXTENDS Integers, Sequences, SequencesExt, TLC

CONSTANT Nil      \* of a variable whose part does not run

-----------------------------------------------------------------------------
\* MapDefs.  Objects with up to four definitions in "maps" (of fewer and of more words than the
\* library knows, out of order, or spoilt), one or two in ".maps", and global data.  Type 4 is the
\* perf event array, with a size and without; the legacy one with three words has none.
MapSym(name, off) == [name |-> name, sec |-> "maps", off |-> off]
NoMaps ==
  [legacy |-> FALSE, symbols |-> <<>>, words |-> <<>>, btf |-> FALSE, datasec |-> FALSE, vars |-> <<>>,
   btf_size |-> 8, global_data |-> FALSE, global |-> [data |-> 0, rodata |-> 0, bss |-> 0],
   index |-> [maps |-> 1, data |-> 3, rodata |-> 4, bss |-> 5] @@ (".maps" :> 2)]
Legacy(syms, words) ==
  [NoMaps EXCEPT !.legacy = TRUE, !.symbols = <<[name |-> "prog", sec |-> "xdp", off |-> 0]>> \o syms, !.words = words]
Count(n) == [k \in 1 .. n |-> k]
TwoOf(n) == <<MapSym("b", n), MapSym("a", 0)>>
Legacies ==
  {Legacy(TwoOf(4), Count(8)), Legacy(TwoOf(5), Count(10)), Legacy(TwoOf(6), Count(12)),
   Legacy(TwoOf(6), <<1, 2, 3, 4, 5, 0, 7, 8, 9, 1, 2, 0>>),
   Legacy(TwoOf(5), Count(9)), Legacy(<<>>, Count(5)), Legacy(TwoOf(5), <<>>), Legacy(TwoOf(7), Count(10)),
   Legacy(<<MapSym("d", 9), MapSym("b", 3), MapSym("a", 0), MapSym("c", 6)>>, Count(12))}

FieldInt(name, n) == [name |-> name, int |-> n, ptr |-> 0]
FieldPtr(name, t) == [name |-> name, int |-> -1, ptr |-> t]
MapKeys == {FieldInt("key_size", s) : s \in {0, 4, 8}} \cup {FieldPtr("key", t) : t \in 0 .. 3}
MapValues == {FieldInt("value_size", s) : s \in {8, -1}} \cup {FieldPtr("value", t) : t \in 1 .. 3}
MapOthers == {FieldInt("pinning", p) : p \in 0 .. 2}
               \cup {FieldInt("max_entries", 3), FieldInt("map_flags", -1), FieldInt("new", 1)}
MapFields ==
  {<<FieldInt("type", 1), a, b>> : a \in MapKeys, b \in MapKeys}
  \cup {<<a, FieldInt("type", 1), b>> : a \in MapValues, b \in MapValues}
  \cup {<<FieldInt("type", 1), a>> : a \in MapOthers}
  \cup {<<FieldInt("type", 0), FieldInt("map_flags", 1)>>, <<FieldInt("type", 4), FieldInt("value_size", 4)>>,
        <<FieldInt("type", 4), FieldInt("max_entries", 3)>>}
MapVar(name, off, fields) ==
  [name |-> name, off |-> off, size |-> 4, kind |-> "var", linkage |-> "global", def_kind |-> "struct",
   def_size |-> 4, fields |-> fields]
GoodVar == MapVar("v", 4, <<FieldInt("type", 1), FieldPtr("key", 1)>>)
InBtf(vs) == [NoMaps EXCEPT !.btf = TRUE, !.datasec = TRUE, !.vars = vs]
BtfMaps ==
  {InBtf(<<GoodVar, MapVar("w", 0, d)>>) : d \in MapFields}
  \cup {InBtf(<<v>>) :
          v \in {[GoodVar EXCEPT !.name = ""], [GoodVar EXCEPT !.size = 5], [GoodVar EXCEPT !.kind = "func"],
                 [GoodVar EXCEPT !.linkage = "extern"], [GoodVar EXCEPT !.def_kind = "int"],
                 [GoodVar EXCEPT !.def_size = 5], [GoodVar EXCEPT !.linkage = "static"]}}
  \cup {[InBtf(<<>>) EXCEPT !.datasec = FALSE]}
MixedMaps ==
  LET o == [Legacy(TwoOf(5), Count(10)) EXCEPT !.btf = TRUE, !.datasec = TRUE, !.vars = <<GoodVar>>]
      late == [o EXCEPT !.index = [maps |-> 4, data |-> 1, bss |-> 2, rodata |-> 3] @@ o.index] IN
  {[p EXCEPT !.global_data = g, !.global = [data |-> 2, rodata |-> 3, bss |-> 4]] : p \in {o, NoMaps, late}, g \in BOOLEAN}
MapObjects == Legacies \cup BtfMaps \cup MixedMaps

-----------------------------------------------------------------------------
\* Relocation.  Object files as the compiler writes them: .text before the programs, two
\* programs in sections of their own, two maps, a section of data.  A body is a sequence of
\* words: m1 and m2 load a map, d a static variable, g a global one, a an absolute symbol's
\* address; c1 and c2 call a function of .text; x is anything.
SymOf(w) == CASE w = "m1" -> 1 [] w = "m2" -> 2 [] w = "d" -> 3 [] w \in {"c1", "c2"} -> 4
              [] w = "g" -> 7 [] w = "a" -> 8
FileSym(shndx, value, bind, name) == [shndx |-> shndx, value |-> value, bind |-> bind, name |-> name]
FileSyms ==
  <<FileSym(7, 0, "global", "m1"), FileSym(7, 8, "global", "m2"), FileSym(8, 0, "local", ""),
    FileSym(1, 0, "local", ""), FileSym(2, 0, "global", "main"), FileSym(3, 0, "global", "main2"),
    FileSym(8, 4, "global", "g"), FileSym(-1, 0, "global", "a")>>

InsnsOf(w) == IF w \in {"x", "c1", "c2"} THEN 1 ELSE 2
RECURSIVE PlaceOf(_, _)
PlaceOf(body, k) == IF k = 1 THEN 0 ELSE PlaceOf(body, k - 1) + InsnsOf(body[k - 1])

\* The instructions of section s; a call to the k-th function holds its distance from .text.
Insns(s, body, text) ==
  FlattenSeq([k \in 1 .. Len(body) |->
    LET at_(j) == <<s, PlaceOf(body, k) + j>>
        w == body[k] IN
    IF w = "x" THEN <<[op |-> "other", src |-> "none", imm |-> 0, at |-> at_(0)]>>
    ELSE IF w \in {"c1", "c2"}
    THEN <<[op |-> "call", src |-> "pseudo_call", at |-> at_(0),
            imm |-> (IF w = "c1" \/ Len(text) < 2 THEN 0 ELSE PlaceOf(text, 2)) - 1]>>
    ELSE <<[op |-> "ld64", src |-> "none", imm |-> IF w = "d" THEN 4 ELSE 0, at |-> at_(0)],
           [op |-> "ld64hi", src |-> "none", imm |-> 0, at |-> at_(1)]>>])

Rels(body) ==
  LET needed == SelectSeq([k \in 1 .. Len(body) |-> k], LAMBDA k : body[k] # "x") IN
  [k \in 1 .. Len(needed) |-> [insn |-> PlaceOf(body, needed[k]), sym |-> SymOf(body[needed[k]])]]

Section(type, name, insns, rels, of, ok) ==
  [type |-> type, name |-> name, insns |-> insns, rels |-> rels, info |-> of, ok |-> ok]
Exec(name, s, body, text, bad) == Section("exec", name, Insns(s, body, text), <<>>, 0, name \notin bad)
RelSection(s, body) == Section(IF Rels(body) = <<>> THEN "other" ELSE "rel", ".rel", <<>>, Rels(body), s, TRUE)
FileSections(text, b, b2, bad) ==
  <<Exec(".text", 1, text, text, bad), Exec("xdp", 2, b, text, bad), Exec("xdp2", 3, b2, text, bad),
    RelSection(1, text), RelSection(2, b), RelSection(3, b2),
    Section("progbits", "maps", <<>>, <<>>, 0, TRUE), Section("progbits", ".data", <<>>, <<>>, 0, TRUE),
    Section("progbits", "version", <<>>, <<>>, 0, "version" \notin bad),
    Section(IF "symtab" \in bad THEN "other" ELSE "symtab", ".symtab", <<>>, <<>>, 0, TRUE),
    Section(IF "symtab2" \in bad THEN "symtab" ELSE "other", "", <<>>, <<>>, 0, TRUE)>>

\* The records of .BTF.ext for the sections in secs, one for each word of a body.
Records(secs, bodies) ==
  LET number == [x \in secs |-> CASE x = ".text" -> 1 [] x = "xdp" -> 2 [] OTHER -> 3] IN
  [x \in secs |-> [k \in 1 .. Len(bodies[number[x]]) |->
     [off |-> 8 * PlaceOf(bodies[number[x]], k), of |-> <<number[x], PlaceOf(bodies[number[x]], k)>>]]]
FileWith(t, b, b2, x, bad) ==
  [secs |-> FileSections(t, b, b2, bad), syms |-> FileSyms,
   maps |-> <<[type |-> "unspec", sec |-> 7, off |-> 0, fd |-> 101],
              [type |-> "unspec", sec |-> 7, off |-> 8, fd |-> 102],
              [type |-> "data", sec |-> 8, off |-> 0, fd |-> 103]>>,
   func |-> Records(x[1], <<t, <<"x">>, <<"x">>>>), line |-> Records(x[2], <<t, b, b2>>)]

FileTexts == {<<>>, <<"x">>, <<"m1", "x">>, <<"d", "m2">>, <<"x", "c1">>}
FileWords == {"m1", "m2", "d", "c1", "c2", "x"}
FileBodies == {<<u, v>> : u \in FileWords, v \in FileWords}
SecNames == {".text", "xdp", "xdp2"}
FileExts == {<<SecNames, SecNames>>, <<SecNames, {}>>, <<{".text", "xdp"}, SecNames>>, <<SecNames, {"xdp"}>>}
\* A section has records only if it has instructions.
ElfFiles ==
  {FileWith(t, b, b2, x, {}) : t \in FileTexts \ {<<>>}, b \in FileBodies, b2 \in {<<"c1">>, <<"m2", "c2">>}, x \in FileExts}
  \cup {FileWith(t, b, <<"x">>, x, bad) :
          t \in FileTexts, b \in {<<"g">>, <<"a">>, <<"m1">>, <<"c1">>},
          x \in {<<{}, {}>>, <<{"xdp", "xdp2"}, {"xdp", "xdp2"}>>},
          bad \in {{}, {"version"}, {"xdp2"}, {"symtab"}, {"symtab2"}}}

-----------------------------------------------------------------------------
\* BtfLoad.  An object with global data in two sections, a static variable, and a function,
\* sound or with one fault; kernels before 4.15, 5.0, 5.2, after, one that allows nothing, and
\* one with global data but without DATASEC.
BtfTy(k, name, word, linkage, items) == [kind |-> k, name |-> name, word |-> word, linkage |-> linkage, items |-> items]
BtfStrs == [o \in 0 .. 6 |-> <<o \in {4, 5}, <<"", "g", "h", "s", "data", "rodata", "f">>[o + 1]>>]
TypesWith(size, dataItems) ==
  <<BtfTy("int", 0, 4, "", <<>>), BtfTy("var", 1, 1, "global", <<>>), BtfTy("var", 2, 1, "global", <<>>),
    BtfTy("var", 3, 1, "static", <<>>), BtfTy("datasec", 4, size, "", dataItems),
    BtfTy("datasec", 5, 4, "", <<>>), BtfTy("func_proto", 0, 1, "", <<<<1, 1, 0>>>>), BtfTy("func", 6, 7, "", <<>>)>>
KindOfMap(kind, k, v) == [kind |-> kind, key |-> k, value |-> v]
SoundBtf ==
  [btf |-> "good", ext |-> "good", required |-> FALSE, annotated |-> TRUE, strs |-> BtfStrs,
   types |-> TypesWith(0, <<<<2, 0, 4>>, <<3, 0, 4>>, <<4, 8, 4>>>>),
   sections |-> (<<TRUE, "data">> :> 12) @@ (<<TRUE, "rodata">> :> 4),
   symbols |-> (<<FALSE, "g">> :> 4) @@ (<<FALSE, "h">> :> 0),
   maps |-> <<KindOfMap("btf", 1, 1), KindOfMap("legacy", 0, 0), KindOfMap("data", 0, 0),
              KindOfMap("rodata", 0, 0), KindOfMap("bss", 0, 0)>>]
BtfObjects ==
  LET faults ==
        {SoundBtf, [SoundBtf EXCEPT !.btf = "none"], [SoundBtf EXCEPT !.btf = "bad"], [SoundBtf EXCEPT !.ext = "bad"],
         [SoundBtf EXCEPT !.types = TypesWith(8, <<>>)], [SoundBtf EXCEPT !.annotated = FALSE],
         [SoundBtf EXCEPT !.types = [@ EXCEPT ![5].items = <<<<1, 0, 4>>>>]],
         [SoundBtf EXCEPT !.symbols = (<<FALSE, "h">> :> 0)],
         [SoundBtf EXCEPT !.sections = (<<TRUE, "data">> :> 12)]} IN
  {[o EXCEPT !.required = r_] : o \in faults, r_ \in BOOLEAN}
KernelWith(name, func, late, allowed) ==
  [name |-> name, func |-> func, datasec |-> late, global_data |-> late, allowed |-> allowed]
BtfKernels ==
  {KernelWith(FALSE, FALSE, FALSE, TRUE), KernelWith(TRUE, FALSE, FALSE, TRUE), KernelWith(TRUE, TRUE, FALSE, TRUE),
   KernelWith(TRUE, TRUE, TRUE, TRUE), KernelWith(TRUE, TRUE, TRUE, FALSE),
   [KernelWith(TRUE, TRUE, FALSE, TRUE) EXCEPT !.global_data = TRUE]}

-----------------------------------------------------------------------------
\* CoreReloc.  Programs compiled against one structure, loaded on kernels that have it otherwise.
CoreTy(kind, name, size_, type, n, members) ==
  [kind |-> kind, name |-> name, size |-> size_, type |-> type, nelems |-> n, members |-> members, signed |-> FALSE,
   int_off |-> 0]
CoreInt(size_) == [CoreTy("int", <<"i">>, size_, 0, 0, <<>>) EXCEPT !.signed = TRUE]
Member(name, type, off) == [name |-> name, type |-> type, off |-> off, bits |-> 0]
BitMember(name, type, off, bits) == [name |-> name, type |-> type, off |-> off, bits |-> bits]
s == <<"s">>
s_v == <<"s", "_", "_", "_", "v">>
s_not == <<"s", "_", "_", "_", "_", "v">>      \* four underscores: not a flavour

\* Types 1, 2 and 3 of every kernel; the structures come after them.
BaseTypes == <<CoreInt(4), CoreTy("array", <<>>, 0, 1, 2, <<>>), CoreTy("enum", <<"e">>, 4, 0, 0, <<>>)>>
Struct(name, size_, members) == CoreTy("struct", name, size_, 0, 0, members)

\* struct s { int a; struct { int c; }; int arr[2]; int b : 3; enum e e; t t; }
LocalTypes ==
  BaseTypes \o <<Struct(<<>>, 4, <<Member("c", 1, 0)>>), CoreTy("typedef", <<"t">>, 0, 1, 0, <<>>),
                 Struct(s, 28, <<Member("a", 1, 0), Member("", 4, 32), Member("arr", 2, 64), BitMember("b", 1, 130, 3),
                                 Member("e", 3, 160), Member("t", 5, 192)>>),
                 Struct(s_v, 4, <<Member("a", 1, 0)>>)>>
Targets ==
  [ same |-> LocalTypes,
    moved |-> BaseTypes \o <<CoreTy("union", <<>>, 8, 0, 0, <<Member("x", 1, 0), Member("", 5, 32)>>),
                             Struct(<<>>, 4, <<Member("c", 1, 0)>>),
                             Struct(s, 40, <<Member("arr", 2, 0), Member("y", 1, 64), Member("", 4, 96), Member("a", 1, 160),
                                             BitMember("b", 1, 222, 4), Member("t", 1, 256), Member("e", 3, 288)>>)>>,
    twice |-> BaseTypes \o <<Struct(s, 8, <<Member("a", 1, 32)>>), Struct(s_v, 8, <<Member("a", 1, 32), Member("c", 1, 0)>>),
                             Struct(s_not, 4, <<Member("a", 1, 0)>>)>>,
    differ |-> BaseTypes \o <<Struct(s, 8, <<Member("a", 1, 0), Member("c", 1, 32)>>),
                              Struct(s_v, 8, <<Member("a", 1, 32), Member("e", 3, 0)>>)>>,
    sizes |-> BaseTypes \o <<Struct(s, 8, <<Member("a", 1, 0)>>), CoreInt(8), Struct(s_v, 8, <<Member("a", 5, 0)>>)>>,
    alias |-> BaseTypes \o <<Struct(<<>>, 8, <<Member("a", 1, 32), Member("arr", 1, 0)>>), CoreTy("typedef", s, 0, 4, 0, <<>>)>>,
    lacks |-> BaseTypes \o <<Struct(s, 16, <<Member("c", 3, 0), BitMember("b", 1, 60, 10), Member("", 2, 64)>>)>>,
    shifted |-> BaseTypes \o <<[CoreInt(4) EXCEPT !.int_off = 3], Struct(s, 8, <<Member("a", 4, 0), Member("c", 1, 32)>>)>>,
    fwd |-> BaseTypes \o <<CoreTy("fwd", s, 0, 0, 0, <<>>)>>,
    deep |-> BaseTypes \o <<Struct(<<>>, 4, <<Member("a", 1, 0)>>), Struct(<<>>, 4, <<Member("", 4, 0)>>),
                            Struct(<<>>, 4, <<Member("", 5, 0)>>), Struct(s, 4, <<Member("", 6, 0)>>)>> ]

\* A relocation, and the number the compiler left in its instruction.
Relo(type, access, kind, val) ==
  [type |-> type, access |-> access, kind |-> kind, val |-> val, prog |-> TRUE, alu |-> TRUE, whole |-> TRUE]
Relos ==
  { Relo(6, <<0, 0>>, "offset", 0), Relo(6, <<0, 1, 0>>, "offset", 4), Relo(6, <<0, 2, 1>>, "offset", 12),
    Relo(6, <<1, 0>>, "offset", 28), Relo(6, <<0, 5>>, "offset", 24), Relo(6, <<0, 3>>, "offset", 16), Relo(6, <<0>>, "size", 28),
    Relo(6, <<0, 0>>, "size", 4), Relo(6, <<0, 4>>, "signed", 1), Relo(6, <<0, 3>>, "lshift", 0), Relo(6, <<0, 3>>, "rshift", 61),
    Relo(6, <<0, 0>>, "exists", 1), Relo(6, <<0, 1, 0>>, "exists", 1), Relo(7, <<0, 0>>, "offset", 0) }
RefusedRelos ==
  { Relo(6, <<0, 0>>, "offset", 5), Relo(6, <<0, 0>>, "other", 0), Relo(6, <<0, 2, 1>>, "signed", 1), Relo(6, <<0, 9>>, "offset", 0),
    Relo(6, <<0, 2, 2>>, "offset", 0), Relo(6, <<0, 0, 0>>, "offset", 0), Relo(6, <<>>, "offset", 0),
    Relo(6, <<0, 1, 0, 0, 0>>, "offset", 0), Relo(4, <<0, 0>>, "offset", 0), Relo(0, <<0>>, "offset", 0),
    [Relo(6, <<0, 0>>, "offset", 0) EXCEPT !.prog = FALSE], [Relo(6, <<0, 0>>, "offset", 0) EXCEPT !.alu = FALSE],
    [Relo(6, <<0, 0>>, "offset", 0) EXCEPT !.whole = FALSE] }
CoreWorld(target, relos, places) ==
  [local |-> LocalTypes, target |-> target, places |-> places,
   relos |-> [k \in 1 .. Len(relos) |-> [type |-> relos[k].type, access |-> relos[k].access, kind |-> relos[k].kind,
                                         prog |-> relos[k].prog, whole |-> relos[k].whole, insn |-> k]],
   imm |-> [k \in 1 .. Len(relos) |-> relos[k].val], alu |-> [k \in 1 .. Len(relos) |-> relos[k].alu]]
CoreWorlds ==
  {CoreWorld(Targets[n_], <<x, y>>, <<"good">>) : n_ \in DOMAIN Targets, x \in Relos, y \in Relos}
    \cup {CoreWorld(LocalTypes, <<x>>, p) : x \in RefusedRelos, p \in UNION {[1 .. n_ -> {"absent", "bad", "good"}] : n_ \in 0 .. 2}}

\* ProgInfo.  An array of elements of fixed size and two whose record size is told, one of them
\* with its size in the last word that a kernel knows.  InfoLens leaves out 7 and 12, where the
\* kernel's info ends just before a record size that is then read all the same (libbpf.c 6255;
\* README, "Deviations").
InfoArrays == << [array |-> 2, count |-> 1, size |-> -1],
                 [array |-> 4, count |-> 6, size |-> 7],
                 [array |-> 8, count |-> 10, size |-> 12] >>
-----------------------------------------------------------------------------

VARIABLES
  part,   \* the module whose behaviour this is; the variables of the others are Nil
  how, obj_pc, obj_i, obj_maps, obj_progs, obj_btf, map_fd, files, pins,   \* BpfObject
  pin_path, pinned, fs, call, pin_i, pin_n, pin_err, pin_before,   \* BpfPin
  \* ProgLoad
  load_step, load_i, insns, load_fds, open, prog, log_size, log_buf, attr, load_told, errno,
  load_ret, load_kernel,
  def_obj, strict, def_at, def_i, def_j, def_maps, nr_maps, made, def_ret,   \* MapDefs
  rel_obj, phase, rel_n, rel_r, efile, rel_progs, rel_err,   \* Relocation
  \* BtfLoad
  btf_obj, btf_kernel, btf_at, btf_i, caps, types, strs, btf_btf, ext, btf_maps, btf_ret,
  \* CoreReloc
  world, relaxed, core_at, loc, core_r, core_i, core_j, cache, targ, core_before, imm, log,
  core_ret,
  \* ProgInfo
  info_step, info_len, real, rec, arrays, count, size, ptr, base, data_len, info_told, written,
  line_pc, info, line_i, f, prev_i, func_idx, per_func   \* LineInfo

objectVars == <<how, obj_pc, obj_i, obj_maps, obj_progs, obj_btf, map_fd, files, pins>>
pinVars == <<pin_path, pinned, fs, call, pin_i, pin_n, pin_err, pin_before>>
loadVars == <<load_step, load_i, insns, load_fds, open, prog, log_size, log_buf, attr,
              load_told, errno, load_ret, load_kernel>>
defVars == <<def_obj, strict, def_at, def_i, def_j, def_maps, nr_maps, made, def_ret>>
relVars == <<rel_obj, phase, rel_n, rel_r, efile, rel_progs, rel_err>>
btfVars == <<btf_obj, btf_kernel, btf_at, btf_i, caps, types, strs, btf_btf, ext,
             btf_maps, btf_ret>>
coreVars == <<world, relaxed, core_at, loc, core_r, core_i, core_j, cache, targ, core_before,
              imm, log, core_ret>>
infoVars == <<info_step, info_len, real, rec, arrays, count, size, ptr, base, data_len,
              info_told, written>>
lineVars == <<line_pc, info, line_i, f, prev_i, func_idx, per_func>>
vars == <<part, objectVars, pinVars, loadVars, defVars, relVars, btfVars, coreVars, infoVars,
          lineVars>>

\* Two processes whose maps are pinned on load; then with each of the three loaders.
Plain == INSTANCE BpfObject WITH
  Procs <- 1 .. 2, Loaders <- {"plain"}, NMaps <- 2, NProgs <- 1, AutoPin <- 1 .. 2,
  ForeignPins <- {{}, {2}}, pc <- obj_pc, i <- obj_i, maps <- obj_maps, progs <- obj_progs,
  btf <- obj_btf
AnyLoader == INSTANCE BpfObject WITH
  Procs <- 1 .. 2, Loaders <- {"plain", "reuse", "maps"}, NMaps <- 1, NProgs <- 2,
  AutoPin <- {1}, ForeignPins <- {{}, {1}}, pc <- obj_pc, i <- obj_i, maps <- obj_maps,
  progs <- obj_progs, btf <- obj_btf
\* Two maps, each new, pinned by the load or reused from another's pin; a program with one
\* instance and one with two; two directories.
Pin == INSTANCE BpfPin WITH
  NMaps <- 2, NProgs <- 2, Instances <- <<1, 2>>, Dirs <- {"d1", "d2"}, ProgDirs <- {"d1"},
  NULL <- "NULL", Repath <- FALSE, i <- pin_i, n <- pin_n, err <- pin_err, before <- pin_before
\* Two instances from a preprocessor; a program that is loaded again, and memory that runs out.
Load == INSTANCE ProgLoad WITH
  LogLevels <- {0, 1}, KProbes <- BOOLEAN, FirstLog <- 1, LogLimit <- 4, Needs <- {0, 3, 5}, RecSize <- 2,
  KRecSizes <- {1, 2}, Nr <- 2, Prep <- TRUE, NoMemory <- FALSE, step <- load_step, i <- load_i,
  fds <- load_fds, told <- load_told, ret <- load_ret, kernel <- load_kernel
LoadAgain == INSTANCE ProgLoad WITH
  LogLevels <- {0, 1}, KProbes <- BOOLEAN, FirstLog <- 1, LogLimit <- 4, Needs <- {0, 3, 5}, RecSize <- 2,
  KRecSizes <- {1, 2}, Nr <- 1, Prep <- FALSE, NoMemory <- TRUE, step <- load_step, i <- load_i,
  fds <- load_fds, told <- load_told, ret <- load_ret, kernel <- load_kernel
\* bpf_object__init_maps.
Defs == INSTANCE MapDefs WITH
  Objects <- MapObjects, SizeOf <- <<4, 8, -1>>, Strict <- BOOLEAN, FirstCap <- 2, NrCpus <- 2,
  NoMemory <- TRUE, obj <- def_obj, at <- def_at, i <- def_i, j <- def_j, maps <- def_maps,
  ret <- def_ret
\* bpf_object__elf_collect and bpf_object__relocate.
Reloc == INSTANCE Relocation WITH
  Objects <- ElfFiles, GlobalData <- BOOLEAN, NoMemory <- TRUE, obj <- rel_obj, n <- rel_n,
  r <- rel_r, progs <- rel_progs, err <- rel_err
\* The BTF of an object on its way to the kernel.
Btf == INSTANCE BtfLoad WITH
  Objects <- BtfObjects, Kernels <- BtfKernels, obj <- btf_obj, kernel <- btf_kernel,
  at <- btf_at, i <- btf_i, btf <- btf_btf, maps <- btf_maps, ret <- btf_ret
\* Two relocations after each other.
Core == INSTANCE CoreReloc WITH
  Worlds <- CoreWorlds, Relaxed <- BOOLEAN, MAX_LEN <- 4, NoMemory <- TRUE, at <- core_at,
  r <- core_r, i <- core_i, j <- core_j, before <- core_before, ret <- core_ret
\* Three arrays.
Info == INSTANCE ProgInfo WITH
  Desc <- InfoArrays, InfoSize <- 13, InfoLens <- {2, 8, 13}, Counts <- {0, 2},
  RecSizes <- {1, 3}, Bases <- {10, 30}, step <- info_step, told <- info_told
\* Every table of three lines in two functions.
Lines == INSTANCE LineInfo WITH
  MaxLines <- 3, MaxFuncs <- 2, MaxAddr <- 3, pc <- line_pc, i <- line_i

Parts == {"objects", "loaders", "pin", "load", "again", "maps", "relocation", "btf", "core",
          "info", "lines"}

Init ==
  /\ part \in Parts
  /\ IF part = "objects" THEN Plain!Init ELSE IF part = "loaders" THEN AnyLoader!Init ELSE
       how = Nil /\ obj_pc = Nil /\ obj_i = Nil /\ obj_maps = Nil /\ obj_progs = Nil /\
       obj_btf = Nil /\ map_fd = Nil /\ files = Nil /\ pins = Nil
  /\ IF part = "pin" THEN Pin!Init ELSE
       pin_path = Nil /\ pinned = Nil /\ fs = Nil /\ call = Nil /\ pin_i = Nil /\ pin_n = Nil /\
       pin_err = Nil /\ pin_before = Nil
  /\ IF part = "load" THEN Load!Init ELSE IF part = "again" THEN LoadAgain!Init ELSE
       load_step = Nil /\ load_i = Nil /\ insns = Nil /\ load_fds = Nil /\ open = Nil /\
       prog = Nil /\ log_size = Nil /\ log_buf = Nil /\ attr = Nil /\ load_told = Nil /\
       errno = Nil /\ load_ret = Nil /\ load_kernel = Nil
  /\ IF part = "maps" THEN Defs!Init ELSE
       def_obj = Nil /\ strict = Nil /\ def_at = Nil /\ def_i = Nil /\ def_j = Nil /\
       def_maps = Nil /\ nr_maps = Nil /\ made = Nil /\ def_ret = Nil
  /\ IF part = "relocation" THEN Reloc!Init ELSE
       rel_obj = Nil /\ phase = Nil /\ rel_n = Nil /\ rel_r = Nil /\ efile = Nil /\
       rel_progs = Nil /\ rel_err = Nil
  /\ IF part = "btf" THEN Btf!Init ELSE
       btf_obj = Nil /\ btf_kernel = Nil /\ btf_at = Nil /\ btf_i = Nil /\ caps = Nil /\
       types = Nil /\ strs = Nil /\ btf_btf = Nil /\ ext = Nil /\
       btf_maps = Nil /\ btf_ret = Nil
  /\ IF part = "core" THEN Core!Init ELSE
       world = Nil /\ relaxed = Nil /\ core_at = Nil /\ loc = Nil /\ core_r = Nil /\
       core_i = Nil /\ core_j = Nil /\ cache = Nil /\ targ = Nil /\ core_before = Nil /\
       imm = Nil /\ log = Nil /\ core_ret = Nil
  /\ IF part = "info" THEN Info!Init ELSE
       info_step = Nil /\ info_len = Nil /\ real = Nil /\ rec = Nil /\ arrays = Nil /\
       count = Nil /\ size = Nil /\ ptr = Nil /\ base = Nil /\ data_len = Nil /\
       info_told = Nil /\ written = Nil
  /\ IF part = "lines" THEN Lines!Init ELSE
       line_pc = Nil /\ info = Nil /\ line_i = Nil /\ f = Nil /\ prev_i = Nil /\
       func_idx = Nil /\ per_func = Nil

Step ==
  /\ UNCHANGED part
  /\ IF part = "objects" THEN Plain!Next ELSE IF part = "loaders" THEN AnyLoader!Next ELSE UNCHANGED objectVars
  /\ IF part = "pin" THEN Pin!Next ELSE UNCHANGED pinVars
  /\ IF part = "load" THEN Load!Next ELSE IF part = "again" THEN LoadAgain!Next ELSE UNCHANGED loadVars
  /\ IF part = "maps" THEN Defs!Next ELSE UNCHANGED defVars
  /\ IF part = "relocation" THEN Reloc!Next ELSE UNCHANGED relVars
  /\ IF part = "btf" THEN Btf!Next ELSE UNCHANGED btfVars
  /\ IF part = "core" THEN Core!Next ELSE UNCHANGED coreVars
  /\ IF part = "info" THEN Info!Next ELSE UNCHANGED infoVars
  /\ IF part = "lines" THEN Lines!Next ELSE UNCHANGED lineVars

\* Where a call is over, or what a bound allows has happened, nothing more has to.
MayStop == part \in {"objects", "loaders", "load", "maps", "relocation", "btf", "core"} /\ UNCHANGED vars

Next == Step \/ MayStop

\* A call that runs goes on; nobody has to make one, to close an object or to pin at a path.
Fairness ==
  /\ \A p \in 1 .. 2 : WF_objectVars(part = "objects" /\ Plain!Step(p)) /\ WF_objectVars(part = "loaders" /\ AnyLoader!Step(p))
  /\ WF_pinVars(part = "pin" /\ Pin!Running)
  /\ WF_loadVars(part = "load" /\ Load!Call)
  /\ WF_loadVars(part = "again" /\ LoadAgain!Call)

Spec == Init /\ [][Next]_vars /\ Fairness
-----------------------------------------------------------------------------
ASSUME LoaderAssumption ==
  /\ Plain!BpfObjectAssumption /\ AnyLoader!BpfObjectAssumption /\ Pin!BpfPinAssumption
  /\ Load!ProgLoadAssumption /\ LoadAgain!ProgLoadAssumption /\ Defs!MapDefsAssumption
  /\ Reloc!RelocationAssumption /\ Core!CoreRelocAssumption /\ Info!ProgInfoAssumption
  /\ Lines!LineInfoAssumption

\* Whichever step of a load or of pinning fails, what it took is undone and only that.  A
\* descriptor that an object or its instances hold is open and held once, and none is left
\* but those that BpfObject names (libbpf.c 3590-3720, 4040-4080, 4668-4790); a failed load
\* leaves no pin of its own and unpins no other's, and processes that share a path share the
\* map (2245-2330, 4636-4642); pinning is all or nothing, and its undoing spares the files of
\* others, those apart that a map was reused from and bpf_object__pin_maps passed over as
\* pinned (2237, 4457-4463; bpf_program__pin, bpf_object__pin); all of them end.
FailureUndone ==
  /\ [](part = "objects" =>
          /\ Plain!TypeOK /\ Plain!HeldIsOpen /\ Plain!NothingElseLeaks
          /\ Plain!FailureLeavesNoPin /\ Plain!SharedMap)
  /\ [](part = "loaders" => AnyLoader!TypeOK /\ AnyLoader!HeldIsOpen /\ AnyLoader!NothingElseLeaks)
  /\ [](part = "pin" => Pin!TypeOK /\ Pin!PinnedIsThere)
  /\ [](part = "load" => Load!FdsHeld)
  /\ [](part = "again" => LoadAgain!TypeOK /\ LoadAgain!FdsHeld)
  /\ [][part = "objects" => Plain!UndoIsOwn]_vars
  /\ [][part = "pin" => Pin!UndoSpares /\ Pin!UndoneWhole]_vars
  /\ \A p \in 1 .. 2 :
       []<>(part \in {"objects", "loaders"} => obj_pc[p] \in {"loaded", "failed", "abandoned", "closed"})
  /\ []<>~ (part = "pin" /\ call # Pin!Idle)

\* A program that the verifier accepts is loaded, also by a kernel that knows shorter records
\* than the object has and also when a log is asked for; otherwise the caller is told what
\* happened: VERIFY that the verifier refused it, PROG2BIG that it is too large, PROGTYPE that
\* its type is wrong, else the kernel's own error, with the exceptions that TellsWhy names for
\* programs of 4096 instructions, for kprobes and where a log level is set.  This is while
\* there is memory (part "load"); in any case the calls with ever larger logs come to an end
\* (libbpf.c load_program, bpf.c bpf_load_program_xattr).
LoadTold ==
  /\ [](part = "load" => Load!TypeOK)
  /\ [][part = "load" => Load!FailsForReason /\ Load!TellsWhy]_vars
  /\ []<>~ (part \in {"load", "again"} /\ load_step # "idle")

\* The maps are those of the file, one for each definition, in the order by which relocations
\* find them; each has the definition that stands where its symbol says, whatever the order
\* of the symbols and however often the array grew, or the sizes that agree with its BTF; it
\* has no descriptor unless it was created and no creation failed, and the size it then tells
\* is the one the kernel was given, a perf event array for all CPUs apart, which tells 0
\* (libbpf.c bpf_object__init_maps, bpf_map__resize, bpf_object__create_maps).
MapsAsDefined ==
  part = "maps" =>
    /\ Defs!TypeOK /\ Defs!NoForeignFd /\ Defs!AllInOrder
    /\ Defs!LegacyAsWritten /\ Defs!SizesAgree /\ Defs!SizeAsMade

\* What the compiler meant is what the kernel gets.  In a relocated program, the copy of .text
\* included, a load has the descriptor of the map its symbol names, a call arrives at its
\* function, .text is there once, and func_info and line_info follow their instructions
\* (bpf_object__relocate).  An offset is that of the field in the running kernel's type, a
\* field is said to exist just when a candidate has it, a bit field is read with all its bits,
\* and a relocation that fails leaves the candidates to the next (bpf_core_reloc_fields).
CodeRelocated ==
  /\ [](part = "relocation" =>
          Reloc!TypeOK /\ Reloc!LoadsRight /\ Reloc!CallsArrive /\ Reloc!RecordsFollow)
  /\ [](part = "core" =>
          /\ Core!TypeOK /\ Core!OffsetRight /\ Core!ExistsRight
          /\ Core!BitsExtracted /\ Core!KernelBtfFound)
  /\ [][part = "core" => Core!NoneEmptied]_vars

\* However little the kernel knows, the BTF it is given is one that it takes: a kind it does
\* not know becomes something well formed, a DATASEC a STRUCT with a member for each variable,
\* although members overwrite the words they are made of; "btf_ext can't exist without btf";
\* what an object says of the types of a map is what the kernel was given, and .data and .rodata
\* have what the file has (bpf_object__sanitize_btf, bpf_object__create_maps).
BtfAccepted ==
  part = "btf" =>
    /\ Btf!TypeOK /\ Btf!SanitizedAccepted /\ Btf!MembersAreVariables /\ Btf!ExtNeedsBtf
    /\ Btf!MapTypesAgree /\ Btf!GlobalsFilled

\* The kernel writes what it tells of a program inside the block and no two arrays in one
\* place, although the program may have changed since the block was measured, and wherever
\* the block is moved an array's address is that of its contents (libbpf.c 6180-6290).  Line
\* tables that are accepted are cut into functions without gap or overlap, and the line found
\* is the nearest, the last function's by address apart (bpf_prog_linfo.c 46-246).
InfoFound ==
  /\ part = "info" => Info!TypeOK /\ Info!WritesInside /\ Info!PointsToIt
  /\ part = "lines" => Lines!Partitioned /\ Lines!FoundNearest /\ Lines!InsnFound
=============================================================================

----------------------------- MODULE Relocation -----------------------------
(***************************************************************************)
(* bpf_object__elf_collect, bpf_object__collect_reloc and                  *)
(* bpf_object__relocate: the sections of an object file become programs,   *)
(* the relocations of a section become descriptions attached to its        *)
(* program, and these put map descriptors and call distances into the      *)
(* instructions.  A program that calls into .text gets a copy of it, and   *)
(* the records of .BTF.ext for both.                                       *)
(*                                                                         *)
(* An instruction keeps in `at' the section and the place it was compiled  *)
(* to; only the properties look at it.                                     *)
(***************************************************************************)
EXTENDS Integers, Sequences, FiniteSets, SequencesExt

CONSTANTS
  Objects,      \* object files: secs, syms, maps, func and line
  GlobalData,   \* values of obj->caps.global_data
  NoMemory      \* whether an allocation may fail

RelocationAssumption == GlobalData \subseteq BOOLEAN /\ NoMemory \in BOOLEAN

VARIABLES
  obj,          \* the file, and what is known of the kernel
  phase, n, r,  \* the pass, its section or program, and the relocation of that program
  efile,        \* section indices: of maps, data, text, symbols and relocations
  progs,        \* obj->programs
  err

vars == <<obj, phase, n, r, efile, progs, err>>

InsnSize == 8
Insn == [op : {"ld64", "ld64hi", "call", "other"}, src : {"none", "pseudo_call", "map_fd", "map_value"},
         imm : Int, at : Int \X Int]

NoFile == [maps |-> -1, btf_maps |-> -1, data |-> -1, rodata |-> -1, bss |-> -1, text |-> 0,
           symbols |-> 0, reloc |-> <<>>]

Init ==
  /\ obj \in [file : Objects, global_data : GlobalData]
  /\ phase = "sections" /\ n = 1 /\ r = 0
  /\ efile = NoFile /\ progs = <<>> /\ err = 0

file == obj.file
Fail == err' = 1 /\ phase' = "failed" /\ UNCHANGED <<n, r>>
Step(next, count) ==
  IF n < count THEN n' = n + 1 /\ phase' = phase ELSE n' = 1 /\ phase' = next

-----------------------------------------------------------------------------
(* bpf_object__elf_collect *)

\* bpf_program__init and bpf_object__add_program.
NewProgram(idx) ==
  [idx |-> idx, section_name |-> file.secs[idx].name, insns |-> file.secs[idx].insns,
   reloc |-> <<>>, main_prog_cnt |-> 0, func |-> <<>>, line |-> <<>>, name |-> ""]

EfileOf(s) ==
  CASE s.name = "maps" -> [efile EXCEPT !.maps = n]
    [] s.name = ".maps" -> [efile EXCEPT !.btf_maps = n]
    [] s.type = "symtab" -> [efile EXCEPT !.symbols = n]
    [] s.type = "exec" /\ s.name = ".text" /\ s.insns # <<>> -> [efile EXCEPT !.text = n]
    [] s.type = "progbits" /\ s.name = ".data" -> [efile EXCEPT !.data = n]
    [] s.type = "progbits" /\ s.name = ".rodata" -> [efile EXCEPT !.rodata = n]
    [] s.type = "nobits" /\ s.name = ".bss" -> [efile EXCEPT !.bss = n]
    [] s.type = "rel" /\ file.secs[s.info].type = "exec" -> [efile EXCEPT !.reloc = Append(@, n)]
    [] OTHER -> efile

\* One section.  A second symbol table, a program that is not a whole number of instructions or
\* a malformed version ends the loading.
Section ==
  /\ phase = "sections"
  /\ LET s == file.secs[n] IN
     IF ~ s.ok \/ (s.type = "symtab" /\ efile.symbols # 0)
     THEN Fail /\ UNCHANGED <<efile, progs>>
     ELSE /\ efile' = EfileOf(s)
          /\ progs' = IF s.type = "exec" /\ s.insns # <<>> THEN Append(progs, NewProgram(n)) ELSE progs
          /\ Step("names", Len(file.secs)) /\ UNCHANGED <<r, err>>
  /\ UNCHANGED obj

\* bpf_object__init_prog_names: the first global symbol of the section; .text may go without.
ProgName(p) ==
  LET k == SelectInSeq(file.syms, LAMBDA s : s.shndx = p.idx /\ s.bind = "global") IN
  IF k # 0 THEN file.syms[k].name ELSE IF p.idx = efile.text THEN ".text" ELSE ""

\* The end of bpf_object__elf_collect; what it does about BTF and maps is not in this module.
Names ==
  /\ phase = "names"
  /\ IF efile.symbols = 0 \/ \E k \in 1 .. Len(progs) : ProgName(progs[k]) = ""
     THEN Fail /\ UNCHANGED progs
     ELSE /\ progs' = [k \in 1 .. Len(progs) |-> [progs[k] EXCEPT !.name = ProgName(progs[k])]]
          /\ phase' = (IF efile.reloc = <<>> THEN "relocate" ELSE "collect") /\ n' = 1
          /\ UNCHANGED <<r, err>>
  /\ UNCHANGED <<obj, efile>>

-----------------------------------------------------------------------------
(* bpf_object__collect_reloc *)

\* obj->maps, in the order of bpf_object__init_maps: without global data in the kernel none is
\* made for .data, .rodata and .bss.
Maps == SelectSeq(file.maps, LAMBDA m : m.type = "unspec" \/ obj.global_data)

IsMaps(shndx) == shndx \in {efile.maps, efile.btf_maps}
MapType(shndx) ==
  CASE shndx = efile.data -> "data"
    [] shndx = efile.bss -> "bss"
    [] shndx = efile.rodata -> "rodata"
    [] OTHER -> "unspec"
Known(shndx) == shndx = efile.text \/ IsMaps(shndx) \/ MapType(shndx) # "unspec"

\* The map that a symbol stands for.
FindMap(sym) ==
  LET type == MapType(sym.shndx) IN
  SelectInSeq(Maps, LAMBDA m : m.type = type /\ (type # "unspec" \/ (m.sec = sym.shndx /\ m.off = sym.value)))

\* What reloc_desc may hold for a relocation of an instruction; nothing if it is refused.  For
\* a 64-bit load of an address in .text it is left as malloc gave it.
Descs(insn, idx, sym) ==
  LET type == MapType(sym.shndx) IN
  IF sym.shndx < 0 \/ ~ Known(sym.shndx) THEN {}
  ELSE IF insn.op = "call"
  THEN IF insn.src # "pseudo_call" THEN {} ELSE {[type |-> "CALL", insn |-> idx, map |-> 0]}
  ELSE IF insn.op # "ld64" THEN {}
  ELSE IF ~ IsMaps(sym.shndx) /\ type = "unspec"
  THEN {[type |-> t, insn |-> 0, map |-> 1] : t \in {"none", "LD64", "DATA", "CALL"}}
  ELSE IF type # "unspec" /\ (sym.bind = "global" \/ ~ obj.global_data) THEN {}
  ELSE IF FindMap(sym) = 0 THEN {}
  ELSE {[type |-> IF type = "unspec" THEN "LD64" ELSE "DATA", insn |-> idx, map |-> FindMap(sym)]}

RelDescs(p, rel) == Descs(p.insns[rel.insn + 1], rel.insn, file.syms[rel.sym])

\* bpf_program__collect_reloc.
CollectReloc ==
  /\ phase = "collect"
  /\ LET s == file.secs[efile.reloc[n]]
         k == SelectInSeq(progs, LAMBDA p : p.idx = s.info)
         D == [i \in 1 .. Len(s.rels) |-> RelDescs(progs[k], s.rels[i])] IN
     IF k = 0 \/ \E i \in 1 .. Len(s.rels) : D[i] = {}
     THEN Fail /\ UNCHANGED progs
     ELSE /\ \E desc \in {f \in [1 .. Len(s.rels) -> UNION {D[i] : i \in 1 .. Len(s.rels)}] :
                            \A i \in 1 .. Len(s.rels) : f[i] \in D[i]} :
               progs' = [progs EXCEPT ![k].reloc = desc]
          /\ Step("relocate", Len(efile.reloc)) /\ UNCHANGED <<r, err>>
  /\ UNCHANGED <<obj, efile>>

-----------------------------------------------------------------------------
(* bpf_object__relocate *)

\* btf_ext_reloc_info: the records of a section behind those already there, their offsets in
\* instructions and moved by cnt; `missing' stands for -ENOENT.
missing == <<[off |-> -1, of |-> <<0, 0>>]>>
reloc_info(recs, sec, cnt, info) ==
  IF sec \notin DOMAIN recs THEN missing
  ELSE info \o [i \in 1 .. Len(recs[sec]) |->
                 [off |-> recs[sec][i].off \div InsnSize + cnt, of |-> recs[sec][i].of]]

\* bpf_program_reloc_btf_ext and check_btf_ext_reloc_err.  A program without func_info does
\* without line_info, too; what its .text lacks is an error only if the program itself has it.
BtfExt(p, sec, cnt) ==
  LET F == IF cnt = 0 \/ p.func # <<>> THEN reloc_info(file.func, sec, cnt, p.func) ELSE p.func
      K == IF cnt = 0 \/ p.line # <<>> THEN reloc_info(file.line, sec, cnt, p.line) ELSE p.line
      Without(q, info) == IF info # <<>> THEN [ok |-> FALSE, prog |-> q] ELSE [ok |-> TRUE, prog |-> q] IN
  IF F = missing THEN Without(p, p.func)
  ELSE IF K = missing THEN Without([p EXCEPT !.func = F], p.line)
  ELSE [ok |-> TRUE, prog |-> [p EXCEPT !.func = F, !.line = K]]

Relocated == IF n < Len(progs) THEN phase' = phase /\ n' = n + 1 /\ r' = 0
             ELSE phase' = "done" /\ n' = 1 /\ r' = 0
NextReloc == IF r < Len(progs[n].reloc) THEN r' = r + 1 /\ UNCHANGED <<phase, n>> ELSE Relocated

\* The start of bpf_program__relocate: records that are missing here are done without.
RelocateExt ==
  /\ phase = "relocate" /\ r = 0
  /\ progs' = [progs EXCEPT ![n] = BtfExt(progs[n], progs[n].section_name, 0).prog]
  /\ NextReloc /\ UNCHANGED <<obj, efile, err>>

\* A load of the address of a map, or of a place in a section of data.
LoadMap(p, d) ==
  LET i == d.insn + 1
      fd == Maps[d.map].fd IN
  IF i + 1 > Len(p.insns) THEN [ok |-> FALSE, prog |-> p]
  ELSE [ok |-> TRUE, prog |->
         IF d.type = "LD64" THEN [p EXCEPT !.insns[i].src = "map_fd", !.insns[i].imm = fd]
         ELSE [p EXCEPT !.insns[i].src = "map_value", !.insns[i + 1].imm = p.insns[i].imm,
                        !.insns[i].imm = fd]]

\* bpf_program__reloc_text: .text is put behind the program once, and the call made to reach it.
Distance(p, i) == p.insns[i].imm + p.main_prog_cnt - (i - 1)

BugAppendAgain(p, text) ==
  LET d == BtfExt(p, text.section_name, Len(p.insns)) IN
  [ok |-> d.ok, prog |-> [d.prog EXCEPT !.insns = @ \o text.insns, !.main_prog_cnt = Len(p.insns)]]
AppendText(p, text) ==
  IF p.main_prog_cnt # 0 THEN [ok |-> TRUE, prog |-> p]
  ELSE LET d == BtfExt(p, text.section_name, Len(p.insns)) IN
       [ok |-> d.ok, prog |-> [d.prog EXCEPT !.insns = @ \o text.insns, !.main_prog_cnt = Len(p.insns)]]

CallText(p, d) ==
  LET k == SelectInSeq(progs, LAMBDA q : q.idx = efile.text)
      a == AppendText(p, progs[k]) IN
  IF p.idx = efile.text \/ k = 0 THEN [ok |-> FALSE, prog |-> p]
  ELSE [a EXCEPT !.prog.insns[d.insn + 1].imm = Distance(a.prog, d.insn + 1)]

\* One relocation of bpf_program__relocate.
Relocate ==
  /\ phase = "relocate" /\ r > 0
  /\ LET p == progs[n]
         d == p.reloc[r]
         a == CASE d.type \in {"LD64", "DATA"} -> LoadMap(p, d)
                [] d.type = "CALL" -> CallText(p, d)
                [] OTHER -> [ok |-> TRUE, prog |-> p] IN
     /\ progs' = [progs EXCEPT ![n] = a.prog]
     /\ IF a.ok THEN NextReloc /\ UNCHANGED err ELSE Fail
  /\ UNCHANGED <<obj, efile>>

\* realloc or malloc fails.
OutOfMemory ==
  /\ NoMemory /\ phase \in {"sections", "names", "collect", "relocate"}
  /\ Fail /\ UNCHANGED <<obj, efile, progs>>

Next == Section \/ Names \/ CollectReloc \/ RelocateExt \/ Relocate \/ OutOfMemory
Spec == Init /\ [][Next]_vars

-----------------------------------------------------------------------------
(* Properties *)

TypeOK ==
  /\ phase \in {"sections", "names", "collect", "relocate", "done", "failed"}
  /\ n \in Nat \ {0} /\ r \in Nat /\ err \in {0, 1}
  /\ \A k \in 1 .. Len(progs) : \A i \in 1 .. Len(progs[k].insns) : progs[k].insns[i] \in Insn

\* What the compiler recorded for an instruction: the symbol it refers to, none if there is no
\* relocation for it.
RelsAt(at) == UNION {{q \in ToSet(file.secs[s].rels) : q.insn = at[2]} :
                       s \in {t \in 1 .. Len(file.secs) : file.secs[t].type = "rel" /\ file.secs[t].info = at[1]}}
SymAt(at) == file.syms[(CHOOSE q \in RelsAt(at) : TRUE).sym]

Finished == {k \in 1 .. Len(progs) : phase = "done" \/ (phase = "relocate" /\ k < n)}

\* In a relocated program, the copy of .text included, every load of a map's address has the
\* descriptor of the map its symbol names, and every load of a variable the descriptor of the map
\* of its section and the offset the compiler gave.
LoadsRight ==
  \A k \in Finished : \A i \in 1 .. Len(progs[k].insns) :
    LET insn == progs[k].insns[i] IN
    insn.op = "ld64" /\ RelsAt(insn.at) # {} =>
      LET sym == SymAt(insn.at)
          was == file.secs[insn.at[1]].insns[insn.at[2] + 1].imm IN
      \E m \in ToSet(Maps) :
        /\ insn.imm = m.fd /\ m.sec = sym.shndx
        /\ \/ insn.src = "map_fd" /\ m.type = "unspec" /\ m.off = sym.value
           \/ insn.src = "map_value" /\ m.type # "unspec" /\ progs[k].insns[i + 1].imm = was

\* A call arrives at the instruction of .text that the compiler meant, and .text is there once.
CallsArrive ==
  \A k \in Finished : \A i \in 1 .. Len(progs[k].insns) :
    LET insn == progs[k].insns[i] IN
    insn.op = "call" /\ RelsAt(insn.at) # {} =>
      LET target == i + 1 + insn.imm
          was == file.secs[insn.at[1]].insns[insn.at[2] + 1].imm IN
      /\ target \in 1 .. Len(progs[k].insns)
      /\ progs[k].insns[target].at = <<efile.text, was + 1>>
      /\ Cardinality({progs[k].insns[j].at : j \in 1 .. Len(progs[k].insns)}) = Len(progs[k].insns)

\* The func_info and line_info that the kernel is given for a program lie at the instructions
\* they were made for, in increasing order, and cover .text whenever they cover the program.
RecordsFollow ==
  \A k \in Finished : \A info \in {progs[k].func, progs[k].line} :
    /\ \A i \in 1 .. Len(info) :
         /\ info[i].off < Len(progs[k].insns)
         /\ progs[k].insns[info[i].off + 1].at = info[i].of
         /\ i > 1 => info[i - 1].off < info[i].off
    /\ info # <<>> /\ progs[k].main_prog_cnt # 0 =>
         \E i \in 1 .. Len(info) : info[i].of[1] = efile.text

\* "Program contains unrecognized relo data" is an error: a relocation that libbpf has no
\* description for is refused, and the kernel is not given the instruction as it was compiled.
RelocsKnown ==
  phase = "done" =>
    \A k \in 1 .. Len(progs) : \A i \in 1 .. Len(progs[k].insns) :
      progs[k].insns[i].op = "ld64" /\ RelsAt(progs[k].insns[i].at) # {} =>
        progs[k].insns[i].src \in {"map_fd", "map_value"}
=============================================================================

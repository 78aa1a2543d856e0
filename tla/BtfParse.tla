------------------------------ MODULE BtfParse ------------------------------
(***************************************************************************)
(* Reading type information: btf__new over the bytes of a section,         *)
(* btf_ext__new over those of .BTF.ext, btf__parse_elf that finds both in  *)
(* a file, btf__get_from_id that asks the kernel, btf__load and btf__free. *)
(*                                                                         *)
(* A section is its header, the number of bytes after the header (body),   *)
(* whether the strings begin and end with a NUL (terminated), and its      *)
(* types as kind and vlen.  A part of .BTF.ext is its place (off, len),    *)
(* the record size it begins with and the num_info of its blocks (nums).   *)
(***************************************************************************)
EXTENDS Integers, Sequences, FiniteSets, SequencesExt

CONSTANTS
  Sections,       \* contents that a .BTF section may have
  Exts,           \* contents that a .BTF.ext section may have
  Files,          \* ELF files: whether libelf can read them, and the order of their sections
  FirstBuffer,    \* the 4096 bytes that btf__get_from_id begins with
  Step,           \* the 16 entries that btf->types grows by at first
  BTF_MAX_NR_TYPES,
  NoMemory        \* whether an allocation may fail

BtfParseAssumption ==
  /\ Step \in Nat /\ Step >= 2 /\ BTF_MAX_NR_TYPES \in Nat /\ BTF_MAX_NR_TYPES >= Step
  /\ FirstBuffer \in Nat /\ NoMemory \in BOOLEAN

VARIABLES
  call,           \* what was called: "none", "new", "elf", "elf_ext" or "id"
  at,             \* where the call is
  section, ext,   \* contents being read
  live,           \* memory and descriptors held
  types,          \* btf->types[0 .. nr_types], as positions in the section; 0 is btf_void
  types_size,
  next_type,      \* as an offset into the body
  buffer,         \* size of the buffer of btf__get_from_id
  info,           \* parts of .BTF.ext that are set up
  fds,            \* BTF descriptors that btf__load got
  ret             \* 0, or the error returned

vars == <<call, at, section, ext, live, types, types_size, next_type, buffer, info, fds, ret>>

NoSection == [magic |-> FALSE]
HdrLen == 24     \* sizeof(struct btf_header)
Parts == <<"func", "line", "reloc">>
nr_types == Len(types) - 1

Init ==
  /\ call = "none" /\ at = "idle" /\ section = NoSection /\ ext = NoSection
  /\ live = {} /\ types = <<>> /\ types_size = 0 /\ next_type = 0 /\ buffer = 0
  /\ info = {} /\ fds = 0 /\ ret = "0"

Return(e, held) == /\ at' = "done" /\ ret' = e /\ live' = held

-----------------------------------------------------------------------------
(* The header, the strings and the types of .BTF *)

\* btf_parse_hdr, after its test that there is a header.
Aligned(s) == (s.type_off \div 2) % 2 = 0
HdrError(s) ==
  IF ~ s.magic THEN "EINVAL"
  ELSE IF s.version # 1 \/ s.flags # 0 THEN "ENOTSUP"
  ELSE IF \/ s.body = 0 \/ s.body < s.type_off \/ s.body < s.str_off
          \/ s.type_off >= s.str_off \/ ~ Aligned(s) THEN "EINVAL"
  ELSE "0"

\* btf_parse_str_sec.  (Strings of more than 2 GB, which it also refuses, are beyond the inputs.)
StrError(s) == IF s.str_len = 0 \/ ~ s.terminated THEN "EINVAL" ELSE "0"

\* btf_type_size, -1 for a kind that this library does not know.
TypeSize(t) ==
  12 + CASE t.kind \in {"fwd", "const", "ptr", "typedef", "func"} -> 0
         [] t.kind \in {"int", "var"} -> 4
         [] t.kind \in {"enum", "func_proto"} -> 8 * t.vlen
         [] t.kind = "array" -> 12
         [] t.kind \in {"struct", "union", "datasec"} -> 12 * t.vlen
         [] OTHER -> -13

\* btf_add_type: the size of btf->types with room for one more.
BugRoom(size, nr) == IF size - nr >= 1 THEN size ELSE size + Step
Larger(a, b) == IF a > b THEN a ELSE b
Smaller(a, b) == IF a < b THEN a ELSE b
Room(size, nr) ==
  IF size - nr >= 2 THEN size
  ELSE Smaller(BTF_MAX_NR_TYPES, size + Larger(size \div 4, Step))

\* btf__free of a btf that was never loaded.
BtfFree(held) == held \ {"btf", "data", "types"}

\* Where btf__new fails, and what its caller frees on the way out.
Fail(e) == Return(e, BtfFree(live) \ {"elf", "fd", "buffer", "btf_fd"})

\* btf__new: the memory, the header and the strings.
NewHeader ==
  /\ at = "new"
  /\ LET e == IF HdrError(section) # "0" THEN HdrError(section) ELSE StrError(section) IN
     \/ /\ NoMemory /\ Fail("ENOMEM") /\ UNCHANGED next_type
     \/ /\ e # "0" /\ Fail(e) /\ UNCHANGED next_type
     \/ /\ e = "0" /\ at' = "types" /\ live' = live \cup {"btf", "data"}
        /\ next_type' = section.type_off /\ UNCHANGED ret
  /\ types' = <<0>> /\ types_size' = 0
  /\ UNCHANGED <<call, section, ext, buffer, info, fds>>

\* btf_parse_type_sec, one type.  The section's own order is the numbering of its types.
ParseType ==
  /\ at = "types" /\ next_type < section.str_off
  /\ LET n == nr_types + 1
         size == TypeSize(section.types[n])
         full == types_size - nr_types < 2 IN
     \/ /\ \/ size < 0 /\ Fail("EINVAL")
           \/ size >= 0 /\ full /\ types_size = BTF_MAX_NR_TYPES /\ Fail("E2BIG")
           \/ size >= 0 /\ full /\ types_size < BTF_MAX_NR_TYPES /\ NoMemory /\ Fail("ENOMEM")
        /\ UNCHANGED <<types, types_size, next_type>>
     \/ /\ size >= 0 /\ (full => types_size < BTF_MAX_NR_TYPES)
        /\ types_size' = Room(types_size, nr_types) /\ types' = Append(types, n)
        /\ next_type' = next_type + size
        /\ live' = live \cup {"types"} /\ UNCHANGED <<at, ret>>
  /\ UNCHANGED <<call, section, ext, buffer, info, fds>>

\* The end of btf__new: what the caller does with the btf.
TypesDone ==
  /\ at = "types" /\ next_type >= section.str_off
  /\ IF call = "elf_ext" /\ ext # NoSection THEN at' = "ext" /\ UNCHANGED <<live, ret>>
     ELSE Return("0", live \ {"elf", "fd", "buffer", "btf_fd"})
  /\ UNCHANGED <<call, section, ext, types, types_size, next_type, buffer, info, fds>>

-----------------------------------------------------------------------------
(* .BTF.ext *)

\* btf_ext_parse_hdr; 8 bytes of the header are those up to hdr_len.
ExtHdrError(x) ==
  IF x.size < 8 \/ x.size < x.hdr_len \/ ~ x.magic THEN "EINVAL"
  ELSE IF x.version # 1 \/ x.flags # 0 THEN "ENOTSUP"
  ELSE IF x.size = x.hdr_len THEN "EINVAL" ELSE "0"

MinRec == [p \in ToSet(Parts) |-> IF p = "func" THEN 8 ELSE 16]

\* What is left of a part after its first k blocks: its record size takes 4 bytes, each
\* block has a header of 8.
Left(p, k) == p.len - 4 - FoldSeq(LAMBDA n, acc : acc + 8 + n * p.rec, 0, SubSeq(p.nums, 1, k))

\* The loop of btf_ext_setup_info.
BlocksFit(p) ==
  /\ p.len > 4
  /\ \E k \in 1 .. Len(p.nums) :
       /\ Left(p, k) = 0
       /\ \A j \in 1 .. k : Left(p, j - 1) >= 8 /\ p.nums[j] > 0 /\ Left(p, j) >= 0

\* btf_ext_setup_info.
SetupError(name) ==
  LET p == ext.parts[name] IN
  IF p.len = 0 THEN "0"
  ELSE IF \/ p.off % 4 # 0 \/ ext.size < ext.hdr_len + p.off + p.len \/ p.len < 4
          \/ p.rec < MinRec[name] \/ p.rec % 4 # 0 \/ ~ BlocksFit(p) THEN "EINVAL"
  ELSE "0"

\* The parts that a header of this length says something of, as btf_ext__new asks.
PartsOf(x) == SubSeq(Parts, 1, IF x.hdr_len < 24 THEN 0 ELSE IF x.hdr_len < 32 THEN 2 ELSE 3)

BtfExtNewError ==
  IF ExtHdrError(ext) # "0" THEN ExtHdrError(ext)
  ELSE IF \E p \in ToSet(PartsOf(ext)) : SetupError(p) # "0" THEN "EINVAL" ELSE "0"

\* btf_ext__new under btf__parse_elf.  Only when it succeeds does *btf_ext hold something.
ElfExtFails(e) == Return(e, BtfFree(live) \ {"elf", "fd"})
NewExt ==
  /\ at = "ext"
  /\ \/ /\ NoMemory /\ ElfExtFails("ENOMEM") /\ UNCHANGED info
     \/ /\ BtfExtNewError # "0" /\ ElfExtFails(BtfExtNewError) /\ UNCHANGED info
     \/ /\ BtfExtNewError = "0"
        /\ Return("0", (live \cup {"ext", "ext_data"}) \ {"elf", "fd"})
        /\ info' = {p \in ToSet(PartsOf(ext)) : ext.parts[p].len > 0}
  /\ UNCHANGED <<call, section, ext, types, types_size, next_type, buffer, fds>>

-----------------------------------------------------------------------------
(* Where the bytes come from *)

CallNew ==
  /\ at = "idle" /\ call' = "new" /\ at' = "new" /\ section' \in Sections
  /\ UNCHANGED <<ext, live, types, types_size, next_type, buffer, info, fds, ret>>

\* btf__parse_elf, to the end of its walk over the sections of the file.  The last of several
\* sections of a name is the one that is used.
CallElf ==
  /\ at = "idle" /\ call' \in {"elf", "elf_ext"}
  /\ \E f \in Files, s \in Sections, x \in Exts :
       IF ~ f.elf \/ ".BTF" \notin ToSet(f.names)
          THEN Return(IF f.elf THEN "ENOENT" ELSE "FORMAT", live) /\ UNCHANGED <<section, ext>>
          ELSE /\ at' = "new" /\ section' = s /\ live' = live \cup {"elf", "fd"} /\ UNCHANGED ret
               /\ ext' = IF call' = "elf_ext" /\ ".BTF.ext" \in ToSet(f.names) THEN x ELSE NoSection
  /\ UNCHANGED <<types, types_size, next_type, buffer, info, fds>>

\* btf__get_from_id: a descriptor, a buffer, and the question to the kernel, which fills what
\* fits and tells the size that there is.
CallId ==
  /\ at = "idle" /\ call' = "id"
  /\ \/ Return("0", live) /\ UNCHANGED <<section, buffer>>          \* there is no such id
     \/ NoMemory /\ Return("ENOMEM", live) /\ UNCHANGED <<section, buffer>>
     \/ /\ section' \in Sections /\ at' = "ask" /\ buffer' = FirstBuffer
        /\ live' = live \cup {"btf_fd", "buffer"} /\ UNCHANGED ret
  /\ UNCHANGED <<ext, types, types_size, next_type, info, fds>>

AskAgain(size) == size > buffer
Ask ==
  /\ at = "ask"
  /\ IF AskAgain(HdrLen + section.body) THEN buffer' = HdrLen + section.body /\ UNCHANGED at
     ELSE at' = "new" /\ UNCHANGED buffer
  /\ UNCHANGED <<call, section, ext, live, types, types_size, next_type, info, fds, ret>>

AskFails ==
  /\ at = "ask"
  /\ \/ Fail("errno")
     \/ NoMemory /\ AskAgain(HdrLen + section.body) /\ Fail("ENOMEM")
  /\ UNCHANGED <<call, section, ext, types, types_size, next_type, buffer, info, fds>>

-----------------------------------------------------------------------------
(* The btf in its owner's hands *)

\* btf__load.
Loaded == fds > 0
btf__load ==
  /\ at = "done" /\ "btf" \in live /\ fds < 2
  /\ \/ Loaded /\ ret' = "EEXIST" /\ UNCHANGED fds
     \/ ~ Loaded /\ ret' = "errno" /\ UNCHANGED fds
     \/ ~ Loaded /\ ret' = "0" /\ fds' = fds + 1
  /\ UNCHANGED <<call, at, section, ext, live, types, types_size, next_type, buffer, info>>

\* btf__free and btf_ext__free.
Free ==
  /\ at = "done" /\ "btf" \in live /\ at' = "gone"
  /\ live' = BtfFree(live) \ {"ext", "ext_data"} /\ fds' = IF fds > 0 THEN fds - 1 ELSE 0
  /\ UNCHANGED <<call, section, ext, types, types_size, next_type, buffer, info, ret>>

Working == Ask \/ NewHeader \/ ParseType \/ TypesDone \/ NewExt
Next == CallNew \/ CallElf \/ CallId \/ Working \/ AskFails \/ btf__load \/ Free

Spec == Init /\ [][Next]_vars /\ WF_vars(Working)

-----------------------------------------------------------------------------
(* Properties *)

TypeOK ==
  /\ call \in {"none", "new", "elf", "elf_ext", "id"}
  /\ at \in {"idle", "ask", "new", "types", "ext", "done", "gone"}
  /\ live \subseteq {"btf", "data", "types", "ext", "ext_data", "elf", "fd", "buffer", "btf_fd"}
  /\ types_size \in 0 .. BTF_MAX_NR_TYPES /\ next_type \in Nat /\ buffer \in Nat
  /\ info \subseteq ToSet(Parts) /\ fds \in 0 .. 2
  /\ ret \in {"0", "EINVAL", "ENOTSUP", "ENOMEM", "E2BIG", "ENOENT", "FORMAT", "errno"}
            \cup {"EEXIST"}

\* btf->types is written up to the entry nr_types, one more than the types counted because
\* the first is void: however it grows, that entry is within it (btf_add_type).
NoOverrun == nr_types > 0 => nr_types < types_size

\* A call that fails leaves no memory and no descriptor behind, and neither does a btf that
\* was freed; one that succeeds leaves the btf and what was asked for with it.
NothingLeaks ==
  /\ at = "gone" => live = {} /\ fds = 0
  /\ at = "done" => \/ live = {}
                    \/ /\ live \cap {"elf", "fd", "buffer", "btf_fd"} = {}
                       /\ {"btf", "data", "types"} \subseteq live
                       /\ ("ext" \in live) = (call = "elf_ext" /\ ext # NoSection)

\* The types of a btf are those of its section, all of them and in their order, wherever the
\* bytes came from: those of a section that was cut short are never parsed.
TypesWhole ==
  at = "done" /\ "btf" \in live =>
    /\ types = [n \in 1 .. Len(section.types) + 1 |-> n - 1]
    /\ call = "id" => buffer >= HdrLen + section.body

\* What later walks over func_info, line_info and relocations rely on: the blocks of a part
\* that was set up, one after the other, end where the part ends.
Block(p, k) == 8 + p.nums[k] * p.rec
RECURSIVE EndsAt(_, _, _)
EndsAt(p, k, pos) ==
  \/ pos = p.len
  \/ pos < p.len /\ k <= Len(p.nums) /\ p.nums[k] > 0 /\ EndsAt(p, k + 1, pos + Block(p, k))
BlocksEnd == \A name \in info : EndsAt(ext.parts[name], 1, 4)

\* Every call comes back: the walk over the types moves forward, and the kernel is asked for
\* the bytes of an id at most twice (btf_parse_type_sec, btf__get_from_id).
Returns == (at = "ask" \/ at = "types") ~> at = "done"

\* btf_parse_hdr says of the section it refuses that it "is not aligned to 4 bytes"; what it
\* tests is one bit of the offset, so that odd offsets pass.
AlignedTypes == at = "done" /\ "btf" \in live => section.type_off % 4 = 0
=============================================================================

------------------------------ MODULE CoreReloc ------------------------------
(***************************************************************************)
(* CO-RE relocations: the accesses to fields that a program was compiled   *)
(* with, found again in the types of the running kernel, and the numbers   *)
(* in its instructions rewritten (bpf_core_reloc_fields).                  *)
(*                                                                         *)
(* A type is its kind, name, size, the type it refers to, nelems, members  *)
(* (name, type, bit offset, and bits when it is a bit field) and whether   *)
(* an integer is signed; 0 is void.  Names of types are sequences of       *)
(* characters, for the flavours; an access string is a sequence of         *)
(* indices.  A relocation names its type, access, kind and instruction, and *)
(* whether the program of its section was found.                           *)
(***************************************************************************)
EXTENDS Integers, Sequences, FiniteSets, SequencesExt

CONSTANTS
  Worlds,         \* local and target types, relocations, instructions, places of kernel BTF
  Relaxed,        \* values of relaxed_core_relocs
  MAX_LEN,        \* BPF_CORE_SPEC_MAX_LEN
  NoMemory

CoreRelocAssumption == MAX_LEN \in Nat \ {0} /\ Relaxed \subseteq BOOLEAN /\ NoMemory \in BOOLEAN

VARIABLES
  world, relaxed,
  at,
  loc,            \* the place of kernel BTF looked at
  r,              \* the relocation
  i, j,           \* the candidate it is at, and how many matched
  cache,          \* cand_cache: ids and length, by local type
  targ,           \* targ_spec
  before,         \* the candidates when this relocation began
  imm,            \* the immediates of the instructions
  log,            \* what each relocation saw and wrote
  ret

vars == <<world, relaxed, at, loc, r, i, j, cache, targ, before, imm, log, ret>>

Local == world.local
Target == world.target
Relo == world.relos[r]
FAILED == -1                    \* (__u32)-1
NoSpec == [acc |-> <<>>, raw |-> <<>>, off |-> -1]
EmptySpec == [acc |-> <<>>, raw |-> <<>>, off |-> 0]

Init ==
  /\ world \in Worlds /\ relaxed \in Relaxed
  /\ at = "kernel_btf" /\ loc = 1 /\ r = 1 /\ i = 1 /\ j = 0 /\ cache = <<>> /\ targ = NoSpec
  /\ before = <<>> /\ imm = world.imm /\ log = <<>> /\ ret = "0"

Fail(e) == at' = "failed" /\ ret' = e

-----------------------------------------------------------------------------
(* Types *)

Void == [kind |-> "void", name |-> <<>>, size |-> 0, type |-> 0, nelems |-> 0, members |-> <<>>, signed |-> FALSE]
Type(T, id) == IF id = 0 THEN Void ELSE T[id]
Composite == {"struct", "union"}

RECURSIVE Skip(_, _)
Skip(T, id) == IF Type(T, id).kind \in {"const", "typedef"} THEN Skip(T, T[id].type) ELSE id

RECURSIVE Size(_, _)
Size(T, id) ==
  LET t == Type(T, id) IN
  IF t.kind \in {"void", "fwd"} THEN -1
  ELSE IF t.kind \in {"const", "typedef"} THEN Size(T, t.type)
  ELSE IF t.kind = "array" THEN t.nelems * Size(T, t.type) ELSE t.size

\* bpf_core_is_flavor_sep and bpf_core_essential_name_len.
Sep(name, k) ==
  /\ name[k] # "_" /\ name[k + 1] = "_" /\ name[k + 2] = "_" /\ name[k + 3] = "_" /\ name[k + 4] # "_"
EssentialLen(name) ==
  LET seps == {k \in 1 .. Len(name) - 4 : Sep(name, k)} IN
  IF seps = {} THEN Len(name) ELSE CHOOSE k \in seps : \A l \in seps : l <= k
Essential(name) == SubSeq(name, 1, EssentialLen(name))

\* bpf_core_find_cands.  (The list is given room for len + 1 bytes, not ids, libbpf.c 2691: where
\* malloc's smallest block is 24 bytes, as in glibc, it holds the six first candidates; the
\* inputs have fewer, and what a seventh overwrites is not modelled.)
Cands(id) ==
  SelectSeq([n \in 1 .. Len(Target) |-> n],
            LAMBDA n : Target[n].name # <<>> /\ Essential(Target[n].name) = Essential(Local[id].name))

-----------------------------------------------------------------------------
(* bpf_core_spec_parse: the accesses, by name where they have one *)

Acc(id, idx, name) == [type_id |-> id, idx |-> idx, name |-> name]

RECURSIVE ParseFrom(_, _, _, _)
ParseFrom(raw, k, id, spec) ==
  LET sid == Skip(Local, id)
      t == Type(Local, sid) IN
  IF k > Len(raw) THEN spec
  ELSE IF t.kind \in Composite /\ raw[k] < Len(t.members)
  THEN LET m == t.members[raw[k] + 1] IN
       ParseFrom(raw, k + 1, m.type,
                 [spec EXCEPT !.off = @ + m.off,
                              !.acc = IF m.name = "" THEN @ ELSE Append(@, Acc(sid, raw[k], m.name))])
  ELSE IF t.kind = "array" /\ raw[k] < t.nelems /\ Size(Local, Skip(Local, t.type)) >= 0
  THEN LET e == Skip(Local, t.type) IN
       ParseFrom(raw, k + 1, e, [spec EXCEPT !.off = @ + raw[k] * Size(Local, e) * 8,
                                             !.acc = Append(@, Acc(e, raw[k], ""))])
  ELSE NoSpec

\* The first number is an index into an array of the type itself.
Parse(id, raw) ==
  LET sid == Skip(Local, id) IN
  IF raw = <<>> \/ Len(raw) > MAX_LEN THEN NoSpec
  ELSE IF Size(Local, sid) < 0 THEN NoSpec
  ELSE ParseFrom(raw, 2, sid, [acc |-> <<Acc(sid, raw[1], "")>>, raw |-> raw,
                               off |-> raw[1] * Size(Local, sid) * 8])

-----------------------------------------------------------------------------
(* Matching with a candidate *)

\* bpf_core_fields_are_compat.
RECURSIVE Compat(_, _)
Compat(lid, tid) ==
  LET l == Type(Local, Skip(Local, lid))
      t == Type(Target, Skip(Target, tid)) IN
  IF l.kind \in Composite /\ t.kind \in Composite THEN TRUE
  ELSE IF l.kind # t.kind THEN FALSE
  ELSE CASE l.kind = "ptr" -> TRUE
         [] l.kind = "int" -> l.int_off = 0 /\ t.int_off = 0
         [] l.kind \in {"fwd", "enum"} -> \/ l.name = <<>> \/ t.name = <<>>
                                          \/ Essential(l.name) = Essential(t.name)
         [] l.kind = "array" -> Compat(l.type, t.type)
         [] OTHER -> FALSE

\* The member that an accessor stands for, in the local type.
LocalMember(a) == Local[a.type_id].members[a.idx + 1]

\* "member turned out not to be what we looked for".
Back(spec, m) == [spec EXCEPT !.off = @ - m.off, !.raw = SubSeq(@, 1, Len(@) - 1)]

\* bpf_core_match_member, from member k on; through members without a name.
RECURSIVE MatchMember(_, _, _, _)
MatchMember(a, id, k, spec) ==
  LET tid == Skip(Target, id)
      t == Type(Target, tid) IN
  IF t.kind \notin Composite \/ k > Len(t.members) THEN [res |-> 0, spec |-> spec, next |-> 0]
  ELSE IF Len(spec.raw) = MAX_LEN THEN [res |-> -7, spec |-> spec, next |-> 0]
  ELSE LET m == t.members[k]
           s == [spec EXCEPT !.off = @ + m.off, !.raw = Append(@, k - 1)] IN
       IF m.name = ""
       THEN LET deeper == MatchMember(a, m.type, 1, s) IN
            IF deeper.res # 0 THEN deeper ELSE MatchMember(a, tid, k + 1, Back(deeper.spec, m))
       ELSE IF m.name # LocalMember(a).name THEN MatchMember(a, tid, k + 1, Back(s, m))
       ELSE IF ~ Compat(LocalMember(a).type, m.type) THEN [res |-> 0, spec |-> s, next |-> 0]
       ELSE [res |-> 1, spec |-> [s EXCEPT !.acc = Append(@, Acc(tid, k - 1, m.name))], next |-> m.type]

\* bpf_core_spec_match, from accessor k on.
RECURSIVE MatchFrom(_, _, _, _)
MatchFrom(local, k, id, spec) ==
  LET tid == Skip(Target, id)
      t == Type(Target, tid)
      a == local.acc[k]
      elem == IF k = 1 THEN tid ELSE Skip(Target, t.type) IN
  IF k > Len(local.acc) THEN [res |-> 1, spec |-> spec]
  ELSE IF a.name # ""
  THEN LET m == MatchMember(a, tid, 1, spec) IN
       IF m.res # 1 THEN [res |-> m.res, spec |-> m.spec] ELSE MatchFrom(local, k + 1, m.next, m.spec)
  ELSE IF k > 1 /\ (t.kind # "array" \/ a.idx >= t.nelems) THEN [res |-> 0, spec |-> spec]
  ELSE IF Len(spec.raw) = MAX_LEN THEN [res |-> -7, spec |-> spec]
  ELSE IF Size(Target, elem) < 0 THEN [res |-> -22, spec |-> spec]
  ELSE MatchFrom(local, k + 1, elem,
                 [acc |-> Append(spec.acc, Acc(elem, a.idx, "")), raw |-> Append(spec.raw, a.idx),
                  off |-> spec.off + a.idx * Size(Target, elem) * 8])

-----------------------------------------------------------------------------
(* bpf_core_calc_field_relo: the number for a relocation *)

\* The smallest load, aligned to its size, that has all the bits: its bytes, or 0.
RECURSIVE Window(_, _, _)
Window(off, bits, bytes) ==
  LET start == ((off \div 8) \div bytes) * bytes IN
  IF off + bits - start * 8 <= bytes * 8 THEN bytes
  ELSE IF bytes >= 8 THEN 0 ELSE Window(off, bits, 2 * bytes)

Bad == [ok |-> FALSE, val |-> 0, validate |-> FALSE]
Val(v, validate) == [ok |-> TRUE, val |-> v, validate |-> validate]

\* A named field, seen through a window of `bytes' bytes from `start' on.
FieldValue(kind, t, off, bits, start, bytes, validate) ==
  CASE kind = "offset" -> Val(start, validate)
    [] kind = "size" -> Val(bytes, validate)
    [] kind = "signed" -> Val(IF t.kind = "enum" \/ t.signed THEN 1 ELSE 0, TRUE)
    [] kind = "lshift" -> Val(64 - (off + bits - start * 8), validate)
    [] kind = "rshift" -> Val(64 - bits, TRUE)
    [] OTHER -> Bad

Calc(T, spec, kind) ==
  LET a == Last(spec.acc)
      m == Type(T, a.type_id).members[a.idx + 1]
      t == Type(T, Skip(T, m.type))
      bytes == IF m.bits > 0 THEN Window(spec.off, m.bits, t.size) ELSE Size(T, m.type) IN
  IF a.name = ""
  THEN IF kind = "offset" THEN Val(spec.off \div 8, TRUE)
       ELSE IF kind = "size" THEN Val(Size(T, a.type_id), TRUE) ELSE Bad
  ELSE IF (m.bits > 0 /\ bytes = 0) \/ bytes < 0 THEN Bad
  ELSE IF m.bits > 0
  THEN FieldValue(kind, t, spec.off, m.bits, ((spec.off \div 8) \div bytes) * bytes, bytes, FALSE)
  ELSE FieldValue(kind, t, spec.off, bytes * 8, spec.off \div 8, bytes, TRUE)

-----------------------------------------------------------------------------
(* The relocations, one by one *)

\* bpf_core_find_kernel_btf: a place that cannot be read, or has no BTF, is passed over.
FindKernelBtf ==
  /\ at = "kernel_btf"
  /\ IF loc > Len(world.places) THEN Fail("ESRCH") /\ UNCHANGED loc
     ELSE IF world.places[loc] \in {"absent", "bad"} THEN loc' = loc + 1 /\ UNCHANGED <<at, ret>>
     ELSE at' = "relo" /\ UNCHANGED <<loc, ret>>
  /\ UNCHANGED <<world, relaxed, r, i, j, cache, targ, before, imm, log>>

\* The candidates found for an earlier relocation of the same type, less those it left out.
Cached == {k \in 1 .. Len(cache) : cache[k].type = Relo.type}
List == cache[CHOOSE k \in Cached : TRUE]

\* bpf_core_reloc_field, to its loop over the candidates.
StartReloc ==
  /\ at = "relo" /\ r <= Len(world.relos)
  /\ LET spec == Parse(Relo.type, Relo.access)
         ids == Cands(Relo.type) IN
     \/ /\ ~ Relo.prog \/ Type(Local, Relo.type).name = <<>> \/ spec = NoSpec
        /\ Fail("EINVAL") /\ UNCHANGED <<cache, before, i, j, targ>>
     \/ /\ NoMemory /\ Cached = {} /\ Relo.prog /\ Type(Local, Relo.type).name # <<>> /\ spec # NoSpec
        /\ Fail("ENOMEM") /\ UNCHANGED <<cache, before, i, j, targ>>
     \/ /\ Relo.prog /\ Type(Local, Relo.type).name # <<>> /\ spec # NoSpec
        /\ cache' = IF Cached # {} THEN cache
                    ELSE Append(cache, [type |-> Relo.type, data |-> ids, len |-> Len(ids)])
        /\ before' = IF Cached # {} THEN SubSeq(List.data, 1, List.len) ELSE ids
        /\ at' = "cand" /\ i' = 1 /\ j' = 0 /\ targ' = NoSpec /\ UNCHANGED ret
  /\ UNCHANGED <<world, relaxed, loc, r, imm, log>>

LocalSpec == Parse(Relo.type, Relo.access)
Update(list) == [k \in 1 .. Len(cache) |-> IF cache[k].type = Relo.type THEN list ELSE cache[k]]

Ambiguous(spec) == j > 0 /\ spec.off # targ.off

\* One candidate; the ones that match are moved to the front of the list, as the type that a
\* typedef stands for.
MatchCand ==
  /\ at = "cand" /\ i <= List.len
  /\ LET m == MatchFrom(LocalSpec, 1, List.data[i], EmptySpec) IN
     IF m.res < 0 THEN Fail(IF m.res = -7 THEN "E2BIG" ELSE "EINVAL") /\ UNCHANGED <<i, j, cache, targ>>
     ELSE IF m.res = 0 THEN i' = i + 1 /\ UNCHANGED <<at, ret, j, cache, targ>>
     ELSE IF Ambiguous(m.spec) THEN Fail("EINVAL") /\ UNCHANGED <<i, j, cache, targ>>
     ELSE /\ targ' = (IF j = 0 THEN m.spec ELSE targ)
          /\ cache' = Update([List EXCEPT !.data = [@ EXCEPT ![j + 1] = m.spec.acc[1].type_id]])
          /\ i' = i + 1 /\ j' = j + 1 /\ UNCHANGED <<at, ret>>
  /\ UNCHANGED <<world, relaxed, loc, r, before, imm, log>>

Pruned == IF j > 0 THEN [List EXCEPT !.len = j] ELSE List

\* The end of the loop.
CandsDone ==
  /\ at = "cand" /\ i > List.len
  /\ cache' = Update(Pruned)
  /\ IF j = 0 /\ ~ relaxed /\ Relo.kind # "exists" THEN Fail("ESRCH") ELSE at' = "patch" /\ UNCHANGED ret
  /\ UNCHANGED <<world, relaxed, loc, r, i, j, targ, before, imm, log>>

\* bpf_core_reloc_insn.
NewValue ==
  IF Relo.kind = "exists" THEN Val(IF j > 0 THEN 1 ELSE 0, TRUE)
  ELSE IF j = 0 THEN Val(FAILED, FALSE)
  ELSE IF ~ Calc(Local, LocalSpec, Relo.kind).ok THEN Bad ELSE Calc(Target, targ, Relo.kind)
Expected ==
  IF Relo.kind = "exists" THEN Val(1, TRUE)
  ELSE IF j = 0 THEN Val(0, FALSE) ELSE Calc(Local, LocalSpec, Relo.kind)

PatchInsn ==
  /\ at = "patch"
  /\ LET new == NewValue
         n == Relo.insn IN
     IF \/ ~ Relo.whole                                   \* insn_off within an instruction
        \/ ~ new.ok
        \/ ~ world.alu[n]
        \/ Expected.validate /\ imm[n] # Expected.val
     THEN Fail("EINVAL") /\ UNCHANGED <<r, imm, log>>
     ELSE /\ imm' = [imm EXCEPT ![n] = new.val] /\ log' = Append(log, [cands |-> before, val |-> new.val])
          /\ at' = "relo" /\ r' = r + 1 /\ UNCHANGED ret
  /\ UNCHANGED <<world, relaxed, loc, i, j, cache, targ, before>>

Next == FindKernelBtf \/ StartReloc \/ MatchCand \/ CandsDone \/ PatchInsn

Spec == Init /\ [][Next]_vars

-----------------------------------------------------------------------------
(* Properties *)

TypeOK ==
  /\ at \in {"kernel_btf", "relo", "cand", "patch", "failed"} /\ (at = "failed") = (ret # "0")
  /\ r \in 1 .. Len(world.relos) + 1 /\ Len(log) = r - 1
  /\ \A k \in 1 .. Len(cache) : cache[k].len \in 0 .. Len(cache[k].data)

\* The bit offsets at which a target type has the field that accessors name, by whatever path.
RECURSIVE Places(_, _)
Places(id, accs) ==
  LET t == Type(Target, Skip(Target, id)) IN
  IF accs = <<>> THEN {0}
  ELSE IF Head(accs).name # ""
  THEN IF t.kind \notin Composite THEN {}
       ELSE UNION {{m.off + o : o \in IF m.name = "" THEN Places(m.type, accs)
                                      ELSE IF m.name = Head(accs).name /\ Compat(LocalMember(Head(accs)).type, m.type)
                                      THEN Places(m.type, Tail(accs)) ELSE {}} : m \in ToSet(t.members)}
  ELSE IF t.kind = "array" /\ Head(accs).idx < t.nelems
  THEN {Head(accs).idx * 8 * Size(Target, t.type) + o : o \in Places(t.type, Tail(accs))} ELSE {}
PlacesIn(id, spec) == {spec.acc[1].idx * 8 * Size(Target, id) + o : o \in Places(id, Tail(spec.acc))}

SpecOf(k) == Parse(world.relos[k].type, world.relos[k].access)
IsBitfield(T, spec) ==
  Last(spec.acc).name # "" /\ Type(T, Last(spec.acc).type_id).members[Last(spec.acc).idx + 1].bits > 0

\* An offset written into an instruction is that of the field in the running kernel's type, and
\* the only one: whatever else goes by the same name has the field there too, or not at all.
OffsetRight ==
  \A k \in 1 .. Len(log) :
    world.relos[k].kind = "offset" /\ log[k].val # FAILED /\ ~ IsBitfield(Local, SpecOf(k)) =>
      /\ \E c \in ToSet(log[k].cands) : 8 * log[k].val \in PlacesIn(c, SpecOf(k))
      /\ \A c \in ToSet(log[k].cands) : PlacesIn(c, SpecOf(k)) \subseteq {8 * log[k].val}

\* A program is told that a field exists just when a candidate has it.
ExistsRight ==
  \A k \in 1 .. Len(log) :
    world.relos[k].kind = "exists" =>
      (log[k].val = 1) = (\E c \in ToSet(log[k].cands) : PlacesIn(c, SpecOf(k)) # {})

\* The candidates of a type are those with its name up to the flavour: all that share it at
\* first, and a relocation that none of them satisfies leaves them for the next one.
NoneEmptied == \A k \in 1 .. Len(cache) : cache[k].len > 0 => cache'[k].len > 0
CandidatesKept == [][NoneEmptied]_vars

\* A bit field is read with an aligned load that has all its bits, and the two shifts leave
\* just those.
BitsExtracted ==
  at = "patch" /\ j > 0 /\ IsBitfield(Target, targ) =>
    LET a == Last(targ.acc)
        bits == Target[a.type_id].members[a.idx + 1].bits
        V(kind) == Calc(Target, targ, kind)
        field == {targ.off - 8 * V("offset").val + q : q \in 0 .. bits - 1} IN
    V("offset").ok =>
      /\ V("size").val \in {1, 2, 4, 8} /\ V("offset").val % V("size").val = 0
      /\ {p \in 0 .. 8 * V("size").val - 1 : p + V("lshift").val \in V("rshift").val .. 63} = field
      /\ \A p \in field : p + V("lshift").val - V("rshift").val = p - (targ.off - 8 * V("offset").val)

\* No kernel BTF is reported only when none of the places has one.
KernelBtfFound ==
  at = "failed" /\ "good" \in ToSet(world.places) => loc <= Len(world.places) /\ world.places[loc] = "good"

\* "enums will be assumed unsigned": a relocation of a field's signedness writes 0 for an enum.
EnumsUnsigned ==
  \A k \in 1 .. Len(log) :
    world.relos[k].kind = "signed" /\ log[k].val # FAILED =>
      LET a == Last(SpecOf(k).acc) IN
      Type(Local, Skip(Local, LocalMember(a).type)).kind = "enum" => log[k].val = 0

\* "If there is any ambiguity, CO-RE relocation will fail": candidates that both have a field
\* have it of one size, when a size is written.
NoAmbiguity ==
  \A k \in 1 .. Len(log) :
    world.relos[k].kind = "size" /\ log[k].val # FAILED =>
      \A c \in ToSet(log[k].cands) :
        LET m == MatchFrom(SpecOf(k), 1, c, EmptySpec) IN
        m.res = 1 => Calc(Target, m.spec, "size").val = log[k].val
=============================================================================

------------------------------ MODULE BtfLayout ------------------------------
(***************************************************************************)
(* How btf_dump keeps the layout of a structure (btf_dump_emit_struct_def):*)
(* it is taken for packed or not, and gaps between the fields that the     *)
(* compiler would not leave are filled with unnamed bit fields.            *)
(*                                                                         *)
(* A field has the size of its type in bytes, which is also its alignment  *)
(* (integers of up to 8 bytes), the width of a bit field or 0, and in the  *)
(* original the alignment asked for by an attribute; BTF has its offset in *)
(* bits and not the attributes.                                            *)
(***************************************************************************)
EXTENDS Integers, Sequences, FiniteSets, FiniteSetsExt, SequencesExt

CONSTANT Structs        \* the original structures: their fields, and whether they are packed

VARIABLES
  src,          \* the structure
  k,            \* the next member
  off,          \* the end of what was written
  text,         \* the fields written, padding among them
  at

vars == <<src, k, off, text, at>>

RoundUp(n, m) == ((n + m - 1) \div m) * m

-----------------------------------------------------------------------------
(* The compiler's layout (external): offsets in bits, and the size *)

AlignOf(f, packed) == Max({f.attr, IF packed THEN 1 ELSE f.size})

\* Where a field goes that comes after bit n.
Place(f, packed, n) ==
  IF f.bits = 0 THEN RoundUp(n, 8 * AlignOf(f, packed))
  ELSE IF packed \/ (n % (8 * f.size)) + f.bits <= 8 * f.size THEN n ELSE RoundUp(n, 8 * f.size)
End(f, at_bit) == at_bit + IF f.bits = 0 THEN 8 * f.size ELSE f.bits

Offsets(fields, packed) ==
  LET o[i \in 0 .. Len(fields)] ==
        IF i = 0 THEN [at |-> 0, end |-> 0]
        ELSE LET p == Place(fields[i], packed, o[i - 1].end) IN [at |-> p, end |-> End(fields[i], p)] IN o

\* Unnamed bit fields do not count for the alignment of the structure.
SizeOf(fields, packed) ==
  LET named == {f \in ToSet(fields) : f.name}
      align == Max({1} \cup {IF f.bits = 0 THEN AlignOf(f, packed) ELSE IF packed THEN 1 ELSE f.size : f \in named}) IN
  RoundUp(Offsets(fields, packed)[Len(fields)].end, 8 * align)

\* BTF of the original.
BtfOff(i) == Offsets(src.fields, src.packed)[i].at
BtfSize == SizeOf(src.fields, src.packed) \div 8
N == Len(src.fields)
M(i) == src.fields[i]

-----------------------------------------------------------------------------
(* btf_dump *)

\* btf_align_of, of a field's type and of the structure.
Align(i) == Min({8, M(i).size})
StructAlign == Max({1} \cup {Align(i) : i \in 1 .. N})

\* btf_is_struct_packed.
Packed ==
  \/ BtfSize % StructAlign # 0
  \/ \E i \in 1 .. N : M(i).bits = 0 /\ BtfOff(i) % (8 * Align(i)) # 0

ChipAway(total, at_most) == IF total % at_most = 0 THEN at_most ELSE total % at_most
Unnamed(size, bits) == [size |-> size, bits |-> bits, attr |-> 1, name |-> FALSE]

RECURSIVE Fill(_)
Fill(diff) ==
  LET size == IF diff > 32 THEN 8 ELSE IF diff > 16 THEN 4 ELSE IF diff > 8 THEN 2 ELSE 1
      bits == ChipAway(diff, 8 * size) IN
  IF diff <= 0 THEN <<>> ELSE <<Unnamed(size, bits)>> \o Fill(diff - bits)

\* btf_dump_emit_bit_padding.
Padding(from, to, bits, align) ==
  IF to <= from \/ (bits = 0 /\ to - from < 8 * align) THEN <<>> ELSE Fill(to - from)

Init == src \in Structs /\ k = 1 /\ off = 0 /\ text = <<>> /\ at = "fields"

\* A member: what is missing before it, and the field, without its attributes.
Member ==
  /\ at = "fields" /\ k <= N
  /\ text' = text \o Padding(off, BtfOff(k), M(k).bits, IF Packed THEN 1 ELSE Align(k))
                  \o <<[M(k) EXCEPT !.attr = 1]>>
  /\ off' = BtfOff(k) + (IF M(k).bits # 0 THEN M(k).bits ELSE 8 * M(k).size)
  /\ k' = k + 1
  /\ UNCHANGED <<src, at>>

\* And at the end.
EndOfStruct ==
  /\ at = "fields" /\ k > N
  /\ text' = text \o Padding(off, 8 * BtfSize, 0, IF Packed THEN 1 ELSE StructAlign)
  /\ at' = "done"
  /\ UNCHANGED <<src, k, off>>

Next == Member \/ EndOfStruct

Spec == Init /\ [][Next]_vars

-----------------------------------------------------------------------------
(* Properties *)

\* The structure that is written is laid out by a compiler as the original was: every field at
\* its offset, and the same size.
LayoutKept ==
  at = "done" =>
    LET new == Offsets(text, Packed)
        named == SelectSeq([i \in 1 .. Len(text) |-> i], LAMBDA i : text[i].name) IN
    /\ SizeOf(text, Packed) = 8 * BtfSize
    /\ \A i \in 1 .. N : new[named[i]].at = BtfOff(i)
=============================================================================

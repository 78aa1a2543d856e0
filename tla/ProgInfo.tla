------------------------------ MODULE ProgInfo ------------------------------
(***************************************************************************)
(* bpf_program__get_prog_info_linear: the arrays that the kernel keeps of  *)
(* a program, asked for in two calls (first their sizes, then their        *)
(* contents) and laid out one after the other in one block of memory,      *)
(* which can be moved once its addresses are offsets.  The fields of       *)
(* bpf_prog_info are numbered in words of 32 bits.                         *)
(***************************************************************************)
EXTENDS Integers, Sequences, Functions

CONSTANTS
  Desc,         \* bpf_prog_info_array_desc: the fields of each array, in its order
  InfoSize,     \* sizeof(struct bpf_prog_info), in words
  InfoLens,     \* sizes of that struct in the kernels it may run on
  Counts,       \* elements an array may have
  RecSizes,     \* sizes of the records of an array whose size the kernel tells
  Bases         \* addresses a block may have

ProgInfoAssumption ==
  /\ \A k \in DOMAIN Desc : Desc[k] \in [array : Nat, count : Nat, size : Int]
  /\ InfoLens \subseteq 0 .. InfoSize /\ Counts \subseteq Nat /\ RecSizes \subseteq Nat \ {0} /\ Bases \subseteq Nat

Arrays == DOMAIN Desc
ToldSize(k) == Desc[k].size > 0

VARIABLES
  step,         \* "ask", "layout", "fill", "addr", "offs" or "error"
  info_len,     \* what the kernel knows of the struct
  real, rec,    \* the kernel's: elements of each array and sizes of their records
  arrays,       \* the arrays asked for that are included
  count, size,  \* info: what the first call told
  ptr,          \* info_linear->info: address, or offset, of each array
  base,         \* where info_linear->data is
  data_len,
  told,         \* info_linear->info: the count of each array
  written       \* history: the addresses the kernel wrote, by array

vars == <<step, info_len, real, rec, arrays, count, size, ptr, base, data_len, told, written>>

Zero == [k \in Arrays |-> 0]

Init ==
  /\ step = "ask" /\ info_len \in InfoLens
  /\ real \in [Arrays -> Counts] /\ rec \in [Arrays -> RecSizes]
  /\ arrays \in SUBSET Arrays
  /\ count = Zero /\ size = Zero /\ ptr = Zero /\ told = Zero
  /\ base = 0 /\ data_len = 0 /\ written = [k \in Arrays |-> {}]

Known(field) == field < info_len
Fields(k) == {Desc[k].array, Desc[k].count} \cup (IF ToldSize(k) THEN {Desc[k].size} ELSE {})

\* The first call: the counts and sizes of the fields the kernel knows, 0 for the others.
Ask ==
  /\ step = "ask"
  /\ \/ step' = "error" /\ UNCHANGED <<count, size>>
     \/ /\ step' = "layout"
        /\ count' = [k \in Arrays |-> IF Known(Desc[k].count) THEN real[k] ELSE 0]
        /\ size' = [k \in Arrays |->                      \* bpf_prog_info_read_offset_u32
                      IF ~ ToldSize(k) THEN - Desc[k].size ELSE IF Known(Desc[k].size) THEN rec[k] ELSE 0]
  /\ UNCHANGED <<info_len, real, rec, arrays, ptr, base, data_len, told, written>>

\* Arrays whose fields lie beyond info_len are left out.
Include(k) ==
  /\ info_len >= Desc[k].array + 1
  /\ info_len >= Desc[k].count + 1
  /\ ToldSize(k) => info_len >= Desc[k].size

BugAddsAsked(inc, k) == SumFunctionOnSet([j \in Arrays |-> count[j]], {j \in inc : j < k})
Before(inc, k) == SumFunctionOnSet([j \in Arrays |-> count[j] * size[j]], {j \in inc : j < k})
RoundUp(n) == ((n + 1) \div 2) * 2

Included == {k \in arrays : Include(k)}

Layout ==
  /\ step = "layout"
  /\ \/ step' = "error" /\ UNCHANGED <<arrays, base, ptr, told, data_len>>        \* no memory
     \/ /\ step' = "fill"
        /\ arrays' = Included
        /\ base' \in Bases
        /\ ptr' = [k \in Arrays |-> IF k \in Included THEN base' + Before(Included, k) ELSE 0]
        /\ told' = [k \in Arrays |-> IF k \in Included THEN count[k] ELSE 0]
        /\ data_len' = RoundUp(Before(Included, Len(Desc) + 1))
  /\ UNCHANGED <<info_len, real, rec, count, size, written>>

\* The second call, of a program whose arrays may have changed: the kernel writes no more
\* elements than the count it is given, and wants the size of records to be its own.
Min(a, b) == IF a < b THEN a ELSE b
Mismatch == \E k \in arrays : ToldSize(k) /\ Known(Desc[k].size) /\ size[k] # rec[k]

Fill ==
  /\ step = "fill"
  /\ \/ step' = "error" /\ UNCHANGED <<told, written>>
     \/ /\ step' = "addr" /\ ~ Mismatch
        /\ told' = [k \in Arrays |-> IF k \in arrays THEN real[k] ELSE 0]
        /\ written' = [k \in Arrays |-> IF k \in arrays
              THEN ptr[k] .. ptr[k] + Min(told[k], real[k]) * (IF ToldSize(k) THEN rec[k] ELSE size[k]) - 1 ELSE {}]
  /\ UNCHANGED <<info_len, real, rec, arrays, count, size, ptr, base, data_len>>

\* The program changes between the two calls.
Changes ==
  /\ step \in {"layout", "fill"}
  /\ \E k \in Arrays, n \in Counts : real' = [real EXCEPT ![k] = n]
  /\ UNCHANGED <<step, info_len, rec, arrays, count, size, ptr, base, data_len, told, written>>

bpf_program__bpil_addr_to_offs ==
  /\ step = "addr" /\ step' = "offs"
  /\ ptr' = [k \in Arrays |-> IF k \in arrays THEN ptr[k] - base ELSE ptr[k]]
  /\ UNCHANGED <<info_len, real, rec, arrays, count, size, base, data_len, told, written>>
\* The block is copied to another place and its offsets made addresses again.
bpf_program__bpil_offs_to_addr ==
  /\ step = "offs" /\ step' = "addr"
  /\ base' \in Bases
  /\ ptr' = [k \in Arrays |-> IF k \in arrays THEN ptr[k] + base' ELSE ptr[k]]
  /\ written' = [k \in Arrays |-> {a - base + base' : a \in written[k]}]
  /\ UNCHANGED <<info_len, real, rec, arrays, count, size, data_len, told>>

Done == step = "error" /\ UNCHANGED vars

Next ==
  \/ Ask \/ Layout \/ Fill \/ Changes \/ Done
  \/ bpf_program__bpil_addr_to_offs \/ bpf_program__bpil_offs_to_addr

Spec == Init /\ [][Next]_vars
-----------------------------------------------------------------------------
TypeOK ==
  /\ arrays \subseteq Arrays /\ data_len \in Nat
  /\ {ptr[k] : k \in Arrays} \cup {told[k] : k \in Arrays} \subseteq Nat

\* What the kernel writes lies in the block, and no two arrays share a place, although
\* the program may have changed since the block was measured.
WritesInside ==
  \A k \in Arrays :
    /\ written[k] \subseteq base .. base + data_len - 1
    /\ \A j \in Arrays \ {k} : written[k] \cap written[j] = {}

\* Wherever the block has been moved to, the address of an array is where its contents are.
PointsToIt ==
  step = "addr" => \A k \in arrays : written[k] # {} => ptr[k] \in written[k] /\ ptr[k] - 1 \notin written[k]

\* libbpf.c: "kernel is too old to support this field": only arrays all of whose fields
\* the kernel knows are included.
OldKernelLeftOut == step = "fill" => \A k \in arrays : \A f \in Fields(k) : Known(f)
=============================================================================

------------------------------ MODULE LineInfo ------------------------------
(***************************************************************************)
(* The line information of a loaded program (bpf_prog_linfo.c).            *)
(* bpf_prog_linfo__new copies the kernel's tables and dissects the table   *)
(* of compiled addresses into its functions; two look-ups find the line of *)
(* an address of a function and of an instruction.                         *)
(*                                                                         *)
(* Lines, functions and instructions are counted from 0 as in the code.    *)
(***************************************************************************)
EXTENDS Integers, FiniteSetsExt

CONSTANTS
  MaxLines, MaxFuncs,
  MaxAddr           \* addresses and instruction offsets are 0..MaxAddr

LineInfoAssumption ==
  /\ {MaxLines, MaxFuncs} \subseteq Nat \ {0} /\ MaxAddr \in Nat

VARIABLES
  pc,               \* "new", "dissect", "ready", "xlated" or "null"
  info,             \* struct bpf_prog_info, as far as it is read
  i, f, prev_i,     \* of dissect_jited_func
  func_idx, per_func \* jited_linfo_func_idx, nr_jited_linfo_per_func

loop == <<i, f, prev_i, func_idx, per_func>>
vars == <<pc, info, loop>>

Addrs == 0..MaxAddr
NULL == -1

\* Offsets of instructions go up: the verifier sees to it.
Rising(n) == {s \in [0..(n - 1) -> Addrs] : \A k \in 1..(n - 1) : s[k - 1] < s[k]}

\* Compiled tables are whatever the kernel, or a file, says they are; they
\* may be missing.
Inputs ==
  UNION {[jited : {FALSE}, nr : {n}, off : Rising(n)] : n \in 0..MaxLines} \union
  UNION {[jited : {TRUE}, nr : {n}, addr : [0..(n - 1) -> Addrs], nf : {m},
          ksym : [0..(m - 1) -> Addrs], klen : [0..(m - 1) -> 1..(MaxAddr + 1)]]
           : n \in 1..MaxLines, m \in 1..MaxFuncs}

Init ==
  /\ pc = "new" /\ info \in Inputs
  /\ i = 0 /\ f = 0 /\ prev_i = 0 /\ func_idx = <<>> /\ per_func = <<>>
-----------------------------------------------------------------------------
\* No lines, or no memory for any of the tables: NULL, and what was allocated
\* is freed.
NewFails ==
  /\ pc = "new" /\ pc' = "null"
  /\ UNCHANGED <<info, loop>>

\* Not enough information for the compiled lines.
NewXlated ==
  /\ pc = "new" /\ info.nr > 0 /\ ~info.jited /\ pc' = "xlated"
  /\ UNCHANGED <<info, loop>>

bpf_prog_linfo__new ==
  /\ pc = "new" /\ info.jited
  /\ IF info.ksym[0] = info.addr[0]
     THEN /\ pc' = "dissect" /\ prev_i' = 0 /\ i' = 1 /\ f' = 1
          /\ func_idx' = [k \in {0} |-> 0] /\ per_func' = <<>>
     ELSE pc' = "null" /\ UNCHANGED loop
  /\ UNCHANGED info

\* dissect_jited_func: one turn of the loop.
Turn == pc = "dissect" /\ i < info.nr /\ f < info.nf
Found == info.ksym[f] = info.addr[i]
Previous == info.addr[i - 1]
\* The last line of a function lies within it.
Fits == Previous - info.ksym[f - 1] + 1 <= info.klen[f - 1]
GoesUp == Previous < info.addr[i]

PrevAfter == i
With(fn, k, v) == [x \in DOMAIN fn \union {k} |-> IF x = k THEN v ELSE fn[x]]

NextFunc ==
  /\ Turn /\ Found /\ Fits
  /\ func_idx' = With(func_idx, f, i) /\ per_func' = With(per_func, f - 1, i - prev_i)
  /\ prev_i' = PrevAfter /\ f' = f + 1 /\ i' = i + 1
  /\ UNCHANGED <<pc, info>>

SameFunc ==
  /\ Turn /\ ~Found /\ GoesUp
  /\ i' = i + 1
  /\ UNCHANGED <<pc, info, f, prev_i, func_idx, per_func>>

Errout ==
  /\ \/ Turn /\ (IF Found THEN ~Fits ELSE ~GoesUp)
     \/ pc = "dissect" /\ i >= info.nr /\ f < info.nf
  /\ pc' = "null" /\ UNCHANGED <<info, loop>>

Dissected ==
  /\ pc = "dissect" /\ f = info.nf
  /\ per_func' = With(per_func, f - 1, info.nr - prev_i)
  /\ pc' = "ready" /\ UNCHANGED <<info, i, f, prev_i, func_idx>>

Done == pc \in {"ready", "xlated", "null"} /\ UNCHANGED vars

Next == \/ NewFails \/ NewXlated \/ bpf_prog_linfo__new
        \/ NextFunc \/ SameFunc \/ Errout \/ Dissected \/ Done

Spec == Init /\ [][Next]_vars
-----------------------------------------------------------------------------
(***************************************************************************)
(* The look-ups: both walk from the first line that is not skipped to the  *)
(* first one beyond what they look for, and answer the line before it.     *)
(***************************************************************************)
LineBefore(t, start, n, x) == Min({k \in start..(start + n - 1) : x < t[k]} \union {start + n}) - 1

Start(fi, skip) == func_idx[fi] + skip
lfind_addr_func(x, fi, skip) ==
  IF fi >= info.nf \/ skip >= per_func[fi] THEN NULL
  ELSE IF x < info.addr[Start(fi, skip)] THEN NULL
  ELSE LineBefore(info.addr, Start(fi, skip), per_func[fi] - skip, x)

lfind(x, skip) ==
  IF skip >= info.nr THEN NULL
  ELSE IF x < info.off[skip] THEN NULL
  ELSE LineBefore(info.off, skip, info.nr - skip, x)

\* Of the lines of a set, the last one that begins at x or before it.
Nearest(t, lines, x) ==
  LET below == {k \in lines : t[k] <= x}
  IN  IF below = {} THEN NULL ELSE CHOOSE k \in below : \A l \in below : t[l] <= t[k]

\* The lines of a function: from its own address to that of the next.
FirstOf(fi) == func_idx[fi]
LinesOf(fi) == {k \in 0..(info.nr - 1) : k >= FirstOf(fi) /\ (fi + 1 < info.nf => k < FirstOf(fi + 1))}
-----------------------------------------------------------------------------
\* A table that is accepted is cut into functions without gap or overlap: each
\* begins with the line at its own address, has the lines up to the next, and
\* all but the last end within their length (bpf_prog_linfo.c 46-80).
Partitioned ==
  pc = "ready" =>
    /\ DOMAIN func_idx = 0..(info.nf - 1) /\ DOMAIN per_func = DOMAIN func_idx /\ func_idx[0] = 0
    /\ \A fi \in DOMAIN func_idx :
         /\ info.addr[func_idx[fi]] = info.ksym[fi]
         /\ per_func[fi] = Cardinality(LinesOf(fi)) /\ per_func[fi] > 0
         /\ fi + 1 < info.nf =>
              info.addr[func_idx[fi + 1] - 1] < info.ksym[fi] + info.klen[fi]

\* In every function but the last the line found for an address is the nearest
\* one of that function, of those not skipped (bpf_prog_linfo.c 180-216).
FoundNearest ==
  pc = "ready" =>
    \A fi \in 0..(info.nf - 2), x \in Addrs, skip \in 0..info.nr :
       lfind_addr_func(x, fi, skip)
         = IF skip >= per_func[fi] THEN NULL
           ELSE Nearest(info.addr, {k \in LinesOf(fi) : k >= FirstOf(fi) + skip}, x)

\* The line of an instruction is the last one that begins at it or before it,
\* of those not skipped (bpf_prog_linfo.c 218-246).
InsnFound ==
  pc = "xlated" =>
    \A x \in Addrs, skip \in 0..info.nr :
       lfind(x, skip) = Nearest(info.off, skip..(info.nr - 1), x)

\* Addresses go up within each function of an accepted table
\* (bpf_prog_linfo.c 70-73).
Increasing ==
  pc = "ready" =>
    \A fi \in DOMAIN func_idx : \A k \in LinesOf(fi) :
       k > FirstOf(fi) => info.addr[k - 1] < info.addr[k]
=============================================================================

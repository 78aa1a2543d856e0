---------------------------- MODULE PossibleCpus ----------------------------
(***************************************************************************)
(* libbpf_num_possible_cpus (libbpf.c): the number of processors is        *)
(* counted in the text of a file of the kernel, once, and kept in a static *)
(* variable that several threads read and write without a lock.            *)
(*                                                                         *)
(* The text is the sequence of its parts between commas: a processor, a    *)
(* range, or what is neither.  Integers have Word values.                  *)
(***************************************************************************)
EXTENDS Integers, Sequences, FiniteSetsExt

CONSTANTS
  Threads,
  Texts,            \* what the file may hold: sequences of records of n, the numbers sscanf
                    \* finds in a part (0 .. 2), and first and last
  Word,             \* values of an unsigned int; the program's has 2^32
  MaxCalls          \* bound: calls of each thread

CpusAssumption == Word \in Nat \ {0} /\ MaxCalls \in Nat

VARIABLES
  text,             \* the content of the file, which does not change
  cpus,             \* the static variable
  pc, il,           \* where each thread is, and at which part
  start, end, tmp_cpus,
  calls, answers    \* calls begun; what the calls that succeeded returned

locals == <<pc, il, start, end, tmp_cpus>>
vars == <<text, cpus, locals, calls, answers>>

Unsigned(x) == x % Word
Signed(x) == LET u == x % Word IN IF u < Word \div 2 THEN u ELSE u - Word

Init ==
  /\ text \in Texts /\ cpus = 0
  /\ pc = [t \in Threads |-> "out"] /\ il = [t \in Threads |-> 0]
  /\ start = il /\ end = il /\ tmp_cpus = il /\ calls = il /\ answers = {}

Go(t, p) == pc' = [pc EXCEPT ![t] = p]
-----------------------------------------------------------------------------
Cached(t) ==
  /\ pc[t] = "out" /\ calls[t] < MaxCalls /\ cpus > 0
  /\ calls' = [calls EXCEPT ![t] = @ + 1] /\ answers' = answers \union {cpus}
  /\ UNCHANGED <<text, cpus, locals>>

\* The file is opened and read.
Read(t) ==
  /\ pc[t] = "out" /\ calls[t] < MaxCalls /\ cpus <= 0
  /\ calls' = [calls EXCEPT ![t] = @ + 1]
  /\ Go(t, "parse") /\ il' = [il EXCEPT ![t] = 1] /\ tmp_cpus' = [tmp_cpus EXCEPT ![t] = 0]
  /\ start' = [start EXCEPT ![t] = 0] /\ end' = [end EXCEPT ![t] = 0]
  /\ UNCHANGED <<text, cpus, answers>>

\* open or read fails, or the text fills the buffer.
ReadFails(t) ==
  /\ pc[t] = "out" /\ calls[t] < MaxCalls /\ cpus <= 0
  /\ calls' = [calls EXCEPT ![t] = @ + 1]
  /\ UNCHANGED <<text, cpus, locals, answers>>

\* sscanf stores as many numbers as the part has.
End(t, part) == IF part.n = 2 THEN part.last ELSE part.first
\* The static variable is left alone until the count is complete.
Kept(n) == cpus
Part(t) ==
  /\ pc[t] = "parse" /\ il[t] <= Len(text)
  /\ LET part == text[il[t]]
         count == Signed(tmp_cpus[t] + Unsigned(End(t, part) - part.first + 1))
     IN  IF part.n = 0
         THEN Go(t, "out") /\ UNCHANGED <<cpus, il, start, end, tmp_cpus>>
         ELSE /\ start' = [start EXCEPT ![t] = part.first]
              /\ end' = [end EXCEPT ![t] = End(t, part)]
              /\ tmp_cpus' = [tmp_cpus EXCEPT ![t] = count]
              /\ il' = [il EXCEPT ![t] = @ + 1] /\ cpus' = Kept(count)
              /\ UNCHANGED pc
  /\ UNCHANGED <<text, calls, answers>>

\* Behind the last part the count is written and returned, if it is one.
Count(t) ==
  /\ pc[t] = "parse" /\ il[t] > Len(text) /\ Go(t, "out")
  /\ IF tmp_cpus[t] <= 0 THEN UNCHANGED <<cpus, answers>>
     ELSE cpus' = tmp_cpus[t] /\ answers' = answers \union {tmp_cpus[t]}
  /\ UNCHANGED <<text, il, start, end, tmp_cpus, calls>>

Over == (\A t \in Threads : pc[t] = "out" /\ calls[t] = MaxCalls) /\ UNCHANGED vars

Next == \/ \E t \in Threads : Cached(t) \/ Read(t) \/ ReadFails(t) \/ Part(t) \/ Count(t)
        \/ Over

Spec == Init /\ [][Next]_vars
-----------------------------------------------------------------------------
\* A list of the kernel's: no junk, and each part behind the one before.
WellFormed ==
  /\ \A k \in 1..Len(text) : text[k].n > 0 /\ text[k].first <= text[k].last
  /\ \A k \in 2..Len(text) : text[k - 1].last < text[k].first
Listed == UNION {text[k].first..text[k].last : k \in 1..Len(text)}

\* Every call that succeeds returns the number of processors in the list
\* (libbpf.c 6412-6427).
CountRight == WellFormed => answers \subseteq {Cardinality(Listed)}

\* Whatever the text is, all calls that succeed return the same: nobody sees
\* the count of a thread that has not finished it (libbpf.c 6388, 6433).
AllAgree == Cardinality(answers) <= 1
=============================================================================

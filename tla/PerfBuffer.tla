----------------------------- MODULE PerfBuffer -----------------------------
(***************************************************************************)
(* perf_buffer of libbpf: a ring per CPU that the kernel writes and        *)
(* bpf_perf_event_read_simple reads, perf_buffer__poll over all of them,   *)
(* and the set-up and release of the descriptors, mappings and map         *)
(* elements.  Positions are counted modulo Width, as __u64 is.             *)
(***************************************************************************)
EXTENDS Integers, Sequences, SequencesExt, TLAPS

CONSTANTS
  Given,        \* p->cpu_cnt: the CPUs asked for, 0 to take all of them
  Possible,     \* libbpf_num_possible_cpus()
  MaxEntries,   \* max_entries of the perf event array
  Ring,         \* mmap_size, in units of the smallest record
  Width,        \* one more than the largest position; a multiple of Ring
  Sizes,        \* sizes of samples
  Types,        \* types of records other than LOST that the kernel writes
  Raw,          \* event_cb is given: it alone decides whether to go on
  MaxLost,      \* bound: records the kernel loses in a row
  Numbers       \* bound: records are numbered modulo this

PerfBufferAssumption ==
  /\ {Possible, MaxEntries, Ring, MaxLost} \subseteq Nat \ {0} /\ Given \in Nat
  /\ Width % Ring = 0 /\ Width > 0 /\ Sizes \subseteq 1 .. Ring
  /\ Raw \in BOOLEAN /\ Numbers > Ring + MaxLost

Cpus == 1 .. (IF Given > 0 THEN Given ELSE IF MaxEntries < Possible THEN MaxEntries ELSE Possible)
LostSize == 1

VARIABLES
  step,         \* what the process does: set-up, poll, read or free
  i,            \* the CPU it does it for
  epoll,        \* pb->epoll_fd is open
  fds, mmaps, elems, watched,   \* CPUs whose event is open, mapped, in the map, in the epoll set
  bufs,         \* CPUs whose pb->cpu_bufs entry is set
  head, tail, ring, lost, number,       \* the kernel's side: positions, cells, lost so far, next number
  wake,         \* the event is ready for epoll
  ready,        \* the events that epoll_wait has given and are not read yet
  data_head, data_tail, copy_mem, copy_size,    \* the reader's: copy_mem is the size malloc gave, 0 for NULL
  expected,     \* history: the number that the callback of a CPU has not seen yet
  cut           \* history: CPUs left unread by an error or a DONE, with no event to tell

setup == <<epoll, fds, mmaps, elems, watched, bufs>>
kernel == <<head, ring, lost, number>>
reader == <<data_head, data_tail, copy_mem, copy_size>>
vars == <<step, i, setup, kernel, tail, wake, ready, reader, expected, cut>>

Empty == [type |-> "none", num |-> 0, off |-> 0, size |-> 0, cnt |-> 0]

Init ==
  /\ step = "new" /\ i = 1 /\ epoll = FALSE
  /\ fds = {} /\ mmaps = {} /\ elems = {} /\ watched = {} /\ bufs = {}
  /\ head = [c \in Cpus |-> 0] /\ tail = [c \in Cpus |-> 0]
  /\ ring = [c \in Cpus |-> [k \in 0 .. Ring - 1 |-> Empty]]
  /\ lost = [c \in Cpus |-> 0] /\ number = [c \in Cpus |-> 0] /\ wake = [c \in Cpus |-> FALSE]
  /\ ready = <<>> /\ data_head = 0 /\ data_tail = 0
  /\ copy_mem = [c \in Cpus |-> 0] /\ copy_size = [c \in Cpus |-> 0]
  /\ expected = [c \in Cpus |-> 0] /\ cut = {}

Stays == UNCHANGED <<kernel, tail, wake, ready, reader, expected, cut>>
-----------------------------------------------------------------------------
\* __perf_buffer__new: arguments and map are checked, the epoll instance and the arrays made.
New ==
  /\ step = "new"
  /\ \/ step' = "done" /\ UNCHANGED epoll                 \* not a power of two, wrong map, no memory
     \/ step' = "free" /\ UNCHANGED epoll                 \* epoll_create1 fails
     \/ step' = "free" /\ epoll' = TRUE                   \* no CPUs known, no memory for the arrays
     \/ step' = "open" /\ epoll' = TRUE
  /\ i' = 1
  /\ UNCHANGED <<fds, mmaps, elems, watched, bufs>> /\ Stays

\* perf_buffer__open_cpu_buf: the steps it takes, undone by perf_buffer__free_cpu_buf.
OpenStep(at, next, opened, mapped) ==
  /\ step = at /\ i \in Cpus
  /\ \/ step' = next /\ fds' = fds \cup opened /\ mmaps' = mmaps \cup mapped
     \/ step' = "free" /\ fds' = fds \ {i} /\ mmaps' = mmaps \ {i}
  /\ i' = IF step' = "free" THEN 1 ELSE i
  /\ UNCHANGED <<epoll, elems, watched>> /\ Stays

perf_event_open == OpenStep("open", "mmap", {i}, {}) /\ UNCHANGED bufs
mmap == OpenStep("mmap", "enable", {}, {i}) /\ UNCHANGED bufs
enable == OpenStep("enable", "update", {}, {}) /\ bufs' = IF step' = "free" THEN bufs ELSE bufs \cup {i}

update ==
  /\ step = "update"
  /\ \/ step' = "watch" /\ i <= MaxEntries /\ elems' = elems \cup {i} /\ UNCHANGED i
     \/ step' = "free" /\ i' = 1 /\ UNCHANGED elems
  /\ UNCHANGED <<epoll, fds, mmaps, watched, bufs>> /\ Stays

watch ==
  /\ step = "watch"
  /\ \/ step' = (IF i + 1 \in Cpus THEN "open" ELSE "idle") /\ i' = i + 1 /\ watched' = watched \cup {i}
     \/ step' = "free" /\ i' = 1 /\ UNCHANGED watched
  /\ UNCHANGED <<epoll, fds, mmaps, elems, bufs>> /\ Stays

\* perf_buffer__free: up to the first buffer that is not there.
FreeOne ==
  /\ step = "free" /\ i \in bufs
  /\ elems' = elems \ {i} /\ mmaps' = mmaps \ {i} /\ fds' = fds \ {i} /\ watched' = watched \ {i}
  /\ i' = i + 1 /\ UNCHANGED <<step, epoll, bufs>> /\ Stays
FreeRest ==
  /\ step = "free" /\ i \notin bufs
  /\ epoll' = FALSE /\ bufs' = {} /\ step' = "done"
  /\ UNCHANGED <<i, fds, mmaps, elems, watched>> /\ Stays

perf_buffer__free ==
  /\ step = "idle" /\ step' = "free" /\ i' = 1
  /\ UNCHANGED setup /\ Stays
-----------------------------------------------------------------------------
\* The kernel: a record goes in when it leaves at least a unit free behind it, after a
\* LOST record for what did not go in; the head is stored last.
Used(c) == (head[c] - tail[c]) % Width
Cells(c, at, r) == { <<(at + k) % Ring, [r EXCEPT !.off = k]>> : k \in 0 .. r.size - 1 }
Put(f, cells) == [k \in 0 .. Ring - 1 |-> IF \E x \in cells : x[1] = k THEN (CHOOSE x \in cells : x[1] = k)[2] ELSE f[k]]

Write(c, type, size) ==
  /\ c \in elems
  /\ LET before == IF lost[c] > 0 THEN LostSize ELSE 0
         mark == [type |-> "LOST", num |-> (number[c] - lost[c]) % Numbers, off |-> 0, size |-> before, cnt |-> lost[c]]
         rec == [type |-> type, num |-> number[c], off |-> 0, size |-> size, cnt |-> 1] IN
     IF Used(c) + before + size < Ring
     THEN /\ ring' = [ring EXCEPT ![c] = Put(@, Cells(c, head[c], mark) \cup Cells(c, head[c] + before, rec))]
          /\ head' = [head EXCEPT ![c] = (@ + before + size) % Width]
          /\ lost' = [lost EXCEPT ![c] = 0]
          /\ wake' = [wake EXCEPT ![c] = TRUE] /\ cut' = cut \ {c}
     ELSE lost[c] < MaxLost /\ lost' = [lost EXCEPT ![c] = @ + 1] /\ UNCHANGED <<ring, head, wake, cut>>
  /\ number' = [number EXCEPT ![c] = (@ + 1) % Numbers]
  /\ UNCHANGED <<step, i, setup, tail, ready, reader, expected>>
-----------------------------------------------------------------------------
\* perf_buffer__poll: epoll_wait gives all the ready events and takes their readiness.
Ready == {c \in Cpus : wake[c] /\ c \in watched}

perf_buffer__poll ==
  /\ step = "idle"
  /\ Ready # {} /\ ready' \in SetToSeqs(Ready)
  /\ wake' = [c \in Cpus |-> FALSE]
  /\ step' = "read"
  /\ UNCHANGED <<i, setup, kernel, tail, reader, expected, cut>>

\* bpf_perf_event_read_simple: the head is read once.
ReadHead ==
  /\ step = "read"
  /\ i' = ready[1] /\ data_head' = head[ready[1]] /\ data_tail' = tail[ready[1]]
  /\ step' = "records"
  /\ UNCHANGED <<setup, kernel, tail, wake, ready, copy_mem, copy_size, expected, cut>>

ehdr == ring[i][data_tail % Ring]
Wraps == (data_tail % Ring) + ehdr.size > Ring

\* A record that wraps round the end of the ring is put together in memory of its own.
Reassemble ==
  \/ /\ ~ Wraps \/ copy_size[i] >= ehdr.size
     /\ step' = "callback" /\ UNCHANGED <<copy_mem, copy_size>>
  \/ /\ Wraps /\ copy_size[i] < ehdr.size
     /\ \/ /\ step' = "callback"
           /\ copy_mem' = [copy_mem EXCEPT ![i] = ehdr.size] /\ copy_size' = [copy_size EXCEPT ![i] = ehdr.size]
        \/ /\ step' = "error"                             \* malloc fails: the record stays in the ring
           /\ copy_mem' = [copy_mem EXCEPT ![i] = 0] /\ copy_size' = [copy_size EXCEPT ![i] = 0]

TakeRecord ==
  /\ step = "records" /\ data_head # data_tail
  /\ Reassemble
  /\ UNCHANGED <<i, setup, kernel, tail, wake, ready, data_head, data_tail, expected, cut>>

\* perf_buffer__process_record: what fn answers.
Answers ==
  IF Raw THEN {"CONT", "DONE", "ERROR"}
  ELSE IF ehdr.type \in {"SAMPLE", "LOST"} THEN {"CONT"} ELSE {"ERROR"}

Callback ==
  /\ step = "callback"
  /\ expected' = [expected EXCEPT ![i] = (ehdr.num + ehdr.cnt) % Numbers]
  /\ data_tail' = (data_tail + ehdr.size) % Width
  /\ \E ret \in Answers :
       step' = CASE ret = "CONT" -> "records" [] ret = "DONE" -> "end" [] ret = "ERROR" -> "error"
  /\ UNCHANGED <<i, setup, kernel, tail, wake, ready, data_head, copy_mem, copy_size, cut>>

\* ring_buffer_write_tail; DONE is 0, so only an error ends perf_buffer__poll.
\* The locals end, and what the cells given back still hold says nothing.
GiveBack ==
  /\ ring' = [ring EXCEPT ![i] = [k \in 0 .. Ring - 1 |->
                IF (k - data_tail) % Ring < (head[i] - data_tail) % Width THEN @[k] ELSE Empty]]
  /\ i' = 1 /\ data_head' = 0 /\ data_tail' = 0
Unread == {c \in Cpus : ~ wake[c] /\ \/ c = i /\ data_tail # data_head
                                     \/ step = "error" /\ \E k \in 2 .. Len(ready) : ready[k] = c}
WriteTail ==
  /\ step \in {"end", "error"} \/ (step = "records" /\ data_head = data_tail)
  /\ tail' = [tail EXCEPT ![i] = data_tail]
  /\ ready' = IF step = "error" THEN <<>> ELSE Tail(ready)
  /\ step' = IF ready' = <<>> THEN "idle" ELSE "read"
  /\ cut' = (cut \ {i}) \cup Unread
  /\ GiveBack
  /\ UNCHANGED <<setup, head, lost, number, wake, copy_mem, copy_size, expected>>
-----------------------------------------------------------------------------
Done == step = "done" /\ UNCHANGED vars

SetUp == New \/ perf_event_open \/ mmap \/ enable \/ update \/ watch
Read == perf_buffer__poll \/ ReadHead \/ TakeRecord \/ Callback \/ WriteTail

Next ==
  \/ SetUp \/ FreeOne \/ FreeRest \/ perf_buffer__free \/ Read \/ Done
  \/ \E c \in Cpus, t \in Types, s \in Sizes : Write(c, t, s)

\* The set-up goes on to its end, and the application polls again and again.
Going == SetUp \/ Read \/ FreeOne \/ FreeRest
Spec == Init /\ [][Next]_vars /\ WF_vars(Going)
-----------------------------------------------------------------------------
TypeOK ==
  /\ {fds, mmaps, elems, watched, bufs} \subseteq SUBSET Cpus /\ epoll \in BOOLEAN
  /\ {head[c] : c \in Cpus} \cup {tail[c] : c \in Cpus} \cup {data_head, data_tail} \subseteq 0 .. Width - 1
  /\ \A c \in Cpus : Used(c) < Ring /\ lost[c] \in 0 .. MaxLost

\* The record handed to the callback is whole and is the next one of its CPU: nothing is
\* given twice, left out or overwritten while it is read, and what the kernel lost is
\* told in its place.
NextRecord ==
  step = "callback" =>
    /\ ehdr.num = expected[i]
    /\ \A k \in 0 .. ehdr.size - 1 : ring[i][(data_tail + k) % Ring] = [ehdr EXCEPT !.off = k]

\* A record that is put together fits the memory it is copied to.
CopyFits == step = "callback" /\ Wraps => copy_mem[i] >= ehdr.size

\* A set-up that failed and a buffer that was freed leave nothing behind.
NothingHeld == step = "done" => ~ epoll /\ fds \cup mmaps \cup elems \cup watched = {}

\* A record that waits in a ring is read on, unless the buffer is freed or an error ended
\* the poll that had taken the event; then it waits for the next record.
Waits(c) == head[c] # tail[c] /\ c \notin cut /\ step \notin {"free", "done"}
ReadsOn == \A c \in Cpus : <>[]Waits(c) => []<><<tail'[c] # tail[c]>>_vars
-----------------------------------------------------------------------------
(***************************************************************************)
(* Proof of NothingHeld.  What makes it inductive is that the buffers that *)
(* are set are those of the first CPUs, without a gap, at every step of a  *)
(* set-up that may stop anywhere: perf_buffer__free ends at the first one  *)
(* that is not there.                                                      *)
(***************************************************************************)
\* All that is held is of these CPUs.
HeldOnlyFor(cs) == fds \subseteq cs /\ mmaps \subseteq cs /\ elems \subseteq cs /\ watched \subseteq cs

\* What is held at each step: by the set-up, of which the CPU it is at may be open without its
\* buffer being set; by a buffer in use; and by the loop that frees.
Polling == {"idle", "read", "records", "callback", "end", "error"}
HeldAt ==
  /\ step \in {"new", "open", "mmap", "enable", "update", "watch", "free", "done"} \cup Polling
  /\ step \in {"new", "done"} => ~ epoll /\ HeldOnlyFor({})
  /\ step = "new" => bufs = {}
  /\ step \in {"open", "mmap", "enable"} =>
       /\ i \in Cpus /\ bufs = 1 .. (i - 1)
       /\ fds \subseteq 1 .. i /\ mmaps \subseteq 1 .. i
       /\ elems \subseteq 1 .. (i - 1) /\ watched \subseteq 1 .. (i - 1)
  /\ step \in {"update", "watch"} => i \in Cpus /\ bufs = 1 .. i /\ HeldOnlyFor(1 .. i)
  /\ step \in Polling => \E n \in Nat : bufs = 1 .. n /\ HeldOnlyFor(1 .. n)
  /\ step = "free" => \E n \in Nat : bufs = 1 .. n /\ i \in 1 .. (n + 1) /\ HeldOnlyFor(i .. n)

\* The CPUs are counted from 1.
LEMMA CpusCounted == ASSUME PerfBufferAssumption PROVE \E n \in Nat \ {0} : Cpus = 1 .. n
  BY DEF PerfBufferAssumption, Cpus

\* Nothing is held at first.
LEMMA HeldAtInit == Init => HeldAt
  BY DEF Init, HeldAt, HeldOnlyFor, Polling

\* Every step of the set-up, of a poll, of the kernel and of the loop that frees keeps account
\* of what is held.
LEMMA HeldAtStep == ASSUME PerfBufferAssumption PROVE HeldAt /\ [Next]_vars => HeldAt'
<1> SUFFICES ASSUME HeldAt, [Next]_vars PROVE HeldAt'
  OBVIOUS
<1>0. PICK N \in Nat \ {0} : Cpus = 1 .. N
  BY CpusCounted
<1> USE DEF HeldAt, HeldOnlyFor, Polling
<1>1. CASE UNCHANGED <<step, i, setup>>
  BY <1>1 DEF setup
<1>2. CASE New
  <2>1. {} = 1 .. 0 /\ 1 \in Cpus /\ 1 .. (1 - 1) = {}
    BY <1>0
  <2>2. step = "new" /\ i' = 1 /\ UNCHANGED <<fds, mmaps, elems, watched, bufs>>
    BY <1>2 DEF New
  <2>3. CASE step' = "done" /\ UNCHANGED epoll
    BY <2>2, <2>3
  <2>4. CASE step' = "free"
    <3>1. bufs' = 1 .. 0 /\ i' \in 1 .. (0 + 1) /\ HeldOnlyFor(i .. 0)'
      BY <2>1, <2>2, <2>4
    <3> QED
      BY <2>4, <3>1
  <2>5. CASE step' = "open"
    BY <2>1, <2>2, <2>5
  <2> QED
    BY <1>2, <2>3, <2>4, <2>5 DEF New
<1>3. CASE perf_event_open
  BY <1>0, <1>3 DEF perf_event_open, OpenStep
<1>4. CASE mmap
  BY <1>0, <1>4 DEF mmap, OpenStep
<1>5. CASE enable
  <2>1. /\ i \in Nat /\ i > 0 /\ i \in Cpus /\ bufs = 1 .. (i - 1)
        /\ HeldOnlyFor(1 .. i) /\ UNCHANGED <<elems, watched>>
        /\ elems \subseteq 1 .. (i - 1) /\ watched \subseteq 1 .. (i - 1)
    BY <1>0, <1>5 DEF enable, OpenStep
  <2>2. CASE step' = "update"
    <3>1. i' = i /\ UNCHANGED <<fds, mmaps>> /\ bufs' = bufs \cup {i}
      BY <1>5, <2>2 DEF enable, OpenStep
    <3> QED
      BY <2>1, <2>2, <3>1
  <2>3. CASE step' = "free"
    <3>1. i' = 1 /\ fds' = fds \ {i} /\ mmaps' = mmaps \ {i} /\ bufs' = bufs
      BY <1>5, <2>3 DEF enable, OpenStep
    <3>2. PICK n \in Nat : n = i - 1
      BY <2>1
    <3>3. bufs' = 1 .. n /\ i' \in 1 .. (n + 1) /\ HeldOnlyFor(i .. n)'
      BY <2>1, <3>1, <3>2
    <3> QED
      BY <2>3, <3>3
  <2> QED
    BY <1>5, <2>2, <2>3 DEF enable, OpenStep
<1>6. CASE update
  BY <1>0, <1>6 DEF update
<1>7. CASE watch
  BY <1>0, <1>7 DEF watch
<1>8. CASE FreeOne
  BY <1>0, <1>8 DEF FreeOne
<1>9. CASE FreeRest
  BY <1>0, <1>9 DEF FreeRest
<1>10. CASE perf_buffer__free
  BY <1>0, <1>10 DEF perf_buffer__free, setup
<1>11. CASE Read
  <2>1. step \in Polling /\ step' \in Polling /\ UNCHANGED setup
    BY <1>11 DEF Read, perf_buffer__poll, ReadHead, TakeRecord, Reassemble, Callback, Answers,
       WriteTail
  <2> QED
    BY <2>1 DEF setup
<1>12. ASSUME NEW c \in Cpus, NEW t \in Types, NEW s \in Sizes, Write(c, t, s)
       PROVE  UNCHANGED <<step, i, setup>>
  BY <1>12 DEF Write
<1>13. CASE UNCHANGED vars \/ Done
  BY <1>13, <1>1 DEF vars, Done
<1> QED
  BY <1>1, <1>2, <1>3, <1>4, <1>5, <1>6, <1>7, <1>8, <1>9, <1>10, <1>11, <1>12, <1>13
  DEF Next, SetUp

\* What is left when the buffer is gone.
LEMMA HeldAtEnough == HeldAt => NothingHeld
  BY DEF HeldAt, HeldOnlyFor, NothingHeld

\* perf_buffer__free and every error path of the set-up give back the epoll instance, the events,
\* their mappings and the map's elements, for any number of CPUs and any size of ring, whichever
\* of the calls fails for whichever CPU.
THEOREM PerfBufferGivesBack == ASSUME PerfBufferAssumption PROVE Spec => []NothingHeld
<1>1. HeldAt /\ [Next]_vars => HeldAt'
  BY HeldAtStep
<1> QED
  BY <1>1, HeldAtInit, HeldAtEnough, PTL DEF Spec
=============================================================================

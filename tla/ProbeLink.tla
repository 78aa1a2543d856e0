----------------------------- MODULE ProbeLink -----------------------------
(***************************************************************************)
(* libbpf's links (bpf_link and the bpf_program__attach functions of       *)
(* libbpf.c): a program is attached to a kprobe, a uprobe, a tracepoint, a *)
(* raw tracepoint or a perf event of the caller's.  Every system call may  *)
(* fail; what was opened on the way has to be closed again.                *)
(***************************************************************************)
EXTENDS FiniteSets, Naturals

CONSTANT Events     \* bound: the descriptors of hooks that may be open

LinkAssumption == IsFiniteSet(Events)

VARIABLES
  pc,               \* "idle", or where the attach is
  loaded,           \* the program has a descriptor
  kind, retprobe,   \* what is being attached
  pfd,              \* its hook, or None
  right,            \* the numbers that describe the hook are from the files
  open,             \* hooks that are open
  caller,           \* those that the caller opened and still owns
  set, enabled,     \* hooks with the program, and those that are enabled
  misread,          \* hooks opened with a number that no file holds
  links             \* struct bpf_link, by their hook

call == <<kind, retprobe, pfd, right>>
hooks == <<open, caller, set, enabled, misread, links>>
vars == <<pc, loaded, call, hooks>>

None == "none"
Kinds == {"kprobe", "uprobe", "tracepoint", "raw", "perf_event"}
Free == Events \ open

Init ==
  /\ pc = "idle" /\ loaded = FALSE /\ kind = None /\ retprobe = FALSE /\ pfd = None /\ right = TRUE
  /\ open = {} /\ caller = {} /\ set = {} /\ enabled = {} /\ misread = {} /\ links = {}

Return ==
  /\ pc' = "idle" /\ UNCHANGED loaded
  /\ kind' = None /\ retprobe' = FALSE /\ pfd' = None /\ right' = TRUE
-----------------------------------------------------------------------------
\* The caller loads and unloads the program, which a link keeps alive.
Reload ==
  /\ pc = "idle" /\ loaded' = ~loaded
  /\ UNCHANGED <<pc, call, hooks>>

\* The caller opens a perf event of its own, and may close it.
CallerOpens ==
  /\ pc = "idle"
  /\ \E e \in Free : open' = open \union {e} /\ caller' = caller \union {e} /\ misread' = misread \ {e}
  /\ UNCHANGED <<pc, loaded, call, set, enabled, links>>

CallerCloses ==
  /\ pc = "idle"
  /\ \E e \in caller :
       /\ open' = open \ {e} /\ caller' = caller \ {e} /\ set' = set \ {e} /\ enabled' = enabled \ {e}
  /\ UNCHANGED <<pc, loaded, call, misread, links>>

\* A call of one of the bpf_program__attach functions.  The number that the
\* kernel gives kprobes, uprobes and tracepoints is read from a file.
Attach(k, ret) ==
  /\ pc = "idle" /\ kind' = k /\ right' = TRUE
  /\ CASE k = "raw" -> pc' = "raw" /\ retprobe' = FALSE /\ pfd' = None
       [] k = "perf_event" -> pc' = "fd" /\ retprobe' = FALSE /\ pfd' \in caller
       [] k = "tracepoint" -> pc' = "type" /\ retprobe' = FALSE /\ pfd' = None
       [] OTHER -> pc' = "type" /\ retprobe' = ret /\ pfd' = None
  /\ UNCHANGED <<loaded, hooks>>

\* parse_uint_from_file: a number; or a failure; or text that does not match,
\* for which it answers -errno, which is 0 if no call has failed before.
AfterType == IF retprobe THEN "bit" ELSE "open"
parse_uint_from_file ==
  /\ pc \in {"type", "bit"}
  /\ pc' = IF pc = "type" THEN AfterType ELSE "open"
  /\ right' \in {right, FALSE}
  /\ UNCHANGED <<loaded, kind, retprobe, pfd, hooks>>

ParseFails ==
  /\ pc \in {"type", "bit"}
  /\ Return /\ UNCHANGED hooks

\* perf_event_open_probe, perf_event_open_tracepoint.
perf_event_open ==
  /\ pc = "open" /\ \E e \in Free : pfd' = e /\ open' = open \union {e}
  /\ misread' = IF right THEN misread \ {pfd'} ELSE misread \union {pfd'}
  /\ pc' = "fd" /\ UNCHANGED <<loaded, kind, retprobe, right, caller, set, enabled, links>>

OpenFails ==
  /\ pc = "open"
  /\ Return /\ UNCHANGED hooks

\* bpf_program__attach_perf_event.
HasFd ==
  /\ pc = "fd" /\ loaded
  /\ pc' = "set" /\ UNCHANGED <<loaded, call, hooks>>

SetBpf ==
  /\ pc = "set"
  /\ set' = set \union {pfd} /\ pc' = "enable"
  /\ UNCHANGED <<loaded, call, open, caller, enabled, misread, links>>

Enable ==
  /\ pc = "enable"
  /\ enabled' = enabled \union {pfd} /\ links' = links \union {pfd} /\ caller' = caller \ {pfd}
  /\ Return /\ UNCHANGED <<open, set, misread>>

\* No descriptor, no memory, or an ioctl that fails: the link is freed, and
\* whoever opened the hook closes it.
Closes == kind # "perf_event"
AttachFails ==
  /\ pc \in {"fd", "set", "enable"}
  /\ Return
  /\ IF Closes
     THEN open' = open \ {pfd} /\ set' = set \ {pfd} /\ UNCHANGED <<caller, enabled, misread, links>>
     ELSE UNCHANGED hooks

\* bpf_program__attach_raw_tracepoint: the hook is attached when it is opened.
RawOpen ==
  /\ pc = "raw" /\ loaded
  /\ \E e \in Free : /\ open' = open \union {e} /\ set' = set \union {e}
                     /\ enabled' = enabled \union {e} /\ links' = links \union {e}
                     /\ misread' = misread \ {e}
  /\ Return /\ UNCHANGED caller

RawFails ==
  /\ pc = "raw"
  /\ Return /\ UNCHANGED hooks

\* bpf_link__destroy: the hook is closed and the link freed even if the ioctl
\* that disables the hook fails.
bpf_link__destroy ==
  /\ pc = "idle"
  /\ \E e \in links : /\ links' = links \ {e} /\ open' = open \ {e}
                      /\ set' = set \ {e} /\ enabled' = enabled \ {e}
  /\ UNCHANGED <<pc, loaded, call, caller, misread>>

Next ==
  \/ Reload \/ CallerOpens \/ CallerCloses \/ \E k \in Kinds, ret \in BOOLEAN : Attach(k, ret)
  \/ parse_uint_from_file \/ ParseFails \/ perf_event_open \/ OpenFails
  \/ HasFd \/ SetBpf \/ Enable \/ AttachFails \/ RawOpen \/ RawFails \/ bpf_link__destroy

Spec == Init /\ [][Next]_vars
-----------------------------------------------------------------------------
\* Between calls every open hook has exactly one owner, a link or the caller:
\* no failed attach and no destroyed link leaves one open, and the hook of a
\* link is never closed under it (libbpf.c 5556-5557, 5588-5589, 5668-5669,
\* 5376-5386).
OneOwner ==
  /\ links \intersect caller = {} /\ links \union caller \subseteq open
  /\ pc = "idle" => open = links \union caller

\* A link is one that fires: its hook has the program and is enabled,
\* however many attaches failed at any point before (libbpf.c 5402-5430).
LinkFires == links \subseteq set \intersect enabled

\* A hook is opened only with the numbers that the files hold
\* (libbpf.c 5434-5436, 5452-5458).
NumbersRead == \A e \in open : e \notin misread
=============================================================================

------------------------------ MODULE Netlink ------------------------------
(***************************************************************************)
(* libbpf's netlink client (libbpf/src/netlink.c): requests that set or    *)
(* ask for the XDP program of a link, and the dumps of links, classes,     *)
(* queueing disciplines and filters.  The kernel answers a dump in several *)
(* datagrams, between which other processes change what is dumped; the     *)
(* system calls of the client may fail, and a message that is not the      *)
(* kernel's may reach its socket.                                          *)
(***************************************************************************)
EXTENDS Naturals, FiniteSets, SequencesExt, Functions, TLC

CONSTANTS
  Links,        \* interface indices, from 1
  Ids,          \* program ids, none of them 0
  Batch,        \* messages in a datagram
  NChanges,     \* bound: changes by other processes
  NCalls,       \* bound: calls of the client
  NStrays       \* bound: messages that are not the kernel's

Modes == {"skb", "drv", "hw"}
Flags == Modes \cup {"none"}          \* the mode bits of xdp_flags
Dumps == {"class", "qdisc", "filter"}
NetlinkAssumption ==
  /\ Links \subseteq Nat \ {0} /\ IsFiniteSet(Links) /\ Ids \subseteq Nat \ {0} /\ Batch \in Nat \ {0}
  /\ NChanges \in Nat /\ NCalls \in Nat /\ NStrays \in Nat

VARIABLES
  progs,        \* progs[i][m]: the program of link i in mode m, or 0
  tc,           \* tc[i]: has link i a class, a discipline, a filter?
  call,         \* what the client asked for
  pc, ret,      \* where the client is; what the last call answered
  sock,         \* is the client's socket open?
  inbox,        \* datagrams on the socket
  buf, multipart,   \* bpf_netlink_recv: messages left in buf
  info, got,    \* the cookies: what get_xdp_info found; objects dumped
  asked, last,  \* the kernel's side: is a request under way; the last link dumped
  changes, calls, strays,
  before        \* what was true at some moment since the call began

kernel == <<progs, tc, asked, last>>
client == <<call, pc, ret, sock, buf, multipart, info, got>>
bounds == <<changes, calls, strays>>
vars == <<kernel, client, inbox, bounds, before>>

NoInfo == [attach_mode |-> "none", prog_id |-> 0, ids |-> [m \in Modes |-> 0]]
Tags == {"link", "object", "error", "done"}

Init ==
  /\ \E ms \in SUBSET Modes, id \in Ids :
       /\ ~ {"skb", "drv"} \subseteq ms
       /\ progs = [i \in Links |-> [m \in Modes |-> IF m \in ms THEN id ELSE 0]]
  /\ tc = [i \in Links |-> TRUE]
  /\ asked = "nothing" /\ last = 0
  /\ call = [op |-> "none"] /\ pc = "idle" /\ ret = "ok" /\ sock = FALSE
  /\ buf = <<>> /\ multipart = FALSE /\ info = NoInfo /\ got = <<>>
  /\ inbox = <<>> /\ changes = 0 /\ calls = 0 /\ strays = 0
  /\ before = {}
-----------------------------------------------------------------------------
(***************************************************************************)
(* The kernel, and other processes.                                        *)
(***************************************************************************)
Attached(p) == {m \in Modes : p[m] # 0}
AttachMode(p) == CASE Attached(p) = {} -> "none" [] Cardinality(Attached(p)) > 1 -> "multi"
                   [] OTHER -> CHOOSE m \in Attached(p) : TRUE
InfoOf(p) ==
  [attach_mode |-> AttachMode(p), ids |-> p,
   prog_id |-> IF AttachMode(p) \in Modes THEN p[AttachMode(p)] ELSE 0]

\* Only a hardware program may be beside another one.
Allowed(p) == ~ (p["skb"] # 0 /\ p["drv"] # 0)

\* Another process attaches or detaches, adds or deletes, while a call is under way.
Change(i) ==
  /\ pc # "idle" /\ changes < NChanges /\ changes' = changes + 1
  /\ \/ \E m \in Modes, id \in Ids \cup {0} :
          /\ progs' = [progs EXCEPT ![i][m] = id]
          /\ Allowed(progs'[i])
          /\ UNCHANGED tc
     \/ tc' = [tc EXCEPT ![i] = ~ @] /\ UNCHANGED progs
  /\ before' = before \cup {<<i, progs'[i], tc'[i]>>}
  /\ UNCHANGED <<asked, last, client, inbox, calls, strays>>

Msg(type, multi) == [type |-> type, pid |-> "ours", seq |-> "ours", multi |-> multi]

\* The next datagram of a dump: links behind the last one, and at the end NLMSG_DONE.
Following == {i \in Links : i > last /\ (asked = "link" \/ tc[i])}
KernelDumps ==
  /\ asked \in {"link"} \cup Dumps
  /\ LET rest == SetToSortSeq(Following, <)
         part == SubSeq(rest, 1, IF Len(rest) < Batch THEN Len(rest) ELSE Batch)
         Message(i) == IF asked = "link"
                         THEN Msg("link", TRUE) @@ [ifi |-> i, xdp |-> InfoOf(progs[i])]
                         ELSE Msg("object", TRUE) @@ [ifi |-> i]
     IN  /\ inbox' = Append(inbox, IF part = <<>> THEN <<Msg("done", TRUE)>>
                                   ELSE [k \in DOMAIN part |-> Message(part[k])])
         /\ last' = IF part = <<>> THEN 0 ELSE part[Len(part)]
         /\ asked' = IF part = <<>> THEN "nothing" ELSE asked
  /\ UNCHANGED <<progs, tc, client, bounds, before>>

\* RTM_SETLINK with NLM_F_ACK: one message, whose error is 0 if it was done.
KernelSets ==
  /\ asked = "set"
  /\ LET p == [progs[call.ifindex] EXCEPT ![call.flags] = call.id]
     IN  \E done \in BOOLEAN :
           /\ done => Allowed(p)
           /\ progs' = IF done THEN [progs EXCEPT ![call.ifindex] = p] ELSE progs
           /\ inbox' = Append(inbox, <<Msg("error", FALSE) @@ [error |-> IF done THEN "ok" ELSE "EBUSY"]>>)
  /\ asked' = "nothing"
  /\ UNCHANGED <<tc, last, client, bounds, before>>

\* A message of another sender, or an answer to another request.
Stray ==
  /\ sock /\ strays < NStrays /\ strays' = strays + 1
  /\ \E m \in {[Msg("done", FALSE) EXCEPT !.pid = "other"], [Msg("done", FALSE) EXCEPT !.seq = "other"]} :
       inbox' = Append(inbox, <<m>>)
  /\ UNCHANGED <<kernel, client, changes, calls, before>>
-----------------------------------------------------------------------------
(***************************************************************************)
(* A call: open, send, receive, close.                                     *)
(***************************************************************************)
Begin(c) ==
  /\ pc = "idle" /\ calls < NCalls /\ calls' = calls + 1
  /\ call' = c
  /\ info' = NoInfo /\ got' = <<>>
  /\ before' = {<<i, progs[i], tc[i]>> : i \in Links}

\* More than one mode bit is refused before a socket is opened; one flag is one bit here.
bpf_get_link_xdp_info(i, f) == Begin([op |-> "get", ifindex |-> i, flags |-> f])
bpf_set_link_xdp_fd(i, f, id) == Begin([op |-> "set", ifindex |-> i, flags |-> f, id |-> id])
libbpf_nl_get_class == Begin([op |-> "class"])
libbpf_nl_get_qdisc == Begin([op |-> "qdisc"])
libbpf_nl_get_filter == Begin([op |-> "filter"])

\* When bind or getsockname fails the socket is closed.
Opened(ok) == sock' = ok
libbpf_netlink_open ==
  /\ \E ok \in BOOLEAN :
       /\ Opened(ok)
       /\ pc' = IF ok THEN "send" ELSE "idle"
       /\ ret' = IF ok THEN ret ELSE "errno"
  /\ UNCHANGED <<kernel, inbox, buf, multipart, changes, strays>>

Return(r) ==
  /\ pc' = "idle" /\ ret' = r
  /\ sock' = FALSE /\ inbox' = <<>>                  \* close
  /\ buf' = <<>> /\ multipart' = FALSE

Calls ==
  /\ \/ \E i \in Links : \E f \in Flags : bpf_get_link_xdp_info(i, f)
     \/ \E i \in Links : \E f \in Modes : \E id \in Ids \cup {0} : bpf_set_link_xdp_fd(i, f, id)
     \/ libbpf_nl_get_class \/ libbpf_nl_get_qdisc \/ libbpf_nl_get_filter
  /\ libbpf_netlink_open

send ==
  /\ pc = "send"
  /\ \/ /\ pc' = "recv" /\ asked' = (IF call.op = "get" THEN "link" ELSE call.op) /\ last' = 0
        /\ multipart' = TRUE
        /\ UNCHANGED <<ret, sock, inbox, buf>>
     \/ Return("errno") /\ UNCHANGED <<asked, last>>
  /\ UNCHANGED <<progs, tc, call, info, got, bounds, before>>

\* A closed socket takes the rest of its dump with it.
Abandon == asked' = "nothing" /\ last' = 0

\* bpf_netlink_recv: a datagram, or an error such as an overrun of the socket.
recv ==
  /\ pc = "recv" /\ buf = <<>> /\ multipart /\ inbox # <<>>
  /\ buf' = Head(inbox) /\ inbox' = Tail(inbox) /\ multipart' = FALSE
  /\ UNCHANGED <<kernel, call, pc, ret, sock, info, got, bounds, before>>

recvFails ==
  /\ pc = "recv" /\ buf = <<>> /\ multipart
  /\ Return("errno") /\ Abandon
  /\ UNCHANGED <<progs, tc, call, info, got, bounds, before>>

\* The loop over the datagram is through, and none of its messages was of a multipart.
LastPart ==
  /\ pc = "recv" /\ buf = <<>> /\ ~ multipart
  /\ Return("ok") /\ Abandon
  /\ UNCHANGED <<progs, tc, call, info, got, bounds, before>>

\* The callbacks.
get_xdp_info(m) == IF m.ifi = call.ifindex /\ m.xdp.attach_mode # "none" THEN m.xdp ELSE info

Failed(m) == m.error # "ok"

BugSinglePart(m) == multipart
BugAnotherPart(m) == TRUE
StillMultipart(m) == multipart \/ m.multi

NextMessage(m) ==
  /\ multipart' = StillMultipart(m) /\ buf' = Tail(buf)
  /\ UNCHANGED <<asked, last, pc, ret, sock, inbox>>

bpf_netlink_recv ==
  /\ pc = "recv" /\ buf # <<>>
  /\ LET m == Head(buf) IN
         \/ m.pid # "ours" /\ Return("WRNGPID") /\ Abandon /\ UNCHANGED <<info, got>>
         \/ m.pid = "ours" /\ m.seq # "ours" /\ Return("INVSEQ") /\ Abandon /\ UNCHANGED <<info, got>>
         \/ /\ m.pid = "ours" /\ m.seq = "ours"
            /\ \/ m.type = "error" /\ ~ Failed(m) /\ NextMessage(m) /\ UNCHANGED <<info, got>>
               \/ m.type = "error" /\ Failed(m) /\ Return(m.error) /\ Abandon /\ UNCHANGED <<info, got>>
               \/ m.type = "done" /\ Return("ok") /\ Abandon /\ UNCHANGED <<info, got>>
               \/ m.type = "link" /\ info' = get_xdp_info(m) /\ NextMessage(m) /\ UNCHANGED got
               \/ m.type = "object" /\ got' = Append(got, m.ifi) /\ NextMessage(m) /\ UNCHANGED info
  /\ UNCHANGED <<progs, tc, call, bounds, before>>

\* What the caller of bpf_get_link_xdp_id is told, once the call has returned 0.
get_xdp_id ==
  CASE info.attach_mode # "multi" -> info.prog_id
    [] info.attach_mode = "multi" /\ call.flags # "none" -> info.ids[call.flags]
    [] OTHER -> 0

Client == send \/ recv \/ LastPart \/ bpf_netlink_recv

Next == Calls \/ Client \/ recvFails \/ KernelDumps \/ KernelSets \/ Stray \/ \E i \in Links : Change(i)

\* The kernel answers what it is asked, and the client runs; no system call need fail.
Spec == Init /\ [][Next]_vars /\ WF_vars(Client) /\ WF_vars(KernelDumps) /\ WF_vars(KernelSets)
-----------------------------------------------------------------------------
TypeOK ==
  /\ progs \in [Links -> [Modes -> Ids \cup {0}]] /\ tc \in [Links -> BOOLEAN]
  /\ pc \in {"idle", "send", "recv"} /\ ret \in {"ok", "errno", "EBUSY", "WRNGPID", "INVSEQ"}
  /\ sock \in BOOLEAN /\ multipart \in BOOLEAN /\ got \in Seq(Links) /\ Len(got) <= Cardinality(Links)
  /\ asked \in {"nothing", "set", "link"} \cup Dumps
  /\ \A k \in DOMAIN inbox : \A j \in DOMAIN inbox[k] : inbox[k][j].type \in Tags

\* No call leaves its socket open, however it ends.
SocketClosed == pc = "idle" => ~ sock /\ inbox = <<>> /\ asked = "nothing"

\* An id that bpf_get_link_xdp_id tells is that of a program which was on that link at
\* some moment of the call, and 0 means that there was a moment without one in the mode
\* asked for, or several and no mode asked for: whatever other processes attach while
\* the dump goes on, and to whichever link.
IdWasThere ==
  pc = "idle" /\ ret = "ok" /\ call.op = "get" =>
    \E b \in before :
      /\ b[1] = call.ifindex
      /\ IF get_xdp_id # 0 THEN \E m \in Modes : b[2][m] = get_xdp_id
         ELSE \/ Attached(b[2]) = {}
              \/ AttachMode(b[2]) = "multi" /\ (call.flags = "none" \/ b[2][call.flags] = 0)

\* A dump that returns 0 has shown every object that was there all the time, and none
\* twice, and none that was never there.
DumpComplete ==
  pc = "idle" /\ ret = "ok" /\ call.op \in Dumps =>
    /\ IsInjective(got)
    /\ \A i \in Links :
         /\ (\A b \in before : b[1] = i => b[3]) => i \in Range(got)
         /\ i \in Range(got) => \E b \in before : b[1] = i /\ b[3]

\* bpf_set_link_xdp_fd returns 0 only if the program was set: it was then that of the
\* link, unless another process has changed something since.
SetHolds ==
  pc = "recv" /\ pc' = "idle" /\ ret' = "ok" /\ call.op = "set" =>
    changes > 0 \/ progs[call.ifindex][call.flags] = call.id
SetReported == [][SetHolds]_vars

\* Every call returns: the last part of a dump is recognised, and an answer that is not
\* in parts is not waited for twice.
Returns == []<>(pc = "idle")
=============================================================================

------------------------------ MODULE XdpLink ------------------------------
(***************************************************************************)
(* The XDP hook of a network interface and the processes that put programs *)
(* on it and take them off: the user program of the scenarios, which       *)
(* attaches its own program (load_bpf_and_xdp_attach), the flow monitor,   *)
(* which lets libbpf attach one if there is none (xsk_setup_xdp_prog), and *)
(* a run with --unload.  One step is one netlink request; the requests of  *)
(* the processes interleave.                                               *)
(***************************************************************************)
EXTENDS Naturals

CONSTANTS
  Procs,     \* the processes
  Configs,   \* the command lines: records of kind and mode
  Native     \* does the driver support native mode?

Modes == {"auto", "skb", "drv"}    \* XDP_FLAGS_SKB_MODE, _DRV_MODE, or neither

\* The monitor passes no flags; a run with --unload attaches nothing.
MonitorConfigs == [kind : {"monitor"}, mode : {"auto"}]
ConfigAssumption ==
  /\ Native \in BOOLEAN
  /\ Configs \subseteq [kind : {"scenario", "unload"}, mode : Modes] \cup MonitorConfigs

\* XDP_FLAGS_UPDATE_IF_NOEXIST: no code sets it, and --force clears what is not set.  Every
\* attach, forced or not, therefore replaces the program of its mode.
UpdateIfNoexist == FALSE

Slots == {"skb", "drv"}            \* where the kernel keeps a program
None == [by |-> "nobody", kind |-> "none"]
Foreign == [by |-> "nobody", kind |-> "foreign"]     \* another tool's, without xsks_map
Custom(p) == [by |-> p, kind |-> "custom"]           \* the program of --filename
Default(p) == [by |-> p, kind |-> "default"]         \* the one libbpf loads
ProgramsOf(p) == {Custom(p), Default(p)}
Programs == {None, Foreign} \cup {Custom(p) : p \in Procs} \cup {Default(p) : p \in Procs}

VARIABLES
  hook,      \* hook[m]: the program attached in mode m
  cfg,       \* cfg[p]: the configuration of process p
  pc,        \* where each process is
  seen,      \* seen[p]: what the last bpf_get_link_xdp_id told p
  joined     \* joined[p]: the program in whose xsks_map p's socket is

vars == <<hook, cfg, pc, seen, joined>>

PCs == {"attach", "unloadOther", "again", "setup", "lookup", "load", "running",
        "query", "remove", "done", "failed"}

First(c) == CASE c.kind = "scenario" -> "attach" [] c.kind = "monitor" -> "setup"
              [] c.kind = "unload" -> "query"

Init ==
  /\ hook \in {[m \in Slots |-> None], [skb |-> Foreign, drv |-> None]}
                \cup (IF Native THEN {[skb |-> None, drv |-> Foreign]} ELSE {})
  /\ cfg \in [Procs -> Configs]
  /\ pc = [p \in Procs |-> First(cfg[p])]
  /\ seen = [p \in Procs |-> None] /\ joined = [p \in Procs |-> None]

Goto(p, l) == pc' = [pc EXCEPT ![p] = l]
-----------------------------------------------------------------------------
(***************************************************************************)
(* The kernel's side: RTM_SETLINK and what RTM_GETLINK tells.              *)
(***************************************************************************)
Slot(mode) == CASE mode = "skb" -> "skb" [] mode = "drv" -> "drv"
                [] mode = "auto" -> IF Native THEN "drv" ELSE "skb"
OtherSlot(m) == IF m = "skb" THEN "drv" ELSE "skb"

\* What bpf_set_link_xdp_fd answers: the driver has no such mode, or a program of the
\* other mode is in the way.
Answer(prog, mode) ==
  IF mode = "drv" /\ ~ Native THEN "EOPNOTSUPP"
  ELSE IF prog # None /\ hook[OtherSlot(Slot(mode))] # None THEN "EEXIST"
  ELSE "ok"

SetLink(prog, mode, ok) ==
  hook' = IF ok THEN [hook EXCEPT ![Slot(mode)] = prog] ELSE hook

\* The request may fail for reasons of its own: no memory, no netlink socket.
bpf_set_link_xdp_fd(prog, mode, err) ==
  /\ err \in {Answer(prog, mode), "ENOMEM"}
  /\ SetLink(prog, mode, err = "ok")

\* bpf_get_link_xdp_id: the kernel reports the one program there is, in any mode.
bpf_get_link_xdp_id == IF hook["drv"] # None THEN hook["drv"] ELSE hook["skb"]
-----------------------------------------------------------------------------
(***************************************************************************)
(* xdp_link_attach, from load_bpf_and_xdp_attach.                          *)
(***************************************************************************)
\* The file cannot be loaded or has no such section: exit before anything is attached.
LoadFails(p) ==
  /\ pc[p] = "attach"
  /\ Goto(p, "failed")
  /\ UNCHANGED <<hook, cfg, seen, joined>>

Retries(err) == err = "EEXIST" /\ ~ UpdateIfNoexist

xdp_link_attach(p) ==
  /\ pc[p] = "attach"
  /\ \E err \in {"ok", "EEXIST", "EOPNOTSUPP", "ENOMEM"} :
       /\ bpf_set_link_xdp_fd(Custom(p), cfg[p].mode, err)
       /\ Goto(p, IF err = "ok" THEN "setup" ELSE IF Retries(err) THEN "unloadOther" ELSE "failed")
  /\ UNCHANGED <<cfg, seen, joined>>

\* The mode the code takes for the opposite one.
BugOpposite(mode) == IF mode = "drv" THEN "skb" ELSE "drv"
Opposite(mode) == IF mode = "skb" THEN "drv" ELSE "skb"

UnloadOther(p) ==
  /\ pc[p] = "unloadOther"
  /\ \E err \in {"ok", "EOPNOTSUPP", "ENOMEM"} :
       /\ bpf_set_link_xdp_fd(None, Opposite(cfg[p].mode), err)
       /\ Goto(p, IF err = "ok" THEN "again" ELSE "failed")
  /\ UNCHANGED <<cfg, seen, joined>>

AttachAgain(p) ==
  /\ pc[p] = "again"
  /\ \E err \in {"ok", "EEXIST", "ENOMEM"} :
       /\ bpf_set_link_xdp_fd(Custom(p), cfg[p].mode, err)
       /\ Goto(p, IF err = "ok" THEN "setup" ELSE "failed")
  /\ UNCHANGED <<cfg, seen, joined>>
-----------------------------------------------------------------------------
(***************************************************************************)
(* xsk_setup_xdp_prog, from xsk_socket__create: join the program that is   *)
(* there, or load one.  A failure ends the process (exit), and what it has *)
(* attached stays.                                                         *)
(***************************************************************************)
xsk_setup_xdp_prog(p) ==
  /\ pc[p] = "setup"
  /\ seen' = [seen EXCEPT ![p] = bpf_get_link_xdp_id]
  /\ Goto(p, IF bpf_get_link_xdp_id = None THEN "load" ELSE "lookup")
  /\ UNCHANGED <<hook, cfg, joined>>

\* bpf_prog_get_fd_by_id needs the program to be there still; xsk_lookup_bpf_maps needs
\* its xsks_map.
CanJoin(p) == \E m \in Slots : hook[m] = seen[p] /\ seen[p] # Foreign

xsk_lookup_bpf_maps(p) ==
  /\ pc[p] = "lookup"
  /\ joined' = [joined EXCEPT ![p] = IF CanJoin(p) THEN seen[p] ELSE @]
  /\ Goto(p, IF CanJoin(p) THEN "running" ELSE "failed")
  /\ UNCHANGED <<hook, cfg, seen>>

xsk_load_xdp_prog(p) ==
  /\ pc[p] = "load"
  /\ \E err \in {"ok", "EEXIST", "EOPNOTSUPP", "ENOMEM"} :
       /\ bpf_set_link_xdp_fd(Default(p), cfg[p].mode, err)
       /\ joined' = [joined EXCEPT ![p] = IF err = "ok" THEN Default(p) ELSE @]
       /\ Goto(p, IF err = "ok" THEN "running" ELSE "failed")
  /\ UNCHANGED <<cfg, seen>>

\* The rest of the set-up fails (the map cannot be written, bind refused, ...).
SetupFails(p) ==
  /\ pc[p] \in {"setup", "running"}
  /\ Goto(p, "failed")
  /\ UNCHANGED <<hook, cfg, seen, joined>>
-----------------------------------------------------------------------------
(***************************************************************************)
(* xdp_link_detach with no expected id: main's clean-up, and --unload.     *)
(***************************************************************************)
Stop(p) ==
  /\ pc[p] = "running"
  /\ joined' = [joined EXCEPT ![p] = None]
  /\ Goto(p, "query")
  /\ UNCHANGED <<hook, cfg, seen>>

\* destroyXDPSocket passes an ifindex of -1, which no link has: nothing is found.
Current(p) == IF cfg[p].kind = "monitor" THEN None ELSE bpf_get_link_xdp_id

xdp_link_detach(p) ==
  /\ pc[p] = "query"
  /\ seen' = [seen EXCEPT ![p] = Current(p)]
  /\ Goto(p, IF Current(p) = None THEN "done" ELSE "remove")
  /\ UNCHANGED <<hook, cfg, joined>>

\* The request to remove can fail only for want of resources.
Remove(p) ==
  /\ pc[p] = "remove"
  /\ \E err \in {"ok", "EOPNOTSUPP", "ENOMEM"} :
       /\ bpf_set_link_xdp_fd(None, cfg[p].mode, err)
       /\ Goto(p, IF err = "ok" THEN "done" ELSE "failed")
  /\ UNCHANGED <<cfg, seen, joined>>

Step(p) ==
  \/ LoadFails(p) \/ xdp_link_attach(p) \/ UnloadOther(p) \/ AttachAgain(p)
  \/ xsk_setup_xdp_prog(p) \/ xsk_lookup_bpf_maps(p) \/ xsk_load_xdp_prog(p) \/ SetupFails(p)
  \/ Stop(p) \/ xdp_link_detach(p) \/ Remove(p)

Next == \E p \in Procs : Step(p)

Spec == Init /\ [][Next]_vars
-----------------------------------------------------------------------------
TypeOK ==
  /\ hook \in [Slots -> Programs] /\ cfg \in [Procs -> Configs]
  /\ pc \in [Procs -> PCs]
  /\ seen \in [Procs -> Programs] /\ joined \in [Procs -> Programs]

Attached(prog) == \E m \in Slots : hook[m] = prog

InTheWay(p) == hook[OtherSlot(Slot(cfg[p].mode))]

\* The retry of an attach has taken away what was in its way: a second EEXIST comes only of
\* a program that another process has put there since.
RetryClears ==
  \A p \in Procs : pc[p] = "again" =>
    InTheWay(p) = None \/ \E q \in Procs \ {p} : InTheWay(p) \in ProgramsOf(q)

\* A process that runs has its socket in the map of its own program for as long as that is
\* on the interface: it joins another's program, which xsk_setup_xdp_prog may have been told
\* of, only when its own has been replaced or removed before.
OwnServes ==
  \A p \in Procs : pc[p] = "running" =>
    \A g \in ProgramsOf(p) : Attached(g) => joined[p] = g

\* A process of the scenarios that has cleaned up leaves none of its programs on the
\* interface, whoever replaced or removed them meanwhile.
CleanExit ==
  \A p \in Procs : pc[p] = "done" /\ cfg[p].kind = "scenario" =>
    ~ Attached(Custom(p)) /\ ~ Attached(Default(p))

\* The monitor's clean-up takes the program that libbpf attached for it away.
MonitorCleansUp ==
  \A p \in Procs : pc[p] = "done" /\ cfg[p].kind = "monitor" => ~ Attached(Default(p))
=============================================================================

------------------------------ MODULE BpfObject ------------------------------
(***************************************************************************)
(* Processes that load the same object file: libbpf.c from open to close,  *)
(* and the three loaders of this repository that call it.  Maps may have a *)
(* path under which they are pinned; the paths are common to all           *)
(* processes, so what one step finds at a path may be gone at the next.    *)
(* Descriptors are numbers, as in the kernel: the lowest free one is next. *)
(***************************************************************************)
EXTENDS Integers, SequencesExt, FiniteSetsExt, Functions

CONSTANTS
  Procs,
  Loaders,      \* "plain": bpf_prog_load_xattr, "reuse": load_bpf_object_file_reuse_maps,
                \* "maps": bpf_prog_load_xattr_maps
  NMaps, NProgs,
  AutoPin,      \* the maps whose definition says LIBBPF_PIN_BY_NAME
  ForeignPins   \* what may be pinned before: sets of maps with another definition

BpfObjectAssumption ==
  /\ NMaps \in Nat /\ NProgs \in Nat
  /\ Loaders \subseteq {"plain", "reuse", "maps"}
  /\ AutoPin \subseteq 1 .. NMaps
  /\ \A f \in ForeignPins : f \subseteq 1 .. NMaps

Foreign == 0                        \* a map that none of the processes made
NoFd == -1
NoPin == <<>>                       \* nothing at the path

VARIABLES
  how,          \* the loader each process uses
  pc, i,        \* where it is, and at which map or program
  maps,         \* obj->maps: fd, pin_path, pinned, reused
  progs,        \* the descriptors of obj->programs, one instance each
  btf,          \* the descriptor of obj->btf
  map_fd,       \* attr->pinned_maps[].map_fd of bpf_prog_load_xattr_maps
  files,        \* open descriptors, and what they refer to
  pins          \* the maps at the paths: who made the map, and its definition

vars == <<how, pc, i, maps, progs, btf, map_fd, files, pins>>

Map == 1 .. NMaps
Fds == 3 .. 5 + 2 * NMaps + NProgs
NewMap == [fd |-> NoFd, pin_path |-> FALSE, pinned |-> FALSE, reused |-> FALSE]

Init ==
  /\ how \in [Procs -> Loaders]
  /\ pc = [p \in Procs |-> "idle"] /\ i = [p \in Procs |-> 1]
  /\ maps = [p \in Procs |-> <<>>] /\ progs = [p \in Procs |-> <<>>]
  /\ btf = [p \in Procs |-> NoFd]
  /\ map_fd = [p \in Procs |-> [m \in Map |-> NoFd]]
  /\ files = [p \in Procs |-> <<>>]
  /\ \E f \in ForeignPins : pins = [m \in Map |-> IF m \in f THEN <<Foreign, "other">> ELSE NoPin]
-----------------------------------------------------------------------------
\* Descriptors.  zclose closes what is not negative and forgets it.
LowestFree(t) == Min(Fds \ DOMAIN t)
Opened(t, x) == [fd \in DOMAIN t \cup {LowestFree(t)} |-> IF fd \in DOMAIN t THEN t[fd] ELSE x]
zclose(t, fds) == Restrict(t, DOMAIN t \ fds)

MapFds(p) == {maps[p][m].fd : m \in DOMAIN maps[p]} \ {NoFd}
ProgFds(p) == ToSet(progs[p]) \ {NoFd}

Goto(p, l, k) == pc' = [pc EXCEPT ![p] = l] /\ i' = [i EXCEPT ![p] = k]
-----------------------------------------------------------------------------
\* __bpf_object__open: the file is read and closed again; maps and programs get their
\* entries, with -1 for every descriptor, and maps that are pinned by name their path.
\* The types of the file, if it has any, are loaded into the kernel.
OpenObject(p) ==
  /\ pc[p] = "idle"
  /\ maps' = [maps EXCEPT ![p] = [m \in Map |-> [NewMap EXCEPT !.pin_path = m \in AutoPin]]]
  /\ progs' = [progs EXCEPT ![p] = [k \in 1 .. NProgs |-> NoFd]]
  /\ \/ UNCHANGED <<btf, files>>
     \/ btf' = [btf EXCEPT ![p] = LowestFree(files[p])] /\ files' = [files EXCEPT ![p] = Opened(@, <<p, "btf">>)]
  /\ Goto(p, IF how[p] = "plain" THEN "create" ELSE "reuse", 1)
  /\ UNCHANGED <<how, map_fd, pins>>

\* The file is missing, is no eBPF object, or what it says cannot be understood.  Where
\* libelf gives no handle at all, bpf_object__elf_finish does not close the file.
OpenFails(p) ==
  /\ pc[p] = "idle"
  /\ files' = files \/ files' = [files EXCEPT ![p] = Opened(@, <<p, "elf">>)]
  /\ Goto(p, "failed", 1)
  /\ UNCHANGED <<how, btf, maps, progs, map_fd, pins>>

\* bpf_obj_get of the path of map m.
Got(p, m) == Opened(files[p], pins[m])
GotFd(p) == LowestFree(files[p])

\* bpf_map__reuse_fd: a second descriptor of the pinned map takes the place of map->fd.
\* None of the callers closes the first one.
bpf_map__reuse_fd(p, m, pinned) ==
  /\ files' = [files EXCEPT ![p] = zclose(Opened(Got(p, m), pins[m]), {maps[p][m].fd})]
  /\ maps' = [maps EXCEPT ![p][m] = [@ EXCEPT !.fd = LowestFree(Got(p, m)), !.reused = TRUE, !.pinned = @ \/ pinned]]

\* reuse_maps: every map must be pinned.  The descriptor of bpf_obj_get stays open, and
\* on an error the object does, too.
reuse_maps(p) ==
  LET m == i[p] IN
  /\ pc[p] = "reuse" /\ how[p] = "reuse"
  /\ \/ /\ m <= NMaps /\ pins[m] # NoPin
        /\ bpf_map__reuse_fd(p, m, FALSE)
        /\ Goto(p, "reuse", m + 1)
     \/ /\ m <= NMaps /\ UNCHANGED maps
        /\ files' = files \/ (pins[m] # NoPin /\ files' = [files EXCEPT ![p] = Got(p, m)])
        /\ Goto(p, "abandoned", 1)
     \/ m > NMaps /\ UNCHANGED <<files, maps>> /\ Goto(p, "create", 1)
  /\ UNCHANGED <<how, btf, progs, map_fd, pins>>

\* bpf_prog_load_xattr_maps: a map that is pinned is reused, another is pinned later.
\* Whether bpf_map__reuse_fd worked is not looked at.
ReusePinned(p) ==
  LET m == i[p] IN
  /\ pc[p] = "reuse" /\ how[p] = "maps"
  /\ \/ /\ m <= NMaps /\ pins[m] # NoPin
        /\ \/ bpf_map__reuse_fd(p, m, FALSE)
           \/ files' = [files EXCEPT ![p] = Got(p, m)] /\ UNCHANGED maps
        /\ map_fd' = [map_fd EXCEPT ![p][m] = GotFd(p)]
        /\ Goto(p, "reuse", m + 1)
     \/ /\ m <= NMaps /\ pins[m] = NoPin
        /\ UNCHANGED <<files, maps, map_fd>> /\ Goto(p, "reuse", m + 1)
     \/ m > NMaps /\ UNCHANGED <<files, maps, map_fd>> /\ Goto(p, "create", 1)
  /\ UNCHANGED <<how, btf, progs, pins>>
-----------------------------------------------------------------------------
\* bpf_object__create_maps, map i.  First what is pinned at its path.
map_is_reuse_compat(m) == pins[m][2] = "same"

CreateGet(p) ==
  LET m == i[p] IN
  /\ pc[p] = "create" /\ m <= NMaps
  /\ \/ /\ maps[p][m].pin_path /\ pins[m] # NoPin /\ map_is_reuse_compat(m)
        /\ bpf_map__reuse_fd(p, m, TRUE)
        /\ Goto(p, "create", m + 1)
     \/ /\ maps[p][m].pin_path /\ pins[m] # NoPin     \* or it cannot be read, or reused
        /\ UNCHANGED <<files, maps>> /\ Goto(p, "undo", 1)
     \/ /\ maps[p][m].pin_path => pins[m] = NoPin
        /\ UNCHANGED <<files, maps>>
        /\ IF maps[p][m].fd # NoFd THEN Goto(p, "create", m + 1) ELSE Goto(p, "make", m)
  /\ UNCHANGED <<how, btf, progs, map_fd, pins>>

\* Then the map is made and, if it holds a section's data, filled.
CreateMake(p) ==
  LET m == i[p] IN
  /\ pc[p] = "make"
  /\ files' = [files EXCEPT ![p] = Opened(@, <<p, "same">>)]
  /\ maps' = [maps EXCEPT ![p][m].fd = LowestFree(files[p])]
  /\ IF maps[p][m].pin_path THEN Goto(p, "pin", m) ELSE Goto(p, "create", m + 1)
  /\ UNCHANGED <<how, btf, progs, map_fd, pins>>

\* The kernel has no such map, or it cannot be filled: the maps before it are closed.
CreateFails(p) ==
  LET m == i[p] IN
  /\ pc[p] = "make"
  /\ files' = [files EXCEPT ![p] = zclose(@, {maps[p][j].fd : j \in 1 .. m - 1})]
  /\ maps' = [maps EXCEPT ![p] = [j \in Map |-> IF j < m THEN [maps[p][j] EXCEPT !.fd = NoFd] ELSE maps[p][j]]]
  /\ Goto(p, "undo", 1)
  /\ UNCHANGED <<how, btf, progs, map_fd, pins>>

\* And pinned, unless somebody else has pinned one meanwhile.
bpf_map__pin(p, m) ==
  /\ pins[m] = NoPin
  /\ pins' = [pins EXCEPT ![m] = files[p][maps[p][m].fd]]
  /\ maps' = [maps EXCEPT ![p][m] = [@ EXCEPT !.pinned = TRUE, !.pin_path = TRUE]]

CreatePin(p) ==
  LET m == i[p] IN
  /\ pc[p] = "pin"
  /\ \/ bpf_map__pin(p, m) /\ Goto(p, "create", m + 1)
     \/ UNCHANGED <<pins, maps>> /\ Goto(p, "undo", 1)
  /\ UNCHANGED <<how, btf, progs, map_fd, files>>

\* bpf_object__relocate and bpf_object__load_progs: the programs are loaded one by one.
LoadProgram(p) ==
  LET k == i[p] - NMaps IN
  /\ pc[p] = "create" /\ i[p] > NMaps
  /\ \/ /\ k <= NProgs
        /\ files' = [files EXCEPT ![p] = Opened(@, <<p, "prog">>)]
        /\ progs' = [progs EXCEPT ![p][k] = LowestFree(files[p])]
        /\ Goto(p, "create", i[p] + 1)
     \/ /\ k <= NProgs
        /\ UNCHANGED <<files, progs>> /\ Goto(p, "undo", 1)
     \/ /\ k > NProgs
        /\ UNCHANGED <<files, progs>> /\ Goto(p, IF how[p] = "maps" THEN "pinrest" ELSE "loaded", 1)
  /\ UNCHANGED <<how, btf, maps, map_fd, pins>>

\* bpf_prog_load_xattr_maps again: the maps that were not pinned.  An error is ignored.
PinRest(p) ==
  LET m == i[p] IN
  /\ pc[p] = "pinrest"
  /\ \/ /\ m <= NMaps /\ map_fd[p][m] = NoFd
        /\ \/ bpf_map__pin(p, m) /\ map_fd' = [map_fd EXCEPT ![p][m] = maps[p][m].fd]
           \/ maps[p][m].pinned /\ UNCHANGED <<pins, maps>> /\ map_fd' = [map_fd EXCEPT ![p][m] = maps[p][m].fd]
           \/ UNCHANGED <<pins, maps, map_fd>>
        /\ Goto(p, "pinrest", m + 1)
     \/ /\ m <= NMaps /\ map_fd[p][m] # NoFd
        /\ UNCHANGED <<pins, maps, map_fd>> /\ Goto(p, "pinrest", m + 1)
     \/ m > NMaps /\ UNCHANGED <<pins, maps, map_fd>> /\ Goto(p, "loaded", 1)
  /\ UNCHANGED <<how, btf, progs, files>>
-----------------------------------------------------------------------------
\* A load that failed: the maps this load has pinned are unpinned, map by map.
BugUndoReused(p, m) == maps[p][m].pinned
PinnedByLoad(p, m) == maps[p][m].pinned /\ ~ maps[p][m].reused

Undo(p) ==
  LET m == i[p] IN
  /\ pc[p] = "undo" /\ m <= NMaps
  /\ IF PinnedByLoad(p, m)
     THEN /\ pins' = [pins EXCEPT ![m] = NoPin]
          /\ maps' = [maps EXCEPT ![p][m].pinned = FALSE]
     ELSE UNCHANGED <<pins, maps>>
  /\ Goto(p, "undo", m + 1)
  /\ UNCHANGED <<how, btf, progs, map_fd, files>>

\* bpf_object__unload: the descriptors of maps and programs are closed; bpf_object__close
\* also closes the types and frees the object.
bpf_object__unload(p, more) ==
  /\ files' = [files EXCEPT ![p] = zclose(@, MapFds(p) \cup ProgFds(p) \cup more)]
  /\ maps' = [maps EXCEPT ![p] = [m \in DOMAIN @ |-> [@[m] EXCEPT !.fd = NoFd]]]
  /\ progs' = [progs EXCEPT ![p] = [k \in DOMAIN @ |-> NoFd]]

bpf_object__close(p) ==
  /\ bpf_object__unload(p, {btf[p]})
  /\ btf' = [btf EXCEPT ![p] = NoFd]

\* The end of a load that failed.  The loaders close the object, except for
\* load_bpf_object_file_reuse_maps.
LoadFailed(p) ==
  /\ pc[p] = "undo" /\ i[p] > NMaps
  /\ \/ how[p] # "reuse" /\ bpf_object__close(p) /\ Goto(p, "failed", 1)
     \/ how[p] = "reuse" /\ bpf_object__unload(p, {}) /\ UNCHANGED btf /\ Goto(p, "abandoned", 1)
  /\ UNCHANGED <<how, map_fd, pins>>

CloseObject(p) ==
  /\ pc[p] = "loaded"
  /\ bpf_object__close(p)
  /\ Goto(p, "closed", 1)
  /\ UNCHANGED <<how, map_fd, pins>>

Step(p) ==
  \/ OpenObject(p) \/ OpenFails(p) \/ reuse_maps(p) \/ ReusePinned(p)
  \/ CreateGet(p) \/ CreateMake(p) \/ CreateFails(p) \/ CreatePin(p)
  \/ LoadProgram(p) \/ PinRest(p) \/ Undo(p) \/ LoadFailed(p)

Next == \E p \in Procs : Step(p) \/ CloseObject(p)

Spec == Init /\ [][Next]_vars /\ \A p \in Procs : WF_vars(Step(p))
-----------------------------------------------------------------------------
TypeOK ==
  /\ \A p \in Procs :
       /\ DOMAIN files[p] \subseteq Fds
       /\ maps[p] = <<>> \/ maps[p] \in [Map -> [fd : Fds \cup {NoFd}, pin_path : BOOLEAN, pinned : BOOLEAN, reused : BOOLEAN]]
       /\ ToSet(progs[p]) \subseteq Fds \cup {NoFd}
  /\ \A m \in Map : pins[m] = NoPin \/ (pins[m][1] \in Procs \cup {Foreign} /\ pins[m][2] \in {"same", "other"})

\* A descriptor the object holds is open and is held once: no path of errors closes one
\* twice or keeps one that is closed, which the next open would give to something else.
HeldIsOpen ==
  \A p \in Procs :
    /\ MapFds(p) \cup ProgFds(p) \cup ({btf[p]} \ {NoFd}) \subseteq DOMAIN files[p]
    /\ \A k \in DOMAIN progs[p] : progs[p][k] # NoFd => files[p][progs[p][k]] = <<p, "prog">>
    /\ \A m, n \in DOMAIN maps[p] : m # n /\ maps[p][m].fd = maps[p][n].fd => maps[p][m].fd = NoFd
    /\ MapFds(p) \cap ProgFds(p) = {} /\ btf[p] \notin MapFds(p) \cup ProgFds(p)

\* Once an object is closed, all that is left of it are the descriptors bpf_obj_get gave
\* for maps that were pinned by others, and the file that libelf had no handle for.
NothingElseLeaks ==
  \A p \in Procs : pc[p] \in {"closed", "failed"} =>
    \A fd \in DOMAIN files[p] : files[p][fd] = <<p, "elf">> \/ files[p][fd][1] # p

\* A load that failed leaves no map of its own behind, whatever other processes did.
FailureLeavesNoPin ==
  \A p \in Procs : pc[p] = "undo" /\ i[p] > NMaps => \A m \in Map : pins[m] = NoPin \/ pins[m][1] # p

\* What a failed load unpins is what it pinned, never the map of another process.
UndoIsOwn ==
  \A p \in Procs, m \in Map :
    pc[p] = "undo" /\ pins[m] # NoPin /\ pins'[m] = NoPin /\ i'[p] # i[p] => pins[m][1] = p
UnpinsItsOwn == [][UndoIsOwn]_vars

\* As long as no load had to unpin, the processes that share a path share the map: of two
\* that both found nothing there, one does not load.
SharedMap ==
  \A p, q \in Procs, m \in Map :
    /\ pc[p] = "loaded" /\ pc[q] = "loaded" /\ maps[p][m].pinned /\ maps[q][m].pinned
    /\ \A r \in Procs : pc[r] \notin {"undo", "failed", "abandoned"}
    => files[p][maps[p][m].fd] = files[q][maps[q][m].fd]

\* Every load comes to an end.
LoadEnds == \A p \in Procs : <>(pc[p] \in {"loaded", "failed", "abandoned"})

\* common_libbpf.c: "Use FD from pinned map as replacement" - what the caller gets as the
\* descriptor of a pinned map is the map the program uses.
PinnedIsUsed ==
  \A p \in Procs : pc[p] = "loaded" /\ how[p] = "maps" =>
    \A m \in Map : map_fd[p][m] # NoFd => files[p][map_fd[p][m]] = files[p][maps[p][m].fd]
=============================================================================

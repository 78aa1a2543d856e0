------------------------------- MODULE BpfPin -------------------------------
(***************************************************************************)
(* Pinning a loaded object (libbpf.c, from make_parent_dir to              *)
(* bpf_object__pin): maps by the path they remember, programs with one     *)
(* instance as a file, programs with several as a directory of files, and  *)
(* what has been done so far undone when one of the steps fails.  Other    *)
(* processes pin at the same paths between the steps.                      *)
(***************************************************************************)
EXTENDS Integers, Sequences, FiniteSets

CONSTANTS
  NMaps, NProgs,
  Instances,    \* instances.nr of each program
  Dirs,         \* directories on the BPF file system
  ProgDirs,     \* those in which programs are pinned
  NULL,         \* no path
  Repath        \* whether bpf_map__set_pin_path is also called on a map that is pinned

BpfPinAssumption ==
  /\ NMaps \in Nat /\ NProgs \in Nat /\ Instances \in [1 .. NProgs -> Nat]
  /\ ProgDirs \subseteq Dirs /\ NULL \notin Dirs /\ Repath \in BOOLEAN

Maps == 1 .. NMaps
Progs == 1 .. NProgs
MapPath(d, m) == <<d, "map", m>>
Files(d, k) == IF Instances[k] = 1 THEN {<<d, "prog", k>>} ELSE {<<d, "prog", k, n>> : n \in 1 .. Instances[k]}
InstancePath(d, k, n) == IF Instances[k] = 1 THEN <<d, "prog", k>> ELSE <<d, "prog", k, n>>
Paths == {MapPath(d, m) : d \in Dirs, m \in Maps} \cup UNION {Files(d, k) : d \in ProgDirs, k \in Progs}

VARIABLES
  pin_path,     \* map->pin_path: the directory, or NULL
  pinned,       \* map->pinned
  fs,           \* who has pinned something at a path: "us", "other" or "none"
  call,         \* the call that runs: its name and its path
  i, n,         \* the map or program, and the instance, it is at
  err,          \* what it will answer
  before        \* history: the paths that were ours when the call began

vars == <<pin_path, pinned, fs, call, i, n, err, before>>

Ours == {p \in Paths : fs[p] = "us"}

Idle == <<"idle", NULL>>

Init ==
  \* The load has pinned some maps, and reused others from the pins of another process, which
  \* count as pinned too (bpf_object__reuse_map).
  /\ \E origin \in [Maps -> {"none", "us", "other"}], d \in Dirs :
       /\ pin_path = [m \in Maps |-> IF origin[m] = "none" THEN NULL ELSE d]
       /\ pinned = [m \in Maps |-> origin[m] # "none"]
       /\ fs = [p \in Paths |-> IF \E m \in Maps : p = MapPath(d, m) THEN origin[p[3]] ELSE "none"]
  /\ call = Idle /\ i = 1 /\ n = 1 /\ err = 0 /\ before = {}

\* bpf_obj_pin of something of ours; unlink removes the file, whoever pinned it.
Pins(p) == fs[p] = "none" /\ fs' = [fs EXCEPT ![p] = "us"]
Unlinks(p) == fs[p] # "none" /\ fs' = [fs EXCEPT ![p] = "none"]

Goto(name, k, j, e) == call' = <<name, call[2]>> /\ i' = k /\ n' = j /\ err' = e /\ UNCHANGED before
Return(e) == call' = Idle /\ i' = 1 /\ n' = 1 /\ err' = e /\ before' = {}

Call(name, d) ==
  /\ call = Idle
  /\ call' = <<name, d>> /\ i' = 1 /\ n' = 1 /\ err' = 0
  /\ before' = Ours
  /\ UNCHANGED <<pin_path, pinned, fs>>
-----------------------------------------------------------------------------
\* Whether bpf_map__pin with this directory would pin, has nothing to do, or refuses.
MapDir(m, d) == IF pin_path[m] # NULL THEN pin_path[m] ELSE d
Refused(m, d) == d # NULL /\ pin_path[m] # NULL /\ d # pin_path[m]

bpf_map__pin(m, d) ==
  /\ ~ Refused(m, d) /\ MapDir(m, d) # NULL
  /\ \/ pin_path[m] # NULL /\ pinned[m] /\ UNCHANGED <<fs, pin_path, pinned>>
     \/ /\ ~ pinned[m]
        /\ Pins(MapPath(MapDir(m, d), m))
        /\ pin_path' = [pin_path EXCEPT ![m] = MapDir(m, d)]
        /\ pinned' = [pinned EXCEPT ![m] = TRUE]

\* The path differs, it is taken, or the directory cannot be used: the path is remembered.
MapPinFails(m, d) ==
  \/ /\ Refused(m, d) \/ (pinned[m] /\ pin_path[m] = NULL)
     /\ UNCHANGED <<fs, pin_path, pinned>>
  \/ /\ ~ Refused(m, d) /\ ~ pinned[m]
     /\ pin_path' = [pin_path EXCEPT ![m] = MapDir(m, d)]
     /\ UNCHANGED <<fs, pinned>>

bpf_map__unpin(m, d) ==
  /\ ~ Refused(m, d) /\ MapDir(m, d) # NULL
  /\ Unlinks(MapPath(MapDir(m, d), m))
  /\ pinned' = [pinned EXCEPT ![m] = FALSE]
  /\ UNCHANGED pin_path
MapUnpinFails(m, d) ==
  /\ Refused(m, d) \/ fs[MapPath(MapDir(m, d), m)] = "none"
  /\ UNCHANGED <<fs, pin_path, pinned>>

\* bpf_map__set_pin_path: the old path is forgotten, pinned stays.
bpf_map__set_pin_path(m, d) ==
  /\ call = Idle
  /\ Repath \/ ~ pinned[m]
  /\ pin_path' = [pin_path EXCEPT ![m] = d]
  /\ UNCHANGED <<pinned, fs, call, i, n, err, before>>
-----------------------------------------------------------------------------
\* bpf_object__pin_maps.  Without a path the maps that have none are left out.
LeftOut(m) == call[2] = NULL /\ pin_path[m] = NULL

UndoMaps == Goto("undo_maps", i - 1, 1, -1)

pin_maps ==
  /\ call[1] \in {"pin_maps", "pin"} /\ i <= NMaps
  /\ \/ LeftOut(i) /\ UNCHANGED <<pin_path, pinned, fs>> /\ Goto(call[1], i + 1, 1, 0)
     \/ ~ LeftOut(i) /\ bpf_map__pin(i, call[2]) /\ Goto(call[1], i + 1, 1, 0)
     \/ ~ LeftOut(i) /\ MapPinFails(i, call[2]) /\ UndoMaps

\* The maps before are unpinned, those too that were pinned already.
undo_maps ==
  /\ call[1] = "undo_maps" /\ i >= 1
  /\ IF pin_path[i] # NULL /\ fs[MapPath(pin_path[i], i)] # "none"
     THEN bpf_map__unpin(i, NULL)
     ELSE UNCHANGED <<pin_path, pinned, fs>>
  /\ Goto("undo_maps", i - 1, 1, -1)

MapsDone ==
  /\ UNCHANGED <<pin_path, pinned, fs>>
  /\ \/ call[1] = "pin_maps" /\ i > NMaps /\ Return(0)
     \/ call[1] = "undo_maps" /\ i = 0 /\ Return(-1)
     \/ call[1] = "pin" /\ i > NMaps /\ Goto("pin_progs_of_pin", 1, 1, 0)

unpin_maps ==
  /\ call[1] \in {"unpin_maps", "undo_pin"} /\ i <= NMaps
  /\ \/ LeftOut(i) /\ UNCHANGED <<pin_path, pinned, fs>> /\ Goto(call[1], i + 1, 1, err)
     \/ ~ LeftOut(i) /\ bpf_map__unpin(i, call[2]) /\ Goto(call[1], i + 1, 1, err)
     \/ ~ LeftOut(i) /\ MapUnpinFails(i, call[2]) /\ Return(-1)

UnpinMapsDone ==
  /\ call[1] \in {"unpin_maps", "undo_pin"} /\ i > NMaps
  /\ UNCHANGED <<pin_path, pinned, fs>>
  /\ Return(err)
-----------------------------------------------------------------------------
\* bpf_object__pin_programs and bpf_program__pin: instance by instance.
PinningProgs == call[1] \in {"pin_programs", "pin_progs_of_pin"}
UndoOf(name) == IF name = "pin_programs" THEN "undo_programs" ELSE "undo_progs_of_pin"

pin_instance ==
  /\ PinningProgs /\ i <= NProgs
  /\ Pins(InstancePath(call[2], i, n))
  /\ IF n < Instances[i] THEN Goto(call[1], i, n + 1, 0) ELSE Goto(call[1], i + 1, 1, 0)
  /\ UNCHANGED <<pin_path, pinned>>

\* The path is taken or cannot be used: the instances before it and then the programs
\* before it are unpinned.
PinInstanceFails ==
  /\ PinningProgs /\ i <= NProgs
  /\ Goto(UndoOf(call[1]), i, n - 1, -1)
  /\ UNCHANGED <<pin_path, pinned, fs>>

undo_programs ==
  /\ call[1] \in {"undo_programs", "undo_progs_of_pin"} /\ i >= 1
  /\ \/ /\ n >= 1                                     \* the instances of this program
        /\ fs' = [fs EXCEPT ![InstancePath(call[2], i, n)] = "none"]
        /\ Goto(call[1], i, n - 1, -1)
     \/ /\ n = 0                                      \* bpf_program__unpin of the one before
        /\ fs' = [p \in Paths |-> IF i > 1 /\ p \in Files(call[2], i - 1) THEN "none" ELSE fs[p]]
        /\ Goto(call[1], i - 1, 0, -1)
  /\ UNCHANGED <<pin_path, pinned>>

ProgsDone ==
  /\ UNCHANGED <<pin_path, pinned, fs>>
  /\ \/ PinningProgs /\ i > NProgs /\ Return(0)
     \/ call[1] = "undo_programs" /\ i = 0 /\ Return(-1)
     \/ call[1] = "undo_progs_of_pin" /\ i = 0 /\ Goto("undo_pin", 1, 1, -1)

\* bpf_program__unpin stops at the first file that is not there.
unpin_programs ==
  /\ call[1] = "unpin_programs" /\ i <= NProgs
  /\ \/ /\ Unlinks(InstancePath(call[2], i, n))
        /\ IF n < Instances[i] THEN Goto(call[1], i, n + 1, 0) ELSE Goto(call[1], i + 1, 1, 0)
     \/ fs[InstancePath(call[2], i, n)] = "none" /\ UNCHANGED fs /\ Return(-1)
  /\ UNCHANGED <<pin_path, pinned>>
UnpinProgramsDone ==
  /\ call[1] = "unpin_programs" /\ i > NProgs
  /\ Return(0)
  /\ UNCHANGED <<pin_path, pinned, fs>>
-----------------------------------------------------------------------------
\* Another process pins something at a path that is free.
Other == \E p \in Paths :
  /\ fs[p] = "none" /\ fs' = [fs EXCEPT ![p] = "other"]
  /\ UNCHANGED <<pin_path, pinned, call, i, n, err, before>>

Undoing == call[1] \in {"undo_maps", "undo_pin", "undo_programs", "undo_progs_of_pin"}
Running ==
  \/ pin_maps \/ undo_maps \/ MapsDone \/ unpin_maps \/ UnpinMapsDone
  \/ pin_instance \/ PinInstanceFails \/ undo_programs \/ ProgsDone
  \/ unpin_programs \/ UnpinProgramsDone

Next ==
  \/ Running \/ Other
  \/ \E d \in Dirs \cup {NULL} : Call("pin_maps", d) \/ Call("unpin_maps", d)
  \/ \E d \in ProgDirs : Call("pin_programs", d) \/ Call("unpin_programs", d) \/ Call("pin", d)
  \/ \E m \in Maps, d \in Dirs \cup {NULL} : bpf_map__set_pin_path(m, d)

Spec == Init /\ [][Next]_vars /\ WF_vars(Running)
-----------------------------------------------------------------------------
TypeOK ==
  /\ pin_path \in [Maps -> Dirs \cup {NULL}] /\ pinned \in [Maps -> BOOLEAN]
  /\ fs \in [Paths -> {"us", "other", "none"}]
  /\ i \in 0 .. NMaps + NProgs + 1 /\ n \in Nat /\ err \in {0, -1}

\* The files of other processes that maps were reused from.
ReusedPins ==
  {MapPath(pin_path[m], m) : m \in {x \in Maps : pinned[x] /\ pin_path[x] # NULL}} \ Ours

\* What a call undoes after an error is its own: no file of another process is removed,
\* not even at the path where the call failed because it was taken.  With one exception: the
\* file that a map was reused from, since the undoing of bpf_object__pin_maps unpins every map
\* before the one that failed, whoever pinned it.
UndoSpares == Undoing => \A p \in Paths \ ReusedPins : fs[p] = "other" => fs'[p] = "other"
UndoTakesOwn == [][UndoSpares]_vars

\* pinned says that a map is at its path: this process's, or the one the map was reused from.
PinnedIsThere ==
  \A m \in Maps : pinned[m] /\ pin_path[m] # NULL => fs[MapPath(pin_path[m], m)] # "none"

\* Pinning is all or nothing: a call that fails leaves nothing pinned that was not before.
UndoneWhole == Undoing /\ call' = Idle => Ours' \subseteq before
NoHalfPin == [][UndoneWhole]_vars

\* Every call answers.
CallsEnd == (call # Idle) ~> (call = Idle)

\* libbpf.h: "pin_maps and unpin_maps can both be called with a NULL path, in which case
\* they will use the pin_path attribute of each map".
PinsAtPath ==
  [][call = <<"pin_maps", NULL>> /\ call' = Idle /\ err' = 0 =>
       \A m \in Maps : pin_path[m] # NULL => fs[MapPath(pin_path[m], m)] # "none"]_vars
=============================================================================

\* The parts of libbpf that load, one at a time.
CONSTANT Nil = Nil
SPECIFICATION Spec
INVARIANTS MapsAsDefined BtfAccepted InfoFound
PROPERTIES FailureUndone LoadTold CodeRelocated

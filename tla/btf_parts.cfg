\* The parts of libbpf that handle BTF, one at a time.
CONSTANT Nil = Nil
SPECIFICATION Spec
INVARIANTS DumpIsFaithful
PROPERTIES BtfRead TypesAnswered Merged IsMultiMap

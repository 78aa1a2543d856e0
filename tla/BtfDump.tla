------------------------------- MODULE BtfDump -------------------------------
(***************************************************************************)
(* btf_dump: types written out as C (btf_dump.c).  A call orders the types *)
(* that the one asked for depends on, and then emits them, with forward    *)
(* declarations where a pointer is enough and with numbered names where    *)
(* two types share one.                                                    *)
(*                                                                         *)
(* The text is abstracted to the sequence of declarations at top level     *)
(* (each a type, and whether it is only declared), the names the types and *)
(* enumerators were given, and nothing of the syntax (BtfDecl, BtfLayout). *)
(* A name is a sequence: <<"s">>, and <<"s", 2>> for s___2; <<>> is none.  *)
(***************************************************************************)
EXTENDS Integers, Sequences, FiniteSets, SequencesExt

CONSTANTS
  Worlds,       \* sequences of types, as compilers produce them
  NoMemory      \* whether an allocation may fail

BtfDumpAssumption == NoMemory \in BOOLEAN

VARIABLES
  T,            \* the types
  d,            \* struct btf_dump
  asked,        \* the types dumped with success
  ret           \* of the last call

vars == <<T, d, asked, ret>>

Ids == 1 .. Len(T)
Type(id) == IF id = 0 THEN [kind |-> "void", name |-> <<>>, type |-> 0, refs |-> <<>>, values |-> <<>>] ELSE T[id]
Composite == {"struct", "union"}
Anonymous(id) == Type(id).name = <<>>
BUILTIN == <<"__builtin_va_list">>

\* btf_dump_mark_referenced: what a type refers to.  Refs are the members of a structure or the
\* parameters of a prototype; the type that a prototype returns is not marked.
Refs(id) ==
  LET t == Type(id) IN
  IF t.kind \in {"ptr", "const", "typedef", "array"} THEN {t.type} ELSE ToSet(t.refs)

-----------------------------------------------------------------------------
(* Names *)

Count(tab, name) == IF \E k \in 1 .. Len(tab) : tab[k].name = name
                    THEN tab[CHOOSE k \in 1 .. Len(tab) : tab[k].name = name].n ELSE 0

\* btf_dump_name_dups.
Dups(tab, name) ==
  IF Count(tab, name) = 0 THEN Append(tab, [name |-> name, n |-> 1])
  ELSE [k \in 1 .. Len(tab) |-> IF tab[k].name = name THEN [tab[k] EXCEPT !.n = @ + 1] ELSE tab[k]]

Numbered(name, n) == IF n > 1 THEN Append(name, n) ELSE name

\* btf_dump_resolve_name, in the table of tags or in that of identifiers.  (A numbered name is
\* cut at 255 characters; names here are shorter.)
Resolve(s, id, tab) ==
  IF Anonymous(id) THEN s
  ELSE IF s.cached # "ok" THEN [s EXCEPT !.crashed = TRUE]
  ELSE IF s.resolved[id] THEN s
  ELSE LET dups == Dups(s[tab], Type(id).name) IN
       [s EXCEPT ![tab] = dups, !.resolved[id] = TRUE,
                 !.name[id] = Numbered(Type(id).name, Count(dups, Type(id).name))]

-----------------------------------------------------------------------------
(* What a definition says of the types in it: only the names it resolves *)

\* The values of an enumeration share their namespace with typedefs.
RECURSIVE EnumValues(_, _)
EnumValues(s, values) ==
  IF values = <<>> THEN s
  ELSE LET dups == Dups(s.idents, Head(values)) IN
       EnumValues([s EXCEPT !.idents = dups,
                            !.values = Append(@, Numbered(Head(values), Count(dups, Head(values))))], Tail(values))
EnumDef(s, id) == EnumValues(Resolve(s, id, "tags"), Type(id).values)

\* A prototype whose only parameter is void has none, and a last one that is void stands for "...".
Args(id) ==
  LET p == Type(id).refs IN
  IF p = <<>> THEN p ELSE IF Last(p) = 0 THEN Front(p) ELSE p

\* btf_dump_emit_type_decl: to the type at the end of the chain, then the parameters.
RECURSIVE Decl(_, _, _), DeclAll(_, _), StructDef(_, _)
DeclAll(s, ids) == IF ids = <<>> THEN s ELSE DeclAll(Decl(s, Head(ids), <<>>), Tail(ids))
StructDef(s, id) == DeclAll(Resolve(s, id, "tags"), Type(id).refs)
Decl(s, id, protos) ==
  LET t == Type(id)
      end == CASE t.kind \in Composite /\ Anonymous(id) -> StructDef(s, id)
               [] t.kind = "enum" /\ Anonymous(id) -> EnumDef(s, id)
               [] t.kind \in Composite \cup {"enum", "fwd"} /\ ~ Anonymous(id) -> Resolve(s, id, "tags")
               [] t.kind = "typedef" -> Resolve(s, id, "idents")
               [] OTHER -> s IN
  IF t.kind \in {"ptr", "const", "array"} THEN Decl(s, t.type, protos)
  ELSE IF t.kind = "proto" THEN Decl(s, t.type, Append(protos, id))
  ELSE DeclAll(end, FlattenSeq([k \in 1 .. Len(protos) |-> Args(protos[k])]))

Put(s, id, def) == [s EXCEPT !.out = Append(@, [id |-> id, def |-> def])]
EmitFwd(s, id) == Put([Resolve(s, id, "tags") EXCEPT !.fwd[id] = TRUE], id, FALSE)
\* btf_dump_emit_typedef_def.  (For __gnuc_va_list of void it writes another type than the one
\* given, a builtin; that the typedef is there is all that is told apart here.)
EmitTypedef(s, id) ==
  IF Type(id).name = BUILTIN THEN s ELSE Put(Decl(Resolve(s, id, "idents"), Type(id).type, <<>>), id, TRUE)

-----------------------------------------------------------------------------
(* btf_dump_order_type: 1 for a strong link, 0 for a weak one, -1 for ELOOP *)

Res(s, r) == [s |-> s, r |-> r]
Ordered(s, id) == [s EXCEPT !.order[id] = "ordered"]
Queue(s, id) == [s EXCEPT !.queue = Append(@, id)]

\* A structure is only a weak link when it has a name and is behind a pointer.
BugWeak(id, through_ptr) == through_ptr
Weak(id, through_ptr) == through_ptr /\ ~ Anonymous(id)

\* A type met again on the way to itself.
Met(id, through_ptr) == IF Type(id).kind \in Composite /\ Weak(id, through_ptr) THEN 0 ELSE -1

RECURSIVE Order(_, _, _), OrderAll(_, _, _, _)
\* All of them, until one fails; strong if one is.
OrderAll(s, ids, through_ptr, strong) ==
  IF ids = <<>> THEN Res(s, strong)
  ELSE LET o == Order(s, Head(ids), through_ptr) IN
       IF o.r < 0 THEN o ELSE OrderAll(o.s, Tail(ids), through_ptr, IF o.r > 0 THEN 1 ELSE strong)

Order(s, id, through_ptr) ==
  LET t == Type(id) IN
  IF s.order[id] = "ordered" THEN Res(s, 1)
  ELSE IF s.order[id] = "ordering" THEN Res(s, Met(id, through_ptr))
  ELSE CASE t.kind = "int" -> Res(Ordered(s, id), 0)
         [] t.kind = "ptr" -> LET o == Order(s, t.type, TRUE) IN Res(Ordered(o.s, id), o.r)
         [] t.kind \in {"array", "const"} -> Order(s, t.type, through_ptr)
         [] t.kind \in Composite ->
              IF Weak(id, through_ptr) THEN Res(s, 0)
              ELSE LET o == OrderAll([s EXCEPT !.order[id] = "ordering"], t.refs, FALSE, 0) IN
                   IF o.r < 0 THEN o
                   ELSE Res(Ordered(IF Anonymous(id) THEN o.s ELSE Queue(o.s, id), id), 1)
         [] t.kind \in {"enum", "fwd"} ->
              Res(Ordered(IF ~ Anonymous(id) \/ ~ s.referenced[id] THEN Queue(s, id) ELSE s, id), 1)
         [] t.kind = "typedef" ->
              LET o == Order(s, t.type, through_ptr) IN
              IF o.r < 0 \/ (through_ptr /\ o.r = 0) THEN o ELSE Res(Ordered(Queue(o.s, id), id), 1)
         [] t.kind = "proto" -> OrderAll(s, <<t.type>> \o t.refs, through_ptr, 0)
         [] t.kind = "void" -> Res(s, -2)

-----------------------------------------------------------------------------
(* btf_dump_emit_type *)

RECURSIVE Emit(_, _, _), EmitAll(_, _, _)
EmitAll(s, ids, cont) == IF ids = <<>> THEN s ELSE EmitAll(Emit(s, Head(ids), cont), Tail(ids), cont)

\* A type met again while it is being emitted.
Again(s, id, cont) ==
  LET t == Type(id) IN
  IF s.fwd[id] THEN s
  ELSE IF t.kind \in Composite THEN IF id = cont \/ Anonymous(id) THEN s ELSE EmitFwd(s, id)
  ELSE IF t.kind = "typedef" THEN [EmitTypedef(s, id) EXCEPT !.fwd[id] = TRUE] ELSE s

\* The fields of a structure are written where it is defined: there what they refer to must
\* have been declared.
EmitStruct(s, id, cont) ==
  LET emitting == [s EXCEPT !.emit[id] = "emitting"]
      fields == IF cont = 0 \/ Anonymous(id) THEN EmitAll(emitting, Type(id).refs, IF Anonymous(id) THEN cont ELSE id)
                ELSE IF ~ s.fwd[id] /\ id # cont THEN EmitFwd(emitting, id) ELSE emitting IN
  IF cont = 0 THEN [Put(StructDef(fields, id), id, TRUE) EXCEPT !.emit[id] = "emitted"]
  ELSE [fields EXCEPT !.emit[id] = "no"]

EmitTypedefType(s, id) ==
  LET below == Emit([s EXCEPT !.emit[id] = "emitting"], Type(id).type, id) IN
  [(IF below.fwd[id] THEN below ELSE EmitTypedef(below, id)) EXCEPT !.emit[id] = "emitted"]

Emit(s, id, cont) ==
  LET t == Type(id) IN
  IF s.emit[id] = "emitted" THEN s
  ELSE IF s.emit[id] = "emitting" THEN Again(s, id, cont)
  ELSE CASE t.kind = "int" -> [s EXCEPT !.emit[id] = "emitted"]
         [] t.kind = "enum" -> [(IF cont = 0 THEN Put(EnumDef(s, id), id, TRUE) ELSE s) EXCEPT !.emit[id] = "emitted"]
         [] t.kind \in {"ptr", "const", "array"} -> Emit(s, t.type, cont)
         [] t.kind = "fwd" -> [Put(Resolve(s, id, "tags"), id, FALSE) EXCEPT !.emit[id] = "emitted"]
         [] t.kind = "typedef" -> EmitTypedefType(s, id)
         [] t.kind \in Composite -> EmitStruct(s, id, cont)
         [] t.kind = "proto" -> EmitAll(s, <<t.type>> \o t.refs, cont)
         [] t.kind = "void" -> s

-----------------------------------------------------------------------------
(* Calls *)

None == [order |-> [id \in 0 .. Len(T) |-> "no"], emit |-> [id \in 0 .. Len(T) |-> "no"],
         fwd |-> [id \in 0 .. Len(T) |-> FALSE], referenced |-> [id \in 0 .. Len(T) |-> FALSE],
         resolved |-> [id \in 0 .. Len(T) |-> FALSE], name |-> [id \in 0 .. Len(T) |-> <<>>],
         tags |-> <<>>, idents |-> <<>>, values |-> <<>>, queue |-> <<>>, out |-> <<>>,
         cached |-> "none", crashed |-> FALSE]

Init == T \in Worlds /\ d = None /\ asked = {} /\ ret = 0

\* The state of the types, made by the first call: void needs nothing, and what is referred to is marked.
Fresh ==
  [None EXCEPT !.order[0] = "ordered", !.emit[0] = "emitted", !.cached = "ok",
               !.referenced = [id \in 0 .. Len(T) |->
                                 \E x \in Ids : id \in Refs(x)]]

\* btf_dump__dump_type.
Dump(id) ==
  LET s0 == IF d.cached = "none" THEN Fresh ELSE d
      o == Order([s0 EXCEPT !.queue = <<>>], id, FALSE) IN
  /\ ~ d.crashed
  /\ IF o.r < 0 THEN d' = o.s /\ ret' = o.r /\ UNCHANGED asked
     ELSE d' = EmitAll(o.s, o.s.queue, 0) /\ ret' = 0 /\ asked' = asked \cup {id}
  /\ UNCHANGED T

\* The second allocation of the first call fails: type_states is there, cached_names is not.
DumpNoMemory ==
  /\ NoMemory /\ d.cached = "none"
  /\ d' = [d EXCEPT !.cached = "null"] /\ ret' = -12
  /\ UNCHANGED <<T, asked>>

Next == (\E id \in Ids : Dump(id)) \/ DumpNoMemory

Spec == Init /\ [][Next]_vars

-----------------------------------------------------------------------------
(* Properties: the rules of C that the output has to satisfy *)

TypeOK ==
  /\ asked \subseteq Ids /\ ret \in {0, -1, -2, -12} /\ d.cached \in {"none", "null", "ok"}
  /\ \A id \in Ids : /\ d.emit[id] \in {"no", "emitted"}
                     /\ d.cached = "ok" /\ ret = 0 => d.order[id] \in {"no", "ordered"}

\* A declaration may use a type where the tags in sc.declared are declared and the types in
\* sc.defined defined; whole says whether its size is needed.
RECURSIVE Legal(_, _, _)
Legal(id, whole, sc) ==
  LET t == Type(id) IN
  CASE t.kind = "int" -> TRUE
    [] t.kind = "void" -> ~ whole
    [] t.kind = "ptr" -> Legal(t.type, FALSE, sc)
    [] t.kind = "const" -> Legal(t.type, whole, sc)
    [] t.kind = "array" -> Legal(t.type, TRUE, sc)
    [] t.kind = "proto" -> \A x \in ToSet(t.refs) \cup {t.type} : Legal(x, FALSE, sc)
    [] t.kind = "fwd" -> id \in sc.declared /\ ~ whole
    [] t.kind = "enum" -> Anonymous(id) \/ id \in sc.defined
    [] t.kind = "typedef" -> /\ id \in sc.defined \/ t.name = BUILTIN
                             /\ whole => Legal(t.type, TRUE, sc)
    [] t.kind \in Composite -> IF Anonymous(id) THEN \A x \in ToSet(t.refs) : Legal(x, TRUE, sc)
                              ELSE id \in IF whole THEN sc.defined ELSE sc.declared

\* "Dump BTF type in a compilable C syntax, including all the necessary dependent types": each
\* declaration is legal after those before it, whatever was dumped and in whatever order.
Compiles ==
  \A k \in 1 .. Len(d.out) :
    LET id == d.out[k].id
        before == {d.out[n] : n \in 1 .. k - 1}
        sc == [declared |-> {o.id : o \in before} \cup {id}, defined |-> {o.id : o \in {x \in before : x.def}}] IN
    d.out[k].def => CASE T[id].kind \in Composite -> \A x \in ToSet(T[id].refs) : Legal(x, TRUE, sc)
                      [] T[id].kind = "typedef" -> Legal(T[id].type, FALSE, sc)
                      [] OTHER -> TRUE

\* No type is defined twice, over all the calls, and no two tags, and no two of the typedefs and
\* enumerators, that were written go by one name.
UniqueNames ==
  LET Named(kinds) == {o.id : o \in {x \in ToSet(d.out) : T[x.id].kind \in kinds /\ ~ Anonymous(x.id)}} IN
  /\ \A k, n \in 1 .. Len(d.out) : d.out[k].def /\ d.out[k] = d.out[n] => k = n
  /\ \A x, y \in Named({"struct", "union", "enum", "fwd"}) : d.name[x] = d.name[y] => x = y
  /\ \A x, y \in Named({"typedef"}) : d.name[x] = d.name[y] => x = y
  /\ IsInjective(d.values) /\ \A x \in Named({"typedef"}) : d.name[x] \notin ToSet(d.values)

\* What was asked for has been defined; and types that C allows are never refused as a loop.
AskedDefined ==
  /\ ret # -1
  /\ \A id \in asked :
       T[id].kind \in {"struct", "union", "enum", "typedef"} /\ ~ Anonymous(id) /\ T[id].name # BUILTIN =>
         [id |-> id, def |-> TRUE] \in ToSet(d.out)

\* A type that embeds itself is refused, however often and after whatever else it is asked for.
RECURSIVE Embeds(_, _)
Embeds(S, n) ==
  LET Inner(id) == IF Type(id).kind \in {"ptr", "proto"} THEN {} ELSE Refs(id)
      more == S \cup UNION {Inner(id) : id \in S} IN
  IF n = 0 THEN S ELSE Embeds(more, n - 1)
LoopsRefused ==
  \A id \in asked : \A x \in Embeds({id}, Len(T)) :
    Type(x).kind \in Composite => x \notin Embeds(ToSet(Type(x).refs), Len(T))

\* "Returns 0 on success; <0, otherwise": a call that ran out of memory does not make the next
\* one write through the table of names that it failed to allocate.
NeverCrashes == ~ d.crashed

\* "Full struct/union definitions will still be emitted, even if the only usage is through pointer".
FullDefinitions ==
  \A o \in ToSet(d.out) : T[o.id].kind \in Composite => [id |-> o.id, def |-> TRUE] \in ToSet(d.out)

\* Anonymous enumerations that are part of another type's declaration are written only there.
EmbeddedInline ==
  \A o \in ToSet(d.out) :
    T[o.id].kind = "enum" /\ Anonymous(o.id) => \A x \in Ids : T[x].type # o.id /\ o.id \notin ToSet(T[x].refs)
=============================================================================

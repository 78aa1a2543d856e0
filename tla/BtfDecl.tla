------------------------------- MODULE BtfDecl -------------------------------
(***************************************************************************)
(* How btf_dump writes a declaration (btf_dump_emit_type_decl and          *)
(* btf_dump_emit_type_chain): the types from the declared one to the end   *)
(* of its chain are pushed on a stack and popped again, each adding to the *)
(* text to the left of the name or to the right of it.                     *)
(*                                                                         *)
(* A chain is a sequence that starts with the type declared: <<"ptr">>,    *)
(* <<"const">>, <<"array", n>>, <<"proto">>, and at its end <<"int">>,     *)
(* <<"void">> or an anonymous structure <<"struct", n>> whose fields need  *)
(* n entries of the stack.  The text is a sequence of tokens; a list of    *)
(* parameters, each a declaration of its own, is the one token <<"()">>.   *)
(***************************************************************************)
EXTENDS Integers, Sequences, FiniteSets, SequencesExt

CONSTANTS
  Chains,       \* the declarations
  Names,        \* of what is declared; "" is none
  CAP           \* the capacity that the stack has at first (16)

BtfDeclAssumption == CAP \in Nat \ {0}

VARIABLES
  chain, fname,
  at,           \* "push", "pop", "done"
  cnt, cap,     \* decl_stack_cnt and decl_stack_cap
  moved,        \* the stack has been moved by realloc since this frame's view of it was taken
  stale,        \* an entry was read through a view of a stack that has moved
  left,         \* how many entries of the frame are left
  ptr,          \* last_was_ptr
  out,          \* the text
  tail          \* the text that follows once the calls return

vars == <<chain, fname, at, cnt, cap, moved, stale, left, ptr, out, tail>>

Entry(k) == chain[k]
Kind(k) == chain[k][1]
Ends == {"int", "void", "struct"}

Init ==
  /\ chain \in Chains /\ fname \in Names
  /\ at = "push" /\ cnt = 0 /\ cap = 0 /\ moved = FALSE /\ stale = FALSE /\ left = 0 /\ ptr = TRUE
  /\ out = <<>> /\ tail = <<>>

\* btf_dump_push_decl_stack_id: the capacity that it takes to hold `need' entries.
RECURSIVE Grown(_, _)
Grown(c, need) ==
  LET half == (c * 3) \div 2 IN
  IF need <= c THEN c ELSE Grown(IF half > CAP THEN half ELSE CAP, need)

\* btf_dump_emit_type_decl, to the type that ends the chain.
Push ==
  /\ at = "push"
  /\ cap' = Grown(cap, cnt + 1) /\ cnt' = cnt + 1 /\ left' = left + 1
  /\ at' = IF Kind(cnt + 1) \in Ends THEN "pop" ELSE "push"
  /\ UNCHANGED <<chain, fname, moved, stale, ptr, out, tail>>

\* btf_dump_emit_mods: the modifiers next on the stack, and the entry under them.
RECURSIVE Skip(_)
Skip(k) == IF k > 0 /\ Kind(k) = "const" THEN Skip(k - 1) ELSE k
Mods(k) == [x \in 1 .. 2 * (k - Skip(k)) |-> IF x % 2 = 1 THEN <<"const">> ELSE <<" ">>]

\* btf_dump_emit_name.
Space == IF fname # "" /\ ~ ptr THEN <<<<" ">>>> ELSE <<>>
EmitName == IF fname = "" THEN <<>> ELSE Space \o <<<<"name">>>>

\* Reading an entry, by the view that this frame has of the stack.
Pop(kinds) == at = "pop" /\ left > 0 /\ Kind(left) \in kinds /\ stale' = (stale \/ moved)

PopEnd ==
  /\ Pop(Ends)
  /\ out' = out \o Mods(left - 1) \o <<<<Kind(left)>>>> /\ left' = Skip(left - 1) /\ ptr' = FALSE
  \* The fields of a structure are declared in frames beyond this one.
  /\ cap' = IF Kind(left) = "struct" THEN Grown(cap, cnt + Entry(left)[2]) ELSE cap
  /\ moved' = (moved \/ cap' # cap)
  /\ UNCHANGED <<chain, fname, at, cnt, tail>>

PopPtr ==
  /\ Pop({"ptr"})
  /\ out' = out \o (IF ptr THEN <<>> ELSE <<<<" ">>>>) \o <<<<"*">>>> /\ left' = left - 1 /\ ptr' = TRUE
  /\ UNCHANGED <<chain, fname, at, cnt, cap, moved, tail>>

PopConst ==
  /\ Pop({"const"})
  /\ out' = out \o <<<<" ">>, <<"const">>>> /\ left' = left - 1 /\ ptr' = FALSE
  /\ UNCHANGED <<chain, fname, at, cnt, cap, moved, tail>>

\* The declaration ends with the text that the calls still open add when they return.
Close(text) == out' = out \o text \o tail /\ at' = "done" /\ cnt' = 0 /\ left' = 0 /\ tail' = <<>> /\ UNCHANGED ptr

\* Modifiers of an array are left out; what is between the element and the name goes into
\* parentheses, unless it is another array.
Parens(k) == Kind(k) # "array"
PopArray ==
  /\ Pop({"array"})
  /\ LET k == Skip(left - 1) IN
     IF k = 0 THEN Close(EmitName \o <<Entry(left)>>)
     ELSE /\ out' = out \o Space \o (IF Parens(k) THEN <<<<"(">>>> ELSE <<>>)
          /\ tail' = (IF Parens(k) THEN <<<<")">>>> ELSE <<>>) \o <<Entry(left)>> \o tail
          /\ left' = k /\ ptr' = TRUE /\ UNCHANGED <<at, cnt>>
  /\ UNCHANGED <<chain, fname, cap, moved>>

PopProto ==
  /\ Pop({"proto"})
  /\ LET k == Skip(left - 1) IN
     IF k = 0 THEN Close(Mods(left - 1) \o EmitName \o <<<<"()">>>>)
     ELSE /\ out' = out \o Mods(left - 1) \o <<<<" ">>, <<"(">>>> /\ tail' = <<<<")">>, <<"()">>>> \o tail
          /\ left' = k /\ ptr' = TRUE /\ UNCHANGED <<at, cnt>>
  /\ UNCHANGED <<chain, fname, cap, moved>>

Finish ==
  /\ at = "pop" /\ left = 0
  /\ Close(EmitName)
  /\ UNCHANGED <<chain, fname, cap, moved, stale>>

Next == Push \/ PopEnd \/ PopPtr \/ PopConst \/ PopArray \/ PopProto \/ Finish

Spec == Init /\ [][Next]_vars /\ WF_vars(Next)

-----------------------------------------------------------------------------
(* C's reading of a declaration *)

Words == {"const", "int", "void", "struct", "name"}
Text == SelectSeq(out, LAMBDA x : x[1] # " ")

\* [2][3] after a declarator: an array of 2 arrays of 3.
RECURSIVE Suffixed(_, _)
Suffixed(text, type) ==
  IF text = <<>> THEN type
  ELSE Suffixed(Front(text), <<IF Last(text)[1] = "()" THEN <<"proto">> ELSE Last(text)>> \o type)

Matching(text) ==
  CHOOSE k \in 2 .. Len(text) :
    /\ text[k][1] = ")"
    /\ \A n \in 2 .. k :
         LET Opened(w) == {x \in 1 .. n : text[x][1] = w} IN
         (n = k) = (Cardinality(Opened("(")) = Cardinality(Opened(")")))

RECURSIVE Declarator(_, _)
Declarator(text, type) ==
  IF text = <<>> THEN type
  ELSE CASE Head(text)[1] = "*" -> Declarator(Tail(text), <<<<"ptr">>>> \o type)
         [] Head(text)[1] = "const" -> Declarator(Tail(text), <<<<"const">>>> \o type)
         [] Head(text)[1] = "(" ->
              LET k == Matching(text) IN
              Declarator(SubSeq(text, 2, k - 1), Suffixed(SubSeq(text, k + 1, Len(text)), type))
         [] Head(text)[1] = "name" -> Suffixed(Tail(text), type)
         [] OTHER -> Suffixed(text, type)

\* The words before the declarator are the qualifiers and the base type.
Parsed ==
  LET n == CHOOSE k \in 1 .. Len(Text) : Text[k][1] \in Ends IN
  Declarator(SubSeq(Text, n + 1, Len(Text)), [k \in 1 .. n - 1 |-> <<"const">>] \o <<Text[n]>>)

\* The chain without the modifiers of arrays.
Meant ==
  LET Dropped(k) == Kind(k) = "const" /\ \E n \in k + 1 .. Len(chain) :
                      Kind(n) = "array" /\ \A x \in k .. n - 1 : Kind(x) = "const"
      kept == SelectSeq([k \in 1 .. Len(chain) |-> k], LAMBDA k : ~ Dropped(k)) IN
  [k \in 1 .. Len(kept) |-> IF Kind(kept[k]) = "struct" THEN <<"struct">> ELSE Entry(kept[k])]

-----------------------------------------------------------------------------
(* Properties *)

\* What is written, read as C reads it, declares the type that was given (but for modifiers of
\* arrays, which btf_dump leaves out on purpose).
RoundTrip == at = "done" => Parsed = Meant

\* No two words run together, and the name is written once.
Spaced ==
  /\ \A k \in 1 .. Len(out) - 1 : ~ (out[k][1] \in Words /\ out[k + 1][1] \in Words)
  /\ at = "done" /\ fname # "" => Len(SelectSeq(out, LAMBDA x : x[1] = "name")) = 1

\* "a view corresponding to our own "stack frame"": no entry is read through a view of a stack
\* that realloc has moved since.
ViewCurrent == ~ stale
=============================================================================

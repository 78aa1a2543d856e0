----------------------------- MODULE FlowLedger -----------------------------
(***************************************************************************)
(* What the flow monitor promises, without memory, lists, time or threads: *)
(* a flow is opened by a packet, counts the further packets of its key,    *)
(* is retired, never changes again and is reported exactly once; and the   *)
(* program does not finish with a flow unreported.                         *)
(***************************************************************************)
EXTENDS Integers, Functions, FiniteSets, FiniteSetTheorems, WellFoundedInduction, TLAPS

CONSTANTS Keys, Ids      \* Ids: names for the flows being held

VARIABLES
  open, retired,         \* the flows held, as functions from Ids to entries
  due,                   \* per key, the packets counted and not yet reported
  finished

ledger == <<open, retired, due, finished>>

Held == DOMAIN open \cup DOMAIN retired
With(f, i, e) == [j \in DOMAIN f \cup {i} |-> IF j = i THEN e ELSE f[j]]
Without(f, i) == [j \in DOMAIN f \ {i} |-> f[j]]

Init ==
  /\ open = [i \in {} |-> 0] /\ retired = [i \in {} |-> 0]
  /\ due = [k \in Keys |-> 0]
  /\ finished = FALSE

Open(i, k) ==
  /\ i \notin Held
  /\ open' = With(open, i, [key |-> k, npack |-> 1])
  /\ due' = [due EXCEPT ![k] = @ + 1]
  /\ UNCHANGED <<retired, finished>>

Count(i) ==
  /\ i \in DOMAIN open
  /\ open' = [open EXCEPT ![i].npack = @ + 1]
  /\ due' = [due EXCEPT ![open[i].key] = @ + 1]
  /\ UNCHANGED <<retired, finished>>

Retire(i) ==
  /\ i \in DOMAIN open
  /\ open' = Without(open, i)
  /\ retired' = With(retired, i, open[i])
  /\ UNCHANGED <<due, finished>>

Report(i) ==
  /\ i \in DOMAIN retired
  /\ retired' = Without(retired, i)
  /\ due' = [due EXCEPT ![retired[i].key] = @ - retired[i].npack]
  /\ UNCHANGED <<open, finished>>

Finish ==
  /\ Held = {}
  /\ finished' = TRUE
  /\ UNCHANGED <<open, retired, due>>

Next ==
  /\ ~ finished
  /\ \/ \E i \in Ids : (\E k \in Keys : Open(i, k)) \/ Count(i) \/ Retire(i) \/ Report(i)
     \/ Finish

Spec == Init /\ [][Next]_ledger
-----------------------------------------------------------------------------
\* The entry of a flow that is held, and the packets the flows of a key have counted.
Entry(i) == IF i \in DOMAIN open THEN open[i] ELSE retired[i]
Outstanding(k) ==
  SumFunctionOnSet([i \in Held |-> Entry(i).npack], {i \in Held : Entry(i).key = k})

\* The books balance: the packets that are due are those of the flows held, and
\* when the program has finished nothing is due.
Balanced ==
  /\ \A k \in Keys : due[k] = Outstanding(k)
  /\ finished => \A k \in Keys : due[k] = 0
-----------------------------------------------------------------------------
(***************************************************************************)
(* Proofs: lemmas on sums over finite sets, and the theorem that the books *)
(* balance.                                                                *)
(***************************************************************************)
LEMMA LeastNat ==
  ASSUME NEW T \in SUBSET Nat, T # {}
  PROVE  \E m \in T : \A i \in T : m <= i
<1> DEFINE R == {p \in Nat \X Nat : p[1] < p[2]}
<1>1. IsWellFoundedOn(R, Nat)
  BY NatLessThanWellFounded DEF OpToRel
<1>2. PICK m \in T : \A y \in T : ~ (<<y, m>> \in R)
  BY ONLY <1>1, WFMin, T \in SUBSET Nat, T # {}
<1>3. \A y \in T : ~ (y < m)
  BY <1>2
<1> QED
  BY <1>2, <1>3

LEMMA SmallestSet ==
  ASSUME NEW S, IsFiniteSet(S), NEW B \in SUBSET SUBSET S, B # {}
  PROVE  \E m \in B : \A b \in B : b \subseteq m => b = m
<1>1. \A b \in B : IsFiniteSet(b) /\ Cardinality(b) \in Nat
  BY FS_Subset, FS_CardinalityType
<1> DEFINE C == {Cardinality(b) : b \in B}
<1>2. C \in SUBSET Nat /\ C # {}
  BY <1>1
<1>3. PICK c \in C : \A d \in C : c <= d
  BY ONLY <1>2, LeastNat
<1>4. PICK m \in B : c = Cardinality(m)
  BY <1>3
<1>5. ASSUME NEW b \in B, b \subseteq m PROVE b = m
  <2>1. Cardinality(m) <= Cardinality(b)
    BY <1>3, <1>4
  <2> QED
    BY <1>1, <1>5, <2>1, FS_Subset
<1> QED
  BY <1>5

Picked(s) == CHOOSE x \in s : TRUE

Sums(f, T, g) ==
  g = [s \in SUBSET T |-> IF s = {} THEN 0 ELSE f[Picked(s)] + g[s \ {Picked(s)}]]

LEMMA SumIs ==
  ASSUME NEW f, NEW T
  PROVE  SumFunctionOnSet(f, T) = (CHOOSE g : Sums(f, T, g))[T]
  BY DEF SumFunctionOnSet, FoldFunctionOnSet, MapThenFoldSet, Sums, Picked

SumsOf(f, T) == [s \in SUBSET T |-> SumFunctionOnSet(f, s)]
Unrolled(f, s) == IF s = {} THEN 0 ELSE f[Picked(s)] + SumFunctionOnSet(f, s \ {Picked(s)})

\* The sums are defined
LEMMA SumsUnique ==
  ASSUME NEW f, NEW T, IsFiniteSet(T)
  PROVE  \A g : Sums(f, T, g) <=> g = SumsOf(f, T)
<1> DEFINE Good(S) == \A g : Sums(f, S, g) <=> g = SumsOf(f, S)
           Bad == {S \in SUBSET T : ~ Good(S)}
<1> SUFFICES ASSUME Bad # {} PROVE FALSE
  <2>1. T \notin Bad
    OBVIOUS
  <2> QED
    BY <2>1
<1>1. PICK S \in Bad : \A s \in Bad : s \subseteq S => s = S
  <2>1. Bad \in SUBSET SUBSET T
    OBVIOUS
  <2> HIDE DEF Bad
  <2> QED
    BY ONLY <2>1, Bad # {}, IsFiniteSet(T), SmallestSet
<1>2. \A s \in SUBSET S : s # S => Good(s)
  BY <1>1
<1>3. \A s \in SUBSET S : s # {} => Picked(s) \in s /\ s \ {Picked(s)} \in SUBSET S
                                   /\ s \ {Picked(s)} \in SUBSET s /\ s \ {Picked(s)} # s /\ s \ {Picked(s)} # S
  BY DEF Picked
<1>4. ~ Good(S)
  BY <1>1
<1> HIDE DEF Bad
<1>5. ASSUME NEW s \in SUBSET S, s # S PROVE SumFunctionOnSet(f, s) = Unrolled(f, s)
  <2>1. Sums(f, s, SumsOf(f, s))
    BY <1>2, <1>5
  <2>2. \A r \in SUBSET s : SumsOf(f, s)[r] = SumFunctionOnSet(f, r)
    BY DEF SumsOf
  <2>3. SumsOf(f, s)[s] = IF s = {} THEN 0
                         ELSE f[Picked(s)] + SumsOf(f, s)[s \ {Picked(s)}]
    BY ONLY <2>1 DEF Sums
  <2> QED
    BY <1>3, <2>2, <2>3 DEF Unrolled
<1> DEFINE h == [s \in SUBSET S |-> Unrolled(f, s)]
<1>6. Sums(f, S, h)
  <2>1. ASSUME NEW s \in SUBSET S PROVE h[s] = IF s = {} THEN 0 ELSE f[Picked(s)] + h[s \ {Picked(s)}]
    <3>1. CASE s = {}
      BY <3>1 DEF Unrolled
    <3>2. CASE s # {}
      <4>1. h[s \ {Picked(s)}] = SumFunctionOnSet(f, s \ {Picked(s)})
        BY <1>3, <1>5, <3>2
      <4> QED
        BY <3>2, <4>1 DEF Unrolled
    <3> QED
      BY <3>1, <3>2
  <2> QED
    BY <2>1 DEF Sums
<1>7. ASSUME NEW g, Sums(f, S, g) PROVE g = h
  <2>1. ASSUME NEW s \in SUBSET S, s # S PROVE g[s] = SumFunctionOnSet(f, s)
    <3> DEFINE gs == [r \in SUBSET s |-> g[r]]
    <3>1. \A r \in SUBSET s : g[r] = IF r = {} THEN 0 ELSE f[Picked(r)] + g[r \ {Picked(r)}]
      BY <1>7 DEF Sums
    <3>2. Sums(f, s, gs)
      BY <1>3, <3>1 DEF Sums
    <3>3. gs = SumsOf(f, s)
      BY <1>2, <2>1, <3>2
    <3>4. gs[s] = SumsOf(f, s)[s]
      BY <3>3
    <3> QED
      BY <3>4 DEF SumsOf
  <2>2. g = [s \in SUBSET S |-> IF s = {} THEN 0 ELSE f[Picked(s)] + g[s \ {Picked(s)}]]
    BY <1>7 DEF Sums
  <2>3. \A s \in SUBSET S : g[s] = Unrolled(f, s)
    BY <1>3, <2>1, <2>2 DEF Unrolled
  <2>4. g = [s \in SUBSET S |-> g[s]]
    BY <2>2
  <2> QED
    BY <2>3, <2>4
<1> HIDE DEF h
<1>8. (CHOOSE g : Sums(f, S, g)) = h
  BY <1>6, <1>7
<1>9. SumFunctionOnSet(f, S) = h[S]
  BY <1>8, SumIs
<1>10. h = SumsOf(f, S)
  <2>1. SumFunctionOnSet(f, S) = Unrolled(f, S)
    BY <1>9 DEF h
  <2>2. \A s \in SUBSET S : SumFunctionOnSet(f, s) = Unrolled(f, s)
    BY <1>5, <2>1
  <2> QED
    BY <2>2 DEF h, SumsOf
<1> QED
  BY <1>4, <1>6, <1>7, <1>10

LEMMA SumUnrolls ==
  ASSUME NEW f, NEW T, IsFiniteSet(T)
  PROVE  SumFunctionOnSet(f, T) = Unrolled(f, T)
<1>1. Sums(f, T, SumsOf(f, T))
  BY SumsUnique
<1> QED
  <2>1. T \in SUBSET T
    OBVIOUS
  <2>2. T # {} => T \ {Picked(T)} \in SUBSET T
    OBVIOUS
  <2> QED
    BY <1>1, <2>1, <2>2 DEF Sums, SumsOf, Unrolled

\* The sum of nothing is 0.
LEMMA SumEmpty == ASSUME NEW f PROVE SumFunctionOnSet(f, {}) = 0
  BY FS_EmptySet, SumUnrolls DEF Unrolled

LEMMA SumType ==
  ASSUME NEW f, NEW T, IsFiniteSet(T), \A x \in T : f[x] \in Int
  PROVE  SumFunctionOnSet(f, T) \in Int
<1> DEFINE Bad == {S \in SUBSET T : SumFunctionOnSet(f, S) \notin Int}
<1> SUFFICES ASSUME Bad # {} PROVE FALSE
  <2>1. T \notin Bad
    OBVIOUS
  <2> QED
    BY <2>1
<1>1. PICK S \in Bad : \A s \in Bad : s \subseteq S => s = S
  <2>1. Bad \in SUBSET SUBSET T
    OBVIOUS
  <2> HIDE DEF Bad
  <2> QED
    BY ONLY <2>1, Bad # {}, IsFiniteSet(T), SmallestSet
<1>2. S \in SUBSET T /\ SumFunctionOnSet(f, S) \notin Int
  BY <1>1
<1>3. SumFunctionOnSet(f, S) = Unrolled(f, S)
  BY <1>2, FS_Subset, SumUnrolls
<1>4. CASE S = {}
  BY <1>2, <1>3, <1>4 DEF Unrolled
<1>5. CASE S # {}
  <2>1. Picked(S) \in S
    BY <1>5 DEF Picked
  <2>2. S \ {Picked(S)} \notin Bad
    BY <1>1, <2>1
  <2>3. SumFunctionOnSet(f, S \ {Picked(S)}) \in Int
    BY <1>2, <2>2
  <2>4. f[Picked(S)] \in Int
    BY <1>2, <2>1
  <2> QED
    BY <1>2, <1>3, <1>5, <2>3, <2>4 DEF Unrolled
<1> QED
  BY <1>4, <1>5

LEMMA SumTake ==
  ASSUME NEW f, NEW T, IsFiniteSet(T), \A x \in T : f[x] \in Int, NEW x \in T
  PROVE  SumFunctionOnSet(f, T) = f[x] + SumFunctionOnSet(f, T \ {x})
<1> DEFINE Bad == {S \in SUBSET T : \E y \in S :
                     SumFunctionOnSet(f, S) # f[y] + SumFunctionOnSet(f, S \ {y})}
<1> SUFFICES ASSUME Bad # {} PROVE FALSE
  <2>1. T \notin Bad
    OBVIOUS
  <2> QED
    BY <2>1
<1>1. PICK S \in Bad : \A s \in Bad : s \subseteq S => s = S
  <2>1. Bad \in SUBSET SUBSET T
    OBVIOUS
  <2> HIDE DEF Bad
  <2> QED
    BY ONLY <2>1, Bad # {}, IsFiniteSet(T), SmallestSet
<1>2. PICK y \in S : SumFunctionOnSet(f, S) # f[y] + SumFunctionOnSet(f, S \ {y})
  BY <1>1
<1>3. S \in SUBSET T /\ S # {}
  BY <1>1, <1>2
<1> DEFINE c == Picked(S)
<1>4. c \in S
  BY <1>3 DEF Picked
<1>5. SumFunctionOnSet(f, S) = f[c] + SumFunctionOnSet(f, S \ {c})
  BY <1>3, FS_Subset, SumUnrolls DEF Unrolled
<1>6. c # y
  BY <1>2, <1>5
<1>7. \A s \in SUBSET S : s # S => s \notin Bad
  BY <1>1
<1> HIDE DEF c
<1>8. SumFunctionOnSet(f, S \ {c}) = f[y] + SumFunctionOnSet(f, (S \ {c}) \ {y})
  BY <1>3, <1>4, <1>6, <1>7
<1>9. SumFunctionOnSet(f, S \ {y}) = f[c] + SumFunctionOnSet(f, (S \ {y}) \ {c})
  BY <1>3, <1>4, <1>6, <1>7
<1>10. (S \ {y}) \ {c} = (S \ {c}) \ {y}
  OBVIOUS
<1>11. SumFunctionOnSet(f, (S \ {c}) \ {y}) \in Int
  <2>1. IsFiniteSet((S \ {c}) \ {y}) /\ \A z \in (S \ {c}) \ {y} : f[z] \in Int
    BY <1>3, FS_Subset
  <2> HIDE DEF Bad
  <2> QED
    BY <2>1, SumType
<1>12. f[y] \in Int /\ f[c] \in Int
  BY <1>3, <1>4
<1>13. PICK a \in Int, b \in Int, w \in Int :
         a = f[y] /\ b = f[c] /\ w = SumFunctionOnSet(f, (S \ {c}) \ {y})
  BY ONLY <1>11, <1>12
<1>14. SumFunctionOnSet(f, S) = b + (a + w)
  BY ONLY <1>5, <1>8, <1>13
<1>15. SumFunctionOnSet(f, S \ {y}) = b + w
  BY ONLY <1>9, <1>10, <1>13
<1> QED
  BY ONLY <1>2, <1>13, <1>14, <1>15

LEMMA SumAgree ==
  ASSUME NEW f, NEW g, NEW T, IsFiniteSet(T), \A x \in T : f[x] = g[x]
  PROVE  SumFunctionOnSet(f, T) = SumFunctionOnSet(g, T)
<1> DEFINE Bad == {S \in SUBSET T : SumFunctionOnSet(f, S) # SumFunctionOnSet(g, S)}
<1> SUFFICES ASSUME Bad # {} PROVE FALSE
  <2>1. T \notin Bad
    OBVIOUS
  <2> QED
    BY <2>1
<1>1. PICK S \in Bad : \A s \in Bad : s \subseteq S => s = S
  <2>1. Bad \in SUBSET SUBSET T
    OBVIOUS
  <2> HIDE DEF Bad
  <2> QED
    BY ONLY <2>1, Bad # {}, IsFiniteSet(T), SmallestSet
<1>2. S \in SUBSET T /\ SumFunctionOnSet(f, S) # SumFunctionOnSet(g, S)
  BY <1>1
<1>3. SumFunctionOnSet(f, S) = Unrolled(f, S) /\ SumFunctionOnSet(g, S) = Unrolled(g, S)
  BY <1>2, FS_Subset, SumUnrolls
<1>4. S # {}
  BY <1>2, <1>3 DEF Unrolled
<1>5. Picked(S) \in S
  BY <1>4 DEF Picked
<1>6. SumFunctionOnSet(f, S \ {Picked(S)}) = SumFunctionOnSet(g, S \ {Picked(S)})
  BY <1>1, <1>5
<1>7. f[Picked(S)] = g[Picked(S)]
  BY <1>2, <1>5
<1> QED
  BY <1>2, <1>3, <1>4, <1>6, <1>7 DEF Unrolled


\* g on U is f on T with i added, taken out, or counted once more.
Adds(f, T, g, U, i) ==
  /\ IsFiniteSet(T) /\ i \notin T /\ U = T \cup {i} /\ g[i] \in Int
  /\ \A j \in T : f[j] \in Int /\ g[j] = f[j]

TakesOut(f, T, g, U, i) ==
  /\ IsFiniteSet(T) /\ i \in T /\ U = T \ {i}
  /\ \A j \in T : f[j] \in Int
  /\ \A j \in U : g[j] = f[j]

CountsOne(f, T, g, i) ==
  /\ IsFiniteSet(T) /\ i \in T /\ g[i] = f[i] + 1
  /\ \A j \in T : f[j] \in Int
  /\ \A j \in T : j # i => g[j] = f[j]

LEMMA SumAdded ==
  ASSUME NEW f, NEW g, NEW T, NEW U, NEW i, Adds(f, T, g, U, i)
  PROVE  SumFunctionOnSet(g, U) = SumFunctionOnSet(f, T) + g[i]
<1>1. IsFiniteSet(U) /\ i \in U /\ \A j \in U : g[j] \in Int
  BY FS_AddElement DEF Adds
<1>2. SumFunctionOnSet(g, U) = g[i] + SumFunctionOnSet(g, U \ {i})
  BY ONLY <1>1, SumTake
<1>3. U \ {i} = T
  BY DEF Adds
<1>4. SumFunctionOnSet(g, T) = SumFunctionOnSet(f, T)
  BY SumAgree DEF Adds
<1>5. SumFunctionOnSet(f, T) \in Int
  BY SumType DEF Adds
<1>6. PICK a \in Int, b \in Int : a = g[i] /\ b = SumFunctionOnSet(f, T)
  BY <1>5 DEF Adds
<1>7. SumFunctionOnSet(g, U \ {i}) = b
  BY ONLY <1>3, <1>4, <1>6
<1> QED
  BY ONLY <1>2, <1>6, <1>7

LEMMA SumTakenOut ==
  ASSUME NEW f, NEW g, NEW T, NEW U, NEW i, TakesOut(f, T, g, U, i)
  PROVE  SumFunctionOnSet(g, U) = SumFunctionOnSet(f, T) - f[i]
<1>1. /\ IsFiniteSet(T) /\ i \in T /\ \A j \in T : f[j] \in Int
  BY DEF TakesOut
<1>2. SumFunctionOnSet(f, T) = f[i] + SumFunctionOnSet(f, T \ {i})
  BY ONLY <1>1, SumTake
<1>3. U = T \ {i} /\ IsFiniteSet(U) /\ \A j \in U : g[j] = f[j] /\ f[j] \in Int
  BY FS_Subset DEF TakesOut
<1>4. SumFunctionOnSet(g, U) = SumFunctionOnSet(f, U)
  BY ONLY <1>3, SumAgree
<1>5. SumFunctionOnSet(f, U) \in Int
  BY ONLY <1>3, SumType
<1>6. PICK a \in Int, b \in Int : a = f[i] /\ b = SumFunctionOnSet(f, U)
  BY <1>1, <1>5
<1>7. SumFunctionOnSet(f, T \ {i}) = b
  BY ONLY <1>3, <1>6
<1> QED
  BY ONLY <1>2, <1>4, <1>6, <1>7

LEMMA SumCountedOne ==
  ASSUME NEW f, NEW g, NEW T, NEW i, CountsOne(f, T, g, i)
  PROVE  SumFunctionOnSet(g, T) = SumFunctionOnSet(f, T) + 1
<1>1. PICK U : U = T \ {i}
  OBVIOUS
<1>2. TakesOut(f, T, g, U, i)
  BY <1>1 DEF TakesOut, CountsOne
<1>3. SumFunctionOnSet(g, U) = SumFunctionOnSet(f, T) - f[i]
  BY ONLY <1>2, SumTakenOut
<1>4. IsFiniteSet(T) /\ i \in T /\ \A j \in T : g[j] \in Int /\ f[j] \in Int
  BY DEF CountsOne
<1>5. SumFunctionOnSet(g, T) = g[i] + SumFunctionOnSet(g, T \ {i})
  BY ONLY <1>4, SumTake
<1>6. SumFunctionOnSet(g, T \ {i}) = SumFunctionOnSet(g, U)
  BY ONLY <1>1
<1>7. SumFunctionOnSet(f, T) \in Int
  BY ONLY <1>4, SumType
<1>8. PICK a \in Int, b \in Int : a = f[i] /\ b = SumFunctionOnSet(f, T) /\ g[i] = a + 1
  BY <1>4, <1>7 DEF CountsOne
<1> QED
  BY ONLY <1>3, <1>5, <1>6, <1>8
-----------------------------------------------------------------------------
EntryRecs == [key : Keys, npack : Int]
Npacks == [i \in Held |-> Entry(i).npack]
OfKey(k) == {i \in Held : Entry(i).key = k}

\* Finitely many flows are held, each once, open or retired; none after the end.
BooksOK ==
  /\ open \in [DOMAIN open -> EntryRecs] /\ retired \in [DOMAIN retired -> EntryRecs]
  /\ DOMAIN open \cap DOMAIN retired = {}
  /\ IsFiniteSet(Held)
  /\ due \in [Keys -> Int]
  /\ finished => Held = {}

Owing == \A k \in Keys : due[k] = SumFunctionOnSet(Npacks, OfKey(k))

LEMMA InitOwing == Init => BooksOK /\ Owing
<1> SUFFICES ASSUME Init PROVE BooksOK /\ Owing
  OBVIOUS
<1>1. DOMAIN open = {} /\ DOMAIN retired = {} /\ Held = {}
  BY DEF Init, Held
<1>2. BooksOK
  <2>1. open \in [DOMAIN open -> EntryRecs] /\ retired \in [DOMAIN retired -> EntryRecs]
    <3>1. DOMAIN open = {} /\ open = [i \in {} |-> 0] /\ retired = [i \in {} |-> 0]
          /\ DOMAIN retired = {}
      BY <1>1 DEF Init
    <3>2. \A S : [i \in {} |-> 0] \in [{} -> S]
      OBVIOUS
    <3> QED
      BY ONLY <3>1, <3>2
  <2>2. due \in [Keys -> Int]
    BY DEF Init
  <2> QED
    BY <1>1, <2>1, <2>2, FS_EmptySet DEF BooksOK
<1>3. \A k \in Keys : OfKey(k) = {}
  BY <1>1 DEF OfKey
<1> QED
  BY <1>2, <1>3, SumEmpty DEF Owing, Init

\* The entries of the flows held are records, and there are finitely many of a key.
LEMMA EntryFacts ==
  ASSUME BooksOK
  PROVE  /\ \A i \in Held : Entry(i) \in EntryRecs /\ Npacks[i] = Entry(i).npack
                            /\ Npacks[i] \in Int
         /\ \A k : IsFiniteSet(OfKey(k)) /\ OfKey(k) \subseteq Held
<1>1. \A i \in Held : Entry(i) \in EntryRecs
  BY DEF BooksOK, Held, Entry
<1>2. \A i \in Held : Npacks[i] = Entry(i).npack
  BY DEF Npacks
<1>3. \A i \in Held : Entry(i).npack \in Int
  BY <1>1 DEF EntryRecs
<1>4. \A k : OfKey(k) \subseteq Held
  BY DEF OfKey
<1> QED
  BY <1>1, <1>2, <1>3, <1>4, FS_Subset DEF BooksOK

\* Flows that keep their entries keep their sum.
LEMMA SameSum ==
  ASSUME BooksOK, NEW k, OfKey(k)' = OfKey(k),
         \A i \in OfKey(k) : Npacks'[i] = Npacks[i]
  PROVE  SumFunctionOnSet(Npacks, OfKey(k))' = SumFunctionOnSet(Npacks, OfKey(k))
<1>1. PICK g : g = Npacks'
  OBVIOUS
<1>2. PICK f : f = Npacks
  OBVIOUS
<1>3. PICK T : T = OfKey(k)
  OBVIOUS
<1>4. IsFiniteSet(T) /\ \A i \in T : g[i] = f[i]
  BY <1>1, <1>2, <1>3, EntryFacts
<1>5. SumFunctionOnSet(g, T) = SumFunctionOnSet(f, T)
  BY ONLY <1>4, SumAgree
<1> QED
  BY <1>1, <1>2, <1>3, <1>5

\* A flow is opened: its key owes one packet more.
LEMMA OpenBalances ==
  ASSUME BooksOK, Owing, NEW i, NEW q \in Keys, ~ finished, Open(i, q)
  PROVE  BooksOK' /\ Owing'
<1>1. /\ i \notin Held /\ DOMAIN open' = DOMAIN open \cup {i} /\ UNCHANGED <<retired, finished>>
      /\ open'[i] = [key |-> q, npack |-> 1] /\ \A j \in DOMAIN open : open'[j] = open[j]
      /\ open' = [j \in DOMAIN open' |-> open'[j]]
  BY DEF Open, With, Held
<1>2. Held' = Held \cup {i}
  BY <1>1 DEF Held
<1>3. BooksOK'
  <2>1. \A j \in DOMAIN open' : open'[j] \in EntryRecs
    BY <1>1 DEF BooksOK, EntryRecs
  <2>2. open' \in [DOMAIN open' -> EntryRecs]
    BY ONLY <1>1, <2>1
  <2>3. IsFiniteSet(Held') /\ due' \in [Keys -> Int]
    BY <1>2, FS_AddElement DEF BooksOK, Open
  <2>4. DOMAIN open' \cap DOMAIN retired' = {}
    BY <1>1 DEF BooksOK, Held
  <2> QED
    BY <1>1, <2>2, <2>3, <2>4 DEF BooksOK, EntryRecs
<1>4. Entry(i)' = [key |-> q, npack |-> 1] /\ \A j \in Held : Entry(j)' = Entry(j)
  BY <1>1 DEF Entry, Held
<1>5. Npacks'[i] = 1 /\ \A j \in Held : Npacks'[j] = Npacks[j]
  BY <1>2, <1>4 DEF Npacks
<1>6. ASSUME NEW k \in Keys PROVE due'[k] = SumFunctionOnSet(Npacks, OfKey(k))'
  <2>1. PICK f, g, T : f = Npacks /\ g = Npacks' /\ T = OfKey(k)
    OBVIOUS
  <2>2. T \subseteq Held /\ IsFiniteSet(T) /\ \A j \in T : f[j] \in Int /\ g[j] = f[j]
    BY <1>5, <2>1, EntryFacts
  <2>3. CASE k = q
    <3>1. OfKey(k)' = T \cup {i} /\ i \notin T
      BY <1>1, <1>2, <1>4, <2>1, <2>3 DEF OfKey
    <3>2. g[i] = 1 /\ g[i] \in Int
      BY <1>5, <2>1
    <3>3. PICK U : U = T \cup {i} /\ i \notin T /\ U = OfKey(k)'
      BY <3>1
    <3>4. SumFunctionOnSet(g, U) = SumFunctionOnSet(f, T) + g[i]
      <4>1. Adds(f, T, g, U, i)
        BY <2>2, <3>2, <3>3 DEF Adds
      <4> QED
        BY ONLY <4>1, SumAdded
    <3>5. due'[k] = due[k] + 1
      BY <2>3 DEF Open, BooksOK
    <3> QED
      BY <2>1, <3>2, <3>3, <3>4, <3>5 DEF Owing
  <2>4. CASE k # q
    <3>1. OfKey(k)' = T
      BY <1>2, <1>4, <2>1, <2>4 DEF OfKey
    <3>2. SumFunctionOnSet(g, T) = SumFunctionOnSet(f, T)
      BY ONLY <2>2, SumAgree
    <3>3. due'[k] = due[k]
      BY <2>4 DEF Open, BooksOK
    <3> QED
      BY <2>1, <3>1, <3>2, <3>3 DEF Owing
  <2> QED
    BY <2>3, <2>4
<1> QED
  BY <1>3, <1>6 DEF Owing

\* An open flow counts a packet.
LEMMA CountBalances ==
  ASSUME BooksOK, Owing, NEW i, ~ finished, Count(i)
  PROVE  BooksOK' /\ Owing'
<1>1. /\ i \in DOMAIN open /\ DOMAIN open' = DOMAIN open /\ UNCHANGED <<retired, finished>>
      /\ open[i] \in EntryRecs /\ open'[i] = [open[i] EXCEPT !.npack = @ + 1]
      /\ \A j \in DOMAIN open : j # i => open'[j] = open[j]
      /\ open' = [j \in DOMAIN open' |-> open'[j]]
  BY DEF Count, BooksOK
<1>2. Held' = Held /\ i \in Held
  BY <1>1 DEF Held
<1>3. open[i].key \in Keys /\ open'[i].key = open[i].key /\ open'[i].npack = open[i].npack + 1
      /\ open[i].npack \in Int /\ open'[i] \in EntryRecs
  BY <1>1 DEF EntryRecs
<1>4. BooksOK'
  <2>1. \A j \in DOMAIN open' : open'[j] \in EntryRecs
    BY <1>1, <1>3 DEF BooksOK
  <2>2. open' \in [DOMAIN open' -> EntryRecs]
    BY ONLY <1>1, <2>1
  <2>3. due' \in [Keys -> Int]
    BY <1>3 DEF BooksOK, Count
  <2> QED
    BY <1>1, <1>2, <2>2, <2>3 DEF BooksOK, EntryRecs
<1>5. /\ Entry(i) = open[i] /\ Entry(i)' = open'[i]
      /\ \A j \in Held : j # i => Entry(j)' = Entry(j)
  BY <1>1 DEF Entry, Held
<1>6. Npacks'[i] = Npacks[i] + 1 /\ \A j \in Held : j # i => Npacks'[j] = Npacks[j]
  BY <1>2, <1>3, <1>5 DEF Npacks
<1>7. ASSUME NEW k \in Keys PROVE due'[k] = SumFunctionOnSet(Npacks, OfKey(k))'
  <2>1. PICK f, g, T : f = Npacks /\ g = Npacks' /\ T = OfKey(k)
    OBVIOUS
  <2>2. T \subseteq Held /\ IsFiniteSet(T) /\ \A j \in T : f[j] \in Int
    BY <2>1, EntryFacts
  <2>3. OfKey(k)' = T
    BY <1>2, <1>3, <1>5, <2>1 DEF OfKey
  <2>4. CASE k = open[i].key
    <3>1. i \in T /\ g[i] = f[i] + 1 /\ \A j \in T \ {i} : g[j] = f[j]
      BY <1>2, <1>5, <1>6, <2>1, <2>2, <2>4 DEF OfKey
    <3>2. SumFunctionOnSet(g, T) = SumFunctionOnSet(f, T) + 1
      <4>1. CountsOne(f, T, g, i)
        BY <2>2, <3>1 DEF CountsOne
      <4> QED
        BY ONLY <4>1, SumCountedOne
    <3>3. due'[k] = due[k] + 1
      BY <2>4 DEF Count, BooksOK
    <3> QED
      BY <2>1, <2>3, <3>2, <3>3 DEF Owing
  <2>5. CASE k # open[i].key
    <3>1. \A j \in T : g[j] = f[j]
      BY <1>5, <1>6, <2>1, <2>2, <2>5 DEF OfKey
    <3>2. SumFunctionOnSet(g, T) = SumFunctionOnSet(f, T)
      BY ONLY <2>2, <3>1, SumAgree
    <3>3. due'[k] = due[k]
      BY <2>5 DEF Count, BooksOK
    <3> QED
      BY <2>1, <2>3, <3>2, <3>3 DEF Owing
  <2> QED
    BY <2>4, <2>5
<1> QED
  BY <1>4, <1>7 DEF Owing

\* A flow is retired with the packets it has counted.
LEMMA RetireBalances ==
  ASSUME BooksOK, Owing, NEW i, ~ finished, Retire(i)
  PROVE  BooksOK' /\ Owing'
<1>1. /\ i \in DOMAIN open /\ DOMAIN open' = DOMAIN open \ {i} /\ UNCHANGED <<due, finished>>
      /\ \A j \in DOMAIN open' : open'[j] = open[j]
      /\ open' = [j \in DOMAIN open' |-> open'[j]]
      /\ DOMAIN retired' = DOMAIN retired \cup {i} /\ retired'[i] = open[i]
      /\ \A j \in DOMAIN retired : j # i => retired'[j] = retired[j]
      /\ retired' = [j \in DOMAIN retired' |-> retired'[j]]
  BY DEF Retire, With, Without
<1>2. Held' = Held
  BY <1>1 DEF Held
<1>3. BooksOK'
  <2>1. /\ \A j \in DOMAIN open' : open'[j] \in EntryRecs
        /\ \A j \in DOMAIN retired' : retired'[j] \in EntryRecs
    BY <1>1 DEF BooksOK
  <2>2. open' \in [DOMAIN open' -> EntryRecs] /\ retired' \in [DOMAIN retired' -> EntryRecs]
    BY ONLY <1>1, <2>1
  <2>3. DOMAIN open' \cap DOMAIN retired' = {}
    BY <1>1 DEF BooksOK
  <2> QED
    BY <1>1, <1>2, <2>2, <2>3 DEF BooksOK, EntryRecs
<1>4. \A j \in Held : Entry(j)' = Entry(j)
  BY <1>1 DEF Entry, Held, BooksOK
<1>5. Npacks' = Npacks /\ \A k \in Keys : OfKey(k)' = OfKey(k)
  BY <1>2, <1>4 DEF Npacks, OfKey
<1> QED
  BY <1>1, <1>3, <1>5 DEF Owing

\* A retired flow is reported: its key owes the packets of the flow no longer.
LEMMA ReportBalances ==
  ASSUME BooksOK, Owing, NEW i, ~ finished, Report(i)
  PROVE  BooksOK' /\ Owing'
<1>1. /\ i \in DOMAIN retired /\ DOMAIN retired' = DOMAIN retired \ {i}
      /\ UNCHANGED <<open, finished>> /\ retired[i] \in EntryRecs
      /\ \A j \in DOMAIN retired' : retired'[j] = retired[j]
      /\ retired' = [j \in DOMAIN retired' |-> retired'[j]]
  BY DEF Report, Without, BooksOK
<1>2. Held' = Held \ {i} /\ i \in Held
  BY <1>1 DEF Held, BooksOK
<1>3. retired[i].key \in Keys /\ retired[i].npack \in Int
  BY <1>1 DEF EntryRecs
<1>4. BooksOK'
  <2>1. \A j \in DOMAIN retired' : retired'[j] \in EntryRecs
    BY <1>1 DEF BooksOK
  <2>2. retired' \in [DOMAIN retired' -> EntryRecs]
    BY ONLY <1>1, <2>1
  <2>3. due' \in [Keys -> Int]
    BY <1>3 DEF BooksOK, Report
  <2>4. IsFiniteSet(Held') /\ DOMAIN open' \cap DOMAIN retired' = {}
    BY <1>1, <1>2, FS_Subset DEF BooksOK
  <2> QED
    BY <1>1, <2>2, <2>3, <2>4 DEF BooksOK, EntryRecs
<1>5. Entry(i) = retired[i] /\ \A j \in Held' : Entry(j)' = Entry(j)
  BY <1>1 DEF Entry, Held, BooksOK
<1>6. \A j \in Held' : Npacks'[j] = Npacks[j]
  BY <1>2, <1>5 DEF Npacks
<1>7. ASSUME NEW k \in Keys PROVE due'[k] = SumFunctionOnSet(Npacks, OfKey(k))'
  <2>1. PICK f, g, T : f = Npacks /\ g = Npacks' /\ T = OfKey(k)
    OBVIOUS
  <2>2. T \subseteq Held /\ IsFiniteSet(T) /\ \A j \in T : f[j] \in Int
    BY <2>1, EntryFacts
  <2>3. \A j \in T \ {i} : g[j] = f[j]
    BY <1>2, <1>6, <2>1, <2>2
  <2>4. CASE k = retired[i].key
    <3>1. i \in T /\ OfKey(k)' = T \ {i}
      BY <1>2, <1>5, <2>1, <2>4 DEF OfKey
    <3>2. PICK U : U = T \ {i} /\ i \in T /\ U = OfKey(k)'
      BY <3>1
    <3>3. \A j \in U : g[j] = f[j]
      BY ONLY <2>3, <3>2
    <3>4. SumFunctionOnSet(g, U) = SumFunctionOnSet(f, T) - f[i]
      <4>1. TakesOut(f, T, g, U, i)
        BY <2>2, <3>2, <3>3 DEF TakesOut
      <4> QED
        BY ONLY <4>1, SumTakenOut
    <3>5. due'[k] = due[k] - f[i]
      BY <1>2, <1>5, <2>1, <2>4 DEF Report, BooksOK, Npacks
    <3> QED
      BY <2>1, <3>2, <3>4, <3>5 DEF Owing
  <2>5. CASE k # retired[i].key
    <3>1. OfKey(k)' = T /\ i \notin T
      BY <1>2, <1>5, <2>1, <2>5 DEF OfKey
    <3>2. \A j \in T : g[j] = f[j]
      BY <2>3, <3>1
    <3>3. SumFunctionOnSet(g, T) = SumFunctionOnSet(f, T)
      BY ONLY <2>2, <3>2, SumAgree
    <3>4. due'[k] = due[k]
      BY <2>5 DEF Report, BooksOK
    <3> QED
      BY <2>1, <3>1, <3>3, <3>4 DEF Owing
  <2> QED
    BY <2>4, <2>5
<1> QED
  BY <1>4, <1>7 DEF Owing

LEMMA StepBalances == BooksOK /\ Owing /\ [Next]_ledger => BooksOK' /\ Owing'
<1> SUFFICES ASSUME BooksOK, Owing, [Next]_ledger PROVE BooksOK' /\ Owing'
  OBVIOUS
<1>1. ASSUME UNCHANGED <<open, retired, due>>, finished' => Held = {}
      PROVE  BooksOK' /\ Owing'
  <2>1. Held' = Held /\ Npacks' = Npacks /\ \A k \in Keys : OfKey(k)' = OfKey(k)
    BY <1>1 DEF Held, Entry, Npacks, OfKey
  <2> QED
    BY <1>1, <2>1 DEF BooksOK, Owing, EntryRecs
<1>2. CASE Finish
  BY <1>1, <1>2 DEF Finish
<1>3. CASE UNCHANGED ledger
  BY <1>1, <1>3 DEF ledger, BooksOK
<1> QED
  BY <1>2, <1>3, OpenBalances, CountBalances, RetireBalances, ReportBalances DEF Next

LEMMA OwingBalances == BooksOK /\ Owing => Balanced
<1> SUFFICES ASSUME BooksOK, Owing PROVE Balanced
  OBVIOUS
<1>1. \A k : Outstanding(k) = SumFunctionOnSet(Npacks, OfKey(k))
  BY DEF Outstanding, Npacks, OfKey
<1>2. finished => \A k \in Keys : OfKey(k) = {}
  BY DEF BooksOK, OfKey
<1> QED
  BY <1>1, <1>2, SumEmpty DEF Owing, Balanced

\* The books balance whatever is opened, counted, retired and reported, in any
\* order: nothing is written twice and nothing is forgotten.
THEOREM BooksBalance == Spec => []Balanced
<1>1. Init => BooksOK /\ Owing
  BY InitOwing
<1> QED
  BY <1>1, StepBalances, OwingBalances, PTL DEF Spec
=============================================================================

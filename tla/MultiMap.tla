------------------------------ MODULE MultiMap ------------------------------
(***************************************************************************)
(* What libbpf/src/hashmap.h promises: the values of each key, the four    *)
(* insertion strategies, and an answer for each call.  Where a key has     *)
(* several values a call meets the first of them, the last inserted, as    *)
(* hashmap.h 77-79 says of hashmap__find.                                  *)
(*                                                                         *)
(* One step is allowed that hashmap.h does not speak of: an insertion that *)
(* makes the table grow turns the values of every key round (hashmap.c     *)
(* 105-108), so that hashmap__find then returns the one inserted first.    *)
(* It is no part of the promise; Grown is the only place it has.           *)
(***************************************************************************)
EXTENDS Integers, FiniteSetsExt, SequencesExt

CONSTANTS Keys, Values

VARIABLES
  of,           \* the values of each key, the last inserted first
  room,         \* buckets of the table
  ret           \* the answer of the last call

vars == <<of, room, ret>>

Init == of = [k \in Keys |-> <<>>] /\ room = 0 /\ ret = <<"none">>

Has(k) == of[k] # <<>>
Size == MapThenSumSet(LAMBDA k : Len(of[k]), Keys)

\* The values once the table has room for one more: as they were, or, in a larger table, which
\* a table is given only when it is empty or more than 75% full, the values of every key turned.
Grown(table) ==
  \/ UNCHANGED room /\ table = of
  \/ 4 * (Size + 1) > 3 * room /\ room' > room /\ table = [k \in Keys |-> Reverse(of[k])]
Tables == {of, [k \in Keys |-> Reverse(of[k])]}

Put(k, v) == \E table \in Tables :
  Grown(table) /\ of' = [table EXCEPT ![k] = <<v>> \o @] /\ ret' = <<"added">>
NoMemory == \E table \in Tables : Grown(table) /\ of' = table /\ ret' = <<"ENOMEM">>
Insert(k, v) == Put(k, v) \/ NoMemory

Replace(k, v) ==
  Has(k) /\ of' = [of EXCEPT ![k][1] = v] /\ ret' = <<"replaced", Head(of[k])>> /\ UNCHANGED room

Answers(answer) == ret' = answer /\ UNCHANGED <<of, room>>

Add(k, v) == IF Has(k) THEN Answers(<<"EEXIST", Head(of[k])>>) ELSE Insert(k, v)
Set(k, v) == Replace(k, v) \/ (~ Has(k) /\ Insert(k, v))
Update(k, v) == Replace(k, v) \/ (~ Has(k) /\ Answers(<<"ENOENT">>))
InsertAlways(k, v) == Insert(k, v)

Find(k) == Answers(IF Has(k) THEN <<"found", Head(of[k])>> ELSE <<"missing">>)
Delete(k) ==
  \/ ~ Has(k) /\ Answers(<<"missing">>)
  \/ Has(k) /\ of' = [of EXCEPT ![k] = Tail(@)] /\ ret' = <<"deleted", Head(of[k])>> /\ UNCHANGED room

Iterate == Answers(<<"entries", of>>)
IterateKey(k) == Answers(<<"values", of[k]>>)

Free == of' = [k \in Keys |-> <<>>] /\ room' = 0 /\ ret' = <<"none">>

Next ==
  \/ \E k \in Keys, v \in Values : Add(k, v) \/ Set(k, v) \/ Update(k, v) \/ InsertAlways(k, v)
  \/ \E k \in Keys : Find(k) \/ Delete(k) \/ IterateKey(k)
  \/ Iterate \/ Free

Spec == Init /\ [][Next]_vars
=============================================================================

------------------------------- MODULE NlAttr -------------------------------
(***************************************************************************)
(* libbpf_nla_parse (libbpf/src/nlattr.c): a stream of netlink attributes  *)
(* is indexed by type.  One step looks at one attribute.  remaining is an  *)
(* int that is compared with a size_t: below zero it counts as very large. *)
(***************************************************************************)
EXTENDS Integers, SequencesExt

CONSTANTS
  Streams,      \* the attributes: sequences of records nla_type, nla_len, nul
  Lengths,      \* what the message says the stream's length is
  MaxType,
  Policies      \* policies: functions from 0 .. MaxType, or NoPolicy

NoPolicy == <<>>
HDR == 4                                    \* sizeof(struct nlattr), NLA_HDRLEN
NLA_ALIGN(n) == 4 * ((n + 3) \div 4)

\* A policy's minlen and maxlen are 0 when not given.
PolicyTypes == {"unspec", "u8", "u32", "string", "flag"}
StreamAssumption ==
  /\ \A s \in Streams : \A k \in DOMAIN s : s[k].nla_type \in Nat /\ s[k].nla_len \in Nat /\ s[k].nul \in BOOLEAN
  /\ Lengths \subseteq Nat /\ MaxType \in Nat
  /\ \A p \in Policies : p = NoPolicy \/ \A t \in 0 .. MaxType : p[t].type \in PolicyTypes

VARIABLES stream, len, policy, k, rem, tb, err

vars == <<stream, len, policy, k, rem, tb, err>>

\* k: the attribute at the cursor; tb[t]: the attribute stored for type t, 0: none.
Init ==
  /\ stream \in Streams /\ len \in Lengths /\ policy \in Policies
  /\ k = 1 /\ rem = len
  /\ tb = [t \in 0 .. MaxType |-> 0] /\ err = "running"

\* Bytes behind the stream are some other attribute-like value: length 0.
nla == IF k <= Len(stream) THEN stream[k] ELSE [nla_type |-> 0, nla_len |-> 0, nul |-> FALSE]
PayloadLen(a) == a.nla_len - HDR

nla_ok ==
  /\ rem >= HDR \/ rem < 0                  \* (size_t) remaining >= sizeof(*nla)
  /\ nla.nla_len >= HDR
  /\ nla.nla_len <= rem

nla_attr_minlen(type) == CASE type = "u8" -> 1 [] type = "u32" -> 4 [] type = "string" -> 1
                           [] type \in {"flag", "unspec"} -> 0
validate_nla(a) ==
  policy # NoPolicy =>
    LET pt == policy[a.nla_type]
        minlen == IF pt.minlen # 0 THEN pt.minlen ELSE nla_attr_minlen(pt.type)
    IN  /\ PayloadLen(a) >= minlen
        /\ pt.maxlen # 0 => PayloadLen(a) <= pt.maxlen
        /\ pt.type = "string" => a.nul          \* the last byte

nla_next == k' = k + 1 /\ rem' = rem - NLA_ALIGN(nla.nla_len)

Ignored ==
  /\ err = "running" /\ nla_ok /\ nla.nla_type > MaxType
  /\ nla_next
  /\ UNCHANGED <<stream, len, policy, tb, err>>

Indexed == [tb EXCEPT ![nla.nla_type] = k]
libbpf_nla_parse ==
  /\ err = "running" /\ nla_ok /\ nla.nla_type <= MaxType /\ validate_nla(nla)
  /\ tb' = Indexed
  /\ nla_next
  /\ UNCHANGED <<stream, len, policy, err>>

Invalid ==
  /\ err = "running" /\ nla_ok /\ nla.nla_type <= MaxType /\ ~ validate_nla(nla)
  /\ err' = "invalid"
  /\ UNCHANGED <<stream, len, policy, k, rem, tb>>

End ==
  /\ err = "running" /\ ~ nla_ok
  /\ err' = "ok"
  /\ UNCHANGED <<stream, len, policy, k, rem, tb>>

Next == Ignored \/ libbpf_nla_parse \/ Invalid \/ End

Spec == Init /\ [][Next]_vars
-----------------------------------------------------------------------------
TypeOK ==
  /\ k \in Nat \ {0} /\ rem \in Int /\ err \in {"running", "ok", "invalid"}
  /\ tb \in [0 .. MaxType -> 0 .. Len(stream)]

\* Where attribute j begins.
Offset(j) == FoldLeft(LAMBDA n, a : n + NLA_ALIGN(a.nla_len), 0, SubSeq(stream, 1, j - 1))

\* An attribute that is indexed lies in the stream to its last byte, also when lengths
\* lie, are not aligned, or take the count of remaining bytes below zero.
InBounds ==
  \A t \in 0 .. MaxType : tb[t] # 0 => Offset(tb[t]) + stream[tb[t]].nla_len <= len

\* Reference: the attributes up to the first that does not fit.
Fits(j) == stream[j].nla_len >= HDR /\ Offset(j) + stream[j].nla_len <= len
Prefix == {j \in DOMAIN stream : \A i \in 1 .. j : Fits(i)}

\* What is indexed for a type is its last attribute before the first that does not fit;
\* a type that occurs is not left out, and nothing is in another's place.
LastWins ==
  err = "ok" =>
    \A t \in 0 .. MaxType :
      LET js == {j \in Prefix : stream[j].nla_type = t}
      IN  IF js = {} THEN tb[t] = 0 ELSE tb[t] \in js /\ \A j \in js : j <= tb[t]

\* With a policy, what libbpf_nla_dump_errormsg prints as a string is one, and what is
\* read as a number has all of its bytes; an index is complete only if all did.
PolicyKept ==
  policy # NoPolicy =>
    \A t \in 0 .. MaxType : tb[t] # 0 =>
      LET a == stream[tb[t]] IN
      /\ policy[t].type = "string" => PayloadLen(a) > 0 /\ a.nul
      /\ policy[t].type = "u32" /\ policy[t].minlen = 0 => PayloadLen(a) >= 4
      /\ policy[t].type = "u8" /\ policy[t].minlen = 0 => PayloadLen(a) >= 1
=============================================================================

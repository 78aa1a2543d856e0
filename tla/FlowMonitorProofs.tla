------------------------- MODULE FlowMonitorProofs -------------------------
(***************************************************************************)
(* Proofs about FlowMonitor for pools of every size, every set of keys and *)
(* every clock.                                                            *)
(***************************************************************************)
EXTENDS FlowMonitor, TLAPS, SequenceTheorems, FiniteSetTheorems

\* Taking a list from its ring and hanging a node at either end keeps a list of
\* addresses a list of addresses.
LEMMA ListTypes ==
  ASSUME NEW l \in Seq(Addr), NEW n \in Addr
  PROVE  /\ list_prepend_node(l, n) \in Seq(Addr)
         /\ list_append_node(l, n) \in Seq(Addr)
         /\ list_pop_first_node(l) \in Seq(Addr)
  BY DEF list_prepend_node, list_append_node, list_pop_first_node

\* list_unlink leaves a list of addresses, whether or not the node is in it.
LEMMA UnlinkType ==
  ASSUME NEW l \in Seq(Addr), NEW n
  PROVE  list_unlink(l, n) \in Seq(Addr)
<1> DEFINE I == FirstMatch(l, {n})
           i == CHOOSE i \in I : TRUE
<1>1. CASE I = {}
  BY <1>1 DEF list_unlink
<1>2. CASE I # {}
  <2>1. i \in 1 .. Len(l)
    BY <1>2 DEF FirstMatch
  <2> HIDE DEF i
  <2>2. RemoveAt(l, i) \in Seq(Addr)
    BY <2>1 DEF RemoveAt
  <2> QED
    BY <1>2, <2>2 DEF list_unlink, i
<1> QED
  BY <1>1, <1>2

\* NULL, the sessions and the nodes are addresses, and addresses are numbers.
LEMMA AddrType == /\ NULL \in Addr /\ Addr \subseteq Nat
                  /\ Sessions \subseteq Addr /\ Nodes \subseteq Addr
  BY PoolAssumption DEF Addr, NULL, Sessions, Nodes

\* What list_search finds is an address.
LEMMA FoundType ==
  ASSUME TypeOK, NEW k \in Keys
  PROVE  Found(k) \in Addr
<1> DEFINE l == flow_table[Hash[k]]
<1>1. l \in Seq(Addr)
  BY HashAssumption DEF TypeOK
<1> DEFINE I == FirstMatch(l, SameTuple(k))
<1>2. Found(k) = IF I = {} THEN NULL ELSE l[CHOOSE i \in I : TRUE]
  BY DEF Found, list_search
<1>3. I # {} => (CHOOSE i \in I : TRUE) \in 1 .. Len(l)
  BY DEF FirstMatch
<1> HIDE DEF I
<1> QED
  BY <1>1, <1>2, <1>3, AddrType

\* The first and the last node of a list, or NULL for an empty one, are addresses.
LEMMA EndTypes ==
  ASSUME NEW l \in Seq(Addr)
  PROVE  /\ list_get_last_node(l, NULL) \in Addr
         /\ list_get_first_node(l, NULL) \in Addr
         /\ l # <<>> => Head(l) \in Addr
  BY AddrType DEF list_get_last_node, list_get_first_node, Last

\* The state main sets up before it starts the threads is well typed.
THEOREM InitType == Init => TypeOK
<1> SUFFICES ASSUME Init PROVE TypeOK
  OBVIOUS
<1> USE AddrType, PoolAssumption
<1>1. sessFree \in Seq(Addr) /\ nodeFree \in Seq(Addr)
  BY DEF Init, Addr
<1>2. sess \in [Addr -> SessionRecs]
  BY DEF Init, Blank, SessionRecs, Packets
<1>3. pc \in PCs
  BY DEF Init, PCs
<1>4. data \in [Addr -> Addr] /\ flow_table \in [Buckets -> Seq(Addr)] /\ due \in [Keys -> Int]
  BY DEF Init
<1>5. /\ active_flow_list \in Seq(Addr) /\ flags_expired_flow_list \in Seq(Addr)
      /\ expired_flow_list \in Seq(Addr)
  BY DEF Init
<1>6. aux_session \in Addr /\ naux \in Addr /\ node \in Addr
  BY DEF Init
<1>7. /\ sessUsed \in Int /\ nodeUsed \in Int /\ previous \in Nat /\ previous2 \in Nat
      /\ ntimeouts \in 0 .. NTimeouts /\ npkts \in 0 .. MaxPackets
  BY BoundAssumption DEF Init
<1>8. /\ sem_expired_list \in {"none", "export"} /\ stop_et \in BOOLEAN
      /\ last_packet_timestamp \in Clock \cup {0, Infinity} /\ pkt \in Packets
  BY DEF Init, Packets
<1> QED
  BY <1>1, <1>2, <1>3, <1>4, <1>5, <1>6, <1>7, <1>8 DEF TypeOK

\* Assigning a well-typed value to a field of a session keeps memory well-typed.
LEMMA FieldTypes ==
  ASSUME NEW f \in [Addr -> SessionRecs], NEW a \in Addr
  PROVE  /\ \A k \in Packets : [f EXCEPT ![a].key = k] \in [Addr -> SessionRecs]
         /\ \A i \in Nat : [f EXCEPT ![a].npack = i] \in [Addr -> SessionRecs]
         /\ \A i \in Nat : [f EXCEPT ![a].last = i] \in [Addr -> SessionRecs]
         /\ \A n \in Addr : [f EXCEPT ![a].active_node = n] \in [Addr -> SessionRecs]
         /\ f[a].npack \in Nat /\ f[a].active_node \in Addr
<1>1. f[a] \in SessionRecs
  OBVIOUS
<1>2. ASSUME NEW r \in SessionRecs
      PROVE  /\ \A k \in Packets : [r EXCEPT !.key = k] \in SessionRecs
             /\ \A i \in Nat : [r EXCEPT !.npack = i] \in SessionRecs
             /\ \A i \in Nat : [r EXCEPT !.last = i] \in SessionRecs
             /\ \A n \in Addr : [r EXCEPT !.active_node = n] \in SessionRecs
             /\ r.npack \in Nat /\ r.active_node \in Addr
  BY DEF SessionRecs
<1> QED
  BY <1>1, <1>2

\* A packet from rx_and_process brings a timestamp of the clock and nothing else.
LEMMA ReceiveType ==
  ASSUME TypeOK, NEW p \in Packets, NEW t \in Clock, Receive(p, t)
  PROVE  /\ npkts' \in 0 .. MaxPackets /\ pkt' \in Packets /\ ntimeouts' \in 0 .. NTimeouts
         /\ last_packet_timestamp' \in Clock \cup {0, Infinity}
         /\ t \div UsInSec \in Nat \ {0}
         /\ pc["process"] = "poll"
<1>1. t \in Nat /\ t >= UsInSec /\ UsInSec \in Nat \ {0}
  BY TimeAssumption
<1>2. t \div UsInSec \in Nat \ {0}
  BY <1>1
<1> QED
  BY <1>2, BoundAssumption DEF TypeOK, Receive

\* process_packet, up to parsePacket, keeps the types, initData included.
LEMMA ArrivalType ==
  ASSUME TypeOK, Arrival
  PROVE  TypeOK'
<1> PICK p \in Packets, t \in Clock :
      FirstPacket(p, t) \/ NewSecond(p, t) \/ SameSecond(p, t) \/ Rollback(p, t)
  BY DEF Arrival
<1>1. Receive(p, t)
  BY DEF FirstPacket, initData, initDataRest, NewSecond, SameSecond, Rollback, RolledBack
<1> USE <1>1, ReceiveType, AddrType
<1>2. ASSUME AfterTimes(p) PROVE pc' \in PCs
  BY <1>2 DEF TypeOK, AfterTimes, Goto, PCs
<1>3. CASE FirstPacket(p, t)
  BY <1>2, <1>3, SMTT(30) DEF TypeOK, FirstPacket, initData, initDataRest, pools
<1>4. CASE NewSecond(p, t)
  BY <1>4 DEF TypeOK, NewSecond, pools, lists, Goto, PCs
<1>5. CASE SameSecond(p, t)
  BY <1>2, <1>5 DEF TypeOK, SameSecond, pools, lists
<1>6. CASE Rollback(p, t)
  BY <1>2, <1>6 DEF TypeOK, Rollback, RolledBack, pools, lists
<1> QED
  BY <1>3, <1>4, <1>5, <1>6

\* Taking from a pool and giving back to it (getNodel, releaseNodel,
\* releaseIPSession) keep the pools and the sessions well typed.
LEMMA PoolTypes ==
  ASSUME TypeOK
  PROVE  /\ CanGet(sessFree) => Got(sessFree) \in Addr /\ AfterGet(sessFree) \in Seq(Addr)
         /\ CanGet(nodeFree) => Got(nodeFree) \in Addr /\ AfterGet(nodeFree) \in Seq(Addr)
         /\ \A n \in Addr : releaseNodel(n) => nodeFree' \in Seq(Addr) /\ nodeUsed' \in Int
         /\ getNodel => nodeFree' \in Seq(Addr) /\ nodeUsed' \in Int
<1>1. ASSUME NEW l \in Seq(Addr), CanGet(l) PROVE l # <<>>
  BY <1>1 DEF CanGet
<1>2. /\ CanGet(sessFree) => Got(sessFree) \in Addr /\ AfterGet(sessFree) \in Seq(Addr)
      /\ CanGet(nodeFree) => Got(nodeFree) \in Addr /\ AfterGet(nodeFree) \in Seq(Addr)
  BY <1>1, ListTypes, EndTypes DEF TypeOK, Got, AfterGet
<1>3. ASSUME NEW n \in Addr, releaseNodel(n) PROVE nodeFree' \in Seq(Addr) /\ nodeUsed' \in Int
  <2>1. list_append_node(nodeFree, n) \in Seq(Addr)
    BY ListTypes DEF TypeOK
  <2> QED
    BY <1>3, <2>1 DEF releaseNodel, TypeOK
<1>4. ASSUME getNodel PROVE nodeFree' \in Seq(Addr) /\ nodeUsed' \in Int
  BY <1>2, <1>4 DEF getNodel, TypeOK
<1> QED
  BY <1>2, <1>3, <1>4

\* The loop of cleanup_flows keeps the types, whichever thread runs it.
LEMMA CleanupType ==
  ASSUME TypeOK, NEW t \in {"process", "main"}
  PROVE  /\ ExpireOldest(t) => TypeOK'
         /\ StopExpiring(t) => TypeOK'
<1> USE AddrType
<1>1. ASSUME ExpireOldest(t) PROVE TypeOK'
  <2>1. Oldest \in Addr /\ OldestInTable \in Addr /\ OldestSession \in Addr
    BY EndTypes DEF TypeOK, Oldest, OldestInTable, OldestSession
  <2>2. nodeFree' \in Seq(Addr) /\ nodeUsed' \in Int
    BY <1>1, <2>1, PoolTypes DEF ExpireOldest
  <2>3. data' \in [Addr -> Addr]
    BY <1>1, <2>1 DEF TypeOK, ExpireOldest
  <2>4. flow_table' \in [Buckets -> Seq(Addr)]
    BY <1>1, <2>1, UnlinkType DEF TypeOK, ExpireOldest
  <2>5. active_flow_list' \in Seq(Addr) /\ flags_expired_flow_list' \in Seq(Addr)
    BY <1>1, <2>1, UnlinkType, ListTypes DEF TypeOK, ExpireOldest
  <2> QED
    BY <1>1, <2>2, <2>3, <2>4, <2>5 DEF TypeOK, ExpireOldest, times, work
<1>2. ASSUME StopExpiring(t) PROVE TypeOK'
  BY <1>2 DEF TypeOK, StopExpiring, pools, lists, times, work, Goto, PCs
<1> QED
  BY <1>1, <1>2

\* The critical section at the end of cleanup_flows keeps the types.
LEMMA SpliceType ==
  ASSUME TypeOK
  PROVE  /\ SpliceProcess => TypeOK'
         /\ SpliceMain => TypeOK'
<1>1. ASSUME NEW t, Splice(t)
      PROVE  expired_flow_list' \in Seq(Addr) /\ flags_expired_flow_list' \in Seq(Addr)
  BY <1>1 DEF TypeOK, Splice, HangBehind
<1>2. ASSUME SpliceProcess PROVE TypeOK'
  <2>1. last_packet_timestamp \in Nat /\ UsInSec \in Nat \ {0}
    BY TimeAssumption DEF TypeOK, Infinity
  <2>3. previous' \in Nat
    BY <1>2, <2>1 DEF SpliceProcess
  <2>2. pc' \in PCs
    BY <1>2 DEF TypeOK, SpliceProcess, AfterTimes, Goto, PCs
  <2> QED
    BY <1>1, <1>2, <2>2, <2>3 DEF TypeOK, SpliceProcess, Splice, HangBehind, pools, work
<1>3. ASSUME SpliceMain PROVE TypeOK'
  BY <1>1, <1>3 DEF TypeOK, SpliceMain, Splice, HangBehind, pools, work, Goto, PCs
<1> QED
  BY <1>2, <1>3


\* The session parsePacket fills is one of the pool or the one left over.
LEMMA FillingType ==
  ASSUME TypeOK, NEW s \in Sessions, Filling(s)
  PROVE  sessFree' \in Seq(Addr) /\ sessUsed' \in Int /\ s \in Addr
         /\ pc["process"] = "parse"
<1>1. CASE aux_session = NULL /\ CanGet(sessFree)
  BY <1>1, PoolTypes, AddrType DEF Filling, TypeOK
<1>2. CASE UNCHANGED <<sessFree, sessUsed>>
  BY <1>2, AddrType DEF Filling, TypeOK
<1> QED
  BY <1>1, <1>2 DEF Filling

\* parsePacket and insertFlow, up to the first getNodel, keep the types.
LEMMA ParseType ==
  ASSUME TypeOK, NEW s \in Sessions
  PROVE  /\ ParseOther(s) => TypeOK'
         /\ ParseNew(s) => TypeOK'
         /\ ParseUpdate(s) => TypeOK'
<1> USE AddrType
<1>1. ASSUME ParseOther(s) PROVE TypeOK'
  <2>1. /\ sessFree' \in Seq(Addr) /\ sessUsed' \in Int /\ s \in Addr
        /\ pc["process"] = "parse"
    BY <1>1, FillingType DEF ParseOther
  <2> DEFINE f == [sess EXCEPT ![s].key = Short]
  <2>3. f \in [Addr -> SessionRecs]
    BY <2>1, FieldTypes DEF TypeOK, Packets
  <2>4. sess' = [f EXCEPT ![s].npack = 0]
    BY <1>1 DEF ParseOther
  <2> HIDE DEF f
  <2>2. sess' \in [Addr -> SessionRecs]
    BY <2>1, <2>3, <2>4, FieldTypes
  <2> QED
    BY <1>1, <2>1, <2>2 DEF TypeOK, ParseOther, lists, times, Goto, PCs
<1>2. ASSUME ParseNew(s) PROVE TypeOK'
  <2>1. /\ sessFree' \in Seq(Addr) /\ sessUsed' \in Int /\ s \in Addr
        /\ pc["process"] = "parse"
    BY <1>2, FillingType DEF ParseNew
  <2>2. last_packet_timestamp \in Nat
    BY TimeAssumption DEF TypeOK, Infinity
  <2>3. Filled(pkt) \in SessionRecs
    BY <1>2, <2>2 DEF TypeOK, ParseNew, SessionRecs, Packets, Filled
  <2>4. sess' \in [Addr -> SessionRecs]
    BY <1>2, <2>1, <2>3 DEF TypeOK, ParseNew
  <2> QED
    BY <1>2, <2>1, <2>4 DEF TypeOK, ParseNew, lists, times, Goto, PCs
<1>3. ASSUME ParseUpdate(s) PROVE TypeOK'
  <2>1. /\ sessFree' \in Seq(Addr) /\ sessUsed' \in Int /\ s \in Addr
        /\ pc["process"] = "parse"
    BY <1>3, FillingType DEF ParseUpdate
  <2> DEFINE f == data[Found(pkt)]
             n == sess[f].active_node
  <2>2. last_packet_timestamp \in Nat
    BY TimeAssumption DEF TypeOK, Infinity
  <2>3. pkt \in Keys /\ f \in Addr
    BY <1>3, FoundType DEF TypeOK, ParseUpdate
  <2>4. n \in Addr
    BY <2>3 DEF TypeOK, SessionRecs
  <2>5. /\ sess' = [sess EXCEPT ![f].npack = @ + 1, ![f].last = last_packet_timestamp]
        /\ active_flow_list' = list_prepend_node(list_unlink(active_flow_list, n), n)
    BY <1>3 DEF ParseUpdate
  <2> HIDE DEF f
  <2> DEFINE x == sess[f].npack + 1
             g == [sess EXCEPT ![f].npack = x]
  <2>10. sess' = [g EXCEPT ![f].last = last_packet_timestamp]
    BY <2>5
  <2>12. sess[f].npack \in Nat
    BY <2>3, FieldTypes DEF TypeOK
  <2>11. x \in Nat
    BY <2>12
  <2> HIDE DEF x
  <2>9. g \in [Addr -> SessionRecs]
    BY <2>3, <2>11, FieldTypes DEF TypeOK
  <2> HIDE DEF g
  <2>6. sess' \in [Addr -> SessionRecs]
    BY <2>2, <2>3, <2>9, <2>10, FieldTypes
  <2>7. active_flow_list' \in Seq(Addr)
    BY <2>4, <2>5, UnlinkType, ListTypes DEF TypeOK
  <2>13. due' = [due EXCEPT ![pkt] = @ + 1]
    BY <1>3 DEF ParseUpdate
  <2>14. due \in [Keys -> Int]
    BY DEF TypeOK
  <2>15. due[pkt] + 1 \in Int
    BY <2>3, <2>14
  <2>8. due' \in [Keys -> Int]
    BY ONLY <2>3, <2>13, <2>14, <2>15
  <2> QED
    BY <1>3, <2>1, <2>6, <2>7, <2>8 DEF TypeOK, ParseUpdate, times, Goto, PCs
<1> QED
  BY <1>1, <1>2, <1>3

\* insertFlowTable, with its two failing paths, and an idle poll keep the types.
LEMMA InsertType ==
  ASSUME TypeOK
  PROVE  /\ NoSession => TypeOK'
         /\ InsertFirstNode => TypeOK'
         /\ InsertNoFirstNode => TypeOK'
         /\ InsertFlowTable => TypeOK'
         /\ InsertNoSecondNode => TypeOK'
         /\ InsertGivesUp => TypeOK'
         /\ PollTimeout => TypeOK'
<1> USE AddrType, PoolTypes
<1>1. ASSUME NoSession PROVE TypeOK'
  BY <1>1 DEF TypeOK, NoSession, pools, lists, times, work, Goto, PCs
<1>2. ASSUME InsertFirstNode PROVE TypeOK'
  <2>1. nodeFree' \in Seq(Addr) /\ nodeUsed' \in Int /\ Got(nodeFree) \in Addr
    BY <1>2 DEF InsertFirstNode, getNodel
  <2> QED
    BY <1>2, <2>1 DEF TypeOK, InsertFirstNode, lists, times, Goto, PCs
<1>3. ASSUME InsertNoFirstNode PROVE TypeOK'
  BY <1>3 DEF TypeOK, InsertNoFirstNode, getNodelFails, lists, times, work, Goto, PCs
<1>4. ASSUME InsertFlowTable PROVE TypeOK'
  <2>1. nodeFree' \in Seq(Addr) /\ nodeUsed' \in Int /\ Got(nodeFree) \in Addr
    BY <1>4 DEF InsertFlowTable, Linked, SessionTaken, getNodel
  <2>2. data' \in [Addr -> Addr]
    BY <1>4, <2>1 DEF TypeOK, InsertFlowTable, Linked, SessionTaken
  <2>3. flow_table' \in [Buckets -> Seq(Addr)]
    BY <1>4, ListTypes DEF TypeOK, InsertFlowTable, Linked, SessionTaken
  <2>4. active_flow_list' \in Seq(Addr)
    BY <1>4, <2>1, ListTypes DEF TypeOK, InsertFlowTable, Linked, SessionTaken
  <2>5. sess' \in [Addr -> SessionRecs]
    BY <1>4, <2>1 DEF TypeOK, InsertFlowTable, Linked, SessionTaken, SessionRecs
  <2>6. due' \in [Keys -> Int]
    <3>1. \A k \in Keys : due[k] + 1 \in Int
      BY DEF TypeOK
    <3> QED
      BY <1>4, <3>1 DEF TypeOK, InsertFlowTable, Linked, SessionTaken
  <2> QED
    BY <1>4, <2>1, <2>2, <2>3, <2>4, <2>5, <2>6
       DEF TypeOK, InsertFlowTable, Linked, SessionTaken, times, Goto, PCs
<1>5. ASSUME InsertNoSecondNode PROVE TypeOK'
  BY <1>5 DEF TypeOK, InsertNoSecondNode, getNodelFails, lists, times, work, Goto, PCs
<1>6. ASSUME InsertGivesUp PROVE TypeOK'
  <2>1. nodeFree' \in Seq(Addr) /\ nodeUsed' \in Int
    BY <1>6 DEF InsertGivesUp, TypeOK
  <2> QED
    BY <1>6, <2>1 DEF TypeOK, InsertGivesUp, lists, times, Goto, PCs
<1>7. ASSUME PollTimeout PROVE TypeOK'
  <2>1. ntimeouts' \in 0 .. NTimeouts
    <3>1. ntimeouts < NTimeouts /\ ntimeouts' = ntimeouts + 1
      BY <1>7 DEF PollTimeout, GoOn
    <3>2. ntimeouts \in 0 .. NTimeouts
      BY DEF TypeOK
    <3> QED
      BY <3>1, <3>2, BoundAssumption
  <2> QED
    BY <1>7, <2>1 DEF TypeOK, PollTimeout, GoOn, pools, lists, times, PCs
<1> QED
  BY <1>1, <1>2, <1>3, <1>4, <1>5, <1>6, <1>7

\* Every step of the export thread keeps the types.
LEMMA ExportType ==
  ASSUME TypeOK, ExportStep
  PROVE  TypeOK'
<1> USE AddrType DEF ExportRest
<1>1. CASE ExportLoop
  BY <1>1 DEF TypeOK, ExportLoop, pools, lists, times, work, Goto, PCs
<1>2. CASE ExportLock
  BY <1>2 DEF TypeOK, ExportLock, pools, lists, times, work, Goto, PCs
<1>3. CASE ExportCheck
  BY <1>3 DEF TypeOK, ExportCheck, SomethingExpired, pools, lists, times, work, Goto, PCs
<1>4. CASE ExportPop
  <2>1. node' \in Addr /\ expired_flow_list' \in Seq(Addr)
    BY <1>4, EndTypes, ListTypes DEF TypeOK, ExportPop
  <2> QED
    BY <1>4, <2>1 DEF TypeOK, ExportPop, pools, times, work, Goto, PCs
<1>5. CASE ExportUnlock
  BY <1>5 DEF TypeOK, ExportUnlock, pools, lists, times, work, Goto, PCs
<1>6. CASE ExportPrint
  <2>1. sess[data[node]].npack \in Nat
    BY FieldTypes DEF TypeOK
  <2>2. due' \in [Keys -> Int]
    BY <1>6, <2>1 DEF TypeOK, ExportPrint
  <2> QED
    BY <1>6, <2>2 DEF TypeOK, ExportPrint, pools, lists, times, work, Goto, PCs
<1>7. CASE ExportReleaseSession
  <2> DEFINE s == data[node]
             f == [sess EXCEPT ![s].key = Short]
  <2>1. s \in Addr
    BY DEF TypeOK
  <2>2. f \in [Addr -> SessionRecs]
    BY <2>1, FieldTypes DEF TypeOK, Packets
  <2>3. sess' = [f EXCEPT ![s].npack = 0]
    BY <1>7 DEF ExportReleaseSession, releaseIPSession
  <2>6. list_append_node(sessFree, s) \in Seq(Addr)
    BY <2>1, ListTypes DEF TypeOK
  <2>4. sessFree' \in Seq(Addr) /\ sessUsed' \in Int
    BY <1>7, <2>6 DEF TypeOK, ExportReleaseSession, releaseIPSession
  <2> HIDE DEF f
  <2>5. sess' \in [Addr -> SessionRecs]
    BY <2>1, <2>2, <2>3, FieldTypes
  <2> QED
    BY <1>7, <2>4, <2>5 DEF TypeOK, ExportReleaseSession, lists, times, work, Goto, PCs
<1>8. CASE ExportReleaseNode
  <2>1. nodeFree' \in Seq(Addr) /\ nodeUsed' \in Int
    BY <1>8, PoolTypes DEF TypeOK, ExportReleaseNode
  <2> QED
    BY <1>8, <2>1 DEF TypeOK, ExportReleaseNode, lists, times, work, Goto, PCs
<1>9. CASE ExportEnd
  BY <1>9 DEF TypeOK, ExportEnd, pools, lists, times, work, Goto, PCs
<1> QED
  BY <1>1, <1>2, <1>3, <1>4, <1>5, <1>6, <1>7, <1>8, <1>9 DEF ExportStep

\* capturaSenial keeps the types, freeing the pools included.
LEMMA MainType ==
  ASSUME TypeOK, Sigint \/ MainJoin \/ MainStop \/ MainFree
  PROVE  TypeOK'
<1> USE AddrType DEF MainRest
<1>1. CASE Sigint
  BY <1>1 DEF TypeOK, Sigint, pools, lists, times, work, Goto, PCs
<1>2. CASE MainJoin
  BY <1>2 DEF TypeOK, MainJoin, ProcessJoined, pools, lists, work, Goto, PCs
<1>3. CASE MainStop
  BY <1>3 DEF TypeOK, MainStop, StopExport, pools, lists, times, work, Goto, PCs
<1>4. CASE MainFree
  <2>1. flow_table' \in [Buckets -> Seq(Addr)] /\ sessFree' \in Seq(Addr) /\ nodeFree' \in Seq(Addr)
    BY <1>4 DEF MainFree
  <2>2. /\ sessUsed' \in Int /\ nodeUsed' \in Int
        /\ last_packet_timestamp' \in Clock \cup {0, Infinity}
    BY <1>4 DEF MainFree
  <2>3. pc' \in PCs
    BY <1>4 DEF TypeOK, MainFree, Goto, PCs
  <2> QED
    BY <1>4, <2>1, <2>2, <2>3 DEF TypeOK, MainFree, work
<1> QED
  BY <1>1, <1>2, <1>3, <1>4

\* Every step of the three threads keeps every variable, and all of memory, well
\* typed, whatever the pools' sizes, the clock and the traffic.
THEOREM StepType == TypeOK /\ [Next]_vars => TypeOK'
<1> SUFFICES ASSUME TypeOK, [Next]_vars PROVE TypeOK'
  OBVIOUS
<1>1. CASE Arrival
  BY <1>1, ArrivalType
<1>2. CASE ProcessStep
  BY <1>2, CleanupType, SpliceType, ParseType, InsertType DEF ProcessStep
<1>3. CASE ExportStep
  BY <1>3, ExportType
<1>4. CASE Sigint \/ MainStep
  BY <1>4, MainType, CleanupType, SpliceType DEF MainStep
<1>5. CASE UNCHANGED vars
  BY <1>5 DEF TypeOK, vars, pools, lists, times, work
<1> QED
  BY <1>1, <1>2, <1>3, <1>4, <1>5 DEF Next, Terminated

\* The monitor is type correct.
THEOREM TypeCorrect == Spec => []TypeOK
  BY InitType, StepType, PTL DEF Spec
-----------------------------------------------------------------------------
(***************************************************************************)
(* What the operations do to the set of a list's nodes, to their order and *)
(* to a list that holds each node once.                                    *)
(***************************************************************************)
\* list_append_node and list_prepend_node add one node to those of the list, and
\* keep a list without repetitions so if the node is new to it.
LEMMA ListAdd ==
  ASSUME NEW S, NEW l \in Seq(S), NEW n \in S
  PROVE  /\ ToSet(list_append_node(l, n)) = ToSet(l) \cup {n}
         /\ ToSet(list_prepend_node(l, n)) = ToSet(l) \cup {n}
         /\ IsInjective(l) /\ n \notin ToSet(l) => /\ IsInjective(list_append_node(l, n))
                                                  /\ IsInjective(list_prepend_node(l, n))
<1> DEFINE u == list_append_node(l, n)
           v == list_prepend_node(l, n)
<1>1. u \in Seq(S) /\ Len(u) = Len(l) + 1
      /\ \A i \in 1 .. Len(l) + 1 : u[i] = IF i <= Len(l) THEN l[i] ELSE n
  BY DEF list_append_node
<1>2. v \in Seq(S) /\ Len(v) = Len(l) + 1
      /\ \A i \in 1 .. Len(l) + 1 : v[i] = IF i = 1 THEN n ELSE l[i - 1]
  BY DEF list_prepend_node
<1>3. Len(l) \in Nat /\ DOMAIN l = 1 .. Len(l) /\ DOMAIN u = 1 .. Len(l) + 1
      /\ DOMAIN v = 1 .. Len(l) + 1
  BY <1>1, <1>2
<1> HIDE DEF u, v
<1>4. ToSet(u) = ToSet(l) \cup {n}
  <2>1. \A i \in 1 .. Len(l) : i \in 1 .. Len(l) + 1 /\ u[i] = l[i]
    BY <1>1, <1>3
  <2>2. Len(l) + 1 \in 1 .. Len(l) + 1 /\ u[Len(l) + 1] = n
    BY <1>1, <1>3
  <2> QED
    BY <1>1, <1>3, <2>1, <2>2 DEF ToSet
<1>5. ToSet(v) = ToSet(l) \cup {n}
  <2>1. \A i \in 1 .. Len(l) : i + 1 \in 1 .. Len(l) + 1 /\ v[i + 1] = l[i]
    BY <1>2, <1>3
  <2>2. 1 \in 1 .. Len(l) + 1 /\ v[1] = n
    BY <1>2, <1>3
  <2>3. \A i \in 1 .. Len(l) + 1 : i = 1 \/ (i - 1 \in 1 .. Len(l) /\ v[i] = l[i - 1])
    BY <1>2, <1>3
  <2> QED
    BY <1>3, <2>1, <2>2, <2>3, SMTT(30) DEF ToSet
<1>6. IsInjective(l) /\ n \notin ToSet(l) => IsInjective(u) /\ IsInjective(v)
  <2> SUFFICES ASSUME \A i, j \in 1 .. Len(l) : l[i] = l[j] => i = j,
                      \A i \in 1 .. Len(l) : l[i] # n
               PROVE  /\ \A i, j \in 1 .. Len(l) + 1 : u[i] = u[j] => i = j
                      /\ \A i, j \in 1 .. Len(l) + 1 : v[i] = v[j] => i = j
    BY <1>3 DEF IsInjective, ToSet
  <2>1. \A i, j \in 1 .. Len(l) + 1 : u[i] = u[j] => i = j
    BY <1>1, <1>3
  <2>2. ASSUME NEW i \in 1 .. Len(l) + 1, NEW j \in 1 .. Len(l) + 1, v[i] = v[j] PROVE i = j
    <3>1. i = 1 \/ i - 1 \in 1 .. Len(l)
      BY <1>3
    <3>2. j = 1 \/ j - 1 \in 1 .. Len(l)
      BY <1>3
    <3> QED
      BY <1>2, <1>3, <2>2, <3>1, <3>2
  <2> QED
    BY <2>1, <2>2
<1> QED
  BY <1>1, <1>2, <1>4, <1>5, <1>6 DEF u, v

\* list_pop_first_node takes the first node out of a list.
LEMMA ListPop ==
  ASSUME NEW S, NEW l \in Seq(S), l # <<>>
  PROVE  /\ Head(l) \in ToSet(l)
         /\ IsInjective(l) => /\ ToSet(list_pop_first_node(l)) = ToSet(l) \ {Head(l)}
                              /\ IsInjective(list_pop_first_node(l))
<1> DEFINE u == list_pop_first_node(l)
<1>1. u \in Seq(S) /\ Len(u) = Len(l) - 1 /\ \A i \in 1 .. Len(u) : u[i] = l[i + 1]
  BY DEF list_pop_first_node
<1>2. Len(l) \in Nat /\ Len(l) >= 1 /\ Head(l) = l[1] /\ DOMAIN l = 1 .. Len(l)
      /\ DOMAIN u = 1 .. Len(u)
  BY <1>1
<1> HIDE DEF u
<1>3. Head(l) \in ToSet(l)
  BY <1>2 DEF ToSet
<1>4. ASSUME IsInjective(l) PROVE ToSet(u) = ToSet(l) \ {Head(l)} /\ IsInjective(u)
  <2>1. \A i \in 1 .. Len(u) : i + 1 \in 1 .. Len(l) /\ i + 1 # 1 /\ u[i] = l[i + 1]
    BY <1>1, <1>2
  <2>2. \A i \in 1 .. Len(l) : i = 1 \/ (i - 1 \in 1 .. Len(u) /\ u[i - 1] = l[i])
    BY <1>1, <1>2
  <2>3. \A i, j \in 1 .. Len(l) : l[i] = l[j] => i = j
    BY <1>2, <1>4 DEF IsInjective
  <2>4. ToSet(u) = ToSet(l) \ {l[1]}
    <3>1. ASSUME NEW x \in ToSet(u) PROVE x \in ToSet(l) /\ x # l[1]
      <4>1. PICK i \in 1 .. Len(u) : x = u[i]
        BY <1>2, <3>1 DEF ToSet
      <4> QED
        BY <1>2, <2>1, <2>3, <4>1 DEF ToSet
    <3>2. ASSUME NEW x \in ToSet(l), x # l[1] PROVE x \in ToSet(u)
      <4>1. PICK i \in 1 .. Len(l) : x = l[i] /\ i # 1
        BY <1>2, <3>2 DEF ToSet
      <4> QED
        BY <1>2, <2>2, <4>1 DEF ToSet
    <3> QED
      BY <3>1, <3>2
  <2>5. IsInjective(u)
    <3> SUFFICES ASSUME NEW i \in 1 .. Len(u), NEW j \in 1 .. Len(u), u[i] = u[j] PROVE i = j
      BY <1>2 DEF IsInjective
    <3>1. i + 1 = j + 1
      BY <2>1, <2>3
    <3> QED
      BY <3>1, <1>1
  <2> QED
    BY <1>2, <2>4, <2>5
<1> QED
  BY <1>3, <1>4 DEF u

\* The last node of a list that has one is one of its nodes.
LEMMA ListLast ==
  ASSUME NEW S, NEW l \in Seq(S), l # <<>>
  PROVE  Last(l) \in ToSet(l)
  BY DEF Last, ToSet

\* Hanging one list behind another joins their nodes.
LEMMA ListJoin ==
  ASSUME NEW S, NEW l \in Seq(S), NEW r \in Seq(S)
  PROVE  /\ ToSet(l \o r) = ToSet(l) \cup ToSet(r)
         /\ IsInjective(l) /\ IsInjective(r) /\ ToSet(l) \cap ToSet(r) = {} => IsInjective(l \o r)
<1> DEFINE u == l \o r
<1>1. u \in Seq(S) /\ Len(u) = Len(l) + Len(r)
      /\ \A i \in 1 .. Len(u) : u[i] = IF i <= Len(l) THEN l[i] ELSE r[i - Len(l)]
  OBVIOUS
<1>2. /\ Len(l) \in Nat /\ Len(r) \in Nat /\ DOMAIN l = 1 .. Len(l) /\ DOMAIN r = 1 .. Len(r)
      /\ DOMAIN u = 1 .. Len(u)
  BY <1>1
<1> HIDE DEF u
<1>3. \A i \in 1 .. Len(l) : i \in 1 .. Len(u) /\ u[i] = l[i]
  BY <1>1, <1>2
<1>4. \A i \in 1 .. Len(r) : i + Len(l) \in 1 .. Len(u) /\ u[i + Len(l)] = r[i]
  BY <1>1, <1>2
<1>5. \A i \in 1 .. Len(u) : \/ i \in 1 .. Len(l) /\ u[i] = l[i]
                             \/ i - Len(l) \in 1 .. Len(r) /\ u[i] = r[i - Len(l)]
  BY <1>1, <1>2
<1>6. ToSet(u) = ToSet(l) \cup ToSet(r)
  <2>1. ASSUME NEW x \in ToSet(u) PROVE x \in ToSet(l) \cup ToSet(r)
    <3>1. PICK i \in 1 .. Len(u) : x = u[i]
      BY <1>2, <2>1 DEF ToSet
    <3> QED
      BY ONLY <1>2, <1>5, <3>1 DEF ToSet
  <2>2. ASSUME NEW x \in ToSet(l) PROVE x \in ToSet(u)
    <3>1. PICK i \in 1 .. Len(l) : x = l[i]
      BY <1>2, <2>2 DEF ToSet
    <3> QED
      BY ONLY <1>2, <1>3, <3>1 DEF ToSet
  <2>3. ASSUME NEW x \in ToSet(r) PROVE x \in ToSet(u)
    <3>1. PICK i \in 1 .. Len(r) : x = r[i]
      BY <1>2, <2>3 DEF ToSet
    <3> QED
      BY ONLY <1>2, <1>4, <3>1 DEF ToSet
  <2> QED
    BY <2>1, <2>2, <2>3
<1>7. ASSUME IsInjective(l), IsInjective(r), ToSet(l) \cap ToSet(r) = {} PROVE IsInjective(u)
  <2> SUFFICES ASSUME NEW i \in 1 .. Len(u), NEW j \in 1 .. Len(u), u[i] = u[j] PROVE i = j
    BY <1>2 DEF IsInjective
  <2>1. \A p \in 1 .. Len(l), q \in 1 .. Len(r) : l[p] # r[q]
    BY <1>2, <1>7 DEF ToSet
  <2>2. \A p, q \in 1 .. Len(l) : l[p] = l[q] => p = q
    BY <1>2, <1>7 DEF IsInjective
  <2>3. \A p, q \in 1 .. Len(r) : r[p] = r[q] => p = q
    BY <1>2, <1>7 DEF IsInjective
  <2>4. \/ i \in 1 .. Len(l) /\ u[i] = l[i]
        \/ i - Len(l) \in 1 .. Len(r) /\ u[i] = r[i - Len(l)]
    BY ONLY <1>5, i \in 1 .. Len(u)
  <2>5. \/ j \in 1 .. Len(l) /\ u[j] = l[j]
        \/ j - Len(l) \in 1 .. Len(r) /\ u[j] = r[j - Len(l)]
    BY ONLY <1>5, j \in 1 .. Len(u)
  <2>6. i \in Int /\ j \in Int /\ Len(l) \in Int
    BY <1>2
  <2>7. i - Len(l) = j - Len(l) => i = j
    BY ONLY <2>6
  <2> QED
    BY ONLY <2>1, <2>2, <2>3, <2>4, <2>5, <2>7, u[i] = u[j]
<1> QED
  BY <1>6, <1>7 DEF u

\* RemoveAt moves the elements behind the one it removes up by one place.
LEMMA RemoveAtIs ==
  ASSUME NEW S, NEW l \in Seq(S), NEW k \in 1 .. Len(l)
  PROVE  /\ RemoveAt(l, k) \in Seq(S) /\ Len(RemoveAt(l, k)) = Len(l) - 1
         /\ DOMAIN RemoveAt(l, k) = 1 .. Len(l) - 1
         /\ \A i \in 1 .. Len(l) - 1 : RemoveAt(l, k)[i] = IF i < k THEN l[i] ELSE l[i + 1]
<1> DEFINE p == SubSeq(l, 1, k - 1)
           q == SubSeq(l, k + 1, Len(l))
           u == RemoveAt(l, k)
<1>1. Len(l) \in Nat /\ k \in Nat /\ 1 <= k /\ k <= Len(l) /\ \A i \in 1 .. Len(l) : l[i] \in S
  OBVIOUS
<1>2. u = p \o q
  BY DEF RemoveAt
<1>3. p \in Seq(S) /\ Len(p) = k - 1 /\ \A i \in 1 .. k - 1 : p[i] = l[i]
  <2>1. \A i \in 1 .. k - 1 : l[i] \in S
    BY <1>1
  <2>2. 1 \in Int /\ k - 1 \in Int
    BY <1>1
  <2>3. /\ p \in Seq(S) /\ Len(p) = IF 1 <= k - 1 THEN k - 1 - 1 + 1 ELSE 0
        /\ \A i \in 1 .. k - 1 - 1 + 1 : p[i] = l[1 + i - 1]
    BY ONLY <2>1, <2>2, SubSeqProperties DEF p
  <2> HIDE DEF p
  <2>4. Len(p) = k - 1
    BY ONLY <1>1, <2>3
  <2>5. \A i \in 1 .. k - 1 : i \in 1 .. k - 1 - 1 + 1 /\ 1 + i - 1 = i
    BY ONLY <1>1
  <2> QED
    BY <2>3, <2>4, <2>5
<1>4. q \in Seq(S) /\ Len(q) = Len(l) - k /\ \A i \in 1 .. Len(l) - k : q[i] = l[k + i]
  <2>1. \A i \in k + 1 .. Len(l) : l[i] \in S
    BY <1>1
  <2>2. k + 1 \in Int /\ Len(l) \in Int
    BY <1>1
  <2>3. /\ q \in Seq(S) /\ Len(q) = IF k + 1 <= Len(l) THEN Len(l) - (k + 1) + 1 ELSE 0
        /\ \A i \in 1 .. Len(l) - (k + 1) + 1 : q[i] = l[k + 1 + i - 1]
    BY ONLY <2>1, <2>2, SubSeqProperties DEF q
  <2> HIDE DEF q
  <2>4. Len(q) = Len(l) - k
    BY ONLY <1>1, <2>3
  <2>5. \A i \in 1 .. Len(l) - k : i \in 1 .. Len(l) - (k + 1) + 1 /\ k + 1 + i - 1 = k + i
    BY ONLY <1>1
  <2> QED
    BY <2>3, <2>4, <2>5
<1> HIDE DEF p, q, u
<1>5. /\ u \in Seq(S) /\ Len(u) = Len(p) + Len(q)
      /\ \A i \in 1 .. Len(p) + Len(q) : u[i] = IF i <= Len(p) THEN p[i] ELSE q[i - Len(p)]
  BY ONLY <1>2, <1>3, <1>4, ConcatProperties
<1>6. Len(p) + Len(q) = Len(l) - 1
  BY ONLY <1>1, <1>3, <1>4
<1>7. ASSUME NEW i \in 1 .. Len(l) - 1 PROVE u[i] = IF i < k THEN l[i] ELSE l[i + 1]
  <2>1. u[i] = IF i <= k - 1 THEN p[i] ELSE q[i - (k - 1)]
    BY <1>3, <1>5, <1>6
  <2>2. CASE i < k
    <3>1. i <= k - 1 /\ i \in 1 .. k - 1
      BY ONLY <1>1, <2>2, i \in 1 .. Len(l) - 1
    <3> QED
      BY <1>3, <2>1, <2>2, <3>1
  <2>3. CASE ~ (i < k)
    <3>1. ~ (i <= k - 1) /\ i - (k - 1) \in 1 .. Len(l) - k /\ k + (i - (k - 1)) = i + 1
      BY ONLY <1>1, <2>3, i \in 1 .. Len(l) - 1
    <3> QED
      BY <1>4, <2>1, <2>3, <3>1
  <2> QED
    BY <2>2, <2>3
<1>8. DOMAIN u = 1 .. Len(l) - 1
  BY <1>5, <1>6
<1> QED
  BY <1>5, <1>6, <1>7, <1>8 DEF u

\* list_unlink takes a node out of a list that holds it once, and leaves the
\* others in their order.
LEMMA ListUnlink ==
  ASSUME NEW S, NEW l \in Seq(S), IsInjective(l), NEW n \in ToSet(l)
  PROVE  /\ ToSet(list_unlink(l, n)) = ToSet(l) \ {n}
         /\ IsInjective(list_unlink(l, n))
         /\ \E k \in 1 .. Len(l) :
              /\ l[k] = n /\ Len(list_unlink(l, n)) = Len(l) - 1
              /\ \A i \in 1 .. Len(l) - 1 :
                   list_unlink(l, n)[i] = IF i < k THEN l[i] ELSE l[i + 1]
<1> DEFINE u == list_unlink(l, n)
<1>1. Len(l) \in Nat /\ DOMAIN l = 1 .. Len(l)
  OBVIOUS
<1>2. \A i, j \in 1 .. Len(l) : l[i] = l[j] => i = j
  BY <1>1 DEF IsInjective
<1>3. PICK k \in 1 .. Len(l) : l[k] = n
  BY <1>1 DEF ToSet
<1>4. FirstMatch(l, {n}) = {k}
  BY <1>1, <1>2, <1>3 DEF FirstMatch
<1>5. u = RemoveAt(l, k)
  BY <1>4 DEF list_unlink
<1> HIDE DEF u
<1>9. u \in Seq(S) /\ Len(u) = Len(l) - 1 /\ DOMAIN u = 1 .. Len(l) - 1
  BY <1>5, RemoveAtIs
<1>10. \A i \in 1 .. Len(l) - 1 : u[i] = IF i < k THEN l[i] ELSE l[i + 1]
  BY <1>5, RemoveAtIs
<1>11. \A i \in 1 .. Len(l) - 1 :
         \E j \in 1 .. Len(l) : j # k /\ u[i] = l[j] /\ j = IF i < k THEN i ELSE i + 1
  BY <1>1, <1>3, <1>10
<1>12. \A j \in 1 .. Len(l) : j # k => \E i \in 1 .. Len(l) - 1 : u[i] = l[j]
  <2> TAKE j \in 1 .. Len(l)
  <2> HAVE j # k
  <2>1. CASE j < k
    BY <1>1, <1>3, <1>10, <2>1
  <2>2. CASE j > k
    <3>1. j - 1 \in 1 .. Len(l) - 1 /\ ~ (j - 1 < k) /\ (j - 1) + 1 = j
      BY <1>1, <1>3, <2>2
    <3> QED
      BY <1>10, <3>1
  <2> QED
    BY <2>1, <2>2
<1>13. ToSet(u) = ToSet(l) \ {n}
  <2>1. ASSUME NEW x \in ToSet(u) PROVE x \in ToSet(l) /\ x # n
    <3>1. PICK i \in 1 .. Len(l) - 1 : x = u[i]
      BY <1>9, <2>1 DEF ToSet
    <3>2. PICK j \in 1 .. Len(l) : j # k /\ u[i] = l[j]
      BY <1>11
    <3> QED
      BY <1>1, <1>2, <1>3, <3>1, <3>2 DEF ToSet
  <2>2. ASSUME NEW x \in ToSet(l), x # n PROVE x \in ToSet(u)
    <3>1. PICK j \in 1 .. Len(l) : x = l[j] /\ j # k
      BY <1>1, <1>3, <2>2 DEF ToSet
    <3>2. PICK i \in 1 .. Len(l) - 1 : u[i] = l[j]
      BY <1>12, <3>1
    <3> QED
      BY <1>9, <3>1, <3>2 DEF ToSet
  <2> QED
    BY <2>1, <2>2
<1>14. IsInjective(u)
  <2> SUFFICES ASSUME NEW i \in 1 .. Len(l) - 1, NEW j \in 1 .. Len(l) - 1, u[i] = u[j]
               PROVE  i = j
    BY <1>9 DEF IsInjective
  <2>1. PICK ii \in 1 .. Len(l) : ii # k /\ u[i] = l[ii] /\ ii = IF i < k THEN i ELSE i + 1
    BY <1>11
  <2>2. PICK jj \in 1 .. Len(l) : jj # k /\ u[j] = l[jj] /\ jj = IF j < k THEN j ELSE j + 1
    BY <1>11
  <2>3. ii = jj
    BY <1>2, <2>1, <2>2
  <2> QED
    BY <1>1, <2>1, <2>2, <2>3
<1> QED
  BY <1>3, <1>9, <1>10, <1>13, <1>14 DEF u

\* A set of natural numbers that is not empty has a least member.
LEMMA LeastNat ==
  ASSUME NEW T, T \subseteq Nat, T # {}
  PROVE  \E x \in T : \A y \in T : x <= y
<1> DEFINE R == {ss \in Nat \X Nat : ss[1] < ss[2]}
<1>0. IsWellFoundedOn(R, Nat)
  BY NatLessThanWellFounded, Zenon DEF OpToRel
<1> HIDE DEF R
<1>1. PICK x \in T : \A y \in T : ~ (<<y, x>> \in R)
  BY <1>0, WFMin
<1>2. ASSUME NEW y \in T PROVE x <= y
  <2>1. ~ (y < x)
    BY <1>1 DEF R
  <2> QED
    BY <2>1
<1> QED
  BY <1>2

\* list_search gives the first node, from the head on, that the comparison
\* function accepts, and NULL only if it accepts none.
LEMMA ListSearch ==
  ASSUME NEW S, NEW l \in Seq(S), NEW M, NEW null
  PROVE  \/ /\ list_search(l, M, null) = null
            /\ \A i \in 1 .. Len(l) : l[i] \notin M
         \/ \E k \in 1 .. Len(l) :
              /\ list_search(l, M, null) = l[k] /\ l[k] \in M
              /\ \A j \in 1 .. Len(l) : j < k => l[j] \notin M
<1> DEFINE I == FirstMatch(l, M)
           T == {i \in 1 .. Len(l) : l[i] \in M}
<1>1. Len(l) \in Nat
  OBVIOUS
<1>2. CASE I = {}
  <2>1. T = {}
    <3> SUFFICES ASSUME T # {} PROVE FALSE
      OBVIOUS
    <3>3. T \subseteq Nat
      BY <1>1
    <3>1. PICK x \in T : \A y \in T : x <= y
      <4> HIDE DEF T
      <4> QED
        BY <3>3, LeastNat
    <3>2. x \in I
      BY <1>1, <3>1 DEF FirstMatch
    <3> QED
      BY <1>2, <3>2
  <2> QED
    BY <1>2, <2>1 DEF list_search
<1>3. CASE I # {}
  <2> DEFINE k == CHOOSE i \in I : TRUE
  <2>1. k \in I
    BY <1>3
  <2>2. list_search(l, M, null) = l[k]
    BY <1>3 DEF list_search
  <2> HIDE DEF k
  <2>3. k \in 1 .. Len(l) /\ l[k] \in M /\ \A j \in 1 .. k - 1 : l[j] \notin M
    BY <2>1 DEF FirstMatch
  <2>4. \A j \in 1 .. Len(l) : j < k => j \in 1 .. k - 1
    BY <1>1, <2>3
  <2> QED
    BY <2>2, <2>3, <2>4
<1> QED
  BY <1>2, <1>3

\* A list without repetitions whose nodes are among the a .. b, but for one, is
\* shorter than that range.
LEMMA ListShorter ==
  ASSUME NEW S, NEW l \in Seq(S), NEW a \in Int, NEW b \in Int, NEW x \in a .. b,
         IsInjective(l), ToSet(l) \subseteq (a .. b) \ {x}
  PROVE  Len(l) <= b - a
<1> DEFINE R == (a .. b) \ {x}
           n == Len(l)
<1>1. n \in Nat /\ DOMAIN l = 1 .. n
  OBVIOUS
<1>2. IsFiniteSet(a .. b) /\ Cardinality(a .. b) = b - a + 1
  BY FS_Interval
<1>3. IsFiniteSet(R) /\ Cardinality(R) = b - a + 1 - 1
  <2> DEFINE Q == a .. b
  <2> HIDE DEF Q
  <2>1. IsFiniteSet(Q \ {x}) /\ Cardinality(Q \ {x}) = Cardinality(Q) - 1
    BY <1>2, FS_RemoveElement DEF Q
  <2> QED
    BY <1>2, <2>1 DEF Q
<1>4. \A i \in 1 .. n : l[i] \in R
  BY <1>1 DEF ToSet
<1>5. l \in [1 .. n -> R]
  <2>1. l = [i \in 1 .. n |-> l[i]]
    BY <1>1
  <2> QED
    BY <1>4, <2>1
<1>6. l \in Injection(1 .. n, R)
  BY <1>5 DEF Injection
<1>7. Cardinality(1 .. n) <= Cardinality(R)
  BY <1>3, <1>6, FS_Injection
<1>8. Cardinality(1 .. n) = n
  <2>1. Cardinality(1 .. n) = IF 1 > n THEN 0 ELSE n - 1 + 1
    BY <1>1, FS_Interval
  <2> QED
    BY ONLY <1>1, <2>1
<1> HIDE DEF n, R
<1>9. n <= b - a
  BY ONLY <1>1, <1>3, <1>7, <1>8, a \in Int, b \in Int
<1> QED
  BY <1>9 DEF n

\* A list without repetitions holds each of its nodes in one place.
LEMMA TimesIs ==
  ASSUME NEW S, NEW l \in Seq(S), IsInjective(l), NEW n
  PROVE  Times(l, n) = IF n \in ToSet(l) THEN 1 ELSE 0
<1> DEFINE I == {i \in DOMAIN l : l[i] = n}
<1>1. CASE n \in ToSet(l)
  <2>1. PICK k \in DOMAIN l : l[k] = n
    BY <1>1 DEF ToSet
  <2>2. I = {k}
    BY <2>1 DEF IsInjective
  <2>3. Cardinality(I) = 1
    BY <2>2, FS_Singleton
  <2> QED
    BY <1>1, <2>3 DEF Times
<1>2. CASE n \notin ToSet(l)
  <2>1. I = {}
    BY <1>2 DEF ToSet
  <2> QED
    BY <1>2, <2>1, FS_EmptySet DEF Times
<1> QED
  BY <1>1, <1>2

\* The nodes of u are nodes of l, in the order they have in l.
KeptOrder(l, u) ==
  \A i, j \in 1 .. Len(u) :
    i < j => \E p, q \in 1 .. Len(l) : p < q /\ l[p] = u[i] /\ l[q] = u[j]

\* n comes before the nodes of l in u, and these are in the order they have in l.
LedBy(l, u, n) ==
  \A i, j \in 1 .. Len(u) :
    i < j => \E q \in 1 .. Len(l) :
               /\ u[j] = l[q]
               /\ \/ u[i] = n
                  \/ \E p \in 1 .. Len(l) : p < q /\ u[i] = l[p]

\* n comes first in u, and the other nodes of l are in the order they have in l.
MovedFirst(l, u, n) ==
  \A i, j \in 1 .. Len(u) :
    i < j => \E q \in 1 .. Len(l) :
               /\ u[j] = l[q] /\ l[q] # n
               /\ \/ u[i] = n
                  \/ \E p \in 1 .. Len(l) : p < q /\ u[i] = l[p] /\ l[p] # n

\* The nodes list_unlink leaves come in the order they were in.
LEMMA UnlinkOrder ==
  ASSUME NEW S, NEW l \in Seq(S), IsInjective(l), NEW n \in ToSet(l),
         NEW u, u = list_unlink(l, n)
  PROVE  KeptOrder(l, u)
<1> SUFFICES ASSUME NEW i \in 1 .. Len(u), NEW j \in 1 .. Len(u), i < j
             PROVE  \E p, q \in 1 .. Len(l) : p < q /\ l[p] = u[i] /\ l[q] = u[j]
  BY DEF KeptOrder
<1>1. PICK k \in 1 .. Len(l) :
        /\ l[k] = n /\ Len(u) = Len(l) - 1
        /\ \A x \in 1 .. Len(l) - 1 : u[x] = IF x < k THEN l[x] ELSE l[x + 1]
  <2>1. \E k \in 1 .. Len(l) :
          /\ l[k] = n /\ Len(list_unlink(l, n)) = Len(l) - 1
          /\ \A x \in 1 .. Len(l) - 1 :
               list_unlink(l, n)[x] = IF x < k THEN l[x] ELSE l[x + 1]
    BY ONLY l \in Seq(S), IsInjective(l), n \in ToSet(l), ListUnlink
  <2> QED
    BY <2>1
<1>2. Len(l) \in Nat
  OBVIOUS
<1> DEFINE p == IF i < k THEN i ELSE i + 1
           q == IF j < k THEN j ELSE j + 1
<1>3. p \in 1 .. Len(l) /\ q \in 1 .. Len(l) /\ p < q
  BY <1>1, <1>2
<1>4. i \in 1 .. Len(l) - 1 /\ j \in 1 .. Len(l) - 1
  BY <1>1, <1>2
<1>5. l[p] = u[i] /\ l[q] = u[j]
  BY <1>1, <1>4
<1> HIDE DEF p, q
<1> QED
  BY <1>3, <1>5

\* A node that list_prepend_node hangs before a list comes before all of its nodes,
\* which stay in their order.
LEMMA PrependOrder ==
  ASSUME NEW S, NEW l \in Seq(S), NEW n \in S, NEW u, u = list_prepend_node(l, n)
  PROVE  LedBy(l, u, n)
<1> SUFFICES ASSUME NEW i \in 1 .. Len(u), NEW j \in 1 .. Len(u), i < j
             PROVE  \E q \in 1 .. Len(l) :
                      /\ u[j] = l[q]
                      /\ \/ u[i] = n
                         \/ \E p \in 1 .. Len(l) : p < q /\ u[i] = l[p]
  BY DEF LedBy
<1>1. /\ Len(l) \in Nat /\ Len(u) = Len(l) + 1
      /\ \A x \in 1 .. Len(l) + 1 : u[x] = IF x = 1 THEN n ELSE l[x - 1]
  BY DEF list_prepend_node
<1>2. j - 1 \in 1 .. Len(l) /\ u[j] = l[j - 1]
  BY <1>1
<1>3. CASE i = 1
  BY <1>1, <1>2, <1>3
<1>4. CASE i # 1
  <2>1. i - 1 \in 1 .. Len(l) /\ u[i] = l[i - 1] /\ i - 1 < j - 1
    BY <1>1, <1>4
  <2> QED
    BY <1>2, <2>1
<1> QED
  BY <1>3, <1>4

\* A node that is unlinked and prepended comes first, the others keep their order.
LEMMA MoveOrder ==
  ASSUME NEW l \in Seq(Addr), IsInjective(l), NEW n \in Addr, n \in ToSet(l),
         NEW u, u = list_prepend_node(list_unlink(l, n), n)
  PROVE  MovedFirst(l, u, n)
<1>1. PICK w : w = list_unlink(l, n)
  OBVIOUS
<1>2. w \in Seq(Addr) /\ ToSet(w) = ToSet(l) \ {n}
  <2>1. list_unlink(l, n) \in Seq(Addr)
    BY ONLY l \in Seq(Addr), UnlinkType
  <2>2. ToSet(list_unlink(l, n)) = ToSet(l) \ {n}
    BY ONLY l \in Seq(Addr), IsInjective(l), n \in ToSet(l), ListUnlink
  <2> QED
    BY <1>1, <2>1, <2>2
<1>3. \A x \in 1 .. Len(w) : w[x] # n /\ \E y \in 1 .. Len(l) : l[y] = w[x]
  <2>1. \A x \in 1 .. Len(w) : w[x] \in ToSet(w)
    BY ONLY <1>2 DEF ToSet
  <2>2. \A e \in ToSet(l) : \E y \in 1 .. Len(l) : l[y] = e
    BY ONLY l \in Seq(Addr) DEF ToSet
  <2> QED
    BY <1>2, <2>1, <2>2
<1>4. LedBy(w, u, n)
  <2>1. w \in Seq(Addr) /\ n \in Addr /\ u = list_prepend_node(w, n)
    BY <1>1, <1>2
  <2> QED
    BY ONLY <2>1, PrependOrder
<1>5. KeptOrder(l, w)
  <2>1. l \in Seq(Addr) /\ IsInjective(l) /\ n \in ToSet(l) /\ w = list_unlink(l, n)
    BY <1>1
  <2> QED
    BY ONLY <2>1, UnlinkOrder
<1> SUFFICES ASSUME NEW i \in 1 .. Len(u), NEW j \in 1 .. Len(u), i < j
             PROVE  \E q \in 1 .. Len(l) :
                      /\ u[j] = l[q] /\ l[q] # n
                      /\ \/ u[i] = n
                         \/ \E p \in 1 .. Len(l) : p < q /\ u[i] = l[p] /\ l[p] # n
  BY DEF MovedFirst
<1>6. PICK q \in 1 .. Len(w) :
        /\ u[j] = w[q]
        /\ \/ u[i] = n
           \/ \E p \in 1 .. Len(w) : p < q /\ u[i] = w[p]
  BY <1>4 DEF LedBy
<1>7. CASE u[i] = n
  BY <1>3, <1>6, <1>7
<1>8. CASE \E p \in 1 .. Len(w) : p < q /\ u[i] = w[p]
  <2>1. PICK p \in 1 .. Len(w) : p < q /\ u[i] = w[p]
    BY <1>8
  <2>2. PICK p1, q1 \in 1 .. Len(l) : p1 < q1 /\ l[p1] = w[p] /\ l[q1] = w[q]
    BY <1>5, <2>1 DEF KeptOrder
  <2> QED
    BY <1>3, <1>6, <2>1, <2>2
<1> QED
  BY <1>6, <1>7, <1>8
-----------------------------------------------------------------------------
(***************************************************************************)
(* The pools' budget.                                                      *)
(***************************************************************************)
\* What the operations of list.c do to the length of a list.
LEMMA ListLens ==
  ASSUME NEW l \in Seq(Addr), NEW n \in Addr
  PROVE  /\ Len(list_append_node(l, n)) = Len(l) + 1
         /\ CanGet(l) => Len(AfterGet(l)) = Len(l) - 1
         /\ l # <<>> => Len(list_pop_first_node(l)) = Len(l) - 1
         /\ Len(l) \in Nat
  BY DEF list_append_node, list_pop_first_node, AfterGet, CanGet

\* At the start nothing has been handed out and no thread has ended.
LEMMA InitBudget == Init => PoolBudget /\ JoinedFirst
<1> SUFFICES ASSUME Init PROVE PoolBudget /\ JoinedFirst
  OBVIOUS
<1>1. Len(sessFree) = NSessions /\ Len(nodeFree) = NNodes
  BY PoolAssumption DEF Init
<1>2. Len(flags_expired_flow_list) = 0 /\ Len(expired_flow_list) = 0
  BY DEF Init
<1> QED
  BY <1>1, <1>2, PoolAssumption
     DEF Init, PoolBudget, JoinedFirst, UsedSessions, UsedNodes, One, ExportHasSession,
         HalfInserted

\* No thread but main moves main, and the threads move themselves.
LEMMA StepJoined == TypeOK /\ JoinedFirst /\ [Next]_vars => JoinedFirst' /\ (Live' => Live)
<1> SUFFICES ASSUME TypeOK, JoinedFirst, [Next]_vars PROVE JoinedFirst' /\ (Live' => Live)
  OBVIOUS
<1> USE DEF JoinedFirst, Live, TypeOK, PCs, Goto
<1>1. CASE Arrival
  BY <1>1 DEF Arrival, FirstPacket, initData, initDataRest, NewSecond, SameSecond,
              Rollback, RolledBack, Receive, AfterTimes
<1>2. CASE ProcessStep
  BY <1>2 DEF ProcessStep, ExpireOldest, StopExpiring, SpliceProcess, Splice, HangBehind,
              AfterTimes, NoSession, ParseOther, ParseNew, ParseUpdate, Filling,
              InsertFirstNode, InsertNoFirstNode, InsertFlowTable, Linked, SessionTaken,
              InsertNoSecondNode, InsertGivesUp, PollTimeout, GoOn
<1>3. CASE ExportStep
  BY <1>3 DEF ExportStep, ExportLoop, ExportLock, ExportCheck, SomethingExpired,
              ExportPop, ExportUnlock, ExportPrint, ExportReleaseSession,
              ExportReleaseNode, ExportEnd
<1>4. CASE Sigint \/ MainStep
  BY <1>4 DEF Sigint, MainStep, MainJoin, ProcessJoined, ExpireOldest, StopExpiring,
              SpliceMain, Splice, HangBehind, MainStop, StopExport, MainFree
<1>5. CASE UNCHANGED vars
  BY <1>5 DEF vars
<1> QED
  BY <1>1, <1>2, <1>3, <1>4, <1>5 DEF Next, Terminated

-----------------------------------------------------------------------------
(***************************************************************************)
(* initData and the expired list.  previous2, once set by a cleanup, is    *)
(* never 0 again, and before the first cleanup nothing has expired: a      *)
(* rollback cannot bring initData back to a list the export thread uses.   *)
(***************************************************************************)
NothingExpired ==
  expired_flow_list = <<>> /\ flags_expired_flow_list = <<>> /\ ~ ExportHasNode

InitOrder ==
  /\ pc["process"] \in {"cleanup", "splice"} =>
       previous # 0 /\ last_packet_timestamp \in Clock
  /\ pc["process"] \notin {"cleanup", "splice", "done"} /\ (previous = 0 \/ previous2 = 0)
       => NothingExpired
  /\ pc["export"] = "pop" => expired_flow_list # <<>>

\* InitOrder holds when the threads start: no second is remembered.
LEMMA InitInitOrder == Init => InitOrder
  BY DEF Init, InitOrder, NothingExpired, ExportHasNode

\* No step brings previous back to 0 once a cleanup has retired a flow.
LEMMA StepInitOrder == TypeOK /\ JoinedFirst /\ InitOrder /\ [Next]_vars => InitOrder'
<1> SUFFICES ASSUME TypeOK, JoinedFirst, InitOrder, [Next]_vars PROVE InitOrder'
  OBVIOUS
<1>0. pc \in PCs /\ expired_flow_list \in Seq(Addr) /\ flags_expired_flow_list \in Seq(Addr)
  BY DEF TypeOK
<1> USE <1>0 DEF InitOrder, NothingExpired, ExportHasNode, Goto, PCs
<1>1. CASE Arrival
  <2> PICK p \in Packets, t \in Clock :
        FirstPacket(p, t) \/ NewSecond(p, t) \/ SameSecond(p, t) \/ Rollback(p, t)
    BY <1>1 DEF Arrival
  <2>1. Receive(p, t) /\ pc["process"] = "poll"
    BY DEF FirstPacket, initData, initDataRest, NewSecond, SameSecond, Rollback,
           RolledBack, Receive
  <2>2. t \div UsInSec # 0
    BY <2>1, ReceiveType
  <2>3. CASE FirstPacket(p, t)
    BY <2>1, <2>2, <2>3 DEF FirstPacket, initData, initDataRest, AfterTimes
  <2>4. CASE NewSecond(p, t)
    BY <2>1, <2>4 DEF NewSecond, Receive, lists
  <2>6. CASE SameSecond(p, t)
    BY <2>1, <2>6 DEF SameSecond, AfterTimes, lists
  <2>5. CASE Rollback(p, t)
    BY <2>1, <2>5 DEF Rollback, RolledBack, AfterTimes, lists
  <2> QED
    BY <2>3, <2>4, <2>5, <2>6
<1>2. CASE \E t \in {"process", "main"} : ExpireOldest(t)
  BY <1>2 DEF ExpireOldest, times, JoinedFirst
<1>3. CASE \E t \in {"process", "main"} : StopExpiring(t)
  BY <1>3 DEF StopExpiring, times, lists, JoinedFirst
<1>4. CASE SpliceProcess \/ SpliceMain
  <2>1. expired_flow_list # <<>> => expired_flow_list' # <<>>
    BY <1>4 DEF SpliceProcess, SpliceMain, Splice, HangBehind
  <2>2. CASE SpliceProcess
    <3>2. last_packet_timestamp \in Nat /\ last_packet_timestamp >= UsInSec
          /\ UsInSec \in Nat \ {0}
      <4>1. last_packet_timestamp \in Clock
        BY <2>2 DEF SpliceProcess, Splice, HangBehind
      <4> QED
        BY <4>1, TimeAssumption
    <3>1. previous' # 0
      BY <2>2, <3>2 DEF SpliceProcess
    <3> QED
      BY <2>1, <2>2, <3>1 DEF SpliceProcess, Splice, HangBehind, AfterTimes
  <2>3. CASE SpliceMain
    BY <2>1, <2>3 DEF SpliceMain, Splice, HangBehind, JoinedFirst
  <2> QED
    BY <1>4, <2>2, <2>3
<1>5. CASE \/ NoSession
           \/ \E s \in Sessions : ParseOther(s) \/ ParseNew(s) \/ ParseUpdate(s)
  <2>1. /\ UNCHANGED <<previous, previous2, expired_flow_list, flags_expired_flow_list>>
        /\ pc["process"] = "parse"
    BY <1>5 DEF NoSession, ParseOther, ParseNew, ParseUpdate, Filling, times, lists
  <2>2. pc'["export"] = pc["export"] /\ pc'["process"] \in {"poll", "node1"}
    BY <1>5 DEF NoSession, ParseOther, ParseNew, ParseUpdate
  <2> QED
    BY <2>1, <2>2
<1>6. CASE \/ InsertFirstNode \/ InsertNoFirstNode \/ InsertFlowTable \/ InsertNoSecondNode
           \/ InsertGivesUp \/ PollTimeout
  BY <1>6 DEF InsertFirstNode, InsertNoFirstNode, InsertFlowTable, Linked, SessionTaken,
              InsertNoSecondNode, InsertGivesUp, PollTimeout, GoOn, times, lists
<1>7. CASE ExportLoop \/ ExportLock \/ ExportCheck \/ ExportUnlock \/ ExportPrint \/ ExportEnd
  BY <1>7 DEF ExportLoop, ExportLock, ExportCheck, SomethingExpired, ExportUnlock,
              ExportPrint, ExportEnd, ExportRest, lists, times
<1>8. CASE ExportPop
  BY <1>8 DEF ExportPop, times
<1>9. CASE ExportReleaseSession \/ ExportReleaseNode
  BY <1>9 DEF ExportReleaseSession, ExportReleaseNode, ExportRest, lists, times
<1>10. CASE Sigint \/ MainJoin \/ MainStop \/ MainFree
  <2>1. /\ UNCHANGED <<previous, previous2, expired_flow_list, flags_expired_flow_list>>
        /\ pc'["export"] = pc["export"] /\ pc'["process"] = pc["process"]
    BY <1>10 DEF Sigint, MainJoin, ProcessJoined, MainStop, StopExport, MainFree, times,
                 lists
  <2>2. UNCHANGED last_packet_timestamp \/ pc["process"] = "done"
    BY <1>10 DEF Sigint, MainJoin, ProcessJoined, MainStop, StopExport, MainFree, times,
                 JoinedFirst
  <2> QED
    BY <2>1, <2>2
<1>11. CASE UNCHANGED vars
  BY <1>11 DEF vars, lists, times
<1> QED
  BY <1>1, <1>2, <1>3, <1>4, <1>5, <1>6, <1>7, <1>8, <1>9, <1>10, <1>11
     DEF Next, ProcessStep, ExportStep, MainStep, Terminated
-----------------------------------------------------------------------------
(***************************************************************************)
(* The heart of the budget: what one step takes from a pool it adds to     *)
(* what the lists and the threads' hands account for, and back.  The terms *)
(* of the account are named, so that each step moves integers.             *)
(***************************************************************************)
Spare == 2 * One(aux_session # NULL)
InLists == Len(flags_expired_flow_list) + Len(expired_flow_list)
InHands == One(pc["export"] = "relN") - One(ExportHasSession)
Half == One(HalfInserted)

Account ==
  /\ sessUsed = NSessions - Len(sessFree) /\ Len(sessFree) >= 1
  /\ nodeUsed = NNodes - Len(nodeFree) /\ Len(nodeFree) >= 1
  /\ NNodes - Len(nodeFree) <= 2 * (NSessions - Len(sessFree)) - Spare - InLists + InHands + Half
  /\ pc["process"] \in {"node1", "node2", "unget"} => aux_session # NULL

\* The account below, added up, is the inequality of PoolBudget.
LEMMA AccountIsBudget ==
  ASSUME TypeOK
  PROVE  PoolBudget <=> (Live => Account)
<1>1. /\ Len(sessFree) \in Nat /\ Len(nodeFree) \in Nat
      /\ Len(flags_expired_flow_list) \in Nat /\ Len(expired_flow_list) \in Nat
  BY DEF TypeOK
<1>2. ASSUME NEW P PROVE One(P) \in Int
  BY DEF One
<1> DEFINE A == One(aux_session # NULL)
           B == One(pc["export"] = "relN")
           C == One(ExportHasSession)
           D == One(HalfInserted)
<1>3. A \in Int /\ B \in Int /\ C \in Int /\ D \in Int
  BY <1>2
<1> HIDE DEF A, B, C, D
<1>4. (UsedNodes <= 2 * (UsedSessions - A) - Len(flags_expired_flow_list)
                      - Len(expired_flow_list) - C + B + D)
      <=> NNodes - Len(nodeFree) <= 2 * (NSessions - Len(sessFree)) - 2 * A
            - (Len(flags_expired_flow_list) + Len(expired_flow_list)) + (B - C) + D
  BY <1>1, <1>3, PoolAssumption DEF UsedNodes, UsedSessions
<1> QED
  BY <1>4 DEF PoolBudget, Account, UsedNodes, UsedSessions, Spare, InLists, InHands,
              Half, A, B, C, D

\* The terms of the account are integers, here and after the step.
LEMMA AccountTypes ==
  ASSUME TypeOK
  PROVE  /\ Len(sessFree) \in Nat /\ Len(nodeFree) \in Nat /\ InLists \in Nat
         /\ Spare \in Int /\ InHands \in Int /\ Half \in Int
         /\ sessUsed \in Int /\ nodeUsed \in Int /\ pc \in PCs
  BY DEF TypeOK, InLists, Spare, InHands, Half, One

\* Every step of every thread keeps the pools' account balanced.
LEMMA StepBudget ==
  TypeOK /\ JoinedFirst /\ InitOrder /\ PoolBudget /\ [Next]_vars => PoolBudget'
<1> SUFFICES ASSUME TypeOK, JoinedFirst, InitOrder, PoolBudget, [Next]_vars, Live'
             PROVE  Account'
  BY StepType, AccountIsBudget, PTL
<1> USE DEF Goto, PCs, ExportHasSession, HalfInserted
<1>0. Live /\ Account
  BY StepJoined, AccountIsBudget
<1>T. /\ Len(sessFree) \in Nat /\ Len(nodeFree) \in Nat /\ InLists \in Nat
      /\ Spare \in Int /\ InHands \in Int /\ Half \in Int
      /\ sessUsed \in Int /\ nodeUsed \in Int /\ pc \in PCs
  BY AccountTypes
<1>P. /\ Len(sessFree') \in Nat /\ Len(nodeFree') \in Nat /\ InLists' \in Nat
      /\ Spare' \in Int /\ InHands' \in Int /\ Half' \in Int
  <2>1. TypeOK'
    BY StepType
  <2>2. /\ sessFree' \in Seq(Addr) /\ nodeFree' \in Seq(Addr)
        /\ flags_expired_flow_list' \in Seq(Addr) /\ expired_flow_list' \in Seq(Addr)
    BY ONLY <2>1 DEF TypeOK
  <2>3. Len(sessFree') \in Nat /\ Len(nodeFree') \in Nat
    BY ONLY <2>2
  <2>4. Len(flags_expired_flow_list)' \in Nat /\ Len(expired_flow_list)' \in Nat
    BY ONLY <2>2
  <2>5. InLists' = Len(flags_expired_flow_list)' + Len(expired_flow_list)'
    BY ONLY DEF InLists
  <2>6. Spare' \in Int /\ InHands' \in Int /\ Half' \in Int
    BY DEF Spare, InHands, Half, One
  <2>7. InLists' \in Nat
    BY ONLY <2>4, <2>5
  <2> QED
    BY <2>3, <2>6, <2>7
<1> USE <1>0, <1>T, <1>P, PoolAssumption
<1> DEFINE Poolsame == UNCHANGED <<sessFree, sessUsed, nodeFree, nodeUsed>>
           Sesssame == UNCHANGED <<sessFree, sessUsed>>
           Listsame == UNCHANGED <<flags_expired_flow_list, expired_flow_list>>
<1>S. ASSUME Poolsame, UNCHANGED aux_session, Spare' = Spare, InLists' = InLists,
      InHands' = InHands,
             Half' = Half, pc'["process"] \in {pc["process"], "poll", "cleanup", "splice",
                   "parse", "done"}
      PROVE  Account'
  BY <1>S DEF Account
<1>Z. UNCHANGED aux_session => Spare' = Spare
  BY DEF Spare
<1>B. /\ sessUsed = NSessions - Len(sessFree) /\ Len(sessFree) >= 1
      /\ nodeUsed = NNodes - Len(nodeFree) /\ Len(nodeFree) >= 1
  BY DEF Account
<1>E. NNodes - Len(nodeFree)
        <= 2 * (NSessions - Len(sessFree)) - Spare - InLists + InHands + Half
  BY DEF Account
<1>1. CASE Arrival
  <2> PICK p \in Packets, t \in Clock :
        FirstPacket(p, t) \/ NewSecond(p, t) \/ SameSecond(p, t) \/ Rollback(p, t)
    BY <1>1 DEF Arrival
  <2>1. /\ Poolsame /\ pc["process"] = "poll"
        /\ pc'["process"] \in {"poll", "parse", "cleanup"} /\ pc'["export"] = pc["export"]
    BY DEF FirstPacket, initData, initDataRest, NewSecond, SameSecond, Rollback,
           RolledBack, Receive, AfterTimes, pools
  <2>2. InHands' = InHands /\ Half' = Half
    BY <2>1 DEF InHands, Half
  <2>3. CASE FirstPacket(p, t)
    <3>1. Spare' = 0 /\ InLists' = 0 /\ Spare >= 0
      BY <2>3 DEF FirstPacket, initData, initDataRest, Spare, InLists, One
    <3> QED
      BY <2>1, <2>2, <3>1 DEF Account
  <2>4. CASE NewSecond(p, t) \/ SameSecond(p, t) \/ Rollback(p, t)
    <3>1. UNCHANGED aux_session /\ InLists' = InLists
      BY <2>4 DEF NewSecond, SameSecond, Rollback, RolledBack, lists, InLists
    <3> QED
      BY <2>1, <2>2, <3>1, <1>S, <1>Z
  <2> QED
    BY <2>3, <2>4
<1>2. CASE \E t \in {"process", "main"} : ExpireOldest(t)
  <2>1. Oldest \in Addr /\ OldestInTable \in Addr
    BY EndTypes, AddrType DEF TypeOK, Oldest, OldestInTable
  <2>2. Len(nodeFree') = Len(nodeFree) + 1 /\ nodeUsed' = nodeUsed - 1
    BY <1>2, <2>1, ListLens DEF TypeOK, ExpireOldest, releaseNodel
  <2>3. Len(flags_expired_flow_list') = Len(flags_expired_flow_list) + 1
    BY <1>2, <2>1, ListLens DEF TypeOK, ExpireOldest
  <2>4. Sesssame /\ UNCHANGED <<expired_flow_list, aux_session, pc>>
    BY <1>2 DEF ExpireOldest, work
  <2>5. InLists' = InLists + 1
    BY <2>3, <2>4 DEF InLists, TypeOK
  <2>6. InHands' = InHands /\ Half' = Half
    BY <2>4 DEF InHands, Half
  <2>9. Spare' = Spare /\ Len(sessFree') = Len(sessFree)
    BY <2>4, <1>Z
  <2>7. NNodes - Len(nodeFree')
          <= 2 * (NSessions - Len(sessFree')) - Spare' - InLists' + InHands' + Half'
    BY <2>2, <2>5, <2>6, <2>9 DEF Account
  <2>8. Len(sessFree') >= 1 /\ Len(nodeFree') >= 1 /\ nodeUsed' = NNodes - Len(nodeFree')
    BY <2>2, <2>4 DEF Account
  <2> QED
    BY <2>4, <2>7, <2>8 DEF Account
<1>3. CASE \E t \in {"process", "main"} : StopExpiring(t)
  <2>1. /\ Poolsame /\ Listsame /\ UNCHANGED aux_session /\ pc'["export"] = pc["export"]
        /\ \/ pc'["process"] = pc["process"]
           \/ pc["process"] = "cleanup" /\ pc'["process"] = "splice"
    BY <1>3 DEF StopExpiring, pools, lists, work
  <2>2. InHands' = InHands /\ Half' = Half /\ InLists' = InLists
    BY <2>1 DEF InHands, Half, InLists
  <2> QED
    BY <2>1, <2>2, <1>S, <1>Z
<1>4. CASE SpliceProcess \/ SpliceMain
  <2>1. /\ Len(expired_flow_list') = Len(expired_flow_list) + Len(flags_expired_flow_list)
        /\ Len(flags_expired_flow_list') = 0
    BY <1>4 DEF TypeOK, SpliceProcess, SpliceMain, Splice, HangBehind
  <2>2. InLists' = InLists
    BY <2>1 DEF InLists, TypeOK
  <2>3. /\ Poolsame /\ UNCHANGED aux_session /\ pc'["export"] = pc["export"]
        /\ \/ pc'["process"] = pc["process"]
           \/ pc["process"] = "splice" /\ pc'["process"] \in {"poll", "parse"}
    BY <1>4 DEF SpliceProcess, SpliceMain, Splice, HangBehind, AfterTimes, pools, work
  <2>4. InHands' = InHands /\ Half' = Half
    BY <2>3 DEF InHands, Half
  <2> QED
    BY <2>2, <2>3, <2>4, <1>S, <1>Z
<1>5. CASE NoSession \/ InsertNoFirstNode \/ PollTimeout
  <2>1. /\ Poolsame /\ Listsame /\ UNCHANGED aux_session /\ pc'["export"] = pc["export"]
        /\ pc["process"] \in {"parse", "node1", "poll"} /\ pc'["process"] \in {"poll", "done"}
    BY <1>5 DEF NoSession, InsertNoFirstNode, getNodelFails, PollTimeout, GoOn, pools,
                lists, work
  <2>2. InHands' = InHands /\ Half' = Half /\ InLists' = InLists
    BY <2>1 DEF InHands, Half, InLists
  <2> QED
    BY <2>1, <2>2, <1>S, <1>Z
<1>6. CASE \E s \in Sessions : ParseOther(s) \/ ParseNew(s) \/ ParseUpdate(s)
  <2> PICK s \in Sessions : ParseOther(s) \/ ParseNew(s) \/ ParseUpdate(s)
    BY <1>6
  <2>1. Filling(s) /\ aux_session' = s /\ s # NULL
    BY SMTT(30) DEF ParseOther, ParseNew, ParseUpdate, Sessions, NULL
  <2>2. /\ pc'["process"] \in {"poll", "node1"} /\ pc'["export"] = pc["export"]
        /\ UNCHANGED <<nodeFree, nodeUsed>> /\ Listsame
    BY DEF ParseOther, ParseNew, ParseUpdate, lists
  <2>3. pc["process"] = "parse"
    BY <2>1 DEF Filling
  <2>4. InHands' = InHands /\ Half' = Half /\ InLists' = InLists /\ Spare' = 2
    BY <2>1, <2>2, <2>3 DEF InHands, Half, InLists, Spare, One
  <2>5. CASE aux_session = NULL
    <3>1. Len(sessFree') = Len(sessFree) - 1 /\ sessUsed' = sessUsed + 1 /\ Len(sessFree) > 1
      BY <2>1, <2>5, ListLens, AddrType DEF TypeOK, Filling, CanGet
    <3>2. Spare = 0
      BY <2>5 DEF Spare, One
    <3> QED
      BY <2>1, <2>2, <2>4, <3>1, <3>2 DEF Account
  <2>6. CASE aux_session # NULL
    <3>1. Spare = 2
      BY <2>6 DEF Spare, One
    <3>2. Sesssame
      BY <2>1, <2>6 DEF Filling
    <3> QED
      BY <2>1, <2>2, <2>4, <3>1, <3>2 DEF Account
  <2> QED
    BY <2>5, <2>6
<1>7. CASE InsertFirstNode
  <2>1. Len(nodeFree') = Len(nodeFree) - 1 /\ nodeUsed' = nodeUsed + 1 /\ Len(nodeFree) > 1
    BY <1>7, ListLens, AddrType DEF TypeOK, InsertFirstNode, getNodel, CanGet
  <2>2. /\ Sesssame /\ Listsame /\ UNCHANGED aux_session /\ pc'["export"] = pc["export"]
        /\ pc["process"] = "node1" /\ pc'["process"] = "node2"
    BY <1>7 DEF InsertFirstNode, lists
  <2>3. InHands' = InHands /\ Half' = 1 /\ Half = 0 /\ InLists' = InLists
    BY <2>2 DEF InHands, Half, InLists, One
  <2>4. Spare' = Spare
    BY <2>2, <1>Z
  <2>5. Len(sessFree') = Len(sessFree) /\ sessUsed' = sessUsed
    BY <2>2
  <2>6. NNodes - Len(nodeFree')
          <= 2 * (NSessions - Len(sessFree')) - Spare' - InLists' + InHands' + Half'
    BY ONLY <2>1, <2>3, <2>4, <2>5, <1>E, <1>T, <1>P, PoolAssumption
  <2>7. /\ Len(sessFree') >= 1 /\ sessUsed' = NSessions - Len(sessFree')
        /\ Len(nodeFree') >= 1 /\ nodeUsed' = NNodes - Len(nodeFree')
    BY ONLY <2>1, <2>5, <1>B, <1>T, <1>P, PoolAssumption
  <2> QED
    BY <2>2, <2>6, <2>7 DEF Account
<1>8. CASE InsertFlowTable
  <2>1. Len(nodeFree') = Len(nodeFree) - 1 /\ nodeUsed' = nodeUsed + 1 /\ Len(nodeFree) > 1
    BY <1>8, ListLens, AddrType DEF TypeOK, InsertFlowTable, Linked, SessionTaken,
                                    getNodel, CanGet
  <2>2. /\ Sesssame /\ Listsame /\ aux_session' = NULL /\ pc'["export"] = pc["export"]
        /\ pc["process"] = "node2" /\ pc'["process"] = "poll"
    BY <1>8 DEF InsertFlowTable, Linked, SessionTaken
  <2>3. aux_session # NULL
    BY <2>2 DEF Account
  <2>4. InHands' = InHands /\ Half' = 0 /\ Half = 1 /\ InLists' = InLists
    BY <2>2 DEF InHands, Half, InLists, One
  <2>5. Spare = 2 /\ Spare' = 0
    BY <2>2, <2>3 DEF Spare, One
  <2>6. Len(sessFree') = Len(sessFree) /\ sessUsed' = sessUsed
    BY <2>2
  <2>7. NNodes - Len(nodeFree')
          <= 2 * (NSessions - Len(sessFree')) - Spare' - InLists' + InHands' + Half'
    BY ONLY <2>1, <2>4, <2>5, <2>6, <1>E, <1>T, <1>P, PoolAssumption
  <2>8. /\ Len(sessFree') >= 1 /\ sessUsed' = NSessions - Len(sessFree')
        /\ Len(nodeFree') >= 1 /\ nodeUsed' = NNodes - Len(nodeFree')
    BY ONLY <2>1, <2>6, <1>B, <1>T, <1>P, PoolAssumption
  <2> QED
    BY <2>2, <2>7, <2>8 DEF Account
<1>9. CASE InsertNoSecondNode
  <2>1. /\ Poolsame /\ Listsame /\ UNCHANGED aux_session /\ pc'["export"] = pc["export"]
        /\ pc["process"] = "node2" /\ pc'["process"] = "unget"
    BY <1>9 DEF InsertNoSecondNode, getNodelFails, lists, work
  <2>2. InHands' = InHands /\ Half' = Half /\ InLists' = InLists
    BY <2>1 DEF InHands, Half, InLists, One
  <2> QED
    BY <2>1, <2>2, <1>Z DEF Account
<1>10. CASE InsertGivesUp
  <2>1. Len(nodeFree') = Len(nodeFree) + 1 /\ nodeUsed' = nodeUsed - 1
    BY <1>10, ListLens, AddrType DEF TypeOK, InsertGivesUp, releaseNodel
  <2>2. /\ Sesssame /\ Listsame /\ UNCHANGED aux_session /\ pc'["export"] = pc["export"]
        /\ pc["process"] = "unget" /\ pc'["process"] = "poll"
    BY <1>10 DEF InsertGivesUp, lists
  <2>3. InHands' = InHands /\ Half' = 0 /\ Half = 1 /\ InLists' = InLists
    BY <2>2 DEF InHands, Half, InLists, One
  <2>4. Spare' = Spare
    BY <2>2, <1>Z
  <2>5. Len(sessFree') = Len(sessFree) /\ sessUsed' = sessUsed
    BY <2>2
  <2>6. NNodes - Len(nodeFree')
          <= 2 * (NSessions - Len(sessFree')) - Spare' - InLists' + InHands' + Half'
    BY ONLY <2>1, <2>3, <2>4, <2>5, <1>E, <1>T, <1>P, PoolAssumption
  <2>7. /\ Len(sessFree') >= 1 /\ sessUsed' = NSessions - Len(sessFree')
        /\ Len(nodeFree') >= 1 /\ nodeUsed' = NNodes - Len(nodeFree')
    BY ONLY <2>1, <2>5, <1>B, <1>T, <1>P, PoolAssumption
  <2> QED
    BY <2>2, <2>6, <2>7 DEF Account
<1>11. CASE ExportLoop \/ ExportLock \/ ExportCheck \/ ExportUnlock \/ ExportPrint \/ ExportEnd
  <2>1. /\ Poolsame /\ Listsame /\ UNCHANGED aux_session /\ pc'["process"] = pc["process"]
    BY <1>11 DEF ExportLoop, ExportLock, ExportCheck, SomethingExpired, ExportUnlock,
                 ExportPrint, ExportEnd, ExportRest, pools, lists, work
  <2>2. /\ pc["export"] # "relN" /\ pc'["export"] # "relN" /\ ExportHasSession' = ExportHasSession
    <3>1. CASE ExportLoop
      BY <3>1 DEF ExportLoop
    <3>2. CASE ExportLock
      BY <3>2 DEF ExportLock
    <3>3. CASE ExportCheck
      BY <3>3 DEF ExportCheck
    <3>4. CASE ExportUnlock
      BY <3>4 DEF ExportUnlock
    <3>5. CASE ExportPrint
      BY <3>5 DEF ExportPrint
    <3>6. CASE ExportEnd
      BY <3>6 DEF ExportEnd
    <3> QED
      BY <1>11, <3>1, <3>2, <3>3, <3>4, <3>5, <3>6
  <2>3. Half' = Half /\ InLists' = InLists
    BY <2>1 DEF Half, InLists
  <2>4. InHands' = InHands
    BY <2>2 DEF InHands
  <2> QED
    BY <2>1, <2>3, <2>4, <1>S, <1>Z
<1>12. CASE ExportPop
  <2>1. expired_flow_list # <<>>
    BY <1>12 DEF ExportPop, InitOrder
  <2>2. Len(expired_flow_list') = Len(expired_flow_list) - 1
    BY <1>12, <2>1, ListLens, AddrType DEF TypeOK, ExportPop
  <2>3. /\ Poolsame /\ UNCHANGED <<flags_expired_flow_list, aux_session>>
        /\ pc'["process"] = pc["process"] /\ pc["export"] \in {"pop", "drain"}
        /\ pc'["export"] \in {"unlock", "print"}
    BY <1>12 DEF ExportPop, pools, work
  <2>4. InLists' = InLists - 1
    BY <2>2, <2>3 DEF InLists, TypeOK
  <2>5. Half' = Half /\ InHands' = InHands - 1
    BY <2>3 DEF Half, InHands, One
  <2>6. /\ Spare' = Spare /\ Len(nodeFree') = Len(nodeFree) /\ Len(sessFree') = Len(sessFree)
        /\ sessUsed' = sessUsed /\ nodeUsed' = nodeUsed
    BY <2>3, <1>Z
  <2>7. NNodes - Len(nodeFree')
          <= 2 * (NSessions - Len(sessFree')) - Spare' - InLists' + InHands' + Half'
    BY ONLY <2>4, <2>5, <2>6, <1>E, <1>T, <1>P, PoolAssumption
  <2>8. /\ Len(sessFree') >= 1 /\ sessUsed' = NSessions - Len(sessFree')
        /\ Len(nodeFree') >= 1 /\ nodeUsed' = NNodes - Len(nodeFree')
    BY ONLY <2>6, <1>B, <1>T, <1>P, PoolAssumption
  <2> QED
    BY <2>3, <2>7, <2>8 DEF Account
<1>13. CASE ExportReleaseSession
  <2>1. Len(sessFree') = Len(sessFree) + 1 /\ sessUsed' = sessUsed - 1
    BY <1>13, ListLens DEF TypeOK, ExportReleaseSession, releaseIPSession
  <2>2. /\ UNCHANGED <<nodeFree, nodeUsed, aux_session>> /\ Listsame
        /\ pc'["process"] = pc["process"] /\ pc["export"] = "relS" /\ pc'["export"] = "relN"
    BY <1>13 DEF ExportReleaseSession, ExportRest, lists, work
  <2>3. Half' = Half /\ InLists' = InLists /\ InHands' = InHands + 2
    BY <2>2 DEF Half, InLists, InHands, One
  <2>4. Spare' = Spare
    BY <2>2, <1>Z
  <2>5. Len(nodeFree') = Len(nodeFree) /\ nodeUsed' = nodeUsed
    BY <2>2
  <2>6. NNodes - Len(nodeFree')
          <= 2 * (NSessions - Len(sessFree')) - Spare' - InLists' + InHands' + Half'
    BY ONLY <2>1, <2>3, <2>4, <2>5, <1>E, <1>T, <1>P, PoolAssumption
  <2>7. /\ Len(sessFree') >= 1 /\ sessUsed' = NSessions - Len(sessFree')
        /\ Len(nodeFree') >= 1 /\ nodeUsed' = NNodes - Len(nodeFree')
    BY ONLY <2>1, <2>5, <1>B, <1>T, <1>P, PoolAssumption
  <2> QED
    BY <2>2, <2>6, <2>7 DEF Account
<1>14. CASE ExportReleaseNode
  <2>1. Len(nodeFree') = Len(nodeFree) + 1 /\ nodeUsed' = nodeUsed - 1
    BY <1>14, ListLens DEF TypeOK, ExportReleaseNode, releaseNodel
  <2>2. /\ Sesssame /\ UNCHANGED aux_session /\ Listsame
        /\ pc'["process"] = pc["process"] /\ pc["export"] = "relN"
        /\ pc'["export"] \in {"drain", "loop"}
    BY <1>14 DEF ExportReleaseNode, ExportRest, lists, work
  <2>3. Half' = Half /\ InLists' = InLists /\ InHands' = InHands - 1
    BY <2>2 DEF Half, InLists, InHands, One
  <2>4. Spare' = Spare
    BY <2>2, <1>Z
  <2>5. Len(sessFree') = Len(sessFree) /\ sessUsed' = sessUsed
    BY <2>2
  <2>6. NNodes - Len(nodeFree')
          <= 2 * (NSessions - Len(sessFree')) - Spare' - InLists' + InHands' + Half'
    BY ONLY <2>1, <2>3, <2>4, <2>5, <1>E, <1>T, <1>P, PoolAssumption
  <2>7. /\ Len(sessFree') >= 1 /\ sessUsed' = NSessions - Len(sessFree')
        /\ Len(nodeFree') >= 1 /\ nodeUsed' = NNodes - Len(nodeFree')
    BY ONLY <2>1, <2>5, <1>B, <1>T, <1>P, PoolAssumption
  <2> QED
    BY <2>2, <2>6, <2>7 DEF Account
<1>15. CASE Sigint \/ MainJoin \/ MainStop \/ UNCHANGED vars
  <2>1. /\ Poolsame /\ Listsame /\ UNCHANGED aux_session
        /\ pc'["process"] = pc["process"] /\ pc'["export"] = pc["export"]
    BY <1>15 DEF Sigint, MainJoin, ProcessJoined, MainStop, StopExport, MainRest, pools,
                 lists, work, vars
  <2>2. InHands' = InHands /\ Half' = Half /\ InLists' = InLists
    BY <2>1 DEF InHands, Half, InLists
  <2> QED
    BY <2>1, <2>2, <1>S, <1>Z
<1>16. CASE MainFree
  BY <1>16 DEF MainFree, Live
<1> QED
  BY <1>1, <1>2, <1>3, <1>4, <1>5, <1>6, <1>7, <1>8, <1>9, <1>10, <1>11, <1>12, <1>13, <1>14,
     <1>15, <1>16 DEF Next, ProcessStep, ExportStep, MainStep, Terminated
-----------------------------------------------------------------------------
(***************************************************************************)
(* The theorems.  Inv is inductive; NodePoolSuffices and                   *)
(* InitDataFindsNothingExpired are not, and follow from it.                *)
(***************************************************************************)
Inv == TypeOK /\ JoinedFirst /\ InitOrder /\ PoolBudget

\* The inductive invariant, of which the theorems below are consequences.
LEMMA InvInductive == Spec => []Inv
<1>1. Init => Inv
  BY InitType, InitBudget, InitInitOrder DEF Inv
<1>2. Inv /\ [Next]_vars => Inv'
  BY StepType, StepJoined, StepInitOrder, StepBudget DEF Inv
<1> QED
  BY <1>1, <1>2, PTL DEF Spec

\* Main touches the process thread's lists, and frees the pools, only after the
\* thread that uses them has ended.
THEOREM JoinedBeforeUse == Spec => []JoinedFirst
<1>1. Inv => JoinedFirst
  BY DEF Inv
<1> QED
  BY <1>1, InvInductive, PTL

\* The two pools' books balance at every moment, for pools of every size and a
\* clock that may show anything.
THEOREM PoolBudgetHolds == Spec => []PoolBudget
<1>1. Inv => PoolBudget
  BY DEF Inv
<1> QED
  BY <1>1, InvInductive, PTL

\* With twice as many nodes as sessions, the node pool never refuses: the pools
\* of the program, and of every size, are dimensioned right.
THEOREM NodesSuffice == Spec => []NodePoolSuffices
<1>1. Inv => NodePoolSuffices
  <2> SUFFICES ASSUME Inv, NNodes >= 2 * NSessions, pc["process"] \in {"node1", "node2"}
               PROVE  Len(nodeFree) > 1
    BY DEF NodePoolSuffices, CanGet
  <2>1. Live
    BY DEF Inv, JoinedFirst, Live
  <2>2. Account
    BY <2>1, AccountIsBudget DEF Inv
  <2>3. Spare = 2
    BY <2>2 DEF Account, Spare, One
  <2>4. InHands <= 1 /\ Half <= 1 /\ InHands \in Int /\ Half \in Int
    BY DEF InHands, Half, One
  <2>5. Len(sessFree) \in Nat /\ Len(nodeFree) \in Nat /\ InLists \in Nat
    BY AccountTypes DEF Inv
  <2>6. pc["process"] = "node1" => Half = 0
    BY DEF Half, HalfInserted, One
  <2> QED
    BY <2>2, <2>3, <2>4, <2>5, <2>6, PoolAssumption DEF Account
<1> QED
  BY <1>1, InvInductive, PTL

\* initData never clears a list the export thread is using, although it takes no
\* semaphore and a clock that goes back makes it run again.
THEOREM InitDataIsSafe == Spec => []InitDataFindsNothingExpired
<1>1. Inv => InitDataFindsNothingExpired
  BY DEF Inv, InitOrder, NothingExpired, InitDataFindsNothingExpired
<1> QED
  BY <1>1, InvInductive, PTL
=============================================================================

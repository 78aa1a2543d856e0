------------------------ MODULE FlowOwnershipProofs ------------------------
(***************************************************************************)
(* Proofs about FlowMonitor: who owns each node_l and each IPSession, that *)
(* the structures of a flow lead to each other, and, for a clock that      *)
(* never goes back, that nothing leaks, that cleanup_flows leaves nothing  *)
(* behind, that insertFlow splits no conversation and that the monitor     *)
(* implements FlowLedger.                                                  *)
(***************************************************************************)
EXTENDS FlowMonitorProofs

(***************************************************************************)
(* Who owns what.  The places a node can be in, as sets; a node that leads *)
(* to the session of a flow is a FlowNode, and Flow(n) is that session.    *)
(***************************************************************************)
FreeNodes == ToSet(nodeFree)
ActiveNodes == ToSet(active_flow_list)
FlagNodes == ToSet(flags_expired_flow_list)
ExpiredNodes == ToSet(expired_flow_list)
ExportNode == IF ExportHasNode THEN {node} ELSE {}
HalfNode == IF HalfInserted THEN {naux} ELSE {}
FlowNodes == TableNodes \cup RetiredNodes
FreeSessions == ToSet(sessFree)
Flow(n) == sess[data[n]]

PlacedNodes == FreeNodes \cup ActiveNodes \cup FlagNodes \cup ExpiredNodes \cup TableNodes
                 \cup ExportNode \cup HalfNode
PlacedSessions == FreeSessions \cup {aux_session} \cup {data[n] : n \in FlowNodes}

\* No list holds a node, or a session, twice.
NoRepeats ==
  /\ IsInjective(nodeFree) /\ IsInjective(sessFree) /\ IsInjective(active_flow_list)
  /\ IsInjective(flags_expired_flow_list) /\ IsInjective(expired_flow_list)
  /\ \A b \in Buckets : IsInjective(flow_table[b])

\* No two places have a node in common.
Apart(F, A, G, E, T, X, H) ==
  /\ F \cap (A \cup G \cup E \cup T \cup X \cup H) = {}
  /\ A \cap (G \cup E \cup T \cup X \cup H) = {}
  /\ G \cap (E \cup T \cup X \cup H) = {}
  /\ E \cap (T \cup X \cup H) = {}
  /\ T \cap (X \cup H) = {}
  /\ X \cap H = {}

NodesApart ==
  /\ PlacedNodes \subseteq Nodes
  /\ Apart(FreeNodes, ActiveNodes, FlagNodes, ExpiredNodes, TableNodes, ExportNode, HalfNode)

\* A session is free, or waits in aux_session, or belongs to one flow.
SessionsApart ==
  /\ FreeSessions \subseteq Sessions
  /\ aux_session # NULL => aux_session \in Sessions \ FreeSessions
  /\ \A n \in FlowNodes : data[n] \in Sessions \ FreeSessions /\ data[n] # aux_session
  /\ \A m, n \in FlowNodes : data[m] = data[n] => m = n

\* Active nodes and bucket nodes lead to each other, and a bucket holds its keys.
FlowLinks ==
  /\ \A n \in ActiveNodes : data[n] \in TableNodes /\ Flow(data[n]).active_node = n
  /\ \A b \in Buckets : \A m \in ToSet(flow_table[b]) :
       /\ Flow(m).key \in Keys /\ Hash[Flow(m).key] = b
       /\ Flow(m).active_node \in ActiveNodes /\ data[Flow(m).active_node] = m

FlowTimes == \A n \in FlowNodes : Flow(n).first <= Flow(n).last /\ Flow(n).last \in Clock

\* Once a packet is being processed the last timestamp is a packet's.
Stamped == pc["process"] \notin {"poll", "done"} => last_packet_timestamp \in Clock

\* insertFlowTable works on a session that this packet has filled.
HalfFlow ==
  /\ pc["process"] \in {"node1", "node2", "unget"} =>
       /\ aux_session # NULL /\ pkt \in Keys
       /\ sess[aux_session].key = pkt /\ sess[aux_session].npack = 1
       /\ sess[aux_session].first = last_packet_timestamp
       /\ sess[aux_session].last = last_packet_timestamp
  /\ HalfInserted => data[naux] = aux_session

\* Main cleans up at the end of time, when every flow has expired.
Drained ==
  /\ pc["main"] \in {"cleanup", "splice"} => last_packet_timestamp = Infinity
  /\ pc["main"] \in {"splice", "stop", "joinE", "done"} => active_flow_list = <<>>

Owned ==
  /\ NoRepeats /\ NodesApart /\ SessionsApart /\ FlowLinks /\ FlowTimes
  /\ Stamped /\ HalfFlow /\ Drained

\* A step that drops no structure: what had a place has one afterwards.
Kept ==
  /\ PlacedNodes \subseteq PlacedNodes'
  /\ PlacedSessions \cap Sessions \subseteq PlacedSessions'
-----------------------------------------------------------------------------
\* Types of the lists and links, as the steps below use them.
LEMMA OwnedTypes ==
  ASSUME TypeOK
  PROVE  /\ nodeFree \in Seq(Addr) /\ sessFree \in Seq(Addr) /\ active_flow_list \in Seq(Addr)
         /\ flags_expired_flow_list \in Seq(Addr) /\ expired_flow_list \in Seq(Addr)
         /\ flow_table \in [Buckets -> Seq(Addr)] /\ data \in [Addr -> Addr]
         /\ sess \in [Addr -> SessionRecs] /\ pc \in PCs
         /\ Nodes \subseteq Addr /\ Sessions \subseteq Addr
         /\ Nodes \cap Sessions = {} /\ NULL \notin Nodes /\ NULL \notin Sessions /\ NULL \in Addr
         /\ Nodes \subseteq Addr \ {NULL}
  BY PoolAssumption, SMTT(30) DEF TypeOK, Addr, Nodes, Sessions, NULL

\* A step that touches no list, no node and no session disturbs no ownership.
LEMMA OwnedQuiet ==
  ASSUME Owned, UNCHANGED <<sessFree, nodeFree, sess, data, aux_session, naux, node>>,
         UNCHANGED <<flow_table, active_flow_list, flags_expired_flow_list, expired_flow_list>>,
         ExportHasNode' = ExportHasNode, ExportHasSession' = ExportHasSession,
         HalfInserted' = HalfInserted
  PROVE  NoRepeats' /\ NodesApart' /\ SessionsApart' /\ FlowLinks' /\ FlowTimes' /\ Kept
<1>1. TableNodes' = TableNodes
  BY DEF TableNodes
<1>2. RetiredNodes' = RetiredNodes
  BY DEF RetiredNodes
<1>3. FlowNodes' = FlowNodes
  BY <1>1, <1>2 DEF FlowNodes
<1>4. /\ FreeNodes' = FreeNodes /\ ActiveNodes' = ActiveNodes /\ FlagNodes' = FlagNodes
      /\ ExpiredNodes' = ExpiredNodes /\ ExportNode' = ExportNode /\ HalfNode' = HalfNode
      /\ FreeSessions' = FreeSessions
  BY DEF FreeNodes, ActiveNodes, FlagNodes, ExpiredNodes, ExportNode, HalfNode, FreeSessions
<1>5. NodesApart'
  BY <1>1, <1>4 DEF Owned, NodesApart, PlacedNodes, Apart
<1>6. NoRepeats'
  BY DEF Owned, NoRepeats
<1>7. SessionsApart'
  BY <1>3, <1>4 DEF Owned, SessionsApart
<1>8. FlowLinks'
  BY <1>1, <1>4 DEF Owned, FlowLinks, Flow
<1>9. FlowTimes'
  BY <1>3 DEF Owned, FlowTimes, Flow
<1>10. Kept
  BY <1>1, <1>3, <1>4 DEF Kept, PlacedNodes, PlacedSessions
<1> QED
  BY <1>5, <1>6, <1>7, <1>8, <1>9, <1>10

\* Taking a node out of every bucket takes it out of the table.
LEMMA TableShrinks ==
  ASSUME NEW m, \A b \in Buckets : ToSet(flow_table'[b]) = ToSet(flow_table[b]) \ {m}
  PROVE  TableNodes' = TableNodes \ {m}
<1>1. ASSUME NEW n \in TableNodes' PROVE n \in TableNodes \ {m}
  <2>1. PICK b \in Buckets : n \in ToSet(flow_table'[b])
    BY <1>1 DEF TableNodes
  <2> QED
    BY <2>1 DEF TableNodes
<1>2. ASSUME NEW n \in TableNodes \ {m} PROVE n \in TableNodes'
  <2>1. PICK b \in Buckets : n \in ToSet(flow_table[b])
    BY <1>2 DEF TableNodes
  <2> QED
    BY <1>2, <2>1 DEF TableNodes
<1> QED
  BY <1>1, <1>2

\* The nodes of flows, and of every place, are addresses.
LEMMA PlacedTypes ==
  ASSUME NodesApart
  PROVE  /\ FlowNodes \subseteq PlacedNodes /\ PlacedNodes \subseteq Nodes /\ Nodes \subseteq Addr
         /\ RetiredNodes = FlagNodes \cup ExpiredNodes
                             \cup (IF ExportHasSession THEN {node} ELSE {})
         /\ ExportHasSession => ExportHasNode
         /\ \A b \in Buckets : ToSet(flow_table[b]) \subseteq TableNodes
<1>1. Nodes \subseteq Addr
  BY PoolAssumption DEF Nodes, Addr
<1>2. ExportHasSession => ExportHasNode
  BY DEF ExportHasSession, ExportHasNode
<1>3. RetiredNodes = FlagNodes \cup ExpiredNodes \cup (IF ExportHasSession THEN {node} ELSE {})
  BY DEF RetiredNodes, FlagNodes, ExpiredNodes
<1>4. FlowNodes \subseteq PlacedNodes
  BY <1>2, <1>3 DEF FlowNodes, PlacedNodes, ExportNode
<1> QED
  BY <1>1, <1>2, <1>3, <1>4 DEF NodesApart, TableNodes

\* cleanup_flows retires the flow at the end of the active list: the bucket node
\* goes back to the pool and the active node takes over the session.
LEMMA ExpireEffect ==
  ASSUME Inv, Owned, NEW t \in {"process", "main"}, ExpireOldest(t)
  PROVE  /\ OldestInTable = data[Oldest] /\ OldestSession = data[OldestInTable]
         /\ active_flow_list # <<>> /\ Oldest \in ActiveNodes /\ OldestInTable \in TableNodes
         /\ Oldest \in Nodes /\ OldestInTable \in Nodes
         /\ sess[OldestSession].active_node = Oldest
         /\ Oldest \notin FlowNodes /\ OldestInTable \notin RetiredNodes
         /\ NoRepeats'
         /\ ActiveNodes' = ActiveNodes \ {Oldest} /\ TableNodes' = TableNodes \ {OldestInTable}
         /\ FlagNodes' = FlagNodes \cup {Oldest} /\ FreeNodes' = FreeNodes \cup {OldestInTable}
         /\ RetiredNodes' = RetiredNodes \cup {Oldest}
         /\ ExpiredNodes' = ExpiredNodes /\ ExportNode' = ExportNode /\ HalfNode' = HalfNode
         /\ FreeSessions' = FreeSessions
         /\ UNCHANGED <<sess, aux_session, naux, pkt, node, pc, last_packet_timestamp>>
         /\ data'[Oldest] = OldestSession /\ \A n \in Addr : n # Oldest => data'[n] = data[n]
         /\ active_flow_list' = list_unlink(active_flow_list, Oldest)
         /\ \A b \in Buckets :
              \/ /\ OldestInTable \in ToSet(flow_table[b])
                 /\ flow_table'[b] = list_unlink(flow_table[b], OldestInTable)
              \/ OldestInTable \notin ToSet(flow_table[b]) /\ flow_table'[b] = flow_table[b]
         /\ \A b \in Buckets : ToSet(flow_table'[b]) = ToSet(flow_table[b]) \ {OldestInTable}
<1> USE OwnedTypes DEF Inv
<1> DEFINE o == Oldest
           m == OldestInTable
           s == OldestSession
           c == Hash[sess[s].key]
<1>1. active_flow_list # <<>> /\ o \in ActiveNodes
  BY ListLast DEF ExpireOldest, Oldest, list_get_last_node, ActiveNodes
<1>2. m = data[o] /\ s = data[m] /\ m \in TableNodes /\ sess[s].active_node = o
  BY <1>1 DEF OldestInTable, OldestSession, Owned, FlowLinks, Flow
<1>3. \A b \in Buckets : m \in ToSet(flow_table[b]) <=> b = c
  <2>1. PICK b \in Buckets : m \in ToSet(flow_table[b])
    BY <1>2 DEF TableNodes
  <2> QED
    BY <1>2, <2>1 DEF Owned, FlowLinks, Flow
<1>4. c \in Buckets /\ m \in ToSet(flow_table[c])
  BY <1>2, <1>3 DEF TableNodes
<1>5. o \in Nodes /\ m \in Nodes /\ o # m /\ o \in Addr /\ m \in Addr
  BY <1>1, <1>2 DEF Owned, NodesApart, PlacedNodes, Apart
<1>6. /\ flow_table' = [flow_table EXCEPT ![c] = list_unlink(@, m)]
      /\ data' = [data EXCEPT ![o] = s]
      /\ nodeFree' = list_append_node(nodeFree, m)
      /\ active_flow_list' = list_unlink(active_flow_list, o)
      /\ flags_expired_flow_list' = list_append_node(flags_expired_flow_list, o)
      /\ UNCHANGED <<sessFree, sess, expired_flow_list, aux_session, naux, pkt, node, pc,
                     last_packet_timestamp>>
  BY DEF ExpireOldest, releaseNodel, work, times
<1> HIDE DEF o, m, s, c
<1>T. nodeFree \in Seq(Addr) /\ flags_expired_flow_list \in Seq(Addr)
  OBVIOUS
<1>7. /\ ActiveNodes' = ActiveNodes \ {o} /\ IsInjective(active_flow_list')
      /\ FlagNodes' = FlagNodes \cup {o} /\ FreeNodes' = FreeNodes \cup {m}
  <2>1. ToSet(active_flow_list') = ToSet(active_flow_list) \ {o} /\ IsInjective(active_flow_list')
    BY <1>1, <1>6, ListUnlink DEF ActiveNodes, Owned, NoRepeats
  <2>2. ToSet(flags_expired_flow_list') = ToSet(flags_expired_flow_list) \cup {o}
    BY ONLY <1>5, <1>6, <1>T, ListAdd
  <2>3. ToSet(nodeFree') = ToSet(nodeFree) \cup {m}
    BY ONLY <1>5, <1>6, <1>T, ListAdd
  <2> QED
    BY <2>1, <2>2, <2>3 DEF ActiveNodes, FlagNodes, FreeNodes
<1>8. m \notin FreeNodes /\ o \notin FlagNodes
  BY <1>1, <1>2 DEF Owned, NodesApart, Apart
<1>9. IsInjective(nodeFree') /\ IsInjective(flags_expired_flow_list')
  BY <1>5, <1>6, <1>8, ListAdd DEF Owned, NoRepeats, FreeNodes, FlagNodes
<1>10. /\ ToSet(flow_table'[c]) = ToSet(flow_table[c]) \ {m} /\ IsInjective(flow_table'[c])
       /\ \A b \in Buckets : b # c => flow_table'[b] = flow_table[b]
  <2>1. flow_table'[c] = list_unlink(flow_table[c], m) /\ flow_table[c] \in Seq(Addr)
    BY <1>4, <1>6
  <2>2. \A b \in Buckets : b # c => flow_table'[b] = flow_table[b]
    BY <1>4, <1>6
  <2> QED
    BY <1>4, <2>1, <2>2, ListUnlink DEF Owned, NoRepeats
<1>11. \A b \in Buckets : ToSet(flow_table'[b]) = ToSet(flow_table[b]) \ {m}
  BY <1>3, <1>10
<1>12. TableNodes' = TableNodes \ {m}
  BY <1>11, TableShrinks
<1>13. ExpiredNodes' = ExpiredNodes /\ ExportNode' = ExportNode /\ HalfNode' = HalfNode
       /\ FreeSessions' = FreeSessions
  BY <1>6 DEF ExpiredNodes, ExportNode, HalfNode, FreeSessions, ExportHasNode, HalfInserted
<1>14. RetiredNodes' = RetiredNodes \cup {o}
  BY <1>6, <1>7 DEF RetiredNodes, FlagNodes, ExportHasSession
<1>15. o \notin TableNodes /\ o \notin RetiredNodes /\ m \notin RetiredNodes
  BY <1>1, <1>2 DEF Owned, NodesApart, Apart, RetiredNodes, FlagNodes, ExpiredNodes, ExportNode,
                   ExportHasSession, ExportHasNode
<1>16. NoRepeats'
  BY <1>6, <1>7, <1>9, <1>10 DEF Owned, NoRepeats
<1>17. \A b \in Buckets : \/ /\ m \in ToSet(flow_table[b])
                             /\ flow_table'[b] = list_unlink(flow_table[b], m)
                          \/ m \notin ToSet(flow_table[b]) /\ flow_table'[b] = flow_table[b]
  BY <1>3, <1>4, <1>6, <1>10
<1>18. data'[o] = s /\ \A n \in Addr : n # o => data'[n] = data[n]
  BY <1>5, <1>6
<1>19. o \notin FlowNodes
  BY <1>15 DEF FlowNodes
<1> QED
  BY <1>1, <1>2, <1>5, <1>6, <1>7, <1>11, <1>12, <1>13, <1>14, <1>15, <1>16, <1>17, <1>18, <1>19
     DEF o, m, s

\* Ownership moves with the flow.
LEMMA OwnedExpire ==
  ASSUME Inv, Owned, NEW t \in {"process", "main"}, ExpireOldest(t)
  PROVE  Owned' /\ Kept
<1> USE OwnedTypes DEF Inv
<1> DEFINE o == Oldest
           m == OldestInTable
           s == OldestSession
<1>1. /\ m = data[o] /\ s = data[m] /\ o \in ActiveNodes /\ m \in TableNodes
      /\ o \in Nodes /\ m \in Nodes /\ o \notin FlowNodes /\ m \notin RetiredNodes
      /\ sess[s].active_node = o
  BY ExpireEffect
<1>2. /\ ActiveNodes' = ActiveNodes \ {o} /\ TableNodes' = TableNodes \ {m}
      /\ FlagNodes' = FlagNodes \cup {o} /\ FreeNodes' = FreeNodes \cup {m}
      /\ RetiredNodes' = RetiredNodes \cup {o}
      /\ ExpiredNodes' = ExpiredNodes /\ ExportNode' = ExportNode /\ HalfNode' = HalfNode
      /\ FreeSessions' = FreeSessions
  BY ExpireEffect
<1>3. /\ UNCHANGED <<sess, aux_session, naux, pkt, node, pc, last_packet_timestamp>>
      /\ data'[o] = s /\ \A n \in Addr : n # o => data'[n] = data[n]
      /\ \A b \in Buckets : ToSet(flow_table'[b]) = ToSet(flow_table[b]) \ {m}
  BY ExpireEffect
<1>4. active_flow_list # <<>> /\ NoRepeats'
  BY ExpireEffect
<1> HIDE DEF o, m, s
<1>5. NodesApart'
  BY <1>1, <1>2 DEF Owned, NodesApart, PlacedNodes, Apart
<1>6. FlowNodes' = (FlowNodes \ {m}) \cup {o}
  BY <1>1, <1>2 DEF FlowNodes
<1>7. FlowNodes \subseteq Addr /\ m \in FlowNodes
  BY <1>1, PlacedTypes DEF FlowNodes, Owned
<1>8. SessionsApart'
  BY <1>1, <1>2, <1>3, <1>6, <1>7 DEF Owned, SessionsApart
<1>9. FlowTimes'
  BY <1>1, <1>3, <1>6, <1>7 DEF Owned, FlowTimes, Flow
<1>10. FlowLinks'
  <2>1. ASSUME NEW n \in ActiveNodes'
        PROVE  data'[n] \in TableNodes' /\ sess'[data'[data'[n]]].active_node = n
    <3>1. n \in ActiveNodes /\ n # o /\ n \in Addr
      BY <1>2, <2>1 DEF Owned, NodesApart, PlacedNodes
    <3>2. data[n] \in TableNodes /\ sess[data[data[n]]].active_node = n
      BY <3>1 DEF Owned, FlowLinks, Flow
    <3>3. data[n] # m /\ data[n] # o /\ data[n] \in Addr
      BY <1>1, <3>1, <3>2 DEF FlowNodes
    <3>4. data'[n] = data[n] /\ data'[data[n]] = data[data[n]]
      BY <1>3, <3>1, <3>3
    <3> QED
      BY <1>2, <1>3, <3>2, <3>3, <3>4
  <2>2. ASSUME NEW b \in Buckets, NEW n \in ToSet(flow_table'[b])
        PROVE  /\ sess'[data'[n]].key \in Keys /\ Hash[sess'[data'[n]].key] = b
               /\ sess'[data'[n]].active_node \in ActiveNodes'
               /\ data'[sess'[data'[n]].active_node] = n
    <3>1. n \in ToSet(flow_table[b]) /\ n # m
      BY <1>3, <2>2
    <3> DEFINE a == sess[data[n]].active_node
    <3>2. sess[data[n]].key \in Keys /\ Hash[sess[data[n]].key] = b /\ a \in ActiveNodes
          /\ data[a] = n
      BY <3>1 DEF Owned, FlowLinks, Flow
    <3> HIDE DEF a
    <3>3. n \in TableNodes /\ n \in Addr /\ n # o
      BY <1>1, <3>1 DEF TableNodes, FlowNodes, Owned, NodesApart, PlacedNodes
    <3>4. a # o /\ a \in Addr
      BY <1>1, <3>1, <3>2 DEF Owned, NodesApart, PlacedNodes
    <3>5. data'[n] = data[n] /\ data'[a] = data[a]
      BY <1>3, <3>3, <3>4
    <3>6. a = sess'[data'[n]].active_node /\ sess' = sess
      BY <1>3, <3>5 DEF a
    <3> QED
      BY <1>2, <3>2, <3>4, <3>5, <3>6
  <2> QED
    BY <1>3, <2>1, <2>2 DEF FlowLinks, Flow
<1>11. Stamped' /\ HalfFlow' /\ Drained'
  <2>1. pc["process"] \notin {"node1", "node2", "unget"}
    BY DEF ExpireOldest, JoinedFirst
  <2>2. pc["main"] \notin {"splice", "stop", "joinE", "done"}
    BY <1>4 DEF Owned, Drained
  <2> QED
    BY <1>3, <2>1, <2>2 DEF Owned, Stamped, HalfFlow, HalfInserted, Drained
<1>12. Kept
  <2>1. PlacedNodes \subseteq PlacedNodes'
    BY <1>2 DEF PlacedNodes
  <2>2. \A n \in FlowNodes : \E k \in FlowNodes' : data'[k] = data[n]
    BY <1>1, <1>3, <1>6, <1>7
  <2>3. ASSUME NEW x \in PlacedSessions PROVE x \in PlacedSessions'
    <3>1. CASE \E n \in FlowNodes : x = data[n]
      BY <2>2, <3>1 DEF PlacedSessions
    <3>2. CASE x \in FreeSessions \cup {aux_session}
      BY <1>2, <1>3, <3>2 DEF PlacedSessions
    <3> QED
      BY <2>3, <3>1, <3>2 DEF PlacedSessions
  <2> QED
    BY <2>1, <2>3 DEF Kept
<1> QED
  BY <1>4, <1>5, <1>8, <1>9, <1>10, <1>11, <1>12 DEF Owned

\* The critical section of cleanup_flows moves nodes between two lists.
LEMMA OwnedSplice ==
  ASSUME Inv, Owned, SpliceProcess \/ SpliceMain
  PROVE  Owned' /\ Kept /\ TableNodes' = TableNodes /\ RetiredNodes' = RetiredNodes
<1> USE OwnedTypes, PlacedTypes DEF Inv
<1>1. /\ expired_flow_list' = expired_flow_list \o flags_expired_flow_list
      /\ flags_expired_flow_list' = <<>>
      /\ UNCHANGED <<sessFree, nodeFree, sess, data, aux_session, naux, node, flow_table,
                     active_flow_list, last_packet_timestamp, pkt>>
  BY DEF SpliceProcess, SpliceMain, Splice, HangBehind, pools, work
<1>2. pc'["export"] = pc["export"]
      /\ \/ /\ pc["process"] = "splice" /\ pc'["process"] \in {"poll", "parse"}
            /\ pc'["main"] = pc["main"]
         \/ /\ pc'["process"] = pc["process"] /\ pc["process"] = "done"
            /\ pc["main"] = "splice" /\ pc'["main"] = "stop"
  BY DEF SpliceProcess, SpliceMain, Splice, AfterTimes, Goto, PCs, JoinedFirst
<1>3. /\ ExportHasNode' = ExportHasNode /\ ExportHasSession' = ExportHasSession
      /\ HalfInserted' = HalfInserted /\ ~ HalfInserted
  BY <1>2 DEF ExportHasNode, ExportHasSession, HalfInserted
<1>4. /\ FreeNodes' = FreeNodes /\ ActiveNodes' = ActiveNodes /\ FlagNodes' = {}
      /\ ExportNode' = ExportNode /\ HalfNode' = HalfNode /\ FreeSessions' = FreeSessions
      /\ TableNodes' = TableNodes
  BY <1>1, <1>3 DEF FreeNodes, ActiveNodes, FlagNodes, ExportNode, HalfNode, FreeSessions,
                    TableNodes, ToSet
<1>T. /\ expired_flow_list \in Seq(Addr) /\ flags_expired_flow_list \in Seq(Addr)
      /\ IsInjective(expired_flow_list) /\ IsInjective(flags_expired_flow_list)
      /\ ToSet(expired_flow_list) \cap ToSet(flags_expired_flow_list) = {}
  BY DEF Owned, NoRepeats, NodesApart, Apart, FlagNodes, ExpiredNodes
<1>5. ExpiredNodes' = ExpiredNodes \cup FlagNodes /\ IsInjective(expired_flow_list')
  BY ONLY <1>T, <1>1, ListJoin DEF ExpiredNodes, FlagNodes
<1>6. RetiredNodes' = RetiredNodes
  BY <1>1, <1>3, <1>4, <1>5 DEF RetiredNodes, FlagNodes, ExpiredNodes
<1>7. FlowNodes' = FlowNodes
  BY <1>4, <1>6 DEF FlowNodes
<1>8. NoRepeats'
  BY <1>1, <1>5 DEF Owned, NoRepeats, IsInjective
<1>9. NodesApart'
  BY <1>4, <1>5 DEF Owned, NodesApart, PlacedNodes, Apart
<1>10. SessionsApart' /\ FlowTimes'
  BY <1>1, <1>4, <1>7 DEF Owned, SessionsApart, FlowTimes, Flow
<1>11. FlowLinks'
  BY <1>1, <1>4 DEF Owned, FlowLinks, Flow
<1>12. Stamped' /\ HalfFlow' /\ Drained'
  BY <1>1, <1>2, <1>3 DEF Owned, Stamped, HalfFlow, Drained
<1>13. Kept
  BY <1>1, <1>4, <1>5, <1>7 DEF Kept, PlacedNodes, PlacedSessions
<1> QED
  BY <1>4, <1>6, <1>8, <1>9, <1>10, <1>11, <1>12, <1>13 DEF Owned

\* The session parsePacket fills was free or left over, and belongs to no flow.
LEMMA FillingOwned ==
  ASSUME Inv, Owned, NEW s \in Sessions, Filling(s)
  PROVE  /\ FreeSessions' = FreeSessions \ {s} /\ IsInjective(sessFree')
         /\ \A n \in FlowNodes : data[n] # s
         /\ pc["process"] = "parse"
<1> USE OwnedTypes DEF Inv
<1>1. CASE aux_session = NULL
  <2>1. CanGet(sessFree) /\ s = Got(sessFree) /\ sessFree' = AfterGet(sessFree)
    BY <1>1 DEF Filling
  <2>2. sessFree # <<>> /\ sessFree \in Seq(Addr) /\ IsInjective(sessFree)
    BY <2>1 DEF CanGet, Owned, NoRepeats
  <2>3. s \in ToSet(sessFree) /\ ToSet(sessFree') = ToSet(sessFree) \ {s}
        /\ IsInjective(sessFree')
    BY ONLY <2>1, <2>2, ListPop DEF Got, AfterGet
  <2> QED
    BY <2>3 DEF Filling, FreeSessions, Owned, SessionsApart
<1>2. CASE aux_session # NULL
  BY <1>2 DEF Filling, FreeSessions, Owned, SessionsApart, NoRepeats
<1> QED
  BY <1>1, <1>2

\* No session gets lost when parsePacket takes one: a left-over one is used first.
LEMMA FillingKept ==
  ASSUME NEW s \in Sessions, Filling(s)
  PROVE  aux_session \in {NULL, s}
  BY DEF Filling

\* parsePacket writes to a session of no flow: the flows, and all nodes, stay.
LEMMA OwnedFill ==
  ASSUME Inv, Owned, NEW s \in Sessions, ParseOther(s) \/ ParseNew(s)
  PROVE  Owned' /\ Kept
<1> USE OwnedTypes, PlacedTypes DEF Inv
<1>1. Filling(s) /\ aux_session' = s
      /\ UNCHANGED <<nodeFree, data, naux, node, flow_table, active_flow_list,
                     flags_expired_flow_list, expired_flow_list, last_packet_timestamp, pkt>>
  BY DEF ParseOther, ParseNew, lists, times
<1>2. /\ pc["process"] = "parse" /\ pc'["export"] = pc["export"] /\ pc'["main"] = pc["main"]
      /\ \/ pc'["process"] = "poll"
         \/ pc'["process"] = "node1" /\ ParseNew(s)
  BY <1>1 DEF ParseOther, ParseNew, Filling, Goto, PCs
<1>3. /\ ExportHasNode' = ExportHasNode /\ ExportHasSession' = ExportHasSession
      /\ ~ HalfInserted' /\ ~ HalfInserted
  BY <1>2 DEF ExportHasNode, ExportHasSession, HalfInserted
<1>4. /\ FreeNodes' = FreeNodes /\ ActiveNodes' = ActiveNodes /\ FlagNodes' = FlagNodes
      /\ ExpiredNodes' = ExpiredNodes
      /\ ExportNode' = ExportNode /\ HalfNode' = HalfNode
      /\ TableNodes' = TableNodes /\ RetiredNodes' = RetiredNodes
  BY <1>1, <1>3 DEF FreeNodes, ActiveNodes, FlagNodes, ExpiredNodes, ExportNode, HalfNode,
                    TableNodes, RetiredNodes
<1>5. FlowNodes' = FlowNodes
  BY <1>4 DEF FlowNodes
<1>6. /\ FreeSessions' = FreeSessions \ {s} /\ IsInjective(sessFree')
      /\ \A n \in FlowNodes : data[n] # s
  BY <1>1, FillingOwned
<1>7. \A a \in Addr : a # s => sess'[a] = sess[a]
  BY DEF ParseOther, ParseNew
<1>8. \A n \in FlowNodes : sess'[data[n]] = sess[data[n]]
  <2>1. \A n \in FlowNodes : data[n] \in Addr
    BY DEF Owned, SessionsApart
  <2> QED
    BY <1>6, <1>7, <2>1
<1>9. NoRepeats'
  BY <1>1, <1>6 DEF Owned, NoRepeats
<1>10. NodesApart'
  BY <1>4 DEF Owned, NodesApart, PlacedNodes, Apart
<1>11. SessionsApart'
  BY <1>1, <1>5, <1>6 DEF Owned, SessionsApart
<1>12. FlowTimes'
  BY <1>1, <1>5, <1>8 DEF Owned, FlowTimes, Flow
<1>13. FlowLinks'
  <2>1. \A n \in ActiveNodes : data[n] \in FlowNodes
    BY DEF Owned, FlowLinks, FlowNodes
  <2>2. \A b \in Buckets : \A m \in ToSet(flow_table[b]) : m \in FlowNodes
    BY DEF FlowNodes, TableNodes
  <2> QED
    BY <1>1, <1>4, <1>8, <2>1, <2>2 DEF Owned, FlowLinks, Flow
<1>14. Stamped' /\ Drained'
  BY <1>1, <1>2 DEF Owned, Stamped, Drained
<1>15. HalfFlow'
  <2>1. CASE pc'["process"] = "poll"
    BY <1>3, <2>1 DEF HalfFlow
  <2>2. CASE pc'["process"] = "node1" /\ ParseNew(s)
    <3>1. sess'[s] = Filled(pkt) /\ pkt \in Keys
      BY <2>2 DEF ParseNew
    <3> QED
      BY <1>1, <1>3, <2>2, <3>1 DEF HalfFlow, Filled
  <2> QED
    BY <1>2, <2>1, <2>2
<1>16. Kept
  BY <1>1, <1>4, <1>5, <1>6, FillingKept DEF Kept, PlacedNodes, PlacedSessions
<1> QED
  BY <1>9, <1>10, <1>11, <1>12, <1>13, <1>14, <1>15, <1>16 DEF Owned

\* The unsigned difference of two stamps of the clock: a flow is unexpired only if
\* its last packet is not in the future, and at the end of time every flow has
\* expired.
LEMMA AgeIs ==
  ASSUME NEW now, NEW then \in Clock
  PROVE  /\ now \in Clock /\ now >= then => Age(now, then) = now - then
         /\ now \in Clock /\ now < then => Age(now, then) > Expiration
         /\ now = Infinity => Age(now, then) > Expiration
         /\ then \in Nat
<1>1. /\ then \in Nat /\ Word \in Nat \ {0} /\ Expiration \in Nat /\ UsInSec \in Nat \ {0}
      /\ UsInSec <= then /\ then <= Word - Expiration - 2
  BY TimeAssumption
<1>2. now \in Clock => now \in Nat /\ UsInSec <= now /\ now <= Word - Expiration - 2
  BY TimeAssumption
<1>3. ASSUME now \in Clock, now >= then PROVE (now - then) % Word = now - then
  <2>1. now - then \in Int /\ 0 <= now - then /\ now - then < Word
    BY <1>1, <1>2, <1>3
  <2> DEFINE d == now - then
  <2> HIDE DEF d
  <2>2. d % Word = d
    BY ONLY <1>1, <2>1 DEF d
  <2> QED
    BY <2>2 DEF d
<1>4. ASSUME now \in Clock, now < then PROVE (now - then) % Word > Expiration
  <2>1. now - then \in Int /\ now - then < 0 /\ now - then + Word < Word
        /\ now - then + Word > Expiration
    BY <1>1, <1>2, <1>4
  <2> DEFINE d == now - then
  <2> HIDE DEF d
  <2>3. d \in Int /\ 0 <= d + Word /\ d + Word < Word /\ d + Word > Expiration
    BY ONLY <1>1, <2>1 DEF d
  <2>2. d % Word = d + Word
    BY ONLY <1>1, <2>3
  <2> QED
    BY <2>2, <2>3 DEF d
<1>5. ASSUME now = Infinity PROVE (now - then) % Word > Expiration
  <2>1. /\ now - then \in Int /\ 0 <= now - then /\ now - then < Word /\ now - then > Expiration
    BY <1>1, <1>5 DEF Infinity
  <2> DEFINE d == now - then
  <2> HIDE DEF d
  <2>2. d % Word = d
    BY ONLY <1>1, <2>1 DEF d
  <2> QED
    BY <2>1, <2>2 DEF d
<1> QED
  BY <1>1, <1>3, <1>4, <1>5 DEF Age

\* A stamp of the clock is a number.
LEMMA ClockType == Clock \subseteq Nat
  BY TimeAssumption

\* What insertFlow finds in a bucket is the node of a flow of the packet's key.
LEMMA FoundIs ==
  ASSUME Inv, Owned, NEW k \in Keys, Found(k) # NULL
  PROVE  \E i \in 1 .. Len(flow_table[Hash[k]]) :
           /\ Found(k) = flow_table[Hash[k]][i]
           /\ Found(k) \in ToSet(flow_table[Hash[k]]) /\ Hash[k] \in Buckets
           /\ Flow(Found(k)).key = k
           /\ \A j \in 1 .. Len(flow_table[Hash[k]]) :
                j < i => Flow(flow_table[Hash[k]][j]).key # k
<1> USE OwnedTypes DEF Inv
<1> DEFINE l == flow_table[Hash[k]]
<1>1. Hash[k] \in Buckets /\ l \in Seq(Addr)
  BY HashAssumption
<1> HIDE DEF l
<1>2. PICK i \in 1 .. Len(l) :
        /\ Found(k) = l[i] /\ l[i] \in SameTuple(k)
        /\ \A j \in 1 .. Len(l) : j < i => l[j] \notin SameTuple(k)
  <2> DEFINE M == SameTuple(k)
  <2>1. Found(k) = list_search(l, M, NULL) /\ Found(k) # NULL
    BY DEF Found, l
  <2> HIDE DEF M
  <2>2. \E i \in 1 .. Len(l) : /\ Found(k) = l[i] /\ l[i] \in M
                               /\ \A j \in 1 .. Len(l) : j < i => l[j] \notin M
    BY ONLY <1>1, <2>1, ListSearch
  <2> QED
    BY <2>2 DEF M
<1>3. l[i] \in ToSet(l) /\ \A j \in 1 .. Len(l) : l[j] \in Addr
  BY <1>1 DEF ToSet
<1> QED
  BY <1>1, <1>2, <1>3 DEF SameTuple, Flow, l

\* The links stay when keys, active nodes and the two lists do.
LEMMA LinksKept ==
  ASSUME FlowLinks, UNCHANGED <<data, flow_table>>, ActiveNodes' = ActiveNodes,
         \A n \in TableNodes : /\ sess'[data[n]].key = sess[data[n]].key
                               /\ sess'[data[n]].active_node = sess[data[n]].active_node
  PROVE  FlowLinks'
<1>1. TableNodes' = TableNodes
  BY DEF TableNodes
<1>2. ASSUME NEW n \in ActiveNodes
      PROVE  data'[n] \in TableNodes' /\ sess'[data'[data'[n]]].active_node = n
  BY <1>1, <1>2 DEF FlowLinks, Flow
<1>3. ASSUME NEW b \in Buckets, NEW m \in ToSet(flow_table[b])
      PROVE  /\ sess'[data'[m]].key \in Keys /\ Hash[sess'[data'[m]].key] = b
             /\ sess'[data'[m]].active_node \in ActiveNodes'
             /\ data'[sess'[data'[m]].active_node] = m
  <2>1. m \in TableNodes
    BY <1>3 DEF TableNodes
  <2> QED
    BY <1>3, <2>1 DEF FlowLinks, Flow
<1> QED
  BY <1>2, <1>3 DEF FlowLinks, Flow

\* updateFlowTable: the flow f that hangs on table node m and active node a is
\* counted up and moves to the head of the active list.
FlowUpdated(m, f, a) ==
  /\ m \in TableNodes /\ a \in ActiveNodes /\ data[a] = m /\ ~ Expired(f)
  /\ active_flow_list' = list_prepend_node(list_unlink(active_flow_list, a), a)
  /\ UNCHANGED <<data, flow_table, last_packet_timestamp>>
  /\ ActiveNodes' = ActiveNodes /\ TableNodes' = TableNodes /\ RetiredNodes' = RetiredNodes
  /\ \A x \in Addr : x # f => sess'[x] = sess[x]
  /\ sess'[f] = [sess[f] EXCEPT !.npack = @ + 1, !.last = last_packet_timestamp]

LEMMA OwnedUpdate ==
  ASSUME Inv, Owned, NEW s \in Sessions, ParseUpdate(s),
         NEW m, m = Found(pkt), NEW f, f = data[m], NEW a, a = sess[f].active_node
  PROVE  Owned' /\ Kept /\ FlowUpdated(m, f, a)
<1> USE OwnedTypes, PlacedTypes DEF Inv
<1>1. Filling(s) /\ aux_session' = s /\ pkt \in Keys /\ m # NULL /\ ~ Expired(f)
      /\ UNCHANGED <<nodeFree, data, naux, node, flow_table,
                     flags_expired_flow_list, expired_flow_list, last_packet_timestamp, pkt>>
  BY m = Found(pkt), f = data[m] DEF ParseUpdate, times
<1>2. /\ sess' = [sess EXCEPT ![f].npack = @ + 1, ![f].last = last_packet_timestamp]
      /\ active_flow_list' = list_prepend_node(list_unlink(active_flow_list, a), a)
  BY DEF ParseUpdate
<1>3. /\ pc["process"] = "parse" /\ pc'["export"] = pc["export"] /\ pc'["main"] = pc["main"]
      /\ pc'["process"] = "poll"
  BY <1>1 DEF ParseUpdate, Filling, Goto, PCs
<1>4. m \in TableNodes /\ f \in Addr
  BY <1>1, FoundIs DEF TableNodes, Owned, NodesApart, PlacedNodes
<1>5. a \in ActiveNodes /\ data[a] = m
  BY <1>4 DEF TableNodes, Owned, FlowLinks, Flow
<1>6. /\ ExportHasNode' = ExportHasNode /\ ExportHasSession' = ExportHasSession
      /\ ~ HalfInserted' /\ ~ HalfInserted
  BY <1>3 DEF ExportHasNode, ExportHasSession, HalfInserted
<1>7. /\ FreeNodes' = FreeNodes /\ FlagNodes' = FlagNodes
      /\ ExpiredNodes' = ExpiredNodes
      /\ ExportNode' = ExportNode /\ HalfNode' = HalfNode
      /\ TableNodes' = TableNodes /\ RetiredNodes' = RetiredNodes
  BY <1>1, <1>6 DEF FreeNodes, FlagNodes, ExpiredNodes, ExportNode, HalfNode, TableNodes,
                    RetiredNodes
<1>8. FlowNodes' = FlowNodes
  BY <1>7 DEF FlowNodes
<1>9. ActiveNodes' = ActiveNodes /\ IsInjective(active_flow_list')
  <2> DEFINE u == list_unlink(active_flow_list, a)
  <2>1. ToSet(u) = ToSet(active_flow_list) \ {a} /\ IsInjective(u)
    BY <1>5, ListUnlink DEF ActiveNodes, Owned, NoRepeats
  <2>2. u \in Seq(Addr) /\ a \in Addr
    BY <1>5, UnlinkType DEF Owned, NodesApart, PlacedNodes
  <2> HIDE DEF u
  <2>3. active_flow_list' = list_prepend_node(u, a) /\ a \in ToSet(active_flow_list)
    BY <1>2, <1>5 DEF u, ActiveNodes
  <2>4. ToSet(list_prepend_node(u, a)) = ToSet(u) \cup {a} /\ IsInjective(list_prepend_node(u, a))
    BY ONLY <2>1, <2>2, ListAdd
  <2> QED
    BY ONLY <2>1, <2>3, <2>4 DEF ActiveNodes
<1>10. /\ FreeSessions' = FreeSessions \ {s} /\ IsInjective(sessFree')
       /\ \A n \in FlowNodes : data[n] # s
  BY <1>1, FillingOwned
<1>11. \A x \in Addr : /\ sess'[x].key = sess[x].key /\ sess'[x].active_node = sess[x].active_node
                       /\ sess'[x].first = sess[x].first
                       /\ sess'[x].last = IF x = f THEN last_packet_timestamp ELSE sess[x].last
  BY <1>2, <1>4 DEF SessionRecs
<1>12. NoRepeats'
  BY <1>1, <1>9, <1>10 DEF Owned, NoRepeats
<1>13. NodesApart'
  BY <1>7, <1>9 DEF Owned, NodesApart, PlacedNodes, Apart
<1>14. SessionsApart'
  BY <1>1, <1>8, <1>10 DEF Owned, SessionsApart
<1>15. \A n \in FlowNodes : data[n] \in Addr
  BY DEF Owned, SessionsApart
<1>16. FlowTimes'
  <2>1. m \in FlowNodes /\ f = data[m]
    BY <1>4 DEF FlowNodes
  <2>2. sess[f].last \in Clock /\ sess[f].first <= sess[f].last /\ last_packet_timestamp \in Clock
    BY <1>3, <2>1 DEF Owned, FlowTimes, Flow, Stamped
  <2>3. last_packet_timestamp >= sess[f].last
    <3>1. ~ (Age(last_packet_timestamp, sess[f].last) > Expiration)
      BY <1>1 DEF Expired
    <3>2. sess[f].last \in Nat /\ last_packet_timestamp \in Nat
      BY ONLY <2>2, ClockType
    <3> QED
      BY <2>2, <3>1, <3>2, AgeIs
  <2>4. sess[f].first \in Nat /\ sess[f].last \in Nat /\ last_packet_timestamp \in Nat
    BY <2>2, <1>4, ClockType DEF SessionRecs
  <2>5. sess[f].first <= last_packet_timestamp
    BY ONLY <2>2, <2>3, <2>4
  <2> QED
    BY <1>1, <1>8, <1>11, <1>15, <2>2, <2>5, SMTT(30) DEF Owned, FlowTimes, Flow
<1>17. FlowLinks'
  <2>1. \A n \in TableNodes : data[n] \in Addr
    BY <1>15 DEF FlowNodes
  <2> QED
    BY <1>1, <1>9, <1>11, <2>1, LinksKept DEF Owned
<1>18. Stamped' /\ HalfFlow'
  BY <1>3, <1>6 DEF Stamped, HalfFlow
<1>19. Drained'
  BY <1>1, <1>3 DEF Owned, Drained, JoinedFirst
<1>20. Kept
  BY <1>1, <1>7, <1>8, <1>9, <1>10, FillingKept DEF Kept, PlacedNodes, PlacedSessions
<1>21. /\ \A x \in Addr : x # f => sess'[x] = sess[x]
       /\ sess'[f] = [sess[f] EXCEPT !.npack = @ + 1, !.last = last_packet_timestamp]
  BY <1>2, <1>4
<1> QED
  BY <1>1, <1>2, <1>4, <1>5, <1>7, <1>9, <1>12, <1>13, <1>14, <1>16, <1>17, <1>18, <1>19,
     <1>20, <1>21 DEF Owned, FlowUpdated

\* The node a pool hands out was free, and is free no longer.
LEMMA GetOwned ==
  ASSUME Inv, Owned, getNodel
  PROVE  /\ Got(nodeFree) \in FreeNodes /\ FreeNodes' = FreeNodes \ {Got(nodeFree)}
         /\ IsInjective(nodeFree')
<1>1. nodeFree \in Seq(Addr) /\ nodeFree # <<>> /\ IsInjective(nodeFree)
  BY OwnedTypes DEF Inv, getNodel, CanGet, Owned, NoRepeats
<1> QED
  BY ONLY <1>1, getNodel, ListPop DEF getNodel, Got, AfterGet, FreeNodes

\* The first getNodel of insertFlowTable: a free node comes into its hands.
LEMMA OwnedFirstNode ==
  ASSUME Inv, Owned, InsertFirstNode
  PROVE  Owned' /\ Kept
<1> USE OwnedTypes, PlacedTypes DEF Inv
<1> DEFINE n == Got(nodeFree)
<1>1. /\ getNodel /\ naux' = n /\ data' = [data EXCEPT ![n] = aux_session]
      /\ UNCHANGED <<sessFree, sess, aux_session, node, flow_table, active_flow_list,
                     flags_expired_flow_list, expired_flow_list, last_packet_timestamp, pkt>>
  BY DEF InsertFirstNode, lists, times
<1>2. /\ pc["process"] = "node1" /\ pc'["export"] = pc["export"] /\ pc'["main"] = pc["main"]
      /\ pc'["process"] = "node2"
  BY DEF InsertFirstNode, Goto, PCs
<1>3. n \in FreeNodes /\ FreeNodes' = FreeNodes \ {n} /\ IsInjective(nodeFree')
  BY <1>1, GetOwned
<1> HIDE DEF n
<1>4. /\ ExportHasNode' = ExportHasNode /\ ExportHasSession' = ExportHasSession
      /\ HalfInserted' /\ ~ HalfInserted
  BY <1>2 DEF ExportHasNode, ExportHasSession, HalfInserted
<1>5. /\ ActiveNodes' = ActiveNodes /\ FlagNodes' = FlagNodes /\ ExpiredNodes' = ExpiredNodes
      /\ ExportNode' = ExportNode /\ HalfNode' = {n} /\ HalfNode = {}
      /\ TableNodes' = TableNodes /\ RetiredNodes' = RetiredNodes /\ FreeSessions' = FreeSessions
  BY <1>1, <1>4 DEF ActiveNodes, FlagNodes, ExpiredNodes, ExportNode, HalfNode, TableNodes,
                    RetiredNodes, FreeSessions
<1>6. FlowNodes' = FlowNodes
  BY <1>5 DEF FlowNodes
<1>7. n \in Addr /\ n \notin FlowNodes /\ n \notin ActiveNodes /\ n \notin TableNodes
  BY <1>3 DEF Owned, NodesApart, PlacedNodes, Apart, FlowNodes, ExportNode
<1>8. data'[n] = aux_session /\ \A x \in Addr : x # n => data'[x] = data[x]
  BY <1>1, <1>7
<1>9. FlowNodes \subseteq Addr /\ ActiveNodes \subseteq Addr
  BY DEF Owned, NodesApart, PlacedNodes
<1>10. NoRepeats'
  BY <1>1, <1>3 DEF Owned, NoRepeats
<1>11. NodesApart'
  BY <1>3, <1>5 DEF Owned, NodesApart, PlacedNodes, Apart
<1>12. SessionsApart' /\ FlowTimes'
  BY <1>1, <1>5, <1>6, <1>7, <1>8, <1>9 DEF Owned, SessionsApart, FlowTimes, Flow
<1>13. FlowLinks'
  <2>1. ASSUME NEW x \in ActiveNodes
        PROVE  data'[x] \in TableNodes' /\ sess'[data'[data'[x]]].active_node = x
    <3>1. data[x] \in TableNodes /\ sess[data[data[x]]].active_node = x /\ data[x] \in Addr
          /\ x \in Addr
      BY <1>9, <2>1 DEF Owned, FlowLinks, Flow
    <3> QED
      BY <1>1, <1>5, <1>7, <1>8, <3>1
  <2>2. ASSUME NEW b \in Buckets, NEW m \in ToSet(flow_table[b])
        PROVE  /\ sess'[data'[m]].key \in Keys /\ Hash[sess'[data'[m]].key] = b
               /\ sess'[data'[m]].active_node \in ActiveNodes'
               /\ data'[sess'[data'[m]].active_node] = m
    <3>1. m \in TableNodes /\ m \in Addr
      BY <2>2 DEF Owned, TableNodes, NodesApart, PlacedNodes
    <3>2. data'[m] = data[m]
      BY <1>7, <1>8, <3>1
    <3>3. /\ sess[data[m]].key \in Keys /\ Hash[sess[data[m]].key] = b
          /\ sess[data[m]].active_node \in ActiveNodes /\ data[sess[data[m]].active_node] = m
      BY <2>2 DEF Owned, FlowLinks, Flow
    <3> QED
      BY <1>1, <1>5, <1>7, <1>8, <1>9, <3>2, <3>3
  <2> QED
    BY <1>1, <1>5, <2>1, <2>2 DEF FlowLinks, Flow
<1>14. Stamped' /\ Drained' /\ HalfFlow'
  BY <1>1, <1>2, <1>8 DEF Owned, Stamped, Drained, HalfFlow
<1>15. Kept
  <2>1. \A x \in FlowNodes : data'[x] = data[x]
    BY <1>7, <1>8, <1>9
  <2> QED
    BY <1>1, <1>3, <1>5, <1>6, <2>1 DEF Kept, PlacedNodes, PlacedSessions
<1> QED
  BY <1>10, <1>11, <1>12, <1>13, <1>14, <1>15 DEF Owned

\* The second getNodel: the flow enters its bucket and the active list at once.
FlowInserted(n, m, s, c) ==
  /\ pkt \in Keys /\ sess[s].key = pkt /\ sess[s].first = last_packet_timestamp
  /\ sess[s].last = last_packet_timestamp /\ sess[s].npack = 1
  /\ n \in Addr /\ m \in Addr /\ n \notin ActiveNodes /\ m \notin FlowNodes /\ s \in Sessions
  /\ c \in Buckets /\ \A x \in FlowNodes : data[x] # s
  /\ active_flow_list' = list_prepend_node(active_flow_list, n)
  /\ flow_table'[c] = list_prepend_node(flow_table[c], m)
  /\ \A b \in Buckets : b # c => flow_table'[b] = flow_table[b]
  /\ ActiveNodes' = ActiveNodes \cup {n} /\ TableNodes' = TableNodes \cup {m}
  /\ RetiredNodes' = RetiredNodes /\ UNCHANGED last_packet_timestamp
  /\ data'[n] = m /\ data'[m] = s /\ \A x \in Addr : x # n => data'[x] = data[x]
  /\ \A x \in FlowNodes : data'[x] = data[x] /\ sess'[data[x]] = sess[data[x]]
  /\ sess'[s] = [sess[s] EXCEPT !.active_node = n]

LEMMA OwnedInsert ==
  ASSUME Inv, Owned, InsertFlowTable,
         NEW n, n = Got(nodeFree), NEW m, m = naux, NEW s, s = aux_session, NEW c, c = Hash[pkt]
  PROVE  Owned' /\ Kept /\ FlowInserted(n, m, s, c)
<1> USE OwnedTypes, PlacedTypes DEF Inv
<1>1. /\ getNodel /\ data' = [data EXCEPT ![n] = m]
      /\ flow_table' = [flow_table EXCEPT ![c] = list_prepend_node(@, m)]
      /\ active_flow_list' = list_prepend_node(active_flow_list, n)
      /\ sess' = [sess EXCEPT ![s].active_node = n]
      /\ aux_session' = NULL
      /\ UNCHANGED <<sessFree, node, flags_expired_flow_list, expired_flow_list,
                     last_packet_timestamp, pkt>>
  BY n = Got(nodeFree), m = naux, s = aux_session, c = Hash[pkt]
     DEF InsertFlowTable, Linked, SessionTaken, times
<1>2. /\ pc["process"] = "node2" /\ pc'["export"] = pc["export"] /\ pc'["main"] = pc["main"]
      /\ pc'["process"] = "poll"
  BY DEF InsertFlowTable, Goto, PCs
<1>3. n \in FreeNodes /\ FreeNodes' = FreeNodes \ {n} /\ IsInjective(nodeFree')
  BY <1>1, GetOwned
<1>4. /\ ExportHasNode' = ExportHasNode /\ ExportHasSession' = ExportHasSession
      /\ ~ HalfInserted' /\ HalfInserted
  BY <1>2 DEF ExportHasNode, ExportHasSession, HalfInserted
<1>5. /\ FlagNodes' = FlagNodes /\ ExpiredNodes' = ExpiredNodes
      /\ ExportNode' = ExportNode /\ HalfNode' = {} /\ HalfNode = {m}
      /\ RetiredNodes' = RetiredNodes /\ FreeSessions' = FreeSessions
  BY <1>1, <1>4 DEF FlagNodes, ExpiredNodes, ExportNode, HalfNode, RetiredNodes, FreeSessions
<1>6. /\ data[m] = s /\ pkt \in Keys /\ sess[s].key = pkt /\ s # NULL /\ sess[s].npack = 1
      /\ sess[s].first = last_packet_timestamp /\ sess[s].last = last_packet_timestamp
      /\ last_packet_timestamp \in Clock /\ c \in Buckets /\ s \in Sessions \ FreeSessions
  BY <1>2, <1>4, HashAssumption DEF Owned, HalfFlow, Stamped, SessionsApart
<1>7. /\ n \in Addr /\ m \in Addr /\ n # m
      /\ n \notin FlowNodes /\ m \notin FlowNodes /\ n \notin ActiveNodes /\ m \notin ActiveNodes
      /\ n \notin TableNodes /\ m \notin TableNodes
  BY <1>3, <1>5 DEF Owned, NodesApart, PlacedNodes, Apart, FlowNodes, ExportNode
<1>8. ActiveNodes' = ActiveNodes \cup {n} /\ IsInjective(active_flow_list')
  <2>1. IsInjective(active_flow_list) /\ active_flow_list \in Seq(Addr)
        /\ n \notin ToSet(active_flow_list)
    BY <1>7 DEF Owned, NoRepeats, ActiveNodes
  <2>2. active_flow_list' = list_prepend_node(active_flow_list, n) /\ n \in Addr
    BY <1>1, <1>7
  <2> QED
    BY ONLY <2>1, <2>2, ListAdd DEF ActiveNodes
<1>9. /\ ToSet(flow_table'[c]) = ToSet(flow_table[c]) \cup {m} /\ IsInjective(flow_table'[c])
      /\ \A b \in Buckets : b # c => flow_table'[b] = flow_table[b]
  <2>1. /\ IsInjective(flow_table[c]) /\ flow_table[c] \in Seq(Addr)
        /\ m \notin ToSet(flow_table[c])
        /\ m \in Addr
    BY <1>6, <1>7 DEF Owned, NoRepeats, TableNodes
  <2>2. /\ flow_table'[c] = list_prepend_node(flow_table[c], m)
        /\ \A b \in Buckets : b # c => flow_table'[b] = flow_table[b]
    BY <1>1, <1>6
  <2> QED
    BY ONLY <2>1, <2>2, ListAdd
<1>10. TableNodes' = TableNodes \cup {m}
  <2>1. ASSUME NEW x \in TableNodes' PROVE x \in TableNodes \cup {m}
    <3>1. PICK b \in Buckets : x \in ToSet(flow_table'[b])
      BY <2>1 DEF TableNodes
    <3> QED
      BY ONLY <1>9, <3>1 DEF TableNodes
  <2>2. ASSUME NEW x \in TableNodes PROVE x \in TableNodes'
    <3>1. PICK b \in Buckets : x \in ToSet(flow_table[b])
      BY <2>2 DEF TableNodes
    <3> QED
      BY ONLY <1>9, <3>1 DEF TableNodes
  <2>3. m \in TableNodes'
    BY <1>6, <1>9 DEF TableNodes
  <2> QED
    BY <2>1, <2>2, <2>3
<1>11. FlowNodes' = FlowNodes \cup {m}
  BY <1>5, <1>10 DEF FlowNodes
<1>12. data'[n] = m /\ \A x \in Addr : x # n => data'[x] = data[x]
  BY <1>1, <1>7
<1>13. \A x \in Addr : /\ sess'[x].key = sess[x].key /\ sess'[x].first = sess[x].first
                       /\ sess'[x].last = sess[x].last
                       /\ sess'[x].active_node = IF x = s THEN n ELSE sess[x].active_node
  BY <1>1, <1>6 DEF SessionRecs
<1>14. FlowNodes \subseteq Addr /\ ActiveNodes \subseteq Addr
  BY DEF Owned, NodesApart, PlacedNodes
<1>15. \A x \in FlowNodes : data[x] \in Sessions \ FreeSessions /\ data[x] # s /\ data[x] \in Addr
                            /\ data'[x] = data[x]
  BY <1>7, <1>12, <1>14 DEF Owned, SessionsApart
<1>16. data'[m] = s /\ s \in Addr
  BY <1>6, <1>7, <1>12
<1>17. NoRepeats'
  BY <1>1, <1>3, <1>8, <1>9 DEF Owned, NoRepeats
<1>18. NodesApart'
  BY <1>3, <1>5, <1>8, <1>10 DEF Owned, NodesApart, PlacedNodes, Apart
<1>19. SessionsApart'
  BY <1>1, <1>5, <1>6, <1>11, <1>15, <1>16 DEF Owned, SessionsApart
<1>20. FlowTimes'
  <2>1. \A x \in FlowNodes :
          sess[data[x]].first <= sess[data[x]].last /\ sess[data[x]].last \in Clock
    BY DEF Owned, FlowTimes, Flow
  <2>2. last_packet_timestamp <= last_packet_timestamp
    BY <1>6, ClockType
  <2>3. ASSUME NEW x \in FlowNodes
        PROVE  sess'[data'[x]].first <= sess'[data'[x]].last /\ sess'[data'[x]].last \in Clock
    BY ONLY <1>13, <1>15, <2>1, <2>3
  <2>4. sess'[data'[m]].first <= sess'[data'[m]].last /\ sess'[data'[m]].last \in Clock
    BY ONLY <1>6, <1>13, <1>16, <2>2
  <2> QED
    BY <1>11, <2>3, <2>4 DEF FlowTimes, Flow
<1>21. FlowLinks'
  <2>1. ASSUME NEW x \in ActiveNodes'
        PROVE  data'[x] \in TableNodes' /\ sess'[data'[data'[x]]].active_node = x
    <3>1. CASE x = n
      BY <1>10, <1>12, <1>13, <1>16, <3>1
    <3>2. CASE x # n
      <4>1. x \in ActiveNodes
        BY <1>8, <2>1, <3>2
      <4>2. /\ data[x] \in TableNodes /\ data[x] \in FlowNodes
            /\ sess[data[data[x]]].active_node = x /\ data[x] \in Addr /\ x \in Addr
        BY <1>14, <4>1 DEF Owned, FlowLinks, Flow, FlowNodes
      <4>3. data'[x] = data[x] /\ data'[data[x]] = data[data[x]] /\ data[data[x]] # s
            /\ data[data[x]] \in Addr
        BY <1>12, <1>15, <3>2, <4>2
      <4> QED
        BY <1>10, <1>13, <4>2, <4>3
    <3> QED
      BY <3>1, <3>2
  <2>2. ASSUME NEW b \in Buckets, NEW x \in ToSet(flow_table'[b])
        PROVE  /\ sess'[data'[x]].key \in Keys /\ Hash[sess'[data'[x]].key] = b
               /\ sess'[data'[x]].active_node \in ActiveNodes'
               /\ data'[sess'[data'[x]].active_node] = x
    <3>1. CASE x = m
      <4>1. b = c
        BY <1>7, <1>9, <2>2, <3>1 DEF TableNodes
      <4>2. sess'[s].key = pkt /\ sess'[s].active_node = n
        BY <1>6, <1>13, <1>16
      <4>3. n \in ActiveNodes' /\ c = Hash[pkt]
        BY <1>8
      <4> QED
        BY <1>6, <1>12, <1>16, <3>1, <4>1, <4>2, <4>3
    <3>2. CASE x # m
      <4>1. x \in ToSet(flow_table[b])
        BY <1>9, <2>2, <3>2
      <4>2. x \in TableNodes /\ x \in FlowNodes /\ x \in Addr
        BY <1>14, <4>1 DEF TableNodes, FlowNodes
      <4> DEFINE a == sess[data[x]].active_node
      <4>3. /\ sess[data[x]].key \in Keys /\ Hash[sess[data[x]].key] = b
            /\ a \in ActiveNodes /\ data[a] = x
        BY <4>1 DEF Owned, FlowLinks, Flow
      <4> HIDE DEF a
      <4>4. data'[x] = data[x] /\ data[x] # s /\ data[x] \in Addr /\ a # n /\ a \in Addr
        BY <1>7, <1>14, <1>15, <4>2, <4>3
      <4>5. sess'[data'[x]].active_node = a /\ data'[a] = x
        BY <1>12, <1>13, <4>3, <4>4 DEF a
      <4> QED
        BY <1>8, <1>13, <4>3, <4>4, <4>5
    <3> QED
      BY <3>1, <3>2
  <2> QED
    BY <2>1, <2>2 DEF FlowLinks, Flow
<1>22. Stamped' /\ HalfFlow'
  BY <1>2, <1>4 DEF Stamped, HalfFlow
<1>23. Drained'
  BY <1>1, <1>2 DEF Owned, Drained, JoinedFirst
<1>24. Kept
  BY <1>3, <1>5, <1>8, <1>10, <1>11, <1>15, <1>16, SMTT(30) DEF Kept, PlacedNodes, PlacedSessions
<1>25. /\ sess'[s] = [sess[s] EXCEPT !.active_node = n]
       /\ \A x \in FlowNodes : data'[x] = data[x] /\ sess'[data[x]] = sess[data[x]]
  BY <1>1, <1>15, <1>16
<1>26. /\ flow_table'[c] = list_prepend_node(flow_table[c], m)
       /\ \A b \in Buckets : b # c => flow_table'[b] = flow_table[b]
  BY <1>1, <1>6
<1> QED
  BY <1>1, <1>5, <1>6, <1>7, <1>8, <1>10, <1>12, <1>15, <1>16, <1>17, <1>18, <1>19, <1>20, <1>21,
     <1>22, <1>23, <1>24, <1>25, <1>26 DEF Owned, FlowInserted

\* A failed insertion gives its first node back and keeps the session.
LEMMA OwnedGiveUp ==
  ASSUME Inv, Owned, InsertGivesUp
  PROVE  Owned' /\ Kept
<1> USE OwnedTypes, PlacedTypes DEF Inv
<1>1. /\ nodeFree' = list_append_node(nodeFree, naux)
      /\ UNCHANGED <<sessFree, sess, data, aux_session, node, flow_table, active_flow_list,
                     flags_expired_flow_list, expired_flow_list, last_packet_timestamp, pkt>>
  BY DEF InsertGivesUp, releaseNodel, lists, times
<1>2. /\ pc["process"] = "unget" /\ pc'["export"] = pc["export"] /\ pc'["main"] = pc["main"]
      /\ pc'["process"] = "poll"
  BY DEF InsertGivesUp, Goto, PCs
<1>3. /\ ExportHasNode' = ExportHasNode /\ ExportHasSession' = ExportHasSession
      /\ ~ HalfInserted' /\ HalfInserted
  BY <1>2 DEF ExportHasNode, ExportHasSession, HalfInserted
<1>4. /\ ActiveNodes' = ActiveNodes /\ FlagNodes' = FlagNodes /\ ExpiredNodes' = ExpiredNodes
      /\ ExportNode' = ExportNode /\ HalfNode' = {} /\ HalfNode = {naux}
      /\ TableNodes' = TableNodes /\ RetiredNodes' = RetiredNodes /\ FreeSessions' = FreeSessions
  BY <1>1, <1>3 DEF ActiveNodes, FlagNodes, ExpiredNodes, ExportNode, HalfNode, TableNodes,
                    RetiredNodes, FreeSessions
<1>5. naux \in Addr /\ naux \notin FreeNodes /\ nodeFree \in Seq(Addr) /\ IsInjective(nodeFree)
  BY <1>4 DEF Owned, NodesApart, PlacedNodes, Apart, NoRepeats
<1>6. FreeNodes' = FreeNodes \cup {naux} /\ IsInjective(nodeFree')
  BY ONLY <1>1, <1>5, ListAdd DEF FreeNodes
<1>7. NodesApart'
  BY <1>4, <1>6 DEF Owned, NodesApart, PlacedNodes, Apart
<1>8. NoRepeats'
  BY <1>1, <1>6 DEF Owned, NoRepeats
<1>9. FlowNodes' = FlowNodes
  BY <1>4 DEF FlowNodes
<1>10. SessionsApart' /\ FlowTimes'
  BY <1>1, <1>4, <1>9 DEF Owned, SessionsApart, FlowTimes, Flow
<1>11. FlowLinks'
  BY <1>1, <1>4, LinksKept DEF Owned
<1>12. Stamped' /\ HalfFlow' /\ Drained'
  BY <1>1, <1>2, <1>3 DEF Owned, Stamped, HalfFlow, Drained
<1>13. Kept
  BY <1>1, <1>4, <1>6, <1>9 DEF Kept, PlacedNodes, PlacedSessions
<1> QED
  BY <1>7, <1>8, <1>10, <1>11, <1>12, <1>13 DEF Owned

\* The export thread takes the first node of the expired list into its hands.
LEMMA OwnedPop ==
  ASSUME Inv, Owned, ExportPop
  PROVE  Owned' /\ Kept /\ TableNodes' = TableNodes /\ RetiredNodes' = RetiredNodes
<1> USE OwnedTypes, PlacedTypes DEF Inv
<1>1. expired_flow_list # <<>>
  BY DEF ExportPop, InitOrder
<1>2. /\ node' = Head(expired_flow_list)
      /\ expired_flow_list' = list_pop_first_node(expired_flow_list)
      /\ UNCHANGED <<sessFree, nodeFree, sess, data, aux_session, naux, flow_table,
                     active_flow_list, flags_expired_flow_list, last_packet_timestamp, pkt>>
  BY <1>1 DEF ExportPop, list_get_first_node, pools, times, work
<1>3. /\ pc["export"] \in {"pop", "drain"} /\ pc'["export"] \in {"unlock", "print"}
      /\ pc'["process"] = pc["process"] /\ pc'["main"] = pc["main"]
  BY DEF ExportPop, Goto, PCs
<1>4. /\ ExportHasNode' /\ ExportHasSession' /\ ~ ExportHasNode /\ ~ ExportHasSession
      /\ HalfInserted' = HalfInserted
  BY <1>3 DEF ExportHasNode, ExportHasSession, HalfInserted
<1>5. /\ ActiveNodes' = ActiveNodes /\ FlagNodes' = FlagNodes /\ FreeNodes' = FreeNodes
      /\ ExportNode' = {node'} /\ ExportNode = {} /\ HalfNode' = HalfNode
      /\ TableNodes' = TableNodes /\ FreeSessions' = FreeSessions
  BY <1>2, <1>4 DEF ActiveNodes, FlagNodes, FreeNodes, ExportNode, HalfNode, TableNodes,
                    FreeSessions
<1>6. expired_flow_list \in Seq(Addr) /\ IsInjective(expired_flow_list)
  BY DEF Owned, NoRepeats
<1>7. node' \in ExpiredNodes /\ ExpiredNodes' = ExpiredNodes \ {node'}
      /\ IsInjective(expired_flow_list')
  BY ONLY <1>1, <1>2, <1>6, ListPop DEF ExpiredNodes
<1>8. RetiredNodes' = RetiredNodes
  BY <1>4, <1>5, <1>7 DEF RetiredNodes, FlagNodes, ExpiredNodes
<1>9. FlowNodes' = FlowNodes
  BY <1>5, <1>8 DEF FlowNodes
<1>10. NodesApart'
  BY <1>5, <1>7 DEF Owned, NodesApart, PlacedNodes, Apart
<1>11. NoRepeats'
  BY <1>2, <1>7 DEF Owned, NoRepeats
<1>12. SessionsApart' /\ FlowTimes'
  BY <1>2, <1>5, <1>9 DEF Owned, SessionsApart, FlowTimes, Flow
<1>13. FlowLinks'
  BY <1>2, <1>5, LinksKept DEF Owned
<1>14. Stamped' /\ HalfFlow' /\ Drained'
  BY <1>2, <1>3, <1>4 DEF Owned, Stamped, HalfFlow, Drained
<1>15. Kept
  BY <1>2, <1>5, <1>7, <1>9 DEF Kept, PlacedNodes, PlacedSessions
<1> QED
  BY <1>5, <1>8, <1>10, <1>11, <1>12, <1>13, <1>14, <1>15 DEF Owned

\* The export thread gives the session of the flow it has written back.
LEMMA OwnedReleaseSession ==
  ASSUME Inv, Owned, ExportReleaseSession
  PROVE  Owned' /\ Kept
<1> USE OwnedTypes, PlacedTypes DEF Inv
<1> DEFINE s == data[node]
<1>1. /\ sess' = [sess EXCEPT ![s].key = Short, ![s].npack = 0]
      /\ sessFree' = list_append_node(sessFree, s)
      /\ UNCHANGED <<nodeFree, data, aux_session, naux, node, flow_table, active_flow_list,
                     flags_expired_flow_list, expired_flow_list, last_packet_timestamp, pkt>>
  BY DEF ExportReleaseSession, releaseIPSession, ExportRest, lists, times, work
<1>2. /\ pc["export"] = "relS" /\ pc'["export"] = "relN"
      /\ pc'["process"] = pc["process"] /\ pc'["main"] = pc["main"]
  BY DEF ExportReleaseSession, Goto, PCs
<1>3. /\ ExportHasNode' /\ ~ ExportHasSession' /\ ExportHasNode /\ ExportHasSession
      /\ HalfInserted' = HalfInserted
  BY <1>2 DEF ExportHasNode, ExportHasSession, HalfInserted
<1>4. /\ ActiveNodes' = ActiveNodes /\ FlagNodes' = FlagNodes /\ FreeNodes' = FreeNodes
      /\ ExpiredNodes' = ExpiredNodes /\ ExportNode' = {node} /\ ExportNode = {node}
      /\ HalfNode' = HalfNode /\ TableNodes' = TableNodes
  BY <1>1, <1>3 DEF ActiveNodes, FlagNodes, FreeNodes, ExpiredNodes, ExportNode, HalfNode,
                    TableNodes
<1>5. node \in FlowNodes /\ node \notin TableNodes /\ node \notin FlagNodes
      /\ node \notin ExpiredNodes
  BY <1>3, <1>4 DEF FlowNodes, RetiredNodes, Owned, NodesApart, Apart
<1>6. RetiredNodes' = RetiredNodes \ {node} /\ RetiredNodes' = FlagNodes \cup ExpiredNodes
  BY <1>3, <1>4, <1>5 DEF RetiredNodes, FlagNodes, ExpiredNodes
<1>7. FlowNodes' = FlowNodes \ {node}
  BY <1>4, <1>5, <1>6 DEF FlowNodes
<1>8. s \in Sessions \ FreeSessions /\ s # aux_session /\ \A n \in FlowNodes' : data[n] # s
  BY <1>5, <1>7 DEF Owned, SessionsApart
<1>9. sessFree \in Seq(Addr) /\ IsInjective(sessFree) /\ s \in Addr /\ s \notin ToSet(sessFree)
  BY <1>8 DEF Owned, NoRepeats, FreeSessions
<1> HIDE DEF s
<1>10. FreeSessions' = FreeSessions \cup {s} /\ IsInjective(sessFree')
  BY ONLY <1>1, <1>9, ListAdd DEF FreeSessions
<1>11. \A x \in Addr : x # s => sess'[x] = sess[x]
  BY <1>1
<1>12. \A n \in FlowNodes' : sess'[data[n]] = sess[data[n]] /\ data[n] \in Addr
  <2>1. \A n \in FlowNodes : data[n] \in Addr
    BY DEF Owned, SessionsApart
  <2> QED
    BY <1>7, <1>8, <1>11, <2>1
<1>13. NodesApart'
  BY <1>4 DEF Owned, NodesApart, PlacedNodes, Apart
<1>14. NoRepeats'
  BY <1>1, <1>10 DEF Owned, NoRepeats
<1>15. SessionsApart'
  BY <1>1, <1>7, <1>8, <1>10 DEF Owned, SessionsApart
<1>16. FlowTimes'
  BY <1>1, <1>7, <1>12 DEF Owned, FlowTimes, Flow
<1>17. FlowLinks'
  <2>1. \A n \in TableNodes : sess'[data[n]] = sess[data[n]]
    BY <1>4, <1>12 DEF FlowNodes
  <2> QED
    BY <1>1, <1>4, <2>1, LinksKept DEF Owned
<1>18. Stamped' /\ Drained'
  BY <1>1, <1>2 DEF Owned, Stamped, Drained
<1>19. HalfFlow'
  <2>1. pc["process"] \in {"node1", "node2", "unget"} =>
          aux_session \in Addr /\ sess'[aux_session] = sess[aux_session]
    BY <1>8, <1>11 DEF Owned, HalfFlow, SessionsApart
  <2> QED
    BY <1>1, <1>2, <1>3, <2>1 DEF Owned, HalfFlow
<1>20. Kept
  <2>1. \A n \in FlowNodes : data[n] = s \/ n \in FlowNodes'
    BY <1>7 DEF s
  <2> QED
    BY <1>1, <1>4, <1>10, <2>1 DEF Kept, PlacedNodes, PlacedSessions
<1> QED
  BY <1>13, <1>14, <1>15, <1>16, <1>17, <1>18, <1>19, <1>20 DEF Owned

\* The export thread gives the node back that led to it.
LEMMA OwnedReleaseNode ==
  ASSUME Inv, Owned, ExportReleaseNode
  PROVE  Owned' /\ Kept
<1> USE OwnedTypes, PlacedTypes DEF Inv
<1>1. /\ nodeFree' = list_append_node(nodeFree, node)
      /\ UNCHANGED <<sessFree, sess, data, aux_session, naux, flow_table,
                     active_flow_list, flags_expired_flow_list, expired_flow_list,
                     last_packet_timestamp, pkt>>
  BY DEF ExportReleaseNode, releaseNodel, ExportRest, lists, times, work
<1>2. /\ pc["export"] = "relN" /\ pc'["export"] \in {"drain", "loop"}
      /\ pc'["process"] = pc["process"] /\ pc'["main"] = pc["main"]
  BY DEF ExportReleaseNode, Goto, PCs
<1>3. /\ ~ ExportHasNode' /\ ~ ExportHasSession' /\ ExportHasNode /\ ~ ExportHasSession
      /\ HalfInserted' = HalfInserted
  BY <1>2 DEF ExportHasNode, ExportHasSession, HalfInserted
<1>4. /\ ActiveNodes' = ActiveNodes /\ FlagNodes' = FlagNodes /\ FreeSessions' = FreeSessions
      /\ ExpiredNodes' = ExpiredNodes /\ ExportNode' = {} /\ ExportNode = {node}
      /\ HalfNode' = HalfNode /\ TableNodes' = TableNodes /\ RetiredNodes' = RetiredNodes
  BY <1>1, <1>3 DEF ActiveNodes, FlagNodes, FreeSessions, ExpiredNodes, ExportNode, HalfNode,
                    TableNodes, RetiredNodes
<1>5. node \in Addr /\ node \notin FreeNodes /\ nodeFree \in Seq(Addr) /\ IsInjective(nodeFree)
  BY <1>4 DEF Owned, NodesApart, PlacedNodes, Apart, NoRepeats
<1>6. FreeNodes' = FreeNodes \cup {node} /\ IsInjective(nodeFree')
  BY ONLY <1>1, <1>5, ListAdd DEF FreeNodes
<1>7. NodesApart'
  BY <1>4, <1>6 DEF Owned, NodesApart, PlacedNodes, Apart
<1>8. NoRepeats'
  BY <1>1, <1>6 DEF Owned, NoRepeats
<1>9. FlowNodes' = FlowNodes
  BY <1>4 DEF FlowNodes
<1>10. SessionsApart' /\ FlowTimes'
  BY <1>1, <1>4, <1>9 DEF Owned, SessionsApart, FlowTimes, Flow
<1>11. FlowLinks'
  BY <1>1, <1>4, LinksKept DEF Owned
<1>12. Stamped' /\ HalfFlow' /\ Drained'
  BY <1>1, <1>2, <1>3 DEF Owned, Stamped, HalfFlow, Drained
<1>13. Kept
  BY <1>1, <1>4, <1>6, <1>9 DEF Kept, PlacedNodes, PlacedSessions
<1> QED
  BY <1>7, <1>8, <1>10, <1>11, <1>12, <1>13 DEF Owned

\* process_packet up to parsePacket.  initData, when a clock that has gone back
\* brings it about again, forgets flows: they leak, and nothing else happens to
\* what the other places own.
LEMMA OwnedArrival ==
  ASSUME Inv, Owned, Arrival
  PROVE  Owned' /\ (previous # 0 => Kept)
<1> USE OwnedTypes, PlacedTypes DEF Inv
<1> PICK p \in Packets, t \in Clock :
      FirstPacket(p, t) \/ NewSecond(p, t) \/ SameSecond(p, t) \/ Rollback(p, t)
  BY DEF Arrival
<1>1. /\ pc["process"] = "poll" /\ pc'["process"] \in {"poll", "parse", "cleanup"}
      /\ pc'["export"] = pc["export"] /\ pc'["main"] = pc["main"] /\ last_packet_timestamp' = t
      /\ UNCHANGED <<sessFree, nodeFree, sess, data, naux, node>>
  BY DEF FirstPacket, NewSecond, SameSecond, Rollback, Receive, AfterTimes, Goto, PCs, pools
<1>2. /\ ExportHasNode' = ExportHasNode /\ ExportHasSession' = ExportHasSession
      /\ ~ HalfInserted' /\ ~ HalfInserted /\ HalfInserted' = HalfInserted
  BY <1>1 DEF ExportHasNode, ExportHasSession, HalfInserted
<1>3. /\ Stamped' /\ HalfFlow' /\ pc["main"] \notin {"cleanup", "splice", "stop", "joinE", "done"}
  BY <1>1, <1>2 DEF Stamped, HalfFlow, JoinedFirst
<1>4. Drained'
  BY <1>1, <1>3 DEF Drained
<1>5. CASE NewSecond(p, t) \/ SameSecond(p, t) \/ Rollback(p, t)
  <2>1. UNCHANGED <<flow_table, active_flow_list, flags_expired_flow_list, expired_flow_list,
                    aux_session>>
    BY <1>5 DEF NewSecond, SameSecond, Rollback, lists
  <2> QED
    BY <1>1, <1>2, <1>3, <1>4, <2>1, OwnedQuiet DEF Owned
<1>6. CASE FirstPacket(p, t)
  <2>1. /\ flags_expired_flow_list' = <<>> /\ expired_flow_list' = <<>> /\ aux_session' = NULL
        /\ flow_table' = [b \in Buckets |-> <<>>] /\ active_flow_list' = <<>>
        /\ previous = 0
    BY <1>6 DEF FirstPacket, initData, initDataRest
  <2>2. ~ ExportHasNode /\ ~ ExportHasSession
    BY <1>1, <2>1 DEF InitOrder, NothingExpired, ExportHasNode, ExportHasSession
  <2>3. /\ ToSet(<<>>) = {} /\ IsInjective(<<>>)
    BY DEF ToSet, IsInjective
  <2>4. /\ ActiveNodes' = {} /\ FlagNodes' = {} /\ ExpiredNodes' = {} /\ ExportNode' = {}
        /\ HalfNode' = {} /\ FreeNodes' = FreeNodes /\ FreeSessions' = FreeSessions
    BY <1>1, <1>2, <2>1, <2>2, <2>3
       DEF ActiveNodes, FlagNodes, ExpiredNodes, ExportNode, HalfNode, FreeNodes, FreeSessions
  <2>5. TableNodes' = {} /\ RetiredNodes' = {}
    BY <1>2, <2>1, <2>2, <2>3 DEF TableNodes, RetiredNodes
  <2>6. FlowNodes' = {}
    BY <2>5 DEF FlowNodes
  <2>7. NoRepeats'
    BY <1>1, <2>1, <2>3 DEF Owned, NoRepeats
  <2>8. NodesApart'
    BY <2>4, <2>5 DEF Owned, NodesApart, PlacedNodes, Apart
  <2>9. SessionsApart' /\ FlowTimes'
    BY <2>1, <2>4, <2>6 DEF Owned, SessionsApart, FlowTimes
  <2>10. FlowLinks'
    BY <2>1, <2>3, <2>4 DEF FlowLinks
  <2> QED
    BY <1>3, <1>4, <2>1, <2>7, <2>8, <2>9, <2>10 DEF Owned
<1> QED
  BY <1>5, <1>6

\* The loop of cleanup_flows ends; for main, whose clock shows the end of time,
\* only when no flow is left.
LEMMA OwnedStop ==
  ASSUME Inv, Owned, NEW t \in {"process", "main"}, StopExpiring(t)
  PROVE  Owned' /\ Kept
<1> USE OwnedTypes, PlacedTypes DEF Inv
<1>1. /\ pc[t] = "cleanup" /\ pc' = [pc EXCEPT ![t] = "splice"]
      /\ UNCHANGED <<sessFree, nodeFree, sess, data, naux, node, aux_session, pkt,
                     last_packet_timestamp>>
      /\ UNCHANGED <<flow_table, active_flow_list, flags_expired_flow_list, expired_flow_list>>
  BY DEF StopExpiring, Goto, pools, lists, times, work
<1>2. pc'["export"] = pc["export"] /\ pc["process"] \notin {"node1", "node2", "unget"}
      /\ pc'["process"] \in {pc["process"], "splice"}
      /\ pc'["process"] \notin {"node1", "node2", "unget"}
  BY <1>1 DEF PCs, JoinedFirst
<1>3. /\ ExportHasNode' = ExportHasNode /\ ExportHasSession' = ExportHasSession
      /\ HalfInserted' = HalfInserted /\ ~ HalfInserted
  BY <1>2 DEF ExportHasNode, ExportHasSession, HalfInserted
<1>4. NoRepeats' /\ NodesApart' /\ SessionsApart' /\ FlowLinks' /\ FlowTimes' /\ Kept
  BY <1>1, <1>3, OwnedQuiet
<1>5. Stamped' /\ HalfFlow'
  BY <1>1, <1>2, <1>3 DEF Owned, Stamped, HalfFlow, PCs
<1>6. Drained'
  <2>1. CASE t = "process"
    <3>1. pc'["main"] = pc["main"]
      BY <1>1, <2>1 DEF PCs
    <3> QED
      BY <1>1, <3>1 DEF Owned, Drained
  <2>2. CASE t = "main"
    <3>1. pc'["main"] = "splice" /\ last_packet_timestamp = Infinity
      BY <1>1, <2>2 DEF PCs, Owned, Drained
    <3>2. active_flow_list = <<>>
      <4> SUFFICES ASSUME active_flow_list # <<>> PROVE FALSE
        OBVIOUS
      <4>1. Oldest \in ActiveNodes
        BY ListLast DEF Oldest, list_get_last_node, ActiveNodes
      <4>2. Oldest # NULL /\ OldestInTable \in FlowNodes
        BY <4>1 DEF Owned, NodesApart, PlacedNodes, FlowLinks, FlowNodes, OldestInTable
      <4>3. sess[OldestSession].last \in Clock
        BY <4>2 DEF Owned, FlowTimes, Flow, OldestSession
      <4>4. Expired(OldestSession)
        BY <3>1, <4>3, AgeIs DEF Expired
      <4> QED
        BY <4>2, <4>4 DEF StopExpiring
    <3> QED
      BY <1>1, <3>1, <3>2 DEF Drained
  <2> QED
    BY <2>1, <2>2
<1> QED
  BY <1>4, <1>5, <1>6 DEF Owned

\* The steps of the process thread and of the export thread that own nothing new.
LEMMA OwnedIdle ==
  ASSUME Inv, Owned,
         \/ NoSession \/ InsertNoFirstNode \/ InsertNoSecondNode \/ PollTimeout
         \/ ExportLoop \/ ExportLock \/ ExportCheck \/ ExportUnlock \/ ExportPrint \/ ExportEnd
         \/ UNCHANGED vars
  PROVE  Owned' /\ Kept
<1> USE OwnedTypes, PlacedTypes DEF Inv
<1>1. /\ UNCHANGED <<sessFree, nodeFree, sess, data, naux, node, aux_session, pkt,
                     last_packet_timestamp>>
      /\ UNCHANGED <<flow_table, active_flow_list, flags_expired_flow_list, expired_flow_list>>
  BY DEF NoSession, InsertNoFirstNode, InsertNoSecondNode, getNodelFails, PollTimeout,
         ExportLoop, ExportLock, ExportCheck, ExportUnlock, ExportPrint, ExportEnd, ExportRest,
         pools, lists, times, work, vars
<1>2. /\ pc'["main"] = pc["main"]
      /\ \/ pc'["process"] = pc["process"]
         \/ pc'["process"] \in {"poll", "done"} /\ pc["process"] \in {"parse", "node1", "poll"}
         \/ pc["process"] = "node2" /\ pc'["process"] = "unget"
  BY DEF NoSession, InsertNoFirstNode, InsertNoSecondNode, PollTimeout, Goto, PCs,
         ExportLoop, ExportLock, ExportCheck, ExportUnlock, ExportPrint, ExportEnd, vars
<1>3. HalfInserted' = HalfInserted
  BY <1>2 DEF HalfInserted
<1>4. ExportHasNode' = ExportHasNode /\ ExportHasSession' = ExportHasSession
  <2>1. CASE pc'["export"] = pc["export"]
    BY <2>1 DEF ExportHasNode, ExportHasSession
  <2>2. CASE ExportLoop
    BY <2>2 DEF ExportLoop, Goto, PCs, ExportHasNode, ExportHasSession
  <2>3. CASE ExportLock
    BY <2>3 DEF ExportLock, Goto, PCs, ExportHasNode, ExportHasSession
  <2>4. CASE ExportCheck
    BY <2>4 DEF ExportCheck, Goto, PCs, ExportHasNode, ExportHasSession
  <2>5. CASE ExportUnlock
    BY <2>5 DEF ExportUnlock, Goto, PCs, ExportHasNode, ExportHasSession
  <2>6. CASE ExportPrint
    BY <2>6 DEF ExportPrint, Goto, PCs, ExportHasNode, ExportHasSession
  <2>7. CASE ExportEnd
    BY <2>7 DEF ExportEnd, Goto, PCs, ExportHasNode, ExportHasSession
  <2>8. CASE NoSession \/ InsertNoFirstNode \/ InsertNoSecondNode \/ PollTimeout \/ UNCHANGED vars
    BY <2>1, <2>8 DEF NoSession, InsertNoFirstNode, InsertNoSecondNode, PollTimeout, Goto, PCs,
                      vars
  <2> QED
    BY <2>2, <2>3, <2>4, <2>5, <2>6, <2>7, <2>8
<1>5. NoRepeats' /\ NodesApart' /\ SessionsApart' /\ FlowLinks' /\ FlowTimes' /\ Kept
  BY <1>1, <1>3, <1>4, OwnedQuiet
<1>6. Stamped' /\ HalfFlow' /\ Drained'
  BY <1>1, <1>2, <1>3 DEF Owned, Stamped, HalfFlow, Drained
<1> QED
  BY <1>5, <1>6 DEF Owned

\* The main thread's own steps; the pools are freed when nobody uses them.
LEMMA OwnedMain ==
  ASSUME Inv, Owned, Sigint \/ MainJoin \/ MainStop \/ MainFree
  PROVE  Owned' /\ (Live' => Kept)
<1> USE OwnedTypes, PlacedTypes DEF Inv
<1>1. /\ pc'["process"] = pc["process"] /\ pc'["export"] = pc["export"]
      /\ UNCHANGED <<sess, data, naux, node, aux_session, pkt>>
      /\ UNCHANGED <<active_flow_list, flags_expired_flow_list, expired_flow_list>>
  BY DEF Sigint, MainJoin, MainStop, MainFree, MainRest, lists, work, Goto, PCs
<1>2. /\ ExportHasNode' = ExportHasNode /\ ExportHasSession' = ExportHasSession
      /\ HalfInserted' = HalfInserted
  BY <1>1 DEF ExportHasNode, ExportHasSession, HalfInserted
<1>3. /\ last_packet_timestamp' = last_packet_timestamp \/ pc["process"] = "done"
      /\ (pc'["main"] = "join" \/ pc["process"] = "done")
  BY DEF Sigint, MainJoin, ProcessJoined, MainStop, MainFree, times, JoinedFirst, Goto, PCs
<1>4. Stamped' /\ HalfFlow'
  BY <1>1, <1>2, <1>3 DEF Owned, Stamped, HalfFlow, HalfInserted
<1>5. Drained'
  BY <1>1 DEF Owned, Drained, Sigint, MainJoin, MainStop, MainFree, Goto, PCs
<1>6. CASE Sigint \/ MainJoin \/ MainStop
  <2>1. UNCHANGED <<sessFree, nodeFree, flow_table>>
    BY <1>6 DEF Sigint, MainJoin, MainStop, pools, lists
  <2> QED
    BY <1>1, <1>2, <1>4, <1>5, <2>1, OwnedQuiet DEF Owned
<1>7. CASE MainFree
  <2>1. /\ sessFree' = <<>> /\ nodeFree' = <<>> /\ flow_table' = [b \in Buckets |-> <<>>]
        /\ active_flow_list = <<>>
    BY <1>7 DEF MainFree, Owned, Drained
  <2>2. /\ ToSet(<<>>) = {} /\ IsInjective(<<>>)
    BY DEF ToSet, IsInjective
  <2>3. /\ ActiveNodes' = {} /\ FlagNodes' = FlagNodes /\ ExpiredNodes' = ExpiredNodes
        /\ ExportNode' = ExportNode
        /\ HalfNode' = HalfNode /\ FreeNodes' = {} /\ FreeSessions' = {}
    BY <1>1, <1>2, <2>1, <2>2
       DEF ActiveNodes, FlagNodes, ExpiredNodes, ExportNode, HalfNode, FreeNodes, FreeSessions
  <2>4. TableNodes' = {} /\ RetiredNodes' = RetiredNodes
    BY <1>1, <1>2, <2>1, <2>2 DEF TableNodes, RetiredNodes
  <2>5. FlowNodes' \subseteq FlowNodes
    BY <2>4 DEF FlowNodes
  <2>6. NoRepeats'
    BY <1>1, <2>1, <2>2 DEF Owned, NoRepeats
  <2>7. NodesApart'
    BY <2>3, <2>4 DEF Owned, NodesApart, PlacedNodes, Apart
  <2>8. SessionsApart'
    BY <1>1, <2>3, <2>5 DEF Owned, SessionsApart
  <2>9. FlowTimes'
    BY <1>1, <2>5 DEF Owned, FlowTimes, Flow
  <2>10. FlowLinks'
    BY <2>1, <2>2, <2>3 DEF FlowLinks
  <2>11. ~ Live'
    BY <1>7 DEF MainFree, Goto, Live, PCs
  <2> QED
    BY <1>4, <1>5, <2>11, <2>6, <2>7, <2>8, <2>9, <2>10 DEF Owned
<1> QED
  BY <1>6, <1>7

\* When the threads start everything is free.
LEMMA InitOwned == Init => Owned
<1> SUFFICES ASSUME Init PROVE Owned
  OBVIOUS
<1>1. /\ ToSet(<<>>) = {} /\ IsInjective(<<>>)
  BY DEF ToSet, IsInjective
<1>2. /\ ActiveNodes = {} /\ FlagNodes = {} /\ ExpiredNodes = {} /\ ExportNode = {}
      /\ HalfNode = {}
      /\ TableNodes = {} /\ RetiredNodes = {} /\ FlowNodes = {}
  BY <1>1 DEF Init, ActiveNodes, FlagNodes, ExpiredNodes, ExportNode, HalfNode, TableNodes,
              RetiredNodes, FlowNodes, ExportHasNode, ExportHasSession, HalfInserted
<1>3. FreeNodes \subseteq Nodes /\ IsInjective(nodeFree)
  BY PoolAssumption DEF Init, FreeNodes, Nodes, ToSet, IsInjective
<1>4. FreeSessions \subseteq Sessions /\ IsInjective(sessFree)
  BY PoolAssumption DEF Init, FreeSessions, Sessions, ToSet, IsInjective
<1>5. NoRepeats
  BY <1>1, <1>3, <1>4 DEF Init, NoRepeats
<1>6. NodesApart
  BY <1>2, <1>3 DEF NodesApart, PlacedNodes, Apart
<1>7. SessionsApart /\ FlowTimes
  BY <1>2, <1>4 DEF Init, SessionsApart, FlowTimes
<1>8. FlowLinks
  BY <1>1, <1>2 DEF Init, FlowLinks
<1>9. Stamped /\ HalfFlow /\ Drained
  BY DEF Init, Stamped, HalfFlow, HalfInserted, Drained
<1> QED
  BY <1>5, <1>6, <1>7, <1>8, <1>9 DEF Owned

\* Ownership is kept by every step of every thread.
LEMMA StepOwned == Inv /\ Owned /\ [Next]_vars => Owned'
<1> SUFFICES ASSUME Inv, Owned, [Next]_vars PROVE Owned'
  OBVIOUS
<1> QED
  BY OwnedArrival, OwnedExpire, OwnedStop, OwnedSplice, OwnedFill, OwnedUpdate, OwnedFirstNode,
     OwnedInsert, OwnedGiveUp, OwnedPop, OwnedReleaseSession, OwnedReleaseNode, OwnedIdle,
     OwnedMain
     DEF Next, ProcessStep, ExportStep, MainStep, Terminated

\* Ownership is an invariant of the monitor, for every clock.
LEMMA OwnedInvariant == Spec => [](Inv /\ Owned)
<1>1. Init => Owned
  BY InitOwned
<1> QED
  BY <1>1, StepOwned, InvInductive, PTL DEF Spec

-----------------------------------------------------------------------------
(***************************************************************************)
(* What ownership means for the properties.                                *)
(***************************************************************************)
\* A node of the table is in one place of one bucket.
LEMMA TablePlacesIs ==
  ASSUME Inv, Owned, NEW n
  PROVE  TablePlaces(n) = One(n \in TableNodes)
<1> USE OwnedTypes DEF Inv
<1> DEFINE P == {p \in UNION {{b} \X DOMAIN flow_table[b] : b \in Buckets} :
                   flow_table[p[1]][p[2]] = n}
<1>1. CASE n \in TableNodes
  <2>1. PICK b \in Buckets : n \in ToSet(flow_table[b])
    BY <1>1 DEF TableNodes
  <2>2. PICK i \in DOMAIN flow_table[b] : flow_table[b][i] = n
    BY <2>1 DEF ToSet
  <2>3. <<b, i>> \in P
    BY <2>2
  <2>4. ASSUME NEW p \in P PROVE p = <<b, i>>
    <3>1. PICK c \in Buckets : p \in {c} \X DOMAIN flow_table[c]
      BY <2>4
    <3>2. PICK j \in DOMAIN flow_table[c] : p = <<c, j>>
      BY <3>1
    <3>3. flow_table[c][j] = n
      BY <2>4, <3>2
    <3>4. n \in ToSet(flow_table[c])
      BY <3>3 DEF ToSet
    <3>5. c = b
      BY <2>1, <3>4 DEF Owned, FlowLinks
    <3>6. i = j
      BY <2>2, <3>3, <3>5 DEF Owned, NoRepeats, IsInjective
    <3> QED
      BY <3>2, <3>5, <3>6
  <2> HIDE DEF P
  <2>5. P = {<<b, i>>}
    BY <2>3, <2>4
  <2>6. Cardinality(P) = 1
    BY <2>5, FS_Singleton
  <2> QED
    BY <1>1, <2>6 DEF TablePlaces, P, One
<1>2. CASE n \notin TableNodes
  <2>1. ASSUME NEW p \in P PROVE FALSE
    <3>1. PICK c \in Buckets : p \in {c} \X DOMAIN flow_table[c]
      BY <2>1
    <3>2. PICK j \in DOMAIN flow_table[c] : p = <<c, j>>
      BY <3>1
    <3>3. flow_table[c][j] = n
      BY <2>1, <3>2
    <3> QED
      BY <1>2, <3>3 DEF ToSet, TableNodes
  <2>2. Cardinality(P) = 0
    <3> HIDE DEF P
    <3> QED
      BY <2>1, FS_EmptySet
  <2> QED
    BY <1>2, <2>2 DEF TablePlaces, One
<1> QED
  BY <1>1, <1>2

\* The places of a node, counted place by place.
LEMMA NodePlacesIs ==
  ASSUME Inv, Owned, NEW n
  PROVE  NodePlaces(n) = One(n \in FreeNodes) + One(n \in ActiveNodes) + One(n \in FlagNodes)
                           + One(n \in ExpiredNodes) + One(n \in TableNodes)
                           + One(n \in ExportNode) + One(n \in HalfNode)
<1>1. /\ Times(nodeFree, n) = One(n \in FreeNodes)
      /\ Times(active_flow_list, n) = One(n \in ActiveNodes)
      /\ Times(flags_expired_flow_list, n) = One(n \in FlagNodes)
      /\ Times(expired_flow_list, n) = One(n \in ExpiredNodes)
  BY TimesIs, OwnedTypes DEF Inv, Owned, NoRepeats, One, FreeNodes, ActiveNodes, FlagNodes,
                             ExpiredNodes
<1>2. /\ One(ExportHasNode /\ node = n) = One(n \in ExportNode)
      /\ One(HalfInserted /\ naux = n) = One(n \in HalfNode)
  BY DEF ExportNode, HalfNode, One
<1> QED
  BY <1>1, <1>2, TablePlacesIs DEF NodePlaces

\* The places of a session: the flows that lead to it are none or one.
LEMMA SessionPlacesIs ==
  ASSUME Inv, Owned, NEW s \in Sessions
  PROVE  SessionPlaces(s) = One(s \in FreeSessions) + One(\E n \in FlowNodes : data[n] = s)
                              + One(aux_session = s)
<1> DEFINE D == {n \in TableNodes \cup RetiredNodes : data[n] = s}
<1>1. Times(sessFree, s) = One(s \in FreeSessions)
  BY TimesIs, OwnedTypes DEF Inv, Owned, NoRepeats, One, FreeSessions
<1>2. Cardinality(D) = One(\E n \in FlowNodes : data[n] = s)
  <2>1. CASE \E n \in FlowNodes : data[n] = s
    <3>1. PICK n \in FlowNodes : data[n] = s
      BY <2>1
    <3>2. D = {n}
      BY <3>1 DEF Owned, SessionsApart, FlowNodes
    <3>3. Cardinality(D) = 1
      BY <3>2, FS_Singleton
    <3> QED
      BY <2>1, <3>3 DEF One
  <2>2. CASE ~ \E n \in FlowNodes : data[n] = s
    <3>1. D = {}
      BY <2>2 DEF FlowNodes
    <3>2. Cardinality(D) = 0
      BY <3>1, FS_EmptySet
    <3> QED
      BY <2>2, <3>2 DEF One
  <2> QED
    BY <2>1, <2>2
<1> QED
  BY <1>1, <1>2 DEF SessionPlaces

\* Ownership, together with the pools' books, is what PoolsSound says.
LEMMA OwnedPools == Inv /\ Owned => PoolsSound
<1> SUFFICES ASSUME Inv, Owned PROVE PoolsSound
  OBVIOUS
<1>1. NodeOwnedOnce
  <2> SUFFICES ASSUME NEW n \in Nodes PROVE NodePlaces(n) <= 1
    BY DEF NodeOwnedOnce
  <2>1. Apart(FreeNodes, ActiveNodes, FlagNodes, ExpiredNodes, TableNodes, ExportNode, HalfNode)
    BY DEF Owned, NodesApart
  <2> QED
    BY <2>1, NodePlacesIs DEF Apart, One
<1>2. SessionOwnedOnce
  <2> SUFFICES ASSUME NEW s \in Sessions PROVE SessionPlaces(s) <= 1
    BY DEF SessionOwnedOnce
  <2> DEFINE e == \E n \in FlowNodes : data[n] = s
  <2>1. SessionPlaces(s) = One(s \in FreeSessions) + One(e) + One(aux_session = s)
    BY SessionPlacesIs
  <2>2. /\ s \in FreeSessions => ~ e /\ aux_session # s
        /\ e => aux_session # s
    BY OwnedTypes DEF Inv, Owned, SessionsApart
  <2> HIDE DEF e
  <2> QED
    BY <2>1, <2>2 DEF One
<1>3. UsedListsNotEmpty
  <2>1. Live => sessUsed = NSessions - Len(sessFree) /\ nodeUsed = NNodes - Len(nodeFree)
    BY DEF Inv, PoolBudget, UsedSessions, UsedNodes
  <2>2. ASSUME NEW s \in Sessions \ FreeSessions, Live PROVE sessUsed > 0
    <3>1. sessFree \in Seq(Addr) /\ IsInjective(sessFree)
          /\ ToSet(sessFree) \subseteq (1 .. NSessions) \ {s}
      BY <2>2, OwnedTypes DEF Inv, Owned, NoRepeats, SessionsApart, FreeSessions, Sessions
    <3>2. 1 \in Int /\ NSessions \in Int /\ s \in 1 .. NSessions /\ Len(sessFree) \in Nat
      BY <3>1, PoolAssumption DEF Sessions
    <3>3. Len(sessFree) <= NSessions - 1
      BY ONLY <3>1, <3>2, ListShorter
    <3> QED
      BY <2>1, <2>2, <3>2, <3>3
  <2>3. ASSUME NEW n \in Nodes \ FreeNodes, Live PROVE nodeUsed > 0
    <3> DEFINE a == NSessions + 1
               b == NSessions + NNodes
    <3>1. nodeFree \in Seq(Addr) /\ IsInjective(nodeFree)
          /\ ToSet(nodeFree) \subseteq (a .. b) \ {n}
      BY <2>3, OwnedTypes DEF Inv, Owned, NoRepeats, NodesApart, PlacedNodes, FreeNodes, Nodes
    <3>2. a \in Int /\ b \in Int /\ n \in a .. b /\ Len(nodeFree) \in Nat /\ b - a = NNodes - 1
      BY <3>1, PoolAssumption DEF Nodes
    <3> HIDE DEF a, b
    <3>3. Len(nodeFree) <= b - a
      BY ONLY <3>1, <3>2, ListShorter
    <3>4. Len(nodeFree) <= NNodes - 1 /\ NNodes \in Nat
      BY <3>2, <3>3, PoolAssumption
    <3> QED
      BY <2>1, <2>3, <3>2, <3>4
  <2>4. /\ pc["export"] \in {"relS", "relN"} => Live
        /\ pc["process"] \in {"unget", "cleanup"} => Live
        /\ pc["main"] = "cleanup" => Live
    BY DEF Inv, JoinedFirst, Live
  <2>5. pc["export"] = "relS" => sessUsed > 0
    <3>1. pc["export"] = "relS" => data[node] \in Sessions \ FreeSessions
      BY DEF Owned, SessionsApart, FlowNodes, RetiredNodes, ExportHasSession
    <3> QED
      BY <2>2, <2>4, <3>1
  <2>6. pc["export"] = "relN" \/ pc["process"] = "unget" => nodeUsed > 0
    <3>1. /\ pc["export"] = "relN" => node \in Nodes \ FreeNodes
          /\ pc["process"] = "unget" => naux \in Nodes \ FreeNodes
      BY DEF Owned, NodesApart, PlacedNodes, Apart, ExportNode, HalfNode, ExportHasNode,
             HalfInserted
    <3> QED
      BY <2>3, <2>4, <3>1
  <2>7. ASSUME NEW t \in {"process", "main"}, pc[t] = "cleanup", active_flow_list # <<>>
        PROVE  nodeUsed > 0
    <3>1. Last(active_flow_list) \in ActiveNodes
      BY <2>7, ListLast, OwnedTypes DEF Inv, ActiveNodes
    <3>2. Last(active_flow_list) \in Nodes \ FreeNodes
      BY <3>1 DEF Owned, NodesApart, PlacedNodes, Apart
    <3> QED
      BY <2>3, <2>4, <2>7, <3>2
  <2> QED
    BY <2>5, <2>6, <2>7 DEF UsedListsNotEmpty
<1> QED
  BY <1>1, <1>2, <1>3 DEF PoolsSound

\* Ownership is also what FlowsSound says.
LEMMA OwnedFlows == Inv /\ Owned => FlowsSound
<1> SUFFICES ASSUME Inv, Owned PROVE FlowsSound
  OBVIOUS
<1>1. ASSUME NEW n \in ActiveNodes
      PROVE  /\ data[n] \in Nodes /\ data[data[n]] \in Sessions
             /\ sess[data[data[n]]].key \in Keys
             /\ data[n] \in ToSet(flow_table[Hash[sess[data[data[n]]].key]])
             /\ sess[data[data[n]]].active_node = n
  <2>1. data[n] \in TableNodes /\ sess[data[data[n]]].active_node = n
    BY <1>1 DEF Owned, FlowLinks, Flow
  <2>2. PICK b \in Buckets : data[n] \in ToSet(flow_table[b])
    BY <2>1 DEF TableNodes
  <2>3. sess[data[data[n]]].key \in Keys /\ Hash[sess[data[data[n]]].key] = b
    BY <2>2 DEF Owned, FlowLinks, Flow
  <2>4. data[n] \in Nodes /\ data[data[n]] \in Sessions
    BY <2>1 DEF Owned, NodesApart, PlacedNodes, SessionsApart, FlowNodes
  <2> QED
    BY <2>1, <2>2, <2>3, <2>4
<1>2. TableNodes = {data[n] : n \in ActiveNodes}
  <2>1. ASSUME NEW m \in TableNodes PROVE \E n \in ActiveNodes : m = data[n]
    <3>1. PICK b \in Buckets : m \in ToSet(flow_table[b])
      BY <2>1 DEF TableNodes
    <3> QED
      BY <3>1 DEF Owned, FlowLinks, Flow
  <2>2. \A n \in ActiveNodes : data[n] \in TableNodes
    BY DEF Owned, FlowLinks
  <2> QED
    BY <2>1, <2>2
<1>3. LinksAgree
  BY <1>1, <1>2 DEF LinksAgree, ActiveNodes
<1>4. FlowTimesOrdered
  BY DEF FlowTimesOrdered, OpenSessions, RetiredSessions, Owned, FlowTimes, Flow, FlowNodes
<1> QED
  BY <1>3, <1>4 DEF FlowsSound

\* No node_l and no IPSession is ever in two places, and every release finds its
\* wrapper: for pools of every size, every traffic and a clock that may go back.
THEOREM PoolsAreSound == Spec => []PoolsSound
  BY OwnedInvariant, OwnedPools, PTL

\* Every flow is whole: its bucket node, its active node and its session lead to
\* each other, and its times are in order, with every clock.
THEOREM FlowsAreSound == Spec => []FlowsSound
  BY OwnedInvariant, OwnedFlows, PTL

-----------------------------------------------------------------------------
(***************************************************************************)
(* The order of the shutdown: what is left in the two lists of expired     *)
(* flows when a thread has stopped.                                        *)
(***************************************************************************)
StopOrder ==
  /\ stop_et => pc["main"] \in {"joinE", "done"}
  /\ pc["export"] \in {"drainlock", "drain", "done"} => stop_et
  /\ pc["export"] \in {"print", "relS", "relN"} /\ sem_expired_list = "export" => stop_et
  /\ pc["export"] = "done" => expired_flow_list = <<>>

Tidy == NoFlagsOnEntry /\ StopOrder

\* The list of flagged flows is empty outside cleanup_flows, and the export thread
\* ends only after main has passed its cleanup and the expired list is empty.
LEMMA StepTidy == Inv /\ Tidy /\ [Next]_vars => Tidy'
<1> SUFFICES ASSUME Inv, Tidy, [Next]_vars PROVE Tidy'
  OBVIOUS
<1> USE OwnedTypes DEF Inv, JoinedFirst, Tidy, StopOrder, NoFlagsOnEntry, PCs, Goto
<1>1. CASE Arrival
  <2> PICK p \in Packets, t \in Clock :
        FirstPacket(p, t) \/ NewSecond(p, t) \/ SameSecond(p, t) \/ Rollback(p, t)
    BY <1>1 DEF Arrival
  <2> QED
    BY DEF FirstPacket, NewSecond, SameSecond, Rollback, Receive, AfterTimes, initData,
           initDataRest, lists
<1>2. CASE \E t \in {"process", "main"} : ExpireOldest(t) \/ StopExpiring(t)
  BY <1>2 DEF ExpireOldest, StopExpiring, lists
<1>3. CASE SpliceProcess \/ SpliceMain
  BY <1>3 DEF SpliceProcess, SpliceMain, Splice, HangBehind, AfterTimes
<1>4. CASE \/ NoSession \/ InsertFirstNode \/ InsertNoFirstNode \/ InsertFlowTable
           \/ InsertNoSecondNode \/ InsertGivesUp \/ PollTimeout
           \/ \E s \in Sessions : ParseOther(s) \/ ParseNew(s) \/ ParseUpdate(s)
  <2>1. /\ UNCHANGED <<stop_et, flags_expired_flow_list, expired_flow_list, sem_expired_list>>
        /\ pc["process"] \notin {"cleanup", "splice"}
        /\ pc'["main"] = pc["main"] /\ pc'["export"] = pc["export"]
    BY <1>4 DEF NoSession, InsertFirstNode, InsertNoFirstNode, InsertFlowTable,
                InsertNoSecondNode, InsertGivesUp, PollTimeout, ParseOther, ParseNew,
                ParseUpdate, Filling, lists
  <2> QED
    BY <2>1
<1>5. CASE ExportLoop \/ ExportLock \/ ExportCheck \/ ExportUnlock \/ ExportPrint
           \/ ExportReleaseSession \/ ExportReleaseNode \/ ExportEnd
  <2>1. /\ UNCHANGED <<stop_et, flags_expired_flow_list, expired_flow_list>>
        /\ pc'["main"] = pc["main"] /\ pc'["process"] = pc["process"]
    BY <1>5 DEF ExportLoop, ExportLock, ExportCheck, ExportUnlock, ExportPrint,
                ExportReleaseSession, ExportReleaseNode, ExportEnd, ExportRest, lists
  <2>2. pc'["export"] = "done" =>
          \/ pc["export"] = "drain" /\ expired_flow_list = <<>>
          \/ pc["export"] = "done"
    BY <1>5 DEF ExportLoop, ExportLock, ExportCheck, ExportUnlock, ExportPrint,
                ExportReleaseSession, ExportReleaseNode, ExportEnd
  <2>3. /\ pc'["export"] \in {"drainlock", "drain", "done"} => stop_et
        /\ pc'["export"] \in {"print", "relS", "relN"} /\ sem_expired_list' = "export" => stop_et
    BY <1>5 DEF ExportLoop, ExportLock, ExportCheck, ExportUnlock, ExportPrint,
                ExportReleaseSession, ExportReleaseNode, ExportEnd
  <2> QED
    BY <2>1, <2>2, <2>3
<1>6. CASE ExportPop
  BY <1>6 DEF ExportPop
<1>7. CASE Sigint \/ MainJoin \/ MainStop \/ MainFree
  BY <1>7 DEF Sigint, MainJoin, MainStop, MainFree, StopExport, ProcessJoined, MainRest, lists
<1>8. CASE UNCHANGED vars
  BY <1>8 DEF vars, lists
<1> QED
  BY <1>1, <1>2, <1>3, <1>4, <1>5, <1>6, <1>7, <1>8
     DEF Next, ProcessStep, ExportStep, MainStep, Terminated

-----------------------------------------------------------------------------
(***************************************************************************)
(* A clock that never goes back.                                           *)
(***************************************************************************)
\* initData runs once, on the first packet, and finds nothing: the second of the
\* last packet never goes below the one remembered.
FreshStart ==
  /\ previous = 0 => /\ pc["process"] \in {"poll", "done"} /\ aux_session = NULL
                     /\ TableNodes = {} /\ ActiveNodes = {}
  /\ pc["process"] # "done" => /\ last_packet_timestamp \in Clock \cup {0}
                               /\ previous <= last_packet_timestamp \div UsInSec

\* Every structure of the two pools has a place.
Covered == Live => Nodes \subseteq PlacedNodes /\ Sessions \subseteq PlacedSessions

\* Later seconds have later numbers, and no packet is stamped in second 0.
LEMMA SecondsGrow ==
  ASSUME NEW a \in Clock \cup {0}, NEW b \in Clock, a <= b
  PROVE  a \div UsInSec <= b \div UsInSec /\ b \div UsInSec \in Nat \ {0}
<1>1. /\ a \in Nat /\ b \in Nat /\ UsInSec \in Nat /\ UsInSec > 0 /\ UsInSec <= b
  BY TimeAssumption
<1> DEFINE p == a \div UsInSec
           q == b \div UsInSec
<1>2. /\ p \in Int /\ UsInSec * p <= a /\ a < UsInSec * p + UsInSec
      /\ q \in Int /\ UsInSec * q <= b /\ b < UsInSec * q + UsInSec
  BY ONLY <1>1, Z3
<1> HIDE DEF p, q
<1>3. p <= q
  <2> SUFFICES ASSUME q + 1 <= p PROVE FALSE
    BY <1>2
  <2>1. UsInSec * (q + 1) <= UsInSec * p
    BY ONLY <1>1, <1>2, q + 1 <= p, Z3
  <2>2. UsInSec * (q + 1) = UsInSec * q + UsInSec
    BY ONLY <1>1, <1>2, Z3
  <2> QED
    BY ONLY <1>1, <1>2, <2>1, <2>2, a <= b, Z3
<1>4. q >= 1
  <2> SUFFICES ASSUME q <= 0 PROVE FALSE
    BY <1>2
  <2>1. UsInSec * q <= 0
    BY ONLY <1>1, <1>2, q <= 0, Z3
  <2> QED
    BY ONLY <1>1, <1>2, <2>1, Z3
<1> QED
  BY <1>2, <1>3, <1>4 DEF p, q

\* A packet is never stamped before the one that came before it.
LEMMA NoRollback ==
  ASSUME Orderly, Inv, FreshStart, NEW p \in Packets, NEW t \in Clock, Receive(p, t)
  PROVE  /\ pc["process"] = "poll" /\ last_packet_timestamp \in Clock \cup {0}
         /\ last_packet_timestamp <= t /\ last_packet_timestamp' = t
         /\ previous <= t \div UsInSec /\ t \div UsInSec \in Nat \ {0}
<1>1. /\ pc["process"] = "poll" /\ last_packet_timestamp \in Clock \cup {0}
      /\ previous <= last_packet_timestamp \div UsInSec /\ previous \in Nat
      /\ t \in Step[last_packet_timestamp] /\ last_packet_timestamp' = t
  BY DEF Receive, FreshStart, Inv, TypeOK
<1>2. last_packet_timestamp <= t
  BY <1>1 DEF Orderly
<1>3. last_packet_timestamp \div UsInSec <= t \div UsInSec /\ t \div UsInSec \in Nat \ {0}
  BY <1>1, <1>2, SecondsGrow
<1>4. last_packet_timestamp \div UsInSec \in Int
  BY <1>1, TimeAssumption
<1> QED
  BY <1>1, <1>2, <1>3, <1>4

\* initData stays the first thing that happens.
LEMMA StepFresh ==
  ASSUME Orderly, Inv, Owned, FreshStart, [Next]_vars
  PROVE  FreshStart'
<1> USE OwnedTypes DEF Inv
<1>1. CASE Arrival
  <2> PICK p \in Packets, t \in Clock :
        FirstPacket(p, t) \/ NewSecond(p, t) \/ SameSecond(p, t) \/ Rollback(p, t)
    BY <1>1 DEF Arrival
  <2>1. Receive(p, t)
    BY DEF FirstPacket, NewSecond, SameSecond, Rollback
  <2>2. /\ last_packet_timestamp' = t /\ previous <= t \div UsInSec
        /\ t \div UsInSec \in Nat \ {0}
    BY <2>1, NoRollback
  <2>3. previous' \in {previous, t \div UsInSec} /\ previous' # 0
    BY <2>2 DEF FirstPacket, NewSecond, SameSecond, Rollback, initData, initDataRest, TypeOK
  <2> QED
    BY <2>2, <2>3 DEF FreshStart
<1>2. CASE SpliceProcess
  <2>0. last_packet_timestamp \in Clock
    BY <1>2 DEF SpliceProcess, Splice, Owned, Stamped
  <2>1. last_packet_timestamp \in Clock /\ last_packet_timestamp <= last_packet_timestamp
    BY ONLY <2>0, ClockType
  <2>2. last_packet_timestamp \div UsInSec \in Nat \ {0}
    BY <2>1, SecondsGrow
  <2>3. /\ last_packet_timestamp' = last_packet_timestamp
        /\ previous' = last_packet_timestamp \div UsInSec
    BY <1>2 DEF SpliceProcess, Splice
  <2> QED
    BY <2>1, <2>2, <2>3 DEF FreshStart
<1>3. CASE \/ NoSession \/ InsertFirstNode \/ InsertNoFirstNode \/ InsertFlowTable
           \/ InsertNoSecondNode \/ InsertGivesUp \/ PollTimeout
           \/ \E s \in Sessions : ParseOther(s) \/ ParseNew(s) \/ ParseUpdate(s)
           \/ \E t \in {"process"} : ExpireOldest(t) \/ StopExpiring(t)
  <2>1. UNCHANGED <<previous, last_packet_timestamp>> /\ pc["process"] # "done"
    BY <1>3 DEF NoSession, InsertFirstNode, InsertNoFirstNode, InsertFlowTable,
                InsertNoSecondNode, InsertGivesUp, PollTimeout, ParseOther, ParseNew,
                ParseUpdate, Filling, ExpireOldest, StopExpiring, times
  <2>2. CASE PollTimeout
    <3>1. /\ UNCHANGED <<aux_session, flow_table, active_flow_list>>
          /\ pc["process"] = "poll" /\ pc'["process"] \in {"poll", "done"}
      BY <2>2 DEF PollTimeout, lists, PCs
    <3>2. TableNodes' = TableNodes /\ ActiveNodes' = ActiveNodes
      BY <3>1 DEF TableNodes, ActiveNodes
    <3> QED
      BY <2>1, <3>1, <3>2 DEF FreshStart
  <2>3. CASE pc["process"] # "poll"
    BY <2>1, <2>3 DEF FreshStart
  <2> QED
    BY <1>3, <2>2, <2>3 DEF NoSession, InsertFirstNode, InsertNoFirstNode, InsertFlowTable,
                InsertNoSecondNode, InsertGivesUp, ParseOther, ParseNew,
                ParseUpdate, Filling, ExpireOldest, StopExpiring
<1>4. CASE ExportStep \/ Sigint \/ MainStop \/ StopExpiring("main") \/ SpliceMain
           \/ UNCHANGED vars
  <2>1. /\ UNCHANGED <<previous, last_packet_timestamp, aux_session, flow_table>>
        /\ UNCHANGED active_flow_list
        /\ pc'["process"] = pc["process"]
    BY <1>4 DEF ExportStep, ExportLoop, ExportLock, ExportCheck, ExportPop, ExportUnlock,
                ExportPrint, ExportReleaseSession, ExportReleaseNode, ExportEnd, ExportRest,
                Sigint, MainStop, StopExpiring, SpliceMain, Splice, MainRest, lists, times, work,
                vars, Goto, PCs
  <2>2. TableNodes' = TableNodes /\ ActiveNodes' = ActiveNodes
    BY <2>1 DEF TableNodes, ActiveNodes
  <2> QED
    BY <2>1, <2>2 DEF FreshStart
<1>5. CASE MainJoin \/ MainFree
  <2>1. /\ UNCHANGED <<previous, aux_session, active_flow_list>>
        /\ pc["process"] = "done" /\ pc'["process"] = "done"
    BY <1>5 DEF MainJoin, ProcessJoined, MainFree, MainRest, lists, work, JoinedFirst, Goto, PCs
  <2>2. flow_table' = flow_table \/ flow_table' = [b \in Buckets |-> <<>>]
    BY <1>5 DEF MainJoin, MainFree, lists
  <2>3. TableNodes' = TableNodes \/ TableNodes' = {}
    BY <2>2 DEF TableNodes, ToSet
  <2> QED
    BY <2>1, <2>3 DEF FreshStart, ActiveNodes
<1>6. CASE ExpireOldest("main")
  <2>1. Oldest # NULL /\ UNCHANGED previous /\ pc["process"] = "done" /\ pc'["process"] = "done"
    BY <1>6 DEF ExpireOldest, times, JoinedFirst
  <2>2. ActiveNodes # {}
    BY <2>1, ListLast DEF Oldest, list_get_last_node, ActiveNodes
  <2> QED
    BY <2>1, <2>2 DEF FreshStart
<1> QED
  BY <1>1, <1>2, <1>3, <1>4, <1>5, <1>6 DEF Next, ProcessStep, MainStep, Terminated

\* Nothing leaks: only initData and the end of the program drop structures, and
\* initData finds none to drop.
LEMMA StepCovered ==
  ASSUME Inv, Owned, FreshStart, Covered, [Next]_vars
  PROVE  Covered'
<1> SUFFICES ASSUME Live' PROVE Covered'
  BY DEF Covered
<1>1. Live
  BY StepJoined DEF Inv
<1>2. Kept => Covered'
  BY <1>1 DEF Kept, Covered
<1>3. CASE Arrival /\ previous = 0
  <2> USE OwnedTypes DEF Inv
  <2> PICK p \in Packets, t \in Clock : FirstPacket(p, t)
    BY <1>3 DEF Arrival, NewSecond, SameSecond, Rollback
  <2>1. /\ pc["process"] = "poll" /\ UNCHANGED <<nodeFree, sessFree, data, node>>
        /\ previous = 0 /\ pc'["export"] = pc["export"]
    BY DEF FirstPacket, Receive, AfterTimes, Goto, PCs, pools
  <2>2. /\ TableNodes = {} /\ ActiveNodes = {} /\ aux_session = NULL
    BY <2>1 DEF FreshStart
  <2>3. ~ ExportHasNode /\ ~ ExportHasSession /\ flags_expired_flow_list = <<>>
        /\ expired_flow_list = <<>> /\ ~ HalfInserted
    BY <2>1 DEF InitOrder, NothingExpired, ExportHasNode, ExportHasSession, HalfInserted
  <2>4. PlacedNodes = FreeNodes
    BY <2>2, <2>3 DEF PlacedNodes, FlagNodes, ExpiredNodes, ExportNode, HalfNode, ToSet
  <2>5. FlowNodes = {}
    BY <2>2, <2>3 DEF FlowNodes, RetiredNodes, ToSet
  <2>6. PlacedSessions \cap Sessions \subseteq FreeSessions
    BY <2>2, <2>5 DEF PlacedSessions
  <2>7. FreeNodes' = FreeNodes /\ FreeSessions' = FreeSessions
    BY <2>1 DEF FreeNodes, FreeSessions
  <2>8. Kept
    BY <2>4, <2>6, <2>7 DEF Kept, PlacedNodes, PlacedSessions
  <2> QED
    BY <1>2, <2>8
<1>4. CASE ~ (Arrival /\ previous = 0)
  <2>1. Kept
    BY <1>4, OwnedArrival, OwnedExpire, OwnedStop, OwnedSplice, OwnedFill, OwnedUpdate,
       OwnedFirstNode, OwnedInsert, OwnedGiveUp, OwnedPop, OwnedReleaseSession,
       OwnedReleaseNode, OwnedIdle, OwnedMain
       DEF Next, ProcessStep, ExportStep, MainStep, Terminated
  <2> QED
    BY <1>2, <2>1
<1> QED
  BY <1>3, <1>4

\* The active list is ordered by last packet, the latest first; two flows of one
\* key in a bucket are so far apart that the older one had expired when the newer
\* one began; and no flow of the process thread has a packet from the future.
ListOrder ==
  \A i, j \in 1 .. Len(active_flow_list) :
    i < j => Flow(data[active_flow_list[j]]).last <= Flow(data[active_flow_list[i]]).last

BucketOrder ==
  \A c \in Buckets : \A i, j \in 1 .. Len(flow_table[c]) :
    LET s == Flow(flow_table[c][i])
        r == Flow(flow_table[c][j])
    IN i < j /\ s.key = r.key => s.first > r.last + Expiration

NotAhead ==
  pc["process"] # "done" => \A m \in TableNodes : Flow(m).last <= last_packet_timestamp

\* What the process thread has found out and relies on: cleanup_flows has left no
\* expired flow, and insertFlow no flow that goes on.
Spared == pc["process"] = "splice" => \A n \in ActiveNodes : ~ Expired(data[data[n]])

NewFlowLater ==
  pc["process"] \in {"node1", "node2", "unget"} =>
    \A m \in TableNodes : Flow(m).key = pkt => last_packet_timestamp > Flow(m).last + Expiration

Ordered == ListOrder /\ BucketOrder /\ NotAhead /\ Spared /\ NewFlowLater

\* A step that leaves the flows in the table, and their order, alone.
SameFlows ==
  /\ UNCHANGED <<active_flow_list, flow_table>>
  /\ \A n \in ActiveNodes : data'[n] = data[n]
  /\ \A m \in TableNodes : data'[m] = data[m] /\ sess'[data[m]] = sess[data[m]]

\* Only cleanup_flows, the two ends of insertFlow, initData and the end of the
\* program touch the flows of the table.
LEMMA OthersKeepFlows ==
  ASSUME Inv, Owned,
         \/ \E p \in Packets, t \in Clock : NewSecond(p, t) \/ SameSecond(p, t) \/ Rollback(p, t)
         \/ StopExpiring("process") \/ StopExpiring("main") \/ SpliceProcess \/ SpliceMain
         \/ NoSession \/ InsertFirstNode \/ InsertNoFirstNode \/ InsertNoSecondNode
         \/ InsertGivesUp \/ PollTimeout \/ ExportStep \/ Sigint \/ MainJoin \/ MainStop
         \/ \E s \in Sessions : ParseOther(s) \/ ParseNew(s)
         \/ UNCHANGED vars
  PROVE  SameFlows
<1> USE OwnedTypes, PlacedTypes DEF Inv
<1>1. UNCHANGED <<active_flow_list, flow_table>>
  BY DEF NewSecond, SameSecond, Rollback, StopExpiring, SpliceProcess, SpliceMain, Splice,
         NoSession, InsertFirstNode, InsertNoFirstNode, InsertNoSecondNode, InsertGivesUp,
         PollTimeout, ExportStep, ExportLoop, ExportLock, ExportCheck, ExportPop, ExportUnlock,
         ExportPrint, ExportReleaseSession, ExportReleaseNode, ExportEnd, ExportRest, Sigint,
         MainJoin, MainStop, ParseOther, ParseNew, lists, vars
<1>2. CASE UNCHANGED <<data, sess>>
  BY <1>1, <1>2 DEF SameFlows
<1>3. CASE InsertFirstNode
  <2>1. Got(nodeFree) \in FreeNodes
    BY <1>3, GetOwned DEF InsertFirstNode
  <2>2. /\ UNCHANGED sess /\ \A x \in Addr : x \notin FreeNodes => data'[x] = data[x]
    BY <1>3, <2>1 DEF InsertFirstNode
  <2>3. \A x \in ActiveNodes \cup TableNodes : x \in Addr /\ x \notin FreeNodes
    BY DEF Owned, NodesApart, PlacedNodes, Apart
  <2> QED
    BY <1>1, <2>2, <2>3 DEF SameFlows
<1>4. ASSUME NEW s \in Sessions, ParseOther(s) \/ ParseNew(s) PROVE SameFlows
  <2>1. UNCHANGED data /\ \A a \in Addr : a # s => sess'[a] = sess[a]
    BY <1>4 DEF ParseOther, ParseNew
  <2>2. \A n \in FlowNodes : data[n] # s
    BY <1>4, FillingOwned DEF ParseOther, ParseNew
  <2>3. \A n \in TableNodes : n \in FlowNodes /\ data[n] \in Addr
    BY DEF FlowNodes, Owned, SessionsApart
  <2> QED
    BY <1>1, <2>1, <2>2, <2>3 DEF SameFlows
<1>5. CASE ExportReleaseSession
  <2>1. UNCHANGED data /\ \A a \in Addr : a # data[node] => sess'[a] = sess[a]
    BY <1>5 DEF ExportReleaseSession, releaseIPSession, ExportRest
  <2>2. ExportHasNode /\ ExportHasSession
    BY <1>5 DEF ExportReleaseSession, ExportHasNode, ExportHasSession
  <2>3. node \in FlowNodes /\ node \notin TableNodes
    BY <2>2 DEF FlowNodes, RetiredNodes, Owned, NodesApart, Apart, ExportNode
  <2>4. \A n \in TableNodes : data[n] # data[node] /\ data[n] \in Addr
    BY <2>3 DEF FlowNodes, Owned, SessionsApart
  <2> QED
    BY <1>1, <2>1, <2>4 DEF SameFlows
<1> QED
  <2>1. \/ UNCHANGED <<data, sess>> \/ InsertFirstNode \/ ExportReleaseSession
        \/ \E s \in Sessions : ParseOther(s) \/ ParseNew(s)
    BY DEF NewSecond, SameSecond, Rollback, StopExpiring, SpliceProcess, SpliceMain, Splice,
         NoSession, InsertNoFirstNode, InsertNoSecondNode, InsertGivesUp,
         PollTimeout, ExportStep, ExportLoop, ExportLock, ExportCheck, ExportPop, ExportUnlock,
         ExportPrint, ExportReleaseNode, ExportEnd, ExportRest, Sigint,
         MainJoin, MainStop, MainRest, vars
  <2> QED
    BY <1>2, <1>3, <1>4, <1>5, <2>1

\* The order of the lists stays when the flows do.
LEMMA OrderKept ==
  ASSUME Inv, Owned, SameFlows, ListOrder, BucketOrder
  PROVE  /\ ListOrder' /\ BucketOrder' /\ TableNodes' = TableNodes /\ ActiveNodes' = ActiveNodes
         /\ \A m \in TableNodes : Flow(m)' = Flow(m)
         /\ \A n \in ActiveNodes : /\ data'[data'[n]] = data[data[n]]
                                   /\ sess'[data[data[n]]] = sess[data[data[n]]]
<1> USE OwnedTypes DEF Inv
<1>1. TableNodes' = TableNodes /\ ActiveNodes' = ActiveNodes
  BY DEF SameFlows, TableNodes, ActiveNodes
<1>2. \A m \in TableNodes : Flow(m)' = Flow(m)
  BY DEF SameFlows, Flow
<1>3. \A n \in ActiveNodes : data[n] \in TableNodes /\ data'[n] = data[n]
  BY DEF Owned, FlowLinks, SameFlows
<1>4. ListOrder'
  <2>1. \A i \in 1 .. Len(active_flow_list) : active_flow_list[i] \in ActiveNodes
    BY DEF ActiveNodes, ToSet
  <2>2. \A i \in 1 .. Len(active_flow_list) :
          sess'[data'[data'[active_flow_list[i]]]] = sess[data[data[active_flow_list[i]]]]
    BY <1>2, <1>3, <2>1 DEF Flow
  <2> QED
    BY <2>2 DEF ListOrder, Flow, SameFlows
<1>5. BucketOrder'
  <2>1. \A c \in Buckets : \A i \in 1 .. Len(flow_table[c]) : flow_table[c][i] \in TableNodes
    BY DEF TableNodes, ToSet
  <2>2. \A c \in Buckets : \A i \in 1 .. Len(flow_table[c]) :
          sess'[data'[flow_table[c][i]]] = sess[data[flow_table[c][i]]]
    BY <1>2, <2>1 DEF Flow
  <2>3. ASSUME NEW c \in Buckets, NEW i \in 1 .. Len(flow_table[c]),
               NEW j \in 1 .. Len(flow_table[c]), i < j,
               sess'[data'[flow_table[c][i]]].key = sess'[data'[flow_table[c][j]]].key
        PROVE  sess'[data'[flow_table[c][i]]].first
                 > sess'[data'[flow_table[c][j]]].last + Expiration
    BY <2>2, <2>3 DEF BucketOrder, Flow
  <2>4. flow_table' = flow_table
    BY DEF SameFlows
  <2> QED
    BY <2>3, <2>4 DEF BucketOrder, Flow
<1>6. \A n \in ActiveNodes : /\ data'[data'[n]] = data[data[n]]
                            /\ sess'[data[data[n]]] = sess[data[data[n]]]
  BY <1>3 DEF SameFlows
<1> QED
  BY <1>1, <1>2, <1>4, <1>5, <1>6

\* Steps that leave the flows alone and tell the process thread nothing new.
LEMMA OrderedQuiet ==
  ASSUME Inv, Owned, Ordered, SameFlows,
         pc'["process"] \in {"splice", "node1", "node2", "unget"} =>
           /\ UNCHANGED <<last_packet_timestamp, pkt>>
           /\ pc'["process"] = "splice" <=> pc["process"] = "splice"
           /\ pc["process"] \in {"splice", "node1", "node2", "unget"},
         pc'["process"] # "done" =>
           pc["process"] # "done" /\ (\A m \in TableNodes : Flow(m).last <= last_packet_timestamp
                                        => Flow(m).last <= last_packet_timestamp')
  PROVE  Ordered'
<1>1. /\ ListOrder' /\ BucketOrder' /\ TableNodes' = TableNodes /\ ActiveNodes' = ActiveNodes
      /\ \A m \in TableNodes : Flow(m)' = Flow(m)
      /\ \A n \in ActiveNodes : /\ data'[data'[n]] = data[data[n]]
                                /\ sess'[data[data[n]]] = sess[data[data[n]]]
  BY OrderKept DEF Ordered
<1>2. NotAhead'
  BY <1>1 DEF Ordered, NotAhead
<1>3. Spared'
  BY <1>1 DEF Ordered, Spared, Expired
<1>4. NewFlowLater'
  BY <1>1 DEF Ordered, NewFlowLater
<1> QED
  BY <1>1, <1>2, <1>3, <1>4 DEF Ordered

\* With no flows in the table there is nothing to order.
NoFlows ==
  /\ active_flow_list = <<>> /\ flow_table = [b \in Buckets |-> <<>>]
  /\ pc["process"] # "splice"

LEMMA OrderedEmpty == NoFlows => Ordered
<1> SUFFICES ASSUME NoFlows PROVE Ordered
  OBVIOUS
<1> USE DEF NoFlows
<1>1. TableNodes = {} /\ ActiveNodes = {}
  BY DEF TableNodes, ActiveNodes, ToSet
<1>2. ListOrder /\ BucketOrder
  BY DEF ListOrder, BucketOrder
<1> QED
  BY <1>1, <1>2 DEF Ordered, NotAhead, Spared, NewFlowLater

\* process_packet up to parsePacket: the clock goes on.
LEMMA OrderedArrival ==
  ASSUME Orderly, Inv, Owned, FreshStart, Ordered, Arrival
  PROVE  Ordered'
<1> USE OwnedTypes DEF Inv
<1> PICK p \in Packets, t \in Clock :
      FirstPacket(p, t) \/ NewSecond(p, t) \/ SameSecond(p, t) \/ Rollback(p, t)
  BY DEF Arrival
<1>1. Receive(p, t) /\ pc'["process"] \in {"poll", "parse", "cleanup"}
  BY DEF FirstPacket, NewSecond, SameSecond, Rollback, AfterTimes, Goto, PCs
<1>2. /\ pc["process"] = "poll" /\ last_packet_timestamp \in Clock \cup {0}
      /\ last_packet_timestamp <= t /\ last_packet_timestamp' = t
  BY <1>1, NoRollback
<1>3. CASE FirstPacket(p, t)
  <2>1. NoFlows'
    BY <1>1, <1>3 DEF FirstPacket, initData, initDataRest, NoFlows
  <2> QED
    BY <2>1, OrderedEmpty, PTL
<1>4. CASE NewSecond(p, t) \/ SameSecond(p, t) \/ Rollback(p, t)
  <2>1. SameFlows
    BY <1>4, OthersKeepFlows
  <2>2. ASSUME NEW m \in TableNodes, Flow(m).last <= last_packet_timestamp
        PROVE  Flow(m).last <= last_packet_timestamp'
    <3>1. Flow(m).last \in Clock
      BY DEF Owned, FlowTimes, FlowNodes
    <3>2. Flow(m).last \in Nat /\ t \in Nat /\ last_packet_timestamp \in Nat
      <4>1. last_packet_timestamp \in Clock \/ last_packet_timestamp = 0
        BY <1>2
      <4>2. Flow(m).last \in Nat
        BY ONLY <3>1, ClockType
      <4>3. t \in Nat
        BY ONLY t \in Clock, ClockType
      <4>4. last_packet_timestamp \in Clock => last_packet_timestamp \in Nat
        BY ONLY ClockType
      <4> QED
        BY <4>1, <4>2, <4>3, <4>4
    <3> QED
      BY <1>2, <2>2, <3>2
  <2> QED
    BY <1>1, <1>2, <2>1, <2>2, OrderedQuiet
<1> QED
  BY <1>3, <1>4

\* A flow of the process thread has expired when its last packet is old.
LEMMA ExpiredIs ==
  ASSUME Inv, Owned, NotAhead, pc["process"] \notin {"poll", "done"}, NEW m \in TableNodes
  PROVE  /\ Expired(data[m]) <=> last_packet_timestamp > Flow(m).last + Expiration
         /\ Flow(m).last <= last_packet_timestamp
         /\ last_packet_timestamp \in Nat /\ Flow(m).last \in Nat /\ Expiration \in Nat
<1>1. last_packet_timestamp \in Clock /\ Flow(m).last \in Clock
      /\ Flow(m).last <= last_packet_timestamp
  BY DEF Owned, Stamped, FlowTimes, FlowNodes, NotAhead
<1>2. last_packet_timestamp \in Nat /\ Flow(m).last \in Nat /\ Expiration \in Nat
  BY <1>1, ClockType, TimeAssumption
<1>3. Age(last_packet_timestamp, Flow(m).last) = last_packet_timestamp - Flow(m).last
  BY <1>1, <1>2, AgeIs
<1> QED
  BY <1>1, <1>2, <1>3 DEF Expired, Flow

\* cleanup_flows stops at the end of the list, or at a flow that has not expired:
\* all before it are younger.
LEMMA OrderedStop ==
  ASSUME Inv, Owned, Ordered, StopExpiring("process")
  PROVE  Ordered'
<1> USE OwnedTypes DEF Inv
<1>1. SameFlows
  BY OthersKeepFlows
<1>2. /\ ListOrder' /\ BucketOrder' /\ TableNodes' = TableNodes /\ ActiveNodes' = ActiveNodes
      /\ \A m \in TableNodes : Flow(m)' = Flow(m)
      /\ \A n \in ActiveNodes : /\ data'[data'[n]] = data[data[n]]
                                /\ sess'[data[data[n]]] = sess[data[data[n]]]
  BY <1>1, OrderKept DEF Ordered
<1>3. /\ pc["process"] = "cleanup" /\ pc'["process"] = "splice"
      /\ UNCHANGED last_packet_timestamp
  BY DEF StopExpiring, Goto, PCs, times
<1>4. ASSUME NEW n \in ActiveNodes PROVE ~ Expired(data[data[n]])
  <2>1. PICK i \in 1 .. Len(active_flow_list) : active_flow_list[i] = n
    BY <1>4 DEF ActiveNodes, ToSet
  <2> DEFINE z == Len(active_flow_list)
             o == active_flow_list[z]
  <2>2. z \in 1 .. Len(active_flow_list) /\ i <= z /\ o = Oldest
    BY <2>1 DEF Oldest, list_get_last_node, Last
  <2>3. o \in ActiveNodes
    BY <2>2 DEF ActiveNodes, ToSet
  <2>4. data[o] \in TableNodes /\ data[n] \in TableNodes /\ o # NULL
    BY <1>4, <2>3 DEF Owned, FlowLinks, NodesApart, PlacedNodes
  <2>5. ~ Expired(data[data[o]])
    BY <2>2, <2>4 DEF StopExpiring, OldestSession, OldestInTable
  <2>6. NotAhead /\ pc["process"] \notin {"poll", "done"}
    BY <1>3 DEF Ordered
  <2>7. /\ Flow(data[o]).last \in Nat /\ Flow(data[n]).last \in Nat
        /\ last_packet_timestamp \in Nat /\ Expiration \in Nat
        /\ ~ (last_packet_timestamp > Flow(data[o]).last + Expiration)
        /\ Expired(data[data[n]]) <=> last_packet_timestamp > Flow(data[n]).last + Expiration
    BY <2>4, <2>5, <2>6, ExpiredIs
  <2>8. Flow(data[o]).last <= Flow(data[n]).last
    <3>1. CASE i < z
      BY <2>1, <2>2, <3>1 DEF Ordered, ListOrder
    <3>2. CASE i = z
      BY <2>1, <2>7, <3>2
    <3> QED
      BY <2>2, <3>1, <3>2
  <2> QED
    BY ONLY <2>7, <2>8
<1>5. Spared'
  BY <1>2, <1>3, <1>4 DEF Spared, Expired
<1>6. NotAhead' /\ NewFlowLater'
  BY <1>2, <1>3 DEF Ordered, NotAhead, NewFlowLater
<1> QED
  BY <1>2, <1>5, <1>6 DEF Ordered

\* A flow that leaves at the end of the active list leaves the others in order.
LEMMA OrderedExpire ==
  ASSUME Inv, Owned, Ordered, NEW t \in {"process", "main"}, ExpireOldest(t)
  PROVE  Ordered'
<1> USE OwnedTypes DEF Inv
<1> DEFINE o == Oldest
           m == OldestInTable
<1>1. /\ o \in ActiveNodes /\ m \in TableNodes /\ o \notin FlowNodes
      /\ ActiveNodes' = ActiveNodes \ {o} /\ TableNodes' = TableNodes \ {m}
      /\ UNCHANGED <<sess, pkt, pc, last_packet_timestamp>>
      /\ \A n \in Addr : n # o => data'[n] = data[n]
      /\ active_flow_list' = list_unlink(active_flow_list, o)
  BY ExpireEffect
<1>2. \A b \in Buckets : \/ /\ m \in ToSet(flow_table[b])
                            /\ flow_table'[b] = list_unlink(flow_table[b], m)
                         \/ m \notin ToSet(flow_table[b]) /\ flow_table'[b] = flow_table[b]
  BY ExpireEffect
<1> HIDE DEF o, m
<1>3. TableNodes \subseteq FlowNodes /\ TableNodes \subseteq Addr /\ ActiveNodes \subseteq Addr
  BY PlacedTypes DEF FlowNodes, Owned, NodesApart, PlacedNodes
<1>4. \A n \in TableNodes : data'[n] = data[n] /\ Flow(n)' = Flow(n)
  BY <1>1, <1>3 DEF Flow
<1>5. \A n \in ActiveNodes' : data'[n] = data[n] /\ data[n] \in TableNodes
  BY <1>1, <1>3 DEF Owned, FlowLinks
<1>6. ListOrder'
  <2> DEFINE l == active_flow_list
             u == active_flow_list'
  <2>1. IsInjective(l) /\ l \in Seq(Addr)
    BY <1>1 DEF Owned, NoRepeats, ActiveNodes
  <2>2. o \in ToSet(l) /\ u = list_unlink(l, o)
    BY <1>1 DEF ActiveNodes
  <2> SUFFICES ASSUME NEW i \in 1 .. Len(u), NEW j \in 1 .. Len(u), i < j
               PROVE  sess'[data'[data'[u[j]]]].last <= sess'[data'[data'[u[i]]]].last
    BY DEF ListOrder, Flow
  <2>3. u[i] \in ActiveNodes' /\ u[j] \in ActiveNodes'
    BY DEF ActiveNodes, ToSet
  <2>4. PICK p \in 1 .. Len(l), q \in 1 .. Len(l) : p < q /\ l[p] = u[i] /\ l[q] = u[j]
    <3>1. KeptOrder(l, u)
      BY ONLY <2>1, <2>2, UnlinkOrder
    <3> QED
      BY <3>1 DEF KeptOrder
  <2>5. Flow(data[u[j]]).last <= Flow(data[u[i]]).last
    BY <2>4 DEF Ordered, ListOrder
  <2>6. /\ sess'[data'[data'[u[i]]]] = Flow(data[u[i]])
        /\ sess'[data'[data'[u[j]]]] = Flow(data[u[j]])
    BY <1>4, <1>5, <2>3 DEF Flow
  <2> QED
    BY <2>5, <2>6
<1>7. BucketOrder'
  <2> SUFFICES ASSUME NEW b \in Buckets, NEW i \in 1 .. Len(flow_table'[b]),
                      NEW j \in 1 .. Len(flow_table'[b]), i < j,
                      sess'[data'[flow_table'[b][i]]].key = sess'[data'[flow_table'[b][j]]].key
               PROVE  sess'[data'[flow_table'[b][i]]].first
                        > sess'[data'[flow_table'[b][j]]].last + Expiration
    BY DEF BucketOrder, Flow
  <2> DEFINE l == flow_table[b]
             u == flow_table'[b]
  <2>1. IsInjective(l) /\ l \in Seq(Addr)
    BY DEF Owned, NoRepeats
  <2>2. \E p, q \in 1 .. Len(l) : p < q /\ l[p] = u[i] /\ l[q] = u[j]
    <3>1. CASE u = l
      BY <3>1
    <3>2. CASE m \in ToSet(l) /\ u = list_unlink(l, m)
      <4> HIDE DEF l, u
      <4>1. KeptOrder(l, u)
        BY ONLY <2>1, <3>2, UnlinkOrder
      <4> QED
        BY <4>1 DEF KeptOrder, u
    <3> QED
      BY <1>2, <3>1, <3>2
  <2>3. PICK p \in 1 .. Len(l), q \in 1 .. Len(l) : p < q /\ l[p] = u[i] /\ l[q] = u[j]
    BY <2>2
  <2>4. u[i] \in TableNodes /\ u[j] \in TableNodes
    BY <2>1, <2>3, SMTT(30) DEF TableNodes, ToSet
  <2>5. sess'[data'[u[i]]] = Flow(u[i]) /\ sess'[data'[u[j]]] = Flow(u[j])
    BY <1>4, <2>4 DEF Flow
  <2> QED
    BY <2>3, <2>5 DEF Ordered, BucketOrder
<1>8. NotAhead' /\ NewFlowLater'
  BY <1>1, <1>4 DEF Ordered, NotAhead, NewFlowLater
<1>9. Spared'
  BY <1>1 DEF ExpireOldest, JoinedFirst, Spared
<1> QED
  BY <1>6, <1>7, <1>8, <1>9 DEF Ordered

\* insertFlow decides for a new flow when the newest of the packet's key has
\* expired: so have all others of that key, whatever hangs behind it.
LEMMA OrderedNew ==
  ASSUME Inv, Owned, Ordered, NEW s \in Sessions, ParseNew(s)
  PROVE  Ordered'
<1> USE OwnedTypes DEF Inv
<1>1. SameFlows
  BY OthersKeepFlows
<1>2. /\ ListOrder' /\ BucketOrder' /\ TableNodes' = TableNodes /\ ActiveNodes' = ActiveNodes
      /\ \A m \in TableNodes : Flow(m)' = Flow(m)
  BY <1>1, OrderKept DEF Ordered
<1>3. /\ pc["process"] = "parse" /\ pc'["process"] = "node1" /\ pkt \in Keys
      /\ UNCHANGED <<last_packet_timestamp, pkt>>
      /\ Found(pkt) # NULL => Expired(data[Found(pkt)])
  BY DEF ParseNew, Filling, Goto, PCs, times
<1>4. ASSUME NEW m \in TableNodes, Flow(m).key = pkt
      PROVE  last_packet_timestamp > Flow(m).last + Expiration
  <2> DEFINE c == Hash[pkt]
             l == flow_table[c]
  <2>1. PICK b \in Buckets : m \in ToSet(flow_table[b])
    BY DEF TableNodes
  <2>2. b = c /\ c \in Buckets /\ l \in Seq(Addr)
    BY <1>3, <1>4, <2>1, HashAssumption DEF Owned, FlowLinks
  <2>3. PICK j \in 1 .. Len(l) : l[j] = m
    BY <2>1, <2>2 DEF ToSet
  <2>4. Found(pkt) # NULL
    <3>1. \A i \in 1 .. Len(l) : l[i] # NULL
      BY <2>2 DEF Owned, NodesApart, PlacedNodes, TableNodes, ToSet
    <3>2. m \in SameTuple(pkt)
      BY <1>4, <2>3, <2>2 DEF SameTuple, Flow
    <3> DEFINE M == SameTuple(pkt)
    <3>3. Found(pkt) = list_search(l, M, NULL)
      BY DEF Found
    <3> HIDE DEF l, M
    <3>4. list_search(l, M, NULL) # NULL
      BY ONLY <2>2, <2>3, <3>1, <3>2, ListSearch DEF M
    <3> QED
      BY <3>3, <3>4
  <2>5. PICK i \in 1 .. Len(l) :
          /\ Found(pkt) = l[i] /\ l[i] \in ToSet(l) /\ Flow(l[i]).key = pkt
          /\ \A x \in 1 .. Len(l) : x < i => Flow(l[x]).key # pkt
    BY <1>3, <2>4, FoundIs, ZenonT(30)
  <2>6. l[i] \in TableNodes
    BY <2>2, <2>5 DEF TableNodes
  <2>7. NotAhead /\ pc["process"] \notin {"poll", "done"}
    BY <1>3 DEF Ordered
  <2>8. /\ last_packet_timestamp > Flow(l[i]).last + Expiration
        /\ Flow(l[i]).last \in Nat /\ last_packet_timestamp \in Nat /\ Expiration \in Nat
    BY <1>3, <2>4, <2>5, <2>6, <2>7, ExpiredIs
  <2>9. CASE j = i
    BY <2>3, <2>8, <2>9
  <2>10. CASE j # i
    <3>1. i < j
      BY <1>4, <2>3, <2>5, <2>10
    <3>2. Flow(l[i]).first > Flow(m).last + Expiration
      BY <1>4, <2>2, <2>3, <2>5, <3>1 DEF Ordered, BucketOrder
    <3>3. Flow(l[i]).first <= Flow(l[i]).last
      BY <2>6 DEF Owned, FlowTimes, FlowNodes
    <3>4. Flow(l[i]).first \in Nat /\ Flow(m).last \in Nat
      <4>1. data[l[i]] \in Addr /\ data[m] \in Addr
        BY <2>6 DEF Owned, SessionsApart, FlowNodes
      <4> QED
        BY <4>1 DEF Flow, SessionRecs
    <3> QED
      BY ONLY <2>8, <3>2, <3>3, <3>4
  <2> QED
    BY <2>9, <2>10
<1>5. NewFlowLater'
  BY <1>2, <1>3, <1>4 DEF NewFlowLater
<1>6. NotAhead' /\ Spared'
  BY <1>2, <1>3 DEF Ordered, NotAhead, Spared
<1> QED
  BY <1>2, <1>5, <1>6 DEF Ordered

\* updateFlowTable: the flow with the latest packet goes to the head, and no newer
\* flow of its key is in the bucket.
LEMMA OrderedUpdate ==
  ASSUME Inv, Owned, Ordered, NEW s \in Sessions, ParseUpdate(s),
         NEW m, m = Found(pkt), NEW f, f = data[m], NEW a, a = sess[f].active_node
  PROVE  Ordered'
<1> USE OwnedTypes DEF Inv
<1> DEFINE now == last_packet_timestamp
<1>0. FlowUpdated(m, f, a)
  BY ONLY Inv, Owned, ParseUpdate(s), m = Found(pkt), f = data[m], a = sess[f].active_node,
          OwnedUpdate
<1>1. /\ m \in TableNodes /\ a \in ActiveNodes /\ data[a] = m
      /\ active_flow_list' = list_prepend_node(list_unlink(active_flow_list, a), a)
      /\ UNCHANGED <<data, flow_table, last_packet_timestamp>>
      /\ ActiveNodes' = ActiveNodes /\ TableNodes' = TableNodes
      /\ \A x \in Addr : x # f => sess'[x] = sess[x]
      /\ sess'[f] = [sess[f] EXCEPT !.npack = @ + 1, !.last = last_packet_timestamp]
  BY ONLY <1>0 DEF FlowUpdated
<1>2. /\ pc["process"] = "parse" /\ pc'["process"] = "poll" /\ pkt \in Keys /\ m # NULL
  BY DEF ParseUpdate, Filling, Goto, PCs
<1>3. PICK k \in 1 .. Len(flow_table[Hash[pkt]]) :
        /\ m = flow_table[Hash[pkt]][k] /\ Hash[pkt] \in Buckets /\ Flow(m).key = pkt
        /\ \A j \in 1 .. Len(flow_table[Hash[pkt]]) :
             j < k => Flow(flow_table[Hash[pkt]][j]).key # pkt
  BY <1>2, FoundIs
<1>4. TableNodes \subseteq FlowNodes /\ TableNodes \subseteq Addr /\ ActiveNodes \subseteq Addr
  BY PlacedTypes DEF FlowNodes, Owned, NodesApart, PlacedNodes
<1>5. /\ \A n \in TableNodes : data[n] \in Addr /\ sess[data[n]] \in SessionRecs
      /\ \A n \in TableNodes : n # m => data[n] # f
  BY <1>1, <1>4 DEF Owned, SessionsApart
<1>6. f = data[m]
  OBVIOUS
<1>7. /\ sess'[f].last = now /\ sess'[f].first = sess[f].first /\ sess'[f].key = sess[f].key
  BY <1>1, <1>5, <1>6 DEF SessionRecs
<1>8. \A n \in TableNodes : n # m => sess'[data'[n]] = sess[data[n]]
  BY <1>1, <1>5
<1>9. now \in Nat /\ \A n \in TableNodes : Flow(n).last \in Nat /\ Flow(n).last <= now
  <2>1. NotAhead /\ pc["process"] \notin {"poll", "done"}
    BY <1>2 DEF Ordered
  <2> QED
    BY <1>1, <2>1, ExpiredIs
<1>10. NotAhead'
  <2>1. ASSUME NEW n \in TableNodes PROVE sess'[data'[n]].last <= now
    <3>1. CASE n = m
      BY <1>1, <1>6, <1>7, <1>9, <3>1, now <= now
    <3>2. CASE n # m
      BY <1>8, <1>9, <3>2 DEF Flow
    <3> QED
      BY <3>1, <3>2
  <2> QED
    BY <1>1, <2>1 DEF NotAhead, Flow
<1>11. ListOrder'
  <2> DEFINE l == active_flow_list
             u == active_flow_list'
  <2>1. IsInjective(l) /\ a \in ToSet(l) /\ l \in Seq(Addr) /\ a \in Addr
    BY <1>1, <1>4 DEF Owned, NoRepeats, ActiveNodes
  <2>2. MovedFirst(l, u, a)
    BY ONLY <1>1, <2>1, MoveOrder
  <2> SUFFICES ASSUME NEW i \in 1 .. Len(u), NEW j \in 1 .. Len(u), i < j
               PROVE  sess'[data'[data'[u[j]]]].last <= sess'[data'[data'[u[i]]]].last
    BY DEF ListOrder, Flow
  <2>3. PICK q \in 1 .. Len(l) :
          /\ u[j] = l[q] /\ l[q] # a
          /\ \/ u[i] = a
             \/ \E p \in 1 .. Len(l) : p < q /\ u[i] = l[p] /\ l[p] # a
    BY <2>2 DEF MovedFirst
  <2>4. \A x \in ActiveNodes : x # a =>
          /\ data[x] \in TableNodes /\ data[x] # m
          /\ sess'[data'[data'[x]]] = sess[data[data[x]]]
          /\ sess[data[data[x]]].last <= now
    <3>1. ASSUME NEW x \in ActiveNodes, x # a
          PROVE  data[x] \in TableNodes /\ data[x] # m
      BY <1>1, <3>1 DEF Owned, FlowLinks, Flow
    <3> QED
      BY <1>1, <1>8, <1>9, <3>1 DEF Flow
  <2>5. \A x \in 1 .. Len(l) : l[x] \in ActiveNodes
    BY DEF ActiveNodes, ToSet
  <2>6. CASE u[i] = a
    <3>1. sess'[data'[data'[u[i]]]].last = now
      BY <1>1, <1>6, <1>7, <2>6
    <3> QED
      BY <2>3, <2>4, <2>5, <3>1
  <2>7. CASE \E p \in 1 .. Len(l) : p < q /\ u[i] = l[p] /\ l[p] # a
    <3>1. PICK p \in 1 .. Len(l) : p < q /\ u[i] = l[p] /\ l[p] # a
      BY <2>7
    <3>2. Flow(data[l[q]]).last <= Flow(data[l[p]]).last
      BY <3>1 DEF Ordered, ListOrder
    <3> QED
      BY <2>3, <2>4, <2>5, <3>1, <3>2 DEF Flow
  <2> QED
    BY <2>3, <2>6, <2>7
<1>12. BucketOrder'
  <2> SUFFICES ASSUME NEW b \in Buckets, NEW i \in 1 .. Len(flow_table[b]),
                      NEW j \in 1 .. Len(flow_table[b]), i < j,
                      sess'[data'[flow_table[b][i]]].key = sess'[data'[flow_table[b][j]]].key
               PROVE  sess'[data'[flow_table[b][i]]].first
                        > sess'[data'[flow_table[b][j]]].last + Expiration
    BY <1>1 DEF BucketOrder, Flow
  <2> DEFINE x == flow_table[b][i]
             y == flow_table[b][j]
  <2>1. x \in ToSet(flow_table[b]) /\ y \in ToSet(flow_table[b])
    BY DEF ToSet
  <2>2. x \in TableNodes /\ y \in TableNodes
    BY <2>1 DEF TableNodes
  <2>3. /\ sess'[data'[x]].key = Flow(x).key /\ sess'[data'[x]].first = Flow(x).first
        /\ sess'[data'[y]].key = Flow(y).key
    BY <1>1, <1>6, <1>7, <1>8, <2>2 DEF Flow
  <2>4. Flow(x).first > Flow(y).last + Expiration
    BY <2>3 DEF Ordered, BucketOrder
  <2>5. y # m
    <3> SUFFICES ASSUME y = m PROVE FALSE
      OBVIOUS
    <3>1. b = Hash[pkt]
      BY <1>3, <2>1 DEF Owned, FlowLinks
    <3>2. j = k
      BY <1>3, <3>1 DEF Owned, NoRepeats, IsInjective
    <3> QED
      BY <1>3, <2>3, <3>1, <3>2
  <2>6. sess'[data'[y]] = sess[data[y]]
    BY <1>8, <2>2, <2>5
  <2> HIDE DEF x, y
  <2>7. sess'[data'[x]].first > sess'[data'[y]].last + Expiration
    BY <2>3, <2>4, <2>6 DEF Flow
  <2> QED
    BY <2>7 DEF x, y
<1>13. Spared' /\ NewFlowLater'
  BY <1>2 DEF Spared, NewFlowLater
<1> QED
  BY <1>10, <1>11, <1>12, <1>13 DEF Ordered

\* insertFlow hangs the new flow before all others, whose packets are no later than
\* its own, and those of its key have expired.
LEMMA OrderedInsert ==
  ASSUME Inv, Owned, Ordered, InsertFlowTable,
         NEW n, n = Got(nodeFree), NEW m, m = naux, NEW s, s = aux_session, NEW c, c = Hash[pkt]
  PROVE  Ordered'
<1> USE OwnedTypes DEF Inv
<1> DEFINE now == last_packet_timestamp
<1>0. FlowInserted(n, m, s, c)
  BY ONLY Inv, Owned, InsertFlowTable, n = Got(nodeFree), m = naux, s = aux_session,
          c = Hash[pkt], OwnedInsert
<1>1. /\ pkt \in Keys /\ sess[s].key = pkt /\ sess[s].first = now /\ sess[s].last = now
      /\ n \in Addr /\ m \in Addr /\ n \notin ActiveNodes /\ m \notin FlowNodes /\ s \in Sessions
      /\ c \in Buckets
      /\ active_flow_list' = list_prepend_node(active_flow_list, n)
      /\ flow_table'[c] = list_prepend_node(flow_table[c], m)
      /\ ActiveNodes' = ActiveNodes \cup {n} /\ TableNodes' = TableNodes \cup {m}
      /\ UNCHANGED last_packet_timestamp
      /\ data'[n] = m /\ data'[m] = s
      /\ sess'[s] = [sess[s] EXCEPT !.active_node = n]
  BY ONLY <1>0 DEF FlowInserted
<1>2. /\ \A b \in Buckets : b # c => flow_table'[b] = flow_table[b]
      /\ \A x \in Addr : x # n => data'[x] = data[x]
      /\ \A x \in FlowNodes : data'[x] = data[x] /\ sess'[data[x]] = sess[data[x]]
  BY ONLY <1>0 DEF FlowInserted
<1>3. pc["process"] = "node2" /\ pc'["process"] = "poll"
  BY DEF InsertFlowTable, Goto, PCs
<1>4. TableNodes \subseteq FlowNodes /\ TableNodes \subseteq Addr /\ ActiveNodes \subseteq Addr
  BY PlacedTypes DEF FlowNodes, Owned, NodesApart, PlacedNodes
<1>5. \A x \in TableNodes : sess'[data'[x]] = Flow(x)
  BY <1>2, <1>4 DEF Flow
<1>6. sess'[data'[m]].key = pkt /\ sess'[data'[m]].first = now /\ sess'[data'[m]].last = now
  BY <1>1 DEF SessionRecs
<1>7. now \in Nat /\ \A x \in TableNodes : Flow(x).last \in Nat /\ Flow(x).last <= now
  <2>1. NotAhead /\ pc["process"] \notin {"poll", "done"}
    BY <1>3 DEF Ordered
  <2>2. now \in Nat
    BY <1>1 DEF SessionRecs
  <2> QED
    BY <2>1, <2>2, ExpiredIs
<1>8. NotAhead'
  <2>1. ASSUME NEW x \in TableNodes' PROVE sess'[data'[x]].last <= now
    <3>1. CASE x = m
      BY <1>6, <1>7, <3>1, now <= now
    <3>2. CASE x # m
      BY <1>1, <1>5, <1>7, <3>2
    <3> QED
      BY <3>1, <3>2
  <2> QED
    BY <1>1, <2>1 DEF NotAhead, Flow
<1>9. ListOrder'
  <2> DEFINE l == active_flow_list
             u == active_flow_list'
  <2>1. l \in Seq(Addr)
    OBVIOUS
  <2>2. LedBy(l, u, n)
    BY ONLY <1>1, <2>1, PrependOrder
  <2> SUFFICES ASSUME NEW i \in 1 .. Len(u), NEW j \in 1 .. Len(u), i < j
               PROVE  sess'[data'[data'[u[j]]]].last <= sess'[data'[data'[u[i]]]].last
    BY DEF ListOrder, Flow
  <2>3. PICK q \in 1 .. Len(l) :
          /\ u[j] = l[q]
          /\ u[i] = n \/ \E p \in 1 .. Len(l) : p < q /\ u[i] = l[p]
    BY <2>2 DEF LedBy
  <2>4. \A x \in 1 .. Len(l) : l[x] \in ActiveNodes
    BY DEF ActiveNodes, ToSet
  <2>5. \A x \in ActiveNodes : /\ data[x] \in TableNodes
                               /\ sess'[data'[data'[x]]] = Flow(data[x])
    <3>1. ASSUME NEW x \in ActiveNodes PROVE data'[x] = data[x] /\ data[x] \in TableNodes
      BY <1>1, <1>2, <1>4 DEF Owned, FlowLinks
    <3> QED
      BY <1>5, <3>1
  <2>6. CASE u[i] = n
    <3>1. sess'[data'[data'[u[i]]]].last = now
      BY <1>1, <1>6, <2>6
    <3> QED
      BY <1>7, <2>3, <2>4, <2>5, <3>1
  <2>7. CASE \E p \in 1 .. Len(l) : p < q /\ u[i] = l[p]
    <3>1. PICK p \in 1 .. Len(l) : p < q /\ u[i] = l[p]
      BY <2>7
    <3>2. Flow(data[l[q]]).last <= Flow(data[l[p]]).last
      BY <3>1 DEF Ordered, ListOrder
    <3> QED
      BY <2>3, <2>4, <2>5, <3>1, <3>2
  <2> QED
    BY <2>3, <2>6, <2>7
<1>10. BucketOrder'
  <2> SUFFICES ASSUME NEW b \in Buckets, NEW i \in 1 .. Len(flow_table'[b]),
                      NEW j \in 1 .. Len(flow_table'[b]), i < j,
                      sess'[data'[flow_table'[b][i]]].key = sess'[data'[flow_table'[b][j]]].key
               PROVE  sess'[data'[flow_table'[b][i]]].first
                        > sess'[data'[flow_table'[b][j]]].last + Expiration
    BY DEF BucketOrder, Flow
  <2>1. \A x \in 1 .. Len(flow_table[b]) : flow_table[b][x] \in TableNodes
    BY DEF TableNodes, ToSet
  <2>2. CASE b # c
    <3>1. flow_table'[b] = flow_table[b]
      BY <1>2, <2>2
    <3>2. /\ sess'[data'[flow_table[b][i]]] = Flow(flow_table[b][i])
          /\ sess'[data'[flow_table[b][j]]] = Flow(flow_table[b][j])
      BY <1>5, <2>1, <3>1
    <3>3. Flow(flow_table[b][i]).first > Flow(flow_table[b][j]).last + Expiration
      BY <3>1, <3>2 DEF Ordered, BucketOrder
    <3> QED
      BY <3>1, <3>2, <3>3
  <2>3. CASE b = c
    <3> DEFINE l == flow_table[c]
               u == flow_table'[c]
    <3>1. LedBy(l, u, m)
      <4>1. l \in Seq(Addr)
        BY <1>1
      <4> QED
        BY ONLY <1>1, <4>1, PrependOrder
    <3>2. PICK q \in 1 .. Len(l) :
            /\ u[j] = l[q]
            /\ u[i] = m \/ \E p \in 1 .. Len(l) : p < q /\ u[i] = l[p]
      <4>1. i \in 1 .. Len(u) /\ j \in 1 .. Len(u) /\ i < j
        BY <2>3
      <4> HIDE DEF l, u
      <4> QED
        BY ONLY <3>1, <4>1 DEF LedBy
    <3>3. l[q] \in TableNodes /\ sess'[data'[u[j]]] = Flow(l[q])
      BY <1>5, <2>1, <2>3, <3>2
    <3>4. CASE u[i] = m
      <4>1. Flow(l[q]).key = pkt
        BY <1>6, <2>3, <3>3, <3>4
      <4>2. now > Flow(l[q]).last + Expiration
        BY <1>3, <3>3, <4>1 DEF Ordered, NewFlowLater
      <4> QED
        BY <1>6, <2>3, <3>3, <3>4, <4>2
    <3>5. CASE \E p \in 1 .. Len(l) : p < q /\ u[i] = l[p]
      <4>1. PICK p \in 1 .. Len(l) : p < q /\ u[i] = l[p]
        BY <3>5
      <4>2. l[p] \in TableNodes /\ sess'[data'[u[i]]] = Flow(l[p])
        BY <1>5, <2>1, <2>3, <4>1
      <4>3. Flow(l[p]).first > Flow(l[q]).last + Expiration
        BY <1>1, <2>3, <3>3, <4>1, <4>2, ZenonT(30) DEF Ordered, BucketOrder
      <4> QED
        BY <2>3, <3>3, <4>2, <4>3
    <3> QED
      BY <3>2, <3>4, <3>5
  <2> QED
    BY <2>2, <2>3
<1>11. Spared' /\ NewFlowLater'
  BY <1>3 DEF Spared, NewFlowLater
<1> QED
  BY <1>8, <1>9, <1>10, <1>11 DEF Ordered

\* The other steps leave the flows alone.
LEMMA OrderedOther ==
  ASSUME Inv, Owned, Ordered,
         \/ StopExpiring("main") \/ SpliceProcess \/ SpliceMain
         \/ NoSession \/ InsertFirstNode \/ InsertNoFirstNode \/ InsertNoSecondNode
         \/ InsertGivesUp \/ PollTimeout \/ ExportStep \/ Sigint \/ MainJoin \/ MainStop
         \/ \E s \in Sessions : ParseOther(s)
         \/ UNCHANGED vars
  PROVE  Ordered'
<1> USE OwnedTypes DEF Inv
<1>1. SameFlows
  BY OthersKeepFlows
<1>2. \/ pc'["process"] \in {"poll", "parse"} /\ UNCHANGED last_packet_timestamp
         /\ pc["process"] # "done"
      \/ pc'["process"] = "done"
      \/ pc'["process"] = pc["process"] /\ UNCHANGED <<last_packet_timestamp, pkt>>
      \/ /\ pc["process"] \in {"node1", "node2"} /\ pc'["process"] \in {"node2", "unget"}
         /\ UNCHANGED <<last_packet_timestamp, pkt>>
  <2>1. CASE \/ SpliceProcess \/ NoSession \/ InsertNoFirstNode \/ InsertGivesUp \/ PollTimeout
             \/ \E s \in Sessions : ParseOther(s)
    BY <2>1 DEF SpliceProcess, Splice, AfterTimes, NoSession, InsertNoFirstNode, InsertGivesUp,
                PollTimeout, ParseOther, Filling, Goto, PCs, times
  <2>2. CASE InsertFirstNode \/ InsertNoSecondNode
    BY <2>2 DEF InsertFirstNode, InsertNoSecondNode, Goto, PCs, times, work
  <2>3. CASE ExportStep
    BY <2>3 DEF ExportStep, ExportLoop, ExportLock, ExportCheck, ExportPop, ExportUnlock,
                ExportPrint, ExportReleaseSession, ExportReleaseNode, ExportEnd, ExportRest,
                Goto, PCs, times, work
  <2>4. CASE \/ StopExpiring("main") \/ SpliceMain \/ Sigint \/ MainJoin \/ MainStop
             \/ UNCHANGED vars
    BY <2>4 DEF StopExpiring, SpliceMain, Splice, Sigint, MainJoin, ProcessJoined, MainStop,
                MainRest, vars, Goto, PCs, times, work, JoinedFirst
  <2> QED
    BY <2>1, <2>2, <2>3, <2>4
<1>3. \/ UNCHANGED last_packet_timestamp \/ pc'["process"] = "done"
  BY <1>2
<1> QED
  BY <1>1, <1>2, <1>3, OrderedQuiet

\* The flows stay in order as long as the clock never goes back.
LEMMA StepOrdered ==
  ASSUME Orderly, Inv, Owned, FreshStart, Ordered, [Next]_vars
  PROVE  Ordered'
<1>1. CASE MainFree
  <2>1. NoFlows'
    BY <1>1 DEF MainFree, Owned, Drained, Inv, JoinedFirst, NoFlows, Goto, PCs, MainRest, lists,
                TypeOK
  <2> QED
    BY <2>1, OrderedEmpty, PTL
<1>2. ASSUME NEW s \in Sessions, ParseUpdate(s) PROVE Ordered'
  BY <1>2, OrderedUpdate
<1>3. CASE InsertFlowTable
  BY <1>3, OrderedInsert
<1>4. CASE Arrival
  BY <1>4, OrderedArrival
<1>5. CASE \E t \in {"process", "main"} : ExpireOldest(t)
  BY <1>5, OrderedExpire
<1>6. CASE StopExpiring("process")
  BY <1>6, OrderedStop
<1>7. ASSUME NEW s \in Sessions, ParseNew(s) PROVE Ordered'
  BY <1>7, OrderedNew
<1>8. CASE \/ StopExpiring("main") \/ SpliceProcess \/ SpliceMain
           \/ NoSession \/ InsertFirstNode \/ InsertNoFirstNode \/ InsertNoSecondNode
           \/ InsertGivesUp \/ PollTimeout \/ ExportStep \/ Sigint \/ MainJoin \/ MainStop
           \/ \E s \in Sessions : ParseOther(s)
           \/ UNCHANGED vars
  BY <1>8, OrderedOther
<1> QED
  BY <1>1, <1>2, <1>3, <1>4, <1>5, <1>6, <1>7, <1>8
     DEF Next, ProcessStep, MainStep, Terminated

\* The program starts with both pools full and no flow.
LEMMA InitOrderly == Init => Tidy /\ FreshStart /\ Covered /\ Ordered
<1> SUFFICES ASSUME Init PROVE Tidy /\ FreshStart /\ Covered /\ Ordered
  OBVIOUS
<1>1. NoFlows
  BY DEF Init, NoFlows
<1>2. Ordered
  BY <1>1, OrderedEmpty
<1>3. Tidy
  BY DEF Init, Tidy, StopOrder, NoFlagsOnEntry
<1>4. TableNodes = {} /\ ActiveNodes = {}
  BY <1>1 DEF NoFlows, TableNodes, ActiveNodes, ToSet
<1>5. 0 <= 0 \div UsInSec
  BY TimeAssumption
<1>6. FreshStart
  BY <1>4, <1>5 DEF Init, FreshStart
<1>7. Covered
  <2>1. ASSUME NEW n \in Nodes PROVE n \in FreeNodes
    <3> DEFINE i == NSessions + NNodes + 1 - n
    <3>1. i \in 1 .. NNodes /\ NSessions + NNodes + 1 - i = n
      BY <2>1, PoolAssumption DEF Nodes
    <3> HIDE DEF i
    <3>2. i \in DOMAIN nodeFree /\ nodeFree[i] = n
      BY <3>1 DEF Init
    <3> QED
      BY <3>2 DEF FreeNodes, ToSet
  <2>2. ASSUME NEW s \in Sessions PROVE s \in FreeSessions
    <3> DEFINE i == NSessions + 1 - s
    <3>1. i \in 1 .. NSessions /\ NSessions + 1 - i = s
      BY <2>2, PoolAssumption DEF Sessions
    <3> HIDE DEF i
    <3>2. i \in DOMAIN sessFree /\ sessFree[i] = s
      BY <3>1 DEF Init
    <3> QED
      BY <3>2 DEF FreeSessions, ToSet
  <2> QED
    BY <2>1, <2>2 DEF Covered, PlacedNodes, PlacedSessions
<1> QED
  BY <1>2, <1>3, <1>6, <1>7

\* What holds at every moment when the clock never goes back.
LEMMA OrderlyInvariant ==
  ASSUME Orderly
  PROVE  Spec => [](Inv /\ Owned /\ Tidy /\ FreshStart /\ Covered /\ Ordered)
<1>1. Init => Tidy /\ FreshStart /\ Covered /\ Ordered
  BY InitOrderly
<1>2. Inv /\ Owned /\ Tidy /\ FreshStart /\ Covered /\ Ordered /\ [Next]_vars
        => Tidy' /\ FreshStart' /\ Covered' /\ Ordered'
  BY StepTidy, StepFresh, StepCovered, StepOrdered
<1> QED
  BY <1>1, <1>2, OwnedInvariant, PTL DEF Spec

-----------------------------------------------------------------------------
(***************************************************************************)
(* What an orderly clock means for the properties.                         *)
(***************************************************************************)
LEMMA CoveredPlaces == Inv /\ Owned /\ Covered => NothingLeaks
<1> SUFFICES ASSUME Inv, Owned, Covered, Live
             PROVE  /\ \A n \in Nodes : NodePlaces(n) = 1
                    /\ \A s \in Sessions : SessionPlaces(s) = 1
  BY DEF NothingLeaks
<1>1. ASSUME NEW n \in Nodes PROVE NodePlaces(n) = 1
  <2>1. Apart(FreeNodes, ActiveNodes, FlagNodes, ExpiredNodes, TableNodes, ExportNode, HalfNode)
    BY DEF Owned, NodesApart
  <2>2. n \in PlacedNodes
    BY DEF Covered
  <2> QED
    BY <2>1, <2>2, NodePlacesIs DEF Apart, One, PlacedNodes
<1>2. ASSUME NEW s \in Sessions PROVE SessionPlaces(s) = 1
  <2> DEFINE e == \E n \in FlowNodes : data[n] = s
  <2>1. SessionPlaces(s) = One(s \in FreeSessions) + One(e) + One(aux_session = s)
    BY SessionPlacesIs
  <2>2. /\ s \in FreeSessions => ~ e /\ aux_session # s
        /\ e => aux_session # s
    BY OwnedTypes DEF Inv, Owned, SessionsApart
  <2>3. s \in FreeSessions \/ e \/ aux_session = s
    BY DEF Covered, PlacedSessions
  <2> HIDE DEF e
  <2> QED
    BY <2>1, <2>2, <2>3 DEF One
<1> QED
  BY <1>1, <1>2

LEMMA OrderedCleanup == Inv /\ Owned /\ Tidy /\ Ordered => CleanupComplete
<1> SUFFICES ASSUME Inv, Owned, Tidy, Ordered PROVE CleanupComplete
  OBVIOUS
<1>1. pc["process"] = "splice" => \A n \in ToSet(active_flow_list) : ~ Expired(data[data[n]])
  BY DEF Ordered, Spared, ActiveNodes
<1>2. pc["main"] = "splice" => active_flow_list = <<>>
  BY DEF Owned, Drained
<1>3. \A n \in ToSet(<<>>) : ~ Expired(data[data[n]])
  BY DEF ToSet
<1> QED
  BY <1>1, <1>2, <1>3 DEF CleanupComplete, Tidy

LEMMA OrderedSplit == Inv /\ Owned /\ Ordered => SplitOnlyByExpiry
<1> SUFFICES ASSUME Inv, Owned, Ordered,
                    NEW m \in TableNodes, NEW n \in TableNodes, m # n,
                    sess[data[m]].key = sess[data[n]].key
             PROVE  \/ sess[data[n]].first > sess[data[m]].last + Expiration
                    \/ sess[data[m]].first > sess[data[n]].last + Expiration
  BY DEF SplitOnlyByExpiry
<1> USE OwnedTypes DEF Inv
<1>1. PICK b \in Buckets : m \in ToSet(flow_table[b])
  BY DEF TableNodes
<1>2. PICK c \in Buckets : n \in ToSet(flow_table[c])
  BY DEF TableNodes
<1>3. b = c
  BY <1>1, <1>2, SMTT(30) DEF Owned, FlowLinks, Flow
<1>4. PICK i \in 1 .. Len(flow_table[b]) : flow_table[b][i] = m
  BY <1>1 DEF ToSet
<1>5. PICK j \in 1 .. Len(flow_table[b]) : flow_table[b][j] = n
  BY <1>2, <1>3 DEF ToSet
<1>6. i < j \/ j < i
  BY <1>4, <1>5
<1>7. i < j => sess[data[m]].first > sess[data[n]].last + Expiration
  BY <1>4, <1>5 DEF Ordered, BucketOrder, Flow
<1>8. j < i => sess[data[n]].first > sess[data[m]].last + Expiration
  BY <1>4, <1>5 DEF Ordered, BucketOrder, Flow
<1> QED
  BY <1>6, <1>7, <1>8

\* With a clock that never goes back no node_l and no IPSession is ever lost: at
\* every moment each of them is in exactly one place, whatever getNodel and
\* getIPSession refuse and in whatever order the three threads run.
THEOREM OrderlyLeaksNothing ==
  ASSUME Orderly
  PROVE  Spec => []NothingLeaks
  BY OrderlyInvariant, CoveredPlaces, PTL

\* With such a clock cleanup_flows may stop at the first flow that has not expired:
\* it leaves none that has, and main's last call leaves no flow at all.
THEOREM OrderlyCleanupIsComplete ==
  ASSUME Orderly
  PROVE  Spec => []CleanupComplete
  BY OrderlyInvariant, OrderedCleanup, PTL

\* With such a clock insertFlow opens a second flow of a key only when the first
\* has expired: no conversation that goes on is split.
THEOREM OrderlySplitsOnlyByExpiry ==
  ASSUME Orderly
  PROVE  Spec => []SplitOnlyByExpiry
  BY OrderlyInvariant, OrderedSplit, PTL

-----------------------------------------------------------------------------
(***************************************************************************)
(* The monitor implements FlowLedger.                                      *)
(***************************************************************************)
\* A step the ledger does not see: the same flows, with the same counts.
BooksKept ==
  /\ OpenSessions' = OpenSessions /\ Unwritten' = Unwritten
  /\ \A s \in OpenSessions \cup Unwritten :
       sess'[s].key = sess[s].key /\ sess'[s].npack = sess[s].npack
  /\ UNCHANGED due /\ (pc'["main"] = "done" <=> pc["main"] = "done")

LEMMA BooksStutter ==
  ASSUME BooksKept
  PROVE  UNCHANGED Ledger!ledger
<1>1. Entries(OpenSessions)' = Entries(OpenSessions)
  BY DEF BooksKept, Entries
<1>2. Entries(Unwritten)' = Entries(Unwritten)
  BY DEF BooksKept, Entries
<1>3. UNCHANGED due /\ (pc["main"] = "done")' = (pc["main"] = "done")
  BY DEF BooksKept
<1> QED
  BY <1>1, <1>2, <1>3 DEF Ledger!ledger

\* Steps that change neither the nodes of flows nor what they lead to.
LEMMA BooksSame ==
  ASSUME TableNodes' = TableNodes, RetiredNodes' = RetiredNodes,
         \A n \in FlowNodes : data'[n] = data[n] /\ sess'[data[n]] = sess[data[n]],
         pc'["export"] = "relS" <=> pc["export"] = "relS",
         pc["export"] = "relS" => node' = node /\ node \in FlowNodes,
         UNCHANGED due, pc'["main"] = "done" <=> pc["main"] = "done"
  PROVE  BooksKept
<1>1. TableNodes \subseteq FlowNodes /\ RetiredNodes \subseteq FlowNodes
  BY DEF FlowNodes
<1>2. OpenSessions' = OpenSessions
  BY <1>1 DEF OpenSessions
<1>3. RetiredSessions' = RetiredSessions
  BY <1>1 DEF RetiredSessions
<1>4. Unwritten' = Unwritten
  BY <1>3 DEF Unwritten
<1>5. \A s \in OpenSessions \cup Unwritten : sess'[s] = sess[s]
  BY <1>1 DEF OpenSessions, Unwritten, RetiredSessions
<1> QED
  BY <1>2, <1>4, <1>5 DEF BooksKept

\* The node the export thread releases the session of led to a flow.
LEMMA ExportedFlow ==
  ASSUME Inv, Owned, pc["export"] \in {"print", "relS"}
  PROVE  /\ node \in RetiredNodes /\ node \in FlowNodes /\ node \notin TableNodes
         /\ node \notin FlagNodes /\ node \notin ExpiredNodes
         /\ data[node] \in RetiredSessions /\ data[node] \in Sessions
         /\ \A n \in FlowNodes : data[n] = data[node] => n = node
<1>1. ExportHasNode /\ ExportHasSession
  BY DEF ExportHasNode, ExportHasSession
<1>2. node \in RetiredNodes /\ node \in ExportNode
  BY <1>1 DEF RetiredNodes, ExportNode
<1> QED
  BY <1>2 DEF RetiredSessions, FlowNodes, Owned, NodesApart, Apart, SessionsApart

\* The steps the ledger does not see.
LEMMA StutterIdle ==
  ASSUME Inv, Owned,
         \/ \E p \in Packets, t \in Clock : NewSecond(p, t) \/ SameSecond(p, t) \/ Rollback(p, t)
         \/ StopExpiring("process") \/ StopExpiring("main")
         \/ NoSession \/ InsertNoFirstNode \/ InsertNoSecondNode \/ InsertGivesUp \/ PollTimeout
         \/ ExportLoop \/ ExportLock \/ ExportCheck \/ ExportUnlock \/ ExportReleaseNode
         \/ ExportEnd \/ Sigint \/ MainJoin \/ MainStop \/ UNCHANGED vars
  PROVE  BooksKept
<1> USE OwnedTypes DEF Inv
<1>1. /\ UNCHANGED <<sess, data, flow_table, flags_expired_flow_list, expired_flow_list, due>>
  BY DEF NewSecond, SameSecond, Rollback, StopExpiring, NoSession, InsertNoFirstNode,
         InsertNoSecondNode, InsertGivesUp, PollTimeout, ExportLoop, ExportLock, ExportCheck,
         ExportUnlock, ExportReleaseNode, ExportEnd, ExportRest, Sigint, MainJoin, MainStop,
         MainRest, lists, vars
<1>2. /\ ExportHasSession' = ExportHasSession /\ (ExportHasSession => node' = node)
      /\ pc'["export"] = "relS" <=> pc["export"] = "relS"
      /\ pc'["main"] = "done" <=> pc["main"] = "done"
  <2>1. CASE ExportLoop \/ ExportLock \/ ExportCheck \/ ExportUnlock \/ ExportReleaseNode
             \/ ExportEnd
    BY <2>1 DEF ExportLoop, ExportLock, ExportCheck, ExportUnlock, ExportReleaseNode, ExportEnd,
                ExportRest, ExportHasSession, Goto, PCs
  <2>2. CASE \/ \E p \in Packets, t \in Clock :
                  NewSecond(p, t) \/ SameSecond(p, t) \/ Rollback(p, t)
             \/ StopExpiring("process") \/ StopExpiring("main")
             \/ NoSession \/ InsertNoFirstNode \/ InsertNoSecondNode \/ InsertGivesUp
             \/ PollTimeout \/ Sigint \/ MainJoin \/ MainStop \/ UNCHANGED vars
    <3>1. UNCHANGED node /\ pc'["export"] = pc["export"]
          /\ (pc'["main"] = "done" <=> pc["main"] = "done")
      BY <2>2 DEF NewSecond, SameSecond, Rollback, AfterTimes, StopExpiring, NoSession,
                  InsertNoFirstNode, InsertNoSecondNode, InsertGivesUp, PollTimeout, Sigint,
                  MainJoin, MainStop, MainRest, vars, Goto, PCs
    <3> QED
      BY <3>1 DEF ExportHasSession
  <2> QED
    BY <2>1, <2>2
<1>3. TableNodes' = TableNodes /\ RetiredNodes' = RetiredNodes
  BY <1>1, <1>2 DEF TableNodes, RetiredNodes
<1>4. pc["export"] = "relS" => node' = node /\ node \in FlowNodes
  BY <1>2, ExportedFlow DEF ExportHasSession
<1> QED
  BY <1>1, <1>2, <1>3, <1>4, BooksSame

\* Nodes change hands and sessions are filled, all outside of flows.
LEMMA StutterBusy ==
  ASSUME Inv, Owned,
         \/ SpliceProcess \/ SpliceMain \/ ExportPop \/ InsertFirstNode
         \/ \E s \in Sessions : ParseOther(s) \/ ParseNew(s)
  PROVE  BooksKept
<1> USE OwnedTypes, PlacedTypes DEF Inv
<1>1. CASE SpliceProcess \/ SpliceMain
  <2>1. TableNodes' = TableNodes /\ RetiredNodes' = RetiredNodes
    BY <1>1, OwnedSplice
  <2>2. UNCHANGED <<sess, data, node, due>> /\ pc'["export"] = pc["export"]
        /\ (pc'["main"] = "done" <=> pc["main"] = "done")
    BY <1>1 DEF SpliceProcess, SpliceMain, Splice, AfterTimes, Goto, PCs
  <2> QED
    BY <2>1, <2>2, BooksSame, ExportedFlow
<1>2. CASE ExportPop
  <2>1. TableNodes' = TableNodes /\ RetiredNodes' = RetiredNodes
    BY <1>2, OwnedPop
  <2>2. /\ UNCHANGED <<sess, data, due>> /\ pc'["export"] # "relS" /\ pc["export"] # "relS"
        /\ pc'["main"] = pc["main"]
    BY <1>2 DEF ExportPop, Goto, PCs
  <2> QED
    BY <2>1, <2>2, BooksSame
<1>3. CASE InsertFirstNode
  <2>1. /\ Got(nodeFree) \in FreeNodes /\ data' = [data EXCEPT ![Got(nodeFree)] = aux_session]
        /\ UNCHANGED <<sess, node, due, flow_table, flags_expired_flow_list, expired_flow_list>>
        /\ pc'["export"] = pc["export"] /\ pc'["main"] = pc["main"]
    BY <1>3, GetOwned DEF InsertFirstNode, lists, Goto, PCs
  <2>2. TableNodes' = TableNodes /\ RetiredNodes' = RetiredNodes
    BY <2>1 DEF TableNodes, RetiredNodes, ExportHasSession
  <2>3. \A n \in FlowNodes : n \in Addr /\ n \notin FreeNodes
    BY DEF Owned, NodesApart, PlacedNodes, Apart, FlowNodes, RetiredNodes, FlagNodes,
           ExpiredNodes, ExportNode, ExportHasNode, ExportHasSession
  <2>4. \A n \in FlowNodes : data'[n] = data[n]
    BY <2>1, <2>3
  <2> QED
    BY <2>1, <2>2, <2>4, BooksSame, ExportedFlow
<1>4. ASSUME NEW s \in Sessions, ParseOther(s) \/ ParseNew(s) PROVE BooksKept
  <2>1. /\ UNCHANGED <<data, node, due, flow_table, flags_expired_flow_list, expired_flow_list>>
        /\ \A x \in Addr : x # s => sess'[x] = sess[x]
        /\ pc'["export"] = pc["export"] /\ pc'["main"] = pc["main"] /\ Filling(s)
    BY <1>4 DEF ParseOther, ParseNew, lists, Goto, PCs
  <2>2. TableNodes' = TableNodes /\ RetiredNodes' = RetiredNodes
    BY <2>1 DEF TableNodes, RetiredNodes, ExportHasSession
  <2>3. \A n \in FlowNodes : data[n] # s /\ data[n] \in Addr
    BY <2>1, FillingOwned DEF Owned, SessionsApart
  <2> QED
    BY <2>1, <2>2, <2>3, BooksSame, ExportedFlow
<1> QED
  BY <1>1, <1>2, <1>3, <1>4

\* What the export thread has written is out of the books before its session is
\* cleared and given back.
LEMMA StutterRelease ==
  ASSUME Inv, Owned, ExportReleaseSession
  PROVE  BooksKept
<1> USE OwnedTypes DEF Inv
<1>1. /\ pc["export"] = "relS" /\ pc'["export"] = "relN" /\ pc'["main"] = pc["main"]
      /\ UNCHANGED <<data, node, due, flow_table, flags_expired_flow_list, expired_flow_list>>
      /\ \A x \in Addr : x # data[node] => sess'[x] = sess[x]
  BY DEF ExportReleaseSession, releaseIPSession, ExportRest, lists, Goto, PCs
<1>2. /\ node \in RetiredNodes /\ node \in FlowNodes /\ node \notin TableNodes
      /\ node \notin FlagNodes /\ node \notin ExpiredNodes
      /\ \A n \in FlowNodes : data[n] = data[node] => n = node
  BY <1>1, ExportedFlow
<1>3. TableNodes' = TableNodes /\ RetiredNodes' = RetiredNodes \ {node}
  BY <1>1, <1>2 DEF TableNodes, RetiredNodes, ExportHasSession, FlagNodes, ExpiredNodes
<1>4. OpenSessions' = OpenSessions
  BY <1>1, <1>3 DEF OpenSessions
<1>5. Unwritten' = Unwritten
  <2>1. Unwritten' = {data[n] : n \in RetiredNodes \ {node}}
    BY <1>1, <1>3 DEF Unwritten, RetiredSessions
  <2>2. Unwritten = {data[n] : n \in RetiredNodes} \ {data[node]}
    BY <1>1 DEF Unwritten, RetiredSessions
  <2>3. \A n \in RetiredNodes : data[n] = data[node] => n = node
    BY <1>2 DEF FlowNodes
  <2> QED
    BY <2>1, <2>2, <2>3
<1>6. \A s \in OpenSessions \cup Unwritten : s \in Addr /\ s # data[node]
  <2>1. \A n \in FlowNodes : data[n] \in Addr
    BY DEF Owned, SessionsApart
  <2> QED
    BY <1>1, <1>2, <2>1 DEF OpenSessions, Unwritten, RetiredSessions, FlowNodes
<1> QED
  BY <1>1, <1>4, <1>5, <1>6 DEF BooksKept

\* initData finds no flow to forget.
LEMMA StutterFirst ==
  ASSUME Inv, Owned, FreshStart, NEW p \in Packets, NEW t \in Clock, FirstPacket(p, t)
  PROVE  BooksKept
<1> USE OwnedTypes DEF Inv
<1>1. /\ previous = 0 /\ pc["process"] = "poll" /\ pc'["export"] = pc["export"]
      /\ pc'["main"] = pc["main"] /\ UNCHANGED <<due, node>>
      /\ flow_table' = [b \in Buckets |-> <<>>]
      /\ flags_expired_flow_list' = <<>> /\ expired_flow_list' = <<>>
  BY DEF FirstPacket, Receive, AfterTimes, initData, initDataRest, Goto, PCs
<1>2. TableNodes = {} /\ ~ ExportHasNode /\ ~ ExportHasSession
      /\ flags_expired_flow_list = <<>> /\ expired_flow_list = <<>>
  BY <1>1 DEF FreshStart, InitOrder, NothingExpired, ExportHasNode, ExportHasSession
<1>3. TableNodes' = {} /\ RetiredNodes = {} /\ RetiredNodes' = {}
  BY <1>1, <1>2 DEF TableNodes, RetiredNodes, ExportHasSession, ToSet
<1>4. OpenSessions = {} /\ OpenSessions' = {} /\ Unwritten = {} /\ Unwritten' = {}
  BY <1>2, <1>3 DEF OpenSessions, Unwritten, RetiredSessions
<1> QED
  BY <1>1, <1>4 DEF BooksKept

\* insertFlowTable opens a flow.
LEMMA InsertOpens ==
  ASSUME Inv, Owned, InsertFlowTable
  PROVE  Ledger!Next
<1> USE OwnedTypes DEF Inv
<1>1. PICK n, m, s, c : n = Got(nodeFree) /\ m = naux /\ s = aux_session /\ c = Hash[pkt]
  OBVIOUS
<1>2. FlowInserted(n, m, s, c)
  BY ONLY <1>1, Inv, Owned, InsertFlowTable, OwnedInsert
<1>3. /\ pkt \in Keys /\ sess[s].key = pkt /\ sess[s].npack = 1 /\ s \in Sessions
      /\ \A x \in FlowNodes : data[x] # s
      /\ TableNodes' = TableNodes \cup {m} /\ RetiredNodes' = RetiredNodes /\ data'[m] = s
      /\ \A x \in FlowNodes : data'[x] = data[x] /\ sess'[data[x]] = sess[data[x]]
      /\ sess'[s] = [sess[s] EXCEPT !.active_node = n]
  BY ONLY <1>2 DEF FlowInserted
<1>4. /\ due' = [due EXCEPT ![pkt] = @ + 1] /\ pc'["export"] = pc["export"] /\ UNCHANGED node
      /\ pc'["main"] = pc["main"]
  BY DEF InsertFlowTable, Goto, PCs
<1>5. TableNodes \subseteq FlowNodes /\ RetiredNodes \subseteq FlowNodes
  BY DEF FlowNodes
<1>6. OpenSessions' = OpenSessions \cup {s}
  <2>1. \A x \in TableNodes : data'[x] = data[x]
    BY <1>3, <1>5
  <2>2. OpenSessions' = {data'[x] : x \in TableNodes \cup {m}}
    BY <1>3 DEF OpenSessions
  <2> QED
    BY ONLY <1>3, <2>1, <2>2 DEF OpenSessions
<1>7. RetiredSessions' = RetiredSessions
  <2>1. \A x \in RetiredNodes : data'[x] = data[x]
    BY <1>3, <1>5
  <2>2. RetiredSessions' = {data'[x] : x \in RetiredNodes}
    BY <1>3 DEF RetiredSessions
  <2> QED
    BY ONLY <2>1, <2>2 DEF RetiredSessions
<1>8. Unwritten' = Unwritten
  <2>1. pc["export"] = "relS" => data'[node'] = data[node]
    BY <1>3, <1>4, ExportedFlow
  <2> QED
    BY <1>4, <1>7, <2>1 DEF Unwritten
<1>9. \A x \in OpenSessions \cup Unwritten : x # s /\ sess'[x] = sess[x]
  BY <1>3, <1>5 DEF OpenSessions, Unwritten, RetiredSessions
<1>10. sess'[s].key = pkt /\ sess'[s].npack = 1
  BY <1>3 DEF SessionRecs
<1>11. Entries(Unwritten)' = Entries(Unwritten)
  BY <1>8, <1>9 DEF Entries
<1>12. Entries(OpenSessions)' = Ledger!With(Entries(OpenSessions), s, [key |-> pkt, npack |-> 1])
  BY <1>6, <1>9, <1>10 DEF Entries, Ledger!With
<1>13. s \notin Ledger!Held
  BY <1>9 DEF Ledger!Held, Entries
<1>14. (pc["main"] = "done")' = (pc["main"] = "done")
  BY <1>4
<1>15. Ledger!Open(s, pkt)
  BY <1>4, <1>11, <1>12, <1>13, <1>14 DEF Ledger!Open
<1>16. pc["main"] # "done"
  BY DEF InsertFlowTable, JoinedFirst
<1> QED
  BY <1>3, <1>15, <1>16 DEF Ledger!Next

\* updateFlowTable counts a packet of an open flow.
LEMMA UpdateCounts ==
  ASSUME Inv, Owned, NEW s \in Sessions, ParseUpdate(s)
  PROVE  Ledger!Next
<1> USE OwnedTypes DEF Inv
<1>1. PICK m, f, a : m = Found(pkt) /\ f = data[m] /\ a = sess[f].active_node
  OBVIOUS
<1>2. FlowUpdated(m, f, a)
  BY ONLY <1>1, Inv, Owned, ParseUpdate(s), s \in Sessions, OwnedUpdate
<1>3. /\ m \in TableNodes /\ UNCHANGED data /\ TableNodes' = TableNodes
      /\ RetiredNodes' = RetiredNodes
      /\ \A x \in Addr : x # f => sess'[x] = sess[x]
      /\ sess'[f] = [sess[f] EXCEPT !.npack = @ + 1, !.last = last_packet_timestamp]
  BY ONLY <1>2 DEF FlowUpdated
<1>4. /\ due' = [due EXCEPT ![pkt] = @ + 1] /\ pc'["export"] = pc["export"] /\ UNCHANGED node
      /\ pc'["main"] = pc["main"] /\ pkt \in Keys /\ m # NULL
  BY <1>1 DEF ParseUpdate, Goto, PCs
<1>5. sess[f].key = pkt
  BY <1>1, <1>4, FoundIs DEF Flow
<1>6. f \in Sessions /\ f \in OpenSessions /\ f \notin Unwritten
  <2>1. m \notin RetiredNodes
    BY <1>3 DEF Owned, NodesApart, Apart, RetiredNodes, FlagNodes, ExpiredNodes, ExportNode,
                ExportHasSession, ExportHasNode
  <2>2. m \in FlowNodes /\ RetiredNodes \subseteq FlowNodes
    BY <1>3 DEF FlowNodes
  <2>3. f \in Sessions /\ \A n \in RetiredNodes : data[n] # f
    BY <1>1, <2>1, <2>2 DEF Owned, SessionsApart
  <2> QED
    <3>1. f \in OpenSessions
      BY <1>1, <1>3 DEF OpenSessions
    <3>2. f \notin RetiredSessions
      BY <2>3 DEF RetiredSessions
    <3> QED
      BY <2>3, <3>1, <3>2 DEF Unwritten
<1>7. OpenSessions' = OpenSessions /\ Unwritten' = Unwritten
  BY <1>3, <1>4 DEF OpenSessions, Unwritten, RetiredSessions
<1>8. \A x \in OpenSessions \cup Unwritten : x \in Addr
  BY DEF Owned, SessionsApart, OpenSessions, Unwritten, RetiredSessions, FlowNodes
<1>9. \A x \in OpenSessions \cup Unwritten :
        /\ sess'[x].key = sess[x].key
        /\ sess'[x].npack = IF x = f THEN sess[x].npack + 1 ELSE sess[x].npack
  <2>1. sess[f] \in SessionRecs
    BY <1>6
  <2>2. sess'[f].key = sess[f].key /\ sess'[f].npack = sess[f].npack + 1
    BY ONLY <1>3, <2>1 DEF SessionRecs
  <2> QED
    BY <1>3, <1>8, <2>2
<1>10. Entries(Unwritten)' = Entries(Unwritten)
  BY <1>6, <1>7, <1>9 DEF Entries
<1>11. Entries(OpenSessions)' = [Entries(OpenSessions) EXCEPT ![f].npack = @ + 1]
  BY <1>6, <1>7, <1>9 DEF Entries
<1>12. f \in DOMAIN Entries(OpenSessions) /\ Entries(OpenSessions)[f].key = pkt
  BY <1>5, <1>6 DEF Entries
<1>13. (pc["main"] = "done")' = (pc["main"] = "done")
  BY <1>4
<1>14. Ledger!Count(f)
  BY <1>4, <1>10, <1>11, <1>12, <1>13 DEF Ledger!Count
<1>15. pc["main"] # "done"
  BY DEF ParseUpdate, Filling, JoinedFirst
<1> QED
  BY <1>6, <1>14, <1>15 DEF Ledger!Next

\* cleanup_flows retires an open flow as it is.
LEMMA ExpiryRetires ==
  ASSUME Inv, Owned, NEW t \in {"process", "main"}, ExpireOldest(t)
  PROVE  Ledger!Next
<1> USE OwnedTypes DEF Inv
<1>1. PICK o, m, s : o = Oldest /\ m = OldestInTable /\ s = OldestSession
  OBVIOUS
<1>2. /\ m = data[o] /\ s = data[m] /\ o \in ActiveNodes /\ m \in TableNodes
      /\ o \notin FlowNodes /\ m \notin RetiredNodes
      /\ TableNodes' = TableNodes \ {m} /\ RetiredNodes' = RetiredNodes \cup {o}
      /\ UNCHANGED <<sess, node, pc>> /\ data'[o] = s
      /\ \A n \in Addr : n # o => data'[n] = data[n]
  BY <1>1, ExpireEffect
<1>3. UNCHANGED due
  BY DEF ExpireOldest
<1>4. TableNodes \subseteq FlowNodes /\ RetiredNodes \subseteq FlowNodes
      /\ FlowNodes \subseteq Addr
  BY DEF FlowNodes, RetiredNodes, Owned, NodesApart, PlacedNodes, FlagNodes, ExpiredNodes,
         ExportNode, ExportHasNode, ExportHasSession
<1>5. \A n \in FlowNodes : data'[n] = data[n]
  BY <1>2, <1>4
<1>6. s \in Sessions /\ \A n \in FlowNodes : data[n] = s => n = m
  BY <1>2, <1>4 DEF Owned, SessionsApart
<1>7. OpenSessions' = OpenSessions \ {s} /\ s \in OpenSessions
  <2>1. OpenSessions' = {data'[n] : n \in TableNodes \ {m}}
    BY <1>2 DEF OpenSessions
  <2>2. \A n \in TableNodes : data'[n] = data[n] /\ (data[n] = s => n = m)
    BY <1>4, <1>5, <1>6
  <2> QED
    BY ONLY <1>2, <2>1, <2>2 DEF OpenSessions
<1>8. RetiredSessions' = RetiredSessions \cup {s} /\ s \notin RetiredSessions
  <2>1. RetiredSessions' = {data'[n] : n \in RetiredNodes \cup {o}}
    BY <1>2 DEF RetiredSessions
  <2>2. \A n \in RetiredNodes : data'[n] = data[n] /\ data[n] # s
    BY <1>2, <1>4, <1>5, <1>6
  <2> QED
    BY ONLY <1>2, <2>1, <2>2 DEF RetiredSessions
<1>9. Unwritten' = Unwritten \cup {s} /\ s \notin Unwritten
  <2>1. CASE pc["export"] = "relS"
    <3>1. node \in RetiredNodes /\ node \in FlowNodes
      BY <2>1, ExportedFlow
    <3>2. data'[node'] = data[node] /\ data[node] # s
      BY <1>2, <1>5, <1>6, <3>1
    <3> QED
      BY <1>2, <1>8, <2>1, <3>2 DEF Unwritten
  <2>2. CASE pc["export"] # "relS"
    BY <1>2, <1>8, <2>2 DEF Unwritten
  <2> QED
    BY <2>1, <2>2
<1>10. Entries(OpenSessions)' = Ledger!Without(Entries(OpenSessions), s)
  BY <1>2, <1>7 DEF Entries, Ledger!Without
<1>11. Entries(Unwritten)' = Ledger!With(Entries(Unwritten), s, Entries(OpenSessions)[s])
  BY <1>2, <1>7, <1>9 DEF Entries, Ledger!With
<1>12. s \in DOMAIN Entries(OpenSessions)
  BY <1>7 DEF Entries
<1>13. (pc["main"] = "done")' = (pc["main"] = "done")
  BY <1>2
<1>14. Ledger!Retire(s)
  BY <1>3, <1>10, <1>11, <1>12, <1>13 DEF Ledger!Retire
<1>15. pc["main"] # "done"
  BY DEF ExpireOldest, JoinedFirst
<1> QED
  BY <1>6, <1>14, <1>15 DEF Ledger!Next

\* export_data reports a retired flow, once.
LEMMA PrintReports ==
  ASSUME Inv, Owned, ExportPrint
  PROVE  Ledger!Next
<1> USE OwnedTypes DEF Inv
<1>1. PICK s : s = data[node]
  OBVIOUS
<1>2. /\ pc["export"] = "print" /\ pc'["export"] = "relS" /\ pc'["main"] = pc["main"]
      /\ UNCHANGED <<sess, data, node, flow_table, flags_expired_flow_list, expired_flow_list>>
      /\ due' = [k \in Keys |-> IF k = sess[s].key THEN due[k] - sess[s].npack ELSE due[k]]
  BY <1>1 DEF ExportPrint, ExportRest, lists, Goto, PCs
<1>3. s \in RetiredSessions /\ s \in Sessions
  BY <1>1, <1>2, ExportedFlow
<1>4. TableNodes' = TableNodes /\ RetiredNodes' = RetiredNodes
  BY <1>2 DEF TableNodes, RetiredNodes, ExportHasSession
<1>5. OpenSessions' = OpenSessions /\ RetiredSessions' = RetiredSessions
  BY <1>2, <1>4 DEF OpenSessions, RetiredSessions
<1>6. Unwritten' = Unwritten \ {s} /\ s \in Unwritten
  BY <1>1, <1>2, <1>3, <1>5 DEF Unwritten
<1>7. Entries(OpenSessions)' = Entries(OpenSessions)
  BY <1>2, <1>5 DEF Entries
<1>8. Entries(Unwritten)' = Ledger!Without(Entries(Unwritten), s)
  BY <1>2, <1>6 DEF Entries, Ledger!Without
<1>9. /\ s \in DOMAIN Entries(Unwritten)
      /\ Entries(Unwritten)[s].key = sess[s].key /\ Entries(Unwritten)[s].npack = sess[s].npack
  BY <1>6 DEF Entries
<1>10. due' = [due EXCEPT ![sess[s].key] = @ - sess[s].npack]
  <2>1. due \in [Keys -> Int]
    BY DEF TypeOK
  <2> QED
    BY ONLY <1>2, <2>1
<1>11. (pc["main"] = "done")' = (pc["main"] = "done")
  BY <1>2
<1>12. Ledger!Report(s)
  BY <1>7, <1>8, <1>9, <1>10, <1>11 DEF Ledger!Report
<1>13. pc["main"] # "done"
  BY <1>2 DEF JoinedFirst
<1> QED
  BY <1>3, <1>12, <1>13 DEF Ledger!Next

\* When main frees the pools every flow has been reported.
LEMMA FreeFinishes ==
  ASSUME Inv, Owned, Tidy, MainFree
  PROVE  Ledger!Next
<1> USE OwnedTypes DEF Inv
<1>1. /\ pc["main"] = "joinE" /\ pc'["main"] = "done" /\ pc["export"] = "done"
      /\ pc'["export"] = "done" /\ pc["process"] = "done" /\ UNCHANGED due
      /\ flow_table' = [b \in Buckets |-> <<>>]
      /\ UNCHANGED <<flags_expired_flow_list, expired_flow_list>>
  BY DEF MainFree, MainRest, Goto, PCs, JoinedFirst
<1>2. /\ active_flow_list = <<>> /\ flags_expired_flow_list = <<>> /\ expired_flow_list = <<>>
  BY <1>1 DEF Owned, Drained, Tidy, StopOrder, NoFlagsOnEntry
<1>3. TableNodes = {}
  <2>1. ActiveNodes = {}
    BY <1>2 DEF ActiveNodes, ToSet
  <2>2. ASSUME NEW m \in TableNodes PROVE FALSE
    <3>1. PICK b \in Buckets : m \in ToSet(flow_table[b])
      BY <2>2 DEF TableNodes
    <3> QED
      BY <2>1, <3>1 DEF Owned, FlowLinks
  <2> QED
    BY <2>2
<1>4. TableNodes' = {} /\ RetiredNodes = {} /\ RetiredNodes' = {}
  BY <1>1, <1>2 DEF TableNodes, RetiredNodes, ExportHasSession, ToSet
<1>5. OpenSessions = {} /\ OpenSessions' = {} /\ Unwritten = {} /\ Unwritten' = {}
  BY <1>1, <1>3, <1>4 DEF OpenSessions, Unwritten, RetiredSessions
<1>6. /\ Entries(OpenSessions)' = Entries(OpenSessions)
      /\ Entries(Unwritten)' = Entries(Unwritten)
  BY <1>5 DEF Entries
<1>7. Ledger!Held = {}
  BY <1>5 DEF Ledger!Held, Entries
<1>8. (pc["main"] = "done")' = TRUE
  BY <1>1
<1>9. Ledger!Finish
  BY <1>1, <1>6, <1>7, <1>8 DEF Ledger!Finish
<1> QED
  BY <1>1, <1>9 DEF Ledger!Next

LEMMA InitLedger == Init => Ledger!Init
<1> SUFFICES ASSUME Init PROVE Ledger!Init
  OBVIOUS
<1>1. TableNodes = {} /\ RetiredNodes = {}
  BY DEF Init, TableNodes, RetiredNodes, ExportHasSession, ToSet
<1>2. OpenSessions = {} /\ Unwritten = {}
  BY <1>1 DEF Init, OpenSessions, Unwritten, RetiredSessions
<1>3. Entries(OpenSessions) = [i \in {} |-> 0] /\ Entries(Unwritten) = [i \in {} |-> 0]
  BY <1>2 DEF Entries
<1>4. (pc["main"] = "done") = FALSE
  BY DEF Init
<1> QED
  BY <1>3, <1>4 DEF Init, Ledger!Init

\* Every step of the monitor is a step of the ledger, or one it does not see.
LEMMA StepLedger ==
  ASSUME Inv, Owned, Tidy, FreshStart, [Next]_vars
  PROVE  [Ledger!Next]_Ledger!ledger
<1>1. BooksKept \/ Ledger!Next
  BY StutterIdle, StutterBusy, StutterRelease, StutterFirst, InsertOpens, UpdateCounts,
     ExpiryRetires, PrintReports, FreeFinishes
     DEF Next, Arrival, ProcessStep, ExportStep, MainStep, Terminated
<1> QED
  BY <1>1, BooksStutter

\* The monitor keeps the books FlowLedger describes, with a clock that never goes
\* back: a flow is opened once, counts every further packet of its key, is retired
\* unchanged and written out exactly once, and the program does not end with a flow
\* unwritten; for pools of every size and every interleaving of the threads.
THEOREM MonitorKeepsLedger ==
  ASSUME Orderly
  PROVE  Spec => LedgerSpec
<1>1. Init => Ledger!Init
  BY InitLedger
<1>2. Inv /\ Owned /\ Tidy /\ FreshStart /\ [Next]_vars => [Ledger!Next]_Ledger!ledger
  BY StepLedger
<1> QED
  BY <1>1, <1>2, OrderlyInvariant, PTL DEF Spec, LedgerSpec, Ledger!Spec
-----------------------------------------------------------------------------
(***************************************************************************)
(* What is proved of the ledger holds of the monitor.                      *)
(***************************************************************************)
\* Sums in the instance of the ledger are the sums of this module.
LEMMA SumsOfLedger ==
  ASSUME NEW f, NEW T
  PROVE  Ledger!SumFunctionOnSet(f, T) = SumFunctionOnSet(f, T)
  BY DEF Ledger!SumFunctionOnSet, Ledger!FoldFunctionOnSet, Ledger!MapThenFoldSet,
         SumFunctionOnSet, FoldFunctionOnSet, MapThenFoldSet

LEMMA FiniteInLedger ==
  ASSUME NEW T, IsFiniteSet(T)
  PROVE  Ledger!IsFiniteSet(T)
  BY DEF Ledger!IsFiniteSet, IsFiniteSet

\* The books of the ledger are the sums over the sessions of the flows held.
LEMMA BalancedIs ==
  ASSUME Inv, Owned, Ledger!Balanced
  PROVE  NoPacketLost
<1> USE OwnedTypes DEF Inv
<1>1. Ledger!Held = OpenSessions \cup Unwritten
  BY DEF Ledger!Held, Entries
<1>2. \A s \in OpenSessions \cup Unwritten :
        /\ Ledger!Entry(s).key = sess[s].key /\ Ledger!Entry(s).npack = sess[s].npack
        /\ s \in Sessions
  <2>1. \A s \in OpenSessions \cup Unwritten : s \in Sessions
    BY DEF Owned, SessionsApart, OpenSessions, Unwritten, RetiredSessions, FlowNodes
  <2> QED
    BY <2>1 DEF Ledger!Entry, Entries
<1>3. ASSUME NEW k \in Keys
      PROVE  due[k] = SumFunctionOnSet([s \in Addr |-> sess[s].npack],
                        {s \in OpenSessions \cup Unwritten : sess[s].key = k})
  <2>1. PICK f, g, T : /\ f = [s \in Addr |-> sess[s].npack]
                       /\ g = [i \in Ledger!Held |-> Ledger!Entry(i).npack]
                       /\ T = {s \in OpenSessions \cup Unwritten : sess[s].key = k}
    OBVIOUS
  <2>2. T = {i \in Ledger!Held : Ledger!Entry(i).key = k}
    BY <1>1, <1>2, <2>1
  <2>3. IsFiniteSet(T)
    <3>1. T \subseteq Sessions /\ IsFiniteSet(Sessions)
      BY <1>2, <2>1, FS_Interval, PoolAssumption DEF Sessions
    <3> QED
      BY ONLY <3>1, FS_Subset
  <2>4. \A s \in T : f[s] = g[s]
    BY <1>1, <1>2, <2>1 DEF Sessions, Addr
  <2>5. SumFunctionOnSet(f, T) = SumFunctionOnSet(g, T)
    <3>1. Ledger!SumFunctionOnSet(f, T) = Ledger!SumFunctionOnSet(g, T)
      BY ONLY <2>3, <2>4, FiniteInLedger, Ledger!SumAgree
    <3> QED
      BY ONLY <3>1, SumsOfLedger
  <2>6. due[k] = SumFunctionOnSet(g, T)
    <3>1. due[k] = Ledger!SumFunctionOnSet(g, T)
      BY <2>1, <2>2 DEF Ledger!Balanced, Ledger!Outstanding
    <3> QED
      BY ONLY <3>1, SumsOfLedger
  <2> QED
    BY <2>1, <2>5, <2>6
<1>4. ~ Live => \A k \in Keys : due[k] = 0
  BY DEF Live, Ledger!Balanced
<1> QED
  BY <1>3, <1>4 DEF NoPacketLost

\* Every packet the monitor has counted is in a flow it holds or has been written,
\* key by key, at every moment and in every interleaving, and when the program ends
\* every packet has been written: export_data, the splice of cleanup_flows and the
\* drain at shutdown neither skip nor repeat a flow.  With a clock that is not set
\* back; a rollback may make initData forget flows.
THEOREM OrderlyLosesNoPacket ==
  ASSUME Orderly
  PROVE  Spec => []NoPacketLost
<1>1. LedgerSpec => []Ledger!Balanced
  BY Ledger!BooksBalance DEF LedgerSpec
<1> QED
  BY <1>1, MonitorKeepsLedger, OrderlyInvariant, BalancedIs, PTL
=============================================================================

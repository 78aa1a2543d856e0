---------------------------- MODULE FlowMonitor ----------------------------
(***************************************************************************)
(* The flow monitor (flujos/src): the process thread turns packets into    *)
(* flows, the export thread writes expired flows out and gives their       *)
(* memory back, and the main thread drains everything on SIGINT.           *)
(*                                                                         *)
(* One step is what a thread does between two accesses to state another    *)
(* thread can see: a section under sem_pool_session or sem_pool_node is    *)
(* part of one step (nothing else is locked inside it), while              *)
(* sem_expired_list, which the export thread holds across pool sections    *)
(* when it drains, is a variable.  flow_table, active_flow_list and        *)
(* flags_expired_flow_list belong to the thread running process_packet or, *)
(* after the join, to main.                                                *)
(*                                                                         *)
(* Operators named Bug... are mutants of the definition that follows them: *)
(* slips the code could contain, each of which breaks a property.          *)
(***************************************************************************)
EXTENDS Integers, FiniteSets, NodeList

CONSTANTS
  NSessions,    \* IPSession structures in the pool (MAX_POOL_NODE/2 in pool.c)
  NNodes,       \* node_l structures in the pool (MAX_POOL_NODE in list.c)
  Other,        \* a frame that reaches no insertFlow: not IP, or malformed
  Short,        \* a frame shorter than ETH_HLEN, which only brings its timestamp
  Keys,         \* the 5-tuples + VLAN that compareTupleFlow tells apart
  Buckets,      \* the entries of flow_table
  Hash,         \* getIndex, as a function from Keys to Buckets
  UsInSec,      \* timestamp ticks per second (US_IN_SEC)
  Expiration,   \* EXPIRATION_FLOW_TIME, in ticks
  Word,         \* 2^64, the modulus of the timestamps' arithmetic
  Clock,        \* the ticks at which a packet may be stamped
  Step,         \* Step[now]: the stamps the clock may show after now
  NTimeouts,    \* idle polls after which rx_and_process returns
  MaxPackets    \* bound: packets delivered in a behaviour

Sessions == 1 .. NSessions
Nodes == NSessions + 1 .. NSessions + NNodes
NULL == 0

\* Memory is flat: any address may be read as a session or as a node.  That only
\* addresses of the right kind are is what LinksAgree is about.
Addr == 0 .. NSessions + NNodes

Infinity == Word - 1       \* what gcc makes of (uint64_t) INFINITY

Packets == Keys \cup {Other, Short}

ASSUME PoolAssumption == NSessions \in Nat \ {0} /\ NNodes \in Nat \ {0}
ASSUME HashAssumption == Hash \in [Keys -> Buckets]
ASSUME PacketAssumption == Other \notin Keys /\ Short \notin Keys /\ Other # Short
ASSUME TimeAssumption ==
  /\ UsInSec \in Nat \ {0} /\ Expiration \in Nat /\ Word \in Nat \ {0}
  /\ Clock \subseteq UsInSec .. Word - Expiration - 2
  /\ Step \in [Clock \cup {0, Infinity} -> SUBSET Clock]
ASSUME BoundAssumption == NTimeouts \in Nat \ {0} /\ MaxPackets \in Nat

\* A clock that never goes back.  CLOCK_REALTIME, which stamps the packets, may be set
\* back: what holds only for an orderly clock says so.
Orderly == \A now \in Clock \cup {0} : \A t \in Step[now] : now <= t

VARIABLES
  sessFree, sessUsed,   \* ip_session_pool_free (its sessions), length of ..._used
  nodeFree, nodeUsed,   \* nodel_pool_free (its nodes), length of ..._used
  sess,                 \* sess[s]: the IPSession at address s
  data,                 \* data[n]: the data pointer of the node_l at address n
  flow_table, active_flow_list, flags_expired_flow_list, expired_flow_list,
  sem_expired_list,     \* the thread that holds it, or "none"
  last_packet_timestamp, previous, previous2,
  aux_session, naux,    \* the session to fill next; insertFlowTable's first node
  pkt,                  \* the packet process_packet works on
  ntimeouts,            \* consecutive idle polls
  stop_et,
  node,                 \* the export thread's n
  pc,                   \* where each thread is
  npkts,                \* packets delivered so far (bounded by MaxPackets)
  due                   \* due[k]: packets of k counted in a flow, not yet written

pools == <<sessFree, sessUsed, nodeFree, nodeUsed>>
lists == <<flow_table, active_flow_list, flags_expired_flow_list, expired_flow_list>>
times == <<last_packet_timestamp, previous, previous2>>
work  == <<aux_session, naux, pkt, ntimeouts, npkts>>
vars  == <<pools, sess, data, lists, sem_expired_list, times, work, stop_et, node, pc, due>>

Threads == {"process", "export", "main"}
PCs == [process : {"poll", "cleanup", "splice", "parse", "node1", "node2", "unget", "done"},
        export  : {"loop", "lock", "check", "pop", "unlock", "print", "relS", "relN",
                   "drainlock", "drain", "done"},
        main    : {"sigwait", "join", "cleanup", "splice", "stop", "joinE", "done"}]

\* An IPSession after memset of its incoming flow.
Blank == [key |-> Short, npack |-> 0, first |-> 0, last |-> 0, active_node |-> NULL]
SessionRecs == [key : Packets, npack : Nat, first : Nat, last : Nat, active_node : Addr]

Goto(t, l) == pc' = [pc EXCEPT ![t] = l]

\* The unsigned difference the code compares with EXPIRATION_FLOW_TIME.
Age(now, then) == (now - then) % Word
BugExpiredEarly(s) == Age(last_packet_timestamp, sess[s].last) >= Expiration
Expired(s) == Age(last_packet_timestamp, sess[s].last) > Expiration
-----------------------------------------------------------------------------
(***************************************************************************)
(* The pools.  A used list only ever gives its wrappers back: its length   *)
(* is all that matters of it.  Both pools refuse their last element: they  *)
(* pop it, find the list empty and append it again.                        *)
(***************************************************************************)
BugLastOne(free) == Len(free) > 0
CanGet(free) == Len(free) > 1
Got(free) == Head(free)
BugStaysFree(free) == free
AfterGet(free) == list_pop_first_node(free)

releaseIPSession(s) ==
  /\ sess' = [sess EXCEPT ![s].key = Short, ![s].npack = 0]
  /\ sessFree' = list_append_node(sessFree, s)
  /\ sessUsed' = sessUsed - 1

BugNodeLost(n) == UNCHANGED nodeFree /\ nodeUsed' = nodeUsed - 1
releaseNodel(n) ==
  /\ nodeFree' = list_append_node(nodeFree, n)
  /\ nodeUsed' = nodeUsed - 1

getNodel ==
  /\ CanGet(nodeFree)
  /\ nodeFree' = AfterGet(nodeFree)
  /\ nodeUsed' = nodeUsed + 1

getNodelFails ==
  /\ ~ CanGet(nodeFree)
  /\ UNCHANGED <<nodeFree, nodeUsed>>
-----------------------------------------------------------------------------
Init ==
  /\ sessFree = [i \in 1 .. NSessions |-> NSessions + 1 - i]
  /\ nodeFree = [i \in 1 .. NNodes |-> NSessions + NNodes + 1 - i]
  /\ sessUsed = 0 /\ nodeUsed = 0
  /\ sess = [s \in Addr |-> Blank]
  /\ data = [n \in Addr |-> NULL]
  /\ flow_table = [b \in Buckets |-> <<>>]
  /\ active_flow_list = <<>>
  /\ flags_expired_flow_list = <<>>
  /\ expired_flow_list = <<>>
  /\ sem_expired_list = "none"
  /\ last_packet_timestamp = 0 /\ previous = 0 /\ previous2 = 0
  /\ aux_session = NULL /\ naux = NULL /\ pkt = Short
  /\ ntimeouts = 0 /\ npkts = 0
  /\ stop_et = FALSE
  /\ node = NULL
  /\ pc = [process |-> "poll", export |-> "loop", main |-> "sigwait"]
  /\ due = [k \in Keys |-> 0]
-----------------------------------------------------------------------------
(***************************************************************************)
(* Process thread: process_packet up to the call of parsePacket.           *)
(***************************************************************************)
Receive(p, t) ==
  /\ pc["process"] = "poll"
  /\ npkts < MaxPackets
  /\ t \in Step[last_packet_timestamp]
  /\ npkts' = npkts + 1
  /\ pkt' = p
  /\ ntimeouts' = 0
  /\ last_packet_timestamp' = t

AfterTimes(p) == Goto("process", IF p = Short THEN "poll" ELSE "parse")

\* It writes expired_flow_list without sem_expired_list, which the export thread
\* may hold: InitDataFindsNothingExpired says that this race is benign.
initDataRest(t) ==
  /\ previous2' = previous
  /\ previous' = t \div UsInSec
  /\ flags_expired_flow_list' = <<>>
  /\ expired_flow_list' = <<>>
  /\ flow_table' = [b \in Buckets |-> <<>>]
  /\ aux_session' = NULL

BugActiveKept(t) == initDataRest(t) /\ UNCHANGED active_flow_list
initData(t) == initDataRest(t) /\ active_flow_list' = <<>>

FirstPacket(p, t) ==
  /\ Receive(p, t)
  /\ previous = 0
  /\ initData(t)
  /\ AfterTimes(p)
  /\ UNCHANGED <<pools, sess, data, sem_expired_list, naux, stop_et, node, due>>

NewSecond(p, t) ==
  /\ Receive(p, t)
  /\ previous # 0 /\ previous < t \div UsInSec
  /\ Goto("process", "cleanup")
  /\ UNCHANGED <<pools, sess, data, lists, sem_expired_list, previous, previous2,
                 aux_session, naux, stop_et, node, due>>

SameSecond(p, t) ==
  /\ Receive(p, t)
  /\ previous # 0 /\ previous = t \div UsInSec
  /\ AfterTimes(p)
  /\ UNCHANGED <<pools, sess, data, lists, sem_expired_list, previous, previous2,
                 aux_session, naux, stop_et, node, due>>

\* The second process_packet goes on with when the clock has gone back past a
\* second boundary, to sec.
BugForgets(sec) == 0
RolledBack(sec) == IF previous2 < sec THEN previous2 ELSE previous

Rollback(p, t) ==
  /\ Receive(p, t)
  /\ previous # 0 /\ previous > t \div UsInSec
  /\ previous' = RolledBack(t \div UsInSec)
  /\ AfterTimes(p)
  /\ UNCHANGED <<pools, sess, data, lists, sem_expired_list, previous2,
                 aux_session, naux, stop_et, node, due>>
-----------------------------------------------------------------------------
(***************************************************************************)
(* cleanup_flows, run by the process thread from perSecOps and by main     *)
(* from reset_flow_table.  The second loop of the code walks what          *)
(* flags_expired_flow_list held on entry, nothing (NoFlagsOnEntry).        *)
(***************************************************************************)
\* The end of the active list: its node, the bucket node behind that, its session.
Oldest == list_get_last_node(active_flow_list, NULL)
OldestInTable == data[Oldest]
OldestSession == data[OldestInTable]

ExpireOldest(t) ==
  /\ pc[t] = "cleanup"
  /\ Oldest # NULL
  /\ Expired(OldestSession)
  /\ flow_table' = [flow_table EXCEPT ![Hash[sess[OldestSession].key]] =
                                         list_unlink(@, OldestInTable)]
  /\ data' = [data EXCEPT ![Oldest] = OldestSession]
  /\ releaseNodel(OldestInTable)
  /\ active_flow_list' = list_unlink(active_flow_list, Oldest)
  /\ flags_expired_flow_list' = list_append_node(flags_expired_flow_list, Oldest)
  /\ UNCHANGED <<sessFree, sessUsed, sess, expired_flow_list, sem_expired_list, times, work,
                 stop_et, node, pc, due>>

StopExpiring(t) ==
  /\ pc[t] = "cleanup"
  /\ Oldest # NULL => ~ Expired(OldestSession)
  /\ Goto(t, "splice")
  /\ UNCHANGED <<pools, sess, data, lists, sem_expired_list, times, work, stop_et, node, due>>

\* The critical section that hangs the flags list behind the expired list.  An
\* empty flags list leaves the expired list, and its semaphore, alone.
BugOverwrites == expired_flow_list' = flags_expired_flow_list /\ flags_expired_flow_list' = <<>>
HangBehind ==
  /\ expired_flow_list' = expired_flow_list \o flags_expired_flow_list
  /\ flags_expired_flow_list' = <<>>

Splice(t) ==
  /\ pc[t] = "splice"
  /\ flags_expired_flow_list # <<>> => sem_expired_list = "none"
  /\ HangBehind
  /\ UNCHANGED <<pools, sess, data, flow_table, active_flow_list, sem_expired_list,
                 last_packet_timestamp, work, stop_et, node, due>>

\* perSecOps ends by shifting the two remembered seconds.
SpliceProcess ==
  /\ Splice("process")
  /\ previous2' = previous
  /\ previous' = last_packet_timestamp \div UsInSec
  /\ AfterTimes(pkt)

SpliceMain ==
  /\ Splice("main")
  /\ Goto("main", "stop")
  /\ UNCHANGED <<previous, previous2>>
-----------------------------------------------------------------------------
(***************************************************************************)
(* Process thread: parsePacket, processL4Flow and insertFlow.              *)
(***************************************************************************)
NoSession ==
  /\ pc["process"] = "parse"
  /\ aux_session = NULL
  /\ ~ CanGet(sessFree)
  /\ Goto("process", "poll")
  /\ UNCHANGED <<pools, sess, data, lists, sem_expired_list, times,
                 work, stop_et, node, due>>

\* The session parsePacket fills: a fresh one, or the one left over.
Filling(s) ==
  /\ pc["process"] = "parse"
  /\ \/ /\ aux_session = NULL
        /\ CanGet(sessFree)
        /\ s = Got(sessFree)
        /\ sessFree' = AfterGet(sessFree)
        /\ sessUsed' = sessUsed + 1
     \/ /\ aux_session # NULL
        /\ s = aux_session
        /\ UNCHANGED <<sessFree, sessUsed>>

Filled(k) ==
  [key |-> k, npack |-> 1, first |-> last_packet_timestamp,
   last |-> last_packet_timestamp, active_node |-> NULL]

\* A frame that is not a flow packet keeps the session for the next one.
ParseOther(s) ==
  /\ Filling(s)
  /\ pkt = Other
  /\ aux_session' = s
  /\ sess' = [sess EXCEPT ![s].key = Short, ![s].npack = 0]
  /\ Goto("process", "poll")
  /\ UNCHANGED <<nodeFree, nodeUsed, data, lists, sem_expired_list, times, naux, pkt,
                 ntimeouts, npkts, stop_et, node, due>>

\* The newest flow of k, if any: compareTupleFlow compares the keys.
SameTuple(k) == {n \in Addr : sess[data[n]].key = k}
Found(k) == list_search(flow_table[Hash[k]], SameTuple(k), NULL)

\* insertFlow goes on to insertFlowTable: no such flow, or one that has expired
\* in the second since the last cleanup and stays in the table.
ParseNew(s) ==
  /\ Filling(s)
  /\ pkt \in Keys
  /\ Found(pkt) # NULL => Expired(data[Found(pkt)])
  /\ aux_session' = s
  /\ sess' = [sess EXCEPT ![s] = Filled(pkt)]
  /\ Goto("process", "node1")
  /\ UNCHANGED <<nodeFree, nodeUsed, data, lists, sem_expired_list, times, naux, pkt,
                 ntimeouts, npkts, stop_et, node, due>>

\* insertFlow goes on to updateFlowTable.  What parsePacket left in s is dead:
\* s is cleared before it is filled again.
ParseUpdate(s) ==
  /\ Filling(s)
  /\ pkt \in Keys
  /\ Found(pkt) # NULL
  /\ LET f == data[Found(pkt)]
         n == sess[f].active_node
     IN /\ ~ Expired(f)
        /\ sess' = [sess EXCEPT ![f].npack = @ + 1,
                                ![f].last = last_packet_timestamp]
        /\ active_flow_list' = list_prepend_node(list_unlink(active_flow_list, n), n)
  /\ aux_session' = s
  /\ due' = [due EXCEPT ![pkt] = @ + 1]
  /\ Goto("process", "poll")
  /\ UNCHANGED <<nodeFree, nodeUsed, data, flow_table, flags_expired_flow_list,
                 expired_flow_list, sem_expired_list, times, naux, pkt, ntimeouts, npkts,
                 stop_et, node>>

\* insertFlowTable, up to and including its first getNodel.
InsertFirstNode ==
  /\ pc["process"] = "node1"
  /\ getNodel
  /\ naux' = Got(nodeFree)
  /\ data' = [data EXCEPT ![Got(nodeFree)] = aux_session]
  /\ Goto("process", "node2")
  /\ UNCHANGED <<sessFree, sessUsed, sess, lists, sem_expired_list, times, aux_session, pkt,
                 ntimeouts, npkts, stop_et, node, due>>

InsertNoFirstNode ==
  /\ pc["process"] = "node1"
  /\ getNodelFails
  /\ Goto("process", "poll")
  /\ UNCHANGED <<sessFree, sessUsed, sess, data, lists, sem_expired_list, times, work,
                 stop_et, node, due>>

\* The second getNodel, and the flow enters its bucket and the active list.
Linked ==
  LET n == Got(nodeFree) IN
  /\ data' = [data EXCEPT ![n] = naux]
  /\ flow_table' = [flow_table EXCEPT ![Hash[pkt]] = list_prepend_node(@, naux)]
  /\ active_flow_list' = list_prepend_node(active_flow_list, n)
  /\ sess' = [sess EXCEPT ![aux_session].active_node = n]

\* insertFlowTable returns NULL: the session has found its flow.
BugReturnsSession == UNCHANGED aux_session
SessionTaken == aux_session' = NULL

InsertFlowTable ==
  /\ pc["process"] = "node2"
  /\ getNodel
  /\ Linked
  /\ SessionTaken
  /\ naux' = NULL
  /\ due' = [due EXCEPT ![pkt] = @ + 1]
  /\ Goto("process", "poll")
  /\ UNCHANGED <<sessFree, sessUsed, flags_expired_flow_list, expired_flow_list,
                 sem_expired_list, times, pkt, ntimeouts, npkts, stop_et, node>>

InsertNoSecondNode ==
  /\ pc["process"] = "node2"
  /\ getNodelFails
  /\ Goto("process", "unget")
  /\ UNCHANGED <<sessFree, sessUsed, sess, data, lists, sem_expired_list, times, work,
                 stop_et, node, due>>

InsertGivesUp ==
  /\ pc["process"] = "unget"
  /\ releaseNodel(naux)
  /\ naux' = NULL
  /\ Goto("process", "poll")
  /\ UNCHANGED <<sessFree, sessUsed, sess, data, lists, sem_expired_list, times, aux_session,
                 pkt, ntimeouts, npkts, stop_et, node, due>>

\* rx_and_process: an idle poll, and the return after NTimeouts of them in a row.
BugOneMore(i) == i <= NTimeouts
GoOn(i) == i < NTimeouts

PollTimeout ==
  /\ pc["process"] = "poll" /\ GoOn(ntimeouts)
  /\ ntimeouts' = ntimeouts + 1
  /\ pc' = [pc EXCEPT !["process"] = IF GoOn(ntimeouts') THEN @ ELSE "done"]
  /\ UNCHANGED <<pools, sess, data, lists, sem_expired_list, times, aux_session, naux, pkt,
                 npkts, stop_et, node, due>>
-----------------------------------------------------------------------------
(***************************************************************************)
(* Export thread (exportThread, without its daily change of file).         *)
(***************************************************************************)
ExportRest == <<lists, data, times, work, stop_et>>

ExportLoop ==
  /\ pc["export"] = "loop"
  /\ Goto("export", IF stop_et THEN "drainlock" ELSE "lock")
  /\ UNCHANGED <<pools, sess, ExportRest, sem_expired_list, node, due>>

ExportLock ==
  /\ pc["export"] \in {"lock", "drainlock"}
  /\ sem_expired_list = "none"
  /\ sem_expired_list' = "export"
  /\ Goto("export", IF pc["export"] = "lock" THEN "check" ELSE "drain")
  /\ UNCHANGED <<pools, sess, ExportRest, node, due>>

BugLastStays == Len(expired_flow_list) > 1
SomethingExpired == expired_flow_list # <<>>

\* An empty list: unlock, usleep and go round.
ExportCheck ==
  /\ pc["export"] = "check"
  /\ IF SomethingExpired
     THEN /\ Goto("export", "pop")
          /\ UNCHANGED sem_expired_list
     ELSE /\ Goto("export", "loop")
          /\ sem_expired_list' = "none"
  /\ UNCHANGED <<pools, sess, ExportRest, node, due>>

\* The drain loop checks and pops in one breath.
ExportPop ==
  /\ \/ pc["export"] = "pop"
     \/ pc["export"] = "drain" /\ expired_flow_list # <<>>
  /\ node' = list_get_first_node(expired_flow_list, NULL)
  /\ expired_flow_list' = list_pop_first_node(expired_flow_list)
  /\ Goto("export", IF pc["export"] = "pop" THEN "unlock" ELSE "print")
  /\ UNCHANGED <<pools, sess, data, flow_table, active_flow_list, flags_expired_flow_list,
                 sem_expired_list, times, work, stop_et, due>>

ExportUnlock ==
  /\ pc["export"] = "unlock"
  /\ sem_expired_list' = "none"
  /\ Goto("export", "print")
  /\ UNCHANGED <<pools, sess, ExportRest, node, due>>

\* export_data (printTupleFileText) writes the flow's packet count.
ExportPrint ==
  LET s == data[node] IN
  /\ pc["export"] = "print"
  /\ due' = [k \in Keys |-> IF k = sess[s].key THEN due[k] - sess[s].npack ELSE due[k]]
  /\ Goto("export", "relS")
  /\ UNCHANGED <<pools, sess, ExportRest, sem_expired_list, node>>

ExportReleaseSession ==
  /\ pc["export"] = "relS"
  /\ releaseIPSession(data[node])
  /\ Goto("export", "relN")
  /\ UNCHANGED <<nodeFree, nodeUsed, ExportRest, sem_expired_list, node, due>>

\* The drain loop keeps sem_expired_list; the main loop gave it back.
ExportReleaseNode ==
  /\ pc["export"] = "relN"
  /\ releaseNodel(node)
  /\ node' = NULL
  /\ Goto("export", IF sem_expired_list = "export" THEN "drain" ELSE "loop")
  /\ UNCHANGED <<sessFree, sessUsed, sess, ExportRest, sem_expired_list, due>>

ExportEnd ==
  /\ pc["export"] = "drain"
  /\ expired_flow_list = <<>>
  /\ sem_expired_list' = "none"
  /\ Goto("export", "done")
  /\ UNCHANGED <<pools, sess, ExportRest, node, due>>
-----------------------------------------------------------------------------
(***************************************************************************)
(* Main thread: sigwait, then capturaSenial(SIGINT).                       *)
(***************************************************************************)
MainRest == <<sess, data, sem_expired_list, work, node, due>>

Sigint ==
  /\ pc["main"] = "sigwait"
  /\ Goto("main", "join")
  /\ UNCHANGED <<pools, lists, times, stop_et, MainRest>>

\* pthread_join of the process thread, then reset_flow_table.
BugNoJoin == TRUE
ProcessJoined == pc["process"] = "done"

MainJoin ==
  /\ pc["main"] = "join"
  /\ ProcessJoined
  /\ last_packet_timestamp' = Infinity
  /\ Goto("main", "cleanup")
  /\ UNCHANGED <<pools, lists, previous, previous2, stop_et, MainRest>>

BugKeepsExporting == UNCHANGED stop_et
StopExport == stop_et' = TRUE

MainStop ==
  /\ pc["main"] = "stop"
  /\ StopExport
  /\ Goto("main", "joinE")
  /\ UNCHANGED <<pools, lists, times, MainRest>>

\* pthread_join of the export thread, then the pools and the table are freed.
MainFree ==
  /\ pc["main"] = "joinE"
  /\ pc["export"] = "done"
  /\ last_packet_timestamp' = 0
  /\ sessFree' = <<>> /\ sessUsed' = 0
  /\ nodeFree' = <<>> /\ nodeUsed' = 0
  /\ flow_table' = [b \in Buckets |-> <<>>]
  /\ Goto("main", "done")
  /\ UNCHANGED <<active_flow_list, flags_expired_flow_list, expired_flow_list, previous,
                 previous2, stop_et, MainRest>>

\* The program has returned from main: nothing moves any more.
Terminated ==
  /\ pc["main"] = "done"
  /\ UNCHANGED vars
-----------------------------------------------------------------------------
Arrival ==
  \E p \in Packets, t \in Clock :
    FirstPacket(p, t) \/ NewSecond(p, t) \/ SameSecond(p, t) \/ Rollback(p, t)

ProcessStep ==
  \/ ExpireOldest("process") \/ StopExpiring("process") \/ SpliceProcess
  \/ NoSession
  \/ \E s \in Sessions : ParseOther(s) \/ ParseNew(s) \/ ParseUpdate(s)
  \/ InsertFirstNode \/ InsertNoFirstNode
  \/ InsertFlowTable \/ InsertNoSecondNode \/ InsertGivesUp
  \/ PollTimeout

ExportStep ==
  \/ ExportLoop \/ ExportLock \/ ExportCheck \/ ExportPop \/ ExportUnlock
  \/ ExportPrint \/ ExportReleaseSession \/ ExportReleaseNode \/ ExportEnd

MainStep ==
  \/ MainJoin
  \/ ExpireOldest("main") \/ StopExpiring("main") \/ SpliceMain
  \/ MainStop \/ MainFree

Next == Arrival \/ ProcessStep \/ ExportStep \/ Sigint \/ MainStep \/ Terminated

Spec == Init /\ [][Next]_vars

\* The scheduler runs every thread; a thread blocked in pthread_mutex_lock gets
\* the semaphore when it is free again and again.  Traffic (Arrival) and the
\* user's Ctrl+C (Sigint) are promised by nobody.
Fairness ==
  /\ WF_vars(ProcessStep) /\ WF_vars(ExportStep) /\ WF_vars(MainStep)
  /\ SF_vars(SpliceProcess) /\ SF_vars(SpliceMain)

FairSpec == Spec /\ Fairness
-----------------------------------------------------------------------------
(***************************************************************************)
(* What the state says about ownership.                                    *)
(***************************************************************************)
Live == pc["main"] # "done"

\* The export thread has a node in hand; and the session behind it.
ExportHasNode == pc["export"] \in {"unlock", "print", "relS", "relN"}
ExportHasSession == pc["export"] \in {"unlock", "print", "relS"}
\* insertFlowTable has its first node and not yet its second.
HalfInserted == pc["process"] \in {"node2", "unget"}

Times(l, n) == Cardinality({i \in DOMAIN l : l[i] = n})
One(b) == IF b THEN 1 ELSE 0

TableNodes == UNION {ToSet(flow_table[b]) : b \in Buckets}
RetiredNodes == ToSet(flags_expired_flow_list) \cup ToSet(expired_flow_list)
                  \cup (IF ExportHasSession THEN {node} ELSE {})
OpenSessions == {data[n] : n \in TableNodes}
RetiredSessions == {data[n] : n \in RetiredNodes}
Unwritten == IF pc["export"] = "relS" THEN RetiredSessions \ {data[node]} ELSE RetiredSessions

\* How many places of the buckets hold node n, how many places in all; and how
\* many hold session s.
TablePlaces(n) ==
  Cardinality({p \in UNION {{b} \X DOMAIN flow_table[b] : b \in Buckets} :
                 flow_table[p[1]][p[2]] = n})

NodePlaces(n) ==
  Times(nodeFree, n) + Times(active_flow_list, n) + Times(flags_expired_flow_list, n)
    + Times(expired_flow_list, n) + TablePlaces(n)
    + One(ExportHasNode /\ node = n) + One(HalfInserted /\ naux = n)

SessionPlaces(s) ==
  Times(sessFree, s) + Cardinality({n \in TableNodes \cup RetiredNodes : data[n] = s})
    + One(aux_session = s)
-----------------------------------------------------------------------------
(***************************************************************************)
(* Properties.                                                             *)
(***************************************************************************)
\* Every variable has its C type; pointers are addresses, maybe of the wrong kind.
TypeOK ==
  /\ sessFree \in Seq(Addr) /\ nodeFree \in Seq(Addr)
  /\ sessUsed \in Int /\ nodeUsed \in Int
  /\ sess \in [Addr -> SessionRecs]
  /\ data \in [Addr -> Addr]
  /\ flow_table \in [Buckets -> Seq(Addr)]
  /\ active_flow_list \in Seq(Addr)
  /\ flags_expired_flow_list \in Seq(Addr)
  /\ expired_flow_list \in Seq(Addr)
  /\ sem_expired_list \in {"none", "export"}
  /\ last_packet_timestamp \in Clock \cup {0, Infinity}
  /\ previous \in Nat /\ previous2 \in Nat
  /\ aux_session \in Addr /\ naux \in Addr /\ node \in Addr
  /\ pkt \in Packets
  /\ ntimeouts \in 0 .. NTimeouts /\ npkts \in 0 .. MaxPackets
  /\ stop_et \in BOOLEAN
  /\ pc \in PCs
  /\ due \in [Keys -> Int]

\* However packets, exports, failed insertions and re-initialisations interleave,
\* no node_l is ever in two places: two lists, a list and a thread's hands, or
\* twice in one list (a double release, a node handed out while linked).
NodeOwnedOnce == Live => \A n \in Nodes : NodePlaces(n) <= 1

\* The same of IPSession structures: no session is free and in use, or in two flows.
SessionOwnedOnce == Live => \A s \in Sessions : SessionPlaces(s) <= 1

\* With a clock that never goes back nothing leaks either: every structure of
\* both pools is in exactly one place at every moment.
NothingLeaks ==
  Live => /\ \A n \in Nodes : NodePlaces(n) = 1
          /\ \A s \in Sessions : SessionPlaces(s) = 1

\* The pointers of a flow agree: an active node leads to a bucket node of the
\* bucket its key hashes to, that one to the session, and the session back; and
\* every bucket node has its active node.
LinksAgree ==
  /\ \A n \in ToSet(active_flow_list) :
       LET m == data[n] IN
         /\ m \in Nodes /\ data[m] \in Sessions
         /\ sess[data[m]].key \in Keys
         /\ m \in ToSet(flow_table[Hash[sess[data[m]].key]])
         /\ sess[data[m]].active_node = n
  /\ TableNodes = {data[n] : n \in ToSet(active_flow_list)}

\* What the two pools have handed out.  Each flow in the table costs a session and
\* two nodes, a retired flow a session and one node; the export thread gives the
\* session back before the node.  PoolBudget holds even when the clock goes back
\* and initData forgets flows, and it is inductive.
UsedSessions == NSessions - Len(sessFree)
UsedNodes == NNodes - Len(nodeFree)
PoolBudget ==
  Live =>
  /\ sessUsed = UsedSessions /\ Len(sessFree) >= 1
  /\ nodeUsed = UsedNodes /\ Len(nodeFree) >= 1
  /\ UsedNodes <= 2 * (UsedSessions - One(aux_session # NULL))
                    - Len(flags_expired_flow_list) - Len(expired_flow_list)
                    - One(ExportHasSession) + One(pc["export"] = "relN") + One(HalfInserted)
  /\ pc["process"] \in {"node1", "node2", "unget"} => aux_session # NULL

\* With twice as many nodes as sessions (pool.c and list.c: MAX_POOL_NODE/2 and
\* MAX_POOL_NODE) insertFlowTable never finds the node pool empty: packets are
\* refused by the session pool alone, and the error paths of getNodel are dead.
NodePoolSuffices ==
  NNodes >= 2 * NSessions => (pc["process"] \in {"node1", "node2"} => CanGet(nodeFree))

\* releaseIPSession and releaseNodel take a wrapper from a used list without
\* looking whether there is one: there always is.
UsedListsNotEmpty ==
  /\ pc["export"] = "relS" => sessUsed > 0
  /\ pc["export"] = "relN" \/ pc["process"] = "unget" => nodeUsed > 0
  /\ \A t \in {"process", "main"} :
       pc[t] = "cleanup" /\ active_flow_list # <<>> => nodeUsed > 0

\* The pools hand each structure out once and every release finds its wrapper, with
\* insertions that fail half-way and flows that initData forgets (pool.c, list.c).
PoolsSound == NodeOwnedOnce /\ SessionOwnedOnce /\ UsedListsNotEmpty

\* Main runs cleanup_flows over the lists of the process thread, and frees the
\* pools under the export thread, only when the thread concerned is gone.
JoinedFirst ==
  /\ pc["main"] \in {"cleanup", "splice", "stop", "joinE", "done"} => pc["process"] = "done"
  /\ pc["main"] = "done" => pc["export"] = "done"

\* Flows are moved to flags_expired_flow_list by cleanup_flows alone and none stays:
\* each cleanup starts with it empty, so that its second loop has nothing to walk.
NoFlagsOnEntry ==
  (\A t \in {"process", "main"} : pc[t] \notin {"cleanup", "splice"})
    => flags_expired_flow_list = <<>>

\* cleanup_flows stops at the first flow that has not expired, counting on the
\* active list being ordered by last packet; so it leaves no expired flow behind,
\* at shutdown no flow at all, and none between its two lists.
CleanupComplete ==
  /\ \A t \in {"process", "main"} :
       pc[t] = "splice" =>
         /\ \A n \in ToSet(active_flow_list) : ~ Expired(data[data[n]])
         /\ t = "main" => active_flow_list = <<>>
  /\ NoFlagsOnEntry

\* Two flows of one key are in the table together only when the second began
\* after the first had expired: insertFlow never splits a conversation that is
\* still going on, whatever hangs behind it in its bucket.
SplitOnlyByExpiry ==
  \A m, n \in TableNodes :
    LET s == sess[data[m]]  r == sess[data[n]] IN
      m # n /\ s.key = r.key => \/ r.first > s.last + Expiration
                                \/ s.first > r.last + Expiration

\* A flow's last packet is never before its first, even if the clock goes back:
\* the unsigned age of a packet from the past looks expired, and opens a new flow.
FlowTimesOrdered == \A s \in OpenSessions \cup RetiredSessions : sess[s].first <= sess[s].last

\* A flow is whole and makes sense: its three structures lead to each other, and
\* its first packet is not after its last (IPflow.c), with any clock.
FlowsSound == LinksAgree /\ FlowTimesOrdered

\* The packets counted and not yet written are those of the flows still held, key
\* by key; when the program ends every packet it counted has been written.
NoPacketLost ==
  /\ \A k \in Keys :
       due[k] = SumFunctionOnSet([s \in Addr |-> sess[s].npack],
                  {s \in OpenSessions \cup Unwritten : sess[s].key = k})
  /\ ~ Live => \A k \in Keys : due[k] = 0

\* initData overwrites expired_flow_list without taking sem_expired_list, but it
\* never pulls the list from under the export thread (whose pop would then give
\* NULL): while previous is 0 no flow has expired yet, even after a rollback.
InitDataFindsNothingExpired ==
  /\ previous = 0 /\ pc["process"] # "done" =>
       /\ expired_flow_list = <<>> /\ flags_expired_flow_list = <<>>
       /\ ~ ExportHasNode
  /\ pc["export"] = "pop" => expired_flow_list # <<>>

\* initData runs for the first packet after the monitor has started (the comment
\* above it in dp.c): a later packet never clears lists that hold flows.
InitDataOnlyFirst ==
  [][(\E p \in Packets, t \in Clock : FirstPacket(p, t)) => npkts = 0]_vars

\* A flow that has expired is exported before another one of its key is inserted
\* (the comment above insertFlow): the table never holds two flows of one key.
OneFlowPerKey ==
  \A m, n \in TableNodes : sess[data[m]].key = sess[data[n]].key => m = n

\* Ctrl+C ends the program in order once no packets arrive any more.
ShutdownCompletes == pc["main"] = "join" ~> pc["main"] = "done"

\* A flow that has expired is written out without waiting for the end of the program.
RetiredIsReported == \A s \in Sessions : s \in RetiredSessions ~> s \notin RetiredSessions
-----------------------------------------------------------------------------
(***************************************************************************)
(* The monitor implements FlowLedger: a flow is open while it is in the    *)
(* table and retired from cleanup_flows until it has been written.         *)
(***************************************************************************)
Entries(S) == [s \in S |-> [key |-> sess[s].key, npack |-> sess[s].npack]]

Ledger == INSTANCE FlowLedger WITH
            Ids <- Sessions, open <- Entries(OpenSessions), retired <- Entries(Unwritten),
            finished <- (pc["main"] = "done")

LedgerSpec == Ledger!Spec
=============================================================================

---------------------------- MODULE WorkerProofs ----------------------------
(***************************************************************************)
(* Proofs about Worker for every set of requests and any number of         *)
(* handlers and refreshes: however requests repeat and overlap and         *)
(* wherever isolates die, the table is one that whole requests made, and a *)
(* 202 means stored.                                                       *)
(***************************************************************************)
EXTENDS Worker, BasicLemmas

(***************************************************************************)
(* The table after the first n samples of a request, said at once: what    *)
(* was there, and every sample that is the first with its key.             *)
(***************************************************************************)
TableAfter(r, n) ==
    points \cup {r.samples[k] : k \in {i \in 1..n : Ingest!Inserts(r.samples, i)}}

(***************************************************************************)
(* A request is a sequence of samples that belong to its node.             *)
(***************************************************************************)
LEMMA RequestIsSequence ==
    \A r \in Requests : /\ Len(r.samples) \in Nat
                        /\ DOMAIN r.samples = 1..Len(r.samples)
                        /\ \A k \in DOMAIN r.samples : r.samples[k].node_id = r.node_id
  <1> SUFFICES ASSUME NEW r \in Requests
               PROVE  /\ Len(r.samples) \in Nat
                      /\ DOMAIN r.samples = 1..Len(r.samples)
                      /\ \A k \in DOMAIN r.samples : r.samples[k].node_id = r.node_id
    OBVIOUS
  <1>1. \E S : r.samples \in Seq(S)
    BY RequestAssumption
  <1>2. \A k \in DOMAIN r.samples : r.samples[k].node_id = r.node_id
    BY RequestAssumption
  <1> QED
    BY <1>1, <1>2

(***************************************************************************)
(* When a key is in the table or in an earlier statement, the statements   *)
(* before this one have put it into the table.                             *)
(***************************************************************************)
LEMMA KeyIsThere ==
    ASSUME NEW r \in Requests, NEW k \in 1..Len(r.samples), Complete(r.samples[k]),
           ~Ingest!Inserts(r.samples, k)
    PROVE  \E p \in TableAfter(r, k - 1) : KeyOf(p) = KeyOf(r.samples[k])
  <1> DEFINE key == KeyOf(r.samples[k])
             T == {j \in 1..(k - 1) : Complete(r.samples[j]) /\ KeyOf(r.samples[j]) = key}
  <1>1. Len(r.samples) \in Nat
    BY RequestIsSequence
  <1>2. CASE \E p \in points : KeyOf(p) = key
    BY <1>2 DEF TableAfter
  <1>3. CASE \A p \in points : KeyOf(p) # key
    <2>1. T \subseteq Nat /\ T # {}
      BY <1>1, <1>3 DEF Ingest!Inserts
    <2>2. PICK j \in T : \A i \in T : j <= i
      BY <2>1, LeastElement
    <2>3. \A i \in 1..(j - 1) : i \in 1..(k - 1) /\ ~(j <= i)
      BY <1>1, <2>1
    <2>4. Ingest!Inserts(r.samples, j)
      BY <1>3, <2>2, <2>3 DEF Ingest!Inserts
    <2> QED
      BY <2>4 DEF TableAfter
  <1> QED
    BY <1>2, <1>3

(***************************************************************************)
(* One sample further: a statement inserts the sample, or the key is there *)
(* already; a sample that is not complete is passed over.                  *)
(***************************************************************************)
LEMMA TableAfterStep ==
    ASSUME NEW r \in Requests, NEW k \in 1..Len(r.samples)
    PROVE  TableAfter(r, k) = IF k \in statements(r)
                              THEN AfterInsert(r.samples[k], TableAfter(r, k - 1))
                              ELSE TableAfter(r, k - 1)
  <1> DEFINE New(n) == {i \in 1..n : Ingest!Inserts(r.samples, i)}
  <1>1. Len(r.samples) \in Nat /\ DOMAIN r.samples = 1..Len(r.samples)
    BY RequestIsSequence
  <1>2. 1..k = 1..(k - 1) \cup {k}
    BY <1>1
  <1>3. CASE ~Ingest!Inserts(r.samples, k)
    <2>1. TableAfter(r, k) = TableAfter(r, k - 1)
      BY <1>2, <1>3 DEF TableAfter
    <2> QED
      BY <1>1, <1>3, <2>1, KeyIsThere DEF statements, AfterInsert
  <1>4. CASE Ingest!Inserts(r.samples, k)
    <2>1. TableAfter(r, k) = TableAfter(r, k - 1) \cup {r.samples[k]}
      <3>1. New(k) = New(k - 1) \cup {k}
        BY <1>2, <1>4
      <3> QED
        BY <3>1 DEF TableAfter
    <2>2. k \in statements(r)
      BY <1>1, <1>4 DEF statements, Ingest!Inserts
    <2>3. \A p \in TableAfter(r, k - 1) : KeyOf(p) # KeyOf(r.samples[k])
      BY <1>4 DEF TableAfter, Ingest!Inserts
    <2> QED
      BY <2>1, <2>2, <2>3 DEF AfterInsert
  <1> QED
    BY <1>3, <1>4

(***************************************************************************)
(* The statements of DB.batch, one after the other, come to what the       *)
(* abstract ingest does at once.                                           *)
(***************************************************************************)
LEMMA BatchIsInserted ==
    ASSUME NEW r \in Requests
    PROVE  AfterInserts(r, Len(r.samples)) = Ingest!Inserted(r.samples)
  <1> DEFINE N == Len(r.samples)
             Recursion(f) == f = [k \in 0..N |-> IF k = 0 THEN points
                                                 ELSE IF k \in statements(r)
                                                 THEN AfterInsert(r.samples[k], f[k - 1])
                                                 ELSE f[k - 1]]
             after == CHOOSE f : Recursion(f)
             closed == [k \in 0..N |-> TableAfter(r, k)]
  <1>1. N \in Nat /\ DOMAIN r.samples = 1..N
    BY RequestIsSequence
  <1>2. TableAfter(r, 0) = points
    BY DEF TableAfter
  <1>3. Recursion(closed)
    <2>1. \A k \in 0..N : k # 0 => k \in 1..N /\ k - 1 \in 0..N
      BY <1>1
    <2> QED
      BY <1>2, <2>1, TableAfterStep
  <1>4. Recursion(after)
    <2> HIDE DEF Recursion
    <2> QED
      BY <1>3
  <1>5. \A k \in Nat : k \in 0..N => after[k] = TableAfter(r, k)
    <2> DEFINE S == {k \in Nat : k \in 0..N => after[k] = TableAfter(r, k)}
    <2>1. 0 \in S
      BY <1>1, <1>2, <1>4
    <2>2. ASSUME NEW k \in Nat, k \in S PROVE k + 1 \in S
      <3>1. SUFFICES ASSUME k + 1 \in 0..N PROVE after[k + 1] = TableAfter(r, k + 1)
        OBVIOUS
      <3>2. k \in 0..N /\ k + 1 \in 1..N /\ (k + 1) - 1 = k
        BY <1>1, <3>1
      <3>3. after[k] = TableAfter(r, k)
        BY <2>2, <3>2
      <3>4. after[k + 1] = IF k + 1 \in statements(r)
                           THEN AfterInsert(r.samples[k + 1], after[k]) ELSE after[k]
        <4> HIDE DEF after
        <4> QED
          BY <1>4, <3>1, <3>2
      <3> HIDE DEF after
      <3> QED
        BY <3>2, <3>3, <3>4, TableAfterStep
    <2>3. \A k \in Nat : k \in S
      <3> HIDE DEF S
      <3> QED
        BY <2>1, <2>2, InductionOnSet
    <2> QED
      BY <2>3
  <1>6. AfterInserts(r, N) = after[N]
    BY DEF AfterInserts
  <1>7. TableAfter(r, N) = Ingest!Inserted(r.samples)
    BY <1>1 DEF TableAfter, Ingest!Inserted
  <1> HIDE DEF after
  <1> QED
    BY <1>1, <1>5, <1>6, <1>7
-----------------------------------------------------------------------------
(***************************************************************************)
(* What a handler knows at each of its awaits: from the batch on its node  *)
(* is in the table of nodes, and from the answer on its samples are        *)
(* stored.                                                                 *)
(***************************************************************************)
HandlerStates ==
    handlers \in [Handler -> {Free} \cup [pc : {"upsert", "batch", "answer", "accepted"},
                                         request : Requests]]

NodeWritten ==
    \A h \in Handler : handlers[h].pc \in {"batch", "answer", "accepted"} =>
                          handlers[h].request.node_id \in edge_nodes

Stored(r) ==
    \A k \in DOMAIN r.samples :
       Complete(r.samples[k]) => \E p \in points : KeyOf(p) = KeyOf(r.samples[k])

AnsweredIsStored ==
    \A h \in Handler : handlers[h].pc \in {"answer", "accepted"} => Stored(handlers[h].request)

(***************************************************************************)
(* What a refresh has fetched, and what is shown, came from the tables,    *)
(* which only grow.                                                        *)
(***************************************************************************)
RefreshStates ==
    /\ refreshes \in [Refresh -> [pc : {"idle", "both", "nodes", "data", "render"},
                                  nodes : SUBSET edge_nodes, data : SUBSET points]]
    /\ shown \in [nodes : SUBSET edge_nodes, data : SUBSET points]

(***************************************************************************)
(* The inductive invariant.                                                *)
(***************************************************************************)
WorkerInv ==
    /\ TypeOK /\ PointsHaveNode
    /\ HandlerStates /\ NodeWritten /\ AnsweredIsStored
    /\ RefreshStates

(***************************************************************************)
(* The Worker starts in the invariant.                                     *)
(***************************************************************************)
LEMMA InitEstablishes == Init => WorkerInv
  BY DEF Init, Ingest!IngestInit, WorkerInv, TypeOK, PointsHaveNode, HandlerStates, NodeWritten,
         AnsweredIsStored, RefreshStates, Free, NoRefresh

(***************************************************************************)
(* A step of the page, which reads the tables and leaves them alone.       *)
(***************************************************************************)
LEMMA PagePreserves ==
    ASSUME WorkerInv, UNCHANGED <<handlers, tables>>, RefreshStates'
    PROVE  WorkerInv'
  <1> USE DEF WorkerInv, tables
  <1>1. TypeOK'
    BY DEF TypeOK, RefreshStates
  <1>2. AnsweredIsStored'
    BY DEF AnsweredIsStored, Stored
  <1> QED
    BY <1>1, <1>2 DEF PointsHaveNode, HandlerStates, NodeWritten

(***************************************************************************)
(* A step of a handler.  Tables that grow keep what refreshes have seen.   *)
(***************************************************************************)
LEMMA HandlerPreserves ==
    ASSUME WorkerInv, UNCHANGED page, edge_nodes \subseteq edge_nodes', points \subseteq points',
           edge_nodes' \subseteq {r.node_id : r \in Requests},
           \A p, q \in points' : KeyOf(p) = KeyOf(q) => p = q,
           PointsHaveNode', HandlerStates', NodeWritten', AnsweredIsStored'
    PROVE  WorkerInv'
  <1> USE DEF WorkerInv, page
  <1>1. RefreshStates'
    <2>1. /\ SUBSET edge_nodes \subseteq SUBSET (edge_nodes')
          /\ SUBSET points \subseteq SUBSET (points')
      OBVIOUS
    <2> QED
      BY <2>1 DEF RefreshStates
  <1>2. TypeOK'
    BY <1>1 DEF TypeOK, RefreshStates, HandlerStates, Free
  <1> QED
    BY <1>1, <1>2

(***************************************************************************)
(* A request taken into the table: the table grows, keys stay unique, and  *)
(* every complete sample has a point.                                      *)
(***************************************************************************)
LEMMA InsertedIsSound ==
    ASSUME NEW r \in Requests, points' = Ingest!Inserted(r.samples),
           \A p, q \in points : KeyOf(p) = KeyOf(q) => p = q
    PROVE  /\ points \subseteq points'
           /\ \A p, q \in points' : KeyOf(p) = KeyOf(q) => p = q
           /\ \A p \in points' : p \in points \/ p.node_id = r.node_id
           /\ Stored(r)'
  <1>1. Len(r.samples) \in Nat /\ DOMAIN r.samples = 1..Len(r.samples)
    BY RequestIsSequence
  <1>2. points' = TableAfter(r, Len(r.samples))
    BY <1>1 DEF TableAfter, Ingest!Inserted
  <1>3. points \subseteq points'
    BY <1>2 DEF TableAfter
  <1>4. ASSUME NEW p \in points', NEW q \in points', KeyOf(p) = KeyOf(q) PROVE p = q
    <2> DEFINE new == {i \in 1..Len(r.samples) : Ingest!Inserts(r.samples, i)}
    <2>1. \A s \in points' : s \in points \/ \E i \in new : s = r.samples[i]
      BY <1>2 DEF TableAfter
    <2>2. \A i \in new, s \in points : KeyOf(s) # KeyOf(r.samples[i])
      BY DEF Ingest!Inserts
    <2>3. \A i, j \in new : i < j => KeyOf(r.samples[i]) # KeyOf(r.samples[j])
      BY <1>1 DEF Ingest!Inserts
    <2>4. \A i, j \in new : i < j \/ j < i \/ i = j
      BY <1>1
    <2> HIDE DEF new
    <2> QED
      BY <1>4, <2>1, <2>2, <2>3, <2>4
  <1>5. \A p \in points' : p \in points \/ p.node_id = r.node_id
    BY <1>1, <1>2, RequestIsSequence DEF TableAfter
  <1>6. ASSUME NEW k \in DOMAIN r.samples, Complete(r.samples[k])
        PROVE  \E p \in points' : KeyOf(p) = KeyOf(r.samples[k])
    <2>1. CASE Ingest!Inserts(r.samples, k)
      BY <1>1, <1>2, <2>1 DEF TableAfter
    <2>2. CASE ~Ingest!Inserts(r.samples, k)
      <3>1. \E p \in TableAfter(r, k - 1) : KeyOf(p) = KeyOf(r.samples[k])
        BY <1>1, <1>6, <2>2, KeyIsThere
      <3>2. 1..(k - 1) \subseteq 1..Len(r.samples)
        BY <1>1
      <3>3. TableAfter(r, k - 1) \subseteq TableAfter(r, Len(r.samples))
        BY <3>2 DEF TableAfter
      <3> QED
        BY <1>2, <3>1, <3>3
    <2> QED
      BY <2>1, <2>2
  <1>7. Stored(r)'
    BY <1>6 DEF Stored, Complete
  <1> QED
    BY <1>3, <1>4, <1>5, <1>7

(***************************************************************************)
(* Every await of handleTelemetry() preserves the invariant.               *)
(***************************************************************************)
LEMMA HandlerStepPreserves ==
    ASSUME WorkerInv, NEW h \in Handler,
           \/ \E r \in Requests : Refused(h, r) \/ Received(h, r)
           \/ UpsertNode(h) \/ BatchInsert(h) \/ HandlerFails(h) \/ Accepts(h)
    PROVE  WorkerInv'
  <1> USE DEF WorkerInv
  <1>0. /\ \A p, q \in points : KeyOf(p) = KeyOf(q) => p = q
        /\ edge_nodes \subseteq {r.node_id : r \in Requests}
    BY DEF TypeOK
  <1>1. ASSUME UNCHANGED <<tables, page>>, HandlerStates', NodeWritten', AnsweredIsStored'
        PROVE  WorkerInv'
    <2>1. PointsHaveNode'
      BY <1>1 DEF PointsHaveNode, tables
    <2> QED
      BY <1>0, <1>1, <2>1, HandlerPreserves DEF tables
  <1>2. CASE \/ \E r \in Requests : Refused(h, r)
             \/ HandlerFails(h)
    <2>1. handlers' = [handlers EXCEPT ![h] = Free] /\ UNCHANGED <<tables, page>>
      BY <1>2 DEF Refused, HandlerFails
    <2>2. HandlerStates' /\ NodeWritten'
      BY <2>1 DEF HandlerStates, NodeWritten, Free, tables
    <2>3. AnsweredIsStored'
      BY <2>1 DEF HandlerStates, AnsweredIsStored, Stored, Free, tables
    <2> QED
      BY <1>1, <2>1, <2>2, <2>3
  <1>3. ASSUME NEW r \in Requests, Received(h, r) PROVE WorkerInv'
    <2>1. /\ handlers' = [handlers EXCEPT ![h] = [pc |-> "upsert", request |-> r]]
          /\ UNCHANGED <<tables, page>>
      BY <1>3 DEF Received, FirstStep
    <2>2. HandlerStates' /\ NodeWritten'
      BY <2>1 DEF HandlerStates, NodeWritten, tables
    <2>3. AnsweredIsStored'
      BY <2>1 DEF HandlerStates, AnsweredIsStored, Stored, tables
    <2> QED
      BY <1>1, <2>1, <2>2, <2>3
  <1>4. ASSUME NEW step \in {"batch", "answer", "accepted"}, Continues(h, step),
               handlers[h].pc \in {"upsert", "batch", "answer"}
        PROVE  /\ HandlerStates'
               /\ handlers'[h].pc = step /\ handlers'[h].request = handlers[h].request
               /\ handlers[h].request \in Requests
               /\ \A g \in Handler : g # h => handlers'[g] = handlers[g]
    BY <1>4 DEF HandlerStates, Continues, Free
  <1>5. CASE UpsertNode(h)
    <2> DEFINE r == handlers[h].request
    <2>1. /\ handlers[h].pc = "upsert" /\ Continues(h, "batch")
          /\ edge_nodes' = edge_nodes \cup {r.node_id}
          /\ UNCHANGED <<points, page>>
      BY <1>5 DEF UpsertNode
    <2>2. HandlerStates' /\ NodeWritten' /\ r \in Requests
      BY <1>4, <2>1 DEF NodeWritten
    <2>3. AnsweredIsStored'
      BY <1>4, <2>1 DEF AnsweredIsStored, Stored
    <2>4. PointsHaveNode' /\ edge_nodes' \subseteq {q.node_id : q \in Requests}
      BY <1>0, <2>1, <2>2 DEF PointsHaveNode
    <2> QED
      BY <1>0, <2>1, <2>2, <2>3, <2>4, HandlerPreserves
  <1>6. CASE BatchInsert(h)
    <2>1. /\ handlers[h].pc = "batch" /\ Continues(h, "answer")
          /\ points' \in Committed(handlers[h].request)
          /\ UNCHANGED <<edge_nodes, page>>
      BY <1>6 DEF BatchInsert
    <2>2. PICK r \in Requests : r = handlers[h].request
      BY <1>4, <2>1
    <2>3. HandlerStates' /\ NodeWritten'
      BY <1>4, <2>1 DEF NodeWritten
    <2>4. points' = Ingest!Inserted(r.samples)
      BY <2>1, <2>2, BatchIsInserted DEF Committed
    <2>5. /\ points \subseteq points'
          /\ \A p, q \in points' : KeyOf(p) = KeyOf(q) => p = q
          /\ \A p \in points' : p \in points \/ p.node_id = r.node_id
          /\ Stored(r)'
      BY <1>0, <2>4, InsertedIsSound
    <2>6. AnsweredIsStored'
      <3>1. \A g \in Handler : handlers[g].pc \in {"answer", "accepted"}
                                => Stored(handlers[g].request)
        BY DEF AnsweredIsStored
      <3> QED
        BY <1>4, <2>1, <2>2, <2>5, <3>1 DEF AnsweredIsStored, Stored, Complete
    <2>7. PointsHaveNode'
      BY <2>1, <2>2, <2>5 DEF PointsHaveNode, NodeWritten
    <2> QED
      BY <1>0, <2>1, <2>3, <2>5, <2>6, <2>7, HandlerPreserves
  <1>7. CASE Accepts(h)
    <2>1. /\ handlers[h].pc = "answer" /\ Continues(h, "accepted")
          /\ UNCHANGED <<tables, page>>
      BY <1>7 DEF Accepts, AnswersAt
    <2>2. HandlerStates' /\ NodeWritten'
      BY <1>4, <2>1 DEF NodeWritten, tables
    <2>3. AnsweredIsStored'
      BY <1>4, <2>1 DEF AnsweredIsStored, Stored, tables
    <2> QED
      BY <1>1, <2>1, <2>2, <2>3
  <1> QED
    BY <1>2, <1>3, <1>5, <1>6, <1>7

(***************************************************************************)
(* Every step of fetchData() preserves the invariant.                      *)
(***************************************************************************)
LEMMA RefreshStepPreserves ==
    ASSUME WorkerInv, NEW f \in Refresh, RefreshStep(f) \/ RefreshFails(f)
    PROVE  WorkerInv'
  <1>1. UNCHANGED <<handlers, tables>>
    BY DEF RefreshStep, RefreshFails, StartRefresh, QueryNodes, QueryData, Render
  <1>2. RefreshStates'
    <2> USE <1>1 DEF WorkerInv, RefreshStates, tables
    <2>1. CASE StartRefresh(f)
      BY <2>1 DEF StartRefresh
    <2>2. CASE QueryNodes(f)
      BY <2>2 DEF QueryNodes
    <2>3. CASE QueryData(f)
      BY <2>3 DEF QueryData, Newest
    <2>4. CASE Render(f)
      BY <2>4 DEF Render, NoRefresh
    <2>5. CASE RefreshFails(f)
      BY <2>5 DEF RefreshFails, NoRefresh
    <2> QED
      BY <2>1, <2>2, <2>3, <2>4, <2>5 DEF RefreshStep
  <1> QED
    BY <1>1, <1>2, PagePreserves

(***************************************************************************)
(* Every step of a handler, of the page and of the failures keeps the      *)
(* invariant.                                                              *)
(***************************************************************************)
LEMMA StepPreserves == WorkerInv /\ [Next]_vars => WorkerInv'
  <1> SUFFICES ASSUME WorkerInv, [Next]_vars PROVE WorkerInv'
    OBVIOUS
  <1>1. CASE UNCHANGED vars
    <2>1. RefreshStates'
      BY <1>1 DEF vars, page, tables, WorkerInv, RefreshStates
    <2> QED
      BY <1>1, <2>1, PagePreserves DEF vars
  <1> QED
    BY <1>1, HandlerStepPreserves, RefreshStepPreserves DEF Next

(***************************************************************************)
(* The invariant of the Worker holds in every state.                       *)
(***************************************************************************)
LEMMA InvHolds == Spec => []WorkerInv
  BY InitEstablishes, StepPreserves, PTL DEF Spec
-----------------------------------------------------------------------------
(***************************************************************************)
(* Handlers, tables and page stay well formed, with at most one point for  *)
(* a key (telemetry_points).                                               *)
(***************************************************************************)
THEOREM TypeCorrect == Spec => []TypeOK
  <1>1. WorkerInv => TypeOK
    BY DEF WorkerInv
  <1> QED
    BY <1>1, InvHolds, PTL

(***************************************************************************)
(* The foreign key of telemetry_points holds throughout: no interleaving   *)
(* and no death of an isolate stores a point before its node.              *)
(***************************************************************************)
THEOREM NodeBeforePoints == Spec => []PointsHaveNode
  <1>1. WorkerInv => PointsHaveNode
    BY DEF WorkerInv
  <1> QED
    BY <1>1, InvHolds, PTL

(***************************************************************************)
(* A 202 of handleTelemetry() means that every complete sample is stored.  *)
(***************************************************************************)
THEOREM Accepted202 == Spec => []AcceptedIsStored
  <1>1. WorkerInv => AcceptedIsStored
    BY DEF WorkerInv, AnsweredIsStored, Stored, AcceptedIsStored
  <1> QED
    BY <1>1, InvHolds, PTL

(***************************************************************************)
(* The handlers, await by await, implement the ingest that                 *)
(* TelemetryRuntime assumes of the server.                                 *)
(***************************************************************************)
THEOREM WorkerImplementsIngest == Spec => ImplementsIngest
  <1>1. Init => Ingest!IngestInit
    BY DEF Init
  <1>2. WorkerInv /\ [Next]_vars
          => [\E r \in Requests : Ingest!handleTelemetry(r.samples)]_points
    <2> SUFFICES ASSUME WorkerInv, [Next]_vars, points' # points
                 PROVE  \E r \in Requests : Ingest!handleTelemetry(r.samples)
      OBVIOUS
    <2>1. PICK h \in Handler : BatchInsert(h)
      BY DEF Next, vars, tables, Refused, Received, UpsertNode, HandlerFails, Accepts, RefreshStep,
             RefreshFails, StartRefresh, QueryNodes, QueryData, Render
    <2>2. PICK r \in Requests : r = handlers[h].request
      BY <2>1 DEF BatchInsert, WorkerInv, HandlerStates, Free
    <2> QED
      BY <2>1, <2>2, BatchIsInserted DEF BatchInsert, Committed, Ingest!handleTelemetry
  <1> QED
    BY <1>1, <1>2, InvHolds, PTL DEF Spec, ImplementsIngest
=============================================================================

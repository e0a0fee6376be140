------------------------------- MODULE Worker -------------------------------
(***************************************************************************)
(* The Cloudflare Worker (workers/bossa-worker/src/index.ts) at the grain  *)
(* of its awaits: telemetry requests, also repeated ones, handled at the   *)
(* same time in isolates that may die at any await, and a dashboard whose  *)
(* refreshes may overlap.  A statement, and a DB.batch, is a transaction.  *)
(***************************************************************************)
EXTENDS Naturals, Sequences, FiniteSets

CONSTANTS Requests,         \* [bearer, valid, node_id, samples]: POST bodies
          Handler,          \* requests in progress at a time
          Refresh,          \* fetchData() calls in progress at a time
          Limit,            \* rows of /api/v1/data
          MaxFailures       \* bound: refreshes that fail

(***************************************************************************)
(* A sample: complete when channel_id, timestamp and unit are there and    *)
(* value is not undefined; the value may be null all the same, which the   *)
(* table refuses.                                                          *)
(***************************************************************************)
IsSample(s) ==
    /\ {s.complete, s.null} \subseteq BOOLEAN
    /\ s.timestamp \in Nat

ASSUME RequestAssumption ==
    /\ \A r \in Requests :
          /\ {r.bearer, r.valid} \subseteq BOOLEAN
          /\ r.samples \in Seq({r.samples[k] : k \in DOMAIN r.samples})
          /\ \A k \in DOMAIN r.samples : /\ IsSample(r.samples[k])
                                         /\ r.samples[k].node_id = r.node_id
    /\ Limit \in Nat \ {0} /\ MaxFailures \in Nat

VARIABLES handlers,         \* [pc, request] of each handler
          edge_nodes,       \* the table of nodes, by id
          points,           \* the table telemetry_points
          refreshes,        \* [pc, nodes, data] of each fetchData()
          shown,            \* what the dashboard shows: [nodes, data]
          failures          \* history: refreshes that failed

tables == <<edge_nodes, points>>
page   == <<refreshes, shown, failures>>
vars   == <<handlers, tables, page>>

KeyOf(s) == <<s.node_id, s.channel_id, s.timestamp>>

Complete(s) == s.complete

Ingest == INSTANCE IngestWorker

Free == [pc |-> "free"]

NoRefresh == [pc |-> "idle", nodes |-> {}, data |-> {}]

Init ==
    /\ handlers = [h \in Handler |-> Free]
    /\ edge_nodes = {} /\ Ingest!IngestInit
    /\ refreshes = [f \in Refresh |-> NoRefresh]
    /\ shown = [nodes |-> {}, data |-> {}] /\ failures = 0
-----------------------------------------------------------------------------
(***************************************************************************)
(* handleTelemetry().  The answers 401 and 400 come before the first       *)
(* await on the database.  Only of a 202 the request is remembered.        *)
(***************************************************************************)
Available(h) == handlers[h].pc \in {"free", "accepted"}

Continues(h, step) == handlers' = [handlers EXCEPT ![h].pc = step]

Refused(h, r) ==
    /\ Available(h)
    /\ ~r.bearer \/ ~r.valid
    /\ handlers' = [handlers EXCEPT ![h] = Free]
    /\ UNCHANGED <<tables, page>>

\* Mutant: the node is not written first.
FirstStepBatch == "batch"

FirstStep == "upsert"

Received(h, r) ==
    /\ Available(h)
    /\ r.bearer /\ r.valid
    /\ handlers' = [handlers EXCEPT ![h] = [pc |-> FirstStep, request |-> r]]
    /\ UNCHANGED <<tables, page>>

UpsertNode(h) ==
    /\ handlers[h].pc = "upsert"
    /\ edge_nodes' = edge_nodes \cup {handlers[h].request.node_id}
    /\ Continues(h, "batch")
    /\ UNCHANGED <<points, page>>

\* The samples of a request, by position, that become statements of the batch.
statements(r) == {k \in DOMAIN r.samples : Complete(r.samples[k])}

Refusable(r) == \E k \in statements(r) : r.samples[k].null

\* Mutant: the table has no primary key.
AfterInsertAlways(s, table) == table \cup {s}

AfterInsert(s, table) ==
    IF \E p \in table : KeyOf(p) = KeyOf(s) THEN table ELSE table \cup {s}

\* The table after the statements among the first n samples, one after the other.
AfterInserts(r, n) ==
    LET after[k \in 0..n] ==
          IF k = 0 THEN points
          ELSE IF k \in statements(r) THEN AfterInsert(r.samples[k], after[k - 1])
          ELSE after[k - 1]
    IN  after[n]

\* Mutant: the statements are run one by one, and the isolate may die in between.
CommittedSome(r) == {AfterInserts(r, n) : n \in 0..Len(r.samples)}

Committed(r) == {AfterInserts(r, Len(r.samples))}

BatchInsert(h) ==
    /\ handlers[h].pc = "batch" /\ ~Refusable(handlers[h].request)
    /\ points' \in Committed(handlers[h].request)
    /\ Continues(h, "answer")
    /\ UNCHANGED <<edge_nodes, page>>

(***************************************************************************)
(* An exception of the database, or the end of the isolate; the client     *)
(* sees a 500 or nothing.                                                  *)
(***************************************************************************)
HandlerFails(h) ==
    /\ handlers[h].pc \in {"upsert", "batch", "answer"}
    /\ handlers' = [handlers EXCEPT ![h] = Free]
    /\ UNCHANGED <<tables, page>>

\* Mutant: the batch is not awaited before the answer.
AnswersAtUnawaited == {"batch", "answer"}

AnswersAt == {"answer"}

Accepts(h) ==
    /\ handlers[h].pc \in AnswersAt
    /\ Continues(h, "accepted")
    /\ UNCHANGED <<tables, page>>
-----------------------------------------------------------------------------
(***************************************************************************)
(* fetchData(), every five seconds, whether or not the one before is over. *)
(* Its two requests are answered in any order; it renders when it has both *)
(* answers, and not at all when one of them fails.                         *)
(***************************************************************************)
StartRefresh(f) ==
    /\ refreshes[f].pc = "idle"
    /\ refreshes' = [refreshes EXCEPT ![f].pc = "both"]
    /\ UNCHANGED <<handlers, tables, shown, failures>>

QueryNodes(f) ==
    /\ refreshes[f].pc \in {"both", "nodes"}
    /\ refreshes' = [refreshes EXCEPT ![f].nodes = edge_nodes,
                                      ![f].pc = IF @ = "both" THEN "data" ELSE "render"]
    /\ UNCHANGED <<handlers, tables, shown, failures>>

\* Mutant: ORDER BY timestamp without DESC.
Oldest(table) ==
    {S \in SUBSET table :
       /\ Cardinality(S) <= Limit /\ (S = table \/ Cardinality(S) = Limit)
       /\ \A p \in S, q \in table \ S : p.timestamp <= q.timestamp}

Newest(table) ==
    {S \in SUBSET table :
       /\ Cardinality(S) <= Limit /\ (S = table \/ Cardinality(S) = Limit)
       /\ \A p \in S, q \in table \ S : p.timestamp >= q.timestamp}

QueryData(f) ==
    /\ refreshes[f].pc \in {"both", "data"}
    /\ \E S \in Newest(points) :
          refreshes' = [refreshes EXCEPT ![f].data = S,
                                         ![f].pc = IF @ = "both" THEN "nodes" ELSE "render"]
    /\ UNCHANGED <<handlers, tables, shown, failures>>

Render(f) ==
    /\ refreshes[f].pc = "render"
    /\ shown' = [nodes |-> refreshes[f].nodes, data |-> refreshes[f].data]
    /\ refreshes' = [refreshes EXCEPT ![f] = NoRefresh]
    /\ UNCHANGED <<handlers, tables, failures>>

RefreshFails(f) ==
    /\ refreshes[f].pc # "idle" /\ failures < MaxFailures
    /\ failures' = failures + 1
    /\ refreshes' = [refreshes EXCEPT ![f] = NoRefresh]
    /\ UNCHANGED <<handlers, tables, shown>>

RefreshStep(f) == StartRefresh(f) \/ QueryNodes(f) \/ QueryData(f) \/ Render(f)

Next ==
    \/ \E h \in Handler :
          \/ \E r \in Requests : Refused(h, r) \/ Received(h, r)
          \/ UpsertNode(h) \/ BatchInsert(h) \/ HandlerFails(h) \/ Accepts(h)
    \/ \E f \in Refresh : RefreshStep(f) \/ RefreshFails(f)

Spec == Init /\ [][Next]_vars

(***************************************************************************)
(* The page's timer fires and the browser runs what it started.  Nothing   *)
(* is assumed of the nodes and of the isolates.                            *)
(***************************************************************************)
FairSpec == Spec /\ \A f \in Refresh : WF_vars(RefreshStep(f))
-----------------------------------------------------------------------------
(***************************************************************************)
(* A handler has a request from the moment it starts; the tables hold what *)
(* requests carried, at most one point for a key.                          *)
(***************************************************************************)
TypeOK ==
    /\ \A h \in Handler :
          /\ handlers[h].pc \in {"free", "upsert", "batch", "answer", "accepted"}
          /\ handlers[h].pc # "free" => handlers[h].request \in Requests
    /\ edge_nodes \subseteq {r.node_id : r \in Requests}
    /\ \A p, q \in points : KeyOf(p) = KeyOf(q) => p = q
    /\ \A f \in Refresh : refreshes[f].pc \in {"idle", "both", "nodes", "data", "render"}
    /\ shown.nodes \subseteq edge_nodes

(***************************************************************************)
(* REFERENCES edge_nodes(node_id): a point is never stored before its      *)
(* node, whatever dies between the two statements.                         *)
(***************************************************************************)
PointsHaveNode == \A p \in points : p.node_id \in edge_nodes

(***************************************************************************)
(* A 202 means that every complete sample of the request has a point, its  *)
(* own or that of an earlier sample with its key.                          *)
(***************************************************************************)
AcceptedIsStored ==
    \A h \in Handler :
       handlers[h].pc = "accepted" =>
          \A k \in DOMAIN handlers[h].request.samples :
             LET s == handlers[h].request.samples[k] IN
             Complete(s) => \E p \in points : KeyOf(p) = KeyOf(s)

(***************************************************************************)
(* Repeated and concurrent requests come to what TelemetryRuntime takes    *)
(* the server to do: each takes a whole request into the table at once, or *)
(* leaves the table alone, and no point ever changes.                      *)
(***************************************************************************)
ImplementsIngest ==
    /\ Ingest!IngestInit
    /\ [][\E r \in Requests : Ingest!handleTelemetry(r.samples)]_points

(***************************************************************************)
(* Once the tables no longer change, the dashboard comes to show the       *)
(* nodes and the latest points for good, whatever older refreshes were     *)
(* still under way.                                                        *)
(***************************************************************************)
ShowsLatest ==
    /\ shown.nodes = edge_nodes
    /\ shown.data \subseteq points
    /\ shown.data = points \/ Cardinality(shown.data) = Limit
    /\ \A p \in shown.data, q \in points \ shown.data : p.timestamp >= q.timestamp

DashboardCatchesUp == <>[]ShowsLatest
=============================================================================

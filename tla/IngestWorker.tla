---------------------------- MODULE IngestWorker ----------------------------
(***************************************************************************)
(* The Cloudflare Worker's telemetry endpoint and its D1 table             *)
(* telemetry_points (workers/bossa-worker/src/index.ts).  A point is       *)
(* written together with the whole batch (DB.batch is one transaction), or *)
(* left alone when its key is already there.                               *)
(***************************************************************************)
EXTENDS Naturals, Sequences

CONSTANTS KeyOf(_),         \* PRIMARY KEY: (channel_id, timestamp) as sent
          Complete(_)       \* channel_id, timestamp, value and unit are all there

VARIABLE points             \* the samples the table holds

IngestInit == points = {}

(***************************************************************************)
(* INSERT ... ON CONFLICT(node_id, channel_id, timestamp) DO NOTHING for   *)
(* every sample of the request in turn: a key that is in the table, or     *)
(* that an earlier sample brings, is left alone.  A sample with a missing  *)
(* or empty field is passed over, and the request is accepted all the same.*)
(***************************************************************************)
Inserts(batch, k) ==
    /\ Complete(batch[k])
    /\ \A p \in points : KeyOf(p) # KeyOf(batch[k])
    /\ \A j \in 1..(k - 1) : Complete(batch[j]) => KeyOf(batch[j]) # KeyOf(batch[k])

Inserted(batch) ==
    points \cup {batch[k] : k \in {i \in DOMAIN batch : Inserts(batch, i)}}

handleTelemetry(batch) == points' = Inserted(batch)
=============================================================================

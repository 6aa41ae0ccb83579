--------------------------- MODULE DocumentLifecycle ---------------------------
(***************************************************************************)
(* What document_extractions.py promises about one uploaded document: its  *)
(* row has "a real lifecycle (queued -> processing -> done|failed)".       *)
(*                                                                         *)
(* `live` is the set of documents some coroutine of the running process    *)
(* still owns.  Only an owner writes the row; it concludes the document    *)
(* at most once and lets go of it in the same step.  A row nobody owns     *)
(* never changes again: that is both the promise that a verdict is final   *)
(* and the price of keeping the queues in memory, a row left at 'queued'   *)
(* or 'processing' by a dead process.                                      *)
(***************************************************************************)
CONSTANT Docs

VARIABLES row, live

lifecycleVars == <<row, live>>

Terminal == {"done", "failed"}

Init == row = [d \in Docs |-> "absent"] /\ live = {}

\* The upload is taken on; without a database there is no row to show for it,
\* and one whose INSERT raised has no owner, whatever became of its row.
Accept(d) ==
  /\ d \notin live /\ row[d] = "absent"
  /\ live' \in {live, live \cup {d}}
  /\ \/ row' = [row EXCEPT ![d] = "queued"]
     \/ row' = row

Start(d) ==
  /\ d \in live /\ row[d] = "queued"
  /\ row' = [row EXCEPT ![d] = "processing"]
  /\ live' \in {live, live \ {d}}

Conclude(d, verdict) ==
  /\ d \in live /\ row[d] \in {"queued", "processing"}
  /\ row' = [row EXCEPT ![d] = verdict]
  /\ live' = live \ {d}

\* The owner gives up without a row change: the write was lost or skipped.
Abandon(d) ==
  /\ d \in live
  /\ live' = live \ {d}
  /\ UNCHANGED row

\* The process ends; a write already on its way may still land for any owner.
Die ==
  /\ live' = {}
  /\ row' \in [Docs -> {"absent", "queued", "processing"} \cup Terminal]
  /\ \A d \in Docs :
       \/ row'[d] = row[d]
       \/ d \in live /\ row[d] = "queued" /\ row'[d] = "processing"
       \/ d \in live /\ row[d] \in {"queued", "processing"} /\ row'[d] \in Terminal

Next ==
  \/ \E d \in Docs :
       \/ Accept(d) \/ Start(d) \/ Abandon(d)
       \/ \E verdict \in Terminal : Conclude(d, verdict)
  \/ Die

Spec == Init /\ [][Next]_lifecycleVars
================================================================================

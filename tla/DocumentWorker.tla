---------------------------- MODULE DocumentWorker ----------------------------
(***************************************************************************)
(* The asynchronous PDF pipeline: api.py's upload-caiet-async route,       *)
(* workers/document_tasks.py (DocumentTaskRunner and its thread pool) and  *)
(* the rows of document_extractions.py.                                    *)
(*                                                                         *)
(* Three kinds of actors interleave.  Coroutines on one event loop admit,  *)
(* route, dequeue and record documents, and each await splits an action.   *)
(* Pool threads run classification and extraction jobs, one at a time, in  *)
(* submission order.  The per-document deadline fires at any moment of     *)
(* the extraction, and abandons the await but not the thread behind it.    *)
(* The process may end at any step: memory goes, rows stay.                *)
(***************************************************************************)
EXTENDS Integers, Sequences, FiniteSets

CONSTANTS
  Docs,              \* uploads; every upload gets a fresh uuid
  Size,              \* Size[d]: bytes of the PDF (units of the budget)
  Digital,           \* the documents classify_pdf calls "digital"
  Limit,             \* Limit[r]: FAST_TEXT_MAX_CONCURRENT, HEAVY_OCR_MAX_CONCURRENT
  PoolThreads,       \* DOCUMENT_POOL_THREADS
  MaxDocumentBytes,  \* MAX_DOCUMENT_BYTES
  MaxResident,       \* QUEUE_MAX_RESIDENT_BYTES
  QueueMaxSize,      \* QUEUE_MAXSIZE, of each queue
  DbFaults           \* how a row write may go wrong besides landing

Routes == {"fast_text", "heavy_ocr"}

ASSUME DocsAssumption == IsFiniteSet(Docs) /\ Digital \subseteq Docs
ASSUME SizeAssumption == Size \in [Docs -> Nat \ {0}]
ASSUME LimitAssumption == Limit \in [Routes -> Nat \ {0}]
ASSUME PoolAssumption == PoolThreads \in Nat \ {0}
ASSUME BudgetAssumption ==
  MaxDocumentBytes \in Nat /\ MaxResident \in Nat /\ QueueMaxSize \in Nat
ASSUME FaultAssumption == DbFaults \subseteq {"skipped", "raised"}

VARIABLES
  up,         \* the web process is running
  row,        \* row[d]: document_extractions.status, the only durable state
  phase,      \* phase[d]: which await the coroutine owning d is at
  resident,   \* _resident_bytes, the admission counter
  queue,      \* queue[r]: fast_text_queue, heavy_ocr_queue
  waiters,    \* waiters[r]: spawned tasks waiting on the semaphore, FIFO
  pending,    \* work items of the thread pool not started yet, FIFO
  running     \* documents whose job occupies a pool thread

vars == <<up, row, phase, resident, queue, waiters, pending, running>>

--------------------------------------------------------------------------------
RouteOf(d) == IF d \in Digital THEN "fast_text" ELSE "heavy_ocr"

\* Phases in which the item's size is counted in _resident_bytes.
AdmittedPhases == {"classifying", "queued", "waiting", "starting", "running",
                   "saving_done", "saving_failed"}

\* Mutant: the slot of a finished document is never given back.
HolderPhasesLeaked == {"starting", "running", "saving_done", "saving_failed", "finished"}

\* Phases inside `async with self._<route>_semaphore`.
HolderPhases == {"starting", "running", "saving_done", "saving_failed"}

\* Phases of a document no coroutine owns (any more).
IdlePhases == {"absent", "finished", "lost"}

Phases == AdmittedPhases \cup IdlePhases \cup {"arrived", "rejecting"}

Statuses == {"absent", "queued", "processing", "done", "failed"}

Admitted == {d \in Docs : phase[d] \in AdmittedPhases}
Holders(r) == {d \in Docs : phase[d] \in HolderPhases /\ RouteOf(d) = r}

\* A job nobody awaits: its document is past the await that submitted it.
Detached(d) == phase[d] \notin {"classifying", "running"}

\* The bytes of a set of documents, none above the ceiling, counted one by
\* one: <<d, i>> is the i-th byte of d.
ByteSet(D) == {b \in D \X (1..MaxDocumentBytes) : b[2] <= Size[b[1]]}
BytesOf(D) == Cardinality(ByteSet(D))

AtLeastZero(n) == IF n < 0 THEN 0 ELSE n

--------------------------------------------------------------------------------
(* Row writes.  with_connection() yields None without a database and the  *)
(* write is skipped; a query may raise, before or after it took effect.   *)

Outcomes == {"landed"} \cup DbFaults

Landed(outcome) ==
  CASE outcome = "landed"  -> {TRUE}
    [] outcome = "skipped" -> {FALSE}
    [] outcome = "raised"  -> {TRUE, FALSE}

RowAfter(d, status, landed) ==
  IF landed /\ row[d] # "absent" THEN [row EXCEPT ![d] = status] ELSE row

WriteRow(d, status, outcome) ==
  \E landed \in Landed(outcome) : row' = RowAfter(d, status, landed)

--------------------------------------------------------------------------------
Init ==
  /\ up = TRUE
  /\ row = [d \in Docs |-> "absent"]
  /\ phase = [d \in Docs |-> "absent"]
  /\ resident = 0
  /\ queue = [r \in Routes |-> <<>>]
  /\ waiters = [r \in Routes |-> <<>>]
  /\ pending = <<>>
  /\ running = {}

Goto(d, p) == phase' = [phase EXCEPT ![d] = p]

Release(d) == resident' = AtLeastZero(resident - Size[d])

\* POST /upload-caiet-async: 413 above the ceiling, create_queued_extraction,
\* then enqueue() as a task of its own.  A raising INSERT is a 500 and no task,
\* whether the row is there or not.
Upload(d) ==
  /\ up /\ phase[d] = "absent"
  /\ Size[d] <= MaxDocumentBytes
  /\ \/ row' = [row EXCEPT ![d] = "queued"] /\ Goto(d, "arrived")
     \/ "skipped" \in DbFaults /\ row' = row /\ Goto(d, "arrived")
     \/ /\ "raised" \in DbFaults /\ Goto(d, "finished")
        /\ row' \in {row, [row EXCEPT ![d] = "queued"]}
  /\ UNCHANGED <<up, resident, queue, waiters, pending, running>>

\* Mutant: the size of the newcomer is not part of the check.
CanReserveIfNotFull(d) == resident < MaxResident

CanReserve(d) == resident + Size[d] <= MaxResident

\* enqueue() up to its first await: reserve, then submit the classification.
Admit(d) ==
  /\ up /\ phase[d] = "arrived"
  /\ Size[d] <= MaxDocumentBytes /\ CanReserve(d)
  /\ resident' = resident + Size[d]
  /\ pending' = Append(pending, d)
  /\ Goto(d, "classifying")
  /\ UNCHANGED <<up, row, queue, waiters, running>>

\* Mutant: a refused document is dropped, not recorded as failed.
RefuseSilently(d) ==
  /\ up /\ phase[d] = "arrived"
  /\ Size[d] > MaxDocumentBytes \/ ~CanReserve(d)
  /\ Goto(d, "finished")
  /\ UNCHANGED <<up, row, resident, queue, waiters, pending, running>>

\* enqueue() refusing: _reject() records the document as failed.
Refuse(d) ==
  /\ up /\ phase[d] = "arrived"
  /\ Size[d] > MaxDocumentBytes \/ ~CanReserve(d)
  /\ Goto(d, "rejecting")
  /\ UNCHANGED <<up, row, resident, queue, waiters, pending, running>>

\* A free pool thread takes the oldest work item.  One whose future was
\* cancelled while it waited is dropped instead of run.
ThreadTakesJob ==
  /\ up /\ pending # <<>> /\ Cardinality(running) < PoolThreads
  /\ pending' = Tail(pending)
  /\ running' = IF Detached(Head(pending)) THEN running
                ELSE running \cup {Head(pending)}
  /\ UNCHANGED <<up, row, phase, resident, queue, waiters>>

\* The classification returns and enqueue() routes the item ...
Route(d) ==
  LET r == RouteOf(d) IN
  /\ up /\ phase[d] = "classifying" /\ d \in running
  /\ Len(queue[r]) < QueueMaxSize
  /\ queue' = [queue EXCEPT ![r] = Append(@, d)]
  /\ running' = running \ {d}
  /\ Goto(d, "queued")
  /\ UNCHANGED <<up, row, resident, waiters, pending>>

\* Mutant: the QueueFull handler keeps the reservation.
RouteQueueFullKeepsBytes(d) ==
  /\ up /\ phase[d] = "classifying" /\ d \in running
  /\ Len(queue[RouteOf(d)]) >= QueueMaxSize
  /\ running' = running \ {d}
  /\ Goto(d, "rejecting")
  /\ UNCHANGED <<up, row, resident, queue, waiters, pending>>

\* ... or finds the queue full, returns the reservation and rejects.
\* classify_pdf never raises, so the broader handler beside it stays idle.
RouteQueueFull(d) ==
  /\ up /\ phase[d] = "classifying" /\ d \in running
  /\ Len(queue[RouteOf(d)]) >= QueueMaxSize
  /\ running' = running \ {d}
  /\ Release(d)
  /\ Goto(d, "rejecting")
  /\ UNCHANGED <<up, row, queue, waiters, pending>>

\* The consumer loop dequeues at once and spawns the document's task.
Consume(r) ==
  LET d == Head(queue[r]) IN
  /\ up /\ queue[r] # <<>>
  /\ queue' = [queue EXCEPT ![r] = Tail(@)]
  /\ waiters' = [waiters EXCEPT ![r] = Append(@, d)]
  /\ Goto(d, "waiting")
  /\ UNCHANGED <<up, row, resident, pending, running>>

\* The semaphore wakes its longest waiter, which goes on to mark_processing().
Acquire(r) ==
  LET d == Head(waiters[r]) IN
  /\ up /\ waiters[r] # <<>>
  /\ Cardinality(Holders(r)) < Limit[r]
  /\ waiters' = [waiters EXCEPT ![r] = Tail(@)]
  /\ Goto(d, "starting")
  /\ UNCHANGED <<up, row, resident, queue, pending, running>>

\* mark_processing() came back; _execute() enters the pipeline, which submits
\* its first job.  Without tesseract or poppler the heavy one fails at once.
BeginPipeline(d) ==
  /\ up /\ phase[d] = "starting"
  /\ \E outcome \in Outcomes \ {"raised"} : WriteRow(d, "processing", outcome)
  /\ \/ /\ Goto(d, "running")
        /\ pending' = Append(pending, d)
     \/ /\ RouteOf(d) = "heavy_ocr"
        /\ Goto(d, "saving_failed")
        /\ UNCHANGED pending
  /\ UNCHANGED <<up, resident, queue, waiters, running>>

\* mark_processing() is outside _execute's try: an exception ends the task.
StartRaises(d) ==
  /\ up /\ phase[d] = "starting"
  /\ "raised" \in DbFaults /\ WriteRow(d, "processing", "raised")
  /\ Release(d)
  /\ Goto(d, "finished")
  /\ UNCHANGED <<up, queue, waiters, pending, running>>

\* Mutant: the next batch is never submitted.
NextJobLost(d) ==
  /\ up /\ phase[d] = "running" /\ d \in running
  /\ RouteOf(d) = "heavy_ocr"
  /\ running' = running \ {d}
  /\ UNCHANGED <<up, row, phase, resident, queue, waiters, pending>>

\* A heavy pipeline's job returns and the next one (a batch to render, a page
\* to read) goes to the back of the pool's queue.
NextJob(d) ==
  /\ up /\ phase[d] = "running" /\ d \in running
  /\ RouteOf(d) = "heavy_ocr"
  /\ running' = running \ {d}
  /\ pending' = Append(pending, d)
  /\ UNCHANGED <<up, row, phase, resident, queue, waiters>>

\* The last job returns, or one raises: the pipeline has its result.
PipelineEnds(d) ==
  /\ up /\ phase[d] = "running" /\ d \in running
  /\ running' = running \ {d}
  /\ \E verdict \in {"saving_done", "saving_failed"} : Goto(d, verdict)
  /\ UNCHANGED <<up, row, resident, queue, waiters, pending>>

\* wait_for gives up.  Whatever job is in the pool is detached: a waiting one
\* is cancelled, a running one goes on to its next token.check().
Timeout(d) ==
  /\ up /\ phase[d] = "running"
  /\ Goto(d, "saving_failed")
  /\ UNCHANGED <<up, row, resident, queue, waiters, pending, running>>

\* Mutant: the thread records its result itself, however late it is.
DetachedRecords(d) ==
  /\ up /\ d \in running /\ Detached(d)
  /\ running' = running \ {d}
  /\ row' = RowAfter(d, "done", TRUE)
  /\ UNCHANGED <<up, phase, resident, queue, waiters, pending>>

\* The detached thread meets the cancelled token (or just finishes).
DetachedEnds(d) ==
  /\ up /\ d \in running /\ Detached(d)
  /\ running' = running \ {d}
  /\ UNCHANGED <<up, row, phase, resident, queue, waiters, pending>>

\* mark_result() from _execute(); then the semaphore and _finish().
SaveResult(d) ==
  /\ up /\ phase[d] \in {"saving_done", "saving_failed"}
  /\ \E outcome \in Outcomes :
       WriteRow(d, IF phase[d] = "saving_done" THEN "done" ELSE "failed", outcome)
  /\ Release(d)
  /\ Goto(d, "finished")
  /\ UNCHANGED <<up, queue, waiters, pending, running>>

\* Mutant: _reject() gives the bytes back too, and nothing clamps the counter.
SaveRejectionReleases(d) ==
  /\ up /\ phase[d] = "rejecting"
  /\ \E outcome \in Outcomes : WriteRow(d, "failed", outcome)
  /\ resident' = resident - Size[d]
  /\ Goto(d, "finished")
  /\ UNCHANGED <<up, queue, waiters, pending, running>>

\* mark_result() from _reject(); the document was never admitted or has
\* already given its bytes back.
SaveRejection(d) ==
  /\ up /\ phase[d] = "rejecting"
  /\ \E outcome \in Outcomes : WriteRow(d, "failed", outcome)
  /\ Goto(d, "finished")
  /\ UNCHANGED <<up, resident, queue, waiters, pending, running>>

\* The status the row write a coroutine is waiting for would leave.
InFlightStatus(d) ==
  CASE phase[d] = "starting"    -> "processing"
    [] phase[d] = "saving_done" -> "done"
    [] phase[d] \in {"saving_failed", "rejecting"} -> "failed"
    [] OTHER -> row[d]

\* stop() and exit, or a kill: consumers, tasks, queues and threads are gone.
\* stop() records nothing; a write already sent may land or not.
ProcessEnds ==
  /\ up
  /\ up' = FALSE
  /\ \E landed \in SUBSET Docs :
       row' = [d \in Docs |-> IF d \in landed /\ row[d] # "absent"
                              THEN InFlightStatus(d) ELSE row[d]]
  /\ phase' = [d \in Docs |-> IF phase[d] \in IdlePhases THEN phase[d] ELSE "lost"]
  /\ resident' = 0
  /\ queue' = [r \in Routes |-> <<>>]
  /\ waiters' = [r \in Routes |-> <<>>]
  /\ pending' = <<>>
  /\ running' = {}

\* start(): fresh queues and consumers; no row is looked at.
ProcessStarts ==
  /\ ~up
  /\ up' = TRUE
  /\ UNCHANGED <<row, phase, resident, queue, waiters, pending, running>>

LoopStep(d) ==
  \/ Admit(d) \/ Refuse(d) \/ Route(d) \/ RouteQueueFull(d)
  \/ BeginPipeline(d) \/ StartRaises(d) \/ PipelineEnds(d)
  \/ SaveResult(d) \/ SaveRejection(d)

Next ==
  \/ \E d \in Docs :
       \/ Upload(d) \/ LoopStep(d) \/ NextJob(d) \/ Timeout(d) \/ DetachedEnds(d)
  \/ \E r \in Routes : Consume(r) \/ Acquire(r)
  \/ ThreadTakesJob
  \/ ProcessEnds
  \/ ProcessStarts

Spec == Init /\ [][Next]_vars

(***************************************************************************)
(* Fairness.  The loop runs every ready coroutine (document_tasks.py keeps *)
(* strong references to them), idle threads take work, wait_for's deadline *)
(* does fire, and a job the deadline abandoned stops at its next           *)
(* token.check().  Nothing is assumed of uploads, of restarts, or of an    *)
(* extraction ever finishing by itself.                                    *)
(***************************************************************************)
Fairness ==
  /\ \A d \in Docs :
       /\ WF_vars(Admit(d) \/ Refuse(d))
       /\ WF_vars(Route(d) \/ RouteQueueFull(d))
       /\ WF_vars(BeginPipeline(d))
       /\ WF_vars(Timeout(d))
       /\ WF_vars(DetachedEnds(d))
       /\ WF_vars(SaveResult(d) \/ SaveRejection(d))
  /\ \A r \in Routes : WF_vars(Consume(r)) /\ WF_vars(Acquire(r))
  /\ WF_vars(ThreadTakesJob)

FairSpec == Spec /\ Fairness

--------------------------------------------------------------------------------
(* Properties.                                                             *)

TypeOK ==
  /\ up \in BOOLEAN
  /\ row \in [Docs -> Statuses]
  /\ phase \in [Docs -> Phases]
  /\ resident \in Nat
  /\ queue \in [Routes -> Seq(Docs)]
  /\ waiters \in [Routes -> Seq(Docs)]
  /\ pending \in Seq(Docs)
  /\ running \subseteq Docs

\* The admission counter is exactly the bytes of the documents in the
\* pipeline: every path out of it (result, rejection by a full queue, a
\* raising mark_processing, timeout) gives back what enqueue() reserved, once.
Accounting == resident = BytesOf(Admitted)

\* Reserving before the classification await keeps any burst of concurrent
\* uploads within QUEUE_MAX_RESIDENT_BYTES.
BudgetHonoured == BytesOf(Admitted) <= MaxResident

\* No admitted document is stranded: one that waits for a thread has its one
\* job in the pool, one that waits for the consumer or the semaphore is
\* there exactly once, and no document is in two places.
InPlace(d) ==
  LET Times(s) == Cardinality({i \in DOMAIN s : s[i] = d})
      Job == Times(pending) + (IF d \in running THEN 1 ELSE 0)
  IN /\ Job <= 1
     /\ phase[d] \in {"classifying", "running"} => Job = 1
     /\ \A r \in Routes :
          /\ Times(queue[r]) = IF phase[d] = "queued" /\ r = RouteOf(d) THEN 1 ELSE 0
          /\ Times(waiters[r]) = IF phase[d] = "waiting" /\ r = RouteOf(d) THEN 1 ELSE 0

NothingStranded == \A d \in Docs : InPlace(d)

\* A recorded verdict is final: the late answer of an abandoned thread, a
\* second recording or a restart never overwrites 'done' or 'failed'.
VerdictFinal ==
  [][\A d \in Docs : row[d] \in {"done", "failed"} => row'[d] = row[d]]_vars

\* With a database that answers, a document the pipeline is finished with
\* has its verdict on its row: refused, failed and timed-out ones too.
FinishedIsRecorded ==
  \A d \in Docs : phase[d] = "finished" => row[d] \in {"done", "failed"}

\* Every accepted upload leaves the pipeline, however slow its pages are and
\* however few threads there are, unless the process ends first.
EveryUploadConcludes ==
  \A d \in Docs : phase[d] = "arrived" ~> phase[d] \in {"finished", "lost"}

\* The rows behave as document_extractions.py says, with the coroutines that
\* own a document as its `live` owners.
Lifecycle == INSTANCE DocumentLifecycle
               WITH live <- {d \in Docs : phase[d] \notin IdlePhases}

ImplementsLifecycle == Lifecycle!Spec

--------------------------------------------------------------------------------
(* Claims of the repository's comments.                                    *)

\* document_tasks.py:120 "Secondary guard so a flood of very small PDFs can't
\* build an arbitrarily long queue": documents waiting for one route's
\* semaphore or for its consumer never outnumber QUEUE_MAXSIZE.
BacklogWithinQueueMaxSize ==
  \A r \in Routes : Len(queue[r]) + Len(waiters[r]) <= QueueMaxSize

================================================================================

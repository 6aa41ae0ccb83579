------------------------- MODULE DocumentWorkerProofs -------------------------
(***************************************************************************)
(* Proofs about DocumentWorker, for every set of documents and every       *)
(* limit: type correctness, the byte accounting of the admission control,  *)
(* that a verdict is final, which makes the module an implementation of    *)
(* DocumentLifecycle, that no document is stranded, and that what is       *)
(* finished is recorded when the database answers.                         *)
(***************************************************************************)
EXTENDS DocumentWorker, FiniteSetTheorems, TLAPS

(***************************************************************************)
(* Bytes of sets of documents.                                             *)
(***************************************************************************)
\* The bytes of any set of documents are finitely many.
LEMMA ByteSetFinite ==
  ASSUME NEW D \in SUBSET Docs
  PROVE  IsFiniteSet(ByteSet(D)) /\ BytesOf(D) \in Nat
<1>1. IsFiniteSet(D)
  BY FS_Subset, DocsAssumption
<1>2. IsFiniteSet(1..MaxDocumentBytes)
  BY FS_Interval, BudgetAssumption
<1>3. IsFiniteSet(D \X (1..MaxDocumentBytes))
  BY <1>1, <1>2, FS_Product
<1>4. ByteSet(D) \in SUBSET (D \X (1..MaxDocumentBytes))
  BY DEF ByteSet
<1>5. IsFiniteSet(ByteSet(D))
  BY <1>3, <1>4, FS_Subset
<1>6. QED
  BY <1>5, FS_CardinalityType DEF BytesOf

\* One document under the ceiling has Size[d] bytes.
LEMMA BytesOfOne ==
  ASSUME NEW d \in Docs, Size[d] <= MaxDocumentBytes
  PROVE  BytesOf({d}) = Size[d]
<1> DEFINE P == {d} \X (1..Size[d])
<1>0. Size[d] \in Nat \ {0} /\ MaxDocumentBytes \in Nat
  BY SizeAssumption, BudgetAssumption
<1>1. ByteSet({d}) = P
  <2>1. ByteSet({d}) \subseteq P
    <3>1. SUFFICES ASSUME NEW b \in {d} \X (1..MaxDocumentBytes), b[2] <= Size[b[1]]
                   PROVE  b \in P
      BY DEF ByteSet
    <3>2. b = <<b[1], b[2]>> /\ b[1] = d /\ b[2] \in 1..MaxDocumentBytes
      OBVIOUS
    <3>3. b[2] \in 1..Size[d]
      BY <1>0, <3>1, <3>2
    <3>4. QED
      BY <3>2, <3>3
  <2>2. P \subseteq ByteSet({d})
    <3>1. SUFFICES ASSUME NEW i \in 1..Size[d]
                   PROVE  <<d, i>> \in ByteSet({d})
      OBVIOUS
    <3>2. i \in 1..MaxDocumentBytes /\ i <= Size[d]
      BY <1>0
    <3>3. QED
      BY <3>2 DEF ByteSet
  <2>3. QED
    BY <2>1, <2>2
<1>2. IsFiniteSet({d}) /\ Cardinality({d}) = 1
  BY FS_Singleton
<1>3. IsFiniteSet(1..Size[d]) /\ Cardinality(1..Size[d]) = Size[d]
  <2>1. 1 \in Int /\ Size[d] \in Int
    BY <1>0
  <2>2. /\ IsFiniteSet(1..Size[d])
        /\ Cardinality(1..Size[d]) = IF 1 > Size[d] THEN 0 ELSE Size[d] - 1 + 1
    BY ONLY <2>1, FS_Interval, Zenon
  <2>3. QED
    BY <1>0, <2>2
<1>4. Cardinality(P) = 1 * Size[d]
  BY <1>2, <1>3, FS_Product
<1>5. Cardinality(P) = Size[d]
  BY <1>0, <1>4
<1> HIDE DEF P
<1>6. QED
  BY <1>1, <1>5, Zenon DEF BytesOf

\* A new member adds exactly its own bytes.
LEMMA BytesAdd ==
  ASSUME NEW D \in SUBSET Docs, NEW d \in Docs, d \notin D,
         Size[d] <= MaxDocumentBytes
  PROVE  BytesOf(D \cup {d}) = BytesOf(D) + Size[d]
<1>1. ByteSet(D \cup {d}) = ByteSet(D) \cup ByteSet({d})
  BY DEF ByteSet
<1>2. ByteSet(D) \cap ByteSet({d}) = {}
  BY DEF ByteSet
<1>3. /\ IsFiniteSet(ByteSet(D)) /\ BytesOf(D) \in Nat
      /\ IsFiniteSet(ByteSet({d})) /\ BytesOf({d}) \in Nat
  BY ByteSetFinite
<1>4. Cardinality({}) = 0 /\ BytesOf({d}) = Size[d]
  BY FS_EmptySet, BytesOfOne
<1>5. Cardinality(ByteSet(D) \cup ByteSet({d})) =
        Cardinality(ByteSet(D)) + Cardinality(ByteSet({d})) - Cardinality({})
  BY <1>2, <1>3, FS_Union
<1>6. BytesOf(D \cup {d}) = BytesOf(D) + BytesOf({d}) - 0
  BY <1>1, <1>4, <1>5, Zenon DEF BytesOf
<1>7. QED
  BY <1>3, <1>4, <1>6

\* A member that leaves takes exactly its own bytes with it.
LEMMA BytesRemove ==
  ASSUME NEW D \in SUBSET Docs, NEW d \in D, Size[d] <= MaxDocumentBytes
  PROVE  BytesOf(D \ {d}) = BytesOf(D) - Size[d]
<1>1. BytesOf((D \ {d}) \cup {d}) = BytesOf(D \ {d}) + Size[d]
  BY BytesAdd
<1>2. (D \ {d}) \cup {d} = D
  OBVIOUS
<1>3. BytesOf(D) = BytesOf(D \ {d}) + Size[d]
  BY <1>1, <1>2, Zenon
<1>4. BytesOf(D \ {d}) \in Nat /\ Size[d] \in Nat
  BY ByteSetFinite, SizeAssumption
<1>5. QED
  BY <1>3, <1>4

\* Nothing admitted, nothing held.
LEMMA BytesOfNone == BytesOf({}) = 0
BY FS_EmptySet DEF BytesOf, ByteSet

(***************************************************************************)
(* The inductive invariant.  Accounting alone is not inductive: that a     *)
(* document leaving a queue was admitted needs the queues to hold only     *)
(* documents at that await, each once.                                     *)
(***************************************************************************)
OneToOne(s) == \A i, j \in 1..Len(s) : s[i] = s[j] => i = j

\* A FIFO of route r holds documents of that route at that await, each once.
AllAt(ph, s, p, r) ==
  /\ \A i \in 1..Len(s) : ph[s[i]] = p /\ RouteOf(s[i]) = r
  /\ OneToOne(s)

QueuesOK ==
  \A r \in Routes : /\ AllAt(phase, queue[r], "queued", r)
                    /\ AllAt(phase, waiters[r], "waiting", r)

\* Nothing above the ceiling gets past the route.
SizesOK ==
  \A d \in Docs : phase[d] # "absent" => Size[d] <= MaxDocumentBytes

\* What the row may say at each await of the document's owner.
RowsOK ==
  \A d \in Docs :
    /\ phase[d] = "absent" => row[d] = "absent"
    /\ phase[d] \in {"arrived", "classifying", "queued", "waiting", "starting", "rejecting"}
         => row[d] \in {"absent", "queued"}
    /\ phase[d] \in {"running", "saving_done", "saving_failed"}
         => row[d] \in {"absent", "queued", "processing"}

IInv ==
  /\ TypeOK /\ QueuesOK /\ SizesOK /\ RowsOK
  /\ Accounting /\ BudgetHonoured

--------------------------------------------------------------------------------
\* The head of a FIFO at await p is a document at that await.
LEMMA HeadIsAt ==
  ASSUME NEW ph, NEW s \in Seq(Docs), NEW p, NEW r, AllAt(ph, s, p, r), s # <<>>
  PROVE  Head(s) \in Docs /\ ph[Head(s)] = p /\ RouteOf(Head(s)) = r
         /\ \A i \in 1..Len(Tail(s)) : Tail(s)[i] # Head(s)
<1>1. Len(s) \in Nat \ {0} /\ Head(s) = s[1] /\ 1 \in 1..Len(s)
  OBVIOUS
<1>2. Head(s) \in Docs /\ ph[Head(s)] = p /\ RouteOf(Head(s)) = r
  BY <1>1 DEF AllAt
<1>3. ASSUME NEW i \in 1..Len(Tail(s)) PROVE Tail(s)[i] # Head(s)
  <2>1. i + 1 \in 1..Len(s) /\ Tail(s)[i] = s[i + 1] /\ i + 1 # 1
    BY <1>1
  <2>2. QED
    BY <1>1, <2>1 DEF AllAt, OneToOne
<1>4. QED
  BY <1>2, <1>3

\* The initial state satisfies the invariant.
LEMMA InitIInv == Init => IInv
<1> SUFFICES ASSUME Init PROVE IInv
  OBVIOUS
<1>1. TypeOK /\ QueuesOK /\ SizesOK /\ RowsOK
  BY DEF Init, TypeOK, QueuesOK, AllAt, OneToOne, SizesOK, RowsOK, Statuses,
         Phases, AdmittedPhases, IdlePhases, Routes
<1>2. Admitted = {}
  BY DEF Init, Admitted, AdmittedPhases
<1>3. BytesOf(Admitted) = 0
  BY <1>2, BytesOfNone, Zenon
<1>4. QED
  BY <1>1, <1>3, BudgetAssumption DEF IInv, Accounting, BudgetHonoured, Init

\* Every step preserves the types.
LEMMA TypeStep == TypeOK /\ [Next]_vars => TypeOK'
<1> SUFFICES ASSUME TypeOK, [Next]_vars PROVE TypeOK'
  OBVIOUS
<1> USE DEF TypeOK, Goto, Release, AtLeastZero, Phases, AdmittedPhases, IdlePhases, Statuses
<1>a. \A d \in Docs : Size[d] \in Nat
  BY SizeAssumption
<1>b. \A d \in Docs : RouteOf(d) \in Routes
  BY DEF RouteOf, Routes
<1>c. \A d \in Docs, s \in Statuses, o \in Outcomes :
        WriteRow(d, s, o) => row' \in [Docs -> Statuses]
  BY DEF WriteRow, RowAfter
<1>1. ASSUME NEW d \in Docs, Upload(d) PROVE TypeOK'
  BY <1>1 DEF Upload
<1>2. ASSUME NEW d \in Docs, Admit(d) PROVE TypeOK'
  BY <1>2, <1>a DEF Admit
<1>3. ASSUME NEW d \in Docs, Refuse(d) PROVE TypeOK'
  BY <1>3 DEF Refuse
<1>4. ASSUME NEW d \in Docs, Route(d) PROVE TypeOK'
  BY <1>4, <1>b DEF Route
<1>5. ASSUME NEW d \in Docs, RouteQueueFull(d) PROVE TypeOK'
  BY <1>5, <1>a DEF RouteQueueFull
<1>6. ASSUME NEW d \in Docs, BeginPipeline(d) PROVE TypeOK'
  <2>1. row' \in [Docs -> Statuses]
    BY ONLY <1>6, <1>c, Zenon DEF BeginPipeline
  <2>2. phase' \in [Docs -> Phases]
    <3>1. Goto(d, "running") \/ Goto(d, "saving_failed")
      BY ONLY <1>6, Zenon DEF BeginPipeline
    <3>2. QED
      BY <3>1
  <2>3. pending' \in Seq(Docs)
    <3>1. pending' = Append(pending, d) \/ pending' = pending
      BY ONLY <1>6, Zenon DEF BeginPipeline
    <3>2. Append(pending, d) \in Seq(Docs)
      OBVIOUS
    <3>3. QED
      BY <3>1, <3>2
  <2>4. UNCHANGED <<up, resident, queue, waiters, running>>
    BY <1>6 DEF BeginPipeline
  <2>5. QED
    BY <2>1, <2>2, <2>3, <2>4
<1>7. ASSUME NEW d \in Docs, StartRaises(d) PROVE TypeOK'
  <2>1. row' \in [Docs -> Statuses]
    <3>1. "raised" \in Outcomes /\ "processing" \in Statuses
      BY <1>7 DEF StartRaises, Outcomes
    <3>2. QED
      BY ONLY <1>7, <1>c, <3>1, Zenon DEF StartRaises
  <2>2. phase' \in [Docs -> Phases]
    BY <1>7 DEF StartRaises
  <2>3. resident' \in Nat
    BY <1>7, <1>a DEF StartRaises
  <2>4. UNCHANGED <<up, queue, waiters, pending, running>>
    BY <1>7 DEF StartRaises
  <2>5. QED
    BY <2>1, <2>2, <2>3, <2>4
<1>8. ASSUME NEW d \in Docs, PipelineEnds(d) PROVE TypeOK'
  BY <1>8 DEF PipelineEnds
<1>9. ASSUME NEW d \in Docs, SaveResult(d) PROVE TypeOK'
  <2>1. row' \in [Docs -> Statuses]
    <3>1. PICK o \in Outcomes :
            WriteRow(d, IF phase[d] = "saving_done" THEN "done" ELSE "failed", o)
      BY <1>9 DEF SaveResult
    <3>2. (IF phase[d] = "saving_done" THEN "done" ELSE "failed") \in Statuses
      BY DEF Statuses
    <3>3. QED
      BY ONLY <1>c, <3>1, <3>2, Zenon
  <2>2. phase' \in [Docs -> Phases]
    BY <1>9 DEF SaveResult
  <2>3. resident' \in Nat
    BY <1>9, <1>a DEF SaveResult
  <2>4. UNCHANGED <<up, queue, waiters, pending, running>>
    BY <1>9 DEF SaveResult
  <2>5. QED
    BY <2>1, <2>2, <2>3, <2>4
<1>10. ASSUME NEW d \in Docs, SaveRejection(d) PROVE TypeOK'
  <2>1. row' \in [Docs -> Statuses]
    <3>1. "failed" \in Statuses
      BY DEF Statuses
    <3>2. QED
      BY ONLY <1>10, <1>c, <3>1, Zenon DEF SaveRejection
  <2>2. QED
    BY <1>10, <2>1 DEF SaveRejection
<1>11. ASSUME NEW d \in Docs, NextJob(d) \/ Timeout(d) \/ DetachedEnds(d) PROVE TypeOK'
  <2>1. CASE NextJob(d)
    BY <2>1 DEF NextJob
  <2>2. CASE Timeout(d)
    BY <2>2 DEF Timeout
  <2>3. CASE DetachedEnds(d)
    BY <2>3 DEF DetachedEnds
  <2>4. QED
    BY <1>11, <2>1, <2>2, <2>3
<1>12. ASSUME NEW r \in Routes, Consume(r) PROVE TypeOK'
  <2>1. Head(queue[r]) \in Docs /\ Tail(queue[r]) \in Seq(Docs)
    BY <1>12 DEF Consume
  <2>2. QED
    BY <1>12, <2>1 DEF Consume
<1>13. ASSUME NEW r \in Routes, Acquire(r) PROVE TypeOK'
  <2>1. Head(waiters[r]) \in Docs /\ Tail(waiters[r]) \in Seq(Docs)
    BY <1>13 DEF Acquire
  <2>2. QED
    BY <1>13, <2>1 DEF Acquire
<1>14. CASE ThreadTakesJob
  <2>1. Head(pending) \in Docs /\ Tail(pending) \in Seq(Docs)
    BY <1>14 DEF ThreadTakesJob
  <2>2. QED
    BY <1>14, <2>1 DEF ThreadTakesJob
<1>15. CASE ProcessEnds
  <2>1. row' \in [Docs -> Statuses]
    <3>1. ASSUME NEW d \in Docs PROVE InFlightStatus(d) \in Statuses
      BY DEF InFlightStatus
    <3>2. QED
      BY <1>15, <3>1 DEF ProcessEnds
  <2>2. phase' \in [Docs -> Phases]
    BY <1>15 DEF ProcessEnds
  <2>3. /\ queue' \in [Routes -> Seq(Docs)] /\ waiters' \in [Routes -> Seq(Docs)]
        /\ pending' \in Seq(Docs) /\ running' = {} /\ resident' = 0
        /\ up' = FALSE
    BY <1>15 DEF ProcessEnds
  <2>4. QED
    BY <2>1, <2>2, <2>3
<1>16. CASE ProcessStarts
  BY <1>16 DEF ProcessStarts
<1>17. CASE UNCHANGED vars
  BY <1>17 DEF vars
<1>18. QED
  BY <1>1, <1>2, <1>3, <1>4, <1>5, <1>6, <1>7, <1>8, <1>9, <1>10, <1>11, <1>12,
     <1>13, <1>14, <1>15, <1>16, <1>17 DEF Next, LoopStep

\* TypeOK holds in every reachable state.
THEOREM TypeCorrect == Spec => []TypeOK
<1>1. Init => TypeOK
  BY InitIInv DEF IInv
<1>2. QED
  BY <1>1, TypeStep, PTL DEF Spec

--------------------------------------------------------------------------------
\* A FIFO none of whose members changes its await stays in order.
LEMMA AllAtFrame ==
  ASSUME NEW ph, NEW nph, NEW s \in Seq(Docs), NEW p, NEW r, AllAt(ph, s, p, r),
         NEW d, ph[d] # p,
         \A e \in Docs \ {d} : nph[e] = ph[e]
  PROVE  AllAt(nph, s, p, r)
<1>1. ASSUME NEW i \in 1..Len(s) PROVE nph[s[i]] = p
  <2>1. s[i] \in Docs /\ ph[s[i]] = p
    BY DEF AllAt
  <2>2. QED
    BY <2>1
<1>2. QED
  BY <1>1 DEF AllAt

\* Joining a FIFO at the moment of entering its await.
LEMMA AllAtAppend ==
  ASSUME NEW ph, NEW nph, NEW s \in Seq(Docs), NEW p, NEW r, AllAt(ph, s, p, r),
         NEW d \in Docs, ph[d] # p, RouteOf(d) = r, nph[d] = p,
         \A e \in Docs \ {d} : nph[e] = ph[e]
  PROVE  AllAt(nph, Append(s, d), p, r)
<1> DEFINE t == Append(s, d)
<1>1. Len(t) = Len(s) + 1 /\ Len(s) \in Nat /\ t[Len(s) + 1] = d
      /\ \A i \in 1..Len(s) : t[i] = s[i] /\ s[i] \in Docs
  OBVIOUS
<1> HIDE DEF t
<1>2. \A i \in 1..Len(s) : s[i] # d /\ nph[s[i]] = p /\ RouteOf(s[i]) = r
  BY <1>1 DEF AllAt
<1>3. \A i \in 1..Len(t) : i \in 1..Len(s) \/ i = Len(s) + 1
  BY <1>1
<1>4. \A i \in 1..Len(t) : nph[t[i]] = p /\ RouteOf(t[i]) = r
  BY <1>1, <1>2, <1>3
<1>5. OneToOne(t)
  <2>1. SUFFICES ASSUME NEW i \in 1..Len(t), NEW j \in 1..Len(t), t[i] = t[j]
                 PROVE  i = j
    BY DEF OneToOne
  <2>2. CASE i \in 1..Len(s) /\ j \in 1..Len(s)
    BY <1>1, <2>1, <2>2 DEF AllAt, OneToOne
  <2>3. CASE i = Len(s) + 1 \/ j = Len(s) + 1
    BY <1>1, <1>2, <1>3, <2>1, <2>3
  <2>4. QED
    BY <1>3, <2>2, <2>3
<1>6. AllAt(nph, t, p, r)
  BY <1>4, <1>5 DEF AllAt
<1>7. QED
  BY <1>6 DEF t

\* Leaving a FIFO at the moment of leaving its await.
LEMMA AllAtTail ==
  ASSUME NEW ph, NEW nph, NEW s \in Seq(Docs), NEW p, NEW r, AllAt(ph, s, p, r), s # <<>>,
         \A e \in Docs \ {Head(s)} : nph[e] = ph[e]
  PROVE  AllAt(nph, Tail(s), p, r)
<1> DEFINE t == Tail(s)
<1>1. Len(s) \in Nat /\ Len(t) = Len(s) - 1 /\ t \in Seq(Docs)
      /\ \A i \in 1..Len(t) : i + 1 \in 1..Len(s) /\ t[i] = s[i + 1]
  OBVIOUS
<1>2. \A i \in 1..Len(t) : t[i] # Head(s) /\ t[i] \in Docs
  <2>1. \A i \in 1..Len(t) : t[i] # Head(s)
    BY HeadIsAt
  <2>2. \A i \in 1..Len(t) : t[i] \in Docs
    BY <1>1
  <2>3. QED
    BY <2>1, <2>2
<1> HIDE DEF t
<1>3. \A i \in 1..Len(t) : ph[t[i]] = p /\ RouteOf(t[i]) = r
  BY <1>1 DEF AllAt
<1>4. OneToOne(t)
  BY <1>1 DEF AllAt, OneToOne
<1>5. AllAt(nph, t, p, r)
  BY <1>2, <1>3, <1>4 DEF AllAt
<1>6. QED
  BY <1>5 DEF t

\* A step that moves one document between awaits that are not queues, and
\* leaves the queues alone, keeps them in order.
LEMMA QueuesFrame ==
  ASSUME TypeOK, QueuesOK, NEW d \in Docs, phase[d] \notin {"queued", "waiting"},
         \A e \in Docs \ {d} : phase'[e] = phase[e],
         UNCHANGED <<queue, waiters>>
  PROVE  QueuesOK'
<1>1. ASSUME NEW r \in Routes
      PROVE  AllAt(phase', queue'[r], "queued", r) /\ AllAt(phase', waiters'[r], "waiting", r)
  <2>1. queue[r] \in Seq(Docs) /\ waiters[r] \in Seq(Docs)
    BY DEF TypeOK
  <2>2. AllAt(phase, queue[r], "queued", r) /\ AllAt(phase, waiters[r], "waiting", r)
    BY DEF QueuesOK
  <2>3. phase[d] # "queued" /\ phase[d] # "waiting"
    OBVIOUS
  <2>4. queue'[r] = queue[r] /\ waiters'[r] = waiters[r]
    OBVIOUS
  <2>5. AllAt(phase', queue'[r], "queued", r)
    BY <2>1, <2>2, <2>3, <2>4, AllAtFrame
  <2>6. AllAt(phase', waiters'[r], "waiting", r)
    BY <2>1, <2>2, <2>3, <2>4, AllAtFrame
  <2>7. QED
    BY <2>5, <2>6
<1>2. QED
  BY <1>1 DEF QueuesOK

\* Every step keeps the queues in order.
LEMMA QueuesStep == TypeOK /\ QueuesOK /\ [Next]_vars => QueuesOK'
<1> SUFFICES ASSUME TypeOK, QueuesOK, [Next]_vars PROVE QueuesOK'
  OBVIOUS
<1>t. /\ phase \in [Docs -> Phases]
      /\ \A r \in Routes : queue[r] \in Seq(Docs) /\ waiters[r] \in Seq(Docs)
      /\ queue \in [Routes -> Seq(Docs)] /\ waiters \in [Routes -> Seq(Docs)]
  BY DEF TypeOK
<1>q. \A r \in Routes : AllAt(phase, queue[r], "queued", r) /\ AllAt(phase, waiters[r], "waiting", r)
  BY DEF QueuesOK
<1>1. ASSUME NEW d \in Docs,
             \/ Upload(d) \/ Admit(d) \/ Refuse(d) \/ RouteQueueFull(d)
             \/ BeginPipeline(d) \/ StartRaises(d) \/ PipelineEnds(d)
             \/ SaveResult(d) \/ SaveRejection(d) \/ Timeout(d)
      PROVE  QueuesOK'
  <2>1. phase[d] \notin {"queued", "waiting"}
    BY <1>1 DEF Upload, Admit, Refuse, RouteQueueFull, BeginPipeline, StartRaises,
               PipelineEnds, SaveResult, SaveRejection, Timeout
  <2>2. UNCHANGED <<queue, waiters>>
    BY <1>1 DEF Upload, Admit, Refuse, RouteQueueFull, BeginPipeline, StartRaises,
               PipelineEnds, SaveResult, SaveRejection, Timeout
  <2>3. \E p : phase' = [phase EXCEPT ![d] = p]
    BY <1>1, Zenon DEF Upload, Admit, Refuse, RouteQueueFull, BeginPipeline, StartRaises,
               PipelineEnds, SaveResult, SaveRejection, Timeout, Goto
  <2>4. \A e \in Docs \ {d} : phase'[e] = phase[e]
    BY <1>t, <2>3
  <2>5. QED
    BY <2>1, <2>2, <2>4, QueuesFrame
<1>2. ASSUME NEW d \in Docs, Route(d) PROVE QueuesOK'
  <2> DEFINE r == RouteOf(d)
  <2>1. r \in Routes
    BY DEF RouteOf, Routes
  <2>2. /\ phase[d] = "classifying" /\ phase' = [phase EXCEPT ![d] = "queued"]
        /\ queue' = [queue EXCEPT ![r] = Append(queue[r], d)] /\ waiters' = waiters
    BY <1>2 DEF Route, Goto
  <2>3. phase'[d] = "queued" /\ \A e \in Docs \ {d} : phase'[e] = phase[e]
    BY <1>t, <2>2
  <2> HIDE DEF r
  <2>4. ASSUME NEW x \in Routes
        PROVE  AllAt(phase', queue'[x], "queued", x) /\ AllAt(phase', waiters'[x], "waiting", x)
    <3>1. AllAt(phase', waiters'[x], "waiting", x)
      BY <1>t, <1>q, <2>2, <2>3, AllAtFrame
    <3>2. CASE x = r
      <4>1. queue'[x] = Append(queue[x], d) /\ RouteOf(d) = x /\ phase[d] # "queued"
        BY <1>t, <2>1, <2>2, <3>2 DEF r
      <4>2. AllAt(phase', Append(queue[x], d), "queued", x)
        BY <1>t, <1>q, <2>3, <4>1, AllAtAppend
      <4>3. QED
        BY <3>1, <4>1, <4>2 DEF AllAt
    <3>3. CASE x # r
      <4>1. queue'[x] = queue[x] /\ phase[d] # "queued"
        BY <1>t, <2>2, <3>3
      <4>2. QED
        BY <1>t, <1>q, <2>3, <3>1, <4>1, AllAtFrame
    <3>4. QED
      BY <3>2, <3>3
  <2>5. QED
    BY <2>4 DEF QueuesOK
<1>3. ASSUME NEW r \in Routes, Consume(r) PROVE QueuesOK'
  <2> DEFINE d == Head(queue[r])
  <2>1. /\ queue[r] # <<>> /\ phase' = [phase EXCEPT ![d] = "waiting"]
        /\ queue' = [queue EXCEPT ![r] = Tail(queue[r])]
        /\ waiters' = [waiters EXCEPT ![r] = Append(waiters[r], d)]
    BY <1>3 DEF Consume, Goto
  <2>2. d \in Docs /\ phase[d] = "queued" /\ RouteOf(d) = r
    BY <1>t, <1>q, <2>1, HeadIsAt
  <2>3. phase'[d] = "waiting" /\ \A e \in Docs \ {d} : phase'[e] = phase[e]
    BY <1>t, <2>1, <2>2
  <2>4. AllAt(phase', Tail(queue[r]), "queued", r)
    BY <1>t, <1>q, <2>1, <2>3, AllAtTail
  <2> HIDE DEF d
  <2>5. AllAt(phase', Append(waiters[r], d), "waiting", r)
    BY <1>t, <1>q, <2>2, <2>3, AllAtAppend
  <2>6. ASSUME NEW x \in Routes
        PROVE  AllAt(phase', queue'[x], "queued", x) /\ AllAt(phase', waiters'[x], "waiting", x)
    <3>1. CASE x = r
      <4>1. queue'[x] = Tail(queue[x]) /\ waiters'[x] = Append(waiters[x], d)
        BY <1>t, <2>1, <3>1
      <4>2. QED
        BY <2>4, <2>5, <3>1, <4>1 DEF AllAt
    <3>2. CASE x # r
      <4>1. queue'[x] = queue[x] /\ waiters'[x] = waiters[x]
        BY <1>t, <2>1, <3>2
      <4>2. \A i \in 1..Len(queue[x]) : queue[x][i] # d
        BY <1>t, <1>q, <2>2, <3>2 DEF AllAt
      <4>3. AllAt(phase', queue'[x], "queued", x)
        BY <1>t, <1>q, <2>3, <4>1, <4>2 DEF AllAt
      <4>4. AllAt(phase', waiters'[x], "waiting", x)
        BY <1>t, <1>q, <2>2, <2>3, <4>1, AllAtFrame
      <4>5. QED
        BY <4>3, <4>4
    <3>3. QED
      BY <3>1, <3>2
  <2>7. QED
    BY <2>6 DEF QueuesOK
<1>4. ASSUME NEW r \in Routes, Acquire(r) PROVE QueuesOK'
  <2> DEFINE d == Head(waiters[r])
  <2>1. /\ waiters[r] # <<>> /\ phase' = [phase EXCEPT ![d] = "starting"]
        /\ waiters' = [waiters EXCEPT ![r] = Tail(waiters[r])] /\ queue' = queue
    BY <1>4 DEF Acquire, Goto
  <2>2. d \in Docs /\ phase[d] = "waiting" /\ RouteOf(d) = r
    BY <1>t, <1>q, <2>1, HeadIsAt
  <2>3. \A e \in Docs \ {d} : phase'[e] = phase[e]
    BY <1>t, <2>1, <2>2
  <2>4. AllAt(phase', Tail(waiters[r]), "waiting", r)
    BY <1>t, <1>q, <2>1, <2>3, AllAtTail
  <2> HIDE DEF d
  <2>5. ASSUME NEW x \in Routes
        PROVE  AllAt(phase', queue'[x], "queued", x) /\ AllAt(phase', waiters'[x], "waiting", x)
    <3>1. AllAt(phase', queue'[x], "queued", x)
      BY <1>t, <1>q, <2>1, <2>2, <2>3, AllAtFrame
    <3>2. CASE x = r
      <4>1. waiters'[x] = Tail(waiters[x])
        BY <1>t, <2>1, <3>2
      <4>2. QED
        BY <2>4, <3>1, <3>2, <4>1 DEF AllAt
    <3>3. CASE x # r
      <4>1. waiters'[x] = waiters[x]
        BY <1>t, <2>1, <3>3
      <4>2. \A i \in 1..Len(waiters[x]) : waiters[x][i] # d
        BY <1>t, <1>q, <2>2, <3>3 DEF AllAt
      <4>3. \A i \in 1..Len(waiters[x]) : phase'[waiters[x][i]] = phase[waiters[x][i]]
        <5>1. \A i \in 1..Len(waiters[x]) : waiters[x][i] \in Docs
          BY <1>t
        <5>2. QED
          BY <2>3, <4>2, <5>1
      <4>4. AllAt(phase, waiters[x], "waiting", x)
        BY <1>q
      <4>5. AllAt(phase', waiters'[x], "waiting", x)
        BY <4>1, <4>3, <4>4 DEF AllAt
      <4>6. QED
        BY <3>1, <4>5
    <3>4. QED
      BY <3>2, <3>3
  <2>6. QED
    BY <2>5 DEF QueuesOK
<1>5. CASE ProcessEnds
  <2>1. \A r \in Routes : queue'[r] = <<>> /\ waiters'[r] = <<>>
    BY <1>5 DEF ProcessEnds
  <2>2. QED
    BY <2>1 DEF QueuesOK, AllAt, OneToOne
<1>6. ASSUME UNCHANGED <<phase, queue, waiters>> PROVE QueuesOK'
  BY <1>6, <1>q DEF QueuesOK, AllAt
<1>7. QED
  <2>1. ASSUME NEW d \in Docs, NextJob(d) \/ DetachedEnds(d)
        PROVE  UNCHANGED <<phase, queue, waiters>>
    BY <2>1 DEF NextJob, DetachedEnds
  <2>2. ASSUME ThreadTakesJob \/ ProcessStarts \/ UNCHANGED vars
        PROVE  UNCHANGED <<phase, queue, waiters>>
    BY <2>2 DEF ThreadTakesJob, ProcessStarts, vars
  <2>3. QED
    BY <1>1, <1>2, <1>3, <1>4, <1>5, <1>6, <2>1, <2>2 DEF Next, LoopStep

--------------------------------------------------------------------------------
\* Only the route takes a document on, and it checks the ceiling first.
LEMMA SizesStep == TypeOK /\ QueuesOK /\ SizesOK /\ [Next]_vars => SizesOK'
<1> SUFFICES ASSUME TypeOK, QueuesOK, SizesOK, [Next]_vars,
                    NEW e \in Docs, phase'[e] # "absent"
             PROVE  Size[e] <= MaxDocumentBytes
  BY DEF SizesOK
<1>t. phase \in [Docs -> Phases]
  BY DEF TypeOK
<1>s. phase[e] # "absent" => Size[e] <= MaxDocumentBytes
  BY DEF SizesOK
<1>1. ASSUME NEW d \in Docs, Upload(d) PROVE phase[e] # "absent" \/ Size[e] <= MaxDocumentBytes
  BY <1>1, <1>t DEF Upload, Goto
<1>2. ASSUME NEW d \in Docs, phase[d] # "absent", NEW p, Goto(d, p) PROVE phase[e] # "absent"
  BY <1>2, <1>t DEF Goto
<1>3. ASSUME NEW d \in Docs,
             \/ Admit(d) \/ Refuse(d) \/ Route(d) \/ RouteQueueFull(d)
             \/ BeginPipeline(d) \/ StartRaises(d) \/ PipelineEnds(d)
             \/ SaveResult(d) \/ SaveRejection(d) \/ Timeout(d)
      PROVE  phase[e] # "absent"
  <2>1. phase[d] # "absent"
    BY <1>3 DEF Admit, Refuse, Route, RouteQueueFull, BeginPipeline, StartRaises,
               PipelineEnds, SaveResult, SaveRejection, Timeout
  <2>2. \E p : Goto(d, p)
    BY <1>3, Zenon DEF Admit, Refuse, Route, RouteQueueFull, BeginPipeline,
               StartRaises, PipelineEnds, SaveResult, SaveRejection, Timeout
  <2>3. QED
    BY <1>2, <2>1, <2>2
<1>4. ASSUME NEW r \in Routes, Consume(r) \/ Acquire(r) PROVE phase[e] # "absent"
  <2>1. /\ queue[r] \in Seq(Docs) /\ AllAt(phase, queue[r], "queued", r)
        /\ waiters[r] \in Seq(Docs) /\ AllAt(phase, waiters[r], "waiting", r)
    BY DEF TypeOK, QueuesOK
  <2>2. CASE Consume(r)
    <3>1. Head(queue[r]) \in Docs /\ phase[Head(queue[r])] = "queued"
      BY <2>1, <2>2, HeadIsAt DEF Consume
    <3>2. Goto(Head(queue[r]), "waiting")
      BY <2>2 DEF Consume
    <3>3. QED
      BY <1>2, <3>1, <3>2
  <2>3. CASE Acquire(r)
    <3>1. Head(waiters[r]) \in Docs /\ phase[Head(waiters[r])] = "waiting"
      BY <2>1, <2>3, HeadIsAt DEF Acquire
    <3>2. Goto(Head(waiters[r]), "starting")
      BY <2>3 DEF Acquire
    <3>3. QED
      BY <1>2, <3>1, <3>2
  <2>4. QED
    BY <1>4, <2>2, <2>3
<1>5. CASE ProcessEnds
  BY <1>5, <1>s, <1>t DEF ProcessEnds, IdlePhases
<1>6. ASSUME UNCHANGED phase PROVE phase[e] # "absent"
  BY <1>6
<1>7. QED
  <2>1. ASSUME NEW d \in Docs, NextJob(d) \/ DetachedEnds(d) PROVE UNCHANGED phase
    BY <2>1 DEF NextJob, DetachedEnds
  <2>2. ASSUME ThreadTakesJob \/ ProcessStarts \/ UNCHANGED vars PROVE UNCHANGED phase
    BY <2>2 DEF ThreadTakesJob, ProcessStarts, vars
  <2>3. QED
    BY <1>s, <1>1, <1>3, <1>4, <1>5, <1>6, <2>1, <2>2 DEF Next, LoopStep

--------------------------------------------------------------------------------
\* A reservation that fits, of a document not yet counted.
LEMMA Enters ==
  ASSUME TypeOK, SizesOK, Accounting, NEW d \in Docs, phase[d] = "arrived",
         phase' = [phase EXCEPT ![d] = "classifying"],
         CanReserve(d), resident' = resident + Size[d]
  PROVE  Accounting' /\ BudgetHonoured'
<1>1. Admitted' = Admitted \cup {d} /\ d \notin Admitted /\ Admitted \subseteq Docs
  BY DEF Admitted, AdmittedPhases, TypeOK
<1>2. BytesOf(Admitted \cup {d}) = BytesOf(Admitted) + Size[d]
  BY <1>1, BytesAdd DEF SizesOK
<1>3. BytesOf(Admitted') = resident'
  <2>1. BytesOf(Admitted') = BytesOf(Admitted \cup {d})
    BY <1>1, Zenon
  <2>2. QED
    BY <1>2, <2>1 DEF Accounting
<1>4. resident' <= MaxResident
  BY DEF CanReserve
<1>5. QED
  BY <1>3, <1>4 DEF Accounting, BudgetHonoured

\* A release, of a document counted until now.
LEMMA Leaves ==
  ASSUME TypeOK, SizesOK, Accounting, BudgetHonoured,
         NEW d \in Docs, phase[d] \in AdmittedPhases,
         NEW q, q \notin AdmittedPhases,
         phase' = [phase EXCEPT ![d] = q], Release(d)
  PROVE  Accounting' /\ BudgetHonoured'
<1>1. Admitted' = Admitted \ {d} /\ d \in Admitted /\ Admitted \subseteq Docs
  BY DEF Admitted, TypeOK
<1>2. phase[d] # "absent"
  BY DEF AdmittedPhases
<1>3. BytesOf(Admitted \ {d}) = BytesOf(Admitted) - Size[d]
  BY <1>1, <1>2, BytesRemove DEF SizesOK
<1>4. BytesOf(Admitted') = BytesOf(Admitted \ {d})
  BY <1>1, Zenon
<1>5. BytesOf(Admitted \ {d}) \in Nat /\ BytesOf(Admitted) \in Nat /\ Size[d] \in Nat
  BY <1>1, ByteSetFinite, SizeAssumption
<1>6. resident' = BytesOf(Admitted \ {d})
  BY <1>3, <1>5 DEF Accounting, Release, AtLeastZero
<1>7. BytesOf(Admitted \ {d}) <= MaxResident
  BY <1>3, <1>5, BudgetAssumption DEF BudgetHonoured
<1>8. QED
  BY <1>4, <1>6, <1>7 DEF Accounting, BudgetHonoured

\* A move that neither reserves nor releases.
LEMMA Stays ==
  ASSUME TypeOK, Accounting, BudgetHonoured, NEW d \in Docs, NEW q,
         phase[d] \in AdmittedPhases <=> q \in AdmittedPhases,
         phase' = [phase EXCEPT ![d] = q], resident' = resident
  PROVE  Accounting' /\ BudgetHonoured'
<1>1. Admitted' = Admitted
  BY DEF Admitted, TypeOK
<1>2. BytesOf(Admitted') = BytesOf(Admitted)
  BY <1>1, Zenon
<1>3. QED
  BY <1>2 DEF Accounting, BudgetHonoured

\* Every step keeps the counter exact and within the budget.
LEMMA AccountingStep ==
  TypeOK /\ QueuesOK /\ SizesOK /\ Accounting /\ BudgetHonoured /\ [Next]_vars
    => Accounting' /\ BudgetHonoured'
<1> SUFFICES ASSUME TypeOK, QueuesOK, SizesOK, Accounting, BudgetHonoured, [Next]_vars
             PROVE  Accounting' /\ BudgetHonoured'
  OBVIOUS
<1> USE DEF Goto
<1>1. ASSUME NEW d \in Docs, Admit(d) PROVE Accounting' /\ BudgetHonoured'
  BY <1>1, Enters DEF Admit
<1>2. ASSUME NEW d \in Docs, RouteQueueFull(d) PROVE Accounting' /\ BudgetHonoured'
  <2>1. phase[d] \in AdmittedPhases /\ "rejecting" \notin AdmittedPhases
    BY <1>2 DEF RouteQueueFull, AdmittedPhases
  <2>2. QED
    BY <1>2, <2>1, Leaves DEF RouteQueueFull
<1>3. ASSUME NEW d \in Docs, StartRaises(d) \/ SaveResult(d)
      PROVE  Accounting' /\ BudgetHonoured'
  <2>1. phase[d] \in AdmittedPhases /\ "finished" \notin AdmittedPhases
    BY <1>3 DEF StartRaises, SaveResult, AdmittedPhases
  <2>2. phase' = [phase EXCEPT ![d] = "finished"] /\ Release(d)
    BY <1>3, Zenon DEF StartRaises, SaveResult
  <2>3. QED
    BY <2>1, <2>2, Leaves
<1>4. ASSUME NEW d \in Docs, NEW q, Goto(d, q), resident' = resident,
             phase[d] \in AdmittedPhases <=> q \in AdmittedPhases
      PROVE  Accounting' /\ BudgetHonoured'
  BY <1>4, Stays
<1>5. ASSUME NEW d \in Docs, Upload(d) \/ Refuse(d) \/ SaveRejection(d)
      PROVE  Accounting' /\ BudgetHonoured'
  <2>1. PICK q \in {"arrived", "rejecting", "finished"} : Goto(d, q)
    BY <1>5, Zenon DEF Upload, Refuse, SaveRejection
  <2>2. phase[d] \notin AdmittedPhases /\ q \notin AdmittedPhases
    BY <1>5, <2>1 DEF Upload, Refuse, SaveRejection, AdmittedPhases
  <2>3. resident' = resident
    BY <1>5 DEF Upload, Refuse, SaveRejection
  <2>4. QED
    BY <1>4, <2>1, <2>2, <2>3
<1>6. ASSUME NEW d \in Docs, Route(d) \/ BeginPipeline(d) \/ PipelineEnds(d) \/ Timeout(d)
      PROVE  Accounting' /\ BudgetHonoured'
  <2>1. PICK q \in {"queued", "running", "saving_done", "saving_failed"} : Goto(d, q)
    BY <1>6, Zenon DEF Route, BeginPipeline, PipelineEnds, Timeout
  <2>2. phase[d] \in AdmittedPhases /\ q \in AdmittedPhases
    BY <1>6, <2>1 DEF Route, BeginPipeline, PipelineEnds, Timeout, AdmittedPhases
  <2>3. resident' = resident
    BY <1>6 DEF Route, BeginPipeline, PipelineEnds, Timeout
  <2>4. QED
    BY <1>4, <2>1, <2>2, <2>3
<1>7. ASSUME NEW r \in Routes, Consume(r) \/ Acquire(r)
      PROVE  Accounting' /\ BudgetHonoured'
  <2>1. /\ queue[r] \in Seq(Docs) /\ AllAt(phase, queue[r], "queued", r)
        /\ waiters[r] \in Seq(Docs) /\ AllAt(phase, waiters[r], "waiting", r)
    BY DEF TypeOK, QueuesOK
  <2>2. CASE Consume(r)
    <3>1. Head(queue[r]) \in Docs /\ phase[Head(queue[r])] = "queued"
      BY <2>1, <2>2, HeadIsAt DEF Consume
    <3>2. Goto(Head(queue[r]), "waiting") /\ resident' = resident
      BY <2>2 DEF Consume
    <3>3. QED
      BY <1>4, <3>1, <3>2 DEF AdmittedPhases
  <2>3. CASE Acquire(r)
    <3>1. Head(waiters[r]) \in Docs /\ phase[Head(waiters[r])] = "waiting"
      BY <2>1, <2>3, HeadIsAt DEF Acquire
    <3>2. Goto(Head(waiters[r]), "starting") /\ resident' = resident
      BY <2>3 DEF Acquire
    <3>3. QED
      BY <1>4, <3>1, <3>2 DEF AdmittedPhases
  <2>4. QED
    BY <1>7, <2>2, <2>3
<1>8. CASE ProcessEnds
  <2>1. Admitted' = {}
    BY <1>8 DEF ProcessEnds, Admitted, AdmittedPhases, IdlePhases
  <2>2. BytesOf(Admitted') = 0
    BY <2>1, BytesOfNone, Zenon
  <2>3. QED
    BY <1>8, <2>2, BudgetAssumption DEF ProcessEnds, Accounting, BudgetHonoured
<1>9. ASSUME UNCHANGED <<phase, resident>> PROVE Accounting' /\ BudgetHonoured'
  <2>1. Admitted' = Admitted
    BY <1>9 DEF Admitted
  <2>2. BytesOf(Admitted') = BytesOf(Admitted)
    BY <2>1, Zenon
  <2>3. QED
    BY <1>9, <2>2 DEF Accounting, BudgetHonoured
<1>10. QED
  <2>1. ASSUME NEW d \in Docs, NextJob(d) \/ DetachedEnds(d)
        PROVE  UNCHANGED <<phase, resident>>
    BY <2>1 DEF NextJob, DetachedEnds
  <2>2. ASSUME ThreadTakesJob \/ ProcessStarts \/ UNCHANGED vars
        PROVE  UNCHANGED <<phase, resident>>
    BY <2>2 DEF ThreadTakesJob, ProcessStarts, vars
  <2>3. QED
    BY <1>1, <1>2, <1>3, <1>5, <1>6, <1>7, <1>8, <1>9, <2>1, <2>2 DEF Next, LoopStep

--------------------------------------------------------------------------------
\* What a row write does, whatever the database made of it.
LEMMA WriteEffect ==
  ASSUME NEW d, NEW status, NEW o, WriteRow(d, status, o)
  PROVE  row' = row \/ (row[d] # "absent" /\ row' = [row EXCEPT ![d] = status])
BY DEF WriteRow, RowAfter

\* One document moves to await q and at most its own row is written.
LEMMA RowsMove ==
  ASSUME TypeOK, RowsOK, NEW d \in Docs, NEW q, NEW v,
         phase' = [phase EXCEPT ![d] = q], row' = row \/ row' = [row EXCEPT ![d] = v],
         q = "absent" => row'[d] = "absent",
         q \in {"arrived", "classifying", "queued", "waiting", "starting", "rejecting"}
           => row'[d] \in {"absent", "queued"},
         q \in {"running", "saving_done", "saving_failed"}
           => row'[d] \in {"absent", "queued", "processing"}
  PROVE  RowsOK'
<1> SUFFICES ASSUME NEW e \in Docs
             PROVE
               /\ phase'[e] = "absent" => row'[e] = "absent"
               /\ phase'[e] \in {"arrived", "classifying", "queued", "waiting", "starting", "rejecting"}
                    => row'[e] \in {"absent", "queued"}
               /\ phase'[e] \in {"running", "saving_done", "saving_failed"}
                    => row'[e] \in {"absent", "queued", "processing"}
  BY DEF RowsOK
<1>t. phase \in [Docs -> Phases] /\ row \in [Docs -> Statuses]
  BY DEF TypeOK
<1>1. CASE e = d
  <2>1. phase'[e] = q
    BY <1>1, <1>t
  <2>2. QED
    BY <1>1, <2>1
<1>2. CASE e # d
  <2>1. phase'[e] = phase[e] /\ row'[e] = row[e]
    BY <1>2, <1>t
  <2>2. QED
    BY <2>1 DEF RowsOK
<1>3. QED
  BY <1>1, <1>2

\* Every step keeps the rows in line with the awaits of their owners.
LEMMA RowsStep == TypeOK /\ QueuesOK /\ RowsOK /\ [Next]_vars => RowsOK'
<1> SUFFICES ASSUME TypeOK, QueuesOK, RowsOK, [Next]_vars PROVE RowsOK'
  OBVIOUS
<1>t. phase \in [Docs -> Phases] /\ row \in [Docs -> Statuses]
  BY DEF TypeOK
<1>1. ASSUME NEW d \in Docs, Upload(d) PROVE RowsOK'
  <2>1. /\ row[d] = "absent" /\ (row' = row \/ row' = [row EXCEPT ![d] = "queued"])
        /\ \E q \in {"arrived", "finished"} : phase' = [phase EXCEPT ![d] = q]
    BY <1>1 DEF Upload, Goto, RowsOK
  <2>2. row'[d] \in {"absent", "queued"}
    BY <1>t, <2>1
  <2>3. QED
    BY <2>1, <2>2, RowsMove
<1>2. ASSUME NEW d \in Docs, row' = row, NEW q, Goto(d, q),
             \/ /\ phase[d] \in {"arrived", "classifying"}
                /\ q \in {"classifying", "queued", "rejecting"}
             \/ phase[d] = "queued" /\ q = "waiting"
             \/ phase[d] = "waiting" /\ q = "starting"
             \/ phase[d] = "running" /\ q \in {"saving_done", "saving_failed"}
      PROVE  RowsOK'
  <2>1. q \in {"arrived", "classifying", "queued", "waiting", "starting", "rejecting"}
          => row'[d] \in {"absent", "queued"}
    BY <1>2 DEF RowsOK
  <2>2. q \in {"running", "saving_done", "saving_failed"}
          => row'[d] \in {"absent", "queued", "processing"}
    BY <1>2 DEF RowsOK
  <2>3. QED
    BY <1>2, <2>1, <2>2, RowsMove DEF Goto
<1>3. ASSUME NEW d \in Docs, Admit(d) \/ Refuse(d) \/ Route(d) \/ RouteQueueFull(d)
                             \/ PipelineEnds(d) \/ Timeout(d)
      PROVE  RowsOK'
  <2>1. CASE Admit(d)
    BY <1>2, <2>1 DEF Admit
  <2>2. CASE Refuse(d)
    BY <1>2, <2>2 DEF Refuse
  <2>3. CASE Route(d)
    BY <1>2, <2>3 DEF Route
  <2>4. CASE RouteQueueFull(d)
    BY <1>2, <2>4 DEF RouteQueueFull
  <2>5. CASE PipelineEnds(d)
    BY <1>2, <2>5 DEF PipelineEnds
  <2>6. CASE Timeout(d)
    BY <1>2, <2>6 DEF Timeout
  <2>7. QED
    BY <1>3, <2>1, <2>2, <2>3, <2>4, <2>5, <2>6
<1>4. ASSUME NEW d \in Docs, BeginPipeline(d) PROVE RowsOK'
  <2>1. PICK o \in Outcomes : WriteRow(d, "processing", o)
    BY <1>4 DEF BeginPipeline
  <2>2. row' = row \/ row' = [row EXCEPT ![d] = "processing"]
    BY <2>1, WriteEffect
  <2>3. PICK q \in {"running", "saving_failed"} : Goto(d, q)
    BY <1>4, Zenon DEF BeginPipeline
  <2>4. row[d] \in {"absent", "queued"}
    BY <1>4 DEF BeginPipeline, RowsOK
  <2>5. row'[d] \in {"absent", "queued", "processing"}
    BY <1>t, <2>2, <2>4
  <2>6. QED
    BY <2>2, <2>3, <2>5, RowsMove DEF Goto
<1>5. ASSUME NEW d \in Docs, StartRaises(d) \/ SaveResult(d) \/ SaveRejection(d)
      PROVE  RowsOK'
  <2>1. PICK v \in {"processing", "done", "failed"} :
          row' = row \/ row' = [row EXCEPT ![d] = v]
    <3>1. CASE StartRaises(d)
      BY <3>1, WriteEffect DEF StartRaises
    <3>2. CASE SaveResult(d)
      <4>1. PICK o \in Outcomes :
              WriteRow(d, IF phase[d] = "saving_done" THEN "done" ELSE "failed", o)
        BY <3>2 DEF SaveResult
      <4>2. QED
        BY <4>1, WriteEffect
    <3>3. CASE SaveRejection(d)
      <4>1. PICK o \in Outcomes : WriteRow(d, "failed", o)
        BY <3>3 DEF SaveRejection
      <4>2. QED
        BY <4>1, WriteEffect
    <3>4. QED
      BY <1>5, <3>1, <3>2, <3>3
  <2>2. phase' = [phase EXCEPT ![d] = "finished"]
    BY <1>5, Zenon DEF StartRaises, SaveResult, SaveRejection, Goto
  <2>3. QED
    BY <2>1, <2>2, RowsMove
<1>6. ASSUME NEW r \in Routes, Consume(r) \/ Acquire(r) PROVE RowsOK'
  <2>1. /\ queue[r] \in Seq(Docs) /\ AllAt(phase, queue[r], "queued", r)
        /\ waiters[r] \in Seq(Docs) /\ AllAt(phase, waiters[r], "waiting", r)
    BY DEF TypeOK, QueuesOK
  <2>2. CASE Consume(r)
    <3>1. Head(queue[r]) \in Docs /\ phase[Head(queue[r])] = "queued"
      BY <2>1, <2>2, HeadIsAt DEF Consume
    <3>2. Goto(Head(queue[r]), "waiting") /\ row' = row
      BY <2>2 DEF Consume
    <3>3. QED
      BY <1>2, <3>1, <3>2
  <2>3. CASE Acquire(r)
    <3>1. Head(waiters[r]) \in Docs /\ phase[Head(waiters[r])] = "waiting"
      BY <2>1, <2>3, HeadIsAt DEF Acquire
    <3>2. Goto(Head(waiters[r]), "starting") /\ row' = row
      BY <2>3 DEF Acquire
    <3>3. QED
      BY <1>2, <3>1, <3>2
  <2>4. QED
    BY <1>6, <2>2, <2>3
<1>7. CASE ProcessEnds
  <2>1. ASSUME NEW e \in Docs
        PROVE  /\ phase'[e] \in IdlePhases
               /\ phase'[e] = "absent" => row'[e] = "absent"
    <3>1. phase'[e] = IF phase[e] \in IdlePhases THEN phase[e] ELSE "lost"
      BY <1>7 DEF ProcessEnds
    <3>2. row'[e] = row[e] \/ row[e] # "absent"
      BY <1>7 DEF ProcessEnds
    <3>3. QED
      BY <3>1, <3>2 DEF IdlePhases, RowsOK
  <2>2. QED
    BY <2>1 DEF RowsOK, IdlePhases
<1>8. ASSUME UNCHANGED <<phase, row>> PROVE RowsOK'
  BY <1>8 DEF RowsOK
<1>9. QED
  <2>1. ASSUME NEW d \in Docs, NextJob(d) \/ DetachedEnds(d)
        PROVE  UNCHANGED <<phase, row>>
    BY <2>1 DEF NextJob, DetachedEnds
  <2>2. ASSUME ThreadTakesJob \/ ProcessStarts \/ UNCHANGED vars
        PROVE  UNCHANGED <<phase, row>>
    BY <2>2 DEF ThreadTakesJob, ProcessStarts, vars
  <2>3. QED
    BY <1>1, <1>3, <1>4, <1>5, <1>6, <1>7, <1>8, <2>1, <2>2 DEF Next, LoopStep

--------------------------------------------------------------------------------
\* The conjunction is inductive.
LEMMA StepIInv == IInv /\ [Next]_vars => IInv'
BY TypeStep, QueuesStep, SizesStep, RowsStep, AccountingStep DEF IInv

\* Every reachable state satisfies the inductive invariant: typed state, FIFOs
\* that hold exactly their own documents, sizes below the ceiling, rows in line
\* with the awaits of their owners, and the two facts about the budget.
THEOREM Invariance == Spec => []IInv
BY InitIInv, StepIInv, PTL DEF Spec

\* The admission counter is exact in every reachable state, for any mix of
\* sizes, limits, timeouts, rejections, database faults and restarts.
THEOREM AccountingHolds == Spec => []Accounting
<1>1. IInv => Accounting
  BY DEF IInv
<1>2. QED
  BY <1>1, Invariance, PTL

\* However many uploads race, admitted bytes never exceed the budget.
THEOREM BudgetHolds == Spec => []BudgetHonoured
<1>1. IInv => BudgetHonoured
  BY DEF IInv
<1>2. QED
  BY <1>1, Invariance, PTL

--------------------------------------------------------------------------------
(* Refinement.  live, the owners the abstract specification speaks of, moves *)
(* with the phases alone.                                                    *)

LiveAt(ph) == {d \in Docs : ph[d] \notin IdlePhases}

\* What a step does to the abstract state, said with row and live alone.
LifecycleStep(lv, lw) ==
  \/ row' = row /\ lw = lv
  \/ \E d \in Docs :
       \/ /\ d \notin lv /\ row[d] = "absent" /\ lw \in {lv, lv \cup {d}}
          /\ row' = row \/ row' = [row EXCEPT ![d] = "queued"]
       \/ /\ d \in lv /\ row[d] = "queued" /\ lw \in {lv, lv \ {d}}
          /\ row' = [row EXCEPT ![d] = "processing"]
       \/ /\ d \in lv /\ row[d] \in {"queued", "processing"} /\ lw = lv \ {d}
          /\ \E v \in {"done", "failed"} : row' = [row EXCEPT ![d] = v]
       \/ d \in lv /\ row' = row /\ lw = lv \ {d}
  \/ /\ lw = {}
     /\ row' \in [Docs -> Statuses]
     /\ \A d \in Docs :
          \/ row'[d] = row[d]
          \/ d \in lv /\ row[d] = "queued" /\ row'[d] = "processing"
          \/ /\ d \in lv /\ row[d] \in {"queued", "processing"}
             /\ row'[d] \in {"done", "failed"}

\* Those steps are the abstract specification's.
LEMMA LifecycleStepIsNext ==
  LifecycleStep(LiveAt(phase), LiveAt(phase')) => [Lifecycle!Next]_(Lifecycle!lifecycleVars)
BY DEF LifecycleStep, LiveAt, Statuses, Lifecycle!Next, Lifecycle!lifecycleVars,
       Lifecycle!Accept, Lifecycle!Start, Lifecycle!Conclude, Lifecycle!Abandon,
       Lifecycle!Die, Lifecycle!Terminal

\* A write that moves one document on, or lets go of it.
LEMMA OwnerStep ==
  ASSUME TypeOK, NEW d \in Docs, phase[d] \notin IdlePhases, NEW q, Goto(d, q),
         \/ row' = row
         \/ row[d] = "queued" /\ row' = [row EXCEPT ![d] = "processing"]
         \/ /\ row[d] \in {"queued", "processing"} /\ q \in IdlePhases
            /\ \E v \in {"done", "failed"} : row' = [row EXCEPT ![d] = v]
  PROVE  LifecycleStep(LiveAt(phase), LiveAt(phase'))
<1>1. phase' = [phase EXCEPT ![d] = q] /\ DOMAIN phase = Docs
  BY DEF Goto, TypeOK
<1>2. d \in LiveAt(phase)
  BY DEF LiveAt
<1>3. CASE q \in IdlePhases
  <2>1. LiveAt(phase') = LiveAt(phase) \ {d}
    BY <1>1, <1>3 DEF LiveAt
  <2>2. QED
    BY <1>2, <1>3, <2>1 DEF LifecycleStep
<1>4. CASE q \notin IdlePhases
  <2>1. LiveAt(phase') = LiveAt(phase)
    BY <1>1, <1>2, <1>4 DEF LiveAt
  <2>2. QED
    BY <1>2, <1>4, <2>1 DEF LifecycleStep
<1>5. QED
  BY <1>3, <1>4

\* Every step of the worker is a step of the lifecycle, or changes no row and
\* no owner.
LEMMA StepSimulates ==
  IInv /\ [Next]_vars => LifecycleStep(LiveAt(phase), LiveAt(phase'))
<1> SUFFICES ASSUME IInv, [Next]_vars
             PROVE  LifecycleStep(LiveAt(phase), LiveAt(phase'))
  OBVIOUS
<1>t. TypeOK /\ QueuesOK /\ RowsOK
  BY DEF IInv
<1>p. phase \in [Docs -> Phases] /\ row \in [Docs -> Statuses]
  BY <1>t DEF TypeOK
<1>1. ASSUME NEW d \in Docs, Upload(d)
      PROVE  LifecycleStep(LiveAt(phase), LiveAt(phase'))
  <2>1. PICK p \in {"arrived", "finished"} :
          /\ phase[d] = "absent" /\ phase' = [phase EXCEPT ![d] = p]
          /\ row' = row \/ row' = [row EXCEPT ![d] = "queued"]
    BY <1>1 DEF Upload, Goto
  <2>2. row[d] = "absent" /\ d \notin LiveAt(phase)
    BY <1>t, <2>1 DEF RowsOK, LiveAt, IdlePhases
  <2>3. DOMAIN phase = Docs
    BY <1>p
  <2>4. p \notin IdlePhases => LiveAt(phase') = LiveAt(phase) \cup {d}
    BY <2>1, <2>3 DEF LiveAt
  <2>5. CASE p \in IdlePhases
    <3>1. LiveAt(phase') = LiveAt(phase)
      BY <2>1, <2>2, <2>3, <2>5 DEF LiveAt
    <3>2. QED
      BY <2>1, <2>2, <3>1 DEF LifecycleStep
  <2>6. QED
    <3>1. CASE p \notin IdlePhases
      <4>1. LiveAt(phase') = LiveAt(phase) \cup {d}
        BY <2>4, <3>1
      <4>2. QED
        BY <2>1, <2>2, <4>1 DEF LifecycleStep
    <3>2. QED
      BY <2>5, <3>1
<1>2. ASSUME NEW d \in Docs, Admit(d) \/ Refuse(d) \/ Route(d) \/ RouteQueueFull(d)
                             \/ PipelineEnds(d) \/ Timeout(d)
      PROVE  LifecycleStep(LiveAt(phase), LiveAt(phase'))
  <2>1. phase[d] \notin IdlePhases /\ row' = row
    BY <1>2 DEF Admit, Refuse, Route, RouteQueueFull, PipelineEnds, Timeout, IdlePhases
  <2>2. \E q : Goto(d, q)
    BY <1>2, Zenon DEF Admit, Refuse, Route, RouteQueueFull, PipelineEnds, Timeout
  <2>3. QED
    BY <1>t, <2>1, <2>2, OwnerStep
<1>3. ASSUME NEW d \in Docs, BeginPipeline(d) \/ StartRaises(d)
      PROVE  LifecycleStep(LiveAt(phase), LiveAt(phase'))
  <2>1. phase[d] \notin IdlePhases /\ row[d] \in {"absent", "queued"}
    BY <1>3, <1>t DEF BeginPipeline, StartRaises, IdlePhases, RowsOK
  <2>2. \E o : WriteRow(d, "processing", o)
    BY <1>3, Zenon DEF BeginPipeline, StartRaises
  <2>3. \/ row' = row
        \/ row[d] # "absent" /\ row' = [row EXCEPT ![d] = "processing"]
    BY <2>2, WriteEffect
  <2>4. \E q : Goto(d, q)
    BY <1>3, Zenon DEF BeginPipeline, StartRaises
  <2>5. QED
    BY <1>t, <2>1, <2>3, <2>4, OwnerStep
<1>4. ASSUME NEW d \in Docs, SaveResult(d) \/ SaveRejection(d)
      PROVE  LifecycleStep(LiveAt(phase), LiveAt(phase'))
  <2>1. phase[d] \notin IdlePhases /\ row[d] \in {"absent", "queued", "processing"}
    BY <1>4, <1>t DEF SaveResult, SaveRejection, IdlePhases, RowsOK
  <2>2. \E o, v : v \in {"done", "failed"} /\ WriteRow(d, v, o)
    <3>1. CASE SaveResult(d)
      <4>1. PICK o \in Outcomes :
              WriteRow(d, IF phase[d] = "saving_done" THEN "done" ELSE "failed", o)
        BY <3>1 DEF SaveResult
      <4>2. QED
        BY <4>1, Zenon
    <3>2. CASE SaveRejection(d)
      BY <3>2, Zenon DEF SaveRejection
    <3>3. QED
      BY <1>4, <3>1, <3>2
  <2>3. \/ row' = row
        \/ /\ row[d] # "absent"
           /\ \E v \in {"done", "failed"} : row' = [row EXCEPT ![d] = v]
    BY <2>2, WriteEffect
  <2>4. Goto(d, "finished")
    BY <1>4, Zenon DEF SaveResult, SaveRejection
  <2>5. QED
    BY <1>t, <2>1, <2>3, <2>4, OwnerStep DEF IdlePhases
<1>5. ASSUME NEW r \in Routes, Consume(r) \/ Acquire(r)
      PROVE  LifecycleStep(LiveAt(phase), LiveAt(phase'))
  <2>1. /\ queue[r] \in Seq(Docs) /\ AllAt(phase, queue[r], "queued", r)
        /\ waiters[r] \in Seq(Docs) /\ AllAt(phase, waiters[r], "waiting", r)
    BY <1>t DEF TypeOK, QueuesOK
  <2>2. CASE Consume(r)
    <3>1. Head(queue[r]) \in Docs /\ phase[Head(queue[r])] = "queued"
      BY <2>1, <2>2, HeadIsAt DEF Consume
    <3>2. Goto(Head(queue[r]), "waiting") /\ row' = row
      BY <2>2 DEF Consume
    <3>3. QED
      BY <1>t, <3>1, <3>2, OwnerStep DEF IdlePhases
  <2>3. CASE Acquire(r)
    <3>1. Head(waiters[r]) \in Docs /\ phase[Head(waiters[r])] = "waiting"
      BY <2>1, <2>3, HeadIsAt DEF Acquire
    <3>2. Goto(Head(waiters[r]), "starting") /\ row' = row
      BY <2>3 DEF Acquire
    <3>3. QED
      BY <1>t, <3>1, <3>2, OwnerStep DEF IdlePhases
  <2>4. QED
    BY <1>5, <2>2, <2>3
<1>6. CASE ProcessEnds
  <2>1. LiveAt(phase') = {}
    BY <1>6 DEF ProcessEnds, LiveAt, IdlePhases
  <2>2. PICK landed \in SUBSET Docs :
          row' = [d \in Docs |-> IF d \in landed /\ row[d] # "absent"
                                 THEN InFlightStatus(d) ELSE row[d]]
    BY <1>6 DEF ProcessEnds
  <2>3. ASSUME NEW d \in Docs
        PROVE  \/ row'[d] = row[d]
               \/ d \in LiveAt(phase) /\ row[d] = "queued" /\ row'[d] = "processing"
               \/ /\ d \in LiveAt(phase) /\ row[d] \in {"queued", "processing"}
                  /\ row'[d] \in {"done", "failed"}
    <3>1. row'[d] = row[d] \/ (row[d] # "absent" /\ row'[d] = InFlightStatus(d))
      BY <2>2
    <3>2. \/ InFlightStatus(d) = row[d]
          \/ phase[d] = "starting" /\ InFlightStatus(d) = "processing"
          \/ /\ phase[d] \in {"saving_done", "saving_failed", "rejecting"}
             /\ InFlightStatus(d) \in {"done", "failed"}
      BY DEF InFlightStatus
    <3>3. phase[d] = "starting" => row[d] \in {"absent", "queued"}
      BY <1>t DEF RowsOK
    <3>4. phase[d] \in {"saving_done", "saving_failed", "rejecting"}
            => row[d] \in {"absent", "queued", "processing"}
      BY <1>t DEF RowsOK
    <3>5. phase[d] \in {"starting", "saving_done", "saving_failed", "rejecting"}
            => d \in LiveAt(phase)
      BY DEF LiveAt, IdlePhases
    <3>6. QED
      BY <3>1, <3>2, <3>3, <3>4, <3>5
  <2>4. row' \in [Docs -> Statuses]
    BY <1>t, TypeStep DEF TypeOK
  <2>5. QED
    BY <2>1, <2>3, <2>4 DEF LifecycleStep
<1>7. ASSUME UNCHANGED <<phase, row>>
      PROVE  LifecycleStep(LiveAt(phase), LiveAt(phase'))
  BY <1>7 DEF LifecycleStep
<1>8. QED
  <2>1. ASSUME NEW d \in Docs, NextJob(d) \/ DetachedEnds(d)
        PROVE  UNCHANGED <<phase, row>>
    BY <2>1 DEF NextJob, DetachedEnds
  <2>2. ASSUME ThreadTakesJob \/ ProcessStarts \/ UNCHANGED vars
        PROVE  UNCHANGED <<phase, row>>
    BY <2>2 DEF ThreadTakesJob, ProcessStarts, vars
  <2>3. QED
    BY <1>1, <1>2, <1>3, <1>4, <1>5, <1>6, <1>7, <2>1, <2>2 DEF Next, LoopStep

\* For every number of documents, threads and faults, the worker implements
\* the row lifecycle: only a document's owner writes its row, along
\* queued -> processing -> done|failed, and a row nobody owns never changes.
THEOREM LifecycleRefinement == Spec => ImplementsLifecycle
<1>1. Init => Lifecycle!Init
  BY DEF Init, Lifecycle!Init, IdlePhases
<1>2. IInv /\ [Next]_vars => [Lifecycle!Next]_(Lifecycle!lifecycleVars)
  BY StepSimulates, LifecycleStepIsNext
<1>3. QED
  BY <1>1, <1>2, Invariance, PTL DEF Spec, ImplementsLifecycle, Lifecycle!Spec

\* A recorded verdict is final, whatever times out, answers late or restarts.
THEOREM VerdictIsFinal == Spec => VerdictFinal
<1>1. IInv /\ [Next]_vars
        => [\A d \in Docs : row[d] \in {"done", "failed"} => row'[d] = row[d]]_vars
  <2> SUFFICES ASSUME IInv, [Next]_vars, NEW d \in Docs, row[d] \in {"done", "failed"}
               PROVE  row'[d] = row[d]
    OBVIOUS
  <2>1. LifecycleStep(LiveAt(phase), LiveAt(phase'))
    BY StepSimulates
  <2>2. row \in [Docs -> Statuses]
    BY DEF IInv, TypeOK
  <2>3. ASSUME NEW e \in Docs, row[e] \in {"absent", "queued", "processing"},
               NEW v, row' = [row EXCEPT ![e] = v]
        PROVE  row'[d] = row[d]
    BY <2>2, <2>3
  <2>4. QED
    BY <2>1, <2>3 DEF LifecycleStep
<1>2. QED
  BY <1>1, Invariance, PTL DEF Spec, VerdictFinal

\* A row that its owner has let go of never changes again and finds no other
\* owner: no later upload, thread or restart takes up what a dead process left at
\* 'queued' or 'processing' (start() builds fresh queues and looks at no row).
THEOREM LeftRowsStay ==
  Spec => [][\A d \in Docs :
               phase[d] \in IdlePhases /\ row[d] # "absent" =>
                 row'[d] = row[d] /\ phase'[d] \in IdlePhases]_vars
<1>1. IInv /\ [Next]_vars
        => [\A d \in Docs :
              phase[d] \in IdlePhases /\ row[d] # "absent" =>
                row'[d] = row[d] /\ phase'[d] \in IdlePhases]_vars
  <2> SUFFICES ASSUME IInv, [Next]_vars, NEW d \in Docs,
                      phase[d] \in IdlePhases, row[d] # "absent"
               PROVE  row'[d] = row[d] /\ phase'[d] \in IdlePhases
    OBVIOUS
  <2> DEFINE lv == LiveAt(phase)
             lw == LiveAt(phase')
  <2>1. LifecycleStep(lv, lw)
    BY StepSimulates
  <2>2. row \in [Docs -> Statuses]
    BY DEF IInv, TypeOK
  <2>3. d \notin lv /\ (d \notin lw => phase'[d] \in IdlePhases)
    BY DEF LiveAt
  <2> HIDE DEF lv, lw
  <2>4. ASSUME NEW e \in Docs, e \in lv \/ row[e] = "absent",
               NEW v, row' = [row EXCEPT ![e] = v]
        PROVE  row'[d] = row[d]
    BY <2>2, <2>3, <2>4
  <2>5. row'[d] = row[d] /\ d \notin lw
    BY <2>1, <2>3, <2>4 DEF LifecycleStep
  <2>6. QED
    BY <2>3, <2>5
<1>2. QED
  BY <1>1, Invariance, PTL DEF Spec

--------------------------------------------------------------------------------
(* Nothing is stranded.  QueuesOK says that a document in a FIFO is at that  *)
(* await; here is the converse, and the same of the thread pool, where the   *)
(* job of an abandoned document may linger.                                  *)

Holds(s, d) == \E i \in 1..Len(s) : s[i] = d

\* A document the pool has never seen, or is done with, at every await from
\* which the next one submits a job.
FreshPhases == {"absent", "arrived", "queued", "waiting", "starting"}

\* A job is in the pool once, and is there while its document awaits it.
JobsOK ==
  /\ OneToOne(pending)
  /\ \A d \in running : ~ Holds(pending, d)
  /\ \A d \in Docs :
       /\ phase[d] \in {"classifying", "running"} => Holds(pending, d) \/ d \in running
       /\ phase[d] \in FreshPhases => ~ Holds(pending, d) /\ d \notin running

\* A document that waits is where the consumer or the semaphore looks for it.
WaitsOK ==
  \A d \in Docs :
    /\ phase[d] = "queued" => Holds(queue[RouteOf(d)], d)
    /\ phase[d] = "waiting" => Holds(waiters[RouteOf(d)], d)

\* Joining a FIFO, and being the first to leave it.
LEMMA HoldsAppend ==
  ASSUME NEW s \in Seq(Docs), NEW d \in Docs
  PROVE  /\ \A e : Holds(Append(s, d), e) <=> Holds(s, e) \/ e = d
         /\ OneToOne(s) /\ ~ Holds(s, d) => OneToOne(Append(s, d))
<1> DEFINE t == Append(s, d)
<1>1. /\ Len(s) \in Nat /\ Len(t) = Len(s) + 1 /\ t[Len(s) + 1] = d
      /\ \A i \in 1..Len(s) : t[i] = s[i]
  OBVIOUS
<1>2. \A i \in 1..Len(t) : i \in 1..Len(s) \/ i = Len(s) + 1
  BY <1>1
<1>3. \A i \in 1..Len(s) : i \in 1..Len(t)
  BY <1>1
<1>4. Len(s) + 1 \in 1..Len(t)
  BY <1>1
<1> HIDE DEF t
<1>5. \A e : Holds(t, e) <=> Holds(s, e) \/ e = d
  BY <1>1, <1>2, <1>3, <1>4 DEF Holds
<1>6. ASSUME OneToOne(s), ~ Holds(s, d) PROVE OneToOne(t)
  BY <1>1, <1>2, <1>6 DEF Holds, OneToOne
<1>7. QED
  BY <1>5, <1>6 DEF t

LEMMA HoldsTail ==
  ASSUME NEW s \in Seq(Docs), s # <<>>
  PROVE  /\ Head(s) \in Docs /\ Tail(s) \in Seq(Docs)
         /\ \A e : Holds(s, e) <=> Holds(Tail(s), e) \/ e = Head(s)
         /\ OneToOne(s) => OneToOne(Tail(s)) /\ ~ Holds(Tail(s), Head(s))
<1> DEFINE t == Tail(s)
<1>1. /\ Len(s) \in Nat \ {0} /\ Len(t) = Len(s) - 1 /\ t \in Seq(Docs) /\ s[1] \in Docs
      /\ Head(s) = s[1] /\ \A i \in 1..Len(t) : t[i] = s[i + 1]
  OBVIOUS
<1>2. \A i \in 1..Len(t) : i + 1 \in 1..Len(s) /\ i + 1 # 1
  BY <1>1
<1>3. \A i \in 1..Len(s) : i = 1 \/ (i - 1 \in 1..Len(t) /\ (i - 1) + 1 = i)
  BY <1>1
<1>4. 1 \in 1..Len(s)
  BY <1>1
<1> HIDE DEF t
<1>5. \A e : Holds(s, e) <=> Holds(t, e) \/ e = Head(s)
  <2>1. ASSUME NEW e, Holds(s, e) PROVE Holds(t, e) \/ e = Head(s)
    <3>1. PICK i \in 1..Len(s) : s[i] = e
      BY <2>1 DEF Holds
    <3>2. CASE i = 1
      BY <1>1, <3>1, <3>2
    <3>3. CASE i # 1
      <4>1. i - 1 \in 1..Len(t) /\ t[i - 1] = s[i]
        BY <1>1, <1>3, <3>3
      <4>2. QED
        BY <3>1, <4>1 DEF Holds
    <3>4. QED
      BY <3>2, <3>3
  <2>2. ASSUME NEW e, Holds(t, e) PROVE Holds(s, e)
    BY <1>1, <1>2, <2>2 DEF Holds
  <2>3. QED
    BY <1>1, <1>4, <2>1, <2>2 DEF Holds
<1>6. ASSUME OneToOne(s) PROVE OneToOne(t) /\ ~ Holds(t, Head(s))
  <2>1. OneToOne(t)
    <3> SUFFICES ASSUME NEW i \in 1..Len(t), NEW j \in 1..Len(t), t[i] = t[j]
                 PROVE  i = j
      BY DEF OneToOne
    <3>1. i + 1 = j + 1
      BY <1>1, <1>2, <1>6 DEF OneToOne
    <3>2. QED
      BY <3>1
  <2>2. ~ Holds(t, Head(s))
    BY <1>1, <1>2, <1>4, <1>6 DEF Holds, OneToOne
  <2>3. QED
    BY <2>1, <2>2
<1>7. QED
  BY <1>1, <1>5, <1>6 DEF t

\* How often a document occurs in a FIFO in which nothing occurs twice.
LEMMA TimesIn ==
  ASSUME NEW s \in Seq(Docs), NEW d, OneToOne(s)
  PROVE  Cardinality({i \in DOMAIN s : s[i] = d}) = IF Holds(s, d) THEN 1 ELSE 0
<1>1. DOMAIN s = 1..Len(s)
  OBVIOUS
<1>2. CASE Holds(s, d)
  <2>1. PICK i \in 1..Len(s) : s[i] = d
    BY <1>2 DEF Holds
  <2>2. {j \in DOMAIN s : s[j] = d} = {i}
    BY <1>1, <2>1 DEF OneToOne
  <2>3. QED
    BY <1>2, <2>2, FS_Singleton
<1>3. CASE ~ Holds(s, d)
  <2>1. {j \in DOMAIN s : s[j] = d} = {}
    BY <1>1, <1>3 DEF Holds
  <2>2. QED
    BY <1>3, <2>1, FS_EmptySet
<1>4. QED
  BY <1>2, <1>3

\* In that order nothing is stranded.
LEMMA InOrderNothingStranded ==
  ASSUME TypeOK, QueuesOK, JobsOK, WaitsOK
  PROVE  NothingStranded
<1> SUFFICES ASSUME NEW d \in Docs PROVE InPlace(d)
  BY DEF NothingStranded
<1>1. pending \in Seq(Docs)
      /\ \A r \in Routes : queue[r] \in Seq(Docs) /\ waiters[r] \in Seq(Docs)
  BY DEF TypeOK
<1>2. Cardinality({i \in DOMAIN pending : pending[i] = d}) = IF Holds(pending, d) THEN 1 ELSE 0
  BY <1>1, TimesIn DEF JobsOK
<1>3. ASSUME NEW r \in Routes
      PROVE  /\ Holds(queue[r], d) <=> phase[d] = "queued" /\ r = RouteOf(d)
             /\ Holds(waiters[r], d) <=> phase[d] = "waiting" /\ r = RouteOf(d)
  BY <1>3 DEF QueuesOK, AllAt, WaitsOK, Holds
<1>4. ASSUME NEW r \in Routes
      PROVE  /\ Cardinality({i \in DOMAIN queue[r] : queue[r][i] = d}) =
                  IF phase[d] = "queued" /\ r = RouteOf(d) THEN 1 ELSE 0
             /\ Cardinality({i \in DOMAIN waiters[r] : waiters[r][i] = d}) =
                  IF phase[d] = "waiting" /\ r = RouteOf(d) THEN 1 ELSE 0
  <2>1. OneToOne(queue[r]) /\ OneToOne(waiters[r])
    BY <1>4 DEF QueuesOK, AllAt
  <2>2. /\ Cardinality({i \in DOMAIN queue[r] : queue[r][i] = d}) =
             IF Holds(queue[r], d) THEN 1 ELSE 0
        /\ Cardinality({i \in DOMAIN waiters[r] : waiters[r][i] = d}) =
             IF Holds(waiters[r], d) THEN 1 ELSE 0
    BY <1>1, <1>4, <2>1, TimesIn
  <2>3. QED
    BY <1>3, <1>4, <2>2
<1> DEFINE Job == Cardinality({i \in DOMAIN pending : pending[i] = d})
                  + (IF d \in running THEN 1 ELSE 0)
<1>5. Job <= 1 /\ (phase[d] \in {"classifying", "running"} => Job = 1)
  BY <1>2 DEF JobsOK
<1>6. QED
  BY <1>4, <1>5 DEF InPlace

\* Every step keeps the pool in order.
LEMMA JobsStep == TypeOK /\ QueuesOK /\ JobsOK /\ [Next]_vars => JobsOK'
<1> SUFFICES ASSUME TypeOK, QueuesOK, JobsOK, [Next]_vars PROVE JobsOK'
  OBVIOUS
<1>t. /\ phase \in [Docs -> Phases] /\ pending \in Seq(Docs) /\ running \subseteq Docs
      /\ \A r \in Routes : queue[r] \in Seq(Docs) /\ waiters[r] \in Seq(Docs)
  BY DEF TypeOK
\* A document moves, and the pool stays as it is.
<1>1. ASSUME NEW d \in Docs, NEW p, Goto(d, p), UNCHANGED <<pending, running>>,
             p \notin {"classifying", "running"},
             p \in FreshPhases => phase[d] \in FreshPhases
      PROVE  JobsOK'
  <2>1. phase'[d] = p /\ \A e \in Docs \ {d} : phase'[e] = phase[e]
    BY <1>t, <1>1 DEF Goto
  <2>2. QED
    BY <1>1, <2>1 DEF JobsOK
\* A document submits a job and awaits it.
<1>2. ASSUME NEW d \in Docs, NEW p, phase' = [phase EXCEPT ![d] = p], UNCHANGED running,
             pending' = Append(pending, d), p \in {"classifying", "running"},
             phase[d] \in FreshPhases
      PROVE  JobsOK'
  <2>1. phase'[d] = p /\ \A e \in Docs \ {d} : phase'[e] = phase[e]
    BY <1>t, <1>2
  <2>2. p \notin FreshPhases
    BY <1>2 DEF FreshPhases
  <2>3. /\ \A e : Holds(pending', e) <=> Holds(pending, e) \/ e = d
        /\ OneToOne(pending')
    BY <1>t, <1>2, HoldsAppend DEF JobsOK
  <2>4. QED
    BY <1>t, <1>2, <2>1, <2>2, <2>3 DEF JobsOK
\* A job ends, and its document moves on or had moved on.
<1>3. ASSUME NEW d \in Docs, NEW p, Goto(d, p) \/ (UNCHANGED phase /\ p = phase[d]),
             UNCHANGED pending, d \in running, running' = running \ {d},
             p \notin {"classifying", "running"}
      PROVE  JobsOK'
  <2>1. phase'[d] = p /\ \A e \in Docs \ {d} : phase'[e] = phase[e]
    BY <1>t, <1>3 DEF Goto
  <2>2. QED
    BY <1>3, <2>1 DEF JobsOK
<1>4. ASSUME NEW d \in Docs, Upload(d) \/ Refuse(d) \/ StartRaises(d) \/ SaveResult(d)
                             \/ SaveRejection(d) \/ Timeout(d)
      PROVE  JobsOK'
  <2>1. UNCHANGED <<pending, running>>
    BY <1>4 DEF Upload, Refuse, StartRaises, SaveResult, SaveRejection, Timeout
  <2>2. \/ Goto(d, "arrived") /\ phase[d] = "absent"
        \/ \E p \in {"rejecting", "finished", "saving_failed"} : Goto(d, p)
    BY <1>4 DEF Upload, Refuse, StartRaises, SaveResult, SaveRejection, Timeout
  <2>3. QED
    BY <1>1, <2>1, <2>2 DEF FreshPhases
<1>5. ASSUME NEW d \in Docs, Admit(d) PROVE JobsOK'
  BY <1>2, <1>5 DEF Admit, Goto, FreshPhases
<1>6. ASSUME NEW d \in Docs, BeginPipeline(d) PROVE JobsOK'
  <2>1. phase[d] = "starting" /\ UNCHANGED running
    BY <1>6 DEF BeginPipeline
  <2>2. CASE Goto(d, "running") /\ pending' = Append(pending, d)
    BY <1>2, <2>1, <2>2 DEF Goto, FreshPhases
  <2>3. CASE Goto(d, "saving_failed") /\ UNCHANGED pending
    BY <1>1, <2>1, <2>3 DEF FreshPhases
  <2>4. QED
    BY <1>6, <2>2, <2>3 DEF BeginPipeline
<1>7. ASSUME NEW d \in Docs, Route(d) \/ RouteQueueFull(d) \/ PipelineEnds(d) \/ DetachedEnds(d)
      PROVE  JobsOK'
  <2>1. d \in running /\ running' = running \ {d} /\ UNCHANGED pending
    BY <1>7 DEF Route, RouteQueueFull, PipelineEnds, DetachedEnds
  <2>2. CASE \E p \in {"queued", "rejecting", "saving_done", "saving_failed"} : Goto(d, p)
    BY <1>3, <2>1, <2>2
  <2>3. CASE UNCHANGED phase /\ phase[d] \notin {"classifying", "running"}
    BY <1>3, <2>1, <2>3
  <2>4. QED
    BY <1>7, <2>2, <2>3 DEF Route, RouteQueueFull, PipelineEnds, DetachedEnds, Detached
<1>8. ASSUME NEW r \in Routes, Consume(r) \/ Acquire(r) PROVE JobsOK'
  <2>1. CASE Consume(r)
    <3> DEFINE d == Head(queue[r])
    <3>1. d \in Docs /\ phase[d] = "queued"
      BY <1>t, <2>1, HeadIsAt DEF Consume, QueuesOK
    <3>2. Goto(d, "waiting") /\ UNCHANGED <<pending, running>>
      BY <2>1 DEF Consume
    <3> HIDE DEF d
    <3>3. QED
      BY <1>1, <3>1, <3>2 DEF FreshPhases
  <2>2. CASE Acquire(r)
    <3> DEFINE d == Head(waiters[r])
    <3>1. d \in Docs /\ phase[d] = "waiting"
      BY <1>t, <2>2, HeadIsAt DEF Acquire, QueuesOK
    <3>2. Goto(d, "starting") /\ UNCHANGED <<pending, running>>
      BY <2>2 DEF Acquire
    <3> HIDE DEF d
    <3>3. QED
      BY <1>1, <3>1, <3>2 DEF FreshPhases
  <2>3. QED
    BY <1>8, <2>1, <2>2
<1>9. ASSUME NEW d \in Docs, NextJob(d) PROVE JobsOK'
  <2>1. /\ UNCHANGED phase /\ phase[d] = "running" /\ d \in running
        /\ running' = running \ {d} /\ pending' = Append(pending, d)
    BY <1>9 DEF NextJob
  <2>2. /\ \A e : Holds(pending', e) <=> Holds(pending, e) \/ e = d
        /\ OneToOne(pending')
    BY <1>t, <2>1, HoldsAppend DEF JobsOK
  <2>3. QED
    BY <2>1, <2>2 DEF JobsOK, FreshPhases
<1>10. ASSUME ThreadTakesJob PROVE JobsOK'
  <2> DEFINE d == Head(pending)
  <2>1. /\ UNCHANGED phase /\ pending # <<>> /\ pending' = Tail(pending)
        /\ running' = IF Detached(d) THEN running ELSE running \cup {d}
    BY <1>10 DEF ThreadTakesJob
  <2>2. /\ d \in Docs
        /\ \A e : Holds(pending, e) <=> Holds(pending', e) \/ e = d
        /\ OneToOne(pending') /\ ~ Holds(pending', d)
    BY <1>t, <2>1, HoldsTail DEF JobsOK
  <2> HIDE DEF d
  <2>3. QED
    BY <2>1, <2>2 DEF JobsOK, Detached
<1>11. ASSUME ProcessEnds PROVE JobsOK'
  <2>1. pending' = <<>> /\ running' = {}
    BY <1>11 DEF ProcessEnds
  <2>2. \A d \in Docs : phase'[d] \notin {"classifying", "running"}
    BY <1>11 DEF ProcessEnds, IdlePhases
  <2>3. QED
    BY <2>1, <2>2 DEF JobsOK, OneToOne, Holds
<1>12. ASSUME UNCHANGED <<phase, pending, running>> PROVE JobsOK'
  BY <1>12 DEF JobsOK, Holds, OneToOne
<1>13. QED
  BY <1>4, <1>5, <1>6, <1>7, <1>8, <1>9, <1>10, <1>11, <1>12
     DEF Next, LoopStep, ProcessStarts, vars

\* Every step leaves a waiting document where it is looked for.
LEMMA WaitsStep == TypeOK /\ QueuesOK /\ WaitsOK /\ [Next]_vars => WaitsOK'
<1> SUFFICES ASSUME TypeOK, QueuesOK, WaitsOK, [Next]_vars PROVE WaitsOK'
  OBVIOUS
<1>t. /\ phase \in [Docs -> Phases]
      /\ queue \in [Routes -> Seq(Docs)] /\ waiters \in [Routes -> Seq(Docs)]
      /\ \A d \in Docs : RouteOf(d) \in Routes
  BY DEF TypeOK, RouteOf, Routes
\* A document moves elsewhere.
<1>1. ASSUME NEW d \in Docs, NEW p, Goto(d, p), p \notin {"queued", "waiting"},
             UNCHANGED <<queue, waiters>>
      PROVE  WaitsOK'
  <2>1. phase'[d] = p /\ \A e \in Docs \ {d} : phase'[e] = phase[e]
    BY <1>t, <1>1 DEF Goto
  <2>2. QED
    BY <1>1, <2>1 DEF WaitsOK
<1>2. ASSUME NEW d \in Docs,
             \/ Upload(d) \/ Admit(d) \/ Refuse(d) \/ RouteQueueFull(d)
             \/ BeginPipeline(d) \/ StartRaises(d) \/ PipelineEnds(d)
             \/ SaveResult(d) \/ SaveRejection(d) \/ Timeout(d)
      PROVE  WaitsOK'
  <2>1. UNCHANGED <<queue, waiters>>
    BY <1>2 DEF Upload, Admit, Refuse, RouteQueueFull, BeginPipeline, StartRaises,
               PipelineEnds, SaveResult, SaveRejection, Timeout
  <2>2. \E p \in {"arrived", "classifying", "rejecting", "running", "saving_failed",
                  "saving_done", "finished"} : Goto(d, p)
    BY <1>2 DEF Upload, Admit, Refuse, RouteQueueFull, BeginPipeline, StartRaises,
               PipelineEnds, SaveResult, SaveRejection, Timeout
  <2>3. QED
    BY <1>1, <2>1, <2>2
<1>3. ASSUME NEW d \in Docs, Route(d) PROVE WaitsOK'
  <2> DEFINE r == RouteOf(d)
  <2>1. /\ phase' = [phase EXCEPT ![d] = "queued"] /\ waiters' = waiters
        /\ queue' = [queue EXCEPT ![r] = Append(queue[r], d)]
    BY <1>3 DEF Route, Goto
  <2>2. phase'[d] = "queued" /\ \A e \in Docs \ {d} : phase'[e] = phase[e]
    BY <1>t, <2>1
  <2>3. \A e \in Docs : Holds(queue[RouteOf(e)], e) \/ e = d => Holds(queue'[RouteOf(e)], e)
    <3>1. r \in Routes /\ queue[r] \in Seq(Docs)
      BY <1>t
    <3>2. \A e : Holds(Append(queue[r], d), e) <=> Holds(queue[r], e) \/ e = d
      BY <3>1, HoldsAppend
    <3> HIDE DEF r
    <3>3. queue'[r] = Append(queue[r], d) /\ \A x \in Routes \ {r} : queue'[x] = queue[x]
      BY <1>t, <2>1, <3>1
    <3>4. QED
      BY <1>t, <3>2, <3>3 DEF r
  <2>4. QED
    BY <2>1, <2>2, <2>3 DEF WaitsOK
<1>4. ASSUME NEW r \in Routes, Consume(r) PROVE WaitsOK'
  <2> DEFINE d == Head(queue[r])
  <2>1. /\ queue[r] # <<>> /\ phase' = [phase EXCEPT ![d] = "waiting"]
        /\ queue' = [queue EXCEPT ![r] = Tail(queue[r])]
        /\ waiters' = [waiters EXCEPT ![r] = Append(waiters[r], d)]
    BY <1>4 DEF Consume, Goto
  <2>2. queue[r] \in Seq(Docs) /\ waiters[r] \in Seq(Docs) /\ d \in Docs /\ RouteOf(d) = r
    BY <1>t, <2>1, HeadIsAt DEF QueuesOK
  <2>3. \A e : Holds(queue[r], e) <=> Holds(Tail(queue[r]), e) \/ e = d
    BY <2>1, <2>2, HoldsTail
  <2> HIDE DEF d
  <2>4. \A e : Holds(Append(waiters[r], d), e) <=> Holds(waiters[r], e) \/ e = d
    BY <2>2, HoldsAppend
  <2>5. phase'[d] = "waiting" /\ \A e \in Docs \ {d} : phase'[e] = phase[e]
    BY <1>t, <2>1, <2>2
  <2>6. queue'[r] = Tail(queue[r]) /\ waiters'[r] = Append(waiters[r], d)
        /\ \A x \in Routes \ {r} : queue'[x] = queue[x] /\ waiters'[x] = waiters[x]
    BY <1>t, <2>1
  <2>7. \A e \in Docs : /\ Holds(queue[RouteOf(e)], e) /\ e # d => Holds(queue'[RouteOf(e)], e)
                        /\ Holds(waiters[RouteOf(e)], e) \/ e = d => Holds(waiters'[RouteOf(e)], e)
    BY <1>t, <2>2, <2>3, <2>4, <2>6
  <2>8. QED
    BY <2>5, <2>7 DEF WaitsOK
<1>5. ASSUME NEW r \in Routes, Acquire(r) PROVE WaitsOK'
  <2> DEFINE d == Head(waiters[r])
  <2>1. /\ waiters[r] # <<>> /\ phase' = [phase EXCEPT ![d] = "starting"]
        /\ waiters' = [waiters EXCEPT ![r] = Tail(waiters[r])] /\ queue' = queue
    BY <1>5 DEF Acquire, Goto
  <2>2. waiters[r] \in Seq(Docs) /\ d \in Docs
    BY <1>t, <2>1, HeadIsAt DEF QueuesOK
  <2>3. \A e : Holds(waiters[r], e) <=> Holds(Tail(waiters[r]), e) \/ e = d
    BY <2>1, <2>2, HoldsTail
  <2> HIDE DEF d
  <2>4. phase'[d] = "starting" /\ \A e \in Docs \ {d} : phase'[e] = phase[e]
    BY <1>t, <2>1, <2>2
  <2>5. waiters'[r] = Tail(waiters[r]) /\ \A x \in Routes \ {r} : waiters'[x] = waiters[x]
    BY <1>t, <2>1
  <2>6. \A e \in Docs : Holds(waiters[RouteOf(e)], e) /\ e # d => Holds(waiters'[RouteOf(e)], e)
    BY <1>t, <2>3, <2>5
  <2>7. QED
    BY <2>1, <2>4, <2>6 DEF WaitsOK
<1>6. ASSUME ProcessEnds PROVE WaitsOK'
  <2>1. \A d \in Docs : phase'[d] \notin {"queued", "waiting"}
    BY <1>6 DEF ProcessEnds, IdlePhases
  <2>2. QED
    BY <2>1 DEF WaitsOK
<1>7. ASSUME UNCHANGED <<phase, queue, waiters>> PROVE WaitsOK'
  BY <1>7 DEF WaitsOK, Holds
<1>8. QED
  <2>1. ASSUME NEW d \in Docs, NextJob(d) \/ DetachedEnds(d)
        PROVE  UNCHANGED <<phase, queue, waiters>>
    BY <2>1 DEF NextJob, DetachedEnds
  <2>2. ASSUME ThreadTakesJob \/ ProcessStarts \/ UNCHANGED vars
        PROVE  UNCHANGED <<phase, queue, waiters>>
    BY <2>2 DEF ThreadTakesJob, ProcessStarts, vars
  <2>3. QED
    BY <1>2, <1>3, <1>4, <1>5, <1>6, <1>7, <2>1, <2>2 DEF Next, LoopStep

\* No admitted document is stranded, however many threads, routes' slots and
\* faults there are: what waits for a thread, the consumer or the semaphore is
\* where that looks for it, exactly once (workers/document_tasks.py).
THEOREM NobodyIsStranded == Spec => []NothingStranded
<1>1. Init => JobsOK /\ WaitsOK
  BY DEF Init, JobsOK, WaitsOK, OneToOne, Holds
<1>2. IInv /\ JobsOK /\ WaitsOK /\ [Next]_vars => (JobsOK /\ WaitsOK)'
  BY JobsStep, WaitsStep DEF IInv
<1>3. IInv /\ JobsOK /\ WaitsOK => NothingStranded
  BY InOrderNothingStranded DEF IInv
<1>4. QED
  BY <1>1, <1>2, <1>3, Invariance, PTL DEF Spec

--------------------------------------------------------------------------------
(* With a database that answers, a row is there from the upload on, and what *)
(* is written to it stays.                                                   *)

Recorded ==
  \A d \in Docs : /\ phase[d] # "absent" => row[d] # "absent"
                  /\ phase[d] = "finished" => row[d] \in {"done", "failed"}

LEMMA RecordedStep ==
  ASSUME DbFaults = {}, TypeOK, QueuesOK, Recorded, [Next]_vars
  PROVE  Recorded'
<1>t. phase \in [Docs -> Phases] /\ row \in [Docs -> Statuses]
  BY DEF TypeOK
<1>f. \A d, s, outcome : outcome \in Outcomes /\ WriteRow(d, s, outcome) => row' = RowAfter(d, s, TRUE)
  BY DEF Outcomes, WriteRow, Landed
\* A document moves on, its row stays or moves with it.
<1>1. ASSUME NEW d \in Docs, NEW p, Goto(d, p), NEW s, s # "absent",
             row' = row \/ row' = [row EXCEPT ![d] = s],
             phase[d] # "absent" \/ row' = [row EXCEPT ![d] = s],
             p = "finished" => s \in {"done", "failed"} /\ row' = [row EXCEPT ![d] = s]
      PROVE  Recorded'
  <2>1. phase'[d] = p /\ \A e \in Docs \ {d} : phase'[e] = phase[e]
    BY <1>t, <1>1 DEF Goto
  <2>2. row'[d] \in {row[d], s} /\ \A e \in Docs \ {d} : row'[e] = row[e]
    BY <1>t, <1>1
  <2>3. row' = [row EXCEPT ![d] = s] => row'[d] = s
    BY <1>t
  <2>4. row'[d] # "absent"
    BY <1>1, <2>2, <2>3 DEF Recorded
  <2>5. p = "finished" => row'[d] \in {"done", "failed"}
    BY <1>1, <2>3
  <2>6. QED
    BY <2>1, <2>2, <2>4, <2>5 DEF Recorded
<1>2. ASSUME NEW d \in Docs, Upload(d) PROVE Recorded'
  BY <1>1, <1>2 DEF Upload
<1>3. ASSUME NEW d \in Docs,
             Admit(d) \/ Refuse(d) \/ Route(d) \/ RouteQueueFull(d) \/ PipelineEnds(d) \/ Timeout(d)
      PROVE  Recorded'
  <2>1. row' = row /\ phase[d] # "absent"
    BY <1>3 DEF Admit, Refuse, Route, RouteQueueFull, PipelineEnds, Timeout
  <2>2. PICK p \in {"classifying", "rejecting", "queued", "saving_done", "saving_failed"} :
          Goto(d, p)
    BY <1>3 DEF Admit, Refuse, Route, RouteQueueFull, PipelineEnds, Timeout
  <2>3. p # "finished"
    OBVIOUS
  <2>4. QED
    BY <1>1, <2>1, <2>2, <2>3
<1>4. ASSUME NEW d \in Docs, BeginPipeline(d) PROVE Recorded'
  <2>1. row' = RowAfter(d, "processing", TRUE) /\ phase[d] # "absent"
    BY <1>f, <1>4 DEF BeginPipeline
  <2>2. PICK p \in {"running", "saving_failed"} : Goto(d, p)
    BY <1>4 DEF BeginPipeline
  <2>3. p # "finished"
    OBVIOUS
  <2>4. QED
    BY <1>1, <2>1, <2>2, <2>3 DEF RowAfter
<1>5. ASSUME NEW d \in Docs, StartRaises(d) PROVE FALSE
  BY <1>5 DEF StartRaises
<1>6. ASSUME NEW d \in Docs, SaveResult(d) \/ SaveRejection(d) PROVE Recorded'
  <2>1. PICK s \in {"done", "failed"} : row' = RowAfter(d, s, TRUE)
    BY <1>f, <1>6 DEF SaveResult, SaveRejection
  <2>2. Goto(d, "finished") /\ phase[d] # "absent"
    BY <1>6 DEF SaveResult, SaveRejection
  <2>3. row' = [row EXCEPT ![d] = s] /\ s # "absent"
    BY <2>1, <2>2 DEF RowAfter, Recorded
  <2>4. QED
    BY <1>1, <2>2, <2>3
<1>7. ASSUME NEW r \in Routes, Consume(r) \/ Acquire(r) PROVE Recorded'
  <2>1. row' = row
    BY <1>7 DEF Consume, Acquire
  <2>2. PICK d \in Docs : phase[d] # "absent" /\ (Goto(d, "waiting") \/ Goto(d, "starting"))
    <3>1. queue[r] \in Seq(Docs) /\ waiters[r] \in Seq(Docs)
      BY DEF TypeOK
    <3>2. CASE Consume(r)
      <4>1. Head(queue[r]) \in Docs /\ phase[Head(queue[r])] = "queued"
        BY <3>1, <3>2, HeadIsAt DEF Consume, QueuesOK
      <4>2. Goto(Head(queue[r]), "waiting")
        BY <3>2 DEF Consume
      <4>3. QED
        BY <4>1, <4>2
    <3>3. CASE Acquire(r)
      <4>1. Head(waiters[r]) \in Docs /\ phase[Head(waiters[r])] = "waiting"
        BY <3>1, <3>3, HeadIsAt DEF Acquire, QueuesOK
      <4>2. Goto(Head(waiters[r]), "starting")
        BY <3>3 DEF Acquire
      <4>3. QED
        BY <4>1, <4>2
    <3>4. QED
      BY <1>7, <3>2, <3>3
  <2>3. "queued" # "absent" /\ "waiting" # "finished" /\ "starting" # "finished"
    OBVIOUS
  <2>4. QED
    BY <1>1, <2>1, <2>2, <2>3
<1>8. ASSUME ProcessEnds PROVE Recorded'
  <2>1. \A d \in Docs : /\ phase'[d] = IF phase[d] \in IdlePhases THEN phase[d] ELSE "lost"
                        /\ row'[d] \in {row[d], InFlightStatus(d)}
                        /\ phase[d] = "finished" => row'[d] = row[d]
    BY <1>8 DEF ProcessEnds, InFlightStatus
  <2>2. \A d \in Docs : InFlightStatus(d) \in {"processing", "done", "failed", row[d]}
    BY DEF InFlightStatus
  <2>3. QED
    BY <2>1, <2>2 DEF Recorded, IdlePhases
<1>9. ASSUME UNCHANGED <<phase, row>> PROVE Recorded'
  BY <1>9 DEF Recorded
<1>10. QED
  <2>1. ASSUME NEW d \in Docs, NextJob(d) \/ DetachedEnds(d) PROVE UNCHANGED <<phase, row>>
    BY <2>1 DEF NextJob, DetachedEnds
  <2>2. ASSUME ThreadTakesJob \/ ProcessStarts \/ UNCHANGED vars PROVE UNCHANGED <<phase, row>>
    BY <2>2 DEF ThreadTakesJob, ProcessStarts, vars
  <2>3. QED
    BY <1>2, <1>3, <1>4, <1>5, <1>6, <1>7, <1>8, <1>9, <2>1, <2>2 DEF Next, LoopStep

\* With a database that answers, what the pipeline is finished with has its
\* verdict on its row: refused, failed and timed-out documents too.
THEOREM WhatIsFinishedIsRecorded ==
  ASSUME DbFaults = {}
  PROVE  Spec => []FinishedIsRecorded
<1>1. Init => Recorded
  BY DEF Init, Recorded
<1>2. IInv /\ Recorded /\ [Next]_vars => Recorded'
  BY RecordedStep DEF IInv
<1>3. Recorded => FinishedIsRecorded
  BY DEF Recorded, FinishedIsRecorded
<1>4. QED
  BY <1>1, <1>2, <1>3, Invariance, PTL DEF Spec
===============================================================================

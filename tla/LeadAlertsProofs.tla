--------------------------- MODULE LeadAlertsProofs ---------------------------
(***************************************************************************)
(* Proofs about LeadAlerts, for every set of leads, users and preferences, *)
(* every batch and any number of faults: the dispatch logs are truthful, a *)
(* fault repeats a notice no oftener than its batch holds it, undisturbed  *)
(* nobody is forgotten; and about Announcements: what one process keeps of the       *)
(* promise that its names do not keep across restarts.                     *)
(***************************************************************************)
EXTENDS LeadAlerts, DataLemmas, FiniteSetTheorems

\* The town whose announcements have no number of their own.
CONSTANTS Titles, MaxRestarts
VARIABLES town_page, town_salt, town_rows, town_told
Town == INSTANCE Announcements WITH
          page <- town_page, salt <- town_salt, rows <- town_rows, told <- town_told

(***************************************************************************)
(* The announcement of a batch.                                            *)
(***************************************************************************)
\* The notices of a lead are those wanted of it.
LEMMA NoticesOfLead ==
  ASSUME NEW lead \in Leads
  PROVE  /\ NoticesOf(lead) \in Seq(Wanted)
         /\ Range(NoticesOf(lead)) = {n \in Wanted : LeadOf(n) = lead}
<1> DEFINE At(i, c) == Attempt(<<lead, Users[i], Channels[c]>>)
           Row(i) == [c \in DOMAIN Channels |-> At(i, c)]
           Flat(i) == FlattenSeq(Row(i))
           Rows == [i \in DOMAIN Users |-> Flat(i)]
<1>1. DOMAIN Channels = 1..3 /\ DOMAIN Users = 1..Len(Users) /\ Len(Users) \in Nat
  BY UserAssumption, LenProperties DEF Channels
<1>2. \A n : /\ Attempt(n) \in Seq(Wanted)
             /\ Range(Attempt(n)) = IF n \in Wanted THEN {n} ELSE {}
  BY DEF Attempt, Range
<1>3. \A i \in DOMAIN Users :
        /\ FlattenSeq(Row(i)) \in Seq(Wanted)
        /\ Range(FlattenSeq(Row(i))) = UNION {Range(At(i, c)) : c \in DOMAIN Channels}
  <2> TAKE i \in DOMAIN Users
  <2>1. \A c \in 1..3 : At(i, c) \in Seq(Wanted)
    BY <1>2
  <2> HIDE DEF At
  <2>2. Row(i) \in Seq(Seq(Wanted)) /\ DOMAIN Row(i) = DOMAIN Channels
    BY <1>1, <2>1
  <2>3. /\ FlattenSeq(Row(i)) \in Seq(Wanted)
        /\ Range(FlattenSeq(Row(i))) = UNION {Range(Row(i)[c]) : c \in DOMAIN Row(i)}
    <3> HIDE DEF Row
    <3>1. QED
      BY <2>2, FlattenSeqRange
  <2>4. \A c \in DOMAIN Channels : Row(i)[c] = At(i, c)
    OBVIOUS
  <2> HIDE DEF Row
  <2>5. QED
    BY <2>2, <2>3, <2>4
<1>4. NoticesOf(lead) = FlattenSeq(Rows)
  BY DEF NoticesOf
<1>5. Rows \in Seq(Seq(Wanted)) /\ DOMAIN Rows = DOMAIN Users
  <2>1. \A i \in 1..Len(Users) : Flat(i) \in Seq(Wanted)
    BY <1>1, <1>3
  <2> HIDE DEF Flat
  <2>2. QED
    BY <1>1, <2>1
<1>6. /\ FlattenSeq(Rows) \in Seq(Wanted)
      /\ Range(FlattenSeq(Rows)) = UNION {Range(Rows[i]) : i \in DOMAIN Rows}
  <2> HIDE DEF Rows
  <2>1. QED
    BY <1>5, FlattenSeqRange
<1>7. \A n : n \in Range(FlattenSeq(Rows)) <=>
               \E i \in DOMAIN Users : \E c \in DOMAIN Channels : n \in Range(At(i, c))
  <2>1. \A i \in DOMAIN Users : Rows[i] = FlattenSeq(Row(i))
    OBVIOUS
  <2> HIDE DEF Rows, Row, At
  <2>2. QED
    BY <1>3, <1>5, <1>6, <2>1
<1>8. \A n : n \in Range(FlattenSeq(Rows)) <=> n \in Wanted /\ LeadOf(n) = lead
  <2> TAKE n
  <2>1. ASSUME NEW i \in DOMAIN Users, NEW c \in DOMAIN Channels, n \in Range(At(i, c))
        PROVE  n \in Wanted /\ LeadOf(n) = lead
    <3>1. n = <<lead, Users[i], Channels[c]>> /\ n \in Wanted
      BY <1>2, <2>1
    <3>2. QED
      BY <3>1 DEF LeadOf
  <2>2. ASSUME n \in Wanted, LeadOf(n) = lead
        PROVE  \E i \in DOMAIN Users : \E c \in DOMAIN Channels : n \in Range(At(i, c))
    <3>1. n \in Leads \X Range(Users) \X Range(Channels)
      BY <2>2, NoticeAssumption DEF Notices
    <3>2. n = <<n[1], n[2], n[3]>> /\ n[2] \in Range(Users) /\ n[3] \in Range(Channels)
      BY <3>1
    <3>3. PICK i \in DOMAIN Users : Users[i] = n[2]
      BY <3>2 DEF Range
    <3>4. PICK c \in DOMAIN Channels : Channels[c] = n[3]
      BY <3>2 DEF Range
    <3>5. n = <<lead, Users[i], Channels[c]>>
      BY <2>2, <3>2, <3>3, <3>4 DEF LeadOf
    <3>6. n \in Range(At(i, c))
      BY <1>2, <2>2, <3>5
    <3>7. QED
      BY <3>6
  <2> HIDE DEF At, Rows
  <2>3. QED
    BY <1>7, <2>1, <2>2
<1> HIDE DEF Rows
<1>9. QED
  BY <1>4, <1>6, <1>8

\* The announcement of a batch is of what is wanted of its new leads.
LEMMA AnnounceBatch ==
  ASSUME NEW batch \in Batches, NEW new \in SUBSET Leads
  PROVE  /\ Announce(batch, new) \in Seq(Wanted)
         /\ \A n \in Wanted :
              LeadOf(n) \in new \cap Range(batch) => n \in Range(Announce(batch, new))
         /\ \A n \in Range(Announce(batch, new)) : LeadOf(n) \in new
<1> DEFINE Part(lead) == IF lead \in new THEN NoticesOf(lead) ELSE <<>>
           Parts == [i \in DOMAIN batch |-> Part(batch[i])]
<1>1. /\ batch \in Seq(Leads) /\ DOMAIN batch = 1..Len(batch) /\ Len(batch) \in Nat
      /\ \A i \in DOMAIN batch : batch[i] \in Leads
  BY BatchAssumption, LenProperties
<1>2. \A lead \in Leads : Part(lead) \in Seq(Wanted)
  BY NoticesOfLead
<1>3. Parts \in Seq(Seq(Wanted)) /\ DOMAIN Parts = DOMAIN batch
  <2> HIDE DEF Part
  <2>1. QED
    BY <1>1, <1>2
<1>4. \A i \in DOMAIN batch : Parts[i] = Part(batch[i])
  OBVIOUS
<1>5. Announce(batch, new) = FlattenSeq(Parts)
  BY DEF Announce
<1> HIDE DEF Parts
<1>6. /\ FlattenSeq(Parts) \in Seq(Wanted)
      /\ Range(FlattenSeq(Parts)) = UNION {Range(Parts[i]) : i \in DOMAIN Parts}
  BY <1>3, FlattenSeqRange
<1>7. ASSUME NEW n \in Wanted, LeadOf(n) \in new \cap Range(batch)
      PROVE  n \in Range(FlattenSeq(Parts))
  <2>1. PICK i \in DOMAIN batch : batch[i] = LeadOf(n)
    BY <1>7 DEF Range
  <2>2. Parts[i] = NoticesOf(LeadOf(n))
    BY <1>4, <1>7, <2>1
  <2>3. n \in Range(Parts[i])
    BY <1>7, <2>2, NoticesOfLead
  <2>4. QED
    BY <1>3, <1>6, <2>1, <2>3
<1>8. ASSUME NEW n \in Range(FlattenSeq(Parts))
      PROVE  LeadOf(n) \in new
  <2>1. PICK i \in DOMAIN batch : n \in Range(Parts[i])
    BY <1>3, <1>6
  <2>2. Parts[i] = IF batch[i] \in new THEN NoticesOf(batch[i]) ELSE <<>>
    BY <1>4
  <2>3. batch[i] \in new
    BY <2>1, <2>2 DEF Range
  <2>4. QED
    BY <1>1, <2>1, <2>2, <2>3, NoticesOfLead
<1>9. QED
  BY <1>5, <1>6, <1>7, <1>8

\* An attempt made is one copy less; the other notices keep theirs.
LEMMA CopiesOfTail ==
  ASSUME NEW s \in Seq(Wanted), s # <<>>, NEW n
  PROVE  /\ Copies(n, s) \in Nat /\ Copies(n, Tail(s)) \in Nat
         /\ Copies(n, s) = Copies(n, Tail(s)) + IF n = Head(s) THEN 1 ELSE 0
<1> DEFINE places == {i \in DOMAIN s : s[i] = n}
           after == {i \in DOMAIN Tail(s) : Tail(s)[i] = n}
           moved == {i \in places : i # 1}
           to == [i \in after |-> i + 1]
<1>1. /\ DOMAIN s = 1..Len(s) /\ Len(s) \in Nat \ {0} /\ Head(s) = s[1]
      /\ Tail(s) \in Seq(Wanted) /\ Len(Tail(s)) = Len(s) - 1
      /\ DOMAIN Tail(s) = 1..(Len(s) - 1)
      /\ \A i \in 1..(Len(s) - 1) : Tail(s)[i] = s[i+1]
  BY HeadTailProperties, EmptySeq, LenProperties
<1>2. IsFiniteSet(places) /\ IsFiniteSet(after) /\ IsFiniteSet(moved)
  <2>1. IsFiniteSet(1..Len(s)) /\ IsFiniteSet(1..(Len(s) - 1))
    BY <1>1, FS_Interval
  <2>2. places \subseteq 1..Len(s) /\ after \subseteq 1..(Len(s) - 1) /\ moved \subseteq 1..Len(s)
    BY <1>1
  <2> HIDE DEF places, after, moved
  <2>3. QED
    BY <2>1, <2>2, FS_Subset
<1>3. to \in Bijection(after, moved)
  <2>1. \A i \in after : i \in 1..(Len(s) - 1) /\ s[i+1] = n /\ i + 1 \in moved
    BY <1>1
  <2>2. \A j \in moved : j - 1 \in after /\ to[j - 1] = j
    BY <1>1
  <2>3. to \in [after -> moved] /\ \A i, j \in after : to[i] = to[j] => i = j
    BY <2>1
  <2> HIDE DEF after, moved, to
  <2>4. QED
    BY <2>2, <2>3 DEF Bijection, Injection, Surjection, IsInjective
<1>4. Cardinality(after) = Cardinality(moved)
  <2> HIDE DEF after, moved, to
  <2>1. QED
    BY <1>2, <1>3, FS_Bijection DEF ExistsBijection
<1>5. /\ Cardinality(places) \in Nat /\ Cardinality(after) \in Nat
  <2> HIDE DEF places, after
  <2>1. QED
    BY <1>2, FS_CardinalityType
<1>5a. Copies(n, s) = Cardinality(places) /\ Copies(n, Tail(s)) = Cardinality(after)
  BY DEF Copies
<1>6. CASE n = Head(s)
  <2>1. 1 \in places /\ moved = places \ {1}
    BY <1>1, <1>6
  <2>2. Cardinality(moved) = Cardinality(places) - 1
    <3> HIDE DEF places, moved
    <3>1. QED
      BY <1>2, <2>1, FS_RemoveElement
  <2> HIDE DEF places, after, moved
  <2>3. QED
    BY <1>4, <1>5, <1>5a, <1>6, <2>2
<1>7. CASE n # Head(s)
  <2>1. moved = places
    BY <1>1, <1>7
  <2> HIDE DEF places, after, moved
  <2>2. QED
    BY <1>4, <1>5, <1>5a, <1>7, <2>1
<1>8. QED
  BY <1>6, <1>7

\* A list that does not name a notice holds no copy of it.
LEMMA NoCopies ==
  ASSUME NEW s, NEW n, n \notin Range(s)
  PROVE  Copies(n, s) = 0
<1>1. {i \in DOMAIN s : s[i] = n} = {}
  BY DEF Range
<1>2. QED
  BY <1>1, FS_EmptySet DEF Copies

\* The attempt at hand and those that follow it.
LEMMA HeadAndRest ==
  ASSUME NEW s \in Seq(Wanted), s # <<>>
  PROVE  /\ Head(s) \in Wanted
         /\ Tail(s) \in Seq(Wanted)
         /\ Range(s) = {Head(s)} \cup Range(Tail(s))
<1>1. /\ Head(s) \in Wanted /\ Tail(s) \in Seq(Wanted)
      /\ Len(Tail(s)) = Len(s) - 1
      /\ \A i \in 1..Len(Tail(s)) : Tail(s)[i] = s[i+1]
  BY HeadTailProperties
<1>2. Len(s) \in Nat \ {0} /\ Head(s) = s[1]
  BY EmptySeq
<1>3. Range(s) = {s[i] : i \in 1..Len(s)} /\ Range(Tail(s)) = {Tail(s)[i] : i \in 1..Len(Tail(s))}
  BY <1>1, RangeEquality
<1>4. ASSUME NEW i \in 1..Len(s), i # 1
      PROVE  i - 1 \in 1..Len(Tail(s)) /\ Tail(s)[i-1] = s[i]
  BY <1>1, <1>2, <1>4
<1>5. \A i \in 1..Len(Tail(s)) : i + 1 \in 1..Len(s)
  BY <1>1, <1>2
<1>6. Range(s) \subseteq {Head(s)} \cup Range(Tail(s))
  BY <1>2, <1>3, <1>4
<1>7. Range(Tail(s)) \subseteq Range(s) /\ Head(s) \in Range(s)
  BY <1>1, <1>2, <1>3, <1>5
<1>8. QED
  BY <1>1, <1>6, <1>7

(***************************************************************************)
(* The inductive invariant.                                                *)
(***************************************************************************)
\* The tick is between the delivery of n and the record of it.
AtRecord(n) == step = "record" /\ n = Head(todo)

\* An attempt under way is an attempt at something.
StepOK == step # "check" => todo # <<>>

\* What is about to be recorded was delivered.
RecordAfterDelivery == step = "record" => sent[Head(todo)] >= 1

\* What the faults so far may have repeated.
Paid(n) == mishaps * Cost(n)

\* A delivery that is in no log, nor about to be, was paid for by a fault, and
\* so was the attempt to deliver what a log has already.
Slack ==
  /\ \A n \in Notices : sent[n] <= Paid(n) + 1
  /\ \A n \in Notices : n \notin logged /\ ~ AtRecord(n) => sent[n] <= Paid(n)
  /\ step = "send" => sent[Head(todo)] <= Paid(Head(todo))

\* The deliveries made of a notice and those under way and to come; the one
\* whose record is awaited is among both.
Outlook(n) == sent[n] + Copies(n, todo) - IF AtRecord(n) THEN 1 ELSE 0

\* An alert no log can take is paid for before it is sent: the fault that kept
\* its lead's row from being written pays for every copy in the batch.
Adrift == \A n \in Notices : ~ Referable(n) => Outlook(n) <= Paid(n)

\* Undisturbed, what is due for a stored lead is delivered or still to do.
Pending ==
  mishaps = 0 => \A n \in Wanted :
    LeadOf(n) \in stored /\ sent[n] = 0 => n \in Range(todo)

IInv ==
  /\ TypeOK /\ StepOK /\ RecordAfterDelivery /\ LogIsTruthful /\ Slack /\ Adrift
  /\ Pending

\* A fault counts, and one that cannot happen does not.
LEMMA MishapCounts ==
  ASSUME TypeOK, NEW kind, Mishap(kind)
  PROVE  mishaps' = mishaps + 1 /\ mishaps' \in 1..MaxMishaps
BY FaultAssumption DEF Mishap, TypeOK

\* What has been paid for is a number, the fault-free steps leave it alone, and
\* a fault pays for all that its batch may hold.
LEMMA FaultsPay ==
  ASSUME TypeOK, NEW n \in Notices
  PROVE  /\ Paid(n) \in Nat /\ sent[n] \in Nat
         /\ mishaps = 0 => Paid(n) = 0
         /\ mishaps' = mishaps => Paid(n)' = Paid(n)
         /\ mishaps' = mishaps + 1 =>
              Paid(n)' = Paid(n) + Cost(n) /\ Cost(n) \in Nat \ {0}
              /\ (~ Referable(n) => Cost(n) = MaxCopies)
<1>1. Cost(n) \in Nat \ {0} /\ (~ Referable(n) => Cost(n) = MaxCopies)
  BY CopiesAssumption DEF Cost, Referable
<1>2. mishaps \in Nat /\ sent[n] \in Nat
  BY FaultAssumption DEF TypeOK
<1> DEFINE c == Cost(n)
<1>3. Paid(n) = mishaps * c /\ Paid(n)' = mishaps' * c
  BY DEF Paid, Cost
<1>4. c \in Nat
  BY <1>1
<1>5. mishaps * c \in Nat /\ 0 * c = 0 /\ (mishaps + 1) * c = mishaps * c + c
  <2> HIDE DEF c
  <2>1. QED
    BY <1>2, <1>4
<1>6. QED
  BY <1>1, <1>2, <1>3, <1>5

\* A list that lost an attempt, or two, holds no more copies of anything.
LEMMA CopiesLeft ==
  ASSUME TypeOK, todo # <<>>, NEW n,
         todo' = todo \/ todo' = Rest \/ todo' = AfterException
  PROVE  /\ Copies(n, todo) \in Nat /\ Copies(n, todo') \in Nat
         /\ Copies(n, todo') <= Copies(n, todo)
         /\ n = Head(todo) /\ todo' # todo => Copies(n, todo') <= Copies(n, todo) - 1
         /\ n = Head(todo) => Copies(n, todo) >= 1
<1>1. /\ Copies(n, todo) \in Nat /\ Copies(n, Rest) \in Nat
      /\ Copies(n, todo) = Copies(n, Rest) + IF n = Head(todo) THEN 1 ELSE 0
  BY CopiesOfTail DEF TypeOK, Rest
<1>2. Rest \in Seq(Wanted)
  BY HeadAndRest DEF TypeOK, Rest
<1>3. Rest # <<>> => /\ Copies(n, Tail(Rest)) \in Nat
                     /\ Copies(n, Tail(Rest)) <= Copies(n, Rest)
  <2>1. SUFFICES ASSUME Rest # <<>>
                 PROVE  /\ Copies(n, Tail(Rest)) \in Nat
                        /\ Copies(n, Tail(Rest)) <= Copies(n, Rest)
    OBVIOUS
  <2>2. /\ Copies(n, Rest) \in Nat /\ Copies(n, Tail(Rest)) \in Nat
        /\ Copies(n, Rest) = Copies(n, Tail(Rest)) + IF n = Head(Rest) THEN 1 ELSE 0
    BY <1>2, <2>1, CopiesOfTail
  <2>3. QED
    BY <2>2
<1>4. AfterException = Rest \/ (Rest # <<>> /\ AfterException = Tail(Rest))
  BY DEF AfterException
<1>5. /\ Copies(n, AfterException) \in Nat
      /\ Copies(n, AfterException) <= Copies(n, Rest)
  <2>1. CASE AfterException = Rest
    BY <1>1, <2>1
  <2>2. CASE Rest # <<>> /\ AfterException = Tail(Rest)
    BY <1>3, <2>2
  <2>3. QED
    BY <1>4, <2>1, <2>2
<1>6. CASE todo' = todo
  BY <1>1, <1>6
<1>7. CASE todo' = Rest
  BY <1>1, <1>7
<1>8. CASE todo' = AfterException
  BY <1>1, <1>5, <1>8
<1>9. QED
  BY <1>6, <1>7, <1>8

\* A fault during an attempt pays for whatever becomes of the attempt.
LEMMA FaultKeepsSlack ==
  ASSUME IInv, mishaps' = mishaps + 1, stored' = stored, sent' = sent,
         \/ todo' = <<>>
         \/ todo # <<>> /\ (todo' = todo \/ todo' = Rest \/ todo' = AfterException),
         step' # "record", step' = "send" => todo # <<>> /\ todo' = todo
  PROVE  Slack' /\ Adrift'
<1>1. \A n \in Notices :
        /\ Paid(n) \in Nat /\ sent[n] \in Nat
        /\ Paid(n)' >= Paid(n) + 1
  BY FaultsPay DEF IInv
<1>2. \A n \in Notices : sent[n] <= Paid(n) + 1
  BY DEF IInv, Slack
<1>3. step' = "send" => Head(todo') \in Notices
  BY HeadAndRest, NoticeAssumption DEF IInv, TypeOK
<1>4. ASSUME NEW n \in Notices
      PROVE  sent'[n] <= Paid(n)'
  <2>1. sent'[n] = sent[n]
    OBVIOUS
  <2> HIDE DEF Paid
  <2>2. Paid(n)' \in Nat \/ Paid(n)' \in Int
    BY FaultsPay DEF IInv
  <2>3. QED
    BY <1>1, <1>2, <2>1, <2>2
<1>5. Slack'
  <2>1. \A n \in Notices : Paid(n)' \in Int /\ sent'[n] \in Nat
    BY FaultsPay DEF IInv
  <2>2. \A n \in Notices : sent'[n] <= Paid(n)' + 1
    <3> HIDE DEF Paid
    <3>1. QED
      BY <1>4, <2>1
  <2>3. step' = "send" => sent'[Head(todo')] <= Paid(Head(todo))'
    BY <1>3, <1>4
  <2>4. QED
    BY <1>4, <2>2, <2>3 DEF Slack
<1>6. ASSUME NEW n \in Notices, ~ Referable(n)'
      PROVE  Outlook(n)' <= Paid(n)'
  <2>1. ~ Referable(n)
    BY <1>6 DEF Referable
  <2>2. Outlook(n) <= Paid(n)
    BY <2>1 DEF IInv, Adrift
  <2>3. Outlook(n)' = sent[n] + Copies(n, todo')
    <3>1. ~ AtRecord(n)'
      BY DEF AtRecord
    <3>2. Copies(n, todo') \in Nat
      <4>1. CASE todo' = <<>>
        BY <4>1, NoCopies DEF Range
      <4>2. CASE todo' # <<>>
        BY <4>2, CopiesLeft DEF IInv
      <4>3. QED
        BY <4>1, <4>2
    <3>3. QED
      BY <1>1, <3>1, <3>2 DEF Outlook
  <2>4. CASE todo' = <<>>
    <3>1. Copies(n, todo') = 0
      BY <2>4, NoCopies DEF Range
    <3>2. QED
      BY <1>1, <1>4, <2>3, <3>1
  <2>5. CASE todo' # <<>>
    <3>1. /\ Copies(n, todo) \in Nat /\ Copies(n, todo') \in Nat
          /\ Copies(n, todo') <= Copies(n, todo)
      BY <2>5, CopiesLeft DEF IInv
    <3>2. sent[n] + Copies(n, todo) <= Paid(n) + 1
      BY <1>1, <2>2, <3>1 DEF Outlook
    <3>3. Paid(n)' \in Nat
      BY <1>1, FaultsPay DEF IInv
    <3>4. QED
      BY <1>1, <2>3, <3>1, <3>2, <3>3
  <2>6. QED
    BY <2>4, <2>5
<1>7. QED
  BY <1>5, <1>6 DEF Adrift

\* A step without a fault or a delivery, that makes fewer attempts remain, or
\* begins one: what is adrift is paid for as it was.
LEMMA NoMoreAdrift ==
  ASSUME IInv, mishaps' = mishaps, stored' = stored, sent' = sent, todo # <<>>,
         todo' = todo \/ todo' = Rest \/ todo' = AfterException,
         step' # "record", step = "record" => todo' # todo
  PROVE  Adrift'
<1> SUFFICES ASSUME NEW n \in Notices, ~ Referable(n)'
             PROVE  Outlook(n)' <= Paid(n)'
  BY DEF Adrift
<1>1. ~ Referable(n) /\ ~ AtRecord(n)'
  BY DEF Referable, AtRecord
<1>2. Outlook(n) <= Paid(n) /\ Paid(n)' = Paid(n) /\ Paid(n) \in Nat /\ sent[n] \in Nat
  BY <1>1, FaultsPay DEF IInv, Adrift
<1>3. /\ Copies(n, todo) \in Nat /\ Copies(n, todo') \in Nat
      /\ Copies(n, todo') <= Copies(n, todo)
      /\ AtRecord(n) => Copies(n, todo') <= Copies(n, todo) - 1
  BY CopiesLeft DEF IInv, AtRecord
<1>4. Outlook(n)' = sent[n] + Copies(n, todo')
  BY <1>1, <1>2, <1>3 DEF Outlook
<1>5. CASE AtRecord(n)
  <2>1. Outlook(n) = sent[n] + Copies(n, todo) - 1
    BY <1>2, <1>3, <1>5 DEF Outlook
  <2>2. QED
    BY <1>2, <1>3, <1>4, <1>5, <2>1
<1>6. CASE ~ AtRecord(n)
  <2>1. Outlook(n) = sent[n] + Copies(n, todo)
    BY <1>2, <1>3, <1>6 DEF Outlook
  <2>2. QED
    BY <1>2, <1>3, <1>4, <2>1
<1>7. QED
  BY <1>5, <1>6

\* What is left to attempt after any of the outcomes is a list of notices.
LEMMA RestOfTodo ==
  ASSUME TypeOK, todo # <<>>
  PROVE  /\ Head(todo) \in Wanted /\ Head(todo) \in Notices
         /\ Rest \in Seq(Wanted)
         /\ AfterException \in Seq(Wanted)
         /\ Range(todo) = {Head(todo)} \cup Range(Rest)
<1>1. /\ Head(todo) \in Wanted /\ Rest \in Seq(Wanted)
      /\ Range(todo) = {Head(todo)} \cup Range(Rest)
  BY HeadAndRest DEF TypeOK, Rest
<1>2. Rest # <<>> => Tail(Rest) \in Seq(Wanted)
  BY <1>1, HeadAndRest
<1>3. AfterException \in Seq(Wanted)
  BY <1>1, <1>2 DEF AfterException
<1>4. QED
  BY <1>1, <1>3, NoticeAssumption

\* The initial state satisfies the invariant.
LEMMA InitInvariant == Init => IInv
<1> SUFFICES ASSUME Init PROVE IInv
  OBVIOUS
<1>1. TypeOK
  BY FaultAssumption DEF Init, TypeOK
<1>2. \A n \in Notices : sent[n] = 0 /\ Paid(n) = 0 /\ ~ AtRecord(n) /\ Copies(n, todo) = 0
  <2>1. TAKE n \in Notices
  <2>2. Copies(n, todo) = 0
    BY NoCopies DEF Init, Range
  <2>3. QED
    BY <1>1, <2>2, FaultsPay DEF Init, AtRecord
<1>3. Slack /\ Adrift
  <2>1. step # "send"
    BY DEF Init
  <2>2. QED
    BY <1>2, <2>1 DEF Slack, Adrift, Outlook
<1>4. QED
  BY <1>1, <1>3 DEF Init, IInv, StepOK, RecordAfterDelivery, LogIsTruthful, Pending

\* A batch is persisted between ticks: everything stored was told, or is new.
LEMMA PersistInvariant ==
  ASSUME IInv, NEW batch \in Batches, Persist(batch)
  PROVE  IInv'
<1> DEFINE new == Range(batch) \ stored
<1>1. /\ todo = <<>> /\ step = "check" /\ step' = "check" /\ mishaps' = mishaps
      /\ sent' = sent /\ logged' = logged
      /\ stored' = stored \cup Range(batch) /\ todo' = Announce(batch, new)
  BY DEF IInv, StepOK, TypeOK, Persist, NoMishap
<1>2. Range(batch) \in SUBSET Leads
  BY BatchAssumption, RangeOfSeq
<1>3. /\ todo' \in Seq(Wanted)
      /\ \A n \in Wanted : LeadOf(n) \in new \cap Range(batch) => n \in Range(todo')
      /\ \A n \in Range(todo') : LeadOf(n) \in stored'
  BY <1>1, <1>2, AnnounceBatch
<1>4. TypeOK'
  BY <1>1, <1>2, <1>3 DEF IInv, TypeOK
<1>5. StepOK' /\ RecordAfterDelivery' /\ LogIsTruthful'
  BY <1>1 DEF IInv, StepOK, RecordAfterDelivery, LogIsTruthful
<1>6. Slack' /\ Adrift'
  <2>1. \A n \in Notices : Paid(n)' = Paid(n)
    BY <1>1, FaultsPay DEF IInv
  <2>2. \A n \in Notices : ~ AtRecord(n) /\ ~ AtRecord(n)' /\ Copies(n, todo) = 0
    BY <1>1, NoCopies DEF AtRecord, Range
  <2>3. Slack'
    BY <1>1, <2>1, <2>2 DEF IInv, Slack
  <2>4. ASSUME NEW n \in Notices, ~ Referable(n)'
        PROVE  Outlook(n)' <= Paid(n)'
    <3>1. n \notin Range(todo') /\ ~ Referable(n)
      BY <1>1, <1>3, <2>4 DEF Referable
    <3>2. Copies(n, todo') = 0 /\ Outlook(n) <= Paid(n)
      BY <3>1, NoCopies DEF IInv, Adrift
    <3>3. Outlook(n)' = Outlook(n)
      BY <1>1, <2>2, <3>2 DEF Outlook
    <3>4. QED
      BY <2>1, <3>2, <3>3
  <2>5. QED
    BY <2>3, <2>4 DEF Adrift
<1>7. Pending'
  <2> SUFFICES ASSUME mishaps = 0, NEW n \in Wanted, LeadOf(n) \in stored', sent[n] = 0
               PROVE  n \in Range(todo')
    BY <1>1 DEF Pending
  <2>1. Range(todo) = {}
    BY <1>1 DEF Range
  <2>2. LeadOf(n) \notin stored
    BY <2>1 DEF IInv, Pending
  <2>3. QED
    BY <1>1, <1>3, <2>2
<1>8. QED
  BY <1>4, <1>5, <1>6, <1>7 DEF IInv

\* A batch no database took: after the fault only the types are at stake.
LEMMA PersistFaultInvariant ==
  ASSUME IInv, NEW batch \in Batches, PersistSkipped(batch) \/ PersistRaises(batch)
  PROVE  IInv'
<1>1. /\ todo = <<>> /\ step = "check" /\ step' = "check"
      /\ sent' = sent /\ logged' = logged
      /\ mishaps' = mishaps + 1 /\ mishaps' \in 1..MaxMishaps
  BY MishapCounts DEF IInv, StepOK, TypeOK, PersistSkipped, PersistRaises
<1>2. Range(batch) \in SUBSET Leads
  BY BatchAssumption, RangeOfSeq
<1>3. Announce(batch, Range(batch)) \in Seq(Wanted)
  BY <1>2, AnnounceBatch
<1>4. TypeOK'
  <2>1. todo' \in Seq(Wanted)
    BY <1>1, <1>3 DEF PersistSkipped, PersistRaises, IInv, TypeOK
  <2>2. stored' \subseteq Leads
    BY <1>2 DEF PersistSkipped, PersistRaises, IInv, TypeOK
  <2>3. QED
    BY <1>1, <2>1, <2>2, FaultAssumption DEF IInv, TypeOK
<1>5. StepOK' /\ RecordAfterDelivery' /\ LogIsTruthful' /\ Pending'
  BY <1>1 DEF IInv, StepOK, RecordAfterDelivery, LogIsTruthful, Pending
<1>6. Slack' /\ Adrift'
  <2>1. \A n \in Notices :
          /\ Paid(n) \in Nat /\ sent[n] \in Nat /\ Cost(n) \in Nat \ {0}
          /\ Paid(n)' = Paid(n) + Cost(n)
          /\ ~ Referable(n) => Cost(n) = MaxCopies
    BY <1>1, FaultsPay DEF IInv
  <2>2. \A n \in Notices : ~ AtRecord(n) /\ ~ AtRecord(n)' /\ Copies(n, todo) = 0
    BY <1>1, NoCopies DEF AtRecord, Range
  <2>3. \A n \in Notices : sent[n] <= Paid(n) + 1
    BY DEF IInv, Slack
  <2>4. Slack'
    <3>1. \A n \in Notices : sent'[n] <= Paid(n)' /\ sent'[n] <= Paid(n)' + 1
      BY <1>1, <2>1, <2>3
    <3>2. QED
      BY <1>1, <3>1 DEF Slack
  <2>5. ASSUME NEW n \in Notices, ~ Referable(n)'
        PROVE  Outlook(n)' <= Paid(n)'
    <3>1. ~ Referable(n)
      BY <2>5 DEF Referable, PersistSkipped, PersistRaises
    <3>2. sent[n] <= Paid(n)
      <4>1. Outlook(n) <= Paid(n)
        BY <3>1 DEF IInv, Adrift
      <4>2. QED
        BY <2>1, <2>2, <4>1 DEF Outlook
    <3>3. Copies(n, todo') \in Int /\ Copies(n, todo') <= MaxCopies
      <4>1. CASE PersistSkipped(batch)
        <5>1. todo' = Announce(batch, Range(batch))
          BY <4>1 DEF PersistSkipped
        <5>2. Copies(n, todo') \in Nat
          BY <1>3, <5>1, NoCopies, CopiesOfTail DEF Range
        <5>3. QED
          BY <5>1, <5>2, CopiesAssumption
      <4>2. CASE PersistRaises(batch)
        BY <2>2, <4>2, CopiesAssumption DEF PersistRaises
      <4>3. QED
        BY <4>1, <4>2
    <3>4. Outlook(n)' = sent[n] + Copies(n, todo')
      BY <1>1, <2>1, <2>2, <3>3 DEF Outlook
    <3>5. QED
      BY <2>1, <3>1, <3>2, <3>3, <3>4, CopiesAssumption
  <2>6. QED
    BY <2>4, <2>5 DEF Adrift
<1>7. QED
  BY <1>4, <1>5, <1>6 DEF IInv

\* What a log has is passed over; only what no log has goes on to be sent.
LEMMA CheckInvariant ==
  ASSUME IInv, Check
  PROVE  IInv'
<1>1. /\ todo # <<>> /\ step = "check" /\ mishaps' = mishaps
      /\ stored' = stored /\ sent' = sent /\ logged' = logged
  BY DEF Check, NoMishap
<1>2. /\ Head(todo) \in Wanted /\ Head(todo) \in Notices /\ Rest \in Seq(Wanted)
      /\ Range(todo) = {Head(todo)} \cup Range(Rest)
  BY <1>1, RestOfTodo DEF IInv
<1>3. CASE Head(todo) \in logged
  <2>1. todo' = Rest /\ step' = "check"
    BY <1>1, <1>3 DEF Check, AlreadyDispatched
  <2>2. sent[Head(todo)] # 0
    BY <1>3 DEF IInv, LogIsTruthful
  <2>3. TypeOK'
    BY <1>1, <1>2, <2>1 DEF IInv, TypeOK
  <2>4. StepOK' /\ RecordAfterDelivery' /\ LogIsTruthful'
    BY <1>1, <2>1 DEF IInv, StepOK, RecordAfterDelivery, LogIsTruthful
  <2>5. Slack' /\ Adrift'
    <3>1. \A n \in Notices : Paid(n)' = Paid(n)
      BY <1>1, FaultsPay DEF IInv
    <3>2. Slack'
      BY <1>1, <2>1, <3>1 DEF IInv, Slack, AtRecord
    <3>3. Adrift'
      BY <1>1, <2>1, NoMoreAdrift
    <3>4. QED
      BY <3>2, <3>3
  <2>6. Pending'
    BY <1>1, <1>2, <2>1, <2>2 DEF IInv, Pending
  <2>7. QED
    BY <2>3, <2>4, <2>5, <2>6 DEF IInv
<1>4. CASE Head(todo) \notin logged
  <2>1. todo' = todo /\ step' = "send"
    BY <1>1, <1>4 DEF Check, AlreadyDispatched
  <2>2. sent[Head(todo)] <= Paid(Head(todo))
    BY <1>1, <1>2, <1>4 DEF IInv, Slack, AtRecord
  <2>3. TypeOK'
    BY <1>1, <2>1 DEF IInv, TypeOK
  <2>4. StepOK' /\ RecordAfterDelivery' /\ LogIsTruthful' /\ Pending'
    BY <1>1, <2>1 DEF IInv, StepOK, RecordAfterDelivery, LogIsTruthful, Pending
  <2>5. Slack' /\ Adrift'
    <3>1. \A n \in Notices : Paid(n)' = Paid(n)
      BY <1>1, FaultsPay DEF IInv
    <3>2. Paid(Head(todo))' = Paid(Head(todo))
      BY <1>1, <2>1 DEF Paid, Cost, ChannelOf
    <3>3. Slack'
      BY <1>1, <2>1, <2>2, <3>1, <3>2 DEF IInv, Slack, AtRecord
    <3>4. Adrift'
      BY <1>1, <2>1, NoMoreAdrift
    <3>5. QED
      BY <3>3, <3>4
  <2>6. QED
    BY <2>3, <2>4, <2>5 DEF IInv
<1>5. QED
  BY <1>3, <1>4

\* The log could not be read: the fault pays for the notice sent again.
LEMMA CheckFaultInvariant ==
  ASSUME IInv, CheckSkipped \/ CheckRaises
  PROVE  IInv'
<1>1. /\ todo # <<>> /\ step = "check" /\ stored' = stored
      /\ sent' = sent /\ logged' = logged
      /\ mishaps' = mishaps + 1 /\ mishaps' \in 1..MaxMishaps
      /\ \/ step' = "send" /\ todo' = todo
         \/ step' = "check" /\ todo' = AfterException
  BY MishapCounts DEF IInv, CheckSkipped, CheckRaises
<1>2. Head(todo) \in Notices /\ AfterException \in Seq(Wanted)
  BY <1>1, RestOfTodo DEF IInv
<1>3. TypeOK'
  BY <1>1, <1>2, FaultAssumption DEF IInv, TypeOK
<1>4. StepOK' /\ RecordAfterDelivery' /\ LogIsTruthful' /\ Pending'
  BY <1>1 DEF IInv, StepOK, RecordAfterDelivery, LogIsTruthful, Pending
<1>5. Slack' /\ Adrift'
  BY <1>1, FaultKeepsSlack
<1>6. QED
  BY <1>3, <1>4, <1>5 DEF IInv

\* A delivery is about to be recorded.
LEMMA DeliverInvariant ==
  ASSUME IInv, Deliver
  PROVE  IInv'
<1>1. /\ todo # <<>> /\ step = "send" /\ step' = "record" /\ mishaps' = mishaps
      /\ stored' = stored /\ todo' = todo /\ logged' = logged
      /\ sent' = [sent EXCEPT ![Head(todo)] = @ + 1]
  BY DEF Deliver, NoMishap
<1>2. Head(todo) \in Notices
  BY <1>1, RestOfTodo DEF IInv
<1>3. sent \in [Notices -> Nat] /\ mishaps \in Nat
  BY FaultAssumption DEF IInv, TypeOK
<1>4. /\ sent' \in [Notices -> Nat]
      /\ \A n \in Notices : sent'[n] = IF n = Head(todo) THEN sent[n] + 1 ELSE sent[n]
  BY <1>1, <1>2, <1>3
<1>5. TypeOK'
  BY <1>1, <1>4 DEF IInv, TypeOK
<1>6. StepOK' /\ RecordAfterDelivery'
  BY <1>1, <1>2, <1>3, <1>4 DEF StepOK, RecordAfterDelivery
<1>7. logged \subseteq Notices
  BY NoticeAssumption DEF IInv, TypeOK
<1>8. LogIsTruthful'
  BY <1>1, <1>3, <1>4, <1>7 DEF IInv, LogIsTruthful
<1>9. Slack' /\ Adrift'
  <2>1. \A n \in Notices : Paid(n)' = Paid(n) /\ Paid(n) \in Nat
    BY <1>1, FaultsPay DEF IInv
  <2>2. \A n \in Notices : ~ AtRecord(n) /\ (AtRecord(n)' <=> n = Head(todo))
    BY <1>1 DEF AtRecord
  <2>3. Slack'
    BY <1>1, <1>2, <1>3, <1>4, <2>1, <2>2 DEF IInv, Slack
  <2>4. ASSUME NEW n \in Notices, ~ Referable(n)'
        PROVE  Outlook(n)' <= Paid(n)'
    <3>1. Outlook(n) <= Paid(n)
      BY <1>1, <2>4 DEF IInv, Adrift, Referable
    <3>2. Copies(n, todo) \in Nat
      BY <1>1, CopiesOfTail DEF IInv, TypeOK
    <3>3. Outlook(n)' = Outlook(n)
      BY <1>1, <1>3, <1>4, <2>2, <3>2 DEF Outlook
    <3>4. QED
      BY <2>1, <3>1, <3>3
  <2>5. QED
    BY <2>3, <2>4 DEF Adrift
<1>10. Pending'
  BY <1>1, <1>3, <1>4, NoticeAssumption DEF IInv, Pending
<1>11. QED
  BY <1>5, <1>6, <1>8, <1>9, <1>10 DEF IInv

\* A delivery that failed, one whose record failed, and the end of the tick:
\* the fault pays for what may be repeated.
LEMMA AttemptFaultInvariant ==
  ASSUME IInv, DeliveryFails \/ RecordSkipped \/ RecordRaises \/ TickStops
  PROVE  IInv'
<1>1. /\ step' = "check" /\ stored' = stored /\ sent' = sent
      /\ mishaps' = mishaps + 1 /\ mishaps' \in 1..MaxMishaps
  BY MishapCounts DEF IInv, DeliveryFails, RecordSkipped, RecordRaises, TickStops, Drop
<1>2. todo' \in Seq(Wanted)
  <2>1. CASE TickStops
    BY <2>1 DEF TickStops, Drop
  <2>2. CASE DeliveryFails \/ RecordSkipped \/ RecordRaises
    BY <2>2, RestOfTodo DEF IInv, DeliveryFails, RecordSkipped, RecordRaises, AfterSuccess
  <2>3. QED
    BY <2>1, <2>2
<1>3. \/ logged' = logged
      \/ step = "record" /\ logged' = logged \cup {Head(todo)} /\ Head(todo) \in Wanted
  BY RestOfTodo DEF IInv, DeliveryFails, RecordSkipped, RecordRaises, TickStops
<1>4. TypeOK'
  BY <1>1, <1>2, <1>3, FaultAssumption DEF IInv, TypeOK
<1>5. StepOK' /\ RecordAfterDelivery' /\ Pending'
  BY <1>1 DEF StepOK, RecordAfterDelivery, Pending
<1>6. LogIsTruthful'
  BY <1>1, <1>3 DEF IInv, LogIsTruthful, RecordAfterDelivery
<1>7. Slack' /\ Adrift'
  <2>1. \/ todo' = <<>>
        \/ todo # <<>> /\ (todo' = Rest \/ todo' = AfterException)
    BY DEF DeliveryFails, RecordSkipped, RecordRaises, TickStops, Drop, AfterSuccess
  <2>2. QED
    BY <1>1, <2>1, FaultKeepsSlack
<1>8. QED
  BY <1>4, <1>5, <1>6, <1>7 DEF IInv

\* What was delivered is in the log when the next attempt begins, or the log
\* refused it for a fault paid before it was sent.
LEMMA RecordInvariant ==
  ASSUME IInv, Record
  PROVE  IInv'
<1>1. /\ todo # <<>> /\ step = "record" /\ step' = "check" /\ mishaps' = mishaps
      /\ stored' = stored /\ sent' = sent
      /\ \/ /\ Referable(Head(todo))
            /\ todo' = Rest /\ logged' = logged \cup {Head(todo)}
         \/ ~ Referable(Head(todo)) /\ todo' = AfterException /\ logged' = logged
  BY DEF Record, AfterSuccess, NoMishap
<1>2. /\ Head(todo) \in Wanted /\ Head(todo) \in Notices /\ Rest \in Seq(Wanted)
      /\ AfterException \in Seq(Wanted)
      /\ Range(todo) = {Head(todo)} \cup Range(Rest)
  BY <1>1, RestOfTodo DEF IInv
<1>3. sent[Head(todo)] >= 1
  BY <1>1 DEF IInv, RecordAfterDelivery
<1>4. TypeOK'
  BY <1>1, <1>2 DEF IInv, TypeOK
<1>5. StepOK' /\ RecordAfterDelivery' /\ LogIsTruthful'
  BY <1>1, <1>3 DEF IInv, StepOK, RecordAfterDelivery, LogIsTruthful
<1>6. todo' # todo
  <2>1. Copies(Head(todo), todo) = Copies(Head(todo), Rest) + 1
        /\ Copies(Head(todo), Rest) \in Nat
    BY <1>1, CopiesOfTail DEF IInv, TypeOK, Rest
  <2>2. Rest # todo
    BY <2>1
  <2>3. ASSUME Rest # <<>>, Tail(Rest) = todo PROVE FALSE
    <3>1. /\ Copies(Head(todo), Rest) = Copies(Head(todo), Tail(Rest))
                + IF Head(todo) = Head(Rest) THEN 1 ELSE 0
          /\ Copies(Head(todo), Tail(Rest)) \in Nat
      BY <1>2, <2>3, CopiesOfTail
    <3>2. Copies(Head(todo), Tail(Rest)) = Copies(Head(todo), todo)
      BY <2>3
    <3>3. QED
      BY <2>1, <3>1, <3>2
  <2>4. QED
    BY <1>1, <2>2, <2>3 DEF AfterException
<1>7. Adrift'
  BY <1>1, <1>6, NoMoreAdrift
<1>8. ~ Referable(Head(todo)) => sent[Head(todo)] <= Paid(Head(todo)) /\ mishaps # 0
  <2> SUFFICES ASSUME ~ Referable(Head(todo))
               PROVE  sent[Head(todo)] <= Paid(Head(todo)) /\ mishaps # 0
    OBVIOUS
  <2> DEFINE h == Head(todo)
  <2>1. Copies(h, todo) \in Nat /\ Copies(h, todo) >= 1
    BY <1>1, <1>6, CopiesLeft DEF IInv
  <2>2. AtRecord(h) /\ Outlook(h) <= Paid(h)
    BY <1>1, <1>2 DEF AtRecord, IInv, Adrift
  <2>3. sent[h] \in Nat /\ Paid(h) \in Nat /\ (mishaps = 0 => Paid(h) = 0)
    BY <1>2, FaultsPay DEF IInv
  <2>4. Outlook(h) = sent[h] + Copies(h, todo) - 1
    BY <2>1, <2>2, <2>3 DEF Outlook
  <2> HIDE DEF h
  <2>5. sent[h] <= Paid(h)
    BY <2>1, <2>2, <2>3, <2>4
  <2>6. QED
    BY <1>3, <2>3, <2>5 DEF h
<1>9. Slack'
  <2>1. \A n \in Notices : Paid(n)' = Paid(n)
    BY <1>1, FaultsPay DEF IInv
  <2>2. \A n \in Notices : sent[n] <= Paid(n) + 1
    BY DEF IInv, Slack
  <2>3. \A n \in Notices : n \notin logged' => sent[n] <= Paid(n)
    BY <1>1, <1>8 DEF IInv, Slack, AtRecord
  <2>4. QED
    BY <1>1, <2>1, <2>2, <2>3 DEF Slack
<1>10. Pending'
  <2>1. CASE Referable(Head(todo))
    BY <1>1, <1>2, <1>3, <2>1 DEF IInv, Pending
  <2>2. CASE ~ Referable(Head(todo))
    BY <1>1, <1>8, <2>2 DEF Pending
  <2>3. QED
    BY <2>1, <2>2
<1>11. QED
  BY <1>4, <1>5, <1>7, <1>9, <1>10 DEF IInv

\* Every step keeps the invariant.
LEMMA NextInvariant == IInv /\ [Next]_vars => IInv'
<1> SUFFICES ASSUME IInv, [Next]_vars PROVE IInv'
  OBVIOUS
<1>1. ASSUME NEW batch \in Batches,
             Persist(batch) \/ PersistSkipped(batch) \/ PersistRaises(batch)
      PROVE  IInv'
  BY <1>1, PersistInvariant, PersistFaultInvariant
<1>2. CASE Check \/ CheckSkipped \/ CheckRaises
  BY <1>2, CheckInvariant, CheckFaultInvariant
<1>3. CASE Deliver
  BY <1>3, DeliverInvariant
<1>4. CASE DeliveryFails \/ RecordSkipped \/ RecordRaises \/ TickStops
  BY <1>4, AttemptFaultInvariant
<1>5. CASE Record
  BY <1>5, RecordInvariant
<1>6. CASE UNCHANGED vars
  BY <1>6 DEF vars, IInv, TypeOK, StepOK, RecordAfterDelivery, LogIsTruthful,
              Slack, AtRecord, Paid, Adrift, Outlook, Referable, Pending
<1>7. QED
  BY <1>1, <1>2, <1>3, <1>4, <1>5, <1>6 DEF Next

(***************************************************************************)
(* The theorems.                                                           *)
(***************************************************************************)
\* The invariant holds throughout.
LEMMA Invariance == Spec => []IInv
<1>1. QED
  BY InitInvariant, NextInvariant, PTL DEF Spec

\* Whatever fails, the tick works off a list of notices somebody wants, and
\* the logs hold nothing else.
THEOREM TypeCorrect == Spec => []TypeOK
<1>1. IInv => TypeOK
  BY DEF IInv
<1>2. QED
  BY <1>1, Invariance, PTL

\* alert_dispatch_log and push_dispatch_log never claim a notice that no
\* transport accepted, however the statement that writes them ends.
THEOREM LogsAreTruthful == Spec => []LogIsTruthful
<1>1. IInv => LogIsTruthful
  BY DEF IInv
<1>2. QED
  BY <1>1, Invariance, PTL

\* A batch that names a lead twice, a later tick and a restart repeat nothing:
\* a repetition is paid for by a fault, which repeats a push once and an alert,
\* that the log refuses while its lead has no row, once for each copy.
THEOREM RepetitionIsPaidFor == Spec => []RepeatsNeedFaults
<1>1. IInv => RepeatsNeedFaults
  <2> SUFFICES ASSUME IInv, NEW n \in Notices PROVE sent[n] <= 1 + mishaps * Cost(n)
    BY DEF RepeatsNeedFaults
  <2>1. sent[n] <= Paid(n) + 1 /\ Paid(n) \in Nat /\ sent[n] \in Nat
    BY FaultsPay DEF IInv, Slack
  <2>2. Paid(n) = mishaps * Cost(n)
    BY DEF Paid
  <2>3. QED
    BY <2>1, <2>2
<1>2. QED
  BY <1>1, Invariance, PTL

\* While nothing has failed, everyone who wants a stored lead was told once on
\* every channel, or the running tick is about to tell them.
THEOREM NobodyIsForgotten == Spec => []NobodyForgotten
<1>1. IInv => NobodyForgotten
  <2> SUFFICES ASSUME IInv, mishaps = 0, NEW n \in Wanted, LeadOf(n) \in stored
               PROVE  sent[n] = 1 \/ \E i \in DOMAIN todo : todo[i] = n
    BY DEF NobodyForgotten
  <2>1. sent[n] \in Nat /\ sent[n] <= 1
    BY NoticeAssumption, FaultsPay DEF IInv, Slack
  <2>2. sent[n] = 0 => n \in Range(todo)
    BY DEF IInv, Pending
  <2>3. QED
    BY <2>1, <2>2 DEF Range
<1>2. QED
  BY <1>1, Invariance, PTL

(***************************************************************************)
(* Announcements without a number.                                         *)
(***************************************************************************)
\* Every name told is of a published announcement and of a salt drawn so far.
TownInv ==
  /\ town_page \subseteq Titles /\ town_salt \in Nat
  /\ town_told \subseteq [of : Titles, salt : 0..town_salt]
  /\ town_told \subseteq town_rows

\* What users were told of, db.py knows again while the name lasts.
NothingToldIsNew ==
  \A a \in town_page : Town!SourceId(a) \in town_told => Town!SourceId(a) \in town_rows

\* The salt counts the restarts: one announcement for each process so far.
AtMostOncePerStart ==
  \A a \in Titles : Cardinality({id \in town_told : id.of = a}) <= town_salt + 1

\* What GL-ANT-<hash> does give: no poll finds new what was already told under
\* its name, and a process has one name for an announcement, so that it is
\* announced no more often than the process was started.
THEOREM AnnouncedOncePerProcess ==
  Town!Spec => [](NothingToldIsNew /\ AtMostOncePerStart)
<1>1. Town!Init => TownInv
  BY DEF Town!Init, TownInv
<1>2. TownInv /\ [Town!Next]_(Town!vars) => TownInv'
  <2> SUFFICES ASSUME TownInv, [Town!Next]_(Town!vars) PROVE TownInv'
    OBVIOUS
  <2>1. ASSUME NEW a \in Titles, Town!Publish(a) PROVE TownInv'
    BY <2>1 DEF Town!Publish, TownInv
  <2>2. CASE Town!Poll
    <3>1. town_salt \in 0..town_salt
      BY DEF TownInv
    <3>2. \A a \in town_page : Town!SourceId(a) \in [of : Titles, salt : 0..town_salt]
      BY <3>1 DEF Town!SourceId, TownInv
    <3> DEFINE found == {Town!SourceId(a) : a \in town_page}
    <3>3. /\ town_rows' = town_rows \cup found
          /\ town_told' = town_told \cup (found \ town_rows)
          /\ UNCHANGED <<town_page, town_salt>>
      BY <2>2 DEF Town!Poll
    <3>4. found \subseteq [of : Titles, salt : 0..town_salt]
      BY <3>2
    <3> HIDE DEF found
    <3>5. town_page' \subseteq Titles /\ town_salt' \in Nat /\ town_salt' = town_salt
      BY <3>3 DEF TownInv
    <3>6. town_told' \subseteq town_rows'
      BY <3>3 DEF TownInv
    <3>7. town_told' \subseteq [of : Titles, salt : 0..town_salt]
      BY <3>3, <3>4 DEF TownInv
    <3>8. town_told' \subseteq [of : Titles, salt : 0..town_salt']
      BY <3>5, <3>7
    <3>9. QED
      BY <3>5, <3>6, <3>8 DEF TownInv
  <2>3. CASE Town!Restart
    <3>1. town_salt' = town_salt + 1 /\ UNCHANGED <<town_page, town_rows, town_told>>
      BY <2>3 DEF Town!Restart
    <3>2. town_salt' \in Nat /\ 0..town_salt \subseteq 0..town_salt'
      BY <3>1 DEF TownInv
    <3>3. [of : Titles, salt : 0..town_salt] \subseteq [of : Titles, salt : 0..town_salt']
      BY <3>2
    <3>4. QED
      BY <3>1, <3>2, <3>3 DEF TownInv
  <2>4. CASE UNCHANGED Town!vars
    BY <2>4 DEF Town!vars, TownInv
  <2>5. QED
    BY <2>1, <2>2, <2>3, <2>4 DEF Town!Next
<1>3. ASSUME TownInv, NEW a \in Titles
      PROVE  Cardinality({id \in town_told : id.of = a}) <= town_salt + 1
  <2> DEFINE named == {id \in town_told : id.of = a}
             name == [k \in 0..town_salt |-> [of |-> a, salt |-> k]]
             names == {name[k] : k \in 0..town_salt}
  <2>1. town_salt \in Nat /\ town_told \subseteq [of : Titles, salt : 0..town_salt]
    BY <1>3 DEF TownInv
  <2>2. IsFiniteSet(0..town_salt) /\ Cardinality(0..town_salt) = town_salt + 1
    BY <2>1, FS_Interval
  <2>3. name \in Surjection(0..town_salt, names)
    BY DEF Surjection
  <2>4. IsFiniteSet(names) /\ Cardinality(names) <= town_salt + 1
    <3> HIDE DEF name, names
    <3>1. QED
      BY <2>2, <2>3, FS_Surjection
  <2>5. named \subseteq names
    <3>1. ASSUME NEW id \in named PROVE id \in names
      <4>1. id \in [of : Titles, salt : 0..town_salt] /\ id.of = a
        BY <2>1
      <4>2. id.salt \in 0..town_salt /\ id = [of |-> a, salt |-> id.salt]
        BY <4>1
      <4>3. QED
        BY <4>2
    <3>2. QED
      BY <3>1
  <2> HIDE DEF named, names
  <2>6. Cardinality(named) <= Cardinality(names) /\ IsFiniteSet(named)
    BY <2>4, <2>5, FS_Subset
  <2>7. Cardinality(named) \in Nat /\ Cardinality(names) \in Nat
    BY <2>4, <2>6, FS_CardinalityType
  <2>8. QED
    BY <2>1, <2>4, <2>6, <2>7 DEF named
<1>4. TownInv => NothingToldIsNew /\ AtMostOncePerStart
  BY <1>3 DEF TownInv, NothingToldIsNew, AtMostOncePerStart
<1>5. QED
  BY <1>1, <1>2, <1>4, PTL DEF Town!Spec
================================================================================

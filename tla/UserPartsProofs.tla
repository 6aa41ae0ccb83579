---------------------------- MODULE UserPartsProofs ----------------------------
(***************************************************************************)
(* Proofs about the parts that serve a user, each for every value of its   *)
(* constants: the registry of push devices, the cached feed, the deal      *)
(* pipeline and the billing.  The variables bear the names MCServices gives*)
(* them, so that ServicesProofs can instantiate this module.               *)
(***************************************************************************)
EXTENDS Integers, Sequences, FiniteSets, FiniteSetTheorems, TLAPS

CONSTANTS
  None,
  Devices, PushUsers, Senders,                                   \* of PushRegistry
  Readers, Filters, Fills, TTL, SweepEvery, MaxSaves,            \* of FeedCache
  DealUsers, Opps, Deals, Moves, Requests, MaxMoves, DealOutages, \* of DealPipeline
  SubUsers, Subs, Hooks, SubChanges, SubOutages                  \* of Subscriptions

VARIABLES
  push_rows, push_holder, push_alive, push_prefs, push_job, push_event,
  feed_criteria, feed_saving, feed_cache, feed_swept, feed_fill,
  deal_table, deal_history, deal_memory, deal_req, deal_outages, deal_doubles, deal_removed,
  sub_profile, sub_session, sub_stripe, sub_outbox, sub_hook, sub_seq,
  sub_changes, sub_outages, sub_latest, sub_disorder, sub_dropped

Push == INSTANCE PushRegistry WITH
  Users <- PushUsers,
  rows <- push_rows, holder <- push_holder, alive <- push_alive,
  prefs <- push_prefs, job <- push_job, event <- push_event

Feed == INSTANCE FeedCache WITH
  Users <- Readers, criteria <- feed_criteria, saving <- feed_saving,
  cache <- feed_cache, swept <- feed_swept, fill <- feed_fill

Pipeline == INSTANCE DealPipeline WITH
  Users <- DealUsers, MaxOutages <- DealOutages, table <- deal_table,
  history <- deal_history, memory <- deal_memory, req <- deal_req,
  outages <- deal_outages, doubles <- deal_doubles, removed <- deal_removed

Billing == INSTANCE Subscriptions WITH
  Users <- SubUsers, MaxChanges <- SubChanges, MaxOutages <- SubOutages,
  profile <- sub_profile, session <- sub_session, stripe <- sub_stripe,
  outbox <- sub_outbox, hook <- sub_hook, seq <- sub_seq, changes <- sub_changes,
  outages <- sub_outages, latest <- sub_latest, disorder <- sub_disorder,
  dropped <- sub_dropped

(***************************************************************************)
(* The push devices.                                                       *)
(***************************************************************************)
\* An unsubscription is not nothing.
PushAssumption ==
  \A d \in Devices, u \in PushUsers : None # [reason |-> "unsubscribe", row |-> <<d, u>>]

JobRecord ==
  [at: {"asleep", "idle", "send", "ok", "gone", "failed"},
   copy: SUBSET (Devices \X PushUsers), astray: SUBSET (Devices \X PushUsers),
   prefs: [PushUsers -> SUBSET Push!Switches] \cup {None},
   left: SUBSET (Devices \X PushUsers),
   reason: {"criteria", "radar", "test", None}, now: Devices \cup {None}]

PushType ==
  /\ push_rows \subseteq Devices \X PushUsers
  /\ push_holder \in [Devices -> PushUsers \cup {None}]
  /\ push_prefs \in [PushUsers -> SUBSET Push!Switches]
  /\ push_job \in [Senders -> JobRecord]

\* A row is the last subscriber's, in the table and in every copy of it.
RowsAreHeld ==
  /\ \A r \in push_rows : push_holder[r[1]] = r[2]
  /\ \A s \in Senders : push_job[s].astray = {}

\* Whom a tick is sending to had asked for it, by the copy it works from.
SendsAreWanted ==
  \A s \in Senders : s = "tick" =>
    \A r \in push_job[s].left :
      /\ "push" \in push_job[s].prefs[r[2]]
      /\ push_job[s].reason = "radar" => "radar" \in push_job[s].prefs[r[2]]

\* A device found gone is gone.
GoneIsGone ==
  \A s \in Senders : push_job[s].at = "gone" => push_job[s].now \notin push_alive

PushInv == PushType /\ RowsAreHeld /\ SendsAreWanted /\ GoneIsGone /\ Push!PushesWereConsented

\* The leads of which a user is told are those he has a switch for.
LEMMA DecideAsks ==
  ASSUME NEW lead, NEW on, Push!Decide(lead, on) # None
  PROVE  /\ "push" \in on
         /\ Push!Decide(lead, on) = "radar" => "radar" \in on
BY DEF Push!Decide

LEMMA DecideType ==
  ASSUME NEW lead, NEW on
  PROVE  Push!Decide(lead, on) \in {"criteria", "radar", None}
BY DEF Push!Decide

LEMMA PushInvInitial ==
  ASSUME Push!Init
  PROVE  PushInv
<1>1. Push!Asleep \in JobRecord /\ Push!Asleep.left = {} /\ Push!Asleep.astray = {}
      /\ Push!Asleep.at = "asleep"
  BY DEF Push!Asleep, JobRecord
<1>2. \A s \in Senders : push_job[s] = Push!Asleep
  BY DEF Push!Init
<1>3. PushType
  BY <1>1 DEF Push!Init, PushType, Push!Switches
<1>4. RowsAreHeld /\ SendsAreWanted /\ GoneIsGone
  BY <1>1, <1>2 DEF Push!Init, RowsAreHeld, SendsAreWanted, GoneIsGone
<1>5. QED
  BY <1>3, <1>4 DEF PushInv, Push!Init, Push!PushesWereConsented

\* A sender's step concerns that sender, and whom it is sending to.
LEMMA PushJobStep ==
  ASSUME PushInv, NEW s \in Senders, NEW j \in JobRecord, push_job' = [push_job EXCEPT ![s] = j],
         UNCHANGED <<push_holder, push_alive, push_prefs>>,
         push_rows' \subseteq push_rows,
         j.astray = {},
         s = "tick" => \A r \in j.left :
           "push" \in j.prefs[r[2]] /\ (j.reason = "radar" => "radar" \in j.prefs[r[2]]),
         j.at = "gone" => j.now \notin push_alive,
         Push!PushesWereConsented'
  PROVE  PushInv'
<1>1. /\ push_job' \in [Senders -> JobRecord] /\ push_job'[s] = j
      /\ \A o \in Senders \ {s} : push_job'[o] = push_job[o]
  BY DEF PushInv, PushType
<1>2. PushType'
  BY <1>1 DEF PushInv, PushType
<1>3. RowsAreHeld'
  BY <1>1 DEF PushInv, RowsAreHeld
<1>4. SendsAreWanted'
  BY <1>1 DEF PushInv, SendsAreWanted
<1>5. GoneIsGone'
  BY <1>1 DEF PushInv, GoneIsGone
<1>6. QED
  BY <1>2, <1>3, <1>4, <1>5 DEF PushInv

LEMMA PushInvPreserved ==
  ASSUME PushInv, [Push!Next]_(Push!vars)
  PROVE  PushInv'
<1>0. /\ push_rows \subseteq Devices \X PushUsers
      /\ push_holder \in [Devices -> PushUsers \cup {None}]
      /\ push_prefs \in [PushUsers -> SUBSET Push!Switches]
      /\ push_job \in [Senders -> JobRecord]
      /\ \A r \in push_rows : push_holder[r[1]] = r[2]
      /\ \A s \in Senders : push_job[s] \in JobRecord /\ push_job[s].astray = {}
  BY DEF PushInv, PushType, RowsAreHeld
<1>1. Push!Astray = {}
  BY <1>0 DEF Push!Astray
<1>2. push_event' = None => Push!PushesWereConsented'
  BY DEF Push!PushesWereConsented
<1>3. Push!Asleep \in JobRecord /\ Push!Asleep.left = {} /\ Push!Asleep.astray = {}
      /\ Push!Asleep.at = "asleep"
  BY DEF Push!Asleep, JobRecord
<1>4. ASSUME NEW u \in PushUsers, NEW d \in Devices, Push!Subscribe(u, d)
      PROVE  PushInv'
  <2>1. /\ push_rows' = {r \in push_rows : r[1] # d} \cup {<<d, u>>}
        /\ push_holder' = [push_holder EXCEPT ![d] = u] /\ push_event' = None
        /\ UNCHANGED <<push_alive, push_prefs, push_job>>
    BY <1>4 DEF Push!Subscribe, Push!Upsert
  <2>2. PushType'
    BY <1>0, <2>1 DEF PushType
  <2>3. RowsAreHeld'
    BY <1>0, <2>1 DEF RowsAreHeld
  <2>4. SendsAreWanted' /\ GoneIsGone'
    BY <2>1 DEF PushInv, SendsAreWanted, GoneIsGone
  <2>5. QED
    BY <1>2, <2>1, <2>2, <2>3, <2>4 DEF PushInv
<1>5. ASSUME NEW u \in PushUsers, NEW d \in Devices, Push!Unsubscribe(u, d)
      PROVE  PushInv'
  <2>1. /\ push_rows' = push_rows \ {<<d, u>>}
        /\ push_event' = [reason |-> "unsubscribe", row |-> <<d, u>>]
        /\ UNCHANGED <<push_holder, push_alive, push_prefs, push_job>>
    BY <1>5 DEF Push!Unsubscribe, Push!Scoped
  <2>2. PushType' /\ RowsAreHeld' /\ SendsAreWanted' /\ GoneIsGone'
    BY <2>1 DEF PushInv, PushType, RowsAreHeld, SendsAreWanted, GoneIsGone
  <2>3. Push!PushesWereConsented'
    BY <2>1 DEF Push!PushesWereConsented
  <2>4. QED
    BY <2>2, <2>3 DEF PushInv
<1>6. ASSUME NEW u \in PushUsers, NEW on \in SUBSET Push!Switches, NEW off \in SUBSET Push!Switches,
             Push!Prefer(u, on, off)
      PROVE  PushInv'
  <2>1. /\ push_prefs' = [push_prefs EXCEPT ![u] = (@ \cup on) \ off] /\ push_event' = None
        /\ UNCHANGED <<push_rows, push_holder, push_alive, push_job>>
    BY <1>6 DEF Push!Prefer
  <2>2. push_prefs' \in [PushUsers -> SUBSET Push!Switches]
    BY <1>0, <2>1
  <2>3. QED
    BY <1>2, <2>1, <2>2 DEF PushInv, PushType, RowsAreHeld, SendsAreWanted, GoneIsGone
<1>7. ASSUME NEW d \in Devices, Push!Revoke(d) PROVE PushInv'
  BY <1>2, <1>7 DEF Push!Revoke, PushInv, PushType, RowsAreHeld, SendsAreWanted, GoneIsGone
<1>8. CASE Push!BeginTick
  <2> DEFINE j == [Push!Asleep EXCEPT !.at = "idle", !.copy = push_rows, !.astray = Push!Astray,
                                      !.prefs = push_prefs]
  <2>1. /\ "tick" \in Senders /\ push_job' = [push_job EXCEPT !["tick"] = j] /\ push_event' = None
        /\ UNCHANGED <<push_rows, push_holder, push_alive, push_prefs>>
    BY <1>8 DEF Push!BeginTick
  <2>2. j \in JobRecord /\ j.left = {} /\ j.astray = {} /\ j.at = "idle"
    BY <1>0, <1>1 DEF Push!Asleep, JobRecord
  <2> HIDE DEF j
  <2>3. QED
    BY <1>2, <2>1, <2>2, PushJobStep
<1>9. ASSUME NEW u \in PushUsers, NEW lead \in Push!Leads, Push!Notify(u, lead)
      PROVE  PushInv'
  <2> DEFINE t == push_job["tick"]
             mine == {r \in t.copy : r[2] = u}
             why == Push!Decide(lead, t.prefs[u])
             j == [t EXCEPT !.at = "send", !.left = mine, !.reason = why]
  <2>1. /\ "tick" \in Senders /\ push_job' = [push_job EXCEPT !["tick"] = j] /\ push_event' = None
        /\ UNCHANGED <<push_rows, push_holder, push_alive, push_prefs>>
        /\ why # None
    BY <1>9 DEF Push!Notify
  <2>2. t \in JobRecord /\ t.astray = {} /\ mine \subseteq Devices \X PushUsers
    BY <1>0, <2>1 DEF JobRecord
  <2>3. why \in {"criteria", "radar", "test", None}
    BY DecideType
  <2>4. "push" \in t.prefs[u] /\ (why = "radar" => "radar" \in t.prefs[u])
    BY <2>1, DecideAsks
  <2>5. \A r \in mine : r[2] = u
    OBVIOUS
  <2> HIDE DEF mine, why, t
  <2>6. /\ j \in JobRecord /\ j.at = "send" /\ j.left = mine /\ j.reason = why /\ j.astray = {}
        /\ j.prefs = t.prefs
    BY <2>2, <2>3 DEF JobRecord
  <2> HIDE DEF j
  <2>7. \A r \in j.left :
          "push" \in j.prefs[r[2]] /\ (j.reason = "radar" => "radar" \in j.prefs[r[2]])
    BY <2>4, <2>5, <2>6
  <2>8. QED
    BY <1>2, <2>1, <2>6, <2>7, PushJobStep
<1>10. ASSUME NEW u \in PushUsers, Push!BeginTest(u) PROVE PushInv'
  <2> DEFINE mine == {r \in push_rows : r[2] = u}
             j == [Push!Asleep EXCEPT !.at = "send", !.left = mine, !.astray = Push!Astray,
                                      !.reason = "test"]
  <2>1. /\ "test" \in Senders /\ push_job' = [push_job EXCEPT !["test"] = j] /\ push_event' = None
        /\ UNCHANGED <<push_rows, push_holder, push_alive, push_prefs>>
    BY <1>10 DEF Push!BeginTest
  <2>2. mine \subseteq Devices \X PushUsers
    BY <1>0
  <2> HIDE DEF mine
  <2>3. j \in JobRecord /\ j.at = "send" /\ j.astray = {}
    BY <1>1, <2>2 DEF Push!Asleep, JobRecord
  <2> HIDE DEF j
  <2>4. QED
    BY <1>2, <2>1, <2>3, PushJobStep
<1>11. ASSUME NEW s \in Senders, Push!Send(s) PROVE PushInv'
  <2> DEFINE t == push_job[s]
  <2>1. PICK r \in t.left, outcome \in {"ok", "gone", "failed"} :
          /\ outcome = "gone" => r[1] \notin push_alive
          /\ push_job' = [push_job EXCEPT ![s] = [t EXCEPT !.at = outcome, !.now = r[1],
                                                           !.left = t.left \ {r}]]
          /\ push_event' = IF outcome # "ok" THEN None
                           ELSE [reason |-> t.reason, astray |-> r \in t.astray,
                                 on |-> IF s = "tick" THEN t.prefs[r[2]] ELSE Push!Switches]
    BY <1>11 DEF Push!Send
  <2>2. UNCHANGED <<push_rows, push_holder, push_alive, push_prefs>>
    BY <1>11 DEF Push!Send
  <2> DEFINE j == [t EXCEPT !.at = outcome, !.now = r[1], !.left = t.left \ {r}]
  <2>3. t \in JobRecord /\ t.astray = {} /\ r \in Devices \X PushUsers
    BY <1>0, <2>1 DEF JobRecord
  <2>4. /\ j \in JobRecord /\ j.at = outcome /\ j.now = r[1] /\ j.left = t.left \ {r}
        /\ j.astray = {} /\ j.prefs = t.prefs /\ j.reason = t.reason
    <3> HIDE DEF t
    <3>1. r[1] \in Devices /\ t.left \ {r} \in SUBSET (Devices \X PushUsers)
      BY <2>3 DEF JobRecord
    <3>2. QED
      BY <2>3, <3>1 DEF JobRecord
  <2>5. s = "tick" =>
          \A q \in t.left :
            "push" \in t.prefs[q[2]] /\ (t.reason = "radar" => "radar" \in t.prefs[q[2]])
    BY DEF PushInv, SendsAreWanted
  <2>6. Push!PushesWereConsented'
    <3>1. CASE outcome # "ok"
      BY <1>2, <2>1, <3>1
    <3>2. CASE outcome = "ok"
      <4> DEFINE on == IF s = "tick" THEN t.prefs[r[2]] ELSE Push!Switches
      <4>1. "push" \in on /\ (t.reason = "radar" => "radar" \in on)
        BY <2>5 DEF Push!Switches
      <4>2. push_event' = [reason |-> t.reason, astray |-> r \in t.astray, on |-> on]
        BY <2>1, <3>2
      <4>3. ~ (r \in t.astray)
        BY <2>3
      <4> HIDE DEF on, t
      <4>4. push_event'.reason = t.reason /\ ~ push_event'.astray /\ push_event'.on = on
        BY <4>2, <4>3
      <4>5. QED
        BY <4>1, <4>4 DEF Push!PushesWereConsented
    <3>3. QED
      BY <3>1, <3>2
  <2>7. push_job' = [push_job EXCEPT ![s] = j]
    BY <2>1
  <2> HIDE DEF j, t
  <2>8. s = "tick" => \A q \in j.left :
          "push" \in j.prefs[q[2]] /\ (j.reason = "radar" => "radar" \in j.prefs[q[2]])
    BY <2>4, <2>5
  <2>9. j.at = "gone" => j.now \notin push_alive
    BY <2>1, <2>4
  <2>10. QED
    BY <2>2, <2>4, <2>6, <2>7, <2>8, <2>9, PushJobStep
<1>12. ASSUME NEW s \in Senders, Push!Settle(s) PROVE PushInv'
  <2> DEFINE t == push_job[s]
             j == IF t.left # {} THEN [t EXCEPT !.at = "send", !.now = None]
                  ELSE IF s = "tick" THEN [t EXCEPT !.at = "idle", !.now = None, !.reason = None]
                  ELSE Push!Asleep
  <2>1. /\ push_job' = [push_job EXCEPT ![s] = j] /\ push_rows' \subseteq push_rows
        /\ push_event' = None
        /\ UNCHANGED <<push_holder, push_alive, push_prefs>>
    BY <1>0, <1>12 DEF Push!Settle
  <2>2. t \in JobRecord /\ t.astray = {}
    BY <1>0
  <2>3. s = "tick" =>
          \A q \in t.left :
            "push" \in t.prefs[q[2]] /\ (t.reason = "radar" => "radar" \in t.prefs[q[2]])
    BY DEF PushInv, SendsAreWanted
  <2>4. /\ j \in JobRecord /\ j.at \in {"send", "idle", "asleep"} /\ j.astray = {}
        /\ \/ j.left = {}
           \/ j.left = t.left /\ j.prefs = t.prefs /\ j.reason = t.reason
    <3> HIDE DEF t
    <3>1. CASE t.left # {}
      BY <2>2, <3>1 DEF JobRecord
    <3>2. CASE t.left = {} /\ s = "tick"
      BY <2>2, <3>2 DEF JobRecord
    <3>3. CASE t.left = {} /\ s # "tick"
      BY <1>3, <3>3
    <3>4. QED
      BY <3>1, <3>2, <3>3
  <2> HIDE DEF j, t
  <2>5. s = "tick" => \A r \in j.left :
          "push" \in j.prefs[r[2]] /\ (j.reason = "radar" => "radar" \in j.prefs[r[2]])
    BY <2>3, <2>4
  <2>6. QED
    BY <1>2, <2>1, <2>4, <2>5, PushJobStep
<1>13. ASSUME NEW s \in Senders, Push!Stop(s) PROVE PushInv'
  <2>1. /\ push_job' = [push_job EXCEPT ![s] = Push!Asleep] /\ push_event' = None
        /\ UNCHANGED <<push_rows, push_holder, push_alive, push_prefs>>
    BY <1>13 DEF Push!Stop
  <2>2. QED
    BY <1>2, <1>3, <2>1, PushJobStep
<1>14. CASE UNCHANGED Push!vars
  BY <1>14 DEF Push!vars, PushInv, PushType, RowsAreHeld, SendsAreWanted, GoneIsGone,
               Push!PushesWereConsented
<1>15. QED
  BY <1>4, <1>5, <1>6, <1>7, <1>8, <1>9, <1>10, <1>11, <1>12, <1>13, <1>14 DEF Push!Next

\* What reaches a telephone was meant for its user and for a lead and a reason he
\* had switched on, however devices change hands while a sender works.
THEOREM PushesAreConsented == Push!Spec => []Push!PushesWereConsented
<1>1. PushInv => Push!PushesWereConsented
  BY DEF PushInv
<1>2. QED
  BY <1>1, PushInvInitial, PushInvPreserved, PTL DEF Push!Spec

\* A step that removes a registration is its user's, or the next user's, or
\* follows on the push service's word that the device is gone.
LEMMA RowsLeave ==
  ASSUME PushAssumption, PushInv, [Push!Next]_(Push!vars), NEW r \in push_rows \ push_rows'
  PROVE  \/ push_event' # None /\ push_event'.reason = "unsubscribe" /\ push_event'.row = r
         \/ \E v \in PushUsers : <<r[1], v>> \in push_rows'
         \/ r[1] \notin push_alive
<1>0. r \in Devices \X PushUsers /\ r = <<r[1], r[2]>>
  BY DEF PushInv, PushType
<1>1. ASSUME NEW u \in PushUsers, NEW d \in Devices, Push!Subscribe(u, d)
      PROVE  \E v \in PushUsers : <<r[1], v>> \in push_rows'
  BY <1>0, <1>1 DEF Push!Subscribe, Push!Upsert
<1>2. ASSUME NEW u \in PushUsers, NEW d \in Devices, Push!Unsubscribe(u, d)
      PROVE  push_event' # None /\ push_event'.reason = "unsubscribe" /\ push_event'.row = r
  <2>1. r = <<d, u>> /\ push_event' = [reason |-> "unsubscribe", row |-> <<d, u>>]
    BY <1>0, <1>2 DEF Push!Unsubscribe, Push!Scoped
  <2>2. push_event' # None
    BY <2>1 DEF PushAssumption
  <2>3. QED
    BY <2>1, <2>2
<1>3. ASSUME NEW s \in Senders, Push!Settle(s) PROVE r[1] \notin push_alive
  <2>1. push_job[s].at = "gone" /\ r[1] = push_job[s].now
    BY <1>3 DEF Push!Settle, Push!Prunes
  <2>2. QED
    BY <2>1 DEF PushInv, GoneIsGone
<1>4. CASE push_rows' = push_rows
  BY <1>4
<1>5. QED
  BY <1>1, <1>2, <1>3, <1>4
     DEF Push!Next, Push!Prefer, Push!Revoke, Push!BeginTick, Push!Notify, Push!BeginTest,
         Push!Send, Push!Stop, Push!vars

\* Nobody's registration is lost to a failed delivery or to another user who
\* knows the endpoint.
THEOREM RegistrationsLeaveForAReason ==
  ASSUME PushAssumption
  PROVE  Push!Spec => Push!RowsLeaveForAReason
<1>1. PushInv /\ [Push!Next]_(Push!vars) =>
        [\A r \in push_rows \ push_rows' :
           \/ push_event' # None /\ push_event'.reason = "unsubscribe" /\ push_event'.row = r
           \/ \E v \in PushUsers : <<r[1], v>> \in push_rows'
           \/ r[1] \notin push_alive]_(Push!vars)
  BY RowsLeave
<1>2. QED
  BY <1>1, PushInvInitial, PushInvPreserved, PTL DEF Push!Spec, Push!RowsLeaveForAReason

\* Registrations, copies of them and switches are of the devices and users there
\* are, whatever senders, requests and the push service do.
THEOREM PushTypes == Push!Spec => []Push!TypeOK
<1> DEFINE Inv == PushInv /\ push_alive \subseteq Devices
<1>1. Push!Init => Inv
  BY PushInvInitial DEF Push!Init
<1>2. Inv /\ [Push!Next]_(Push!vars) => Inv'
  <2> SUFFICES ASSUME Inv, [Push!Next]_(Push!vars) PROVE Inv'
    OBVIOUS
  <2>1. push_alive' \subseteq push_alive
    BY DEF Push!Next, Push!Subscribe, Push!Unsubscribe, Push!Prefer, Push!Revoke,
           Push!BeginTick, Push!Notify, Push!BeginTest, Push!Send, Push!Settle,
           Push!Stop, Push!vars
  <2>2. QED
    BY <2>1, PushInvPreserved
<1>3. Inv => Push!TypeOK
  <2> SUFFICES ASSUME PushType, push_alive \subseteq Devices PROVE Push!TypeOK
    BY DEF PushInv
  <2>1. \A s \in Senders : /\ push_job[s].copy \subseteq Devices \X PushUsers
                           /\ push_job[s].left \subseteq Devices \X PushUsers
                           /\ push_job[s].now \in Devices \cup {None}
    BY DEF PushType, JobRecord
  <2>2. QED
    BY <2>1 DEF PushType, Push!TypeOK
<1>4. QED
  BY <1>1, <1>2, <1>3, PTL DEF Push!Spec

(***************************************************************************)
(* The feed.                                                               *)
(***************************************************************************)
FeedEntry == [criteria: Int, filter: Filters, age: Int, excused: BOOLEAN]

FillRecord ==
  [at: {"idle", "profile", "rank"}, key: {None} \cup Feed!Keys, criteria: Int, excused: BOOLEAN]

FeedType ==
  /\ feed_criteria \in [Readers -> Int]
  /\ feed_cache \in [Feed!Keys -> {None} \cup FeedEntry]
  /\ feed_fill \in [Fills -> FillRecord]

\* A computation is for some key; one that is ranking works by its user's
\* present criteria, or is excused.
FillsAreCurrent ==
  \A r \in Fills :
    /\ feed_fill[r].at # "idle" => feed_fill[r].key \in Feed!Keys
    /\ feed_fill[r].at = "rank" =>
         \/ feed_fill[r].criteria = feed_criteria[feed_fill[r].key[1]]
         \/ feed_fill[r].excused = TRUE

\* An entry answers its key, by the present criteria unless there is a reason.
EntryIsCurrent(k, e) ==
  e # None =>
    /\ e.filter = k[2]
    /\ \/ e.criteria = feed_criteria[k[1]]
       \/ k[1] \in feed_saving \/ e.excused = TRUE

EntriesAreCurrent == \A k \in Feed!Keys : EntryIsCurrent(k, feed_cache[k])

FeedInv == FeedType /\ FillsAreCurrent /\ EntriesAreCurrent

LEMMA FeedInvInitial ==
  ASSUME Feed!Init
  PROVE  FeedInv
<1>1. Feed!Idle \in FillRecord /\ Feed!Idle.at = "idle"
  BY DEF Feed!Idle, FillRecord
<1>2. FeedType
  BY <1>1 DEF Feed!Init, FeedType
<1>3. FillsAreCurrent /\ EntriesAreCurrent
  BY <1>1 DEF Feed!Init, FillsAreCurrent, EntriesAreCurrent, EntryIsCurrent
<1>4. QED
  BY <1>2, <1>3 DEF FeedInv

\* What the cache keeps when it is written, swept first or not.
LEMMA SweepKeeps ==
  ASSUME FeedInv, NEW k \in Feed!Keys
  PROVE  /\ Feed!Sweep(feed_cache).entries \in [Feed!Keys -> {None} \cup FeedEntry]
         /\ Feed!Sweep(feed_cache).entries[k] \in {None, feed_cache[k]}
<1>1. feed_cache \in [Feed!Keys -> {None} \cup FeedEntry]
  BY DEF FeedInv, FeedType
<1> DEFINE swept == [q \in Feed!Keys |->
                       IF feed_cache[q] # None /\ Feed!Expired(feed_cache[q])
                       THEN None ELSE feed_cache[q]]
<1>2. Feed!Sweep(feed_cache).entries \in {feed_cache, swept}
  BY DEF Feed!Sweep
<1>3. swept \in [Feed!Keys -> {None} \cup FeedEntry] /\ swept[k] \in {None, feed_cache[k]}
  BY <1>1
<1> HIDE DEF swept
<1>4. QED
  BY <1>1, <1>2, <1>3

\* A computation that begins, moves on or is given up touches nobody else's.
LEMMA FillStep ==
  ASSUME FeedInv, NEW r \in Fills, NEW j \in FillRecord,
         feed_fill' = [feed_fill EXCEPT ![r] = j], UNCHANGED feed_criteria,
         j.at # "idle" => j.key \in Feed!Keys,
         j.at = "rank" => j.criteria = feed_criteria[j.key[1]] \/ j.excused = TRUE
  PROVE  feed_fill' \in [Fills -> FillRecord] /\ FillsAreCurrent'
<1>1. /\ feed_fill' \in [Fills -> FillRecord] /\ feed_fill'[r] = j
      /\ \A o \in Fills \ {r} : feed_fill'[o] = feed_fill[o]
  BY DEF FeedInv, FeedType
<1>2. QED
  BY <1>1 DEF FeedInv, FillsAreCurrent

LEMMA FeedInvPreserved ==
  ASSUME FeedInv, [Feed!Next]_(Feed!vars)
  PROVE  FeedInv'
<1>0. FeedType /\ FillsAreCurrent /\ EntriesAreCurrent
  BY DEF FeedInv
<1>1. Feed!Idle \in FillRecord /\ Feed!Idle.at = "idle"
  BY DEF Feed!Idle, FillRecord
<1>2. ASSUME UNCHANGED <<feed_criteria, feed_saving, feed_cache>>,
             feed_fill' \in [Fills -> FillRecord] /\ FillsAreCurrent'
      PROVE  FeedInv'
  BY <1>0, <1>2 DEF FeedInv, FeedType, EntriesAreCurrent, EntryIsCurrent
<1>3. ASSUME NEW r \in Fills, NEW u \in Readers, NEW f \in Filters, Feed!Miss(r, u, f)
      PROVE  FeedInv'
  <2> DEFINE j == [Feed!Idle EXCEPT !.at = "profile", !.key = <<u, f>>]
  <2>1. /\ feed_fill' = [feed_fill EXCEPT ![r] = j] /\ UNCHANGED <<feed_criteria, feed_saving>>
        /\ \/ feed_cache' = [feed_cache EXCEPT ![<<u, f>>] = None]
           \/ feed_cache' = feed_cache
    BY <1>3 DEF Feed!Miss, Feed!Key
  <2>2. j \in FillRecord /\ j.at = "profile" /\ j.key \in Feed!Keys
    <3>1. <<u, f>> \in Feed!Keys
      BY DEF Feed!Keys
    <3>2. QED
      BY <1>1, <3>1 DEF FillRecord
  <2> HIDE DEF j
  <2>3. feed_fill' \in [Fills -> FillRecord] /\ FillsAreCurrent'
    BY <2>1, <2>2, FillStep
  <2>4. /\ feed_cache' \in [Feed!Keys -> {None} \cup FeedEntry]
        /\ \A k \in Feed!Keys : feed_cache'[k] \in {None, feed_cache[k]}
    BY <1>0, <2>1 DEF FeedType
  <2>5. EntriesAreCurrent'
    BY <1>0, <2>1, <2>4 DEF EntriesAreCurrent, EntryIsCurrent
  <2>6. QED
    BY <1>0, <2>1, <2>3, <2>4, <2>5 DEF FeedInv, FeedType
<1>4. ASSUME NEW r \in Fills, Feed!ReadProfile(r) PROVE FeedInv'
  <2> DEFINE t == feed_fill[r]
             j == [t EXCEPT !.at = "rank", !.criteria = feed_criteria[t.key[1]]]
  <2>1. t \in FillRecord /\ t.key \in Feed!Keys /\ feed_criteria[t.key[1]] \in Int
    BY <1>0, <1>4 DEF FeedType, FillsAreCurrent, Feed!ReadProfile, Feed!Keys
  <2>2. /\ feed_fill' = [feed_fill EXCEPT ![r] = j]
        /\ UNCHANGED <<feed_criteria, feed_saving, feed_cache>>
    BY <1>0, <1>4 DEF Feed!ReadProfile, FeedType, FillRecord
  <2> HIDE DEF t
  <2>3. j \in FillRecord /\ j.key = t.key /\ j.criteria = feed_criteria[t.key[1]]
    BY <2>1 DEF FillRecord
  <2> HIDE DEF j
  <2>4. QED
    BY <1>2, <2>1, <2>2, <2>3, FillStep
<1>5. ASSUME NEW r \in Fills, Feed!FallBack(r) PROVE FeedInv'
  <2> DEFINE t == feed_fill[r]
             j == [t EXCEPT !.at = "rank", !.excused = TRUE]
  <2>1. t \in FillRecord /\ t.key \in Feed!Keys
    BY <1>0, <1>5 DEF FeedType, FillsAreCurrent, Feed!FallBack
  <2>2. /\ feed_fill' = [feed_fill EXCEPT ![r] = j]
        /\ UNCHANGED <<feed_criteria, feed_saving, feed_cache>>
    BY <1>0, <1>5 DEF Feed!FallBack, FeedType, FillRecord
  <2> HIDE DEF t
  <2>3. j \in FillRecord /\ j.key = t.key /\ j.excused = TRUE
    BY <2>1 DEF FillRecord
  <2> HIDE DEF j
  <2>4. QED
    BY <1>2, <2>1, <2>2, <2>3, FillStep
<1>6. ASSUME NEW r \in Fills, Feed!Fill(r) PROVE FeedInv'
  <2> DEFINE t == feed_fill[r]
             base == Feed!Sweep(feed_cache).entries
  <2>1. PICK lost \in BOOLEAN :
          feed_cache' = Feed!Put(Feed!Key(t.key[1], t.key[2]),
                          [criteria |-> t.criteria, filter |-> t.key[2], age |-> 0,
                           excused |-> t.excused \/ lost])
    BY <1>6 DEF Feed!Fill
  <2>2. /\ feed_fill' = [feed_fill EXCEPT ![r] = Feed!Idle]
        /\ UNCHANGED <<feed_criteria, feed_saving>> /\ t.at = "rank"
    BY <1>6 DEF Feed!Fill
  <2>3. t \in FillRecord /\ t.key \in Feed!Keys
    BY <1>0, <2>2 DEF FeedType, FillsAreCurrent
  <2> DEFINE e == [criteria |-> t.criteria, filter |-> t.key[2], age |-> 0,
                   excused |-> t.excused \/ lost]
  <2>4. feed_cache' = [base EXCEPT ![t.key] = e]
    <3>1. <<t.key[1], t.key[2]>> = t.key
      BY <2>3 DEF Feed!Keys
    <3>2. QED
      BY <2>1, <3>1 DEF Feed!Put, Feed!Key
  <2>5. t.criteria = feed_criteria[t.key[1]] \/ t.excused = TRUE
    BY <1>0, <2>2 DEF FillsAreCurrent
  <2>6. e \in FeedEntry /\ EntryIsCurrent(t.key, e)
    <3> HIDE DEF t
    <3>1. (t.excused \/ lost) \in BOOLEAN
      OBVIOUS
    <3>2. t.criteria \in Int /\ t.key[2] \in Filters
      BY <2>3 DEF FillRecord, Feed!Keys
    <3>3. t.excused = TRUE => (t.excused \/ lost) = TRUE
      OBVIOUS
    <3> DEFINE x == t.excused \/ lost
    <3> HIDE DEF x
    <3>4. x \in BOOLEAN /\ (t.excused = TRUE => x = TRUE)
      BY <3>1, <3>3 DEF x
    <3>5. e = [criteria |-> t.criteria, filter |-> t.key[2], age |-> 0, excused |-> x]
      BY DEF x
    <3> HIDE DEF e
    <3>6. e \in FeedEntry
      BY <3>2, <3>4, <3>5 DEF FeedEntry
    <3>7. EntryIsCurrent(t.key, e)
      BY <2>5, <3>4, <3>5 DEF EntryIsCurrent
    <3>8. QED
      BY <3>6, <3>7
  <2> HIDE DEF e, t, base
  <2>7. base \in [Feed!Keys -> {None} \cup FeedEntry]
        /\ \A k \in Feed!Keys : base[k] \in {None, feed_cache[k]}
    BY <2>3, SweepKeeps DEF base
  <2>8. /\ feed_cache' \in [Feed!Keys -> {None} \cup FeedEntry]
        /\ \A k \in Feed!Keys : \/ feed_cache'[k] \in {None, feed_cache[k]}
                                \/ k = t.key /\ feed_cache'[k] = e
    BY <2>3, <2>4, <2>6, <2>7
  <2>9. EntriesAreCurrent'
    BY <1>0, <2>2, <2>6, <2>8 DEF EntriesAreCurrent, EntryIsCurrent
  <2>10. feed_fill' \in [Fills -> FillRecord] /\ FillsAreCurrent'
    BY <1>1, <2>2, FillStep
  <2>11. QED
    BY <1>0, <2>2, <2>8, <2>9, <2>10 DEF FeedInv, FeedType
<1>7. ASSUME NEW r \in Fills, Feed!GiveUp(r) PROVE FeedInv'
  <2>1. /\ feed_fill' = [feed_fill EXCEPT ![r] = Feed!Idle]
        /\ UNCHANGED <<feed_criteria, feed_saving, feed_cache>>
    BY <1>7 DEF Feed!GiveUp
  <2>2. QED
    BY <1>1, <1>2, <2>1, FillStep
<1>8. ASSUME NEW u \in Readers, Feed!Save(u) PROVE FeedInv'
  <2>1. /\ feed_criteria' = [feed_criteria EXCEPT ![u] = @ + 1]
        /\ feed_saving' = feed_saving \cup {u} /\ UNCHANGED feed_cache
        /\ feed_fill' = [r \in Fills |->
             IF feed_fill[r].at = "rank" /\ feed_fill[r].key[1] = u
             THEN [feed_fill[r] EXCEPT !.excused = TRUE] ELSE feed_fill[r]]
    BY <1>8 DEF Feed!Save
  <2>2. \A x \in FillRecord :
          /\ [x EXCEPT !.excused = TRUE] \in FillRecord
          /\ [x EXCEPT !.excused = TRUE].excused = TRUE
          /\ [x EXCEPT !.excused = TRUE].at = x.at /\ [x EXCEPT !.excused = TRUE].key = x.key
    BY DEF FillRecord
  <2>3. feed_criteria' \in [Readers -> Int] /\ feed_fill' \in [Fills -> FillRecord]
    BY <1>0, <2>1, <2>2 DEF FeedType
  <2>4. \A o \in Readers : o # u => feed_criteria'[o] = feed_criteria[o]
    BY <1>0, <2>1 DEF FeedType
  <2>5. FillsAreCurrent'
    <3> SUFFICES ASSUME NEW r \in Fills
                 PROVE  /\ feed_fill'[r].at # "idle" => feed_fill'[r].key \in Feed!Keys
                        /\ feed_fill'[r].at = "rank" =>
                             \/ feed_fill'[r].criteria = feed_criteria'[feed_fill'[r].key[1]]
                             \/ feed_fill'[r].excused = TRUE
      BY DEF FillsAreCurrent
    <3>1. feed_fill[r] \in FillRecord
      BY <1>0 DEF FeedType
    <3>2. CASE feed_fill[r].at = "rank" /\ feed_fill[r].key[1] = u
      BY <1>0, <2>1, <2>2, <3>1, <3>2 DEF FillsAreCurrent
    <3>3. CASE ~ (feed_fill[r].at = "rank" /\ feed_fill[r].key[1] = u)
      <4>1. feed_fill'[r] = feed_fill[r]
        BY <2>1, <3>3
      <4>2. feed_fill[r].key \in Feed!Keys => feed_fill[r].key[1] \in Readers
        BY DEF Feed!Keys
      <4>3. QED
        BY <1>0, <2>4, <3>3, <4>1, <4>2 DEF FillsAreCurrent
    <3>4. QED
      BY <3>2, <3>3
  <2>6. EntriesAreCurrent'
    <3>1. \A k \in Feed!Keys : k[1] \in Readers
      BY DEF Feed!Keys
    <3>2. QED
      BY <1>0, <2>1, <2>4, <3>1 DEF EntriesAreCurrent, EntryIsCurrent
  <2>7. QED
    BY <1>0, <2>1, <2>3, <2>5, <2>6 DEF FeedInv, FeedType
<1>9. ASSUME UNCHANGED <<feed_criteria, feed_fill>>,
             feed_cache' \in [Feed!Keys -> {None} \cup FeedEntry], EntriesAreCurrent'
      PROVE  FeedInv'
  BY <1>0, <1>9 DEF FeedInv, FeedType, FillsAreCurrent
<1>10. ASSUME NEW u \in Readers, Feed!Saved(u) PROVE FeedInv'
  <2>1. /\ feed_saving' = feed_saving \ {u} /\ UNCHANGED <<feed_criteria, feed_fill>>
        /\ feed_cache' = [k \in Feed!Keys |-> IF k[1] = u THEN None ELSE feed_cache[k]]
    BY <1>10 DEF Feed!Saved, Feed!Invalidate
  <2>2. feed_cache' \in [Feed!Keys -> {None} \cup FeedEntry]
    BY <1>0, <2>1 DEF FeedType
  <2>3. EntriesAreCurrent'
    BY <1>0, <2>1 DEF EntriesAreCurrent, EntryIsCurrent
  <2>4. QED
    BY <1>9, <2>1, <2>2, <2>3
<1>11. ASSUME NEW u \in Readers, Feed!SaveBreaks(u) PROVE FeedInv'
  <2>1. /\ feed_saving' = feed_saving \ {u} /\ UNCHANGED <<feed_criteria, feed_fill>>
        /\ feed_cache' = [k \in Feed!Keys |-> IF k[1] = u /\ feed_cache[k] # None
                            THEN [feed_cache[k] EXCEPT !.excused = TRUE] ELSE feed_cache[k]]
    BY <1>11 DEF Feed!SaveBreaks
  <2>2. \A x \in FeedEntry :
          /\ [x EXCEPT !.excused = TRUE] \in FeedEntry
          /\ [x EXCEPT !.excused = TRUE].excused = TRUE
          /\ [x EXCEPT !.excused = TRUE].filter = x.filter
    BY DEF FeedEntry
  <2>3. feed_cache' \in [Feed!Keys -> {None} \cup FeedEntry]
    BY <1>0, <2>1, <2>2 DEF FeedType
  <2>4. EntriesAreCurrent'
    <3> SUFFICES ASSUME NEW k \in Feed!Keys
                 PROVE  EntryIsCurrent(k, feed_cache[k])'
      BY DEF EntriesAreCurrent
    <3>1. feed_cache[k] \in {None} \cup FeedEntry /\ EntryIsCurrent(k, feed_cache[k])
      BY <1>0 DEF FeedType, EntriesAreCurrent
    <3>2. CASE k[1] = u /\ feed_cache[k] # None
      BY <2>1, <2>2, <3>1, <3>2 DEF EntryIsCurrent
    <3>3. CASE ~ (k[1] = u /\ feed_cache[k] # None)
      BY <2>1, <3>1, <3>3 DEF EntryIsCurrent
    <3>4. QED
      BY <3>2, <3>3
  <2>5. QED
    BY <1>9, <2>1, <2>3, <2>4
<1>12. CASE Feed!InvalidateAll
  <2>1. /\ UNCHANGED <<feed_criteria, feed_fill>>
        /\ feed_cache' = [k \in Feed!Keys |-> None]
    BY <1>12 DEF Feed!InvalidateAll
  <2>2. feed_cache' \in [Feed!Keys -> {None} \cup FeedEntry] /\ EntriesAreCurrent'
    BY <2>1 DEF EntriesAreCurrent, EntryIsCurrent
  <2>3. QED
    BY <1>9, <2>1, <2>2
<1>13. CASE Feed!Pass
  <2>1. /\ UNCHANGED <<feed_criteria, feed_saving, feed_fill>>
        /\ feed_cache' = [k \in Feed!Keys |-> Feed!Older(feed_cache[k])]
    BY <1>13 DEF Feed!Pass
  <2>2. \A x \in FeedEntry :
          /\ [x EXCEPT !.age = @ + 1] \in FeedEntry
          /\ [x EXCEPT !.age = @ + 1].filter = x.filter
          /\ [x EXCEPT !.age = @ + 1].criteria = x.criteria
          /\ [x EXCEPT !.age = @ + 1].excused = x.excused
    BY DEF FeedEntry
  <2>3. \A e \in {None} \cup FeedEntry :
          /\ Feed!Older(e) \in {None} \cup FeedEntry
          /\ e = None => Feed!Older(e) = None
          /\ e # None => /\ Feed!Older(e).filter = e.filter
                         /\ Feed!Older(e).criteria = e.criteria
                         /\ Feed!Older(e).excused = e.excused
    BY <2>2 DEF Feed!Older
  <2>4. feed_cache' \in [Feed!Keys -> {None} \cup FeedEntry]
    BY <1>0, <2>1, <2>3 DEF FeedType
  <2>5. EntriesAreCurrent'
    BY <1>0, <2>1, <2>3 DEF FeedType, EntriesAreCurrent, EntryIsCurrent
  <2>6. QED
    BY <1>9, <2>1, <2>4, <2>5
<1>14. CASE UNCHANGED Feed!vars
  BY <1>0, <1>2, <1>14 DEF Feed!vars, FeedType, FillsAreCurrent
<1>15. QED
  BY <1>3, <1>4, <1>5, <1>6, <1>7, <1>8, <1>10, <1>11, <1>12, <1>13, <1>14 DEF Feed!Next

\* The feed under a key answers that key's query by its user's criteria of the
\* moment, whatever a computation and a save do between each other's steps.
THEOREM FeedsAreCurrent == Feed!Spec => []Feed!FeedIsCurrent
<1>1. FeedInv => Feed!FeedIsCurrent
  <2> SUFFICES ASSUME FeedInv PROVE Feed!FeedIsCurrent
    OBVIOUS
  <2>1. \A k \in Feed!Keys : EntryIsCurrent(k, feed_cache[k])
    BY DEF FeedInv, EntriesAreCurrent
  <2>2. QED
    BY <2>1 DEF EntryIsCurrent, Feed!FeedIsCurrent
<1>2. QED
  BY <1>1, FeedInvInitial, FeedInvPreserved, PTL DEF Feed!Spec

\* Time and the saves are counted in naturals.
FeedAssumption == TTL \in Nat /\ SweepEvery \in Nat /\ MaxSaves \in Nat

LEMMA FeedTypePreserved ==
  ASSUME FeedAssumption, FeedInv, Feed!TypeOK, [Feed!Next]_(Feed!vars)
  PROVE  Feed!TypeOK'
<1> DEFINE Job == [at: {"idle", "profile", "rank"}, key: {None} \cup Feed!Keys,
                   criteria: 0..MaxSaves, excused: BOOLEAN]
           Entries == [Feed!Keys -> {None} \cup Feed!Entry]
<1>0. /\ feed_criteria \in [Readers -> 0..MaxSaves] /\ feed_saving \subseteq Readers
      /\ feed_cache \in Entries /\ feed_swept \in 0..SweepEvery /\ feed_fill \in [Fills -> Job]
  BY DEF Feed!TypeOK
<1>1. Feed!Idle \in Job /\ 0 \in 0..SweepEvery /\ 0 \in 0..MaxSaves /\ 0 \in 0..Feed!Oldest
  BY DEF Feed!Idle, FeedAssumption, Feed!Oldest
<1>2. ASSUME feed_criteria' \in [Readers -> 0..MaxSaves], feed_saving' \subseteq Readers,
             feed_cache' \in Entries, feed_swept' \in 0..SweepEvery,
             feed_fill' \in [Fills -> Job]
      PROVE  Feed!TypeOK'
  BY <1>2 DEF Feed!TypeOK, Feed!Entry, Feed!Keys, Feed!Oldest
<1>3. \A x \in Feed!Entry :
        /\ [x EXCEPT !.excused = TRUE] \in Feed!Entry
        /\ x.age # Feed!Oldest => [x EXCEPT !.age = @ + 1] \in Feed!Entry
  <2>1. Feed!Oldest \in Nat
    BY DEF Feed!Oldest, FeedAssumption
  <2>2. \A n \in 0..Feed!Oldest : n # Feed!Oldest => n + 1 \in 0..Feed!Oldest
    BY <2>1
  <2>3. QED
    BY <2>2 DEF Feed!Entry
<1>4. \A x \in Job : [x EXCEPT !.excused = TRUE] \in Job
  OBVIOUS
<1>5. \A k \in Feed!Keys : k[1] \in Readers /\ k[2] \in Filters
  BY DEF Feed!Keys
<1> HIDE DEF Job
<1>6. ASSUME NEW r \in Fills, NEW u \in Readers, NEW f \in Filters, Feed!Miss(r, u, f)
      PROVE  Feed!TypeOK'
  <2>1. <<u, f>> \in Feed!Keys
    BY DEF Feed!Keys
  <2>2. [Feed!Idle EXCEPT !.at = "profile", !.key = <<u, f>>] \in Job
    BY <1>1, <2>1 DEF Job
  <2>3. feed_fill' \in [Fills -> Job]
    BY <1>0, <1>6, <2>2 DEF Feed!Miss
  <2>4. feed_cache' \in Entries
    BY <1>0, <1>6 DEF Feed!Miss
  <2>5. QED
    BY <1>0, <1>2, <1>6, <2>3, <2>4 DEF Feed!Miss
<1>7. ASSUME NEW r \in Fills, Feed!ReadProfile(r) PROVE Feed!TypeOK'
  <2> DEFINE t == feed_fill[r]
             j == [t EXCEPT !.at = "rank", !.criteria = feed_criteria[t.key[1]]]
  <2>1. t \in Job /\ feed_criteria[t.key[1]] \in 0..MaxSaves
    BY <1>0, <1>5, <1>7 DEF FeedInv, FillsAreCurrent, Feed!ReadProfile
  <2>2. feed_fill' = [feed_fill EXCEPT ![r] = j]
    BY <1>0, <1>7 DEF Feed!ReadProfile, Job
  <2> HIDE DEF t
  <2>3. j \in Job
    BY <2>1 DEF Job
  <2> HIDE DEF j
  <2>4. QED
    BY <1>0, <1>2, <1>7, <2>2, <2>3 DEF Feed!ReadProfile
<1>8. ASSUME NEW r \in Fills, Feed!FallBack(r) PROVE Feed!TypeOK'
  <2> DEFINE t == feed_fill[r]
             j == [t EXCEPT !.at = "rank", !.excused = TRUE]
  <2>1. t \in Job
    BY <1>0
  <2>2. feed_fill' = [feed_fill EXCEPT ![r] = j]
    BY <1>0, <1>8 DEF Feed!FallBack, Job
  <2> HIDE DEF t
  <2>3. j \in Job
    BY <2>1 DEF Job
  <2> HIDE DEF j
  <2>4. QED
    BY <1>0, <1>2, <1>8, <2>2, <2>3 DEF Feed!FallBack
<1>9. ASSUME NEW r \in Fills, Feed!Fill(r) PROVE Feed!TypeOK'
  <2> DEFINE t == feed_fill[r]
             base == Feed!Sweep(feed_cache).entries
  <2>1. PICK lost \in BOOLEAN :
          feed_cache' = Feed!Put(Feed!Key(t.key[1], t.key[2]),
                          [criteria |-> t.criteria, filter |-> t.key[2], age |-> 0,
                           excused |-> t.excused \/ lost])
    BY <1>9 DEF Feed!Fill
  <2>2. /\ feed_fill' = [feed_fill EXCEPT ![r] = Feed!Idle] /\ t.at = "rank"
        /\ feed_swept' = Feed!Sweep(feed_cache).swept
        /\ UNCHANGED <<feed_criteria, feed_saving>>
    BY <1>9 DEF Feed!Fill
  <2>3. t \in Job /\ t.key \in Feed!Keys
    BY <1>0, <2>2 DEF FeedInv, FillsAreCurrent
  <2> DEFINE x == t.excused \/ lost
             e == [criteria |-> t.criteria, filter |-> t.key[2], age |-> 0, excused |-> x]
  <2>4. x \in BOOLEAN
    OBVIOUS
  <2>5. feed_cache' = [base EXCEPT ![<<t.key[1], t.key[2]>>] = e]
    BY <2>1 DEF Feed!Put, Feed!Key
  <2> HIDE DEF x
  <2>6. e \in Feed!Entry
    <3> HIDE DEF t
    <3>1. t.criteria \in 0..MaxSaves /\ t.key[2] \in Filters
      BY <1>5, <2>3 DEF Job
    <3>2. QED
      BY <1>1, <2>4, <3>1 DEF Feed!Entry
  <2> HIDE DEF e, t
  <2>7. feed_swept' \in 0..SweepEvery
    BY <1>0, <1>1, <2>2 DEF Feed!Sweep
  <2>8. base \in Entries
    BY <1>0 DEF Feed!Sweep
  <2> HIDE DEF base
  <2>9. feed_cache' \in Entries
    BY <2>5, <2>6, <2>8
  <2>10. feed_fill' \in [Fills -> Job]
    BY <1>0, <1>1, <2>2
  <2>11. QED
    BY <1>0, <1>2, <2>2, <2>7, <2>9, <2>10
<1>10. ASSUME NEW r \in Fills, Feed!GiveUp(r) PROVE Feed!TypeOK'
  BY <1>0, <1>1, <1>2, <1>10 DEF Feed!GiveUp
<1>11. ASSUME NEW u \in Readers, Feed!Save(u) PROVE Feed!TypeOK'
  <2>1. feed_criteria[u] \in 0..MaxSaves /\ feed_criteria[u] < MaxSaves
    BY <1>0, <1>11 DEF Feed!Save
  <2>2. feed_criteria[u] + 1 \in 0..MaxSaves
    BY <2>1 DEF FeedAssumption
  <2>3. feed_criteria' \in [Readers -> 0..MaxSaves]
    BY <1>0, <1>11, <2>2 DEF Feed!Save
  <2>4. feed_fill' \in [Fills -> Job]
    BY <1>0, <1>4, <1>11 DEF Feed!Save
  <2>5. QED
    BY <1>0, <1>2, <1>11, <2>3, <2>4 DEF Feed!Save
<1>12. ASSUME NEW u \in Readers, Feed!Saved(u) \/ Feed!SaveBreaks(u) PROVE Feed!TypeOK'
  <2>1. feed_cache' \in Entries
    BY <1>0, <1>3, <1>12 DEF Feed!Saved, Feed!SaveBreaks, Feed!Invalidate
  <2>2. QED
    BY <1>0, <1>2, <1>12, <2>1 DEF Feed!Saved, Feed!SaveBreaks
<1>13. CASE Feed!InvalidateAll
  BY <1>0, <1>2, <1>13 DEF Feed!InvalidateAll
<1>14. CASE Feed!Pass
  <2>1. \A x \in {None} \cup Feed!Entry : Feed!Older(x) \in {None} \cup Feed!Entry
    BY <1>3 DEF Feed!Older
  <2>2. feed_cache' \in Entries
    BY <1>0, <1>14, <2>1 DEF Feed!Pass
  <2>3. feed_swept' \in 0..SweepEvery
    BY <1>0, <1>14 DEF Feed!Pass, FeedAssumption
  <2>4. QED
    BY <1>0, <1>2, <1>14, <2>2, <2>3 DEF Feed!Pass
<1>15. CASE UNCHANGED Feed!vars
  BY <1>0, <1>2, <1>15 DEF Feed!vars
<1>16. QED
  BY <1>6, <1>7, <1>8, <1>9, <1>10, <1>11, <1>12, <1>13, <1>14, <1>15 DEF Feed!Next

\* Entries and computations are of the keys there are, and no entry counts its
\* age past the point where a sweep takes it.
THEOREM FeedTypes ==
  ASSUME FeedAssumption
  PROVE  Feed!Spec => []Feed!TypeOK
<1>1. Feed!Init => FeedInv /\ Feed!TypeOK
  <2> SUFFICES ASSUME Feed!Init PROVE FeedInv /\ Feed!TypeOK
    OBVIOUS
  <2>1. 0 \in 0..MaxSaves /\ SweepEvery \in 0..SweepEvery
    BY DEF FeedAssumption
  <2>2. QED
    BY <2>1, FeedInvInitial DEF Feed!Init, Feed!Idle, Feed!TypeOK
<1>2. FeedInv /\ Feed!TypeOK /\ [Feed!Next]_(Feed!vars) => FeedInv' /\ Feed!TypeOK'
  BY FeedInvPreserved, FeedTypePreserved
<1>3. QED
  BY <1>1, <1>2, PTL DEF Feed!Spec

(***************************************************************************)
(* The deal pipeline.                                                      *)
(***************************************************************************)
\* There are so many deal ids and requests, and no more.
PipelineAssumption == IsFiniteSet(Deals) /\ IsFiniteSet(Requests)

RequestRecord ==
  [at: {"idle", "insert", "update", "record"},
   user: DealUsers \cup {None}, deal: Deals \cup {None},
   from: Pipeline!Stages \cup {None}, to: Pipeline!Stages \cup Opps \cup {None}]

PipelineType ==
  /\ deal_table \in [Deals -> {None} \cup Pipeline!Deal]
  /\ deal_memory \in [Deals -> {None} \cup Pipeline!Deal]
  /\ deal_history \in [Deals -> Seq(Pipeline!Stages \X Pipeline!Stages)]
  /\ deal_req \in [Requests -> RequestRecord]
  /\ deal_outages \in Nat /\ deal_removed \subseteq Deals

\* What a request that is under way is about.
RequestsFit ==
  \A r \in Requests :
    /\ deal_req[r].at # "idle" => deal_req[r].user \in DealUsers /\ deal_req[r].deal \in Deals
    /\ deal_req[r].at = "insert" => deal_req[r].to \in Opps
    /\ deal_req[r].at \in {"update", "record"} =>
         deal_req[r].from \in Pipeline!Stages /\ deal_req[r].to \in Pipeline!Stages

\* The id of a deal that is about to be inserted is nobody else's.
InsertsAreFresh ==
  \A r \in Requests : deal_req[r].at = "insert" =>
    /\ deal_table[deal_req[r].deal] = None /\ deal_memory[deal_req[r].deal] = None
    /\ deal_req[r].deal \notin deal_removed
    /\ \A q \in Requests \ {r} : deal_req[q].at # "idle" => deal_req[q].deal # deal_req[r].deal

\* A deal in both stores is one user's, and some call failed.
StoresAgree ==
  \A d \in Deals : deal_memory[d] # None =>
    /\ deal_outages >= 1
    /\ deal_table[d] # None => deal_table[d].owner = deal_memory[d].owner

PipelineBase ==
  PipelineType /\ RequestsFit /\ InsertsAreFresh /\ StoresAgree /\ Pipeline!RemovalHolds

LEMMA PipelineBaseInitial ==
  ASSUME Pipeline!Init
  PROVE  PipelineBase
<1>1. Pipeline!Idle \in RequestRecord /\ Pipeline!Idle.at = "idle"
  BY DEF Pipeline!Idle, RequestRecord
<1>2. <<>> \in Seq(Pipeline!Stages \X Pipeline!Stages)
  OBVIOUS
<1>3. PipelineType
  BY <1>1, <1>2 DEF Pipeline!Init, PipelineType
<1>4. QED
  BY <1>1, <1>3 DEF Pipeline!Init, PipelineBase, RequestsFit, InsertsAreFresh, StoresAgree,
                    Pipeline!RemovalHolds

\* A step of one request leaves the others where they are.
LEMMA RequestStep ==
  ASSUME PipelineBase, NEW r \in Requests, NEW j \in RequestRecord,
         deal_req' = [deal_req EXCEPT ![r] = j]
  PROVE  /\ deal_req' \in [Requests -> RequestRecord]
         /\ deal_req'[r] = j
         /\ \A q \in Requests \ {r} : deal_req'[q] = deal_req[q]
BY DEF PipelineBase, PipelineType

\* The list is moved without a deal entering or leaving it, or changing hands.
LEMMA EntryMoved ==
  ASSUME PipelineBase, NEW u \in DealUsers, NEW d \in Deals, NEW to \in Pipeline!Stages,
         Pipeline!MoveEntry(u, d, to)
  PROVE  /\ deal_memory' \in [Deals -> {None} \cup Pipeline!Deal]
         /\ \A e \in Deals :
              \/ deal_memory'[e] = deal_memory[e]
              \/ /\ deal_memory[e] # None
                 /\ deal_memory'[e].owner = deal_memory[e].owner
                 /\ deal_memory'[e].opp = deal_memory[e].opp
<1>1. \A x \in Pipeline!Deal :
        /\ [x EXCEPT !.stage = to] \in Pipeline!Deal
        /\ [x EXCEPT !.stage = to].owner = x.owner /\ [x EXCEPT !.stage = to].opp = x.opp
  BY DEF Pipeline!Deal
<1>2. deal_memory \in [Deals -> {None} \cup Pipeline!Deal]
  BY DEF PipelineBase, PipelineType
<1>3. CASE Pipeline!OwnEntry(u, d)
  <2>1. deal_memory[d] \in Pipeline!Deal /\ deal_memory[d] # None
    BY <1>2, <1>3 DEF Pipeline!OwnEntry
  <2>2. deal_memory' = [deal_memory EXCEPT ![d] = [deal_memory[d] EXCEPT !.stage = to]]
    BY <1>3 DEF Pipeline!MoveEntry
  <2>3. QED
    BY <1>1, <1>2, <2>1, <2>2
<1>4. CASE ~ Pipeline!OwnEntry(u, d)
  BY <1>2, <1>4 DEF Pipeline!MoveEntry
<1>5. QED
  BY <1>3, <1>4

\* A request that begins, moves on or ends, and nothing that is kept changes.
LEMMA BaseRequestStep ==
  ASSUME PipelineBase, NEW r \in Requests, NEW j \in RequestRecord,
         deal_req' = [deal_req EXCEPT ![r] = j],
         j.at # "idle" => j.user \in DealUsers /\ j.deal \in Deals,
         j.at = "insert" => j.to \in Opps,
         j.at \in {"update", "record"} =>
           j.from \in Pipeline!Stages /\ j.to \in Pipeline!Stages
  PROVE  /\ deal_req' \in [Requests -> RequestRecord]
         /\ RequestsFit'
BY RequestStep DEF PipelineBase, RequestsFit

LEMMA PipelineBasePreserved ==
  ASSUME PipelineBase, [Pipeline!Next]_(Pipeline!vars)
  PROVE  PipelineBase'
<1>0. PipelineType /\ RequestsFit /\ InsertsAreFresh /\ StoresAgree /\ Pipeline!RemovalHolds
  BY DEF PipelineBase
<1>1. Pipeline!Idle \in RequestRecord /\ Pipeline!Idle.at = "idle"
  BY DEF Pipeline!Idle, RequestRecord
<1>2. /\ Pipeline!Outage => deal_outages' = deal_outages + 1
      /\ Pipeline!NoOutage => deal_outages' = deal_outages
      /\ deal_outages \in Nat
  BY <1>0 DEF Pipeline!Outage, Pipeline!NoOutage, PipelineType
<1>3. ASSUME NEW r \in Requests, NEW u \in DealUsers, NEW o \in Opps,
             Pipeline!BeginAdd(r, u, o)
      PROVE  PipelineBase'
  <2>1. PICK d \in Pipeline!Fresh :
          deal_req' = [deal_req EXCEPT ![r] = [at |-> "insert", user |-> u, deal |-> d,
                                               from |-> "discovery", to |-> o]]
    BY <1>3 DEF Pipeline!BeginAdd
  <2> DEFINE j == [at |-> "insert", user |-> u, deal |-> d, from |-> "discovery", to |-> o]
  <2>2. /\ UNCHANGED <<deal_table, deal_history, deal_memory, deal_removed>>
        /\ deal_outages' \in Nat /\ deal_outages' >= deal_outages
    BY <1>2, <1>3 DEF Pipeline!BeginAdd
  <2>3. d \in Deals /\ j \in RequestRecord /\ j.at = "insert" /\ j.user = u /\ j.deal = d
        /\ j.to = o
    BY DEF Pipeline!Fresh, RequestRecord, Pipeline!Stages
  <2>4. /\ deal_table[d] = None /\ deal_memory[d] = None /\ d \notin deal_removed
        /\ \A q \in Requests : deal_req[q].deal # d
    BY DEF Pipeline!Fresh
  <2> HIDE DEF j
  <2>5. /\ deal_req' \in [Requests -> RequestRecord] /\ deal_req'[r] = j
        /\ \A q \in Requests \ {r} : deal_req'[q] = deal_req[q]
        /\ RequestsFit'
    BY <2>1, <2>3, RequestStep, BaseRequestStep DEF j
  <2>6. InsertsAreFresh'
    BY <1>0, <2>2, <2>3, <2>4, <2>5 DEF InsertsAreFresh
  <2>7. PipelineType' /\ StoresAgree' /\ Pipeline!RemovalHolds'
    BY <1>0, <1>2, <2>2, <2>5 DEF PipelineType, StoresAgree, Pipeline!RemovalHolds
  <2>8. QED
    BY <2>5, <2>6, <2>7 DEF PipelineBase
<1>4. ASSUME NEW u \in DealUsers, NEW d \in Deals, Pipeline!Remove(u, d)
      PROVE  PipelineBase'
  <2>1. /\ deal_memory' = [deal_memory EXCEPT ![d] =
                            IF Pipeline!OwnEntry(u, d) THEN None ELSE @]
        /\ deal_removed' = deal_removed \cup {d} /\ UNCHANGED deal_req
        /\ deal_outages' \in {deal_outages, deal_outages + 1}
    BY <1>2, <1>4 DEF Pipeline!Remove
  <2>2. \/ /\ deal_table' = [deal_table EXCEPT ![d] = None] /\ Pipeline!OwnRow(u, d)
           /\ deal_history' = [deal_history EXCEPT ![d] = <<>>]
        \/ UNCHANGED <<deal_table, deal_history>>
    BY <1>4 DEF Pipeline!Remove, Pipeline!DeleteRow
  <2>3. /\ deal_table' \in [Deals -> {None} \cup Pipeline!Deal]
        /\ deal_memory' \in [Deals -> {None} \cup Pipeline!Deal]
        /\ deal_history' \in [Deals -> Seq(Pipeline!Stages \X Pipeline!Stages)]
        /\ \A e \in Deals \ {d} :
             deal_table'[e] = deal_table[e] /\ deal_memory'[e] = deal_memory[e]
        /\ deal_table'[d] \in {None, deal_table[d]}
        /\ deal_memory'[d] \in {None, deal_memory[d]}
    <3>1. <<>> \in Seq(Pipeline!Stages \X Pipeline!Stages)
      OBVIOUS
    <3>2. QED
      BY <1>0, <2>1, <2>2, <3>1 DEF PipelineType
  <2>4. PipelineType' /\ RequestsFit'
    BY <1>0, <1>2, <2>1, <2>3 DEF PipelineType, RequestsFit
  <2>5. StoresAgree'
    BY <1>0, <1>2, <2>1, <2>3 DEF StoresAgree
  <2>6. InsertsAreFresh'
    <3>1. deal_table[d] # None \/ deal_memory[d] # None
      BY <1>4 DEF Pipeline!Remove, Pipeline!OwnRow, Pipeline!OwnEntry
    <3>2. \A r \in Requests : deal_req[r].at = "insert" =>
            deal_req[r].deal \in Deals /\ deal_req[r].deal # d
      BY <1>0, <3>1 DEF InsertsAreFresh, RequestsFit
    <3>3. QED
      BY <1>0, <2>1, <2>3, <3>2 DEF InsertsAreFresh
  <2>7. deal_memory'[d] = None
    <3>1. deal_memory[d] # None => Pipeline!OwnEntry(u, d)
      BY <1>0, <1>4 DEF Pipeline!Remove, Pipeline!OwnRow, Pipeline!OwnEntry, StoresAgree
    <3>2. QED
      BY <1>0, <2>1, <3>1 DEF PipelineType
  <2>8. deal_table'[d] # None => deal_outages' >= 2
    <3>1. CASE Pipeline!OwnRow(u, d) /\ Pipeline!DeleteRow(d)
      BY <1>0, <3>1 DEF Pipeline!DeleteRow, PipelineType
    <3>2. CASE Pipeline!OwnEntry(u, d) /\ ~ Pipeline!OwnRow(u, d) /\ UNCHANGED deal_table
      BY <1>0, <3>2 DEF Pipeline!OwnEntry, Pipeline!OwnRow, StoresAgree
    <3>3. CASE Pipeline!OwnEntry(u, d) /\ Pipeline!OwnRow(u, d) /\ Pipeline!Outage
      BY <1>0, <1>2, <3>3 DEF Pipeline!OwnEntry, StoresAgree
    <3>4. QED
      BY <1>4, <3>1, <3>2, <3>3 DEF Pipeline!Remove
  <2>9. Pipeline!RemovalHolds'
    BY <1>0, <1>2, <2>1, <2>3, <2>7, <2>8 DEF Pipeline!RemovalHolds, PipelineType
  <2>10. QED
    BY <2>4, <2>5, <2>6, <2>9 DEF PipelineBase
\* What a move does to the list disturbs nothing else.
<1>5. ASSUME NEW u \in DealUsers, NEW d \in Deals, NEW to \in Pipeline!Stages,
             Pipeline!MoveEntry(u, d, to), deal_outages' \in {deal_outages, deal_outages + 1},
             UNCHANGED <<deal_table, deal_history, deal_removed>>,
             deal_req' \in [Requests -> RequestRecord], RequestsFit',
             \A r \in Requests : deal_req'[r] = deal_req[r] \/ deal_req'[r].at = "idle"
      PROVE  PipelineBase'
  <2>1. /\ deal_memory' \in [Deals -> {None} \cup Pipeline!Deal]
        /\ \A e \in Deals : \/ deal_memory'[e] = deal_memory[e]
                            \/ /\ deal_memory[e] # None
                               /\ deal_memory'[e].owner = deal_memory[e].owner
    BY <1>5, EntryMoved
  <2>2. PipelineType'
    BY <1>0, <1>2, <1>5, <2>1 DEF PipelineType
  <2>3. StoresAgree' /\ Pipeline!RemovalHolds'
    BY <1>0, <1>2, <1>5, <2>1 DEF PipelineType, StoresAgree, Pipeline!RemovalHolds
  <2>4. InsertsAreFresh'
    BY <1>0, <1>5, <2>1 DEF InsertsAreFresh, RequestsFit
  <2>5. QED
    BY <1>5, <2>2, <2>3, <2>4 DEF PipelineBase
<1>6. ASSUME NEW r \in Requests, NEW u \in DealUsers, NEW d \in Deals,
             NEW to \in Pipeline!Stages, Pipeline!BeginMove(r, u, d, to)
      PROVE  PipelineBase'
  <2>1. CASE /\ Pipeline!OwnRow(u, d) /\ Pipeline!NoOutage /\ UNCHANGED deal_memory
             /\ deal_req[r].at = "idle"
             /\ deal_req' = [deal_req EXCEPT ![r] = [at |-> "update", user |-> u, deal |-> d,
                                           from |-> deal_table[d].stage, to |-> to]]
    <3> DEFINE j == [at |-> "update", user |-> u, deal |-> d, from |-> deal_table[d].stage,
                     to |-> to]
    <3>1. deal_table[d] # None /\ deal_table[d].stage \in Pipeline!Stages
      BY <1>0, <2>1 DEF Pipeline!OwnRow, PipelineType, Pipeline!Deal
    <3>2. j \in RequestRecord /\ j.at = "update" /\ j.user = u /\ j.deal = d
          /\ j.from \in Pipeline!Stages /\ j.to \in Pipeline!Stages
      BY <3>1 DEF RequestRecord
    <3> HIDE DEF j
    <3>3. /\ deal_req' \in [Requests -> RequestRecord] /\ deal_req'[r] = j
          /\ \A q \in Requests \ {r} : deal_req'[q] = deal_req[q]
          /\ RequestsFit'
      BY <2>1, <3>2, RequestStep, BaseRequestStep DEF j
    <3>4. UNCHANGED <<deal_table, deal_history, deal_memory, deal_outages, deal_removed>>
      BY <1>2, <1>6, <2>1 DEF Pipeline!BeginMove
    <3>5. InsertsAreFresh'
      BY <1>0, <3>1, <3>2, <3>3, <3>4 DEF InsertsAreFresh
    <3>6. QED
      BY <1>0, <3>3, <3>4, <3>5
         DEF PipelineBase, PipelineType, StoresAgree, Pipeline!RemovalHolds
  <2>2. CASE Pipeline!MoveEntry(u, d, to) /\ UNCHANGED deal_req
    <3>1. /\ deal_outages' \in {deal_outages, deal_outages + 1}
          /\ UNCHANGED <<deal_table, deal_history, deal_removed>>
      BY <1>2, <1>6 DEF Pipeline!BeginMove
    <3>2. deal_req' \in [Requests -> RequestRecord] /\ RequestsFit'
      BY <1>0, <2>2 DEF PipelineType, RequestsFit
    <3>3. QED
      BY <1>5, <2>2, <3>1, <3>2
  <2>3. QED
    BY <1>6, <2>1, <2>2 DEF Pipeline!BeginMove
<1>7. ASSUME NEW r \in Requests, Pipeline!Insert(r)
      PROVE  PipelineBase'
  <2> DEFINE d == deal_req[r].deal
             new == [owner |-> deal_req[r].user, opp |-> deal_req[r].to, stage |-> "discovery"]
  <2>1. /\ deal_req[r].at = "insert" /\ deal_req' = [deal_req EXCEPT ![r] = Pipeline!Idle]
        /\ UNCHANGED <<deal_history, deal_removed>>
    BY <1>7 DEF Pipeline!Insert
  <2>2. d \in Deals /\ new \in Pipeline!Deal /\ d \notin deal_removed
        /\ deal_table[d] = None /\ deal_memory[d] = None
    BY <1>0, <2>1 DEF RequestsFit, InsertsAreFresh, Pipeline!Deal, Pipeline!Stages
  <2>3. /\ deal_table' \in {deal_table, [deal_table EXCEPT ![d] = new]}
        /\ deal_memory' \in {deal_memory, [deal_memory EXCEPT ![d] = new]}
        /\ \/ UNCHANGED deal_memory /\ deal_outages' \in {deal_outages, deal_outages + 1}
           \/ deal_outages' = deal_outages + 1
    BY <1>2, <1>7 DEF Pipeline!Insert
  <2>4. /\ deal_req' \in [Requests -> RequestRecord] /\ deal_req'[r].at = "idle"
        /\ \A q \in Requests \ {r} : deal_req'[q] = deal_req[q]
        /\ RequestsFit'
    BY <1>1, <2>1, RequestStep, BaseRequestStep
  <2>5. \A q \in Requests \ {r} : deal_req[q].at = "insert" =>
          deal_req[q].deal # d /\ deal_req[q].deal \in Deals
    BY <1>0, <2>1 DEF InsertsAreFresh, RequestsFit
  <2> HIDE DEF d, new
  <2>6. /\ deal_table' \in [Deals -> {None} \cup Pipeline!Deal]
        /\ deal_memory' \in [Deals -> {None} \cup Pipeline!Deal]
        /\ \A e \in Deals \ {d} :
             deal_table'[e] = deal_table[e] /\ deal_memory'[e] = deal_memory[e]
        /\ deal_table'[d] \in {None, new} /\ deal_memory'[d] \in {None, new}
    BY <1>0, <2>2, <2>3 DEF PipelineType
  <2>7. PipelineType'
    BY <1>0, <1>2, <2>1, <2>3, <2>4, <2>6 DEF PipelineType
  <2>8. InsertsAreFresh'
    BY <1>0, <2>1, <2>4, <2>5, <2>6 DEF InsertsAreFresh
  <2>9. StoresAgree'
    <3>1. deal_memory'[d] # None => deal_outages' >= 1
      BY <1>2, <2>2, <2>3
    <3>2. QED
      BY <1>0, <1>2, <2>3, <2>6, <3>1 DEF StoresAgree
  <2>10. Pipeline!RemovalHolds'
    BY <1>0, <1>2, <2>1, <2>2, <2>3, <2>6 DEF Pipeline!RemovalHolds, PipelineType
  <2>11. QED
    BY <2>4, <2>7, <2>8, <2>9, <2>10 DEF PipelineBase
<1>8. ASSUME NEW r \in Requests, Pipeline!UpdateRow(r)
      PROVE  PipelineBase'
  <2> DEFINE t == deal_req[r]
  <2>1. /\ t.at = "update" /\ t \in RequestRecord /\ t.user \in DealUsers /\ t.deal \in Deals
        /\ t.from \in Pipeline!Stages /\ t.to \in Pipeline!Stages
        /\ UNCHANGED <<deal_history, deal_removed>>
    BY <1>0, <1>8 DEF Pipeline!UpdateRow, PipelineType, RequestsFit
  <2>2. CASE /\ Pipeline!OwnRow(t.user, t.deal) /\ Pipeline!NoOutage /\ UNCHANGED deal_memory
             /\ deal_table' = [deal_table EXCEPT ![t.deal].stage = t.to]
             /\ deal_req' = [deal_req EXCEPT ![r] =
                               IF Pipeline!IsMove(t.from, t.to)
                               THEN [@ EXCEPT !.at = "record"] ELSE Pipeline!Idle]
    <3> DEFINE j == IF Pipeline!IsMove(t.from, t.to) THEN [t EXCEPT !.at = "record"]
                    ELSE Pipeline!Idle
    <3>1. deal_req' = [deal_req EXCEPT ![r] = j]
      BY <2>2
    <3>2. deal_table[t.deal] \in Pipeline!Deal /\ deal_table[t.deal] # None
      BY <1>0, <2>1, <2>2 DEF PipelineType, Pipeline!OwnRow
    <3>3. deal_table' = [deal_table EXCEPT ![t.deal] =
                           [deal_table[t.deal] EXCEPT !.stage = t.to]]
      BY <2>2
    <3> HIDE DEF t
    <3>4. /\ j \in RequestRecord /\ j.at \in {"record", "idle"}
          /\ j.at = "record" =>
               j.user = t.user /\ j.deal = t.deal /\ j.from = t.from /\ j.to = t.to
      BY <1>1, <2>1 DEF RequestRecord
    <3> DEFINE moved == [deal_table[t.deal] EXCEPT !.stage = t.to]
    <3>5. moved \in Pipeline!Deal /\ moved.owner = deal_table[t.deal].owner
      BY <2>1, <3>2 DEF Pipeline!Deal
    <3> HIDE DEF j, moved
    <3>6. /\ deal_req' \in [Requests -> RequestRecord] /\ deal_req'[r] = j
          /\ \A q \in Requests \ {r} : deal_req'[q] = deal_req[q]
          /\ RequestsFit'
      BY <2>1, <3>1, <3>4, RequestStep, BaseRequestStep
    <3>7. /\ deal_table' \in [Deals -> {None} \cup Pipeline!Deal]
          /\ deal_table'[t.deal] = moved
          /\ \A e \in Deals \ {t.deal} : deal_table'[e] = deal_table[e]
      BY <1>0, <2>1, <3>3, <3>5 DEF PipelineType, moved
    <3>8. UNCHANGED deal_outages
      BY <1>2, <2>2
    <3>9. PipelineType' /\ StoresAgree' /\ Pipeline!RemovalHolds'
      BY <1>0, <2>1, <2>2, <3>2, <3>5, <3>6, <3>7, <3>8
         DEF PipelineType, StoresAgree, Pipeline!RemovalHolds
    <3>10. InsertsAreFresh'
      <4>1. \A q \in Requests : deal_req[q].at = "insert" =>
              deal_req[q].deal \in Deals \ {t.deal}
        BY <1>0, <3>2 DEF InsertsAreFresh, RequestsFit
      <4>2. \A q \in Requests : deal_req'[q].at = "insert" =>
              deal_req[q].at = "insert" /\ deal_req'[q] = deal_req[q]
        BY <3>4, <3>6
      <4>3. \A q \in Requests : deal_req'[q].at # "idle" =>
              deal_req[q].at # "idle" /\ deal_req'[q].deal = deal_req[q].deal
        BY <2>1, <3>4, <3>6 DEF t
      <4>4. QED
        BY <1>0, <2>1, <2>2, <3>7, <4>1, <4>2, <4>3 DEF InsertsAreFresh
    <3>11. QED
      BY <3>6, <3>9, <3>10 DEF PipelineBase
  <2>3. CASE /\ Pipeline!MoveEntry(t.user, t.deal, t.to) /\ UNCHANGED deal_table
             /\ deal_req' = [deal_req EXCEPT ![r] = Pipeline!Idle]
    <3>1. deal_outages' \in {deal_outages, deal_outages + 1}
      BY <1>2, <1>8 DEF Pipeline!UpdateRow
    <3>2. /\ deal_req' \in [Requests -> RequestRecord] /\ RequestsFit'
          /\ \A q \in Requests : deal_req'[q] = deal_req[q] \/ deal_req'[q].at = "idle"
      BY <1>1, <2>3, RequestStep, BaseRequestStep
    <3>3. QED
      BY <1>5, <2>1, <2>3, <3>1, <3>2
  <2>4. QED
    BY <1>8, <2>2, <2>3 DEF Pipeline!UpdateRow
<1>9. ASSUME NEW r \in Requests, Pipeline!RecordTransition(r)
      PROVE  PipelineBase'
  <2> DEFINE t == deal_req[r]
  <2>1. /\ t.at = "record" /\ t.deal \in Deals
        /\ t.from \in Pipeline!Stages /\ t.to \in Pipeline!Stages
        /\ deal_req' = [deal_req EXCEPT ![r] = Pipeline!Idle]
        /\ UNCHANGED <<deal_table, deal_memory, deal_removed>>
        /\ deal_outages' \in {deal_outages, deal_outages + 1}
        /\ deal_history' \in {deal_history,
             [deal_history EXCEPT ![t.deal] = Append(@, <<t.from, t.to>>)]}
    BY <1>0, <1>2, <1>9 DEF Pipeline!RecordTransition, RequestsFit
  <2> HIDE DEF t
  <2>2. deal_history' \in [Deals -> Seq(Pipeline!Stages \X Pipeline!Stages)]
    <3>1. Append(deal_history[t.deal], <<t.from, t.to>>) \in
            Seq(Pipeline!Stages \X Pipeline!Stages)
      BY <1>0, <2>1 DEF PipelineType
    <3>2. QED
      BY <1>0, <2>1, <3>1 DEF PipelineType
  <2>3. /\ deal_req' \in [Requests -> RequestRecord] /\ RequestsFit'
        /\ \A q \in Requests : deal_req'[q] = deal_req[q] \/ deal_req'[q].at = "idle"
    BY <1>1, <2>1, RequestStep, BaseRequestStep
  <2>4. PipelineType' /\ StoresAgree' /\ Pipeline!RemovalHolds'
    BY <1>0, <1>2, <2>1, <2>2, <2>3 DEF PipelineType, StoresAgree, Pipeline!RemovalHolds
  <2>5. InsertsAreFresh'
    BY <1>0, <2>1, <2>3 DEF InsertsAreFresh
  <2>6. QED
    BY <2>3, <2>4, <2>5 DEF PipelineBase
<1>10. CASE Pipeline!Restart
  <2>1. /\ deal_memory' = [d \in Deals |-> None]
        /\ deal_req' = [r \in Requests |-> Pipeline!Idle]
        /\ deal_outages' = deal_outages + 1
        /\ UNCHANGED <<deal_table, deal_history, deal_removed>>
    BY <1>2, <1>10 DEF Pipeline!Restart
  <2>2. PipelineType' /\ StoresAgree' /\ Pipeline!RemovalHolds'
    BY <1>0, <1>1, <1>2, <2>1 DEF PipelineType, StoresAgree, Pipeline!RemovalHolds
  <2>3. InsertsAreFresh' /\ RequestsFit'
    BY <1>1, <2>1 DEF InsertsAreFresh, RequestsFit
  <2>4. QED
    BY <2>2, <2>3 DEF PipelineBase
<1>11. CASE UNCHANGED Pipeline!vars
  BY <1>0, <1>11 DEF Pipeline!vars, PipelineBase, PipelineType, RequestsFit, InsertsAreFresh,
                     StoresAgree, Pipeline!RemovalHolds
<1>12. QED
  BY <1>3, <1>4, <1>6, <1>7, <1>8, <1>9, <1>10, <1>11 DEF Pipeline!Next

\* A removed deal stays removed, unless two calls failed.
THEOREM RemovalsHold == Pipeline!Spec => []Pipeline!RemovalHolds
<1>1. PipelineBase => Pipeline!RemovalHolds
  BY DEF PipelineBase
<1>2. QED
  BY <1>1, PipelineBaseInitial, PipelineBasePreserved, PTL DEF Pipeline!Spec

\* A stage the history leads to, or will once what is under way is recorded.
Accounted(d, stage) ==
  \/ stage = "discovery"
  \/ \E i \in DOMAIN deal_history[d] : deal_history[d][i][2] = stage
  \/ \E r \in Requests : /\ deal_req[r].at = "record" /\ deal_req[r].deal = d
                         /\ deal_req[r].to = stage

\* So is the stage of a deal, and the one a move of it read.
StagesAccounted ==
  deal_outages = 0 =>
    \A d \in Deals : deal_table[d] # None =>
      /\ Accounted(d, deal_table[d].stage)
      /\ \A r \in Requests : deal_req[r].at = "update" /\ deal_req[r].deal = d =>
           Accounted(d, deal_req[r].from)

LEMMA StagesAccountedInitial ==
  ASSUME Pipeline!Init
  PROVE  StagesAccounted
BY DEF Pipeline!Init, StagesAccounted

\* A transition that is recorded is the last of its deal's history.
LEMMA HistoryGrows ==
  ASSUME NEW h \in Seq(Pipeline!Stages \X Pipeline!Stages),
         NEW e \in Pipeline!Stages \X Pipeline!Stages
  PROVE  /\ DOMAIN h \subseteq DOMAIN Append(h, e)
         /\ \A i \in DOMAIN h : Append(h, e)[i] = h[i]
         /\ \E i \in DOMAIN Append(h, e) : Append(h, e)[i] = e
<1>1. Len(h) + 1 \in DOMAIN Append(h, e) /\ Append(h, e)[Len(h) + 1] = e
  OBVIOUS
<1>2. QED
  BY <1>1

\* Without a failure, a stage that is accounted for stays so while its deal does.
LEMMA AccountsKept ==
  ASSUME PipelineBase, Pipeline!Next, deal_outages' = 0, NEW d \in Deals, NEW stage,
         deal_table[d] # None, deal_table'[d] # None, Accounted(d, stage)
  PROVE  Accounted(d, stage)'
<1>0. PipelineType /\ RequestsFit
  BY DEF PipelineBase
<1>1. ~ Pipeline!Outage
  BY <1>0 DEF Pipeline!Outage, PipelineType
<1>2. ASSUME UNCHANGED deal_history,
             \A r \in Requests : deal_req[r].at = "record" => deal_req'[r] = deal_req[r]
      PROVE  Accounted(d, stage)'
  BY <1>2 DEF Accounted
<1>3. ASSUME NEW r \in Requests, NEW j, deal_req' = [deal_req EXCEPT ![r] = j],
             deal_req[r].at # "record", UNCHANGED deal_history
      PROVE  Accounted(d, stage)'
  <2>1. \A q \in Requests : deal_req[q].at = "record" => deal_req'[q] = deal_req[q]
    BY <1>0, <1>3 DEF PipelineType
  <2>2. QED
    BY <1>2, <1>3, <2>1
<1>4. ASSUME NEW r \in Requests, NEW u \in DealUsers, NEW o \in Opps,
             Pipeline!BeginAdd(r, u, o)
      PROVE  Accounted(d, stage)'
  BY <1>3, <1>4 DEF Pipeline!BeginAdd
<1>5. ASSUME NEW u \in DealUsers, NEW e \in Deals, Pipeline!Remove(u, e)
      PROVE  Accounted(d, stage)'
  <2>1. UNCHANGED deal_req
    BY <1>5 DEF Pipeline!Remove
  <2>2. \/ UNCHANGED deal_history
        \/ deal_history' = [deal_history EXCEPT ![e] = <<>>] /\ e # d
    BY <1>0, <1>5 DEF Pipeline!Remove, Pipeline!DeleteRow, PipelineType
  <2>3. deal_history'[d] = deal_history[d]
    BY <1>0, <2>2 DEF PipelineType
  <2>4. QED
    BY <2>1, <2>3 DEF Accounted
<1>6. ASSUME NEW r \in Requests, NEW u \in DealUsers, NEW e \in Deals,
             NEW to \in Pipeline!Stages, Pipeline!BeginMove(r, u, e, to)
      PROVE  Accounted(d, stage)'
  <2>1. UNCHANGED deal_history /\ deal_req[r].at = "idle"
    BY <1>6 DEF Pipeline!BeginMove
  <2>2. CASE UNCHANGED deal_req
    BY <1>2, <2>1, <2>2
  <2>3. QED
    BY <1>3, <1>6, <2>1, <2>2 DEF Pipeline!BeginMove
<1>7. ASSUME NEW r \in Requests, Pipeline!Insert(r)
      PROVE  Accounted(d, stage)'
  BY <1>3, <1>7 DEF Pipeline!Insert
<1>8. ASSUME NEW r \in Requests, Pipeline!UpdateRow(r)
      PROVE  Accounted(d, stage)'
  BY <1>3, <1>8 DEF Pipeline!UpdateRow
<1>9. ASSUME NEW r \in Requests, Pipeline!RecordTransition(r)
      PROVE  Accounted(d, stage)'
  <2> DEFINE t == deal_req[r]
             e == <<t.from, t.to>>
  <2>1. /\ deal_req' = [deal_req EXCEPT ![r] = Pipeline!Idle] /\ t.deal \in Deals
        /\ t.at = "record" /\ t.from \in Pipeline!Stages /\ t.to \in Pipeline!Stages
        /\ UNCHANGED deal_table
        /\ deal_history' = IF deal_table[t.deal] = None THEN deal_history
                           ELSE [deal_history EXCEPT ![t.deal] = Append(@, e)]
    BY <1>0, <1>1, <1>9 DEF Pipeline!RecordTransition, RequestsFit
  <2>2. \A q \in Requests \ {r} : deal_req'[q] = deal_req[q]
    BY <1>0, <2>1 DEF PipelineType
  <2>3. CASE t.deal # d
    <3>1. deal_history'[d] = deal_history[d]
      BY <1>0, <2>1, <2>3 DEF PipelineType
    <3>2. QED
      BY <2>2, <2>3, <3>1 DEF Accounted
  <2>4. CASE t.deal = d
    <3> DEFINE h == deal_history[d]
    <3>1. h \in Seq(Pipeline!Stages \X Pipeline!Stages) /\ e \in Pipeline!Stages \X Pipeline!Stages
          /\ e[2] = t.to
      BY <1>0, <2>1 DEF PipelineType
    <3>2. deal_history'[d] = Append(h, e)
      BY <1>0, <2>1, <2>4 DEF PipelineType
    <3> HIDE DEF h, e
    <3>3. /\ DOMAIN h \subseteq DOMAIN Append(h, e)
          /\ \A i \in DOMAIN h : Append(h, e)[i] = h[i]
          /\ \E i \in DOMAIN Append(h, e) : Append(h, e)[i] = e
      BY <3>1, HistoryGrows
    <3>4. \A i \in DOMAIN h : i \in DOMAIN deal_history'[d] /\ deal_history'[d][i] = h[i]
      BY <3>2, <3>3
    <3>5. \E i \in DOMAIN deal_history'[d] : deal_history'[d][i][2] = t.to
      BY <3>1, <3>2, <3>3
    <3>6. QED
      BY <2>2, <3>4, <3>5 DEF Accounted, h
  <2>5. QED
    BY <2>3, <2>4
<1>10. ~ Pipeline!Restart
  BY <1>1 DEF Pipeline!Restart
<1>11. QED
  BY <1>4, <1>5, <1>6, <1>7, <1>8, <1>9, <1>10 DEF Pipeline!Next

LEMMA StagesAccountedPreserved ==
  ASSUME PipelineBase, StagesAccounted, [Pipeline!Next]_(Pipeline!vars)
  PROVE  StagesAccounted'
<1>0. PipelineType /\ RequestsFit /\ InsertsAreFresh
  BY DEF PipelineBase
<1> SUFFICES ASSUME Pipeline!Next, deal_outages' = 0, NEW d \in Deals, deal_table'[d] # None
             PROVE  /\ Accounted(d, deal_table[d].stage)'
                    /\ \A r \in Requests : deal_req'[r].at = "update" /\ deal_req'[r].deal = d =>
                         Accounted(d, deal_req[r].from)'
  <2>1. ASSUME UNCHANGED Pipeline!vars PROVE StagesAccounted'
    BY <2>1 DEF Pipeline!vars, StagesAccounted, Accounted
  <2>2. QED
    BY <2>1 DEF StagesAccounted
<1>1. deal_outages = 0 /\ (Pipeline!Outage => FALSE)
  <2>1. Pipeline!Outage => FALSE
    BY <1>0 DEF Pipeline!Outage, PipelineType
  <2>2. UNCHANGED deal_outages
    BY <2>1 DEF Pipeline!NoOutage, Pipeline!Next, Pipeline!BeginAdd, Pipeline!Remove,
       Pipeline!BeginMove, Pipeline!Insert, Pipeline!UpdateRow, Pipeline!RecordTransition,
       Pipeline!Restart
  <2>3. QED
    BY <2>1, <2>2
<1>2. \A stage : deal_table[d] # None /\ Accounted(d, stage) => Accounted(d, stage)'
  BY AccountsKept
<1>3. deal_table[d] # None =>
        /\ Accounted(d, deal_table[d].stage)
        /\ \A r \in Requests : deal_req[r].at = "update" /\ deal_req[r].deal = d =>
             Accounted(d, deal_req[r].from)
  BY <1>1 DEF StagesAccounted
\* The deal is as it was, and so are those who read its stage.
<1>4. ASSUME deal_table'[d] = deal_table[d],
             \A r \in Requests : deal_req'[r].at = "update" /\ deal_req'[r].deal = d =>
               deal_req[r].at = "update" /\ deal_req[r].deal = d
               /\ deal_req'[r].from = deal_req[r].from
      PROVE  /\ Accounted(d, deal_table[d].stage)'
             /\ \A r \in Requests : deal_req'[r].at = "update" /\ deal_req'[r].deal = d =>
                  Accounted(d, deal_req[r].from)'
  BY <1>2, <1>3, <1>4
<1>5. ASSUME NEW r \in Requests, NEW u \in DealUsers, NEW o \in Opps,
             Pipeline!BeginAdd(r, u, o)
      PROVE  /\ Accounted(d, deal_table[d].stage)'
             /\ \A q \in Requests : deal_req'[q].at = "update" /\ deal_req'[q].deal = d =>
                  Accounted(d, deal_req[q].from)'
  <2>1. PICK e \in Pipeline!Fresh :
          deal_req' = [deal_req EXCEPT ![r] = [at |-> "insert", user |-> u, deal |-> e,
                                               from |-> "discovery", to |-> o]]
    BY <1>5 DEF Pipeline!BeginAdd
  <2>2. UNCHANGED deal_table
    BY <1>5 DEF Pipeline!BeginAdd
  <2>3. deal_req'[r].at = "insert" /\ \A q \in Requests \ {r} : deal_req'[q] = deal_req[q]
    BY <1>0, <2>1 DEF PipelineType
  <2>4. QED
    BY <1>4, <2>2, <2>3
<1>6. ASSUME NEW u \in DealUsers, NEW e \in Deals, Pipeline!Remove(u, e)
      PROVE  /\ Accounted(d, deal_table[d].stage)'
             /\ \A q \in Requests : deal_req'[q].at = "update" /\ deal_req'[q].deal = d =>
                  Accounted(d, deal_req[q].from)'
  <2>1. UNCHANGED deal_req
    BY <1>6 DEF Pipeline!Remove
  <2>2. UNCHANGED deal_table \/ deal_table' = [deal_table EXCEPT ![e] = None]
    BY <1>6 DEF Pipeline!Remove, Pipeline!DeleteRow
  <2>3. deal_table'[d] = deal_table[d]
    BY <1>0, <2>2 DEF PipelineType
  <2>4. QED
    BY <1>4, <2>1, <2>3
<1>7. ASSUME NEW r \in Requests, NEW u \in DealUsers, NEW e \in Deals,
             NEW to \in Pipeline!Stages, Pipeline!BeginMove(r, u, e, to)
      PROVE  /\ Accounted(d, deal_table[d].stage)'
             /\ \A q \in Requests : deal_req'[q].at = "update" /\ deal_req'[q].deal = d =>
                  Accounted(d, deal_req[q].from)'
  <2>1. UNCHANGED deal_table
    BY <1>7 DEF Pipeline!BeginMove
  <2>2. CASE UNCHANGED deal_req
    BY <1>4, <2>1, <2>2
  <2>3. CASE deal_req' = [deal_req EXCEPT ![r] = [at |-> "update", user |-> u, deal |-> e,
                                           from |-> deal_table[e].stage, to |-> to]]
    <3>1. /\ deal_req'[r].deal = e /\ deal_req'[r].from = deal_table[e].stage
          /\ \A q \in Requests \ {r} : deal_req'[q] = deal_req[q]
      BY <1>0, <2>3 DEF PipelineType
    <3>2. Accounted(d, deal_table[d].stage)'
      BY <1>2, <1>3, <2>1
    <3>3. QED
      BY <1>2, <1>3, <2>1, <3>1, <3>2
  <2>4. QED
    BY <1>7, <2>2, <2>3 DEF Pipeline!BeginMove
<1>8. ASSUME NEW r \in Requests, Pipeline!Insert(r)
      PROVE  /\ Accounted(d, deal_table[d].stage)'
             /\ \A q \in Requests : deal_req'[q].at = "update" /\ deal_req'[q].deal = d =>
                  Accounted(d, deal_req[q].from)'
  <2> DEFINE e == deal_req[r].deal
             new == [owner |-> deal_req[r].user, opp |-> deal_req[r].to, stage |-> "discovery"]
  <2>1. /\ deal_req[r].at = "insert" /\ e \in Deals
        /\ deal_req' = [deal_req EXCEPT ![r] = Pipeline!Idle]
        /\ deal_table' = [deal_table EXCEPT ![e] = new]
    BY <1>0, <1>1, <1>8 DEF Pipeline!Insert, RequestsFit
  <2>2. \A q \in Requests : deal_req'[q].at = "update" =>
          /\ deal_req[q].at = "update" /\ deal_req'[q] = deal_req[q] /\ deal_req[q].deal # e
    BY <1>0, <2>1 DEF PipelineType, InsertsAreFresh, Pipeline!Idle
  <2>3. CASE d = e
    <3>1. deal_table'[d].stage = "discovery"
      BY <1>0, <2>1, <2>3 DEF PipelineType
    <3>2. QED
      BY <2>2, <2>3, <3>1 DEF Accounted
  <2>4. CASE d # e
    <3>1. deal_table'[d] = deal_table[d]
      BY <1>0, <2>1, <2>4 DEF PipelineType
    <3>2. QED
      BY <1>4, <2>2, <3>1
  <2>5. QED
    BY <2>3, <2>4
<1>9. ASSUME NEW r \in Requests, Pipeline!UpdateRow(r)
      PROVE  /\ Accounted(d, deal_table[d].stage)'
             /\ \A q \in Requests : deal_req'[q].at = "update" /\ deal_req'[q].deal = d =>
                  Accounted(d, deal_req[q].from)'
  <2> DEFINE t == deal_req[r]
             j == IF Pipeline!IsMove(t.from, t.to) THEN [t EXCEPT !.at = "record"]
                  ELSE Pipeline!Idle
  <2>1. t.at = "update" /\ t \in RequestRecord /\ t.deal \in Deals
    BY <1>0, <1>9 DEF Pipeline!UpdateRow, PipelineType, RequestsFit
  <2>2. \/ deal_req' = [deal_req EXCEPT ![r] = Pipeline!Idle] /\ UNCHANGED deal_table
        \/ /\ deal_req' = [deal_req EXCEPT ![r] = j]
           /\ deal_table' = [deal_table EXCEPT ![t.deal].stage = t.to]
           /\ Pipeline!OwnRow(t.user, t.deal)
    BY <1>9 DEF Pipeline!UpdateRow
  <2>3. Pipeline!Idle.at = "idle" /\ [t EXCEPT !.at = "record"].at = "record"
        /\ [t EXCEPT !.at = "record"].deal = t.deal /\ [t EXCEPT !.at = "record"].to = t.to
    BY <2>1 DEF Pipeline!Idle, RequestRecord
  <2>4. /\ \A q \in Requests \ {r} : deal_req'[q] = deal_req[q]
        /\ deal_req'[r].at # "update"
    BY <1>0, <2>2, <2>3 DEF PipelineType
  <2>5. CASE deal_table'[d] = deal_table[d]
    BY <1>4, <2>4, <2>5
  <2>6. CASE deal_table'[d] # deal_table[d]
    <3>1. /\ d = t.deal /\ deal_req' = [deal_req EXCEPT ![r] = j]
          /\ Pipeline!OwnRow(t.user, t.deal)
          /\ deal_table' = [deal_table EXCEPT ![t.deal].stage = t.to]
      BY <1>0, <2>1, <2>2, <2>6 DEF PipelineType
    <3>2. deal_table[d] # None /\ deal_table[d] \in Pipeline!Deal
      BY <1>0, <3>1 DEF Pipeline!OwnRow, PipelineType
    <3>3. deal_table'[d].stage = t.to
      <4> HIDE DEF t
      <4>1. [deal_table[d] EXCEPT !.stage = t.to].stage = t.to
        BY <3>2 DEF Pipeline!Deal
      <4>2. QED
        BY <1>0, <3>1, <4>1 DEF PipelineType
    <3>4. Accounted(d, deal_table[d].stage)'
      <4>1. CASE Pipeline!IsMove(t.from, t.to)
        <5>1. deal_req'[r] = [t EXCEPT !.at = "record"]
          BY <1>0, <3>1, <4>1 DEF PipelineType
        <5>2. QED
          BY <2>3, <3>1, <3>3, <5>1 DEF Accounted
      <4>2. CASE ~ Pipeline!IsMove(t.from, t.to)
        <5>1. t.from = t.to
          BY <4>2 DEF Pipeline!IsMove
        <5>2. PICK from : from = t.from
          OBVIOUS
        <5>3. Accounted(d, from)'
          BY <1>2, <1>3, <2>1, <3>1, <3>2, <5>2
        <5>4. deal_table'[d].stage = from
          BY <3>3, <5>1, <5>2
        <5>5. QED
          BY <5>3, <5>4
      <4>3. QED
        BY <4>1, <4>2
    <3>5. QED
      BY <1>2, <1>3, <2>4, <3>2, <3>4
  <2>7. QED
    BY <2>5, <2>6
<1>10. ASSUME NEW r \in Requests, Pipeline!RecordTransition(r)
      PROVE  /\ Accounted(d, deal_table[d].stage)'
             /\ \A q \in Requests : deal_req'[q].at = "update" /\ deal_req'[q].deal = d =>
                  Accounted(d, deal_req[q].from)'
  <2>1. UNCHANGED deal_table /\ deal_req' = [deal_req EXCEPT ![r] = Pipeline!Idle]
    BY <1>10 DEF Pipeline!RecordTransition
  <2>2. \A q \in Requests : deal_req'[q].at = "update" => deal_req'[q] = deal_req[q]
    BY <1>0, <2>1 DEF PipelineType, Pipeline!Idle
  <2>3. QED
    BY <1>4, <2>1, <2>2
<1>11. Pipeline!Restart => FALSE
  BY <1>1 DEF Pipeline!Restart
<1>12. QED
  BY <1>5, <1>6, <1>7, <1>8, <1>9, <1>10, <1>11 DEF Pipeline!Next

\* The history leads to the stage of every deal, however moves overlapped.
THEOREM HistoryAccountsForStage == Pipeline!Spec => []Pipeline!HistoryAccountsForStage
<1>1. StagesAccounted => Pipeline!HistoryAccountsForStage
  BY DEF StagesAccounted, Accounted, Pipeline!HistoryAccountsForStage
<1>2. QED
  BY <1>1, PipelineBaseInitial, PipelineBasePreserved, StagesAccountedInitial,
     StagesAccountedPreserved, PTL DEF Pipeline!Spec

\* The deals that keep a lead for a user, in either store.
Kept(u, o) == Pipeline!Saved(deal_table, u, o) \cup Pipeline!Saved(deal_memory, u, o)

\* A copy kept, or about to be, was paid for by an overlap or a failure.
CopiesPaidFor ==
  /\ deal_doubles \in Nat
  /\ \A u \in DealUsers, o \in Opps :
       Cardinality(Kept(u, o)) + Cardinality(Pipeline!Adding(u, o)) <=
         1 + deal_doubles + deal_outages

LEMMA PipelineFinite ==
  ASSUME PipelineAssumption, NEW u, NEW o
  PROVE  /\ IsFiniteSet(Kept(u, o)) /\ Cardinality(Kept(u, o)) \in Nat
         /\ IsFiniteSet(Pipeline!Adding(u, o)) /\ Cardinality(Pipeline!Adding(u, o)) \in Nat
         /\ IsFiniteSet(Kept(u, o)') /\ Cardinality(Kept(u, o)') \in Nat
         /\ IsFiniteSet(Pipeline!Adding(u, o)') /\ Cardinality(Pipeline!Adding(u, o)') \in Nat
<1>1. Kept(u, o) \subseteq Deals /\ Kept(u, o)' \subseteq Deals
  BY DEF Kept, Pipeline!Saved
<1>2. Pipeline!Adding(u, o) \subseteq Requests /\ Pipeline!Adding(u, o)' \subseteq Requests
  BY DEF Pipeline!Adding
<1>3. QED
  BY <1>1, <1>2, FS_Subset, FS_CardinalityType DEF PipelineAssumption

LEMMA CopiesPaidForInitial ==
  ASSUME Pipeline!Init
  PROVE  CopiesPaidFor
<1>1. ASSUME NEW u, NEW o PROVE Kept(u, o) = {} /\ Pipeline!Adding(u, o) = {}
  BY DEF Pipeline!Init, Kept, Pipeline!Saved, Pipeline!Adding, Pipeline!Idle
<1>2. Cardinality({}) = 0
  BY FS_EmptySet
<1>3. \A u, o : Cardinality(Kept(u, o)) = 0 /\ Cardinality(Pipeline!Adding(u, o)) = 0
  BY <1>1, <1>2
<1>4. deal_doubles = 0 /\ deal_outages = 0
  BY DEF Pipeline!Init
<1>5. QED
  BY <1>3, <1>4 DEF CopiesPaidFor

LEMMA PipelineCounts == \A S : Pipeline!Cardinality(S) = Cardinality(S)
  BY Zenon DEF Pipeline!Cardinality, Cardinality

\* Where no copy is added to those that are paid for, they stay paid for.
LEMMA CopiesKept ==
  ASSUME PipelineAssumption, PipelineBase, CopiesPaidFor, NEW u \in DealUsers, NEW o \in Opps,
         Kept(u, o)' \subseteq Kept(u, o), Pipeline!Adding(u, o)' \subseteq Pipeline!Adding(u, o),
         deal_doubles' \in Nat, deal_doubles' >= deal_doubles,
         deal_outages' \in Nat, deal_outages' >= deal_outages
  PROVE  Cardinality(Kept(u, o)') + Cardinality(Pipeline!Adding(u, o)') <=
           1 + deal_doubles' + deal_outages'
<1>1. /\ Cardinality(Kept(u, o)') <= Cardinality(Kept(u, o))
      /\ Cardinality(Pipeline!Adding(u, o)') <= Cardinality(Pipeline!Adding(u, o))
  BY PipelineFinite, FS_Subset
<1>2. /\ Cardinality(Kept(u, o)) + Cardinality(Pipeline!Adding(u, o)) <=
           1 + deal_doubles + deal_outages
      /\ deal_doubles \in Nat /\ deal_outages \in Nat
  BY DEF CopiesPaidFor, PipelineBase, PipelineType
<1>3. QED
  BY <1>1, <1>2, PipelineFinite

LEMMA CopiesPaidForPreserved ==
  ASSUME PipelineAssumption, PipelineBase, CopiesPaidFor, [Pipeline!Next]_(Pipeline!vars)
  PROVE  CopiesPaidFor'
<1>0. PipelineType /\ RequestsFit /\ InsertsAreFresh
  BY DEF PipelineBase
<1>1. deal_doubles \in Nat /\ deal_outages \in Nat
  BY <1>0 DEF PipelineType, CopiesPaidFor
<1>2. /\ Pipeline!Outage => deal_outages' = deal_outages + 1
      /\ Pipeline!NoOutage => deal_outages' = deal_outages
  BY DEF Pipeline!Outage, Pipeline!NoOutage
<1>3. ASSUME \A u \in DealUsers, o \in Opps :
               Kept(u, o)' \subseteq Kept(u, o) /\ Pipeline!Adding(u, o)' \subseteq Pipeline!Adding(u, o),
             UNCHANGED deal_doubles, deal_outages' \in {deal_outages, deal_outages + 1}
      PROVE  CopiesPaidFor'
  BY <1>1, <1>3, CopiesKept DEF CopiesPaidFor
\* Deals that are removed, or moved, and requests that add nothing.
<1>4. ASSUME \A d \in Deals :
               /\ \/ deal_table'[d] \in {None, deal_table[d]}
                  \/ /\ deal_table[d] # None /\ deal_table'[d].owner = deal_table[d].owner
                     /\ deal_table'[d].opp = deal_table[d].opp
               /\ \/ deal_memory'[d] \in {None, deal_memory[d]}
                  \/ /\ deal_memory[d] # None /\ deal_memory'[d].owner = deal_memory[d].owner
                     /\ deal_memory'[d].opp = deal_memory[d].opp,
             \A r \in Requests : deal_req'[r].at = "insert" => deal_req'[r] = deal_req[r],
             UNCHANGED deal_doubles, deal_outages' \in {deal_outages, deal_outages + 1}
      PROVE  CopiesPaidFor'
  <2>1. ASSUME NEW u, NEW o PROVE Kept(u, o)' \subseteq Kept(u, o)
    BY <1>4 DEF Kept, Pipeline!Saved
  <2>2. ASSUME NEW u, NEW o PROVE Pipeline!Adding(u, o)' \subseteq Pipeline!Adding(u, o)
    BY <1>4 DEF Pipeline!Adding
  <2>3. QED
    BY <1>3, <1>4, <2>1, <2>2
<1>5. ASSUME NEW r \in Requests, NEW u \in DealUsers, NEW o \in Opps,
             Pipeline!BeginAdd(r, u, o)
      PROVE  CopiesPaidFor'
  <2>1. PICK d \in Pipeline!Fresh :
          deal_req' = [deal_req EXCEPT ![r] = [at |-> "insert", user |-> u, deal |-> d,
                                               from |-> "discovery", to |-> o]]
    BY <1>5 DEF Pipeline!BeginAdd
  <2> DEFINE A == Pipeline!Adding(u, o)
             K == Kept(u, o)
  <2>2. /\ deal_req[r].at = "idle" /\ UNCHANGED <<deal_table, deal_memory>>
        /\ deal_doubles' = deal_doubles + Cardinality(A)
        /\ Pipeline!Saved(deal_memory, u, o) = {}
        /\ \/ Pipeline!Saved(deal_table, u, o) = {} /\ deal_outages' = deal_outages
           \/ deal_outages' = deal_outages + 1
    BY <1>2, <1>5, PipelineCounts DEF Pipeline!BeginAdd, Pipeline!FoundInTable
  <2>3. /\ deal_req'[r].at = "insert" /\ deal_req'[r].user = u /\ deal_req'[r].to = o
        /\ \A q \in Requests \ {r} : deal_req'[q] = deal_req[q]
    BY <1>0, <2>1 DEF PipelineType
  <2>4. A' = A \cup {r} /\ r \notin A
    BY <2>2, <2>3 DEF Pipeline!Adding
  <2>5. \A v, p : Kept(v, p)' = Kept(v, p)
    BY <2>2 DEF Kept
  <2>6. \A v, p : v # u \/ p # o => Pipeline!Adding(v, p)' \subseteq Pipeline!Adding(v, p)
    BY <2>2, <2>3 DEF Pipeline!Adding
  <2>7. Cardinality(A') = Cardinality(A) + 1 /\ Cardinality(A) \in Nat /\ Cardinality(K) \in Nat
    BY <2>4, PipelineFinite, FS_AddElement
  <2>8. deal_doubles' \in Nat /\ deal_doubles' >= deal_doubles
        /\ deal_outages' \in Nat /\ deal_outages' >= deal_outages
    BY <1>1, <2>2, <2>7
  <2>9. Cardinality(K) + Cardinality(A) <= 1 + deal_doubles + deal_outages
    BY DEF CopiesPaidFor
  <2>10. deal_outages' = deal_outages => Cardinality(K) = 0
    BY <1>1, <2>2, FS_EmptySet DEF Kept
  <2>11. K' = K
    BY <2>5
  <2> HIDE DEF A, K
  <2>12. Cardinality(K') + Cardinality(A') <= 1 + deal_doubles' + deal_outages'
    BY <1>1, <2>2, <2>7, <2>9, <2>10, <2>11
  <2>13. ASSUME NEW v \in DealUsers, NEW p \in Opps
         PROVE  Cardinality(Kept(v, p)') + Cardinality(Pipeline!Adding(v, p)') <=
                  1 + deal_doubles' + deal_outages'
    <3>1. CASE v = u /\ p = o
      BY <2>12, <3>1 DEF A, K
    <3>2. CASE v # u \/ p # o
      BY <2>5, <2>6, <2>8, <3>2, CopiesKept
    <3>3. QED
      BY <3>1, <3>2
  <2>14. QED
    BY <2>8, <2>13 DEF CopiesPaidFor
<1>6. ASSUME NEW r \in Requests, Pipeline!Insert(r)
      PROVE  CopiesPaidFor'
  <2> DEFINE t == deal_req[r]
             new == [owner |-> t.user, opp |-> t.to, stage |-> "discovery"]
  <2>1. /\ t.at = "insert" /\ t.deal \in Deals /\ t.user \in DealUsers /\ t.to \in Opps
        /\ deal_req' = [deal_req EXCEPT ![r] = Pipeline!Idle] /\ UNCHANGED deal_doubles
        /\ deal_outages' \in {deal_outages, deal_outages + 1}
        /\ deal_table' \in {deal_table, [deal_table EXCEPT ![t.deal] = new]}
        /\ deal_memory' \in {deal_memory, [deal_memory EXCEPT ![t.deal] = new]}
    BY <1>0, <1>2, <1>6 DEF Pipeline!Insert, RequestsFit
  <2>2. deal_req'[r].at = "idle" /\ \A q \in Requests \ {r} : deal_req'[q] = deal_req[q]
    BY <1>0, <2>1 DEF PipelineType, Pipeline!Idle
  <2>3. deal_table[t.deal] = None /\ deal_memory[t.deal] = None
    BY <1>0, <2>1 DEF InsertsAreFresh
  <2>4. new.owner = t.user /\ new.opp = t.to
    OBVIOUS
  <2> HIDE DEF new
  <2>5. \A d \in Deals :
          /\ deal_table'[d] = deal_table[d] \/ (d = t.deal /\ deal_table'[d] = new)
          /\ deal_memory'[d] = deal_memory[d] \/ (d = t.deal /\ deal_memory'[d] = new)
    BY <1>0, <2>1 DEF PipelineType
  <2> DEFINE A == Pipeline!Adding(t.user, t.to)
             K == Kept(t.user, t.to)
  <2>6. PICK u \in DealUsers, o \in Opps, d \in Deals : u = t.user /\ o = t.to /\ d = t.deal
    BY <2>1
  <2>7. Kept(u, o)' \subseteq Kept(u, o) \cup {d}
    BY <2>4, <2>5, <2>6 DEF Kept, Pipeline!Saved
  <2>8. /\ Pipeline!Adding(u, o)' = Pipeline!Adding(u, o) \ {r} /\ r \in Pipeline!Adding(u, o)
    BY <2>1, <2>2, <2>6 DEF Pipeline!Adding
  <2>9. Cardinality(Kept(u, o)') <= Cardinality(Kept(u, o)) + 1
    <3>1. /\ IsFiniteSet(Kept(u, o) \cup {d})
          /\ Cardinality(Kept(u, o) \cup {d}) \in {Cardinality(Kept(u, o)), Cardinality(Kept(u, o)) + 1}
      BY PipelineFinite, FS_AddElement
    <3>2. Cardinality(Kept(u, o)') <= Cardinality(Kept(u, o) \cup {d})
      BY <2>7, <3>1, FS_Subset
    <3>3. QED
      BY <3>1, <3>2, PipelineFinite
  <2>10. Cardinality(Pipeline!Adding(u, o)') = Cardinality(Pipeline!Adding(u, o)) - 1
    BY <2>8, PipelineFinite, FS_RemoveElement
  <2>11. Cardinality(Kept(u, o)) + Cardinality(Pipeline!Adding(u, o)) <=
           1 + deal_doubles + deal_outages
    BY DEF CopiesPaidFor
  <2>12. Cardinality(Kept(u, o)') + Cardinality(Pipeline!Adding(u, o)') <=
           1 + deal_doubles' + deal_outages'
    BY <1>1, <2>1, <2>9, <2>10, <2>11, PipelineFinite
  <2>13. ASSUME NEW v \in DealUsers, NEW p \in Opps, v # u \/ p # o
         PROVE  /\ Kept(v, p)' \subseteq Kept(v, p)
                /\ Pipeline!Adding(v, p)' \subseteq Pipeline!Adding(v, p)
    BY <2>2, <2>4, <2>5, <2>6, <2>13 DEF Kept, Pipeline!Saved, Pipeline!Adding
  <2>14. ASSUME NEW v \in DealUsers, NEW p \in Opps
         PROVE  Cardinality(Kept(v, p)') + Cardinality(Pipeline!Adding(v, p)') <=
                  1 + deal_doubles' + deal_outages'
    <3>1. CASE v = u /\ p = o
      BY <2>12, <3>1
    <3>2. CASE v # u \/ p # o
      BY <1>1, <2>1, <2>13, <3>2, CopiesKept
    <3>3. QED
      BY <3>1, <3>2
  <2>15. QED
    BY <1>1, <2>1, <2>14 DEF CopiesPaidFor
<1>7. ASSUME NEW u \in DealUsers, NEW d \in Deals, Pipeline!Remove(u, d)
      PROVE  CopiesPaidFor'
  <2>1. /\ deal_memory' = [deal_memory EXCEPT ![d] =
                            IF Pipeline!OwnEntry(u, d) THEN None ELSE @]
        /\ UNCHANGED <<deal_req, deal_doubles>>
        /\ deal_outages' \in {deal_outages, deal_outages + 1}
        /\ UNCHANGED deal_table \/ deal_table' = [deal_table EXCEPT ![d] = None]
    BY <1>2, <1>7 DEF Pipeline!Remove, Pipeline!DeleteRow
  <2>2. \A e \in Deals : /\ deal_table'[e] \in {None, deal_table[e]}
                         /\ deal_memory'[e] \in {None, deal_memory[e]}
    BY <1>0, <2>1 DEF PipelineType
  <2>3. QED
    BY <1>4, <2>1, <2>2
<1>8. ASSUME NEW r \in Requests, NEW u \in DealUsers, NEW d \in Deals,
             NEW to \in Pipeline!Stages, Pipeline!BeginMove(r, u, d, to)
      PROVE  CopiesPaidFor'
  <2>1. UNCHANGED <<deal_table, deal_doubles>>
        /\ deal_outages' \in {deal_outages, deal_outages + 1}
    BY <1>2, <1>8 DEF Pipeline!BeginMove
  <2>2. \A e \in Deals :
          \/ deal_memory'[e] = deal_memory[e]
          \/ /\ deal_memory[e] # None /\ deal_memory'[e].owner = deal_memory[e].owner
             /\ deal_memory'[e].opp = deal_memory[e].opp
    BY <1>8, EntryMoved DEF Pipeline!BeginMove
  <2>3. \A q \in Requests : deal_req'[q].at = "insert" => deal_req'[q] = deal_req[q]
    <3>1. CASE UNCHANGED deal_req
      BY <3>1
    <3>2. CASE deal_req' = [deal_req EXCEPT ![r] = [at |-> "update", user |-> u, deal |-> d,
                                             from |-> deal_table[d].stage, to |-> to]]
      BY <1>0, <3>2 DEF PipelineType
    <3>3. QED
      BY <1>8, <3>1, <3>2 DEF Pipeline!BeginMove
  <2>4. QED
    BY <1>4, <2>1, <2>2, <2>3
<1>9. ASSUME NEW r \in Requests, Pipeline!UpdateRow(r)
      PROVE  CopiesPaidFor'
  <2> DEFINE t == deal_req[r]
  <2>1. /\ t \in RequestRecord /\ t.deal \in Deals /\ t.user \in DealUsers
        /\ t.to \in Pipeline!Stages /\ t.at = "update" /\ UNCHANGED deal_doubles
        /\ deal_outages' \in {deal_outages, deal_outages + 1}
    BY <1>0, <1>2, <1>9 DEF Pipeline!UpdateRow, PipelineType, RequestsFit
  <2>2. [t EXCEPT !.at = "record"].at = "record" /\ Pipeline!Idle.at = "idle"
    BY <2>1 DEF RequestRecord, Pipeline!Idle
  <2>3. \A q \in Requests : deal_req'[q].at = "insert" => deal_req'[q] = deal_req[q]
    BY <1>0, <1>9, <2>2 DEF Pipeline!UpdateRow, PipelineType
  <2>4. \A e \in Deals :
          /\ \/ deal_memory'[e] = deal_memory[e]
             \/ /\ deal_memory[e] # None /\ deal_memory'[e].owner = deal_memory[e].owner
                /\ deal_memory'[e].opp = deal_memory[e].opp
    BY <1>9, <2>1, EntryMoved DEF Pipeline!UpdateRow
  <2>5. \A e \in Deals :
          \/ deal_table'[e] = deal_table[e]
          \/ /\ deal_table[e] # None /\ deal_table'[e].owner = deal_table[e].owner
             /\ deal_table'[e].opp = deal_table[e].opp
    <3>1. CASE UNCHANGED deal_table
      BY <3>1
    <3>2. CASE /\ deal_table' = [deal_table EXCEPT ![t.deal].stage = t.to]
               /\ Pipeline!OwnRow(t.user, t.deal)
      <4>1. deal_table[t.deal] \in Pipeline!Deal /\ deal_table[t.deal] # None
        BY <1>0, <2>1, <3>2 DEF PipelineType, Pipeline!OwnRow
      <4> DEFINE row == deal_table[t.deal]
                 moved == [row EXCEPT !.stage = t.to]
      <4>2. deal_table' = [deal_table EXCEPT ![t.deal] = moved]
        BY <3>2
      <4> HIDE DEF row, t
      <4>3. moved.owner = row.owner /\ moved.opp = row.opp
        BY <4>1 DEF Pipeline!Deal, row
      <4> HIDE DEF moved
      <4>4. QED
        BY <1>0, <4>1, <4>2, <4>3 DEF PipelineType, row
    <3>3. QED
      BY <1>9, <3>1, <3>2 DEF Pipeline!UpdateRow
  <2>6. QED
    BY <1>4, <2>1, <2>3, <2>4, <2>5
<1>10. ASSUME NEW r \in Requests, Pipeline!RecordTransition(r)
      PROVE  CopiesPaidFor'
  <2>1. /\ UNCHANGED <<deal_table, deal_memory, deal_doubles>>
        /\ deal_req' = [deal_req EXCEPT ![r] = Pipeline!Idle]
        /\ deal_outages' \in {deal_outages, deal_outages + 1}
    BY <1>2, <1>10 DEF Pipeline!RecordTransition
  <2>2. \A q \in Requests : deal_req'[q].at = "insert" => deal_req'[q] = deal_req[q]
    BY <1>0, <2>1 DEF PipelineType, Pipeline!Idle
  <2>3. QED
    BY <1>4, <2>1, <2>2
<1>11. CASE Pipeline!Restart
  <2>1. /\ \A d \in Deals : deal_memory'[d] = None
        /\ \A r \in Requests : deal_req'[r].at = "idle"
        /\ deal_outages' = deal_outages + 1 /\ UNCHANGED <<deal_table, deal_doubles>>
    BY <1>2, <1>11 DEF Pipeline!Restart, Pipeline!Idle
  <2>2. QED
    BY <1>4, <2>1
<1>12. CASE UNCHANGED Pipeline!vars
  <2>1. UNCHANGED <<deal_table, deal_memory, deal_req, deal_doubles, deal_outages>>
    BY <1>12 DEF Pipeline!vars
  <2>2. QED
    BY <1>4, <2>1
<1>13. QED
  BY <1>5, <1>6, <1>7, <1>8, <1>9, <1>10, <1>11, <1>12 DEF Pipeline!Next

\* A lead is kept twice only for adds that overlapped or calls that failed, each
\* of which explains one copy.
THEOREM CopiesNeedAReason ==
  ASSUME PipelineAssumption
  PROVE  Pipeline!Spec => []Pipeline!CopiesNeedAReason
<1>1. PipelineBase /\ CopiesPaidFor => Pipeline!CopiesNeedAReason
  <2> SUFFICES ASSUME PipelineBase, CopiesPaidFor, NEW u \in DealUsers, NEW o \in Opps
               PROVE  Cardinality(Kept(u, o)) <= 1 + deal_doubles + deal_outages
    BY PipelineCounts DEF Pipeline!CopiesNeedAReason, Kept
  <2>1. /\ Cardinality(Kept(u, o)) + Cardinality(Pipeline!Adding(u, o)) <=
             1 + deal_doubles + deal_outages
        /\ deal_doubles \in Nat /\ deal_outages \in Nat
    BY DEF CopiesPaidFor, PipelineBase, PipelineType
  <2>2. QED
    BY <2>1, PipelineFinite
<1>2. PipelineBase /\ CopiesPaidFor /\ [Pipeline!Next]_(Pipeline!vars) => CopiesPaidFor'
  BY CopiesPaidForPreserved
<1>3. QED
  BY <1>1, <1>2, PipelineBaseInitial, PipelineBasePreserved, CopiesPaidForInitial,
     PTL DEF Pipeline!Spec

\* Deals, requests and the stage history hold stages, users and ids there are.
THEOREM PipelineTypes == Pipeline!Spec => []Pipeline!TypeOK
<1>1. Pipeline!Init => PipelineBase
  BY PipelineBaseInitial
<1>2. PipelineBase /\ [Pipeline!Next]_(Pipeline!vars) => PipelineBase'
  BY PipelineBasePreserved
<1>3. PipelineBase => Pipeline!TypeOK
  BY DEF PipelineBase, PipelineType, RequestRecord, Pipeline!TypeOK
<1>4. QED
  BY <1>1, <1>2, <1>3, PTL DEF Pipeline!Spec

(***************************************************************************)
(* The billing.                                                            *)
(***************************************************************************)
\* What is missing is no account, no subscription and no date.
BillingAssumption == None \notin SubUsers /\ None \notin Subs /\ None \notin Nat

LEMMA UpdatedColumns ==
  ASSUME NEW row \in Billing!Columns, NEW e \in Billing!Messages
  PROVE  /\ Billing!Updated(row, e) \in Billing!Columns
         /\ Billing!Updated(row, e).status = e.status
         /\ Billing!Updated(row, e).sub = Billing!Coalesce(e.sub, row.sub)
         /\ Billing!Updated(row, e).period = Billing!Coalesce(e.period, row.period)
         /\ Billing!Updated(row, e).customer =
              Billing!Coalesce(IF e.kind = "deleted" THEN None ELSE e.customer, row.customer)
<1>1. DOMAIN row = {"status", "sub", "plan", "period", "customer"}
  BY DEF Billing!Columns
<1> DEFINE c == Billing!ColumnsOf(e)
<1>2. /\ c.status = e.status /\ c.sub = e.sub /\ c.period = e.period
      /\ c.plan = IF e.kind = "deleted" THEN None ELSE e.plan
      /\ c.customer = IF e.kind = "deleted" THEN None ELSE e.customer
  BY DEF Billing!ColumnsOf
<1> DEFINE new == Billing!Updated(row, e)
<1>3. /\ new = [column \in {"status", "sub", "plan", "period", "customer"} |->
           IF column = "status" THEN e.status ELSE Billing!Coalesce(c[column], row[column])]
  BY <1>1 DEF Billing!Updated
<1> HIDE DEF c
<1>4. /\ new["status"] = e.status
      /\ new["sub"] = Billing!Coalesce(c["sub"], row["sub"])
      /\ new["plan"] = Billing!Coalesce(c["plan"], row["plan"])
      /\ new["period"] = Billing!Coalesce(c["period"], row["period"])
      /\ new["customer"] = Billing!Coalesce(c["customer"], row["customer"])
  BY <1>3
<1>5. DOMAIN new = {"status", "sub", "plan", "period", "customer"}
  BY <1>3
<1>6. new = [status |-> new.status, sub |-> new.sub, plan |-> new.plan, period |-> new.period,
             customer |-> new.customer]
  BY <1>3
<1> HIDE DEF new
<1>7. QED
  BY <1>2, <1>4, <1>6 DEF Billing!Columns, Billing!Messages, Billing!Coalesce, Billing!Customers, new

StripeRecord ==
  [state: {"none"} \cup Billing!Statuses, user: SubUsers \cup {None}, period: Nat,
   customer: Subs \cup {None}, meta: BOOLEAN]

BillingType ==
  /\ sub_profile \in [SubUsers -> Billing!Columns]
  /\ sub_session \in [Subs -> {None} \cup [user: SubUsers, customer: Subs \cup {None}]]
  /\ sub_stripe \in [Subs -> StripeRecord]
  /\ sub_seq \in [Subs -> Nat]
  /\ sub_outbox \subseteq Billing!Messages
  /\ sub_hook \in [Hooks -> [event: {None} \cup Billing!Messages, user: SubUsers \cup {None}]]

Bought(s) == sub_stripe[s].user # None

\* A customer is the buyer's of the purchase it is named after.
CustomersFit ==
  /\ \A s \in Subs : sub_stripe[s].state = "none" <=> ~ Bought(s)
  /\ \A u \in SubUsers : sub_profile[u].customer # None =>
       sub_stripe[sub_profile[u].customer].user = u
  /\ \A s \in Subs : sub_session[s] # None /\ sub_session[s].customer # None =>
       sub_stripe[sub_session[s].customer].user = sub_session[s].user
  /\ \A s \in Subs : Bought(s) =>
       /\ sub_stripe[s].customer \in Subs
       /\ sub_stripe[sub_stripe[s].customer].user = sub_stripe[s].user

\* An event is about a subscription that was bought, and no two are alike.
EventsFit ==
  /\ \A f \in sub_outbox :
       /\ Bought(f.sub) /\ f.seq <= sub_seq[f.sub]
       /\ f.customer = sub_stripe[f.sub].customer
       /\ f.user \in {None, sub_stripe[f.sub].user}
       /\ f.kind = "completed" => f.user # None
  /\ \A f, g \in sub_outbox : f.sub = g.sub /\ f.seq = g.seq => f = g

InFlight(h) == sub_hook[h].event # None

\* What a request works on Stripe still has; it is its buyer's or nobody's, and
\* the oldest unless events were disordered.
HooksFit ==
  /\ \A g, h \in Hooks : InFlight(g) /\ g # h => sub_hook[g].event # sub_hook[h].event
  /\ \A h \in Hooks : InFlight(h) =>
       /\ sub_hook[h].event \in sub_outbox
       /\ sub_hook[h].user \in {None, sub_stripe[sub_hook[h].event.sub].user}
       /\ sub_hook[h].event.sub \notin sub_disorder =>
            \A f \in sub_outbox :
              f.sub = sub_hook[h].event.sub => f.seq >= sub_hook[h].event.seq

BillingBase == BillingType /\ CustomersFit /\ EventsFit /\ HooksFit

\* An account with this one subscription, of which nothing came amiss.
Undisturbed(s) ==
  /\ Bought(s) /\ Billing!BoughtBy(sub_stripe[s].user) = {s}
  /\ s \notin sub_disorder \cup sub_dropped

Waiting(s) == {f \in sub_outbox : f.sub = s}

\* Each column is there, or on its way.
ColumnsComing ==
  \A s \in Subs : Undisturbed(s) =>
    LET row == sub_profile[sub_stripe[s].user] IN
    /\ \/ \E f \in Waiting(s) : f.seq = sub_seq[s] /\ f.status = sub_stripe[s].state
       \/ Waiting(s) = {} /\ row.status = sub_stripe[s].state
    /\ \/ \E f \in Waiting(s) : /\ f.period = sub_stripe[s].period
                                /\ \A g \in Waiting(s) : g.seq > f.seq => g.period = None
       \/ /\ row.period = sub_stripe[s].period
          /\ \A g \in Waiting(s) : g.period = None
    /\ Waiting(s) # {} \/ row.sub = s
    /\ \/ \E f \in Waiting(s) : f.kind = "completed"
       \/ row.customer = sub_stripe[s].customer

\* A request about an undisturbed account found its buyer.
BuyersFound ==
  \A h \in Hooks : InFlight(h) =>
    LET s == sub_hook[h].event.sub IN
    Undisturbed(s) => sub_hook[h].user = sub_stripe[s].user

BillingInv == BillingBase /\ ColumnsComing /\ BuyersFound

LEMMA BillingInvInitial ==
  ASSUME BillingAssumption, Billing!Init
  PROVE  BillingInv
<1>1. \A s \in Subs : sub_stripe[s] = [state |-> "none", user |-> None, period |-> 0,
                                       customer |-> None, meta |-> TRUE]
  BY DEF Billing!Init
<1>2. \A s \in Subs : ~ Bought(s) /\ sub_stripe[s].state = "none"
  BY <1>1 DEF Bought
<1>3. Billing!NoColumns \in Billing!Columns /\ Billing!NoColumns.customer = None
  BY DEF Billing!NoColumns, Billing!Columns, Billing!Statuses, Billing!Customers
<1>4. /\ Billing!Idle \in [event: {None} \cup Billing!Messages, user: SubUsers \cup {None}]
      /\ Billing!Idle.event = None
  BY DEF Billing!Idle
<1>5. [state |-> "none", user |-> None, period |-> 0, customer |-> None, meta |-> TRUE]
        \in StripeRecord
  BY DEF StripeRecord
<1>6. BillingType
  BY <1>3, <1>4, <1>5 DEF Billing!Init, BillingType
<1>7. CustomersFit
  BY <1>2, <1>3 DEF Billing!Init, CustomersFit
<1>8. EventsFit
  BY DEF Billing!Init, EventsFit
<1>9. HooksFit /\ BuyersFound
  BY <1>4 DEF Billing!Init, HooksFit, BuyersFound, InFlight
<1>10. ColumnsComing
  BY <1>2 DEF ColumnsComing, Undisturbed
<1>11. QED
  BY <1>6, <1>7, <1>8, <1>9, <1>10 DEF BillingInv, BillingBase

\* With nothing waiting, a column that is not on its way is there.
LEMMA BillingAnswers ==
  ASSUME BillingAssumption, BillingInv
  PROVE  Billing!MirrorsStripe
<1> SUFFICES ASSUME sub_outbox = {}, NEW u \in SubUsers, NEW s \in Subs,
                    Billing!BoughtBy(u) = {s}, s \notin sub_disorder \cup sub_dropped
             PROVE  Billing!Mirrored(u, s)
  BY DEF Billing!MirrorsStripe, Billing!Quiet
<1>1. sub_stripe[s].user = u
  BY DEF Billing!BoughtBy
<1>2. Undisturbed(s) /\ Waiting(s) = {}
  BY <1>1 DEF Undisturbed, Waiting, Bought, BillingAssumption
<1>3. QED
  BY <1>1, <1>2 DEF BillingInv, ColumnsComing, Billing!Mirrored

\* What an event says is what Stripe has on record.
LEMMA EventFields ==
  ASSUME BillingAssumption, NEW s \in Subs, NEW kind \in {"completed", "created", "updated", "deleted"},
         NEW n \in Nat, sub_stripe'[s] \in StripeRecord,
         sub_stripe'[s].state \in Billing!Statuses,
         sub_stripe'[s].user \in SubUsers, sub_stripe'[s].customer \in Subs
  PROVE  LET e == Billing!Event(s, kind, n) IN
         /\ e \in Billing!Messages /\ e.kind = kind /\ e.sub = s /\ e.seq = n
         /\ e.customer = sub_stripe'[s].customer
         /\ e.user \in {None, sub_stripe'[s].user}
         /\ kind = "completed" => e.user = sub_stripe'[s].user
         /\ e.status = IF kind = "completed" THEN "active"
                       ELSE IF kind = "deleted" THEN "canceled" ELSE sub_stripe'[s].state
         /\ e.period = IF kind = "completed" THEN None ELSE sub_stripe'[s].period
<1> DEFINE e == Billing!Event(s, kind, n)
           t == sub_stripe'[s]
           status == IF kind = "completed" THEN "active"
                     ELSE IF kind = "deleted" THEN "canceled" ELSE t.state
           user == IF kind = "completed" \/ t.meta THEN t.user ELSE None
           plan == IF kind = "completed" \/ t.meta THEN s ELSE None
           period == IF kind = "completed" THEN None ELSE t.period
<1>1. e = [kind |-> kind, sub |-> s, seq |-> n, customer |-> t.customer, user |-> user,
           plan |-> plan, status |-> status, period |-> period]
  BY DEF Billing!Event
<1>2. status \in Billing!Statuses /\ t.period \in Nat
  BY DEF Billing!Statuses, StripeRecord
<1>3. user \in SubUsers \cup {None} /\ plan \in Subs \cup {None} /\ period \in Nat \cup {None}
      /\ user \in {None, t.user} /\ (kind = "completed" => user = t.user)
  BY <1>2
<1> HIDE DEF status, user, plan, period, e
<1>4. /\ e \in Billing!Messages /\ e.kind = kind /\ e.sub = s /\ e.seq = n
      /\ e.customer = t.customer /\ e.user = user /\ e.status = status /\ e.period = period
  BY <1>1, <1>2, <1>3 DEF Billing!Messages, Billing!Customers
<1>5. QED
  BY <1>3, <1>4 DEF e, status, period

\* A renewal, a failed payment, a cancellation: an event follows that tells all.
LEMMA ChangeKeepsBilling ==
  ASSUME BillingAssumption, BillingInv, NEW s \in Subs, NEW state \in Billing!Statuses,
         NEW period \in Nat, NEW kind \in {"updated", "deleted"},
         kind = "deleted" => state = "canceled",
         Billing!Change(s, state, period, kind)
  PROVE  BillingInv'
<1>0. BillingType /\ CustomersFit /\ EventsFit /\ HooksFit /\ ColumnsComing /\ BuyersFound
  BY DEF BillingInv, BillingBase
<1> DEFINE t == [sub_stripe[s] EXCEPT !.state = state, !.period = period]
<1>1. sub_stripe[s] \in StripeRecord /\ Bought(s) /\ sub_stripe[s].user \in SubUsers
      /\ sub_stripe[s].customer \in Subs
  <2>1. sub_stripe[s] \in StripeRecord /\ sub_stripe[s].state # "none"
    BY <1>0 DEF Billing!Change, BillingType
  <2>2. QED
    BY <1>0, <2>1 DEF CustomersFit, Bought, StripeRecord
<1>2. t \in StripeRecord /\ t.state = state /\ t.period = period
      /\ t.user = sub_stripe[s].user /\ t.customer = sub_stripe[s].customer
  BY <1>1 DEF StripeRecord
<1>3. sub_stripe' = [sub_stripe EXCEPT ![s] = t]
  BY <1>0 DEF Billing!Change, BillingType, StripeRecord
<1> HIDE DEF t
<1>4. /\ sub_stripe' \in [Subs -> StripeRecord] /\ sub_stripe'[s] = t
      /\ \A r \in Subs : /\ sub_stripe'[r].user = sub_stripe[r].user
                         /\ sub_stripe'[r].customer = sub_stripe[r].customer
      /\ \A r \in Subs \ {s} : sub_stripe'[r] = sub_stripe[r]
  BY <1>0, <1>2, <1>3 DEF BillingType
<1> DEFINE n == sub_seq[s] + 1
           e == Billing!Event(s, kind, n)
<1>5. n \in Nat /\ sub_seq[s] \in Nat
  BY <1>0 DEF BillingType
<1>6. /\ e \in Billing!Messages /\ e.sub = s /\ e.seq = n /\ e.kind = kind
      /\ e.customer = t.customer /\ e.user \in {None, t.user}
      /\ e.status = state /\ e.period = period
  BY <1>1, <1>2, <1>4, <1>5, EventFields
<1>7. sub_seq' = [sub_seq EXCEPT ![s] = n] /\ sub_outbox' = sub_outbox \cup {e}
  <2>1. Billing!Cardinality({kind}) = 1
    BY FS_Singleton, Zenon DEF Billing!Cardinality, Cardinality
  <2>2. Billing!Emit(s, {kind})
    BY DEF Billing!Change
  <2>3. /\ sub_seq' = [sub_seq EXCEPT ![s] = sub_seq[s] + 1]
        /\ \E number \in [{kind} -> (sub_seq[s] + 1)..(sub_seq[s] + 1)] :
             sub_outbox' = sub_outbox \cup {Billing!Event(s, k, number[k]) : k \in {kind}}
    BY <2>1, <2>2 DEF Billing!Emit
  <2>4. PICK number \in [{kind} -> (sub_seq[s] + 1)..(sub_seq[s] + 1)] :
          sub_outbox' = sub_outbox \cup {Billing!Event(s, k, number[k]) : k \in {kind}}
    BY <2>3
  <2>5. number[kind] = n
    BY <1>5
  <2>6. {Billing!Event(s, k, number[k]) : k \in {kind}} = {e}
    BY <2>5
  <2>7. QED
    BY <2>3, <2>4, <2>6
<1>8. UNCHANGED <<sub_profile, sub_session, sub_hook, sub_disorder, sub_dropped>>
  BY DEF Billing!Change
<1> HIDE DEF e, n
<1>9. sub_seq'[s] = n /\ sub_seq' \in [Subs -> Nat] /\ n > sub_seq[s]
      /\ \A r \in Subs \ {s} : sub_seq'[r] = sub_seq[r]
  BY <1>0, <1>5, <1>7 DEF BillingType, n
<1>10. \A f \in sub_outbox : f.sub \in Subs /\ f.seq \in Nat /\ (f.sub = s => n > f.seq)
  BY <1>0, <1>5, <1>9 DEF BillingType, Billing!Messages, EventsFit
<1>11. BillingType'
  BY <1>0, <1>4, <1>6, <1>7, <1>8, <1>9 DEF BillingType
<1>12. CustomersFit'
  <2>1. \A r \in Subs : Bought(r)' <=> Bought(r)
    BY <1>4 DEF Bought
  <2>2. \A r \in Subs : sub_stripe'[r].state = "none" <=> ~ Bought(r)
    BY <1>0, <1>1, <1>2, <1>4 DEF CustomersFit, Billing!Statuses
  <2>3. \A u \in SubUsers : sub_profile[u].customer # None => sub_profile[u].customer \in Subs
    BY <1>0 DEF BillingType, Billing!Columns, Billing!Customers
  <2>4. \A r \in Subs : sub_session[r] # None /\ sub_session[r].customer # None =>
          sub_session[r].customer \in Subs
    BY <1>0 DEF BillingType
  <2>5. QED
    BY <1>0, <1>4, <1>8, <2>1, <2>2, <2>3, <2>4 DEF CustomersFit
<1>13. EventsFit'
  <2>1. \A f \in sub_outbox : f.seq <= sub_seq'[f.sub]
    BY <1>0, <1>5, <1>9, <1>10 DEF EventsFit, BillingType
  <2>2. QED
    BY <1>0, <1>1, <1>2, <1>4, <1>6, <1>7, <1>9, <1>10, <2>1 DEF EventsFit, Bought
<1>14. HooksFit'
  <2>1. \A h \in Hooks : InFlight(h) => sub_hook[h].event \in sub_outbox
    BY <1>0 DEF HooksFit
  <2>2. e.seq = n /\ n \in Nat
    BY <1>5, <1>6 DEF n
  <2>3. QED
    BY <1>0, <1>4, <1>6, <1>7, <1>8, <1>10, <2>1, <2>2 DEF HooksFit, InFlight
<1>15. \A r \in Subs : Undisturbed(r)' => Undisturbed(r)
  BY <1>4, <1>8 DEF Undisturbed, Bought, Billing!BoughtBy
<1>16. ColumnsComing'
  <2> SUFFICES ASSUME NEW r \in Subs, Undisturbed(r)'
               PROVE  (LET row == sub_profile[sub_stripe[r].user] IN
    /\ \/ \E f \in Waiting(r) : f.seq = sub_seq[r] /\ f.status = sub_stripe[r].state
       \/ Waiting(r) = {} /\ row.status = sub_stripe[r].state
    /\ \/ \E f \in Waiting(r) : /\ f.period = sub_stripe[r].period
                                /\ \A g \in Waiting(r) : g.seq > f.seq => g.period = None
       \/ /\ row.period = sub_stripe[r].period
          /\ \A g \in Waiting(r) : g.period = None
    /\ Waiting(r) # {} \/ row.sub = r
    /\ \/ \E f \in Waiting(r) : f.kind = "completed"
       \/ row.customer = sub_stripe[r].customer)'
    BY DEF ColumnsComing
  <2>1. CASE r # s
    <3>1. Waiting(r)' = Waiting(r)
      BY <1>6, <1>7, <2>1 DEF Waiting
    <3>2. sub_stripe'[r] = sub_stripe[r] /\ sub_seq'[r] = sub_seq[r]
      BY <1>4, <1>9, <2>1
    <3>3. QED
      BY <1>0, <1>8, <1>15, <3>1, <3>2 DEF ColumnsComing
  <2>2. CASE r = s
    <3>1. Waiting(s)' = Waiting(s) \cup {e}
      BY <1>6, <1>7 DEF Waiting
    <3>2. \A g \in Waiting(s) : ~ (g.seq > e.seq)
      BY <1>5, <1>6, <1>10 DEF Waiting, n
    <3>3. ~ (e.seq > e.seq)
      BY <1>5, <1>6 DEF n
    <3>4. e.seq = sub_seq'[s] /\ e.status = sub_stripe'[s].state
          /\ e.period = sub_stripe'[s].period
      BY <1>2, <1>4, <1>6, <1>9
    <3>5. \/ \E f \in Waiting(s) : f.kind = "completed"
          \/ sub_profile[sub_stripe[s].user].customer = sub_stripe[s].customer
      BY <1>0, <1>15, <2>2 DEF ColumnsComing
    <3>6. QED
      BY <1>4, <1>8, <2>2, <3>1, <3>2, <3>3, <3>4, <3>5
  <2>3. QED
    BY <2>1, <2>2
<1>17. BuyersFound'
  <2>1. \A h \in Hooks : InFlight(h) => sub_hook[h].event.sub \in Subs
    BY <1>0, <1>10 DEF HooksFit
  <2>2. QED
    BY <1>0, <1>4, <1>8, <1>15, <2>1 DEF BuyersFound, InFlight
<1>18. QED
  BY <1>11, <1>12, <1>13, <1>14, <1>16, <1>17 DEF BillingInv, BillingBase

\* What is read of a customer, an event and a request that is under way.
LEMMA BillingShapes ==
  ASSUME BillingAssumption, BillingBase
  PROVE  /\ \A u \in SubUsers : sub_profile[u].customer \in Subs \cup {None}
         /\ \A s \in Subs : sub_session[s] # None =>
              sub_session[s].user \in SubUsers /\ sub_session[s].customer \in Subs \cup {None}
         /\ \A s \in Subs : sub_stripe[s] \in StripeRecord
         /\ \A f \in sub_outbox : f \in Billing!Messages /\ f.sub \in Subs /\ f.seq \in Nat
         /\ \A h \in Hooks : InFlight(h) => sub_hook[h].event \in sub_outbox
  BY DEF BillingBase, BillingType, HooksFit, InFlight, Billing!Columns, Billing!Customers,
         Billing!Messages

LEMMA CheckoutKeepsBilling ==
  ASSUME BillingAssumption, BillingInv, NEW u \in SubUsers, NEW s \in Subs, Billing!Checkout(u, s)
  PROVE  BillingInv'
<1>0. BillingType /\ CustomersFit /\ EventsFit /\ HooksFit /\ ColumnsComing /\ BuyersFound
  BY DEF BillingInv, BillingBase
<1>1. PICK c \in {None, sub_profile[u].customer} :
        sub_session' = [sub_session EXCEPT ![s] = [user |-> u, customer |-> c]]
  BY DEF Billing!Checkout
<1>2. UNCHANGED <<sub_profile, sub_stripe, sub_outbox, sub_hook, sub_seq, sub_disorder, sub_dropped>>
  BY DEF Billing!Checkout
<1>3. c \in Subs \cup {None} /\ (c # None => sub_stripe[c].user = u)
  BY <1>0, BillingShapes DEF BillingBase, CustomersFit
<1>4. BillingType'
  BY <1>0, <1>1, <1>2, <1>3 DEF BillingType
<1>5. /\ sub_session'[s].user = u /\ sub_session'[s].customer = c
      /\ \A r \in Subs \ {s} : sub_session'[r] = sub_session[r]
  BY <1>0, <1>1 DEF BillingType
<1>6. CustomersFit'
  BY <1>0, <1>2, <1>3, <1>5 DEF CustomersFit, Bought
<1>7. EventsFit' /\ HooksFit' /\ ColumnsComing' /\ BuyersFound'
  BY <1>0, <1>2 DEF EventsFit, HooksFit, ColumnsComing, BuyersFound, Bought, InFlight, Waiting,
                    Undisturbed, Billing!BoughtBy
<1>8. QED
  BY <1>4, <1>6, <1>7 DEF BillingInv, BillingBase

\* A request finds the buyer, or at worst nobody.
LEMMA Resolves ==
  ASSUME BillingAssumption, BillingInv, NEW e \in sub_outbox, NEW u \in Billing!Resolve(e)
  PROVE  /\ u \in {None, sub_stripe[e.sub].user}
         /\ Undisturbed(e.sub) /\ Billing!InOrder(e) => u = sub_stripe[e.sub].user
<1>0. BillingBase /\ BillingType /\ CustomersFit /\ EventsFit /\ ColumnsComing
  BY DEF BillingInv, BillingBase
<1> DEFINE s == e.sub
           buyer == sub_stripe[s].user
<1>1. s \in Subs /\ Bought(s) /\ buyer \in SubUsers /\ e.customer = sub_stripe[s].customer
      /\ e.customer \in Subs /\ e.user \in {None, buyer}
      /\ sub_stripe[e.customer].user = buyer
  BY <1>0, BillingShapes DEF EventsFit, CustomersFit, Bought, StripeRecord
<1>2. Billing!OwnersOf(e.customer) \subseteq {buyer}
  BY <1>0, <1>1 DEF Billing!OwnersOf, CustomersFit, BillingAssumption
<1>3. u \in {None, buyer}
  BY <1>1, <1>2 DEF Billing!Resolve
<1>4. ASSUME Undisturbed(s), Billing!InOrder(e) PROVE u = buyer
  <2>1. CASE e.user # None
    BY <1>1, <2>1 DEF Billing!Resolve
  <2>2. CASE e.user = None
    <3>1. \A f \in Waiting(s) : f.kind # "completed"
      BY <1>4, <2>2 DEF Billing!InOrder, Waiting
    <3>2. sub_profile[buyer].customer = sub_stripe[s].customer
      BY <1>0, <1>1, <1>4, <3>1 DEF ColumnsComing
    <3>3. buyer \in Billing!OwnersOf(e.customer)
      BY <1>1, <3>2 DEF Billing!OwnersOf
    <3>4. QED
      BY <1>2, <2>2, <3>3 DEF Billing!Resolve
  <2>3. QED
    BY <2>1, <2>2
<1>5. QED
  BY <1>3, <1>4

LEMMA DeliverKeepsBilling ==
  ASSUME BillingAssumption, BillingInv, NEW h \in Hooks, NEW e \in sub_outbox,
         Billing!Deliver(h, e)
  PROVE  BillingInv'
<1>0. BillingType /\ CustomersFit /\ EventsFit /\ HooksFit /\ ColumnsComing /\ BuyersFound
      /\ BillingBase
  BY DEF BillingInv, BillingBase
<1>1. /\ UNCHANGED <<sub_profile, sub_session, sub_stripe, sub_outbox, sub_seq>>
      /\ sub_disorder' = IF Billing!InOrder(e) THEN sub_disorder ELSE sub_disorder \cup {e.sub}
      /\ sub_hook[h].event = None /\ \A g \in Hooks : sub_hook[g].event # e
      /\ sub_dropped \subseteq sub_dropped'
  BY DEF Billing!Deliver
<1>2. \A s \in Subs : Undisturbed(s)' => Undisturbed(s)
  BY <1>1 DEF Undisturbed, Bought, Billing!BoughtBy
<1>3. CustomersFit' /\ EventsFit'
  BY <1>0, <1>1 DEF CustomersFit, EventsFit, Bought
<1>4. ColumnsComing'
  BY <1>0, <1>1, <1>2 DEF ColumnsComing, Waiting
<1>5. CASE UNCHANGED sub_hook
  <2>1. BillingType'
    BY <1>0, <1>1, <1>5 DEF BillingType
  <2>2. HooksFit'
    BY <1>0, <1>1, <1>5 DEF HooksFit, InFlight
  <2>3. BuyersFound'
    BY <1>0, <1>1, <1>2, <1>5, BillingShapes DEF BuyersFound, InFlight
  <2>4. QED
    BY <1>3, <1>4, <2>1, <2>2, <2>3 DEF BillingInv, BillingBase
<1>6. ASSUME NEW u, sub_hook' = [sub_hook EXCEPT ![h] = [event |-> e, user |-> u]],
             u \in {None, sub_stripe[e.sub].user},
             Undisturbed(e.sub)' => u = sub_stripe[e.sub].user
      PROVE  BillingInv'
  <2>1. e \in Billing!Messages /\ e.sub \in Subs /\ u \in SubUsers \cup {None}
    BY <1>0, <1>6, BillingShapes DEF StripeRecord
  <2>2. /\ sub_hook' \in [Hooks -> [event: {None} \cup Billing!Messages,
                                    user: SubUsers \cup {None}]]
        /\ sub_hook'[h].event = e /\ sub_hook'[h].user = u
        /\ \A g \in Hooks \ {h} : sub_hook'[g] = sub_hook[g]
    BY <1>0, <1>6, <2>1 DEF BillingType
  <2>3. BillingType'
    BY <1>0, <1>1, <2>2 DEF BillingType
  <2>4. e.sub \notin sub_disorder' => \A f \in sub_outbox : f.sub = e.sub => f.seq >= e.seq
    BY <1>1 DEF Billing!InOrder
  <2>5. HooksFit'
    BY <1>0, <1>1, <1>6, <2>2, <2>4 DEF HooksFit, InFlight
  <2>6. BuyersFound'
    <3> SUFFICES ASSUME NEW g \in Hooks, InFlight(g)', Undisturbed(sub_hook[g].event.sub)'
                 PROVE  sub_hook'[g].user = sub_stripe'[sub_hook'[g].event.sub].user
      BY DEF BuyersFound
    <3>1. CASE g = h
      BY <1>1, <1>6, <2>2, <3>1
    <3>2. CASE g # h
      BY <1>0, <1>1, <1>2, <2>2, <3>2, BillingShapes DEF BuyersFound, InFlight
    <3>3. QED
      BY <3>1, <3>2
  <2>7. QED
    BY <1>3, <1>4, <2>3, <2>5, <2>6 DEF BillingInv, BillingBase
<1>7. CASE \E u \in Billing!Resolve(e) : sub_hook' = [sub_hook EXCEPT ![h] = [event |-> e, user |-> u]]
  <2>1. PICK u \in Billing!Resolve(e) :
          sub_hook' = [sub_hook EXCEPT ![h] = [event |-> e, user |-> u]]
    BY <1>7
  <2>2. Undisturbed(e.sub)' => Undisturbed(e.sub) /\ Billing!InOrder(e)
    <3>1. e.sub \in Subs
      BY <1>0, BillingShapes
    <3>2. Undisturbed(e.sub)' => e.sub \notin sub_disorder'
      BY DEF Undisturbed
    <3>3. QED
      BY <1>1, <1>2, <3>1, <3>2
  <2>3. QED
    BY <1>6, <2>1, <2>2, Resolves
<1>8. CASE /\ sub_hook' = [sub_hook EXCEPT ![h] = [event |-> e, user |-> None]]
           /\ sub_dropped' = sub_dropped \cup {e.sub}
  <2>1. ~ Undisturbed(e.sub)'
    BY <1>1, <1>8 DEF Undisturbed
  <2>2. QED
    BY <1>6, <1>8, <2>1
<1>9. QED
  BY <1>5, <1>7, <1>8 DEF Billing!Deliver

\* A request ends, and with it perhaps its event, without the account changing.
LEMMA EndKeepsBase ==
  ASSUME BillingAssumption, BillingInv, NEW h \in Hooks, InFlight(h),
         sub_hook' = [sub_hook EXCEPT ![h] = Billing!Idle],
         sub_outbox' \in {sub_outbox, sub_outbox \ {sub_hook[h].event}},
         UNCHANGED <<sub_session, sub_stripe, sub_seq, sub_disorder>>,
         sub_dropped \subseteq sub_dropped'
  PROVE  /\ EventsFit' /\ HooksFit' /\ BuyersFound'
         /\ sub_hook' \in [Hooks -> [event: {None} \cup Billing!Messages,
                                     user: SubUsers \cup {None}]]
         /\ sub_outbox' \subseteq Billing!Messages
<1>0. BillingType /\ EventsFit /\ HooksFit /\ BuyersFound /\ BillingBase
  BY DEF BillingInv, BillingBase
<1>1. /\ sub_hook'[h].event = None
      /\ \A g \in Hooks \ {h} : sub_hook'[g] = sub_hook[g]
      /\ sub_hook' \in [Hooks -> [event: {None} \cup Billing!Messages, user: SubUsers \cup {None}]]
  BY <1>0 DEF BillingType, Billing!Idle
<1>2. sub_outbox' \subseteq sub_outbox
  OBVIOUS
<1>3. EventsFit'
  BY <1>0, <1>2 DEF EventsFit, Bought
<1>4. HooksFit'
  BY <1>0, <1>1, <1>2 DEF HooksFit, InFlight
<1>5. \A s \in Subs : Undisturbed(s)' => Undisturbed(s)
  BY DEF Undisturbed, Bought, Billing!BoughtBy
<1>6. BuyersFound'
  BY <1>0, <1>1, <1>5, BillingShapes DEF BuyersFound, InFlight
<1>7. QED
  BY <1>0, <1>1, <1>2, <1>3, <1>4, <1>6 DEF BillingType

\* The account takes over what the event says; the event may be gone or come again.
LEMMA WriteKeepsBilling ==
  ASSUME BillingAssumption, BillingInv, NEW h \in Hooks, InFlight(h), sub_hook[h].user # None,
         sub_profile' = [sub_profile EXCEPT ![sub_hook[h].user] =
                           Billing!Updated(@, sub_hook[h].event)],
         sub_hook' = [sub_hook EXCEPT ![h] = Billing!Idle],
         sub_outbox' \in {sub_outbox, sub_outbox \ {sub_hook[h].event}},
         UNCHANGED <<sub_session, sub_stripe, sub_seq, sub_disorder, sub_dropped>>
  PROVE  BillingInv'
<1>0. BillingType /\ CustomersFit /\ EventsFit /\ HooksFit /\ ColumnsComing /\ BillingBase
  BY DEF BillingInv, BillingBase
<1> DEFINE e == sub_hook[h].event
           s == e.sub
           u == sub_hook[h].user
           old == sub_profile[u]
           row == Billing!Updated(old, e)
<1>1. e \in sub_outbox /\ e \in Billing!Messages /\ s \in Subs /\ Bought(s)
      /\ u = sub_stripe[s].user /\ u \in SubUsers /\ old \in Billing!Columns
      /\ e.customer = sub_stripe[s].customer /\ e.customer \in Subs
      /\ sub_stripe[e.customer].user = u
  <2>1. e \in sub_outbox /\ u = sub_stripe[s].user
    BY <1>0 DEF HooksFit
  <2>2. e \in Billing!Messages /\ s \in Subs /\ Bought(s) /\ e.customer = sub_stripe[s].customer
    BY <1>0, <2>1, BillingShapes DEF EventsFit
  <2>3. u \in SubUsers
    BY <1>0, <2>1, <2>2, BillingShapes DEF StripeRecord, Bought
  <2>4. QED
    BY <1>0, <2>1, <2>2, <2>3 DEF CustomersFit, BillingType
<1>2. /\ row \in Billing!Columns /\ row.status = e.status
      /\ row.sub = Billing!Coalesce(e.sub, old.sub)
      /\ row.period = Billing!Coalesce(e.period, old.period)
      /\ row.customer =
           Billing!Coalesce(IF e.kind = "deleted" THEN None ELSE e.customer, old.customer)
  BY <1>1, UpdatedColumns
<1> HIDE DEF row, old
<1>3. /\ sub_profile' \in [SubUsers -> Billing!Columns] /\ sub_profile'[u] = row
      /\ \A v \in SubUsers \ {u} : sub_profile'[v] = sub_profile[v]
  BY <1>0, <1>1, <1>2 DEF BillingType, row, old
<1> HIDE DEF e, u, s
<1>4. EventsFit' /\ HooksFit' /\ BuyersFound' /\ BillingType'
  BY <1>0, <1>3, EndKeepsBase DEF BillingType
<1>5. CustomersFit'
  <2>1. row.customer \in {e.customer, old.customer}
    BY <1>2 DEF Billing!Coalesce
  <2>2. row.customer # None => sub_stripe[row.customer].user = u
    BY <1>0, <1>1, <2>1 DEF CustomersFit, old
  <2>3. QED
    BY <1>0, <1>3, <2>2 DEF CustomersFit, Bought
<1>6. sub_outbox' \in {sub_outbox, sub_outbox \ {e}}
  BY DEF e
<1>7. ColumnsComing'
  <2> SUFFICES ASSUME NEW r \in Subs, Undisturbed(r)'
               PROVE  (LET now == sub_profile[sub_stripe[r].user] IN
    /\ \/ \E f \in Waiting(r) : f.seq = sub_seq[r] /\ f.status = sub_stripe[r].state
       \/ Waiting(r) = {} /\ now.status = sub_stripe[r].state
    /\ \/ \E f \in Waiting(r) : /\ f.period = sub_stripe[r].period
                                /\ \A g \in Waiting(r) : g.seq > f.seq => g.period = None
       \/ /\ now.period = sub_stripe[r].period
          /\ \A g \in Waiting(r) : g.period = None
    /\ Waiting(r) # {} \/ now.sub = r
    /\ \/ \E f \in Waiting(r) : f.kind = "completed"
       \/ now.customer = sub_stripe[r].customer)'
    BY DEF ColumnsComing
  <2>1. Undisturbed(r)
    BY DEF Undisturbed, Bought, Billing!BoughtBy
  <2>2. CASE r # s
    <3>1. sub_stripe[r].user # u /\ sub_stripe[r].user \in SubUsers
      BY <1>0, <1>1, <2>1, <2>2, BillingShapes
         DEF Undisturbed, Billing!BoughtBy, Bought, StripeRecord
    <3>2. Waiting(r)' = Waiting(r)
      BY <1>6, <2>2 DEF Waiting, s
    <3>3. QED
      BY <1>0, <1>3, <2>1, <3>1, <3>2 DEF ColumnsComing
  <2>3. CASE r = s
    <3> DEFINE W == Waiting(r)
    <3>1. Undisturbed(s) /\ sub_profile[sub_stripe[s].user] = old
          /\ sub_profile'[sub_stripe'[s].user] = row
      BY <1>1, <1>3, <2>1, <2>3 DEF old
    <3>2. /\ e \in W /\ W' \in {W, W \ {e}}
          /\ \A f \in W : /\ f.seq \in Nat /\ f.seq >= e.seq /\ f.seq <= sub_seq[s]
                          /\ f.seq = e.seq => f = e
      <4>1. e \in W /\ W' \in {W, W \ {e}}
        BY <1>1, <1>6, <2>3 DEF Waiting, s
      <4>2. s \notin sub_disorder
        BY <3>1 DEF Undisturbed
      <4>3. \A f \in W : f.seq >= e.seq
        BY <1>0, <2>3, <4>2 DEF Waiting, HooksFit, s, e
      <4>4. \A f \in W : f.seq \in Nat /\ f.seq <= sub_seq[s] /\ (f.seq = e.seq => f = e)
        BY <1>0, <1>1, <2>3, BillingShapes DEF Waiting, EventsFit, s
      <4>5. QED
        BY <4>1, <4>3, <4>4
    <3>3. /\ \/ \E f \in W : f.seq = sub_seq[s] /\ f.status = sub_stripe[s].state
             \/ W = {} /\ old.status = sub_stripe[s].state
          /\ \/ \E f \in W : /\ f.period = sub_stripe[s].period
                             /\ \A g \in W : g.seq > f.seq => g.period = None
             \/ old.period = sub_stripe[s].period /\ \A g \in W : g.period = None
          /\ \/ \E f \in W : f.kind = "completed"
             \/ old.customer = sub_stripe[s].customer
      BY <1>0, <1>1, <2>1, <2>3, <3>1 DEF ColumnsComing
    <3>4. sub_stripe[s].period # None /\ s # None /\ e.sub = s /\ e.customer # None
          /\ sub_seq[s] \in Nat
      BY <1>0, <1>1, BillingShapes DEF StripeRecord, BillingAssumption, s, BillingType
    <3> HIDE DEF W
    <3>5. \/ \E f \in W' : f.seq = sub_seq[s] /\ f.status = sub_stripe[s].state
          \/ W' = {} /\ row.status = sub_stripe[s].state
      <4>1. PICK f \in W : f.seq = sub_seq[s] /\ f.status = sub_stripe[s].state
        BY <3>2, <3>3
      <4>2. CASE f \in W'
        BY <4>1, <4>2
      <4>3. CASE f \notin W'
        <5>1. f = e /\ W' = W \ {e}
          BY <3>2, <4>3
        <5>2. \A g \in W : g = e
          BY <3>2, <3>4, <4>1, <5>1
        <5>3. QED
          BY <1>2, <4>1, <5>1, <5>2
      <4>4. QED
        BY <4>2, <4>3
    <3>6. \/ \E f \in W' : /\ f.period = sub_stripe[s].period
                           /\ \A g \in W' : g.seq > f.seq => g.period = None
          \/ row.period = sub_stripe[s].period /\ \A g \in W' : g.period = None
      <4>1. CASE old.period = sub_stripe[s].period /\ \A g \in W : g.period = None
        BY <1>2, <3>2, <4>1 DEF Billing!Coalesce
      <4>2. ASSUME NEW f \in W, f.period = sub_stripe[s].period,
                   \A g \in W : g.seq > f.seq => g.period = None
            PROVE  \/ \E q \in W' : /\ q.period = sub_stripe[s].period
                                    /\ \A g \in W' : g.seq > q.seq => g.period = None
                   \/ row.period = sub_stripe[s].period /\ \A g \in W' : g.period = None
        <5>1. CASE f \in W'
          BY <3>2, <4>2, <5>1
        <5>2. CASE f \notin W'
          <6>1. f = e /\ W' = W \ {e}
            BY <3>2, <5>2
          <6>2. row.period = sub_stripe[s].period
            BY <1>2, <3>4, <4>2, <6>1 DEF Billing!Coalesce
          <6>3. \A g \in W' : g.seq > e.seq
            BY <3>2, <6>1
          <6>4. QED
            BY <4>2, <6>1, <6>2, <6>3
        <5>3. QED
          BY <5>1, <5>2
      <4>3. QED
        BY <3>3, <4>1, <4>2
    <3>7. row.sub = s
      BY <1>2, <3>4 DEF Billing!Coalesce
    <3>8. \/ \E f \in W' : f.kind = "completed"
          \/ row.customer = sub_stripe[s].customer
      <4>1. CASE old.customer = sub_stripe[s].customer
        BY <1>1, <1>2, <4>1 DEF Billing!Coalesce
      <4>2. ASSUME NEW f \in W, f.kind = "completed"
            PROVE  (\E q \in W' : q.kind = "completed") \/ row.customer = sub_stripe[s].customer
        <5>1. CASE f \in W'
          BY <4>2, <5>1
        <5>2. CASE f \notin W'
          BY <1>1, <1>2, <3>2, <3>4, <4>2, <5>2 DEF Billing!Coalesce
        <5>3. QED
          BY <5>1, <5>2
      <4>3. QED
        BY <3>3, <4>1, <4>2
    <3>9. Waiting(r)' = W'
      BY DEF W
    <3>10. QED
      BY <2>3, <3>1, <3>5, <3>6, <3>7, <3>8, <3>9
  <2>4. QED
    BY <2>2, <2>3
<1>8. QED
  BY <1>4, <1>5, <1>7 DEF BillingInv, BillingBase

\* A request that raised, or that wrote nothing.
LEMMA NoWriteKeepsBilling ==
  ASSUME BillingAssumption, BillingInv, NEW h \in Hooks, InFlight(h),
         sub_hook' = [sub_hook EXCEPT ![h] = Billing!Idle],
         UNCHANGED <<sub_profile, sub_session, sub_stripe, sub_seq, sub_disorder>>,
         sub_dropped \subseteq sub_dropped',
         \/ sub_outbox' = sub_outbox
         \/ /\ sub_outbox' = sub_outbox \ {sub_hook[h].event}
            /\ sub_hook[h].user = None \/ sub_hook[h].event.sub \in sub_dropped'
  PROVE  BillingInv'
<1>0. BillingType /\ CustomersFit /\ EventsFit /\ HooksFit /\ ColumnsComing /\ BuyersFound
      /\ BillingBase
  BY DEF BillingInv, BillingBase
<1>1. EventsFit' /\ HooksFit' /\ BuyersFound' /\ BillingType'
  BY <1>0, EndKeepsBase DEF BillingType
<1>2. CustomersFit'
  BY <1>0 DEF CustomersFit, Bought
<1>3. \A r \in Subs : Undisturbed(r)' => Undisturbed(r) /\ Waiting(r)' = Waiting(r)
  <2> SUFFICES ASSUME NEW r \in Subs, Undisturbed(r)'
               PROVE  Undisturbed(r) /\ Waiting(r)' = Waiting(r)
    OBVIOUS
  <2>1. Undisturbed(r)
    BY DEF Undisturbed, Bought, Billing!BoughtBy
  <2>2. r \notin sub_dropped'
    BY DEF Undisturbed
  <2>3. sub_hook[h].event.sub = r => sub_hook[h].user # None
    BY <1>0, <2>1 DEF BuyersFound, Undisturbed, Bought
  <2>4. QED
    BY <2>1, <2>2, <2>3 DEF Waiting
<1>4. ColumnsComing'
  BY <1>0, <1>3 DEF ColumnsComing
<1>5. QED
  BY <1>1, <1>2, <1>4 DEF BillingInv, BillingBase

\* The sale: two events, of which one tells the dates and one the customer.
LEMMA PayKeepsBilling ==
  ASSUME BillingAssumption, BillingInv, NEW s \in Subs, Billing!Pay(s)
  PROVE  BillingInv'
<1>0. BillingType /\ CustomersFit /\ EventsFit /\ HooksFit /\ ColumnsComing /\ BuyersFound
      /\ BillingBase
  BY DEF BillingInv, BillingBase
<1>1. PICK meta \in BOOLEAN :
        sub_stripe' = [sub_stripe EXCEPT ![s] =
          [state |-> "active", user |-> sub_session[s].user, period |-> 1, meta |-> meta,
           customer |-> IF sub_session[s].customer = None THEN s ELSE sub_session[s].customer]]
  BY DEF Billing!Pay
<1> DEFINE t == sub_stripe'[s]
<1>2. /\ sub_session[s] # None /\ ~ Bought(s) /\ sub_session[s].user \in SubUsers
      /\ sub_session[s].customer \in Subs \cup {None}
  BY <1>0, BillingShapes DEF Billing!Pay, CustomersFit
<1>3. /\ t = [state |-> "active", user |-> sub_session[s].user, period |-> 1, meta |-> meta,
              customer |-> IF sub_session[s].customer = None THEN s ELSE sub_session[s].customer]
      /\ \A r \in Subs \ {s} : sub_stripe'[r] = sub_stripe[r]
      /\ DOMAIN sub_stripe' = Subs /\ sub_stripe' = [r \in Subs |-> sub_stripe'[r]]
  BY <1>0, <1>1 DEF BillingType
<1>4. /\ t \in StripeRecord /\ t.state = "active" /\ t.user = sub_session[s].user
      /\ t.period = 1 /\ t.customer \in Subs
      /\ t.customer = IF sub_session[s].customer = None THEN s ELSE sub_session[s].customer
  BY <1>2, <1>3 DEF StripeRecord, Billing!Statuses
<1>5. sub_stripe' \in [Subs -> StripeRecord]
  BY <1>0, <1>3, <1>4 DEF BillingType
<1>6. t.user \in SubUsers /\ t.user # None
  BY <1>2, <1>4 DEF BillingAssumption
<1>7. UNCHANGED <<sub_profile, sub_session, sub_hook, sub_disorder, sub_dropped>>
  BY DEF Billing!Pay
<1> DEFINE kinds == {"completed", "created"}
           m == sub_seq[s]
<1>8. m \in Nat
  BY <1>0 DEF BillingType
<1>9. PICK number \in [kinds -> (m + 1)..(m + 2)] :
        /\ number["completed"] # number["created"]
        /\ sub_seq' = [sub_seq EXCEPT ![s] = m + 2]
        /\ sub_outbox' = sub_outbox \cup {Billing!Event(s, k, number[k]) : k \in kinds}
  <2>1. Billing!Cardinality(kinds) = 2
    <3>1. Cardinality({"completed"}) = 1 /\ IsFiniteSet({"completed"})
      BY FS_Singleton
    <3>2. Cardinality({"completed"} \cup {"created"}) = 2
      BY <3>1, FS_AddElement
    <3>3. kinds = {"completed"} \cup {"created"}
      OBVIOUS
    <3>4. Cardinality(kinds) = 2
      BY <3>2, <3>3
    <3>5. QED
      BY <3>4, Zenon DEF Billing!Cardinality, Cardinality
  <2>2. Billing!Emit(s, kinds)
    BY DEF Billing!Pay
  <2>3. /\ sub_seq' = [sub_seq EXCEPT ![s] = m + 2]
        /\ \E number \in [kinds -> (m + 1)..(m + 2)] :
             /\ \A k, l \in kinds : number[k] = number[l] => k = l
             /\ sub_outbox' = sub_outbox \cup {Billing!Event(s, k, number[k]) : k \in kinds}
    BY <2>1, <2>2 DEF Billing!Emit
  <2>4. PICK number \in [kinds -> (m + 1)..(m + 2)] :
             /\ \A k, l \in kinds : number[k] = number[l] => k = l
             /\ sub_outbox' = sub_outbox \cup {Billing!Event(s, k, number[k]) : k \in kinds}
    BY <2>3
  <2>5. number["completed"] # number["created"]
    BY <2>4
  <2>6. QED
    BY <2>3, <2>4, <2>5
<1> DEFINE sold == Billing!Event(s, "completed", number["completed"])
           made == Billing!Event(s, "created", number["created"])
<1>10. /\ number["completed"] \in {m + 1, m + 2} /\ number["created"] \in {m + 1, m + 2}
       /\ number["completed"] \in Nat /\ number["created"] \in Nat
  BY <1>8, <1>9
<1>11. sub_outbox' = sub_outbox \cup {sold, made}
  BY <1>9
<1> HIDE DEF t
<1>12. /\ sold \in Billing!Messages /\ sold.kind = "completed" /\ sold.sub = s
       /\ sold.seq = number["completed"] /\ sold.customer = t.customer /\ sold.user = t.user
       /\ sold.status = "active" /\ sold.period = None
  BY <1>4, <1>6, <1>10, EventFields DEF t, Billing!Statuses
<1>13. /\ made \in Billing!Messages /\ made.kind = "created" /\ made.sub = s
       /\ made.seq = number["created"] /\ made.customer = t.customer
       /\ made.user \in {None, t.user}
       /\ made.status = "active" /\ made.period = 1
  BY <1>4, <1>6, <1>10, EventFields DEF t, Billing!Statuses
<1> HIDE DEF sold, made, m
<1>14. sub_seq'[s] = m + 2 /\ sub_seq' \in [Subs -> Nat]
       /\ \A r \in Subs \ {s} : sub_seq'[r] = sub_seq[r]
  BY <1>0, <1>8, <1>9 DEF BillingType
<1>15. \A f \in sub_outbox : f.sub \in Subs \ {s} /\ f.seq \in Nat
  BY <1>0, <1>2, BillingShapes DEF EventsFit
<1>16. BillingType'
  BY <1>0, <1>5, <1>7, <1>11, <1>12, <1>13, <1>14 DEF BillingType
<1>17. \A r \in Subs : sub_stripe[r].user \in SubUsers => r # s
  BY <1>2 DEF Bought, BillingAssumption
<1>18. CustomersFit'
  <2>1. \A r \in Subs : sub_stripe'[r].state = "none" <=> ~ Bought(r)'
    BY <1>0, <1>3, <1>4, <1>6 DEF CustomersFit, Bought, t
  <2>2. \A u \in SubUsers : sub_profile[u].customer # None =>
          sub_stripe'[sub_profile[u].customer].user = u
    BY <1>0, <1>3, <1>17, BillingShapes DEF CustomersFit
  <2>3. \A r \in Subs : sub_session[r] # None /\ sub_session[r].customer # None =>
          sub_stripe'[sub_session[r].customer].user = sub_session[r].user
    BY <1>0, <1>3, <1>17, BillingShapes DEF CustomersFit
  <2>4. \A r \in Subs : Bought(r)' => /\ sub_stripe'[r].customer \in Subs
          /\ sub_stripe'[sub_stripe'[r].customer].user = sub_stripe'[r].user
    <3> SUFFICES ASSUME NEW r \in Subs, Bought(r)'
                 PROVE  /\ sub_stripe'[r].customer \in Subs
                        /\ sub_stripe'[sub_stripe'[r].customer].user = sub_stripe'[r].user
      OBVIOUS
    <3>1. CASE r = s
      BY <1>2, <1>4, <2>3, <3>1 DEF t
    <3>2. CASE r # s
      <4>1. Bought(r) /\ sub_stripe[r].user \in SubUsers
        BY <1>0, <1>3, <3>2, BillingShapes DEF Bought, StripeRecord
      <4>2. QED
        BY <1>0, <1>3, <1>17, <3>2, <4>1 DEF CustomersFit
    <3>3. QED
      BY <3>1, <3>2
  <2>5. QED
    BY <1>7, <2>1, <2>2, <2>3, <2>4 DEF CustomersFit
<1>19. EventsFit'
  <2>1. \A f \in sub_outbox :
          /\ Bought(f.sub)' /\ f.seq <= sub_seq'[f.sub]
          /\ f.customer = sub_stripe'[f.sub].customer
          /\ f.user \in {None, sub_stripe'[f.sub].user}
          /\ f.kind = "completed" => f.user # None
    BY <1>0, <1>3, <1>14, <1>15 DEF EventsFit, Bought
  <2>2. \A f \in {sold, made} :
          /\ Bought(f.sub)' /\ f.seq <= sub_seq'[f.sub]
          /\ f.customer = sub_stripe'[f.sub].customer
          /\ f.user \in {None, sub_stripe'[f.sub].user}
          /\ f.kind = "completed" => f.user # None
    <3>1. Bought(s)' /\ sold.user # None
      BY <1>6, <1>12 DEF Bought, t
    <3>2. sold.seq <= sub_seq'[s] /\ made.seq <= sub_seq'[s]
      BY <1>8, <1>10, <1>12, <1>13, <1>14
    <3>3. QED
      BY <1>12, <1>13, <3>1, <3>2 DEF t
  <2>3. \A f, g \in sub_outbox' : f.sub = g.sub /\ f.seq = g.seq => f = g
    <3>1. sold.seq # made.seq
      BY <1>9, <1>12, <1>13
    <3>2. QED
      BY <1>0, <1>11, <1>12, <1>13, <1>15, <3>1 DEF EventsFit
  <2>4. QED
    BY <1>11, <2>1, <2>2, <2>3 DEF EventsFit
<1>20. \A h \in Hooks : InFlight(h) =>
         sub_hook[h].event \in sub_outbox /\ sub_hook[h].event.sub \in Subs \ {s}
  BY <1>0, <1>15, BillingShapes
<1>21. HooksFit'
  BY <1>0, <1>3, <1>7, <1>11, <1>12, <1>13, <1>20 DEF HooksFit, InFlight
<1>22. \A r \in Subs \ {s} : Undisturbed(r)' => Undisturbed(r) /\ Waiting(r)' = Waiting(r)
  <2> SUFFICES ASSUME NEW r \in Subs \ {s}, Undisturbed(r)'
               PROVE  Undisturbed(r) /\ Waiting(r)' = Waiting(r)
    OBVIOUS
  <2>1. Waiting(r)' = Waiting(r)
    BY <1>11, <1>12, <1>13 DEF Waiting
  <2>2. Bought(r) /\ sub_stripe[r].user = sub_stripe'[r].user /\ sub_stripe[s].user = None
    BY <1>2, <1>3 DEF Undisturbed, Bought
  <2>3. Billing!BoughtBy(sub_stripe[r].user) = {r}
    BY <1>3, <2>2 DEF Undisturbed, Billing!BoughtBy, Bought
  <2>4. QED
    BY <1>7, <2>1, <2>2, <2>3 DEF Undisturbed
<1>23. ColumnsComing'
  <2> SUFFICES ASSUME NEW r \in Subs, Undisturbed(r)'
               PROVE  (LET row == sub_profile[sub_stripe[r].user] IN
    /\ \/ \E f \in Waiting(r) : f.seq = sub_seq[r] /\ f.status = sub_stripe[r].state
       \/ Waiting(r) = {} /\ row.status = sub_stripe[r].state
    /\ \/ \E f \in Waiting(r) : /\ f.period = sub_stripe[r].period
                                /\ \A g \in Waiting(r) : g.seq > f.seq => g.period = None
       \/ /\ row.period = sub_stripe[r].period
          /\ \A g \in Waiting(r) : g.period = None
    /\ Waiting(r) # {} \/ row.sub = r
    /\ \/ \E f \in Waiting(r) : f.kind = "completed"
       \/ row.customer = sub_stripe[r].customer)'
    BY DEF ColumnsComing
  <2>1. CASE r # s
    BY <1>0, <1>3, <1>7, <1>14, <1>22, <2>1 DEF ColumnsComing
  <2>2. CASE r = s
    <3>1. Waiting(s)' = {sold, made}
      BY <1>11, <1>12, <1>13, <1>15 DEF Waiting
    <3>2. sold.seq = sub_seq'[s] \/ made.seq = sub_seq'[s]
      BY <1>8, <1>9, <1>10, <1>12, <1>13, <1>14
    <3>3. sub_stripe'[s].state = "active" /\ sub_stripe'[s].period = 1
      BY <1>4 DEF t
    <3>4. ~ (made.seq > made.seq)
      BY <1>10, <1>13
    <3>5. QED
      BY <1>12, <1>13, <2>2, <3>1, <3>2, <3>3, <3>4
  <2>3. QED
    BY <2>1, <2>2
<1>24. BuyersFound'
  BY <1>0, <1>3, <1>7, <1>20, <1>22 DEF BuyersFound, InFlight
<1>25. QED
  BY <1>16, <1>18, <1>19, <1>21, <1>23, <1>24 DEF BillingInv, BillingBase

LEMMA BillingInvPreserved ==
  ASSUME BillingAssumption, BillingInv, [Billing!Next]_(Billing!vars)
  PROVE  BillingInv'
<1>0. BillingType /\ CustomersFit /\ HooksFit /\ BillingBase
  BY DEF BillingInv, BillingBase
<1>1. ASSUME NEW u \in SubUsers, NEW s \in Subs, Billing!Checkout(u, s) PROVE BillingInv'
  BY <1>1, CheckoutKeepsBilling
<1>2. ASSUME NEW s \in Subs, Billing!Pay(s) PROVE BillingInv'
  BY <1>2, PayKeepsBilling
<1>3. \A s \in Subs : sub_stripe[s].period \in Nat /\ sub_stripe[s].period + 1 \in Nat
  BY <1>0, BillingShapes DEF StripeRecord
<1>4. "active" \in Billing!Statuses /\ "past_due" \in Billing!Statuses
      /\ "canceled" \in Billing!Statuses
  BY DEF Billing!Statuses
<1>5. ASSUME NEW s \in Subs, Billing!Renew(s) PROVE BillingInv'
  BY <1>3, <1>4, <1>5, ChangeKeepsBilling DEF Billing!Renew
<1>6. ASSUME NEW s \in Subs, Billing!PaymentFails(s) PROVE BillingInv'
  BY <1>3, <1>4, <1>6, ChangeKeepsBilling DEF Billing!PaymentFails
<1>7. ASSUME NEW s \in Subs, Billing!Cancel(s) PROVE BillingInv'
  BY <1>3, <1>4, <1>7, ChangeKeepsBilling DEF Billing!Cancel
<1>8. ASSUME NEW h \in Hooks, NEW e \in sub_outbox, Billing!Deliver(h, e) PROVE BillingInv'
  BY <1>8, DeliverKeepsBilling
<1>9. ASSUME NEW h \in Hooks, Billing!Write(h) PROVE BillingInv'
  <2>1. InFlight(h) /\ sub_hook[h].user # None
    BY <1>9 DEF Billing!Write, InFlight
  <2>2. sub_outbox' \in {sub_outbox, sub_outbox \ {sub_hook[h].event}}
    BY <1>9 DEF Billing!Write, Billing!Acknowledge
  <2>3. QED
    BY <1>9, <2>1, <2>2, WriteKeepsBilling DEF Billing!Write
<1>10. ASSUME NEW h \in Hooks, Billing!WriteRaises(h) PROVE BillingInv'
  <2>1. InFlight(h) /\ sub_hook[h].user # None
    BY <1>10 DEF Billing!WriteRaises, InFlight
  <2>2. CASE UNCHANGED sub_profile
    BY <1>10, <2>1, <2>2, NoWriteKeepsBilling DEF Billing!WriteRaises
  <2>3. CASE sub_profile' = [sub_profile EXCEPT ![sub_hook[h].user] =
                               Billing!Updated(@, sub_hook[h].event)]
    BY <1>10, <2>1, <2>3, WriteKeepsBilling DEF Billing!WriteRaises
  <2>4. QED
    BY <1>10, <2>2, <2>3 DEF Billing!WriteRaises
<1>11. ASSUME NEW h \in Hooks, Billing!AcknowledgeUnwritten(h) PROVE BillingInv'
  <2>1. InFlight(h)
    BY <1>11 DEF Billing!AcknowledgeUnwritten, InFlight
  <2>2. sub_dropped \subseteq sub_dropped'
        /\ (sub_hook[h].user = None \/ sub_hook[h].event.sub \in sub_dropped')
    BY <1>11 DEF Billing!AcknowledgeUnwritten
  <2>3. QED
    BY <1>11, <2>1, <2>2, NoWriteKeepsBilling DEF Billing!AcknowledgeUnwritten
<1>12. CASE UNCHANGED Billing!vars
  BY <1>12 DEF Billing!vars, BillingInv, BillingBase, BillingType, CustomersFit, EventsFit,
     HooksFit, ColumnsComing, BuyersFound, Undisturbed, Bought, InFlight, Waiting,
     Billing!BoughtBy
<1>13. QED
  BY <1>1, <1>2, <1>5, <1>6, <1>7, <1>8, <1>9, <1>10, <1>11, <1>12 DEF Billing!Next

\* An account with one subscription, whose events came in order and of which
\* none was acknowledged for want of a database, ends up showing exactly what
\* Stripe shows (routers/billing.py 226-277, db.py's update_subscription_state).
THEOREM AccountsMirrorStripe ==
  ASSUME BillingAssumption
  PROVE  Billing!Spec => []Billing!MirrorsStripe
<1>1. Billing!Init => BillingInv
  BY BillingInvInitial
<1>2. BillingInv /\ [Billing!Next]_(Billing!vars) => BillingInv'
  BY BillingInvPreserved
<1>3. BillingInv => Billing!MirrorsStripe
  BY BillingAnswers
<1>4. QED
  BY <1>1, <1>2, <1>3, PTL DEF Billing!Spec

\* Accounts, events and webhook requests hold subscriptions and users there are.
THEOREM BillingTypes ==
  ASSUME BillingAssumption
  PROVE  Billing!Spec => []Billing!TypeOK
<1> DEFINE Inv == BillingInv /\ sub_disorder \subseteq Subs /\ sub_dropped \subseteq Subs
<1>1. Billing!Init => Inv
  BY BillingInvInitial DEF Billing!Init
<1>2. Inv /\ [Billing!Next]_(Billing!vars) => Inv'
  <2> SUFFICES ASSUME Inv, [Billing!Next]_(Billing!vars) PROVE Inv'
    OBVIOUS
  <2>1. BillingInv'
    BY BillingInvPreserved
  <2>2. \A e \in Billing!Messages : e.sub \in Subs
    BY DEF Billing!Messages
  <2>3. /\ sub_outbox \subseteq Billing!Messages
        /\ \A h \in Hooks : sub_hook[h].event # None => sub_hook[h].event \in Billing!Messages
    BY DEF BillingInv, BillingBase, BillingType
  <2>4. ASSUME NEW h \in Hooks, NEW e \in sub_outbox, Billing!Deliver(h, e) PROVE Inv'
    <3>1. sub_disorder' \subseteq sub_disorder \cup {e.sub}
          /\ sub_dropped' \subseteq sub_dropped \cup {e.sub}
      BY <2>4 DEF Billing!Deliver
    <3>2. QED
      BY <2>1, <2>2, <2>3, <3>1
  <2>5. ASSUME NEW h \in Hooks, Billing!AcknowledgeUnwritten(h) PROVE Inv'
    <3>1. /\ sub_hook[h].event # None /\ UNCHANGED sub_disorder
          /\ sub_dropped' \subseteq sub_dropped \cup {sub_hook[h].event.sub}
      BY <2>5 DEF Billing!AcknowledgeUnwritten
    <3>2. QED
      BY <2>1, <2>2, <2>3, <3>1
  <2>6. CASE UNCHANGED <<sub_disorder, sub_dropped>>
    BY <2>1, <2>6
  <2>7. QED
    BY <2>4, <2>5, <2>6
       DEF Billing!Next, Billing!Checkout, Billing!Pay, Billing!Renew, Billing!PaymentFails,
           Billing!Cancel, Billing!Change, Billing!Write, Billing!WriteRaises, Billing!vars
<1>3. Inv => Billing!TypeOK
  <2> SUFFICES ASSUME BillingType, sub_disorder \subseteq Subs, sub_dropped \subseteq Subs
               PROVE  Billing!TypeOK
    BY DEF BillingInv, BillingBase
  <2>1. \A s \in Subs : sub_stripe[s].state \in {"none"} \cup Billing!Statuses
    BY DEF BillingType, StripeRecord
  <2>2. QED
    BY <2>1 DEF BillingType, Billing!TypeOK, Billing!Customers
<1>4. QED
  BY <1>1, <1>2, <1>3, PTL DEF Billing!Spec
================================================================================

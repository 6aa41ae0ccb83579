------------------------------ MODULE LeadAlerts ------------------------------
(***************************************************************************)
(* From a fetched batch to the users' telephones: the loop of run_tick that*)
(* persists one source's signals and tells the users about the new ones    *)
(* (scrapers/orchestrator.py), notifier.dispatch_lead_alert_to_user,       *)
(* push_notifications.dispatch_to_user, and the tables opportunities,      *)
(* alert_dispatch_log and push_dispatch_log of db.py.                      *)
(*                                                                         *)
(* One coroutine does all of it, one await after another: what can go      *)
(* wrong is a call that raises (with or without its effect), a database    *)
(* that is away, a transport that fails, a batch that names the same       *)
(* opportunity twice, and the tick ending anywhere in between.             *)
(***************************************************************************)
EXTENDS Integers, Sequences, FiniteSets, SequencesExt

CONSTANTS
  Leads,        \* source_ids
  Users,        \* the onboarded profiles, in the order the query returns them
  Wanted,       \* <<lead, user, channel>> that match, score and policy call for
  Batches,      \* what one scraper may return: sequences of leads
  MaxCopies,    \* how often one of them calls for the same notice at most
  Faults,       \* what may go wrong, of the kinds below
  MaxMishaps    \* bound: how often it does

FaultKinds == {"skipped", "raised", "send", "stop"}

\* The order of the attempts for one lead and one user.
Channels == <<"telegram", "email", "push">>

Notices == Leads \X Range(Users) \X Range(Channels)

ASSUME UserAssumption == Users \in Seq(Range(Users))
ASSUME NoticeAssumption == Wanted \subseteq Notices
ASSUME BatchAssumption == Batches \subseteq Seq(Leads)
ASSUME FaultAssumption == Faults \subseteq FaultKinds /\ MaxMishaps \in Nat

VARIABLES
  stored,    \* leads with a row in opportunities
  todo,      \* notices the running tick still has to attempt, in order
  step,      \* await the first of them is at: "check", "send", "record"
  sent,      \* sent[n]: how often the notice was delivered (history)
  logged,    \* notices with a row in a dispatch log
  mishaps

vars == <<stored, todo, step, sent, logged, mishaps>>

--------------------------------------------------------------------------------
LeadOf(n) == n[1]
UserOf(n) == n[2]
ChannelOf(n) == n[3]

\* One fault, if the environment is prone to it.
Mishap(kind) ==
  /\ kind \in Faults /\ mishaps < MaxMishaps
  /\ mishaps' = mishaps + 1

NoMishap == mishaps' = mishaps

\* Mutant: every user is told of every lead on every channel.
EveryNoticeOf(lead) ==
  FlattenSeq([i \in DOMAIN Users |->
    [c \in DOMAIN Channels |-> <<lead, Users[i], Channels[c]>>]])

\* The attempt one user's preferences call for on one channel, or none.
Attempt(n) == IF n \in Wanted THEN <<n>> ELSE <<>>

\* The notices of one new lead: per user the alerts, then the push.
NoticesOf(lead) ==
  FlattenSeq([i \in DOMAIN Users |-> FlattenSeq(
    [c \in DOMAIN Channels |-> Attempt(<<lead, Users[i], Channels[c]>>)])])

\* The loop goes over the batch, a lead named twice twice.
Announce(batch, new) ==
  FlattenSeq([i \in DOMAIN batch |->
    IF batch[i] \in new THEN NoticesOf(batch[i]) ELSE <<>>])

\* How often a list names a notice.
Copies(n, list) == Cardinality({i \in DOMAIN list : list[i] = n})

ASSUME CopiesAssumption ==
  /\ MaxCopies \in Nat \ {0}
  /\ \A batch \in Batches : \A n \in Notices :
       Copies(n, Announce(batch, Range(batch))) <= MaxCopies

\* On to the next attempt.
Rest == Tail(todo)

\* Mutant: a channel that was told returns from the dispatch.
AfterSuccessStops ==
  SelectSeq(Rest, LAMBDA n : ~ /\ ChannelOf(Head(todo)) = "telegram"
                               /\ n = <<LeadOf(Head(todo)), UserOf(Head(todo)), "email">>)

AfterSuccess == Rest

\* The e-mail of a lead and user shares a try with their telegram message: an
\* exception in the first takes the second with it.  The push has its own.
AfterException ==
  IF /\ ChannelOf(Head(todo)) = "telegram" /\ Rest # <<>>
     /\ Head(Rest) = <<LeadOf(Head(todo)), UserOf(Head(todo)), "email">>
  THEN Tail(Rest)
  ELSE Rest

\* Nothing of the tick is in memory any more.
Drop == todo' = <<>> /\ step' = "check"

--------------------------------------------------------------------------------
Init ==
  /\ stored = {} /\ todo = <<>> /\ step = "check"
  /\ sent = [n \in Notices |-> 0]
  /\ logged = {}
  /\ mishaps = 0

\* upsert_opportunities_batch: the rows that were inserted are the new leads.
Persist(batch) ==
  /\ todo = <<>>
  /\ stored' = stored \cup Range(batch)
  /\ todo' = Announce(batch, Range(batch) \ stored)
  /\ NoMishap
  /\ UNCHANGED <<step, sent, logged>>

\* Without a database nothing is stored and everything is new.
PersistSkipped(batch) ==
  /\ todo = <<>>
  /\ Mishap("skipped")
  /\ todo' = Announce(batch, Range(batch))
  /\ UNCHANGED <<stored, step, sent, logged>>

\* The statement raises, committed or not: the batch is given up.
PersistRaises(batch) ==
  /\ todo = <<>>
  /\ Mishap("raised")
  /\ stored' \in {stored, stored \cup Range(batch)}
  /\ UNCHANGED <<todo, step, sent, logged>>

\* Mutant: the dispatch logs are not consulted.
NeverDispatched(n) == FALSE

\* has_alert_been_dispatched, has_push_been_dispatched.
AlreadyDispatched(n) == n \in logged

Check ==
  /\ todo # <<>> /\ step = "check"
  /\ IF AlreadyDispatched(Head(todo))
     THEN todo' = Rest /\ step' = step
     ELSE todo' = todo /\ step' = "send"
  /\ NoMishap
  /\ UNCHANGED <<stored, sent, logged>>

\* No database: no log to find the notice in.
CheckSkipped ==
  /\ todo # <<>> /\ step = "check"
  /\ Mishap("skipped")
  /\ step' = "send"
  /\ UNCHANGED <<stored, todo, sent, logged>>

CheckRaises ==
  /\ todo # <<>> /\ step = "check"
  /\ Mishap("raised")
  /\ todo' = AfterException
  /\ UNCHANGED <<stored, step, sent, logged>>

\* The transport accepts the message (for a push, on one device at least).
Deliver ==
  /\ todo # <<>> /\ step = "send"
  /\ sent' = [sent EXCEPT ![Head(todo)] = @ + 1]
  /\ step' = "record"
  /\ NoMishap
  /\ UNCHANGED <<stored, todo, logged>>

\* Mutant: dispatched is recorded whatever the transport said.
DeliveryFailsLogged ==
  /\ todo # <<>> /\ step = "send"
  /\ Mishap("send")
  /\ logged' = logged \cup {Head(todo)}
  /\ todo' = Rest /\ step' = "check"
  /\ UNCHANGED <<stored, sent>>

\* No transport accepts it; nothing is recorded.
DeliveryFails ==
  /\ todo # <<>> /\ step = "send"
  /\ Mishap("send")
  /\ todo' = Rest /\ step' = "check"
  /\ UNCHANGED <<stored, sent, logged>>

\* alert_dispatch_log refers to the lead's row, push_dispatch_log to no row: the
\* alert of a lead whose upsert was skipped finds nothing to refer to.
Referable(n) == ChannelOf(n) = "push" \/ LeadOf(n) \in stored

\* record_alert_dispatch, record_push_dispatch: the INSERT lands, or its foreign
\* key refuses it, an exception like any other.
Record ==
  /\ todo # <<>> /\ step = "record"
  /\ IF Referable(Head(todo))
     THEN logged' = logged \cup {Head(todo)} /\ todo' = AfterSuccess
     ELSE logged' = logged /\ todo' = AfterException
  /\ step' = "check"
  /\ NoMishap
  /\ UNCHANGED <<stored, sent>>

RecordSkipped ==
  /\ todo # <<>> /\ step = "record"
  /\ Mishap("skipped")
  /\ todo' = AfterSuccess /\ step' = "check"
  /\ UNCHANGED <<stored, sent, logged>>

\* The INSERT raises, with or without its effect.
RecordRaises ==
  /\ todo # <<>> /\ step = "record"
  /\ Mishap("raised")
  /\ \/ logged' = logged
     \/ Referable(Head(todo)) /\ logged' = logged \cup {Head(todo)}
  /\ todo' = AfterException /\ step' = "check"
  /\ UNCHANGED <<stored, sent>>

\* A restart, or the outer timeout of the tick, between any two awaits.
TickStops ==
  /\ Mishap("stop")
  /\ Drop
  /\ UNCHANGED <<stored, sent, logged>>

Next ==
  \/ \E batch \in Batches : Persist(batch) \/ PersistSkipped(batch) \/ PersistRaises(batch)
  \/ Check \/ CheckSkipped \/ CheckRaises
  \/ Deliver \/ DeliveryFails
  \/ Record \/ RecordSkipped \/ RecordRaises
  \/ TickStops

Spec == Init /\ [][Next]_vars

\* Ticks keep coming and keep fetching every batch, and the loop advances; of
\* the faults nothing is assumed but that MaxMishaps bounds them.
FairSpec ==
  /\ Spec
  /\ \A batch \in Batches : WF_vars(Persist(batch))
  /\ WF_vars(Check) /\ WF_vars(Deliver) /\ WF_vars(Record)

--------------------------------------------------------------------------------
(* Properties.                                                             *)

TypeOK ==
  /\ stored \subseteq Leads
  /\ todo \in Seq(Wanted)
  /\ step \in {"check", "send", "record"}
  /\ sent \in [Notices -> Nat]
  /\ logged \subseteq Wanted
  /\ mishaps \in 0..MaxMishaps

\* What one fault may repeat: a push once.  An alert may go out for every copy
\* its batch holds, if the fault kept the lead's row from being written, for
\* then the dispatch log refuses each of them.
Cost(n) == IF ChannelOf(n) = "push" THEN 1 ELSE MaxCopies

\* A notice is repeated only if something went wrong: a batch naming a lead
\* twice, a later tick and a restart repeat nothing, and what a fault repeats
\* is bounded by the batch it hit.
RepeatsNeedFaults == \A n \in Notices : sent[n] <= 1 + mishaps * Cost(n)

\* The dispatch logs never claim a notice nobody received.
LogIsTruthful == \A n \in logged : sent[n] >= 1

\* Undisturbed, a stored lead has been told to everyone who wants it, on
\* every channel, or is about to be.
NobodyForgotten ==
  mishaps = 0 => \A n \in Wanted :
    LeadOf(n) \in stored => sent[n] = 1 \/ \E i \in DOMAIN todo : todo[i] = n

--------------------------------------------------------------------------------
(* A claim of the repository's comments.                                   *)

\* orchestrator.py:440 "Recorded only on real delivery, so a total
\* push-service outage leaves the notification eligible for the next tick":
\* once the outage is over, the push of a stored lead is delivered.
OutageOnlyDelaysPush ==
  \A n \in Wanted :
    (ChannelOf(n) = "push" /\ LeadOf(n) \in stored) ~> sent[n] >= 1
================================================================================

---------------------------- MODULE SourceSchedule ----------------------------
(***************************************************************************)
(* Which sources an ingestion tick runs: scrapers/orchestrator.py (run_tick*)
(* up to the results, _due_with_priority, _admit_within_weight_budget),    *)
(* scrapers/circuit_breaker.py and the source_run_log row of db.py.        *)
(*                                                                         *)
(* api.py's tick lock makes ticks sequential.  Within one, the admitted    *)
(* scrapers run at the same time and answer in any order; each answer is   *)
(* recorded by up to three database calls, any of which may raise or find  *)
(* no database; the deadline and a restart drop the scrapers still running *)
(* without a trace.  Time is counted in heartbeats: a row's timestamps are *)
(* kept as ages.                                                           *)
(***************************************************************************)
EXTENDS Integers, Sequences, FiniteSets, Functions

CONSTANTS
  Declared,         \* the sources, in the order __init__ appends them
  Interval,         \* Interval[s]: poll_interval_minutes, in heartbeats
  Weight,           \* Weight[s]: SCRAPER_EXECUTION_WEIGHT
  MaxTickWeight,    \* MAX_TICK_WEIGHT
  OpenAfter,        \* OPEN_AFTER_FAILURES
  Cooldown,         \* the 30 minutes of get_circuit_state, in heartbeats
  StaleTicks,       \* STALE_ZERO_STREAK_MIN_TICKS
  StaleTime,        \* STALE_ZERO_STREAK_MIN_MINUTES, in heartbeats
  Flaky,            \* sources whose scraper may raise
  Silent,           \* sources whose scraper may return an empty list
  Losers,           \* sources that may still be running at the deadline
  DbFaults,         \* what a call may do besides landing
  MaxMishaps,       \* bound: database faults and restarts
  AgeCap            \* bound: ages saturate here

Sources == Range(Declared)

ASSUME SourceAssumption ==
  Declared \in Seq(Sources) /\ IsInjective(Declared) /\ Sources # {}
ASSUME ScheduleAssumption ==
  /\ Interval \in [Sources -> Nat \ {0}] /\ Weight \in [Sources -> Nat \ {0}]
  /\ MaxTickWeight \in Nat
ASSUME BreakerAssumption ==
  {OpenAfter, Cooldown, StaleTicks} \subseteq Nat \ {0} /\ StaleTime \in Nat
ASSUME EnvironmentAssumption ==
  /\ Flaky \cup Silent \cup Losers \subseteq Sources
  /\ DbFaults \subseteq {"skipped", "raised"}
ASSUME BoundAssumption ==
  {MaxMishaps, AgeCap} \subseteq Nat /\ \A s \in Sources : Interval[s] < AgeCap

VARIABLES
  tick,       \* "idle", "due" (dispatched, nothing decided yet), "running"
  inflight,   \* the tasks of run_tick that have not answered
  age,        \* age[s]: heartbeats since last_run_at, Never without a row
  failures,   \* consecutive_failures, saturating at OpenAfter
  circuit,    \* circuit_state
  openAge,    \* heartbeats since circuit_opened_at, saturating at Cooldown
  streak,     \* consecutive_zero_result_runs, saturating at StaleStreak
  marked,     \* stale_alert_fired_at is set
  alerts,     \* stale alerts sent in the current zero streak (history)
  mishaps     \* faults and restarts so far

row == <<age, failures, circuit, openAge, streak, marked>>
vars == <<tick, inflight, row, alerts, mishaps>>

--------------------------------------------------------------------------------
(* Due sources and their order.                                            *)

Never == AgeCap + 1

\* ratio(s) > ratio(t) by the last runs the tick knows of, where a source that
\* never ran is infinitely overdue.
MoreOverdue(last, s, t) ==
  IF last[s] = Never \/ last[t] = Never
  THEN last[s] = Never /\ last[t] # Never
  ELSE last[s] * Interval[t] > last[t] * Interval[s]

Position(s) == CHOOSE i \in DOMAIN Declared : Declared[i] = s

\* Mutant: the ordering before _due_with_priority, shortest interval first.
AheadByInterval(last, s, t) ==
  \/ Interval[s] < Interval[t]
  \/ Interval[s] = Interval[t] /\ Position(s) < Position(t)

\* The sort is stable, so the declaration order settles full ties.
Ahead(last, s, t) ==
  \/ MoreOverdue(last, s, t)
  \/ /\ ~MoreOverdue(last, t, s)
     /\ \/ Interval[s] < Interval[t]
        \/ Interval[s] = Interval[t] /\ Position(s) < Position(t)

Due(last, eligible) == {s \in eligible : last[s] = Never \/ last[s] >= Interval[s]}

\* The sorted list, as the place of every due source in it.
DueWithPriority(last, eligible) ==
  LET due == Due(last, eligible)
  IN [s \in due |-> Cardinality({t \in due : Ahead(last, t, s)})]

TotalWeight(S) == Cardinality(UNION {{s} \X (1..Weight[s]) : s \in S})

\* Mutant: the budget is only a reason to stop once it is already spent.
AdmitUntilSpent(place) ==
  LET n == Cardinality(DOMAIN place)
      admitted[i \in 0..n] ==
        IF i = 0 THEN {}
        ELSE admitted[i-1] \cup
               {s \in DOMAIN place :
                  /\ place[s] = i - 1
                  /\ admitted[i-1] = {} \/ TotalWeight(admitted[i-1]) < MaxTickWeight}
  IN admitted[n]

\* First fit, and always the first one whatever its weight.
AdmitWithinWeightBudget(place) ==
  LET n == Cardinality(DOMAIN place)
      admitted[i \in 0..n] ==
        IF i = 0 THEN {}
        ELSE admitted[i-1] \cup
               {s \in DOMAIN place :
                  /\ place[s] = i - 1
                  /\ \/ admitted[i-1] = {}
                     \/ TotalWeight(admitted[i-1]) + Weight[s] <= MaxTickWeight}
  IN admitted[n]

--------------------------------------------------------------------------------
(* Database calls.                                                         *)

\* Of n calls made in order, which land and how many come back.  A call that
\* raises is the last one made, and may have taken effect.
CallsUpTo(n) ==
  {c \in [landed : SUBSET (1..n), back : 0..n] :
     /\ c.landed \subseteq 1..(c.back + 1)
     /\ "raised" \notin DbFaults => c.back = n
     /\ "skipped" \notin DbFaults => 1..c.back \subseteq c.landed}

Clean(n) == [landed |-> 1..n, back |-> n]

\* Only so many calls go wrong in a behavior.
CountMishap(mishap) ==
  /\ mishap => mishaps < MaxMishaps
  /\ mishaps' = IF mishap THEN mishaps + 1 ELSE mishaps

\* Bound of the history: one more than the property allows.
AlertCap == MaxMishaps + 2

AtMost(n, bound) == IF n < bound THEN n ELSE bound

\* The streak from which a source is stale, both gates together.
StaleStreak(s) ==
  CHOOSE n \in 1..(StaleTicks + StaleTime) :
    /\ n >= StaleTicks /\ n * Interval[s] >= StaleTime
    /\ \A m \in 1..(n - 1) : ~(m >= StaleTicks /\ m * Interval[s] >= StaleTime)

--------------------------------------------------------------------------------
Init ==
  /\ tick = "idle"
  /\ inflight = {}
  /\ age = [s \in Sources |-> Never]
  /\ failures = [s \in Sources |-> 0]
  /\ circuit = [s \in Sources |-> "closed"]
  /\ openAge = [s \in Sources |-> 0]
  /\ streak = [s \in Sources |-> 0]
  /\ marked = [s \in Sources |-> FALSE]
  /\ alerts = [s \in Sources |-> 0]
  /\ mishaps = 0

\* Five minutes pass and the workflow posts /api/v1/system/tick.
Heartbeat ==
  /\ tick = "idle"
  /\ tick' = "due"
  /\ age' = [s \in Sources |-> IF age[s] = Never THEN Never ELSE AtMost(age[s] + 1, AgeCap)]
  /\ openAge' = [s \in Sources |-> IF circuit[s] = "closed" THEN 0
                                   ELSE AtMost(openAge[s] + 1, Cooldown)]
  /\ UNCHANGED <<inflight, failures, circuit, streak, marked, alerts, mishaps>>

\* Mutant: an open circuit stays open.
NeverCooled == {}

\* get_circuit_state: an open circuit whose cooldown is over is half-opened.
Cooled == {s \in Sources : circuit[s] = "open" /\ openAge[s] >= Cooldown}

\* Mutant: a state no reader of the column knows.
HalfOpenedMisspelt(S) == [s \in Sources |-> IF s \in S THEN "half-open" ELSE circuit[s]]

HalfOpened(S) == [s \in Sources |-> IF s \in S THEN "half_open" ELSE circuit[s]]

\* run_tick decides: is_open per source, due, ranked, admitted.
StartTick ==
  LET eligible == {s \in Sources : circuit[s] # "open"} \cup Cooled IN
  /\ tick = "due"
  /\ circuit' = HalfOpened(Cooled)
  /\ inflight' = AdmitWithinWeightBudget(DueWithPriority(age, eligible))
  /\ tick' = "running"
  /\ UNCHANGED <<age, failures, openAge, streak, marked, alerts, mishaps>>

\* Calls of the setup made while there is no database: an unseen circuit counts
\* as closed, a cooled one may miss its half-opening, and without the read of
\* the last runs no source has one.  One fault covers any of them in a tick.
StartTickBlind ==
  /\ tick = "due"
  /\ "skipped" \in DbFaults /\ CountMishap(TRUE)
  /\ \E unseen \in SUBSET Sources, opened \in SUBSET Cooled,
        last \in {age, [s \in Sources |-> Never]} :
       LET eligible == {s \in Sources : circuit[s] # "open"} \cup Cooled \cup unseen IN
       /\ circuit' = HalfOpened(opened)
       /\ inflight' = AdmitWithinWeightBudget(DueWithPriority(last, eligible))
  /\ tick' = "running"
  /\ UNCHANGED <<age, failures, openAge, streak, marked, alerts>>

\* A query of the setup raises: the tick is over before it ran anything.
StartTickRaises ==
  /\ tick = "due"
  /\ "raised" \in DbFaults /\ CountMishap(TRUE)
  /\ \E S \in SUBSET Cooled : circuit' = HalfOpened(S)
  /\ tick' = "idle"
  /\ UNCHANGED <<inflight, age, failures, openAge, streak, marked, alerts>>

Answers(s) ==
  /\ tick = "running" /\ s \in inflight
  /\ inflight' = inflight \ {s}
  /\ tick' = tick

\* An UPDATE finds the row only if the source has ever been recorded.
HasRow(s) == age[s] # Never

\* Mutant: an off-by-one in the threshold.
TripsEarly(count) == count >= OpenAfter - 1

Trips(count) == count >= OpenAfter

\* A scraper raised: record_result counts the failure, reads the count back
\* and opens the circuit from the third one on.
RecordFailure(s, calls) ==
  LET counted == AtMost(failures[s] + 1, OpenAfter)
      known == 1 \in calls.landed \/ HasRow(s)
      readBack == IF 1 \in calls.landed THEN counted
                  ELSE IF HasRow(s) THEN failures[s] ELSE 1
      opens == 2 \in calls.landed /\ calls.back >= 2 /\ Trips(readBack)
               /\ 3 \in calls.landed /\ known
  IN
  /\ IF 1 \in calls.landed
     THEN age' = [age EXCEPT ![s] = 0] /\ failures' = [failures EXCEPT ![s] = counted]
     ELSE UNCHANGED <<age, failures>>
  /\ IF opens
     THEN circuit' = [circuit EXCEPT ![s] = "open"] /\ openAge' = [openAge EXCEPT ![s] = 0]
     ELSE UNCHANGED <<circuit, openAge>>
  /\ UNCHANGED <<streak, marked, alerts>>

Fails(s) ==
  /\ Answers(s) /\ s \in Flaky
  /\ \E calls \in CallsUpTo(3) :
       RecordFailure(s, calls) /\ CountMishap(calls # Clean(3))

\* Mutant: the mark is not consulted.
IsStaleEveryRun(s, n, alreadyMarked) == n >= StaleStreak(s)

IsStaleStreak(s, n, alreadyMarked) == n >= StaleStreak(s) /\ ~alreadyMarked

\* A scraper returned a list: record_result resets the failures, extends or
\* ends the zero streak and closes the circuit; a streak that has become
\* stale is marked, then announced to the operator.
RecordSuccess(s, empty, calls) ==
  LET longer == IF empty THEN AtMost(streak[s] + 1, StaleStreak(s)) ELSE 0
      wasMarked == empty /\ marked[s]
      stale == 1 \in calls.landed /\ calls.back >= 2 /\ IsStaleStreak(s, longer, wasMarked)
      announced == stale /\ calls.back >= 3
  IN
  /\ IF 1 \in calls.landed
     THEN /\ age' = [age EXCEPT ![s] = 0]
          /\ failures' = [failures EXCEPT ![s] = 0]
          /\ streak' = [streak EXCEPT ![s] = longer]
          /\ marked' = [marked EXCEPT ![s] = wasMarked \/ (stale /\ 3 \in calls.landed)]
          /\ alerts' = [alerts EXCEPT ![s] = IF ~empty THEN 0
                                             ELSE IF announced THEN AtMost(@ + 1, AlertCap) ELSE @]
     ELSE UNCHANGED <<age, failures, streak, marked, alerts>>
  /\ IF 2 \in calls.landed
     THEN circuit' = [circuit EXCEPT ![s] = "closed"] /\ openAge' = [openAge EXCEPT ![s] = 0]
     ELSE UNCHANGED <<circuit, openAge>>

Succeeds(s) ==
  /\ Answers(s)
  /\ \E empty \in {FALSE} \cup {s \in Silent}, calls \in CallsUpTo(3) :
       RecordSuccess(s, empty, calls) /\ CountMishap(calls # Clean(3))

\* The soft deadline: what is still running is cancelled, and leaves no row.
DeadlinePasses ==
  /\ tick = "running" /\ inflight # {} /\ inflight \subseteq Losers
  /\ inflight' = {}
  /\ UNCHANGED <<tick, row, alerts, mishaps>>

FinishTick ==
  /\ tick = "running" /\ inflight = {}
  /\ tick' = "idle"
  /\ UNCHANGED <<inflight, row, alerts, mishaps>>

\* A restart drops a running tick; lifespan dispatches one of its own.
Restart ==
  /\ CountMishap(TRUE)
  /\ inflight' = {}
  /\ tick' = "due"
  /\ UNCHANGED <<row, alerts>>

Next ==
  \/ Heartbeat \/ StartTick \/ StartTickBlind \/ StartTickRaises
  \/ \E s \in Sources : Fails(s) \/ Succeeds(s)
  \/ DeadlinePasses \/ FinishTick \/ Restart

Spec == Init /\ [][Next]_vars

(***************************************************************************)
(* Fairness.  The heartbeat keeps coming, run_tick makes progress, a       *)
(* scraper outside Losers answers before the deadline, and for the others  *)
(* the deadline does pass.  Whether an answer is a failure or a success,   *)
(* and whether a loser ever answers, is left open.                         *)
(***************************************************************************)
FairSpec ==
  /\ Spec
  /\ WF_vars(Heartbeat) /\ WF_vars(StartTick) /\ WF_vars(FinishTick)
  /\ WF_vars(DeadlinePasses)
  /\ \A s \in Sources \ Losers : WF_vars(Fails(s) \/ Succeeds(s))

--------------------------------------------------------------------------------
(* Properties.                                                             *)

TypeOK ==
  /\ tick \in {"idle", "due", "running"}
  /\ inflight \subseteq Sources
  /\ age \in [Sources -> 0..Never]
  /\ failures \in [Sources -> 0..OpenAfter]
  /\ circuit \in [Sources -> {"closed", "open", "half_open"}]
  /\ openAge \in [Sources -> 0..Cooldown]
  /\ streak \in [Sources -> Nat] /\ \A s \in Sources : streak[s] <= StaleStreak(s)
  /\ marked \in [Sources -> BOOLEAN]
  /\ alerts \in [Sources -> 0..AlertCap]
  /\ mishaps \in 0..MaxMishaps

\* The scrapers racing one deadline never outweigh MAX_TICK_WEIGHT, except
\* for one that alone is heavier than it.
LoadBounded ==
  TotalWeight(inflight) <= MaxTickWeight \/ Cardinality(inflight) = 1

\* No single database fault or restart can shut out a source whose row does
\* not count enough consecutive failures: it takes a tick that ran blind past
\* an open circuit and a lost close_circuit after it.
NoShutOutBySingleFault ==
  \A s \in Sources :
    circuit[s] = "open" /\ failures[s] < OpenAfter => mishaps >= 2

\* The staleness watchdog speaks once per zero streak, and once more at most
\* for every fault that lost its mark.
OneStaleAlertPerStreak == \A s \in Sources : alerts[s] <= 1 + mishaps

\* Sources that answer before the deadline, and how overdue one of them can get
\* before it goes ahead of every other that ran since: it waits for its own
\* interval, for its circuit, or for the others to have run.
Punctual == Sources \ Losers
Patience(s) ==
  LET waits == {Interval[s], Cooldown, (Cardinality(Punctual) - 1) * Interval[s]}
  IN CHOOSE p \in waits : \A w \in waits : w <= p

\* What one fault may cost: a cooldown, and a run of each punctual source.
Round == Cooldown + Cardinality(Punctual)

\* Deferral, an open circuit and faults delay a punctual source by a bounded
\* number of heartbeats: once it is more overdue than any that just ran, each of
\* the others goes before it once at most, and a fault costs one more round.
LatenessBounded ==
  \A s \in Punctual :
    age[s] # Never =>
      age[s] <= Patience(s) + Cardinality(Punctual) + mishaps * Round

\* What the bound needs of the constants: the sources that may miss the deadline
\* fit one tick beside any one other, and ages are not capped below the bound.
LosersLeaveRoom ==
  \A s \in Punctual :
    Losers = {} \/ TotalWeight(Losers) + Weight[s] <= MaxTickWeight
AgesSuffice ==
  \A s \in Punctual :
    Patience(s) + Cardinality(Punctual) + MaxMishaps * Round < AgeCap

\* Every source that can meet the deadline keeps being recorded, however
\* heavy it is, however often others are due and however long it was shut
\* out: deferral changes when it runs, never whether (orchestrator.py:541).
EverySourceRuns == \A s \in Sources \ Losers : []<>(age[s] = 0)
================================================================================

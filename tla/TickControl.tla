------------------------------ MODULE TickControl ------------------------------
(***************************************************************************)
(* What starts an ingestion tick and what it leaves on record: the         *)
(* heartbeat route, the background job and _run_tick_locked of api.py, and *)
(* of scrapers/orchestrator.py the frame of run_tick around the sources    *)
(* (which are SourceSchedule) and their batches (LeadAlerts): start_tick   *)
(* and finish_tick, the two deadlines, the data-freshness watchdog.        *)
(***************************************************************************)
EXTENDS Integers, FiniteSets

CONSTANTS
  Runs,      \* tasks that may be dispatched at once
  Sources,   \* sources a tick may find due
  None

VARIABLES
  waiting,   \* dispatched tasks that do not hold _tick_lock yet
  holder,    \* the task that holds it
  tick,      \* the tick it runs
  row,       \* its row in system_ticks, and what the row does not say (history)
  stale,     \* whether the newest last_seen_at is older than the threshold
  fired,     \* _data_stale_alert_fired
  episode    \* this spell of stale or fresh data: how often alerted, whether a
             \* tick noticed it, whether the one before went unseen (history)

vars == <<waiting, holder, tick, row, stale, fired, episode>>

NoTick == [at |-> "off", left |-> {}, errors |-> FALSE, lost |-> FALSE, cut |-> FALSE]
NoRow == [kept |-> FALSE, errors |-> None, lost |-> FALSE, cut |-> FALSE]
Fresh == [alerts |-> 0, noticed |-> FALSE, unseen |-> FALSE]

Init ==
  /\ waiting = {} /\ holder = None
  /\ tick = NoTick /\ row = NoRow
  /\ stale = FALSE /\ fired = FALSE /\ episode = Fresh

data == <<stale, fired, episode>>
tasks == <<waiting, holder>>

--------------------------------------------------------------------------------
\* _tick_lock.locked() is looked at, and the task takes the lock later: several
\* may be dispatched before one has it, and then run one after the other.
NotLocked == holder = None

\* POST /api/v1/system/tick, start-up and the six-hourly job; answered
\* "already_running" or skipped under the lock.
Dispatch(r) ==
  /\ NotLocked /\ r \notin waiting
  /\ waiting' = waiting \cup {r}
  /\ UNCHANGED <<holder, tick, row, data>>

TakeLock(r) ==
  /\ r \in waiting /\ holder = None
  /\ holder' = r /\ waiting' = waiting \ {r}
  /\ tick' = [NoTick EXCEPT !.at = "start"]
  /\ row' = NoRow
  /\ UNCHANGED data

\* _run_tick_locked catches what run_tick raises and releases the lock.
Release == holder' = None /\ tick' = NoTick /\ UNCHANGED waiting

\* start_tick stands before the guarded region; it returns None without a
\* database.
Start ==
  /\ tick.at = "start"
  /\ \/ /\ \E kept \in BOOLEAN : row' = [NoRow EXCEPT !.kept = kept]
        /\ tick' = [tick EXCEPT !.at = "setup"] /\ UNCHANGED tasks
     \/ Release /\ row' = row
  /\ UNCHANGED data

\* Profiles, registrations, circuits and last runs: any of them may raise.
SetUp ==
  /\ tick.at = "setup"
  /\ \/ \E due \in SUBSET Sources : tick' = [tick EXCEPT !.at = "collect", !.left = due]
     \/ tick' = [tick EXCEPT !.at = "finish", !.cut = TRUE]
  /\ UNCHANGED <<tasks, row, data>>

\* One source is through: it failed, or its success is on record and the batch
\* is next.
Collect ==
  /\ tick.at = "collect" /\ tick.left # {}
  /\ \E s \in tick.left :
       \/ tick' = [tick EXCEPT !.left = @ \ {s}, !.errors = TRUE]
       \/ tick' = [tick EXCEPT !.left = @ \ {s}, !.at = "persist"]
  /\ UNCHANGED <<tasks, row, data>>

\* Mutant: a failed batch is not an error.
BatchFailsQuietly == [tick EXCEPT !.at = "collect", !.lost = TRUE]

BatchFails == [tick EXCEPT !.at = "collect", !.lost = TRUE, !.errors = TRUE]

\* The batch is saved (the data is fresh again, and an alert of its leads may
\* fail), is empty, fails, or meets a database that is away: nothing is saved
\* and nothing raised.
Persist ==
  /\ tick.at = "persist"
  /\ \/ /\ \E failed \in BOOLEAN :
             tick' = [tick EXCEPT !.at = "collect", !.errors = @ \/ failed]
        /\ \/ /\ stale' = FALSE
              /\ episode' = IF stale THEN Fresh ELSE episode
              /\ UNCHANGED fired
           \/ UNCHANGED data
     \/ tick' = BatchFails /\ UNCHANGED data
     \/ tick' = [tick EXCEPT !.at = "collect", !.lost = TRUE, !.cut = TRUE]
        /\ UNCHANGED data
  /\ UNCHANGED <<tasks, row>>

\* The soft deadline: as_completed times out, or a source that is already
\* recorded as a success is not persisted any more.
SoftDeadline ==
  /\ \/ tick.at = "collect" /\ tick' = [tick EXCEPT !.at = "watch", !.left = {}]
     \/ tick.at = "persist"
        /\ tick' = [tick EXCEPT !.at = "watch", !.left = {}, !.lost = TRUE, !.cut = TRUE]
  /\ UNCHANGED <<tasks, row, data>>

AllCollected ==
  /\ tick.at = "collect" /\ tick.left = {}
  /\ tick' = [tick EXCEPT !.at = "watch"]
  /\ UNCHANGED <<tasks, row, data>>

--------------------------------------------------------------------------------
\* Mutant: the watchdog is never armed again.
StaysFired == TRUE

Rearmed == FALSE

\* The freshness check; the query may fail, or there is no data at all.
Watch ==
  /\ tick.at = "watch"
  /\ \/ /\ fired' = IF stale THEN TRUE ELSE IF fired THEN Rearmed ELSE fired
        /\ episode' = IF ~stale THEN [Fresh EXCEPT !.noticed = TRUE]
             ELSE [episode EXCEPT !.noticed = TRUE,
                                  !.alerts = IF fired THEN @ ELSE @ + 1]
     \/ UNCHANGED <<fired, episode>>
  /\ tick' = [tick EXCEPT !.at = "finish"]
  /\ UNCHANGED <<tasks, row, stale>>

\* finish_tick in the finally; it may fail, and without a row it does nothing.
Finish ==
  /\ tick.at = "finish"
  /\ \/ row' = IF row.kept THEN [row EXCEPT !.errors = tick.errors,
                                            !.lost = tick.lost, !.cut = tick.cut]
               ELSE row
     \/ row' = [row EXCEPT !.kept = FALSE]
  /\ Release
  /\ UNCHANGED data

\* The outer timeout cancels the tick wherever it is, or refining a signal
\* raises; the finally still runs.
HardDeadline ==
  /\ tick.at \in {"collect", "persist", "watch"}
  /\ tick' = [tick EXCEPT !.at = "finish", !.left = {}, !.cut = TRUE,
                          !.lost = @ \/ tick.at = "persist"]
  /\ UNCHANGED <<tasks, row, data>>

\* A new process: tasks, lock and flag are gone; the row stays as it is.
Restart ==
  /\ waiting' = {} /\ holder' = None /\ tick' = NoTick
  /\ row' = IF tick.at = "off" THEN row ELSE [row EXCEPT !.kept = FALSE]
  /\ fired' = FALSE
  /\ episode' = Fresh
  /\ UNCHANGED stale

\* Nothing was saved for longer than the threshold.
GoStale ==
  /\ ~stale /\ stale' = TRUE
  /\ episode' = [Fresh EXCEPT !.unseen = fired /\ ~episode.noticed]
  /\ UNCHANGED <<tasks, tick, row, fired>>

Next ==
  \/ \E r \in Runs : Dispatch(r) \/ TakeLock(r)
  \/ Start \/ SetUp \/ Collect \/ Persist \/ SoftDeadline \/ AllCollected
  \/ Watch \/ Finish \/ HardDeadline \/ Restart \/ GoStale

Spec == Init /\ [][Next]_vars

--------------------------------------------------------------------------------
(* Properties *)

TypeOK ==
  /\ waiting \subseteq Runs /\ holder \in Runs \cup {None}
  /\ tick.at \in {"off", "start", "setup", "collect", "persist", "watch", "finish"}
  /\ (tick.at = "off") = (holder = None)
  /\ row.errors \in BOOLEAN \cup {None} /\ episode.alerts \in 0..2
  /\ {stale, fired, row.kept, tick.errors, tick.lost, tick.cut} \subseteq BOOLEAN

\* A tick whose row stays with the database has it completed, and a row with
\* no errors, the one /system/status counts as a success, means that nothing
\* fetched was lost - except where the tick was cut short (a deadline after a
\* recorded success, a set-up that raised) or there was no database to save to.
CompletedTicksAreHonest ==
  tick.at = "off" /\ row.kept =>
    /\ row.errors # None
    /\ row.errors = FALSE => ~row.lost \/ row.cut

\* Data that stopped moving is alerted once in each spell the watchdog
\* notices, also after an earlier spell, unless no tick noticed that the
\* earlier one had ended (orchestrator.py 700-730).
StaleDataAlertedOnce ==
  /\ episode.alerts <= 1
  /\ stale /\ episode.noticed /\ ~episode.unseen => episode.alerts = 1
================================================================================

----------------------------- MODULE PushRegistry -----------------------------
(***************************************************************************)
(* Which telephone belongs to whom: push_subscriptions of db.py, the       *)
(* /notifications routes and the two that send, the ingestion tick and the *)
(* test button (push_notifications.dispatch_to_user).  Each sender reads   *)
(* the registrations once and works from that copy while users subscribe,  *)
(* unsubscribe, change hands and change their preferences.                 *)
(*                                                                         *)
(* last_success_at and failure_count are written and never read: left out. *)
(* What was already pushed is LeadAlerts.                                  *)
(***************************************************************************)
EXTENDS Integers, FiniteSets

CONSTANTS
  Devices, Users, None,
  Senders    \* "tick", "test", or both

Switches == {"push", "radar"}      \* push_enabled, push_radar_enabled
Leads == {"excluded", "match", "low match", "outlier", "other"}

VARIABLES
  rows,      \* <<device, user>> with a row in push_subscriptions
  holder,    \* holder[d]: who last subscribed device d
  alive,     \* devices the push service still knows
  prefs,     \* prefs[u]: the switches u has on
  job,       \* job[s]: what sender s copied, and the device it is at
  event      \* the delivery or unsubscription just made, if the last step was one

vars == <<rows, holder, alive, prefs, job, event>>

\* "astray" are copied registrations of a device another user had subscribed.
Asleep == [at |-> "asleep", copy |-> {}, astray |-> {}, prefs |-> None,
           left |-> {}, reason |-> None, now |-> None]

Init ==
  /\ rows = {} /\ holder = [d \in Devices |-> None] /\ alive = Devices
  /\ prefs = [u \in Users |-> Switches]
  /\ job = [s \in Senders |-> Asleep]
  /\ event = None

\* Registrations that are not their device's last subscriber's.
Astray == {r \in rows : holder[r[1]] # r[2]}

--------------------------------------------------------------------------------
\* Mutant: ON CONFLICT (user_id, endpoint).
UpsertPair(d, u) == rows \cup {<<d, u>>}

\* ON CONFLICT (endpoint) DO UPDATE: one row per device.
Upsert(d, u) == {r \in rows : r[1] # d} \cup {<<d, u>>}

Subscribe(u, d) ==
  /\ rows' = Upsert(d, u)
  /\ holder' = [holder EXCEPT ![d] = u]
  /\ event' = None
  /\ UNCHANGED <<alive, prefs, job>>

\* Mutant: WHERE endpoint = $1.
Unscoped(d, u) == {r \in rows : r[1] # d}

\* A request deletes WHERE endpoint = $1 AND user_id = $2.
Scoped(d, u) == rows \ {<<d, u>>}

\* Of any user and any device whose endpoint he knows.
Unsubscribe(u, d) ==
  /\ rows' = Scoped(d, u)
  /\ event' = [reason |-> "unsubscribe", row |-> <<d, u>>]
  /\ UNCHANGED <<holder, alive, prefs, job>>

\* A partial update: what the request leaves out stays (COALESCE).
Prefer(u, on, off) ==
  /\ prefs' = [prefs EXCEPT ![u] = (@ \cup on) \ off]
  /\ event' = None
  /\ UNCHANGED <<rows, holder, alive, job>>

\* Permission revoked, site data cleared: the endpoint is gone for good.
Revoke(d) ==
  /\ alive' = alive \ {d}
  /\ event' = None
  /\ UNCHANGED <<rows, holder, prefs, job>>

--------------------------------------------------------------------------------
\* Mutant: the radar asks for its own switch only.
DecideRadarAlone(lead, on) ==
  CASE lead = "excluded" -> None
    [] lead = "match" /\ "push" \in on -> "criteria"
    [] lead = "outlier" /\ "radar" \in on -> "radar"
    [] OTHER -> None

(***************************************************************************)
(* decide_push: the reason to push a lead to a user, or None.  An exclusion*)
(* outranks all; a match below the user's own threshold does not fall      *)
(* through to the radar.                                                   *)
(***************************************************************************)
Decide(lead, on) ==
  IF "push" \notin on \/ lead = "excluded" THEN None
  ELSE CASE lead = "match" -> "criteria"
         [] lead = "low match" -> None
         [] lead = "outlier" /\ "radar" \in on -> "radar"
         [] OTHER -> None

\* run_tick reads every registration and every profile before its first lead.
BeginTick ==
  /\ "tick" \in Senders /\ job["tick"].at = "asleep"
  /\ job' = [job EXCEPT !["tick"] =
       [Asleep EXCEPT !.at = "idle", !.copy = rows, !.astray = Astray, !.prefs = prefs]]
  /\ event' = None
  /\ UNCHANGED <<rows, holder, alive, prefs>>

\* _maybe_push for one new lead and one profile of the copy.
Notify(u, lead) ==
  LET j == job["tick"]
      mine == {r \in j.copy : r[2] = u} IN
  /\ "tick" \in Senders
  /\ j.at = "idle" /\ mine # {} /\ Decide(lead, j.prefs[u]) # None
  /\ job' = [job EXCEPT !["tick"] =
       [@ EXCEPT !.at = "send", !.left = mine, !.reason = Decide(lead, j.prefs[u])]]
  /\ event' = None
  /\ UNCHANGED <<rows, holder, alive, prefs>>

\* send_test_notification: the caller's devices; the reason is "criteria" and
\* no preference is asked.
BeginTest(u) ==
  LET mine == {r \in rows : r[2] = u} IN
  /\ "test" \in Senders /\ job["test"].at = "asleep" /\ mine # {}
  /\ job' = [job EXCEPT !["test"] =
       [Asleep EXCEPT !.at = "send", !.left = mine, !.astray = Astray, !.reason = "test"]]
  /\ event' = None
  /\ UNCHANGED <<rows, holder, alive, prefs>>

\* send_to_subscription returns (True, False), (False, True) for 404 and 410,
\* (False, False) for any other failure.
Send(s) ==
  LET j == job[s] IN
  /\ j.at = "send"
  /\ \E r \in j.left, outcome \in {"ok", "gone", "failed"} :
       /\ outcome = "ok" => r[1] \in alive
       /\ outcome = "gone" => r[1] \notin alive
       /\ job' = [job EXCEPT ![s] = [j EXCEPT !.at = outcome, !.now = r[1],
                                              !.left = j.left \ {r}]]
       /\ event' = IF outcome # "ok" THEN None
                   ELSE [reason |-> j.reason, astray |-> r \in j.astray,
                         on |-> IF s = "tick" THEN j.prefs[r[2]] ELSE Switches]
  /\ UNCHANGED <<rows, holder, alive, prefs>>

\* Mutant: whatever was not delivered is pruned.
PrunesFailed(outcome) == outcome # "ok"

\* Which of the three outcomes deletes the row.
Prunes(outcome) == outcome = "gone"

\* The row is pruned by its endpoint, whoever has it by then; a database that
\* is away leaves it for the next send to find.
Settle(s) ==
  LET j == job[s] IN
  /\ j.at \in {"ok", "gone", "failed"}
  /\ \/ Prunes(j.at) /\ rows' = {r \in rows : r[1] # j.now}
     \/ UNCHANGED rows
  /\ job' = [job EXCEPT ![s] =
       IF j.left # {} THEN [@ EXCEPT !.at = "send", !.now = None]
       ELSE IF s = "tick" THEN [@ EXCEPT !.at = "idle", !.now = None, !.reason = None]
       ELSE Asleep]
  /\ event' = None
  /\ UNCHANGED <<holder, alive, prefs>>

\* The tick ends, is cut off, or the process restarts; a client hangs up.
Stop(s) ==
  /\ job[s].at # "asleep"
  /\ job' = [job EXCEPT ![s] = Asleep]
  /\ event' = None
  /\ UNCHANGED <<rows, holder, alive, prefs>>

Next ==
  \/ \E u \in Users, d \in Devices : Subscribe(u, d) \/ Unsubscribe(u, d)
  \/ \E u \in Users, on, off \in SUBSET Switches : on \cap off = {} /\ Prefer(u, on, off)
  \/ \E d \in Devices : Revoke(d)
  \/ BeginTick
  \/ \E u \in Users, lead \in Leads : Notify(u, lead)
  \/ \E u \in Users : BeginTest(u)
  \/ \E s \in Senders : Send(s) \/ Settle(s) \/ Stop(s)

Spec == Init /\ [][Next]_vars

--------------------------------------------------------------------------------
(* Properties *)

TypeOK ==
  /\ rows \subseteq Devices \X Users
  /\ holder \in [Devices -> Users \cup {None}]
  /\ alive \subseteq Devices /\ prefs \in [Users -> SUBSET Switches]
  /\ \A s \in Senders : /\ job[s].copy \subseteq Devices \X Users
                        /\ job[s].left \subseteq Devices \X Users
                        /\ job[s].now \in Devices \cup {None}

\* What reaches a telephone was meant for the user who had subscribed it when
\* the sender read the registrations (keying on the pair "would leave the old
\* user's row in place", db.py 1989-1993), and a tick tells nobody who had
\* switched push, or the radar for a radar push, off before it began.  A
\* device or a switch that changes during the tick is told on the old terms.
PushesWereConsented ==
  event # None /\ event.reason # "unsubscribe" =>
    /\ ~event.astray
    /\ "push" \in event.on
    /\ event.reason = "radar" => "radar" \in event.on

\* A registration is lost only to its user's own request, to the next user of
\* the device, or because the push service gave the device up; a failed
\* delivery, or another user who knows the endpoint, does not silence anyone
\* (routers/notifications.py 81-83, push_notifications.py 219-222).
RowsLeaveForAReason ==
  [][\A r \in rows \ rows' :
       \/ event' # None /\ event'.reason = "unsubscribe" /\ event'.row = r
       \/ \E v \in Users : <<r[1], v>> \in rows'
       \/ r[1] \notin alive]_vars
================================================================================

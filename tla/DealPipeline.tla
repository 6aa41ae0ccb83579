----------------------------- MODULE DealPipeline ------------------------------
(***************************************************************************)
(* The deals a user keeps (workflow_engine.py, the /me/pipeline routes of  *)
(* api.py): saved_deals and deal_stage_history in Postgres, and the        *)
(* in-memory list that takes over when a call of db.py finds no database or*)
(* is refused.  A step is what a request does between two awaits.          *)
(*                                                                         *)
(* A connection that breaks after the commit is a PostgresError too: the   *)
(* INSERT then happened and the deal is kept in memory as well.            *)
(***************************************************************************)
EXTENDS Integers, Sequences, FiniteSets

CONSTANTS
  Users,
  Opps,         \* opportunities
  Deals,        \* deal ids uuid4 may produce
  Moves,        \* stages a deal may be moved to
  Requests,     \* requests in flight at once
  None,
  MaxMoves,     \* bound: length of a history
  MaxOutages    \* bound: skipped, refused or broken calls, restarts

VARIABLES
  table,      \* table[d]: the row of saved_deals
  history,    \* history[d]: its rows of deal_stage_history
  memory,     \* memory[d]: the entry of CONCURRENT_DEAL_PIPELINE
  req,        \* req[r]: what request r is about and the await it is at
  outages,
  doubles,    \* adds begun beside another add of the same lead (history)
  removed     \* deals whose removal was answered with success (history)

vars == <<table, history, memory, req, outages, doubles, removed>>

Stages == Moves \cup {"discovery"}
Deal == [owner: Users, opp: Opps, stage: Stages]
Idle == [at |-> "idle", user |-> None, deal |-> None, from |-> None, to |-> None]

Init ==
  /\ table = [d \in Deals |-> None] /\ memory = [d \in Deals |-> None]
  /\ history = [d \in Deals |-> <<>>]
  /\ req = [r \in Requests |-> Idle]
  /\ outages = 0 /\ doubles = 0 /\ removed = {}

Outage == outages < MaxOutages /\ outages' = outages + 1
NoOutage == UNCHANGED outages

--------------------------------------------------------------------------------
Saved(store, u, o) == {d \in Deals : store[d] # None /\ store[d].owner = u /\ store[d].opp = o}

\* Mutant: nothing is looked up.
FoundNothing(u, o) == FALSE

\* find_deal_by_opportunity, with a database.
FoundInTable(u, o) == Saved(table, u, o) # {}

Adding(u, o) ==
  {r \in Requests : req[r].at = "insert" /\ req[r].user = u /\ req[r].to = o}

Fresh == {d \in Deals : /\ table[d] = None /\ memory[d] = None /\ d \notin removed
                        /\ \A r \in Requests: req[r].deal # d}

(***************************************************************************)
(* add_lead_to_pipeline up to its second await: neither store has the lead *)
(* (otherwise the answer is "already_saved" and nothing changes); without a*)
(* database only the list is asked.                                        *)
(***************************************************************************)
BeginAdd(r, u, o) ==
  /\ req[r].at = "idle"
  /\ Saved(memory, u, o) = {}
  /\ \/ ~FoundInTable(u, o) /\ NoOutage
     \/ FoundInTable(u, o) /\ Outage
  /\ \E d \in Fresh:
       req' = [req EXCEPT ![r] = [at |-> "insert", user |-> u, deal |-> d,
                                  from |-> "discovery", to |-> o]]
  /\ doubles' = doubles + Cardinality(Adding(u, o))
  /\ UNCHANGED <<table, history, memory, removed>>

\* add_deal, and the fallback when it answers False.
Insert(r) ==
  LET d == req[r].deal
      new == [owner |-> req[r].user, opp |-> req[r].to, stage |-> "discovery"] IN
  /\ req[r].at = "insert"
  /\ \/ /\ table' = [table EXCEPT ![d] = new]
        /\ NoOutage /\ UNCHANGED memory
     \/ /\ Outage                                 \* no database, or refused
        /\ memory' = [memory EXCEPT ![d] = new]
        /\ UNCHANGED table
     \/ /\ Outage                                 \* committed, then cut off
        /\ table' = [table EXCEPT ![d] = new]
        /\ memory' = [memory EXCEPT ![d] = new]
     \/ /\ Outage                                 \* timed out: a 500
        /\ table' \in {table, [table EXCEPT ![d] = new]}
        /\ UNCHANGED memory
  /\ req' = [req EXCEPT ![r] = Idle]
  /\ UNCHANGED <<history, doubles, removed>>

--------------------------------------------------------------------------------
\* Mutant: WHERE deal_id = $1
AnyRow(u, d) == table[d] # None

\* WHERE user_id = $1 AND deal_id = $2
OwnRow(u, d) == table[d] # None /\ table[d].owner = u

OwnEntry(u, d) == memory[d] # None /\ memory[d].owner = u

\* Mutant: no cascade; the row stays for as long as it has a history.
DeleteUnmovedRow(d) ==
  /\ table' = IF history[d] = <<>> THEN [table EXCEPT ![d] = None] ELSE table
  /\ UNCHANGED history

\* The history is deleted with its row (ON DELETE CASCADE).
DeleteRow(d) ==
  /\ table' = [table EXCEPT ![d] = None]
  /\ history' = [history EXCEPT ![d] = <<>>]

(***************************************************************************)
(* remove_deal: one DELETE, then the list; success when either had it.     *)
(***************************************************************************)
Remove(u, d) ==
  /\ \/ OwnRow(u, d) /\ NoOutage /\ DeleteRow(d)
     \/ OwnEntry(u, d) /\ ~OwnRow(u, d) /\ NoOutage /\ UNCHANGED <<table, history>>
     \/ OwnEntry(u, d) /\ OwnRow(u, d) /\ Outage /\ UNCHANGED <<table, history>>
  /\ memory' = [memory EXCEPT ![d] = IF OwnEntry(u, d) THEN None ELSE @]
  /\ removed' = removed \cup {d}
  /\ UNCHANGED <<req, doubles>>

--------------------------------------------------------------------------------
\* The in-memory half of update_deal_stage, "Deal not found" included.
MoveEntry(u, d, to) ==
  memory' = [memory EXCEPT ![d] = IF OwnEntry(u, d) THEN [@ EXCEPT !.stage = to] ELSE @]

\* update_deal_stage up to the UPDATE: the previous stage is read.
BeginMove(r, u, d, to) ==
  /\ req[r].at = "idle"
  /\ \/ /\ OwnRow(u, d) /\ Len(history[d]) < MaxMoves /\ NoOutage
        /\ req' = [req EXCEPT ![r] = [at |-> "update", user |-> u, deal |-> d,
                                      from |-> table[d].stage, to |-> to]]
        /\ UNCHANGED memory
     \/ /\ OwnEntry(u, d) /\ memory[d].stage # to
        /\ IF OwnRow(u, d) THEN Outage ELSE NoOutage
        /\ MoveEntry(u, d, to)
        /\ UNCHANGED req
  /\ UNCHANGED <<table, history, doubles, removed>>

\* Mutant: a move of a deal still in discovery is not recorded.
IsLaterMove(from, to) == from # "discovery"

\* Only a real move is recorded (workflow_engine.py 206-212).
IsMove(from, to) == from # to

\* update_deal, scoped like every other statement; a row that is gone, or no
\* database, sends the request to the list.
UpdateRow(r) ==
  LET u == req[r].user  d == req[r].deal  to == req[r].to IN
  /\ req[r].at = "update"
  /\ \/ /\ OwnRow(u, d) /\ NoOutage
        /\ table' = [table EXCEPT ![d].stage = to]
        /\ req' = [req EXCEPT ![r] = IF IsMove(req[r].from, to)
                                       THEN [@ EXCEPT !.at = "record"] ELSE Idle]
        /\ UNCHANGED memory
     \/ /\ IF OwnRow(u, d) THEN Outage ELSE NoOutage
        /\ MoveEntry(u, d, to)
        /\ req' = [req EXCEPT ![r] = Idle]
        /\ UNCHANGED table
  /\ UNCHANGED <<history, doubles, removed>>

\* record_stage_transition; the reference to a removed deal is refused.
RecordTransition(r) ==
  LET d == req[r].deal IN
  /\ req[r].at = "record"
  /\ \/ /\ history' = IF table[d] = None THEN history
                      ELSE [history EXCEPT ![d] = Append(@, <<req[r].from, req[r].to>>)]
        /\ NoOutage
     \/ table[d] # None /\ Outage /\ UNCHANGED history
  /\ req' = [req EXCEPT ![r] = Idle]
  /\ UNCHANGED <<table, memory, doubles, removed>>

\* The process restarts: the list and the requests are gone, the rows stay.
Restart ==
  /\ Outage
  /\ memory' = [d \in Deals |-> None]
  /\ req' = [r \in Requests |-> Idle]
  /\ UNCHANGED <<table, history, doubles, removed>>

Next ==
  \/ \E r \in Requests, u \in Users, o \in Opps: BeginAdd(r, u, o)
  \/ \E u \in Users, d \in Deals: Remove(u, d)
  \/ \E r \in Requests, u \in Users, d \in Deals, to \in Stages: BeginMove(r, u, d, to)
  \/ \E r \in Requests: Insert(r) \/ UpdateRow(r) \/ RecordTransition(r)
  \/ Restart

Spec == Init /\ [][Next]_vars

--------------------------------------------------------------------------------
(* Properties *)

TypeOK ==
  /\ table \in [Deals -> {None} \cup Deal] /\ memory \in [Deals -> {None} \cup Deal]
  /\ history \in [Deals -> Seq(Stages \X Stages)]
  /\ req \in [Requests -> [at: {"idle", "insert", "update", "record"},
                user: Users \cup {None}, deal: Deals \cup {None},
                from: Stages \cup {None}, to: Stages \cup Opps \cup {None}]]
  /\ removed \subseteq Deals

\* A lead is saved twice only through requests that overlap or calls that
\* fail: "a contract that can only be won once" is otherwise counted once
\* (workflow_engine.py 118-135), in the two stores together.
CopiesNeedAReason ==
  \A u \in Users, o \in Opps:
    Cardinality(Saved(table, u, o) \cup Saved(memory, u, o)) <= 1 + doubles + outages

\* With nothing under way and no call lost, the history accounts for the stage
\* of every deal, in whatever order moves of it overlapped
\* (_reached_stages and the conversion rates are computed from it).
HistoryAccountsForStage ==
  (outages = 0 /\ \A r \in Requests: req[r].at = "idle") =>
     \A d \in Deals: table[d] # None =>
        \/ table[d].stage = "discovery"
        \/ \E i \in DOMAIN history[d]: history[d][i][2] = table[d].stage

\* A deal whose removal was reported is not in the list, and in the table only
\* if two calls failed: the one that put it into both stores and the DELETE
\* whose failure the list then hid (workflow_engine.py 157-168).
RemovalHolds ==
  \A d \in removed: memory[d] = None /\ (table[d] # None => outages >= 2)
================================================================================

-------------------------------- MODULE DbPool ---------------------------------
(***************************************************************************)
(* The one connection pool every component shares: get_pool, _reset_pool   *)
(* and with_connection of db.py.  A call takes the pool, takes a           *)
(* connection, and when that fails closes whatever pool is then current,   *)
(* takes a new one and tries once more; other calls do the same meanwhile. *)
(* A step is what a call does between two awaits.                          *)
(*                                                                         *)
(* On an acquire that waits POOL_ACQUIRE_TIMEOUT for one of the 20         *)
(* connections asyncio raises TimeoutError, an OSError since Python 3.11:  *)
(* a full pool is reset like a stale one.                                  *)
(***************************************************************************)
EXTENDS Integers, FiniteSets

CONSTANTS
  Calls,      \* calls of with_connection in flight at once
  MaxPools    \* bound: pools ever built

NoPool == 0
Pools == 1..MaxPools
NoCall == "nobody"

VARIABLES
  pool,      \* the global _pool
  state,     \* state[p] of the pools built: "unbuilt", "open", "stale", "closing", "closed"
  lock,      \* the call that holds _pool_lock
  cooling,   \* whether _pool_retry_after lies ahead
  up,        \* whether the server accepts connections
  call,      \* call[c]: the await c is at
  answer     \* how the call that just ended did (history)

vars == <<pool, state, lock, cooling, up, call, answer>>

\* "alone" while nothing but the call itself has happened since it began.
Idle == [at |-> "idle", pool |-> NoPool, retry |-> FALSE, early |-> FALSE, alone |-> TRUE]

Init ==
  /\ pool = NoPool /\ state = [p \in Pools |-> "unbuilt"]
  /\ lock = NoCall /\ cooling = FALSE /\ up = TRUE
  /\ call = [c \in Calls |-> Idle] /\ answer = "none yet"

--------------------------------------------------------------------------------
\* Anything that happens beside a call disturbs it.
Disturbed(calls) ==
  [c \in Calls |-> IF calls[c].at = "idle" THEN calls[c] ELSE [calls[c] EXCEPT !.alone = FALSE]]

Step(c, next) == call' = [call EXCEPT ![c] = next] /\ answer' = "none yet"

\* The call ends: with its result, with None, or raising.
End(c, result) ==
  /\ call' = [call EXCEPT ![c] = Idle]
  /\ answer' = IF call[c].alone THEN result ELSE "none yet"

Attempt(c, p) == [call[c] EXCEPT !.at = "acquire", !.pool = p]

\* get_pool before the lock: the pool, None while cooling, or the lock.
GetPool(c) ==
  /\ call[c].at = "get"
  /\ IF pool # NoPool THEN Step(c, Attempt(c, pool))
     ELSE IF cooling THEN End(c, "excused")
     ELSE Step(c, [call[c] EXCEPT !.at = "build lock"])
  /\ UNCHANGED <<pool, state, lock, cooling, up>>

Begin(c) ==
  /\ call[c].at = "idle"
  /\ call' = [Disturbed(call) EXCEPT ![c] =
       [Idle EXCEPT !.at = "get", !.alone = \A o \in Calls : call[o].at = "idle"]]
  /\ answer' = "none yet"
  /\ UNCHANGED <<pool, state, lock, cooling, up>>

\* Mutant: the pool is not looked at again inside the lock.
NoLook == NoPool

\* Mutant: the cooldown is not looked at again inside the lock.
NotCooling == FALSE

SecondLook == pool
StillCooling == cooling

\* The lock is free: both checks are repeated, then the pool is created.
EnterBuild(c) ==
  /\ call[c].at = "build lock" /\ lock = NoCall
  /\ IF SecondLook # NoPool THEN Step(c, Attempt(c, SecondLook)) /\ UNCHANGED lock
     ELSE IF StillCooling THEN End(c, "excused") /\ UNCHANGED lock
     ELSE /\ Step(c, [call[c] EXCEPT !.at = "build", !.early = cooling])
          /\ lock' = c
  /\ UNCHANGED <<pool, state, cooling, up>>

Built(c) ==
  /\ call[c].at = "build" /\ up
  /\ \E p \in Pools :
       /\ state[p] = "unbuilt" /\ \A q \in 1..(p - 1) : state[q] # "unbuilt"
       /\ pool' = p /\ state' = [state EXCEPT ![p] = "open"]
       /\ Step(c, [Attempt(c, p) EXCEPT !.early = FALSE])
  /\ lock' = NoCall /\ cooling' = FALSE
  /\ UNCHANGED up

BuildFails(c) ==
  /\ call[c].at = "build" /\ ~up
  /\ cooling' = TRUE /\ lock' = NoCall
  /\ End(c, "excused")
  /\ UNCHANGED <<pool, state, up>>

--------------------------------------------------------------------------------
Users(p) == {c \in Calls : call[c].at \in {"use", "dead"} /\ call[c].pool = p}

\* The server has dropped connections that the pool still lends.
MayBeDead(p) == state[p] = "stale" \/ (state[p] = "open" /\ ~up)

\* pool.acquire raises: a closed pool, a connection found dead, a server that
\* is away, or none free in time.
AcquireFails(c) ==
  LET p == call[c].pool IN
  \/ state[p] # "open" \/ ~up
  \/ Users(p) # {}

\* A live connection, a dead one that asyncpg takes for live, or an exception.
Acquire(c) ==
  /\ call[c].at = "acquire"
  /\ \/ /\ state[call[c].pool] \in {"open", "stale"} /\ up
        /\ Step(c, [call[c] EXCEPT !.at = "use"])
     \/ /\ MayBeDead(call[c].pool)
        /\ Step(c, [call[c] EXCEPT !.at = "dead"])
     \/ /\ AcquireFails(c)
        /\ IF call[c].retry THEN End(c, IF up THEN "raised" ELSE "excused")
           ELSE Step(c, [call[c] EXCEPT !.at = "reset"])
  /\ UNCHANGED <<pool, state, lock, cooling, up>>

\* _reset_pool up to its lock.
ClearCooldown(c) ==
  /\ call[c].at = "reset"
  /\ cooling' = FALSE
  /\ Step(c, [call[c] EXCEPT !.at = "reset lock"])
  /\ UNCHANGED <<pool, state, lock, up>>

Retry(c) == [call[c] EXCEPT !.at = "get", !.pool = NoPool, !.retry = TRUE]

\* The pool that is current by now is closed: perhaps a healthy one that
\* somebody else has built.
EnterReset(c) ==
  /\ call[c].at = "reset lock" /\ lock = NoCall
  /\ IF pool = NoPool
     THEN Step(c, Retry(c)) /\ UNCHANGED <<state, lock>>
     ELSE /\ Step(c, [call[c] EXCEPT !.at = "close"])
          /\ state' = [state EXCEPT ![pool] = IF @ = "closed" THEN @ ELSE "closing"]
          /\ lock' = c
  /\ UNCHANGED <<pool, cooling, up>>

\* Mutant: a pool that is closed already is left where it is.
LeftIfClosed == IF state[pool] = "closed" THEN pool ELSE NoPool

Forgotten == NoPool

\* close() waits 5 s for the connections in use; terminate() then cuts them.
Closed(c) ==
  /\ call[c].at = "close"
  /\ state' = [state EXCEPT ![pool] = "closed"]
  /\ pool' = Forgotten
  /\ lock' = NoCall
  /\ Step(c, Retry(c))
  /\ UNCHANGED <<cooling, up>>

\* The body ends; an error of release() is swallowed.  Under a pool that was
\* terminated the query may have been cut off.
Finish(c) ==
  /\ call[c].at = "use"
  /\ \/ End(c, "served")
     \/ (state[call[c].pool] \in {"stale", "closed"} \/ ~up) /\ End(c, "excused")
  /\ UNCHANGED <<pool, state, lock, cooling, up>>

\* The query finds its connection dead.  The retry is over acquire() only, so
\* the exception is the caller's.
QueryFails(c) ==
  /\ call[c].at = "dead"
  /\ End(c, IF call[c].retry /\ up THEN "raised" ELSE "cut")
  /\ UNCHANGED <<pool, state, lock, cooling, up>>

\* A deadline cancels the call; asyncpg terminates a pool whose close() is
\* cancelled, and it stays in _pool.
Cancel(c) ==
  /\ call[c].at # "idle"
  /\ lock' = IF lock = c THEN NoCall ELSE lock
  /\ state' = IF call[c].at = "close" THEN [state EXCEPT ![pool] = "closed"] ELSE state
  /\ End(c, "excused")
  /\ UNCHANGED <<pool, cooling, up>>

\* Supabase drops the idle connections; it goes away, comes back; time passes.
GoStale ==
  /\ pool # NoPool /\ state[pool] = "open"
  /\ state' = [state EXCEPT ![pool] = "stale"]
  /\ call' = Disturbed(call) /\ answer' = "none yet"
  /\ UNCHANGED <<pool, lock, cooling, up>>

UpOrDown ==
  /\ up' = ~up
  /\ call' = Disturbed(call) /\ answer' = "none yet"
  /\ UNCHANGED <<pool, state, lock, cooling>>

Cooled ==
  /\ cooling /\ cooling' = FALSE
  /\ answer' = "none yet"
  /\ UNCHANGED <<pool, state, lock, up, call>>

Next ==
  \/ \E c \in Calls :
       \/ Begin(c) \/ GetPool(c) \/ EnterBuild(c) \/ Built(c) \/ BuildFails(c)
       \/ Acquire(c) \/ ClearCooldown(c) \/ EnterReset(c) \/ Closed(c)
       \/ Finish(c) \/ QueryFails(c) \/ Cancel(c)
  \/ GoStale \/ UpOrDown \/ Cooled

Spec == Init /\ [][Next]_vars

--------------------------------------------------------------------------------
(* Properties *)

TypeOK ==
  /\ pool \in 0..MaxPools /\ lock \in Calls \cup {NoCall}
  /\ state \in [Pools -> {"unbuilt", "open", "stale", "closing", "closed"}]
  /\ cooling \in BOOLEAN /\ up \in BOOLEAN
  /\ call \in [Calls -> [at: {"idle", "get", "build lock", "build", "acquire",
                              "reset", "reset lock", "close", "use", "dead"},
                pool: 0..MaxPools, retry: BOOLEAN, early: BOOLEAN, alone: BOOLEAN]]

\* However many calls find no pool at once, one of them builds one, and only
\* then: no second pool beside an open one (its connections would never be
\* closed), no attempt of a queued call while the cooldown of the one before
\* it runs (db.py 95-103).
BuildsAreNeeded ==
  /\ Cardinality({p \in Pools : state[p] \notin {"unbuilt", "closed"}}) <= 1
  /\ \A c \in Calls : call[c].at = "build" => pool = NoPool /\ ~call[c].early

\* "Transparently rebuilding the pool once": whatever state earlier calls left
\* the pool in, cancelled and terminated ones included, a call that nothing
\* happens beside does not fail after its rebuild while the server is there:
\* the second acquire() succeeds, with a live connection.  The one query it may
\* lose, unretried and with nothing rebuilt, is that on a dead connection which
\* the first acquire() took from a stale pool.
RetryIsEnough ==
  /\ answer # "raised"
  /\ answer = "cut" => ~up \/ (pool # NoPool /\ state[pool] = "stale")
================================================================================

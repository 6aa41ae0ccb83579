--------------------------- MODULE SystemPartsProofs ---------------------------
(***************************************************************************)
(* Proofs about the parts that serve the ingestion itself, each for every  *)
(* value of its constants: the connection pool, the tick and its watchdog, *)
(* the fan-out over the county portals, the procurement notices, the       *)
(* alerts beside the ranked feed, the assistant, and the walk over a       *)
(* listing.  The variables bear the names MCServices gives them, so that   *)
(* ServicesProofs can instantiate this module.                             *)
(***************************************************************************)
EXTENDS Integers, Sequences, FiniteSets, FiniteSetTheorems, FunctionTheorems,
  SequenceTheorems, TLAPS

CONSTANTS
  Calls, MaxPools,              \* of DbPool
  Runs, Sources, None,          \* of TickControl
  Last, Slots, Budget, Portals,  \* of CountyFanOut
  Purchases, Firms, Prices,     \* of Awards
  Leads, Profiles, Limit, Unknown,   \* of Relevance
  Providers, CallLimit, Deadline, PromptLimit, MaxTurns, MaxSections,  \* of Assistant
  Untitled, OffTopic, Malformed, PageSize, MaxPages, MaxItems, MaxShifts, Decisions \* of ListingFetch

VARIABLES
  pool_pool, pool_state, pool_lock, pool_cooling, pool_up, pool_call, pool_answer,
  tick_waiting, tick_holder, tick_tick, tick_row, tick_stale, tick_fired, tick_episode,
  fan_portal, fan_county, fan_clock, fan_result,
  award_seap, award_table,
  rel_rows, rel_profile, rel_tick, rel_told,
  chat_ask, chat_run, chat_reply,
  list_list, list_born, list_shifts, list_fetch, list_cache

Data == INSTANCE DataLemmas

Pool == INSTANCE DbPool WITH
  pool <- pool_pool, state <- pool_state, lock <- pool_lock,
  cooling <- pool_cooling, up <- pool_up, call <- pool_call, answer <- pool_answer

Tick == INSTANCE TickControl WITH
  waiting <- tick_waiting, holder <- tick_holder, tick <- tick_tick, row <- tick_row,
  stale <- tick_stale, fired <- tick_fired, episode <- tick_episode

Fan == INSTANCE CountyFanOut WITH
  portal <- fan_portal, county <- fan_county, clock <- fan_clock, result <- fan_result

Award == INSTANCE Awards WITH seap <- award_seap, table <- award_table

Rel == INSTANCE Relevance WITH
  rows <- rel_rows, profile <- rel_profile, tick <- rel_tick, told <- rel_told

Chat == INSTANCE Assistant WITH ask <- chat_ask, run <- chat_run, reply <- chat_reply

Listing == INSTANCE ListingFetch WITH
  list <- list_list, born <- list_born, shifts <- list_shifts, fetch <- list_fetch,
  cache <- list_cache

(***************************************************************************)
(* The connection pool.                                                    *)
(***************************************************************************)
\* Pools are counted, and the free lock names no call.
PoolAssumption == MaxPools \in Nat /\ Pool!NoCall \notin Calls

CallRecord ==
  [at: {"idle", "get", "build lock", "build", "acquire", "reset", "reset lock", "close", "use",
        "dead"},
   pool: 0..MaxPools, retry: BOOLEAN, early: BOOLEAN, alone: BOOLEAN]

At(c) == pool_call[c].at

LEMMA PoolStep ==
  ASSUME Pool!TypeOK, NEW c \in Calls, NEW next \in CallRecord, Pool!Step(c, next)
  PROVE  /\ pool_call' \in [Calls -> CallRecord]
         /\ pool_call'[c] = next
         /\ \A o \in Calls \ {c} : pool_call'[o] = pool_call[o]
         /\ pool_answer' = "none yet"
BY DEF Pool!TypeOK, Pool!Step, CallRecord

LEMMA IdleRecord ==
  ASSUME PoolAssumption
  PROVE  /\ Pool!Idle \in CallRecord
         /\ \A b \in BOOLEAN : [Pool!Idle EXCEPT !.at = "get", !.alone = b] \in CallRecord
<1>1. 0 \in 0..MaxPools
  BY DEF PoolAssumption
<1>2. Pool!Idle \in CallRecord
  BY <1>1 DEF Pool!Idle, Pool!NoPool, CallRecord
<1>3. \A x \in CallRecord, b \in BOOLEAN : [x EXCEPT !.at = "get", !.alone = b] \in CallRecord
  BY DEF CallRecord
<1>4. QED
  BY <1>2, <1>3

LEMMA PoolEnd ==
  ASSUME PoolAssumption, Pool!TypeOK, NEW c \in Calls, NEW result, Pool!End(c, result)
  PROVE  /\ pool_call' \in [Calls -> CallRecord]
         /\ pool_call'[c] = Pool!Idle /\ Pool!Idle.at = "idle" /\ ~ Pool!Idle.early
         /\ \A o \in Calls \ {c} : pool_call'[o] = pool_call[o]
         /\ pool_answer' # "none yet" => pool_call[c].alone /\ pool_answer' = result
<1>1. Pool!Idle \in CallRecord /\ Pool!Idle.at = "idle" /\ ~ Pool!Idle.early
  BY DEF PoolAssumption, Pool!Idle, Pool!NoPool, CallRecord
<1>2. QED
  BY <1>1 DEF Pool!TypeOK, Pool!End, CallRecord

LEMMA PoolDisturbed ==
  ASSUME Pool!TypeOK
  PROVE  /\ Pool!Disturbed(pool_call) \in [Calls -> CallRecord]
         /\ \A c \in Calls :
              LET d == Pool!Disturbed(pool_call)[c]
              IN /\ d.at = At(c) /\ d.pool = pool_call[c].pool
                 /\ d.retry = pool_call[c].retry /\ d.early = pool_call[c].early
                 /\ d.alone => At(c) = "idle"
BY DEF Pool!TypeOK, Pool!Disturbed, CallRecord, At

\* The records the steps of a call make of it.
LEMMA PoolRecords ==
  ASSUME PoolAssumption, Pool!TypeOK, NEW c \in Calls
  PROVE  /\ pool_call[c] \in CallRecord
         /\ \A a \in {"build lock", "build", "use", "dead", "reset", "reset lock", "close"} :
              [pool_call[c] EXCEPT !.at = a] \in CallRecord
         /\ \A e \in BOOLEAN : [pool_call[c] EXCEPT !.at = "build", !.early = e] \in CallRecord
         /\ \A p \in 0..MaxPools : Pool!Attempt(c, p) \in CallRecord
         /\ \A p \in 0..MaxPools : [Pool!Attempt(c, p) EXCEPT !.early = FALSE] \in CallRecord
         /\ Pool!Retry(c) \in CallRecord
<1>1. pool_call[c] \in CallRecord
  BY DEF Pool!TypeOK, CallRecord
<1>2. \A x \in CallRecord : \A a \in {"build lock", "build", "use", "dead", "reset", "reset lock", "close"} :
        [x EXCEPT !.at = a] \in CallRecord
  BY DEF CallRecord
<1>3. \A x \in CallRecord, e \in BOOLEAN : [x EXCEPT !.at = "build", !.early = e] \in CallRecord
  BY DEF CallRecord
<1>4. \A x \in CallRecord, p \in 0..MaxPools : [x EXCEPT !.at = "acquire", !.pool = p] \in CallRecord
  BY DEF CallRecord
<1>5. \A x \in CallRecord : [x EXCEPT !.early = FALSE] \in CallRecord
  BY DEF CallRecord
<1>6. \A x \in CallRecord : [x EXCEPT !.at = "get", !.pool = 0, !.retry = TRUE] \in CallRecord
  <2>1. 0 \in 0..MaxPools
    BY DEF PoolAssumption
  <2>2. QED
    BY <2>1 DEF CallRecord
<1>7. QED
  BY <1>1, <1>2, <1>3, <1>4, <1>5, <1>6 DEF Pool!Attempt, Pool!Retry, Pool!NoPool

LEMMA PoolTypeInitial ==
  ASSUME PoolAssumption, Pool!Init
  PROVE  Pool!TypeOK
<1>1. 0 \in 0..MaxPools
  BY DEF PoolAssumption
<1>2. pool_call \in [Calls -> CallRecord]
  BY IdleRecord DEF Pool!Init
<1>3. QED
  BY <1>1, <1>2 DEF Pool!Init, Pool!TypeOK, Pool!NoPool, Pool!Pools, CallRecord

LEMMA PoolTypePreserved ==
  ASSUME PoolAssumption, Pool!TypeOK, [Pool!Next]_(Pool!vars)
  PROVE  Pool!TypeOK'
<1>0. /\ pool_call \in [Calls -> CallRecord] /\ pool_pool \in 0..MaxPools
      /\ pool_lock \in Calls \cup {Pool!NoCall} /\ pool_cooling \in BOOLEAN /\ pool_up \in BOOLEAN
      /\ pool_state \in [Pool!Pools -> {"unbuilt", "open", "stale", "closing", "closed"}]
  BY DEF Pool!TypeOK, CallRecord
<1>1. SUFFICES /\ pool_call' \in [Calls -> CallRecord] /\ pool_pool' \in 0..MaxPools
               /\ pool_lock' \in Calls \cup {Pool!NoCall}
               /\ pool_cooling' \in BOOLEAN /\ pool_up' \in BOOLEAN
               /\ pool_state' \in [Pool!Pools -> {"unbuilt", "open", "stale", "closing", "closed"}]
  BY DEF Pool!TypeOK, CallRecord
<1>2. ASSUME NEW c \in Calls, Pool!Begin(c)
      PROVE  pool_call' \in [Calls -> CallRecord]
  <2>1. [Pool!Idle EXCEPT !.at = "get", !.alone = \A o \in Calls : At(o) = "idle"] \in CallRecord
    BY IdleRecord
  <2>2. QED
    BY <1>2, <2>1, PoolDisturbed DEF Pool!Begin, At
<1>3. ASSUME NEW c \in Calls, Pool!GetPool(c)
      PROVE  pool_call' \in [Calls -> CallRecord]
  BY <1>0, <1>3, PoolStep, PoolEnd, PoolRecords DEF Pool!GetPool
<1>4. ASSUME NEW c \in Calls, Pool!EnterBuild(c)
      PROVE  pool_call' \in [Calls -> CallRecord] /\ pool_lock' \in Calls \cup {Pool!NoCall}
  BY <1>0, <1>4, PoolStep, PoolEnd, PoolRecords DEF Pool!EnterBuild, Pool!SecondLook
<1>5. ASSUME NEW c \in Calls, Pool!Built(c)
      PROVE  /\ pool_call' \in [Calls -> CallRecord] /\ pool_pool' \in 0..MaxPools
             /\ pool_state' \in [Pool!Pools -> {"unbuilt", "open", "stale", "closing", "closed"}]
  <2>1. PICK p \in 1..MaxPools : /\ pool_pool' = p
                                 /\ pool_state' = [pool_state EXCEPT ![p] = "open"]
                                 /\ Pool!Step(c, [Pool!Attempt(c, p) EXCEPT !.early = FALSE])
    BY <1>5 DEF Pool!Built, Pool!Pools
  <2>2. p \in 0..MaxPools
    OBVIOUS
  <2>3. [Pool!Attempt(c, p) EXCEPT !.early = FALSE] \in CallRecord
    BY <2>2, PoolRecords
  <2>4. pool_call' \in [Calls -> CallRecord]
    BY <2>1, <2>3, PoolStep
  <2>5. pool_state' \in [Pool!Pools -> {"unbuilt", "open", "stale", "closing", "closed"}]
    BY <1>0, <2>1
  <2>6. QED
    BY <2>1, <2>2, <2>4, <2>5
<1>6. ASSUME NEW c \in Calls, Pool!BuildFails(c)
      PROVE  pool_call' \in [Calls -> CallRecord]
  BY <1>6, PoolEnd DEF Pool!BuildFails
<1>7. ASSUME NEW c \in Calls, Pool!Acquire(c)
      PROVE  pool_call' \in [Calls -> CallRecord]
  <2>1. [pool_call[c] EXCEPT !.at = "use"] \in CallRecord
        /\ [pool_call[c] EXCEPT !.at = "dead"] \in CallRecord
        /\ [pool_call[c] EXCEPT !.at = "reset"] \in CallRecord
    BY PoolRecords
  <2>2. QED
    BY <1>7, <2>1, PoolStep, PoolEnd DEF Pool!Acquire
<1>8. ASSUME NEW c \in Calls, Pool!ClearCooldown(c)
      PROVE  pool_call' \in [Calls -> CallRecord]
  BY <1>8, PoolStep, PoolRecords DEF Pool!ClearCooldown
<1>9. ASSUME NEW c \in Calls, Pool!EnterReset(c)
      PROVE  /\ pool_call' \in [Calls -> CallRecord] /\ pool_lock' \in Calls \cup {Pool!NoCall}
             /\ pool_state' \in [Pool!Pools -> {"unbuilt", "open", "stale", "closing", "closed"}]
  <2>1. pool_call' \in [Calls -> CallRecord]
    BY <1>9, PoolStep, PoolRecords DEF Pool!EnterReset
  <2>2. QED
    BY <1>0, <1>9, <2>1 DEF Pool!EnterReset
<1>10. ASSUME NEW c \in Calls, Pool!Closed(c)
       PROVE  /\ pool_call' \in [Calls -> CallRecord] /\ pool_pool' \in 0..MaxPools
              /\ pool_state' \in [Pool!Pools -> {"unbuilt", "open", "stale", "closing", "closed"}]
  <2>1. pool_call' \in [Calls -> CallRecord]
    BY <1>10, PoolStep, PoolRecords DEF Pool!Closed
  <2>2. pool_pool' = 0 /\ 0 \in 0..MaxPools
    BY <1>10 DEF PoolAssumption, Pool!Closed, Pool!Forgotten, Pool!NoPool
  <2>3. pool_state' = [pool_state EXCEPT ![pool_pool] = "closed"]
    BY <1>10 DEF Pool!Closed
  <2>4. pool_state' \in [Pool!Pools -> {"unbuilt", "open", "stale", "closing", "closed"}]
    BY <1>0, <2>3
  <2>5. QED
    BY <2>1, <2>2, <2>4
<1>11. ASSUME NEW c \in Calls, Pool!Finish(c) \/ Pool!QueryFails(c)
       PROVE  pool_call' \in [Calls -> CallRecord]
  BY <1>11, PoolEnd DEF Pool!Finish, Pool!QueryFails
<1>12. ASSUME NEW c \in Calls, Pool!Cancel(c)
       PROVE  /\ pool_call' \in [Calls -> CallRecord]
              /\ pool_state' \in [Pool!Pools -> {"unbuilt", "open", "stale", "closing", "closed"}]
  <2>1. pool_call' \in [Calls -> CallRecord]
    BY <1>12, PoolEnd DEF Pool!Cancel
  <2>2. QED
    BY <1>0, <1>12, <2>1 DEF Pool!Cancel
<1>13. CASE Pool!GoStale
  BY <1>0, <1>13, PoolDisturbed DEF Pool!GoStale
<1>14. CASE Pool!UpOrDown
  BY <1>0, <1>14, PoolDisturbed DEF Pool!UpOrDown
<1>15. CASE Pool!Cooled \/ UNCHANGED Pool!vars
  BY <1>0, <1>15 DEF Pool!Cooled, Pool!vars
<1>16. QED
  <2>1. ASSUME NEW c \in Calls, \/ Pool!Begin(c) \/ Pool!GetPool(c) \/ Pool!EnterBuild(c)
                                \/ Pool!Built(c) \/ Pool!BuildFails(c)
        PROVE  /\ pool_call' \in [Calls -> CallRecord] /\ pool_pool' \in 0..MaxPools
               /\ pool_lock' \in Calls \cup {Pool!NoCall}
               /\ pool_cooling' \in BOOLEAN /\ pool_up' \in BOOLEAN
               /\ pool_state' \in [Pool!Pools -> {"unbuilt", "open", "stale", "closing", "closed"}]
    BY <1>0, <2>1, <1>2, <1>3, <1>4, <1>5, <1>6
       DEF Pool!Begin, Pool!GetPool, Pool!EnterBuild, Pool!Built, Pool!BuildFails
  <2>2. ASSUME NEW c \in Calls, \/ Pool!Acquire(c) \/ Pool!ClearCooldown(c) \/ Pool!EnterReset(c)
                                \/ Pool!Closed(c) \/ Pool!Finish(c) \/ Pool!QueryFails(c)
                                \/ Pool!Cancel(c)
        PROVE  /\ pool_call' \in [Calls -> CallRecord] /\ pool_pool' \in 0..MaxPools
               /\ pool_lock' \in Calls \cup {Pool!NoCall}
               /\ pool_cooling' \in BOOLEAN /\ pool_up' \in BOOLEAN
               /\ pool_state' \in [Pool!Pools -> {"unbuilt", "open", "stale", "closing", "closed"}]
    BY <1>0, <2>2, <1>7, <1>8, <1>9, <1>10, <1>11, <1>12
       DEF Pool!Acquire, Pool!ClearCooldown, Pool!EnterReset, Pool!Closed, Pool!Finish,
           Pool!QueryFails, Pool!Cancel
  <2>3. QED
    BY <2>1, <2>2, <1>13, <1>14, <1>15 DEF Pool!Next

\* The lock is held by the one call that builds or closes.
Exclusive == \A c \in Calls : At(c) \in {"build", "close"} <=> pool_lock = c

\* Only the pool everybody is given is alive.
OnlyCurrentLives ==
  \A p \in Pool!Pools : pool_state[p] \notin {"unbuilt", "closed"} => p = pool_pool

\* What the holder of the lock found under it is still so.
HolderIsRight ==
  \A c \in Calls : /\ At(c) = "build" => pool_pool = Pool!NoPool
                   /\ At(c) = "close" => pool_pool # Pool!NoPool
                   /\ ~ pool_call[c].early

BuildInv == Exclusive /\ OnlyCurrentLives /\ HolderIsRight

LEMMA BuildInvInitial ==
  ASSUME PoolAssumption, Pool!Init
  PROVE  BuildInv
<1>1. \A c \in Calls : At(c) = "idle" /\ ~ pool_call[c].early /\ pool_lock # c
  BY DEF PoolAssumption, Pool!Init, Pool!Idle, At
<1>2. QED
  BY <1>1 DEF BuildInv, Exclusive, OnlyCurrentLives, HolderIsRight, Pool!Init

\* A step of a call that neither holds nor takes the lock, and leaves the pools.
LEMMA BuildInvCallSteps ==
  ASSUME PoolAssumption, Pool!TypeOK, BuildInv, NEW c \in Calls,
         At(c) \notin {"build", "close"}, pool_call'[c].at \notin {"build", "close"},
         ~ pool_call'[c].early,
         \A o \in Calls \ {c} : pool_call'[o] = pool_call[o],
         UNCHANGED <<pool_pool, pool_state, pool_lock>>
  PROVE  BuildInv'
<1>1. Exclusive'
  BY DEF BuildInv, Exclusive, At
<1>2. OnlyCurrentLives'
  BY DEF BuildInv, OnlyCurrentLives
<1>3. HolderIsRight'
  BY DEF BuildInv, HolderIsRight, At
<1>4. QED
  BY <1>1, <1>2, <1>3 DEF BuildInv

LEMMA BuildInvPreserved ==
  ASSUME PoolAssumption, Pool!TypeOK, BuildInv, [Pool!Next]_(Pool!vars)
  PROVE  BuildInv'
<1>0. /\ pool_call \in [Calls -> CallRecord] /\ pool_pool \in 0..MaxPools
      /\ pool_state \in [Pool!Pools -> {"unbuilt", "open", "stale", "closing", "closed"}]
      /\ \A c \in Calls : pool_lock # c <=> At(c) \notin {"build", "close"}
      /\ \A c \in Calls : ~ pool_call[c].early
      /\ Pool!NoCall \notin Calls
  BY DEF Pool!TypeOK, CallRecord, BuildInv, Exclusive, HolderIsRight, PoolAssumption
<1>1. ASSUME NEW c \in Calls, Pool!Begin(c) PROVE BuildInv'
  <2>1. /\ pool_call'[c].at = "get" /\ ~ pool_call'[c].early /\ At(c) = "idle"
        /\ \A o \in Calls \ {c} : pool_call'[o].at = At(o) /\ ~ pool_call'[o].early
    <3>1. DOMAIN Pool!Disturbed(pool_call) = Calls
      BY PoolDisturbed
    <3>2. QED
      BY <1>0, <1>1, <3>1, PoolDisturbed DEF Pool!Begin, Pool!Idle, At
  <2>2. UNCHANGED <<pool_pool, pool_state, pool_lock>>
    BY <1>1 DEF Pool!Begin
  <2>3. Exclusive' /\ HolderIsRight'
    BY <1>0, <2>1, <2>2 DEF BuildInv, Exclusive, HolderIsRight, At
  <2>4. QED
    BY <2>2, <2>3 DEF BuildInv, OnlyCurrentLives
<1>2. ASSUME NEW c \in Calls, Pool!GetPool(c) PROVE BuildInv'
  <2> DEFINE tried == Pool!Attempt(c, pool_pool)
             queued == [pool_call[c] EXCEPT !.at = "build lock"]
  <2>0. tried \in CallRecord /\ queued \in CallRecord
    BY <1>0, PoolRecords
  <2>1. /\ tried.at = "acquire" /\ ~ tried.early
        /\ queued.at = "build lock" /\ ~ queued.early
    BY <1>0 DEF Pool!Attempt, CallRecord
  <2>2. /\ pool_call'[c].at \in {"acquire", "idle", "build lock"} /\ ~ pool_call'[c].early
        /\ \A o \in Calls \ {c} : pool_call'[o] = pool_call[o]
    <3>1. Pool!Step(c, tried) \/ Pool!Step(c, queued) \/ Pool!End(c, "excused")
      BY <1>2 DEF Pool!GetPool
    <3> HIDE DEF tried, queued
    <3>2. QED
      BY <2>0, <2>1, <3>1, PoolStep, PoolEnd
  <2>3. At(c) = "get" /\ UNCHANGED <<pool_pool, pool_state, pool_lock>>
    BY <1>2 DEF Pool!GetPool, At
  <2>4. QED
    BY <2>2, <2>3, BuildInvCallSteps
<1>3. ASSUME NEW c \in Calls, Pool!EnterBuild(c) PROVE BuildInv'
  <2>0. At(c) = "build lock" /\ pool_lock = Pool!NoCall /\ UNCHANGED <<pool_pool, pool_state>>
    BY <1>3 DEF Pool!EnterBuild, At
  <2>1. CASE pool_pool # Pool!NoPool \/ pool_cooling
    <3>1. \A p \in 0..MaxPools : Pool!Attempt(c, p).at = "acquire" /\ ~ Pool!Attempt(c, p).early
      BY <1>0 DEF Pool!Attempt, CallRecord
    <3>2. /\ pool_call'[c].at \in {"acquire", "idle"} /\ ~ pool_call'[c].early
          /\ \A o \in Calls \ {c} : pool_call'[o] = pool_call[o]
          /\ pool_lock' = pool_lock
      BY <1>0, <1>3, <2>1, <3>1, PoolStep, PoolEnd, PoolRecords
         DEF Pool!EnterBuild, Pool!SecondLook, Pool!StillCooling
    <3>3. QED
      BY <2>0, <3>2, BuildInvCallSteps
  <2>2. CASE pool_pool = Pool!NoPool /\ ~ pool_cooling
    <3>1. [pool_call[c] EXCEPT !.at = "build", !.early = pool_cooling] \in CallRecord
      BY PoolRecords DEF Pool!TypeOK
    <3>2. /\ pool_call'[c].at = "build" /\ ~ pool_call'[c].early
          /\ \A o \in Calls \ {c} : pool_call'[o] = pool_call[o]
          /\ pool_lock' = c
      BY <1>0, <1>3, <2>2, <3>1, PoolStep
         DEF Pool!EnterBuild, Pool!SecondLook, Pool!StillCooling, CallRecord
    <3>3. \A o \in Calls : At(o) \notin {"build", "close"}
      BY <1>0, <2>0
    <3>4. Exclusive' /\ HolderIsRight'
      BY <1>0, <2>0, <2>2, <3>2, <3>3 DEF Exclusive, HolderIsRight, At
    <3>5. QED
      BY <2>0, <3>4 DEF BuildInv, OnlyCurrentLives
  <2>3. QED
    BY <2>1, <2>2
<1>4. ASSUME NEW c \in Calls, Pool!Built(c) PROVE BuildInv'
  <2>1. PICK p \in Pool!Pools :
          /\ pool_pool' = p /\ pool_state' = [pool_state EXCEPT ![p] = "open"]
          /\ Pool!Step(c, [Pool!Attempt(c, p) EXCEPT !.early = FALSE])
    BY <1>4 DEF Pool!Built
  <2>2. p \in 0..MaxPools /\ p # Pool!NoPool
    BY DEF Pool!Pools, Pool!NoPool
  <2>3. /\ pool_call'[c].at = "acquire" /\ ~ pool_call'[c].early
        /\ \A o \in Calls \ {c} : pool_call'[o] = pool_call[o]
    <3> DEFINE next == [Pool!Attempt(c, p) EXCEPT !.early = FALSE]
    <3>1. next \in CallRecord
      BY <2>2, PoolRecords
    <3>2. next.at = "acquire" /\ ~ next.early
      BY <1>0 DEF Pool!Attempt, CallRecord
    <3> HIDE DEF next
    <3>3. QED
      BY <2>1, <3>1, <3>2, PoolStep DEF next
  <2>4. At(c) = "build" /\ pool_lock' = Pool!NoCall
    BY <1>4 DEF Pool!Built, At
  <2>5. pool_pool = Pool!NoPool
    BY <2>4 DEF BuildInv, HolderIsRight
  <2>6. \A o \in Calls \ {c} : At(o) \notin {"build", "close"}
    BY <2>4 DEF BuildInv, Exclusive
  <2>7. Exclusive' /\ HolderIsRight'
    BY <1>0, <2>3, <2>4, <2>6 DEF Exclusive, HolderIsRight, At
  <2>8. OnlyCurrentLives'
    BY <1>0, <2>1, <2>5 DEF BuildInv, OnlyCurrentLives, Pool!NoPool, Pool!Pools
  <2>9. QED
    BY <2>7, <2>8 DEF BuildInv
<1>5. ASSUME NEW c \in Calls, Pool!BuildFails(c) PROVE BuildInv'
  <2>1. /\ pool_call'[c].at = "idle" /\ ~ pool_call'[c].early
        /\ \A o \in Calls \ {c} : pool_call'[o] = pool_call[o]
    BY <1>5, PoolEnd DEF Pool!BuildFails
  <2>2. At(c) = "build" /\ pool_lock' = Pool!NoCall /\ UNCHANGED <<pool_pool, pool_state>>
    BY <1>5 DEF Pool!BuildFails, At
  <2>3. \A o \in Calls \ {c} : At(o) \notin {"build", "close"}
    BY <2>2 DEF BuildInv, Exclusive
  <2>4. Exclusive' /\ HolderIsRight'
    BY <1>0, <2>1, <2>2, <2>3 DEF Exclusive, HolderIsRight, At
  <2>5. QED
    BY <2>2, <2>4 DEF BuildInv, OnlyCurrentLives
<1>6. ASSUME NEW c \in Calls,
             \/ Pool!Acquire(c) \/ Pool!ClearCooldown(c)
             \/ Pool!Finish(c) \/ Pool!QueryFails(c)
      PROVE  BuildInv'
  <2>1. \A a \in {"use", "dead", "reset", "reset lock"} :
          /\ [pool_call[c] EXCEPT !.at = a] \in CallRecord
          /\ [pool_call[c] EXCEPT !.at = a].at = a /\ ~ [pool_call[c] EXCEPT !.at = a].early
    <3>1. \A x \in CallRecord, a \in {"use", "dead", "reset", "reset lock"} :
            [x EXCEPT !.at = a].at = a /\ [x EXCEPT !.at = a].early = x.early
      BY DEF CallRecord
    <3>2. pool_call[c] \in CallRecord /\ ~ pool_call[c].early
      BY <1>0
    <3>3. \A a \in {"use", "dead", "reset", "reset lock"} : [pool_call[c] EXCEPT !.at = a] \in CallRecord
      BY PoolRecords
    <3>4. QED
      BY <3>1, <3>2, <3>3
  <2>2. /\ pool_call'[c].at \in {"use", "dead", "reset", "reset lock", "idle"} /\ ~ pool_call'[c].early
        /\ \A o \in Calls \ {c} : pool_call'[o] = pool_call[o]
    <3>1. \/ \E a \in {"use", "dead", "reset", "reset lock"} : Pool!Step(c, [pool_call[c] EXCEPT !.at = a])
          \/ \E result \in {"raised", "excused", "served", "cut"} : Pool!End(c, result)
      BY <1>6 DEF Pool!Acquire, Pool!ClearCooldown, Pool!Finish, Pool!QueryFails
    <3>2. QED
      BY <2>1, <3>1, PoolStep, PoolEnd
  <2>3. At(c) \in {"acquire", "reset", "use", "dead"} /\ UNCHANGED <<pool_pool, pool_state, pool_lock>>
    BY <1>6 DEF Pool!Acquire, Pool!ClearCooldown, Pool!Finish, Pool!QueryFails, At
  <2>4. QED
    BY <2>2, <2>3, BuildInvCallSteps
<1>7. ASSUME NEW c \in Calls, Pool!EnterReset(c) PROVE BuildInv'
  <2>0. At(c) = "reset lock" /\ pool_lock = Pool!NoCall /\ pool_pool' = pool_pool
    BY <1>7 DEF Pool!EnterReset, At
  <2>1. CASE pool_pool = Pool!NoPool
    <3>1. Pool!Retry(c).at = "get" /\ ~ Pool!Retry(c).early
      BY <1>0 DEF Pool!Retry, CallRecord
    <3>2. /\ pool_call'[c].at = "get" /\ ~ pool_call'[c].early
          /\ \A o \in Calls \ {c} : pool_call'[o] = pool_call[o]
          /\ UNCHANGED <<pool_state, pool_lock>>
      BY <1>7, <2>1, <3>1, PoolStep, PoolRecords DEF Pool!EnterReset
    <3>3. QED
      BY <2>0, <3>2, BuildInvCallSteps
  <2>2. CASE pool_pool # Pool!NoPool
    <3>1. [pool_call[c] EXCEPT !.at = "close"] \in CallRecord
      BY PoolRecords
    <3>2. /\ pool_call'[c].at = "close" /\ ~ pool_call'[c].early
          /\ \A o \in Calls \ {c} : pool_call'[o] = pool_call[o]
      BY <1>0, <1>7, <2>2, <3>1, PoolStep DEF Pool!EnterReset, CallRecord
    <3>3. pool_lock' = c /\ pool_state' = [pool_state EXCEPT ![pool_pool] = IF @ = "closed" THEN @ ELSE "closing"]
      BY <1>7, <2>2 DEF Pool!EnterReset
    <3>4. \A o \in Calls : At(o) \notin {"build", "close"}
      BY <1>0, <2>0
    <3>5. Exclusive' /\ HolderIsRight'
      BY <1>0, <2>0, <2>2, <3>2, <3>3, <3>4 DEF Exclusive, HolderIsRight, At
    <3>6. OnlyCurrentLives'
      BY <1>0, <2>0, <3>3 DEF BuildInv, OnlyCurrentLives
    <3>7. QED
      BY <3>5, <3>6 DEF BuildInv
  <2>3. QED
    BY <2>1, <2>2
<1>8. ASSUME NEW c \in Calls, Pool!Closed(c) PROVE BuildInv'
  <2>1. Pool!Retry(c).at = "get" /\ ~ Pool!Retry(c).early
    BY <1>0 DEF Pool!Retry, CallRecord
  <2>2. /\ pool_call'[c].at = "get" /\ ~ pool_call'[c].early
        /\ \A o \in Calls \ {c} : pool_call'[o] = pool_call[o]
    BY <1>8, <2>1, PoolStep, PoolRecords DEF Pool!Closed
  <2>3. /\ At(c) = "close" /\ pool_lock' = Pool!NoCall /\ pool_pool' = Pool!NoPool
        /\ pool_state' = [pool_state EXCEPT ![pool_pool] = "closed"]
    BY <1>8 DEF Pool!Closed, Pool!Forgotten, At
  <2>4. \A o \in Calls \ {c} : At(o) \notin {"build", "close"}
    BY <2>3 DEF BuildInv, Exclusive
  <2>5. Exclusive' /\ HolderIsRight'
    BY <1>0, <2>2, <2>3, <2>4 DEF Exclusive, HolderIsRight, At
  <2>6. OnlyCurrentLives'
    BY <1>0, <2>3 DEF BuildInv, OnlyCurrentLives
  <2>7. QED
    BY <2>5, <2>6 DEF BuildInv
<1>9. ASSUME NEW c \in Calls, Pool!Cancel(c) PROVE BuildInv'
  <2>1. /\ pool_call'[c].at = "idle" /\ ~ pool_call'[c].early
        /\ \A o \in Calls \ {c} : pool_call'[o] = pool_call[o]
    BY <1>9, PoolEnd DEF Pool!Cancel
  <2>2. /\ pool_lock' = IF pool_lock = c THEN Pool!NoCall ELSE pool_lock
        /\ pool_state' = IF At(c) = "close" THEN [pool_state EXCEPT ![pool_pool] = "closed"]
                         ELSE pool_state
        /\ pool_pool' = pool_pool
    BY <1>9 DEF Pool!Cancel, At
  <2>3. Exclusive' /\ HolderIsRight'
    BY <1>0, <2>1, <2>2 DEF BuildInv, Exclusive, HolderIsRight, At
  <2>4. OnlyCurrentLives'
    BY <1>0, <2>2 DEF BuildInv, OnlyCurrentLives
  <2>5. QED
    BY <2>3, <2>4 DEF BuildInv
<1>10. CASE Pool!GoStale \/ Pool!UpOrDown
  <2>1. \A c \in Calls : pool_call'[c].at = At(c) /\ ~ pool_call'[c].early
    BY <1>0, <1>10, PoolDisturbed DEF Pool!GoStale, Pool!UpOrDown
  <2>2. UNCHANGED <<pool_pool, pool_lock>>
    BY <1>10 DEF Pool!GoStale, Pool!UpOrDown
  <2>3. Exclusive' /\ HolderIsRight'
    BY <2>1, <2>2 DEF BuildInv, Exclusive, HolderIsRight, At
  <2>4. OnlyCurrentLives'
    BY <1>0, <1>10, <2>2 DEF BuildInv, OnlyCurrentLives, Pool!GoStale, Pool!UpOrDown
  <2>5. QED
    BY <2>3, <2>4 DEF BuildInv
<1>11. CASE Pool!Cooled \/ UNCHANGED Pool!vars
  BY <1>11 DEF Pool!Cooled, Pool!vars, BuildInv, Exclusive, OnlyCurrentLives, HolderIsRight, At
<1>12. QED
  BY <1>1, <1>2, <1>3, <1>4, <1>5, <1>6, <1>7, <1>8, <1>9, <1>10, <1>11 DEF Pool!Next

LEMMA BuildInvImplies ==
  ASSUME PoolAssumption, Pool!TypeOK, BuildInv
  PROVE  Pool!BuildsAreNeeded
<1> DEFINE live == {p \in Pool!Pools : pool_state[p] \notin {"unbuilt", "closed"}}
<1>1. live \subseteq {pool_pool}
  BY DEF BuildInv, OnlyCurrentLives
<1>2. Cardinality(live) <= 1
  <2>1. IsFiniteSet({pool_pool}) /\ Cardinality({pool_pool}) = 1 /\ live \in SUBSET {pool_pool}
    BY <1>1, FS_Singleton
  <2> HIDE DEF live
  <2>2. QED
    BY <2>1, FS_Subset
<1>3. \A c \in Calls : pool_call[c].at = "build" => pool_pool = Pool!NoPool /\ ~ pool_call[c].early
  BY DEF BuildInv, HolderIsRight, At
<1>4. Pool!Cardinality(live) <= 1
  <2> HIDE DEF live
  <2>1. \A S : Pool!Cardinality(S) = Cardinality(S)
    BY Zenon DEF Pool!Cardinality, Cardinality
  <2>2. QED
    BY <1>2, <2>1
<1>5. QED
  BY <1>3, <1>4 DEF Pool!BuildsAreNeeded

\* However many calls of with_connection overlap, and whatever the server, the
\* clock and cancellations do, a pool is built only where there is none, by one
\* call, and never while an earlier failure asks for a pause.
THEOREM PoolBuildsAreNeeded ==
  ASSUME PoolAssumption
  PROVE  Pool!Spec => []Pool!BuildsAreNeeded
<1>1. Pool!Init => Pool!TypeOK /\ BuildInv
  BY PoolTypeInitial, BuildInvInitial
<1>2. Pool!TypeOK /\ BuildInv /\ [Pool!Next]_(Pool!vars) => Pool!TypeOK' /\ BuildInv'
  BY PoolTypePreserved, BuildInvPreserved
<1>3. Pool!TypeOK /\ BuildInv => Pool!BuildsAreNeeded
  BY BuildInvImplies
<1>4. QED
  BY <1>1, <1>2, <1>3, PTL DEF Pool!Spec

\* A call that nothing has happened beside is the only one.
AloneIsAlone ==
  \A c \in Calls : pool_call[c].alone /\ At(c) # "idle" =>
                     \A o \in Calls \ {c} : At(o) = "idle"

\* It asks the pool that is current, and a dead connection in its hand comes
\* from a stale one or of a server that is away.  On its second attempt it has
\* built that pool itself.
Undisturbed(c) ==
  pool_call[c].alone =>
    /\ At(c) \in {"acquire", "dead"} => pool_call[c].pool = pool_pool /\ pool_pool # Pool!NoPool
    /\ At(c) = "dead" => ~ pool_up \/ pool_state[pool_pool] = "stale"
    /\ pool_call[c].retry =>
         /\ At(c) \in {"get", "build lock", "build"} => pool_pool = Pool!NoPool
         /\ At(c) = "acquire" => pool_state[pool_call[c].pool] = "open"
         /\ At(c) = "dead" => ~ pool_up

RetryInv ==
  /\ AloneIsAlone
  /\ \A c \in Calls : Undisturbed(c)
  /\ Pool!RetryIsEnough

LEMMA RetryInvInitial ==
  ASSUME PoolAssumption, Pool!Init
  PROVE  RetryInv
<1>1. \A c \in Calls : At(c) = "idle" /\ ~ pool_call[c].retry
  BY DEF Pool!Init, Pool!Idle, At
<1>2. QED
  BY <1>1 DEF RetryInv, AloneIsAlone, Undisturbed, Pool!RetryIsEnough, Pool!Init

\* A step of a call under way concerns that call only.
LEMMA RetryInvCallSteps ==
  ASSUME RetryInv, NEW c \in Calls, At(c) # "idle",
         \A o \in Calls \ {c} : pool_call'[o] = pool_call[o],
         pool_call'[c].at # "idle" => (pool_call'[c].alone <=> pool_call[c].alone),
         Undisturbed(c)', Pool!RetryIsEnough'
  PROVE  RetryInv'
<1>1. AloneIsAlone'
  BY DEF RetryInv, AloneIsAlone, At
<1>2. ASSUME NEW o \in Calls PROVE Undisturbed(o)'
  <2>1. CASE o # c
    <3>1. pool_call'[o] = pool_call[o]
      BY <2>1
    <3>2. At(o) # "idle" => ~ pool_call[o].alone
      BY <2>1 DEF RetryInv, AloneIsAlone
    <3>3. QED
      BY <3>1, <3>2 DEF Undisturbed, At
  <2>2. QED
    BY <2>1
<1>3. QED
  BY <1>1, <1>2 DEF RetryInv, Pool!RetryIsEnough

LEMMA RetryInvEnd ==
  ASSUME PoolAssumption, Pool!TypeOK, RetryInv, NEW c \in Calls, At(c) # "idle",
         NEW result, Pool!End(c, result),
         pool_call[c].alone =>
           /\ result # "raised"
           /\ result = "cut" =>
                ~ pool_up' \/ (pool_pool' # Pool!NoPool /\ pool_state'[pool_pool'] = "stale")
  PROVE  RetryInv'
<1>1. /\ pool_call'[c].at = "idle" /\ \A o \in Calls \ {c} : pool_call'[o] = pool_call[o]
      /\ pool_answer' # "none yet" => pool_call[c].alone /\ pool_answer' = result
  BY PoolEnd
<1>2. Undisturbed(c)' /\ Pool!RetryIsEnough'
  BY <1>1 DEF Undisturbed, At, Pool!RetryIsEnough
<1>3. QED
  BY <1>1, <1>2, RetryInvCallSteps

\* A record that a step of the call made of another.
Keeps(x, y) == (y.alone <=> x.alone) /\ (y.retry <=> x.retry)

LEMMA KeptMoving ==
  \A y : \A x \in CallRecord : \A a \in {"build lock", "use", "dead", "reset", "reset lock", "close"} :
    y = [x EXCEPT !.at = a] => y.at = a /\ y.pool = x.pool /\ Keeps(x, y)
BY DEF CallRecord, Keeps

LEMMA KeptEntering ==
  \A y : \A x \in CallRecord : \A e \in BOOLEAN :
    y = [x EXCEPT !.at = "build", !.early = e] => y.at = "build" /\ Keeps(x, y)
BY DEF CallRecord, Keeps

LEMMA KeptAttempting ==
  ASSUME Pool!TypeOK, NEW c \in Calls, NEW p \in 0..MaxPools, NEW y,
         y = Pool!Attempt(c, p) \/ y = [Pool!Attempt(c, p) EXCEPT !.early = FALSE]
  PROVE  y.at = "acquire" /\ y.pool = p /\ Keeps(pool_call[c], y)
<1>1. \A x \in CallRecord :
        LET z == [x EXCEPT !.at = "acquire", !.pool = p]
        IN  y = z \/ y = [z EXCEPT !.early = FALSE] =>
              y.at = "acquire" /\ y.pool = p /\ Keeps(x, y)
  BY DEF CallRecord, Keeps
<1>2. pool_call[c] \in CallRecord
  BY DEF Pool!TypeOK, CallRecord
<1>3. QED
  BY <1>1, <1>2 DEF Pool!Attempt

LEMMA KeptRetrying ==
  ASSUME Pool!TypeOK, NEW c \in Calls, NEW y, y = Pool!Retry(c)
  PROVE  y.at = "get" /\ (y.alone <=> pool_call[c].alone)
<1>1. \A x \in CallRecord :
        y = [x EXCEPT !.at = "get", !.pool = Pool!NoPool, !.retry = TRUE] =>
          y.at = "get" /\ (y.alone <=> x.alone)
  BY DEF CallRecord
<1>2. pool_call[c] \in CallRecord
  BY DEF Pool!TypeOK, CallRecord
<1>3. QED
  BY <1>1, <1>2 DEF Pool!Retry

LEMMA RetryInvPreserved ==
  ASSUME PoolAssumption, Pool!TypeOK, RetryInv, [Pool!Next]_(Pool!vars)
  PROVE  RetryInv'
<1>0. /\ pool_call \in [Calls -> CallRecord] /\ pool_pool \in 0..MaxPools
      /\ pool_state \in [Pool!Pools -> {"unbuilt", "open", "stale", "closing", "closed"}]
  BY DEF Pool!TypeOK, CallRecord
<1>1. ASSUME NEW c \in Calls, Pool!Begin(c) PROVE RetryInv'
  <2>1. /\ At(c) = "idle" /\ UNCHANGED <<pool_pool, pool_state, pool_lock>>
        /\ pool_answer' = "none yet"
    BY <1>1 DEF Pool!Begin, At
  <2>2. /\ pool_call'[c].at = "get" /\ ~ pool_call'[c].retry
        /\ pool_call'[c].alone = \A o \in Calls : At(o) = "idle"
    BY <1>1, PoolDisturbed DEF Pool!Begin, Pool!Idle, At
  <2>3. \A o \in Calls \ {c} : pool_call'[o].at = At(o)
                               /\ (pool_call'[o].alone => At(o) = "idle")
    BY <1>1, PoolDisturbed DEF Pool!Begin, At
  <2>4. AloneIsAlone'
    BY <2>2, <2>3 DEF AloneIsAlone, At
  <2>5. \A o \in Calls : Undisturbed(o)'
    BY <2>2, <2>3 DEF Undisturbed, At
  <2>6. QED
    BY <2>1, <2>4, <2>5 DEF RetryInv, Pool!RetryIsEnough
<1>2. ASSUME NEW c \in Calls, Pool!GetPool(c) PROVE RetryInv'
  <2>1. At(c) = "get" /\ pool_state' = pool_state /\ pool_pool' = pool_pool
    BY <1>2 DEF Pool!GetPool, At
  <2>2. CASE pool_pool # Pool!NoPool
    <3>1. Pool!Step(c, Pool!Attempt(c, pool_pool)) /\ Pool!Attempt(c, pool_pool) \in CallRecord
      BY <1>0, <1>2, <2>2, PoolRecords DEF Pool!GetPool
    <3>2. ~ (pool_call[c].alone /\ pool_call[c].retry)
      BY <2>1, <2>2 DEF RetryInv, Undisturbed
    <3>3. /\ pool_call'[c] = Pool!Attempt(c, pool_pool) /\ pool_answer' = "none yet"
          /\ \A o \in Calls \ {c} : pool_call'[o] = pool_call[o]
      BY <3>1, PoolStep
    <3>4. /\ pool_call'[c].at = "acquire" /\ pool_call'[c].pool = pool_pool
          /\ Keeps(pool_call[c], pool_call'[c])
      <4>1. pool_pool \in 0..MaxPools /\ pool_call'[c] = Pool!Attempt(c, pool_pool)
        BY <1>0, <3>3
      <4>2. QED
        BY <4>1, KeptAttempting
    <3>5. Undisturbed(c)' /\ (pool_call'[c].alone <=> pool_call[c].alone)
      BY <2>1, <2>2, <3>2, <3>4 DEF Undisturbed, Keeps, At
    <3>6. QED
      BY <2>1, <3>3, <3>5, RetryInvCallSteps DEF Pool!RetryIsEnough
  <2>3. CASE pool_pool = Pool!NoPool /\ pool_cooling
    <3>1. Pool!End(c, "excused")
      BY <1>2, <2>3 DEF Pool!GetPool
    <3>2. QED
      BY <2>1, <3>1, RetryInvEnd
  <2>4. CASE pool_pool = Pool!NoPool /\ ~ pool_cooling
    <3>1. /\ Pool!Step(c, [pool_call[c] EXCEPT !.at = "build lock"]) /\ pool_pool' = pool_pool
          /\ [pool_call[c] EXCEPT !.at = "build lock"] \in CallRecord
      BY <1>0, <1>2, <2>4, PoolRecords DEF Pool!GetPool
    <3>2. /\ pool_call'[c] = [pool_call[c] EXCEPT !.at = "build lock"] /\ pool_answer' = "none yet"
          /\ \A o \in Calls \ {c} : pool_call'[o] = pool_call[o]
      BY <3>1, PoolStep
    <3>3. Undisturbed(c)' /\ (pool_call'[c].alone <=> pool_call[c].alone)
      BY <1>0, <2>4, <3>1, <3>2, KeptMoving DEF Undisturbed, Keeps, At
    <3>4. QED
      BY <2>1, <3>2, <3>3, RetryInvCallSteps DEF Pool!RetryIsEnough
  <2>5. QED
    BY <2>2, <2>3, <2>4
<1>3. ASSUME NEW c \in Calls, Pool!EnterBuild(c) PROVE RetryInv'
  <2>1. At(c) = "build lock" /\ pool_state' = pool_state /\ pool_pool' = pool_pool
    BY <1>3 DEF Pool!EnterBuild, At
  <2>2. CASE pool_pool # Pool!NoPool
    <3>1. Pool!Step(c, Pool!Attempt(c, pool_pool)) /\ Pool!Attempt(c, pool_pool) \in CallRecord
      BY <1>0, <1>3, <2>2, PoolRecords DEF Pool!EnterBuild, Pool!SecondLook
    <3>2. ~ (pool_call[c].alone /\ pool_call[c].retry)
      BY <2>1, <2>2 DEF RetryInv, Undisturbed
    <3>3. /\ pool_call'[c] = Pool!Attempt(c, pool_pool) /\ pool_answer' = "none yet"
          /\ \A o \in Calls \ {c} : pool_call'[o] = pool_call[o]
      BY <3>1, PoolStep
    <3>4. /\ pool_call'[c].at = "acquire" /\ pool_call'[c].pool = pool_pool
          /\ Keeps(pool_call[c], pool_call'[c])
      <4>1. pool_pool \in 0..MaxPools /\ pool_call'[c] = Pool!Attempt(c, pool_pool)
        BY <1>0, <3>3
      <4>2. QED
        BY <4>1, KeptAttempting
    <3>5. Undisturbed(c)' /\ (pool_call'[c].alone <=> pool_call[c].alone)
      BY <2>1, <2>2, <3>2, <3>4 DEF Undisturbed, Keeps, At
    <3>6. QED
      BY <2>1, <3>3, <3>5, RetryInvCallSteps DEF Pool!RetryIsEnough
  <2>3. CASE pool_pool = Pool!NoPool /\ pool_cooling
    <3>1. Pool!End(c, "excused")
      BY <1>3, <2>3 DEF Pool!EnterBuild, Pool!SecondLook, Pool!StillCooling
    <3>2. QED
      BY <2>1, <3>1, RetryInvEnd
  <2>4. CASE pool_pool = Pool!NoPool /\ ~ pool_cooling
    <3>1. Pool!Step(c, [pool_call[c] EXCEPT !.at = "build", !.early = pool_cooling])
      BY <1>3, <2>4 DEF Pool!EnterBuild, Pool!SecondLook, Pool!StillCooling
    <3>2. pool_cooling \in BOOLEAN
      BY DEF Pool!TypeOK
    <3>3. [pool_call[c] EXCEPT !.at = "build", !.early = pool_cooling] \in CallRecord
      BY <3>2, PoolRecords
    <3>4. /\ pool_call'[c] = [pool_call[c] EXCEPT !.at = "build", !.early = pool_cooling]
          /\ pool_answer' = "none yet" /\ \A o \in Calls \ {c} : pool_call'[o] = pool_call[o]
      BY <3>1, <3>3, PoolStep
    <3>5. pool_call'[c].at = "build" /\ Keeps(pool_call[c], pool_call'[c])
      BY <1>0, <3>2, <3>4, KeptEntering
    <3>6. Undisturbed(c)' /\ (pool_call'[c].alone <=> pool_call[c].alone)
      BY <2>1, <2>4, <3>5 DEF Undisturbed, Keeps, At
    <3>7. QED
      BY <2>1, <3>4, <3>6, RetryInvCallSteps DEF Pool!RetryIsEnough
  <2>5. QED
    BY <2>2, <2>3, <2>4
<1>4. ASSUME NEW c \in Calls, Pool!Built(c) PROVE RetryInv'
  <2>1. PICK p \in 1..MaxPools : /\ pool_state' = [pool_state EXCEPT ![p] = "open"] /\ pool_pool' = p
                                 /\ Pool!Step(c, [Pool!Attempt(c, p) EXCEPT !.early = FALSE])
    BY <1>4 DEF Pool!Built, Pool!Pools
  <2>2. p \in 0..MaxPools
    OBVIOUS
  <2>3. /\ pool_call'[c] = [Pool!Attempt(c, p) EXCEPT !.early = FALSE] /\ pool_answer' = "none yet"
        /\ \A o \in Calls \ {c} : pool_call'[o] = pool_call[o]
    BY <2>1, <2>2, PoolRecords, PoolStep
  <2>4. pool_state'[p] = "open"
    BY <1>0, <2>1 DEF Pool!Pools
  <2>5. /\ pool_call'[c].at = "acquire" /\ pool_call'[c].pool = p
        /\ Keeps(pool_call[c], pool_call'[c])
    BY <2>2, <2>3, KeptAttempting
  <2>6. Undisturbed(c)' /\ (pool_call'[c].alone <=> pool_call[c].alone)
    BY <2>1, <2>4, <2>5 DEF Undisturbed, Keeps, At, Pool!NoPool
  <2>7. At(c) = "build"
    BY <1>4 DEF Pool!Built, At
  <2>8. QED
    BY <2>3, <2>6, <2>7, RetryInvCallSteps DEF Pool!RetryIsEnough
<1>5. ASSUME NEW c \in Calls, Pool!BuildFails(c) \/ Pool!Finish(c) \/ Pool!Cancel(c)
      PROVE  RetryInv'
  <2>1. At(c) # "idle" /\ (Pool!End(c, "excused") \/ Pool!End(c, "served"))
    BY <1>5 DEF Pool!BuildFails, Pool!Finish, Pool!Cancel, At
  <2>2. QED
    BY <2>1, RetryInvEnd
<1>6. ASSUME NEW c \in Calls, Pool!Acquire(c) PROVE RetryInv'
  <2>1. At(c) = "acquire" /\ UNCHANGED <<pool_up, pool_pool, pool_state>>
    BY <1>6 DEF Pool!Acquire, At
  <2>2. ASSUME NEW a \in {"use", "dead", "reset"}, Pool!Step(c, [pool_call[c] EXCEPT !.at = a]),
               a = "dead" => Pool!MayBeDead(pool_call[c].pool)
        PROVE  RetryInv'
    <3>1. /\ pool_call'[c] = [pool_call[c] EXCEPT !.at = a] /\ pool_answer' = "none yet"
          /\ \A o \in Calls \ {c} : pool_call'[o] = pool_call[o]
      BY <2>2, PoolRecords, PoolStep
    <3>2. /\ pool_call'[c].at = a /\ Keeps(pool_call[c], pool_call'[c])
          /\ pool_call'[c].pool = pool_call[c].pool
      <4>1. pool_call[c] \in CallRecord /\ a \in {"build lock", "use", "dead", "reset", "reset lock", "close"}
        BY <1>0
      <4>2. QED
        BY <3>1, <4>1 DEF CallRecord, Keeps
    <3>3. pool_call[c].alone =>
            /\ pool_call[c].pool = pool_pool /\ pool_pool # Pool!NoPool
            /\ a = "dead" => ~ pool_up \/ pool_state[pool_pool] = "stale"
            /\ pool_call[c].retry /\ a = "dead" => ~ pool_up
      BY <2>1, <2>2 DEF RetryInv, Undisturbed, Pool!MayBeDead
    <3>4. Undisturbed(c)' /\ (pool_call'[c].alone <=> pool_call[c].alone)
      BY <2>1, <3>2, <3>3 DEF Undisturbed, Keeps, At
    <3>5. QED
      BY <2>1, <3>1, <3>4, RetryInvCallSteps DEF Pool!RetryIsEnough
  <2>3. ASSUME pool_call[c].retry, Pool!AcquireFails(c),
               Pool!End(c, IF pool_up THEN "raised" ELSE "excused")
        PROVE  RetryInv'
    <3>1. pool_call[c].alone => ~ pool_up
      <4>1. ASSUME pool_call[c].alone PROVE pool_state[pool_call[c].pool] = "open"
        BY <2>1, <2>3, <4>1 DEF RetryInv, Undisturbed
      <4>2. ASSUME pool_call[c].alone PROVE Pool!Users(pool_call[c].pool) = {}
        BY <2>1, <4>2 DEF RetryInv, AloneIsAlone, Pool!Users, At
      <4>3. QED
        BY <2>3, <4>1, <4>2 DEF Pool!AcquireFails
    <3>2. QED
      BY <2>1, <2>3, <3>1, RetryInvEnd
  <2>4. QED
    BY <1>6, <2>2, <2>3 DEF Pool!Acquire
<1>7. ASSUME NEW c \in Calls, Pool!ClearCooldown(c) PROVE RetryInv'
  <2>1. At(c) = "reset" /\ Pool!Step(c, [pool_call[c] EXCEPT !.at = "reset lock"])
    BY <1>7 DEF Pool!ClearCooldown, At
  <2>2. /\ pool_call'[c] = [pool_call[c] EXCEPT !.at = "reset lock"] /\ pool_answer' = "none yet"
        /\ \A o \in Calls \ {c} : pool_call'[o] = pool_call[o]
    BY <2>1, PoolRecords, PoolStep
  <2>3. Undisturbed(c)' /\ (pool_call'[c].alone <=> pool_call[c].alone)
    BY <1>0, <2>2, KeptMoving DEF Undisturbed, Keeps, At
  <2>4. QED
    BY <2>1, <2>2, <2>3, RetryInvCallSteps DEF Pool!RetryIsEnough
<1>8. ASSUME NEW c \in Calls, Pool!EnterReset(c) PROVE RetryInv'
  <2>1. At(c) = "reset lock" /\ pool_pool' = pool_pool
    BY <1>8 DEF Pool!EnterReset, At
  <2>2. CASE pool_pool = Pool!NoPool
    <3>1. Pool!Step(c, Pool!Retry(c))
      BY <1>8, <2>2 DEF Pool!EnterReset
    <3>2. /\ pool_call'[c] = Pool!Retry(c) /\ pool_answer' = "none yet"
          /\ \A o \in Calls \ {c} : pool_call'[o] = pool_call[o]
      BY <3>1, PoolRecords, PoolStep
    <3>3. Undisturbed(c)' /\ (pool_call'[c].alone <=> pool_call[c].alone)
      BY <2>1, <2>2, <3>2, KeptRetrying DEF Undisturbed, Keeps, At
    <3>4. QED
      BY <2>1, <3>2, <3>3, RetryInvCallSteps DEF Pool!RetryIsEnough
  <2>3. CASE pool_pool # Pool!NoPool
    <3>1. Pool!Step(c, [pool_call[c] EXCEPT !.at = "close"])
      BY <1>8, <2>3 DEF Pool!EnterReset
    <3>2. /\ pool_call'[c] = [pool_call[c] EXCEPT !.at = "close"] /\ pool_answer' = "none yet"
          /\ \A o \in Calls \ {c} : pool_call'[o] = pool_call[o]
      BY <3>1, PoolRecords, PoolStep
    <3>3. Undisturbed(c)' /\ (pool_call'[c].alone <=> pool_call[c].alone)
      BY <1>0, <3>2, KeptMoving DEF Undisturbed, Keeps, At
    <3>4. QED
      BY <2>1, <3>2, <3>3, RetryInvCallSteps DEF Pool!RetryIsEnough
  <2>4. QED
    BY <2>2, <2>3
<1>9. ASSUME NEW c \in Calls, Pool!Closed(c) PROVE RetryInv'
  <2>1. At(c) = "close" /\ pool_pool' = Pool!NoPool /\ Pool!Step(c, Pool!Retry(c))
    BY <1>9 DEF Pool!Closed, Pool!Forgotten, At
  <2>2. /\ pool_call'[c] = Pool!Retry(c) /\ pool_answer' = "none yet"
        /\ \A o \in Calls \ {c} : pool_call'[o] = pool_call[o]
    BY <2>1, PoolRecords, PoolStep
  <2>3. Undisturbed(c)' /\ (pool_call'[c].alone <=> pool_call[c].alone)
    BY <2>1, <2>2, KeptRetrying DEF Undisturbed, Keeps, At
  <2>4. QED
    BY <2>1, <2>2, <2>3, RetryInvCallSteps DEF Pool!RetryIsEnough
<1>10. CASE Pool!GoStale \/ Pool!UpOrDown
  <2>1. pool_call' = Pool!Disturbed(pool_call) /\ pool_answer' = "none yet"
    BY <1>10 DEF Pool!GoStale, Pool!UpOrDown
  <2>2. \A c \in Calls : pool_call'[c].at = At(c) /\ (pool_call'[c].alone => At(c) = "idle")
    BY <2>1, PoolDisturbed
  <2>3. QED
    BY <2>1, <2>2 DEF RetryInv, AloneIsAlone, Undisturbed, Pool!RetryIsEnough, At
<1>11. CASE Pool!Cooled
  BY <1>11 DEF Pool!Cooled, RetryInv, AloneIsAlone, Undisturbed, Pool!RetryIsEnough, At
<1>12. CASE UNCHANGED Pool!vars
  BY <1>12 DEF Pool!vars, RetryInv, AloneIsAlone, Undisturbed, Pool!RetryIsEnough, At
<1>13. ASSUME NEW c \in Calls, Pool!QueryFails(c) PROVE RetryInv'
  <2>1. /\ At(c) = "dead" /\ Pool!End(c, IF pool_call[c].retry /\ pool_up THEN "raised" ELSE "cut")
        /\ UNCHANGED <<pool_up, pool_pool, pool_state>>
    BY <1>13 DEF Pool!QueryFails, At
  <2>2. pool_call[c].alone =>
          /\ pool_call[c].retry => ~ pool_up
          /\ ~ pool_up \/ (pool_pool # Pool!NoPool /\ pool_state[pool_pool] = "stale")
    BY <2>1 DEF RetryInv, Undisturbed
  <2>3. QED
    BY <2>1, <2>2, RetryInvEnd
<1>14. QED
  BY <1>1, <1>2, <1>3, <1>4, <1>5, <1>6, <1>7, <1>8, <1>9, <1>10, <1>11, <1>12, <1>13
  DEF Pool!Next

\* A call that nothing happens beside does not fail after its rebuild while the
\* server is there, whatever pool the calls before it left behind: the pool it
\* builds for its second attempt is its own, and lends it a live connection.
\* A query fails on a dead connection only of a stale pool, which stays.
THEOREM PoolRetryIsEnough ==
  ASSUME PoolAssumption
  PROVE  Pool!Spec => []Pool!RetryIsEnough
<1>1. Pool!Init => Pool!TypeOK /\ RetryInv
  BY PoolTypeInitial, RetryInvInitial
<1>2. Pool!TypeOK /\ RetryInv /\ [Pool!Next]_(Pool!vars) => Pool!TypeOK' /\ RetryInv'
  BY PoolTypePreserved, RetryInvPreserved
<1>3. RetryInv => Pool!RetryIsEnough
  BY DEF RetryInv
<1>4. QED
  BY <1>1, <1>2, <1>3, PTL DEF Pool!Spec

\* Pools are built within their bound and calls are in the states there are.
THEOREM PoolTypes ==
  ASSUME PoolAssumption
  PROVE  Pool!Spec => []Pool!TypeOK
<1>1. Pool!Init => Pool!TypeOK
  BY PoolTypeInitial
<1>2. Pool!TypeOK /\ [Pool!Next]_(Pool!vars) => Pool!TypeOK'
  BY PoolTypePreserved
<1>3. QED
  BY <1>1, <1>2, PTL DEF Pool!Spec

(***************************************************************************)
(* The tick, the row it leaves and the watchdog.                           *)
(***************************************************************************)
\* "No errors recorded yet" is not one of the two answers.
TickAssumption == None \notin BOOLEAN

TickRecord ==
  [at: {"off", "start", "setup", "collect", "persist", "watch", "finish"},
   left: SUBSET Sources, errors: BOOLEAN, lost: BOOLEAN, cut: BOOLEAN]
RowRecord == [kept: BOOLEAN, errors: BOOLEAN \cup {None}, lost: BOOLEAN, cut: BOOLEAN]
EpisodeRecord == [alerts: {0, 1}, noticed: BOOLEAN, unseen: BOOLEAN]

\* What is lost is an error or the fault of a cut, before the row says so and after.
LossIsOwned ==
  /\ tick_tick \in TickRecord /\ tick_row \in RowRecord
  /\ tick_tick.lost => tick_tick.errors \/ tick_tick.cut
  /\ tick_tick.at = "start" => ~ tick_row.kept
  /\ Tick!CompletedTicksAreHonest

LEMMA LossIsOwnedInitial ==
  ASSUME Tick!Init
  PROVE  LossIsOwned
BY DEF Tick!Init, Tick!NoTick, Tick!NoRow, LossIsOwned, TickRecord, RowRecord,
       Tick!CompletedTicksAreHonest

LEMMA LossIsOwnedPreserved ==
  ASSUME TickAssumption, LossIsOwned, [Tick!Next]_(Tick!vars)
  PROVE  LossIsOwned'
<1>0. /\ tick_tick \in TickRecord /\ tick_row \in RowRecord
      /\ tick_tick.lost => tick_tick.errors \/ tick_tick.cut
      /\ tick_tick.at = "start" => ~ tick_row.kept
      /\ Tick!CompletedTicksAreHonest
  BY DEF LossIsOwned
<1>1. ASSUME NEW r \in Runs, Tick!Dispatch(r) PROVE LossIsOwned'
  BY <1>1 DEF Tick!Dispatch, LossIsOwned, Tick!CompletedTicksAreHonest
<1>2. ASSUME NEW r \in Runs, Tick!TakeLock(r) PROVE LossIsOwned'
  BY <1>2 DEF Tick!TakeLock, Tick!NoTick, Tick!NoRow, LossIsOwned, TickRecord, RowRecord,
              Tick!CompletedTicksAreHonest
<1>3. CASE Tick!Start
  <2>1. tick_row' \in RowRecord
    BY <1>0, <1>3 DEF Tick!Start, Tick!NoRow, RowRecord
  <2>2. CASE tick_tick' = [tick_tick EXCEPT !.at = "setup"]
    BY <1>0, <2>1, <2>2 DEF LossIsOwned, TickRecord, Tick!CompletedTicksAreHonest
  <2>3. CASE Tick!Release /\ tick_row' = tick_row
    BY <1>0, <1>3, <2>3 DEF Tick!Start, Tick!Release, Tick!NoTick, LossIsOwned, TickRecord,
                            Tick!CompletedTicksAreHonest
  <2>4. QED
    BY <1>3, <2>2, <2>3 DEF Tick!Start
<1>4. CASE Tick!SetUp
  <2>1. /\ tick_tick' \in TickRecord /\ tick_tick'.at \in {"collect", "finish"}
        /\ tick_tick'.lost = tick_tick.lost /\ tick_tick'.errors = tick_tick.errors
        /\ tick_tick.cut => tick_tick'.cut
    BY <1>0, <1>4 DEF Tick!SetUp, TickRecord
  <2>2. QED
    BY <1>0, <1>4, <2>1 DEF Tick!SetUp, LossIsOwned, Tick!CompletedTicksAreHonest
<1>5. CASE Tick!Collect \/ Tick!SoftDeadline \/ Tick!AllCollected \/ Tick!HardDeadline
  <2>1. /\ tick_tick' \in TickRecord /\ tick_tick'.at \in {"collect", "persist", "watch", "finish"}
        /\ (tick_tick.errors => tick_tick'.errors) /\ (tick_tick.cut => tick_tick'.cut)
        /\ tick_tick'.lost => tick_tick.lost \/ tick_tick'.cut
    <3>1. CASE Tick!Collect
      BY <1>0, <3>1 DEF Tick!Collect, TickRecord
    <3>2. CASE Tick!SoftDeadline
      BY <1>0, <3>2 DEF Tick!SoftDeadline, TickRecord
    <3>3. CASE Tick!AllCollected
      BY <1>0, <3>3 DEF Tick!AllCollected, TickRecord
    <3>4. CASE Tick!HardDeadline
      BY <1>0, <3>4 DEF Tick!HardDeadline, TickRecord
    <3>5. QED
      BY <1>5, <3>1, <3>2, <3>3, <3>4
  <2>2. tick_row' = tick_row
    BY <1>5 DEF Tick!Collect, Tick!SoftDeadline, Tick!AllCollected, Tick!HardDeadline
  <2>3. QED
    <3>1. tick_tick'.lost => tick_tick'.errors \/ tick_tick'.cut
      BY <1>0, <2>1, Zenon
    <3>2. tick_tick'.at # "off" /\ tick_tick'.at # "start"
      BY <2>1
    <3>3. QED
      BY <1>0, <2>1, <2>2, <3>1, <3>2, Zenon DEF LossIsOwned, Tick!CompletedTicksAreHonest
<1>6. CASE Tick!Persist
  <2>1. /\ tick_tick' \in TickRecord /\ tick_tick'.at = "collect"
        /\ (tick_tick.errors => tick_tick'.errors) /\ (tick_tick.cut => tick_tick'.cut)
        /\ tick_tick'.lost => tick_tick.lost \/ tick_tick'.errors \/ tick_tick'.cut
    BY <1>0, <1>6 DEF Tick!Persist, Tick!BatchFails, TickRecord
  <2>2. QED
    <3>1. tick_row' \in RowRecord
      BY <1>0, <1>6 DEF Tick!Persist
    <3>2. tick_tick'.lost => tick_tick'.errors \/ tick_tick'.cut
      BY <1>0, <2>1, Zenon
    <3>3. tick_tick'.at # "off" /\ tick_tick'.at # "start"
      BY <2>1
    <3>4. QED
      BY <2>1, <3>1, <3>2, <3>3, Zenon DEF LossIsOwned, Tick!CompletedTicksAreHonest
<1>7. CASE Tick!Watch
  BY <1>0, <1>7 DEF Tick!Watch, LossIsOwned, TickRecord, Tick!CompletedTicksAreHonest
<1>8. CASE Tick!Finish
  <2>1. tick_tick' = Tick!NoTick /\ tick_tick' \in TickRecord /\ ~ tick_tick'.lost
        /\ tick_tick'.at = "off"
    BY <1>8 DEF Tick!Finish, Tick!Release, Tick!NoTick, TickRecord
  <2>2. tick_row' \in RowRecord
    BY <1>0, <1>8 DEF Tick!Finish, RowRecord, TickRecord
  <2>3. tick_row'.kept => /\ tick_row'.errors = tick_tick.errors
                          /\ tick_row'.lost = tick_tick.lost /\ tick_row'.cut = tick_tick.cut
    BY <1>0, <1>8 DEF Tick!Finish, RowRecord, TickRecord
  <2>4. tick_tick.errors \in BOOLEAN
    BY <1>0 DEF TickRecord
  <2>5. QED
    BY <1>0, <2>1, <2>2, <2>3, <2>4
       DEF TickAssumption, LossIsOwned, Tick!CompletedTicksAreHonest
<1>9. CASE Tick!Restart
  <2>1. tick_tick' \in TickRecord /\ ~ tick_tick'.lost /\ tick_tick'.at = "off"
    BY <1>9 DEF Tick!Restart, Tick!NoTick, TickRecord
  <2>2. /\ tick_row' \in RowRecord
        /\ tick_row'.kept => tick_tick.at = "off" /\ tick_row' = tick_row
    BY <1>0, <1>9 DEF Tick!Restart, RowRecord
  <2>3. QED
    BY <1>0, <2>1, <2>2 DEF LossIsOwned, Tick!CompletedTicksAreHonest
<1>10. CASE Tick!GoStale \/ UNCHANGED Tick!vars
  BY <1>0, <1>10 DEF Tick!GoStale, Tick!vars, LossIsOwned, Tick!CompletedTicksAreHonest
<1>11. QED
  BY <1>1, <1>2, <1>3, <1>4, <1>5, <1>6, <1>7, <1>8, <1>9, <1>10 DEF Tick!Next

\* A row that stays is complete, and one without errors has lost nothing that a
\* cut does not explain, whatever deadlines, failures and restarts met the tick.
THEOREM TicksAreHonest ==
  ASSUME TickAssumption
  PROVE  Tick!Spec => []Tick!CompletedTicksAreHonest
<1>1. Tick!Init => LossIsOwned
  BY LossIsOwnedInitial
<1>2. LossIsOwned /\ [Tick!Next]_(Tick!vars) => LossIsOwned'
  BY LossIsOwnedPreserved
<1>3. LossIsOwned => Tick!CompletedTicksAreHonest
  BY DEF LossIsOwned
<1>4. QED
  BY <1>1, <1>2, <1>3, PTL DEF Tick!Spec

\* The flag stands only for an alert of this spell, or one whose end no tick saw.
FlagIsEarned ==
  /\ tick_episode \in EpisodeRecord /\ tick_stale \in BOOLEAN /\ tick_fired \in BOOLEAN
  /\ ~ tick_stale \/ ~ tick_fired => tick_episode.alerts = 0
  /\ ~ tick_stale /\ tick_episode.noticed => ~ tick_fired
  /\ tick_stale /\ tick_fired /\ tick_episode.alerts = 0 => tick_episode.unseen
  /\ Tick!StaleDataAlertedOnce

LEMMA FlagIsEarnedPreserved ==
  ASSUME FlagIsEarned, [Tick!Next]_(Tick!vars)
  PROVE  FlagIsEarned'
<1>0. Tick!Fresh \in EpisodeRecord /\ Tick!Fresh.alerts = 0 /\ Tick!Fresh.noticed = FALSE
  BY DEF Tick!Fresh, EpisodeRecord
<1>1. CASE Tick!Watch /\ tick_stale /\ tick_fired' # tick_fired
  <2>1. /\ ~ tick_fired /\ tick_fired' = TRUE /\ tick_stale' = tick_stale
        /\ tick_episode' = [tick_episode EXCEPT !.noticed = TRUE, !.alerts = @ + 1]
    BY <1>1 DEF Tick!Watch, FlagIsEarned
  <2>2. tick_episode' \in EpisodeRecord /\ tick_episode'.alerts = 1
    <3>1. tick_episode \in EpisodeRecord /\ tick_episode.alerts = 0
      BY <2>1 DEF FlagIsEarned
    <3>2. tick_episode' = [tick_episode EXCEPT !.noticed = TRUE, !.alerts = 1]
      BY <2>1, <3>1
    <3>3. QED
      BY <3>1, <3>2 DEF EpisodeRecord
  <2>3. QED
    BY <1>1, <2>1, <2>2 DEF FlagIsEarned, Tick!StaleDataAlertedOnce
<1>2. CASE Tick!Watch /\ tick_stale /\ tick_fired' = tick_fired
  <2>1. /\ tick_stale' = tick_stale
        /\ \/ tick_fired /\ tick_episode' = [tick_episode EXCEPT !.noticed = TRUE, !.alerts = @]
           \/ tick_episode' = tick_episode
    BY <1>2 DEF Tick!Watch, FlagIsEarned
  <2>2. /\ tick_episode' \in EpisodeRecord /\ tick_episode'.alerts = tick_episode.alerts
        /\ tick_episode'.unseen = tick_episode.unseen
        /\ tick_fired \/ tick_episode'.noticed = tick_episode.noticed
    BY <2>1 DEF FlagIsEarned, EpisodeRecord
  <2>3. QED
    BY <1>2, <2>1, <2>2 DEF FlagIsEarned, EpisodeRecord, Tick!StaleDataAlertedOnce
<1>3. CASE Tick!Watch /\ ~ tick_stale
  <2>1. /\ tick_stale' = tick_stale
        /\ \/ tick_fired' = FALSE /\ tick_episode' = [Tick!Fresh EXCEPT !.noticed = TRUE]
           \/ tick_fired' = tick_fired /\ tick_episode' = tick_episode
    BY <1>3 DEF Tick!Watch, Tick!Rearmed, FlagIsEarned
  <2>2. [Tick!Fresh EXCEPT !.noticed = TRUE] \in EpisodeRecord
        /\ [Tick!Fresh EXCEPT !.noticed = TRUE].alerts = 0
    BY DEF Tick!Fresh, EpisodeRecord
  <2>3. CASE tick_fired' = tick_fired /\ tick_episode' = tick_episode
    BY <1>3, <2>1, <2>3 DEF FlagIsEarned, Tick!StaleDataAlertedOnce
  <2>4. QED
    BY <1>3, <2>1, <2>2, <2>3 DEF FlagIsEarned, Tick!StaleDataAlertedOnce
<1>4. CASE Tick!Persist
  <2>1. /\ tick_fired' = tick_fired
        /\ \/ tick_stale' = FALSE /\ tick_episode' = IF tick_stale THEN Tick!Fresh ELSE tick_episode
           \/ tick_stale' = tick_stale /\ tick_episode' = tick_episode
        /\ tick_stale \in BOOLEAN
    BY <1>4 DEF Tick!Persist, Tick!data, FlagIsEarned
  <2>2. CASE tick_stale' = tick_stale /\ tick_episode' = tick_episode
    BY <2>1, <2>2 DEF FlagIsEarned, Tick!StaleDataAlertedOnce
  <2>3. CASE tick_stale' = FALSE /\ tick_episode' = Tick!Fresh
    <3>1. FlagIsEarned => tick_fired \in BOOLEAN
      BY DEF FlagIsEarned
    <3>2. /\ tick_episode' \in EpisodeRecord /\ tick_episode'.alerts = 0
          /\ tick_episode'.noticed = FALSE /\ tick_fired' \in BOOLEAN
          /\ tick_stale' \in BOOLEAN /\ ~ tick_stale'
      BY <1>0, <2>1, <2>3, <3>1
    <3>3. Tick!StaleDataAlertedOnce'
      BY <3>2 DEF Tick!StaleDataAlertedOnce
    <3>4. QED
      BY <3>2, <3>3, Zenon DEF FlagIsEarned
  <2>4. QED
    BY <2>1, <2>2, <2>3
<1>5. CASE Tick!Restart
  <2>1. tick_fired' = FALSE /\ tick_episode' = Tick!Fresh /\ tick_stale' = tick_stale
    BY <1>5 DEF Tick!Restart
  <2>2. QED
    <3>1. FlagIsEarned => tick_stale \in BOOLEAN
      BY DEF FlagIsEarned
    <3>2. /\ tick_episode' \in EpisodeRecord /\ tick_episode'.alerts = 0
          /\ tick_episode'.noticed = FALSE /\ tick_fired' \in BOOLEAN
          /\ tick_stale' \in BOOLEAN /\ ~ tick_fired'
      BY <1>0, <2>1, <3>1
    <3>3. Tick!StaleDataAlertedOnce'
      BY <3>2 DEF Tick!StaleDataAlertedOnce
    <3>4. QED
      BY <3>2, <3>3, Zenon DEF FlagIsEarned
<1>6. CASE Tick!GoStale
  <2>1. /\ ~ tick_stale /\ tick_stale' = TRUE /\ tick_fired' = tick_fired
        /\ tick_episode' = [Tick!Fresh EXCEPT !.unseen = tick_fired /\ ~ tick_episode.noticed]
    BY <1>6 DEF Tick!GoStale
  <2>2. /\ tick_episode' \in EpisodeRecord /\ tick_episode'.alerts = 0
        /\ ~ tick_episode'.noticed
        /\ tick_fired /\ ~ tick_episode.noticed => tick_episode'.unseen
    BY <2>1 DEF Tick!Fresh, EpisodeRecord
  <2>3. QED
    BY <2>1, <2>2 DEF FlagIsEarned, Tick!StaleDataAlertedOnce
<1>7. CASE UNCHANGED Tick!data
  BY <1>7 DEF Tick!data, FlagIsEarned, Tick!StaleDataAlertedOnce
<1>8. QED
  BY <1>1, <1>2, <1>3, <1>4, <1>5, <1>6, <1>7
     DEF Tick!Next, Tick!Dispatch, Tick!TakeLock, Tick!Start, Tick!SetUp, Tick!Collect,
         Tick!SoftDeadline, Tick!AllCollected, Tick!Finish, Tick!HardDeadline, Tick!vars,
         Tick!data

LEMMA FlagIsEarnedInitial ==
  ASSUME Tick!Init
  PROVE  FlagIsEarned
<1>1. tick_episode = Tick!Fresh /\ ~ tick_stale /\ tick_stale = FALSE /\ tick_fired = FALSE
  BY DEF Tick!Init
<1>2. /\ tick_episode \in EpisodeRecord /\ tick_episode.alerts = 0
      /\ tick_episode.noticed = FALSE
  BY <1>1 DEF Tick!Fresh, EpisodeRecord
<1>3. Tick!StaleDataAlertedOnce
  BY <1>1, <1>2 DEF Tick!StaleDataAlertedOnce
<1>4. QED
  BY <1>1, <1>2, <1>3, Zenon DEF FlagIsEarned

\* One alert for each spell of stale data that the watchdog notices, through
\* failed queries, restarts and earlier spells.
THEOREM StaleDataIsAlertedOnce == Tick!Spec => []Tick!StaleDataAlertedOnce
<1>1. Tick!Init => FlagIsEarned
  BY FlagIsEarnedInitial
<1>2. FlagIsEarned /\ [Tick!Next]_(Tick!vars) => FlagIsEarned'
  BY FlagIsEarnedPreserved
<1>3. FlagIsEarned => Tick!StaleDataAlertedOnce
  BY DEF FlagIsEarned
<1>4. QED
  BY <1>1, <1>2, <1>3, PTL DEF Tick!Spec

\* Whoever runs a tick holds the lock, and the tasks are those there are.
LockIsHeld ==
  /\ tick_waiting \subseteq Runs /\ tick_holder \in Runs \cup {None}
  /\ (tick_tick.at = "off") = (tick_holder = None)

LEMMA LockIsHeldPreserved ==
  ASSUME None \notin Runs, LossIsOwned, LockIsHeld, [Tick!Next]_(Tick!vars)
  PROVE  LockIsHeld'
<1>0. tick_tick \in TickRecord
  BY DEF LossIsOwned
<1>1. ASSUME NEW r \in Runs, Tick!Dispatch(r) PROVE LockIsHeld'
  BY <1>1 DEF Tick!Dispatch, LockIsHeld
<1>2. ASSUME NEW r \in Runs, Tick!TakeLock(r) PROVE LockIsHeld'
  BY <1>2 DEF Tick!TakeLock, Tick!NoTick, LockIsHeld
<1>3. CASE Tick!Start
  <2>1. CASE /\ tick_tick' = [tick_tick EXCEPT !.at = "setup"]
             /\ UNCHANGED <<tick_waiting, tick_holder>>
    BY <1>0, <1>3, <2>1 DEF Tick!Start, LockIsHeld, TickRecord
  <2>2. CASE Tick!Release
    BY <2>2 DEF Tick!Release, Tick!NoTick, LockIsHeld
  <2>3. QED
    BY <1>3, <2>1, <2>2 DEF Tick!Start, Tick!tasks
<1>4. CASE \/ Tick!SetUp \/ Tick!Collect \/ Tick!Persist \/ Tick!SoftDeadline
           \/ Tick!AllCollected \/ Tick!Watch \/ Tick!HardDeadline
  <2>1. UNCHANGED <<tick_waiting, tick_holder>>
    BY <1>4 DEF Tick!SetUp, Tick!Collect, Tick!Persist, Tick!SoftDeadline,
                Tick!AllCollected, Tick!Watch, Tick!HardDeadline, Tick!tasks
  <2>2. tick_tick.at # "off" /\ tick_tick'.at # "off"
    <3>1. CASE Tick!SetUp
      BY <1>0, <3>1 DEF Tick!SetUp, TickRecord
    <3>2. CASE Tick!Collect
      BY <1>0, <3>2 DEF Tick!Collect, TickRecord
    <3>3. CASE Tick!Persist
      BY <1>0, <3>3 DEF Tick!Persist, Tick!BatchFails, TickRecord
    <3>4. CASE Tick!SoftDeadline \/ Tick!AllCollected
      BY <1>0, <3>4 DEF Tick!SoftDeadline, Tick!AllCollected, TickRecord
    <3>5. CASE Tick!Watch \/ Tick!HardDeadline
      BY <1>0, <3>5 DEF Tick!Watch, Tick!HardDeadline, TickRecord
    <3>6. QED
      BY <1>4, <3>1, <3>2, <3>3, <3>4, <3>5
  <2>3. QED
    BY <2>1, <2>2, Zenon DEF LockIsHeld
<1>5. CASE Tick!Finish
  BY <1>5 DEF Tick!Finish, Tick!Release, Tick!NoTick, LockIsHeld
<1>6. CASE Tick!Restart
  BY <1>6 DEF Tick!Restart, Tick!NoTick, LockIsHeld
<1>7. CASE Tick!GoStale \/ UNCHANGED Tick!vars
  BY <1>7 DEF Tick!GoStale, Tick!vars, Tick!tasks, LockIsHeld
<1>8. QED
  BY <1>1, <1>2, <1>3, <1>4, <1>5, <1>6, <1>7 DEF Tick!Next

\* A tick runs exactly while its task holds the lock.
THEOREM TickTypes ==
  ASSUME TickAssumption, None \notin Runs
  PROVE  Tick!Spec => []Tick!TypeOK
<1>1. Tick!Init => LossIsOwned /\ FlagIsEarned /\ LockIsHeld
  <2> SUFFICES ASSUME Tick!Init PROVE LossIsOwned /\ FlagIsEarned /\ LockIsHeld
    OBVIOUS
  <2>1. LossIsOwned
    BY LossIsOwnedInitial
  <2>2. FlagIsEarned
    BY FlagIsEarnedInitial
  <2>3. LockIsHeld
    BY DEF Tick!Init, Tick!NoTick, LockIsHeld
  <2>4. QED
    BY <2>1, <2>2, <2>3
<1>2. /\ LossIsOwned /\ FlagIsEarned /\ LockIsHeld /\ [Tick!Next]_(Tick!vars)
      => LossIsOwned' /\ FlagIsEarned' /\ LockIsHeld'
  BY LossIsOwnedPreserved, FlagIsEarnedPreserved, LockIsHeldPreserved
<1>3. LossIsOwned /\ FlagIsEarned /\ LockIsHeld => Tick!TypeOK
  BY DEF LossIsOwned, FlagIsEarned, LockIsHeld, TickRecord, RowRecord, EpisodeRecord,
         Tick!TypeOK
<1>4. QED
  BY <1>1, <1>2, <1>3, PTL DEF Tick!Spec

(***************************************************************************)
(* Quotients, and sets of numbers below a bound.                           *)
(***************************************************************************)
LEMMA TimesMonotone ==
  ASSUME NEW x \in Int, NEW y \in Int, NEW s \in Nat, x <= y
  PROVE  x * s <= y * s
OBVIOUS

LEMMA QuotientBounds ==
  ASSUME NEW a \in Int, NEW s \in Nat \ {0}
  PROVE  /\ a \div s \in Int
         /\ (a \div s) * s <= a /\ a < (a \div s) * s + s
OBVIOUS

\* A whole divisor further on, the quotient is at least one more.
LEMMA NextQuotient ==
  ASSUME NEW a \in Nat, NEW b \in Nat, NEW s \in Nat \ {0}, a + s <= b
  PROVE  (a \div s) + 1 <= b \div s
<1> DEFINE p == a \div s
           q == b \div s
<1>1. /\ p \in Int /\ q \in Int /\ p * s <= a /\ a < p * s + s /\ q * s <= b /\ b < q * s + s
  BY QuotientBounds
<1> HIDE DEF p, q
<1>2. SUFFICES ASSUME q <= p PROVE FALSE
  BY <1>1
<1>3. q * s <= p * s
  BY <1>1, <1>2, TimesMonotone
<1>4. p * s \in Int /\ q * s \in Int
  BY <1>1
<1>5. QED
  BY <1>1, <1>3, <1>4

\* So many numbers below c do not all lie within so few of it.
LEMMA RoomBelow ==
  ASSUME NEW c \in Nat \ {0}, NEW s \in Nat \ {0}, NEW R \in SUBSET (1..(c - 1)), Cardinality(R) >= s
  PROVE  \E d \in R : d + s <= c
<1>1. SUFFICES ASSUME \A d \in R : d + s > c PROVE FALSE
  OBVIOUS
<1>2. R \subseteq (c - s + 1)..(c - 1)
  BY <1>1
<1>3. IsFiniteSet((c - s + 1)..(c - 1)) /\ Cardinality((c - s + 1)..(c - 1)) = s - 1
  <2> DEFINE first == c - s + 1
             last == c - 1
  <2>1. first \in Int /\ last \in Int /\ last - first + 1 = s - 1 /\ (first > last => s - 1 = 0)
    OBVIOUS
  <2> HIDE DEF first, last
  <2>2. IsFiniteSet(first..last) /\ Cardinality(first..last) = s - 1
    BY <2>1, FS_Interval
  <2>3. QED
    BY <2>2 DEF first, last
<1>4. Cardinality(R) <= s - 1
  BY <1>2, <1>3, FS_Subset
<1>5. Cardinality(R) \in Nat
  BY <1>2, <1>3, FS_Subset, FS_CardinalityType
<1>6. QED
  BY <1>4, <1>5

(***************************************************************************)
(* The fan-out over the counties.                                          *)
(***************************************************************************)
\* There is a slot and a budget, and an entry that misses a key has no phase.
FanAssumption ==
  /\ Last \in Nat /\ Slots \in Nat \ {0} /\ Budget \in Nat \ {0}
  /\ Portals \subseteq {p \in [Fan!Phases -> Fan!Endings] :
                          p["procurement"] = "no entry" => p["hcl"] = "no entry"}

TaskRecord ==
  [at: {"queued", "search", "links", "done", "raised"}, phase: Fan!Phases,
   spent: 0..Budget, got: SUBSET Fan!Phases]

Task(c) == fan_county[c]

FanType ==
  /\ fan_portal \in [Fan!Counties -> Portals]
  /\ fan_county \in [Fan!Counties -> TaskRecord]
  /\ fan_clock \in Nat
  /\ \A c \in Fan!Counties : Task(c).at = "queued" =>
       Task(c).phase = "procurement" /\ Task(c).got = {} /\ Task(c).spent = 0

\* A county waits no longer than the waves before its own take, and spends in
\* its own what the clock has gone on since.
WavesInv ==
  /\ \A c \in Fan!Queued : fan_clock <= ((c - 1) \div Slots) * Budget
  /\ \A c \in Fan!Running : /\ fan_clock <= Task(c).spent + ((c - 1) \div Slots) * Budget
                            /\ Task(c).spent < Budget
  /\ \A d \in Fan!Running, c \in Fan!Queued : d < c
  /\ fan_clock <= Fan!Waves * Budget

\* What a county's portal answered so far, its task has.
TaskIsFair(c) ==
  /\ Task(c).at = "done" =>
       \A phase \in Fan!Phases : Fan!Unhurt(c, phase) => phase \in Task(c).got
  /\ Task(c).phase = "hcl" /\ Fan!Unhurt(c, "procurement") => "procurement" \in Task(c).got
  /\ Task(c).at = "raised" => \E other \in Fan!Phases : fan_portal[c][other] = "escapes"

ResultIsFair ==
  fan_result.at = "returned" =>
    \A c \in Fan!Counties, phase \in Fan!Phases :
      Fan!Unhurt(c, phase) => <<c, phase>> \in fan_result.got

\* What a step of one county's task may make of it.
Follows(t, u) ==
  /\ u \in TaskRecord /\ u.at # "queued" /\ u.spent = t.spent
  /\ t.at \in {"queued", "search", "links"}

LEMMA FanTaskStep ==
  ASSUME FanAssumption, FanType, NEW c \in Fan!Counties, NEW u, Follows(Task(c), u),
         fan_county' = [fan_county EXCEPT ![c] = u]
  PROVE  /\ fan_county' \in [Fan!Counties -> TaskRecord]
         /\ Task(c)' = u
         /\ \A o \in Fan!Counties \ {c} : Task(o)' = Task(o)
BY DEF FanType, Follows, Task

\* The step of a task takes no time, and a task that starts is the first queued.
LEMMA WavesInvTaskStep ==
  ASSUME FanAssumption, FanType, WavesInv, NEW c \in Fan!Counties, NEW u,
         Follows(Task(c), u), fan_county' = [fan_county EXCEPT ![c] = u],
         fan_clock' = fan_clock,
         Task(c).at = "queued" /\ u.at # "done" => \A d \in Fan!Queued : c <= d
  PROVE  WavesInv'
<1>1. /\ Task(c)' = u
      /\ \A o \in Fan!Counties \ {c} : Task(o)' = Task(o)
  BY FanTaskStep
<1>2. Fan!Queued' = Fan!Queued \ {c}
  BY <1>1 DEF Fan!Queued, Follows, Task
<1>3. Fan!Running' \subseteq Fan!Running \cup {c}
  BY <1>1 DEF Fan!Running, Task
<1>4. \A d \in Fan!Running' : Task(d)'.spent = Task(d).spent
  BY <1>1 DEF Fan!Running, Follows
<1>5. ASSUME c \in Fan!Running'
      PROVE  /\ fan_clock <= Task(c).spent + ((c - 1) \div Slots) * Budget
             /\ Task(c).spent < Budget
             /\ \A d \in Fan!Queued \ {c} : c < d
  <2>1. CASE Task(c).at = "queued"
    <3>1. u.at # "done" /\ c \in Fan!Queued
      BY <1>1, <1>5, <2>1 DEF Fan!Running, Fan!Queued, Task
    <3>2. \A d \in Fan!Queued \ {c} : c < d
      BY <2>1, <3>1 DEF Fan!Queued, Fan!Counties
    <3>3. Task(c).spent = 0
      BY <2>1 DEF FanType
    <3>4. fan_clock <= ((c - 1) \div Slots) * Budget
      BY <3>1 DEF WavesInv
    <3>5. ((c - 1) \div Slots) * Budget \in Int /\ 0 < Budget
      <4>0. Last \in Nat /\ Slots \in Nat \ {0} /\ Budget \in Nat \ {0}
        BY DEF FanAssumption
      <4>1. c \in Int /\ c - 1 \in Int
        BY <4>0 DEF Fan!Counties
      <4>2. (c - 1) \div Slots \in Int
        BY <4>0, <4>1, QuotientBounds
      <4>3. QED
        BY <4>0, <4>2
    <3>6. QED
      BY <3>2, <3>3, <3>4, <3>5
  <2>2. CASE Task(c).at # "queued"
    <3>1. c \in Fan!Running
      BY <2>2 DEF Follows, Fan!Running, Task
    <3>2. QED
      BY <3>1 DEF WavesInv
  <2>3. QED
    BY <2>1, <2>2
<1>6. Fan!Waves' = Fan!Waves
  BY DEF Fan!Waves
<1>7. QED
  BY <1>2, <1>3, <1>4, <1>5, <1>6 DEF WavesInv

\* Between two steps the clock goes on for all that run, and then the slots are
\* taken or nobody waits.
LEMMA WavesInvPass ==
  ASSUME FanAssumption, FanType, WavesInv, Fan!Pass
  PROVE  WavesInv' /\ fan_county' \in [Fan!Counties -> TaskRecord]
         /\ \A c \in Fan!Counties :
              /\ c \notin Fan!Running => Task(c)' = Task(c)
              /\ Task(c)'.phase = Task(c).phase /\ Task(c)'.got = Task(c).got
              /\ Task(c)'.at # Task(c).at =>
                   /\ c \in Fan!Running /\ Task(c)'.at = "done" /\ Fan!Ending(c) = "hangs"
<1>0. /\ fan_county \in [Fan!Counties -> TaskRecord] /\ fan_clock \in Nat
      /\ Last \in Nat /\ Slots \in Nat \ {0} /\ Budget \in Nat \ {0}
      /\ fan_clock' = fan_clock + 1
      /\ fan_county' = [c \in Fan!Counties |->
           IF c \in Fan!Running THEN Fan!Abandon([fan_county[c] EXCEPT !.spent = @ + 1])
           ELSE fan_county[c]]
  BY DEF FanType, FanAssumption, Fan!Pass, Fan!Spends
<1>1. \A c \in Fan!Running :
        /\ c \in Fan!Counties /\ Task(c) \in TaskRecord /\ Task(c).spent < Budget
        /\ Task(c).spent \in Nat
  BY <1>0 DEF Fan!Running, WavesInv, Task, TaskRecord
<1>2. ASSUME NEW c \in Fan!Running
      PROVE  /\ Task(c)' \in TaskRecord /\ Task(c)'.spent = Task(c).spent + 1
             /\ Task(c)'.phase = Task(c).phase /\ Task(c)'.got = Task(c).got
             /\ \/ Task(c)'.at = Task(c).at /\ Task(c)'.spent < Budget
                \/ Task(c)'.at = "done" /\ Fan!Ending(c) = "hangs"
  <2> DEFINE t == [Task(c) EXCEPT !.spent = @ + 1]
  <2>1. /\ t \in TaskRecord /\ t.spent = Task(c).spent + 1 /\ t.phase = Task(c).phase
        /\ t.got = Task(c).got /\ t.at = Task(c).at
    BY <1>0, <1>1 DEF TaskRecord
  <2>2. Task(c)' = Fan!Abandon(t)
    BY <1>0, <1>1 DEF Task
  <2> HIDE DEF t
  <2>3. CASE t.spent < Budget
    BY <2>1, <2>2, <2>3 DEF Fan!Abandon
  <2>4. CASE ~ (t.spent < Budget)
    <3>1. Fan!Ending(c) = "hangs"
      BY <1>0, <1>1, <2>1, <2>4 DEF Fan!Pass, Task
    <3>2. Task(c)' = [t EXCEPT !.at = "done"]
      BY <2>2, <2>4 DEF Fan!Abandon
    <3>3. QED
      BY <2>1, <3>1, <3>2 DEF TaskRecord
  <2>5. QED
    BY <2>3, <2>4
<1>3. \A c \in Fan!Counties \ Fan!Running : Task(c)' = Task(c)
  BY <1>0 DEF Task
<1>4. Fan!Queued' = Fan!Queued
  BY <1>2, <1>3 DEF Fan!Queued, Fan!Running, Task
<1>5. Fan!Running' \subseteq Fan!Running /\ \A c \in Fan!Running' : Task(c)'.spent < Budget
  <2>1. \A c \in Fan!Counties \ Fan!Running : c \notin Fan!Running'
    BY <1>3 DEF Fan!Running, Task
  <2>2. \A c \in Fan!Running : c \in Fan!Running' => Task(c)'.spent < Budget
    BY <1>2 DEF Fan!Running, Task
  <2>3. QED
    BY <2>1, <2>2 DEF Fan!Running
<1>6. ASSUME NEW d \in Fan!Running, NEW n \in Nat, d - 1 + Slots <= n
      PROVE  fan_clock' <= (n \div Slots) * Budget
  <2> DEFINE p == (d - 1) \div Slots
             q == n \div Slots
  <2>1. d \in 1..Last
    BY DEF Fan!Running, Fan!Counties
  <2>2. p \in Int /\ q \in Int /\ p + 1 <= q
    <3>1. d - 1 \in Nat /\ n \in Nat /\ (d - 1) + Slots <= n
      BY <1>0, <1>6, <2>1
    <3>2. QED
      BY <1>0, <3>1, NextQuotient, QuotientBounds
  <2>3. fan_clock <= Task(d).spent + p * Budget /\ Task(d).spent + 1 <= Budget
    BY <1>0, <1>1 DEF WavesInv
  <2> HIDE DEF p, q
  <2>4. (p + 1) * Budget <= q * Budget
    <3>1. p + 1 \in Int /\ Budget \in Nat
      BY <1>0, <2>2
    <3>2. QED
      BY <2>2, <3>1, TimesMonotone
  <2>5. (p + 1) * Budget = p * Budget + Budget /\ p * Budget \in Int /\ q * Budget \in Int
    BY <1>0, <2>2
  <2>6. fan_clock' <= q * Budget
    BY <1>0, <1>1, <2>3, <2>4, <2>5
  <2>7. QED
    BY <2>6 DEF q
<1>7. ASSUME NEW c \in Fan!Queued PROVE fan_clock' <= ((c - 1) \div Slots) * Budget
  <2>1. c \in 1..Last
    BY DEF Fan!Queued, Fan!Counties
  <2>2. Fan!Running \in SUBSET (1..(c - 1))
    BY <2>1 DEF WavesInv, Fan!Running, Fan!Counties
  <2>3. Cardinality(Fan!Running) >= Slots
    <3>1. \A S : Fan!Cardinality(S) = Cardinality(S)
      BY Zenon DEF Fan!Cardinality, Cardinality
    <3>2. QED
      BY <3>1 DEF Fan!Pass
  <2>4. PICK d \in Fan!Running : d + Slots <= c
    BY <1>0, <2>1, <2>2, <2>3, RoomBelow
  <2>5. d - 1 + Slots <= c - 1 /\ c - 1 \in Nat
    BY <1>0, <2>1, <2>2, <2>4
  <2>6. QED
    BY <1>6, <2>5
<1>8. fan_clock' <= Fan!Waves * Budget
  <2>1. PICK d \in Fan!Running : TRUE
    BY DEF Fan!Pass
  <2>2. d - 1 + Slots <= Last + Slots - 1 /\ Last + Slots - 1 \in Nat
    BY <1>0 DEF Fan!Running, Fan!Counties
  <2>3. QED
    BY <1>6, <2>2 DEF Fan!Waves
<1>9. \A c \in Fan!Running :
        fan_clock' <= Task(c)'.spent + ((c - 1) \div Slots) * Budget
  <2> SUFFICES ASSUME NEW c \in Fan!Running
               PROVE  fan_clock' <= Task(c)'.spent + ((c - 1) \div Slots) * Budget
    OBVIOUS
  <2>1. fan_clock <= Task(c).spent + ((c - 1) \div Slots) * Budget
    BY DEF WavesInv
  <2>2. ((c - 1) \div Slots) * Budget \in Int
    BY <1>0, <1>1 DEF Fan!Counties
  <2>3. QED
    BY <1>0, <1>1, <1>2, <2>1, <2>2
<1>10. WavesInv'
  <2>1. Fan!Waves' = Fan!Waves
    BY DEF Fan!Waves
  <2>2. \A d \in Fan!Running', c \in Fan!Queued' : d < c
    BY <1>4, <1>5 DEF WavesInv
  <2>3. QED
    BY <1>4, <1>5, <1>7, <1>8, <1>9, <2>1, <2>2 DEF WavesInv
<1>11. fan_county' \in [Fan!Counties -> TaskRecord]
  BY <1>0, <1>2, <1>3 DEF Task
<1>12. QED
  BY <1>1, <1>2, <1>3, <1>10, <1>11

\* A county's task is as fair as it was unless it is its turn.
LEMMA FairnessKept ==
  ASSUME NEW c \in Fan!Counties, TaskIsFair(c), Task(c)' = Task(c), fan_portal' = fan_portal
  PROVE  TaskIsFair(c)'
BY DEF TaskIsFair, Task, Fan!Unhurt

LEMMA FairnessOfStep ==
  ASSUME FanAssumption, FanType, NEW c \in Fan!Counties, TaskIsFair(c),
         Fan!Skip(c) \/ Fan!Enter(c) \/ Fan!Search(c) \/ Fan!Harvest(c)
  PROVE  \E u : /\ Follows(Task(c), u) /\ fan_county' = [fan_county EXCEPT ![c] = u]
                /\ Task(c).at = "queued" /\ u.at # "done" => \A d \in Fan!Queued : c <= d
                /\ TaskIsFair(c)'
<1> DEFINE t == Task(c)
<1>0. /\ t \in TaskRecord /\ fan_portal' = fan_portal
      /\ fan_county \in [Fan!Counties -> TaskRecord]
      /\ fan_portal[c] \in Portals /\ t = fan_county[c]
      /\ t.at = "queued" => t.phase = "procurement" /\ t.got = {} /\ t.spent = 0
  BY DEF FanType, Task, Fan!Skip, Fan!Enter, Fan!Search, Fan!Harvest
<1>1. /\ fan_portal[c] \in [Fan!Phases -> Fan!Endings]
      /\ fan_portal[c]["procurement"] = "no entry" => fan_portal[c]["hcl"] = "no entry"
  BY <1>0 DEF FanAssumption
<1>2. \A phase : Fan!Unhurt(c, phase)' <=> Fan!Unhurt(c, phase)
  BY <1>0 DEF Fan!Unhurt
<1>3. ASSUME NEW u, Follows(t, u), fan_county' = [fan_county EXCEPT ![c] = u],
             t.at = "queued" /\ u.at # "done" => \A d \in Fan!Queued : c <= d,
             u.at = "done" =>
               \A phase \in Fan!Phases : Fan!Unhurt(c, phase) => phase \in u.got,
             u.phase = "hcl" /\ Fan!Unhurt(c, "procurement") => "procurement" \in u.got,
             u.at = "raised" => \E other \in Fan!Phases : fan_portal[c][other] = "escapes"
      PROVE  \E v : /\ Follows(Task(c), v) /\ fan_county' = [fan_county EXCEPT ![c] = v]
                    /\ Task(c).at = "queued" /\ v.at # "done" => \A d \in Fan!Queued : c <= d
                    /\ TaskIsFair(c)'
  <2>1. Task(c)' = u
    BY <1>0, <1>3 DEF Task
  <2>2. TaskIsFair(c)'
    BY <1>0, <1>2, <1>3, <2>1 DEF TaskIsFair
  <2>3. QED
    BY <1>3, <2>2
\* The whole of a phase: it produced what it found, or it raised.
<1>4. ASSUME NEW got \in SUBSET Fan!Phases, t.at \in {"search", "links"},
             t.got \subseteq got,
             Fan!Unhurt(c, t.phase) => t.phase \in got,
             fan_county' = [fan_county EXCEPT ![c] = Fan!After([t EXCEPT !.got = got])]
      PROVE  \E v : /\ Follows(Task(c), v) /\ fan_county' = [fan_county EXCEPT ![c] = v]
                    /\ Task(c).at = "queued" /\ v.at # "done" => \A d \in Fan!Queued : c <= d
                    /\ TaskIsFair(c)'
  <2> DEFINE w == [t EXCEPT !.got = got]
             u == Fan!After(w)
  <2>1. w \in TaskRecord /\ w.got = got /\ w.phase = t.phase /\ w.spent = t.spent /\ w.at = t.at
    BY <1>0, <1>4 DEF TaskRecord
  <2>2. /\ u \in TaskRecord /\ u.got = got /\ u.spent = t.spent /\ u.phase = "hcl"
        /\ t.phase = "procurement" => u.at = "search"
        /\ t.phase = "hcl" => u.at = "done"
        /\ t.phase \in {"procurement", "hcl"}
    <3> HIDE DEF w
    <3>1. w.phase \in {"procurement", "hcl"}
      BY <2>1 DEF TaskRecord, Fan!Phases
    <3>2. CASE w.phase = "procurement"
      BY <2>1, <3>2 DEF Fan!After, TaskRecord, Fan!Phases
    <3>3. CASE w.phase = "hcl"
      BY <2>1, <3>3 DEF Fan!After, TaskRecord, Fan!Phases
    <3>4. QED
      BY <2>1, <3>1, <3>2, <3>3
  <2>3. Fan!Unhurt(c, "procurement") => "procurement" \in got
    BY <1>0, <1>4, <2>2 DEF TaskIsFair
  <2>4. t.phase = "hcl" =>
          \A phase \in Fan!Phases : Fan!Unhurt(c, phase) => phase \in got
    BY <1>4, <2>3 DEF Fan!Phases
  <2>5. fan_county' = [fan_county EXCEPT ![c] = u] /\ u.at \in {"search", "done"}
    BY <1>4, <2>2
  <2>6. Follows(t, u)
    BY <1>4, <2>2, <2>5 DEF Follows
  <2> HIDE DEF u, w, t
  <2>7. QED
    BY <1>3, <1>4, <2>2, <2>3, <2>4, <2>5, <2>6
<1>5. CASE Fan!Skip(c)
  <2> DEFINE u == [t EXCEPT !.at = "done"]
  <2>1. /\ u \in TaskRecord /\ u.at = "done" /\ u.got = t.got /\ u.phase = t.phase
        /\ u.spent = t.spent
    BY <1>0 DEF TaskRecord
  <2>2. t.at = "queued" /\ fan_county' = [fan_county EXCEPT ![c] = u]
    BY <1>0, <1>5 DEF Fan!Skip, Fan!Queued
  <2>3. \A phase \in Fan!Phases : ~ Fan!Unhurt(c, phase)
    BY <1>0, <1>1, <1>5, <2>2 DEF Fan!Skip, Fan!Ending, Fan!Unhurt, Fan!Phases
  <2>4. Follows(t, u)
    BY <2>1, <2>2 DEF Follows
  <2>5. "procurement" \in Fan!Phases
    BY DEF Fan!Phases
  <2> HIDE DEF u, t
  <2>6. QED
    BY <1>3, <2>1, <2>2, <2>3, <2>4, <2>5
<1>6. CASE Fan!Enter(c)
  <2> DEFINE u == [t EXCEPT !.at = "search"]
  <2>1. /\ u \in TaskRecord /\ u.at = "search" /\ u.got = t.got /\ u.phase = t.phase
        /\ u.spent = t.spent
    BY <1>0 DEF TaskRecord
  <2>2. /\ t.at = "queued" /\ fan_county' = [fan_county EXCEPT ![c] = u]
        /\ \A d \in Fan!Queued : c <= d
    BY <1>0, <1>6 DEF Fan!Enter, Fan!Queued
  <2>3. Follows(t, u) /\ u.phase = "procurement"
    BY <1>0, <2>1, <2>2 DEF Follows
  <2> HIDE DEF u, t
  <2>4. QED
    BY <1>3, <2>1, <2>2, <2>3
<1>7. CASE Fan!Search(c)
  <2>1. t.at = "search" /\ Fan!Ending(c) = fan_portal[c][t.phase]
    BY <1>0, <1>7 DEF Fan!Search, Fan!Ending
  <2>2. t.got \in SUBSET Fan!Phases /\ t.phase \in Fan!Phases
    BY <1>0 DEF TaskRecord
  <2>3. CASE Fan!Ending(c) = "search" /\ fan_county' = [fan_county EXCEPT ![c] = Fan!Produced(@)]
    <3>1. fan_county' = [fan_county EXCEPT ![c] =
                           Fan!After([t EXCEPT !.got = t.got \cup {t.phase}])]
      BY <1>0, <2>3 DEF Fan!Produced
    <3>2. t.got \cup {t.phase} \in SUBSET Fan!Phases
      BY <2>2
    <3> HIDE DEF t
    <3>3. QED
      BY <1>4, <2>1, <3>1, <3>2
  <2>4. CASE Fan!Ending(c) = "raises" /\ fan_county' = [fan_county EXCEPT ![c] = Fan!After(@)]
    <3>1. t = [t EXCEPT !.got = t.got]
      BY <1>0 DEF TaskRecord
    <3>2. fan_county' = [fan_county EXCEPT ![c] = Fan!After([t EXCEPT !.got = t.got])]
      BY <1>0, <2>4, <3>1
    <3>3. ~ Fan!Unhurt(c, t.phase)
      BY <2>1, <2>4 DEF Fan!Unhurt
    <3> HIDE DEF t
    <3>4. QED
      BY <1>4, <2>1, <2>2, <3>2, <3>3
  <2>5. ASSUME NEW a \in {"links", "raised"},
               a = "raised" => Fan!Ending(c) = "escapes",
               fan_county' = [fan_county EXCEPT ![c].at = a]
        PROVE  \E v : /\ Follows(Task(c), v) /\ fan_county' = [fan_county EXCEPT ![c] = v]
                      /\ Task(c).at = "queued" /\ v.at # "done" => \A d \in Fan!Queued : c <= d
                      /\ TaskIsFair(c)'
    <3> DEFINE u == [t EXCEPT !.at = a]
    <3>1. /\ u \in TaskRecord /\ u.at = a /\ u.got = t.got /\ u.phase = t.phase
          /\ u.spent = t.spent
      BY <1>0, <2>5 DEF TaskRecord
    <3>2. fan_county' = [fan_county EXCEPT ![c] = u]
      BY <1>0, <2>5
    <3>3. Follows(t, u)
      BY <2>1, <2>5, <3>1 DEF Follows
    <3>4. u.phase = "hcl" /\ Fan!Unhurt(c, "procurement") => "procurement" \in u.got
      BY <3>1 DEF TaskIsFair
    <3>5. u.at = "raised" => \E other \in Fan!Phases : fan_portal[c][other] = "escapes"
      BY <2>1, <2>2, <2>5, <3>1
    <3> HIDE DEF u, t
    <3>6. QED
      BY <1>3, <2>1, <2>5, <3>1, <3>2, <3>3, <3>4, <3>5
  <2>6. QED
    BY <1>7, <2>3, <2>4, <2>5 DEF Fan!Search
<1>8. CASE Fan!Harvest(c)
  <2>1. /\ t.at = "links"
        /\ fan_county' = [fan_county EXCEPT ![c] =
                            Fan!After([t EXCEPT !.got = t.got \cup {t.phase}])]
    BY <1>0, <1>8 DEF Fan!Harvest, Fan!Produced
  <2>2. t.got \cup {t.phase} \in SUBSET Fan!Phases
    BY <1>0 DEF TaskRecord
  <2> HIDE DEF t
  <2>3. QED
    BY <1>4, <2>1, <2>2
<1>9. QED
  BY <1>5, <1>6, <1>7, <1>8

FanInv == FanType /\ WavesInv /\ (\A c \in Fan!Counties : TaskIsFair(c)) /\ ResultIsFair

LEMMA FanInvInitial ==
  ASSUME FanAssumption, Fan!Init
  PROVE  FanInv
<1>0. /\ Last \in Nat /\ Slots \in Nat \ {0} /\ Budget \in Nat \ {0}
      /\ fan_portal \in [Fan!Counties -> Portals]
      /\ fan_county = [c \in Fan!Counties |-> Fan!Task] /\ fan_clock = 0
      /\ fan_result.at = "gathering"
  BY DEF FanAssumption, Fan!Init, Fan!Pending
<1>1. /\ Fan!Task \in TaskRecord /\ Fan!Task.at = "queued" /\ Fan!Task.phase = "procurement"
      /\ Fan!Task.got = {} /\ Fan!Task.spent = 0
  BY <1>0 DEF Fan!Task, TaskRecord, Fan!Phases
<1>2. FanType
  BY <1>0, <1>1 DEF FanType, Task
<1>3. Fan!Queued = Fan!Counties /\ Fan!Running = {}
  BY <1>0, <1>1 DEF Fan!Queued, Fan!Running
<1>4. ASSUME NEW n \in Nat PROVE 0 <= (n \div Slots) * Budget
  BY <1>0
<1>5. \A c \in Fan!Counties : c - 1 \in Nat
  BY <1>0 DEF Fan!Counties
<1>6. Last + Slots - 1 \in Nat
  BY <1>0
<1>7. WavesInv
  BY <1>0, <1>3, <1>4, <1>5, <1>6 DEF WavesInv, Fan!Waves
<1>8. \A c \in Fan!Counties : TaskIsFair(c)
  BY <1>0, <1>1 DEF TaskIsFair, Task
<1>9. QED
  BY <1>0, <1>2, <1>7, <1>8 DEF FanInv, ResultIsFair

LEMMA FanInvPreserved ==
  ASSUME FanAssumption, FanInv, [Fan!Next]_(Fan!vars)
  PROVE  FanInv'
<1>0. FanType /\ WavesInv /\ (\A c \in Fan!Counties : TaskIsFair(c)) /\ ResultIsFair
  BY DEF FanInv
<1>1. ASSUME NEW c \in Fan!Counties,
             Fan!Skip(c) \/ Fan!Enter(c) \/ Fan!Search(c) \/ Fan!Harvest(c)
      PROVE  FanInv'
  <2>1. UNCHANGED <<fan_portal, fan_clock, fan_result>>
    BY <1>1 DEF Fan!Skip, Fan!Enter, Fan!Search, Fan!Harvest
  <2>2. PICK u : /\ Follows(Task(c), u) /\ fan_county' = [fan_county EXCEPT ![c] = u]
                 /\ Task(c).at = "queued" /\ u.at # "done" => \A d \in Fan!Queued : c <= d
                 /\ TaskIsFair(c)'
    BY <1>0, <1>1, FairnessOfStep
  <2>3. /\ fan_county' \in [Fan!Counties -> TaskRecord] /\ Task(c)' = u
        /\ \A o \in Fan!Counties \ {c} : Task(o)' = Task(o)
    BY <1>0, <2>2, FanTaskStep
  <2>4. FanType'
    BY <1>0, <2>1, <2>2, <2>3 DEF FanType, Follows
  <2>5. WavesInv'
    BY <1>0, <2>1, <2>2, WavesInvTaskStep
  <2>6. \A o \in Fan!Counties : TaskIsFair(o)'
    BY <1>0, <2>1, <2>2, <2>3, FairnessKept
  <2>7. ResultIsFair'
    BY <1>0, <2>1 DEF ResultIsFair, Fan!Unhurt
  <2>8. QED
    BY <2>4, <2>5, <2>6, <2>7 DEF FanInv
<1>2. CASE Fan!Pass
  <2>1. UNCHANGED <<fan_portal, fan_result>> /\ fan_clock' = fan_clock + 1
    BY <1>2 DEF Fan!Pass
  <2>2. /\ WavesInv' /\ fan_county' \in [Fan!Counties -> TaskRecord]
        /\ \A c \in Fan!Counties :
             /\ c \notin Fan!Running => Task(c)' = Task(c)
             /\ Task(c)'.phase = Task(c).phase /\ Task(c)'.got = Task(c).got
             /\ Task(c)'.at # Task(c).at =>
                  /\ c \in Fan!Running /\ Task(c)'.at = "done" /\ Fan!Ending(c) = "hangs"
    BY <1>0, <1>2, WavesInvPass
  <2>3. \A c \in Fan!Counties : Task(c)'.at = "queued" => Task(c)' = Task(c)
    BY <2>2 DEF Fan!Running, Task
  <2>4. FanType'
    BY <1>0, <2>1, <2>2, <2>3 DEF FanType
  <2>5. ASSUME NEW c \in Fan!Counties PROVE TaskIsFair(c)'
    <3>1. \A phase : Fan!Unhurt(c, phase)' <=> Fan!Unhurt(c, phase)
      BY <2>1 DEF Fan!Unhurt
    <3>2. CASE Task(c)'.at = Task(c).at
      BY <1>0, <2>1, <2>2, <3>1, <3>2 DEF TaskIsFair
    <3>3. CASE Task(c)'.at # Task(c).at
      <4>1. /\ Task(c)'.at = "done" /\ fan_portal[c][Task(c).phase] = "hangs"
            /\ Task(c)'.phase = Task(c).phase /\ Task(c)'.got = Task(c).got
            /\ Task(c).phase \in {"procurement", "hcl"}
        BY <1>0, <2>2, <3>3 DEF Fan!Ending, Task, FanType, TaskRecord, Fan!Phases
      <4>2. \A phase \in Fan!Phases : Fan!Unhurt(c, phase) => phase \in Task(c).got
        <5>1. CASE Task(c).phase = "procurement"
          BY <4>1, <5>1 DEF Fan!Unhurt, Fan!Phases
        <5>2. CASE Task(c).phase = "hcl"
          BY <1>0, <4>1, <5>2 DEF Fan!Unhurt, Fan!Phases, TaskIsFair
        <5>3. QED
          BY <4>1, <5>1, <5>2
      <4>3. Task(c).phase = "hcl" /\ Fan!Unhurt(c, "procurement") => "procurement" \in Task(c).got
        BY <1>0 DEF TaskIsFair
      <4>4. QED
        BY <3>1, <4>1, <4>2, <4>3 DEF TaskIsFair
    <3>4. QED
      BY <3>2, <3>3
  <2>6. ResultIsFair'
    BY <1>0, <2>1 DEF ResultIsFair, Fan!Unhurt
  <2>7. QED
    BY <2>2, <2>4, <2>5, <2>6 DEF FanInv
<1>3. CASE Fan!Gather
  <2>1. /\ UNCHANGED <<fan_portal, fan_county, fan_clock>>
        /\ fan_result' = [at |-> "returned", got |-> Fan!Gathered]
        /\ \A c \in Fan!Counties : Task(c).at \in {"done", "raised"}
    BY <1>3 DEF Fan!Gather, Task
  <2>2. FanType' /\ WavesInv'
    BY <1>0, <2>1 DEF FanType, WavesInv, Fan!Queued, Fan!Running, Fan!Waves, Task
  <2>3. \A c \in Fan!Counties : TaskIsFair(c)'
    BY <1>0, <2>1 DEF TaskIsFair, Fan!Unhurt, Task
  <2>4. ASSUME NEW c \in Fan!Counties, NEW phase \in Fan!Phases, Fan!Unhurt(c, phase)
        PROVE  <<c, phase>> \in Fan!Gathered
    <3>1. Task(c).at # "raised"
      BY <1>0, <2>4 DEF TaskIsFair, Fan!Unhurt
    <3>2. Task(c).at = "done" /\ phase \in Task(c).got
      BY <1>0, <2>1, <2>4, <3>1 DEF TaskIsFair
    <3>3. <<c, phase>> \in Fan!SignalsOf(c)
      BY <3>2 DEF Fan!SignalsOf, Task
    <3>4. QED
      BY <3>2, <3>3 DEF Fan!Gathered, Task
  <2>5. ResultIsFair'
    BY <2>1, <2>4 DEF ResultIsFair, Fan!Unhurt
  <2>6. QED
    BY <2>2, <2>3, <2>5 DEF FanInv
<1>4. CASE UNCHANGED Fan!vars
  <2>1. UNCHANGED <<fan_portal, fan_county, fan_clock, fan_result>>
    BY <1>4 DEF Fan!vars
  <2>2. FanType' /\ WavesInv'
    BY <1>0, <2>1 DEF FanType, WavesInv, Fan!Queued, Fan!Running, Fan!Waves, Task
  <2>3. \A c \in Fan!Counties : TaskIsFair(c)'
    BY <1>0, <2>1, FairnessKept DEF Task
  <2>4. ResultIsFair'
    BY <1>0, <2>1 DEF ResultIsFair, Fan!Unhurt
  <2>5. QED
    BY <2>2, <2>3, <2>4 DEF FanInv
<1>5. QED
  BY <1>1, <1>2, <1>3, <1>4 DEF Fan!Next

\* However the portals of the registry behave, each gives what it answers before
\* it hangs or raises, and the fetch ends within the waves its counties make,
\* a budget each.
THEOREM CountiesDoNotHurtEachOther ==
  ASSUME FanAssumption
  PROVE  Fan!Spec => []Fan!HealthyCountiesSurvive
<1>1. Fan!Init => FanInv
  BY FanInvInitial
<1>2. FanInv /\ [Fan!Next]_(Fan!vars) => FanInv'
  BY FanInvPreserved
<1>3. FanInv => Fan!HealthyCountiesSurvive
  BY DEF FanInv, WavesInv, ResultIsFair, Fan!HealthyCountiesSurvive
<1>4. QED
  BY <1>1, <1>2, <1>3, PTL DEF Fan!Spec

\* What the fan-out returns is what it gathered.
ResultType == fan_result.got \subseteq Fan!Counties \X Fan!Phases

\* No county's task spends more than its budget, and the result is of counties
\* and phases there are.
THEOREM FanTypes ==
  ASSUME FanAssumption
  PROVE  Fan!Spec => []Fan!TypeOK
<1>1. Fan!Init => FanInv /\ ResultType
  BY FanInvInitial DEF Fan!Init, Fan!Pending, ResultType
<1>2. FanInv /\ ResultType /\ [Fan!Next]_(Fan!vars) => FanInv' /\ ResultType'
  <2> SUFFICES ASSUME FanInv, ResultType, [Fan!Next]_(Fan!vars) PROVE FanInv' /\ ResultType'
    OBVIOUS
  <2>1. FanInv'
    BY FanInvPreserved
  <2>2. CASE UNCHANGED fan_result
    BY <2>1, <2>2 DEF ResultType, Fan!Counties, Fan!Phases
  <2>3. CASE Fan!Gather
    <3>1. fan_county \in [Fan!Counties -> TaskRecord]
      BY DEF FanInv, FanType
    <3>2. fan_result'.got = Fan!Gathered
      BY <2>3 DEF Fan!Gather
    <3>3. \A c \in Fan!Counties : fan_county[c].got \subseteq Fan!Phases
      BY <3>1 DEF TaskRecord
    <3>4. Fan!Gathered \subseteq Fan!Counties \X Fan!Phases
      BY <3>3 DEF Fan!Gathered, Fan!SignalsOf
    <3>5. QED
      BY <2>1, <3>2, <3>4 DEF ResultType, Fan!Counties, Fan!Phases
  <2>4. QED
    BY <2>2, <2>3 DEF Fan!Next, Fan!Skip, Fan!Enter, Fan!Search, Fan!Harvest, Fan!Pass, Fan!vars
<1>3. FanInv /\ ResultType => Fan!TypeOK
  BY DEF FanAssumption, FanInv, FanType, ResultType, TaskRecord, Fan!TypeOK
<1>4. QED
  BY <1>1, <1>2, <1>3, PTL DEF Fan!Spec

(***************************************************************************)
(* The procurement notices.                                                *)
(***************************************************************************)
AwardAssumption == IsFiniteSet(Purchases)

SeapRecord ==
  [estimate: Prices \cup {None}, firm: Firms \cup {None}, price: Prices \cup {None},
   noticed: BOOLEAN]

\* An award notice names its purchase's firm, and one figure for both; there is
\* one of a purchase.
AwardInv ==
  /\ award_seap \in [Purchases -> SeapRecord]
  /\ \A p \in Purchases : award_seap[p].noticed => award_seap[p].firm # None
  /\ \A r \in award_table : r.type = "CAN" =>
       /\ r.of \in Purchases /\ award_seap[r.of].firm # None
       /\ r.firm = award_seap[r.of].firm /\ r.estimate = r.price
  /\ \A r, s \in award_table : r.type = "CAN" /\ s.type = "CAN" /\ r.of = s.of => r = s

LEMMA AwardInvPreserved ==
  ASSUME AwardInv, [Award!Next]_(Award!vars)
  PROVE  AwardInv'
<1>1. ASSUME NEW p \in Purchases, NEW t \in SeapRecord,
             award_seap' = [award_seap EXCEPT ![p] = t], UNCHANGED award_table,
             t.noticed => t.firm # None,
             award_seap[p].firm # None => t.firm = award_seap[p].firm
      PROVE  AwardInv'
  <2>1. /\ award_seap' \in [Purchases -> SeapRecord] /\ award_seap'[p] = t
        /\ \A q \in Purchases \ {p} : award_seap'[q] = award_seap[q]
    BY <1>1 DEF AwardInv
  <2>2. \A q \in Purchases : award_seap[q].firm # None => award_seap'[q].firm = award_seap[q].firm
    BY <1>1, <2>1
  <2>3. QED
    BY <1>1, <2>1, <2>2 DEF AwardInv
<1>2. ASSUME NEW p \in Purchases, NEW v \in Prices, Award!Publish(p, v) PROVE AwardInv'
  <2>1. award_seap[p] \in SeapRecord /\ award_seap[p] = Award!Unpublished
    BY <1>2 DEF AwardInv, Award!Publish
  <2> DEFINE t == [award_seap[p] EXCEPT !.estimate = v]
  <2>2. t \in SeapRecord /\ t.firm = award_seap[p].firm /\ t.noticed = award_seap[p].noticed
    BY <2>1 DEF SeapRecord
  <2>3. award_seap' = [award_seap EXCEPT ![p] = t] /\ UNCHANGED award_table
    BY <1>2 DEF AwardInv, Award!Publish
  <2> HIDE DEF t
  <2>4. QED
    BY <1>1, <2>1, <2>2, <2>3 DEF AwardInv
<1>3. ASSUME NEW p \in Purchases, NEW f \in Firms, NEW v \in Prices, Award!Accept(p, f, v)
      PROVE  AwardInv'
  <2>1. award_seap[p] \in SeapRecord /\ award_seap[p].firm = None
        /\ ~ award_seap[p].noticed
    BY <1>3 DEF AwardInv, Award!Accept
  <2> DEFINE t == [award_seap[p] EXCEPT !.firm = f, !.price = v]
  <2>2. t \in SeapRecord /\ (t.noticed <=> award_seap[p].noticed)
    BY <2>1 DEF SeapRecord
  <2>3. award_seap' = [award_seap EXCEPT ![p] = t] /\ UNCHANGED award_table
    BY <1>3 DEF AwardInv, Award!Accept, SeapRecord
  <2> HIDE DEF t
  <2>4. QED
    BY <1>1, <2>1, <2>2, <2>3 DEF AwardInv
<1>4. ASSUME NEW p \in Purchases, NEW v \in Prices, Award!Correct(p, v) PROVE AwardInv'
  <2>1. award_seap[p] \in SeapRecord /\ award_seap[p].firm # None
    BY <1>4 DEF AwardInv, Award!Correct
  <2> DEFINE t == [award_seap[p] EXCEPT !.price = v]
  <2>2. t \in SeapRecord /\ t.firm = award_seap[p].firm
    BY <2>1 DEF SeapRecord
  <2>3. award_seap' = [award_seap EXCEPT ![p] = t] /\ UNCHANGED award_table
    BY <1>4 DEF AwardInv, Award!Correct
  <2> HIDE DEF t
  <2>4. QED
    BY <1>1, <2>1, <2>2, <2>3 DEF AwardInv
<1>5. ASSUME NEW p \in Purchases, Award!Notify(p) PROVE AwardInv'
  <2>1. award_seap[p] \in SeapRecord /\ award_seap[p].firm # None
    BY <1>5 DEF AwardInv, Award!Notify
  <2> DEFINE t == [award_seap[p] EXCEPT !.noticed = TRUE]
  <2>2. t \in SeapRecord /\ t.firm = award_seap[p].firm
    BY <2>1 DEF SeapRecord
  <2>3. award_seap' = [award_seap EXCEPT ![p] = t] /\ UNCHANGED award_table
    BY <1>5 DEF AwardInv, Award!Notify
  <2> HIDE DEF t
  <2>4. QED
    BY <1>1, <2>1, <2>2, <2>3 DEF AwardInv
<1>6. ASSUME NEW p \in Purchases, Award!FetchPurchase(p) PROVE AwardInv'
  <2>1. Award!Purchase(p).type = "DA"
    BY DEF Award!Purchase
  <2>2. UNCHANGED award_seap
        /\ \A r \in award_table' : r \in award_table \/ r.type = "DA"
    BY <1>6, <2>1 DEF Award!FetchPurchase, Award!Upsert
  <2>3. QED
    BY <2>2 DEF AwardInv
<1>7. ASSUME NEW p \in Purchases, NEW stated \in BOOLEAN, Award!FetchAward(p, stated) PROVE AwardInv'
  <2> DEFINE n == Award!AwardNotice(p, stated)
  <2>1. /\ n.of = p /\ n.type = "CAN" /\ n.firm = award_seap[p].firm /\ n.estimate = n.price
        /\ award_seap[p].noticed
    BY <1>7 DEF Award!AwardNotice, Award!FetchAward
  <2>2. UNCHANGED award_seap
        /\ \A r \in award_table' : (r \in award_table /\ ~ (r.of = p /\ r.type = "CAN")) \/ r = n
    BY <1>7, <2>1 DEF Award!FetchAward, Award!Upsert, Award!SameNotice
  <2> HIDE DEF n
  <2>3. QED
    BY <2>1, <2>2 DEF AwardInv
<1>8. CASE UNCHANGED Award!vars
  BY <1>8 DEF Award!vars, AwardInv
<1>9. QED
  BY <1>2, <1>3, <1>4, <1>5, <1>6, <1>7, <1>8 DEF Award!Next

\* Each award of a firm is of a purchase of its own.
LEMMA AwardInvImplies ==
  ASSUME AwardAssumption, AwardInv
  PROVE  Award!StatisticsRestOnOutcomes
<1>1. Award!Priced = {}
  BY DEF Award!Priced, Award!Awards, Award!IsAward, Award!TwoFigures, Award!BothStated, AwardInv
<1>2. ASSUME NEW f \in Firms
      PROVE  Award!Wins(f) <= Award!Cardinality({p \in Purchases : award_seap[p].firm = f})
  <2> DEFINE won == {r \in Award!Awards : r.firm = f}
             contracts == {p \in Purchases : award_seap[p].firm = f}
             of == [r \in won |-> r.of]
  <2>1. of \in Injection(won, contracts)
    <3>1. \A r \in won : r.of \in contracts
      BY DEF AwardInv, Award!Awards, Award!IsAward
    <3>2. \A r, s \in won : r.of = s.of => r = s
      BY DEF AwardInv, Award!Awards, Award!IsAward
    <3> HIDE DEF won, contracts
    <3>3. QED
      BY <3>1, <3>2, Zenon DEF Injection, IsInjective
  <2>2. IsFiniteSet(contracts)
    BY FS_Subset DEF AwardAssumption
  <2> HIDE DEF of
  <2>3. Cardinality(won) <= Cardinality(contracts)
    BY <2>1, <2>2, FS_Injection, Zenon
  <2>4. Award!Wins(f) = Cardinality(won) /\ Award!Cardinality(contracts) = Cardinality(contracts)
    BY Zenon DEF Award!Wins, Award!Cardinality, Cardinality
  <2>5. QED
    BY <2>3, <2>4
<1>3. QED
  BY <1>1, <1>2 DEF Award!StatisticsRestOnOutcomes

\* However the feeds repeat and correct each other, a firm has no more wins than
\* contracts, and no discount is taken from a price that stands for an estimate.
THEOREM StatisticsAreOfOutcomes ==
  ASSUME AwardAssumption
  PROVE  Award!Spec => []Award!StatisticsRestOnOutcomes
<1>1. Award!Init => AwardInv
  BY DEF Award!Init, Award!Unpublished, AwardInv, SeapRecord
<1>2. AwardInv /\ [Award!Next]_(Award!vars) => AwardInv'
  BY AwardInvPreserved
<1>3. AwardInv => Award!StatisticsRestOnOutcomes
  BY AwardInvImplies
<1>4. QED
  BY <1>1, <1>2, <1>3, PTL DEF Award!Spec

NoticeRecord ==
  [of: Purchases, type: {"DA", "CAN"}, estimate: Prices \cup {None},
   firm: Firms \cup {None}, price: Prices \cup {None}]

\* The table and the portal hold firms and prices there are.
THEOREM AwardTypes == Award!Spec => []Award!TypeOK
<1> DEFINE Inv == AwardInv /\ award_table \subseteq NoticeRecord
<1>1. Award!Init => Inv
  BY DEF Award!Init, Award!Unpublished, AwardInv, SeapRecord
<1>2. Inv /\ [Award!Next]_(Award!vars) => Inv'
  <2> SUFFICES ASSUME Inv, [Award!Next]_(Award!vars) PROVE Inv'
    OBVIOUS
  <2>1. AwardInv'
    BY AwardInvPreserved
  <2>2. \A p \in Purchases : award_seap[p] \in SeapRecord
    BY DEF AwardInv
  <2>3. ASSUME NEW p \in Purchases, NEW n \in NoticeRecord, Award!Upsert(n) PROVE Inv'
    BY <2>1, <2>3 DEF Award!Upsert
  <2>4. ASSUME NEW p \in Purchases, NEW b \in BOOLEAN
        PROVE  Award!Purchase(p) \in NoticeRecord /\ Award!AwardNotice(p, b) \in NoticeRecord
    BY <2>2 DEF Award!Purchase, Award!AwardNotice, NoticeRecord, SeapRecord
  <2>5. CASE UNCHANGED award_table
    BY <2>1, <2>5
  <2>6. QED
    BY <2>3, <2>4, <2>5
       DEF Award!Next, Award!Publish, Award!Accept, Award!Correct, Award!Notify,
           Award!FetchPurchase, Award!FetchAward, Award!vars
<1>3. Inv => Award!TypeOK
  BY DEF AwardInv, SeapRecord, NoticeRecord, Award!TypeOK
<1>4. QED
  BY <1>1, <1>2, <1>3, PTL DEF Award!Spec

(***************************************************************************)
(* The alerts and the ranked feed.                                         *)
(***************************************************************************)
\* Of a lead there are finitely many terms, and a feed has a size.
RelAssumption ==
  /\ \A l \in Leads : IsFiniteSet(l.title) /\ IsFiniteSet(l.kind) /\ IsFiniteSet(l.name)
  /\ Limit \in Nat

\* What was alerted is stored, in this version or another, and was evident to the
\* matcher.
RelInv ==
  /\ rel_rows \in Seq(Leads)
  /\ \A t \in rel_told :
       Rel!Evidence(t.lead, t.for) /\ \E r \in Rel!Stored : r.id = t.lead.id

LEMMA RelCounts ==
  \A S : Rel!Cardinality(S) = Cardinality(S)
BY Zenon DEF Rel!Cardinality, Cardinality

\* A term is found in a text or not.
LEMMA HitsSome ==
  ASSUME NEW terms, NEW text, IsFiniteSet(text)
  PROVE  /\ Rel!Hits(terms, text) > 0 <=> terms \cap text # {}
         /\ Rel!Hits(terms, text) = 0 <=> terms \cap text = {}
<1>1. IsFiniteSet(terms \cap text)
  BY FS_Subset
<1>2. Rel!Hits(terms, text) = Cardinality(terms \cap text)
  BY RelCounts DEF Rel!Hits
<1>3. /\ Cardinality(terms \cap text) \in Nat
      /\ Cardinality(terms \cap text) = 0 <=> terms \cap text = {}
  BY <1>1, FS_CardinalityType, FS_EmptySet
<1>4. QED
  BY <1>2, <1>3

\* No lead has two rows.
OneRowEach == \A i, j \in DOMAIN rel_rows : rel_rows[i].id = rel_rows[j].id => i = j

\* An upsert leaves the rows of the other leads, and the lead's.
LEMMA UpsertedRows ==
  ASSUME rel_rows \in Seq(Leads), NEW l \in Leads, rel_rows' = Rel!Upserted(l)
  PROVE  /\ rel_rows' \in Seq(Leads) /\ l \in Rel!Stored'
         /\ \A r \in Rel!Stored : r.id # l.id => r \in Rel!Stored'
         /\ OneRowEach => OneRowEach'
<1> DEFINE s == rel_rows
           n == Len(s)
<1>1. n \in Nat /\ DOMAIN s = 1..n /\ \A i \in 1..n : s[i] \in Leads
  OBVIOUS
<1>2. CASE ~ Rel!Known(l)
  <2>1. rel_rows' = Append(s, l)
    BY <1>2 DEF Rel!Upserted
  <2>2. /\ rel_rows' \in Seq(Leads) /\ DOMAIN rel_rows' = 1..(n + 1)
        /\ rel_rows'[n + 1] = l /\ \A i \in 1..n : rel_rows'[i] = s[i]
    BY <2>1
  <2>3. \A i \in 1..(n + 1) : i \in 1..n \/ i = n + 1
    BY <1>1
  <2>4. n + 1 \in 1..(n + 1) /\ \A i \in 1..n : i \in 1..(n + 1)
    BY <1>1
  <2>5. \A i \in 1..n : s[i].id # l.id
    BY <1>1, <1>2 DEF Rel!Known, Rel!Stored
  <2> HIDE DEF n
  <2>6. ASSUME OneRowEach, NEW i \in 1..(n + 1), NEW j \in 1..(n + 1),
               rel_rows'[i].id = rel_rows'[j].id
        PROVE  i = j
    <3>1. CASE i \in 1..n /\ j \in 1..n
      BY <1>1, <2>2, <2>6, <3>1 DEF OneRowEach
    <3>2. CASE i = n + 1 \/ j = n + 1
      BY <2>2, <2>3, <2>5, <2>6, <3>2
    <3>3. QED
      BY <2>3, <3>1, <3>2
  <2>7. OneRowEach => OneRowEach'
    BY <2>2, <2>6 DEF OneRowEach
  <2>8. l \in Rel!Stored' /\ \A r \in Rel!Stored : r \in Rel!Stored'
    BY <1>1, <2>2, <2>4 DEF Rel!Stored
  <2>9. QED
    BY <2>2, <2>7, <2>8
<1>3. CASE Rel!Known(l)
  <2> DEFINE at == CHOOSE i \in DOMAIN s : s[i].id = l.id
             u == [i \in 1..(n - 1) |-> IF i < at THEN s[i] ELSE s[i + 1]]
             old(i) == IF i < at THEN i ELSE i + 1
  <2>1. at \in 1..n /\ s[at].id = l.id
    BY <1>1, <1>3 DEF Rel!Known, Rel!Stored
  <2>2. rel_rows' = Append(u, l)
    BY <1>3 DEF Rel!Upserted
  <2> HIDE DEF at
  <2>3. n - 1 \in Nat /\ n \in 1..n
    BY <1>1, <2>1
  <2>4. \A i \in 1..(n - 1) : old(i) \in 1..n /\ old(i) # at /\ u[i] = s[old(i)]
    BY <1>1, <2>1
  <2>5. \A i, j \in 1..(n - 1) : old(i) = old(j) => i = j
    BY <1>1, <2>1
  <2>6. \A i \in 1..n : i # at => \E j \in 1..(n - 1) : old(j) = i
    <3> SUFFICES ASSUME NEW i \in 1..n, i # at PROVE \E j \in 1..(n - 1) : old(j) = i
      OBVIOUS
    <3>1. CASE i < at
      <4>1. i \in 1..(n - 1) /\ old(i) = i
        BY <1>1, <2>1, <3>1
      <4>2. QED
        BY <4>1
    <3>2. CASE i > at
      <4>1. i - 1 \in 1..(n - 1) /\ old(i - 1) = i
        BY <1>1, <2>1, <3>2
      <4>2. QED
        BY <4>1
    <3>3. QED
      BY <1>1, <2>1, <3>1, <3>2
  <2>7. u \in Seq(Leads) /\ Len(u) = n - 1
    <3>1. \A i \in 1..(n - 1) : u[i] \in Leads
      BY <1>1, <2>4
    <3>2. QED
      BY <2>3, <3>1
  <2> HIDE DEF u, old, n
  <2>8. /\ rel_rows' \in Seq(Leads) /\ DOMAIN rel_rows' = 1..n
        /\ rel_rows'[n] = l /\ \A i \in 1..(n - 1) : rel_rows'[i] = u[i]
    BY <1>1, <2>2, <2>3, <2>7
  <2>9. \A i \in 1..n : i = n \/ i \in 1..(n - 1)
    BY <1>1
  <2>10. \A i \in 1..(n - 1) : i \in 1..n
    BY <1>1
  <2>11. ASSUME OneRowEach, NEW i \in 1..n, NEW j \in 1..n, rel_rows'[i].id = rel_rows'[j].id
         PROVE  i = j
    <3>1. \A k \in 1..(n - 1) : rel_rows'[k].id # l.id
      BY <1>1, <2>1, <2>4, <2>8, <2>11 DEF OneRowEach
    <3>2. CASE i \in 1..(n - 1) /\ j \in 1..(n - 1)
      <4>1. s[old(i)].id = s[old(j)].id
        BY <2>4, <2>8, <2>11, <3>2
      <4>2. old(i) = old(j)
        BY <1>1, <2>4, <2>11, <3>2, <4>1 DEF OneRowEach
      <4>3. QED
        BY <2>5, <3>2, <4>2
    <3>3. CASE i = n \/ j = n
      BY <2>8, <2>9, <2>11, <3>1, <3>3
    <3>4. QED
      BY <2>9, <3>2, <3>3
  <2>12. OneRowEach => OneRowEach'
    BY <2>8, <2>11 DEF OneRowEach
  <2>13. ASSUME NEW i \in 1..n, s[i].id # l.id PROVE \E j \in 1..n : rel_rows'[j] = s[i]
    <3>1. PICK j \in 1..(n - 1) : old(j) = i
      BY <2>1, <2>6, <2>13
    <3>2. QED
      BY <2>4, <2>8, <2>10, <3>1
  <2>14. l \in Rel!Stored' /\ \A r \in Rel!Stored : r.id # l.id => r \in Rel!Stored'
    BY <1>1, <2>3, <2>8, <2>13 DEF Rel!Stored
  <2>15. QED
    BY <2>8, <2>12, <2>14
<1>4. QED
  BY <1>2, <1>3

LEMMA RelInvPreserved ==
  ASSUME RelInv, [Rel!Next]_(Rel!vars)
  PROVE  RelInv'
<1>1. ASSUME NEW l \in Leads, Rel!Persist(l) PROVE RelInv'
  <2>1. /\ rel_rows' \in Seq(Leads) /\ l \in Rel!Stored'
        /\ \A r \in Rel!Stored : r.id # l.id => r \in Rel!Stored'
    BY <1>1, UpsertedRows DEF RelInv, Rel!Persist
  <2>2. \A t \in rel_told' : t \in rel_told \/ (t.lead = l /\ Rel!Evidence(t.lead, t.for))
    BY <1>1 DEF Rel!Persist, Rel!Alerts
  <2>3. \A t \in rel_told : \E r \in Rel!Stored' : r.id = t.lead.id
    BY <2>1 DEF RelInv
  <2>4. QED
    BY <2>1, <2>2, <2>3 DEF RelInv
<1>2. CASE UNCHANGED <<rel_rows, rel_told>>
  BY <1>2 DEF RelInv, Rel!Stored
<1>3. QED
  BY <1>1, <1>2 DEF Rel!Next, Rel!Save, Rel!BeginTick, Rel!EndTick, Rel!vars

\* The keyword of an alert is in the stored text, and nothing that excludes is.
LEMMA EvidentIsMatch ==
  ASSUME RelAssumption, NEW l \in Leads, NEW p, Rel!Evidence(l, p), l.name \cap p.excluded = {}
  PROVE  Rel!IsMatch(l, p) /\ Rel!Badge(l, p) /\ Rel!KeywordHit(l, p)
<1>1. IsFiniteSet(l.title) /\ IsFiniteSet(l.kind) /\ IsFiniteSet(l.name)
  BY DEF RelAssumption
<1>2. IsFiniteSet(Rel!Text(l)) /\ IsFiniteSet(Rel!Blob(l))
  BY <1>1, FS_Union DEF Rel!Text, Rel!Blob
<1>3. p.keywords \cap Rel!Text(l) # {} /\ p.excluded \cap Rel!Text(l) = {}
  BY <1>2, HitsSome DEF Rel!Evidence
<1>4. p.keywords \cap Rel!Blob(l) # {} /\ p.excluded \cap Rel!Blob(l) = {}
  BY <1>3 DEF Rel!Text, Rel!Blob
<1>5. Rel!Hits(p.keywords, Rel!Blob(l)) > 0 /\ Rel!Hits(p.excluded, Rel!Blob(l)) = 0
  BY <1>2, <1>4, HitsSome
<1>6. Rel!KeywordHit(l, p) /\ ~ Rel!ExcludedHit(l, p)
  BY <1>5 DEF Rel!KeywordHit, Rel!ExcludedHit
<1>7. QED
  BY <1>6 DEF Rel!IsMatch, Rel!Badge, Rel!AnyHit

\* A match that gave way did so to matches: whatever precedes it precedes what
\* does not match.
LEMMA MatchGivesWayToMatches ==
  ASSUME RelAssumption, RelInv, NEW l \in Rel!Stored, Rel!IsMatch(l, rel_profile), l \notin Rel!Feed
  PROVE  \A k \in Rel!Feed : Rel!IsMatch(k, rel_profile)
<1> DEFINE D == DOMAIN rel_rows
           Before(j) == {k \in D : Rel!Precedes(k, j)}
<1>1. IsFiniteSet(D)
  <2>1. D = 1..Len(rel_rows) /\ Len(rel_rows) \in Nat
    BY DEF RelInv
  <2>2. QED
    BY <2>1, FS_Interval
<1>2. \A j : IsFiniteSet(Before(j)) /\ Cardinality(Before(j)) \in Nat
  BY <1>1, FS_Subset, FS_CardinalityType
<1>3. \A j \in D : Cardinality(Before(j)) < Limit => rel_rows[j] \in Rel!Feed
  BY RelCounts DEF Rel!Feed
<1>4. \A k \in Rel!Feed : \E j \in D : k = rel_rows[j] /\ Cardinality(Before(j)) < Limit
  BY RelCounts DEF Rel!Feed
<1>5. PICK i \in D : rel_rows[i] = l
  BY DEF Rel!Stored
<1>6. ~ (Cardinality(Before(i)) < Limit)
  BY <1>3, <1>5
<1>7. ASSUME NEW j \in D, ~ Rel!IsMatch(rel_rows[j], rel_profile)
      PROVE  Before(i) \subseteq Before(j)
  <2> SUFFICES ASSUME NEW k \in D, Rel!Precedes(k, i) PROVE Rel!Precedes(k, j)
    OBVIOUS
  <2>1. Rel!IsMatch(rel_rows[k], rel_profile)
    BY <1>5 DEF Rel!Precedes
  <2>2. QED
    BY <1>7, <2>1 DEF Rel!Precedes
<1> HIDE DEF Before
<1>8. ASSUME NEW j \in D, ~ Rel!IsMatch(rel_rows[j], rel_profile)
      PROVE  ~ (Cardinality(Before(j)) < Limit)
  <2>1. Cardinality(Before(i)) <= Cardinality(Before(j))
    BY <1>2, <1>7, <1>8, FS_Subset
  <2>2. QED
    BY <1>2, <1>6, <2>1 DEF RelAssumption
<1>9. QED
  BY <1>4, <1>8

\* What a person was alerted to, under criteria that still stand, is in the feed
\* with its badge and its keyword, or gave way to matches: as it was, and in any
\* correction that is still evident to the matcher.
THEOREM AlertsAreFoundAgain ==
  ASSUME RelAssumption
  PROVE  Rel!Spec => []Rel!AlertedLeadsAreFound
<1>1. Rel!Init => RelInv
  BY DEF Rel!Init, RelInv
<1>2. RelInv /\ [Rel!Next]_(Rel!vars) => RelInv'
  BY RelInvPreserved
<1>3. RelInv => Rel!AlertedLeadsAreFound
  <2> SUFFICES ASSUME RelInv, NEW t \in rel_told
               PROVE  \E l \in Rel!Stored :
                 /\ l.id = t.lead.id
                 /\ /\ t.for = rel_profile /\ l.name \cap rel_profile.excluded = {}
                    /\ l = t.lead \/ Rel!Evidence(l, rel_profile)
                    => IF l \in Rel!Feed
                       THEN Rel!Badge(l, rel_profile) /\ Rel!KeywordHit(l, rel_profile)
                       ELSE \A k \in Rel!Feed : Rel!IsMatch(k, rel_profile)
    BY DEF Rel!AlertedLeadsAreFound
  <2>1. PICK l \in Rel!Stored : l.id = t.lead.id
    BY DEF RelInv
  <2>2. l \in Leads
    BY DEF RelInv, Rel!Stored
  <2>3. ASSUME t.for = rel_profile, l.name \cap rel_profile.excluded = {},
               l = t.lead \/ Rel!Evidence(l, rel_profile)
        PROVE  IF l \in Rel!Feed
               THEN Rel!Badge(l, rel_profile) /\ Rel!KeywordHit(l, rel_profile)
               ELSE \A k \in Rel!Feed : Rel!IsMatch(k, rel_profile)
    <3>1. Rel!Evidence(l, rel_profile)
      BY <2>3 DEF RelInv
    <3>2. Rel!IsMatch(l, rel_profile) /\ Rel!Badge(l, rel_profile)
          /\ Rel!KeywordHit(l, rel_profile)
      BY <2>2, <2>3, <3>1, EvidentIsMatch
    <3>3. QED
      BY <3>2, MatchGivesWayToMatches
  <2>4. QED
    BY <2>1, <2>3
<1>4. QED
  BY <1>1, <1>2, <1>3, PTL DEF Rel!Spec

\* A lead has one row, and what is told is of leads and criteria there are.
RowsType ==
  /\ rel_rows \in Seq(Leads) /\ OneRowEach
  /\ rel_profile \in Profiles /\ rel_tick \subseteq Profiles
  /\ rel_told \subseteq [lead: Leads, for: Profiles]

\* A lead has one row, however often ticks bring it and in whatever versions
\* (db.py's upsert on source_id).
THEOREM RelTypes == Rel!Spec => []Rel!TypeOK
<1>1. Rel!Init => RowsType
  BY DEF Rel!Init, RowsType, OneRowEach
<1>2. RowsType /\ [Rel!Next]_(Rel!vars) => RowsType'
  <2> SUFFICES ASSUME RowsType, [Rel!Next]_(Rel!vars) PROVE RowsType'
    OBVIOUS
  <2>1. ASSUME NEW l \in Leads, Rel!Persist(l) PROVE RowsType'
    <3>1. rel_rows' \in Seq(Leads) /\ OneRowEach'
      BY <2>1, UpsertedRows DEF RowsType, Rel!Persist
    <3>2. rel_told' \subseteq [lead: Leads, for: Profiles]
          /\ rel_profile' \in Profiles /\ rel_tick' \subseteq Profiles
      BY <2>1 DEF Rel!Persist, RowsType
    <3>3. QED
      BY <3>1, <3>2 DEF RowsType
  <2>2. CASE ~ \E l \in Leads : Rel!Persist(l)
    <3>1. UNCHANGED <<rel_rows, rel_told>>
      BY <2>2 DEF Rel!Next, Rel!Save, Rel!BeginTick, Rel!EndTick, Rel!vars
    <3>2. rel_profile' \in Profiles /\ rel_tick' \subseteq Profiles
      BY <2>2 DEF Rel!Next, Rel!Save, Rel!BeginTick, Rel!EndTick, Rel!vars, RowsType
    <3>3. QED
      BY <3>1, <3>2 DEF RowsType, OneRowEach
  <2>3. QED
    BY <2>1, <2>2
<1>3. RowsType => Rel!TypeOK
  BY DEF RowsType, OneRowEach, Rel!TypeOK, Rel!Stored
<1>4. QED
  BY <1>1, <1>2, <1>3, PTL DEF Rel!Spec

(***************************************************************************)
(* The assistant.                                                          *)
(***************************************************************************)
ChatAssumption ==
  /\ Providers \in Nat \ {0} /\ CallLimit \in Nat \ {0} /\ Deadline \in Nat
  /\ MaxTurns \in Nat /\ PromptLimit \in Nat /\ MaxSections \in Nat

RunRecord ==
  [at: {"begin", "ask", "template", "answered"}, kept: Int, cut: BOOLEAN,
   tried: Nat, overran: BOOLEAN, spent: Nat, left: SUBSET Nat]

ReplyRecord ==
  [by: Chat!Templates \cup {"nobody", "small talk", "apology", "error", "model", "draft"},
   flagged: BOOLEAN, parts: SUBSET Nat, exhausted: SUBSET Nat]

\* What is asked does not change, and a message of the chats has no sections.
AskFits ==
  /\ chat_ask.ready \in Nat /\ chat_ask.ready <= Providers
  /\ chat_ask.text.sections \in SUBSET Nat
  /\ chat_ask.text.length \in Int /\ chat_ask.text.turns \in Int
  /\ chat_ask.text.kind \in {"copilot", "support"} => ~ Chat!IsDraft

\* The providers asked are accounted for, in number and, as long as each kept to
\* its limit, in seconds.
RunFits ==
  /\ chat_run \in RunRecord
  /\ chat_run.at = "begin" => chat_run = Chat!NoRun /\ chat_reply = Chat!NoReply
  /\ chat_run.at = "ask" => chat_run.tried < chat_ask.ready
  /\ chat_run.at = "template" => chat_run.tried = chat_ask.ready
  /\ chat_run.at = "ask" /\ ~ Chat!IsDraft =>
       chat_run.overran \/ chat_run.spent <= chat_run.tried * CallLimit

\* What a draft is still to have, and what it has or could not get, is all of it.
DraftFits ==
  /\ chat_reply \in ReplyRecord
  /\ chat_run.at # "answered" => chat_reply.by = "nobody"
  /\ Chat!IsDraft /\ chat_run.at \in {"ask", "template"} =>
       /\ chat_run.left # {} /\ chat_run.left \subseteq chat_ask.text.sections
       /\ chat_reply.parts \cup chat_reply.exhausted = chat_ask.text.sections \ chat_run.left

ChatInv == AskFits /\ RunFits /\ DraftFits /\ Chat!AnswersAreEarned

LEMMA AsksFit ==
  ASSUME ChatAssumption, chat_ask \in Chat!Requests
  PROVE  AskFits
<1>1. PICK t \in Chat!Texts, n \in {0, 1, Providers} : chat_ask = [text |-> t, ready |-> n]
  BY DEF Chat!Requests
<1>2. chat_ask.ready = n /\ chat_ask.text = t /\ n \in Nat /\ n <= Providers
  BY <1>1 DEF ChatAssumption
<1>3. CASE \E kind \in {"copilot", "support"}, topic \in Chat!Topics, greets \in BOOLEAN,
              corrects \in BOOLEAN, turns \in 0..MaxTurns, length \in {1, PromptLimit + 1} :
              t = Chat!Chat(kind, topic, greets, corrects, turns, length)
  <2>1. t.sections = {} /\ t.length \in Int /\ t.turns \in Int
    BY <1>3 DEF Chat!Chat, ChatAssumption
  <2>2. QED
    BY <1>2, <2>1 DEF AskFits, Chat!IsDraft
<1>4. CASE \E kind \in {"report", "letter", "price", "dossier"}, n1 \in {1} \cup 1..MaxSections :
              t = Chat!Draft(kind, 1..n1)
  <2>1. PICK kind \in {"report", "letter", "price", "dossier"}, n1 \in {1} \cup 1..MaxSections :
          t = Chat!Draft(kind, 1..n1)
    BY <1>4
  <2>2. /\ t.sections = 1..n1 /\ t.length = 1 /\ t.turns = 0 /\ t.kind = kind
    BY <2>1 DEF Chat!Draft, Chat!Chat
  <2>3. 1..n1 \subseteq Nat
    OBVIOUS
  <2>4. QED
    BY <1>2, <2>2, <2>3 DEF AskFits
<1>5. QED
  <2>1. CASE \E kind \in {"report", "letter", "price"} : t = Chat!Draft(kind, {1})
    <3>1. PICK kind \in {"report", "letter", "price"} : t = Chat!Draft(kind, {1})
      BY <2>1
    <3>2. {1} = 1..1
      OBVIOUS
    <3>3. t = Chat!Draft(kind, 1..1)
      BY <3>1, <3>2
    <3>4. QED
      BY <1>4, <3>3
  <2>2. CASE \E n1 \in 1..MaxSections : t = Chat!Draft("dossier", 1..n1)
    BY <1>4, <2>2
  <2>3. \/ t \in {Chat!Chat(kind, topic, greets, corrects, turns, length) :
                  kind \in {"copilot", "support"}, topic \in Chat!Topics, greets \in BOOLEAN,
                  corrects \in BOOLEAN, turns \in 0..MaxTurns, length \in {1, PromptLimit + 1}}
        \/ t \in {Chat!Draft(kind, {1}) : kind \in {"report", "letter", "price"}}
        \/ t \in {Chat!Draft("dossier", 1..n1) : n1 \in 1..MaxSections}
    BY <1>1 DEF Chat!Texts
  <2>4. CASE t \in {Chat!Chat(kind, topic, greets, corrects, turns, length) :
                  kind \in {"copilot", "support"}, topic \in Chat!Topics, greets \in BOOLEAN,
                  corrects \in BOOLEAN, turns \in 0..MaxTurns, length \in {1, PromptLimit + 1}}
    BY <1>3, <2>4
  <2>5. CASE t \in {Chat!Draft(kind, {1}) : kind \in {"report", "letter", "price"}}
    BY <2>1, <2>5
  <2>6. CASE t \in {Chat!Draft("dossier", 1..n1) : n1 \in 1..MaxSections}
    BY <2>2, <2>6
  <2>7. QED
    BY <2>3, <2>4, <2>5, <2>6

\* The section a draft turns to is one that is left.
LEMMA PartIsLeft ==
  ASSUME chat_run.left \in SUBSET Nat, chat_run.left # {}
  PROVE  Chat!Part \in chat_run.left
<1>1. \E s \in chat_run.left : \A t \in chat_run.left : s <= t
  BY Data!LeastElement
<1>2. QED
  BY <1>1 DEF Chat!Part

\* A draft goes on with its next section, or is done.
LEMMA DraftGoesOn ==
  ASSUME ChatAssumption, ChatInv, Chat!IsDraft, chat_run.at \in {"ask", "template"},
         NEW parts, NEW exhausted, parts \cup exhausted = {Chat!Part},
         Chat!DraftWith(parts, exhausted), UNCHANGED chat_ask
  PROVE  ChatInv'
<1> DEFINE left == chat_run.left \ {Chat!Part}
           r == [chat_run EXCEPT !.left = left]
<1>0. AskFits /\ RunFits /\ DraftFits
  BY DEF ChatInv
<1>1. /\ Chat!Part \in chat_run.left /\ chat_run \in RunRecord /\ chat_reply \in ReplyRecord
      /\ chat_run.left \subseteq chat_ask.text.sections /\ chat_run.left \in SUBSET Nat
      /\ chat_reply.by = "nobody"
  <2>1. chat_run \in RunRecord /\ chat_reply \in ReplyRecord /\ chat_reply.by = "nobody"
        /\ chat_run.left # {} /\ chat_run.left \subseteq chat_ask.text.sections
    BY <1>0 DEF RunFits, DraftFits
  <2>2. chat_run.left \in SUBSET Nat
    BY <2>1 DEF RunRecord
  <2>3. QED
    BY <2>1, <2>2, PartIsLeft
<1>2. left \in SUBSET Nat /\ left \subseteq chat_ask.text.sections
      /\ parts \in SUBSET Nat /\ exhausted \in SUBSET Nat
      /\ (chat_ask.text.sections \ chat_run.left) \cup {Chat!Part} = chat_ask.text.sections \ left
  BY <1>1
<1>3. r \in RunRecord /\ r.left = left
  BY <1>1, <1>2 DEF RunRecord
<1>4. /\ chat_reply' \in ReplyRecord
      /\ chat_reply'.by = IF left = {} THEN "draft" ELSE "nobody"
      /\ chat_reply'.parts \cup chat_reply'.exhausted = chat_ask.text.sections \ left
  <2>1. chat_reply' = [chat_reply EXCEPT !.by = IF left = {} THEN "draft" ELSE chat_reply.by,
                         !.parts = chat_reply.parts \cup parts,
                         !.exhausted = chat_reply.exhausted \cup exhausted]
    BY DEF Chat!DraftWith
  <2> HIDE DEF left
  <2>2. /\ chat_reply' \in ReplyRecord
        /\ chat_reply'.by = IF left = {} THEN "draft" ELSE chat_reply.by
        /\ chat_reply'.parts = chat_reply.parts \cup parts
        /\ chat_reply'.exhausted = chat_reply.exhausted \cup exhausted
    BY <1>1, <1>2, <2>1 DEF ReplyRecord
  <2>3. chat_reply.parts \cup chat_reply.exhausted = chat_ask.text.sections \ chat_run.left
    BY <1>0 DEF DraftFits
  <2>4. QED
    BY <1>1, <1>2, <2>2, <2>3
<1>5. chat_run' = Chat!NextPart(r)
  BY DEF Chat!DraftWith
<1> HIDE DEF left, r
<1>6. \/ left = {} /\ chat_run' = [r EXCEPT !.at = "answered"]
      \/ /\ left # {} /\ chat_ask.ready = 0
         /\ chat_run' = [r EXCEPT !.at = "template", !.tried = 0]
      \/ /\ left # {} /\ chat_ask.ready # 0
         /\ chat_run' = [r EXCEPT !.at = "ask", !.tried = 0]
  BY <1>3, <1>5 DEF Chat!NextPart
<1>7. AskFits' /\ Chat!IsDraft'
  BY <1>0 DEF AskFits, Chat!IsDraft
<1>8. chat_ask.ready \in Nat
  BY <1>0 DEF AskFits
<1>9. chat_run' \in RunRecord /\ chat_run'.left = left /\ chat_run'.at # "begin"
      /\ (chat_run'.at = "answered" <=> left = {})
      /\ (chat_run'.at = "ask" => chat_run'.tried < chat_ask.ready)
      /\ (chat_run'.at = "template" => chat_run'.tried = chat_ask.ready)
  <2>1. \A at \in {"answered", "ask", "template"} :
          /\ [r EXCEPT !.at = at] \in RunRecord /\ [r EXCEPT !.at = at].at = at
          /\ [r EXCEPT !.at = at].left = left
          /\ [r EXCEPT !.at = at, !.tried = 0] \in RunRecord
          /\ [r EXCEPT !.at = at, !.tried = 0].at = at
          /\ [r EXCEPT !.at = at, !.tried = 0].left = left
          /\ [r EXCEPT !.at = at, !.tried = 0].tried = 0
    BY <1>3 DEF RunRecord
  <2>2. CASE left = {} /\ chat_run' = [r EXCEPT !.at = "answered"]
    BY <2>1, <2>2
  <2>3. CASE /\ left # {} /\ chat_ask.ready = 0
             /\ chat_run' = [r EXCEPT !.at = "template", !.tried = 0]
    BY <2>1, <2>3
  <2>4. CASE /\ left # {} /\ chat_ask.ready # 0
             /\ chat_run' = [r EXCEPT !.at = "ask", !.tried = 0]
    BY <1>8, <2>1, <2>4
  <2>5. QED
    BY <1>6, <2>2, <2>3, <2>4
<1>10. RunFits'
  BY <1>7, <1>9 DEF RunFits
<1>11. DraftFits'
  BY <1>2, <1>4, <1>9 DEF DraftFits
<1>12. Chat!AnswersAreEarned'
  BY <1>4, <1>9 DEF Chat!AnswersAreEarned, Chat!Templates
<1>13. QED
  BY <1>7, <1>10, <1>11, <1>12 DEF ChatInv

\* The turns go on to the providers, or to the template without one.
LEMMA ProceedFits ==
  ASSUME ChatAssumption, ChatInv, chat_run.at = "begin", UNCHANGED <<chat_ask, chat_reply>>,
         chat_run' = Chat!Proceed(chat_ask.text.sections)
  PROVE  ChatInv'
<1>0. AskFits /\ RunFits /\ DraftFits
  BY DEF ChatInv
<1>1. /\ chat_run = Chat!NoRun /\ chat_reply = Chat!NoReply /\ chat_run \in RunRecord
      /\ chat_run.tried = 0 /\ ~ chat_run.overran /\ chat_run.spent = 0
      /\ chat_reply.by = "nobody" /\ chat_reply.parts \cup chat_reply.exhausted = {}
  BY <1>0 DEF RunFits, Chat!NoRun, Chat!NoReply
<1> DEFINE s == chat_ask.text.sections
<1>2. chat_ask.ready \in Nat /\ s \in SUBSET Nat
      /\ chat_ask.text.length \in Int /\ chat_ask.text.turns \in Int /\ PromptLimit \in Nat
  BY <1>0 DEF AskFits, ChatAssumption
<1>3. PICK kept \in Int, cut \in BOOLEAN :
        Chat!Bounded(chat_run) = [chat_run EXCEPT !.cut = cut, !.kept = kept]
  <2> DEFINE c == chat_ask.text.length > PromptLimit
             k == IF chat_ask.text.length > PromptLimit THEN 0
                  ELSE IF chat_ask.text.turns < PromptLimit - chat_ask.text.length
                       THEN chat_ask.text.turns ELSE PromptLimit - chat_ask.text.length
  <2>1. k \in Int /\ c \in BOOLEAN
    BY <1>2
  <2>2. Chat!Bounded(chat_run) = [chat_run EXCEPT !.cut = c, !.kept = k]
    BY DEF Chat!Bounded
  <2> HIDE DEF c, k
  <2>3. QED
    BY <2>1, <2>2
<1> HIDE DEF s
<1>4. \/ /\ chat_ask.ready = 0 /\ chat_run' = [chat_run EXCEPT !.at = "template", !.left = s]
      \/ /\ chat_ask.ready # 0
         /\ chat_run' = [[chat_run EXCEPT !.cut = cut, !.kept = kept]
                           EXCEPT !.at = "ask", !.left = s]
  BY <1>3 DEF Chat!Proceed, s
<1>5. /\ chat_run' \in RunRecord /\ chat_run'.left = s
      /\ chat_run'.tried = 0 /\ chat_run'.spent = 0
      /\ \/ chat_ask.ready = 0 /\ chat_run'.at = "template"
         \/ chat_ask.ready # 0 /\ chat_run'.at = "ask"
  BY <1>1, <1>2, <1>4 DEF RunRecord
<1>6. AskFits' /\ (Chat!IsDraft' <=> s # {})
  BY <1>0 DEF AskFits, Chat!IsDraft, s
<1>7. RunFits'
  <2>1. chat_run'.spent <= chat_run'.tried * CallLimit
    BY <1>5 DEF ChatAssumption
  <2>2. QED
    BY <1>2, <1>5, <2>1 DEF RunFits
<1>8. DraftFits'
  BY <1>0, <1>1, <1>5, <1>6 DEF DraftFits, s
<1>9. Chat!AnswersAreEarned'
  BY <1>5 DEF Chat!AnswersAreEarned
<1>10. QED
  BY <1>6, <1>7, <1>8, <1>9 DEF ChatInv

\* An answer that is not a draft's.
LEMMA AnsweredFits ==
  ASSUME ChatAssumption, ChatInv, UNCHANGED chat_ask,
         chat_run' \in RunRecord, chat_run'.at = "answered", chat_reply' \in ReplyRecord,
         chat_reply'.by \in Chat!Templates \cup {"small talk", "apology", "error", "model"},
         chat_reply'.by = "small talk" => ~ chat_ask.text.substance,
         chat_reply'.by \in Chat!Templates => chat_run'.tried = chat_ask.ready,
         chat_reply'.by = "apology" /\ chat_run'.tried > 0 =>
           chat_run'.overran \/ chat_run'.tried * CallLimit > Deadline
  PROVE  ChatInv'
<1>1. AskFits'
  BY DEF ChatInv, AskFits, Chat!IsDraft
<1>2. RunFits' /\ DraftFits'
  BY DEF RunFits, DraftFits
<1>3. Chat!AnswersAreEarned'
  BY DEF Chat!AnswersAreEarned, Chat!Templates
<1>4. QED
  BY <1>1, <1>2, <1>3 DEF ChatInv

\* The seconds of the providers asked so far, with those of one more.
LEMMA SecondsAdd ==
  ASSUME NEW t \in Nat, NEW c \in Nat, NEW s \in Nat, NEW l \in Nat, s <= t * c, l <= c
  PROVE  s + l <= (t + 1) * c
<1> DEFINE p == t * c
<1>1. p \in Nat /\ (t + 1) * c = p + c
  OBVIOUS
<1>2. s <= p
  OBVIOUS
<1> HIDE DEF p
<1>3. QED
  BY <1>1, <1>2

\* A provider ends a chat, or fails it; the seconds bear the failures out.
LEMMA AskFitsChat ==
  ASSUME ChatAssumption, ChatInv, Chat!AskProvider, ~ Chat!IsDraft
  PROVE  ChatInv'
<1>0. AskFits /\ RunFits /\ DraftFits
  BY DEF ChatInv
<1>1. PICK ending \in Chat!Endings : \E lasts \in Chat!Lasts(ending) :
        LET spent == chat_run.spent + lasts
            asked == [chat_run EXCEPT !.tried = chat_run.tried + 1, !.spent = spent,
                                      !.overran = chat_run.overran \/ lasts > CallLimit] IN
        IF spent > Deadline
        THEN /\ chat_run' = [asked EXCEPT !.at = "answered"]
             /\ chat_reply' = [chat_reply EXCEPT !.by = "apology"]
        ELSE IF Chat!Accepts(ending)
        THEN /\ chat_run' = [asked EXCEPT !.at = "answered"]
             /\ chat_reply' = [chat_reply EXCEPT !.by = IF ending = "nothing" THEN "nobody"
                                                        ELSE "model",
                                                 !.flagged = ending = "short text"]
        ELSE IF Chat!GivesUp(chat_run.tried + 1)
        THEN chat_run' = [asked EXCEPT !.at = "template"] /\ UNCHANGED chat_reply
        ELSE chat_run' = asked /\ UNCHANGED chat_reply
  BY DEF Chat!AskProvider
<1>2. PICK lasts \in Chat!Lasts(ending) :
        LET spent == chat_run.spent + lasts
            asked == [chat_run EXCEPT !.tried = chat_run.tried + 1, !.spent = spent,
                                      !.overran = chat_run.overran \/ lasts > CallLimit] IN
        IF spent > Deadline
        THEN /\ chat_run' = [asked EXCEPT !.at = "answered"]
             /\ chat_reply' = [chat_reply EXCEPT !.by = "apology"]
        ELSE IF Chat!Accepts(ending)
        THEN /\ chat_run' = [asked EXCEPT !.at = "answered"]
             /\ chat_reply' = [chat_reply EXCEPT !.by = IF ending = "nothing" THEN "nobody"
                                                        ELSE "model",
                                                 !.flagged = ending = "short text"]
        ELSE IF Chat!GivesUp(chat_run.tried + 1)
        THEN chat_run' = [asked EXCEPT !.at = "template"] /\ UNCHANGED chat_reply
        ELSE chat_run' = asked /\ UNCHANGED chat_reply
  BY <1>1
<1> DEFINE spent == chat_run.spent + lasts
           tried == chat_run.tried + 1
           overran == chat_run.overran \/ lasts > CallLimit
           asked == [chat_run EXCEPT !.tried = tried, !.spent = spent, !.overran = overran]
<1>3. /\ chat_run \in RunRecord /\ chat_run.at = "ask" /\ chat_run.tried < chat_ask.ready
      /\ chat_run.tried \in Nat /\ chat_run.spent \in Nat /\ chat_ask.ready \in Nat
      /\ chat_reply \in ReplyRecord /\ chat_reply.by = "nobody" /\ UNCHANGED chat_ask
  BY <1>0 DEF Chat!AskProvider, RunFits, AskFits, DraftFits, RunRecord
<1>4. CallLimit \in Nat /\ Deadline \in Nat /\ lasts \in Nat
  BY DEF ChatAssumption, Chat!Lasts
<1>5. overran \in BOOLEAN /\ spent \in Nat /\ tried \in Nat /\ tried <= chat_ask.ready
  BY <1>3, <1>4
<1>6. overran \/ spent <= tried * CallLimit
  <2>1. chat_run.overran \/ chat_run.spent <= chat_run.tried * CallLimit
    BY <1>0, <1>3 DEF RunFits
  <2>2. chat_run.spent <= chat_run.tried * CallLimit /\ lasts <= CallLimit =>
          spent <= tried * CallLimit
    BY <1>3, <1>4, SecondsAdd
  <2>3. lasts > CallLimit \/ lasts <= CallLimit
    BY <1>4
  <2>4. QED
    BY <2>1, <2>2, <2>3
<1>7. IF spent > Deadline
      THEN /\ chat_run' = [asked EXCEPT !.at = "answered"]
           /\ chat_reply' = [chat_reply EXCEPT !.by = "apology"]
      ELSE IF Chat!Accepts(ending)
      THEN /\ chat_run' = [asked EXCEPT !.at = "answered"]
           /\ chat_reply' = [chat_reply EXCEPT !.by = IF ending = "nothing" THEN "nobody"
                                                      ELSE "model",
                                               !.flagged = ending = "short text"]
      ELSE IF Chat!GivesUp(tried)
      THEN chat_run' = [asked EXCEPT !.at = "template"] /\ UNCHANGED chat_reply
      ELSE chat_run' = asked /\ UNCHANGED chat_reply
  BY <1>2
<1>8. tried # chat_ask.ready => tried < chat_ask.ready
  BY <1>3
<1> HIDE DEF spent, tried, overran
<1>9. asked \in RunRecord /\ asked.at = "ask" /\ asked.tried = tried
      /\ asked.overran = overran /\ asked.spent = spent
  BY <1>3, <1>5 DEF RunRecord
<1> HIDE DEF asked
<1>10. AskFits' /\ ~ Chat!IsDraft'
  BY <1>0, <1>3 DEF AskFits, Chat!IsDraft
<1>11. \A at \in {"ask", "template", "answered"} :
         /\ [asked EXCEPT !.at = at] \in RunRecord /\ [asked EXCEPT !.at = at].at = at
         /\ [asked EXCEPT !.at = at].tried = tried /\ [asked EXCEPT !.at = at].overran = overran
  BY <1>9 DEF RunRecord
<1>12. CASE spent > Deadline
  <2>1. overran \/ tried * CallLimit > Deadline
    <3> DEFINE filled == tried * CallLimit
    <3>1. filled \in Nat /\ (overran \/ spent <= filled)
      BY <1>4, <1>5, <1>6
    <3> HIDE DEF filled
    <3>2. overran \/ filled > Deadline
      BY <1>4, <1>5, <1>12, <3>1
    <3>3. QED
      BY <3>2 DEF filled
  <2>2. chat_run' = [asked EXCEPT !.at = "answered"]
        /\ chat_reply' = [chat_reply EXCEPT !.by = "apology"]
    BY <1>7, <1>12
  <2>3. chat_reply' \in ReplyRecord /\ chat_reply'.by = "apology"
    BY <1>3, <2>2 DEF ReplyRecord
  <2>4. QED
    BY <1>3, <1>11, <2>1, <2>2, <2>3, AnsweredFits DEF Chat!Templates
<1>13. CASE ~ (spent > Deadline) /\ Chat!Accepts(ending)
  <2>1. ending # "nothing"
    BY <1>13 DEF Chat!Accepts, Chat!Answers
  <2>2. chat_run' = [asked EXCEPT !.at = "answered"]
        /\ chat_reply' = [chat_reply EXCEPT !.by = "model", !.flagged = ending = "short text"]
    BY <1>7, <1>13, <2>1
  <2>3. chat_reply' \in ReplyRecord /\ chat_reply'.by = "model"
    BY <1>3, <2>2 DEF ReplyRecord
  <2>4. QED
    BY <1>3, <1>11, <2>2, <2>3, AnsweredFits DEF Chat!Templates
<1>14. CASE ~ (spent > Deadline) /\ ~ Chat!Accepts(ending)
  <2>1. UNCHANGED chat_reply
        /\ \/ chat_run' = [asked EXCEPT !.at = "template"] /\ tried = chat_ask.ready
           \/ chat_run' = asked /\ tried # chat_ask.ready
    BY <1>7, <1>14 DEF Chat!GivesUp
  <2>2. /\ chat_run' \in RunRecord /\ chat_run'.tried = tried
        /\ \/ chat_run'.at = "template" /\ tried = chat_ask.ready
           \/ /\ chat_run'.at = "ask" /\ tried # chat_ask.ready
              /\ chat_run'.overran = overran /\ chat_run'.spent = spent
    BY <1>9, <1>11, <2>1
  <2>3. chat_run'.at = "ask" => chat_run'.overran \/ chat_run'.spent <= chat_run'.tried * CallLimit
    BY <1>6, <2>2
  <2>4. RunFits'
    BY <1>3, <1>8, <2>2, <2>3 DEF RunFits
  <2>5. DraftFits'
    BY <1>3, <1>10, <2>1, <2>2 DEF DraftFits
  <2>6. Chat!AnswersAreEarned'
    BY <2>2 DEF Chat!AnswersAreEarned
  <2>7. QED
    BY <1>10, <2>4, <2>5, <2>6 DEF ChatInv
<1>15. QED
  BY <1>12, <1>13, <1>14

\* A provider writes the section in hand of a draft, or fails it.
LEMMA AskFitsDraft ==
  ASSUME ChatAssumption, ChatInv, Chat!AskProvider, Chat!IsDraft
  PROVE  ChatInv'
<1>0. AskFits /\ RunFits /\ DraftFits
  BY DEF ChatInv
<1>1. /\ chat_run \in RunRecord /\ chat_run.at = "ask" /\ chat_run.tried < chat_ask.ready
      /\ chat_run.tried \in Nat /\ chat_run.spent \in Nat /\ chat_ask.ready \in Nat
      /\ UNCHANGED chat_ask
  BY <1>0 DEF Chat!AskProvider, RunFits, AskFits, RunRecord
<1>2. CASE Chat!DraftWith({Chat!Part}, {})
  BY <1>1, <1>2, DraftGoesOn
<1>3. CASE ~ Chat!DraftWith({Chat!Part}, {})
  <2>1. PICK w \in Nat, o \in BOOLEAN :
          LET asked == [chat_run EXCEPT !.tried = chat_run.tried + 1, !.spent = w,
                                        !.overran = o] IN
          \/ /\ Chat!GivesUp(chat_run.tried + 1)
             /\ chat_run' = [asked EXCEPT !.at = "template"] /\ UNCHANGED chat_reply
          \/ /\ ~ Chat!GivesUp(chat_run.tried + 1)
             /\ chat_run' = asked /\ UNCHANGED chat_reply
    <3>1. PICK ending \in Chat!Endings : \E lasts \in Chat!Lasts(ending) :
            LET asked == [chat_run EXCEPT !.tried = chat_run.tried + 1,
                                          !.spent = chat_run.spent + lasts,
                                          !.overran = chat_run.overran \/ lasts > CallLimit] IN
            \/ Chat!DraftWith({Chat!Part}, {})
            \/ /\ Chat!GivesUp(chat_run.tried + 1)
               /\ chat_run' = [asked EXCEPT !.at = "template"] /\ UNCHANGED chat_reply
            \/ /\ ~ Chat!GivesUp(chat_run.tried + 1)
               /\ chat_run' = asked /\ UNCHANGED chat_reply
      BY Zenon DEF Chat!AskProvider
    <3>2. PICK lasts \in Chat!Lasts(ending) :
            LET asked == [chat_run EXCEPT !.tried = chat_run.tried + 1,
                                          !.spent = chat_run.spent + lasts,
                                          !.overran = chat_run.overran \/ lasts > CallLimit] IN
            \/ /\ Chat!GivesUp(chat_run.tried + 1)
               /\ chat_run' = [asked EXCEPT !.at = "template"] /\ UNCHANGED chat_reply
            \/ /\ ~ Chat!GivesUp(chat_run.tried + 1)
               /\ chat_run' = asked /\ UNCHANGED chat_reply
      BY Zenon, <1>3, <3>1
    <3>3. chat_run.spent + lasts \in Nat /\ (chat_run.overran \/ lasts > CallLimit) \in BOOLEAN
      BY <1>1 DEF Chat!Lasts
    <3>4. QED
      BY Zenon, <3>2, <3>3
  <2>2. /\ chat_run' \in RunRecord /\ chat_run'.tried = chat_run.tried + 1
        /\ chat_run'.left = chat_run.left /\ UNCHANGED chat_reply
        /\ \/ chat_run'.at = "template" /\ chat_run.tried + 1 = chat_ask.ready
           \/ chat_run'.at = "ask" /\ chat_run.tried + 1 # chat_ask.ready
    <3> DEFINE asked == [chat_run EXCEPT !.tried = chat_run.tried + 1, !.spent = w,
                                         !.overran = o]
    <3>1. w \in Nat /\ o \in BOOLEAN
      OBVIOUS
    <3>2. /\ asked \in RunRecord /\ asked.tried = chat_run.tried + 1
          /\ asked.left = chat_run.left /\ asked.at = "ask"
      <4>1. \A k \in Nat, x \in RunRecord :
              LET y == [x EXCEPT !.tried = k, !.spent = w, !.overran = o] IN
              /\ y \in RunRecord /\ y.tried = k /\ y.left = x.left /\ y.at = x.at
        BY <3>1 DEF RunRecord
      <4>2. chat_run.tried + 1 \in Nat /\ chat_run \in RunRecord /\ chat_run.at = "ask"
        BY <1>1
      <4>3. QED
        BY <4>1, <4>2
    <3>3. \/ /\ chat_run.tried + 1 = chat_ask.ready
             /\ chat_run' = [asked EXCEPT !.at = "template"] /\ UNCHANGED chat_reply
          \/ /\ chat_run.tried + 1 # chat_ask.ready
             /\ chat_run' = asked /\ UNCHANGED chat_reply
      BY Zenon, <2>1 DEF Chat!GivesUp
    <3> HIDE DEF asked
    <3>4. /\ [asked EXCEPT !.at = "template"] \in RunRecord
          /\ [asked EXCEPT !.at = "template"].at = "template"
          /\ [asked EXCEPT !.at = "template"].tried = asked.tried
          /\ [asked EXCEPT !.at = "template"].left = asked.left
      BY <3>2 DEF RunRecord
    <3>5. QED
      BY <3>2, <3>3, <3>4
  <2>3. AskFits' /\ Chat!IsDraft'
    BY <1>0, <1>1 DEF AskFits, Chat!IsDraft
  <2>4. RunFits'
    BY <1>1, <2>2, <2>3 DEF RunFits
  <2>5. DraftFits'
    BY <1>0, <1>1, <2>2 DEF DraftFits, Chat!IsDraft
  <2>6. Chat!AnswersAreEarned'
    BY <2>2 DEF Chat!AnswersAreEarned
  <2>7. QED
    BY <2>3, <2>4, <2>5, <2>6 DEF ChatInv
<1>4. QED
  BY <1>2, <1>3

LEMMA ChatInvInitial ==
  ASSUME ChatAssumption, Chat!Init
  PROVE  ChatInv
<1>1. AskFits
  BY AsksFit DEF Chat!Init
<1>2. /\ chat_run = Chat!NoRun /\ chat_reply = Chat!NoReply /\ chat_run.at = "begin"
      /\ chat_run \in RunRecord /\ chat_reply \in ReplyRecord /\ chat_reply.by = "nobody"
  BY DEF Chat!Init, Chat!NoRun, Chat!NoReply, RunRecord, ReplyRecord
<1>3. QED
  BY <1>1, <1>2 DEF ChatInv, RunFits, DraftFits, Chat!AnswersAreEarned

LEMMA ChatInvPreserved ==
  ASSUME ChatAssumption, ChatInv, [Chat!Next]_(Chat!vars)
  PROVE  ChatInv'
<1>0. AskFits /\ RunFits /\ DraftFits
  BY DEF ChatInv
<1> DEFINE Fits(by) == /\ by = "small talk" => ~ chat_ask.text.substance
                       /\ by \in Chat!Templates => chat_run.tried = chat_ask.ready
                       /\ by = "apology" => chat_run.at = "begin"
           Stocks == Chat!Templates \cup {"small talk", "apology", "error"}
<1>1. ASSUME UNCHANGED chat_ask, chat_run.at \in {"begin", "template"}
      PROVE  \A by \in Stocks : Fits(by) /\ Chat!Answer(by) => ChatInv'
  <2>1. TAKE by \in Stocks
  <2>2. HAVE Fits(by) /\ Chat!Answer(by)
  <2>3. chat_run \in RunRecord /\ chat_reply \in ReplyRecord
        /\ (chat_run.at = "begin" => chat_run.tried = 0)
    <3>1. chat_run \in RunRecord /\ chat_reply \in ReplyRecord
          /\ (chat_run.at = "begin" => chat_run = Chat!NoRun)
      BY Zenon, <1>0 DEF RunFits, DraftFits
    <3>2. Chat!NoRun.tried = 0
      BY DEF Chat!NoRun
    <3>3. QED
      BY Zenon, <3>1, <3>2
  <2>4. /\ chat_run' \in RunRecord /\ chat_run'.at = "answered" /\ chat_run'.tried = chat_run.tried
        /\ chat_reply' \in ReplyRecord /\ chat_reply'.by = by
    BY <2>2, <2>3 DEF Chat!Answer, RunRecord, ReplyRecord
  <2>5. chat_reply'.by \in Chat!Templates \cup {"small talk", "apology", "error", "model"}
    BY <2>4
  <2>6. chat_reply'.by = "small talk" => ~ chat_ask.text.substance
    BY <2>2, <2>4
  <2>7. chat_reply'.by \in Chat!Templates => chat_run'.tried = chat_ask.ready
    BY <2>2, <2>4
  <2>8. ~ (chat_reply'.by = "apology" /\ chat_run'.tried > 0)
    <3>1. by = "apology" => chat_run.tried = 0
      BY <2>2, <2>3
    <3>2. SUFFICES ASSUME chat_reply'.by = "apology", chat_run'.tried > 0 PROVE FALSE
      OBVIOUS
    <3>3. chat_run'.tried = 0 /\ ~ (0 > 0)
      BY <2>4, <3>1, <3>2
    <3>4. QED
      BY Zenon, <3>2, <3>3
  <2>9. QED
    BY <1>1, <2>4, <2>5, <2>6, <2>7, <2>8, AnsweredFits
<1> HIDE DEF Fits, Stocks
<1>2. CASE Chat!BeginCopilot
  <2>1. chat_run.at = "begin" /\ ~ Chat!IsDraft /\ UNCHANGED chat_ask
    BY <1>0, <1>2 DEF Chat!BeginCopilot, AskFits
  <2>2. CASE Chat!SmallTalk /\ Chat!Answer("small talk")
    <3>1. ~ chat_ask.text.substance
      BY <2>2 DEF Chat!SmallTalk
    <3>2. "small talk" \notin Chat!Templates
      BY DEF Chat!Templates
    <3>3. "small talk" \in Stocks /\ Fits("small talk")
      BY <3>1, <3>2 DEF Stocks, Fits
    <3>4. QED
      BY <1>1, <2>1, <2>2, <3>3
  <2>3. CASE chat_run' = Chat!Proceed({}) /\ UNCHANGED chat_reply
    <3>1. chat_ask.text.sections = {}
      BY <2>1 DEF Chat!IsDraft
    <3>2. chat_run' = Chat!Proceed(chat_ask.text.sections)
      BY <2>3, <3>1
    <3>3. UNCHANGED <<chat_ask, chat_reply>>
      BY <2>1, <2>3
    <3>4. QED
      BY <2>1, <3>2, <3>3, ProceedFits
  <2>4. CASE \E by \in {"apology", "error"} : Chat!Answer(by)
    <3>1. PICK by \in {"apology", "error"} : Chat!Answer(by)
      BY <2>4
    <3>2. by \notin Chat!Templates
      BY DEF Chat!Templates
    <3>3. by \in Stocks /\ Fits(by)
      BY <2>1, <3>2 DEF Stocks, Fits
    <3>4. QED
      BY <1>1, <2>1, <3>1, <3>3
  <2>5. QED
    BY <1>2, <2>2, <2>3, <2>4 DEF Chat!BeginCopilot
<1>3. CASE Chat!BeginSupport
  <2>1. chat_run.at = "begin" /\ ~ Chat!IsDraft /\ UNCHANGED <<chat_ask, chat_reply>>
        /\ chat_run' = Chat!Proceed({})
    BY <1>0, <1>3 DEF Chat!BeginSupport, AskFits
  <2>2. chat_ask.text.sections = {}
    BY <2>1 DEF Chat!IsDraft
  <2>3. chat_run' = Chat!Proceed(chat_ask.text.sections)
    BY <2>1, <2>2
  <2>4. QED
    BY <2>1, <2>3, ProceedFits
<1>4. CASE Chat!BeginDraft
  BY <1>4, ProceedFits DEF Chat!BeginDraft
<1>5. CASE Chat!AskProvider
  BY <1>5, AskFitsChat, AskFitsDraft
<1>6. CASE Chat!FallBack
  <2>1. chat_run.at = "template" /\ chat_run.tried = chat_ask.ready /\ UNCHANGED chat_ask
    BY <1>0, <1>6 DEF Chat!FallBack, RunFits
  <2>2. CASE Chat!IsDraft
    <3>1. Chat!DraftWith({}, {Chat!Part})
      BY <1>6, <2>1, <2>2 DEF Chat!FallBack
    <3>2. QED
      BY <2>1, <2>2, <3>1, DraftGoesOn
  <2>3. CASE ~ Chat!IsDraft
    <3>1. Chat!Template \in Chat!Templates
      BY DEF Chat!Template, Chat!Templates
    <3>2. "contact address" \in Chat!Templates
      BY DEF Chat!Templates
    <3>3. PICK by \in Chat!Templates : Chat!Answer(by)
      BY <1>6, <2>3, <3>1, <3>2 DEF Chat!FallBack
    <3>4. by \notin {"small talk", "apology"}
      BY DEF Chat!Templates
    <3>5. by \in Stocks /\ Fits(by)
      BY <2>1, <3>4 DEF Stocks, Fits
    <3>6. QED
      BY <1>1, <2>1, <3>3, <3>5
  <2>4. QED
    BY <2>2, <2>3
<1>7. CASE UNCHANGED Chat!vars
  <2>1. UNCHANGED <<chat_ask, chat_run, chat_reply>>
    BY <1>7 DEF Chat!vars
  <2>2. QED
    BY <2>1 DEF ChatInv, AskFits, RunFits, DraftFits, Chat!AnswersAreEarned, Chat!IsDraft
<1>8. QED
  BY <1>2, <1>3, <1>4, <1>5, <1>6, <1>7 DEF Chat!Next

\* Whatever the providers do and however long they take, a substitute answers
\* only where each of them had been asked, and the deadline's apology only where
\* a call overran its limit or the limits of those asked fill the deadline.
THEOREM AnswersHaveTheirReason ==
  ASSUME ChatAssumption
  PROVE  Chat!Spec => []Chat!AnswersAreEarned
<1>1. Chat!Init => ChatInv
  BY ChatInvInitial
<1>2. ChatInv /\ [Chat!Next]_(Chat!vars) => ChatInv'
  BY ChatInvPreserved
<1>3. ChatInv => Chat!AnswersAreEarned
  BY DEF ChatInv
<1>4. QED
  BY <1>1, <1>2, <1>3, PTL DEF Chat!Spec

\* No more providers are asked than there are, and no section is made up.
ChatType ==
  /\ chat_ask \in Chat!Requests /\ chat_run.tried <= chat_ask.ready
  /\ chat_run.left \subseteq chat_ask.text.sections
  /\ chat_reply.parts \subseteq chat_ask.text.sections

LEMMA ChatTypePreserved ==
  ASSUME ChatAssumption, ChatInv, ChatType, [Chat!Next]_(Chat!vars)
  PROVE  ChatType'
<1>0. /\ chat_run \in RunRecord /\ chat_reply \in ReplyRecord
      /\ chat_ask.ready \in Nat /\ chat_ask.text.sections \in SUBSET Nat
      /\ chat_run.tried \in Nat
  BY DEF ChatInv, AskFits, RunFits, DraftFits, RunRecord
<1>1. ASSUME UNCHANGED chat_ask, chat_run'.tried <= chat_ask.ready,
             chat_run'.left \subseteq chat_ask.text.sections,
             chat_reply'.parts \subseteq chat_ask.text.sections
      PROVE  ChatType'
  BY <1>1 DEF ChatType
<1>2. ASSUME NEW by, Chat!Answer(by), UNCHANGED chat_ask PROVE ChatType'
  <2>1. /\ chat_run'.tried = chat_run.tried /\ chat_run'.left = chat_run.left
        /\ chat_reply'.parts = chat_reply.parts
    BY <1>0, <1>2 DEF Chat!Answer, RunRecord, ReplyRecord
  <2>2. QED
    BY <1>1, <1>2, <2>1 DEF ChatType
<1>3. ASSUME NEW left \in SUBSET chat_ask.text.sections, chat_run' = Chat!Proceed(left),
             UNCHANGED <<chat_ask, chat_reply>>
      PROVE  ChatType'
  <2>1. chat_run'.tried = chat_run.tried /\ chat_run'.left = left
    BY <1>0, <1>3 DEF Chat!Proceed, Chat!Bounded, RunRecord
  <2>2. QED
    BY <1>1, <1>3, <2>1 DEF ChatType
<1>4. ASSUME NEW parts \in SUBSET {Chat!Part}, NEW exhausted, Chat!DraftWith(parts, exhausted),
             Chat!IsDraft, chat_run.at \in {"ask", "template"}, UNCHANGED chat_ask
      PROVE  ChatType'
  <2>1. chat_run.left # {} /\ chat_run.left \subseteq chat_ask.text.sections
    BY <1>4 DEF ChatInv, DraftFits
  <2>2. Chat!Part \in chat_ask.text.sections
    BY <1>0, <2>1, PartIsLeft
  <2>3. chat_reply'.parts = chat_reply.parts \cup parts
    BY <1>0, <1>4 DEF Chat!DraftWith, ReplyRecord
  <2> DEFINE r == [chat_run EXCEPT !.left = chat_run.left \ {Chat!Part}]
  <2>4. chat_run' = Chat!NextPart(r)
    BY <1>4 DEF Chat!DraftWith
  <2>5. /\ r.tried = chat_run.tried /\ r.left = chat_run.left \ {Chat!Part}
        /\ r \in RunRecord
    BY <1>0, <2>1 DEF RunRecord
  <2> HIDE DEF r
  <2>6. chat_run'.tried \in {0, chat_run.tried} /\ chat_run'.left = r.left
    BY <2>4, <2>5 DEF Chat!NextPart, RunRecord
  <2>7. chat_run'.tried <= chat_ask.ready
    BY <1>0, <2>6 DEF ChatType
  <2>8. QED
    BY <1>1, <1>4, <2>1, <2>2, <2>3, <2>5, <2>6, <2>7 DEF ChatType
<1>5. CASE Chat!BeginCopilot
  BY <1>2, <1>3, <1>5 DEF Chat!BeginCopilot
<1>6. CASE Chat!BeginSupport
  BY <1>3, <1>6 DEF Chat!BeginSupport
<1>7. CASE Chat!BeginDraft
  BY <1>3, <1>7 DEF Chat!BeginDraft
<1>8. CASE Chat!AskProvider
  <2>1. chat_run.at = "ask" /\ chat_run.tried < chat_ask.ready /\ UNCHANGED chat_ask
    BY <1>8 DEF Chat!AskProvider
  <2>2. CASE Chat!IsDraft /\ Chat!DraftWith({Chat!Part}, {})
    BY <1>4, <2>1, <2>2
  <2>3. CASE ~ (Chat!IsDraft /\ Chat!DraftWith({Chat!Part}, {}))
    <3>1. /\ chat_run'.tried = chat_run.tried + 1 /\ chat_run'.left = chat_run.left
          /\ chat_reply'.parts = chat_reply.parts
      BY <1>0, <1>8, <2>3 DEF Chat!AskProvider, RunRecord, ReplyRecord
    <3>2. QED
      BY <1>0, <1>1, <2>1, <3>1 DEF ChatType
  <2>4. QED
    BY <2>2, <2>3
<1>9. CASE Chat!FallBack
  BY <1>2, <1>4, <1>9 DEF Chat!FallBack
<1>10. CASE UNCHANGED Chat!vars
  BY <1>10 DEF Chat!vars, ChatType
<1>11. QED
  BY <1>5, <1>6, <1>7, <1>8, <1>9, <1>10 DEF Chat!Next

\* No provider is asked twice for one part, and no section is answered that was
\* not asked for.
THEOREM ChatTypes ==
  ASSUME ChatAssumption
  PROVE  Chat!Spec => []Chat!TypeOK
<1>1. Chat!Init => ChatInv /\ ChatType
  <2> SUFFICES ASSUME Chat!Init PROVE ChatInv /\ ChatType
    OBVIOUS
  <2>1. ChatInv
    BY ChatInvInitial
  <2>2. chat_ask.ready \in Nat
    BY <2>1 DEF ChatInv, AskFits
  <2>3. QED
    BY <2>1, <2>2 DEF Chat!Init, Chat!NoRun, Chat!NoReply, ChatType
<1>2. ChatInv /\ ChatType /\ [Chat!Next]_(Chat!vars) => ChatInv' /\ ChatType'
  BY ChatInvPreserved, ChatTypePreserved
<1>3. ChatInv /\ ChatType => Chat!TypeOK
  <2> SUFFICES ASSUME ChatInv, ChatType PROVE Chat!TypeOK
    OBVIOUS
  <2>1. chat_run \in RunRecord /\ chat_ask.ready \in Nat
    BY DEF ChatInv, AskFits, RunFits
  <2>2. chat_run.at \in {"begin", "ask", "template", "answered"} /\ chat_run.tried \in Nat
    BY <2>1 DEF RunRecord
  <2>3. QED
    BY <2>1, <2>2 DEF ChatType, Chat!TypeOK
<1>4. QED
  BY <1>1, <1>2, <1>3, PTL DEF Chat!Spec

(***************************************************************************)
(* The walk over a listing.                                                *)
(***************************************************************************)
\* A page has rows, and a walk pages.
ListingAssumption ==
  /\ PageSize \in Nat \ {0} /\ MaxPages \in Nat \ {0}
  /\ MaxItems \in Nat /\ MaxShifts \in Nat

FetchRecord ==
  [at: {"idle", "prime", "page", "answered", "raised"}, rule: Listing!Rules, page: Nat,
   got: SUBSET Listing!Items, noted: SUBSET Listing!Items, steady: SUBSET Listing!Items,
   causes: SUBSET Listing!Causes]

CacheRecord ==
  [rows: SUBSET Listing!Items, steady: SUBSET Listing!Items, causes: SUBSET Listing!Causes]

\* Every announcement is on the listing once.
ListingFits ==
  /\ list_born \in 0..MaxItems /\ list_shifts \in 0..MaxShifts
  /\ list_list \in Seq(1..list_born)
  /\ \A m, n \in 1..Len(list_list) : list_list[m] = list_list[n] => m = n

FetchFits ==
  /\ list_fetch \in FetchRecord /\ list_fetch.page < list_fetch.rule.pages
  /\ list_cache \in CacheRecord

\* The fetch has still to come to i.
Ahead(i, page) ==
  /\ i \in Listing!Listed
  /\ list_fetch.rule.cut = "page" =>
       \E n \in 1..Len(list_list) : list_list[n] = i /\ n > page * PageSize
  /\ list_fetch.rule.cut = "type" => page = 0 \/ (page = 1 /\ i \notin Decisions)

Wanted == list_fetch.steady \ (list_fetch.rule.drops \cup Malformed)

\* Until something goes wrong, what is wanted was got or is still ahead.
WalkOn ==
  list_fetch.at \in {"prime", "page"} /\ list_fetch.causes = {} =>
    \A i \in Wanted : i \in list_fetch.got \/ Ahead(i, list_fetch.page)

\* The same of the fetch that is cached, and all of it was got.
CacheHolds ==
  list_cache.causes = {} => list_cache.steady \ (OffTopic \cup Malformed) \subseteq list_cache.rows

ListingInv ==
  ListingFits /\ FetchFits /\ WalkOn /\ CacheHolds /\ Listing!NothingSkippedSilently

\* What the proofs use of the rules.
RuleFits(rule) ==
  /\ rule.pages \in Nat \ {0}
  /\ rule.cut \in {"page", "whole", "kept", "type"}
  /\ rule.cut \in {"whole", "kept"} => rule.pages = 1
  /\ rule.cut = "type" => rule.last = "never" /\ rule.pages = 2
  /\ rule.last \in {"short", "nothing", "never"}
  /\ rule.cached \in BOOLEAN /\ rule.notes \in BOOLEAN
  /\ rule.cached => rule.drops = OffTopic /\ rule.last # "nothing"

LEMMA RulesFit ==
  ASSUME ListingAssumption
  PROVE  \A rule \in Listing!Rules : RuleFits(rule)
<1>1. \A primes, cut, unread, last, pages :
        LET r == Listing!Rule(primes, pages, cut, unread, last) IN
        /\ r.pages = pages /\ r.cut = cut /\ r.last = last /\ r.cached = FALSE
        /\ r.notes = FALSE
        /\ \A d, b, n :
             LET q == [r EXCEPT !.drops = d, !.broken = b, !.notes = n] IN
             /\ q.pages = pages /\ q.cut = cut /\ q.last = last /\ q.cached = FALSE
             /\ q.notes = n
  BY DEF Listing!Rule
<1>2. MaxPages \in Nat \ {0} /\ 1 \in Nat \ {0} /\ 2 \in Nat \ {0}
  BY DEF ListingAssumption
<1>3. RuleFits(Listing!DirectPurchases) /\ RuleFits(Listing!ContractNotices)
  BY <1>2 DEF RuleFits, Listing!DirectPurchases, Listing!ContractNotices, Listing!Rule
<1>4. RuleFits(Listing!Consultations)
  BY <1>2 DEF RuleFits, Listing!Consultations, Listing!Rule
<1>5. RuleFits(Listing!Ted)
  BY <1>2 DEF RuleFits, Listing!Ted, Listing!Rule
<1>6. RuleFits(Listing!Register)
  BY <1>2 DEF RuleFits, Listing!Register, Listing!Rule
<1>7. RuleFits(Listing!MinistryOfHealth) /\ RuleFits(Listing!Oradea)
  BY <1>2 DEF RuleFits, Listing!MinistryOfHealth, Listing!Oradea, Listing!Rule
<1>8. RuleFits(Listing!Timisoara)
  BY <1>2 DEF RuleFits, Listing!Timisoara, Listing!Rule
<1>9. RuleFits(Listing!FundingCalls)
  BY <1>2 DEF RuleFits, Listing!FundingCalls, Listing!Rule
<1>10. RuleFits(Listing!Portal)
  BY <1>2 DEF RuleFits, Listing!Portal, Listing!Rule
<1>11. RuleFits(Listing!Brasov) /\ RuleFits(Listing!Craiova)
  BY <1>10 DEF Listing!Brasov, Listing!Craiova
<1>12. RuleFits(Listing!Galati)
  BY <1>2 DEF RuleFits, Listing!Galati, Listing!Portal, Listing!Rule
<1>13. RuleFits(Listing!Ploiesti)
  BY <1>2 DEF RuleFits, Listing!Ploiesti, Listing!Rule
<1>14. RuleFits(Listing!Bucharest)
  BY <1>2 DEF RuleFits, Listing!Bucharest, Listing!Rule
<1>15. RuleFits(Listing!Constanta)
  BY <1>2 DEF RuleFits, Listing!Constanta, Listing!Rule
<1>16. RuleFits(Listing!ClujPlan)
  BY <1>2 DEF RuleFits, Listing!ClujPlan, Listing!Rule
<1>17. RuleFits(Listing!IasiRegister)
  BY <1>2 DEF RuleFits, Listing!IasiRegister, Listing!ClujPlan, Listing!Rule
<1>18. RuleFits(Listing!BorderPolice)
  BY <1>2 DEF RuleFits, Listing!BorderPolice, Listing!Rule
<1>19. QED
  BY <1>3, <1>4, <1>5, <1>6, <1>7, <1>8, <1>9, <1>11, <1>12, <1>13, <1>14, <1>15, <1>16,
     <1>17, <1>18 DEF Listing!Rules

\* How the facts about a fetch follow from its being one.
LEMMA FetchIs ==
  ASSUME ListingAssumption, ListingFits, FetchFits
  PROVE  /\ RuleFits(list_fetch.rule) /\ list_fetch.rule \in Listing!Rules
         /\ list_fetch.page \in Nat /\ list_fetch.page < list_fetch.rule.pages
         /\ list_fetch.steady \in SUBSET Listing!Items /\ list_fetch.got \in SUBSET Listing!Items
         /\ list_fetch.noted \in SUBSET Listing!Items
         /\ list_fetch.causes \in SUBSET Listing!Causes
         /\ Listing!Listed \in SUBSET Listing!Items /\ Listing!Items \subseteq Nat
<1>1. /\ list_fetch.rule \in Listing!Rules /\ list_fetch.page \in Nat
      /\ list_fetch.page < list_fetch.rule.pages
      /\ list_fetch.steady \in SUBSET Listing!Items /\ list_fetch.got \in SUBSET Listing!Items
      /\ list_fetch.noted \in SUBSET Listing!Items
      /\ list_fetch.causes \in SUBSET Listing!Causes
  BY DEF FetchFits, FetchRecord
<1>2. Listing!Listed \in SUBSET Listing!Items /\ Listing!Items \subseteq Nat
  BY DEF ListingFits, Listing!Listed, Listing!Items, ListingAssumption
<1>3. QED
  BY <1>1, <1>2, RulesFit

LEMMA Pages ==
  ASSUME ListingAssumption
  PROVE  \A p \in Nat : /\ p * PageSize \in Nat
                        /\ (p + 1) * PageSize = p * PageSize + PageSize
                        /\ PageSize \in Nat /\ PageSize > 0
BY DEF ListingAssumption

\* An announcement that is ahead is on the page, or ahead of the next one.
LEMMA RowsReach ==
  ASSUME ListingAssumption, ListingFits, FetchFits, NEW i,
         Ahead(i, list_fetch.page), i \notin list_fetch.rule.drops \cup Malformed,
         list_fetch.rule.cut = "kept" => ~ Listing!Beyond(list_fetch.rule),
         ~ Listing!Clipped(list_fetch.rule, list_fetch.page)
  PROVE  \/ i \in Listing!Rows(list_fetch.rule, list_fetch.page)
         \/ /\ list_fetch.rule.cut \in {"page", "type"}
            /\ Ahead(i, list_fetch.page + 1)
<1> DEFINE rule == list_fetch.rule
           page == list_fetch.page
<1>1. RuleFits(rule) /\ page \in Nat /\ i \in Nat /\ rule.pages \in Nat \ {0}
  BY FetchIs DEF Ahead, RuleFits
<1>2. CASE rule.cut = "page"
  <2>1. PICK n \in 1..Len(list_list) : list_list[n] = i /\ n > page * PageSize
    BY <1>2 DEF Ahead
  <2>2. CASE n > (page + 1) * PageSize
    BY <1>1, <1>2, <2>1, <2>2 DEF Ahead
  <2>3. CASE ~ (n > (page + 1) * PageSize)
    <3>1. n \in Listing!PageStart(page)..((page + 1) * PageSize)
      <4> DEFINE before == page * PageSize
                 upto == (page + 1) * PageSize
      <4>1. before \in Nat /\ upto \in Nat /\ n \in Nat
        <5>1. before \in Nat /\ upto = before + PageSize /\ PageSize \in Nat
          BY <1>1, Pages
        <5>2. n \in Nat
          BY <2>1
        <5> HIDE DEF before, upto
        <5>3. QED
          BY <5>1, <5>2
      <4>2. n > before /\ ~ (n > upto)
        BY <2>1, <2>3
      <4> HIDE DEF before, upto
      <4>3. n \in (before + 1)..upto
        BY <4>1, <4>2
      <4>4. QED
        BY <4>3 DEF Listing!PageStart, before, upto
    <3>2. QED
      BY <1>2, <2>1, <3>1 DEF Listing!Rows
  <2>4. QED
    BY <2>2, <2>3
<1>3. CASE rule.cut = "type"
  <2>1. /\ i \in Listing!Listed /\ i \in Listing!Items
        /\ page = 0 \/ (page = 1 /\ i \notin Decisions)
    BY <1>3, FetchIs DEF Ahead
  <2>2. Listing!Rows(rule, page) = Listing!Listed \cap Listing!PostType(page)
    BY <1>3 DEF Listing!Clipped
  <2>3. CASE i \in Listing!PostType(page)
    BY <2>1, <2>2, <2>3
  <2>4. CASE i \notin Listing!PostType(page)
    <3>1. page = 0 /\ i \notin Decisions
      BY <2>1, <2>4 DEF Listing!PostType
    <3>2. page + 1 = 1
      BY <3>1
    <3>3. QED
      BY <1>3, <2>1, <3>1, <3>2 DEF Ahead
  <2>5. QED
    BY <2>3, <2>4
<1>4. CASE rule.cut = "whole"
  BY <1>4 DEF Ahead, Listing!Rows
<1>5. CASE rule.cut = "kept"
  <2>1. i \in Listing!Listed \cap Listing!Proper(rule)
    BY FetchIs DEF Ahead, Listing!Proper
  <2>2. Listing!FirstOf(Listing!Proper(rule)) = Listing!Listed \cap Listing!Proper(rule)
    BY <1>5 DEF Listing!Beyond
  <2>3. QED
    BY <1>5, <2>1, <2>2 DEF Listing!Rows
<1>6. QED
  BY <1>1, <1>2, <1>3, <1>4, <1>5 DEF RuleFits

\* A page before the last announcement is full.
LEMMA PageIsFull ==
  ASSUME ListingAssumption, ListingFits, NEW rule, rule.cut = "page", NEW page \in Nat,
         Len(list_list) >= (page + 1) * PageSize
  PROVE  Cardinality(Listing!Rows(rule, page)) = PageSize /\ Listing!Rows(rule, page) # {}
<1> DEFINE rows == Listing!Rows(rule, page)
           at == [k \in 1..PageSize |-> list_list[page * PageSize + k]]
<1>1. /\ page * PageSize \in Nat /\ (page + 1) * PageSize = page * PageSize + PageSize
      /\ PageSize \in Nat /\ PageSize > 0 /\ Len(list_list) \in Nat
  <2>1. Len(list_list) \in Nat
    BY DEF ListingFits
  <2>2. QED
    BY <2>1, Pages
<1>2. rows = {list_list[n] : n \in (page * PageSize + 1)..(page * PageSize + PageSize)}
  <2>1. rows = {list_list[n] : n \in {m \in 1..Len(list_list) :
                                  m \in (page * PageSize + 1)..((page + 1) * PageSize)}}
    BY DEF Listing!Rows, Listing!PageStart
  <2>2. {m \in 1..Len(list_list) : m \in (page * PageSize + 1)..((page + 1) * PageSize)}
        = (page * PageSize + 1)..(page * PageSize + PageSize)
    BY <1>1
  <2>3. QED
    BY <2>1, <2>2
<1> HIDE DEF rows
<1>3. at \in [1..PageSize -> rows]
  <2>1. \A k \in 1..PageSize :
          page * PageSize + k \in (page * PageSize + 1)..(page * PageSize + PageSize)
    BY <1>1
  <2>2. QED
    BY <1>2, <2>1
<1>4. \A y \in rows : \E k \in 1..PageSize : at[k] = y
  <2>1. TAKE y \in rows
  <2>2. PICK n \in (page * PageSize + 1)..(page * PageSize + PageSize) : y = list_list[n]
    BY <1>2
  <2>3. n - page * PageSize \in 1..PageSize /\ page * PageSize + (n - page * PageSize) = n
    BY <1>1, <2>2
  <2>4. QED
    BY <2>2, <2>3
<1>5. \A j, k \in 1..PageSize : at[j] = at[k] => j = k
  <2>1. TAKE j, k \in 1..PageSize
  <2>2. HAVE at[j] = at[k]
  <2>3. /\ page * PageSize + j \in 1..Len(list_list) /\ page * PageSize + k \in 1..Len(list_list)
    BY <1>1
  <2>4. page * PageSize + j = page * PageSize + k
    BY <2>2, <2>3 DEF ListingFits
  <2>5. QED
    BY <1>1, <2>4
<1> HIDE DEF at
<1>6. at \in Bijection(1..PageSize, rows)
  <2>1. DOMAIN at = 1..PageSize
    BY <1>3
  <2>2. IsInjective(at)
    BY <1>5, <2>1 DEF IsInjective
  <2>3. QED
    BY Zenon, <1>3, <1>4, <2>2 DEF Bijection, Injection, Surjection
<1>7. ExistsBijection(1..PageSize, rows)
  BY <1>6 DEF ExistsBijection
<1>8. Cardinality(rows) = PageSize
  BY <1>1, <1>7, FS_CountingElements
<1>9. rows # {}
  BY <1>1, <1>3
<1>10. QED
  BY <1>8, <1>9 DEF rows

LEMMA ListingCounts ==
  \A S : Listing!Cardinality(S) = Cardinality(S)
BY Zenon DEF Listing!Cardinality, Cardinality

\* A walk is not over while something is ahead of the next page.
LEMMA WalkIsNotOver ==
  ASSUME ListingAssumption, ListingFits, FetchFits, NEW i,
         list_fetch.rule.cut \in {"page", "type"}, Ahead(i, list_fetch.page + 1),
         ~ Listing!Beyond(list_fetch.rule),
         NEW rows, rows = Listing!Rows(list_fetch.rule, list_fetch.page),
         ~ (/\ rows # {} /\ list_fetch.rule.last = "nothing"
            /\ Listing!Signals(list_fetch.rule, rows, {}) \subseteq list_fetch.got)
  PROVE  ~ Listing!Over(list_fetch, rows)
<1> DEFINE rule == list_fetch.rule
           page == list_fetch.page
<1>1. RuleFits(rule) /\ page \in Nat /\ page < rule.pages /\ i \in Nat
      /\ rule.pages \in Nat \ {0}
  BY FetchIs DEF Ahead, RuleFits
<1>2. CASE rule.cut = "type"
  <2>1. (page + 1 = 0 \/ page + 1 = 1) /\ rule.pages = 2
    BY <1>1, <1>2 DEF Ahead, RuleFits
  <2>2. page + 1 # rule.pages
    BY <1>1, <2>1
  <2>3. rule.last = "never"
    BY <1>1, <1>2 DEF RuleFits
  <2>4. QED
    BY <2>2, <2>3 DEF Listing!Over
<1>3. CASE rule.cut = "page"
  <2>1. PICK n \in 1..Len(list_list) : n > (page + 1) * PageSize
    BY <1>3 DEF Ahead
  <2>2. Len(list_list) \in Nat /\ (page + 1) * PageSize \in Nat
    <3>1. list_list \in Seq(1..list_born)
      BY DEF ListingFits
    <3>2. /\ page * PageSize \in Nat /\ PageSize \in Nat
          /\ (page + 1) * PageSize = page * PageSize + PageSize
      BY <1>1, Pages
    <3>3. Len(list_list) \in Nat
      BY <3>1
    <3>4. (page + 1) * PageSize \in Nat
      <4>1. page * PageSize + PageSize \in Nat
        BY <3>2
      <4>2. QED
        BY <3>2, <4>1
    <3>5. QED
      BY <3>3, <3>4
  <2>3. Len(list_list) > (page + 1) * PageSize
    BY <2>1, <2>2
  <2>4. ~ (Len(list_list) > rule.pages * PageSize)
    BY <1>3 DEF Listing!Beyond
  <2>5. page + 1 # rule.pages
    BY <2>3, <2>4
  <2>6. Cardinality(rows) = PageSize /\ rows # {}
    BY <1>1, <1>3, <2>2, <2>3, PageIsFull
  <2>7. ~ Listing!Short(rows)
    BY <2>6, ListingCounts DEF Listing!Short, ListingAssumption
  <2>8. QED
    BY <2>5, <2>6, <2>7 DEF Listing!Over
<1>4. QED
  BY <1>2, <1>3

\* How an answer looks.
LEMMA EndWalkIs ==
  ASSUME NEW f \in FetchRecord, RuleFits(f.rule), Listing!EndWalk(f),
         f.rule.cached => list_cache \in CacheRecord
  PROVE  /\ list_fetch' \in FetchRecord /\ list_fetch'.at = "answered"
         /\ list_fetch'.rule = f.rule /\ list_fetch'.page = f.page
         /\ list_fetch'.steady = f.steady
         /\ list_fetch'.causes = {} => f.causes = {} /\ ~ Listing!Beyond(f.rule)
         /\ \/ list_fetch'.got = f.got /\ UNCHANGED list_cache
            \/ /\ f.rule.cached /\ list_fetch'.got = f.got \ (f.rule.drops \cup Malformed)
               /\ list_cache' \in CacheRecord
               /\ list_cache'.rows = f.got /\ list_cache'.steady = f.steady
               /\ list_cache'.causes = list_fetch'.causes
<1> DEFINE beyond == IF Listing!Beyond(f.rule) THEN {"window"} ELSE {}
           causes == f.causes \cup beyond
<1>1. /\ f.causes \in SUBSET Listing!Causes /\ f.got \in SUBSET Listing!Items
      /\ f.steady \in SUBSET Listing!Items
  BY DEF FetchRecord
<1>2. beyond \in SUBSET Listing!Causes /\ causes \in SUBSET Listing!Causes
      /\ (causes = {} => f.causes = {} /\ ~ Listing!Beyond(f.rule))
  BY <1>1 DEF Listing!Causes
<1>3. \A got \in SUBSET Listing!Items, c \in SUBSET Listing!Causes :
        LET g == [f EXCEPT !.at = "answered", !.causes = c, !.got = got]
            h == [f EXCEPT !.at = "answered", !.causes = c] IN
        /\ g \in FetchRecord /\ g.at = "answered" /\ g.rule = f.rule /\ g.page = f.page
        /\ g.steady = f.steady /\ g.causes = c /\ g.got = got
        /\ h \in FetchRecord /\ h.at = "answered" /\ h.rule = f.rule /\ h.page = f.page
        /\ h.steady = f.steady /\ h.causes = c /\ h.got = f.got
  BY DEF FetchRecord
<1>4. CASE ~ f.rule.cached
  <2>1. /\ list_fetch' = [f EXCEPT !.at = "answered", !.causes = causes]
        /\ UNCHANGED list_cache
    BY <1>4 DEF Listing!EndWalk, Listing!Answer
  <2> HIDE DEF causes
  <2>2. QED
    BY <1>1, <1>2, <1>3, <2>1
<1>5. CASE f.rule.cached
  <2> DEFINE got == f.got \ (f.rule.drops \cup Malformed)
  <2>1. /\ list_fetch' = [f EXCEPT !.at = "answered", !.causes = causes, !.got = got]
        /\ list_cache' = [rows |-> f.got, steady |-> f.steady, causes |-> causes]
    BY <1>5 DEF Listing!EndWalk, Listing!Signals
  <2>2. got \in SUBSET Listing!Items
    BY <1>1
  <2> HIDE DEF causes
  <2>3. /\ list_cache' \in CacheRecord /\ list_cache'.rows = f.got
        /\ list_cache'.steady = f.steady /\ list_cache'.causes = causes
    BY <1>1, <1>2, <2>1 DEF CacheRecord
  <2>4. /\ list_fetch' \in FetchRecord /\ list_fetch'.at = "answered"
        /\ list_fetch'.rule = f.rule /\ list_fetch'.page = f.page
        /\ list_fetch'.steady = f.steady /\ list_fetch'.causes = causes
        /\ list_fetch'.got = got
    <3> HIDE DEF got
    <3>1. QED
      BY <1>2, <1>3, <2>1, <2>2
  <2>5. QED
    BY <1>2, <1>5, <2>3, <2>4
<1>6. QED
  BY <1>4, <1>5

\* A walk that ended well, if nothing went wrong, leaves what is promised.
LEMMA EndedFits ==
  ASSUME ListingAssumption, ListingInv, NEW f \in FetchRecord, f.page < f.rule.pages,
         UNCHANGED <<list_list, list_born, list_shifts>>, Listing!EndWalk(f),
         f.causes = {} /\ ~ Listing!Beyond(f.rule) =>
           f.steady \ (f.rule.drops \cup Malformed) \subseteq f.got
  PROVE  ListingInv'
<1>1. RuleFits(f.rule)
  BY RulesFit DEF FetchRecord
<1>2. list_cache \in CacheRecord /\ CacheHolds
  BY DEF ListingInv, FetchFits
<1>3. /\ list_fetch' \in FetchRecord /\ list_fetch'.at = "answered"
      /\ list_fetch'.rule = f.rule /\ list_fetch'.page = f.page
      /\ list_fetch'.steady = f.steady
      /\ list_fetch'.causes = {} => f.causes = {} /\ ~ Listing!Beyond(f.rule)
      /\ \/ list_fetch'.got = f.got /\ UNCHANGED list_cache
         \/ /\ f.rule.cached /\ list_fetch'.got = f.got \ (f.rule.drops \cup Malformed)
            /\ list_cache' \in CacheRecord
            /\ list_cache'.rows = f.got /\ list_cache'.steady = f.steady
            /\ list_cache'.causes = list_fetch'.causes
  BY <1>1, <1>2, EndWalkIs
<1>4. ListingFits'
  BY DEF ListingInv, ListingFits
<1>5. FetchFits'
  BY <1>2, <1>3 DEF FetchFits
<1>6. WalkOn'
  BY <1>3 DEF WalkOn
<1>7. CacheHolds'
  <2>1. CASE UNCHANGED list_cache
    BY <1>2, <2>1 DEF CacheHolds
  <2>2. CASE f.rule.cached /\ list_cache'.rows = f.got /\ list_cache'.steady = f.steady
             /\ list_cache'.causes = list_fetch'.causes
    <3>1. f.rule.drops = OffTopic
      BY <1>1, <2>2 DEF RuleFits
    <3>2. QED
      BY <1>3, <2>2, <3>1 DEF CacheHolds
  <2>3. QED
    BY <1>3, <2>1, <2>2
<1>8. Listing!NothingSkippedSilently'
  BY <1>3 DEF Listing!NothingSkippedSilently
<1>9. QED
  BY <1>4, <1>5, <1>6, <1>7, <1>8 DEF ListingInv

\* A fetch that raised, or was answered where something went wrong.
LEMMA FailedFits ==
  ASSUME ListingAssumption, ListingInv, UNCHANGED <<list_list, list_born, list_shifts, list_cache>>,
         list_fetch' \in FetchRecord, list_fetch'.page < list_fetch'.rule.pages,
         list_fetch'.at = "raised" \/ list_fetch'.causes # {}
  PROVE  ListingInv'
<1>1. ListingFits' /\ CacheHolds'
  BY DEF ListingInv, ListingFits, CacheHolds
<1>2. FetchFits'
  BY DEF ListingInv, FetchFits
<1>3. WalkOn' /\ Listing!NothingSkippedSilently'
  BY DEF WalkOn, Listing!NothingSkippedSilently
<1>4. QED
  BY <1>1, <1>2, <1>3 DEF ListingInv

\* A sequence without its n-th element.
LEMMA Removed ==
  ASSUME NEW S, NEW s \in Seq(S), NEW n \in 1..Len(s)
  PROVE  LET r == SubSeq(s, 1, n - 1) \o SubSeq(s, n + 1, Len(s)) IN
         /\ r \in Seq(S) /\ Len(r) = Len(s) - 1
         /\ \A m \in 1..(Len(s) - 1) : r[m] = IF m < n THEN s[m] ELSE s[m + 1]
<1> DEFINE a == SubSeq(s, 1, n - 1)
           b == SubSeq(s, n + 1, Len(s))
<1>1. Len(s) \in Nat /\ n \in Nat /\ n >= 1 /\ n <= Len(s)
  OBVIOUS
<1>2. /\ a \in Seq(S) /\ Len(a) = n - 1
      /\ \A m \in 1..(n - 1) : a[m] = s[m]
  BY <1>1, SubSeqProperties
<1>3. /\ b \in Seq(S) /\ Len(b) = Len(s) - n
      /\ \A m \in 1..(Len(s) - n) : b[m] = s[m + n]
  <2>1. /\ b \in Seq(S)
        /\ Len(b) = IF n + 1 <= Len(s) THEN Len(s) - (n + 1) + 1 ELSE 0
        /\ \A i \in 1 .. Len(s) - (n + 1) + 1 : b[i] = s[(n + 1) + i - 1]
    BY <1>1, SubSeqProperties
  <2>2. QED
    BY <1>1, <2>1
<1> HIDE DEF a, b
<1>4. /\ a \o b \in Seq(S) /\ Len(a \o b) = Len(a) + Len(b)
      /\ \A i \in 1 .. Len(a) + Len(b) :
           (a \o b)[i] = IF i <= Len(a) THEN a[i] ELSE b[i - Len(a)]
  BY <1>2, <1>3, ConcatProperties
<1>5. \A m \in 1..(Len(s) - 1) : (a \o b)[m] = IF m < n THEN s[m] ELSE s[m + 1]
  <2>1. TAKE m \in 1..(Len(s) - 1)
  <2>2. CASE m < n
    BY <1>1, <1>2, <1>3, <1>4, <2>2
  <2>3. CASE ~ (m < n)
    <3>1. m - (n - 1) \in 1..(Len(s) - n) /\ (m - (n - 1)) + n = m + 1
      BY <1>1, <2>3
    <3>2. (a \o b)[m] = b[m - (n - 1)]
      BY <1>1, <1>2, <1>3, <1>4, <2>3
    <3>3. b[m - (n - 1)] = s[(m - (n - 1)) + n]
      BY <1>3, <3>1
    <3>4. QED
      BY <2>3, <3>1, <3>2, <3>3
  <2>4. QED
    BY <2>2, <2>3
<1>6. Len(a \o b) = Len(s) - 1
  BY <1>1, <1>2, <1>3, <1>4
<1>7. QED
  BY Zenon, <1>4, <1>5, <1>6 DEF a, b

\* Another announcement moves those behind it on, and none towards the head.
LEMMA PublishFits ==
  ASSUME ListingAssumption, ListingInv, Listing!Publish
  PROVE  ListingInv'
<1>0. ListingFits /\ FetchFits /\ WalkOn /\ CacheHolds /\ Listing!NothingSkippedSilently
  BY DEF ListingInv
<1>1. /\ list_born' = list_born + 1 /\ list_born' \in 0..MaxItems /\ list_born \in Nat
      /\ list_list \in Seq(1..list_born) /\ Len(list_list) \in Nat
      /\ UNCHANGED <<list_shifts, list_fetch, list_cache>>
  BY <1>0 DEF Listing!Publish, ListingFits, ListingAssumption
<1> DEFINE len == Len(list_list)
<1>2. PICK at \in 1..(len + 1) :
        list_list' = [k \in 1..(len + 1) |->
                        IF k < at THEN list_list[k]
                        ELSE IF k = at THEN list_born + 1 ELSE list_list[k - 1]]
  BY <1>1 DEF Listing!Publish
<1>3. \A n \in 1..len : list_list[n] \in 1..list_born
  BY <1>1
<1>a. /\ list_list' \in Seq(1..(list_born + 1)) /\ Len(list_list') = len + 1
      /\ \A k \in 1..(len + 1) :
           list_list'[k] = IF k < at THEN list_list[k]
                           ELSE IF k = at THEN list_born + 1 ELSE list_list[k - 1]
  <2>1. \A k \in 1..(len + 1) : /\ k < at => k \in 1..len
                                /\ k > at => k - 1 \in 1..len
    BY <1>1
  <2>2. \A k \in 1..(len + 1) :
          (IF k < at THEN list_list[k]
           ELSE IF k = at THEN list_born + 1 ELSE list_list[k - 1]) \in 1..(list_born + 1)
    <3>1. TAKE k \in 1..(len + 1)
    <3>2. k < at \/ k = at \/ k > at
      OBVIOUS
    <3>3. QED
      BY <1>1, <1>3, <2>1, <3>2
  <2>3. len + 1 \in Nat
    BY <1>1
  <2>4. QED
    BY <1>2, <2>2, <2>3
<1>b. \A n \in 1..len : LET k == IF n < at THEN n ELSE n + 1 IN
        k \in 1..(len + 1) /\ k >= n /\ list_list'[k] = list_list[n]
  <2>1. TAKE n \in 1..len
  <2>2. CASE n < at
    BY <1>1, <1>a, <2>2
  <2>3. CASE ~ (n < at)
    <3>1. /\ n + 1 \in 1..(len + 1) /\ ~ (n + 1 < at) /\ n + 1 # at
          /\ (n + 1) - 1 = n /\ n + 1 >= n
      BY <1>1, <2>3
    <3>2. list_list'[n + 1] = list_list[n]
      BY <1>a, <3>1
    <3>3. QED
      BY <2>3, <3>1, <3>2
  <2>4. QED
    BY <2>2, <2>3
<1>4. ListingFits'
  <2>1. ASSUME NEW m \in 1..(len + 1), NEW n \in 1..(len + 1),
               list_list'[m] = list_list'[n]
        PROVE  m = n
    <3> DEFINE from(k) == IF k < at THEN k ELSE k - 1
    <3>1. ASSUME NEW k \in 1..(len + 1), k # at
          PROVE  /\ from(k) \in 1..len /\ list_list'[k] = list_list[from(k)]
                 /\ list_list'[k] # list_list'[at]
      <4>1. from(k) \in 1..len /\ list_list'[k] = list_list[from(k)]
        BY <1>1, <1>a, <3>1
      <4>2. list_list'[at] = list_born + 1
        BY <1>a
      <4> HIDE DEF from
      <4>3. QED
        BY <1>1, <1>3, <4>1, <4>2
    <3>2. CASE m = at \/ n = at
      BY <2>1, <3>1, <3>2
    <3>3. CASE m # at /\ n # at
      <4>1. from(m) = from(n)
        <5>1. /\ from(m) \in 1..len /\ list_list'[m] = list_list[from(m)]
              /\ from(n) \in 1..len /\ list_list'[n] = list_list[from(n)]
          BY <3>1, <3>3
        <5> HIDE DEF from
        <5>2. QED
          BY <1>0, <2>1, <5>1 DEF ListingFits
      <4>2. QED
        BY <1>1, <3>3, <4>1
    <3>4. QED
      BY <3>2, <3>3
  <2>2. QED
    BY <1>0, <1>1, <1>a, <2>1 DEF ListingFits
<1>5. FetchFits' /\ CacheHolds' /\ Listing!NothingSkippedSilently'
  BY <1>0, <1>1 DEF FetchFits, CacheHolds, Listing!NothingSkippedSilently
<1>6. \A i, page : page \in Nat /\ Ahead(i, page) => Ahead(i, page)'
  <2>1. SUFFICES ASSUME NEW i, NEW page, page \in Nat, Ahead(i, page) PROVE Ahead(i, page)'
    OBVIOUS
  <2>2. page * PageSize \in Nat
    BY <2>1, Pages
  <2>3. i \in Listing!Listed'
    <3>1. PICK n \in 1..Len(list_list) : list_list[n] = i
      BY <2>1 DEF Ahead, Listing!Listed
    <3>2. \E k \in 1..Len(list_list') : list_list'[k] = i
      BY <1>a, <1>b, <3>1
    <3>3. QED
      BY <3>2 DEF Listing!Listed
  <2>4. ASSUME list_fetch.rule.cut = "page"
        PROVE  \E n \in 1..Len(list_list') : list_list'[n] = i /\ n > page * PageSize
    <3>1. PICK n \in 1..Len(list_list) : list_list[n] = i /\ n > page * PageSize
      BY <2>1, <2>4 DEF Ahead
    <3> DEFINE k == IF n < at THEN n ELSE n + 1
    <3>2. k \in 1..Len(list_list') /\ k >= n /\ list_list'[k] = i
      BY <1>a, <1>b, <3>1
    <3> HIDE DEF k
    <3>3. QED
      BY <1>1, <1>a, <2>2, <3>1, <3>2
  <2>5. QED
    BY <1>1, <2>1, <2>3, <2>4 DEF Ahead
<1>7. WalkOn'
  <2>1. list_fetch.page \in Nat /\ UNCHANGED list_fetch /\ Wanted' = Wanted
    BY <1>0, <1>1, FetchIs DEF Wanted
  <2>2. QED
    BY <1>0, <1>6, <2>1 DEF WalkOn
<1>8. QED
  BY <1>4, <1>5, <1>7 DEF ListingInv

\* Two rows that change places leave the rest where it is; what was unread stays
\* unread, or is noted.
LEMMA RearrangeFits ==
  ASSUME ListingAssumption, ListingInv, Listing!Rearrange
  PROVE  ListingInv'
<1>0. ListingFits /\ FetchFits /\ WalkOn /\ CacheHolds /\ Listing!NothingSkippedSilently
  BY DEF ListingInv
<1>1. PICK a \in 1..Len(list_list), b \in 1..Len(list_list) :
        /\ a < b
        /\ list_list' = [list_list EXCEPT ![a] = list_list[b], ![b] = list_list[a]]
        /\ list_fetch' = IF /\ list_fetch.at \in {"prime", "page"} /\ list_fetch.rule.cut = "page"
                            /\ a < Listing!PageStart(list_fetch.page)
                            /\ b >= Listing!PageStart(list_fetch.page)
                         THEN [list_fetch EXCEPT !.causes = list_fetch.causes \cup {"moved"}]
                         ELSE list_fetch
  BY DEF Listing!Rearrange
<1>2. /\ list_shifts' \in 0..MaxShifts /\ UNCHANGED <<list_born, list_cache>>
      /\ list_list \in Seq(1..list_born) /\ Len(list_list) \in Nat /\ list_born \in Nat
  <2>1. list_shifts < MaxShifts /\ list_shifts' = list_shifts + 1
        /\ UNCHANGED <<list_born, list_cache>>
    BY DEF Listing!Rearrange
  <2>2. /\ list_shifts \in 0..MaxShifts /\ MaxShifts \in Nat
        /\ list_list \in Seq(1..list_born) /\ list_born \in Nat
    BY <1>0 DEF ListingFits, ListingAssumption
  <2>3. list_shifts' \in 0..MaxShifts
    BY <2>1, <2>2
  <2>4. QED
    BY <2>1, <2>2, <2>3
<1> DEFINE to(n) == IF n = a THEN b ELSE IF n = b THEN a ELSE n
<1>3. /\ list_list' \in Seq(1..list_born) /\ Len(list_list') = Len(list_list)
      /\ \A n \in 1..Len(list_list) : list_list'[n] = list_list[to(n)]
      /\ \A n \in 1..Len(list_list) : to(n) \in 1..Len(list_list) /\ to(to(n)) = n
  <2>1. /\ list_list' \in Seq(1..list_born) /\ Len(list_list') = Len(list_list)
        /\ list_list[a] \in 1..list_born /\ list_list[b] \in 1..list_born
    <3>1. list_list[a] \in 1..list_born /\ list_list[b] \in 1..list_born
      BY <1>2
    <3> DEFINE S == 1..list_born
    <3>2. list_list \in [1..Len(list_list) -> S]
      BY <1>2
    <3> HIDE DEF S
    <3>3. list_list' \in [1..Len(list_list) -> S]
      BY <1>1, <3>1, <3>2 DEF S
    <3>4. list_list' \in Seq(S) /\ Len(list_list') = Len(list_list)
      BY <1>2, <3>3
    <3>5. QED
      BY <3>1, <3>4 DEF S
  <2>2. a # b /\ DOMAIN list_list = 1..Len(list_list)
    BY <1>1, <1>2
  <2>3. \A n \in 1..Len(list_list) : list_list'[n] = list_list[to(n)]
    BY <1>1, <2>2
  <2>4. \A n \in 1..Len(list_list) : to(n) \in 1..Len(list_list) /\ to(to(n)) = n
    BY <2>2
  <2>5. QED
    BY <2>1, <2>3, <2>4
<1>4. \A n \in 1..Len(list_list) : list_list'[to(n)] = list_list[n]
  <2> HIDE DEF to
  <2>1. QED
    BY <1>3
<1>5. ListingFits'
  <2>1. ASSUME NEW m \in 1..Len(list_list'), NEW n \in 1..Len(list_list'),
               list_list'[m] = list_list'[n]
        PROVE  m = n
    <3> HIDE DEF to
    <3>1. to(m) = to(n)
      BY <1>0, <1>3, <2>1 DEF ListingFits
    <3>2. QED
      BY <1>3, <3>1
  <2>2. QED
    BY <1>0, <1>2, <1>3, <2>1 DEF ListingFits
<1>6. CacheHolds'
  BY <1>0, <1>2 DEF CacheHolds
<1>7. list_fetch \in FetchRecord /\ list_fetch.page < list_fetch.rule.pages
      /\ list_fetch.page \in Nat
  BY <1>0, FetchIs DEF FetchFits
<1>8. CASE list_fetch' = [list_fetch EXCEPT !.causes = list_fetch.causes \cup {"moved"}]
           /\ list_fetch.at \in {"prime", "page"}
  <2>1. list_fetch.causes \cup {"moved"} \in SUBSET Listing!Causes
    BY <1>7 DEF FetchRecord, Listing!Causes
  <2>2. /\ list_fetch' \in FetchRecord /\ list_fetch'.page = list_fetch.page
        /\ list_fetch'.rule = list_fetch.rule /\ list_fetch'.causes # {}
    BY <1>7, <1>8, <2>1 DEF FetchRecord
  <2>3. FetchFits' /\ WalkOn' /\ Listing!NothingSkippedSilently'
    BY <1>0, <1>2, <1>7, <2>2 DEF FetchFits, WalkOn, Listing!NothingSkippedSilently
  <2>4. QED
    BY <1>5, <1>6, <2>3 DEF ListingInv
<1>9. CASE /\ UNCHANGED list_fetch
           /\ ~ (/\ list_fetch.at \in {"prime", "page"} /\ list_fetch.rule.cut = "page"
                 /\ a < Listing!PageStart(list_fetch.page)
                 /\ b >= Listing!PageStart(list_fetch.page))
  <2>1. FetchFits' /\ Listing!NothingSkippedSilently'
    BY <1>0, <1>2, <1>9 DEF FetchFits, Listing!NothingSkippedSilently
  <2>2. ASSUME list_fetch.at \in {"prime", "page"}, NEW i, Ahead(i, list_fetch.page)
        PROVE  Ahead(i, list_fetch.page)'
    <3>1. i \in Listing!Listed'
      <4>1. PICK n \in 1..Len(list_list) : list_list[n] = i
        BY <2>2 DEF Ahead, Listing!Listed
      <4> HIDE DEF to
      <4>2. to(n) \in 1..Len(list_list') /\ list_list'[to(n)] = i
        BY <1>3, <1>4, <4>1
      <4>3. QED
        BY <4>2 DEF Listing!Listed
    <3>2. ASSUME list_fetch.rule.cut = "page"
          PROVE  \E n \in 1..Len(list_list') : list_list'[n] = i /\ n > list_fetch.page * PageSize
      <4> DEFINE read == list_fetch.page * PageSize
      <4>1. PICK n \in 1..Len(list_list) : list_list[n] = i /\ n > read
        BY <2>2, <3>2 DEF Ahead
      <4>2. read \in Nat
        BY <1>7, Pages
      <4>3. ~ (a < read + 1 /\ b >= read + 1)
        BY <1>9, <2>2, <3>2 DEF Listing!PageStart
      <4> HIDE DEF read
      <4>4. to(n) > read
        BY <1>1, <4>1, <4>2, <4>3
      <4>5. to(n) \in 1..Len(list_list') /\ list_list'[to(n)] = i
        BY <1>3, <1>4, <4>1
      <4> HIDE DEF to
      <4>6. QED
        BY <4>4, <4>5 DEF read
    <3>3. QED
      BY <1>9, <2>2, <3>1, <3>2 DEF Ahead
  <2>3. Wanted' = Wanted
    BY <1>9 DEF Wanted
  <2>4. WalkOn'
    BY <1>0, <1>9, <2>2, <2>3 DEF WalkOn
  <2>5. QED
    BY <1>5, <1>6, <2>1, <2>4 DEF ListingInv
<1>10. QED
  BY <1>1, <1>8, <1>9

\* A withdrawal beside a walk is one of the causes.
LEMMA WithdrawFits ==
  ASSUME ListingAssumption, ListingInv, Listing!Withdraw
  PROVE  ListingInv'
<1>0. ListingFits /\ FetchFits /\ WalkOn /\ CacheHolds /\ Listing!NothingSkippedSilently
  BY DEF ListingInv
<1>1. PICK n \in 1..Len(list_list) :
        /\ list_list' = SubSeq(list_list, 1, n - 1) \o SubSeq(list_list, n + 1, Len(list_list))
        /\ list_fetch' = IF list_fetch.at \in {"prime", "page"}
                         THEN [list_fetch EXCEPT !.steady = list_fetch.steady \ {list_list[n]},
                                 !.causes = list_fetch.causes \cup {"withdrawn"}]
                         ELSE list_fetch
  BY DEF Listing!Withdraw
<1>2. /\ list_shifts' \in 0..MaxShifts /\ UNCHANGED <<list_born, list_cache>>
      /\ list_list \in Seq(1..list_born) /\ Len(list_list) \in Nat /\ list_born \in Nat
  <2>1. list_shifts < MaxShifts /\ list_shifts' = list_shifts + 1 /\ UNCHANGED <<list_born, list_cache>>
    BY DEF Listing!Withdraw
  <2>2. list_shifts \in 0..MaxShifts /\ MaxShifts \in Nat /\ list_born \in 0..MaxItems
        /\ MaxItems \in Nat /\ list_list \in Seq(1..list_born)
    BY <1>0 DEF ListingFits, ListingAssumption
  <2>3. list_shifts' \in 0..MaxShifts
    BY <2>1, <2>2
  <2>4. QED
    BY <2>1, <2>2, <2>3
<1>3. ListingFits'
  <2>1. /\ list_list' \in Seq(1..list_born) /\ Len(list_list') = Len(list_list) - 1
        /\ \A m \in 1..Len(list_list') :
             list_list'[m] = IF m < n THEN list_list[m] ELSE list_list[m + 1]
    BY <1>1, <1>2, Removed
  <2>2. ASSUME NEW j \in 1..Len(list_list'), NEW k \in 1..Len(list_list'),
               list_list'[j] = list_list'[k]
        PROVE  j = k
    <3> DEFINE from(m) == IF m < n THEN m ELSE m + 1
    <3>1. /\ from(j) \in 1..Len(list_list) /\ list_list'[j] = list_list[from(j)]
          /\ from(k) \in 1..Len(list_list) /\ list_list'[k] = list_list[from(k)]
      <4>1. ASSUME NEW m \in 1..Len(list_list')
            PROVE  from(m) \in 1..Len(list_list) /\ list_list'[m] = list_list[from(m)]
        <5>1. m \in Nat /\ n \in Nat /\ m >= 1 /\ m <= Len(list_list) - 1
          <6>1. Len(list_list') = Len(list_list) - 1 /\ Len(list_list) \in Nat
            BY <1>2, <2>1
          <6>2. QED
            BY <6>1
        <5>2. list_list'[m] = IF m < n THEN list_list[m] ELSE list_list[m + 1]
          BY <2>1
        <5>3. CASE m < n
          BY <1>2, <5>1, <5>2, <5>3
        <5>4. CASE ~ (m < n)
          BY <1>2, <5>1, <5>2, <5>4
        <5>5. QED
          BY <5>3, <5>4
      <4> HIDE DEF from
      <4>2. QED
        BY <4>1
    <3>2. from(j) = from(k)
      <4> HIDE DEF from
      <4>1. QED
        BY <1>0, <2>2, <3>1 DEF ListingFits
    <3>3. QED
      BY <1>2, <2>1, <3>2
  <2>3. QED
    BY <1>0, <1>2, <2>1, <2>2 DEF ListingFits
<1>4. list_fetch \in FetchRecord /\ list_fetch.page < list_fetch.rule.pages
  BY <1>0 DEF FetchFits
<1>5. CacheHolds'
  BY <1>0, <1>2 DEF CacheHolds
<1>6. CASE list_fetch.at \in {"prime", "page"}
  <2>1. list_fetch' = [list_fetch EXCEPT !.steady = list_fetch.steady \ {list_list[n]},
                         !.causes = list_fetch.causes \cup {"withdrawn"}]
    BY <1>1, <1>6
  <2>2. /\ list_fetch' \in FetchRecord /\ list_fetch'.page = list_fetch.page
        /\ list_fetch'.rule = list_fetch.rule /\ list_fetch'.at = list_fetch.at
        /\ list_fetch'.causes # {}
    <3>1. list_fetch.causes \cup {"withdrawn"} \in SUBSET Listing!Causes
      BY <1>4 DEF FetchRecord, Listing!Causes
    <3>2. list_fetch.steady \ {list_list[n]} \in SUBSET Listing!Items
      BY <1>4 DEF FetchRecord
    <3>3. QED
      BY <1>4, <2>1, <3>1, <3>2 DEF FetchRecord
  <2>3. FetchFits'
    BY <1>0, <1>2, <1>4, <2>2 DEF FetchFits
  <2>4. WalkOn' /\ Listing!NothingSkippedSilently'
    BY <1>6, <2>2 DEF WalkOn, Listing!NothingSkippedSilently
  <2>5. QED
    BY <1>3, <1>5, <2>3, <2>4 DEF ListingInv
<1>7. CASE list_fetch.at \notin {"prime", "page"}
  <2>1. UNCHANGED list_fetch
    BY <1>1, <1>7
  <2>2. FetchFits' /\ WalkOn' /\ Listing!NothingSkippedSilently'
    BY <1>0, <1>2, <1>7, <2>1 DEF FetchFits, WalkOn, Listing!NothingSkippedSilently
  <2>3. QED
    BY <1>3, <1>5, <2>2 DEF ListingInv
<1>8. QED
  BY <1>6, <1>7

\* A walk begins with all that is listed ahead; the cache has it all already.
LEMMA BeginFits ==
  ASSUME ListingAssumption, ListingInv, NEW rule \in Listing!Rules, Listing!Begin(rule)
  PROVE  ListingInv'
<1>0. ListingFits /\ FetchFits /\ WalkOn /\ CacheHolds /\ Listing!NothingSkippedSilently
  BY DEF ListingInv
<1>1. UNCHANGED <<list_list, list_born, list_shifts, list_cache>> /\ list_cache \in CacheRecord
  BY <1>0 DEF Listing!Begin, FetchFits
<1>2. ListingFits' /\ CacheHolds'
  BY <1>0, <1>1 DEF ListingFits, CacheHolds
<1>3. RuleFits(rule)
  BY RulesFit
<1>4. CASE rule.cached /\ list_cache.rows # {}
  <2> DEFINE got == list_cache.rows \ (rule.drops \cup Malformed)
  <2>1. list_fetch' = [Listing!NoFetch EXCEPT !.at = "answered", !.rule = rule, !.got = got,
                         !.steady = list_cache.steady, !.causes = list_cache.causes]
    BY <1>4 DEF Listing!Begin, Listing!Signals
  <2>2. /\ list_cache.rows \in SUBSET Listing!Items /\ list_cache.steady \in SUBSET Listing!Items
        /\ list_cache.causes \in SUBSET Listing!Causes /\ got \in SUBSET Listing!Items
    BY <1>1 DEF CacheRecord
  <2> HIDE DEF got
  <2>3. /\ list_fetch' \in FetchRecord /\ list_fetch'.at = "answered"
        /\ list_fetch'.rule = rule /\ list_fetch'.page = 0 /\ list_fetch'.got = got
        /\ list_fetch'.steady = list_cache.steady /\ list_fetch'.causes = list_cache.causes
    BY <2>1, <2>2 DEF FetchRecord, Listing!NoFetch
  <2>4. FetchFits' /\ WalkOn'
    BY <1>1, <1>3, <2>3 DEF FetchFits, WalkOn, RuleFits
  <2>5. Listing!NothingSkippedSilently'
    <3>1. rule.drops = OffTopic
      BY <1>3, <1>4 DEF RuleFits
    <3>2. QED
      BY <1>0, <2>3, <3>1 DEF Listing!NothingSkippedSilently, CacheHolds, got
  <2>6. QED
    BY <1>2, <2>4, <2>5 DEF ListingInv
<1>5. CASE ~ (rule.cached /\ list_cache.rows # {})
  <2>1. PICK at \in {"prime", "page"} :
          list_fetch' = [Listing!NoFetch EXCEPT !.at = at, !.rule = rule,
                           !.steady = Listing!Listed]
    <3> DEFINE at == IF rule.primes THEN "prime" ELSE "page"
    <3>1. at \in {"prime", "page"}
      OBVIOUS
    <3>2. list_fetch' = [Listing!NoFetch EXCEPT !.at = at, !.rule = rule,
                           !.steady = Listing!Listed]
      BY <1>5 DEF Listing!Begin
    <3> HIDE DEF at
    <3>3. QED
      BY <3>1, <3>2
  <2>2. Listing!Listed \in SUBSET Listing!Items
    BY <1>0, FetchIs
  <2>3. /\ list_fetch' \in FetchRecord /\ list_fetch'.at = at
        /\ list_fetch'.rule = rule /\ list_fetch'.page = 0 /\ list_fetch'.got = {}
        /\ list_fetch'.steady = Listing!Listed
    BY <2>1, <2>2 DEF FetchRecord, Listing!NoFetch
  <2>4. FetchFits'
    BY <1>1, <1>3, <2>3 DEF FetchFits, RuleFits
  <2>5. Listing!NothingSkippedSilently'
    BY <2>3 DEF Listing!NothingSkippedSilently
  <2>6. \A i \in Listing!Listed : Ahead(i, 0)'
    <3>1. TAKE i \in Listing!Listed
    <3>2. Listing!Listed' = Listing!Listed
      BY <1>1 DEF Listing!Listed
    <3>3. \E n \in 1..Len(list_list) : list_list[n] = i /\ n > 0 * PageSize
      <4>1. 0 * PageSize = 0
        BY DEF ListingAssumption
      <4>2. QED
        BY <4>1 DEF Listing!Listed
    <3>4. QED
      BY <1>1, <2>3, <3>2, <3>3 DEF Ahead
  <2>7. WalkOn'
    BY <2>3, <2>6 DEF WalkOn, Wanted
  <2>8. QED
    BY <1>2, <2>4, <2>5, <2>7 DEF ListingInv
<1>6. QED
  BY <1>4, <1>5

\* A session is opened, or the fetch raises.
LEMMA PrimeFits ==
  ASSUME ListingAssumption, ListingInv, Listing!Prime
  PROVE  ListingInv'
<1>0. ListingFits /\ FetchFits /\ WalkOn /\ CacheHolds
  BY DEF ListingInv
<1>1. /\ list_fetch \in FetchRecord /\ list_fetch.page < list_fetch.rule.pages
      /\ list_fetch.at = "prime" /\ UNCHANGED <<list_list, list_born, list_shifts, list_cache>>
  BY <1>0 DEF FetchFits, Listing!Prime
<1>2. CASE list_fetch' = [list_fetch EXCEPT !.at = "raised", !.got = {}]
  <2>1. /\ list_fetch' \in FetchRecord /\ list_fetch'.at = "raised"
        /\ list_fetch'.page = list_fetch.page /\ list_fetch'.rule = list_fetch.rule
    BY <1>1, <1>2 DEF FetchRecord
  <2>2. QED
    BY <1>1, <2>1, FailedFits
<1>3. CASE list_fetch' = [list_fetch EXCEPT !.at = "page"]
  <2>1. /\ list_fetch' \in FetchRecord /\ list_fetch'.at = "page"
        /\ list_fetch'.page = list_fetch.page /\ list_fetch'.rule = list_fetch.rule
        /\ list_fetch'.got = list_fetch.got /\ list_fetch'.steady = list_fetch.steady
        /\ list_fetch'.causes = list_fetch.causes
    BY <1>1, <1>3 DEF FetchRecord
  <2>2. FetchFits' /\ ListingFits' /\ CacheHolds' /\ Listing!NothingSkippedSilently'
    BY <1>0, <1>1, <2>1 DEF FetchFits, ListingFits, CacheHolds, Listing!NothingSkippedSilently
  <2>3. WalkOn'
    BY <1>0, <1>1, <2>1 DEF WalkOn, Wanted, Ahead, Listing!Listed
  <2>4. QED
    BY <2>2, <2>3 DEF ListingInv
<1>4. QED
  BY <1>2, <1>3 DEF Listing!Prime

\* A page is read: what is wanted of it is got, and the rest is still ahead.
LEMMA ReadPageFits ==
  ASSUME ListingAssumption, ListingInv, Listing!ReadPage
  PROVE  ListingInv'
<1> DEFINE rule == list_fetch.rule
           page == list_fetch.page
           rows == Listing!Rows(rule, page)
           broken == rows \cap Malformed # {}
           clipped == Listing!Clipped(rule, page)
<1>0. ListingFits /\ FetchFits /\ WalkOn /\ CacheHolds
  BY DEF ListingInv
<1>1. /\ list_fetch \in FetchRecord /\ page < rule.pages /\ list_fetch.at = "page"
      /\ UNCHANGED <<list_list, list_born, list_shifts>> /\ RuleFits(rule) /\ page \in Nat
      /\ list_fetch.got \in SUBSET Listing!Items /\ list_fetch.noted \in SUBSET Listing!Items
      /\ list_fetch.causes \in SUBSET Listing!Causes
      /\ list_cache \in CacheRecord
  BY <1>0, FetchIs DEF FetchFits, Listing!ReadPage
<1>2. rows \in SUBSET Listing!Items
  <2>1. Listing!Listed \in SUBSET Listing!Items
    BY <1>0, FetchIs
  <2>2. /\ \A kind : Listing!FirstOf(kind) \subseteq Listing!Listed
        /\ {list_list[n] : n \in {m \in 1..Len(list_list) :
              m \in Listing!PageStart(page)..(page + 1) * PageSize}} \subseteq Listing!Listed
    BY DEF Listing!FirstOf, Listing!Listed
  <2>3. rows \subseteq Listing!Listed
    BY <1>1, <2>2 DEF Listing!Rows, RuleFits
  <2>4. QED
    BY <2>1, <2>3
<1>3. PICK unnoted \in IF rule.notes THEN SUBSET rows ELSE {{}} :
        LET new == IF rule.cached THEN rows \ Malformed ELSE Listing!Signals(rule, rows, unnoted)
            barren == rows # {} /\ rule.last = "nothing" /\ new \subseteq list_fetch.got
            read == [list_fetch EXCEPT
                       !.got = list_fetch.got \cup new,
                       !.noted = IF rule.notes THEN list_fetch.noted \cup (rows \ unnoted)
                                 ELSE list_fetch.noted,
                       !.causes = list_fetch.causes \cup (IF broken THEN {"malformed"} ELSE {})
                                    \cup (IF barren THEN {"barren"} ELSE {})
                                    \cup (IF clipped THEN {"window"} ELSE {})] IN
        IF broken /\ rule.broken = "raises"
        THEN list_fetch' = [read EXCEPT !.at = "raised", !.got = {}] /\ UNCHANGED list_cache
        ELSE IF broken /\ rule.broken = "empties"
        THEN Listing!Answer([read EXCEPT !.got = {}])
        ELSE IF Listing!Over(list_fetch, rows) THEN Listing!EndWalk(read)
        ELSE list_fetch' = [read EXCEPT !.page = read.page + 1] /\ UNCHANGED list_cache
  BY DEF Listing!ReadPage
<1> DEFINE new == IF rule.cached THEN rows \ Malformed ELSE Listing!Signals(rule, rows, unnoted)
           barren == rows # {} /\ rule.last = "nothing" /\ new \subseteq list_fetch.got
           got == list_fetch.got \cup new
           noted == IF rule.notes THEN list_fetch.noted \cup (rows \ unnoted)
                    ELSE list_fetch.noted
           causes == list_fetch.causes \cup (IF broken THEN {"malformed"} ELSE {})
                       \cup (IF barren THEN {"barren"} ELSE {})
                       \cup (IF clipped THEN {"window"} ELSE {})
           read == [list_fetch EXCEPT !.got = got, !.noted = noted, !.causes = causes]
<1>4. /\ new \subseteq rows /\ Listing!Signals(rule, rows, {}) \subseteq new
      /\ ~ rule.cached => new = Listing!Signals(rule, rows, {})
  BY DEF Listing!Signals
<1>5. /\ got \in SUBSET Listing!Items /\ noted \in SUBSET Listing!Items
      /\ causes \in SUBSET Listing!Causes
      /\ broken => causes # {}
      /\ causes = {} => list_fetch.causes = {} /\ ~ barren /\ ~ clipped
  BY <1>1, <1>2, <1>4 DEF Listing!Causes
<1>6. \/ /\ broken
         /\ list_fetch' = [read EXCEPT !.at = "raised", !.got = {}] /\ UNCHANGED list_cache
      \/ broken /\ Listing!Answer([read EXCEPT !.got = {}])
      \/ Listing!Over(list_fetch, rows) /\ Listing!EndWalk(read)
      \/ /\ ~ Listing!Over(list_fetch, rows)
         /\ list_fetch' = [read EXCEPT !.page = read.page + 1] /\ UNCHANGED list_cache
  BY Zenon, <1>3
<1> HIDE DEF new, barren, got, noted, causes, broken, clipped, rows
<1>7. /\ read \in FetchRecord /\ read.at = "page" /\ read.rule = rule /\ read.page = page
      /\ read.steady = list_fetch.steady /\ read.got = got /\ read.causes = causes
  BY <1>1, <1>5 DEF FetchRecord
<1> HIDE DEF read
<1>8. ASSUME causes = {}, Listing!Over(list_fetch, rows) => ~ Listing!Beyond(rule),
             NEW i \in Wanted
      PROVE  \/ i \in got
             \/ /\ ~ Listing!Over(list_fetch, rows) /\ rule.cut \in {"page", "type"}
                /\ Ahead(i, page + 1)
  <2>1. list_fetch.causes = {} /\ ~ barren /\ ~ clipped
    BY <1>5, <1>8
  <2>2. i \in list_fetch.got \/ Ahead(i, page)
    BY <1>0, <1>1, <1>8, <2>1 DEF WalkOn
  <2>3. CASE i \in list_fetch.got
    BY <2>3 DEF got
  <2>4. CASE Ahead(i, page)
    <3>1. i \notin rule.drops \cup Malformed
      BY <1>8 DEF Wanted
    <3>2. \/ i \in rows
          \/ rule.cut \in {"page", "type"} /\ Ahead(i, page + 1)
      <4>1. rule.cut = "kept" => Listing!Over(list_fetch, rows)
        BY <1>1 DEF RuleFits, Listing!Over
      <4>2. QED
        BY <1>0, <1>8, <2>1, <2>4, <3>1, <4>1, RowsReach DEF rows, clipped
    <3>3. i \in rows => i \in got
      BY <1>4, <3>1 DEF Listing!Signals, got
    <3>4. ~ (/\ rows # {} /\ rule.last = "nothing"
             /\ Listing!Signals(rule, rows, {}) \subseteq list_fetch.got)
      <4>1. rule.last = "nothing" => new = Listing!Signals(rule, rows, {})
        BY <1>1, <1>4 DEF RuleFits
      <4>2. QED
        BY <2>1, <4>1 DEF barren
    <3>5. rule.cut \in {"page", "type"} /\ Ahead(i, page + 1)
            => ~ Listing!Over(list_fetch, rows)
      BY <1>0, <1>8, <3>4, WalkIsNotOver DEF rows
    <3>6. QED
      BY <3>2, <3>3, <3>5
  <2>5. QED
    BY <2>2, <2>3, <2>4
<1>9. CASE broken /\ list_fetch' = [read EXCEPT !.at = "raised", !.got = {}]
           /\ UNCHANGED list_cache
  <2>1. /\ list_fetch' \in FetchRecord /\ list_fetch'.at = "raised"
        /\ list_fetch'.page = page /\ list_fetch'.rule = rule
    BY <1>7, <1>9 DEF FetchRecord
  <2>2. QED
    BY <1>1, <1>9, <2>1, FailedFits
<1>10. CASE broken /\ Listing!Answer([read EXCEPT !.got = {}])
  <2> DEFINE f == [read EXCEPT !.got = {}]
             all == f.causes \cup (IF Listing!Beyond(f.rule) THEN {"window"} ELSE {})
  <2>1. /\ f \in FetchRecord /\ f.page = page /\ f.rule = rule /\ f.causes = causes
    BY <1>7 DEF FetchRecord
  <2>2. list_fetch' = [f EXCEPT !.at = "answered", !.causes = all] /\ UNCHANGED list_cache
    BY <1>10 DEF Listing!Answer
  <2>3. all \in SUBSET Listing!Causes /\ all # {}
    BY <1>5, <1>10, <2>1 DEF Listing!Causes
  <2> HIDE DEF f, all
  <2>4. /\ list_fetch' \in FetchRecord /\ list_fetch'.page = page /\ list_fetch'.rule = rule
        /\ list_fetch'.causes # {}
    BY <2>1, <2>2, <2>3 DEF FetchRecord
  <2>5. QED
    BY <1>1, <2>2, <2>4, FailedFits
<1>11. CASE Listing!Over(list_fetch, rows) /\ Listing!EndWalk(read)
  <2>1. causes = {} /\ ~ Listing!Beyond(rule) => Wanted \subseteq got
    BY <1>8, <1>11
  <2>2. QED
    BY <1>1, <1>7, <1>11, <2>1, EndedFits DEF Wanted
<1>12. CASE /\ ~ Listing!Over(list_fetch, rows)
            /\ list_fetch' = [read EXCEPT !.page = read.page + 1] /\ UNCHANGED list_cache
  <2>1. /\ list_fetch' \in FetchRecord /\ list_fetch'.at = "page" /\ list_fetch'.rule = rule
        /\ list_fetch'.page = page + 1 /\ list_fetch'.steady = list_fetch.steady
        /\ list_fetch'.got = got /\ list_fetch'.causes = causes
    BY <1>1, <1>7, <1>12 DEF FetchRecord
  <2>2. page + 1 < rule.pages
    <3>1. page + 1 # rule.pages
      BY <1>12 DEF Listing!Over
    <3>2. QED
      BY <1>1, <3>1 DEF RuleFits
  <2>3. ListingFits' /\ FetchFits' /\ CacheHolds' /\ Listing!NothingSkippedSilently'
    BY <1>0, <1>1, <1>12, <2>1, <2>2
    DEF ListingFits, FetchFits, CacheHolds, Listing!NothingSkippedSilently
  <2>4. WalkOn'
    <3>1. Wanted' = Wanted
      BY <2>1 DEF Wanted
    <3>2. ASSUME causes = {}, NEW i \in Wanted
          PROVE  i \in got \/ Ahead(i, page + 1)
      BY <1>8, <1>12, <3>2
    <3>3. \A i : Ahead(i, page + 1) =>
            (/\ i \in Listing!Listed'
             /\ list_fetch'.rule.cut = "page" =>
                  \E n \in 1..Len(list_list') : list_list'[n] = i /\ n > list_fetch'.page * PageSize
             /\ list_fetch'.rule.cut = "type" =>
                  list_fetch'.page = 0 \/ (list_fetch'.page = 1 /\ i \notin Decisions))
      BY <1>1, <2>1 DEF Ahead, Listing!Listed
    <3>4. QED
      BY <2>1, <3>1, <3>2, <3>3 DEF WalkOn, Ahead
  <2>5. QED
    BY <2>3, <2>4 DEF ListingInv
<1>13. QED
  BY <1>6, <1>9, <1>10, <1>11, <1>12

\* A page that could not be read is one of the causes.
LEMMA PageFailsFits ==
  ASSUME ListingAssumption, ListingInv, Listing!PageFails
  PROVE  ListingInv'
<1> DEFINE causes == list_fetch.causes \cup {"unread"}
           missed == [list_fetch EXCEPT !.causes = causes]
<1>0. ListingFits /\ FetchFits
  BY DEF ListingInv
<1>1. /\ list_fetch \in FetchRecord /\ list_fetch.page < list_fetch.rule.pages
      /\ list_fetch.page \in Nat /\ UNCHANGED <<list_list, list_born, list_shifts>>
  BY <1>0, FetchIs DEF FetchFits, Listing!PageFails
<1>2. causes \in SUBSET Listing!Causes /\ causes # {}
  BY <1>1 DEF FetchRecord, Listing!Causes
<1>a. list_fetch.page + 1 # list_fetch.rule.pages
        => list_fetch.page + 1 < list_fetch.rule.pages
  <2>1. list_fetch.rule.pages \in Nat
    BY <1>0, FetchIs DEF RuleFits
  <2>2. QED
    BY <1>1, <2>1
<1>3. \/ list_fetch' = [missed EXCEPT !.at = "raised", !.got = {}] /\ UNCHANGED list_cache
      \/ /\ list_fetch.page + 1 < list_fetch.rule.pages
         /\ list_fetch' = [missed EXCEPT !.page = missed.page + 1] /\ UNCHANGED list_cache
      \/ Listing!EndWalk(missed)
  BY <1>a DEF Listing!PageFails
<1> HIDE DEF causes
<1>4. /\ missed \in FetchRecord /\ missed.page = list_fetch.page
      /\ missed.rule = list_fetch.rule /\ missed.causes = causes
  BY <1>1, <1>2 DEF FetchRecord
<1> HIDE DEF missed
<1>5. CASE list_fetch' = [missed EXCEPT !.at = "raised", !.got = {}] /\ UNCHANGED list_cache
  <2>1. /\ list_fetch' \in FetchRecord /\ list_fetch'.at = "raised"
        /\ list_fetch'.page = list_fetch.page /\ list_fetch'.rule = list_fetch.rule
    BY <1>4, <1>5 DEF FetchRecord
  <2>2. QED
    BY <1>1, <1>5, <2>1, FailedFits
<1>6. CASE /\ list_fetch.page + 1 < list_fetch.rule.pages
           /\ list_fetch' = [missed EXCEPT !.page = missed.page + 1] /\ UNCHANGED list_cache
  <2>1. /\ list_fetch' \in FetchRecord /\ list_fetch'.causes # {}
        /\ list_fetch'.page = list_fetch.page + 1 /\ list_fetch'.rule = list_fetch.rule
    BY <1>1, <1>2, <1>4, <1>6 DEF FetchRecord
  <2>2. QED
    BY <1>1, <1>6, <2>1, FailedFits
<1>7. CASE Listing!EndWalk(missed)
  BY <1>1, <1>2, <1>4, <1>7, EndedFits
<1>8. QED
  BY <1>3, <1>5, <1>6, <1>7

\* The cache is dropped.
LEMMA ExpireFits ==
  ASSUME ListingInv, Listing!Expire
  PROVE  ListingInv'
<1>1. UNCHANGED <<list_list, list_born, list_shifts, list_fetch>>
      /\ list_cache' = Listing!NoCache
  BY DEF Listing!Expire
<1>2. list_cache' \in CacheRecord /\ list_cache'.steady = {}
  BY <1>1 DEF Listing!NoCache, CacheRecord
<1>3. ListingFits' /\ FetchFits'
  BY <1>1, <1>2 DEF ListingInv, ListingFits, FetchFits
<1>4. WalkOn' /\ Listing!NothingSkippedSilently'
  BY <1>1 DEF ListingInv, WalkOn, Wanted, Ahead, Listing!Listed, Listing!NothingSkippedSilently
<1>5. CacheHolds'
  BY <1>2 DEF CacheHolds
<1>6. QED
  BY <1>3, <1>4, <1>5 DEF ListingInv

LEMMA ListingInvInitial ==
  ASSUME ListingAssumption, Listing!Init
  PROVE  ListingInv
<1>1. /\ list_born \in 0..MaxItems /\ list_shifts = 0 /\ list_fetch = Listing!NoFetch
      /\ list_list = [n \in 1..list_born |-> list_born + 1 - n]
      /\ list_cache = Listing!NoCache /\ MaxShifts \in Nat /\ MaxItems \in Nat
  BY DEF Listing!Init, ListingAssumption
<1>2. ListingFits
  <2>1. \A n \in 1..list_born : list_born + 1 - n \in 1..list_born
    BY <1>1
  <2>2. list_list \in Seq(1..list_born) /\ Len(list_list) = list_born
    BY <1>1, <2>1
  <2>3. ASSUME NEW m \in 1..list_born, NEW n \in 1..list_born, list_list[m] = list_list[n]
        PROVE  m = n
    BY <1>1, <2>3
  <2>4. QED
    BY <1>1, <2>2, <2>3 DEF ListingFits
<1>3. Listing!Timisoara \in Listing!Rules
  BY DEF Listing!Rules
<1>4. /\ list_fetch \in FetchRecord /\ list_fetch.at = "idle" /\ list_fetch.page = 0
      /\ list_fetch.rule = Listing!Timisoara
  BY <1>1, <1>3 DEF Listing!NoFetch, FetchRecord
<1>5. list_cache \in CacheRecord /\ list_cache.steady = {}
  BY <1>1 DEF Listing!NoCache, CacheRecord
<1>6. Listing!Timisoara.pages \in Nat \ {0}
  BY <1>3, RulesFit DEF RuleFits
<1>7. FetchFits
  BY <1>4, <1>5, <1>6 DEF FetchFits
<1>8. QED
  BY <1>2, <1>4, <1>5, <1>7
  DEF ListingInv, WalkOn, CacheHolds, Listing!NothingSkippedSilently

LEMMA ListingInvPreserved ==
  ASSUME ListingAssumption, ListingInv, [Listing!Next]_(Listing!vars)
  PROVE  ListingInv'
<1>1. CASE UNCHANGED Listing!vars
  <2>1. UNCHANGED <<list_list, list_born, list_shifts, list_fetch, list_cache>>
    BY <1>1 DEF Listing!vars
  <2>2. ListingFits' /\ FetchFits' /\ CacheHolds'
    BY <2>1 DEF ListingInv, ListingFits, FetchFits, CacheHolds
  <2>3. WalkOn' /\ Listing!NothingSkippedSilently'
    BY <2>1 DEF ListingInv, WalkOn, Wanted, Ahead, Listing!Listed,
      Listing!NothingSkippedSilently
  <2>4. QED
    BY <2>2, <2>3 DEF ListingInv
<1>2. QED
  BY <1>1, PublishFits, RearrangeFits, WithdrawFits, BeginFits, PrimeFits, ReadPageFits, PageFailsFits,
     ExpireFits DEF Listing!Next

\* Whatever is published, rearranged and withdrawn beside it, a walk that nothing
\* went wrong with brings what stood on the listing all the while.
THEOREM WalksSkipNothing ==
  ASSUME ListingAssumption
  PROVE  Listing!Spec => []Listing!NothingSkippedSilently
<1>1. Listing!Init => ListingInv
  BY ListingInvInitial
<1>2. ListingInv /\ [Listing!Next]_(Listing!vars) => ListingInv'
  BY ListingInvPreserved
<1>3. ListingInv => Listing!NothingSkippedSilently
  BY DEF ListingInv
<1>4. QED
  BY <1>1, <1>2, <1>3, PTL DEF Listing!Spec

\* What a walk has and the cache keeps was published, and no walk goes past its
\* last page.
THEOREM ListingTypes ==
  ASSUME ListingAssumption
  PROVE  Listing!Spec => []Listing!TypeOK
<1>1. Listing!Init => ListingInv
  BY ListingInvInitial
<1>2. ListingInv /\ [Listing!Next]_(Listing!vars) => ListingInv'
  BY ListingInvPreserved
<1>3. ListingInv => Listing!TypeOK
  <2> SUFFICES ASSUME ListingInv PROVE Listing!TypeOK
    OBVIOUS
  <2>1. /\ list_born \in 0..MaxItems /\ list_shifts \in 0..MaxShifts
        /\ \A n \in 1..Len(list_list) : list_list[n] \in 1..list_born
    BY DEF ListingInv, ListingFits
  <2>2. Listing!Listed \subseteq 1..list_born
    BY <2>1 DEF Listing!Listed
  <2>3. /\ list_fetch \in FetchRecord /\ list_fetch.page < list_fetch.rule.pages
        /\ list_cache \in CacheRecord
    BY DEF ListingInv, FetchFits
  <2>4. /\ list_fetch.at \in {"idle", "prime", "page", "answered", "raised"}
        /\ list_fetch.got \subseteq Listing!Items /\ list_fetch.noted \subseteq Listing!Items
        /\ list_fetch.causes \subseteq Listing!Causes /\ list_cache.rows \subseteq Listing!Items
    BY <2>3 DEF FetchRecord, CacheRecord
  <2>5. QED
    BY <2>1, <2>2, <2>3, <2>4 DEF Listing!TypeOK
<1>4. QED
  BY <1>1, <1>2, <1>3, PTL DEF Listing!Spec
===============================================================================

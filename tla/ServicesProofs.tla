---------------------------- MODULE ServicesProofs ----------------------------
(***************************************************************************)
(* What MCServices checks of its parts follows from what SystemPartsProofs *)
(* and UserPartsProofs prove of them for every value of their constants: a *)
(* behaviour in which a part runs is a behaviour of that part.             *)
(***************************************************************************)
EXTENDS MCServices, FiniteSetTheorems, TLAPS

System == INSTANCE SystemPartsProofs WITH
  Calls <- {"c1", "c2", "c3"}, MaxPools <- 3,
  Runs <- {"a", "b", "c"}, Sources <- {"s1", "s2"},
  Last <- 3, Slots <- 2, Budget <- 2, Portals <- Behaviours,
  Purchases <- {"p1", "p2"}, Firms <- {"f1", "f2"}, Prices <- {1, 2},
  Leads <- SomeLeads, Profiles <- SomeProfiles, Limit <- 1, Unknown <- "none",
  Providers <- 4, CallLimit <- 12, Deadline <- 35, PromptLimit <- 3,
  MaxTurns <- 3, MaxSections <- 2,
  Untitled <- {2}, OffTopic <- {3}, Malformed <- {4}, PageSize <- 2, MaxPages <- 2,
  MaxItems <- 4, MaxShifts <- 1, Decisions <- {1, 2, 3}

\* Several users who share a device, and one with two; and their feeds and deals.
Shared == INSTANCE UserPartsProofs WITH
  Devices <- {"d1"}, PushUsers <- {"ana", "dan"}, Senders <- {"tick"},
  Readers <- {"ana", "dan"}, Filters <- {"all"}, Fills <- {"r1"},
  TTL <- 1, SweepEvery <- 2, MaxSaves <- 2,
  DealUsers <- {"ana", "dan"}, Opps <- {"road"}, Deals <- {"d1"},
  Moves <- {"won", "lost"}, Requests <- {"r1", "r2"}, MaxMoves <- 2, DealOutages <- 2,
  SubUsers <- {"ana"}, Subs <- {"s1", "s2"}, Hooks <- {"h1"}, SubChanges <- 1, SubOutages <- 0
Single == INSTANCE UserPartsProofs WITH
  Devices <- {"d1", "d2"}, PushUsers <- {"ana"}, Senders <- {"tick", "test"},
  Readers <- {"ana"}, Filters <- {"all", "cluj"}, Fills <- {"r1", "r2"},
  TTL <- 1, SweepEvery <- 1, MaxSaves <- 2,
  DealUsers <- {"ana"}, Opps <- {"road"}, Deals <- {"d1", "d2"},
  Moves <- {"won"}, Requests <- {"r1", "r2"}, MaxMoves <- 2, DealOutages <- 1,
  SubUsers <- {"ana"}, Subs <- {"s1"}, Hooks <- {"h1", "h2"}, SubChanges <- 2, SubOutages <- 2

(***************************************************************************)
(* The connection pool.                                                    *)
(***************************************************************************)
\* The part of a behaviour that is about the pool.
LEMMA PoolRuns ==
  /\ Init /\ part = "pool" => Pool!Init
  /\ part = "pool" /\ [Next]_vars => (part = "pool")' /\ [Pool!Next]_(Pool!vars)
  /\ ~ (part = "pool") /\ [Next]_vars => ~ (part = "pool")'
BY DEF Init, Next, vars, Pool!vars, PoolVars

\* The definitions System is proved about are these.
LEMMA PoolSame ==
  /\ Pool!Init => System!Pool!Init
  /\ [Pool!Next]_(Pool!vars) => [System!Pool!Next]_(System!Pool!vars)
  /\ System!Pool!TypeOK => Pool!TypeOK
  /\ System!Pool!BuildsAreNeeded => Pool!BuildsAreNeeded
  /\ System!Pool!RetryIsEnough => Pool!RetryIsEnough
<1>1. Pool!Init => System!Pool!Init
  BY Zenon DEF
     System!Pool!Init, System!Pool!NoPool, System!Pool!Pools, System!Pool!NoCall,
     System!Pool!Idle, Pool!Init, Pool!NoPool, Pool!Pools, Pool!NoCall, Pool!Idle
<1>2. Pool!Next => System!Pool!Next
  BY Zenon DEF
     System!Pool!Next, System!Pool!Begin, System!Pool!Disturbed, System!Pool!Idle,
     System!Pool!NoPool, System!Pool!GetPool, System!Pool!Step, System!Pool!Attempt,
     System!Pool!End, System!Pool!EnterBuild, System!Pool!NoCall, System!Pool!SecondLook,
     System!Pool!StillCooling, System!Pool!Built, System!Pool!Pools, System!Pool!BuildFails,
     System!Pool!Acquire, System!Pool!AcquireFails, System!Pool!Users,
     System!Pool!ClearCooldown, System!Pool!EnterReset, System!Pool!Retry,
     System!Pool!Closed, System!Pool!Forgotten, System!Pool!Finish, System!Pool!Cancel,
     System!Pool!MayBeDead, System!Pool!QueryFails, Pool!MayBeDead, Pool!QueryFails,
     System!Pool!GoStale, System!Pool!UpOrDown, System!Pool!Cooled, Pool!Next, Pool!Begin,
     Pool!Disturbed, Pool!Idle, Pool!NoPool, Pool!GetPool, Pool!Step, Pool!Attempt,
     Pool!End, Pool!EnterBuild, Pool!NoCall, Pool!SecondLook, Pool!StillCooling, Pool!Built,
     Pool!Pools, Pool!BuildFails, Pool!Acquire, Pool!AcquireFails, Pool!Users,
     Pool!ClearCooldown, Pool!EnterReset, Pool!Retry, Pool!Closed, Pool!Forgotten,
     Pool!Finish, Pool!Cancel, Pool!GoStale, Pool!UpOrDown, Pool!Cooled
<1>3. UNCHANGED Pool!vars => UNCHANGED System!Pool!vars
  BY DEF Pool!vars, System!Pool!vars
<1>4. System!Pool!TypeOK => Pool!TypeOK
  BY Zenon DEF
     System!Pool!TypeOK, System!Pool!NoCall, System!Pool!Pools, Pool!TypeOK, Pool!NoCall,
     Pool!Pools
<1>5. System!Pool!BuildsAreNeeded => Pool!BuildsAreNeeded
  BY Zenon DEF
     System!Pool!BuildsAreNeeded, System!Pool!Cardinality, System!Pool!Pools,
     System!Pool!NoPool, Pool!BuildsAreNeeded, Pool!Cardinality, Pool!Pools, Pool!NoPool
<1>6. System!Pool!RetryIsEnough => Pool!RetryIsEnough
  BY Zenon DEF
     System!Pool!RetryIsEnough, System!Pool!NoPool, Pool!RetryIsEnough, Pool!NoPool
<1>7. QED
  BY <1>1, <1>2, <1>3, <1>4, <1>5, <1>6

\* The pool's constants are as its proofs assume.
LEMMA PoolFits == System!PoolAssumption
  BY DEF System!PoolAssumption, System!Pool!NoCall

LEMMA PoolTyped == Spec => [](part = "pool" => Pool!TypeOK)
<1>1. System!Pool!Spec => []System!Pool!TypeOK
  BY System!PoolTypes, PoolFits
<1>2. QED
  BY <1>1, PoolSame, PoolRuns, PTL DEF Spec, System!Pool!Spec

\* However calls overlap and fail, a pool is built only where there is none, by
\* one of them.
THEOREM PoolBuildsAreNeeded == Spec => []BuildsAreNeeded
<1>1. System!Pool!Spec => []System!Pool!BuildsAreNeeded
  BY PoolFits, System!PoolBuildsAreNeeded
<1>2. ~ (part = "pool") \/ Pool!BuildsAreNeeded => BuildsAreNeeded
  BY DEF BuildsAreNeeded
<1>3. QED
  BY <1>1, <1>2, PoolSame, PoolRuns, PTL DEF Spec, System!Pool!Spec

\* One rebuild is enough for a call that nothing happens beside.
THEOREM PoolRetryIsEnough == Spec => []RetryIsEnough
<1>1. System!Pool!Spec => []System!Pool!RetryIsEnough
  BY PoolFits, System!PoolRetryIsEnough
<1>2. ~ (part = "pool") \/ Pool!RetryIsEnough => RetryIsEnough
  BY DEF RetryIsEnough
<1>3. QED
  BY <1>1, <1>2, PoolSame, PoolRuns, PTL DEF Spec, System!Pool!Spec

(***************************************************************************)
(* The tick and its watchdog.                                              *)
(***************************************************************************)
\* The part of a behaviour that is about ticks.
LEMMA TickRuns ==
  /\ Init /\ part = "ticks" => Tick!Init
  /\ part = "ticks" /\ [Next]_vars => (part = "ticks")' /\ [Tick!Next]_(Tick!vars)
  /\ ~ (part = "ticks") /\ [Next]_vars => ~ (part = "ticks")'
BY DEF Init, Next, vars, Tick!vars, TickVars

\* The definitions System is proved about are these.
LEMMA TickSame ==
  /\ Tick!Init => System!Tick!Init
  /\ [Tick!Next]_(Tick!vars) => [System!Tick!Next]_(System!Tick!vars)
  /\ System!Tick!TypeOK => Tick!TypeOK
  /\ System!Tick!CompletedTicksAreHonest => Tick!CompletedTicksAreHonest
  /\ System!Tick!StaleDataAlertedOnce => Tick!StaleDataAlertedOnce
<1>1. Tick!Init => System!Tick!Init
  BY Zenon DEF
     System!Tick!Init, System!Tick!NoTick, System!Tick!NoRow, System!Tick!Fresh, Tick!Init,
     Tick!NoTick, Tick!NoRow, Tick!Fresh
<1>2. Tick!Next => System!Tick!Next
  BY Zenon DEF
     System!Tick!Next, System!Tick!Dispatch, System!Tick!NotLocked, System!Tick!data,
     System!Tick!TakeLock, System!Tick!NoTick, System!Tick!NoRow, System!Tick!Start,
     System!Tick!tasks, System!Tick!Release, System!Tick!SetUp, System!Tick!Collect,
     System!Tick!Persist, System!Tick!Fresh, System!Tick!BatchFails,
     System!Tick!SoftDeadline, System!Tick!AllCollected, System!Tick!Watch,
     System!Tick!Rearmed, System!Tick!Finish, System!Tick!HardDeadline, System!Tick!Restart,
     System!Tick!GoStale, Tick!Next, Tick!Dispatch, Tick!NotLocked, Tick!data,
     Tick!TakeLock, Tick!NoTick, Tick!NoRow, Tick!Start, Tick!tasks, Tick!Release,
     Tick!SetUp, Tick!Collect, Tick!Persist, Tick!Fresh, Tick!BatchFails, Tick!SoftDeadline,
     Tick!AllCollected, Tick!Watch, Tick!Rearmed, Tick!Finish, Tick!HardDeadline,
     Tick!Restart, Tick!GoStale
<1>3. UNCHANGED Tick!vars => UNCHANGED System!Tick!vars
  BY DEF Tick!vars, System!Tick!vars
<1>4. System!Tick!TypeOK => Tick!TypeOK
  BY Zenon DEF
     System!Tick!TypeOK, Tick!TypeOK
<1>5. System!Tick!CompletedTicksAreHonest => Tick!CompletedTicksAreHonest
  BY Zenon DEF
     System!Tick!CompletedTicksAreHonest, Tick!CompletedTicksAreHonest
<1>6. System!Tick!StaleDataAlertedOnce => Tick!StaleDataAlertedOnce
  BY Zenon DEF
     System!Tick!StaleDataAlertedOnce, Tick!StaleDataAlertedOnce
<1>7. QED
  BY <1>1, <1>2, <1>3, <1>4, <1>5, <1>6

\* The runs and what is missing are as the proofs assume.
LEMMA TickFits == System!TickAssumption
  BY NoneAssumption DEF System!TickAssumption

LEMMA TickTyped == Spec => [](part = "ticks" => Tick!TypeOK)
<1>1. System!Tick!Spec => []System!Tick!TypeOK
  BY System!TickTypes, TickFits, NoneAssumption
<1>2. QED
  BY <1>1, TickSame, TickRuns, PTL DEF Spec, System!Tick!Spec

\* A tick reported without errors lost nothing that its being cut does not explain.
THEOREM TicksAreHonest == Spec => []CompletedTicksAreHonest
<1>1. System!Tick!Spec => []System!Tick!CompletedTicksAreHonest
  BY TickFits, System!TicksAreHonest
<1>2. ~ (part = "ticks") \/ Tick!CompletedTicksAreHonest => CompletedTicksAreHonest
  BY DEF CompletedTicksAreHonest
<1>3. QED
  BY <1>1, <1>2, TickSame, TickRuns, PTL DEF Spec, System!Tick!Spec

\* A spell of stale data that a tick notices is alerted once.
THEOREM StaleDataIsAlertedOnce == Spec => []StaleDataAlertedOnce
<1>1. System!Tick!Spec => []System!Tick!StaleDataAlertedOnce
  BY System!StaleDataIsAlertedOnce
<1>2. ~ (part = "ticks") \/ Tick!StaleDataAlertedOnce => StaleDataAlertedOnce
  BY DEF StaleDataAlertedOnce
<1>3. QED
  BY <1>1, <1>2, TickSame, TickRuns, PTL DEF Spec, System!Tick!Spec

(***************************************************************************)
(* The fan-out over the counties.                                          *)
(***************************************************************************)
\* The part of a behaviour that is about the counties.
LEMMA FanRuns ==
  /\ Init /\ part = "counties" => Fan!Init
  /\ part = "counties" /\ [Next]_vars => (part = "counties")' /\ [Fan!Next]_(Fan!vars)
  /\ ~ (part = "counties") /\ [Next]_vars => ~ (part = "counties")'
BY DEF Init, Next, vars, Fan!vars, FanVars

\* The definitions System is proved about are these.
LEMMA FanSame ==
  /\ Fan!Init => System!Fan!Init
  /\ [Fan!Next]_(Fan!vars) => [System!Fan!Next]_(System!Fan!vars)
  /\ System!Fan!TypeOK => Fan!TypeOK
  /\ System!Fan!HealthyCountiesSurvive => Fan!HealthyCountiesSurvive
<1>1. Fan!Init => System!Fan!Init
  BY Zenon DEF
     System!Fan!Init, System!Fan!Counties, System!Fan!Task, System!Fan!Pending, Fan!Init,
     Fan!Counties, Fan!Task, Fan!Pending
<1>2. Fan!Next => System!Fan!Next
  BY Zenon DEF
     System!Fan!Next, System!Fan!Counties, System!Fan!Skip, System!Fan!Queued,
     System!Fan!Ending, System!Fan!Enter, System!Fan!Cardinality, System!Fan!Running,
     System!Fan!Search, System!Fan!Produced, System!Fan!After, System!Fan!Harvest,
     System!Fan!Pass, System!Fan!Spends, System!Fan!Abandon, System!Fan!Gather,
     System!Fan!Gathered, System!Fan!SignalsOf, Fan!Next, Fan!Counties, Fan!Skip,
     Fan!Queued, Fan!Ending, Fan!Enter, Fan!Cardinality, Fan!Running, Fan!Search,
     Fan!Produced, Fan!After, Fan!Harvest, Fan!Pass, Fan!Spends, Fan!Abandon, Fan!Gather,
     Fan!Gathered, Fan!SignalsOf
<1>3. UNCHANGED Fan!vars => UNCHANGED System!Fan!vars
  BY DEF Fan!vars, System!Fan!vars
<1>4. System!Fan!TypeOK => Fan!TypeOK
  BY Zenon DEF
     System!Fan!TypeOK, System!Fan!Counties, System!Fan!Phases, System!Fan!Endings,
     Fan!TypeOK, Fan!Counties, Fan!Phases, Fan!Endings
<1>5. System!Fan!HealthyCountiesSurvive => Fan!HealthyCountiesSurvive
  BY Zenon DEF
     System!Fan!HealthyCountiesSurvive, System!Fan!Waves, System!Fan!Counties,
     System!Fan!Phases, System!Fan!Unhurt, Fan!HealthyCountiesSurvive, Fan!Waves,
     Fan!Counties, Fan!Phases, Fan!Unhurt
<1>6. QED
  BY <1>1, <1>2, <1>3, <1>4, <1>5

\* The portals behave in ways there are.
LEMMA FanFits == System!FanAssumption
<1>1. ASSUME NEW a \in System!Fan!Endings, NEW b \in System!Fan!Endings
      PROVE  Is(a, b) \in [System!Fan!Phases -> System!Fan!Endings]
  BY DEF System!Fan!Phases, Is
<1>2. \A a, b : Is(a, b)["procurement"] = a /\ Is(a, b)["hcl"] = b
  BY DEF Is
<1>3. \A p \in Behaviours : p \in [System!Fan!Phases -> System!Fan!Endings]
  BY <1>1 DEF Behaviours, System!Fan!Endings
<1>4. \A p \in Behaviours : p["procurement"] = "no entry" => p["hcl"] = "no entry"
  <2>1. \A a, b : "no entry" # a \/ b = "no entry" =>
          (Is(a, b)["procurement"] = "no entry" => Is(a, b)["hcl"] = "no entry")
    BY <1>2
  <2>2. QED
    BY <2>1 DEF Behaviours
<1>5. Behaviours \subseteq {p \in [System!Fan!Phases -> System!Fan!Endings] :
                        p["procurement"] = "no entry" => p["hcl"] = "no entry"}
  BY <1>3, <1>4, Zenon
<1>6. 3 \in Nat /\ 2 \in Nat \ {0}
  OBVIOUS
<1>7. QED
  BY <1>5, <1>6, Zenon DEF System!FanAssumption

LEMMA FanTyped == Spec => [](part = "counties" => Fan!TypeOK)
<1>1. System!Fan!Spec => []System!Fan!TypeOK
  BY System!FanTypes, FanFits
<1>2. QED
  BY <1>1, FanSame, FanRuns, PTL DEF Spec, System!Fan!Spec

\* Every county's answer is in the result, which is there within its waves.
THEOREM CountiesDoNotHurtEachOther == Spec => []HealthyCountiesSurvive
<1>1. System!Fan!Spec => []System!Fan!HealthyCountiesSurvive
  BY FanFits, System!CountiesDoNotHurtEachOther
<1>2. ~ (part = "counties") \/ Fan!HealthyCountiesSurvive => HealthyCountiesSurvive
  BY DEF HealthyCountiesSurvive
<1>3. QED
  BY <1>1, <1>2, FanSame, FanRuns, PTL DEF Spec, System!Fan!Spec

(***************************************************************************)
(* The procurement notices.                                                *)
(***************************************************************************)
\* The part of a behaviour that is about the notices.
LEMMA AwardRuns ==
  /\ Init /\ part = "awards" => Award!Init
  /\ part = "awards" /\ [Next]_vars => (part = "awards")' /\ [Award!Next]_(Award!vars)
  /\ ~ (part = "awards") /\ [Next]_vars => ~ (part = "awards")'
BY DEF Init, Next, vars, Award!vars, AwardVars

\* The definitions System is proved about are these.
LEMMA AwardSame ==
  /\ Award!Init => System!Award!Init
  /\ [Award!Next]_(Award!vars) => [System!Award!Next]_(System!Award!vars)
  /\ System!Award!TypeOK => Award!TypeOK
  /\ System!Award!StatisticsRestOnOutcomes => Award!StatisticsRestOnOutcomes
<1>1. Award!Init => System!Award!Init
  BY Zenon DEF
     System!Award!Init, System!Award!Unpublished, Award!Init, Award!Unpublished
<1>2. Award!Next => System!Award!Next
  BY Zenon DEF
     System!Award!Next, System!Award!Publish, System!Award!Unpublished,
     System!Award!Correct, System!Award!Accept, System!Award!Notify,
     System!Award!FetchPurchase, System!Award!Upsert, System!Award!SameNotice,
     System!Award!Purchase, System!Award!FetchAward, System!Award!AwardNotice, Award!Next,
     Award!Publish, Award!Unpublished, Award!Correct, Award!Accept, Award!Notify,
     Award!FetchPurchase, Award!Upsert, Award!SameNotice, Award!Purchase, Award!FetchAward,
     Award!AwardNotice
<1>3. UNCHANGED Award!vars => UNCHANGED System!Award!vars
  BY DEF Award!vars, System!Award!vars
<1>4. System!Award!TypeOK => Award!TypeOK
  BY Zenon DEF
     System!Award!TypeOK, Award!TypeOK
<1>5. System!Award!StatisticsRestOnOutcomes => Award!StatisticsRestOnOutcomes
  BY Zenon DEF
     System!Award!StatisticsRestOnOutcomes, System!Award!Wins, System!Award!Cardinality,
     System!Award!Awards, System!Award!IsAward, System!Award!Priced,
     System!Award!TwoFigures, System!Award!BothStated, Award!StatisticsRestOnOutcomes,
     Award!Wins, Award!Cardinality, Award!Awards, Award!IsAward, Award!Priced,
     Award!TwoFigures, Award!BothStated
<1>6. QED
  BY <1>1, <1>2, <1>3, <1>4, <1>5

\* The purchases are so many.
LEMMA AwardFits == System!AwardAssumption
<1>1. IsFiniteSet({"p1"}) /\ {"p1", "p2"} = {"p1"} \cup {"p2"}
  BY FS_Singleton
<1>2. IsFiniteSet({"p1", "p2"})
  BY <1>1, FS_AddElement
<1>3. System!IsFiniteSet({"p1", "p2"}) = IsFiniteSet({"p1", "p2"})
  BY Zenon DEF System!IsFiniteSet, IsFiniteSet
<1>4. QED
  BY <1>2, <1>3 DEF System!AwardAssumption

LEMMA AwardTyped == Spec => [](part = "awards" => Award!TypeOK)
<1>1. System!Award!Spec => []System!Award!TypeOK
  BY System!AwardTypes
<1>2. QED
  BY <1>1, AwardSame, AwardRuns, PTL DEF Spec, System!Award!Spec

\* What the statistics count as won was won, at its published figures.
THEOREM StatisticsAreOfOutcomes == Spec => []StatisticsRestOnOutcomes
<1>1. System!Award!Spec => []System!Award!StatisticsRestOnOutcomes
  BY AwardFits, System!StatisticsAreOfOutcomes
<1>2. ~ (part = "awards") \/ Award!StatisticsRestOnOutcomes => StatisticsRestOnOutcomes
  BY DEF StatisticsRestOnOutcomes
<1>3. QED
  BY <1>1, <1>2, AwardSame, AwardRuns, PTL DEF Spec, System!Award!Spec

(***************************************************************************)
(* The alerts beside the ranked feed.                                      *)
(***************************************************************************)
\* The part of a behaviour that is about the alerts.
LEMMA RelRuns ==
  /\ Init /\ part = "relevance" => Rel!Init
  /\ part = "relevance" /\ [Next]_vars => (part = "relevance")' /\ [Rel!Next]_(Rel!vars)
  /\ ~ (part = "relevance") /\ [Next]_vars => ~ (part = "relevance")'
BY DEF Init, Next, vars, Rel!vars, RelVars

\* The definitions System is proved about are these.
LEMMA RelSame ==
  /\ Rel!Init => System!Rel!Init
  /\ [Rel!Next]_(Rel!vars) => [System!Rel!Next]_(System!Rel!vars)
  /\ System!Rel!TypeOK => Rel!TypeOK
  /\ System!Rel!AlertedLeadsAreFound => Rel!AlertedLeadsAreFound
<1>1. Rel!Init => System!Rel!Init
  BY Zenon DEF
     System!Rel!Init, Rel!Init
<1>2. Rel!Next => System!Rel!Next
  BY Zenon DEF
     System!Rel!Next, System!Rel!Save, System!Rel!BeginTick, System!Rel!Persist,
     System!Rel!Upserted, System!Rel!Stored, System!Rel!Alerts, System!Rel!Evidence,
     System!Rel!Hits, System!Rel!Cardinality, System!Rel!Text, System!Rel!Score,
     System!Rel!Points, System!Rel!SameDomain, System!Rel!EndTick, Rel!Next, Rel!Save,
     Rel!BeginTick, Rel!Persist, Rel!Upserted, Rel!Stored, Rel!Alerts, Rel!Evidence,
     Rel!Hits, Rel!Cardinality, Rel!Text, Rel!Score, Rel!Points, Rel!SameDomain,
     Rel!EndTick, System!Rel!Known, Rel!Known
<1>3. UNCHANGED Rel!vars => UNCHANGED System!Rel!vars
  BY DEF Rel!vars, System!Rel!vars
<1>4. System!Rel!TypeOK => Rel!TypeOK
  BY Zenon DEF
     System!Rel!TypeOK, System!Rel!Stored, Rel!TypeOK, Rel!Stored
<1>5. System!Rel!AlertedLeadsAreFound => Rel!AlertedLeadsAreFound
  BY Zenon DEF
     System!Rel!AlertedLeadsAreFound, System!Rel!Feed, System!Rel!Cardinality,
     System!Rel!Precedes, System!Rel!IsMatch, System!Rel!AnyHit, System!Rel!KeywordHit,
     System!Rel!Hits, System!Rel!Blob, System!Rel!CountyHit, System!Rel!DomainHit,
     System!Rel!SameDomain, System!Rel!ValueHit, System!Rel!ExcludedHit, System!Rel!Weight,
     System!Rel!Badge, Rel!AlertedLeadsAreFound, Rel!Feed, Rel!Cardinality, Rel!Precedes,
     Rel!IsMatch, Rel!AnyHit, Rel!KeywordHit, Rel!Hits, Rel!Blob, Rel!CountyHit,
     Rel!DomainHit, Rel!SameDomain, Rel!ValueHit, Rel!ExcludedHit, Rel!Weight, Rel!Badge,
     System!Rel!Stored, System!Rel!Evidence, System!Rel!Text, Rel!Stored, Rel!Evidence,
     Rel!Text
<1>6. QED
  BY <1>1, <1>2, <1>3, <1>4, <1>5

\* A lead has so many words.
LEMMA RelFits == System!RelAssumption
<1> DEFINE Small(S) == S \in {{}, {"road"}, {"road", "bridge"}, {"army"}, {"scanner"}, {"bridge"},
                            {"pier"}}
<1>1. \A S : Small(S) => IsFiniteSet(S)
  <2>1. IsFiniteSet({}) /\ \A x : IsFiniteSet({x})
    BY FS_EmptySet, FS_Singleton
  <2>2. {"road", "bridge"} = {"road"} \cup {"bridge"}
    OBVIOUS
  <2>3. IsFiniteSet({"road", "bridge"})
    BY <2>1, <2>2, FS_AddElement
  <2>4. QED
    BY <2>1, <2>3
<1>2. \A l \in SomeLeads : Small(l.title) /\ Small(l.kind) /\ Small(l.name)
  <2>1. ASSUME NEW l \in SomeLeads PROVE Small(l.title) /\ Small(l.kind) /\ Small(l.name)
    <3>1. CASE l = Lead("a", {}, {"road"}, {}, "iasi", "infra", 0, TRUE, 3)
      BY <3>1 DEF Lead
    <3>2. CASE l = Lead("b", {"road", "bridge"}, {}, {"army"}, "cluj", "infra", 2, FALSE, 9)
      BY <3>2 DEF Lead
    <3>3. CASE l = Lead("b", {"pier"}, {}, {"army"}, "cluj", "infra", 2, FALSE, 9)
      BY <3>3 DEF Lead
    <3>4. CASE l = Lead("c", {"scanner"}, {}, {"road"}, "iasi", "health", 2, FALSE, 10)
      BY <3>4 DEF Lead
    <3>5. CASE l = Lead("d", {"bridge"}, {"army"}, {}, "iasi", "infra", 2, TRUE, 10)
      BY <3>5 DEF Lead
    <3>6. CASE l = Lead("e", {"scanner"}, {"army"}, {}, "cluj", "health", 1, TRUE, 10)
      BY <3>6 DEF Lead
    <3>7. CASE l = Lead("e", {}, {"scanner"}, {}, "cluj", "health", 1, TRUE, 10)
      BY <3>7 DEF Lead
    <3>8. QED
      BY <3>1, <3>2, <3>3, <3>4, <3>5, <3>6, <3>7 DEF SomeLeads
  <2>2. QED
    BY <2>1
<1>3. \A S : System!IsFiniteSet(S) = IsFiniteSet(S)
  BY Zenon DEF System!IsFiniteSet, IsFiniteSet
<1>4. QED
  BY <1>1, <1>2, <1>3 DEF System!RelAssumption

LEMMA RelTyped == Spec => [](part = "relevance" => Rel!TypeOK)
<1>1. System!Rel!Spec => []System!Rel!TypeOK
  BY System!RelTypes
<1>2. QED
  BY <1>1, RelSame, RelRuns, PTL DEF Spec, System!Rel!Spec

\* A lead somebody was alerted to is one the feed gives them.
THEOREM AlertsAreFoundAgain == Spec => []AlertedLeadsAreFound
<1>1. System!Rel!Spec => []System!Rel!AlertedLeadsAreFound
  BY RelFits, System!AlertsAreFoundAgain
<1>2. ~ (part = "relevance") \/ Rel!AlertedLeadsAreFound => AlertedLeadsAreFound
  BY DEF AlertedLeadsAreFound
<1>3. QED
  BY <1>1, <1>2, RelSame, RelRuns, PTL DEF Spec, System!Rel!Spec

(***************************************************************************)
(* The assistant.                                                          *)
(***************************************************************************)
\* The part of a behaviour that is about the assistant.
LEMMA ChatRuns ==
  /\ Init /\ part = "assistant" => Chat!Init
  /\ part = "assistant" /\ [Next]_vars => (part = "assistant")' /\ [Chat!Next]_(Chat!vars)
  /\ ~ (part = "assistant") /\ [Next]_vars => ~ (part = "assistant")'
BY DEF Init, Next, vars, Chat!vars, ChatVars

\* The same is asked of the assistant in both.
LEMMA SameRequests == System!Chat!Requests = Chat!Requests
<1>1. /\ \A k, t, g, c, n, l : System!Chat!Chat(k, t, g, c, n, l) = Chat!Chat(k, t, g, c, n, l)
      /\ \A k, x : System!Chat!Draft(k, x) = Chat!Draft(k, x)
  BY Zenon DEF System!Chat!Chat, System!Chat!Draft, Chat!Chat, Chat!Draft
<1>2. System!Chat!Texts = Chat!Texts
  BY <1>1 DEF System!Chat!Texts, Chat!Texts, System!Chat!Topics, Chat!Topics
<1>3. QED
  BY <1>2 DEF System!Chat!Requests, Chat!Requests

\* The definitions System is proved about are these.
LEMMA ChatSame ==
  /\ Chat!Init => System!Chat!Init
  /\ [Chat!Next]_(Chat!vars) => [System!Chat!Next]_(System!Chat!vars)
  /\ System!Chat!TypeOK => Chat!TypeOK
  /\ System!Chat!AnswersAreEarned => Chat!AnswersAreEarned
<1>1. Chat!Init => System!Chat!Init
  BY Zenon, SameRequests DEF System!Chat!Init, System!Chat!NoRun, System!Chat!NoReply,
     Chat!Init, Chat!NoRun, Chat!NoReply
<1>2. Chat!Next => System!Chat!Next
  BY Zenon DEF
     System!Chat!Next, System!Chat!BeginCopilot, System!Chat!SmallTalk, System!Chat!Answer,
     System!Chat!Proceed, System!Chat!Bounded, System!Chat!BeginSupport,
     System!Chat!BeginDraft, System!Chat!IsDraft, System!Chat!AskProvider,
     System!Chat!Endings, System!Chat!Lasts, System!Chat!Answers, System!Chat!Accepts,
     System!Chat!DraftWith, System!Chat!Part, System!Chat!NextPart, System!Chat!GivesUp,
     System!Chat!FallBack, System!Chat!Template, Chat!Next, Chat!BeginCopilot,
     Chat!SmallTalk, Chat!Answer, Chat!Proceed, Chat!Bounded, Chat!BeginSupport,
     Chat!BeginDraft, Chat!IsDraft, Chat!AskProvider, Chat!Endings, Chat!Lasts,
     Chat!Answers, Chat!Accepts, Chat!DraftWith, Chat!Part, Chat!NextPart, Chat!GivesUp,
     Chat!FallBack, Chat!Template
<1>3. UNCHANGED Chat!vars => UNCHANGED System!Chat!vars
  BY DEF Chat!vars, System!Chat!vars
<1>4. System!Chat!TypeOK => Chat!TypeOK
  BY Zenon, SameRequests DEF System!Chat!TypeOK, Chat!TypeOK
<1>5. System!Chat!AnswersAreEarned => Chat!AnswersAreEarned
  BY Zenon DEF
     System!Chat!AnswersAreEarned, System!Chat!Templates, Chat!AnswersAreEarned,
     Chat!Templates
<1>6. QED
  BY <1>1, <1>2, <1>3, <1>4, <1>5

\* The bounds of the assistant are as its proofs assume.
LEMMA ChatFits == System!ChatAssumption
  BY DEF System!ChatAssumption

LEMMA ChatTyped == Spec => [](part = "assistant" => Chat!TypeOK)
<1>1. System!Chat!Spec => []System!Chat!TypeOK
  BY System!ChatTypes, ChatFits
<1>2. QED
  BY <1>1, ChatSame, ChatRuns, PTL DEF Spec, System!Chat!Spec

\* A substitute answers only where no model did, for the reason it gives.
THEOREM AnswersHaveTheirReason == Spec => []AnswersAreEarned
<1>1. System!Chat!Spec => []System!Chat!AnswersAreEarned
  BY ChatFits, System!AnswersHaveTheirReason
<1>2. ~ (part = "assistant") \/ Chat!AnswersAreEarned => AnswersAreEarned
  BY DEF AnswersAreEarned
<1>3. QED
  BY <1>1, <1>2, ChatSame, ChatRuns, PTL DEF Spec, System!Chat!Spec

(***************************************************************************)
(* The listings.                                                           *)
(***************************************************************************)
\* The part of a behaviour that is about a listing.
LEMMA ListingRuns ==
  /\ Init /\ part = "listing" => Listing!Init
  /\ part = "listing" /\ [Next]_vars => (part = "listing")' /\ [Listing!Next]_(Listing!vars)
  /\ ~ (part = "listing") /\ [Next]_vars => ~ (part = "listing")'
BY DEF Init, Next, vars, Listing!vars, ListVars

\* The definitions System is proved about are these.
LEMMA ListingSame ==
  /\ Listing!Init => System!Listing!Init
  /\ [Listing!Next]_(Listing!vars) => [System!Listing!Next]_(System!Listing!vars)
  /\ System!Listing!TypeOK => Listing!TypeOK
  /\ System!Listing!NothingSkippedSilently => Listing!NothingSkippedSilently
<1>1. Listing!Init => System!Listing!Init
  BY Zenon DEF
     System!Listing!Init, System!Listing!NoFetch, System!Listing!Timisoara,
     System!Listing!Rule, System!Listing!NoCache, Listing!Init, Listing!NoFetch,
     Listing!Timisoara, Listing!Rule, Listing!NoCache
<1>2. Listing!Next => System!Listing!Next
  BY Zenon DEF
     System!Listing!Next, System!Listing!Publish, System!Listing!Withdraw,
     System!Listing!Rearrange,
     System!Listing!Rules, System!Listing!DirectPurchases, System!Listing!Rule,
     System!Listing!ContractNotices, System!Listing!Consultations, System!Listing!Ted,
     System!Listing!Register, System!Listing!MinistryOfHealth, System!Listing!Oradea,
     System!Listing!Timisoara, System!Listing!FundingCalls, System!Listing!Brasov,
     System!Listing!Portal, System!Listing!Craiova, System!Listing!Galati,
     System!Listing!Ploiesti, System!Listing!Bucharest, System!Listing!Constanta,
     System!Listing!ClujPlan, System!Listing!IasiRegister, System!Listing!BorderPolice,
     System!Listing!Begin, System!Listing!NoFetch, System!Listing!Signals,
     System!Listing!Listed, System!Listing!Prime, System!Listing!ReadPage,
     System!Listing!Rows, System!Listing!PageStart, System!Listing!FirstOf,
     System!Listing!Proper, System!Listing!Items, System!Listing!PostType,
     System!Listing!Clipped,
     System!Listing!Cardinality, System!Listing!Answer, System!Listing!Beyond,
     System!Listing!Over, System!Listing!Short, System!Listing!EndWalk,
     System!Listing!PageFails, System!Listing!Expire, System!Listing!NoCache, Listing!Next,
     Listing!Publish, Listing!Rearrange, Listing!Withdraw, Listing!Rules, Listing!DirectPurchases,
     Listing!Rule, Listing!ContractNotices, Listing!Consultations, Listing!Ted,
     Listing!Register, Listing!MinistryOfHealth, Listing!Oradea, Listing!Timisoara,
     Listing!FundingCalls, Listing!Brasov, Listing!Portal, Listing!Craiova, Listing!Galati,
     Listing!Ploiesti, Listing!Bucharest, Listing!Constanta, Listing!ClujPlan,
     Listing!IasiRegister, Listing!BorderPolice, Listing!Begin, Listing!NoFetch,
     Listing!Signals, Listing!Listed, Listing!Prime, Listing!ReadPage, Listing!Rows,
     Listing!PageStart, Listing!FirstOf, Listing!Proper, Listing!PostType,
     Listing!Items, Listing!Clipped, Listing!Cardinality, Listing!Answer,
     Listing!Beyond, Listing!Over, Listing!Short, Listing!EndWalk, Listing!PageFails,
     Listing!Expire, Listing!NoCache
<1>3. UNCHANGED Listing!vars => UNCHANGED System!Listing!vars
  BY DEF Listing!vars, System!Listing!vars
<1>4. System!Listing!TypeOK => Listing!TypeOK
  BY Zenon DEF
     System!Listing!TypeOK, System!Listing!Listed, System!Listing!Items,
     System!Listing!Causes, Listing!TypeOK, Listing!Listed, Listing!Items, Listing!Causes
<1>5. System!Listing!NothingSkippedSilently => Listing!NothingSkippedSilently
  BY Zenon DEF
     System!Listing!NothingSkippedSilently, Listing!NothingSkippedSilently
<1>6. QED
  BY <1>1, <1>2, <1>3, <1>4, <1>5

\* The bounds of a walk are as its proofs assume.
LEMMA ListingFits == System!ListingAssumption
  BY DEF System!ListingAssumption

LEMMA ListingTyped == Spec => [](part = "listing" => Listing!TypeOK)
<1>1. System!Listing!Spec => []System!Listing!TypeOK
  BY System!ListingTypes, ListingFits
<1>2. QED
  BY <1>1, ListingSame, ListingRuns, PTL DEF Spec, System!Listing!Spec

\* A walk that nothing went wrong with brings what stood on the listing all the
\* while.
THEOREM WalksSkipNothing == Spec => []NothingSkippedSilently
<1>1. System!Listing!Spec => []System!Listing!NothingSkippedSilently
  BY ListingFits, System!WalksSkipNothing
<1>2. ~ (part = "listing") \/ Listing!NothingSkippedSilently => NothingSkippedSilently
  BY DEF NothingSkippedSilently
<1>3. QED
  BY <1>1, <1>2, ListingSame, ListingRuns, PTL DEF Spec, System!Listing!Spec

(***************************************************************************)
(* The push devices.                                                       *)
(***************************************************************************)
\* The part of a behaviour that is about a device that is shared.
LEMMA PushSharedRuns ==
  /\ Init /\ part = "device shared" => PushShared!Init
  /\ part = "device shared" /\ [Next]_vars => (part = "device shared")' /\ [PushShared!Next]_(PushShared!vars)
  /\ ~ (part = "device shared") /\ [Next]_vars => ~ (part = "device shared")'
BY DEF Init, Next, vars, PushShared!vars, PushVars

\* The definitions Shared is proved about are these.
LEMMA PushSharedSame ==
  /\ PushShared!Init => Shared!Push!Init
  /\ [PushShared!Next]_(PushShared!vars) => [Shared!Push!Next]_(Shared!Push!vars)
  /\ Shared!Push!TypeOK => PushShared!TypeOK
  /\ Shared!Push!PushesWereConsented => PushShared!PushesWereConsented
<1>1. PushShared!Init => Shared!Push!Init
  BY Zenon DEF
     Shared!Push!Init, Shared!Push!Switches, Shared!Push!Asleep, PushShared!Init,
     PushShared!Switches, PushShared!Asleep
<1>2. PushShared!Next => Shared!Push!Next
  BY Zenon DEF
     Shared!Push!Next, Shared!Push!Subscribe, Shared!Push!Upsert, Shared!Push!Unsubscribe,
     Shared!Push!Scoped, Shared!Push!Switches, Shared!Push!Prefer, Shared!Push!Revoke,
     Shared!Push!BeginTick, Shared!Push!Asleep, Shared!Push!Astray, Shared!Push!Leads,
     Shared!Push!Notify, Shared!Push!Decide, Shared!Push!BeginTest, Shared!Push!Send,
     Shared!Push!Settle, Shared!Push!Prunes, Shared!Push!Stop, PushShared!Next,
     PushShared!Subscribe, PushShared!Upsert, PushShared!Unsubscribe, PushShared!Scoped,
     PushShared!Switches, PushShared!Prefer, PushShared!Revoke, PushShared!BeginTick,
     PushShared!Asleep, PushShared!Astray, PushShared!Leads, PushShared!Notify,
     PushShared!Decide, PushShared!BeginTest, PushShared!Send, PushShared!Settle,
     PushShared!Prunes, PushShared!Stop
<1>3. UNCHANGED PushShared!vars => UNCHANGED Shared!Push!vars
  BY DEF PushShared!vars, Shared!Push!vars
<1>4. Shared!Push!TypeOK => PushShared!TypeOK
  BY Zenon DEF
     Shared!Push!TypeOK, Shared!Push!Switches, PushShared!TypeOK, PushShared!Switches
<1>5. Shared!Push!PushesWereConsented => PushShared!PushesWereConsented
  BY Zenon DEF
     Shared!Push!PushesWereConsented, PushShared!PushesWereConsented
<1>6. QED
  BY <1>1, <1>2, <1>3, <1>4, <1>5

\* The part of a behaviour that is about a user's devices.
LEMMA PushTwoRuns ==
  /\ Init /\ part = "devices two" => PushTwo!Init
  /\ part = "devices two" /\ [Next]_vars => (part = "devices two")' /\ [PushTwo!Next]_(PushTwo!vars)
  /\ ~ (part = "devices two") /\ [Next]_vars => ~ (part = "devices two")'
BY DEF Init, Next, vars, PushTwo!vars, PushVars

\* The definitions Single is proved about are these.
LEMMA PushTwoSame ==
  /\ PushTwo!Init => Single!Push!Init
  /\ [PushTwo!Next]_(PushTwo!vars) => [Single!Push!Next]_(Single!Push!vars)
  /\ Single!Push!TypeOK => PushTwo!TypeOK
  /\ Single!Push!PushesWereConsented => PushTwo!PushesWereConsented
<1>1. PushTwo!Init => Single!Push!Init
  BY Zenon DEF
     Single!Push!Init, Single!Push!Switches, Single!Push!Asleep, PushTwo!Init,
     PushTwo!Switches, PushTwo!Asleep
<1>2. PushTwo!Next => Single!Push!Next
  BY Zenon DEF
     Single!Push!Next, Single!Push!Subscribe, Single!Push!Upsert, Single!Push!Unsubscribe,
     Single!Push!Scoped, Single!Push!Switches, Single!Push!Prefer, Single!Push!Revoke,
     Single!Push!BeginTick, Single!Push!Asleep, Single!Push!Astray, Single!Push!Leads,
     Single!Push!Notify, Single!Push!Decide, Single!Push!BeginTest, Single!Push!Send,
     Single!Push!Settle, Single!Push!Prunes, Single!Push!Stop, PushTwo!Next,
     PushTwo!Subscribe, PushTwo!Upsert, PushTwo!Unsubscribe, PushTwo!Scoped,
     PushTwo!Switches, PushTwo!Prefer, PushTwo!Revoke, PushTwo!BeginTick, PushTwo!Asleep,
     PushTwo!Astray, PushTwo!Leads, PushTwo!Notify, PushTwo!Decide, PushTwo!BeginTest,
     PushTwo!Send, PushTwo!Settle, PushTwo!Prunes, PushTwo!Stop
<1>3. UNCHANGED PushTwo!vars => UNCHANGED Single!Push!vars
  BY DEF PushTwo!vars, Single!Push!vars
<1>4. Single!Push!TypeOK => PushTwo!TypeOK
  BY Zenon DEF
     Single!Push!TypeOK, Single!Push!Switches, PushTwo!TypeOK, PushTwo!Switches
<1>5. Single!Push!PushesWereConsented => PushTwo!PushesWereConsented
  BY Zenon DEF
     Single!Push!PushesWereConsented, PushTwo!PushesWereConsented
<1>6. QED
  BY <1>1, <1>2, <1>3, <1>4, <1>5

LEMMA PushSharedTyped == Spec => [](part = "device shared" => PushShared!TypeOK)
<1>1. Shared!Push!Spec => []Shared!Push!TypeOK
  BY Shared!PushTypes
<1>2. QED
  BY <1>1, PushSharedSame, PushSharedRuns, PTL DEF Spec, Shared!Push!Spec

LEMMA PushTwoTyped == Spec => [](part = "devices two" => PushTwo!TypeOK)
<1>1. Single!Push!Spec => []Single!Push!TypeOK
  BY Single!PushTypes
<1>2. QED
  BY <1>1, PushTwoSame, PushTwoRuns, PTL DEF Spec, Single!Push!Spec

\* What reaches a telephone was meant for its user, who had asked for it.
THEOREM PushesAreConsented == Spec => []PushesWereConsented
<1>1. Shared!Push!Spec => []Shared!Push!PushesWereConsented
  BY Shared!PushesAreConsented
<1>2. Single!Push!Spec => []Single!Push!PushesWereConsented
  BY Single!PushesAreConsented
<1>3. /\ ~ (part = "device shared") \/ PushShared!PushesWereConsented
      /\ ~ (part = "devices two") \/ PushTwo!PushesWereConsented
      => PushesWereConsented
  BY DEF PushesWereConsented
<1>4. QED
  BY <1>1, <1>2, <1>3, PushSharedSame, PushSharedRuns, PushTwoSame, PushTwoRuns,
     PTL DEF Spec, Shared!Push!Spec, Single!Push!Spec

\* No registration leaves without its user, the device's next user or the push
\* service having had a hand in it, in whatever part of the system.
THEOREM RegistrationsLeaveForAReason == Spec => RowsLeaveForAReason
<1> DEFINE Left(Who) ==
      \A r \in push_rows \ push_rows' :
        \/ push_event' # None /\ push_event'.reason = "unsubscribe" /\ push_event'.row = r
        \/ \E v \in Who : <<r[1], v>> \in push_rows'
        \/ r[1] \notin push_alive
<1>1. Shared!Push!Spec => [][Left({"ana", "dan"})]_(Shared!Push!vars)
  <2>1. Shared!PushAssumption
    BY NoneAssumption DEF Shared!PushAssumption
  <2>2. QED
    BY <2>1, Shared!RegistrationsLeaveForAReason DEF Shared!Push!RowsLeaveForAReason
<1>2. Single!Push!Spec => [][Left({"ana"})]_(Single!Push!vars)
  <2>1. Single!PushAssumption
    BY NoneAssumption DEF Single!PushAssumption
  <2>2. QED
    BY <2>1, Single!RegistrationsLeaveForAReason DEF Single!Push!RowsLeaveForAReason
<1>3. [Left({"ana", "dan"})]_(Shared!Push!vars) => [Left({"ana", "dan"})]_(PushShared!vars)
  BY DEF PushShared!vars, Shared!Push!vars
<1>4. [Left({"ana"})]_(Single!Push!vars) => [Left({"ana", "dan"})]_(PushShared!vars)
  BY DEF PushShared!vars, Single!Push!vars
<1>5. ~ (part = "device shared") /\ ~ (part = "devices two") /\ [Next]_vars =>
        [Left({"ana", "dan"})]_(PushShared!vars)
  BY DEF Next, vars, PushVars, PushShared!vars
<1>6. ([][Left({"ana", "dan"})]_(PushShared!vars)) => RowsLeaveForAReason
  BY DEF RowsLeaveForAReason, PushShared!RowsLeaveForAReason
<1> HIDE DEF Left
<1>7. QED
  BY <1>1, <1>2, <1>3, <1>4, <1>5, <1>6, PushSharedSame, PushSharedRuns, PushTwoSame,
     PushTwoRuns, PTL DEF Spec, Shared!Push!Spec, Single!Push!Spec

(***************************************************************************)
(* The feed.                                                               *)
(***************************************************************************)
\* The part of a behaviour that is about several users' feeds.
LEMMA FeedUsersRuns ==
  /\ Init /\ part = "feed users" => FeedUsers!Init
  /\ part = "feed users" /\ [Next]_vars => (part = "feed users")' /\ [FeedUsers!Next]_(FeedUsers!vars)
  /\ ~ (part = "feed users") /\ [Next]_vars => ~ (part = "feed users")'
BY DEF Init, Next, vars, FeedUsers!vars, FeedVars

\* The definitions Shared is proved about are these.
LEMMA FeedUsersSame ==
  /\ FeedUsers!Init => Shared!Feed!Init
  /\ [FeedUsers!Next]_(FeedUsers!vars) => [Shared!Feed!Next]_(Shared!Feed!vars)
  /\ Shared!Feed!TypeOK => FeedUsers!TypeOK
  /\ Shared!Feed!FeedIsCurrent => FeedUsers!FeedIsCurrent
<1>1. FeedUsers!Init => Shared!Feed!Init
  BY Zenon DEF
     Shared!Feed!Init, Shared!Feed!Keys, Shared!Feed!Idle, FeedUsers!Init, FeedUsers!Keys,
     FeedUsers!Idle
<1>2. FeedUsers!Next => Shared!Feed!Next
  BY Zenon DEF
     Shared!Feed!Next, Shared!Feed!Miss, Shared!Feed!Key, Shared!Feed!Idle,
     Shared!Feed!Expired, Shared!Feed!ReadProfile, Shared!Feed!FallBack, Shared!Feed!Fill,
     Shared!Feed!Put, Shared!Feed!Sweep, Shared!Feed!Keys, Shared!Feed!GiveUp,
     Shared!Feed!Save, Shared!Feed!Saved, Shared!Feed!Invalidate, Shared!Feed!SaveBreaks,
     Shared!Feed!InvalidateAll, Shared!Feed!Pass, Shared!Feed!Older, Shared!Feed!Oldest,
     FeedUsers!Next, FeedUsers!Miss, FeedUsers!Key, FeedUsers!Idle, FeedUsers!Expired,
     FeedUsers!ReadProfile, FeedUsers!FallBack, FeedUsers!Fill, FeedUsers!Put,
     FeedUsers!Sweep, FeedUsers!Keys, FeedUsers!GiveUp, FeedUsers!Save, FeedUsers!Saved,
     FeedUsers!Invalidate, FeedUsers!SaveBreaks, FeedUsers!InvalidateAll, FeedUsers!Pass,
     FeedUsers!Older, FeedUsers!Oldest
<1>3. UNCHANGED FeedUsers!vars => UNCHANGED Shared!Feed!vars
  BY DEF FeedUsers!vars, Shared!Feed!vars
<1>4. Shared!Feed!TypeOK => FeedUsers!TypeOK
  BY Zenon DEF
     Shared!Feed!TypeOK, Shared!Feed!Keys, Shared!Feed!Entry, Shared!Feed!Oldest,
     FeedUsers!TypeOK, FeedUsers!Keys, FeedUsers!Entry, FeedUsers!Oldest
<1>5. Shared!Feed!FeedIsCurrent => FeedUsers!FeedIsCurrent
  BY Zenon DEF
     Shared!Feed!FeedIsCurrent, Shared!Feed!Keys, FeedUsers!FeedIsCurrent, FeedUsers!Keys
<1>6. QED
  BY <1>1, <1>2, <1>3, <1>4, <1>5

\* The part of a behaviour that is about a user's feeds.
LEMMA FeedFiltersRuns ==
  /\ Init /\ part = "feed filters" => FeedFilters!Init
  /\ part = "feed filters" /\ [Next]_vars => (part = "feed filters")' /\ [FeedFilters!Next]_(FeedFilters!vars)
  /\ ~ (part = "feed filters") /\ [Next]_vars => ~ (part = "feed filters")'
BY DEF Init, Next, vars, FeedFilters!vars, FeedVars

\* The definitions Single is proved about are these.
LEMMA FeedFiltersSame ==
  /\ FeedFilters!Init => Single!Feed!Init
  /\ [FeedFilters!Next]_(FeedFilters!vars) => [Single!Feed!Next]_(Single!Feed!vars)
  /\ Single!Feed!TypeOK => FeedFilters!TypeOK
  /\ Single!Feed!FeedIsCurrent => FeedFilters!FeedIsCurrent
<1>1. FeedFilters!Init => Single!Feed!Init
  BY Zenon DEF
     Single!Feed!Init, Single!Feed!Keys, Single!Feed!Idle, FeedFilters!Init,
     FeedFilters!Keys, FeedFilters!Idle
<1>2. FeedFilters!Next => Single!Feed!Next
  BY Zenon DEF
     Single!Feed!Next, Single!Feed!Miss, Single!Feed!Key, Single!Feed!Idle,
     Single!Feed!Expired, Single!Feed!ReadProfile, Single!Feed!FallBack, Single!Feed!Fill,
     Single!Feed!Put, Single!Feed!Sweep, Single!Feed!Keys, Single!Feed!GiveUp,
     Single!Feed!Save, Single!Feed!Saved, Single!Feed!Invalidate, Single!Feed!SaveBreaks,
     Single!Feed!InvalidateAll, Single!Feed!Pass, Single!Feed!Older, Single!Feed!Oldest,
     FeedFilters!Next, FeedFilters!Miss, FeedFilters!Key, FeedFilters!Idle,
     FeedFilters!Expired, FeedFilters!ReadProfile, FeedFilters!FallBack, FeedFilters!Fill,
     FeedFilters!Put, FeedFilters!Sweep, FeedFilters!Keys, FeedFilters!GiveUp,
     FeedFilters!Save, FeedFilters!Saved, FeedFilters!Invalidate, FeedFilters!SaveBreaks,
     FeedFilters!InvalidateAll, FeedFilters!Pass, FeedFilters!Older, FeedFilters!Oldest
<1>3. UNCHANGED FeedFilters!vars => UNCHANGED Single!Feed!vars
  BY DEF FeedFilters!vars, Single!Feed!vars
<1>4. Single!Feed!TypeOK => FeedFilters!TypeOK
  BY Zenon DEF
     Single!Feed!TypeOK, Single!Feed!Keys, Single!Feed!Entry, Single!Feed!Oldest,
     FeedFilters!TypeOK, FeedFilters!Keys, FeedFilters!Entry, FeedFilters!Oldest
<1>5. Single!Feed!FeedIsCurrent => FeedFilters!FeedIsCurrent
  BY Zenon DEF
     Single!Feed!FeedIsCurrent, Single!Feed!Keys, FeedFilters!FeedIsCurrent,
     FeedFilters!Keys
<1>6. QED
  BY <1>1, <1>2, <1>3, <1>4, <1>5

\* The bounds of the feeds are numbers.
LEMMA FeedsFit == Shared!FeedAssumption /\ Single!FeedAssumption
  BY DEF Shared!FeedAssumption, Single!FeedAssumption

LEMMA FeedUsersTyped == Spec => [](part = "feed users" => FeedUsers!TypeOK)
<1>1. Shared!Feed!Spec => []Shared!Feed!TypeOK
  BY Shared!FeedTypes, FeedsFit
<1>2. QED
  BY <1>1, FeedUsersSame, FeedUsersRuns, PTL DEF Spec, Shared!Feed!Spec

LEMMA FeedFiltersTyped == Spec => [](part = "feed filters" => FeedFilters!TypeOK)
<1>1. Single!Feed!Spec => []Single!Feed!TypeOK
  BY Single!FeedTypes, FeedsFit
<1>2. QED
  BY <1>1, FeedFiltersSame, FeedFiltersRuns, PTL DEF Spec, Single!Feed!Spec

\* A feed that is served answers its query by its user's saved criteria.
THEOREM FeedsAreCurrent == Spec => []FeedIsCurrent
<1>1. Shared!Feed!Spec => []Shared!Feed!FeedIsCurrent
  BY Shared!FeedsAreCurrent
<1>2. Single!Feed!Spec => []Single!Feed!FeedIsCurrent
  BY Single!FeedsAreCurrent
<1>3. /\ ~ (part = "feed users") \/ FeedUsers!FeedIsCurrent
      /\ ~ (part = "feed filters") \/ FeedFilters!FeedIsCurrent
      => FeedIsCurrent
  BY DEF FeedIsCurrent
<1>4. QED
  BY <1>1, <1>2, <1>3, FeedUsersSame, FeedUsersRuns, FeedFiltersSame, FeedFiltersRuns,
     PTL DEF Spec, Shared!Feed!Spec, Single!Feed!Spec

(***************************************************************************)
(* The deal pipeline.                                                      *)
(***************************************************************************)
\* The part of a behaviour that is about several users' deals.
LEMMA DealTwoRuns ==
  /\ Init /\ part = "deals two" => DealTwo!Init
  /\ part = "deals two" /\ [Next]_vars => (part = "deals two")' /\ [DealTwo!Next]_(DealTwo!vars)
  /\ ~ (part = "deals two") /\ [Next]_vars => ~ (part = "deals two")'
BY DEF Init, Next, vars, DealTwo!vars, DealVars

\* The definitions Shared is proved about are these.
LEMMA DealTwoSame ==
  /\ DealTwo!Init => Shared!Pipeline!Init
  /\ [DealTwo!Next]_(DealTwo!vars) => [Shared!Pipeline!Next]_(Shared!Pipeline!vars)
  /\ Shared!Pipeline!TypeOK => DealTwo!TypeOK
  /\ Shared!Pipeline!CopiesNeedAReason => DealTwo!CopiesNeedAReason
  /\ Shared!Pipeline!HistoryAccountsForStage => DealTwo!HistoryAccountsForStage
  /\ Shared!Pipeline!RemovalHolds => DealTwo!RemovalHolds
<1>1. DealTwo!Init => Shared!Pipeline!Init
  BY Zenon DEF
     Shared!Pipeline!Init, Shared!Pipeline!Idle, DealTwo!Init, DealTwo!Idle
<1>2. DealTwo!Next => Shared!Pipeline!Next
  BY Zenon DEF
     Shared!Pipeline!Next, Shared!Pipeline!BeginAdd, Shared!Pipeline!Saved,
     Shared!Pipeline!FoundInTable, Shared!Pipeline!NoOutage, Shared!Pipeline!Outage,
     Shared!Pipeline!Fresh, Shared!Pipeline!Cardinality, Shared!Pipeline!Adding,
     Shared!Pipeline!Remove, Shared!Pipeline!OwnRow, Shared!Pipeline!DeleteRow,
     Shared!Pipeline!OwnEntry, Shared!Pipeline!Stages, Shared!Pipeline!BeginMove,
     Shared!Pipeline!MoveEntry, Shared!Pipeline!Insert, Shared!Pipeline!Idle,
     Shared!Pipeline!UpdateRow, Shared!Pipeline!IsMove, Shared!Pipeline!RecordTransition,
     Shared!Pipeline!Restart, DealTwo!Next, DealTwo!BeginAdd, DealTwo!Saved,
     DealTwo!FoundInTable, DealTwo!NoOutage, DealTwo!Outage, DealTwo!Fresh,
     DealTwo!Cardinality, DealTwo!Adding, DealTwo!Remove, DealTwo!OwnRow, DealTwo!DeleteRow,
     DealTwo!OwnEntry, DealTwo!Stages, DealTwo!BeginMove, DealTwo!MoveEntry, DealTwo!Insert,
     DealTwo!Idle, DealTwo!UpdateRow, DealTwo!IsMove, DealTwo!RecordTransition,
     DealTwo!Restart
<1>3. UNCHANGED DealTwo!vars => UNCHANGED Shared!Pipeline!vars
  BY DEF DealTwo!vars, Shared!Pipeline!vars
<1>4. Shared!Pipeline!TypeOK => DealTwo!TypeOK
  BY Zenon DEF
     Shared!Pipeline!TypeOK, Shared!Pipeline!Deal, Shared!Pipeline!Stages, DealTwo!TypeOK,
     DealTwo!Deal, DealTwo!Stages
<1>5. Shared!Pipeline!CopiesNeedAReason => DealTwo!CopiesNeedAReason
  BY Zenon DEF
     Shared!Pipeline!CopiesNeedAReason, Shared!Pipeline!Cardinality, Shared!Pipeline!Saved,
     DealTwo!CopiesNeedAReason, DealTwo!Cardinality, DealTwo!Saved
<1>6. Shared!Pipeline!HistoryAccountsForStage => DealTwo!HistoryAccountsForStage
  BY Zenon DEF
     Shared!Pipeline!HistoryAccountsForStage, DealTwo!HistoryAccountsForStage
<1>7. Shared!Pipeline!RemovalHolds => DealTwo!RemovalHolds
  BY Zenon DEF
     Shared!Pipeline!RemovalHolds, DealTwo!RemovalHolds
<1>8. QED
  BY <1>1, <1>2, <1>3, <1>4, <1>5, <1>6, <1>7

\* The part of a behaviour that is about a user's deals.
LEMMA DealOneRuns ==
  /\ Init /\ part = "deals one" => DealOne!Init
  /\ part = "deals one" /\ [Next]_vars => (part = "deals one")' /\ [DealOne!Next]_(DealOne!vars)
  /\ ~ (part = "deals one") /\ [Next]_vars => ~ (part = "deals one")'
BY DEF Init, Next, vars, DealOne!vars, DealVars

\* The definitions Single is proved about are these.
LEMMA DealOneSame ==
  /\ DealOne!Init => Single!Pipeline!Init
  /\ [DealOne!Next]_(DealOne!vars) => [Single!Pipeline!Next]_(Single!Pipeline!vars)
  /\ Single!Pipeline!TypeOK => DealOne!TypeOK
  /\ Single!Pipeline!CopiesNeedAReason => DealOne!CopiesNeedAReason
  /\ Single!Pipeline!HistoryAccountsForStage => DealOne!HistoryAccountsForStage
  /\ Single!Pipeline!RemovalHolds => DealOne!RemovalHolds
<1>1. DealOne!Init => Single!Pipeline!Init
  BY Zenon DEF
     Single!Pipeline!Init, Single!Pipeline!Idle, DealOne!Init, DealOne!Idle
<1>2. DealOne!Next => Single!Pipeline!Next
  BY Zenon DEF
     Single!Pipeline!Next, Single!Pipeline!BeginAdd, Single!Pipeline!Saved,
     Single!Pipeline!FoundInTable, Single!Pipeline!NoOutage, Single!Pipeline!Outage,
     Single!Pipeline!Fresh, Single!Pipeline!Cardinality, Single!Pipeline!Adding,
     Single!Pipeline!Remove, Single!Pipeline!OwnRow, Single!Pipeline!DeleteRow,
     Single!Pipeline!OwnEntry, Single!Pipeline!Stages, Single!Pipeline!BeginMove,
     Single!Pipeline!MoveEntry, Single!Pipeline!Insert, Single!Pipeline!Idle,
     Single!Pipeline!UpdateRow, Single!Pipeline!IsMove, Single!Pipeline!RecordTransition,
     Single!Pipeline!Restart, DealOne!Next, DealOne!BeginAdd, DealOne!Saved,
     DealOne!FoundInTable, DealOne!NoOutage, DealOne!Outage, DealOne!Fresh,
     DealOne!Cardinality, DealOne!Adding, DealOne!Remove, DealOne!OwnRow, DealOne!DeleteRow,
     DealOne!OwnEntry, DealOne!Stages, DealOne!BeginMove, DealOne!MoveEntry, DealOne!Insert,
     DealOne!Idle, DealOne!UpdateRow, DealOne!IsMove, DealOne!RecordTransition,
     DealOne!Restart
<1>3. UNCHANGED DealOne!vars => UNCHANGED Single!Pipeline!vars
  BY DEF DealOne!vars, Single!Pipeline!vars
<1>4. Single!Pipeline!TypeOK => DealOne!TypeOK
  BY Zenon DEF
     Single!Pipeline!TypeOK, Single!Pipeline!Deal, Single!Pipeline!Stages, DealOne!TypeOK,
     DealOne!Deal, DealOne!Stages
<1>5. Single!Pipeline!CopiesNeedAReason => DealOne!CopiesNeedAReason
  BY Zenon DEF
     Single!Pipeline!CopiesNeedAReason, Single!Pipeline!Cardinality, Single!Pipeline!Saved,
     DealOne!CopiesNeedAReason, DealOne!Cardinality, DealOne!Saved
<1>6. Single!Pipeline!HistoryAccountsForStage => DealOne!HistoryAccountsForStage
  BY Zenon DEF
     Single!Pipeline!HistoryAccountsForStage, DealOne!HistoryAccountsForStage
<1>7. Single!Pipeline!RemovalHolds => DealOne!RemovalHolds
  BY Zenon DEF
     Single!Pipeline!RemovalHolds, DealOne!RemovalHolds
<1>8. QED
  BY <1>1, <1>2, <1>3, <1>4, <1>5, <1>6, <1>7

\* Both instances have as many ids and requests as their sets name.
LEMMA DealsAreFinite == Shared!PipelineAssumption /\ Single!PipelineAssumption
<1>1. IsFiniteSet({"d1"}) /\ IsFiniteSet({"r1"})
  BY FS_Singleton
<1>2. {"d1", "d2"} = {"d1"} \cup {"d2"} /\ {"r1", "r2"} = {"r1"} \cup {"r2"}
  OBVIOUS
<1>3. IsFiniteSet({"d1", "d2"}) /\ IsFiniteSet({"r1", "r2"})
  BY <1>1, <1>2, FS_AddElement
<1>4. \A S : Shared!IsFiniteSet(S) = IsFiniteSet(S) /\ Single!IsFiniteSet(S) = IsFiniteSet(S)
  BY Zenon DEF Shared!IsFiniteSet, Single!IsFiniteSet, IsFiniteSet
<1>5. QED
  BY <1>1, <1>3, <1>4 DEF Shared!PipelineAssumption, Single!PipelineAssumption

LEMMA DealTwoTyped == Spec => [](part = "deals two" => DealTwo!TypeOK)
<1>1. Shared!Pipeline!Spec => []Shared!Pipeline!TypeOK
  BY Shared!PipelineTypes
<1>2. QED
  BY <1>1, DealTwoSame, DealTwoRuns, PTL DEF Spec, Shared!Pipeline!Spec

LEMMA DealOneTyped == Spec => [](part = "deals one" => DealOne!TypeOK)
<1>1. Single!Pipeline!Spec => []Single!Pipeline!TypeOK
  BY Single!PipelineTypes
<1>2. QED
  BY <1>1, DealOneSame, DealOneRuns, PTL DEF Spec, Single!Pipeline!Spec

\* Every copy of a lead beyond the first is owed to an overlap or a failure.
THEOREM CopiesHaveAReason == Spec => []CopiesNeedAReason
<1>1. Shared!Pipeline!Spec => []Shared!Pipeline!CopiesNeedAReason
  BY Shared!CopiesNeedAReason, DealsAreFinite
<1>2. Single!Pipeline!Spec => []Single!Pipeline!CopiesNeedAReason
  BY Single!CopiesNeedAReason, DealsAreFinite
<1>3. /\ ~ (part = "deals two") \/ DealTwo!CopiesNeedAReason
      /\ ~ (part = "deals one") \/ DealOne!CopiesNeedAReason
      => CopiesNeedAReason
  BY DEF CopiesNeedAReason
<1>4. QED
  BY <1>1, <1>2, <1>3, DealTwoSame, DealTwoRuns, DealOneSame, DealOneRuns,
     PTL DEF Spec, Shared!Pipeline!Spec, Single!Pipeline!Spec

\* The history leads to the stage of every deal that is kept.
THEOREM HistoriesAccountForStages == Spec => []HistoryAccountsForStage
<1>1. Shared!Pipeline!Spec => []Shared!Pipeline!HistoryAccountsForStage
  BY Shared!HistoryAccountsForStage
<1>2. Single!Pipeline!Spec => []Single!Pipeline!HistoryAccountsForStage
  BY Single!HistoryAccountsForStage
<1>3. /\ ~ (part = "deals two") \/ DealTwo!HistoryAccountsForStage
      /\ ~ (part = "deals one") \/ DealOne!HistoryAccountsForStage
      => HistoryAccountsForStage
  BY DEF HistoryAccountsForStage
<1>4. QED
  BY <1>1, <1>2, <1>3, DealTwoSame, DealTwoRuns, DealOneSame, DealOneRuns,
     PTL DEF Spec, Shared!Pipeline!Spec, Single!Pipeline!Spec

\* A deal whose removal was answered does not come back.
THEOREM RemovalsHold == Spec => []RemovalHolds
<1>1. Shared!Pipeline!Spec => []Shared!Pipeline!RemovalHolds
  BY Shared!RemovalsHold
<1>2. Single!Pipeline!Spec => []Single!Pipeline!RemovalHolds
  BY Single!RemovalsHold
<1>3. /\ ~ (part = "deals two") \/ DealTwo!RemovalHolds
      /\ ~ (part = "deals one") \/ DealOne!RemovalHolds
      => RemovalHolds
  BY DEF RemovalHolds
<1>4. QED
  BY <1>1, <1>2, <1>3, DealTwoSame, DealTwoRuns, DealOneSame, DealOneRuns,
     PTL DEF Spec, Shared!Pipeline!Spec, Single!Pipeline!Spec

(***************************************************************************)
(* The billing.                                                            *)
(***************************************************************************)
\* The part of a behaviour that is about billing two subscriptions.
LEMMA SubTwoRuns ==
  /\ Init /\ part = "billing two" => SubTwo!Init
  /\ part = "billing two" /\ [Next]_vars => (part = "billing two")' /\ [SubTwo!Next]_(SubTwo!vars)
  /\ ~ (part = "billing two") /\ [Next]_vars => ~ (part = "billing two")'
BY DEF Init, Next, vars, SubTwo!vars, SubVars

\* The definitions Shared is proved about are these.
LEMMA SubTwoSame ==
  /\ SubTwo!Init => Shared!Billing!Init
  /\ [SubTwo!Next]_(SubTwo!vars) => [Shared!Billing!Next]_(Shared!Billing!vars)
  /\ Shared!Billing!TypeOK => SubTwo!TypeOK
  /\ Shared!Billing!MirrorsStripe => SubTwo!MirrorsStripe
<1>1. SubTwo!Init => Shared!Billing!Init
  BY Zenon DEF
     Shared!Billing!Init, Shared!Billing!NoColumns, Shared!Billing!Idle, SubTwo!Init,
     SubTwo!NoColumns, SubTwo!Idle
<1>2. SubTwo!Next => Shared!Billing!Next
  BY Zenon DEF
     Shared!Billing!Next, Shared!Billing!Checkout, Shared!Billing!Outage,
     Shared!Billing!Pay, Shared!Billing!Emit, Shared!Billing!Cardinality,
     Shared!Billing!Event, Shared!Billing!Renew, Shared!Billing!Change,
     Shared!Billing!PaymentFails, Shared!Billing!Cancel, Shared!Billing!Deliver,
     Shared!Billing!Resolve, Shared!Billing!OwnersOf, Shared!Billing!InOrder,
     Shared!Billing!Write, Shared!Billing!Updated, Shared!Billing!Coalesce,
     Shared!Billing!ColumnsOf, Shared!Billing!Acknowledge, Shared!Billing!Idle,
     Shared!Billing!WriteRaises, Shared!Billing!AcknowledgeUnwritten, SubTwo!Next,
     SubTwo!Checkout, SubTwo!Outage, SubTwo!Pay, SubTwo!Emit, SubTwo!Cardinality,
     SubTwo!Event, SubTwo!Renew, SubTwo!Change, SubTwo!PaymentFails, SubTwo!Cancel,
     SubTwo!Deliver, SubTwo!Resolve, SubTwo!OwnersOf, SubTwo!InOrder, SubTwo!Write,
     SubTwo!Updated, SubTwo!Coalesce, SubTwo!ColumnsOf, SubTwo!Acknowledge, SubTwo!Idle,
     SubTwo!WriteRaises, SubTwo!AcknowledgeUnwritten
<1>3. UNCHANGED SubTwo!vars => UNCHANGED Shared!Billing!vars
  BY DEF SubTwo!vars, Shared!Billing!vars
<1>4. Shared!Billing!TypeOK => SubTwo!TypeOK
  BY Zenon DEF
     Shared!Billing!TypeOK, Shared!Billing!Columns, Shared!Billing!Statuses,
     Shared!Billing!Customers, Shared!Billing!Messages, SubTwo!TypeOK, SubTwo!Columns,
     SubTwo!Statuses, SubTwo!Customers, SubTwo!Messages
<1>5. Shared!Billing!MirrorsStripe => SubTwo!MirrorsStripe
  BY Zenon DEF
     Shared!Billing!MirrorsStripe, Shared!Billing!Quiet, Shared!Billing!BoughtBy,
     Shared!Billing!Mirrored, SubTwo!MirrorsStripe, SubTwo!Quiet, SubTwo!BoughtBy,
     SubTwo!Mirrored
<1>6. QED
  BY <1>1, <1>2, <1>3, <1>4, <1>5

\* The part of a behaviour that is about billing with retries.
LEMMA SubRetriesRuns ==
  /\ Init /\ part = "billing retries" => SubRetries!Init
  /\ part = "billing retries" /\ [Next]_vars => (part = "billing retries")' /\ [SubRetries!Next]_(SubRetries!vars)
  /\ ~ (part = "billing retries") /\ [Next]_vars => ~ (part = "billing retries")'
BY DEF Init, Next, vars, SubRetries!vars, SubVars

\* The definitions Single is proved about are these.
LEMMA SubRetriesSame ==
  /\ SubRetries!Init => Single!Billing!Init
  /\ [SubRetries!Next]_(SubRetries!vars) => [Single!Billing!Next]_(Single!Billing!vars)
  /\ Single!Billing!TypeOK => SubRetries!TypeOK
  /\ Single!Billing!MirrorsStripe => SubRetries!MirrorsStripe
<1>1. SubRetries!Init => Single!Billing!Init
  BY Zenon DEF
     Single!Billing!Init, Single!Billing!NoColumns, Single!Billing!Idle, SubRetries!Init,
     SubRetries!NoColumns, SubRetries!Idle
<1>2. SubRetries!Next => Single!Billing!Next
  BY Zenon DEF
     Single!Billing!Next, Single!Billing!Checkout, Single!Billing!Outage,
     Single!Billing!Pay, Single!Billing!Emit, Single!Billing!Cardinality,
     Single!Billing!Event, Single!Billing!Renew, Single!Billing!Change,
     Single!Billing!PaymentFails, Single!Billing!Cancel, Single!Billing!Deliver,
     Single!Billing!Resolve, Single!Billing!OwnersOf, Single!Billing!InOrder,
     Single!Billing!Write, Single!Billing!Updated, Single!Billing!Coalesce,
     Single!Billing!ColumnsOf, Single!Billing!Acknowledge, Single!Billing!Idle,
     Single!Billing!WriteRaises, Single!Billing!AcknowledgeUnwritten, SubRetries!Next,
     SubRetries!Checkout, SubRetries!Outage, SubRetries!Pay, SubRetries!Emit,
     SubRetries!Cardinality, SubRetries!Event, SubRetries!Renew, SubRetries!Change,
     SubRetries!PaymentFails, SubRetries!Cancel, SubRetries!Deliver, SubRetries!Resolve,
     SubRetries!OwnersOf, SubRetries!InOrder, SubRetries!Write, SubRetries!Updated,
     SubRetries!Coalesce, SubRetries!ColumnsOf, SubRetries!Acknowledge, SubRetries!Idle,
     SubRetries!WriteRaises, SubRetries!AcknowledgeUnwritten
<1>3. UNCHANGED SubRetries!vars => UNCHANGED Single!Billing!vars
  BY DEF SubRetries!vars, Single!Billing!vars
<1>4. Single!Billing!TypeOK => SubRetries!TypeOK
  BY Zenon DEF
     Single!Billing!TypeOK, Single!Billing!Columns, Single!Billing!Statuses,
     Single!Billing!Customers, Single!Billing!Messages, SubRetries!TypeOK,
     SubRetries!Columns, SubRetries!Statuses, SubRetries!Customers, SubRetries!Messages
<1>5. Single!Billing!MirrorsStripe => SubRetries!MirrorsStripe
  BY Zenon DEF
     Single!Billing!MirrorsStripe, Single!Billing!Quiet, Single!Billing!BoughtBy,
     Single!Billing!Mirrored, SubRetries!MirrorsStripe, SubRetries!Quiet,
     SubRetries!BoughtBy, SubRetries!Mirrored
<1>6. QED
  BY <1>1, <1>2, <1>3, <1>4, <1>5

\* What is missing is no account, no subscription and no date in either.
LEMMA NothingIsAmiss == Shared!BillingAssumption /\ Single!BillingAssumption
  BY NoneAssumption DEF Shared!BillingAssumption, Single!BillingAssumption

LEMMA SubTwoTyped == Spec => [](part = "billing two" => SubTwo!TypeOK)
<1>1. Shared!Billing!Spec => []Shared!Billing!TypeOK
  BY Shared!BillingTypes, NothingIsAmiss
<1>2. QED
  BY <1>1, SubTwoSame, SubTwoRuns, PTL DEF Spec, Shared!Billing!Spec

LEMMA SubRetriesTyped == Spec => [](part = "billing retries" => SubRetries!TypeOK)
<1>1. Single!Billing!Spec => []Single!Billing!TypeOK
  BY Single!BillingTypes, NothingIsAmiss
<1>2. QED
  BY <1>1, SubRetriesSame, SubRetriesRuns, PTL DEF Spec, Single!Billing!Spec

\* Once nothing is under way, an account shows what Stripe shows.
THEOREM AccountsMirrorStripe == Spec => []MirrorsStripe
<1>1. Shared!Billing!Spec => []Shared!Billing!MirrorsStripe
  BY Shared!AccountsMirrorStripe, NothingIsAmiss
<1>2. Single!Billing!Spec => []Single!Billing!MirrorsStripe
  BY Single!AccountsMirrorStripe, NothingIsAmiss
<1>3. /\ ~ (part = "billing two") \/ SubTwo!MirrorsStripe
      /\ ~ (part = "billing retries") \/ SubRetries!MirrorsStripe
      => MirrorsStripe
  BY DEF MirrorsStripe
<1>4. QED
  BY <1>1, <1>2, <1>3, SubTwoSame, SubTwoRuns, SubRetriesSame, SubRetriesRuns,
     PTL DEF Spec, Shared!Billing!Spec, Single!Billing!Spec

(***************************************************************************)
(* All of them.                                                            *)
(***************************************************************************)
\* Whatever part runs keeps to its types: the rows, events and answers it handles
\* are of the users, devices, leads and purchases there are, within its bounds.
THEOREM TypeCorrect == Spec => []TypeOK
<1> DEFINE Sales == /\ part = "billing retries" => SubRetries!TypeOK
                    /\ part = "billing two" => SubTwo!TypeOK
                    /\ part = "deals one" => DealOne!TypeOK
                    /\ part = "deals two" => DealTwo!TypeOK
           Reading == /\ part = "device shared" => PushShared!TypeOK
                      /\ part = "devices two" => PushTwo!TypeOK
                      /\ part = "feed filters" => FeedFilters!TypeOK
                      /\ part = "feed users" => FeedUsers!TypeOK
           Fetching == /\ part = "pool" => Pool!TypeOK
                       /\ part = "ticks" => Tick!TypeOK
                       /\ part = "listing" => Listing!TypeOK
                       /\ part = "counties" => Fan!TypeOK
           Answering == /\ part = "assistant" => Chat!TypeOK
                        /\ part = "relevance" => Rel!TypeOK
                        /\ part = "awards" => Award!TypeOK
<1>1. Spec => []Sales
  BY SubRetriesTyped, SubTwoTyped, DealOneTyped, DealTwoTyped, PTL
<1>2. Spec => []Reading
  BY PushSharedTyped, PushTwoTyped, FeedFiltersTyped, FeedUsersTyped, PTL
<1>3. Spec => []Fetching
  BY PoolTyped, TickTyped, ListingTyped, FanTyped, PTL
<1>4. Spec => []Answering
  BY ChatTyped, RelTyped, AwardTyped, PTL
<1>5. Sales /\ Reading /\ Fetching /\ Answering => TypeOK
  BY Zenon DEF TypeOK
<1> HIDE DEF Sales, Reading, Fetching, Answering
<1>6. QED
  BY <1>1, <1>2, <1>3, <1>4, <1>5, PTL
===============================================================================

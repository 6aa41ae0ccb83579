------------------------------ MODULE MCServices ------------------------------
(***************************************************************************)
(* The services around the ingestion, each on small instances: a behaviour *)
(* chooses a part at the start and runs it; the variables of all the others*)
(* hold None.                                                              *)
(***************************************************************************)
EXTENDS Integers, Sequences, FiniteSets

CONSTANT None

\* What is missing is no answer, number, user, subscription, run or unsubscription.
ASSUME NoneAssumption ==
  /\ None \notin BOOLEAN /\ None \notin Nat
  /\ None \notin {"ana", "dan"} /\ None \notin {"s1", "s2"}
  /\ None \notin {"a", "b", "c"}
  /\ \A d \in {"d1", "d2"}, u \in {"ana", "dan"} :
       None # [reason |-> "unsubscribe", row |-> <<d, u>>]

VARIABLES
  part,   \* the instance that runs
  sub_profile, sub_session, sub_stripe, sub_outbox, sub_hook, sub_seq,
  sub_changes, sub_outages, sub_latest, sub_disorder, sub_dropped,
  deal_table, deal_history, deal_memory, deal_req, deal_outages,
  deal_doubles, deal_removed,
  push_rows, push_holder, push_alive, push_prefs, push_job, push_event,
  feed_criteria, feed_saving, feed_cache, feed_swept, feed_fill,
  pool_pool, pool_state, pool_lock, pool_cooling, pool_up, pool_call, pool_answer,
  tick_waiting, tick_holder, tick_tick, tick_row, tick_stale,
  tick_fired, tick_episode,
  list_list, list_born, list_shifts, list_fetch, list_cache,
  fan_portal, fan_county, fan_clock, fan_result,
  chat_ask, chat_run, chat_reply,
  rel_rows, rel_profile, rel_tick, rel_told,
  award_seap, award_table

\* Portals whose two phases end in every way, paired so that each way meets others.
Is(a, b) == [procurement |-> a, hcl |-> b]
Behaviours ==
  {Is("links", "search"), Is("search", "hangs"), Is("hangs", "links"),
   Is("raises", "links"), Is("links", "escapes"), Is("no entry", "no entry")}

Lead(i, t, k, n, c, d, v, e, s) ==
  [id |-> i, title |-> t, kind |-> k, name |-> n, county |-> c, domain |-> d, value |-> v,
   early |-> e, score |-> s]

\* Two of the five come in two versions: with their keyword or without it, and
\* with it in one column or the other.
SomeLeads ==
  {Lead("a", {}, {"road"}, {}, "iasi", "infra", 0, TRUE, 3),
   Lead("b", {"road", "bridge"}, {}, {"army"}, "cluj", "infra", 2, FALSE, 9),
   Lead("b", {"pier"}, {}, {"army"}, "cluj", "infra", 2, FALSE, 9),
   Lead("c", {"scanner"}, {}, {"road"}, "iasi", "health", 2, FALSE, 10),
   Lead("d", {"bridge"}, {"army"}, {}, "iasi", "infra", 2, TRUE, 10),
   Lead("e", {"scanner"}, {"army"}, {}, "cluj", "health", 1, TRUE, 10),
   Lead("e", {}, {"scanner"}, {}, "cluj", "health", 1, TRUE, 10)}

Criteria(k, x, c, d, f, b) ==
  [keywords |-> k, excluded |-> x, counties |-> c, domain |-> d, floor |-> f, bar |-> b]
SomeProfiles ==
  {Criteria({"road", "bridge"}, {"army"}, {"iasi"}, "infra", 1, 75),
   Criteria({"scanner"}, {}, {"cluj"}, "health", 2, 60),
   Criteria({"road"}, {"scanner"}, {}, "none", 0, 0)}

SubRetries == INSTANCE Subscriptions WITH
  Users <- {"ana"}, Subs <- {"s1"}, Hooks <- {"h1", "h2"}, MaxChanges <- 2,
  MaxOutages <- 2, profile <- sub_profile, session <- sub_session,
  stripe <- sub_stripe, outbox <- sub_outbox, hook <- sub_hook, seq <- sub_seq,
  changes <- sub_changes, outages <- sub_outages, latest <- sub_latest,
  disorder <- sub_disorder, dropped <- sub_dropped
SubTwo == INSTANCE Subscriptions WITH
  Users <- {"ana"}, Subs <- {"s1", "s2"}, Hooks <- {"h1"}, MaxChanges <- 1,
  MaxOutages <- 0, profile <- sub_profile, session <- sub_session,
  stripe <- sub_stripe, outbox <- sub_outbox, hook <- sub_hook, seq <- sub_seq,
  changes <- sub_changes, outages <- sub_outages, latest <- sub_latest,
  disorder <- sub_disorder, dropped <- sub_dropped

DealOne == INSTANCE DealPipeline WITH
  Users <- {"ana"}, Opps <- {"road"}, Deals <- {"d1", "d2"}, Moves <- {"won"},
  Requests <- {"r1", "r2"}, MaxMoves <- 2, MaxOutages <- 1,
  table <- deal_table, history <- deal_history, memory <- deal_memory,
  req <- deal_req, outages <- deal_outages, doubles <- deal_doubles,
  removed <- deal_removed
DealTwo == INSTANCE DealPipeline WITH
  Users <- {"ana", "dan"}, Opps <- {"road"}, Deals <- {"d1"},
  Moves <- {"won", "lost"}, Requests <- {"r1", "r2"}, MaxMoves <- 2,
  MaxOutages <- 2, table <- deal_table, history <- deal_history,
  memory <- deal_memory, req <- deal_req, outages <- deal_outages,
  doubles <- deal_doubles, removed <- deal_removed

PushShared == INSTANCE PushRegistry WITH
  Devices <- {"d1"}, Users <- {"ana", "dan"}, Senders <- {"tick"},
  rows <- push_rows, holder <- push_holder, alive <- push_alive,
  prefs <- push_prefs, job <- push_job, event <- push_event
PushTwo == INSTANCE PushRegistry WITH
  Devices <- {"d1", "d2"}, Users <- {"ana"}, Senders <- {"tick", "test"},
  rows <- push_rows, holder <- push_holder, alive <- push_alive,
  prefs <- push_prefs, job <- push_job, event <- push_event

FeedFilters == INSTANCE FeedCache WITH
  Users <- {"ana"}, Filters <- {"all", "cluj"}, Fills <- {"r1", "r2"},
  TTL <- 1, SweepEvery <- 1, MaxSaves <- 2, criteria <- feed_criteria,
  saving <- feed_saving, cache <- feed_cache, swept <- feed_swept,
  fill <- feed_fill
FeedUsers == INSTANCE FeedCache WITH
  Users <- {"ana", "dan"}, Filters <- {"all"}, Fills <- {"r1"}, TTL <- 1,
  SweepEvery <- 2, MaxSaves <- 2, criteria <- feed_criteria,
  saving <- feed_saving, cache <- feed_cache, swept <- feed_swept,
  fill <- feed_fill

Pool == INSTANCE DbPool WITH
  Calls <- {"c1", "c2", "c3"}, MaxPools <- 3, pool <- pool_pool,
  state <- pool_state, lock <- pool_lock, cooling <- pool_cooling,
  up <- pool_up, call <- pool_call, answer <- pool_answer

Tick == INSTANCE TickControl WITH
  Runs <- {"a", "b", "c"}, Sources <- {"s1", "s2"}, waiting <- tick_waiting,
  holder <- tick_holder, tick <- tick_tick, row <- tick_row,
  stale <- tick_stale, fired <- tick_fired, episode <- tick_episode

Listing == INSTANCE ListingFetch WITH
  Untitled <- {2}, OffTopic <- {3}, Malformed <- {4}, Decisions <- {1, 2, 3},
  PageSize <- 2, MaxPages <- 2, MaxItems <- 4, MaxShifts <- 1, list <- list_list,
  born <- list_born, shifts <- list_shifts, fetch <- list_fetch,
  cache <- list_cache

Fan == INSTANCE CountyFanOut WITH
  Last <- 3, Slots <- 2, Budget <- 2, Portals <- Behaviours,
  portal <- fan_portal, county <- fan_county, clock <- fan_clock,
  result <- fan_result

Chat == INSTANCE Assistant WITH
  Providers <- 4, CallLimit <- 12, Deadline <- 35, PromptLimit <- 3,
  MaxTurns <- 3, MaxSections <- 2, ask <- chat_ask, run <- chat_run,
  reply <- chat_reply

Rel == INSTANCE Relevance WITH
  Leads <- SomeLeads, Profiles <- SomeProfiles, Limit <- 1, Unknown <- "none",
  rows <- rel_rows, profile <- rel_profile, tick <- rel_tick, told <- rel_told

Award == INSTANCE Awards WITH
  Purchases <- {"p1", "p2"}, Firms <- {"f1", "f2"}, Prices <- {1, 2},
  seap <- award_seap, table <- award_table

-------------------------------------------------------------------------------
SubVars == <<sub_profile, sub_session, sub_stripe, sub_outbox, sub_hook,
  sub_seq, sub_changes, sub_outages, sub_latest, sub_disorder, sub_dropped>>
DealVars == <<deal_table, deal_history, deal_memory, deal_req, deal_outages,
  deal_doubles, deal_removed>>
PushVars == <<push_rows, push_holder, push_alive, push_prefs, push_job,
  push_event>>
FeedVars == <<feed_criteria, feed_saving, feed_cache, feed_swept, feed_fill>>
PoolVars == <<pool_pool, pool_state, pool_lock, pool_cooling, pool_up,
  pool_call, pool_answer>>
TickVars == <<tick_waiting, tick_holder, tick_tick, tick_row, tick_stale,
  tick_fired, tick_episode>>
ListVars == <<list_list, list_born, list_shifts, list_fetch, list_cache>>
FanVars == <<fan_portal, fan_county, fan_clock, fan_result>>
ChatVars == <<chat_ask, chat_run, chat_reply>>
RelVars == <<rel_rows, rel_profile, rel_tick, rel_told>>
AwardVars == <<award_seap, award_table>>

NoBilling ==
  /\ sub_profile = None /\ sub_session = None /\ sub_stripe = None
  /\ sub_outbox = None /\ sub_hook = None /\ sub_seq = None
  /\ sub_changes = None /\ sub_outages = None /\ sub_latest = None
  /\ sub_disorder = None /\ sub_dropped = None
NoDeals ==
  /\ deal_table = None /\ deal_history = None /\ deal_memory = None
  /\ deal_req = None /\ deal_outages = None /\ deal_doubles = None
  /\ deal_removed = None
NoDevices ==
  /\ push_rows = {} /\ push_holder = None /\ push_alive = None
  /\ push_prefs = None /\ push_job = None /\ push_event = None
NoFeeds ==
  /\ feed_criteria = None /\ feed_saving = None /\ feed_cache = None
  /\ feed_swept = None /\ feed_fill = None
NoDatabase ==
  /\ pool_pool = None /\ pool_state = None /\ pool_lock = None
  /\ pool_cooling = None /\ pool_up = None /\ pool_call = None
  /\ pool_answer = None
NoTicks ==
  /\ tick_waiting = None /\ tick_holder = None /\ tick_tick = None
  /\ tick_row = None /\ tick_stale = None /\ tick_fired = None
  /\ tick_episode = None
NoListings ==
  /\ list_list = None /\ list_born = None /\ list_shifts = None
  /\ list_fetch = None /\ list_cache = None
NoCounties ==
  /\ fan_portal = None /\ fan_county = None /\ fan_clock = None
  /\ fan_result = None
NoQuestions ==
  /\ chat_ask = None /\ chat_run = None /\ chat_reply = None
NoAlerting ==
  /\ rel_rows = None /\ rel_profile = None /\ rel_tick = None /\ rel_told = None
NoNotices ==
  /\ award_seap = None /\ award_table = None

Parts ==
  {"billing retries", "billing two", "deals one", "deals two",
   "device shared", "devices two", "feed filters", "feed users", "pool",
   "ticks", "listing", "counties", "assistant", "relevance", "awards"}

Init ==
  /\ part \in Parts
  /\ IF part = "billing retries" THEN SubRetries!Init ELSE
     IF part = "billing two" THEN SubTwo!Init ELSE NoBilling
  /\ IF part = "deals one" THEN DealOne!Init ELSE
     IF part = "deals two" THEN DealTwo!Init ELSE NoDeals
  /\ IF part = "device shared" THEN PushShared!Init ELSE
     IF part = "devices two" THEN PushTwo!Init ELSE NoDevices
  /\ IF part = "feed filters" THEN FeedFilters!Init ELSE
     IF part = "feed users" THEN FeedUsers!Init ELSE NoFeeds
  /\ IF part = "pool" THEN Pool!Init ELSE NoDatabase
  /\ IF part = "ticks" THEN Tick!Init ELSE NoTicks
  /\ IF part = "listing" THEN Listing!Init ELSE NoListings
  /\ IF part = "counties" THEN Fan!Init ELSE NoCounties
  /\ IF part = "assistant" THEN Chat!Init ELSE NoQuestions
  /\ IF part = "relevance" THEN Rel!Init ELSE NoAlerting
  /\ IF part = "awards" THEN Award!Init ELSE NoNotices

Next ==
  /\ UNCHANGED part
  /\ \/ part = "billing retries" /\ SubRetries!Next
     \/ part = "billing two" /\ SubTwo!Next
     \/ part \notin {"billing retries", "billing two"} /\ UNCHANGED SubVars
  /\ \/ part = "deals one" /\ DealOne!Next
     \/ part = "deals two" /\ DealTwo!Next
     \/ part \notin {"deals one", "deals two"} /\ UNCHANGED DealVars
  /\ \/ part = "device shared" /\ PushShared!Next
     \/ part = "devices two" /\ PushTwo!Next
     \/ part \notin {"device shared", "devices two"} /\ UNCHANGED PushVars
  /\ \/ part = "feed filters" /\ FeedFilters!Next
     \/ part = "feed users" /\ FeedUsers!Next
     \/ part \notin {"feed filters", "feed users"} /\ UNCHANGED FeedVars
  /\ \/ part = "pool" /\ Pool!Next
     \/ part # "pool" /\ UNCHANGED PoolVars
  /\ \/ part = "ticks" /\ Tick!Next
     \/ part # "ticks" /\ UNCHANGED TickVars
  /\ \/ part = "listing" /\ Listing!Next
     \/ part # "listing" /\ UNCHANGED ListVars
  /\ \/ part = "counties" /\ Fan!Next
     \/ part # "counties" /\ UNCHANGED FanVars
  /\ \/ part = "assistant" /\ Chat!Next
     \/ part # "assistant" /\ UNCHANGED ChatVars
  /\ \/ part = "relevance" /\ Rel!Next
     \/ part # "relevance" /\ UNCHANGED RelVars
  /\ \/ part = "awards" /\ Award!Next
     \/ part # "awards" /\ UNCHANGED AwardVars

vars == <<part, SubVars, DealVars, PushVars, FeedVars, PoolVars, TickVars,
  ListVars, FanVars, ChatVars, RelVars, AwardVars>>
Spec == Init /\ [][Next]_vars

-------------------------------------------------------------------------------
\* Whatever runs keeps to its types.
TypeOK ==
  /\ part = "billing retries" => SubRetries!TypeOK
  /\ part = "billing two" => SubTwo!TypeOK
  /\ part = "deals one" => DealOne!TypeOK
  /\ part = "deals two" => DealTwo!TypeOK
  /\ part = "device shared" => PushShared!TypeOK
  /\ part = "devices two" => PushTwo!TypeOK
  /\ part = "feed filters" => FeedFilters!TypeOK
  /\ part = "feed users" => FeedUsers!TypeOK
  /\ part = "pool" => Pool!TypeOK
  /\ part = "ticks" => Tick!TypeOK
  /\ part = "listing" => Listing!TypeOK
  /\ part = "counties" => Fan!TypeOK
  /\ part = "assistant" => Chat!TypeOK
  /\ part = "relevance" => Rel!TypeOK
  /\ part = "awards" => Award!TypeOK

\* An account shows what Stripe shows, through retries and raised calls as beside
\* a second subscription (routers/billing.py 226-277).
MirrorsStripe ==
  /\ part = "billing retries" => SubRetries!MirrorsStripe
  /\ part = "billing two" => SubTwo!MirrorsStripe

\* A lead is in the pipeline once, unless adds overlapped or calls failed
\* (workflow_engine.py 118-135).
CopiesNeedAReason ==
  /\ part = "deals one" => DealOne!CopiesNeedAReason
  /\ part = "deals two" => DealTwo!CopiesNeedAReason

\* The stage history leads to the stage a deal is in (workflow_engine.py 199-212).
HistoryAccountsForStage ==
  /\ part = "deals one" => DealOne!HistoryAccountsForStage
  /\ part = "deals two" => DealTwo!HistoryAccountsForStage

\* A removed deal stays away, from the list and from the table
\* (workflow_engine.py 157-168).
RemovalHolds ==
  /\ part = "deals one" => DealOne!RemovalHolds
  /\ part = "deals two" => DealTwo!RemovalHolds

\* A telephone hears only what its user asked for (db.py 1989-1993).
PushesWereConsented ==
  /\ part = "device shared" => PushShared!PushesWereConsented
  /\ part = "devices two" => PushTwo!PushesWereConsented

\* A registration leaves for a reason: its user, the next user of the device or
\* the push service (routers/notifications.py 81-83, push_notifications.py 219-222).
\* Of its constants this states only Users, so it covers both instances.
RowsLeaveForAReason == PushShared!RowsLeaveForAReason

\* A cached feed answers its own query and the saved criteria (api.py 1046-1052,
\* 1329-1332).
FeedIsCurrent ==
  /\ part = "feed filters" => FeedFilters!FeedIsCurrent
  /\ part = "feed users" => FeedUsers!FeedIsCurrent

\* A pool is built only where there is none, and by one call (db.py 95-103).
BuildsAreNeeded ==
  /\ part = "pool" => Pool!BuildsAreNeeded

\* One rebuild gets a call its connection when the server is there (db.py 375-388).
RetryIsEnough ==
  /\ part = "pool" => Pool!RetryIsEnough

\* A tick reported without errors lost nothing (orchestrator.py 754).
CompletedTicksAreHonest ==
  /\ part = "ticks" => Tick!CompletedTicksAreHonest

\* Data that stopped moving is alerted once a spell (orchestrator.py 700-730).
StaleDataAlertedOnce ==
  /\ part = "ticks" => Tick!StaleDataAlertedOnce

\* What stood on a listing all the while is in the answer
\* (direct_acquisition_scraper.py, the portal scrapers).
NothingSkippedSilently ==
  /\ part = "listing" => Listing!NothingSkippedSilently

\* One county's silence costs no other its answer, nor the tick its time
\* (municipal_matrix.py 160-210).
HealthyCountiesSurvive ==
  /\ part = "counties" => Fan!HealthyCountiesSurvive

\* A substitute answers only where no model did (ai_copilot.py, routers/support.py).
AnswersAreEarned ==
  /\ part = "assistant" => Chat!AnswersAreEarned

\* What somebody was alerted to is found in the feed (tests/test_ranked_feed.py:57).
AlertedLeadsAreFound ==
  /\ part = "relevance" => Rel!AlertedLeadsAreFound

\* Wins are contracts and discounts are from published estimates
\* (procurement_notices.py:389).
StatisticsRestOnOutcomes ==
  /\ part = "awards" => Award!StatisticsRestOnOutcomes
===============================================================================

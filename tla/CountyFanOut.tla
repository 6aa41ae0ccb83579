----------------------------- MODULE CountyFanOut ------------------------------
(***************************************************************************)
(* CountyRegistryScraper: one source that asks the portal of every county  *)
(* in the registry, so many at a time, each within a budget that covers    *)
(* both its extractions, and returns whatever the counties produced.  The  *)
(* extraction is the one of GenericPortalAdapter, which serves every       *)
(* platform the registry holds: the WordPress search, and where there is   *)
(* none the links of a few listing pages.                                  *)
(*                                                                         *)
(* How a portal behaves is fixed for the fetch.  Time passes in units of   *)
(* the budget's fraction; a portal that answers does so within it.         *)
(***************************************************************************)
EXTENDS Integers, FiniteSets

CONSTANTS
  Last,     \* counties 1..Last, in the order of the registry
  Slots,    \* MAX_CONCURRENT_COUNTIES
  Budget,   \* COUNTY_FETCH_TIMEOUT_SECONDS, in units of time
  Portals   \* how portals may behave: functions from Phases to Endings

Counties == 1..Last
Phases == {"procurement", "hcl"}

\* A phase ends in the notices of the search or of the links, raises, hangs, or
\* is cancelled from within, which "except Exception" lets through; an entry of
\* the registry that misses a key has no phases at all.
Endings == {"search", "links", "raises", "hangs", "escapes", "no entry"}

VARIABLES
  portal,   \* portal[c]: how the county's entry and portal behave
  county,   \* county[c]: the task of _fetch_county
  clock,    \* time since the fan-out began
  result    \* what fetch_market_consultations returned

vars == <<portal, county, clock, result>>

Task == [at |-> "queued", phase |-> "procurement", spent |-> 0, got |-> {}]
Pending == [at |-> "gathering", got |-> {}]

Init ==
  /\ portal \in [Counties -> Portals]
  /\ county = [c \in Counties |-> Task]
  /\ clock = 0 /\ result = Pending

--------------------------------------------------------------------------------
Queued == {c \in Counties : county[c].at = "queued"}
Running == {c \in Counties : county[c].at \in {"search", "links"}}
Ending(c) == portal[c][county[c].phase]

\* An entry that misses its county or its address is skipped before the semaphore.
Skip(c) ==
  /\ c \in Queued /\ Ending(c) = "no entry"
  /\ county' = [county EXCEPT ![c].at = "done"]
  /\ UNCHANGED <<portal, clock, result>>

\* The semaphore lets the tasks in as they came.
Enter(c) ==
  /\ c \in Queued /\ \A d \in Queued : c <= d
  /\ Ending(c) # "no entry"
  /\ Cardinality(Running) < Slots
  /\ county' = [county EXCEPT ![c].at = "search"]
  /\ UNCHANGED <<portal, clock, result>>

\* _collect after a phase, whether it produced notices or raised.
After(t) == IF t.phase = "procurement" THEN [t EXCEPT !.at = "search", !.phase = "hcl"]
            ELSE [t EXCEPT !.at = "done"]

Produced(t) == After([t EXCEPT !.got = @ \cup {t.phase}])

\* _wp_search: a request that fails or is not answered with a list of posts is
\* None, and the links are harvested instead.
Search(c) ==
  /\ county[c].at = "search"
  /\ \/ Ending(c) = "search" /\ county' = [county EXCEPT ![c] = Produced(@)]
     \/ Ending(c) = "links" /\ county' = [county EXCEPT ![c].at = "links"]
     \/ Ending(c) = "raises" /\ county' = [county EXCEPT ![c] = After(@)]
     \/ Ending(c) = "escapes" /\ county' = [county EXCEPT ![c].at = "raised"]
  /\ UNCHANGED <<portal, clock, result>>

\* _html_link_harvest: a listing path that fails is passed over.
Harvest(c) ==
  /\ county[c].at = "links"
  /\ county' = [county EXCEPT ![c] = Produced(@)]
  /\ UNCHANGED <<portal, clock, result>>

\* What the budget leaves of a county that used it up: its partial signals.
Abandon(t) == IF t.spent < Budget THEN t ELSE [t EXCEPT !.at = "done"]

\* Mutant: the wait for a slot counts.
SpendsQueueing(c) == c \in Running \cup Queued

Spends(c) == c \in Running

\* A portal takes its time; one that answers stays below the budget, and
\* nobody waits for a slot that is free.
Pass ==
  /\ Running # {}
  /\ Queued # {} => Cardinality(Running) >= Slots
  /\ \A c \in Running : county[c].spent + 1 >= Budget => Ending(c) = "hangs"
  /\ clock' = clock + 1
  /\ county' = [c \in Counties |->
       IF Spends(c) THEN Abandon([county[c] EXCEPT !.spent = @ + 1]) ELSE county[c]]
  /\ UNCHANGED <<portal, result>>

SignalsOf(c) == {c} \X county[c].got

\* Mutant: gather without return_exceptions.
AllOrNothing ==
  IF \E c \in Counties : county[c].at = "raised" THEN {}
  ELSE UNION {SignalsOf(c) : c \in Counties}

Gathered == UNION {SignalsOf(c) : c \in {d \in Counties : county[d].at = "done"}}

Gather ==
  /\ result.at = "gathering"
  /\ \A c \in Counties : county[c].at \in {"done", "raised"}
  /\ result' = [at |-> "returned", got |-> Gathered]
  /\ UNCHANGED <<portal, county, clock>>

Next ==
  \/ \E c \in Counties : Skip(c) \/ Enter(c) \/ Search(c) \/ Harvest(c)
  \/ Pass \/ Gather

Spec == Init /\ [][Next]_vars

--------------------------------------------------------------------------------
(* Properties *)

\* Portals that hang are abandoned after their budget and not before, in as
\* many waves as the slots make of the registry.
Waves == (Last + Slots - 1) \div Slots

TypeOK ==
  /\ portal \in [Counties -> [Phases -> Endings]]
  /\ \A c \in Counties : county[c].spent \in 0..Budget /\ county[c].got \subseteq Phases
  /\ result.got \subseteq Counties \X Phases

\* The portal answers in that phase, and nothing before that cuts the county short.
Unhurt(c, phase) ==
  /\ portal[c][phase] \in {"search", "links"}
  /\ \A other \in Phases : portal[c][other] # "escapes"
  /\ phase = "hcl" => portal[c]["procurement"] # "hangs"

\* What a portal answers before it hangs or raises is in the result, whatever
\* the other counties do, and the result is there after at most that many
\* budgets (municipal_matrix.py 66-80, 160-166, 182-184, 207-210).
HealthyCountiesSurvive ==
  /\ clock <= Waves * Budget
  /\ result.at = "returned" =>
       \A c \in Counties, phase \in Phases : Unhurt(c, phase) => <<c, phase>> \in result.got
================================================================================

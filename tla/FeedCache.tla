------------------------------- MODULE FeedCache -------------------------------
(***************************************************************************)
(* The ranked feed and the cache in front of it: get_my_feed and _load_feed*)
(* of api.py, MemoryCacheEngine of cache_engine.py, and the profile saves  *)
(* that drop a user's entries.  A fill reads the profile, awaits the       *)
(* ranking and then writes the cache; a save commits and then invalidates. *)
(* Either may happen in the middle of the other.                           *)
(***************************************************************************)
EXTENDS Integers

CONSTANTS
  Users,
  Filters,     \* category, authority, procedure ...: the query of a request
  Fills,       \* requests that may be computing a feed at once
  None,
  TTL,         \* lifetime of an entry, in units of time
  SweepEvery,  \* CACHE_CLEANUP_INTERVAL_SECONDS
  MaxSaves     \* bound: profile versions

VARIABLES
  criteria,   \* criteria[u]: version of the profile; 0 before onboarding
  saving,     \* users whose save is committed and has not invalidated yet
  cache,      \* cache[<<u, f>>]: the entry under that key
  swept,      \* time since the last sweep
  fill        \* fill[r]: what request r computes, and the await it is at

vars == <<criteria, saving, cache, swept, fill>>

Keys == Users \X Filters
\* A computation without a database, or one a save has overtaken, is excused.
Idle == [at |-> "idle", key |-> None, criteria |-> 0, excused |-> FALSE]

\* An entry expired for longer than a sweep interval is as old as can be.
Oldest == TTL + SweepEvery + 1
Expired(e) == e.age > TTL
Older(e) == IF e = None \/ e.age = Oldest THEN e ELSE [e EXCEPT !.age = @ + 1]

Init ==
  /\ criteria = [u \in Users |-> 0] /\ saving = {}
  /\ cache = [k \in Keys |-> None]
  /\ swept = SweepEvery
  /\ fill = [r \in Fills |-> Idle]

--------------------------------------------------------------------------------
\* Mutant: the filters are not part of the key.
KeyOfUser(u, f) == <<u, CHOOSE g \in Filters : TRUE>>

\* Every filter that changes the result is in the key.
Key(u, f) == <<u, f>>

\* A request its entry answers changes nothing; this one finds none, or an
\* expired one, which it drops, or asks past it (force_refresh).
Miss(r, u, f) ==
  LET k == Key(u, f) IN
  /\ fill[r].at = "idle"
  /\ fill' = [fill EXCEPT ![r] = [Idle EXCEPT !.at = "profile", !.key = <<u, f>>]]
  /\ \/ cache[k] # None /\ Expired(cache[k]) /\ cache' = [cache EXCEPT ![k] = None]
     \/ UNCHANGED cache
  /\ UNCHANGED <<criteria, saving, swept>>

\* get_profile; before onboarding the market is not ranked.
ReadProfile(r) ==
  /\ fill[r].at = "profile"
  /\ fill' = [fill EXCEPT ![r].at = "rank", ![r].criteria = criteria[fill[r].key[1]]]
  /\ UNCHANGED <<criteria, saving, cache, swept>>

\* Without a database there is no profile: _load_feed, whose rows or whose file
\* snapshot nobody ranked.
FallBack(r) ==
  /\ fill[r].at = "profile"
  /\ fill' = [fill EXCEPT ![r].at = "rank", ![r].excused = TRUE]
  /\ UNCHANGED <<criteria, saving, cache, swept>>

\* _purge_expired, on every write.
Sweep(entries) ==
  IF swept < SweepEvery THEN [entries |-> entries, swept |-> swept]
  ELSE [entries |-> [k \in Keys |-> IF entries[k] # None /\ Expired(entries[k])
                                    THEN None ELSE entries[k]],
        swept |-> 0]

\* set(), which sweeps first.
Put(k, entry) == [Sweep(cache).entries EXCEPT ![k] = entry]

\* The rows are ranked (or the fallback read) and the answer is cached, a
\* degraded one for as long as any other.
Fill(r) ==
  LET u == fill[r].key[1]
      f == fill[r].key[2] IN
  /\ fill[r].at = "rank"
  /\ \E lost \in BOOLEAN :
       cache' = Put(Key(u, f), [criteria |-> fill[r].criteria, filter |-> f, age |-> 0,
                                excused |-> fill[r].excused \/ lost])
  /\ swept' = Sweep(cache).swept
  /\ fill' = [fill EXCEPT ![r] = Idle]
  /\ UNCHANGED <<criteria, saving>>

\* The request is cancelled or raises before its write.
GiveUp(r) ==
  /\ fill[r].at # "idle"
  /\ fill' = [fill EXCEPT ![r] = Idle]
  /\ UNCHANGED <<criteria, saving, cache, swept>>

--------------------------------------------------------------------------------
\* complete_onboarding or update_my_profile: the row is committed.  A fill that
\* has read the old one is overtaken.
Save(u) ==
  /\ u \notin saving /\ criteria[u] < MaxSaves
  /\ criteria' = [criteria EXCEPT ![u] = @ + 1]
  /\ saving' = saving \cup {u}
  /\ fill' = [r \in Fills |->
       IF fill[r].at = "rank" /\ fill[r].key[1] = u
       THEN [fill[r] EXCEPT !.excused = TRUE] ELSE fill[r]]
  /\ UNCHANGED <<cache, swept>>

\* Mutant: one key is dropped, not the prefix of the user.
InvalidateOne(u) ==
  [cache EXCEPT ![Key(u, CHOOSE g \in Filters : TRUE)] = None]

\* invalidate(prefix="feed:<user>:").
Invalidate(u) == [k \in Keys |-> IF k[1] = u THEN None ELSE cache[k]]

Saved(u) ==
  /\ u \in saving
  /\ saving' = saving \ {u}
  /\ cache' = Invalidate(u)
  /\ UNCHANGED <<criteria, swept, fill>>

\* The call committed and raised, or the client was cut off: a 500, and
\* nothing is invalidated.
SaveBreaks(u) ==
  /\ u \in saving
  /\ saving' = saving \ {u}
  /\ cache' = [k \in Keys |-> IF k[1] = u /\ cache[k] # None
                              THEN [cache[k] EXCEPT !.excused = TRUE] ELSE cache[k]]
  /\ UNCHANGED <<criteria, swept, fill>>

\* The background job drops everything after its tick; a restart does too, and
\* the requests with it.
InvalidateAll ==
  /\ cache' = [k \in Keys |-> None]
  /\ UNCHANGED <<criteria, saving, swept, fill>>

Pass ==
  /\ cache' = [k \in Keys |-> Older(cache[k])]
  /\ swept' = IF swept = SweepEvery THEN swept ELSE swept + 1
  /\ UNCHANGED <<criteria, saving, fill>>

Next ==
  \/ \E r \in Fills, u \in Users, f \in Filters : Miss(r, u, f)
  \/ \E r \in Fills : ReadProfile(r) \/ FallBack(r) \/ Fill(r) \/ GiveUp(r)
  \/ \E u \in Users : Save(u) \/ Saved(u) \/ SaveBreaks(u)
  \/ InvalidateAll
  \/ Pass

Spec == Init /\ [][Next]_vars

--------------------------------------------------------------------------------
(* Properties *)

Entry == [criteria: 0..MaxSaves, filter: Filters, age: 0..Oldest, excused: BOOLEAN]

TypeOK ==
  /\ criteria \in [Users -> 0..MaxSaves] /\ saving \subseteq Users
  /\ cache \in [Keys -> {None} \cup Entry]
  /\ swept \in 0..SweepEvery
  /\ fill \in [Fills -> [at: {"idle", "profile", "rank"}, key: {None} \cup Keys,
                         criteria: 0..MaxSaves, excused: BOOLEAN]]

\* The feed under a key answers that key's query (api.py 1329-1332), and ranks
\* by the user's present criteria once the save that set them has been answered
\* (api.py 1046-1052, 1098-1100) - unless its computation had read the profile
\* before that save, the save's own call broke, or there was no database.
FeedIsCurrent ==
  \A k \in Keys : cache[k] # None =>
    /\ cache[k].filter = k[2]
    /\ \/ cache[k].criteria = criteria[k[1]]
       \/ k[1] \in saving \/ cache[k].excused
================================================================================

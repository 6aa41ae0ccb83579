----------------------------- MODULE Announcements -----------------------------
(***************************************************************************)
(* The announcements of Galati's city hall, which carry no number of their *)
(* own: municipal_batch1.py names each after Python's hash of its title    *)
(* and date.  String hashes are salted per process, so the name lasts as   *)
(* long as the process does, and db.py knows an announcement again by its  *)
(* name alone.                                                             *)
(***************************************************************************)
EXTENDS Integers, FiniteSets

CONSTANTS
  Titles,        \* announcements the town may publish
  MaxRestarts    \* bound on restarts of the web process

VARIABLES
  page,          \* the announcements on the town's page
  salt,          \* what this process mixes into hash(): a fresh one each start
  rows,          \* opportunities: the source_ids stored
  told           \* the source_ids users were told of as new

vars == <<page, salt, rows, told>>

Init ==
  /\ page = {}
  /\ salt = 0
  /\ rows = {}
  /\ told = {}

\* External: the town publishes, and takes nothing down.
Publish(a) ==
  /\ a \notin page
  /\ page' = page \cup {a}
  /\ UNCHANGED <<salt, rows, told>>

\* GL-ANT-<hash of the title and the date>.
SourceId(a) == [of |-> a, salt |-> salt]

\* A poll reads the page and upserts each announcement ON CONFLICT (source_id);
\* those whose row was inserted are new, and matched and alerted.
Poll ==
  LET found == {SourceId(a) : a \in page} IN
  /\ page # {}
  /\ rows' = rows \cup found
  /\ told' = told \cup (found \ rows)
  /\ UNCHANGED <<page, salt>>

\* External: the host restarts the web process, which draws another salt.
Restart ==
  /\ salt < MaxRestarts
  /\ salt' = salt + 1
  /\ UNCHANGED <<page, rows, told>>

Next ==
  \/ \E a \in Titles : Publish(a)
  \/ Poll
  \/ Restart

Spec == Init /\ [][Next]_vars

--------------------------------------------------------------------------------
TypeOK ==
  LET Ids == [of : Titles, salt : 0..MaxRestarts] IN
  /\ page \subseteq Titles
  /\ salt \in 0..MaxRestarts
  /\ told \subseteq rows
  /\ rows \subseteq Ids

\* municipal_batch1.py:373 "Anything older has already been ingested on a
\* previous tick and is deduped by source_id at upsert": an announcement read
\* again, by whichever process, is stored and announced once.
AnnouncedOnce ==
  \A a \in Titles : Cardinality({id \in told : id.of = a}) <= 1
================================================================================

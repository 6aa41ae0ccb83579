------------------------------- MODULE Relevance -------------------------------
(***************************************************************************)
(* Two judges of one opportunity.  matching_engine.py decides whether a    *)
(* person is interrupted for it, in Python, on the lead a tick has just    *)
(* refined; db.py ranks the stored row in the person's feed, in SQL, over  *)
(* a text folded when the row was written.  They weigh differently, on     *)
(* purpose; what they must share is what a keyword finds.                  *)
(***************************************************************************)
EXTENDS Integers, Sequences, FiniteSets

CONSTANTS
  Leads,       \* records [id; title, kind, name: sets of terms; county, domain,
               \*          value, early, score]: what a tick may refine, a lead
               \*          in as many versions as its publisher corrects it
  Profiles,    \* records [keywords, excluded, counties: sets; domain, floor, bar]
  Limit,       \* rows of a feed
  Unknown      \* the domain of a person who chose none

VARIABLES
  rows,        \* opportunities: the version last seen of each lead, oldest first
  profile,     \* the person's criteria, as saved
  tick,        \* the criteria the running tick loaded: a set of at most one
  told         \* the alerts sent: [lead: the version, for: the criteria]

vars == <<rows, profile, tick, told>>

Stored == {rows[i] : i \in DOMAIN rows}

Hits(terms, text) == Cardinality(terms \cap text)

\* What evaluate() reads: title, summary and sub_category.
Text(l) == l.title \cup l.kind

KeywordAlone(l, p) == Hits(p.keywords, Text(l)) > 0

\* An excluded term, or no keyword at all, ends it.
Evidence(l, p) ==
  /\ Hits(p.excluded, Text(l)) = 0
  /\ Hits(p.keywords, Text(l)) > 0

SameDomain(l, p) == p.domain # Unknown /\ l.domain = p.domain

\* The weights of evaluate(), in hundredths of a point.
Points(l, p) ==
  LET words == 140 + 55 * (Hits(p.keywords, Text(l)) - 1)
  IN (IF SameDomain(l, p) THEN 340 ELSE 0)
     + (IF words > 300 THEN 300 ELSE words)
     + (IF l.county \in p.counties THEN 160 ELSE 0)
     + (IF l.value = 0 THEN 50 ELSE IF l.value >= p.floor THEN 150 ELSE -150)
     + (IF l.early THEN 80 ELSE 0)

\* In tenths, between 0 and 10.  round() takes the odd twentieths down: they
\* are no binary fractions, and from 3.5 on they all lie below the half.
Score(l, p) ==
  LET tenths == Points(l, p) \div 10
  IN IF tenths < 0 THEN 0 ELSE IF tenths > 100 THEN 100 ELSE tenths

\* MATCH_THRESHOLD, and the person's own bar (dispatch_profile_alert).
Alerts(l, p) == Evidence(l, p) /\ Score(l, p) >= 60 /\ Score(l, p) >= p.bar

\* build_search_blob(): the matcher's text, and who publishes it.
BlobWithoutKind(l) == l.title \cup l.name
Blob(l) == l.title \cup l.kind \cup l.name

\* The hits of the ranking query.
KeywordHit(l, p) == Hits(p.keywords, Blob(l)) > 0
CountyHit(l, p) == l.county \in p.counties
DomainHit(l, p) == SameDomain(l, p)
ValueHit(l, p) == p.floor > 0 /\ l.value >= p.floor
ExcludedHit(l, p) == Hits(p.excluded, Blob(l)) > 0

AnyHit(l, p) == KeywordHit(l, p) \/ CountyHit(l, p) \/ DomainHit(l, p) \/ ValueHit(l, p)

\* is_match of the query, and the badge _ranked_row_to_lead() puts on the card.
IsMatch(l, p) == AnyHit(l, p) /\ ~ExcludedHit(l, p)
Badge(l, p) == AnyHit(l, p) /\ ~ExcludedHit(l, p)

\* RELEVANCE_WEIGHTS and the refinery's own score.
Weight(l, p) ==
  (IF KeywordHit(l, p) THEN 50 ELSE 0) + (IF CountyHit(l, p) THEN 20 ELSE 0)
  + (IF DomainHit(l, p) THEN 15 ELSE 0) + (IF ValueHit(l, p) THEN 10 ELSE 0)
  - (IF ExcludedHit(l, p) THEN 100 ELSE 0) + l.score

\* ORDER BY is_match DESC, relevance DESC, last_seen_at DESC.
Precedes(i, j) ==
  LET a == rows[i]
      b == rows[j]
      p == profile
  IN IF IsMatch(a, p) # IsMatch(b, p) THEN IsMatch(a, p)
     ELSE IF Weight(a, p) # Weight(b, p) THEN Weight(a, p) > Weight(b, p)
     ELSE i > j

Feed == {rows[i] : i \in {j \in DOMAIN rows :
                            Cardinality({k \in DOMAIN rows : Precedes(k, j)}) < Limit}}

Init ==
  /\ rows = <<>>
  /\ profile \in Profiles
  /\ tick = {}
  /\ told = {}

Save(p) ==
  /\ profile' = p
  /\ UNCHANGED <<rows, tick, told>>

\* A tick loads the criteria once ...
BeginTick ==
  /\ tick = {}
  /\ tick' = {profile}
  /\ UNCHANGED <<rows, profile, told>>

Known(l) == \E r \in Stored : r.id = l.id

\* Mutant: a lead that is found again is inserted again.
Inserted(l) == Append(rows, l)

\* One row per source_id; a lead that is found again overwrites it, its text and
\* its blob included, with a new last_seen_at.
Upserted(l) ==
  IF ~Known(l) THEN Append(rows, l)
  ELSE LET at == CHOOSE i \in DOMAIN rows : rows[i].id = l.id
       IN Append([i \in 1..(Len(rows) - 1) |-> IF i < at THEN rows[i] ELSE rows[i + 1]], l)

\* ... stores each lead it refined, and alerts for those that are new.
Persist(l) ==
  /\ tick # {}
  /\ rows' = Upserted(l)
  /\ told' = told \cup {[lead |-> l, for |-> p] : p \in {q \in tick : ~Known(l) /\ Alerts(l, q)}}
  /\ UNCHANGED <<profile, tick>>

EndTick ==
  /\ tick # {}
  /\ tick' = {}
  /\ UNCHANGED <<rows, profile, told>>

Next ==
  \/ \E p \in Profiles : Save(p)
  \/ BeginTick
  \/ \E l \in Leads : Persist(l)
  \/ EndTick

Spec == Init /\ [][Next]_vars

-------------------------------------------------------------------------------
TypeOK ==
  /\ Stored \subseteq Leads
  /\ \A i, j \in DOMAIN rows : rows[i].id = rows[j].id => i = j
  /\ profile \in Profiles
  /\ tick \subseteq Profiles
  /\ told \subseteq [lead: Leads, for: Profiles]

\* What a person was interrupted for is found again: while the criteria are
\* still those of the alert, the lead stands in the feed with its badge and the
\* keyword that raised the alert ("drifting apart means a keyword that alerts
\* but never ranks", tests/test_ranked_feed.py:57), or it gave way to matches
\* only.  A correction may take the keyword out of the row, and the badge with
\* it; one that leaves the matcher its evidence leaves the feed its own.  The
\* exception is the publisher's name, which the feed reads and the matcher does
\* not: it may hold an excluded term.
AlertedLeadsAreFound ==
  \A t \in told : \E l \in Stored :
    /\ l.id = t.lead.id
    /\ /\ t.for = profile /\ l.name \cap profile.excluded = {}
       /\ l = t.lead \/ Evidence(l, profile)
       => IF l \in Feed THEN Badge(l, profile) /\ KeywordHit(l, profile)
          ELSE \A k \in Feed : IsMatch(k, profile)

================================================================================

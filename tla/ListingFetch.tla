------------------------------ MODULE ListingFetch ------------------------------
(***************************************************************************)
(* One fetch_market_consultations of a scraper: it walks a remote listing  *)
(* page by page, while announcements are published anywhere on it, change  *)
(* places and are withdrawn, pages fail, and rows turn out untitled, off   *)
(* topic or malformed.  No order is assumed: SEAP returns its items in     *)
(* none at all, the others newest first at best.  The scrapers differ in   *)
(* a handful of decisions, which are the fields of a rule:                 *)
(*                                                                         *)
(*   primes   a session GET comes first, and its failure raises            *)
(*   pages    how many requests one fetch makes at most                    *)
(*   cut      what a request is answered with: a "page" of the listing,    *)
(*            the "whole" of it, the whole of which only the first rows    *)
(*            that qualify are "kept", or the first page of a post "type"  *)
(*   unread   what an unreadable page may do: it "raises", it "stops" the  *)
(*            walk or is passed over for the "next"                        *)
(*   last     besides an empty page, what ends the walk: a "short" page,   *)
(*            one that adds "nothing" new, or "never"                      *)
(*   drops    the classes of rows no signal is built from                  *)
(*   broken   a row that cannot be parsed "raises", is a "skip", or costs  *)
(*            the fetch all its signals ("empties")                        *)
(*   notes    every row is also written to procurement_notices             *)
(*                                                                         *)
(* A failed page is one whose retries (three or four) are used up; titles, *)
(* values, dates and categories are what the class of a row abstracts.     *)
(***************************************************************************)
EXTENDS Integers, Sequences, FiniteSets

CONSTANTS
  Untitled, OffTopic, Malformed,   \* the announcements of each class, numbers
  Decisions,  \* those of Ploiesti's first post type; the rest are of the second
  PageSize,   \* rows of a page, and rows kept under "kept"
  MaxPages,   \* bound: stands for the 2 to 12 pages of the walking scrapers
  MaxItems,   \* bound: announcements ever listed
  MaxShifts   \* bound: withdrawals and rearrangements

VARIABLES
  list,    \* the remote listing, in the order it is served in
  born,    \* announcements published so far
  shifts,  \* withdrawals and rearrangements so far
  fetch,   \* the fetch in progress or just ended
  cache    \* _cache_rows of the CNI register, with the fetch that read them

vars == <<list, born, shifts, fetch, cache>>

--------------------------------------------------------------------------------
(* The rules, one per scraper family. *)

Rule(primes, pages, cut, unread, last) ==
  [primes |-> primes, pages |-> pages, cut |-> cut, unread |-> unread, last |-> last,
   drops |-> Untitled, broken |-> "skip", notes |-> FALSE, cached |-> FALSE]

\* Direct purchases and their awards; contract notices: primed, paged, noted.
\* A page that cannot be fetched stops the walk, one that is no JSON raises.
DirectPurchases == [Rule(TRUE, MaxPages, "page", {"stops", "raises"}, "short")
                      EXCEPT !.broken = "raises", !.notes = TRUE]
ContractNotices == DirectPurchases

\* Market consultations: one page, whose failure raises; details are optional.
Consultations == [Rule(TRUE, 1, "page", {"raises"}, "short") EXCEPT !.broken = "raises"]

\* TED: only four domains are taken in.
Ted == [Rule(FALSE, MaxPages, "page", {"stops", "raises"}, "short")
          EXCEPT !.drops = Untitled \cup OffTopic, !.broken = "raises"]

\* The CNI register, read once for both its scrapers; titles are optional.
Register == [Rule(FALSE, MaxPages, "page", {"stops", "raises"}, "short")
               EXCEPT !.drops = OffTopic, !.cached = TRUE]

MinistryOfHealth == Rule(FALSE, MaxPages, "page", {"stops"}, "nothing")
Oradea == MinistryOfHealth
Timisoara == [Rule(FALSE, MaxPages, "page", {"stops"}, "never")
                EXCEPT !.drops = Untitled \cup OffTopic]

\* The WordPress calls: what cannot be read raises, so that empty means empty.
FundingCalls == [Rule(FALSE, 1, "page", {"raises"}, "never")
                   EXCEPT !.drops = Untitled \cup OffTopic, !.broken = "raises"]

\* The portals of one document; a parse failure reports nothing.
Portal == [Rule(FALSE, 1, "whole", {"stops"}, "never") EXCEPT !.broken = "empties"]
Brasov == Portal
Craiova == Portal
Galati == [Portal EXCEPT !.cut = "kept"]

\* Ploiesti: the newest of two post types, neither of which may cost the other.
Ploiesti == Rule(FALSE, 2, "type", {"next"}, "never")

Bucharest == [Rule(FALSE, 1, "whole", {"stops"}, "never")
                EXCEPT !.drops = Untitled \cup OffTopic, !.broken = "raises"]
Constanta == Rule(FALSE, 1, "whole", {"stops"}, "never")

\* The two registers published as a PDF behind a listing page.
ClujPlan == [Rule(FALSE, 1, "whole", {"stops"}, "never") EXCEPT !.drops = {}]
IasiRegister == [ClujPlan EXCEPT !.drops = OffTopic]

BorderPolice == [Rule(FALSE, 1, "kept", {"stops"}, "never")
                   EXCEPT !.drops = Untitled \cup OffTopic]

Rules == {DirectPurchases, ContractNotices, Consultations, Ted, Register,
          MinistryOfHealth, Oradea, Timisoara, FundingCalls, Brasov, Craiova, Galati,
          Ploiesti, Bucharest, Constanta, ClujPlan, IasiRegister, BorderPolice}

--------------------------------------------------------------------------------
Items == 1..MaxItems
Listed == {list[n] : n \in 1..Len(list)}

\* Causes: why an announcement may be missing from the answer (history).
Causes == {"unread", "window", "malformed", "withdrawn", "barren", "moved"}

NoFetch == [at |-> "idle", rule |-> Timisoara, page |-> 0, got |-> {}, noted |-> {},
            steady |-> {}, causes |-> {}]
NoCache == [rows |-> {}, steady |-> {}, causes |-> {}]

Init ==
  /\ born \in 0..MaxItems /\ shifts = 0
  /\ list = [n \in 1..born |-> born + 1 - n]
  /\ fetch = NoFetch /\ cache = NoCache

\* An announcement appears on the listing, at the head of it or anywhere.
Publish ==
  /\ born < MaxItems /\ born' = born + 1
  /\ \E n \in 1..(Len(list) + 1) :
       list' = [k \in 1..(Len(list) + 1) |->
                  IF k < n THEN list[k] ELSE IF k = n THEN born' ELSE list[k - 1]]
  /\ UNCHANGED <<shifts, fetch, cache>>

PageStart(page) == page * PageSize + 1

\* Two announcements change places, and so, step by step, the order becomes any
\* other.  One that was still to be read may come to stand where the walk was.
Rearrange ==
  /\ shifts < MaxShifts /\ shifts' = shifts + 1
  /\ \E m, n \in 1..Len(list) :
       /\ m < n
       /\ list' = [list EXCEPT ![m] = list[n], ![n] = list[m]]
       /\ fetch' = IF /\ fetch.at \in {"prime", "page"} /\ fetch.rule.cut = "page"
                      /\ m < PageStart(fetch.page) /\ n >= PageStart(fetch.page)
                   THEN [fetch EXCEPT !.causes = @ \cup {"moved"}]
                   ELSE fetch
  /\ UNCHANGED <<born, cache>>

\* An announcement leaves the listing.
Withdraw ==
  /\ shifts < MaxShifts /\ shifts' = shifts + 1
  /\ \E n \in 1..Len(list) :
       /\ list' = SubSeq(list, 1, n - 1) \o SubSeq(list, n + 1, Len(list))
       /\ fetch' = IF fetch.at \in {"prime", "page"}
                   THEN [fetch EXCEPT !.steady = @ \ {list[n]},
                                      !.causes = @ \cup {"withdrawn"}]
                   ELSE fetch
  /\ UNCHANGED <<born, cache>>

--------------------------------------------------------------------------------
\* The first PageSize rows that are of a kind.
FirstOf(kind) ==
  {list[n] : n \in {m \in 1..Len(list) :
      /\ list[m] \in kind
      /\ Cardinality({k \in 1..(m - 1) : list[k] \in kind}) < PageSize}}

\* The rows that make a signal; those that do not are not counted.
Proper(rule) == Items \ (rule.drops \cup Malformed)

\* What the page-th request of the cut by type asks for.
PostType(page) == IF page = 0 THEN Decisions ELSE Items \ Decisions

\* What the request is answered with.
Rows(rule, page) ==
  CASE rule.cut = "page" ->
         {list[n] : n \in {m \in 1..Len(list) : m \in PageStart(page)..(page + 1) * PageSize}}
    [] rule.cut = "whole" -> Listed
    [] rule.cut = "kept" -> FirstOf(Proper(rule)) \cup (Listed \cap Malformed)
    [] rule.cut = "type" -> FirstOf(PostType(page))

\* The post type goes on behind its first page.
Clipped(rule, page) == rule.cut = "type" /\ Rows(rule, page) # Listed \cap PostType(page)

\* The signals built from rows; the upsert of the richer record, which may
\* fail, stands in a try of its own.
Signals(rule, rows, unnoted) == rows \ (rule.drops \cup Malformed)

\* max_pages was reached and the listing goes on, or rows were not counted any more.
Beyond(rule) ==
  CASE rule.cut = "page" -> Len(list) > rule.pages * PageSize
    [] rule.cut = "kept" -> FirstOf(Proper(rule)) # Listed \cap Proper(rule)
    [] OTHER -> FALSE   \* Clipped says so where a type is cut off

Answer(f) ==
  /\ fetch' = [f EXCEPT !.at = "answered",
                        !.causes = @ \cup (IF Beyond(f.rule) THEN {"window"} ELSE {})]
  /\ UNCHANGED cache

\* A fetch begins; the CNI scrapers are answered from the cache while it lasts.
Begin(rule) ==
  /\ fetch.at \notin {"prime", "page"}
  /\ fetch' =
       IF rule.cached /\ cache.rows # {}
       THEN [NoFetch EXCEPT !.at = "answered", !.rule = rule,
                            !.got = Signals(rule, cache.rows, {}),
                            !.steady = cache.steady, !.causes = cache.causes]
       ELSE [NoFetch EXCEPT !.at = IF rule.primes THEN "prime" ELSE "page",
                            !.rule = rule, !.steady = Listed]
  /\ UNCHANGED <<list, born, shifts, cache>>

\* _get_priming, after its four attempts.
Prime ==
  /\ fetch.at = "prime"
  /\ \/ fetch' = [fetch EXCEPT !.at = "page"]
     \/ fetch' = [fetch EXCEPT !.at = "raised", !.got = {}]
  /\ UNCHANGED <<list, born, shifts, cache>>

\* Mutant: a page that is exactly full counts as short.
ShortUnlessLonger(rows) == Cardinality(rows) <= PageSize

Short(rows) == Cardinality(rows) < PageSize

\* Whether the walk is over once rows have been read.
Over(f, rows) ==
  \/ f.page + 1 = f.rule.pages
  \/ rows = {} /\ f.rule.last # "never"
  \/ f.rule.last = "short" /\ Short(rows)
  \/ f.rule.last = "nothing" /\ Signals(f.rule, rows, {}) \subseteq f.got

\* Only the walk that read something is cached, complete or not.
EndWalk(f) ==
  IF ~f.rule.cached THEN Answer(f)
  ELSE LET beyond == IF Beyond(f.rule) THEN {"window"} ELSE {} IN
       /\ cache' = [rows |-> f.got, steady |-> f.steady, causes |-> f.causes \cup beyond]
       /\ fetch' = [f EXCEPT !.at = "answered", !.causes = @ \cup beyond,
                             !.got = Signals(f.rule, @, {})]

ReadPage ==
  /\ fetch.at = "page"
  /\ LET rule == fetch.rule
         rows == Rows(rule, fetch.page)
         broken == rows \cap Malformed # {} IN
     \E unnoted \in IF rule.notes THEN SUBSET rows ELSE {{}} :
       LET new == IF rule.cached THEN rows \ Malformed ELSE Signals(rule, rows, unnoted)
           barren == rows # {} /\ rule.last = "nothing" /\ new \subseteq fetch.got
           read == [fetch EXCEPT
                      !.got = @ \cup new,
                      !.noted = IF rule.notes THEN @ \cup (rows \ unnoted) ELSE @,
                      !.causes = @ \cup (IF broken THEN {"malformed"} ELSE {})
                                   \cup (IF barren THEN {"barren"} ELSE {})
                                   \cup (IF Clipped(rule, fetch.page) THEN {"window"} ELSE {})] IN
       IF broken /\ rule.broken = "raises"
       THEN fetch' = [read EXCEPT !.at = "raised", !.got = {}] /\ UNCHANGED cache
       ELSE IF broken /\ rule.broken = "empties"
       THEN Answer([read EXCEPT !.got = {}])
       ELSE IF Over(fetch, rows) THEN EndWalk(read)
       ELSE fetch' = [read EXCEPT !.page = @ + 1] /\ UNCHANGED cache
  /\ UNCHANGED <<list, born, shifts>>

\* The request fails for good, or its answer cannot be parsed.
PageFails ==
  /\ fetch.at = "page"
  /\ LET missed == [fetch EXCEPT !.causes = @ \cup {"unread"}]
         last == fetch.page + 1 = fetch.rule.pages IN
     \/ /\ "raises" \in fetch.rule.unread
        /\ fetch' = [missed EXCEPT !.at = "raised", !.got = {}] /\ UNCHANGED cache
     \/ /\ "next" \in fetch.rule.unread /\ ~last
        /\ fetch' = [missed EXCEPT !.page = @ + 1] /\ UNCHANGED cache
     \/ /\ "stops" \in fetch.rule.unread \/ ("next" \in fetch.rule.unread /\ last)
        /\ EndWalk(missed)
  /\ UNCHANGED <<list, born, shifts>>

\* The 240 seconds of the register's cache are over.
Expire ==
  /\ cache.rows # {} /\ cache' = NoCache
  /\ UNCHANGED <<list, born, shifts, fetch>>

Next ==
  \/ Publish \/ Rearrange \/ Withdraw
  \/ \E rule \in Rules : Begin(rule)
  \/ Prime \/ ReadPage \/ PageFails \/ Expire

Spec == Init /\ [][Next]_vars

--------------------------------------------------------------------------------
(* Properties *)

TypeOK ==
  /\ born \in 0..MaxItems /\ shifts \in 0..MaxShifts /\ Listed \subseteq 1..born
  /\ fetch.at \in {"idle", "prime", "page", "answered", "raised"}
  /\ fetch.page < fetch.rule.pages
  /\ fetch.got \cup fetch.noted \cup cache.rows \subseteq Items
  /\ fetch.causes \subseteq Causes

\* A fetch that answers has every announcement that was listed all the while
\* and qualifies, wherever others were published and however the listing was
\* rearranged meanwhile - unless a page was unread, a row malformed, the listing
\* or the post type longer than the window, something withdrawn beside the walk,
\* an unread row moved onto a page that had been read, or a page brought nothing
\* where that ends it.
NothingSkippedSilently ==
  fetch.at = "answered" /\ fetch.causes = {} =>
    fetch.steady \ (fetch.rule.drops \cup Malformed) \subseteq fetch.got
================================================================================

-------------------------------- MODULE Awards --------------------------------
(***************************************************************************)
(* What the product says about won contracts (procurement_notices.py).     *)
(* Two feeds of SEAP describe the same direct purchases: the purchase      *)
(* itself, with an estimate and later a closing value, and its award       *)
(* notice, which has the paid price alone.  The scrapers fetch both over   *)
(* and over, and SEAP corrects prices in between.                          *)
(***************************************************************************)
EXTENDS Integers, FiniteSets

CONSTANTS
  Purchases,   \* direct purchases of an authority
  Firms,       \* suppliers
  Prices,      \* amounts, positive
  None         \* no firm, or a figure the notice leaves out

VARIABLES
  seap,        \* SEAP's record of a purchase: [estimate, firm, price, noticed]
  table        \* procurement_notices: rows [of, type, estimate, firm, price]

vars == <<seap, table>>

\* A purchase SEAP has not published yet.
Unpublished == [estimate |-> None, firm |-> None, price |-> None, noticed |-> FALSE]

Init ==
  /\ seap = [p \in Purchases |-> Unpublished]
  /\ table = {}

\* External: an authority publishes a purchase with its estimate, accepts an
\* offer, corrects the price, publishes the award notice.
Publish(p, v) ==
  /\ seap[p] = Unpublished
  /\ seap' = [seap EXCEPT ![p].estimate = v]
  /\ UNCHANGED table

Accept(p, f, v) ==
  /\ seap[p].estimate # None /\ seap[p].firm = None
  /\ seap' = [seap EXCEPT ![p].firm = f, ![p].price = v]
  /\ UNCHANGED table

Correct(p, v) ==
  /\ seap[p].firm # None
  /\ seap' = [seap EXCEPT ![p].price = v]
  /\ UNCHANGED table

Notify(p) ==
  /\ seap[p].firm # None /\ ~seap[p].noticed
  /\ seap' = [seap EXCEPT ![p].noticed = TRUE]
  /\ UNCHANGED table

\* DirectAcquisitionScraper._build_notice: the estimate, and the award once the
\* purchase has closed.
Purchase(p) ==
  [of |-> p, type |-> "DA", estimate |-> seap[p].estimate,
   firm |-> seap[p].firm, price |-> seap[p].price]

\* DaAwardNoticeScraper._build_notice: the paid price stands for both figures,
\* or the notice leaves the price out.
AwardNotice(p, stated) ==
  LET figure == IF stated THEN seap[p].price ELSE None
  IN [of |-> p, type |-> "CAN", estimate |-> figure, firm |-> seap[p].firm, price |-> figure]

\* ON CONFLICT (notice_id, notice_type); the fingerprint hashes the value too.
SameFingerprint(r, n) == r.of = n.of /\ r.type = n.type /\ r.estimate = n.estimate
SameNotice(r, n) == r.of = n.of /\ r.type = n.type

Upsert(n) ==
  /\ table' = {r \in table : ~SameNotice(r, n)} \cup {n}
  /\ UNCHANGED seap

\* One item of a page of either feed.  Without a database nothing is written,
\* which is a fetch that did not happen.
FetchPurchase(p) ==
  /\ seap[p].estimate # None
  /\ Upsert(Purchase(p))

FetchAward(p, stated) ==
  /\ seap[p].noticed
  /\ Upsert(AwardNotice(p, stated))

Next ==
  \E p \in Purchases :
    \/ \E v \in Prices : Publish(p, v) \/ Correct(p, v)
    \/ \E v \in Prices, f \in Firms : Accept(p, f, v)
    \/ Notify(p) \/ FetchPurchase(p)
    \/ \E stated \in BOOLEAN : FetchAward(p, stated)

Spec == Init /\ [][Next]_vars

-------------------------------------------------------------------------------
\* get_award_statistics(): award notices only.
AnyAward(r) == r.firm # None
IsAward(r) == r.type = "CAN"
Awards == {r \in table : IsAward(r)}

\* _count_winners().
Wins(f) == Cardinality({r \in Awards : r.firm = f})

\* A discount needs two figures that differ.
BothStated(r) == r.price # None /\ r.estimate # None
TwoFigures(r) == BothStated(r) /\ r.estimate # r.price
Priced == {r \in Awards : TwoFigures(r)}

TypeOK ==
  LET Figures == Prices \cup {None} IN
  /\ seap \in [Purchases -> [estimate: Figures, firm: Firms \cup {None}, price: Figures, noticed: BOOLEAN]]
  /\ table \subseteq [of: Purchases, type: {"DA", "CAN"}, estimate: Figures,
                      firm: Firms \cup {None}, price: Figures]

\* An award counts once however often the feeds repeat or correct it, a firm
\* never has more wins than contracts, and a discount is taken from an estimate
\* the authority published, never from the price that stands in for it ("a 0%
\* discount would be the single most damaging number this product could
\* publish", procurement_notices.py:389).
StatisticsRestOnOutcomes ==
  /\ \A f \in Firms : Wins(f) <= Cardinality({p \in Purchases : seap[p].firm = f})
  /\ \A r \in Priced : r.estimate = seap[r.of].estimate

================================================================================

-------------------------- MODULE UserAccountsProofs --------------------------
(***************************************************************************)
(* Proofs about UserAccounts, for every set of identities, emails and      *)
(* requests: a row is onboarded once unless it was adopted meanwhile, the  *)
(* cap is overshot by fewer profiles than there are requests in flight,    *)
(* simultaneous logins do not collide, and a configured profile is lost to *)
(* its owner's erasure only.                                               *)
(***************************************************************************)
EXTENDS UserAccounts, FiniteSetTheorems, TLAPS

RequestType ==
  {Idle} \cup [at : SyncSteps \cup OnboardSteps,
               uid : Uids, email : Emails, found : Uids \cup {None}]

(***************************************************************************)
(* What the steps of a request do to it.                                   *)
(***************************************************************************)
\* The record of request r stays what it is but for where it is.
Kept(r) ==
  /\ request'[r].uid = request[r].uid
  /\ request'[r].email = request[r].email

OthersKept(r) == \A q \in Requests \ {r} : request'[q] = request[q]

\* A request under way goes on.
LEMMA GotoEffect ==
  ASSUME TypeOK, NEW r \in Requests, ~ At(r, "idle"),
         NEW s \in SyncSteps \cup OnboardSteps, Goto(r, s)
  PROVE  /\ request' \in [Requests -> RequestType]
         /\ request'[r].at = s /\ Kept(r) /\ OthersKept(r)
         /\ answer' = NoAnswer /\ overtaken' = overtaken
<1>1. /\ request \in [Requests -> RequestType]
      /\ request' = [request EXCEPT ![r].at = s] /\ answer' = NoAnswer
      /\ overtaken' = overtaken
  BY DEF Goto, Silent, TypeOK, RequestType
<1>2. request[r] \in [at : SyncSteps \cup OnboardSteps,
                      uid : Uids, email : Emails, found : Uids \cup {None}]
  BY <1>1 DEF RequestType, At, Idle
<1>3. QED
  BY <1>1, <1>2 DEF Kept, OthersKept, RequestType

\* A request is over, with an answer or without.
LEMMA EndEffect ==
  ASSUME TypeOK, NEW r \in Requests, request' = [request EXCEPT ![r] = Idle]
  PROVE  /\ request' \in [Requests -> RequestType]
         /\ request'[r] = Idle /\ OthersKept(r)
BY DEF TypeOK, RequestType, OthersKept

\* A request begins.
LEMMA BeginEffect ==
  ASSUME TypeOK, NEW r \in Requests, NEW s \in SyncSteps \cup OnboardSteps,
         NEW u \in Uids, NEW e \in Emails, Begins(r, s, u, e)
  PROVE  /\ request' \in [Requests -> RequestType]
         /\ request'[r] = [at |-> s, uid |-> u, email |-> e, found |-> None]
         /\ At(r, "idle") /\ OthersKept(r)
         /\ answer' = NoAnswer
         /\ UNCHANGED <<tables, claim, erasing, history, overtaken, changes, erasures>>
<1>1. [at |-> s, uid |-> u, email |-> e, found |-> None] \in RequestType
  BY DEF RequestType
<1>2. QED
  BY <1>1 DEF Begins, Silent, TypeOK, RequestType, OthersKept

(***************************************************************************)
(* Type correctness.                                                       *)
(***************************************************************************)
\* What a step leaves alone keeps its type.
LEMMA TablesKept ==
  ASSUME TypeOK, UNCHANGED <<tables, claim, erasing, history, changes, erasures>>,
         overtaken' \subseteq Requests,
         request' \in [Requests -> RequestType],
         answer' \in [how : {"none", "ok", "duplicate", "referenced", "gone"},
                      uid : Uids \cup {None}]
  PROVE  TypeOK'
BY DEF TypeOK, tables, history, Rows, RequestType

\* Every answer is one of those listed.
LEMMA AnswerType ==
  ASSUME TypeOK, NEW r \in Requests, ~ At(r, "idle"),
         NEW how \in {"ok", "duplicate", "referenced", "gone"}, Answers(r, how)
  PROVE  /\ answer' = [how |-> how, uid |-> Uid(r)] /\ Uid(r) \in Uids
         /\ answer' \in [how : {"none", "ok", "duplicate", "referenced", "gone"},
                         uid : Uids \cup {None}]
         /\ request' = [request EXCEPT ![r] = Idle]
<1>1. request[r] \in [at : SyncSteps \cup OnboardSteps,
                      uid : Uids, email : Emails, found : Uids \cup {None}]
  BY DEF TypeOK, At, Idle
<1>2. QED
  BY <1>1 DEF Answers, Uid

\* The request that makes a step knows for whom and under which email.
LEMMA UnderWay ==
  ASSUME TypeOK, NEW r \in Requests, ~ At(r, "idle")
  PROVE  /\ Uid(r) \in Uids /\ EmailOf(r) \in Emails /\ EmailOf(r) # None
         /\ request[r].found \in Uids \cup {None}
         /\ request[r].at \in SyncSteps \cup OnboardSteps
<1>1. request[r] \in [at : SyncSteps \cup OnboardSteps,
                      uid : Uids, email : Emails, found : Uids \cup {None}]
  BY DEF TypeOK, At, Idle
<1>2. QED
  BY <1>1, IdentityAssumption DEF Uid, EmailOf

\* Reading, waiting and being lost touch no table.
LEMMA ReadTypes ==
  ASSUME TypeOK, NEW r \in Requests,
         \/ SyncBegins(r) \/ OnboardBegins(r) \/ SyncReadsId(r) \/ SyncReadsEmail(r)
         \/ OnboardReadsGate(r) \/ OnboardCounts(r) \/ RequestLost(r)
  PROVE  TypeOK'
<1>0. NoAnswer \in [how : {"none", "ok", "duplicate", "referenced", "gone"},
                    uid : Uids \cup {None}]
  BY DEF NoAnswer
<1>0a. overtaken' \subseteq Requests
  BY DEF SyncBegins, OnboardBegins, SyncReadsId, SyncReadsEmail, OnboardReadsGate,
         OnboardCounts, RequestLost, Begins, Goto, Ends, TypeOK
<1>1. CASE SyncBegins(r)
  <2>1. PICK u \in Uids, e \in Emails : Begins(r, "byId", u, e)
    BY <1>1 DEF SyncBegins
  <2>2. "byId" \in SyncSteps \cup OnboardSteps
    BY DEF SyncSteps
  <2>3. QED
    BY <1>0, <2>1, <2>2, BeginEffect, TablesKept, <1>0a
<1>2. CASE OnboardBegins(r)
  <2>1. PICK u \in Uids, e \in Emails : Begins(r, "gate", u, e)
    BY <1>2 DEF OnboardBegins
  <2>2. "gate" \in SyncSteps \cup OnboardSteps
    BY DEF OnboardSteps
  <2>3. QED
    BY <1>0, <2>1, <2>2, BeginEffect, TablesKept, <1>0a
<1>3. CASE SyncReadsId(r)
  <2>1. ~ At(r, "idle") /\ UNCHANGED <<tables, claim, erasing, history, changes, erasures>>
    BY <1>3 DEF SyncReadsId, At
  <2>2. Answers(r, "ok") \/ Goto(r, "byEmail") \/ Goto(r, "setEmail")
    BY <1>3 DEF SyncReadsId
  <2>3. {"byEmail", "setEmail"} \subseteq SyncSteps \cup OnboardSteps
    BY DEF SyncSteps
  <2>4. CASE Answers(r, "ok")
    BY <2>1, <2>4, AnswerType, EndEffect, TablesKept, <1>0a
  <2>5. CASE Goto(r, "byEmail") \/ Goto(r, "setEmail")
    BY <1>0, <2>1, <2>3, <2>5, GotoEffect, TablesKept, <1>0a
  <2>6. QED
    BY <2>2, <2>4, <2>5
<1>4. CASE SyncReadsEmail(r)
  <2>1. ~ At(r, "idle") /\ UNCHANGED <<tables, claim, erasing, history, changes, erasures>>
    BY <1>4 DEF SyncReadsEmail, At
  <2>2. answer' = NoAnswer
    BY <1>4 DEF SyncReadsEmail, Goto, Silent
  <2>3. CASE Goto(r, "insert")
    <3>1. "insert" \in SyncSteps \cup OnboardSteps
      BY DEF SyncSteps
    <3>2. QED
      BY <1>0, <2>1, <2>3, <3>1, GotoEffect, TablesKept, <1>0a
  <2>4. CASE \E v \in Rows : request' = [request EXCEPT ![r].at = "adopt", ![r].found = v]
    <3>1. PICK v \in Rows : request' = [request EXCEPT ![r].at = "adopt", ![r].found = v]
      BY <2>4
    <3>2. request[r] \in [at : SyncSteps \cup OnboardSteps,
                          uid : Uids, email : Emails, found : Uids \cup {None}]
      BY <2>1 DEF TypeOK, At, Idle
    <3>3. request' \in [Requests -> RequestType]
      BY <3>1, <3>2 DEF TypeOK, RequestType, Rows, SyncSteps
    <3>4. QED
      BY <1>0, <2>1, <2>2, <3>3, TablesKept, <1>0a
  <2>5. QED
    BY <1>4, <2>3, <2>4 DEF SyncReadsEmail
<1>5. CASE OnboardReadsGate(r) \/ OnboardCounts(r) \/ RequestLost(r)
  <2>1. ~ At(r, "idle") /\ UNCHANGED <<tables, claim, erasing, history, changes, erasures>>
    BY <1>5 DEF OnboardReadsGate, OnboardCounts, RequestLost, At
  <2>2. Ends(r) \/ Goto(r, "count") \/ Goto(r, "upsert")
    BY <1>5 DEF OnboardReadsGate, OnboardCounts, RequestLost
  <2>3. {"count", "upsert"} \subseteq SyncSteps \cup OnboardSteps
    BY DEF OnboardSteps
  <2>4. CASE Ends(r)
    BY <1>0, <2>1, <2>4, EndEffect, TablesKept, <1>0a DEF Ends, Silent
  <2>5. CASE Goto(r, "count") \/ Goto(r, "upsert")
    BY <1>0, <2>1, <2>3, <2>5, GotoEffect, TablesKept, <1>0a
  <2>6. QED
    BY <2>2, <2>4, <2>5
<1>6. QED
  BY <1>1, <1>2, <1>3, <1>4, <1>5

\* The type of everything but the tables' contents.
LEMMA TypeParts ==
  ASSUME TypeOK,
         email' \in [Uids -> Emails \cup {None}], identities' \subseteq Uids,
         referenced' \subseteq Rows', onboarded' \subseteq Rows', Rows' \subseteq identities',
         provisioned' \in [Uids -> [all : Nat, overtaken : Nat]], signedUp' \subseteq Emails,
         overtaken' \subseteq Requests,
         request' \in [Requests -> RequestType],
         answer' \in [how : {"none", "ok", "duplicate", "referenced", "gone"},
                      uid : Uids \cup {None}],
         UNCHANGED <<claim, erasing, changes, erasures>>
  PROVE  TypeOK'
BY DEF TypeOK, RequestType

\* One row written under an email keeps every reference to it.
LEMMA RowWritten ==
  ASSUME TypeOK, NEW u \in Uids, NEW e \in Emails,
         email' = [email EXCEPT ![u] = e]
  PROVE  /\ email' \in [Uids -> Emails \cup {None}]
         /\ Rows' = Rows \cup {u}
         /\ \A v \in Uids : email'[v] = IF v = u THEN e ELSE email[v]
BY IdentityAssumption DEF TypeOK, Rows

\* The writes of a login.
LEMMA SyncSetsEmailTypes ==
  ASSUME TypeOK, NEW r \in Requests, SyncSetsEmail(r)
  PROVE  TypeOK'
<1> DEFINE u == Uid(r)
<1>1. /\ ~ At(r, "idle")
      /\ UNCHANGED <<identities, onboarded, referenced, claim, erasing, history,
                     overtaken, changes, erasures>>
  BY DEF SyncSetsEmail, At
<1>2. Answers(r, "ok") \/ Answers(r, "duplicate")
  BY DEF SyncSetsEmail
<1>3. /\ request' \in [Requests -> RequestType]
      /\ answer' \in [how : {"none", "ok", "duplicate", "referenced", "gone"},
                      uid : Uids \cup {None}]
  BY <1>1, <1>2, AnswerType, EndEffect
<1>4. u \in Uids /\ EmailOf(r) \in Emails
  BY <1>1, UnderWay
<1>5. CASE email' = email
  BY <1>1, <1>3, <1>5, TablesKept DEF tables, TypeOK
<1>6. CASE u \in Rows /\ email' = [email EXCEPT ![u] = EmailOf(r)]
  <2>1. email' \in [Uids -> Emails \cup {None}] /\ Rows' = Rows \cup {u}
    BY <1>4, <1>6, RowWritten
  <2>2. QED
    BY <1>1, <1>3, <1>6, <2>1, TypeParts DEF TypeOK, history
<1>7. u \notin Rows => [email EXCEPT ![u] = None] = email
  BY <1>4 DEF TypeOK, Rows
<1>8. QED
  BY <1>5, <1>6, <1>7 DEF SyncSetsEmail

LEMMA SyncInsertsTypes ==
  ASSUME TypeOK, NEW r \in Requests, SyncInserts(r)
  PROVE  TypeOK'
<1> DEFINE u == Uid(r)
<1>1. /\ ~ At(r, "idle")
      /\ UNCHANGED <<identities, onboarded, referenced, claim, erasing, history,
                     overtaken, changes, erasures>>
  BY DEF SyncInserts, At
<1>2. Answers(r, "ok") \/ Answers(r, "duplicate") \/ Answers(r, "gone")
  BY DEF SyncInserts
<1>3. /\ request' \in [Requests -> RequestType]
      /\ answer' \in [how : {"none", "ok", "duplicate", "referenced", "gone"},
                      uid : Uids \cup {None}]
  BY <1>1, <1>2, AnswerType, EndEffect
<1>4. u \in Uids /\ EmailOf(r) \in Emails
  BY <1>1, UnderWay
<1>5. CASE email' = email
  BY <1>1, <1>3, <1>5, TablesKept DEF tables, TypeOK
<1>6. CASE u \in identities /\ email' = [email EXCEPT ![u] = EmailOf(r)]
  <2>1. email' \in [Uids -> Emails \cup {None}] /\ Rows' = Rows \cup {u}
    BY <1>4, <1>6, RowWritten
  <2>2. QED
    BY <1>1, <1>3, <1>6, <2>1, TypeParts DEF TypeOK, history
<1>7. QED
  BY <1>5, <1>6 DEF SyncInserts

\* What an adoption does to the tables: nothing, a new email for the row that
\* was found, or that row under a new id.
Stays(r) ==
  /\ UNCHANGED <<tables, history, overtaken>>

Rewrites(r) ==
  /\ request[r].found = Uid(r) /\ Uid(r) \in Rows
  /\ ~ EmailTaken(EmailOf(r), {Uid(r)})
  /\ email' = [email EXCEPT ![Uid(r)] = EmailOf(r)]
  /\ UNCHANGED <<identities, referenced, onboarded, history, overtaken>>

Moves(r) ==
  LET u == Uid(r)
      old == request[r].found
  IN
  /\ old \in Rows /\ u \notin Rows /\ old \notin referenced /\ u \in identities
  /\ ~ EmailTaken(EmailOf(r), {old})
  /\ email' = [email EXCEPT ![old] = None, ![u] = EmailOf(r)]
  /\ onboarded' = Repointed(onboarded, old, u)
  /\ provisioned' = CarriedOver(provisioned, old, u)
  /\ overtaken' = IF old \in onboarded
                  THEN overtaken \cup {q \in Requests : PastGate(q) /\ Uid(q) = u}
                  ELSE overtaken
  /\ UNCHANGED <<identities, referenced, signedUp>>

LEMMA AdoptEffect ==
  ASSUME TypeOK, NEW r \in Requests, SyncAdopts(r)
  PROVE  /\ ~ At(r, "idle")
         /\ UNCHANGED <<claim, erasing, signedUp, changes, erasures>>
         /\ Stays(r) \/ Rewrites(r) \/ Moves(r)
<1> DEFINE u == Uid(r)
           old == request[r].found
           moves == old \in Rows /\ old # u
           duplicate == old \in Rows /\ ((moves /\ u \in Rows) \/ EmailTaken(EmailOf(r), {old}))
<1>1. ~ At(r, "idle") /\ UNCHANGED <<claim, erasing, signedUp, changes, erasures>>
  BY DEF SyncAdopts, At
<1>2. Uid(r) \in Uids /\ old \in Uids \cup {None}
  BY <1>1, UnderWay
<1>3. CASE UNCHANGED <<tables, provisioned, overtaken>>
  BY <1>1, <1>3 DEF Stays, history
<1>4. CASE ~ UNCHANGED <<tables, provisioned, overtaken>>
  <2>1. /\ ~ duplicate /\ ~ (moves /\ old \in referenced) /\ ~ (moves /\ u \notin identities)
        /\ email' = IF moves THEN [email EXCEPT ![old] = None, ![u] = EmailOf(r)]
                    ELSE [email EXCEPT ![old] = IF old \in Rows THEN EmailOf(r) ELSE None]
        /\ onboarded' = IF moves THEN Repointed(onboarded, old, u) ELSE onboarded
        /\ provisioned' = IF moves THEN CarriedOver(provisioned, old, u) ELSE provisioned
        /\ overtaken' = IF moves /\ old \in onboarded
                        THEN overtaken \cup {q \in Requests : PastGate(q) /\ Uid(q) = u}
                        ELSE overtaken
        /\ UNCHANGED <<identities, referenced>>
    BY <1>4 DEF SyncAdopts
  <2>2. CASE moves
    BY <1>1, <2>1, <2>2 DEF Moves
  <2>3. CASE ~ moves
    <3>1. CASE old \in Rows
      <4>1. old = u
        BY <2>3, <3>1
      <4>2. email' = [email EXCEPT ![u] = EmailOf(r)] /\ ~ EmailTaken(EmailOf(r), {u})
        BY <2>1, <2>3, <3>1, <4>1
      <4>3. QED
        BY <1>1, <2>1, <2>3, <3>1, <4>1, <4>2 DEF Rewrites, history
    <3>2. CASE old \notin Rows
      <4>1. email' = [email EXCEPT ![old] = None]
        BY <2>1, <3>2
      <4>2. email' = email
        BY <1>2, <3>2, <4>1 DEF TypeOK, Rows
      <4>3. QED
        BY <1>1, <2>1, <2>3, <4>2 DEF Stays, tables, history
    <3>3. QED
      BY <3>1, <3>2
  <2>4. QED
    BY <2>2, <2>3
<1>5. QED
  BY <1>1, <1>3, <1>4

\* The row under its new id.
LEMMA MoveEffect ==
  ASSUME TypeOK, NEW r \in Requests, ~ At(r, "idle"), Moves(r)
  PROVE  LET u == Uid(r)
             old == request[r].found
         IN /\ u \in Uids /\ old \in Uids /\ u # old /\ EmailOf(r) \in Emails
            /\ email' \in [Uids -> Emails \cup {None}]
            /\ \A v \in Uids : email'[v] = IF v = u THEN EmailOf(r)
                                           ELSE IF v = old THEN None ELSE email[v]
            /\ Rows' = (Rows \ {old}) \cup {u}
            /\ onboarded' = IF old \in onboarded THEN (onboarded \ {old}) \cup {u} ELSE onboarded
<1>1. /\ Uid(r) \in Uids /\ EmailOf(r) \in Emails /\ EmailOf(r) # None
      /\ request[r].found \in Uids /\ Uid(r) # request[r].found
  BY UnderWay DEF Moves, Rows
<1>2. /\ email' \in [Uids -> Emails \cup {None}]
      /\ \A v \in Uids : email'[v] = IF v = Uid(r) THEN EmailOf(r)
                                     ELSE IF v = request[r].found THEN None ELSE email[v]
  BY <1>1 DEF Moves, TypeOK
<1>3. Rows' = (Rows \ {request[r].found}) \cup {Uid(r)}
  BY <1>1, <1>2 DEF Rows
<1>4. QED
  BY <1>1, <1>2, <1>3 DEF Moves, Repointed

LEMMA SyncAdoptsTypes ==
  ASSUME TypeOK, NEW r \in Requests, SyncAdopts(r)
  PROVE  TypeOK'
<1>1. /\ ~ At(r, "idle") /\ UNCHANGED <<claim, erasing, signedUp, changes, erasures>>
      /\ Stays(r) \/ Rewrites(r) \/ Moves(r)
  BY AdoptEffect
<1>2. Answers(r, "ok") \/ Answers(r, "duplicate") \/ Answers(r, "referenced") \/ Answers(r, "gone")
  BY DEF SyncAdopts
<1>3. /\ request' \in [Requests -> RequestType]
      /\ answer' \in [how : {"none", "ok", "duplicate", "referenced", "gone"},
                      uid : Uids \cup {None}]
  BY <1>1, <1>2, AnswerType, EndEffect
<1>4. CASE Stays(r)
  BY <1>1, <1>3, <1>4, TablesKept DEF Stays, TypeOK
<1>5. CASE Rewrites(r)
  <2>1. Uid(r) \in Uids /\ EmailOf(r) \in Emails
    BY <1>1, UnderWay
  <2>2. email' = [email EXCEPT ![Uid(r)] = EmailOf(r)] /\ Uid(r) \in Rows
    BY <1>5 DEF Rewrites
  <2>3. email' \in [Uids -> Emails \cup {None}] /\ Rows' = Rows \cup {Uid(r)}
    BY <2>1, <2>2, RowWritten
  <2>4. QED
    BY <1>1, <1>3, <1>5, <2>2, <2>3, TypeParts DEF TypeOK, Rewrites, history
<1>6. CASE Moves(r)
  <2> DEFINE u == Uid(r)
             old == request[r].found
  <2>1. /\ u \in Uids /\ old \in Uids /\ u # old
        /\ email' \in [Uids -> Emails \cup {None}]
        /\ Rows' = (Rows \ {old}) \cup {u}
        /\ onboarded' = IF old \in onboarded THEN (onboarded \ {old}) \cup {u} ELSE onboarded
    BY <1>1, <1>6, MoveEffect
  <2>2. /\ old \notin referenced /\ u \in identities
        /\ UNCHANGED <<identities, referenced, signedUp>>
        /\ provisioned' = CarriedOver(provisioned, old, u)
        /\ overtaken' \subseteq Requests
    BY <1>6 DEF Moves, TypeOK
  <2>3. referenced' \subseteq Rows' /\ onboarded' \subseteq Rows' /\ Rows' \subseteq identities'
    BY <2>1, <2>2 DEF TypeOK
  <2>4. provisioned' \in [Uids -> [all : Nat, overtaken : Nat]]
    BY <2>1, <2>2 DEF TypeOK, CarriedOver, Unprovisioned
  <2>5. QED
    BY <1>1, <1>3, <2>1, <2>2, <2>3, <2>4, TypeParts DEF TypeOK
<1>7. QED
  BY <1>1, <1>4, <1>5, <1>6

\* The write of an onboarding: refused, or the row is there and onboarded.
Onboards(r) ==
  LET u == Uid(r) IN
  /\ u \in identities /\ ~ EmailTaken(EmailOf(r), {u})
  /\ email' = [email EXCEPT ![u] = EmailOf(r)]
  /\ onboarded' = onboarded \cup {u}
  /\ provisioned' = [provisioned EXCEPT
       ![u] = [all       |-> @.all + 1,
               overtaken |-> @.overtaken + IF r \in overtaken THEN 1 ELSE 0]]
  /\ signedUp' = signedUp \cup {EmailOf(r)}

LEMMA OnboardUpsertsTypes ==
  ASSUME TypeOK, NEW r \in Requests, OnboardUpserts(r)
  PROVE  TypeOK'
<1>1. /\ ~ At(r, "idle") /\ Ends(r)
      /\ UNCHANGED <<identities, referenced, claim, erasing, changes, erasures>>
      /\ UNCHANGED <<email, onboarded, provisioned, signedUp>> \/ Onboards(r)
  BY DEF OnboardUpserts, At, Onboards
<1>2. /\ request' \in [Requests -> RequestType]
      /\ answer' \in [how : {"none", "ok", "duplicate", "referenced", "gone"},
                      uid : Uids \cup {None}]
      /\ overtaken' \subseteq Requests
  BY <1>1, EndEffect DEF Ends, Silent, NoAnswer, TypeOK
<1>3. CASE UNCHANGED <<email, onboarded, provisioned, signedUp>>
  BY <1>1, <1>2, <1>3, TablesKept DEF tables, history
<1>4. CASE Onboards(r)
  <2>1. Uid(r) \in Uids /\ EmailOf(r) \in Emails
    BY <1>1, UnderWay
  <2>2. email' \in [Uids -> Emails \cup {None}] /\ Rows' = Rows \cup {Uid(r)}
    BY <1>4, <2>1, RowWritten DEF Onboards
  <2>3. provisioned' \in [Uids -> [all : Nat, overtaken : Nat]] /\ signedUp' \subseteq Emails
    BY <1>4, <2>1 DEF Onboards, TypeOK
  <2>4. QED
    BY <1>1, <1>2, <1>4, <2>1, <2>2, <2>3, TypeParts DEF TypeOK, Onboards
<1>5. QED
  BY <1>1, <1>3, <1>4

\* What befalls an account beside the requests.
LEMMA AccountTypes ==
  ASSUME TypeOK, NEW u \in Uids,
         Refer(u) \/ Unrefer(u) \/ EmailChanges(u) \/ EraseProfile(u) \/ EraseIdentity(u)
  PROVE  TypeOK'
<1>1. /\ request' = request /\ overtaken' = overtaken
      /\ answer' \in [how : {"none", "ok", "duplicate", "referenced", "gone"},
                      uid : Uids \cup {None}]
  BY DEF Refer, Unrefer, EmailChanges, EraseProfile, EraseIdentity, Silent, NoAnswer
<1>2. CASE Refer(u) \/ Unrefer(u)
  <2>1. /\ UNCHANGED <<identities, email, onboarded, claim, erasing, history, changes, erasures>>
        /\ referenced' \subseteq Rows
    BY <1>2 DEF Refer, Unrefer, TypeOK
  <2>2. Rows' = Rows
    BY <2>1 DEF Rows
  <2>3. QED
    BY <1>1, <2>1, <2>2, TypeParts DEF TypeOK, history, RequestType
<1>3. CASE EmailChanges(u)
  <2>1. /\ UNCHANGED <<tables, erasing, history, erasures>> /\ changes' = changes + 1
        /\ changes + erasures < MaxUpsets
        /\ \E e \in Emails \ {claim[u]} : claim' = [claim EXCEPT ![u] = e]
    BY <1>3 DEF EmailChanges
  <2>2. claim' \in [Uids -> Emails]
    BY <2>1 DEF TypeOK
  <2>3. {changes', erasures'} \subseteq 0..MaxUpsets
    BY <2>1, BoundAssumption DEF TypeOK
  <2>4. QED
    BY <1>1, <2>1, <2>2, <2>3 DEF TypeOK, tables, history, Rows
<1>4. ASSUME ProfileDeleted(u)
      PROVE  /\ email' \in [Uids -> Emails \cup {None}] /\ Rows' = Rows \ {u}
             /\ provisioned' \in [Uids -> [all : Nat, overtaken : Nat]]
             /\ referenced' = referenced \ {u} /\ onboarded' = onboarded \ {u}
  BY <1>4 DEF ProfileDeleted, TypeOK, Rows, Unprovisioned
<1>5. CASE EraseProfile(u)
  <2>1. /\ ProfileDeleted(u) /\ erasing' = erasing \cup {u}
        /\ erasures' = erasures + 1 /\ changes + erasures < MaxUpsets
        /\ UNCHANGED <<identities, claim, signedUp, changes>>
    BY <1>5 DEF EraseProfile
  <2>2. {changes', erasures'} \subseteq 0..MaxUpsets
    BY <2>1, BoundAssumption DEF TypeOK
  <2>3. QED
    BY <1>1, <1>4, <2>1, <2>2 DEF TypeOK
<1>6. CASE EraseIdentity(u)
  <2>1. /\ erasing' \subseteq Uids /\ UNCHANGED <<claim, signedUp, changes, erasures>>
        /\ \/ identities' = identities \ {u} /\ ProfileDeleted(u)
           \/ UNCHANGED <<tables, provisioned>>
    BY <1>6 DEF EraseIdentity, TypeOK
  <2>2. CASE identities' = identities \ {u} /\ ProfileDeleted(u)
    BY <1>1, <1>4, <2>1, <2>2 DEF TypeOK
  <2>3. CASE UNCHANGED <<tables, provisioned>>
    BY <1>1, <2>1, <2>3 DEF TypeOK, tables, Rows
  <2>4. QED
    BY <2>1, <2>2, <2>3
<1>7. QED
  BY <1>2, <1>3, <1>5, <1>6

\* The foreign keys and the primary key hold in every state, and every request
\* is at one of its statements.
THEOREM TypeCorrect == Spec => []TypeOK
<1>1. Init => TypeOK
  <2> SUFFICES ASSUME Init PROVE TypeOK
    OBVIOUS
  <2>1. Rows = {}
    BY DEF Init, Rows
  <2>2. QED
    BY <2>1, IdentityAssumption, BoundAssumption DEF Init, TypeOK, NoAnswer, Unprovisioned
<1>2. TypeOK /\ [Next]_vars => TypeOK'
  <2> SUFFICES ASSUME TypeOK, [Next]_vars PROVE TypeOK'
    OBVIOUS
  <2>1. ASSUME NEW r \in Requests,
               \/ SyncBegins(r) \/ OnboardBegins(r) \/ SyncReadsId(r) \/ SyncReadsEmail(r)
               \/ OnboardReadsGate(r) \/ OnboardCounts(r) \/ RequestLost(r)
        PROVE  TypeOK'
    BY <2>1, ReadTypes
  <2>2. ASSUME NEW r \in Requests,
               SyncSetsEmail(r) \/ SyncAdopts(r) \/ SyncInserts(r) \/ OnboardUpserts(r)
        PROVE  TypeOK'
    BY <2>2, SyncSetsEmailTypes, SyncAdoptsTypes, SyncInsertsTypes, OnboardUpsertsTypes
  <2>3. ASSUME NEW u \in Uids,
               Refer(u) \/ Unrefer(u) \/ EmailChanges(u) \/ EraseProfile(u) \/ EraseIdentity(u)
        PROVE  TypeOK'
    BY <2>3, AccountTypes
  <2>4. CASE UNCHANGED vars
    BY <2>4 DEF vars, tables, history, TypeOK, Rows
  <2>5. QED
    BY <2>1, <2>2, <2>3, <2>4 DEF Next, Erasure
<1>3. QED
  BY <1>1, <1>2, PTL DEF Spec

(***************************************************************************)
(* The steps of a request and the two advisory locks.                      *)
(***************************************************************************)
\* What the statement a request is at has read when it goes on.
Advances(r) ==
  \/ At(r, "byId") /\ request'[r].at = "byEmail" /\ email[Uid(r)] = None
  \/ /\ At(r, "byId") /\ request'[r].at = "setEmail"
     /\ email[Uid(r)] \notin {None, EmailOf(r)}
  \/ /\ At(r, "byEmail") /\ request'[r].at = "adopt"
     /\ request'[r].found \in Rows /\ email[request'[r].found] = EmailOf(r)
  \/ /\ At(r, "byEmail") /\ request'[r].at = "insert"
     /\ EmailOf(r) \notin {email[v] : v \in Rows}
  \/ At(r, "gate") /\ request'[r].at = "count" /\ Uid(r) \notin onboarded
  \/ At(r, "count") /\ request'[r].at = "upsert" /\ ~ AtCapacity

Move(r) ==
  \/ request'[r] = Idle
  \/ Kept(r) /\ Advances(r)
  \/ /\ At(r, "idle")
     /\ request'[r].uid \in Uids /\ request'[r].email \in TokenEmails(request'[r].uid)
     /\ \/ request'[r].at = "byId" /\ EmailLockFree(request'[r].email)
        \/ request'[r].at = "gate" /\ UidLockFree(request'[r].uid)

\* The steps that touch no table.
Reads(r) ==
  \/ SyncBegins(r) \/ OnboardBegins(r) \/ SyncReadsId(r) \/ SyncReadsEmail(r)
  \/ OnboardReadsGate(r) \/ OnboardCounts(r) \/ RequestLost(r)

Writes(r) ==
  SyncSetsEmail(r) \/ SyncAdopts(r) \/ SyncInserts(r) \/ OnboardUpserts(r)

Befalls(u) ==
  Refer(u) \/ Unrefer(u) \/ EmailChanges(u) \/ EraseProfile(u) \/ EraseIdentity(u)

LEMMA ReadMoves ==
  ASSUME TypeOK, NEW r \in Requests, Reads(r)
  PROVE  /\ OthersKept(r) /\ Move(r) /\ answer'.how # "duplicate"
         /\ UNCHANGED <<tables, claim, erasing, history, changes, erasures>>
<1>0. NoAnswer.how # "duplicate"
  BY DEF NoAnswer
<1>1. CASE SyncBegins(r)
  <2>1. PICK u \in Uids, e \in Emails : EmailLockFree(e) /\ Begins(r, "byId", u, e)
    BY <1>1 DEF SyncBegins
  <2>2. "byId" \in SyncSteps \cup OnboardSteps /\ e \in TokenEmails(u)
    BY <2>1 DEF SyncSteps, Begins
  <2>3. /\ request'[r] = [at |-> "byId", uid |-> u, email |-> e, found |-> None]
        /\ At(r, "idle") /\ OthersKept(r) /\ answer' = NoAnswer
        /\ UNCHANGED <<tables, claim, erasing, history, changes, erasures>>
    BY <2>1, <2>2, BeginEffect
  <2>4. Move(r)
    BY <2>1, <2>2, <2>3 DEF Move
  <2>5. QED
    BY <1>0, <2>3, <2>4
<1>2. CASE OnboardBegins(r)
  <2>1. PICK u \in Uids, e \in Emails : UidLockFree(u) /\ Begins(r, "gate", u, e)
    BY <1>2 DEF OnboardBegins
  <2>2. "gate" \in SyncSteps \cup OnboardSteps /\ e \in TokenEmails(u)
    BY <2>1 DEF OnboardSteps, Begins
  <2>3. /\ request'[r] = [at |-> "gate", uid |-> u, email |-> e, found |-> None]
        /\ At(r, "idle") /\ OthersKept(r) /\ answer' = NoAnswer
        /\ UNCHANGED <<tables, claim, erasing, history, changes, erasures>>
    BY <2>1, <2>2, BeginEffect
  <2>4. Move(r)
    BY <2>1, <2>2, <2>3 DEF Move
  <2>5. QED
    BY <1>0, <2>3, <2>4
<1>3. CASE SyncReadsId(r)
  <2>1. /\ At(r, "byId") /\ ~ At(r, "idle")
        /\ UNCHANGED <<tables, claim, erasing, history, changes, erasures>>
    BY <1>3 DEF SyncReadsId, At
  <2>2. {"byEmail", "setEmail"} \subseteq SyncSteps \cup OnboardSteps
    BY DEF SyncSteps
  <2>3. CASE Answers(r, "ok")
    <3>1. request' = [request EXCEPT ![r] = Idle] /\ answer'.how = "ok"
      BY <2>1, <2>3, AnswerType
    <3>2. QED
      BY <2>1, <3>1, EndEffect DEF Move
  <2>4. CASE email[Uid(r)] = None /\ Goto(r, "byEmail")
    <3>1. request'[r].at = "byEmail" /\ Kept(r) /\ OthersKept(r) /\ answer' = NoAnswer
      BY <2>1, <2>2, <2>4, GotoEffect
    <3>2. QED
      BY <1>0, <2>1, <2>4, <3>1 DEF Move, Advances
  <2>5. CASE email[Uid(r)] \notin {None, EmailOf(r)} /\ Goto(r, "setEmail")
    <3>1. request'[r].at = "setEmail" /\ Kept(r) /\ OthersKept(r) /\ answer' = NoAnswer
      BY <2>1, <2>2, <2>5, GotoEffect
    <3>2. QED
      BY <1>0, <2>1, <2>5, <3>1 DEF Move, Advances
  <2>6. EmailOf(r) # None
    BY <2>1, UnderWay
  <2>7. QED
    BY <1>3, <2>3, <2>4, <2>5, <2>6 DEF SyncReadsId
<1>4. CASE SyncReadsEmail(r)
  <2>1. /\ At(r, "byEmail") /\ ~ At(r, "idle") /\ answer' = NoAnswer
        /\ UNCHANGED <<tables, claim, erasing, history, changes, erasures>>
    BY <1>4 DEF SyncReadsEmail, At, Goto, Silent
  <2>2. CASE EmailOf(r) \notin {email[v] : v \in Rows} /\ Goto(r, "insert")
    <3>1. "insert" \in SyncSteps \cup OnboardSteps
      BY DEF SyncSteps
    <3>2. request'[r].at = "insert" /\ Kept(r) /\ OthersKept(r)
      BY <2>1, <2>2, <3>1, GotoEffect
    <3>3. QED
      BY <1>0, <2>1, <2>2, <3>2 DEF Move, Advances
  <2>3. CASE \E v \in Rows :
               /\ email[v] = EmailOf(r)
               /\ request' = [request EXCEPT ![r].at = "adopt", ![r].found = v]
    <3>1. PICK v \in Rows :
            /\ email[v] = EmailOf(r)
            /\ request' = [request EXCEPT ![r].at = "adopt", ![r].found = v]
      BY <2>3
    <3>2. request[r] \in [at : SyncSteps \cup OnboardSteps,
                          uid : Uids, email : Emails, found : Uids \cup {None}]
      BY <2>1 DEF TypeOK, At, Idle
    <3>3. /\ request'[r].at = "adopt" /\ request'[r].found = v /\ Kept(r) /\ OthersKept(r)
      BY <3>1, <3>2 DEF TypeOK, Kept, OthersKept
    <3>4. QED
      BY <1>0, <2>1, <3>1, <3>3 DEF Move, Advances
  <2>4. QED
    BY <1>4, <2>2, <2>3 DEF SyncReadsEmail
<1>5. CASE OnboardReadsGate(r) \/ OnboardCounts(r) \/ RequestLost(r)
  <2>1. /\ ~ At(r, "idle")
        /\ UNCHANGED <<tables, claim, erasing, history, changes, erasures>>
    BY <1>5 DEF OnboardReadsGate, OnboardCounts, RequestLost, At
  <2>2. {"count", "upsert"} \subseteq SyncSteps \cup OnboardSteps
    BY DEF OnboardSteps
  <2>3. CASE Ends(r)
    BY <1>0, <2>1, <2>3, EndEffect DEF Ends, Silent, Move
  <2>4. CASE At(r, "gate") /\ Uid(r) \notin onboarded /\ Goto(r, "count")
    <3>1. request'[r].at = "count" /\ Kept(r) /\ OthersKept(r) /\ answer' = NoAnswer
      BY <2>1, <2>2, <2>4, GotoEffect
    <3>2. QED
      BY <1>0, <2>1, <2>4, <3>1 DEF Move, Advances
  <2>5. CASE At(r, "count") /\ ~ AtCapacity /\ Goto(r, "upsert")
    <3>1. request'[r].at = "upsert" /\ Kept(r) /\ OthersKept(r) /\ answer' = NoAnswer
      BY <2>1, <2>2, <2>5, GotoEffect
    <3>2. QED
      BY <1>0, <2>1, <2>5, <3>1 DEF Move, Advances
  <2>6. QED
    BY <1>5, <2>3, <2>4, <2>5 DEF OnboardReadsGate, OnboardCounts, RequestLost
<1>6. QED
  BY <1>1, <1>2, <1>3, <1>4, <1>5 DEF Reads

\* A request that writes is over.
LEMMA WriteMoves ==
  ASSUME TypeOK, NEW r \in Requests, Writes(r)
  PROVE  ~ At(r, "idle") /\ request'[r] = Idle /\ OthersKept(r)
<1>1. ~ At(r, "idle") /\ request' = [request EXCEPT ![r] = Idle]
  BY DEF Writes, SyncSetsEmail, SyncAdopts, SyncInserts, OnboardUpserts, At, Answers, Ends
<1>2. QED
  BY <1>1, EndEffect

LEMMA NothingMoves ==
  ASSUME TypeOK, NEW u \in Uids, Befalls(u)
  PROVE  request' = request /\ answer'.how # "duplicate"
BY DEF Befalls, Refer, Unrefer, EmailChanges, EraseProfile, EraseIdentity, Silent, NoAnswer

\* A step is one of these.
LEMMA Steps ==
  ASSUME [Next]_vars
  PROVE  \/ \E r \in Requests : Reads(r)
         \/ \E r \in Requests : Writes(r)
         \/ \E u \in Uids : Befalls(u)
         \/ UNCHANGED vars
BY DEF Next, Erasure, Reads, Writes, Befalls

\* At most one onboarding of a person, and one login under an email, is under way.
OneOnboarding ==
  \A q, r \in Requests :
    /\ request[q].at \in OnboardSteps /\ request[r].at \in OnboardSteps
    /\ Uid(q) = Uid(r)
    => q = r

OneLogin ==
  \A q, r \in Requests :
    /\ request[q].at \in SyncSteps /\ request[r].at \in SyncSteps
    /\ EmailOf(q) = EmailOf(r)
    => q = r

Locked == OneOnboarding /\ OneLogin

LEMMA LocksStep == TypeOK /\ Locked /\ [Next]_vars => Locked'
<1> SUFFICES ASSUME TypeOK, Locked, [Next]_vars PROVE Locked'
  OBVIOUS
<1> USE DEF Uid, EmailOf
<1>1. ASSUME NEW r \in Requests, OthersKept(r),
             request'[r] = Idle \/ (Kept(r) /\ Advances(r))
      PROVE  Locked'
  <2>1. \A q \in Requests :
          /\ request'[q].at \in SyncSteps =>
               request[q].at \in SyncSteps /\ request'[q].email = request[q].email
          /\ request'[q].at \in OnboardSteps =>
               request[q].at \in OnboardSteps /\ request'[q].uid = request[q].uid
    BY <1>1 DEF OthersKept, Kept, Advances, At, Idle, SyncSteps, OnboardSteps
  <2>2. QED
    BY <2>1 DEF Locked, OneOnboarding, OneLogin
<1>2. ASSUME NEW r \in Requests, OthersKept(r),
             request'[r].at = "byId", EmailLockFree(request'[r].email)
      PROVE  Locked'
  <2>1. \A q \in Requests \ {r} : request'[q] = request[q]
    BY <1>2 DEF OthersKept
  <2>2. request'[r].at \notin OnboardSteps
    BY <1>2 DEF OnboardSteps
  <2>3. OneOnboarding'
    BY <2>1, <2>2 DEF Locked, OneOnboarding
  <2>4. OneLogin'
    BY <1>2, <2>1 DEF Locked, OneLogin, EmailLockFree
  <2>5. QED
    BY <2>3, <2>4 DEF Locked
<1>3. ASSUME NEW r \in Requests, OthersKept(r),
             request'[r].at = "gate", UidLockFree(request'[r].uid)
      PROVE  Locked'
  <2>1. \A q \in Requests \ {r} : request'[q] = request[q]
    BY <1>3 DEF OthersKept
  <2>2. request'[r].at \notin SyncSteps
    BY <1>3 DEF SyncSteps
  <2>3. OneLogin'
    BY <2>1, <2>2 DEF Locked, OneLogin
  <2>4. OneOnboarding'
    BY <1>3, <2>1 DEF Locked, OneOnboarding, UidLockFree
  <2>5. QED
    BY <2>3, <2>4 DEF Locked
<1>4. CASE request' = request
  BY <1>4 DEF Locked, OneOnboarding, OneLogin
<1>5. ASSUME NEW r \in Requests, Reads(r) PROVE Locked'
  BY <1>1, <1>2, <1>3, <1>5, ReadMoves DEF Move
<1>6. ASSUME NEW r \in Requests, Writes(r) PROVE Locked'
  BY <1>1, <1>6, WriteMoves
<1>7. ASSUME NEW u \in Uids, Befalls(u) PROVE Locked'
  BY <1>4, <1>7, NothingMoves
<1>8. CASE UNCHANGED vars
  BY <1>4, <1>8 DEF vars
<1>9. QED
  BY <1>5, <1>6, <1>7, <1>8, Steps

\* The advisory locks exclude what they are taken to exclude.
LEMMA LocksHold == Spec => []Locked
<1>1. Init => Locked
  BY DEF Init, Locked, OneOnboarding, OneLogin, Idle, OnboardSteps, SyncSteps
<1>2. QED
  BY <1>1, LocksStep, TypeCorrect, PTL DEF Spec

(***************************************************************************)
(* Onboarding once.                                                        *)
(***************************************************************************)
\* A row that was onboarded is marked so, and a request that passed the gate
\* is for a row that was not, or that came by adoption meanwhile.
Provisioning ==
  /\ \A u \in Uids :
       /\ provisioned[u].all <= 1 + provisioned[u].overtaken
       /\ provisioned[u].all # 0 => u \in onboarded
  /\ \A r \in Requests :
       PastGate(r) => r \in overtaken \/ provisioned[Uid(r)].all = 0

\* No request enters or changes its onboarding while tables do not change.
LEMMA ProvisioningKept ==
  ASSUME TypeOK, TypeOK', Provisioning,
         \A u \in Uids : \/ provisioned'[u] = Unprovisioned
                         \/ provisioned'[u] = provisioned[u] /\ (u \in onboarded => u \in onboarded'),
         \A r \in Requests : request'[r].at \in {"count", "upsert"} =>
           request'[r] = request[r] /\ (r \in overtaken => r \in overtaken')
  PROVE  Provisioning'
<1>1. \A r \in Requests : request'[r].at \in {"count", "upsert"} => request'[r].uid \in Uids
  BY DEF TypeOK, Idle
<1>2. Unprovisioned.all = 0 /\ Unprovisioned.overtaken = 0
  BY DEF Unprovisioned
<1>3. \A u \in Uids : /\ provisioned'[u].all <= 1 + provisioned'[u].overtaken
                      /\ provisioned'[u].all # 0 => u \in onboarded'
  BY <1>2 DEF Provisioning
<1>4. \A r \in Requests :
        PastGate(r)' => r \in overtaken' \/ provisioned'[request'[r].uid].all = 0
  BY <1>1, <1>2 DEF Provisioning, Uid, PastGate
<1>5. QED
  BY <1>3, <1>4 DEF Provisioning, Uid

LEMMA ProvisioningStep == TypeOK /\ TypeOK' /\ Locked /\ Provisioning /\ [Next]_vars => Provisioning'
<1> SUFFICES ASSUME TypeOK, TypeOK', Locked, Provisioning, [Next]_vars PROVE Provisioning'
  OBVIOUS
<1>1. ASSUME NEW r \in Requests, Reads(r) PROVE Provisioning'
  <2>1. OthersKept(r) /\ Move(r) /\ UNCHANGED <<onboarded, provisioned>>
    BY <1>1, ReadMoves DEF tables, history
  <2>1a. overtaken' = overtaken \/ (request'[r] = Idle /\ overtaken' = overtaken \ {r})
    BY <1>1, EndEffect DEF Reads, SyncBegins, OnboardBegins, SyncReadsId, SyncReadsEmail,
                OnboardReadsGate, OnboardCounts, RequestLost, Begins, Goto, Ends
  <2>2. CASE request'[r].at \notin {"count", "upsert"}
    <3>1. \A q \in Requests : request'[q].at \in {"count", "upsert"} =>
            request'[q] = request[q] /\ (q \in overtaken => q \in overtaken')
      BY <2>1, <2>1a, <2>2 DEF OthersKept
    <3>2. QED
      BY <2>1, <3>1, ProvisioningKept
  <2>3. CASE request'[r].at \in {"count", "upsert"}
    <3>1. Kept(r) /\ Advances(r)
      BY <2>1, <2>3 DEF Move, Idle
    <3>2. r \in overtaken \/ provisioned[Uid(r)].all = 0
      <4>1. CASE At(r, "gate")
        <5>1. Uid(r) \notin onboarded /\ Uid(r) \in Uids
          BY <2>3, <3>1, <4>1, UnderWay DEF Advances, At
        <5>2. QED
          BY <5>1 DEF Provisioning
      <4>2. CASE At(r, "count")
        BY <4>2 DEF Provisioning, At, PastGate
      <4>3. QED
        BY <2>3, <3>1, <4>1, <4>2 DEF Advances
    <3>3. overtaken' = overtaken
      BY <2>1a, <2>3 DEF Idle
    <3>4. QED
      BY <2>1, <3>1, <3>2, <3>3 DEF Provisioning, Uid, Kept, OthersKept, PastGate
  <2>4. QED
    BY <2>2, <2>3
<1>2. ASSUME NEW r \in Requests, Writes(r) PROVE Provisioning'
  <2>0. ~ At(r, "idle") /\ request'[r] = Idle /\ OthersKept(r)
    BY <1>2, WriteMoves
  <2>1. \A q \in Requests : request'[q].at \in {"count", "upsert"} => request'[q] = request[q] /\ q # r
    BY <2>0 DEF OthersKept, Idle
  <2>2. CASE SyncSetsEmail(r) \/ SyncInserts(r)
    <3>1. UNCHANGED <<onboarded, provisioned, overtaken>>
      BY <2>2 DEF SyncSetsEmail, SyncInserts, history
    <3>2. QED
      BY <2>1, <3>1, ProvisioningKept
  <2>3. CASE SyncAdopts(r)
    <3>1. CASE Stays(r) \/ Rewrites(r)
      <4>1. UNCHANGED <<onboarded, provisioned, overtaken>>
        BY <3>1 DEF Stays, Rewrites, tables, history
      <4>2. QED
        BY <2>1, <4>1, ProvisioningKept
    <3>2. CASE Moves(r)
      <4> DEFINE u == Uid(r)
                 old == request[r].found
      <4>1. /\ u \in Uids /\ old \in Uids /\ u # old
            /\ onboarded' = IF old \in onboarded
                            THEN (onboarded \ {old}) \cup {u} ELSE onboarded
        BY <2>0, <3>2, MoveEffect
      <4>2. /\ provisioned' = CarriedOver(provisioned, old, u)
            /\ overtaken' = IF old \in onboarded
                            THEN overtaken \cup {q \in Requests : PastGate(q) /\ Uid(q) = u}
                            ELSE overtaken
        BY <3>2 DEF Moves
      <4>3. \A v \in Uids : provisioned'[v] = IF v = u THEN provisioned[old]
                                              ELSE IF v = old THEN Unprovisioned
                                              ELSE provisioned[v]
        BY <4>1, <4>2 DEF TypeOK, CarriedOver
      <4>4. Unprovisioned.all = 0 /\ Unprovisioned.overtaken = 0
        BY DEF Unprovisioned
      <4> HIDE DEF u, old
      <4>5. \A v \in Uids : /\ provisioned'[v].all <= 1 + provisioned'[v].overtaken
                            /\ provisioned'[v].all # 0 => v \in onboarded'
        BY <4>1, <4>3, <4>4 DEF Provisioning
      <4>6. ASSUME NEW q \in Requests, PastGate(q)'
            PROVE  q \in overtaken' \/ provisioned'[request'[q].uid].all = 0
        <5>1. request'[q] = request[q] /\ PastGate(q)
          BY <2>1, <4>6 DEF PastGate
        <5>2. Uid(q) \in Uids
          BY <5>1, UnderWay DEF PastGate, At
        <5>3. q \in overtaken \/ provisioned[Uid(q)].all = 0
          BY <5>1 DEF Provisioning
        <5>4. CASE Uid(q) = u
          <6>1. CASE old \in onboarded
            BY <4>2, <5>1, <5>4, <6>1
          <6>2. CASE old \notin onboarded
            <7>1. provisioned[old].all = 0
              BY <4>1, <6>2 DEF Provisioning
            <7>2. QED
              BY <4>1, <4>3, <5>1, <5>4, <7>1 DEF Uid
          <6>3. QED
            BY <6>1, <6>2
        <5>5. CASE Uid(q) # u
          BY <4>1, <4>2, <4>3, <4>4, <5>1, <5>2, <5>3, <5>5 DEF Uid
        <5>6. QED
          BY <5>4, <5>5
      <4>7. QED
        BY <4>5, <4>6 DEF Provisioning, Uid
    <3>3. QED
      BY <2>3, <3>1, <3>2, AdoptEffect
  <2>4. CASE OnboardUpserts(r)
    <3>1. UNCHANGED <<email, onboarded, provisioned, signedUp>> \/ Onboards(r)
      BY <2>4 DEF OnboardUpserts, Onboards
    <3>1a. overtaken' = overtaken \ {r}
      BY <2>4 DEF OnboardUpserts, Ends
    <3>2. CASE UNCHANGED <<email, onboarded, provisioned, signedUp>>
      BY <2>1, <3>1a, <3>2, ProvisioningKept
    <3>3. CASE Onboards(r)
      <4> DEFINE u == Uid(r)
                 more == IF r \in overtaken THEN 1 ELSE 0
      <4>1. u \in Uids
        BY <2>0, UnderWay
      <4>2. r \in overtaken \/ provisioned[u].all = 0
        BY <2>4 DEF OnboardUpserts, At, PastGate, Provisioning
      <4>3. onboarded' = onboarded \cup {u}
        BY <3>3 DEF Onboards
      <4>4. \A v \in Uids : provisioned'[v] =
              IF v = u THEN [all |-> provisioned[u].all + 1,
                             overtaken |-> provisioned[u].overtaken + more]
              ELSE provisioned[v]
        BY <3>3, <4>1 DEF Onboards, TypeOK
      <4>5. provisioned[u].all \in Nat /\ provisioned[u].overtaken \in Nat
        BY <4>1 DEF TypeOK
      <4> HIDE DEF u
      <4>6. /\ provisioned'[u].all = provisioned[u].all + 1
            /\ provisioned'[u].overtaken = provisioned[u].overtaken + more
        BY <4>1, <4>4
      <4>7. provisioned[u].all <= 1 + provisioned[u].overtaken
        BY <4>1 DEF Provisioning
      <4>8. provisioned'[u].all <= 1 + provisioned'[u].overtaken
        BY <4>2, <4>5, <4>6, <4>7
      <4>9. \A v \in Uids : /\ provisioned'[v].all <= 1 + provisioned'[v].overtaken
                            /\ provisioned'[v].all # 0 => v \in onboarded'
        BY <4>3, <4>4, <4>8 DEF Provisioning
      <4>10. ASSUME NEW q \in Requests, PastGate(q)'
             PROVE  q \in overtaken' \/ provisioned'[request'[q].uid].all = 0
        <5>1. q # r /\ request'[q] = request[q] /\ PastGate(q)
          BY <2>1, <4>10 DEF PastGate
        <5>2. request[q].at \in OnboardSteps /\ request[r].at \in OnboardSteps
          BY <2>4, <5>1 DEF OnboardUpserts, At, OnboardSteps, PastGate
        <5>3. Uid(q) # u
          BY <5>1, <5>2 DEF Locked, OneOnboarding, u
        <5>4. Uid(q) \in Uids
          BY <5>1, UnderWay DEF At, PastGate
        <5>5. q \in overtaken \/ provisioned[Uid(q)].all = 0
          BY <5>1 DEF Provisioning
        <5>6. QED
          BY <3>1a, <4>4, <5>1, <5>3, <5>4, <5>5 DEF Uid
      <4>11. QED
        BY <4>9, <4>10 DEF Provisioning, Uid
    <3>4. QED
      BY <3>1, <3>2, <3>3
  <2>5. QED
    BY <1>2, <2>2, <2>3, <2>4 DEF Writes
<1>3. ASSUME NEW u \in Uids, Befalls(u) PROVE Provisioning'
  <2>1. request' = request /\ overtaken' = overtaken
    BY <1>3, NothingMoves
    DEF Befalls, Refer, Unrefer, EmailChanges, EraseProfile, EraseIdentity
  <2>2. \A v \in Uids : \/ provisioned'[v] = Unprovisioned
                        \/ /\ provisioned'[v] = provisioned[v]
                           /\ v \in onboarded => v \in onboarded'
    <3>1. CASE ProfileDeleted(u)
      BY <3>1 DEF ProfileDeleted, TypeOK
    <3>2. CASE UNCHANGED <<onboarded, provisioned>>
      BY <3>2
    <3>3. QED
      BY <1>3, <3>1, <3>2
      DEF Befalls, Refer, Unrefer, EmailChanges, EraseProfile, EraseIdentity, tables, history
  <2>3. QED
    BY <2>1, <2>2, ProvisioningKept
<1>4. CASE UNCHANGED vars
  BY <1>4 DEF vars, history, tables, Provisioning, Uid, PastGate
<1>5. QED
  BY <1>1, <1>2, <1>3, <1>4, Steps

LEMMA ProvisioningHolds == Spec => []Provisioning
<1>1. Init => Provisioning
  BY DEF Init, Provisioning, PastGate, Idle, Unprovisioned
<1>2. QED
  BY <1>1, ProvisioningStep, TypeCorrect, LocksHold, PTL DEF Spec

\* However often the onboarding form is submitted, at once or again, and
\* whichever identity the row is re-pointed to, a row is onboarded at most once
\* in its life, but for onboardings whose gate an adoption overtook.
THEOREM OnboardedAtMostOnce == Spec => []ProvisionedOnce
<1>1. TypeOK /\ Provisioning => ProvisionedOnce
  BY DEF TypeOK, Provisioning, ProvisionedOnce
<1>2. QED
  BY <1>1, TypeCorrect, ProvisioningHolds, PTL

(***************************************************************************)
(* How many profiles are onboarded.                                        *)
(***************************************************************************)
LEMMA OnboardedFinite ==
  ASSUME TypeOK
  PROVE  IsFiniteSet(onboarded) /\ Cardinality(onboarded) \in Nat
<1>1. onboarded \in SUBSET Uids
  BY DEF TypeOK, Rows
<1>2. IsFiniteSet(onboarded)
  BY <1>1, FS_Subset, IdentityAssumption
<1>3. QED
  BY <1>2, FS_CardinalityType

\* A login changes who is onboarded, never how many.
LEMMA LoginKeepsCount ==
  ASSUME TypeOK, NEW r \in Requests, SyncSetsEmail(r) \/ SyncAdopts(r) \/ SyncInserts(r)
  PROVE  Cardinality(onboarded') = Cardinality(onboarded)
<1>1. CASE onboarded' = onboarded
  BY <1>1
<1>2. CASE SyncAdopts(r) /\ Moves(r)
  <2> DEFINE u == Uid(r)
             old == request[r].found
             rest == onboarded \ {old}
  <2>1. /\ u \notin Rows
        /\ onboarded' = IF old \in onboarded THEN rest \cup {u} ELSE onboarded
    BY <1>2, AdoptEffect, MoveEffect DEF Moves
  <2>2. u \notin rest
    BY <2>1 DEF TypeOK
  <2>3. CASE old \in onboarded
    <3>1. IsFiniteSet(rest) /\ Cardinality(rest) = Cardinality(onboarded) - 1
      BY <2>3, OnboardedFinite, FS_RemoveElement
    <3>2. Cardinality(rest \cup {u}) = Cardinality(rest) + 1
      BY <2>2, <3>1, FS_AddElement
    <3> HIDE DEF rest
    <3>3. QED
      BY <2>1, <2>3, <3>1, <3>2, OnboardedFinite
  <2>4. QED
    BY <2>1, <2>3
<1>3. QED
  BY <1>1, <1>2, AdoptEffect
  DEF SyncSetsEmail, SyncInserts, Stays, Rewrites, tables

\* An onboarding adds one profile at most.
LEMMA OnboardingAddsOne ==
  ASSUME TypeOK, NEW r \in Requests, OnboardUpserts(r)
  PROVE  /\ Cardinality(onboarded') >= Cardinality(onboarded)
         /\ Cardinality(onboarded') <= Cardinality(onboarded) + 1
<1>1. onboarded' = onboarded \/ onboarded' = onboarded \cup {Uid(r)}
  BY DEF OnboardUpserts
<1>2. /\ IsFiniteSet(onboarded) /\ Cardinality(onboarded) \in Nat
      /\ Cardinality(onboarded \cup {Uid(r)}) =
           IF Uid(r) \in onboarded THEN Cardinality(onboarded) ELSE Cardinality(onboarded) + 1
  BY OnboardedFinite, FS_AddElement
<1>3. CASE onboarded' = onboarded
  BY <1>2, <1>3
<1>4. CASE onboarded' = onboarded \cup {Uid(r)}
  <2>1. Cardinality(onboarded') = Cardinality(onboarded \cup {Uid(r)})
    BY <1>4
  <2>2. QED
    BY <1>2, <2>1
<1>5. QED
  BY <1>1, <1>3, <1>4

\* What befalls an account adds none, and takes one only if it is erased.
LEMMA AccountsAddNone ==
  ASSUME TypeOK, NEW u \in Uids, Befalls(u)
  PROVE  /\ Cardinality(onboarded') <= Cardinality(onboarded)
         /\ Refer(u) \/ Unrefer(u) \/ EmailChanges(u) => onboarded' = onboarded
<1>1. onboarded' = onboarded \/ onboarded' = onboarded \ {u}
  BY DEF Befalls, Refer, Unrefer, EmailChanges, EraseProfile, EraseIdentity, ProfileDeleted, tables
<1>2. Cardinality(onboarded \ {u}) <= Cardinality(onboarded)
  BY OnboardedFinite, FS_RemoveElement, FS_Subset
<1>3. Cardinality(onboarded) <= Cardinality(onboarded)
  BY OnboardedFinite
<1>4. QED
  BY <1>1, <1>2, <1>3 DEF Refer, Unrefer, EmailChanges, tables

\* Requests that found room and have not written yet.
Upserting == {r \in Requests : At(r, "upsert")}

Overshoot ==
  Cardinality(onboarded) + Cardinality(Upserting) <= MaxProfiles + Cardinality(Requests) - 1

LEMMA CountsFinite ==
  /\ Cardinality(Requests) \in Nat /\ Cardinality(Requests) >= 1
  /\ IsFiniteSet(Upserting) /\ Cardinality(Upserting) \in Nat
  /\ Cardinality(Upserting) <= Cardinality(Requests)
<1>1. IsFiniteSet(Requests) /\ Upserting \in SUBSET Requests
  BY BoundAssumption DEF Upserting
<1>2. Cardinality(Requests) \in Nat /\ Cardinality(Requests) # 0
  BY <1>1, BoundAssumption, FS_CardinalityType, FS_EmptySet
<1>3. QED
  BY <1>1, <1>2, FS_Subset, FS_CardinalityType

LEMMA OvershootStep == TypeOK /\ TypeOK' /\ Overshoot /\ [Next]_vars => Overshoot'
<1> SUFFICES ASSUME TypeOK, TypeOK', Overshoot, [Next]_vars PROVE Overshoot'
  OBVIOUS
<1>0. /\ Cardinality(onboarded) \in Nat /\ Cardinality(onboarded') \in Nat
      /\ MaxProfiles \in Nat /\ Cardinality(Requests) \in Nat
      /\ IsFiniteSet(Upserting) /\ Cardinality(Upserting) \in Nat
      /\ IsFiniteSet(Upserting') /\ Cardinality(Upserting') \in Nat
      /\ Cardinality(Upserting') <= Cardinality(Requests)
  <2>1. Upserting' \in SUBSET Requests /\ IsFiniteSet(Requests)
    BY BoundAssumption DEF Upserting
  <2>2. /\ IsFiniteSet(Upserting') /\ Cardinality(Upserting') \in Nat
        /\ Cardinality(Upserting') <= Cardinality(Requests)
    BY <2>1, FS_Subset, FS_CardinalityType
  <2>3. onboarded' \in SUBSET Uids
    BY DEF TypeOK, Rows
  <2>4. Cardinality(onboarded') \in Nat
    BY <2>3, FS_Subset, FS_CardinalityType, IdentityAssumption
  <2>5. QED
    BY <2>2, <2>4, OnboardedFinite, CountsFinite, BoundAssumption
<1>1. ASSUME Cardinality(onboarded') <= Cardinality(onboarded), Upserting' \subseteq Upserting
      PROVE  Overshoot'
  <2>1. Cardinality(Upserting') <= Cardinality(Upserting)
    BY <1>0, <1>1, FS_Subset
  <2>2. QED
    BY <1>0, <1>1, <2>1 DEF Overshoot
<1>2. ASSUME NEW r \in Requests, Reads(r) PROVE Overshoot'
  <2>1. OthersKept(r) /\ Move(r) /\ onboarded' = onboarded
    BY <1>2, ReadMoves DEF tables
  <2>2. CASE request'[r].at # "upsert"
    <3>1. Upserting' \subseteq Upserting
      BY <2>1, <2>2 DEF Upserting, At, OthersKept
    <3>2. QED
      BY <1>0, <1>1, <2>1, <3>1
  <2>3. CASE request'[r].at = "upsert"
    <3>1. ~ AtCapacity
      BY <2>1, <2>3 DEF Move, Idle, Advances
    <3>2. Cardinality(onboarded) <= MaxProfiles - 1
      BY <1>0, <3>1 DEF AtCapacity
    <3>3. QED
      BY <1>0, <2>1, <3>2 DEF Overshoot
  <2>4. QED
    BY <2>2, <2>3
<1>3. ASSUME NEW r \in Requests, Writes(r) PROVE Overshoot'
  <2>1. request'[r] = Idle /\ OthersKept(r)
    BY <1>3, WriteMoves
  <2>2. Upserting' = Upserting \ {r}
    BY <2>1 DEF Upserting, At, OthersKept, Idle
  <2>3. CASE SyncSetsEmail(r) \/ SyncAdopts(r) \/ SyncInserts(r)
    BY <1>0, <1>1, <2>2, <2>3, LoginKeepsCount
  <2>4. CASE OnboardUpserts(r)
    <3>1. r \in Upserting
      BY <2>4 DEF OnboardUpserts, Upserting
    <3>2. Cardinality(Upserting') = Cardinality(Upserting) - 1
      BY <1>0, <2>2, <3>1, FS_RemoveElement
    <3>3. QED
      BY <1>0, <2>4, <3>2, OnboardingAddsOne DEF Overshoot
  <2>5. QED
    BY <1>3, <2>3, <2>4 DEF Writes
<1>4. ASSUME NEW u \in Uids, Befalls(u) PROVE Overshoot'
  <2>1. Upserting' = Upserting
    BY <1>4, NothingMoves DEF Upserting, At
  <2>2. QED
    BY <1>1, <1>4, <2>1, AccountsAddNone
<1>5. CASE UNCHANGED vars
  BY <1>5 DEF vars, tables, Overshoot, Upserting, At
<1>6. QED
  BY <1>2, <1>3, <1>4, <1>5, Steps

\* The check of the cap and the write it is for are two statements: requests
\* that count together may all pass, but no more than there are of them.
THEOREM OvershootIsBounded == Spec => []CapOvershootBounded
<1>1. Init => Overshoot
  <2> SUFFICES ASSUME Init PROVE Overshoot
    OBVIOUS
  <2>1. onboarded = {} /\ Upserting = {}
    BY DEF Init, Upserting, At, Idle
  <2>2. QED
    BY <2>1, CountsFinite, FS_EmptySet, BoundAssumption DEF Overshoot
<1>2. Spec => []Overshoot
  BY <1>1, OvershootStep, TypeCorrect, PTL DEF Spec
<1>3. TypeOK /\ Overshoot => CapOvershootBounded
  BY OnboardedFinite, CountsFinite, BoundAssumption DEF Overshoot, CapOvershootBounded
<1>4. QED
  BY <1>2, <1>3, TypeCorrect, PTL

\* Logins, retries and email changes may move a configured profile to another
\* identity of its owner; only an erasure makes one disappear.
THEOREM ConfigurationsSurvive == Spec => ConfiguredProfilesSurvive
<1>1. TypeOK /\ [Next]_vars => [~ Erasure => Cardinality(onboarded') >= Cardinality(onboarded)]_vars
  <2> SUFFICES ASSUME TypeOK, Next, ~ Erasure
               PROVE  Cardinality(onboarded') >= Cardinality(onboarded)
    OBVIOUS
  <2>0. Cardinality(onboarded) \in Nat
    BY OnboardedFinite
  <2>1. ASSUME NEW r \in Requests, Reads(r)
        PROVE  Cardinality(onboarded') >= Cardinality(onboarded)
    BY <2>0, <2>1, ReadMoves DEF tables
  <2>2. ASSUME NEW r \in Requests, Writes(r)
        PROVE  Cardinality(onboarded') >= Cardinality(onboarded)
    BY <2>0, <2>2, LoginKeepsCount, OnboardingAddsOne DEF Writes
  <2>3. ASSUME NEW u \in Uids, Refer(u) \/ Unrefer(u) \/ EmailChanges(u)
        PROVE  Cardinality(onboarded') >= Cardinality(onboarded)
    BY <2>0, <2>3, AccountsAddNone DEF Befalls
  <2>4. QED
    BY <2>1, <2>2, <2>3 DEF Next, Reads, Writes
<1>2. QED
  BY <1>1, TypeCorrect, PTL DEF Spec, ConfiguredProfilesSurvive

(***************************************************************************)
(* Simultaneous logins.                                                    *)
(***************************************************************************)
\* A write gives the row of its own request that request's email, and no other
\* row has that email then.
WritesOwnRow(r) ==
  \A v \in Uids :
    \/ email'[v] \in {email[v], None}
    \/ /\ v = Uid(r) /\ email'[v] = EmailOf(r)
       /\ \A w \in Rows : email[w] = EmailOf(r) => w = Uid(r) \/ email'[w] = None

LEMMA WriteRows ==
  ASSUME TypeOK, NEW r \in Requests, Writes(r)
  PROVE  /\ WritesOwnRow(r) /\ signedUp \subseteq signedUp' /\ changes' = changes
         /\ OnboardUpserts(r) => email' = email \/ EmailOf(r) \in signedUp'
<1>0. ~ At(r, "idle") /\ Uid(r) \in Uids /\ EmailOf(r) \in Emails
  BY WriteMoves, UnderWay
<1>1. ASSUME email' = email PROVE WritesOwnRow(r)
  BY <1>1 DEF WritesOwnRow
<1>2. ASSUME email' = [email EXCEPT ![Uid(r)] = EmailOf(r)],
             ~ EmailTaken(EmailOf(r), {Uid(r)})
      PROVE  WritesOwnRow(r)
  BY <1>0, <1>2, RowWritten DEF WritesOwnRow, EmailTaken
<1>3. CASE SyncSetsEmail(r)
  <2>1. \/ email' = email
        \/ /\ email' = [email EXCEPT ![Uid(r)] = EmailOf(r)]
           /\ Uid(r) \in Rows /\ ~ EmailTaken(EmailOf(r), {Uid(r)})
        \/ email' = [email EXCEPT ![Uid(r)] = None] /\ Uid(r) \notin Rows
    BY <1>3 DEF SyncSetsEmail
  <2>2. Uid(r) \notin Rows => [email EXCEPT ![Uid(r)] = None] = email
    BY <1>0 DEF TypeOK, Rows
  <2>3. WritesOwnRow(r)
    BY <1>1, <1>2, <2>1, <2>2
  <2>4. ~ OnboardUpserts(r) /\ signedUp' = signedUp /\ changes' = changes
    BY <1>3 DEF SyncSetsEmail, OnboardUpserts, At, history
  <2>5. QED
    BY <2>3, <2>4
<1>4. CASE SyncInserts(r)
  <2>1. \/ email' = email
        \/ email' = [email EXCEPT ![Uid(r)] = EmailOf(r)] /\ ~ EmailTaken(EmailOf(r), {})
    BY <1>4 DEF SyncInserts
  <2>2. EmailTaken(EmailOf(r), {Uid(r)}) => EmailTaken(EmailOf(r), {})
    BY DEF EmailTaken
  <2>3. WritesOwnRow(r)
    BY <1>1, <1>2, <2>1, <2>2
  <2>4. ~ OnboardUpserts(r) /\ signedUp' = signedUp /\ changes' = changes
    BY <1>4 DEF SyncInserts, OnboardUpserts, At, history
  <2>5. QED
    BY <2>3, <2>4
<1>5. CASE SyncAdopts(r)
  <2>1. ~ OnboardUpserts(r) /\ signedUp' = signedUp /\ changes' = changes
    BY <1>5 DEF SyncAdopts, OnboardUpserts, At
  <2>2. CASE Stays(r) \/ Rewrites(r)
    <3>1. \/ email' = email
          \/ email' = [email EXCEPT ![Uid(r)] = EmailOf(r)] /\ ~ EmailTaken(EmailOf(r), {Uid(r)})
      BY <2>2 DEF Stays, Rewrites, tables
    <3>2. QED
      BY <1>1, <1>2, <2>1, <3>1
  <2>3. CASE Moves(r)
    <3>1. /\ ~ EmailTaken(EmailOf(r), {request[r].found})
          /\ \A v \in Uids : email'[v] = IF v = Uid(r) THEN EmailOf(r)
                                         ELSE IF v = request[r].found THEN None ELSE email[v]
      BY <1>0, <2>3, MoveEffect DEF Moves
    <3>2. \A w \in Rows : email[w] = EmailOf(r) => w = Uid(r) \/ email'[w] = None
      BY <3>1 DEF EmailTaken, Rows
    <3>3. WritesOwnRow(r)
      BY <1>0, <3>1, <3>2 DEF WritesOwnRow
    <3>4. QED
      BY <2>1, <3>3
  <2>4. QED
    BY <1>5, <2>2, <2>3, AdoptEffect
<1>6. CASE OnboardUpserts(r)
  <2>1. /\ changes' = changes
        /\ \/ email' = email /\ signedUp' = signedUp
           \/ /\ email' = [email EXCEPT ![Uid(r)] = EmailOf(r)]
              /\ ~ EmailTaken(EmailOf(r), {Uid(r)})
              /\ signedUp' = signedUp \cup {EmailOf(r)}
    BY <1>6 DEF OnboardUpserts
  <2>2. WritesOwnRow(r)
    BY <1>1, <1>2, <2>1
  <2>3. QED
    BY <2>1, <2>2
<1>7. QED
  BY <1>3, <1>4, <1>5, <1>6 DEF Writes

\* What befalls an account may end rows, and writes none.
LEMMA BefallsRows ==
  ASSUME TypeOK, NEW u \in Uids, Befalls(u)
  PROVE  /\ \A v \in Uids : email'[v] \in {email[v], None}
         /\ signedUp' = signedUp /\ changes' \in Nat /\ changes <= changes'
         /\ changes' = changes => claim' = claim
<1>1. /\ signedUp' = signedUp
      /\ \/ changes' = changes /\ claim' = claim
         \/ changes' = changes + 1
  BY DEF Befalls, Refer, Unrefer, EmailChanges, EraseProfile, EraseIdentity, history
<1>2. changes \in Nat
  BY BoundAssumption DEF TypeOK
<1>3. email' = email \/ email' = [email EXCEPT ![u] = None]
  BY DEF Befalls, Refer, Unrefer, EmailChanges, EraseProfile, EraseIdentity,
         ProfileDeleted, tables
<1>4. \A v \in Uids : email'[v] \in {email[v], None}
  BY <1>3 DEF TypeOK
<1>5. QED
  BY <1>1, <1>2, <1>4

\* user_profiles.email is unique.
EmailsUnique == \A v, w \in Rows : email[v] = email[w] => v = w

LEMMA UniqueStep == TypeOK /\ EmailsUnique /\ [Next]_vars => EmailsUnique'
<1> SUFFICES ASSUME TypeOK, EmailsUnique, [Next]_vars PROVE EmailsUnique'
  OBVIOUS
<1>1. ASSUME \A v \in Uids : email'[v] \in {email[v], None}
      PROVE  EmailsUnique'
  BY <1>1 DEF EmailsUnique, Rows
<1>2. ASSUME NEW r \in Requests, Writes(r) PROVE EmailsUnique'
  <2>1. WritesOwnRow(r) /\ EmailOf(r) # None
    BY <1>2, WriteRows, WriteMoves, UnderWay
  <2>2. QED
    BY <2>1 DEF WritesOwnRow, EmailsUnique, Rows
<1>3. ASSUME NEW r \in Requests, Reads(r) PROVE EmailsUnique'
  BY <1>1, <1>3, ReadMoves DEF tables
<1>4. ASSUME NEW u \in Uids, Befalls(u) PROVE EmailsUnique'
  BY <1>1, <1>4, BefallsRows
<1>5. CASE UNCHANGED vars
  BY <1>1, <1>5 DEF vars, tables
<1>6. QED
  BY <1>2, <1>3, <1>4, <1>5, Steps

LEMMA UniqueHolds == Spec => []EmailsUnique
<1>1. Init => EmailsUnique
  BY DEF Init, EmailsUnique, Rows
<1>2. QED
  BY <1>1, UniqueStep, TypeCorrect, PTL DEF Spec

\* As long as nobody has changed an email, every row and every request is
\* under the email its identity signed up with ...
SignupOnly ==
  /\ claim = SignupEmail
  /\ \A u \in Rows : email[u] = SignupEmail[u]
  /\ \A r \in Requests :
       ~ At(r, "idle") => ~ At(r, "setEmail") /\ EmailOf(r) = SignupEmail[Uid(r)]

\* ... and a login under an email nobody onboarded with finds the tables as
\* its earlier statements left them.
Alone(r) ==
  request[r].at \in {"byEmail", "adopt", "insert"} /\ EmailOf(r) \notin signedUp =>
    /\ Uid(r) \notin Rows
    /\ At(r, "adopt") => \A w \in Rows : email[w] = EmailOf(r) => w = request[r].found
    /\ At(r, "insert") => \A w \in Rows : email[w] # EmailOf(r)

LoginInv ==
  /\ LoginsSerialised
  /\ changes = 0 => SignupOnly /\ \A r \in Requests : Alone(r)

\* A request that does not move stays alone: rows end, or are written under
\* other emails.
LEMMA AloneKept ==
  ASSUME TypeOK, SignupOnly, NEW r \in Requests, Alone(r), request'[r] = request[r],
         signedUp \subseteq signedUp',
         EmailOf(r) \notin signedUp' =>
           \A v \in Uids : \/ email'[v] \in {email[v], None}
                           \/ email'[v] = SignupEmail[v] /\ email'[v] # EmailOf(r)
  PROVE  Alone(r)'
<1> SUFFICES ASSUME request[r].at \in {"byEmail", "adopt", "insert"}, EmailOf(r) \notin signedUp'
             PROVE  /\ Uid(r) \notin Rows'
                    /\ At(r, "adopt") =>
                         \A w \in Rows' : email'[w] = EmailOf(r) => w = request[r].found
                    /\ At(r, "insert") => \A w \in Rows' : email'[w] # EmailOf(r)
  BY DEF Alone, Uid, EmailOf, At
<1>1. /\ ~ At(r, "idle") /\ EmailOf(r) \notin signedUp
      /\ Uid(r) \in Uids /\ EmailOf(r) # None
      /\ EmailOf(r) = SignupEmail[Uid(r)]
  BY UnderWay DEF At, SignupOnly
<1>2. \A w \in Rows' : w \in Uids /\ email'[w] = EmailOf(r) => w \in Rows /\ email[w] = EmailOf(r)
  BY <1>1 DEF Rows
<1>3. Uid(r) \notin Rows'
  BY <1>1 DEF Alone, Rows
<1>4. QED
  BY <1>1, <1>2, <1>3 DEF Alone, Rows

LEMMA LoginReads ==
  ASSUME TypeOK, TypeOK', EmailsUnique, LoginInv, NEW r \in Requests, Reads(r)
  PROVE  LoginInv'
<1>1. /\ OthersKept(r) /\ Move(r) /\ answer'.how # "duplicate"
      /\ UNCHANGED <<tables, claim, erasing, history, changes, erasures>>
  BY ReadMoves
<1>2. LoginsSerialised'
  BY <1>1 DEF LoginsSerialised
<1>3. ASSUME changes' = 0
      PROVE  SignupOnly' /\ \A q \in Requests : Alone(q)'
  <2>0. /\ changes = 0 /\ SignupOnly /\ \A q \in Requests : Alone(q)
        /\ email' = email /\ signedUp' = signedUp /\ claim' = claim
    BY <1>1, <1>3 DEF LoginInv, tables, history
  <2>1. Rows' = Rows
    BY <2>0 DEF Rows
  <2>2. \A q \in Requests \ {r} : request'[q] = request[q] /\ Alone(q)'
    BY <1>1, <2>0, AloneKept DEF OthersKept
  <2>3. CASE request'[r] = Idle
    <3>1. Alone(r)' /\ At(r, "idle")'
      BY <2>3 DEF Alone, At, Idle
    <3>2. QED
      BY <2>0, <2>1, <2>2, <3>1 DEF SignupOnly, At, Uid, EmailOf
  <2>4. CASE Kept(r) /\ Advances(r)
    <3>1. /\ ~ At(r, "idle") /\ Uid(r) \in Uids /\ EmailOf(r) # None
          /\ EmailOf(r) = SignupEmail[Uid(r)]
          /\ request'[r].uid = Uid(r) /\ request'[r].email = EmailOf(r)
      BY <2>0, <2>4, UnderWay DEF Advances, At, SignupOnly, Kept, Uid, EmailOf
    <3>2. request'[r].at # "setEmail"
      BY <2>0, <2>4, <3>1 DEF Advances, At, SignupOnly, Rows
    <3>3. SignupOnly'
      BY <2>0, <2>1, <2>2, <3>1, <3>2 DEF SignupOnly, At, Uid, EmailOf
    <3>4. Alone(r)'
      <4> SUFFICES ASSUME request'[r].at \in {"byEmail", "adopt", "insert"},
                          EmailOf(r) \notin signedUp
                   PROVE  /\ Uid(r) \notin Rows
                          /\ request'[r].at = "adopt" =>
                               \A w \in Rows : email[w] = EmailOf(r) => w = request'[r].found
                          /\ request'[r].at = "insert" =>
                               \A w \in Rows : email[w] # EmailOf(r)
        BY <2>0, <2>1, <3>1 DEF Alone, At, Uid, EmailOf
      <4>1. Uid(r) \notin Rows
        BY <2>0, <2>4 DEF Advances, Alone, At, Rows
      <4>2. request'[r].at = "adopt" =>
              \A w \in Rows : email[w] = EmailOf(r) => w = request'[r].found
        BY <2>4 DEF Advances, EmailsUnique
      <4>3. request'[r].at = "insert" => \A w \in Rows : email[w] # EmailOf(r)
        BY <2>4 DEF Advances
      <4>4. QED
        BY <4>1, <4>2, <4>3
    <3>5. QED
      BY <2>2, <3>3, <3>4
  <2>5. CASE /\ request'[r].uid \in Uids
             /\ request'[r].email \in TokenEmails(request'[r].uid)
             /\ request'[r].at \in {"byId", "gate"}
    <3>1. request'[r].email = SignupEmail[request'[r].uid]
      BY <2>0, <2>5 DEF TokenEmails, SignupOnly
    <3>2. SignupOnly'
      BY <2>0, <2>1, <2>2, <2>5, <3>1 DEF SignupOnly, At, Uid, EmailOf
    <3>3. Alone(r)'
      BY <2>5 DEF Alone
    <3>4. QED
      BY <2>2, <3>2, <3>3
  <2>6. QED
    BY <1>1, <2>3, <2>4, <2>5 DEF Move
<1>4. QED
  BY <1>2, <1>3 DEF LoginInv

LEMMA LoginWrites ==
  ASSUME TypeOK, TypeOK', Locked, LoginInv, NEW r \in Requests, Writes(r)
  PROVE  LoginInv'
<1>1. /\ ~ At(r, "idle") /\ request'[r] = Idle /\ OthersKept(r)
      /\ Uid(r) \in Uids /\ EmailOf(r) # None
  BY WriteMoves, UnderWay
<1>2. /\ WritesOwnRow(r) /\ signedUp \subseteq signedUp' /\ changes' = changes
      /\ OnboardUpserts(r) => email' = email \/ EmailOf(r) \in signedUp'
  BY WriteRows
<1>3. claim' = claim
  BY DEF Writes, SyncSetsEmail, SyncAdopts, SyncInserts, OnboardUpserts
<1>4. LoginsSerialised'
  <2> SUFFICES ASSUME answer'.how = "duplicate", changes = 0, EmailOf(r) \notin signedUp
               PROVE  FALSE
    <3>1. SUFFICES ASSUME answer'.how = "duplicate", ~ (changes > 0)
                   PROVE  SignupEmail[answer'.uid] \in signedUp'
      BY <1>2 DEF LoginsSerialised
    <3>2. changes = 0
      BY <3>1, BoundAssumption DEF TypeOK
    <3>3. answer'.uid = Uid(r)
      <4>1. CASE OnboardUpserts(r)
        BY <3>1, <4>1 DEF OnboardUpserts, Ends, Silent, NoAnswer
      <4>2. CASE SyncSetsEmail(r) \/ SyncAdopts(r) \/ SyncInserts(r)
        BY <4>2 DEF SyncSetsEmail, SyncAdopts, SyncInserts, Answers
      <4>3. QED
        BY <4>1, <4>2 DEF Writes
    <3>4. SignupEmail[Uid(r)] = EmailOf(r)
      BY <1>1, <3>2 DEF LoginInv, SignupOnly
    <3>5. EmailOf(r) \in signedUp
      BY <3>1, <3>2
    <3>6. QED
      BY <1>2, <3>3, <3>4, <3>5
  <2>1. SignupOnly /\ Alone(r)
    BY DEF LoginInv
  <2>2. CASE SyncSetsEmail(r)
    BY <1>1, <2>1, <2>2 DEF SyncSetsEmail, SignupOnly
  <2>3. CASE SyncAdopts(r)
    <3>1. /\ At(r, "adopt") /\ request[r].found \in Rows
          /\ (Uid(r) \in Rows \/ EmailTaken(EmailOf(r), {request[r].found}))
      BY <2>3 DEF SyncAdopts, Answers
    <3>2. QED
      BY <2>1, <3>1 DEF Alone, At, EmailTaken
  <2>4. CASE SyncInserts(r)
    <3>1. At(r, "insert") /\ (Uid(r) \in Rows \/ EmailTaken(EmailOf(r), {}))
      BY <2>4 DEF SyncInserts, Answers
    <3>2. QED
      BY <2>1, <3>1 DEF Alone, At, EmailTaken
  <2>5. CASE OnboardUpserts(r)
    BY <2>5 DEF OnboardUpserts, Ends, Silent, NoAnswer
  <2>6. QED
    BY <2>2, <2>3, <2>4, <2>5 DEF Writes
<1>5. ASSUME changes' = 0
      PROVE  SignupOnly' /\ \A q \in Requests : Alone(q)'
  <2>0. SignupOnly /\ \A q \in Requests : Alone(q)
    BY <1>2, <1>5 DEF LoginInv
  <2>1. EmailOf(r) = SignupEmail[Uid(r)]
    BY <1>1, <2>0 DEF SignupOnly
  <2>2. \A q \in Requests \ {r} : request'[q] = request[q]
    BY <1>1 DEF OthersKept
  <2>3. \A v \in Rows' : email'[v] = SignupEmail[v]
    BY <1>2, <2>0, <2>1 DEF WritesOwnRow, SignupOnly, Rows
  <2>4. SignupOnly'
    BY <1>1, <1>3, <2>0, <2>2, <2>3 DEF SignupOnly, At, Idle, Uid, EmailOf
  <2>5. Alone(r)'
    BY <1>1 DEF Alone, Idle
  <2>6. ASSUME NEW q \in Requests, q # r
        PROVE  Alone(q)'
    <3>1. CASE request[q].at \notin {"byEmail", "adopt", "insert"}
      BY <2>2, <2>6, <3>1 DEF Alone
    <3>2. CASE request[q].at \in {"byEmail", "adopt", "insert"}
      <4>1. request[q].at \in SyncSteps
        BY <3>2 DEF SyncSteps
      <4>2. EmailOf(q) \notin signedUp' => email' = email \/ EmailOf(q) # EmailOf(r)
        <5>1. CASE OnboardUpserts(r)
          BY <1>2, <5>1
        <5>2. CASE SyncSetsEmail(r) \/ SyncAdopts(r) \/ SyncInserts(r)
          <6>1. request[r].at \in SyncSteps
            BY <5>2 DEF SyncSetsEmail, SyncAdopts, SyncInserts, At, SyncSteps
          <6>2. QED
            BY <2>6, <4>1, <6>1 DEF Locked, OneLogin
        <5>3. QED
          BY <5>1, <5>2 DEF Writes
      <4>3. EmailOf(q) \notin signedUp' =>
              \A v \in Uids : \/ email'[v] \in {email[v], None}
                              \/ email'[v] = SignupEmail[v] /\ email'[v] # EmailOf(q)
        BY <1>2, <2>1, <4>2 DEF WritesOwnRow
      <4>4. QED
        BY <1>2, <2>0, <2>2, <2>6, <4>3, AloneKept
    <3>3. QED
      BY <3>1, <3>2
  <2>7. QED
    BY <2>4, <2>5, <2>6
<1>6. QED
  BY <1>4, <1>5 DEF LoginInv

LEMMA LoginStep ==
  TypeOK /\ TypeOK' /\ Locked /\ EmailsUnique /\ LoginInv /\ [Next]_vars => LoginInv'
<1> SUFFICES ASSUME TypeOK, TypeOK', Locked, EmailsUnique, LoginInv, [Next]_vars
             PROVE  LoginInv'
  OBVIOUS
<1>1. ASSUME NEW u \in Uids, Befalls(u) PROVE LoginInv'
  <2>1. request' = request /\ answer'.how # "duplicate"
    BY <1>1, NothingMoves
  <2>2. /\ \A v \in Uids : email'[v] \in {email[v], None}
        /\ signedUp' = signedUp /\ changes' \in Nat /\ changes <= changes'
        /\ changes' = changes => claim' = claim
    BY <1>1, BefallsRows
  <2>3. changes \in Nat
    BY BoundAssumption DEF TypeOK
  <2>4. ASSUME changes' = 0
        PROVE  SignupOnly' /\ \A q \in Requests : Alone(q)'
    <3>1. changes = 0 /\ claim' = claim /\ SignupOnly /\ \A q \in Requests : Alone(q)
      BY <2>2, <2>3, <2>4 DEF LoginInv
    <3>2. \A v \in Rows' : email'[v] = SignupEmail[v]
      BY <2>2, <3>1 DEF SignupOnly, Rows
    <3>3. SignupOnly'
      BY <2>1, <3>1, <3>2 DEF SignupOnly, At, Uid, EmailOf
    <3>4. \A q \in Requests : Alone(q)'
      BY <2>1, <2>2, <3>1, AloneKept
    <3>5. QED
      BY <3>3, <3>4
  <2>5. QED
    BY <2>1, <2>4 DEF LoginInv, LoginsSerialised
<1>2. CASE UNCHANGED vars
  BY <1>2 DEF vars, tables, history, LoginInv, LoginsSerialised, SignupOnly, Alone,
              Rows, At, Uid, EmailOf
<1>3. QED
  BY <1>1, <1>2, LoginReads, LoginWrites, Steps

\* A unique index refuses no login of a person who only logs in, however many
\* logins run at once: that takes an onboarding, or a changed email.
THEOREM LoginsDoNotCollide == Spec => []LoginsSerialised
<1>1. Init => LoginInv
  BY DEF Init, LoginInv, LoginsSerialised, NoAnswer, SignupOnly, Alone, Rows, At, Idle
<1>2. Spec => []LoginInv
  BY <1>1, LoginStep, TypeCorrect, LocksHold, UniqueHolds, PTL DEF Spec
<1>3. LoginInv => LoginsSerialised
  BY DEF LoginInv
<1>4. QED
  BY <1>2, <1>3, PTL

================================================================================

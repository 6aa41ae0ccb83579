----------------------------- MODULE UserAccounts -----------------------------
(***************************************************************************)
(* Signing in, signing up and leaving: upsert_user_profile_email,          *)
(* complete_onboarding and delete_own_account of db.py with their routes in*)
(* api.py, over user_profiles and its constraints as schema.sql declares   *)
(* them: id is the primary key and references auth.users, email is unique, *)
(* and saved deals, dispatch logs and push subscriptions reference the row *)
(* ON DELETE CASCADE (and so, on update, not at all).                      *)
(*                                                                         *)
(* Requests interleave statement by statement, at READ COMMITTED.  In every*)
(* transaction the one write is the last statement, so it takes effect     *)
(* with its commit.  Emails are taken up to letter case.                   *)
(***************************************************************************)
EXTENDS Integers, FiniteSets

CONSTANTS
  Uids,          \* Supabase auth identities
  Emails,
  SignupEmail,   \* SignupEmail[u]: the verified email u starts with
  Requests,      \* requests in flight at the same time
  MaxProfiles,   \* MAX_USER_PROFILES
  MaxUpsets      \* bound: email changes and account deletions together

None == "none"

ASSUME IdentityAssumption ==
  /\ IsFiniteSet(Uids) /\ SignupEmail \in [Uids -> Emails]
  /\ None \notin Uids \cup Emails
ASSUME BoundAssumption ==
  /\ IsFiniteSet(Requests) /\ Requests # {}
  /\ {MaxProfiles, MaxUpsets} \subseteq Nat

VARIABLES
  identities,   \* auth.users
  claim,        \* claim[u]: the email Supabase has verified for u
  email,        \* email[u]: of the profile row with id u, None without one
  onboarded,    \* rows whose onboarded_at is set
  referenced,   \* rows that deals, dispatch logs or devices refer to
  request,      \* request[r]: what it does, for whom, and where it is
  erasing,      \* accounts between the two halves of their deletion
  answer,       \* how the sync of this step ended, and whose it was (history)
  provisioned,  \* provisioned[u]: onboardings of this row that succeeded, and
                \* those of them that an adoption overtook (history)
  overtaken,    \* requests past a gate that did not see the row u has now (history)
  signedUp,     \* emails for which an onboarding succeeded (history)
  changes, erasures

tables == <<identities, email, onboarded, referenced>>
history == <<provisioned, signedUp>>
vars == <<tables, claim, request, erasing, answer, history, overtaken, changes, erasures>>

Idle == [at |-> "idle"]
NoAnswer == [how |-> "none", uid |-> None]

SyncSteps == {"byId", "byEmail", "setEmail", "adopt", "insert"}
OnboardSteps == {"gate", "count", "upsert"}

At(r, step) == request[r].at = step
Uid(r) == request[r].uid
EmailOf(r) == request[r].email
Rows == {u \in Uids : email[u] # None}
PastGate(r) == request[r].at \in {"count", "upsert"}

\* Of a row nobody has onboarded.
Unprovisioned == [all |-> 0, overtaken |-> 0]

--------------------------------------------------------------------------------
Init ==
  /\ identities = Uids
  /\ claim = SignupEmail
  /\ email = [u \in Uids |-> None]
  /\ onboarded = {} /\ referenced = {}
  /\ request = [r \in Requests |-> Idle]
  /\ erasing = {}
  /\ answer = NoAnswer
  /\ provisioned = [u \in Uids |-> Unprovisioned] /\ signedUp = {}
  /\ overtaken = {}
  /\ changes = 0 /\ erasures = 0

Silent == answer' = NoAnswer

Goto(r, step) ==
  /\ request' = [request EXCEPT ![r].at = step]
  /\ Silent
  /\ UNCHANGED overtaken

Ends(r) ==
  /\ request' = [request EXCEPT ![r] = Idle]
  /\ Silent
  /\ overtaken' = overtaken \ {r}

\* The end of a login.
Answers(r, how) ==
  /\ request' = [request EXCEPT ![r] = Idle]
  /\ answer' = [how |-> how, uid |-> Uid(r)]

\* The emails a token of u may carry: one issued before a change lives on.
TokenEmails(u) == {SignupEmail[u], claim[u]}

\* A request is on its way once it has its lock.
Begins(r, step, u, e) ==
  /\ At(r, "idle") /\ e \in TokenEmails(u)
  /\ request' = [request EXCEPT ![r] = [at |-> step, uid |-> u, email |-> e, found |-> None]]
  /\ Silent
  /\ UNCHANGED <<tables, claim, erasing, history, overtaken, changes, erasures>>

--------------------------------------------------------------------------------
(* POST /api/v1/auth/sync.                                                 *)

\* Mutant: nothing serialises the logins of one person.
EmailUnlocked(e) == TRUE

\* pg_advisory_xact_lock(hashtext(lower(email))) is free.
EmailLockFree(e) ==
  \A q \in Requests : request[q].at \in SyncSteps => EmailOf(q) # e

SyncBegins(r) ==
  \E u \in Uids, e \in Emails : EmailLockFree(e) /\ Begins(r, "byId", u, e)

\* The identity's own row, under a changed email perhaps.
SyncReadsId(r) ==
  /\ At(r, "byId")
  /\ CASE email[Uid(r)] = EmailOf(r) -> Answers(r, "ok")
       [] email[Uid(r)] = None       -> Goto(r, "byEmail")
       [] OTHER                      -> Goto(r, "setEmail")
  /\ UNCHANGED <<tables, claim, erasing, history, overtaken, changes, erasures>>

\* A row that already holds this email is to be adopted.
SyncReadsEmail(r) ==
  /\ At(r, "byEmail")
  /\ IF EmailOf(r) \in {email[v] : v \in Rows}
     THEN \E v \in Rows :
            /\ email[v] = EmailOf(r)
            /\ request' = [request EXCEPT ![r].at = "adopt", ![r].found = v]
            /\ Silent
     ELSE Goto(r, "insert")
  /\ UNCHANGED <<tables, claim, erasing, history, overtaken, changes, erasures>>

\* Rows other than those in S hold the email.
EmailTaken(e, S) == e \in {email[v] : v \in Rows \ S}

SyncSetsEmail(r) ==
  LET u == Uid(r) IN
  /\ At(r, "setEmail")
  /\ IF u \in Rows /\ EmailTaken(EmailOf(r), {u})
     THEN Answers(r, "duplicate") /\ UNCHANGED email
     ELSE /\ Answers(r, "ok")
          /\ email' = [email EXCEPT ![u] = IF u \in Rows THEN EmailOf(r) ELSE None]
  /\ UNCHANGED <<identities, onboarded, referenced, claim, erasing, history,
                 overtaken, changes, erasures>>

\* Mutant: the row is replaced by a bare one instead of re-pointed.
RepointedBare(S, old, new) == S \ {old}

\* What was true of the row `old` is true of the row `new`.
Repointed(S, old, new) == IF old \in S THEN (S \ {old}) \cup {new} ELSE S

\* The row `old` goes on as the row `new`, with all that happened to it.
CarriedOver(history_of, old, new) ==
  [history_of EXCEPT ![old] = Unprovisioned, ![new] = history_of[old]]

\* UPDATE user_profiles SET id = u, email = e WHERE id = found.  An update of
\* no row is not noticed: the answer is the profile as it was read.  If the row
\* is an onboarded one, whoever is onboarding u has passed a gate that did not
\* see it.
SyncAdopts(r) ==
  LET u == Uid(r)
      old == request[r].found
      moves == old \in Rows /\ old # u
      duplicate == old \in Rows /\ ((moves /\ u \in Rows) \/ EmailTaken(EmailOf(r), {old}))
  IN
  /\ At(r, "adopt")
  /\ IF duplicate THEN Answers(r, "duplicate") /\ UNCHANGED <<tables, provisioned, overtaken>>
     ELSE IF moves /\ old \in referenced
          THEN Answers(r, "referenced") /\ UNCHANGED <<tables, provisioned, overtaken>>
     ELSE IF moves /\ u \notin identities
          THEN Answers(r, "gone") /\ UNCHANGED <<tables, provisioned, overtaken>>
     ELSE /\ Answers(r, "ok")
          /\ email' = IF moves THEN [email EXCEPT ![old] = None, ![u] = EmailOf(r)]
                      ELSE [email EXCEPT ![old] = IF old \in Rows THEN EmailOf(r) ELSE None]
          /\ onboarded' = IF moves THEN Repointed(onboarded, old, u) ELSE onboarded
          /\ provisioned' = IF moves THEN CarriedOver(provisioned, old, u) ELSE provisioned
          /\ overtaken' = IF moves /\ old \in onboarded
                          THEN overtaken \cup {q \in Requests : PastGate(q) /\ Uid(q) = u}
                          ELSE overtaken
          /\ UNCHANGED <<identities, referenced>>
  /\ UNCHANGED <<claim, erasing, signedUp, changes, erasures>>

SyncInserts(r) ==
  LET u == Uid(r) IN
  /\ At(r, "insert")
  /\ IF u \in Rows \/ EmailTaken(EmailOf(r), {})
     THEN Answers(r, "duplicate") /\ UNCHANGED email
     ELSE IF u \notin identities
          THEN Answers(r, "gone") /\ UNCHANGED email
     ELSE Answers(r, "ok") /\ email' = [email EXCEPT ![u] = EmailOf(r)]
  /\ UNCHANGED <<identities, onboarded, referenced, claim, erasing, history,
                 overtaken, changes, erasures>>

--------------------------------------------------------------------------------
(* POST /api/v1/me/onboarding.                                             *)

\* Mutant: no lock, as before the race was closed.
UidUnlocked(u) == TRUE

\* pg_advisory_xact_lock(hashtext(user_id)) is free.
UidLockFree(u) ==
  \A q \in Requests : request[q].at \in OnboardSteps => Uid(q) # u

OnboardBegins(r) ==
  \E u \in Uids, e \in Emails : UidLockFree(u) /\ Begins(r, "gate", u, e)

\* Already onboarded: None, and the route answers 409.
OnboardReadsGate(r) ==
  /\ At(r, "gate")
  /\ IF Uid(r) \in onboarded THEN Ends(r) ELSE Goto(r, "count")
  /\ UNCHANGED <<tables, claim, erasing, history, changes, erasures>>

\* Mutant: an off-by-one.
AtCapacityLate == Cardinality(onboarded) > MaxProfiles

AtCapacity == Cardinality(onboarded) >= MaxProfiles

\* UserCapacityError: 503.
OnboardCounts(r) ==
  /\ At(r, "count")
  /\ IF AtCapacity THEN Ends(r) ELSE Goto(r, "upsert")
  /\ UNCHANGED <<tables, claim, erasing, history, changes, erasures>>

\* INSERT ... ON CONFLICT (id) DO UPDATE.  The email index or the reference
\* to auth.users may still refuse it: a 500, and nothing written.
OnboardUpserts(r) ==
  LET u == Uid(r) IN
  /\ At(r, "upsert")
  /\ Ends(r)
  /\ IF EmailTaken(EmailOf(r), {u}) \/ u \notin identities
     THEN UNCHANGED <<email, onboarded, provisioned, signedUp>>
     ELSE /\ email' = [email EXCEPT ![u] = EmailOf(r)]
          /\ onboarded' = onboarded \cup {u}
          /\ provisioned' = [provisioned EXCEPT
               ![u] = [all       |-> @.all + 1,
                       overtaken |-> @.overtaken + IF r \in overtaken THEN 1 ELSE 0]]
          /\ signedUp' = signedUp \cup {EmailOf(r)}
  /\ UNCHANGED <<identities, referenced, claim, erasing, changes, erasures>>

\* The connection or the process is lost: the transaction never commits.
RequestLost(r) ==
  /\ ~At(r, "idle")
  /\ Ends(r)
  /\ UNCHANGED <<tables, claim, erasing, history, changes, erasures>>

--------------------------------------------------------------------------------
(* Everything else that happens to an account.                             *)

\* A saved deal, a sent alert or a registered device refers to the row ...
Refer(u) ==
  /\ u \in Rows \ referenced
  /\ referenced' = referenced \cup {u}
  /\ Silent
  /\ UNCHANGED <<identities, email, onboarded, claim, request, erasing, history,
                 overtaken, changes, erasures>>

\* ... or the last of them is removed.
Unrefer(u) ==
  /\ u \in referenced
  /\ referenced' = referenced \ {u}
  /\ Silent
  /\ UNCHANGED <<identities, email, onboarded, claim, request, erasing, history,
                 overtaken, changes, erasures>>

\* The person changes the email at Supabase, to one of another person too.
EmailChanges(u) ==
  /\ changes + erasures < MaxUpsets
  /\ changes' = changes + 1
  /\ Silent
  /\ \E e \in Emails \ {claim[u]} : claim' = [claim EXCEPT ![u] = e]
  /\ UNCHANGED <<tables, request, erasing, history, overtaken, erasures>>

\* Mutant: a table whose reference does not cascade.
ProfileDeletedAlone(u) ==
  /\ email' = [email EXCEPT ![u] = None]
  /\ onboarded' = onboarded \ {u}
  /\ referenced' = referenced
  /\ provisioned' = [provisioned EXCEPT ![u] = Unprovisioned]

\* The row of u is gone, and with it whatever referred to it.
ProfileDeleted(u) ==
  /\ email' = [email EXCEPT ![u] = None]
  /\ onboarded' = onboarded \ {u}
  /\ referenced' = referenced \ {u}
  /\ provisioned' = [provisioned EXCEPT ![u] = Unprovisioned]

\* DELETE /api/v1/me, first half: db.delete_own_account.
EraseProfile(u) ==
  /\ changes + erasures < MaxUpsets /\ u \in Rows
  /\ ProfileDeleted(u)
  /\ erasing' = erasing \cup {u}
  /\ erasures' = erasures + 1
  /\ Silent
  /\ UNCHANGED <<identities, claim, request, signedUp, overtaken, changes>>

\* Second half: Supabase removes the identity and, by cascade, a row that a
\* request of the same person has put back meanwhile; or it is not asked.
EraseIdentity(u) ==
  /\ u \in erasing
  /\ erasing' = erasing \ {u}
  /\ Silent
  /\ \/ identities' = identities \ {u} /\ ProfileDeleted(u)
     \/ UNCHANGED <<tables, provisioned>>
  /\ UNCHANGED <<claim, request, signedUp, overtaken, changes, erasures>>

Erasure == \E u \in Uids : EraseProfile(u) \/ EraseIdentity(u)

Next ==
  \/ \E r \in Requests :
       \/ SyncBegins(r) \/ SyncReadsId(r) \/ SyncReadsEmail(r)
       \/ SyncSetsEmail(r) \/ SyncAdopts(r) \/ SyncInserts(r)
       \/ OnboardBegins(r) \/ OnboardReadsGate(r)
       \/ OnboardCounts(r) \/ OnboardUpserts(r)
       \/ RequestLost(r)
  \/ \E u \in Uids : Refer(u) \/ Unrefer(u) \/ EmailChanges(u)
  \/ Erasure

Spec == Init /\ [][Next]_vars

--------------------------------------------------------------------------------
(* Properties.                                                             *)

TypeOK ==
  /\ identities \subseteq Uids /\ erasing \subseteq Uids
  /\ claim \in [Uids -> Emails]
  /\ email \in [Uids -> Emails \cup {None}]
  /\ referenced \subseteq Rows /\ onboarded \subseteq Rows
  /\ Rows \subseteq identities
  /\ request \in [Requests ->
       {Idle} \cup [at : SyncSteps \cup OnboardSteps,
                    uid : Uids, email : Emails, found : Uids \cup {None}]]
  /\ answer \in [how : {"none", "ok", "duplicate", "referenced", "gone"}, uid : Uids \cup {None}]
  /\ provisioned \in [Uids -> [all : Nat, overtaken : Nat]] /\ signedUp \subseteq Emails
  /\ overtaken \subseteq Requests
  /\ {changes, erasures} \subseteq 0..MaxUpsets

\* A double submission or a retry never onboards anybody twice.  From the
\* creation of a row to its end, under whichever identities, at most one
\* onboarding of it succeeds, but for those that an adoption overtakes: the two
\* locks are different ones, so a login may re-point an onboarded row to an
\* identity whose own onboarding is past its gate and about to write.
ProvisionedOnce ==
  \A u \in Uids : provisioned[u].all <= 1 + provisioned[u].overtaken

\* The cap is checked before the write and under a lock per person, so
\* requests running together may exceed it, but by no more than their number.
CapOvershootBounded ==
  Cardinality(onboarded) <= MaxProfiles + Cardinality(Requests) - 1

\* Simultaneous logins of one person never run into a unique index: it takes
\* an onboarding request beside the login, or a changed email.
LoginsSerialised ==
  answer.how = "duplicate" => changes > 0 \/ SignupEmail[answer.uid] \in signedUp

\* Whatever logins, retries and email changes do, a configured profile stays
\* somebody's configured profile until its owner deletes it.
ConfiguredProfilesSurvive ==
  [][~Erasure => Cardinality(onboarded') >= Cardinality(onboarded)]_vars

--------------------------------------------------------------------------------
(* A claim of the repository's tests.                                      *)

\* tests/test_auth_sync_identity.py:1 "/api/v1/auth/sync must survive one
\* person holding several auth identities", and db.py:1687 "so the user keeps
\* their criteria and their saved deals": a login is not refused because the
\* profile it should adopt has saved deals.
SecondIdentityLogsIn == answer.how # "referenced"
================================================================================

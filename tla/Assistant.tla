------------------------------- MODULE Assistant --------------------------------
(***************************************************************************)
(* The AI answers and what stands in for them: complete_chat of            *)
(* ai_copilot.py, which asks one provider after the other, and its         *)
(* callers - the copilot and the support chat, which answer within a       *)
(* deadline; the market report, the dossier, the letter and the price      *)
(* justification, which wait and keep their template text.                 *)
(*                                                                         *)
(* What a provider does is chosen when it is asked.  Texts are abstracted  *)
(* to what routes them: whether a message says anything beside greetings,  *)
(* what it is about, how long it is, how many turns came before it.        *)
(***************************************************************************)
EXTENDS Integers, FiniteSets

CONSTANTS
  Providers,      \* how many there are
  CallLimit,      \* timeout of a chat call, seconds
  Deadline,       \* COPILOT_CHAT_DEADLINE_SECONDS, CHAT_DEADLINE_SECONDS
  PromptLimit,    \* MAX_USER_PROMPT_CHARS, in lengths of a turn
  MaxTurns,       \* bound: earlier turns
  MaxSections     \* bound: sections of a dossier that are expanded

VARIABLES
  ask,      \* the request: its kind, what routes its text, the usable keys
  run,      \* where the handler is, what it has sent, asked and spent
  reply     \* the answer: whose it is, and which parts a model wrote

vars == <<ask, run, reply>>

Topics == {"county", "dossier", "law", "price", "other", "none"}

Chat(kind, topic, greets, corrects, turns, length) ==
  [kind |-> kind, substance |-> topic # "none", topic |-> topic, greets |-> greets,
   corrects |-> corrects, turns |-> turns, length |-> length, sections |-> {}]

Draft(kind, sections) ==
  [Chat(kind, "other", FALSE, FALSE, 0, 1) EXCEPT !.sections = sections]

\* Every text, with every number of usable keys that makes a difference: none, the
\* one LLM_PROVIDER asks for, all.
Texts ==
  {Chat(kind, topic, greets, corrects, turns, length) :
     kind \in {"copilot", "support"}, topic \in Topics, greets \in BOOLEAN,
     corrects \in BOOLEAN, turns \in 0..MaxTurns, length \in {1, PromptLimit + 1}}
  \cup {Draft(kind, {1}) : kind \in {"report", "letter", "price"}}
  \cup {Draft("dossier", 1..n) : n \in 1..MaxSections}

Requests == {[text |-> t, ready |-> n] : t \in Texts, n \in {0, 1, Providers}}

\* Of a run: the turns sent and whether the newest was cut; the providers asked
\* for the text in hand; the seconds of the chat, and whether a call of it took
\* more of them than its limit; the sections of the draft that are left.
NoRun == [at |-> "begin", kept |-> 0, cut |-> FALSE, tried |-> 0, overran |-> FALSE,
          spent |-> 0, left |-> {}]
NoReply == [by |-> "nobody", flagged |-> FALSE, parts |-> {}, exhausted |-> {}]

Init == ask \in Requests /\ run = NoRun /\ reply = NoReply

--------------------------------------------------------------------------------
IsDraft == ask.text.sections # {}

Answer(by) == run' = [run EXCEPT !.at = "answered"] /\ reply' = [reply EXCEPT !.by = by]

\* The newest turn alone is cut, with a note that says so; then the oldest turns
\* go until the rest fits, which a prompt that was cut leaves no room for.
Bounded(r) ==
  LET cut == ask.text.length > PromptLimit
      room == PromptLimit - ask.text.length IN
  [r EXCEPT !.cut = cut,
            !.kept = IF cut THEN 0 ELSE IF ask.text.turns < room THEN ask.text.turns ELSE room]

\* The turns go on to the providers, or without one to the template.
Proceed(left) ==
  IF ask.ready = 0 THEN [run EXCEPT !.at = "template", !.left = left]
  ELSE [Bounded(run) EXCEPT !.at = "ask", !.left = left]

\* Mutant: a greeting is answered as one, whatever else the message says.
GreetingSomewhere == ask.text.greets

\* A greeting, thanks, a call for help and nothing else, at the beginning.
SmallTalk == ask.text.greets /\ ~ask.text.substance /\ ask.text.turns = 0

\* copilot_chat reads the feed first, ten seconds at most.
BeginCopilot ==
  /\ run.at = "begin" /\ ask.text.kind = "copilot"
  /\ \/ IF SmallTalk THEN Answer("small talk")
        ELSE run' = Proceed({}) /\ UNCHANGED reply
     \/ \E by \in {"apology", "error"} : Answer(by)
  /\ UNCHANGED ask

BeginSupport ==
  /\ run.at = "begin" /\ ask.text.kind = "support"
  /\ run' = Proceed({}) /\ UNCHANGED <<reply, ask>>

BeginDraft ==
  /\ run.at = "begin" /\ IsDraft
  /\ run' = Proceed(ask.text.sections) /\ UNCHANGED <<reply, ask>>

--------------------------------------------------------------------------------
\* A call ends in a text, in one that was cut short at max_tokens, in nothing
\* (hidden thinking used up the budget), in a refusal, or in the timeout of the
\* client.
Endings == {"text", "short text", "nothing", "refusal", "silence"}
Answers == {"text", "short text"}

\* The timeout is over each phase of a call, the connection and every wait for
\* bytes: any ending may come at once, within the limit, after two phases that
\* each kept to it, or too late, from a provider that keeps trickling.  Silence
\* takes a phase at least.  Nobody times a draft.
Lasts(ending) ==
  IF IsDraft THEN {0}
  ELSE {s \in {1, CallLimit - 1, CallLimit, 2 * CallLimit, Deadline + 1} :
          ending = "silence" => s >= CallLimit}

\* Mutant: an empty content is a completion.
AcceptsNothing(ending) == ending \in Answers \cup {"nothing"}

Accepts(ending) == ending \in Answers

\* Mutant: the first failure ends the search.
GivesUpAtOnce(tried) == TRUE

GivesUp(tried) == tried = ask.ready

\* One more section of a draft, or the draft is done.
NextPart(r) ==
  IF r.left = {} THEN [r EXCEPT !.at = "answered"]
  ELSE [r EXCEPT !.at = IF ask.ready = 0 THEN "template" ELSE "ask",
                 !.tried = 0]

Part == CHOOSE s \in run.left : \A t \in run.left : s <= t

DraftWith(parts, exhausted) ==
  LET left == run.left \ {Part} IN
  /\ reply' = [reply EXCEPT !.by = IF left = {} THEN "draft" ELSE @,
                            !.parts = @ \cup parts, !.exhausted = @ \cup exhausted]
  /\ run' = NextPart([run EXCEPT !.left = left])

\* The next provider is asked.
AskProvider ==
  /\ run.at = "ask" /\ run.tried < ask.ready
  /\ \E ending \in Endings : \E lasts \in Lasts(ending) :
       LET spent == run.spent + lasts
           asked == [run EXCEPT !.tried = @ + 1, !.spent = spent,
                                !.overran = @ \/ lasts > CallLimit] IN
       IF ~IsDraft /\ spent > Deadline
       THEN /\ run' = [asked EXCEPT !.at = "answered"]
            /\ reply' = [reply EXCEPT !.by = "apology"]
       ELSE IF Accepts(ending)
       THEN IF IsDraft THEN DraftWith({Part}, {})
            ELSE /\ run' = [asked EXCEPT !.at = "answered"]
                 /\ reply' = [reply EXCEPT !.by = IF ending = "nothing" THEN "nobody"
                                                  ELSE "model",
                                           !.flagged = ending = "short text"]
       ELSE IF GivesUp(run.tried + 1)
       THEN run' = [asked EXCEPT !.at = "template"] /\ UNCHANGED reply
       ELSE run' = asked /\ UNCHANGED reply
  /\ UNCHANGED ask

\* The deterministic branches of answer_copilot_query, in their order.
Template ==
  IF ask.text.corrects THEN "correction" ELSE
  CASE ask.text.topic \in {"county", "dossier"} -> "dossiers"
    [] ask.text.topic = "law" -> "statute"
    [] ask.text.topic = "price" -> "price advice"
    [] OTHER -> "introduction"

FallBack ==
  /\ run.at = "template"
  /\ IF IsDraft THEN DraftWith({}, IF run.tried = ask.ready THEN {Part} ELSE {})
     ELSE Answer(IF ask.text.kind = "support" THEN "contact address" ELSE Template)
  /\ UNCHANGED ask

Next == BeginCopilot \/ BeginSupport \/ BeginDraft \/ AskProvider \/ FallBack

Spec == Init /\ [][Next]_vars

--------------------------------------------------------------------------------
(* Properties *)

TypeOK ==
  /\ ask \in Requests
  /\ run.at \in {"begin", "ask", "template", "answered"}
  /\ run.tried \in 0..ask.ready
  /\ run.left \subseteq ask.text.sections /\ reply.parts \subseteq ask.text.sections

Templates == {"correction", "dossiers", "statute", "price advice", "introduction",
              "contact address"}

\* What says something is never answered with a pleasantry, nobody is answered
\* with an empty text; a template stands in only once every provider has been
\* asked, for each section of a draft on its own; and the apology of the deadline
\* needs the feed, a call that overran its own limit, or as many providers asked
\* as that limit takes to fill the deadline: no fewer, whatever they answered.
AnswersAreEarned ==
  run.at = "answered" =>
    /\ reply.by # "nobody"
    /\ reply.by = "small talk" => ~ask.text.substance
    /\ reply.by \in Templates => run.tried = ask.ready
    /\ reply.by = "draft" => reply.parts \cup reply.exhausted = ask.text.sections
    /\ reply.by = "apology" /\ run.tried > 0 =>
         run.overran \/ run.tried * CallLimit > Deadline
================================================================================

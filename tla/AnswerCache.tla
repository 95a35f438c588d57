----------------------------- MODULE AnswerCache -----------------------------
(***************************************************************************)
(* llm/middleware: the semantic cache and the guardrails around one model, *)
(* in either order, shared by concurrent callers.                          *)
(*                                                                         *)
(* A conversation is what the cache embeds of it, its text; Near says      *)
(* which pairs reach the similarity threshold.  A contract stands for the  *)
(* response format, tool choice and output limit of a call.  An answer is  *)
(* known by the call the model gave it to, and by what the result guards   *)
(* think of it.                                                            *)
(***************************************************************************)
EXTENDS FiniteSets, Naturals

CONSTANTS CacheCallers,
          Conversations, Near(_, _),
          BadConversations, \* those a message guard refuses
          Contracts,
          Overfetch,        \* the candidates fetched before the filter; 0: the store filters
          MaxEntries        \* bound on what the cache holds

VARIABLES
    order,   \* which of the two is outside: "cache" or "guards"
    ensured, \* the sync.Once: "no", "begun", or "done"
    exists,  \* whether the collection does
    entries, \* the points of the store
    asked    \* where each caller's call is

answerVars == <<order, ensured, exists, entries, asked>>

NotAsked == [at |-> "free"]
NoAnswer == [guards |-> "none"]

CacheInit ==
    /\ order \in {"cache", "guards"}
    /\ ensured = "no" /\ exists = FALSE
    /\ entries = {}
    /\ asked = [c \in CacheCallers |-> NotAsked]

\* Call c goes on to where, with its other fields as in changes.
GoesOn(c, where, keep, answer) ==
    asked' = [asked EXCEPT ![c] = [@ EXCEPT !.at = where, !.keep = keep, !.answer = answer]]

Blocks(text) == text \in BadConversations

-----------------------------------------------------------------------------
(* check *)

\* Execute or ExecuteStream of the outer middleware: guards outside check the messages
\* first.  A call that offers tools skips the cache.
Ask(c) ==
    /\ asked[c] = NotAsked
    /\ \E text \in Conversations, contract \in Contracts, tools \in BOOLEAN :
           /\ ~(order = "guards" /\ Blocks(text))
           /\ asked' = [asked EXCEPT ![c] =
                  [at |-> IF tools THEN "model" ELSE "ensure",
                   text |-> text, contract |-> contract, keep |-> FALSE,
                   answer |-> NoAnswer, known |-> FALSE]]
    /\ UNCHANGED <<order, ensured, exists, entries>>

\* ensureCollection: the first call does it, and the others wait for it.
BeginEnsure(c) ==
    /\ asked[c].at = "ensure" /\ ensured = "no"
    /\ ensured' = "begun"
    /\ GoesOn(c, "ensuring", FALSE, NoAnswer)
    /\ UNCHANGED <<order, exists, entries>>

EndEnsure(c) ==
    /\ asked[c].at = "ensuring"
    /\ ensured' = "done"
    /\ \/ exists' = TRUE /\ GoesOn(c, "lookup", FALSE, NoAnswer)
       \/ exists' \in BOOLEAN /\ GoesOn(c, "model", FALSE, NoAnswer)
    /\ UNCHANGED <<order, entries>>

IsEnsured(c) ==
    /\ asked[c].at = "ensure" /\ ensured = "done"
    /\ GoesOn(c, "lookup", FALSE, NoAnswer)
    /\ UNCHANGED <<order, ensured, exists, entries>>

\* An embedder that fails: the call is not cached.
EmbedFails(c) ==
    /\ asked[c].at = "lookup"
    /\ GoesOn(c, "model", FALSE, NoAnswer)
    /\ UNCHANGED <<order, ensured, exists, entries>>

Distance(text, other) == IF text = other THEN 0 ELSE IF Near(text, other) THEN 1 ELSE 2

\* The possible results of a search for the nearest points, in any order among equals.
Nearest(from, text, limit) ==
    {found \in SUBSET from :
        /\ Cardinality(found) = IF Cardinality(from) < limit THEN Cardinality(from) ELSE limit
        /\ \A e \in found, f \in from \ found : Distance(text, e.text) <= Distance(text, f.text)}

WithContract(from, contract) == {e \in from : e.contract = contract}

\* Variant: the search is for the nearest point of all.
Candidates_Unfiltered(text, contract) == Nearest(entries, text, 1)

\* What store.Query may return for one point of this contract.
Candidates(text, contract) ==
    IF Overfetch = 0 THEN Nearest(WithContract(entries, contract), text, 1)
    ELSE UNION {Nearest(WithContract(found, contract), text, 1) :
                    found \in Nearest(entries, text, Overfetch)}

\* lookup: a hit, a miss, or a query that fails; then the call is cached all the same.
LookUp(c) ==
    /\ asked[c].at = "lookup"
    /\ LET text == asked[c].text
           contract == asked[c].contract
           Fits(e) == e.contract = contract /\ Distance(text, e.text) < 2
       IN  \E found \in (IF exists THEN Candidates(text, contract) ELSE {{}}) :
               \/ \E e \in found :
                      Fits(e) /\ GoesOn(c, IF order = "guards" THEN "check" ELSE "deliver", FALSE, e)
               \/ /\ \A e \in found : ~Fits(e)
                  /\ asked' = [asked EXCEPT ![c].at = "model", ![c].keep = TRUE,
                                            ![c].known = [text |-> text, contract |-> contract]
                                                         \in {[text |-> e.text, contract |-> e.contract] : e \in entries}]
    /\ UNCHANGED <<order, ensured, exists, entries>>

QueryFails(c) ==
    /\ asked[c].at = "lookup"
    /\ GoesOn(c, "model", TRUE, NoAnswer)
    /\ UNCHANGED <<order, ensured, exists, entries>>

-----------------------------------------------------------------------------
(* The model, and what is done with its answer *)

\* The call ends without an answer: a guard inside refuses the messages, the model
\* fails, or who reads the stream stops before its last chunk.
Fail(c) ==
    /\ asked[c].at = "model"
    /\ asked' = [asked EXCEPT ![c] = NotAsked]
    /\ UNCHANGED <<order, ensured, exists, entries>>

Answer(c) ==
    /\ asked[c].at = "model"
    /\ ~(order = "cache" /\ Blocks(asked[c].text))
    /\ \E verdict \in {"pass", "reject"} :
           GoesOn(c, IF order = "cache" THEN "check" ELSE "persist", asked[c].keep,
                  [text |-> asked[c].text, contract |-> asked[c].contract, guards |-> verdict])
    /\ UNCHANGED <<order, ensured, exists, entries>>

Rejected(c) == asked[c].answer.guards = "reject"

\* checkResult: of a stream, before its last chunk goes out.
CheckResult(c) ==
    /\ asked[c].at = "check"
    /\ IF Rejected(c) THEN asked' = [asked EXCEPT ![c] = NotAsked]
       ELSE GoesOn(c, IF order = "cache" THEN "persist" ELSE "deliver", asked[c].keep, asked[c].answer)
    /\ UNCHANGED <<order, ensured, exists, entries>>

\* persist, which may fail and says nothing: of a stream, before its last chunk goes out.
Persist(c) ==
    /\ asked[c].at = "persist"
    /\ \/ /\ asked[c].keep /\ exists
          /\ Cardinality(entries \cup {asked[c].answer}) <= MaxEntries
          /\ entries' = entries \cup {asked[c].answer}
       \/ UNCHANGED entries
    /\ GoesOn(c, IF order = "guards" THEN "check" ELSE "deliver", FALSE, asked[c].answer)
    /\ UNCHANGED <<order, ensured, exists>>

\* The caller has its answer, and may call again.
Deliver(c) ==
    /\ asked[c].at = "deliver"
    /\ asked' = [asked EXCEPT ![c] = NotAsked]
    /\ UNCHANGED <<order, ensured, exists, entries>>

CacheNext ==
    \E c \in CacheCallers :
        \/ Ask(c) \/ BeginEnsure(c) \/ EndEnsure(c) \/ IsEnsured(c)
        \/ EmbedFails(c) \/ LookUp(c) \/ QueryFails(c)
        \/ Fail(c) \/ Answer(c) \/ CheckResult(c) \/ Persist(c) \/ Deliver(c)

CacheSpec == CacheInit /\ [][CacheNext]_answerVars

-----------------------------------------------------------------------------
(* An answer that is delivered was given to a call with exactly this       *)
(* contract and a conversation within the threshold, the result guards     *)
(* accept it, and guards outside accept its conversation: whichever of     *)
(* cache and guards is outside, and however the calls interleave.  What    *)
(* guards inside reject is not kept (lookup, callContract, checkResult).   *)
AnswersFit ==
    /\ \A c \in CacheCallers :
           asked[c].at = "deliver" =>
               /\ asked[c].answer.contract = asked[c].contract
               /\ Distance(asked[c].text, asked[c].answer.text) < 2
               /\ asked[c].answer.guards = "pass"
               /\ order = "guards" => ~Blocks(asked[c].text)
    /\ order = "cache" => \A e \in entries : e.guards = "pass"

\* A search that works finds the answer to the very same call (lookup).
FindsTheSame == \A c \in CacheCallers : asked[c].at # "free" => ~asked[c].known

\* What lookup and checkResult promise between them: answers that fit, and none missed
\* that is there.
ServesOnlyWhatFits == AnswersFit /\ FindsTheSame
=============================================================================

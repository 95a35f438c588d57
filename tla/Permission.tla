------------------------------ MODULE Permission ------------------------------
(***************************************************************************)
(* permission.Policy: concurrent tool calls that rules allow, deny or ask  *)
(* about, the human who answers one question at a time, the answers that   *)
(* are remembered, and the rules that last for one agent run.              *)
(*                                                                         *)
(* A subject is what a call touches; Written gives the name a file's path  *)
(* was written with, which deny and ask rules match as well.  A rule is    *)
(* the name it matches.  A request is a call's subjects, or the visible    *)
(* parts of a command line that cannot be split.                           *)
(***************************************************************************)
EXTENDS Integers, FiniteSets

CONSTANTS Requests,  \* [opaque, ambiguous, subjects]: what calls may ask for
          Written,   \* subject -> the name as written
          DenyRules, AskRules, \* given as options, for the policy's life
          Fallback,  \* WithDefault: "Allow", "Ask" or "Deny"
          HasAsker,
          Allows, Grants, \* the names that Allow and AllowForRun may be given
          Runs, PermCalls

\* A Decision is one of three values; a caller is not "nobody".
ASSUME PermissionConstants ==
    /\ Fallback \in {"Allow", "Ask", "Deny"} /\ HasAsker \in BOOLEAN
    /\ \A req \in Requests : req.opaque \in BOOLEAN /\ req.ambiguous \in BOOLEAN
    /\ "nobody" \notin PermCalls

VARIABLES
    allowRules,  \* p.rules, those that allow
    always,      \* p.always
    runRules,    \* p.runRules: those of each run
    afterEnd,    \* the runs with a function registered for their end
    runEnded,    \* the runs that have ended
    asker,       \* the call that holds askMu
    check,       \* each call
    everAlways, everRun, \* what answers and AllowForRun ever allowed: history
    questions    \* the subjects each question showed, and its answer: history

permVars == <<allowRules, always, runRules, afterEnd, runEnded, asker, check, everAlways, everRun, questions>>

Nobody == "nobody"
Verdicts == {"allowed", "denied"}

PermInit ==
    /\ allowRules = {} /\ always = {}
    /\ runRules = [r \in Runs |-> {}] /\ afterEnd = {} /\ runEnded = {}
    /\ asker = Nobody
    /\ check = [c \in PermCalls |-> [at |-> "idle"]]
    /\ everAlways = {} /\ everRun = [r \in Runs |-> {}]
    /\ questions = [c \in PermCalls |-> "none"]

-----------------------------------------------------------------------------
(* The decision *)

Matches(rules, s) == s \in rules \/ Written[s] \in rules

\* Variant: allow rules win over ask rules.
DecideOne_AllowFirst(s, run) ==
    IF Matches(DenyRules, s) THEN "Deny"
    ELSE IF s \in allowRules \cup runRules[run] \cup always THEN "Allow"
    ELSE IF Matches(AskRules, s) THEN "Ask"
    ELSE Fallback

\* Deny wins over ask, which wins over allow; allow rules see the subject only.
DecideOne(s, run) ==
    IF Matches(DenyRules, s) THEN "Deny"
    ELSE IF Matches(AskRules, s) THEN "Ask"
    ELSE IF s \in allowRules \cup runRules[run] \cup always THEN "Allow"
    ELSE Fallback

Decide(req, run) ==
    IF req.opaque
    THEN IF req.subjects \cap DenyRules # {} THEN "Deny" ELSE "Ask"
    ELSE LET each == {DecideOne(s, run) : s \in req.subjects}
         IN  IF "Deny" \in each THEN "Deny" ELSE IF "Ask" \in each THEN "Ask" ELSE "Allow"

\* What an AllowAlways answer stores: an ask rule would win over it.
Rememberable(req) ==
    IF req.opaque THEN {} ELSE {s \in req.subjects \ always : ~Matches(AskRules, s)}

-----------------------------------------------------------------------------
(* check, on a call's goroutine *)

Go(c, fields) == check' = [check EXCEPT ![c] = [f \in DOMAIN @ \cup DOMAIN fields |->
                                                   IF f \in DOMAIN fields THEN fields[f] ELSE @[f]]]

NeedsNoQuestion(decision) == IF decision = "Allow" THEN "allowed" ELSE "denied"

\* The first decision, without askMu.
Evaluate(c) ==
    /\ check[c].at = "idle"
    /\ \E req \in Requests, run \in Runs :
           LET decision == IF req.ambiguous THEN "Deny" ELSE Decide(req, run)
           IN  Go(c, [req |-> req, run |-> run,
                      at |-> IF decision = "Ask" THEN "wait" ELSE NeedsNoQuestion(decision)])
    /\ UNCHANGED <<allowRules, always, runRules, afterEnd, runEnded, asker, everAlways, everRun, questions>>

\* Its turn to ask: the goroutine waits for it whatever its context.
LockAsk(c) ==
    /\ check[c].at = "wait" /\ asker = Nobody
    /\ asker' = c
    /\ Go(c, [at |-> "decide"])
    /\ UNCHANGED <<allowRules, always, runRules, afterEnd, runEnded, everAlways, everRun, questions>>

DecideAgain(c) == Decide(check[c].req, check[c].run)

\* Under askMu the decision is made again: an earlier answer may have settled it.
Redecide(c) ==
    /\ check[c].at = "decide"
    /\ LET decision == DecideAgain(c)
           asks == decision = "Ask" /\ HasAsker
       IN  /\ Go(c, [at |-> IF asks THEN "asking" ELSE NeedsNoQuestion(decision),
                     remember |-> Rememberable(check[c].req)])
           /\ asker' = IF asks THEN c ELSE Nobody
           /\ questions' = [questions EXCEPT ![c] = IF asks THEN "asked" ELSE @]
    /\ UNCHANGED <<allowRules, always, runRules, afterEnd, runEnded, everAlways, everRun>>

\* The human answers, or fails to; AllowAlways stores what the question showed.
Answer(c) ==
    /\ check[c].at = "asking"
    /\ \E answer \in {"Reject", "AllowOnce", "AllowAlways", "error"} :
           LET stored == IF answer = "AllowAlways" THEN check[c].remember ELSE {}
           IN  /\ always' = always \cup stored
               /\ everAlways' = everAlways \cup stored
               /\ Go(c, [at |-> IF answer \in {"AllowOnce", "AllowAlways"} THEN "allowed" ELSE "denied"])
               /\ questions' = [questions EXCEPT ![c] = answer]
    /\ asker' = Nobody
    /\ UNCHANGED <<allowRules, runRules, afterEnd, runEnded, everRun>>

-----------------------------------------------------------------------------
(* The policy's other methods *)

AllowRule(name) ==
    /\ allowRules' = allowRules \cup {name}
    /\ UNCHANGED <<always, runRules, afterEnd, runEnded, asker, check, everAlways, everRun, questions>>

\* Variant: the end is registered by the run's first grant only, even when the
\* rules were dropped since.
Registers_Once(run) == everRun[run] = {}

\* Its rules are gone when it was never granted one, or they were dropped.
Registers(run) == runRules[run] = {}

\* A grant of a run that has ended is registered too, and dropped at once.
AllowForRun(run, name) ==
    /\ afterEnd' = IF Registers(run) THEN afterEnd \cup {run} ELSE afterEnd
    /\ runRules' = [runRules EXCEPT ![run] = @ \cup {name}]
    /\ everRun' = [everRun EXCEPT ![run] = @ \cup {name}]
    /\ UNCHANGED <<allowRules, always, runEnded, asker, check, everAlways, questions>>

Forget(s) ==
    /\ s \in always /\ always' = always \ {s}
    /\ UNCHANGED <<allowRules, runRules, afterEnd, runEnded, asker, check, everAlways, everRun, questions>>

\* The agent ends the run when it returns; a call's goroutine may still be there.
EndRun(run) ==
    /\ run \notin runEnded /\ runEnded' = runEnded \cup {run}
    /\ UNCHANGED <<allowRules, always, runRules, afterEnd, asker, check, everAlways, everRun, questions>>

\* The function registered for the end runs in its own goroutine.
DropRunRules(run) ==
    /\ run \in afterEnd \cap runEnded
    /\ afterEnd' = afterEnd \ {run}
    /\ runRules' = [runRules EXCEPT ![run] = {}]
    /\ UNCHANGED <<allowRules, always, runEnded, asker, check, everAlways, everRun, questions>>

PermNext ==
    \/ \E c \in PermCalls : Evaluate(c) \/ LockAsk(c) \/ Redecide(c) \/ Answer(c)
    \/ \E name \in Allows : AllowRule(name)
    \/ \E name \in Grants, run \in Runs : AllowForRun(run, name)
    \/ \E s \in DOMAIN Written : Forget(s)
    \/ \E run \in Runs : EndRun(run) \/ DropRunRules(run)

PermSpec == PermInit /\ [][PermNext]_permVars

-----------------------------------------------------------------------------
(* Properties *)

AnsweredYes(c) == questions[c] \in {"AllowOnce", "AllowAlways"}

\* A call that is allowed: no deny rule matches it, and its subject is given once; a
\* human allowed this very call if it is a command line that cannot be seen through,
\* or an ask rule matches it; and if no one was asked, each of its subjects is
\* allowed by a rule, by a grant of its own run, by an answer to a question that
\* showed it, or by default.
Justified(c) ==
    LET req == check[c].req
        saidYes == questions[c] \in {"AllowOnce", "AllowAlways"}
    IN  /\ ~req.ambiguous
        /\ \A s \in req.subjects : IF req.opaque THEN s \notin DenyRules ELSE ~Matches(DenyRules, s)
        /\ req.opaque \/ (\E s \in req.subjects : Matches(AskRules, s)) => saidYes
        /\ ~saidYes => \A s \in req.subjects :
               s \in allowRules \cup everAlways \cup everRun[check[c].run] \/ Fallback = "Allow"

Asking == {c \in PermCalls : check[c].at = "asking"}

\* What a policy is for, while rules, answers and runs come and go between a call's
\* two decisions: no call runs that is not justified; and a human is asked one
\* question at a time, and only one that the rules and answers of that moment leave
\* open ("an earlier answer may have allowed it since", Policy.check).
AskedAsNeeded ==
    [][\A c \in PermCalls :
          /\ check[c].at # "allowed" /\ check'[c].at = "allowed" => Justified(c)'
          /\ c \in Asking' \ Asking =>
                 Asking = {} /\ Decide(check'[c].req, check'[c].run) = "Ask"]_permVars

\* Rules of a run "are dropped when the run ends", also those granted meanwhile or
\* after by a call the run left behind.
RunRulesEnd == \A run \in Runs : (run \in runEnded /\ runRules[run] # {}) ~> runRules[run] = {}
=============================================================================

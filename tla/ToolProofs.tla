----------------------------- MODULE ToolProofs -----------------------------
(***************************************************************************)
(* Proofs about the tools of an agent, for any calls, rules, runs,         *)
(* versions, commands and shells: the permission policy allows and asks    *)
(* just what it should; the read tracker of the file tools refuses just    *)
(* the changes of what the model has not seen; a round of tool calls is    *)
(* whole, however its goroutines run; a persistent shell carries from one  *)
(* command to the next what it has to; and a background shell's output and *)
(* process are accounted for.                                              *)
(***************************************************************************)
EXTENDS Permission, FileTools, ToolRound, BashShells, PersistentShell,
        FiniteSetTheorems, SequenceTheorems, WellFoundedInduction, TLAPS

-----------------------------------------------------------------------------
(* The policy *)

\* A call that waits or asks has said what for, is not ambiguous, and holds askMu
\* from its second decision to the answer; one that asks is denied by no rule.  What
\* is allowed now was allowed by an answer or a grant once.
Undenied(req) ==
    \A s \in req.subjects : IF req.opaque THEN s \notin DenyRules ELSE ~Matches(DenyRules, s)

Begun(c) ==
    /\ {"at", "req", "run"} \subseteq DOMAIN check[c]
    /\ check[c].req \in Requests /\ check[c].run \in Runs
    /\ check[c].at # "denied" => ~check[c].req.ambiguous

PermInv ==
    /\ DOMAIN check = PermCalls /\ DOMAIN questions = PermCalls
    /\ DOMAIN runRules = Runs /\ DOMAIN everRun = Runs
    /\ \A c \in PermCalls :
        /\ check[c].at \in {"idle", "wait", "decide", "asking", "allowed", "denied"}
        /\ check[c].at # "idle" => Begun(c)
        /\ "at" \in DOMAIN check[c]
        /\ check[c].at \in {"decide", "asking"} <=> asker = c
        /\ check[c].at = "asking" => Undenied(check[c].req)
    /\ always \subseteq everAlways
    /\ \A run \in Runs : runRules[run] \subseteq everRun[run]

LEMMA PermInvInit == ASSUME PermissionConstants, PermInit PROVE PermInv
BY DEF PermInit, PermInv, PermissionConstants, Nobody

\* What a decision says of the rules.
LEMMA AllowedByRules ==
    ASSUME PermissionConstants, NEW req \in Requests, NEW run, Decide(req, run) = "Allow"
    PROVE  /\ ~req.opaque
           /\ \A s \in req.subjects :
               /\ ~Matches(DenyRules, s) /\ ~Matches(AskRules, s)
               /\ s \in allowRules \cup runRules[run] \cup always \/ Fallback = "Allow"
<1> DEFINE each == {DecideOne(s, run) : s \in req.subjects}
<1>1. ~req.opaque BY DEF Decide
<1>2. "Deny" \notin each /\ "Ask" \notin each BY <1>1 DEF Decide
<1>3. ASSUME NEW s \in req.subjects
      PROVE  /\ ~Matches(DenyRules, s) /\ ~Matches(AskRules, s)
             /\ s \in allowRules \cup runRules[run] \cup always \/ Fallback = "Allow"
  <2>1. DecideOne(s, run) # "Deny" /\ DecideOne(s, run) # "Ask" BY <1>2
  <2>2. QED BY <2>1 DEF DecideOne, PermissionConstants
<1>4. QED BY <1>1, <1>3

LEMMA AskedIsUndenied ==
    ASSUME PermissionConstants, NEW req \in Requests, NEW run, Decide(req, run) = "Ask"
    PROVE  Undenied(req)
<1>1. CASE req.opaque BY <1>1 DEF Decide, Undenied
<1>2. CASE ~req.opaque
  <2> DEFINE each == {DecideOne(s, run) : s \in req.subjects}
  <2>1. "Deny" \notin each BY <1>2 DEF Decide
  <2>2. ASSUME NEW s \in req.subjects PROVE ~Matches(DenyRules, s)
    <3>1. DecideOne(s, run) # "Deny" BY <2>1
    <3>2. QED BY <3>1 DEF DecideOne
  <2>3. QED BY <1>2, <2>2 DEF Undenied
<1>3. QED BY <1>1, <1>2

\* A decision is one of the three.
LEMMA DecideType ==
    ASSUME PermissionConstants, NEW req, NEW run
    PROVE  Decide(req, run) \in {"Allow", "Ask", "Deny"}
BY DEF Decide
\* What Go leaves of a call, and of the others.
LEMMA GoFields ==
    ASSUME DOMAIN check = PermCalls, NEW c \in PermCalls, NEW fields, Go(c, fields)
    PROVE  /\ DOMAIN check' = PermCalls
           /\ \A d \in PermCalls \ {c} : check'[d] = check[d]
           /\ DOMAIN check'[c] = DOMAIN check[c] \cup DOMAIN fields
           /\ \A f \in DOMAIN fields : check'[c][f] = fields[f]
           /\ \A f \in DOMAIN check[c] \ DOMAIN fields : check'[c][f] = check[c][f]
BY Zenon DEF Go

\* A step of the policy keeps the invariant and makes only the moves that the
\* property allows.
Moves ==
    \A c \in PermCalls :
        /\ check[c].at # "allowed" /\ check'[c].at = "allowed" => Justified(c)'
        /\ c \in Asking' \ Asking =>
               Asking = {} /\ Decide(check'[c].req, check'[c].run) = "Ask"

LEMMA EvaluateStep ==
    ASSUME PermissionConstants, PermInv, NEW c \in PermCalls, Evaluate(c)
    PROVE  PermInv' /\ Moves
<1>1. PICK req \in Requests, run \in Runs :
          LET decision == IF req.ambiguous THEN "Deny" ELSE Decide(req, run)
          IN  Go(c, [req |-> req, run |-> run,
                     at |-> IF decision = "Ask" THEN "wait" ELSE NeedsNoQuestion(decision)])
  BY DEF Evaluate
<1> DEFINE decision == IF req.ambiguous THEN "Deny" ELSE Decide(req, run)
           at == IF decision = "Ask" THEN "wait" ELSE NeedsNoQuestion(decision)
<1>2. UNCHANGED <<allowRules, always, runRules, afterEnd, runEnded, asker, everAlways, everRun, questions>>
      /\ check[c].at = "idle"
  BY DEF Evaluate
<1>3. /\ DOMAIN check' = PermCalls
      /\ \A d \in PermCalls \ {c} : check'[d] = check[d]
      /\ {"at", "req", "run"} \subseteq DOMAIN check'[c]
      /\ check'[c].req = req /\ check'[c].run = run /\ check'[c].at = at
  BY <1>1, GoFields DEF PermInv
<1>4. decision \in {"Allow", "Ask", "Deny"} BY DecideType
<1>5. at \in {"wait", "allowed", "denied"} /\ (at # "denied" => ~req.ambiguous)
  BY <1>4 DEF NeedsNoQuestion
<1>6. PermInv' BY <1>2, <1>3, <1>5 DEF PermInv, Begun, Undenied, Matches
<1>7. Asking' = Asking BY <1>2, <1>3, <1>5 DEF Asking
<1>8. ASSUME check'[c].at = "allowed" PROVE Justified(c)'
  <2>1. ~req.ambiguous /\ Decide(req, run) = "Allow"
    BY <1>3, <1>4, <1>8 DEF NeedsNoQuestion
  <2>2. QED BY <1>2, <1>3, <2>1, AllowedByRules DEF Justified, PermInv, Matches
<1>9. QED BY <1>3, <1>6, <1>7, <1>8 DEF Moves

\* The moves of a call after its first decision leave what it asks for, and its run.
LEMMA GoesOn ==
    ASSUME PermInv, NEW c \in PermCalls, check[c].at # "idle",
           NEW fields, Go(c, fields),
           "at" \in DOMAIN fields, DOMAIN fields \subseteq {"at", "remember"}
    PROVE  /\ DOMAIN check' = PermCalls
           /\ \A d \in PermCalls \ {c} : check'[d] = check[d]
           /\ {"at", "req", "run"} \subseteq DOMAIN check'[c]
           /\ check'[c].at = fields.at
           /\ check'[c].req = check[c].req /\ check'[c].run = check[c].run
           /\ check[c].req \in Requests /\ check[c].run \in Runs
<1>1. Begun(c) BY DEF PermInv
<1>2. "req" \notin DOMAIN fields /\ "run" \notin DOMAIN fields OBVIOUS
<1>3. QED BY <1>1, <1>2, GoFields DEF PermInv, Begun

LEMMA LockAskStep ==
    ASSUME PermissionConstants, PermInv, NEW c \in PermCalls, LockAsk(c)
    PROVE  PermInv' /\ Moves
<1>1. check[c].at = "wait" /\ asker = Nobody /\ asker' = c
      /\ UNCHANGED <<allowRules, always, runRules, afterEnd, runEnded, everAlways, everRun, questions>>
  BY DEF LockAsk
<1>2. Go(c, [at |-> "decide"]) BY DEF LockAsk
<1>3. /\ DOMAIN check' = PermCalls
      /\ \A d \in PermCalls \ {c} : check'[d] = check[d]
      /\ {"at", "req", "run"} \subseteq DOMAIN check'[c]
      /\ check'[c].at = "decide"
      /\ check'[c].req = check[c].req /\ check'[c].run = check[c].run /\ Begun(c)
  BY <1>1, <1>2, GoesOn DEF PermInv
<1>4. PermInv' BY <1>1, <1>3 DEF PermInv, Begun, Undenied, Matches, PermissionConstants, Nobody
<1>5. Asking' = Asking BY <1>1, <1>3 DEF Asking
<1>6. QED BY <1>1, <1>3, <1>4, <1>5 DEF Moves

LEMMA RedecideStep ==
    ASSUME PermissionConstants, PermInv, NEW c \in PermCalls, Redecide(c)
    PROVE  PermInv' /\ Moves
<1> DEFINE req == check[c].req
           decision == Decide(req, check[c].run)
           asks == decision = "Ask" /\ HasAsker
           at == IF asks THEN "asking" ELSE NeedsNoQuestion(decision)
<1>1. /\ check[c].at = "decide" /\ asker' = IF asks THEN c ELSE Nobody
      /\ questions' = [questions EXCEPT ![c] = IF asks THEN "asked" ELSE @]
      /\ UNCHANGED <<allowRules, always, runRules, afterEnd, runEnded, everAlways, everRun>>
  BY DEF Redecide, DecideAgain
<1>2. Go(c, [at |-> at, remember |-> Rememberable(req)]) BY DEF Redecide, DecideAgain
<1>3. Begun(c) /\ ~req.ambiguous /\ asker = c BY <1>1 DEF PermInv, Begun
<1>4. /\ DOMAIN check' = PermCalls
      /\ \A d \in PermCalls \ {c} : check'[d] = check[d]
      /\ {"at", "req", "run"} \subseteq DOMAIN check'[c]
      /\ check'[c].at = at /\ check'[c].req = req /\ check'[c].run = check[c].run
      /\ req \in Requests /\ check[c].run \in Runs
  BY <1>1, <1>2, GoesOn
<1>5. decision \in {"Allow", "Ask", "Deny"} BY DecideType
<1>6. at \in {"asking", "allowed", "denied"} /\ (at = "asking" <=> asks)
  BY <1>5 DEF NeedsNoQuestion
<1>7. asks => Undenied(req) BY <1>4, AskedIsUndenied
<1>8. \A d \in PermCalls \ {c} : check[d].at \notin {"decide", "asking"}
  BY <1>3 DEF PermInv
<1>9. PermInv'
  <2>1. \A d \in PermCalls : check'[d].at \in {"decide", "asking"} <=> asker' = d
    BY <1>1, <1>4, <1>6, <1>8 DEF PermissionConstants, Nobody
  <2>2. QED
    BY <1>1, <1>3, <1>4, <1>6, <1>7, <2>1 DEF PermInv, Begun, Undenied, Matches
<1>10. ASSUME c \in Asking' \ Asking
       PROVE  Asking = {} /\ Decide(check'[c].req, check'[c].run) = "Ask"
  BY <1>1, <1>4, <1>6, <1>8, <1>10 DEF Asking
<1>11. Asking' \subseteq Asking \cup {c} BY <1>4 DEF Asking
<1>12. ASSUME check'[c].at = "allowed" PROVE Justified(c)'
  <2>1. decision = "Allow" BY <1>4, <1>5, <1>6, <1>12 DEF NeedsNoQuestion
  <2>2. QED BY <1>1, <1>3, <1>4, <2>1, AllowedByRules DEF Justified, PermInv, Matches
<1>13. QED BY <1>4, <1>9, <1>10, <1>11, <1>12 DEF Moves

LEMMA AnswerStep ==
    ASSUME PermissionConstants, PermInv, NEW c \in PermCalls, Answer(c)
    PROVE  PermInv' /\ Moves
<1>1. PICK answer \in {"Reject", "AllowOnce", "AllowAlways", "error"} :
          LET stored == IF answer = "AllowAlways" THEN check[c].remember ELSE {}
          IN  /\ always' = always \cup stored
              /\ everAlways' = everAlways \cup stored
              /\ Go(c, [at |-> IF answer \in {"AllowOnce", "AllowAlways"} THEN "allowed" ELSE "denied"])
              /\ questions' = [questions EXCEPT ![c] = answer]
  BY DEF Answer
<1> DEFINE at == IF answer \in {"AllowOnce", "AllowAlways"} THEN "allowed" ELSE "denied"
<1>2. check[c].at = "asking" /\ asker' = Nobody
      /\ UNCHANGED <<allowRules, runRules, afterEnd, runEnded, everRun>>
  BY DEF Answer
<1>3. Begun(c) /\ ~check[c].req.ambiguous /\ Undenied(check[c].req) /\ asker = c
  BY <1>2 DEF PermInv, Begun
<1>4. /\ DOMAIN check' = PermCalls
      /\ \A d \in PermCalls \ {c} : check'[d] = check[d]
      /\ {"at", "req", "run"} \subseteq DOMAIN check'[c]
      /\ check'[c].at = at
      /\ check'[c].req = check[c].req /\ check'[c].run = check[c].run
  <2>1. Go(c, [at |-> at]) BY <1>1
  <2>2. QED BY <1>2, <2>1, GoesOn
<1>5. always' \subseteq everAlways' BY <1>1 DEF PermInv
<1>6. PermInv'
  <2>1. \A d \in PermCalls : check'[d].at \in {"decide", "asking"} <=> asker' = d
    BY <1>2, <1>3, <1>4 DEF PermInv, PermissionConstants, Nobody
  <2>2. DOMAIN questions' = PermCalls BY <1>1 DEF PermInv
  <2>3. QED
    BY <1>2, <1>3, <1>4, <1>5, <2>1, <2>2 DEF PermInv, Begun, Undenied, Matches
<1>7. Asking' \subseteq Asking BY <1>4 DEF Asking
<1>8. ASSUME at = "allowed" PROVE Justified(c)'
  <2>1. questions'[c] \in {"AllowOnce", "AllowAlways"} BY <1>1, <1>8 DEF PermInv
  <2>2. QED BY <1>3, <1>4, <2>1 DEF Justified, Undenied, Matches
<1>9. QED BY <1>4, <1>6, <1>7, <1>8 DEF Moves

\* What the policy's other methods do, or the end of a run, moves no call.
LEMMA OtherStep ==
    ASSUME PermInv, UNCHANGED <<check, asker, everAlways, questions>>,
           always' \subseteq always,
           DOMAIN runRules' = Runs, DOMAIN everRun' = Runs,
           \A run \in Runs : runRules'[run] \subseteq everRun'[run]
    PROVE  PermInv' /\ Moves
<1>1. PermInv' BY DEF PermInv, Begun, Undenied, Matches
<1>2. Asking' = Asking BY DEF Asking
<1>3. QED BY <1>1, <1>2 DEF Moves

LEMMA PermStep ==
    ASSUME PermissionConstants, PermInv, [PermNext]_permVars
    PROVE  PermInv' /\ Moves
<1>1. ASSUME NEW name \in Allows, AllowRule(name) PROVE PermInv' /\ Moves
  BY <1>1, OtherStep DEF AllowRule, PermInv
<1>2. ASSUME NEW name \in Grants, NEW run \in Runs, AllowForRun(run, name)
      PROVE  PermInv' /\ Moves
  <2>1. \A r \in Runs : runRules'[r] \subseteq everRun'[r] BY <1>2 DEF AllowForRun, PermInv
  <2>2. QED BY <1>2, <2>1, OtherStep DEF AllowForRun, PermInv
<1>3. ASSUME NEW s \in DOMAIN Written, Forget(s) PROVE PermInv' /\ Moves
  BY <1>3, OtherStep DEF Forget, PermInv
<1>4. ASSUME NEW run \in Runs, EndRun(run) PROVE PermInv' /\ Moves
  BY <1>4, OtherStep DEF EndRun, PermInv
<1>5. ASSUME NEW run \in Runs, DropRunRules(run) PROVE PermInv' /\ Moves
  <2>1. \A r \in Runs : runRules'[r] \subseteq everRun'[r] BY <1>5 DEF DropRunRules, PermInv
  <2>2. QED BY <1>5, <2>1, OtherStep DEF DropRunRules, PermInv
<1>6. CASE UNCHANGED permVars BY <1>6, OtherStep DEF permVars, PermInv
<1>7. QED
  BY <1>1, <1>2, <1>3, <1>4, <1>5, <1>6, EvaluateStep, LockAskStep, RedecideStep, AnswerStep
     DEF PermNext

\* No call runs that the rules, the grants of its own run, an answer or the default do
\* not justify, and a human is asked one question at a time, and only an open one,
\* while rules, answers and runs come and go between a call's two decisions
\* (permission.go, Policy.check).
THEOREM PolicyAsksAsNeeded == PermSpec => AskedAsNeeded
<1>1. PermInit => PermInv BY PermInvInit, PermissionConstants
<1>2. PermInv /\ [PermNext]_permVars => PermInv' BY PermStep, PermissionConstants
<1>3. PermInv /\ [PermNext]_permVars =>
          [\A c \in PermCalls :
              /\ check[c].at # "allowed" /\ check'[c].at = "allowed" => Justified(c)'
              /\ c \in Asking' \ Asking =>
                     Asking = {} /\ Decide(check'[c].req, check'[c].run) = "Ask"]_permVars
  BY PermStep, PermissionConstants DEF Moves
<1>4. QED BY <1>1, <1>2, <1>3, PTL DEF PermSpec, AskedAsNeeded
-----------------------------------------------------------------------------
(* The read tracker *)

FileTypeOK ==
    /\ versions \in Nat /\ disk \in 0 .. versions /\ stamp \in 0 .. versions
    /\ reading \in [FileReads -> 0 .. versions]
    /\ change \in {NoChange, [at |-> "record"]}
                     \cup [at : {"plan"}, op : {"write", "edit"}]
                     \cup [at : {"rename"}, op : {"write", "edit"}, before : 0 .. versions]
    /\ known \subseteq 1 .. versions

\* What a read got is what is still there; a change that goes on was allowed, and what
\* it starts from is what it replaces; and, but for a change that was not recorded yet,
\* the tracker's stamp is the file's just when the model knows what it holds.
FileInv ==
    /\ FileTypeOK
    /\ unseen = {}
    /\ \A r \in FileReads : reading[r] # Absent => reading[r] = disk /\ change = NoChange
    /\ change.at \in {"plan", "rename"} => disk = Absent \/ disk \in known
    /\ change.at = "rename" =>
           change.before = disk /\ (change.op = "edit" => disk # Absent)
    /\ change.at = "record" => disk \in known
    /\ change.at # "record" /\ disk # Absent => (disk \in known <=> stamp = disk)

LEMMA FileInvInit == ASSUME FileInit PROVE FileInv
BY DEF FileInit, FileInv, FileTypeOK, Absent, NoStamp, NoChange

LEMMA FileStep ==
    ASSUME Touches \subseteq {"between"}, FileInv, [FileNext]_fileVars
    PROVE  FileInv'
<1> USE DEF FileInv, FileTypeOK, Absent, NoStamp, NoChange
<1>1. CASE OthersWrite
  <2>1. Phase = "between" BY <1>1 DEF OthersWrite, Phase
  <2>2. change = NoChange /\ \A r \in FileReads : reading[r] = Absent
    BY <2>1 DEF Phase
  <2>3. versions' = versions + 1 /\ disk' \in {Absent, versions + 1} /\ versions + 1 \notin known
        /\ UNCHANGED <<stamp, reading, change, known, unseen>>
    BY <1>1 DEF OthersWrite
  <2>4. FileTypeOK' BY <2>3
  <2>5. QED BY <2>2, <2>3, <2>4
<1>2. ASSUME NEW r \in FileReads, OpenFile(r) PROVE FileInv'
  BY <1>2 DEF OpenFile
<1>3. ASSUME NEW r \in FileReads, RecordRead(r) PROVE FileInv'
  <2>1. reading[r] = disk /\ change = NoChange /\ disk # Absent BY <1>3 DEF RecordRead
  <2>2. FileTypeOK' BY <1>3, <2>1 DEF RecordRead, Recorded
  <2>3. QED BY <1>3, <2>1, <2>2 DEF RecordRead, Recorded
<1>4. CASE ResetTracker
  <2>1. change = NoChange BY <1>4 DEF ResetTracker, Phase
  <2>2. QED BY <1>4, <2>1 DEF ResetTracker
<1>5. ASSUME NEW op \in {"write", "edit"}, BeginChange(op) PROVE FileInv'
  <2>1. change = NoChange /\ \A r \in FileReads : reading[r] = Absent
    BY <1>5 DEF BeginChange, Phase
  <2>2. QED BY <1>5, <2>1 DEF BeginChange, Allowed
<1>6. CASE PlanChange
  <2>1. change \in [at : {"plan"}, op : {"write", "edit"}] BY <1>6 DEF PlanChange
  <2>2. \A r \in FileReads : reading[r] = Absent BY <2>1
  <2>3. QED BY <1>6, <2>1, <2>2 DEF PlanChange
<1>7. CASE RenameOver
  <2>1. change \in [at : {"rename"}, op : {"write", "edit"}, before : 0 .. versions]
    BY <1>7 DEF RenameOver
  <2>2. \A r \in FileReads : reading[r] = Absent BY <2>1
  <2>3. known' = known \cup {versions + 1} /\ unseen' = {} BY <1>7, <2>1 DEF RenameOver
  <2>4. QED BY <1>7, <2>2, <2>3 DEF RenameOver
<1>8. CASE ChangeFails
  BY <1>8 DEF ChangeFails
<1>9. CASE RecordChange
  <2>1. \A r \in FileReads : reading[r] = Absent BY <1>9 DEF RecordChange
  <2>2. QED BY <1>9, <2>1 DEF RecordChange, Recorded
<1>10. CASE UNCHANGED fileVars
  BY <1>10 DEF fileVars
<1>11. QED
  BY <1>1, <1>2, <1>3, <1>4, <1>5, <1>6, <1>7, <1>8, <1>9, <1>10 DEF FileNext

\* The tools that change a file refuse just the changes of what the model has not seen,
\* however often others write between the calls (tool/file, ReadTracker).  Writes while
\* a read or a change is under way are excluded: with those it is false (see the run
\* unseen_overwrite).
THEOREM TrackerRefusesJustTheUnseen ==
    ASSUME Touches \subseteq {"between"} PROVE FileSpec => []RefusesJustTheUnseen
<1>1. FileInv /\ [FileNext]_fileVars => FileInv' BY FileStep
<1>2. FileInv => RefusesJustTheUnseen
  BY DEF FileInv, RefusesJustTheUnseen, NothingUnseenIsOverwritten, Phase, Allowed, NoChange, Absent
<1>3. QED BY FileInvInit, <1>1, <1>2, PTL DEF FileSpec

-----------------------------------------------------------------------------
(* A round of tool calls *)

Places == {"spawned", "running", "stored", "sent", "ended"}
Ends == {"none", "result", "stop"}

\* The calls whose index is in the channel, and those whose result was emitted.
Queued == {finished[k] : k \in DOMAIN finished}
Told == {emitted[k][1] : k \in DOMAIN emitted}

RoundTypes ==
    /\ calls \in Seq(Kinds) \ {<<>>}
    /\ worker \in [DOMAIN calls -> Places] /\ results \in [DOMAIN calls -> Ends]
    /\ holding \subseteq DOMAIN calls /\ finished \in Seq(DOMAIN calls)
    /\ emitted \in Seq((DOMAIN calls) \X Ends)
    /\ batch \in Nat /\ collected \in Nat

\* A call is done when its index was sent, which the batches before the one that runs
\* are, and not begun in the batches after it.
CallInPlace(i) ==
    /\ worker[i] \in {"sent", "ended"} <=> i \in Queued \cup Told
    /\ results[i] # "none" <=> worker[i] \in {"stored", "sent", "ended"}
    /\ worker[i] \in {"running", "stored"} => i \in holding
    /\ i \in holding => BatchOf(i) = batch
    /\ BatchOf(i) < batch => i \in Told
    /\ BatchOf(i) > batch => worker[i] = "spawned"
    /\ round # "batch" => i \in Told

ToldOnce ==
    /\ Queued \cap Told = {}
    /\ \A k, l \in DOMAIN finished : finished[k] = finished[l] => k = l
    /\ \A k, l \in DOMAIN emitted : emitted[k][1] = emitted[l][1] => k = l
    /\ \A k \in DOMAIN emitted : emitted[k][2] = results[emitted[k][1]]

InBatches ==
    /\ \A i \in DOMAIN calls : CallInPlace(i)
    /\ ToldOnce
    /\ round = "batch" => collected = Cardinality(Told \cap Batch(batch))
    /\ MaxParallelTools = 0 \/ Cardinality(holding) <= MaxParallelTools
    /\ round \notin {"batch", "append"} => session = results

CutOff ==
    /\ round = "truncated" /\ finished = <<>>
    /\ \A i \in DOMAIN calls : worker[i] = "spawned" /\ results[i] = "result"
    /\ emitted = [i \in DOMAIN calls |-> <<i, "result">>]
    /\ session = results

RoundInv == RoundTypes /\ (InBatches \/ CutOff)

-----------------------------------------------------------------------------
(* The batches of a response *)

BatchesUpTo(i) == {j \in 1 .. i : NewBatch(j)}

LEMMA BatchesAreFinite ==
    ASSUME NEW i \in Nat
    PROVE  IsFiniteSet(BatchesUpTo(i)) /\ Cardinality(BatchesUpTo(i)) \in Nat
<1>1. IsFiniteSet(1 .. i) BY FS_Interval
<1>2. BatchesUpTo(i) \in SUBSET (1 .. i) BY DEF BatchesUpTo
<1>3. IsFiniteSet(BatchesUpTo(i)) BY <1>1, <1>2, FS_Subset
<1>4. QED BY <1>3, FS_CardinalityType

LEMMA BatchIsPositive == ASSUME NEW i \in Nat PROVE BatchOf(i) \in Nat /\ BatchOf(i) > 0
<1>1. BatchOf(i) = Cardinality(BatchesUpTo(i)) + 1 BY DEF BatchOf, BatchesUpTo
<1>2. QED BY <1>1, BatchesAreFinite

\* The batches are in the order of the calls.
LEMMA BatchesInOrder ==
    ASSUME NEW i \in Nat, NEW j \in Nat, i <= j PROVE BatchOf(i) <= BatchOf(j)
<1>1. /\ BatchOf(i) = Cardinality(BatchesUpTo(i)) + 1
      /\ BatchOf(j) = Cardinality(BatchesUpTo(j)) + 1
  BY DEF BatchOf, BatchesUpTo
<1>2. BatchesUpTo(i) \in SUBSET BatchesUpTo(j) BY DEF BatchesUpTo
<1>3. Cardinality(BatchesUpTo(i)) <= Cardinality(BatchesUpTo(j))
  BY <1>2, BatchesAreFinite, FS_Subset
<1>4. QED BY <1>1, <1>3, BatchesAreFinite

\* No call shares its batch with an exclusive one.
LEMMA ExclusiveBatch ==
    ASSUME NEW i \in Nat, NEW j \in Nat, 1 <= i, i < j,
           calls[i] = "exclusive" \/ calls[j] = "exclusive"
    PROVE  BatchOf(i) < BatchOf(j)
<1> DEFINE k == IF calls[j] = "exclusive" THEN j ELSE i + 1
<1>1. k \in 1 .. j /\ k > i OBVIOUS
<1>2. NewBatch(k) 
  <2>1. CASE calls[j] = "exclusive" BY <2>1 DEF NewBatch
  <2>2. CASE calls[j] # "exclusive"
    <3>1. k = i + 1 /\ k - 1 = i /\ calls[i] = "exclusive" BY <2>2
    <3>2. calls[k - 1] = "exclusive" BY <3>1
    <3>3. QED BY <1>1, <3>2 DEF NewBatch
  <2>3. QED BY <2>1, <2>2
<1> HIDE DEF k
<1>3. k \in BatchesUpTo(j) /\ k \notin BatchesUpTo(i) BY <1>1, <1>2 DEF BatchesUpTo
<1>4. BatchesUpTo(i) \cup {k} \in SUBSET BatchesUpTo(j) BY <1>3 DEF BatchesUpTo
<1>5. Cardinality(BatchesUpTo(i) \cup {k}) = Cardinality(BatchesUpTo(i)) + 1
  BY <1>3, BatchesAreFinite, FS_AddElement
<1>6. Cardinality(BatchesUpTo(i) \cup {k}) <= Cardinality(BatchesUpTo(j))
  BY <1>4, BatchesAreFinite, FS_Subset
<1>7. /\ BatchOf(i) = Cardinality(BatchesUpTo(i)) + 1
      /\ BatchOf(j) = Cardinality(BatchesUpTo(j)) + 1
  BY DEF BatchOf, BatchesUpTo
<1>8. QED BY <1>5, <1>6, <1>7, BatchesAreFinite

\* The response does not change.
LEMMA BatchesStay ==
    ASSUME UNCHANGED calls
    PROVE  /\ \A i \in DOMAIN calls : BatchOf(i)' = BatchOf(i)
           /\ \A b : Batch(b)' = Batch(b)
<1>1. \A i : BatchOf(i)' = BatchOf(i) BY DEF BatchOf, NewBatch
<1>2. QED BY <1>1 DEF Batch

LEMMA CallsAreFinite ==
    ASSUME RoundTypes
    PROVE  /\ DOMAIN calls = 1 .. Len(calls) /\ Len(calls) \in Nat /\ Len(calls) > 0
           /\ IsFiniteSet(DOMAIN calls)
           /\ \A S : S \subseteq DOMAIN calls => IsFiniteSet(S) /\ Cardinality(S) \in Nat
<1>1. DOMAIN calls = 1 .. Len(calls) /\ Len(calls) \in Nat /\ Len(calls) > 0 BY DEF RoundTypes
<1>2. IsFiniteSet(DOMAIN calls) BY <1>1, FS_Interval
<1>3. ASSUME NEW S, S \subseteq DOMAIN calls PROVE IsFiniteSet(S) /\ Cardinality(S) \in Nat
  <2>1. IsFiniteSet(S) BY <1>2, <1>3, FS_Subset
  <2>2. QED BY <2>1, FS_CardinalityType
<1>4. QED BY <1>1, <1>2, <1>3

-----------------------------------------------------------------------------
(* What the invariant says of a state *)

\* A round that is over has told as many results as it has calls.
LEMMA AllAreTold ==
    ASSUME RoundTypes, ToldOnce, DOMAIN calls \subseteq Told
    PROVE  Len(emitted) = Len(calls)
<1> DEFINE S == 1 .. Len(emitted)
           T == 1 .. Len(calls)
           f == [k \in S |-> emitted[k][1]]
<1>1. /\ Len(emitted) \in Nat /\ Len(calls) \in Nat
      /\ DOMAIN emitted = S /\ DOMAIN calls = T
  BY DEF RoundTypes
<1>2. \A k \in S : emitted[k] \in (DOMAIN calls) \X Ends BY <1>1 DEF RoundTypes
<1>3. f \in [S -> T] BY <1>1, <1>2
<1>4. \A k, l \in S : f[k] = f[l] => k = l BY <1>1 DEF ToldOnce
<1>5. \A i \in T : \E k \in S : f[k] = i BY <1>1 DEF Told
<1>6. f \in Bijection(S, T)
  BY <1>3, <1>4, <1>5 DEF Bijection, Injection, Surjection, IsInjective
<1>7. ExistsBijection(S, T) BY <1>6 DEF ExistsBijection
<1>8. IsFiniteSet(S) /\ Cardinality(S) = Len(emitted) /\ Cardinality(T) = Len(calls)
  <2>1. \A n \in Nat : IsFiniteSet(1 .. n) /\ Cardinality(1 .. n) = n BY FS_Interval
  <2>2. QED BY <1>1, <2>1
<1>9. QED BY <1>7, <1>8, FS_Bijection

LEMMA RunsAlone == ASSUME RoundTypes, InBatches PROVE ExclusiveRunsAlone
<1> SUFFICES ASSUME NEW i \in Running, calls[i] = "exclusive"
             PROVE  /\ Running = {i}
                    /\ \A j \in DOMAIN calls : j < i => results[j] # "none"
                    /\ \A j \in DOMAIN calls : j > i => results[j] = "none"
  BY DEF ExclusiveRunsAlone
<1>1. i \in DOMAIN calls /\ worker[i] \in {"running", "stored"} BY DEF Running
<1>2. BatchOf(i) = batch BY <1>1 DEF InBatches, CallInPlace
<1>3. \A j \in DOMAIN calls : BatchOf(j) \in Nat BY CallsAreFinite, BatchIsPositive
<1>4. ASSUME NEW j \in DOMAIN calls, j < i
      PROVE  results[j] # "none" /\ j \notin Running
  <2>1. BatchOf(j) < batch BY <1>1, <1>2, <1>4, CallsAreFinite, ExclusiveBatch
  <2>2. worker[j] \in {"sent", "ended"} BY <2>1 DEF InBatches, CallInPlace
  <2>3. QED BY <2>2 DEF InBatches, CallInPlace, Running
<1>5. ASSUME NEW j \in DOMAIN calls, j > i
      PROVE  results[j] = "none" /\ j \notin Running
  <2>1. BatchOf(j) > batch BY <1>1, <1>2, <1>3, <1>5, CallsAreFinite, ExclusiveBatch
  <2>2. worker[j] = "spawned" BY <2>1 DEF InBatches, CallInPlace
  <2>3. QED BY <2>2 DEF InBatches, CallInPlace, Running
<1>6. Running = {i}
  <2>1. \A j \in DOMAIN calls : j = i \/ j < i \/ j > i BY <1>1, CallsAreFinite
  <2>2. Running \subseteq DOMAIN calls BY DEF Running
  <2>3. QED BY <1>4, <1>5, <2>1, <2>2
<1>7. QED BY <1>4, <1>5, <1>6

LEMMA RoundInvGives == ASSUME RoundConstants, RoundInv PROVE RoundIsWhole
<1> USE DEF RoundInv
<1>1. CASE InBatches
  <2>1. ExclusiveRunsAlone BY <1>1, RunsAlone
  <2>2. MaxParallelTools = 0 \/ Cardinality(Running) <= MaxParallelTools
    <3>1. Running \in SUBSET holding BY <1>1 DEF Running, InBatches, CallInPlace
    <3>2. IsFiniteSet(holding) /\ Cardinality(holding) \in Nat
      BY CallsAreFinite DEF RoundTypes
    <3>3. Running \subseteq DOMAIN calls BY DEF Running
    <3>4. Cardinality(Running) \in Nat BY <3>3, CallsAreFinite
    <3>5. Cardinality(Running) <= Cardinality(holding) BY <3>1, <3>2, FS_Subset
    <3>6. QED BY <1>1, <3>2, <3>4, <3>5 DEF InBatches, RoundConstants
  <2>3. ASSUME NEW k \in DOMAIN emitted
        PROVE  /\ emitted[k][2] # "none" /\ emitted[k][2] = results[emitted[k][1]]
               /\ \A l \in DOMAIN emitted : emitted[l][1] = emitted[k][1] => l = k
    <3>1. emitted[k][1] \in Told BY DEF Told
    <3>2. emitted[k] \in (DOMAIN calls) \X Ends BY DEF RoundTypes
    <3>3. emitted[k][1] \in DOMAIN calls BY <3>2
    <3>4. results[emitted[k][1]] # "none" BY <1>1, <3>1, <3>3 DEF InBatches, CallInPlace
    <3>5. QED BY <1>1, <3>4 DEF InBatches, ToldOnce
  <2>4. ASSUME round \notin {"batch", "append"}
        PROVE  /\ Len(emitted) = Len(calls) /\ Len(session) = Len(calls)
               /\ \A i \in DOMAIN calls : session[i] = results[i] /\ session[i] # "none"
    <3>1. DOMAIN calls \subseteq Told BY <1>1, <2>4 DEF InBatches, CallInPlace
    <3>2. session = results BY <1>1, <2>4 DEF InBatches
    <3>3. Len(emitted) = Len(calls) BY <1>1, <3>1, AllAreTold DEF InBatches
    <3>4. Len(session) = Len(calls) BY <3>2, CallsAreFinite DEF RoundTypes
    <3>5. \A i \in DOMAIN calls : results[i] # "none"
      BY <1>1, <3>1 DEF InBatches, CallInPlace
    <3>6. QED BY <3>2, <3>3, <3>4, <3>5
  <2>5. QED BY <2>1, <2>2, <2>3, <2>4 DEF RoundIsWhole
<1>2. CASE CutOff
  <2>1. Running = {} BY <1>2 DEF Running, CutOff
  <2>2. ExclusiveRunsAlone BY <2>1 DEF ExclusiveRunsAlone
  <2>3. Cardinality(Running) = 0 BY <2>1, FS_EmptySet
  <2>4. DOMAIN emitted = DOMAIN calls /\ \A k \in DOMAIN calls : emitted[k] = <<k, "result">>
    BY <1>2 DEF CutOff
  <2>5. \A i \in DOMAIN calls : session[i] = results[i] /\ session[i] = "result"
    BY <1>2 DEF CutOff
  <2>6. Len(emitted) = Len(calls) /\ Len(session) = Len(calls)
    BY <1>2, <2>4, CallsAreFinite DEF RoundTypes, CutOff
  <2>7. QED BY <2>2, <2>3, <2>4, <2>5, <2>6 DEF RoundIsWhole, RoundConstants
<1>3. QED BY <1>1, <1>2

-----------------------------------------------------------------------------
(* The steps *)

LEMMA RoundInvInit == ASSUME RoundConstants, RoundInit PROVE RoundInv
<1>1. calls \in Seq(Kinds) /\ calls # <<>>
  BY DEF RoundInit, RoundConstants, BoundedSeq, SeqOf
<1>2. RoundTypes BY <1>1 DEF RoundInit, RoundTypes, Places, Ends
<1>3. Told = {} /\ Queued = {} BY DEF RoundInit, Told, Queued
<1>4. ASSUME NEW i \in DOMAIN calls PROVE CallInPlace(i)
  <2>1. BatchOf(i) \in Nat /\ BatchOf(i) > 0 BY <1>2, CallsAreFinite, BatchIsPositive
  <2>2. QED BY <1>3, <2>1 DEF RoundInit, CallInPlace
<1>5. ToldOnce BY <1>3 DEF RoundInit, ToldOnce
<1>6. collected = Cardinality(Told \cap Batch(batch)) BY <1>3, FS_EmptySet DEF RoundInit
<1>7. MaxParallelTools = 0 \/ Cardinality(holding) <= MaxParallelTools
  BY FS_EmptySet DEF RoundInit, RoundConstants
<1>8. QED BY <1>2, <1>4, <1>5, <1>6, <1>7 DEF RoundInit, RoundInv, InBatches

LEMMA TruncatedStep == ASSUME RoundInv, Truncated PROVE RoundInv'
<1> USE DEF RoundInv, Truncated
<1>1. InBatches BY DEF CutOff
<1>2. DOMAIN calls = 1 .. Len(calls) /\ Len(calls) \in Nat BY CallsAreFinite
<1>3. emitted' \in Seq((DOMAIN calls) \X Ends)
  <2>1. emitted' \in [1 .. Len(calls) -> (DOMAIN calls) \X Ends] BY <1>2 DEF Ends
  <2>2. QED BY <1>2, <2>1, SeqDef
<1>4. RoundTypes' BY <1>3 DEF RoundTypes, Ends
<1>5. finished = <<>>
  <2>1. Queued = {}
    <3>1. Queued \subseteq DOMAIN calls BY DEF RoundTypes, Queued
    <3>2. \A i \in DOMAIN calls : i \notin Queued BY <1>1 DEF InBatches, CallInPlace
    <3>3. QED BY <3>1, <3>2
  <2>2. ASSUME finished # <<>> PROVE finished[1] \in Queued
    <3>1. 1 \in DOMAIN finished BY <2>2 DEF RoundTypes
    <3>2. QED BY <3>1 DEF Queued
  <2>3. QED BY <2>1, <2>2
<1>6. CutOff' BY <1>5 DEF CutOff
<1>7. QED BY <1>4, <1>6

\* The goroutine of a call that moves without its result being told or a batch ending.
LEMMA OneCallMoves ==
    ASSUME RoundTypes, InBatches, RoundTypes', NEW i \in DOMAIN calls, NEW to,
           worker' = [worker EXCEPT ![i] = to],
           UNCHANGED <<calls, round, batch, collected, emitted, session>>,
           \A j \in (DOMAIN calls) \ {i} :
               /\ results'[j] = results[j]
               /\ j \in holding' <=> j \in holding
               /\ j \in Queued' <=> j \in Queued,
           CallInPlace(i)', ToldOnce', round \notin {"batch", "append"} => results' = results,
           MaxParallelTools = 0 \/ Cardinality(holding') <= MaxParallelTools
    PROVE  RoundInv'
<1>1. Told' = Told BY DEF Told
<1>2. /\ \A j \in DOMAIN calls : BatchOf(j)' = BatchOf(j)
      /\ \A b : Batch(b)' = Batch(b)
  BY BatchesStay
<1>3. ASSUME NEW j \in DOMAIN calls PROVE CallInPlace(j)'
  <2>1. CASE j = i BY <2>1
  <2>2. CASE j # i
    <3>1. worker'[j] = worker[j] /\ BatchOf(j)' = BatchOf(j) BY <1>2, <2>2 DEF RoundTypes
    <3>2. CallInPlace(j) BY DEF InBatches
    <3>3. /\ results'[j] = results[j]
          /\ j \in holding' <=> j \in holding
          /\ j \in Queued' <=> j \in Queued
      BY <2>2
    <3>4. QED BY <1>1, <3>1, <3>2, <3>3 DEF CallInPlace
  <2>3. QED BY <2>1, <2>2
<1>4. (Told \cap Batch(batch))' = Told \cap Batch(batch) BY <1>1, <1>2
<1>5. round' = "batch" => collected' = Cardinality(Told \cap Batch(batch))'
  BY <1>4 DEF InBatches
<1>6. InBatches' BY <1>3, <1>5 DEF InBatches
<1>7. QED BY <1>6 DEF RoundInv

LEMMA TakeSlotStep ==
    ASSUME RoundConstants, RoundInv, NEW i \in DOMAIN calls, TakeSlot(i) PROVE RoundInv'
<1> USE DEF RoundInv, TakeSlot
<1>1. InBatches BY DEF CutOff
<1>2. RoundTypes' BY DEF RoundTypes, Places
<1>3. Queued' = Queued /\ Told' = Told BY DEF Queued, Told
<1>4. worker'[i] = "running" BY DEF RoundTypes
<1>5. CallInPlace(i)'
  <2>1. BatchOf(i) = batch BY DEF Batch
  <2>2. BatchOf(i)' = BatchOf(i) /\ batch' = batch BY BatchesStay
  <2>3. batch \in Nat BY DEF RoundTypes
  <2>4. QED BY <1>1, <1>3, <1>4, <2>1, <2>2, <2>3 DEF InBatches, CallInPlace
<1>6. ToldOnce' BY <1>1, <1>3 DEF InBatches, ToldOnce
<1>7. MaxParallelTools = 0 \/ Cardinality(holding') <= MaxParallelTools
  <2>1. IsFiniteSet(holding) /\ Cardinality(holding) \in Nat BY CallsAreFinite DEF RoundTypes
  <2>2. Cardinality(holding \cup {i}) = IF i \in holding THEN Cardinality(holding) ELSE Cardinality(holding) + 1
    BY <2>1, FS_AddElement
  <2>3. QED BY <2>1, <2>2 DEF HasSlot, RoundConstants
<1>8. QED BY <1>1, <1>2, <1>3, <1>5, <1>6, <1>7, OneCallMoves

LEMMA ToolReturnsStep ==
    ASSUME RoundInv, NEW i \in DOMAIN calls, ToolReturns(i) PROVE RoundInv'
<1> USE DEF RoundInv
<1>1. PICK r \in {"result", "stop"} : results' = [results EXCEPT ![i] = r] BY DEF ToolReturns
<1>2. InBatches BY DEF CutOff, ToolReturns
<1>3. RoundTypes' BY <1>1 DEF RoundTypes, Places, Ends, ToolReturns
<1>4. Queued' = Queued /\ Told' = Told BY DEF Queued, Told, ToolReturns
<1>5. worker'[i] = "stored" /\ results'[i] # "none" BY <1>1 DEF RoundTypes, ToolReturns
<1>6. BatchOf(i)' = BatchOf(i) /\ batch' = batch BY BatchesStay DEF ToolReturns
<1>7. CallInPlace(i) /\ i \in holding /\ BatchOf(i) = batch /\ i \notin Told
  BY <1>2 DEF InBatches, CallInPlace, ToolReturns
<1>8. CallInPlace(i)' BY <1>4, <1>5, <1>6, <1>7 DEF CallInPlace, ToolReturns, RoundTypes
<1>9. ToldOnce'
  <2>1. ASSUME NEW k \in DOMAIN emitted PROVE emitted[k][2] = results'[emitted[k][1]]
    <3>1. emitted[k][1] \in Told BY DEF Told
    <3>2. emitted[k] \in (DOMAIN calls) \X Ends BY DEF RoundTypes
    <3>3. emitted[k][1] \in DOMAIN calls /\ emitted[k][1] # i BY <1>7, <3>1, <3>2
    <3>4. results'[emitted[k][1]] = results[emitted[k][1]] BY <1>1, <3>3 DEF RoundTypes
    <3>5. QED BY <1>2, <3>4 DEF InBatches, ToldOnce
  <2>2. QED BY <1>2, <1>4, <2>1 DEF InBatches, ToldOnce, ToolReturns
<1>10. round = "batch" BY <1>7 DEF CallInPlace
<1>11. \A j \in (DOMAIN calls) \ {i} : results'[j] = results[j] BY <1>1 DEF RoundTypes
<1>12. MaxParallelTools = 0 \/ Cardinality(holding') <= MaxParallelTools
  BY <1>2 DEF InBatches, ToolReturns
<1>13. QED BY <1>2, <1>3, <1>4, <1>8, <1>9, <1>10, <1>11, <1>12, OneCallMoves DEF ToolReturns

LEMMA SendIndexStep ==
    ASSUME RoundInv, NEW i \in DOMAIN calls, SendIndex(i) PROVE RoundInv'
<1> USE DEF RoundInv
<1>1. worker[i] = "stored" BY DEF SendIndex, MaySend
<1>2. InBatches BY <1>1 DEF CutOff
<1>3. finished \in Seq(DOMAIN calls) /\ finished' = Append(finished, i)
  BY DEF RoundTypes, SendIndex
<1>4. /\ finished' \in Seq(DOMAIN calls) /\ Len(finished') = Len(finished) + 1
      /\ \A k \in 1 .. Len(finished) : finished'[k] = finished[k]
      /\ finished'[Len(finished) + 1] = i
      /\ DOMAIN finished = 1 .. Len(finished) /\ DOMAIN finished' = 1 .. Len(finished) + 1
      /\ Len(finished) \in Nat
  BY <1>3
<1>5. RoundTypes' BY <1>4 DEF RoundTypes, Places, SendIndex
<1>6. Queued' = Queued \cup {i} /\ Told' = Told
  <2>1. Queued' = {finished'[k] : k \in 1 .. Len(finished) + 1} BY <1>4 DEF Queued
  <2>2. Queued = {finished[k] : k \in 1 .. Len(finished)} BY <1>4 DEF Queued
  <2>3. Told' = Told BY DEF Told, SendIndex
  <2>4. QED BY <1>4, <2>1, <2>2, <2>3
<1>7. CallInPlace(i) /\ i \notin Queued /\ i \notin Told /\ BatchOf(i) = batch
  BY <1>1, <1>2 DEF InBatches, CallInPlace
<1>8. worker'[i] = "sent" BY DEF RoundTypes, SendIndex
<1>9. BatchOf(i)' = BatchOf(i) /\ batch' = batch BY BatchesStay DEF SendIndex
<1>10. CallInPlace(i)' BY <1>1, <1>6, <1>7, <1>8, <1>9 DEF CallInPlace, SendIndex, RoundTypes
<1>11. ToldOnce'
  <2>1. \A k \in 1 .. Len(finished) : finished[k] # i BY <1>4, <1>7 DEF Queued
  <2>2. \A k, l \in DOMAIN finished' : finished'[k] = finished'[l] => k = l
    BY <1>2, <1>4, <2>1 DEF InBatches, ToldOnce
  <2>3. QED BY <1>2, <1>6, <1>7, <2>2 DEF InBatches, ToldOnce, SendIndex
<1>12. MaxParallelTools = 0 \/ Cardinality(holding') <= MaxParallelTools
  BY <1>2 DEF InBatches, SendIndex
<1>13. QED BY <1>2, <1>5, <1>6, <1>10, <1>11, <1>12, OneCallMoves DEF SendIndex

LEMMA ReleaseSlotStep ==
    ASSUME RoundConstants, RoundInv, NEW i \in DOMAIN calls, ReleaseSlot(i) PROVE RoundInv'
<1> USE DEF RoundInv, ReleaseSlot
<1>1. InBatches BY DEF CutOff
<1>2. RoundTypes' BY DEF RoundTypes, Places
<1>3. Queued' = Queued /\ Told' = Told BY DEF Queued, Told
<1>4. worker'[i] = "ended" BY DEF RoundTypes
<1>5. BatchOf(i)' = BatchOf(i) /\ batch' = batch BY BatchesStay
<1>6. CallInPlace(i) /\ BatchOf(i) = batch BY <1>1 DEF InBatches, CallInPlace
<1>7. CallInPlace(i)' BY <1>3, <1>4, <1>5, <1>6 DEF CallInPlace, RoundTypes
<1>8. ToldOnce' BY <1>1, <1>3 DEF InBatches, ToldOnce
<1>9. MaxParallelTools = 0 \/ Cardinality(holding') <= MaxParallelTools
  <2>1. IsFiniteSet(holding) /\ Cardinality(holding) \in Nat BY CallsAreFinite DEF RoundTypes
  <2>2. holding' \in SUBSET holding OBVIOUS
  <2>3. IsFiniteSet(holding') /\ Cardinality(holding') <= Cardinality(holding) BY <2>1, <2>2, FS_Subset
  <2>4. Cardinality(holding') \in Nat BY <2>3, FS_CardinalityType
  <2>5. QED BY <1>1, <2>1, <2>3, <2>4 DEF InBatches, RoundConstants
<1>10. QED BY <1>1, <1>2, <1>3, <1>7, <1>8, <1>9, OneCallMoves

LEMMA EmitResultStep == ASSUME RoundInv, EmitResult PROVE RoundInv'
<1> USE DEF RoundInv, EmitResult
<1>1. InBatches BY DEF CutOff
<1> DEFINE i == Head(finished)
           e == <<i, results[i]>>
           n == Len(finished)
<1>2. /\ n \in Nat /\ n > 0 /\ DOMAIN finished = 1 .. n /\ i = finished[1]
      /\ finished' \in Seq(DOMAIN calls) /\ DOMAIN finished' = 1 .. n - 1
      /\ \A k \in 1 .. n - 1 : finished'[k] = finished[k + 1]
  BY DEF RoundTypes
<1>3. i \in DOMAIN calls BY DEF RoundTypes
<1>4. results[i] \in Ends BY <1>3 DEF RoundTypes
<1>5. e \in (DOMAIN calls) \X Ends /\ e[1] = i /\ e[2] = results[i] BY <1>3, <1>4
<1> HIDE DEF i, e, n
<1>6. emitted \in Seq((DOMAIN calls) \X Ends) /\ emitted' = Append(emitted, e)
  BY DEF RoundTypes, i, e
<1>7. /\ emitted' \in Seq((DOMAIN calls) \X Ends) /\ Len(emitted) \in Nat
      /\ DOMAIN emitted = 1 .. Len(emitted) /\ DOMAIN emitted' = 1 .. Len(emitted) + 1
      /\ \A k \in 1 .. Len(emitted) : emitted'[k] = emitted[k]
      /\ emitted'[Len(emitted) + 1] = e
  BY <1>5, <1>6
<1>8. RoundTypes' BY <1>2, <1>7 DEF RoundTypes
<1>9. \A k, l \in 1 .. n : finished[k] = finished[l] => k = l
  BY <1>1, <1>2 DEF InBatches, ToldOnce
<1>10. Queued = {finished[k] : k \in 1 .. n} /\ Queued' = {finished'[k] : k \in 1 .. n - 1}
  BY <1>2 DEF Queued
<1>11. i \in Queued BY <1>2, <1>10
<1>12. Queued' = Queued \ {i}
  <2>1. ASSUME NEW x \in Queued' PROVE x \in Queued \ {i}
    <3>1. PICK k \in 1 .. n - 1 : x = finished'[k] BY <1>10
    <3>2. k + 1 \in 1 .. n /\ k + 1 # 1 /\ x = finished[k + 1] BY <1>2, <3>1
    <3>3. QED BY <1>2, <1>9, <1>10, <3>2
  <2>2. ASSUME NEW x \in Queued \ {i} PROVE x \in Queued'
    <3>1. PICK k \in 1 .. n : x = finished[k] BY <1>10
    <3>2. k # 1 BY <1>2, <3>1
    <3>3. k - 1 \in 1 .. n - 1 /\ (k - 1) + 1 = k BY <1>2, <3>2
    <3>4. finished'[k - 1] = x BY <1>2, <3>1, <3>3
    <3>5. QED BY <1>10, <3>3, <3>4
  <2>3. QED BY <2>1, <2>2
<1>13. Told = {emitted[k][1] : k \in 1 .. Len(emitted)}
       /\ Told' = {emitted'[k][1] : k \in 1 .. Len(emitted) + 1}
  BY <1>7 DEF Told
<1>14. Told' = Told \cup {i}
  <2>1. 1 .. Len(emitted) + 1 = (1 .. Len(emitted)) \cup {Len(emitted) + 1} BY <1>7
  <2>2. emitted'[Len(emitted) + 1][1] = i BY <1>5, <1>7
  <2>3. \A k \in 1 .. Len(emitted) : emitted'[k][1] = emitted[k][1] BY <1>7
  <2>4. QED BY <1>13, <2>1, <2>2, <2>3
<1>15. i \notin Told BY <1>1, <1>11 DEF InBatches, ToldOnce
<1>16. /\ \A j \in DOMAIN calls : BatchOf(j)' = BatchOf(j)
       /\ \A b : Batch(b)' = Batch(b)
  BY BatchesStay
<1>17. ASSUME NEW j \in DOMAIN calls PROVE CallInPlace(j)'
  <2>1. CallInPlace(j) BY <1>1 DEF InBatches
  <2>2. BatchOf(j)' = BatchOf(j) BY <1>16
  <2>3. j \in Queued' \cup Told' <=> j \in Queued \cup Told BY <1>11, <1>12, <1>14
  <2>4. j \in Told => j \in Told' BY <1>14
  <2>5. QED BY <2>1, <2>2, <2>3, <2>4 DEF CallInPlace
<1>18. ToldOnce'
  <2>1. Queued' \cap Told' = {} BY <1>1, <1>12, <1>14 DEF InBatches, ToldOnce
  <2>2. \A k, l \in DOMAIN finished' : finished'[k] = finished'[l] => k = l
    <3>1. SUFFICES ASSUME NEW k \in 1 .. n - 1, NEW l \in 1 .. n - 1, finished'[k] = finished'[l]
                   PROVE  k = l
      BY <1>2
    <3>2. /\ k + 1 \in 1 .. n /\ l + 1 \in 1 .. n
          /\ finished[k + 1] = finished[l + 1]
      BY <1>2, <3>1
    <3>3. k + 1 = l + 1 BY <1>9, <3>2
    <3>4. QED BY <3>3
  <2>3. ASSUME NEW k \in DOMAIN emitted, NEW l \in DOMAIN emitted, emitted[k][1] = emitted[l][1]
        PROVE  k = l
    BY <1>1, <2>3 DEF InBatches, ToldOnce
  <2>4. \A k \in DOMAIN emitted : emitted[k][1] # i BY <1>15 DEF Told
  <2>5. \A k, l \in DOMAIN emitted' : emitted'[k][1] = emitted'[l][1] => k = l
    <3>1. ASSUME NEW k \in DOMAIN emitted'
          PROVE  \/ k = Len(emitted) + 1 /\ emitted'[k][1] = i
                 \/ k \in DOMAIN emitted /\ emitted'[k] = emitted[k]
      BY <1>5, <1>7
    <3>2. QED BY <2>3, <2>4, <3>1
  <2>6. \A k \in DOMAIN emitted' : emitted'[k][2] = results'[emitted'[k][1]]
    <3>1. ASSUME NEW k \in DOMAIN emitted'
          PROVE  \/ emitted'[k] = e
                 \/ k \in DOMAIN emitted /\ emitted'[k] = emitted[k]
      BY <1>7
    <3>2. \A k \in DOMAIN emitted : emitted[k][2] = results[emitted[k][1]]
      BY <1>1 DEF InBatches, ToldOnce
    <3>3. QED BY <1>5, <3>1, <3>2
  <2>7. QED BY <2>1, <2>2, <2>5, <2>6 DEF ToldOnce
<1>19. collected' = Cardinality(Told \cap Batch(batch))'
  <2> DEFINE S == Told \cap Batch(batch)
  <2>1. i \in Batch(batch)
    <3>1. CallInPlace(i) /\ worker[i] # "spawned" /\ i \notin Told
      BY <1>1, <1>3, <1>11, <1>15 DEF InBatches, CallInPlace
    <3>2. BatchOf(i) \in Nat /\ batch \in Nat BY <1>3, CallsAreFinite, BatchIsPositive DEF RoundTypes
    <3>3. BatchOf(i) = batch BY <3>1, <3>2 DEF CallInPlace
    <3>4. QED BY <1>3, <3>3 DEF Batch
  <2>2. S' = S \cup {i} BY <1>14, <1>16, <2>1
  <2>3. i \notin S BY <1>15
  <2>4. S \subseteq DOMAIN calls BY DEF Batch
  <2>5. IsFiniteSet(S) BY <2>4, CallsAreFinite
  <2>6. collected = Cardinality(S) BY <1>1 DEF InBatches
  <2> HIDE DEF S
  <2>7. Cardinality(S \cup {i}) = Cardinality(S) + 1 BY <2>3, <2>5, FS_AddElement
  <2>8. Cardinality(S') = collected + 1 BY <2>2, <2>6, <2>7
  <2>9. QED BY <2>8 DEF S
<1>20. InBatches' BY <1>1, <1>17, <1>18, <1>19 DEF InBatches
<1>21. QED BY <1>8, <1>20

\* A batch ends when each of its calls was told: none is in flight.
LEMMA BatchEndsStep == ASSUME RoundConstants, RoundInv, BatchEnds PROVE RoundInv'
<1> USE DEF RoundInv
<1>1. InBatches /\ round = "batch" /\ UNCHANGED <<calls, worker, results, finished, emitted, session>>
  BY DEF CutOff, BatchEnds
<1>2. Told' = Told /\ Queued' = Queued /\ ToldOnce' BY <1>1 DEF InBatches, ToldOnce, Told, Queued
<1>3. Batch(batch) \subseteq Told
  <2>1. Told \cap Batch(batch) \in SUBSET Batch(batch) OBVIOUS
  <2>2. Batch(batch) \subseteq DOMAIN calls BY DEF Batch
  <2>3. IsFiniteSet(Batch(batch)) BY <2>2, CallsAreFinite
  <2>4. Cardinality(Batch(batch)) = Cardinality(Told \cap Batch(batch))
    BY <1>1 DEF InBatches, BatchEnds
  <2>5. Batch(batch) = Told \cap Batch(batch) BY <2>1, <2>3, <2>4, FS_Subset
  <2>6. QED BY <2>5
<1>4. ASSUME NEW j \in DOMAIN calls
      PROVE  /\ BatchOf(j) \in Nat /\ batch \in Nat
             /\ CallInPlace(j) /\ BatchOf(j)' = BatchOf(j)
             /\ BatchOf(j) <= batch => j \in Told
             /\ worker[j] \notin {"running", "stored"}
  <2>1. BatchOf(j) \in Nat /\ batch \in Nat BY CallsAreFinite, BatchIsPositive DEF RoundTypes
  <2>2. CallInPlace(j) BY <1>1 DEF InBatches
  <2>3. BatchOf(j)' = BatchOf(j) BY <1>1, BatchesStay
  <2>4. BatchOf(j) = batch => j \in Told BY <1>3 DEF Batch
  <2>5. BatchOf(j) <= batch => j \in Told BY <2>1, <2>2, <2>4 DEF CallInPlace
  <2>6. worker[j] \notin {"running", "stored"} BY <2>1, <2>2, <2>4 DEF CallInPlace
  <2>7. QED BY <2>1, <2>2, <2>3, <2>5, <2>6
<1>5. RoundTypes' BY DEF RoundTypes, BatchEnds
<1>6. holding' = {} BY DEF BatchEnds
<1>7. MaxParallelTools = 0 \/ Cardinality(holding') <= MaxParallelTools
  BY <1>6, FS_EmptySet DEF RoundConstants
<1>8. CASE batch = BatchOf(Len(calls))
  <2>1. round' = "append" /\ batch' = batch BY <1>8 DEF BatchEnds
  <2>2. ASSUME NEW j \in DOMAIN calls PROVE CallInPlace(j)'
    <3>1. BatchOf(j) <= batch BY <1>8, CallsAreFinite, BatchesInOrder
    <3>2. j \in Told' BY <1>2, <1>4, <3>1
    <3>3. QED BY <1>1, <1>2, <1>4, <1>6, <2>1, <3>2 DEF CallInPlace
  <2>3. InBatches' BY <1>1, <1>2, <1>7, <2>1, <2>2 DEF InBatches
  <2>4. QED BY <1>5, <2>3
<1>9. CASE batch # BatchOf(Len(calls))
  <2>1. round' = "batch" /\ batch' = batch + 1 /\ collected' = 0 BY <1>1, <1>9 DEF BatchEnds
  <2>2. ASSUME NEW j \in DOMAIN calls PROVE CallInPlace(j)'
    <3>1. BatchOf(j)' < batch' => j \in Told' BY <1>2, <1>4, <2>1
    <3>2. BatchOf(j)' > batch' => worker'[j] = "spawned"
      <4>1. BatchOf(j)' > batch' => BatchOf(j) > batch BY <1>4, <2>1
      <4>2. QED BY <1>1, <1>4, <4>1 DEF CallInPlace
    <3>3. QED BY <1>1, <1>2, <1>4, <1>6, <2>1, <3>1, <3>2 DEF CallInPlace
  <2>3. (Told \cap Batch(batch))' = {}
    <3>1. ASSUME NEW j \in DOMAIN calls, BatchOf(j) = batch + 1 PROVE j \notin Told
      <4>1. worker[j] = "spawned" BY <1>4, <3>1 DEF CallInPlace
      <4>2. QED BY <1>4, <4>1 DEF CallInPlace
    <3>2. Batch(batch)' = {j \in DOMAIN calls : BatchOf(j) = batch + 1}
      <4>1. Batch(batch)' = {j \in DOMAIN calls' : BatchOf(j)' = batch'} BY DEF Batch
      <4>2. QED BY <1>1, <1>4, <2>1, <4>1
    <3>3. QED BY <1>2, <3>1, <3>2
  <2>4. collected' = Cardinality(Told \cap Batch(batch))' BY <2>1, <2>3, FS_EmptySet
  <2>5. InBatches' BY <1>1, <1>2, <1>7, <2>1, <2>2, <2>4 DEF InBatches
  <2>6. QED BY <1>5, <2>5
<1>10. QED BY <1>8, <1>9

LEMMA AppendResultsStep == ASSUME RoundInv, AppendResults PROVE RoundInv'
<1> USE DEF RoundInv, AppendResults
<1>1. InBatches BY DEF CutOff
<1>2. RoundTypes' BY DEF RoundTypes
<1>3. Told' = Told /\ Queued' = Queued BY DEF Told, Queued
<1>4. round' \notin {"batch", "append"} BY DEF Outcome
<1>5. ASSUME NEW j \in DOMAIN calls PROVE CallInPlace(j)'
  <2>1. CallInPlace(j) BY <1>1 DEF InBatches
  <2>2. BatchOf(j)' = BatchOf(j) BY BatchesStay
  <2>3. QED BY <1>3, <2>1, <2>2 DEF CallInPlace
<1>6. ToldOnce' BY <1>1, <1>3 DEF InBatches, ToldOnce
<1>7. InBatches' BY <1>1, <1>4, <1>5, <1>6 DEF InBatches
<1>8. QED BY <1>2, <1>7

LEMMA RoundStutters == ASSUME RoundInv, UNCHANGED roundVars PROVE RoundInv'
<1> USE DEF RoundInv, roundVars
<1>1. Told' = Told /\ Queued' = Queued BY DEF Told, Queued
<1>2. RoundTypes' BY DEF RoundTypes
<1>3. CASE CutOff BY <1>2, <1>3 DEF CutOff
<1>4. CASE InBatches
  <2>1. /\ \A j \in DOMAIN calls : BatchOf(j)' = BatchOf(j)
        /\ \A b : Batch(b)' = Batch(b)
    BY BatchesStay
  <2>2. \A j \in DOMAIN calls : CallInPlace(j)' BY <1>1, <1>4, <2>1 DEF InBatches, CallInPlace
  <2>3. ToldOnce' BY <1>1, <1>4 DEF InBatches, ToldOnce
  <2>4. (Told \cap Batch(batch))' = Told \cap Batch(batch) BY <1>1, <2>1
  <2>5. round' = "batch" => collected' = Cardinality(Told \cap Batch(batch))'
    BY <1>4, <2>4 DEF InBatches
  <2>6. InBatches' BY <1>4, <2>2, <2>3, <2>5 DEF InBatches
  <2>7. QED BY <1>2, <2>6
<1>5. QED BY <1>3, <1>4

\* processToolCalls: however the goroutines of a round's calls are scheduled, and
\* whatever the calls and the limit on them, an exclusive call runs alone, each result
\* is emitted once and after it is there, and a round that is over has appended to the
\* session one result for each call, in the order of the calls.
THEOREM RoundsAreWhole == RoundSpec => []RoundIsWhole
<1>1. RoundInit => RoundInv BY RoundConstants, RoundInvInit
<1>2. RoundInv /\ [RoundNext]_roundVars => RoundInv'
  <2> SUFFICES ASSUME RoundInv, [RoundNext]_roundVars PROVE RoundInv' OBVIOUS
  <2> USE RoundConstants
  <2>1. CASE Truncated BY <2>1, TruncatedStep
  <2>2. CASE EmitResult BY <2>2, EmitResultStep
  <2>3. CASE BatchEnds BY <2>3, BatchEndsStep
  <2>4. CASE AppendResults BY <2>4, AppendResultsStep
  <2>5. ASSUME NEW i \in DOMAIN calls, TakeSlot(i) PROVE RoundInv' BY <2>5, TakeSlotStep
  <2>6. ASSUME NEW i \in DOMAIN calls, ToolReturns(i) PROVE RoundInv' BY <2>6, ToolReturnsStep
  <2>7. ASSUME NEW i \in DOMAIN calls, SendIndex(i) PROVE RoundInv' BY <2>7, SendIndexStep
  <2>8. ASSUME NEW i \in DOMAIN calls, ReleaseSlot(i) PROVE RoundInv' BY <2>8, ReleaseSlotStep
  <2>9. CASE UNCHANGED roundVars BY <2>9, RoundStutters
  <2>10. QED BY <2>1, <2>2, <2>3, <2>4, <2>5, <2>6, <2>7, <2>8, <2>9 DEF RoundNext
<1>3. RoundInv => RoundIsWhole BY RoundConstants, RoundInvGives
<1>4. QED BY <1>1, <1>2, <1>3, PTL DEF RoundSpec

-----------------------------------------------------------------------------
(* The persistent shell *)

Env == [Names -> Values \cup {Missing}]

\* What Record may make of the state carried: a variable that a command set and its
\* report, with what it started from.
Carried == [cwd : Dirs \cup {NoDir}, set : Env, unset : SUBSET Names]

Reported(c) ==
    command[c].report # NoReport =>
        /\ command[c].report \in [dir : Dirs, env : Env]
        /\ Exported(command[c].before, command[c].report.env)

CommandOK(c) ==
    /\ command[c].at \in {"idle", "placed", "running", "exited"}
    /\ command[c].at \in {"running", "exited"} => command[c].before \in Env
    /\ command[c].at = "exited" => Reported(c)

PersistInv ==
    /\ carried \in Carried /\ lastLeft \in Env
    /\ DOMAIN command = Foreground
    /\ \A c \in Foreground : CommandOK(c)
    /\ CarriesEachChange

LEMMA PersistInvInit == ASSUME PersistConstants, PersistInit PROVE PersistInv
<1>1. carried \in Carried /\ lastLeft \in Env
  BY DEF PersistInit, PersistConstants, Carried, Env
<1>2. DOMAIN command = Foreground /\ \A c \in Foreground : CommandOK(c)
  BY DEF PersistInit, CommandOK, NotStarted
<1>3. CarriesEachChange
  BY DEF PersistInit, PersistConstants, CarriesEachChange, Applied, StartDir
<1>4. QED BY <1>1, <1>2, <1>3 DEF PersistInv

\* What a command changed is what the state carried afterwards gives the next one; what
\* it left alone stays as the state had it, whoever changed it meanwhile.
LEMMA UpdateCarries ==
    ASSUME PersistConstants, ~EmptyExports, carried \in Carried,
           NEW before \in Env, NEW report \in [dir : Dirs, env : Env],
           Exported(before, report.env), carried' = Updated(report, before)
    PROVE  /\ carried' \in Carried /\ carried'.cwd = report.dir
           /\ \A n \in Names :
                  Applied'[n] = IF report.env[n] # before[n] THEN report.env[n] ELSE Applied[n]
<1> DEFINE env == report.env
           Put == SetBy(before, env)
           Gone == RemovedBy(before, env)
<1>1. env \in Env /\ report.dir \in Dirs OBVIOUS
<1>2. carried.set \in Env /\ carried.unset \subseteq Names BY DEF Carried
<1>3. /\ carried'.cwd = report.dir
      /\ carried'.set = [n \in Names |-> IF n \in Put THEN env[n] ELSE IF n \in Gone THEN Missing ELSE carried.set[n]]
      /\ carried'.unset = (carried.unset \ Put) \cup Gone
      /\ carried' = [cwd |-> carried'.cwd, set |-> carried'.set, unset |-> carried'.unset]
  BY DEF Updated
<1>4. Put \subseteq Names /\ Gone \subseteq Names BY DEF SetBy, RemovedBy
<1>5. carried'.set \in Env BY <1>1, <1>2, <1>3 DEF Env
<1>6. carried'.unset \subseteq Names BY <1>2, <1>3, <1>4
<1>7. carried' \in Carried BY <1>1, <1>3, <1>5, <1>6 DEF Carried
<1>8. ASSUME NEW n \in Names
      PROVE  Applied'[n] = IF env[n] # before[n] THEN env[n] ELSE Applied[n]
  <2>1. Applied'[n] = IF carried'.set[n] # Missing THEN carried'.set[n]
                      ELSE IF n \in carried'.unset THEN Missing ELSE StartEnv[n]
    BY DEF Applied
  <2>2. CASE env[n] # before[n] /\ env[n] # Missing
    <3>1. n \in Put BY <1>1, <2>2 DEF SetBy, Lookup, Exported
    <3>2. QED BY <1>3, <2>1, <2>2, <3>1
  <2>3. CASE env[n] # before[n] /\ env[n] = Missing
    <3>1. n \in Gone /\ n \notin Put BY <2>3 DEF SetBy, RemovedBy
    <3>2. QED BY <1>3, <2>1, <2>3, <3>1
  <2>4. CASE env[n] = before[n]
    <3>1. n \notin Gone /\ n \notin Put BY <2>4 DEF SetBy, RemovedBy, Lookup
    <3>2. carried'.set[n] = carried.set[n] /\ (n \in carried'.unset <=> n \in carried.unset)
      BY <1>3, <3>1
    <3>3. Applied'[n] = Applied[n] BY <2>1, <3>2 DEF Applied
    <3>4. QED BY <2>4, <3>3
  <2>5. QED BY <2>2, <2>3, <2>4
<1>9. QED BY <1>3, <1>7, <1>8

\* A step of one command that leaves what is carried alone.
LEMMA OneCommandMoves ==
    ASSUME PersistInv, NEW c \in Foreground, NEW to, command' = [command EXCEPT ![c] = to],
           UNCHANGED <<carried, lastDir, lastLeft>>, CommandOK(c)'
    PROVE  PersistInv'
<1>1. DOMAIN command' = Foreground BY DEF PersistInv
<1>2. ASSUME NEW d \in Foreground PROVE CommandOK(d)'
  <2>1. CASE d = c BY <2>1
  <2>2. CASE d # c
    <3>1. command'[d] = command[d] BY <2>2 DEF PersistInv
    <3>2. QED BY <3>1 DEF PersistInv, CommandOK, Reported
  <2>3. QED BY <2>1, <2>2
<1>3. CarriesEachChange' BY DEF PersistInv, CarriesEachChange, StartDir, Applied
<1>4. QED BY <1>1, <1>2, <1>3 DEF PersistInv

LEMMA AppliedIsEnv == ASSUME PersistConstants, PersistInv PROVE Applied \in Env
BY DEF PersistInv, PersistConstants, Carried, Env, Applied

LEMMA CallForegroundStep ==
    ASSUME PersistInv, NEW c \in Foreground, CallForeground(c) PROVE PersistInv'
<1>1. PICK asked \in Asked :
          command' = [command EXCEPT ![c] = [at |-> "placed", dir |-> StartDir, limit |-> TimeoutOf(asked)]]
  BY DEF CallForeground
<1>2. command'[c].at = "placed" BY <1>1 DEF PersistInv
<1>3. CommandOK(c)' BY <1>2 DEF CommandOK
<1>4. QED BY <1>1, <1>3, OneCommandMoves DEF CallForeground

LEMMA StartProcessStep ==
    ASSUME PersistConstants, PersistInv, NEW c \in Foreground, StartProcess(c) PROVE PersistInv'
<1> DEFINE to == [at |-> "running", dir |-> command[c].dir, limit |-> command[c].limit,
                  before |-> Applied, ended |-> "no"]
<1>1. command' = [command EXCEPT ![c] = to] /\ UNCHANGED <<carried, lastDir, lastLeft>>
  BY DEF StartProcess
<1>2. to.at = "running" /\ to.before = Applied OBVIOUS
<1> HIDE DEF to
<1>3. command'[c] = to BY <1>1 DEF PersistInv
<1>4. CommandOK(c)' BY <1>2, <1>3, AppliedIsEnv DEF CommandOK
<1>5. QED BY <1>1, <1>4, OneCommandMoves

LEMMA EndContextStep ==
    ASSUME PersistInv, NEW c \in Foreground, EndContext(c) PROVE PersistInv'
<1>1. PICK why \in {"call", "timeout"} : command' = [command EXCEPT ![c].ended = why]
  BY DEF EndContext
<1> DEFINE to == [command[c] EXCEPT !.ended = why]
<1>2. command' = [command EXCEPT ![c] = to] BY <1>1
<1>3. to.at = command[c].at /\ to.before = command[c].before /\ to.report = command[c].report
  OBVIOUS
<1> HIDE DEF to
<1>4. command'[c] = to BY <1>2 DEF PersistInv
<1>5. CommandOK(c) BY DEF PersistInv
<1>6. CommandOK(c)' BY <1>3, <1>4, <1>5 DEF CommandOK, Reported
<1>7. QED BY <1>2, <1>6, OneCommandMoves DEF EndContext

LEMMA EndProcessStep ==
    ASSUME PersistInv, NEW c \in Foreground, EndProcess(c) PROVE PersistInv'
<1>1. PICK report \in {NoReport} \cup [dir : Dirs, env : Env] :
          /\ report # NoReport => Exported(command[c].before, report.env)
          /\ command' = [command EXCEPT ![c] =
                 [at |-> "exited", dir |-> command[c].dir, limit |-> command[c].limit,
                  before |-> command[c].before, ended |-> command[c].ended, report |-> report]]
  BY DEF EndProcess, Env
<1> DEFINE to == [at |-> "exited", dir |-> command[c].dir, limit |-> command[c].limit,
                  before |-> command[c].before, ended |-> command[c].ended, report |-> report]
<1>2. to.at = "exited" /\ to.before = command[c].before /\ to.report = report OBVIOUS
<1>3. command' = [command EXCEPT ![c] = to] BY <1>1
<1> HIDE DEF to
<1>4. command'[c] = to BY <1>3 DEF PersistInv
<1>5. command[c].before \in Env BY DEF PersistInv, CommandOK, EndProcess
<1>6. report # NoReport => report \in [dir : Dirs, env : Env] BY <1>1
<1>7. CommandOK(c)' BY <1>1, <1>2, <1>4, <1>5, <1>6 DEF CommandOK, Reported
<1>8. QED BY <1>3, <1>7, OneCommandMoves DEF EndProcess

LEMMA RecordStep ==
    ASSUME PersistConstants, ~EmptyExports, PersistInv, NEW c \in Foreground, Record(c)
    PROVE  PersistInv'
<1> DEFINE report == command[c].report
           before == command[c].before
<1>1. /\ command' = [command EXCEPT ![c] = NotStarted] /\ CommandOK(c)
      /\ command[c].at = "exited"
  BY DEF Record, PersistInv
<1>2. DOMAIN command' = Foreground /\ \A d \in Foreground : CommandOK(d)'
  <2>1. DOMAIN command' = Foreground BY <1>1 DEF PersistInv
  <2>2. ASSUME NEW d \in Foreground PROVE CommandOK(d)'
    <3>1. CASE d = c
      <4>1. command'[c].at = "idle" BY <1>1 DEF NotStarted, PersistInv
      <4>2. QED BY <3>1, <4>1 DEF CommandOK
    <3>2. CASE d # c
      <4>1. command'[d] = command[d] BY <1>1, <3>2 DEF PersistInv
      <4>2. QED BY <4>1 DEF PersistInv, CommandOK, Reported
    <3>3. QED BY <3>1, <3>2
  <2>3. QED BY <2>1, <2>2
<1>3. CASE report # NoReport /\ Completed(c)
  <2>1. /\ carried' = Updated(report, before) /\ lastDir' = report.dir
        /\ lastLeft' = [n \in Names |-> IF report.env[n] # before[n] THEN report.env[n] ELSE lastLeft[n]]
    BY <1>3 DEF Record
  <2>2. before \in Env /\ report \in [dir : Dirs, env : Env] /\ Exported(before, report.env)
    BY <1>1, <1>3 DEF CommandOK, Reported
  <2>3. carried \in Carried /\ lastLeft \in Env /\ CarriesEachChange BY DEF PersistInv
  <2> HIDE DEF report, before
  <2>4. /\ carried' \in Carried /\ carried'.cwd = report.dir
        /\ \A n \in Names : Applied'[n] = IF report.env[n] # before[n] THEN report.env[n] ELSE Applied[n]
    BY <2>1, <2>2, <2>3, UpdateCarries
  <2>5. lastLeft' \in Env
    <3>1. report.env \in Env BY <2>2
    <3>2. QED BY <2>1, <2>3, <3>1 DEF Env
  <2>6. Applied' = lastLeft'
    <3>1. \A n \in Names : Applied'[n] = lastLeft'[n] BY <2>1, <2>3, <2>4 DEF CarriesEachChange
    <3>2. Applied' = [n \in Names |-> Applied'[n]] BY DEF Applied
    <3>3. lastLeft' = [n \in Names |-> lastLeft'[n]] BY <2>1
    <3>4. QED BY <3>1, <3>2, <3>3
  <2>7. QED BY <1>2, <2>1, <2>4, <2>5, <2>6 DEF PersistInv, CarriesEachChange, StartDir
<1>4. CASE ~(report # NoReport /\ Completed(c))
  <2>1. UNCHANGED <<carried, lastDir, lastLeft>> BY <1>4 DEF Record
  <2>2. QED BY <1>2, <2>1 DEF PersistInv, CarriesEachChange, StartDir, Applied
<1>5. QED BY <1>3, <1>4

\* WithPersistentShell: for any commands run at once, directories and variables, the
\* next command starts where the last one recorded ended and finds each variable as the
\* last command to change it left it; unless one exports an empty variable that was not
\* there, which shellState.update cannot tell from one that is still not there.
THEOREM ShellCarriesEachChange ==
    ASSUME ~EmptyExports PROVE PersistSpec => []CarriesEachChange
<1>1. PersistInit => PersistInv BY PersistInvInit, PersistConstants
<1>2. PersistInv /\ [PersistNext]_persistVars => PersistInv'
  <2> SUFFICES ASSUME PersistInv, [PersistNext]_persistVars PROVE PersistInv' OBVIOUS
  <2>1. CASE UNCHANGED persistVars
    BY <2>1 DEF persistVars, PersistInv, CommandOK, Reported, CarriesEachChange, StartDir, Applied
  <2>2. ASSUME NEW c \in Foreground,
               CallForeground(c) \/ StartProcess(c) \/ EndContext(c) \/ EndProcess(c) \/ Record(c)
        PROVE  PersistInv'
    BY <2>2, PersistConstants, CallForegroundStep, StartProcessStep, EndContextStep, EndProcessStep, RecordStep
  <2>3. QED BY <2>1, <2>2 DEF PersistNext
<1>3. PersistInv => CarriesEachChange BY DEF PersistInv
<1>4. QED BY <1>1, <1>2, <1>3, PTL DEF PersistSpec

-----------------------------------------------------------------------------
(* Background shells *)

\* A set of numbers has a least one, so a write past the cap drops what Drop says.
LEMMA LeastIsThere ==
    ASSUME NEW S \in SUBSET Nat, S # {}
    PROVE  Min(S) \in S /\ \A n \in S : Min(S) <= n
<1> DEFINE Less == {p \in Nat \X Nat : p[1] < p[2]}
<1>1. IsWellFoundedOn(Less, Nat) BY NatLessThanWellFounded DEF OpToRel
<1>2. \A m, n \in Nat : m < n => <<m, n>> \in Less OBVIOUS
<1> HIDE DEF Less
<1>3. PICK m \in S : \A n \in S : ~(<<n, m>> \in Less) BY <1>1, WFMin, Zenon
<1>4. ASSUME NEW n \in S PROVE m <= n
  <2>1. <<n, m>> \notin Less BY <1>3
  <2>2. m \in Nat /\ n \in Nat OBVIOUS
  <2>3. ~(n < m) BY <1>2, <2>1, <2>2
  <2>4. QED BY <2>2, <2>3
<1>5. QED BY <1>4 DEF Min

LEMMA DropIsWithin ==
    ASSUME ShellConstants, NEW from \in Nat, NEW to \in Nat, from <= to
    PROVE  Drop(from, to) \in 0 .. (to - from)
<1> DEFINE S == {d \in (to - from - MaxBackgroundOutput) .. (to - from) :
                    d = to - from \/ from + d + 1 \in RuneStarts}
<1>1. CASE MaxBackgroundOutput <= 0 \/ to - from <= MaxBackgroundOutput BY <1>1 DEF Drop
<1>2. CASE ~(MaxBackgroundOutput <= 0 \/ to - from <= MaxBackgroundOutput)
  <2>1. MaxBackgroundOutput \in Int /\ to - from \in Int BY DEF ShellConstants
  <2>2. to - from \in S /\ S \in SUBSET Nat /\ S \subseteq 0 .. (to - from) BY <1>2, <2>1
  <2>3. Drop(from, to) = Min(S) BY <1>2 DEF Drop
  <2> HIDE DEF S
  <2>4. QED BY <2>2, <2>3, LeastIsThere
<1>3. QED BY <1>1, <1>2

Buffer == [from : Nat, to : Nat, readOffset : Nat, unreadDropped : Nat]

\* What was returned ends where the reading has come to.
BufferOK(s) ==
    LET b == buffer[s]
    IN  /\ b \in Buffer
        /\ b.from + b.readOffset <= b.to
        /\ got[s] \in Seq(Nat) /\ reported[s] \in Nat
        /\ Len(got[s]) + reported[s] + b.unreadDropped = b.from + b.readOffset
        /\ \A i \in DOMAIN got[s] : got[s][i] <= b.from + b.readOffset
        /\ \A i, j \in DOMAIN got[s] : i < j => got[s][i] < got[s][j]

\* Nothing is left of a finished shell, nor will be.
ReadInFull(s) ==
    /\ process[s] = "waited"
    /\ buffer[s].from + buffer[s].readOffset = buffer[s].to /\ buffer[s].unreadDropped = 0

\* A shell that is not in the map was never started or is read in full; and from Close
\* on none starts, so those that run are those it saw.
ShellOK(s) ==
    /\ process[s] \in {"none", "alive", "exited", "waited"}
    /\ s \notin shellMap => process[s] = "none" \/ ReadInFull(s)
    /\ s \in shellMap => process[s] # "none"
    /\ closed /\ IsRunning(s) => s \in closer.saw
    /\ closer.at = "allEnded" => ~IsRunning(s)
    /\ closer.at \in {"wait", "tooLate"} /\ process[s] = "alive" => s \in signalled

ToolCallOK(c) ==
    /\ toolCall[c].at # "idle" => toolCall[c].shell \in Shells /\ process[toolCall[c].shell] # "none"
    /\ toolCall[c].at = "forget" => toolCall[c].running \/ ReadInFull(toolCall[c].shell)

ShellsInv ==
    /\ DOMAIN process = Shells /\ DOMAIN buffer = Shells /\ DOMAIN got = Shells
    /\ DOMAIN reported = Shells /\ DOMAIN toolCall = ToolCalls
    /\ shellMap \subseteq Shells
    /\ closer \in [at : {"open", "kill", "wait", "allEnded", "tooLate"}, saw : SUBSET Shells]
    /\ closer.at = "open" <=> ~closed
    /\ \A s \in Shells : BufferOK(s) /\ ShellOK(s)
    /\ \A c \in ToolCalls : ToolCallOK(c)

LEMMA ShellsInvInit == ShellInit => ShellsInv
<1> SUFFICES ASSUME ShellInit PROVE ShellsInv OBVIOUS
<1>1. ASSUME NEW s \in Shells PROVE BufferOK(s)
  BY DEF ShellInit, BufferOK, Buffer
<1>2. ASSUME NEW s \in Shells PROVE ShellOK(s)
  BY DEF ShellInit, ShellOK, IsRunning
<1>3. ASSUME NEW c \in ToolCalls PROVE ToolCallOK(c)
  BY DEF ShellInit, ToolCallOK
<1>4. QED BY <1>1, <1>2, <1>3 DEF ShellInit, ShellsInv

LEMMA ShellsInvHolds ==
    ASSUME ShellsInv PROVE ShellsAreAccounted
<1>1. ASSUME NEW s \in Shells
      PROVE  LET b == buffer[s]
                 unread == b.to - b.from - b.readOffset
             IN  /\ \A i, j \in DOMAIN got[s] : i < j => got[s][i] < got[s][j]
                 /\ Len(got[s]) + reported[s] + b.unreadDropped + unread = b.to
                 /\ process[s] # "none" /\ s \notin shellMap =>
                        ~IsRunning(s) /\ unread = 0 /\ b.unreadDropped = 0
  <2>1. BufferOK(s) /\ ShellOK(s) BY DEF ShellsInv
  <2>2. Len(got[s]) \in Nat /\ reported[s] \in Nat BY <2>1 DEF BufferOK
  <2>3. /\ buffer[s].from \in Nat /\ buffer[s].to \in Nat
        /\ buffer[s].readOffset \in Nat /\ buffer[s].unreadDropped \in Nat
    BY <2>1 DEF BufferOK, Buffer
  <2>4. \A i, j \in DOMAIN got[s] : i < j => got[s][i] < got[s][j] BY <2>1 DEF BufferOK
  <2>5. Len(got[s]) + reported[s] + buffer[s].unreadDropped = buffer[s].from + buffer[s].readOffset
    BY <2>1 DEF BufferOK
  <2>6. process[s] # "none" /\ s \notin shellMap => ReadInFull(s) BY <2>1 DEF ShellOK
  <2>7. ReadInFull(s) => /\ ~IsRunning(s) /\ buffer[s].to - buffer[s].from - buffer[s].readOffset = 0
                         /\ buffer[s].unreadDropped = 0
    BY <2>3 DEF ReadInFull, IsRunning
  <2>8. Len(got[s]) + reported[s] + buffer[s].unreadDropped
            + (buffer[s].to - buffer[s].from - buffer[s].readOffset) = buffer[s].to
    BY <2>2, <2>3, <2>5
  <2>9. QED BY <2>4, <2>6, <2>7, <2>8
<1>2. OutputIsAccounted BY <1>1 DEF OutputIsAccounted
<1>3. NoShellOutlivesClose BY DEF ShellsInv, ShellOK, NoShellOutlivesClose
<1>4. QED BY <1>2, <1>3 DEF ShellsAreAccounted

\* What a step leaves alone: the shells other than s, and the calls other than c.
LEMMA OtherShells ==
    ASSUME ShellsInv, NEW s \in Shells, UNCHANGED <<closed, closer>>,
           signalled \subseteq signalled',
           DOMAIN process' = Shells, DOMAIN buffer' = Shells, DOMAIN got' = Shells, DOMAIN reported' = Shells,
           \A t \in Shells \ {s} :
               /\ process'[t] = process[t] /\ buffer'[t] = buffer[t]
               /\ got'[t] = got[t] /\ reported'[t] = reported[t]
               /\ t \in shellMap' <=> t \in shellMap,
           shellMap' \subseteq Shells, BufferOK(s)', ShellOK(s)',
           DOMAIN toolCall' = ToolCalls, \A c \in ToolCalls : ToolCallOK(c)'
    PROVE  ShellsInv'
<1>1. ASSUME NEW t \in Shells PROVE BufferOK(t)' /\ ShellOK(t)'
  <2>1. CASE t = s BY <2>1
  <2>2. CASE t # s
    <3>1. BufferOK(t) /\ ShellOK(t) BY DEF ShellsInv
    <3>2. BufferOK(t)' BY <2>2, <3>1 DEF BufferOK
    <3>3. ShellOK(t)' BY <2>2, <3>1 DEF ShellOK, ReadInFull, IsRunning
    <3>4. QED BY <3>2, <3>3
  <2>3. QED BY <2>1, <2>2
<1>2. QED BY <1>1 DEF ShellsInv

\* The calls of the tools, when what they know of a shell still holds.
LEMMA SameCalls ==
    ASSUME ShellsInv, UNCHANGED toolCall, \A s \in Shells : ReadInFull(s) => ReadInFull(s)',
           \A s \in Shells : process[s] # "none" => process'[s] # "none"
    PROVE  DOMAIN toolCall' = ToolCalls /\ \A c \in ToolCalls : ToolCallOK(c)'
<1>1. ASSUME NEW c \in ToolCalls PROVE ToolCallOK(c)'
  <2>1. ToolCallOK(c) BY DEF ShellsInv
  <2>2. CASE toolCall[c].at = "idle" BY <2>2 DEF ToolCallOK
  <2>3. CASE toolCall[c].at # "idle"
    <3>1. toolCall[c].shell \in Shells BY <2>1, <2>3 DEF ToolCallOK
    <3>2. /\ ReadInFull(toolCall[c].shell) => ReadInFull(toolCall[c].shell)'
          /\ process[toolCall[c].shell] # "none" => process'[toolCall[c].shell] # "none"
      BY <3>1
    <3>3. QED BY <2>1, <3>1, <3>2 DEF ToolCallOK, ReadInFull
  <2>4. QED BY <2>2, <2>3
<1>2. QED BY <1>1 DEF ShellsInv

\* A step of a shell's process alone.
LEMMA ProcessMoves ==
    ASSUME ShellsInv, NEW s \in Shells, NEW to, process' = [process EXCEPT ![s] = to],
           process[s] # "waited", to # "none", ShellOK(s)', shellMap' = shellMap \/ shellMap' = shellMap \cup {s},
           UNCHANGED <<signalled, buffer, got, reported, toolCall, closed, baseDone, closer>>
    PROVE  ShellsInv'
<1>1. /\ DOMAIN process' = Shells /\ \A t \in Shells \ {s} : process'[t] = process[t]
      /\ process'[s] = to
  BY DEF ShellsInv
<1>2. \A t \in Shells : ReadInFull(t) => ReadInFull(t)'
  BY <1>1 DEF ReadInFull
<1>3. DOMAIN toolCall' = ToolCalls /\ \A c \in ToolCalls : ToolCallOK(c)' BY <1>1, <1>2, SameCalls
<1>4. BufferOK(s)' BY DEF ShellsInv, BufferOK
<1>5. shellMap' \subseteq Shells BY DEF ShellsInv
<1>6. QED BY <1>1, <1>3, <1>4, <1>5, OtherShells DEF ShellsInv

LEMMA StartBackgroundStep ==
    ASSUME ShellsInv, NEW s \in Shells, StartBackground(s) PROVE ShellsInv'
<1>1. process' = [process EXCEPT ![s] = "alive"] /\ process[s] = "none" /\ ~closed
      /\ shellMap' = shellMap \cup {s}
      /\ UNCHANGED <<signalled, buffer, got, reported, toolCall, closed, baseDone, closer>>
  BY DEF StartBackground, MayStart
<1>2. process'[s] = "alive" BY <1>1 DEF ShellsInv
<1>3. closer.at = "open" BY <1>1 DEF ShellsInv
<1>4. ShellOK(s)' BY <1>1, <1>2, <1>3 DEF ShellOK
<1>5. QED BY <1>1, <1>4, ProcessMoves

LEMMA ExitStep ==
    ASSUME ShellsInv, NEW s \in Shells, Exit(s) PROVE ShellsInv'
<1>1. process' = [process EXCEPT ![s] = "exited"] /\ process[s] = "alive" /\ shellMap' = shellMap
      /\ UNCHANGED <<signalled, buffer, got, reported, toolCall, closed, baseDone, closer>>
  BY DEF Exit
<1>2. process'[s] = "exited" BY <1>1 DEF ShellsInv
<1>3. ShellOK(s) BY DEF ShellsInv
<1>4. ShellOK(s)' BY <1>1, <1>2, <1>3 DEF ShellOK, ReadInFull, IsRunning
<1>5. QED BY <1>1, <1>4, ProcessMoves

LEMMA WaitReturnsStep ==
    ASSUME ShellsInv, NEW s \in Shells, WaitReturns(s) PROVE ShellsInv'
<1>1. process' = [process EXCEPT ![s] = "waited"] /\ process[s] = "exited" /\ shellMap' = shellMap
      /\ UNCHANGED <<signalled, buffer, got, reported, toolCall, closed, baseDone, closer>>
  BY DEF WaitReturns
<1>2. process'[s] = "waited" BY <1>1 DEF ShellsInv
<1>3. ShellOK(s) BY DEF ShellsInv
<1>4. ShellOK(s)' BY <1>1, <1>2, <1>3 DEF ShellOK, ReadInFull, IsRunning
<1>5. QED BY <1>1, <1>4, ProcessMoves

LEMMA BaseKillsStep ==
    ASSUME ShellsInv, NEW s \in Shells, BaseKills(s) PROVE ShellsInv'
<1>1. /\ signalled \subseteq signalled'
      /\ UNCHANGED <<process, shellMap, buffer, got, reported, toolCall, closed, baseDone, closer>>
  BY DEF BaseKills
<1>2. BufferOK(s)' /\ ShellOK(s)'
  BY <1>1 DEF ShellsInv, BufferOK, ShellOK, ReadInFull, IsRunning
<1>3. \A t \in Shells : ReadInFull(t) => ReadInFull(t)' BY <1>1 DEF ReadInFull
<1>4. DOMAIN toolCall' = ToolCalls /\ \A c \in ToolCalls : ToolCallOK(c)' BY <1>1, <1>3, SameCalls
<1>5. QED BY <1>1, <1>2, <1>4, OtherShells DEF ShellsInv

\* What is dropped before it was read is counted, and the rest moves with the buffer.
LEMMA WriteStep ==
    ASSUME ShellConstants, ShellsInv, NEW s \in Shells, Write(s) PROVE ShellsInv'
<1> DEFINE b == buffer[s]
<1>1. PICK to \in b.to + 1 .. MaxBytes :
          buffer' = [buffer EXCEPT ![s] =
              [from |-> b.from + Drop(b.from, to), to |-> to,
               readOffset |-> NotNegative(b.readOffset - Drop(b.from, to)),
               unreadDropped |-> b.unreadDropped + Unread(b, Drop(b.from, to))]]
  BY DEF Write
<1>2. IsRunning(s) /\ UNCHANGED <<process, signalled, shellMap, got, reported, toolCall, closed, baseDone, closer>>
  BY DEF Write
<1>3. BufferOK(s) /\ ShellOK(s) BY DEF ShellsInv
<1>4. /\ b.from \in Nat /\ b.to \in Nat /\ b.readOffset \in Nat /\ b.unreadDropped \in Nat
      /\ b.from + b.readOffset <= b.to
  BY <1>3 DEF BufferOK, Buffer
<1>5. to \in Nat /\ b.to < to /\ b.from <= to BY <1>4 DEF ShellConstants
<1> DEFINE drop == Drop(b.from, to)
<1>6. drop \in 0 .. (to - b.from) BY <1>4, <1>5, DropIsWithin
<1> DEFINE new == [from |-> b.from + drop, to |-> to, readOffset |-> NotNegative(b.readOffset - drop),
                   unreadDropped |-> b.unreadDropped + Unread(b, drop)]
<1>7. buffer' = [buffer EXCEPT ![s] = new] BY <1>1
<1>8. new.from = b.from + drop /\ new.to = to
      /\ new.readOffset = NotNegative(b.readOffset - drop)
      /\ new.unreadDropped = b.unreadDropped + Unread(b, drop)
  OBVIOUS
<1> HIDE DEF drop, new
<1>9. /\ new.readOffset = IF drop <= b.readOffset THEN b.readOffset - drop ELSE 0
      /\ new.unreadDropped = IF drop <= b.readOffset THEN b.unreadDropped
                             ELSE b.unreadDropped + drop - b.readOffset
  BY <1>4, <1>6, <1>8 DEF NotNegative, Unread
<1>10. new \in Buffer
  <2>1. new.from \in Nat /\ new.to \in Nat /\ new.readOffset \in Nat /\ new.unreadDropped \in Nat
    BY <1>4, <1>5, <1>6, <1>8, <1>9
  <2>2. new = [from |-> new.from, to |-> new.to, readOffset |-> new.readOffset, unreadDropped |-> new.unreadDropped]
    BY DEF new
  <2>3. QED BY <2>1, <2>2 DEF Buffer
<1>11. /\ new.from + new.readOffset <= new.to /\ b.from + b.readOffset <= new.from + new.readOffset
       /\ (new.from + new.readOffset) - new.unreadDropped = (b.from + b.readOffset) - b.unreadDropped
  BY <1>4, <1>5, <1>6, <1>8, <1>9
<1>12. DOMAIN buffer' = Shells /\ buffer'[s] = new /\ \A t \in Shells \ {s} : buffer'[t] = buffer[t]
  BY <1>7 DEF ShellsInv
<1>13. BufferOK(s)'
  <2>1. /\ got'[s] \in Seq(Nat) /\ reported'[s] \in Nat /\ Len(got'[s]) \in Nat
        /\ got'[s] = got[s] /\ reported'[s] = reported[s]
        /\ Len(got[s]) + reported[s] + b.unreadDropped = b.from + b.readOffset
    BY <1>2, <1>3 DEF BufferOK
  <2>2. Len(got'[s]) + reported'[s] + new.unreadDropped = new.from + new.readOffset
    <3> DEFINE returned == Len(got[s])
               reach == b.from + b.readOffset
               was == b.unreadDropped
               reached == new.from + new.readOffset
               is == new.unreadDropped
    <3>1. returned \in Nat /\ reported[s] \in Nat /\ reach \in Nat /\ was \in Nat /\ reached \in Nat /\ is \in Nat
      <4>1. returned \in Nat /\ reported[s] \in Nat BY <1>3 DEF BufferOK
      <4>2. reach \in Nat /\ was \in Nat BY <1>4
      <4>3. reached \in Nat /\ is \in Nat BY <1>10 DEF Buffer
      <4>4. QED BY <4>1, <4>2, <4>3
    <3>2. returned + reported[s] + was = reach BY <1>3 DEF BufferOK
    <3>3. reached - is = reach - was BY <1>11
    <3> HIDE DEF returned, reach, was, reached, is
    <3>4. returned + reported[s] + is = reached BY <3>1, <3>2, <3>3
    <3>5. QED BY <2>1, <3>4 DEF returned, reached, is
  <2>3. \A i \in DOMAIN got'[s] : got'[s][i] <= new.from + new.readOffset
    <3>1. new.from \in Nat /\ new.readOffset \in Nat BY <1>10 DEF Buffer
    <3>2. ASSUME NEW i \in DOMAIN got[s] PROVE got[s][i] <= new.from + new.readOffset
      <4>1. got[s][i] <= b.from + b.readOffset /\ got[s][i] \in Nat BY <1>3 DEF BufferOK
      <4>2. QED BY <1>4, <1>11, <3>1, <4>1
    <3>3. QED BY <2>1, <3>2
  <2>4. \A i, j \in DOMAIN got'[s] : i < j => got'[s][i] < got'[s][j]
    BY <1>2, <1>3 DEF BufferOK
  <2>5. QED BY <1>10, <1>11, <1>12, <2>1, <2>2, <2>3, <2>4 DEF BufferOK
<1>14. ShellOK(s)' BY <1>2, <1>3 DEF ShellOK, ReadInFull, IsRunning
<1>15. \A t \in Shells : ReadInFull(t) => ReadInFull(t)'
  BY <1>2, <1>12 DEF ReadInFull, IsRunning
<1>16. DOMAIN toolCall' = ToolCalls /\ \A c \in ToolCalls : ToolCallOK(c)' BY <1>2, <1>15, SameCalls
<1>17. QED BY <1>2, <1>12, <1>13, <1>14, <1>16, OtherShells DEF ShellsInv

-----------------------------------------------------------------------------
(* The tool calls and Close *)

\* A step of one call.
LEMMA OneToolCall ==
    ASSUME ShellsInv, NEW c \in ToolCalls, NEW to, toolCall' = [toolCall EXCEPT ![c] = to],
           UNCHANGED process, \A s \in Shells : ReadInFull(s) => ReadInFull(s)',
           to.at # "idle" => to.shell \in Shells /\ process[to.shell] # "none",
           to.at = "forget" => to.running \/ ReadInFull(to.shell)'
    PROVE  DOMAIN toolCall' = ToolCalls /\ \A d \in ToolCalls : ToolCallOK(d)'
<1>1. toolCall'[c] = to /\ DOMAIN toolCall' = ToolCalls BY DEF ShellsInv
<1>2. ASSUME NEW d \in ToolCalls PROVE ToolCallOK(d)'
  <2>1. CASE d = c BY <2>1, <1>1 DEF ToolCallOK, ReadInFull
  <2>2. CASE d # c
    <3>1. toolCall'[d] = toolCall[d] /\ ToolCallOK(d) BY <2>2 DEF ShellsInv
    <3>2. CASE toolCall[d].at = "idle" BY <3>1, <3>2 DEF ToolCallOK
    <3>3. CASE toolCall[d].at # "idle"
      <4>1. toolCall[d].shell \in Shells BY <3>1, <3>3 DEF ToolCallOK
      <4>2. PICK s \in Shells : s = toolCall[d].shell BY <4>1
      <4>3. ReadInFull(s) => ReadInFull(s)' OBVIOUS
      <4>4. QED BY <3>1, <4>2, <4>3 DEF ToolCallOK, ReadInFull
    <3>4. QED BY <3>2, <3>3
  <2>3. QED BY <2>1, <2>2
<1>3. QED BY <1>1, <1>2

\* A step of one call that leaves the shells' output alone.
LEMMA CallSteps ==
    ASSUME ShellsInv, NEW c \in ToolCalls, NEW to, toolCall' = [toolCall EXCEPT ![c] = to],
           UNCHANGED <<process, buffer, got, reported, closed, baseDone, closer>>,
           signalled \subseteq signalled', shellMap' \subseteq shellMap,
           \A s \in Shells : s \in shellMap /\ s \notin shellMap' => ReadInFull(s),
           to.at # "idle" => to.shell \in Shells /\ process[to.shell] # "none",
           to.at = "forget" => to.running \/ ReadInFull(to.shell)
    PROVE  ShellsInv'
<1>1. \A s \in Shells : ReadInFull(s) => ReadInFull(s)' BY DEF ReadInFull
<1>2. to.at = "forget" => to.running \/ ReadInFull(to.shell)' BY DEF ReadInFull
<1>3. DOMAIN toolCall' = ToolCalls /\ \A d \in ToolCalls : ToolCallOK(d)' BY <1>1, <1>2, OneToolCall
<1>4. ASSUME NEW s \in Shells PROVE BufferOK(s)' /\ ShellOK(s)'
  <2>1. BufferOK(s) /\ ShellOK(s) BY DEF ShellsInv
  <2>2. BufferOK(s)' BY <2>1 DEF BufferOK
  <2>3. ShellOK(s)' BY <2>1 DEF ShellOK, ReadInFull, IsRunning
  <2>4. QED BY <2>2, <2>3
<1>5. QED BY <1>3, <1>4 DEF ShellsInv

LEMMA LookUpStep ==
    ASSUME ShellsInv, NEW c \in ToolCalls, NEW s \in Shells, LookUp(c, s) PROVE ShellsInv'
<1>1. PICK at \in {"output", "kill"} : toolCall' = [toolCall EXCEPT ![c] = [at |-> at, shell |-> s]]
  BY DEF LookUp, Call
<1> DEFINE to == [at |-> at, shell |-> s]
<1>2. to.at = at /\ to.shell = s OBVIOUS
<1>3. toolCall' = [toolCall EXCEPT ![c] = to] BY <1>1
<1> HIDE DEF to
<1>4. process[s] # "none" BY DEF LookUp, ShellsInv, ShellOK
<1>5. QED BY <1>2, <1>3, <1>4, CallSteps DEF LookUp

\* A shell that was not running when it was read writes nothing more.
LEMMA ForgetShellStep ==
    ASSUME ShellsInv, NEW c \in ToolCalls, ForgetShell(c) PROVE ShellsInv'
<1> DEFINE to == [at |-> "idle"]
<1>1. toolCall' = [toolCall EXCEPT ![c] = to] BY DEF ForgetShell, Call
<1>2. to.at = "idle" OBVIOUS
<1> HIDE DEF to
<1>3. ToolCallOK(c) /\ toolCall[c].at = "forget" BY DEF ForgetShell, ShellsInv
<1>4. /\ shellMap' \subseteq shellMap
      /\ \A s \in Shells : s \in shellMap /\ s \notin shellMap' => ReadInFull(s)
  BY <1>3 DEF ForgetShell, Finished, ToolCallOK
<1>5. QED BY <1>1, <1>2, <1>4, CallSteps DEF ForgetShell

LEMMA KillReadsStep ==
    ASSUME ShellsInv, NEW c \in ToolCalls, KillReads(c) PROVE ShellsInv'
<1> DEFINE to == IF IsRunning(toolCall[c].shell) THEN [toolCall[c] EXCEPT !.at = "signal"] ELSE [at |-> "idle"]
<1>1. toolCall' = [toolCall EXCEPT ![c] = to] BY DEF KillReads, Call
<1>2. to.at \in {"signal", "idle"} /\ (to.at # "idle" => to.shell = toolCall[c].shell)
  <2>1. [at |-> "idle"].at = "idle" OBVIOUS
  <2>2. toolCall[c].at = "kill" BY DEF KillReads
  <2>3. CASE IsRunning(toolCall[c].shell)
    <3>1. [toolCall[c] EXCEPT !.at = "signal"].shell = toolCall[c].shell OBVIOUS
    <3>2. [toolCall[c] EXCEPT !.at = "signal"].at \in {"signal", "kill"} OBVIOUS
    <3>3. QED BY <2>3, <3>1, <3>2
  <2>4. CASE ~IsRunning(toolCall[c].shell) BY <2>1, <2>4
  <2>5. QED BY <2>3, <2>4
<1> HIDE DEF to
<1>3. toolCall[c].shell \in Shells /\ process[toolCall[c].shell] # "none"
  BY DEF KillReads, ShellsInv, ToolCallOK
<1>4. QED BY <1>1, <1>2, <1>3, CallSteps DEF KillReads

LEMMA KillSignalsStep ==
    ASSUME ShellsInv, NEW c \in ToolCalls, KillSignals(c) PROVE ShellsInv'
<1> DEFINE to == [at |-> "idle"]
<1>1. toolCall' = [toolCall EXCEPT ![c] = to] BY DEF KillSignals, Call
<1>2. to.at = "idle" OBVIOUS
<1> HIDE DEF to
<1>3. signalled \subseteq signalled' BY DEF KillSignals, Signalled
<1>4. QED BY <1>1, <1>2, <1>3, CallSteps DEF KillSignals

\* Numbers in order, and then the next n of them.
LEMMA NumbersInOrder ==
    ASSUME NEW m \in Nat, NEW n \in Nat, NEW reach \in Nat, NEW all,
           \A i \in 1 .. m : all[i] \in Nat /\ all[i] <= reach,
           \A i, j \in 1 .. m : i < j => all[i] < all[j],
           \A i \in m + 1 .. m + n : all[i] = reach + (i - m)
    PROVE  /\ \A i \in 1 .. m + n : all[i] <= reach + n
           /\ \A i, j \in 1 .. m + n : i < j => all[i] < all[j]
<1>1. ASSUME NEW i \in 1 .. m + n PROVE all[i] <= reach + n
  <2>1. CASE i <= m
    <3>1. all[i] \in Nat /\ all[i] <= reach BY <2>1
    <3>2. QED BY <3>1
  <2>2. CASE m < i
    <3>1. all[i] = reach + (i - m) BY <2>2
    <3>2. QED BY <3>1
  <2>3. QED BY <2>1, <2>2
<1>2. ASSUME NEW i \in 1 .. m + n, NEW j \in 1 .. m + n, i < j PROVE all[i] < all[j]
  <2>1. CASE j <= m
    <3>1. i \in 1 .. m /\ j \in 1 .. m BY <1>2, <2>1
    <3>2. QED BY <1>2, <3>1
  <2>2. CASE i <= m /\ m < j
    <3>1. all[i] \in Nat /\ all[i] <= reach BY <2>2
    <3>2. all[j] = reach + (j - m) BY <2>2
    <3>3. QED BY <2>2, <3>1, <3>2
  <2>3. CASE m < i
    <3>1. all[i] = reach + (i - m) /\ all[j] = reach + (j - m) BY <1>2, <2>3
    <3>2. QED BY <1>2, <3>1
  <2>4. QED BY <1>2, <2>1, <2>2, <2>3
<1>3. QED BY <1>1, <1>2

Increasing(seq) == \A i, j \in DOMAIN seq : i < j => seq[i] < seq[j]
UpTo(seq, n) == \A i \in DOMAIN seq : seq[i] <= n
Following(reach, n) == [k \in 1 .. n |-> reach + k]

LEMMA InOrder ==
    ASSUME NEW old \in Seq(Nat), NEW reach \in Nat, NEW n \in Nat, UpTo(old, reach), Increasing(old)
    PROVE  LET all == old \o Following(reach, n)
           IN  /\ all \in Seq(Nat) /\ Len(all) = Len(old) + n
               /\ UpTo(all, reach + n) /\ Increasing(all)
<1> DEFINE more == [k \in 1 .. n |-> reach + k]
<1>0. PICK all : all = old \o more OBVIOUS
<1>1. more \in Seq(Nat) /\ Len(more) = n
  <2>1. more \in [1 .. n -> Nat] OBVIOUS
  <2>2. QED BY <2>1
<1>2. Len(old) \in Nat /\ DOMAIN old = 1 .. Len(old) OBVIOUS
<1>3. /\ all \in Seq(Nat) /\ Len(all) = Len(old) + n
      /\ \A i \in 1 .. Len(old) + n : all[i] = IF i <= Len(old) THEN old[i] ELSE more[i - Len(old)]
  BY <1>0, <1>1, ConcatProperties
<1>4. DOMAIN all = 1 .. Len(old) + n BY <1>3
<1> DEFINE m == Len(old)
<1>5. ASSUME NEW i \in 1 .. m PROVE all[i] = old[i] /\ old[i] \in Nat /\ old[i] <= reach
  <2>1. i \in 1 .. m + n /\ i <= m BY <1>2
  <2>2. all[i] = old[i] BY <1>3, <2>1
  <2>3. i \in DOMAIN old /\ old[i] \in Nat BY <1>2, ElementOfSeq
  <2>4. old[i] <= reach BY <2>3 DEF UpTo
  <2>5. QED BY <2>2, <2>3, <2>4
<1>6. ASSUME NEW i \in m + 1 .. m + n PROVE all[i] = reach + (i - m)
  <2>1. i \in 1 .. m + n /\ ~(i <= m) /\ i - m \in 1 .. n BY <1>2
  <2>2. all[i] = more[i - m] BY <1>3, <2>1
  <2>3. QED BY <2>1, <2>2
<1>7. \A i, j \in 1 .. m : i < j => all[i] < all[j]
  <2>1. \A i, j \in 1 .. m : i < j => old[i] < old[j] BY <1>2 DEF Increasing
  <2>2. QED BY <1>5, <2>1
<1>8. m \in Nat BY <1>2
<1> HIDE DEF m
<1>9. /\ \A i \in 1 .. m + n : all[i] <= reach + n
      /\ \A i, j \in 1 .. m + n : i < j => all[i] < all[j]
  <2>1. \A i \in 1 .. m : all[i] \in Nat /\ all[i] <= reach BY <1>5
  <2>2. \A i \in m + 1 .. m + n : all[i] = reach + (i - m) BY <1>6
  <2>3. QED BY <1>7, <1>8, <2>1, <2>2, NumbersInOrder, Zenon
<1>10. UpTo(all, reach + n) /\ Increasing(all) BY <1>4, <1>9 DEF m, UpTo, Increasing
<1>11. QED BY <1>0, <1>3, <1>10 DEF Following

\* What is read follows what was read before, and reaches the end of the buffer.
LEMMA ReadOutputStep ==
    ASSUME ShellsInv, NEW c \in ToolCalls, ReadOutput(c) PROVE ShellsInv'
<1>1. PICK s \in Shells : s = toolCall[c].shell /\ process[s] # "none"
  BY DEF ReadOutput, ShellsInv, ToolCallOK
<1> DEFINE b == buffer[s]
           reach == b.from + b.readOffset
           n == b.to - b.from - b.readOffset
           more == [k \in 1 .. n |-> reach + k]
<1>2. /\ got' = [got EXCEPT ![s] = @ \o more]
      /\ reported' = [reported EXCEPT ![s] = @ + b.unreadDropped]
      /\ buffer' = [buffer EXCEPT ![s].readOffset = b.to - b.from, ![s].unreadDropped = 0]
      /\ toolCall' = [toolCall EXCEPT ![c] = [at |-> "forget", shell |-> s, running |-> IsRunning(s)]]
      /\ UNCHANGED <<process, signalled, shellMap, closed, baseDone, closer>>
  BY <1>1 DEF ReadOutput, Call
<1>3. BufferOK(s) /\ ShellOK(s) BY DEF ShellsInv
<1>4. b \in Buffer /\ reach <= b.to BY <1>3 DEF BufferOK
<1>5. b.from \in Nat /\ b.to \in Nat /\ b.readOffset \in Nat /\ b.unreadDropped \in Nat
  BY <1>4 DEF Buffer
<1>6. reach \in Nat /\ n \in Nat /\ reach + n = b.to BY <1>4, <1>5
<1>7. /\ got[s] \in Seq(Nat) /\ Len(got[s]) \in Nat /\ reported[s] \in Nat
      /\ Len(got[s]) + reported[s] + b.unreadDropped = reach
      /\ \A i \in DOMAIN got[s] : got[s][i] <= reach
      /\ \A i, j \in DOMAIN got[s] : i < j => got[s][i] < got[s][j]
  BY <1>3 DEF BufferOK
<1> DEFINE all == got[s] \o more
<1>8. DOMAIN got' = Shells /\ got'[s] = all /\ \A t \in Shells \ {s} : got'[t] = got[t]
  BY <1>2 DEF ShellsInv
<1>9. /\ DOMAIN reported' = Shells /\ reported'[s] = reported[s] + b.unreadDropped
      /\ \A t \in Shells \ {s} : reported'[t] = reported[t]
  BY <1>2 DEF ShellsInv
<1>10. /\ DOMAIN buffer' = Shells /\ \A t \in Shells \ {s} : buffer'[t] = buffer[t]
       /\ buffer'[s] = [b EXCEPT !.readOffset = b.to - b.from, !.unreadDropped = 0]
  BY <1>2 DEF ShellsInv
<1>11. /\ all \in Seq(Nat) /\ Len(all) = Len(got[s]) + n
       /\ \A i \in DOMAIN all : all[i] <= b.to
       /\ \A i, j \in DOMAIN all : i < j => all[i] < all[j]
  <2> HIDE DEF n, reach
  <2>1. more = Following(reach, n) BY DEF Following
  <2> HIDE DEF more
  <2>2. all = got[s] \o more OBVIOUS
  <2> HIDE DEF all
  <2>3. got[s] \in Seq(Nat) /\ UpTo(got[s], reach) /\ Increasing(got[s])
    BY <1>7 DEF UpTo, Increasing
  <2>4. reach \in Nat /\ n \in Nat /\ reach + n = b.to BY <1>6
  <2>5. /\ all \in Seq(Nat) /\ Len(all) = Len(got[s]) + n
        /\ UpTo(all, reach + n) /\ Increasing(all)
    BY <2>1, <2>2, <2>3, <2>4, InOrder
  <2>6. QED BY <2>4, <2>5 DEF UpTo, Increasing
<1> DEFINE new == buffer'[s]
<1>12. /\ new = [from |-> new.from, to |-> new.to, readOffset |-> new.readOffset, unreadDropped |-> new.unreadDropped]
       /\ new.from = b.from /\ new.to = b.to /\ new.readOffset = b.to - b.from /\ new.unreadDropped = 0
  <2> HIDE DEF b
  <2>1. QED BY <1>4, <1>10 DEF Buffer
<1>13. new \in Buffer /\ new.from + new.readOffset = b.to
  <2>1. b.to - b.from \in Nat BY <1>4, <1>5
  <2> HIDE DEF b, new
  <2>2. new.from \in Nat /\ new.to \in Nat /\ new.readOffset \in Nat /\ new.unreadDropped \in Nat
    BY <1>5, <1>12, <2>1
  <2>3. new.from + new.readOffset = b.to BY <1>5, <1>12
  <2>4. QED BY <1>12, <2>2, <2>3 DEF Buffer
<1> HIDE DEF all, n, more
<1>14. BufferOK(s)'
  <2>1. Len(all) + reported'[s] + 0 = b.to /\ reported'[s] \in Nat
    <3>1. reported'[s] \in Nat BY <1>5, <1>7, <1>9
    <3> DEFINE length == Len(got[s])
               dropped == b.unreadDropped
    <3>2. /\ length \in Nat /\ dropped \in Nat /\ reported[s] \in Nat
          /\ length + reported[s] + dropped = reach
      BY <1>5, <1>7
    <3> HIDE DEF length, dropped, reach, b
    <3>3. Len(all) = length + n /\ reported'[s] = reported[s] + dropped BY <1>9, <1>11 DEF length, dropped
    <3>4. QED BY <1>6, <3>1, <3>2, <3>3, SMTT(20)
  <2>2. b.to <= b.to BY <1>5
  <2> HIDE DEF b
  <2>3. QED BY <1>8, <1>11, <1>12, <1>13, <2>1, <2>2 DEF BufferOK
<1>15. ReadInFull(s) => ReadInFull(s)' BY <1>2, <1>12, <1>13 DEF ReadInFull
<1>16. ~IsRunning(s) => ReadInFull(s)'
  BY <1>1, <1>2, <1>3, <1>12, <1>13 DEF ShellOK, IsRunning, ReadInFull
<1>17. \A t \in Shells : ReadInFull(t) => ReadInFull(t)'
  <2>1. ASSUME NEW t \in Shells, t # s, ReadInFull(t) PROVE ReadInFull(t)'
    BY <2>1, <1>2, <1>10 DEF ReadInFull
  <2>2. QED BY <1>15, <2>1
<1>18. DOMAIN toolCall' = ToolCalls /\ \A d \in ToolCalls : ToolCallOK(d)'
  <2> DEFINE to == [at |-> "forget", shell |-> s, running |-> IsRunning(s)]
  <2>1. to.at = "forget" /\ to.shell = s /\ to.running = IsRunning(s) OBVIOUS
  <2>2. toolCall' = [toolCall EXCEPT ![c] = to] BY <1>2
  <2> HIDE DEF to
  <2>3. QED BY <1>1, <1>2, <1>16, <1>17, <2>1, <2>2, OneToolCall
<1>19. ShellOK(s)' BY <1>2, <1>3, <1>15 DEF ShellOK, IsRunning
<1>20. QED BY <1>2, <1>8, <1>9, <1>10, <1>14, <1>18, <1>19, OtherShells DEF ShellsInv

\* A step of Close, which leaves the output and the calls alone.
LEMMA CloserMoves ==
    ASSUME ShellsInv,
           UNCHANGED <<process, shellMap, buffer, got, reported, toolCall>>,
           closer' \in [at : {"open", "kill", "wait", "allEnded", "tooLate"}, saw : SUBSET Shells],
           closer'.at = "open" <=> ~closed', \A s \in Shells : ShellOK(s)'
    PROVE  ShellsInv'
<1>1. \A s \in Shells : ReadInFull(s) => ReadInFull(s)' BY DEF ReadInFull
<1>2. DOMAIN toolCall' = ToolCalls /\ \A c \in ToolCalls : ToolCallOK(c)' BY <1>1, SameCalls
<1>3. \A s \in Shells : BufferOK(s)' BY DEF ShellsInv, BufferOK
<1>4. QED BY <1>2, <1>3 DEF ShellsInv

\* Every shell that runs is in the map, and Close sees the map under the lock that
\* keeps others from starting.
LEMMA CloseBeginsStep ==
    ASSUME ShellsInv, CloseBegins PROVE ShellsInv'
<1>1. /\ closed' = TRUE /\ closer' = [at |-> "kill", saw |-> shellMap]
      /\ UNCHANGED <<process, signalled, shellMap, buffer, got, reported, toolCall, baseDone>>
  BY DEF CloseBegins
<1>2. closer' \in [at : {"open", "kill", "wait", "allEnded", "tooLate"}, saw : SUBSET Shells]
      /\ closer'.at = "kill" /\ closer'.saw = shellMap
  BY <1>1 DEF ShellsInv
<1>3. ASSUME NEW s \in Shells PROVE ShellOK(s)'
  BY <1>1, <1>2 DEF ShellsInv, ShellOK, ReadInFull, IsRunning
<1>4. QED BY <1>1, <1>2, <1>3, CloserMoves

LEMMA CloseKillsStep ==
    ASSUME ShellsInv, CloseKills PROVE ShellsInv'
<1>1. /\ closer.at = "kill"
      /\ UNCHANGED <<process, shellMap, buffer, got, reported, toolCall, closed, baseDone>>
  BY DEF CloseKills
<1> DEFINE left == {s \in closer.saw : process[s] = "alive" /\ s \notin signalled}
<1>2. CASE UNCHANGED closer /\ signalled \subseteq signalled'
  <2>1. ASSUME NEW s \in Shells PROVE ShellOK(s)'
    BY <1>1, <1>2 DEF ShellsInv, ShellOK, ReadInFull, IsRunning
  <2>2. QED BY <1>1, <1>2, <2>1, CloserMoves DEF ShellsInv
<1>3. CASE left = {} /\ closer' = [closer EXCEPT !.at = "wait"] /\ UNCHANGED signalled
  <2>1. closer' \in [at : {"open", "kill", "wait", "allEnded", "tooLate"}, saw : SUBSET Shells]
        /\ closer'.at = "wait" /\ closer'.saw = closer.saw
    BY <1>3 DEF ShellsInv
  <2>2. closed BY <1>1 DEF ShellsInv
  <2>3. ASSUME NEW s \in Shells, process[s] = "alive" PROVE s \in signalled
    <3>1. s \in closer.saw BY <2>2, <2>3 DEF ShellsInv, ShellOK, IsRunning
    <3>2. QED BY <1>3, <2>3, <3>1
  <2>4. ASSUME NEW s \in Shells PROVE ShellOK(s)'
    BY <1>1, <1>3, <2>1, <2>3 DEF ShellsInv, ShellOK, ReadInFull, IsRunning
  <2>5. QED BY <1>1, <2>1, <2>2, <2>4, CloserMoves
<1>4. QED BY <1>2, <1>3 DEF CloseKills, Signalled

LEMMA CloseWaitedStep ==
    ASSUME ShellsInv, CloseWaited PROVE ShellsInv'
<1> DEFINE at == IF \A s \in closer.saw : process[s] = "waited" THEN "allEnded" ELSE "tooLate"
<1>1. /\ closer.at = "wait" /\ closer' = [closer EXCEPT !.at = at]
      /\ UNCHANGED <<process, signalled, shellMap, buffer, got, reported, toolCall, closed, baseDone>>
  BY DEF CloseWaited
<1>2. at \in {"allEnded", "tooLate"} /\ (at = "allEnded" => \A s \in closer.saw : process[s] = "waited")
  OBVIOUS
<1> HIDE DEF at
<1>3. closer' \in [at : {"open", "kill", "wait", "allEnded", "tooLate"}, saw : SUBSET Shells]
      /\ closer'.at = at /\ closer'.saw = closer.saw
  BY <1>1, <1>2 DEF ShellsInv
<1>4. closed BY <1>1 DEF ShellsInv
<1>5. ASSUME NEW s \in Shells PROVE ShellOK(s)'
  <2>1. ShellOK(s) BY DEF ShellsInv
  <2>2. IsRunning(s) => s \in closer.saw BY <1>4, <2>1 DEF ShellOK
  <2>3. at = "allEnded" => ~IsRunning(s) BY <1>2, <2>2 DEF IsRunning
  <2>4. QED BY <1>1, <1>2, <1>3, <2>1, <2>3 DEF ShellOK, ReadInFull, IsRunning
<1>6. QED BY <1>1, <1>2, <1>3, <1>4, <1>5, CloserMoves

LEMMA CloseReturnsStep ==
    ASSUME ShellsInv, CloseReturns PROVE ShellsInv'
<1>1. UNCHANGED <<process, signalled, shellMap, buffer, got, reported, toolCall, closed, closer>>
  BY DEF CloseReturns
<1>2. ASSUME NEW s \in Shells PROVE ShellOK(s)'
  BY <1>1 DEF ShellsInv, ShellOK, ReadInFull, IsRunning
<1>3. QED BY <1>1, <1>2, CloserMoves DEF ShellsInv

\* The background shells: whatever they write, and however reads of them, kills, their
\* ends and Close interleave, bash_output returns every byte once and in order or says
\* that it was dropped, a shell is forgotten only when it has ended and was read in
\* full, and none outlives a Close that had the time it waits for.
THEOREM ShellsAreAccountedFor == ShellSpec => []ShellsAreAccounted
<1>1. ShellInit => ShellsInv BY ShellsInvInit
<1>2. ShellsInv /\ [ShellNext]_shellVars => ShellsInv'
  <2> SUFFICES ASSUME ShellsInv, [ShellNext]_shellVars PROVE ShellsInv' OBVIOUS
  <2>1. CASE UNCHANGED shellVars
    <3>1. \A s \in Shells : ReadInFull(s) => ReadInFull(s)' BY <2>1 DEF shellVars, ReadInFull
    <3>2. ASSUME NEW s \in Shells PROVE ShellOK(s)'
      BY <2>1 DEF shellVars, ShellsInv, ShellOK, ReadInFull, IsRunning
    <3>3. QED BY <2>1, <3>2, CloserMoves DEF shellVars, ShellsInv
  <2>2. ASSUME NEW s \in Shells,
               StartBackground(s) \/ Write(s) \/ Exit(s) \/ BaseKills(s) \/ WaitReturns(s)
        PROVE  ShellsInv'
    BY <2>2, ShellConstants, StartBackgroundStep, WriteStep, ExitStep, BaseKillsStep, WaitReturnsStep
  <2>3. ASSUME NEW c \in ToolCalls,
               \/ ReadOutput(c) \/ ForgetShell(c) \/ KillReads(c) \/ KillSignals(c)
               \/ \E s \in Shells : LookUp(c, s)
        PROVE  ShellsInv'
    BY <2>3, ReadOutputStep, ForgetShellStep, KillReadsStep, KillSignalsStep, LookUpStep
  <2>4. CASE CloseBegins \/ CloseKills \/ CloseWaited \/ CloseReturns
    BY <2>4, CloseBeginsStep, CloseKillsStep, CloseWaitedStep, CloseReturnsStep
  <2>5. QED BY <2>1, <2>2, <2>3, <2>4 DEF ShellNext
<1>3. ShellsInv => ShellsAreAccounted BY ShellsInvHolds
<1>4. QED BY <1>1, <1>2, <1>3, PTL DEF ShellSpec
=============================================================================

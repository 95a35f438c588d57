----------------------------- MODULE CallProofs -----------------------------
(***************************************************************************)
(* Proofs about what an agent asks of a model and of a vector store.  A    *)
(* caller gets one answer, and the limiter admits no more calls at once    *)
(* than it has slots, for any callers, attempts and slots; the answers     *)
(* that the semantic cache serves fit, for any callers, conversations and  *)
(* contracts; and ingestions store chunks that queries find, for any       *)
(* source, batches and conditions.                                         *)
(***************************************************************************)
EXTENDS LLMCalls, AnswerCache, Retrieval, FiniteSetTheorems, TLAPS

-----------------------------------------------------------------------------
(* Retries and the limiter *)

Waiting == {"idle", "attempt", "acquire", "awaitToken", "slot", "awaitSlot", "backoff"}

CallType ==
    [at : Waiting \cup {"calling", "failed"} \cup Ended, stream : BOOLEAN,
     ctx : {"live", "canceled", "deadline"}, attempt : 1 .. MaxAttempts,
     got : Seq(Nat \X Nat), yielded : BOOLEAN, why : Failures \cup {"none"}]

\* A call that waits for its next attempt has got nothing; "yielded" says whether the
\* attempt under way has given the caller anything; and an error that names the
\* context or the limiter's end was caused by it.
CallOK(c) ==
    LET call == llm[c]
    IN  /\ \A k \in DOMAIN call.got : call.got[k] = <<call.attempt, k>>
        /\ call.at = "calling" <=> c \in holders
        /\ call.at \in Waiting => call.got = <<>>
        /\ call.at \notin Ended => (call.yielded <=> call.got # <<>>)
        /\ call.at = "backoff" => call.attempt < MaxAttempts
        /\ call.at = "ok" => call.got # <<>>
        /\ call.at = "exhausted" => call.attempt = MaxAttempts /\ call.got = <<>>
        /\ call.at = "failed" =>
               /\ call.why # "none"
               /\ call.why \in {"canceled", "deadline"} => call.ctx = call.why
               /\ call.why = "stopped" => stopped
        /\ call.at \in {"canceled", "deadline"} => call.ctx = call.at
        /\ call.at = "stopped" => stopped
        /\ call.at = "retryable" => call.got # <<>>

CallInv ==
    /\ llm \in [LLMCallers -> CallType]
    /\ IsFiniteSet(holders) /\ Cardinality(holders) <= MaxConcurrent
    /\ \A c \in LLMCallers : CallOK(c)

LEMMA CallInvInit == ASSUME CallConstants, CallInit PROVE CallInv
<1>1. llm \in [LLMCallers -> CallType]
  BY DEF CallInit, CallType, Waiting, CallConstants
<1>2. IsFiniteSet(holders) /\ Cardinality(holders) <= MaxConcurrent
  BY FS_EmptySet DEF CallInit, CallConstants
<1>3. \A c \in LLMCallers : CallOK(c)
  BY DEF CallInit, CallOK, Waiting, Ended, Failures
<1>4. QED BY <1>1, <1>2, <1>3 DEF CallInv

-----------------------------------------------------------------------------
\* What every step knows of the call that moves.
LEMMA CallIsOK ==
    ASSUME CallInv, NEW c \in LLMCallers
    PROVE  CallOK(c) /\ llm[c] \in CallType
BY DEF CallInv

\* What Set leaves of the calls, whatever it sets.
LEMMA SetShape ==
    ASSUME CallInv, NEW c \in LLMCallers, NEW fields, Set(c, fields)
    PROVE  /\ llm' = [d \in LLMCallers |-> llm'[d]]
           /\ \A d \in LLMCallers \ {c} : llm'[d] = llm[d]
           /\ llm'[c] = [f \in {"at", "stream", "ctx", "attempt", "got", "yielded", "why"} |->
                            IF f \in DOMAIN fields THEN fields[f] ELSE llm[c][f]]
           /\ llm'[c] = [at |-> llm'[c].at, stream |-> llm'[c].stream, ctx |-> llm'[c].ctx,
                         attempt |-> llm'[c].attempt, got |-> llm'[c].got,
                         yielded |-> llm'[c].yielded, why |-> llm'[c].why]
<1>1. llm' = [llm EXCEPT ![c] = [f \in DOMAIN @ |-> IF f \in DOMAIN fields THEN fields[f] ELSE @[f]]]
  BY DEF Set
<1>2. DOMAIN llm[c] = {"at", "stream", "ctx", "attempt", "got", "yielded", "why"}
  BY CallIsOK DEF CallType
<1>3. llm \in [LLMCallers -> CallType] BY DEF CallInv
<1>4. llm'[c] = [f \in {"at", "stream", "ctx", "attempt", "got", "yielded", "why"} |->
                    IF f \in DOMAIN fields THEN fields[f] ELSE llm[c][f]]
  BY <1>1, <1>2, <1>3
<1>5. QED BY <1>1, <1>3, <1>4

\* And what it makes of the call it sets: what "fields" says, or what was there.
FieldsAre(c, fields) ==
    /\ llm'[c].at = IF "at" \in DOMAIN fields THEN fields.at ELSE llm[c].at
    /\ llm'[c].stream = IF "stream" \in DOMAIN fields THEN fields.stream ELSE llm[c].stream
    /\ llm'[c].ctx = IF "ctx" \in DOMAIN fields THEN fields.ctx ELSE llm[c].ctx
    /\ llm'[c].attempt = IF "attempt" \in DOMAIN fields THEN fields.attempt ELSE llm[c].attempt
    /\ llm'[c].got = IF "got" \in DOMAIN fields THEN fields.got ELSE llm[c].got
    /\ llm'[c].yielded = IF "yielded" \in DOMAIN fields THEN fields.yielded ELSE llm[c].yielded
    /\ llm'[c].why = IF "why" \in DOMAIN fields THEN fields.why ELSE llm[c].why

LEMMA SetFields ==
    ASSUME CallInv, NEW c \in LLMCallers, NEW fields, Set(c, fields)
    PROVE  FieldsAre(c, fields)
<1>1. llm'[c] = [f \in {"at", "stream", "ctx", "attempt", "got", "yielded", "why"} |->
                    IF f \in DOMAIN fields THEN fields[f] ELSE llm[c][f]]
  BY SetShape
<1>2. QED BY <1>1 DEF FieldsAre

\* The fields of a call, and of what a step makes of it.
LEMMA FieldTypes ==
    ASSUME NEW call \in CallType
    PROVE  /\ call.at \in Waiting \cup {"calling", "failed"} \cup Ended
           /\ call.stream \in BOOLEAN /\ call.ctx \in {"live", "canceled", "deadline"}
           /\ call.attempt \in 1 .. MaxAttempts /\ call.got \in Seq(Nat \X Nat)
           /\ call.yielded \in BOOLEAN /\ call.why \in Failures \cup {"none"}
BY DEF CallType

LEMMA CallTypeKept ==
    ASSUME CallInv, NEW c \in LLMCallers, NEW fields, Set(c, fields),
           llm'[c].at \in Waiting \cup {"calling", "failed"} \cup Ended,
           llm'[c].ctx \in {"live", "canceled", "deadline"},
           llm'[c].attempt \in 1 .. MaxAttempts, llm'[c].got \in Seq(Nat \X Nat),
           llm'[c].yielded \in BOOLEAN, llm'[c].why \in Failures \cup {"none"},
           llm'[c].stream = llm[c].stream
    PROVE  llm'[c] \in CallType
<1> DEFINE call == llm'[c]
<1>1. call = [at |-> call.at, stream |-> call.stream, ctx |-> call.ctx,
              attempt |-> call.attempt, got |-> call.got,
              yielded |-> call.yielded, why |-> call.why]
  BY SetShape
<1>2. call.stream \in BOOLEAN BY CallIsOK, FieldTypes
<1> HIDE DEF call
<1>3. [at |-> call.at, stream |-> call.stream, ctx |-> call.ctx, attempt |-> call.attempt,
       got |-> call.got, yielded |-> call.yielded, why |-> call.why] \in CallType
  BY <1>2 DEF CallType, call
<1>4. QED BY <1>1, <1>3 DEF call

\* A step of one call, with the limiter as it may move, keeps the others.
LEMMA OneCallMoves ==
    ASSUME CallInv, NEW c \in LLMCallers,
           llm' = [d \in LLMCallers |-> llm'[d]], \A d \in LLMCallers \ {c} : llm'[d] = llm[d],
           llm'[c] \in CallType, CallOK(c)',
           stopped => stopped', holders' \ {c} = holders \ {c},
           IsFiniteSet(holders'), Cardinality(holders') <= MaxConcurrent
    PROVE  CallInv'
<1>1. llm' \in [LLMCallers -> CallType]
  <2>1. \A d \in LLMCallers : llm'[d] \in CallType BY DEF CallInv
  <2>2. QED BY <2>1
<1>2. ASSUME NEW d \in LLMCallers \ {c} PROVE CallOK(d)'
  BY DEF CallInv, CallOK
<1>3. QED BY <1>1, <1>2 DEF CallInv
\* The same for a step that leaves the slots alone.
LEMMA OneCallWaits ==
    ASSUME CallInv, NEW c \in LLMCallers, NEW fields, Set(c, fields),
           llm'[c] \in CallType, CallOK(c)',
           UNCHANGED <<holders, stopped>>
    PROVE  CallInv'
BY SetShape, OneCallMoves DEF CallInv

\* A call after a step, field by field.
Becomes(c, at, ctx, attempt, got, yielded, why) ==
    /\ llm'[c].at = at /\ llm'[c].stream = llm[c].stream /\ llm'[c].ctx = ctx
    /\ llm'[c].attempt = attempt /\ llm'[c].got = got
    /\ llm'[c].yielded = yielded /\ llm'[c].why = why

LEMMA SetAt ==
    ASSUME CallInv, NEW c \in LLMCallers, NEW a, Set(c, [at |-> a])
    PROVE  Becomes(c, a, llm[c].ctx, llm[c].attempt, llm[c].got, llm[c].yielded, llm[c].why)
<1> DEFINE fields == [at |-> a]
<1>1. DOMAIN fields = {"at"} /\ fields.at = a OBVIOUS
<1>2. Set(c, fields) OBVIOUS
<1> HIDE DEF fields
<1>3. FieldsAre(c, fields) BY <1>2, SetFields
<1>4. QED BY <1>1, <1>3 DEF FieldsAre, Becomes

LEMMA SetCtx ==
    ASSUME CallInv, NEW c \in LLMCallers, NEW x, Set(c, [ctx |-> x])
    PROVE  Becomes(c, llm[c].at, x, llm[c].attempt, llm[c].got, llm[c].yielded, llm[c].why)
<1> DEFINE fields == [ctx |-> x]
<1>1. DOMAIN fields = {"ctx"} /\ fields.ctx = x OBVIOUS
<1>2. Set(c, fields) OBVIOUS
<1> HIDE DEF fields
<1>3. FieldsAre(c, fields) BY <1>2, SetFields
<1>4. QED BY <1>1, <1>3 DEF FieldsAre, Becomes

LEMMA SetAtWhy ==
    ASSUME CallInv, NEW c \in LLMCallers, NEW a, NEW w, Set(c, [at |-> a, why |-> w])
    PROVE  Becomes(c, a, llm[c].ctx, llm[c].attempt, llm[c].got, llm[c].yielded, w)
<1> DEFINE fields == [at |-> a, why |-> w]
<1>1. DOMAIN fields = {"at", "why"} /\ fields.at = a /\ fields.why = w OBVIOUS
<1>2. Set(c, fields) OBVIOUS
<1> HIDE DEF fields
<1>3. FieldsAre(c, fields) BY <1>2, SetFields
<1>4. QED BY <1>1, <1>3 DEF FieldsAre, Becomes

LEMMA SetAtYielded ==
    ASSUME CallInv, NEW c \in LLMCallers, NEW a, NEW y, Set(c, [at |-> a, yielded |-> y])
    PROVE  Becomes(c, a, llm[c].ctx, llm[c].attempt, llm[c].got, y, llm[c].why)
<1> DEFINE fields == [at |-> a, yielded |-> y]
<1>1. DOMAIN fields = {"at", "yielded"} /\ fields.at = a /\ fields.yielded = y OBVIOUS
<1>2. Set(c, fields) OBVIOUS
<1> HIDE DEF fields
<1>3. FieldsAre(c, fields) BY <1>2, SetFields
<1>4. QED BY <1>1, <1>3 DEF FieldsAre, Becomes

LEMMA SetAtGot ==
    ASSUME CallInv, NEW c \in LLMCallers, NEW a, NEW g, Set(c, [at |-> a, got |-> g])
    PROVE  Becomes(c, a, llm[c].ctx, llm[c].attempt, g, llm[c].yielded, llm[c].why)
<1> DEFINE fields == [at |-> a, got |-> g]
<1>1. DOMAIN fields = {"at", "got"} /\ fields.at = a /\ fields.got = g OBVIOUS
<1>2. Set(c, fields) OBVIOUS
<1> HIDE DEF fields
<1>3. FieldsAre(c, fields) BY <1>2, SetFields
<1>4. QED BY <1>1, <1>3 DEF FieldsAre, Becomes

LEMMA SetGotYielded ==
    ASSUME CallInv, NEW c \in LLMCallers, NEW g, NEW y, Set(c, [got |-> g, yielded |-> y])
    PROVE  Becomes(c, llm[c].at, llm[c].ctx, llm[c].attempt, g, y, llm[c].why)
<1> DEFINE fields == [got |-> g, yielded |-> y]
<1>1. DOMAIN fields = {"got", "yielded"} /\ fields.got = g /\ fields.yielded = y OBVIOUS
<1>2. Set(c, fields) OBVIOUS
<1> HIDE DEF fields
<1>3. FieldsAre(c, fields) BY <1>2, SetFields
<1>4. QED BY <1>1, <1>3 DEF FieldsAre, Becomes

LEMMA SetAtAttempt ==
    ASSUME CallInv, NEW c \in LLMCallers, NEW a, NEW n, Set(c, [at |-> a, attempt |-> n])
    PROVE  Becomes(c, a, llm[c].ctx, n, llm[c].got, llm[c].yielded, llm[c].why)
<1> DEFINE fields == [at |-> a, attempt |-> n]
<1>1. DOMAIN fields = {"at", "attempt"} /\ fields.at = a /\ fields.attempt = n OBVIOUS
<1>2. Set(c, fields) OBVIOUS
<1> HIDE DEF fields
<1>3. FieldsAre(c, fields) BY <1>2, SetFields
<1>4. QED BY <1>1, <1>3 DEF FieldsAre, Becomes

-----------------------------------------------------------------------------
(* The steps of a call *)

LEMMA CallBeginsStep ==
    ASSUME CallInv, NEW c \in LLMCallers, CallBegins(c) PROVE CallInv'
<1>1. Set(c, [at |-> "attempt"]) BY DEF CallBegins
<1>2. Becomes(c, "attempt", llm[c].ctx, llm[c].attempt, llm[c].got, llm[c].yielded, llm[c].why)
  BY <1>1, SetAt
<1>3. llm'[c] \in CallType
  BY <1>1, <1>2, CallIsOK, FieldTypes, CallTypeKept DEF Becomes, Waiting
<1>4. CallOK(c)'
  BY <1>2, CallIsOK DEF CallOK, CallBegins, Becomes, Waiting, Ended, Failures
<1>5. QED BY <1>1, <1>3, <1>4, OneCallWaits DEF CallBegins

\* An error that names the context was caused by it: a live one caused none.
LEMMA CtxEndsStep ==
    ASSUME CallInv, NEW c \in LLMCallers, CtxEnds(c) PROVE CallInv'
<1>1. PICK x \in {"canceled", "deadline"} : Set(c, [ctx |-> x]) BY DEF CtxEnds
<1>2. Becomes(c, llm[c].at, x, llm[c].attempt, llm[c].got, llm[c].yielded, llm[c].why)
  BY <1>1, SetCtx
<1>3. llm'[c] \in CallType
  BY <1>1, <1>2, CallIsOK, FieldTypes, CallTypeKept DEF Becomes
<1>4. CallOK(c)'
  BY <1>2, CallIsOK DEF CallOK, CtxEnds, Becomes, Waiting, Ended, Failures
<1>5. QED BY <1>1, <1>3, <1>4, OneCallWaits DEF CtxEnds

LEMMA AcquireStep ==
    ASSUME CallInv, NEW c \in LLMCallers, Acquire(c) PROVE CallInv'
<1>1. PICK a \in {"slot", "awaitToken"} : Set(c, [at |-> a]) BY DEF Acquire
<1>2. Becomes(c, a, llm[c].ctx, llm[c].attempt, llm[c].got, llm[c].yielded, llm[c].why)
  BY <1>1, SetAt
<1>3. llm'[c] \in CallType
  BY <1>1, <1>2, CallIsOK, FieldTypes, CallTypeKept DEF Becomes, Waiting
<1>4. CallOK(c)'
  BY <1>1, <1>2, CallIsOK DEF CallOK, Acquire, Becomes, Waiting, Ended, Failures
<1>5. UNCHANGED <<holders, stopped>> BY DEF Acquire
<1>6. QED BY <1>1, <1>3, <1>4, <1>5, OneCallWaits

\* The slot is the caller's own, and there was room for it.
LEMMA TakeASlotStep ==
    ASSUME CallInv, CallConstants, NEW c \in LLMCallers,
           llm[c].at \in {"slot", "awaitSlot"}, TakeASlot(c)
    PROVE  CallInv'
<1>1. Set(c, [at |-> "calling", yielded |-> FALSE]) BY DEF TakeASlot
<1>2. Becomes(c, "calling", llm[c].ctx, llm[c].attempt, llm[c].got, FALSE, llm[c].why)
  BY <1>1, SetAtYielded
<1>3. llm'[c] \in CallType
  BY <1>1, <1>2, CallIsOK, FieldTypes, CallTypeKept DEF Becomes
<1>4. /\ IsFiniteSet(holders) /\ Cardinality(holders) < MaxConcurrent
      /\ holders' = holders \cup {c} /\ UNCHANGED stopped
  BY DEF CallInv, TakeASlot, HasRoom
<1>5. CallOK(c)'
  BY <1>2, <1>4, CallIsOK DEF CallOK, Becomes, Waiting, Ended, Failures
<1>6. IsFiniteSet(holders') /\ Cardinality(holders') <= MaxConcurrent
  <2>1. /\ IsFiniteSet(holders')
        /\ Cardinality(holders') = Cardinality(holders) \/ Cardinality(holders') = Cardinality(holders) + 1
    BY <1>4, FS_AddElement
  <2>2. Cardinality(holders) \in Nat BY <1>4, FS_CardinalityType
  <2>3. QED BY <1>4, <2>1, <2>2 DEF CallConstants
<1>7. holders' \ {c} = holders \ {c} BY <1>4
<1>8. QED BY <1>1, <1>3, <1>4, <1>5, <1>6, <1>7, SetShape, OneCallMoves

LEMMA TrySlotStep ==
    ASSUME CallInv, CallConstants, NEW c \in LLMCallers, TrySlot(c) PROVE CallInv'
<1>1. CASE TakeASlot(c) BY <1>1, TakeASlotStep DEF TrySlot
<1>2. CASE Set(c, [at |-> "awaitSlot"]) /\ UNCHANGED <<tokens, spent, stopped, holders>>
  <2>1. Becomes(c, "awaitSlot", llm[c].ctx, llm[c].attempt, llm[c].got, llm[c].yielded, llm[c].why)
    BY <1>2, SetAt
  <2>2. llm'[c] \in CallType
    BY <1>2, <2>1, CallIsOK, FieldTypes, CallTypeKept DEF Becomes, Waiting
  <2>3. CallOK(c)'
    BY <1>2, <2>1, CallIsOK DEF CallOK, TrySlot, Becomes, Waiting, Ended, Failures
  <2>4. QED BY <1>2, <2>2, <2>3, OneCallWaits
<1>3. QED BY <1>1, <1>2 DEF TrySlot

LEMMA GivesUpStep ==
    ASSUME CallInv, NEW c \in LLMCallers, llm[c].at \in {"awaitToken", "awaitSlot"}, GivesUp(c)
    PROVE  CallInv'
<1>1. PICK w \in {"canceled", "deadline", "stopped"} :
          /\ Set(c, [at |-> "failed", why |-> w])
          /\ w = llm[c].ctx \/ (w = "stopped" /\ stopped)
  BY CallIsOK, FieldTypes DEF GivesUp
<1>2. Becomes(c, "failed", llm[c].ctx, llm[c].attempt, llm[c].got, llm[c].yielded, w)
  BY <1>1, SetAtWhy
<1>3. llm'[c] \in CallType
  BY <1>1, <1>2, CallIsOK, FieldTypes, CallTypeKept DEF Becomes, Failures
<1>4. UNCHANGED <<holders, stopped>> BY DEF GivesUp
<1>5. CallOK(c)'
  BY <1>1, <1>2, <1>4, CallIsOK, FieldTypes DEF CallOK, Becomes, Waiting, Ended, Failures
<1>6. QED BY <1>1, <1>3, <1>4, <1>5, OneCallWaits

LEMMA BlockStep ==
    ASSUME CallInv, CallConstants, NEW c \in LLMCallers, Block(c) PROVE CallInv'
<1>1. CASE llm[c].at = "awaitToken" /\ Set(c, [at |-> "awaitSlot"]) /\ UNCHANGED <<stopped, holders>>
  <2>1. Becomes(c, "awaitSlot", llm[c].ctx, llm[c].attempt, llm[c].got, llm[c].yielded, llm[c].why)
    BY <1>1, SetAt
  <2>2. llm'[c] \in CallType
    BY <1>1, <2>1, CallIsOK, FieldTypes, CallTypeKept DEF Becomes, Waiting
  <2>3. CallOK(c)'
    BY <1>1, <2>1, CallIsOK DEF CallOK, Becomes, Waiting, Ended, Failures
  <2>4. QED BY <1>1, <2>2, <2>3, OneCallWaits
<1>2. CASE llm[c].at = "awaitSlot" /\ TakeASlot(c) BY <1>2, TakeASlotStep
<1>3. CASE llm[c].at \in {"awaitToken", "awaitSlot"} /\ GivesUp(c) BY <1>3, GivesUpStep
<1>4. QED BY <1>1, <1>2, <1>3 DEF Block

-----------------------------------------------------------------------------
(* The attempt's answer *)

\* The next chunk is numbered by what the attempt gave before it, which is all that
\* the caller got: an attempt that follows another finds nothing there.
LEMMA NextChunkIs ==
    ASSUME CallInv, NEW c \in LLMCallers
    PROVE  NextChunk(c) = <<llm[c].attempt, Len(llm[c].got) + 1>>
<1> DEFINE got == llm[c].got
<1>1. got \in Seq(Nat \X Nat) BY CallIsOK, FieldTypes
<1>2. \A k \in DOMAIN got : got[k] = <<llm[c].attempt, k>> BY CallIsOK DEF CallOK
<1>3. DOMAIN got = 1 .. Len(got) /\ Len(got) \in Nat BY <1>1
<1>4. {k \in DOMAIN got : got[k][1] = llm[c].attempt} = 1 .. Len(got) BY <1>2, <1>3
<1>5. Cardinality(1 .. Len(got)) = Len(got)
  BY <1>3, FS_Interval
<1>6. QED BY <1>4, <1>5 DEF NextChunk

LEMMA MoreGot ==
    ASSUME CallInv, CallConstants, NEW c \in LLMCallers, NEW more, more = Append(llm[c].got, NextChunk(c))
    PROVE  /\ more \in Seq(Nat \X Nat) /\ more # <<>>
           /\ \A k \in DOMAIN more : more[k] = <<llm[c].attempt, k>>
<1> DEFINE got == llm[c].got
           next == <<llm[c].attempt, Len(got) + 1>>
<1>1. got \in Seq(Nat \X Nat) /\ llm[c].attempt \in Nat BY CallIsOK, FieldTypes DEF CallConstants
<1>2. \A k \in DOMAIN got : got[k] = <<llm[c].attempt, k>> BY CallIsOK DEF CallOK
<1>3. more = Append(got, next) BY NextChunkIs
<1>4. next \in Nat \X Nat BY <1>1
<1> HIDE DEF got, next
<1>5. /\ more \in Seq(Nat \X Nat) /\ Len(more) = Len(got) + 1 /\ DOMAIN more = 1 .. Len(got) + 1
      /\ \A k \in 1 .. Len(got) : more[k] = got[k]
      /\ more[Len(got) + 1] = next /\ DOMAIN got = 1 .. Len(got) /\ Len(got) \in Nat
  BY <1>1, <1>3, <1>4
<1>6. ASSUME NEW k \in DOMAIN more PROVE more[k] = <<llm[c].attempt, k>>
  <2>1. CASE k = Len(got) + 1 BY <2>1, <1>5 DEF next
  <2>2. CASE k \in 1 .. Len(got) BY <2>2, <1>2, <1>5 DEF got
  <2>3. k \in 1 .. Len(got) + 1 /\ Len(got) \in Nat BY <1>5
  <2>4. QED BY <2>1, <2>2, <2>3
<1>7. more # <<>> BY <1>5, SMTT(20)
<1>8. QED BY <1>5, <1>6, <1>7

\* The attempt is over on every way out, and its slot is given back.
LEMMA AttemptEndsStep ==
    ASSUME CallInv, CallConstants, NEW c \in LLMCallers, NEW fields, AttemptEnds(c, fields),
           llm'[c] \in CallType, CallOK(c)'
    PROVE  CallInv'
<1>1. Set(c, fields) /\ holders' = holders \ {c} /\ UNCHANGED stopped
  BY DEF AttemptEnds, Freed
<1>2. IsFiniteSet(holders) /\ Cardinality(holders) <= MaxConcurrent BY DEF CallInv
<1>3. IsFiniteSet(holders') /\ Cardinality(holders') <= MaxConcurrent
  <2>1. /\ IsFiniteSet(holders')
        /\ Cardinality(holders') = Cardinality(holders) \/ Cardinality(holders') = Cardinality(holders) - 1
    BY <1>1, <1>2, FS_RemoveElement
  <2>2. Cardinality(holders) \in Nat BY <1>2, FS_CardinalityType
  <2>3. QED BY <1>2, <2>1, <2>2 DEF CallConstants
<1>4. holders' \ {c} = holders \ {c} BY <1>1
<1>5. QED BY <1>1, <1>3, <1>4, SetShape, OneCallMoves

LEMMA ChunkComesStep ==
    ASSUME CallInv, CallConstants, NEW c \in LLMCallers, ChunkComes(c) PROVE CallInv'
<1> DEFINE more == Append(llm[c].got, NextChunk(c))
<1>1. /\ more \in Seq(Nat \X Nat) /\ more # <<>>
      /\ \A k \in DOMAIN more : more[k] = <<llm[c].attempt, k>>
  BY MoreGot
<1>2. llm[c].at = "calling" BY DEF ChunkComes
<1>3. \/ Set(c, [got |-> more, yielded |-> TRUE]) /\ UNCHANGED <<stopped, holders>>
      \/ AttemptEnds(c, [at |-> "left", got |-> more])
  BY DEF ChunkComes
<1> HIDE DEF more
<1>4. CASE Set(c, [got |-> more, yielded |-> TRUE]) /\ UNCHANGED <<stopped, holders>>
  <2>1. Becomes(c, llm[c].at, llm[c].ctx, llm[c].attempt, more, TRUE, llm[c].why)
    BY <1>4, SetGotYielded
  <2>2. llm'[c] \in CallType
    BY <1>1, <1>4, <2>1, CallIsOK, FieldTypes, CallTypeKept DEF Becomes
  <2>3. CallOK(c)'
    BY <1>1, <1>2, <1>4, <2>1, CallIsOK DEF CallOK, Becomes, Waiting, Ended, Failures
  <2>4. QED BY <1>4, <2>2, <2>3, OneCallWaits
<1>5. CASE AttemptEnds(c, [at |-> "left", got |-> more])
  <2>1. Set(c, [at |-> "left", got |-> more]) /\ c \notin holders' /\ UNCHANGED stopped
    BY <1>5 DEF AttemptEnds, Freed
  <2>2. Becomes(c, "left", llm[c].ctx, llm[c].attempt, more, llm[c].yielded, llm[c].why)
    BY <2>1, SetAtGot
  <2>3. llm'[c] \in CallType
    BY <1>1, <2>1, <2>2, CallIsOK, FieldTypes, CallTypeKept DEF Becomes, Ended
  <2>4. CallOK(c)'
    BY <1>1, <2>1, <2>2, CallIsOK DEF CallOK, Becomes, Waiting, Ended, Failures
  <2>5. QED BY <1>5, <2>3, <2>4, AttemptEndsStep
<1>6. QED BY <1>3, <1>4, <1>5

\* A stream ends only after a chunk, and a buffered answer is one: the caller has it.
LEMMA ModelAnswersStep ==
    ASSUME CallInv, CallConstants, NEW c \in LLMCallers, ModelAnswers(c) PROVE CallInv'
<1> DEFINE got == IF llm[c].stream THEN llm[c].got ELSE Append(llm[c].got, NextChunk(c))
<1>1. /\ AttemptEnds(c, [at |-> "ok", got |-> got]) /\ llm[c].at = "calling"
      /\ llm[c].stream => llm[c].yielded
  BY DEF ModelAnswers
<1>2. /\ got \in Seq(Nat \X Nat) /\ got # <<>>
      /\ \A k \in DOMAIN got : got[k] = <<llm[c].attempt, k>>
  <2>1. CASE llm[c].stream
    <3>1. llm[c].got # <<>> BY <1>1, <2>1, CallIsOK DEF CallOK, Ended, Failures
    <3>2. llm[c].got \in Seq(Nat \X Nat) BY CallIsOK, FieldTypes
    <3>3. \A k \in DOMAIN llm[c].got : llm[c].got[k] = <<llm[c].attempt, k>> BY CallIsOK DEF CallOK
    <3>4. QED BY <2>1, <3>1, <3>2, <3>3
  <2>2. CASE ~llm[c].stream BY <2>2, MoreGot
  <2>3. QED BY <2>1, <2>2
<1> HIDE DEF got
<1>3. Set(c, [at |-> "ok", got |-> got]) /\ c \notin holders' /\ UNCHANGED stopped
  BY <1>1 DEF AttemptEnds, Freed
<1>4. Becomes(c, "ok", llm[c].ctx, llm[c].attempt, got, llm[c].yielded, llm[c].why)
  BY <1>3, SetAtGot
<1>5. llm'[c] \in CallType
  BY <1>2, <1>3, <1>4, CallIsOK, FieldTypes, CallTypeKept DEF Becomes, Ended
<1>6. CallOK(c)'
  BY <1>2, <1>3, <1>4, CallIsOK DEF CallOK, Becomes, Waiting, Ended, Failures
<1>7. QED BY <1>1, <1>5, <1>6, AttemptEndsStep

LEMMA ModelFailsStep ==
    ASSUME CallInv, CallConstants, NEW c \in LLMCallers, ModelFails(c) PROVE CallInv'
<1>1. PICK w \in {"retryable", "permanent"} \cup ({llm[c].ctx} \ {"live"}) :
          AttemptEnds(c, [at |-> "failed", why |-> w])
  BY DEF ModelFails
<1>2. Set(c, [at |-> "failed", why |-> w]) /\ c \notin holders' /\ UNCHANGED stopped
  BY <1>1 DEF AttemptEnds, Freed
<1>3. Becomes(c, "failed", llm[c].ctx, llm[c].attempt, llm[c].got, llm[c].yielded, w)
  BY <1>2, SetAtWhy
<1>4. w \in Failures \ {"stopped"} /\ (w \in {"canceled", "deadline"} => llm[c].ctx = w)
  BY <1>1, CallIsOK, FieldTypes DEF Failures
<1>5. llm'[c] \in CallType
  BY <1>2, <1>3, <1>4, CallIsOK, FieldTypes, CallTypeKept DEF Becomes
<1>6. llm[c].at = "calling" BY DEF ModelFails
<1>7. CallOK(c)'
  BY <1>2, <1>3, <1>4, <1>6, CallIsOK DEF CallOK, Becomes, Waiting, Ended, Failures
<1>8. QED BY <1>1, <1>5, <1>7, AttemptEndsStep

-----------------------------------------------------------------------------
(* The retries *)

LEMMA BeginAttemptStep ==
    ASSUME CallInv, NEW c \in LLMCallers, BeginAttempt(c) PROVE CallInv'
<1>1. PICK a \in {"acquire", "canceled", "deadline"} :
          Set(c, [at |-> a]) /\ (a # "acquire" => a = llm[c].ctx)
  BY CallIsOK, FieldTypes DEF BeginAttempt
<1>2. Becomes(c, a, llm[c].ctx, llm[c].attempt, llm[c].got, llm[c].yielded, llm[c].why)
  BY <1>1, SetAt
<1>3. llm'[c] \in CallType
  BY <1>1, <1>2, CallIsOK, FieldTypes, CallTypeKept DEF Becomes, Waiting, Ended, Failures
<1>4. UNCHANGED <<holders, stopped>> BY DEF BeginAttempt
<1>5. CallOK(c)'
  BY <1>1, <1>2, <1>4, CallIsOK DEF CallOK, BeginAttempt, Becomes, Waiting, Ended, Failures
<1>6. QED BY <1>1, <1>3, <1>4, <1>5, OneCallWaits

\* A call that may be tried again has given its caller nothing; one that may not ends
\* with the error of its last attempt.
LEMMA JudgeStep ==
    ASSUME CallInv, CallConstants, NEW c \in LLMCallers, Judge(c) PROVE CallInv'
<1> DEFINE a == IF ~MayRetry(c, llm[c].why) THEN llm[c].why
                ELSE IF LastAttempt(c) THEN "exhausted"
                ELSE IF llm[c].ctx = "live" THEN "backoff"
                ELSE llm[c].ctx
<1>0. Set(c, [at |-> a]) BY DEF Judge
<1>1. \/ a = llm[c].why /\ ~MayRetry(c, llm[c].why)
      \/ MayRetry(c, llm[c].why) /\ a = "exhausted" /\ LastAttempt(c)
      \/ MayRetry(c, llm[c].why) /\ a = "backoff" /\ ~LastAttempt(c)
      \/ a = llm[c].ctx /\ a # "live"
  OBVIOUS
<1> HIDE DEF a
<1>2. Becomes(c, a, llm[c].ctx, llm[c].attempt, llm[c].got, llm[c].yielded, llm[c].why)
  BY <1>0, SetAt
<1>3. llm[c].at = "failed" /\ UNCHANGED <<holders, stopped>> BY DEF Judge
<1>4. llm[c].why \in Failures BY <1>3, CallIsOK, FieldTypes DEF CallOK
<1>5. MayRetry(c, llm[c].why) => llm[c].got = <<>>
  BY <1>3, CallIsOK DEF MayRetry, CallOK, Ended, Failures
<1>6. llm[c].why = "retryable" /\ ~MayRetry(c, llm[c].why) => llm[c].got # <<>>
  BY <1>3, CallIsOK DEF MayRetry, ShouldRetry, CallOK, Ended, Failures
<1>7. LastAttempt(c) <=> llm[c].attempt = MaxAttempts
  BY CallIsOK, FieldTypes DEF LastAttempt, CallConstants
<1>8. llm[c].attempt \in 1 .. MaxAttempts /\ llm[c].ctx \in {"live", "canceled", "deadline"}
  BY CallIsOK, FieldTypes
<1>9. llm'[c] \in CallType
  <2>1. a \in Waiting \cup Ended BY <1>1, <1>4, <1>8 DEF Waiting, Ended, Failures
  <2>2. QED BY <1>0, <1>2, <2>1, CallIsOK, FieldTypes, CallTypeKept DEF Becomes
<1>10. CallOK(c)'
  <2>1. CASE a = llm[c].why /\ ~MayRetry(c, llm[c].why)
    BY <2>1, <1>2, <1>3, <1>4, <1>6, CallIsOK DEF CallOK, Becomes, Waiting, Ended, Failures
  <2>2. CASE MayRetry(c, llm[c].why) /\ a = "exhausted" /\ LastAttempt(c)
    BY <2>2, <1>2, <1>3, <1>5, <1>7, CallIsOK DEF CallOK, Becomes, Waiting, Ended, Failures
  <2>3. CASE MayRetry(c, llm[c].why) /\ a = "backoff" /\ ~LastAttempt(c)
    <3>1. llm[c].attempt < MaxAttempts BY <2>3, <1>7, <1>8 DEF CallConstants
    <3>2. QED BY <2>3, <3>1, <1>2, <1>3, <1>5, CallIsOK DEF CallOK, Becomes, Waiting, Ended, Failures
  <2>4. CASE a = llm[c].ctx /\ a # "live"
    BY <2>4, <1>2, <1>3, <1>8, CallIsOK DEF CallOK, Becomes, Waiting, Ended, Failures
  <2>5. QED BY <1>1, <2>1, <2>2, <2>3, <2>4
<1>11. QED BY <1>0, <1>3, <1>9, <1>10, OneCallWaits

LEMMA BackoffStep ==
    ASSUME CallInv, CallConstants, NEW c \in LLMCallers, Backoff(c) PROVE CallInv'
<1>1. llm[c].at = "backoff" /\ UNCHANGED <<holders, stopped>> BY DEF Backoff
<1>2. CASE Set(c, [at |-> "acquire", attempt |-> llm[c].attempt + 1])
  <2>1. Becomes(c, "acquire", llm[c].ctx, llm[c].attempt + 1, llm[c].got, llm[c].yielded, llm[c].why)
    BY <1>2, SetAtAttempt
  <2>2. llm[c].attempt + 1 \in 1 .. MaxAttempts
    BY <1>1, CallIsOK, FieldTypes DEF CallOK, CallConstants
  <2>3. llm'[c] \in CallType
    BY <1>2, <2>1, <2>2, CallIsOK, FieldTypes, CallTypeKept DEF Becomes, Waiting
  <2>4. CallOK(c)'
    BY <1>1, <2>1, CallIsOK DEF CallOK, Becomes, Waiting, Ended, Failures
  <2>5. QED BY <1>1, <1>2, <2>3, <2>4, OneCallWaits
<1>3. CASE llm[c].ctx # "live" /\ Set(c, [at |-> llm[c].ctx])
  <2>1. PICK a \in {"canceled", "deadline"} : Set(c, [at |-> a]) /\ a = llm[c].ctx
    BY <1>3, CallIsOK, FieldTypes
  <2>2. Becomes(c, a, llm[c].ctx, llm[c].attempt, llm[c].got, llm[c].yielded, llm[c].why)
    BY <2>1, SetAt
  <2>3. llm'[c] \in CallType
    BY <2>1, <2>2, CallIsOK, FieldTypes, CallTypeKept DEF Becomes, Ended, Failures
  <2>4. CallOK(c)'
    BY <1>1, <2>1, <2>2, CallIsOK DEF CallOK, Becomes, Waiting, Ended, Failures
  <2>5. QED BY <1>1, <2>1, <2>3, <2>4, OneCallWaits
<1>4. QED BY <1>2, <1>3 DEF Backoff

-----------------------------------------------------------------------------
LEMMA CallInvStep == ASSUME CallInv, CallConstants, [CallNext]_callVars PROVE CallInv'
<1>1. CASE ProduceToken \/ UNCHANGED callVars
  BY <1>1 DEF CallInv, CallOK, ProduceToken, callVars
<1>2. CASE StopLimiter
  <2>1. UNCHANGED <<holders, llm>> /\ stopped' BY <1>2 DEF StopLimiter
  <2>2. QED BY <2>1 DEF CallInv, CallOK
<1>3. ASSUME NEW c \in LLMCallers,
             CallBegins(c) \/ CtxEnds(c) \/ ChunkComes(c) \/ CallProgress(c)
      PROVE  CallInv'
  BY <1>3, CallBeginsStep, CtxEndsStep, ChunkComesStep, BeginAttemptStep, AcquireStep, TrySlotStep,
     BlockStep, ModelAnswersStep, ModelFailsStep, JudgeStep, BackoffStep DEF CallProgress
<1>4. QED BY <1>1, <1>2, <1>3 DEF CallNext

\* The retry middleware around the limiter: whatever the callers, the attempts and the
\* slots, and however the calls, the caller's contexts and the limiter's end interleave,
\* a caller reads one attempt's answer and never a chunk twice, a call ends for its
\* context, the limiter or its attempts only when it is so, and a slot is held by just
\* the calls that run, never by more than the limiter allows.
THEOREM CallersGetOneAnswer == CallSpec => []OneAnswer
<1>1. CallInit => CallInv BY CallInvInit, CallConstants
<1>2. CallInv /\ [CallNext]_callVars => CallInv' BY CallInvStep, CallConstants
<1>3. CallInv => OneAnswer
  <2> SUFFICES ASSUME CallInv PROVE OneAnswer OBVIOUS
  <2>1. Cardinality(holders) <= MaxConcurrent BY DEF CallInv
  <2>2. ASSUME NEW c \in LLMCallers
        PROVE  /\ \A k \in DOMAIN llm[c].got : llm[c].got[k] = <<llm[c].attempt, k>>
               /\ llm[c].at = "ok" => llm[c].got # <<>>
               /\ llm[c].at = "exhausted" => llm[c].attempt = MaxAttempts /\ llm[c].got = <<>>
               /\ llm[c].at \in {"canceled", "deadline"} => llm[c].ctx = llm[c].at
               /\ llm[c].at = "stopped" => stopped
               /\ llm[c].at = "retryable" => llm[c].got # <<>>
               /\ llm[c].at = "calling" <=> c \in holders
    BY CallIsOK DEF CallOK
  <2>3. ASSUME NEW c \in LLMCallers PROVE llm[c].attempt <= MaxAttempts
    BY CallIsOK, FieldTypes, CallConstants DEF CallConstants
  <2>4. QED BY <2>1, <2>2, <2>3 DEF OneAnswer
<1>4. QED BY <1>1, <1>2, <1>3, PTL DEF CallSpec

-----------------------------------------------------------------------------
(* The semantic cache and the guardrails *)

Answers == [text : Conversations, contract : Contracts, guards : {"pass", "reject"}]

Asking == [at : {"ensure", "ensuring", "lookup", "model", "check", "persist", "deliver"},
           text : Conversations, contract : Contracts, keep : BOOLEAN,
           answer : {NoAnswer} \cup Answers, known : BOOLEAN]

\* An answer fits its call as soon as the call has it; what guards inside rejected goes
\* no further than their check.
CallFits(r) ==
    /\ r \in Asking
    /\ order = "guards" => ~Blocks(r.text)
    /\ r.at \in {"check", "persist", "deliver"} =>
           /\ r.answer \in Answers /\ r.answer.contract = r.contract
           /\ Distance(r.text, r.answer.text) < 2
    /\ r.at = "deliver" \/ (r.at = "persist" /\ order = "cache") => r.answer.guards = "pass"

EntriesFit ==
    /\ entries \subseteq Answers /\ IsFiniteSet(entries)
    /\ order = "cache" => \A e \in entries : e.guards = "pass"

AnswersInv ==
    /\ order \in {"cache", "guards"}
    /\ DOMAIN asked = CacheCallers
    /\ \A c \in CacheCallers : asked[c] = NotAsked \/ CallFits(asked[c])
    /\ EntriesFit

LEMMA AnswersInvInit == ASSUME CacheInit PROVE AnswersInv
<1>1. EntriesFit BY FS_EmptySet DEF CacheInit, EntriesFit
<1>2. QED BY <1>1 DEF CacheInit, AnswersInv

\* The call of one caller moves, and the cache is left alone.
LEMMA OneCallerMoves ==
    ASSUME AnswersInv, NEW c \in CacheCallers, NEW to, asked' = [asked EXCEPT ![c] = to],
           UNCHANGED <<order, entries>>, to = NotAsked \/ CallFits(to)
    PROVE  AnswersInv'
<1>1. \A r : CallFits(r)' <=> CallFits(r) BY DEF CallFits
<1>2. ASSUME NEW d \in CacheCallers PROVE asked'[d] = NotAsked \/ CallFits(asked'[d])
  BY DEF AnswersInv
<1>3. ASSUME NEW d \in CacheCallers PROVE (asked[d] = NotAsked \/ CallFits(asked[d]))'
  <2>1. PICK r : r = asked'[d] OBVIOUS
  <2>2. r = NotAsked \/ CallFits(r) BY <1>2, <2>1
  <2>3. r = NotAsked \/ CallFits(r)' BY <1>1, <2>2
  <2>4. QED BY <2>1, <2>3 DEF CallFits
<1>4. DOMAIN asked' = CacheCallers BY DEF AnswersInv
<1>5. QED BY <1>3, <1>4 DEF AnswersInv, EntriesFit

\* Where a call may go on to.
LEMMA CallGoesOn ==
    ASSUME AnswersInv, NEW c \in CacheCallers, asked[c] # NotAsked,
           NEW where, NEW keep \in BOOLEAN, NEW answer \in {NoAnswer} \cup Answers,
           GoesOn(c, where, keep, answer), UNCHANGED <<order, entries>>,
           where \in {"ensuring", "lookup", "model", "check", "persist", "deliver"},
           where \in {"check", "persist", "deliver"} =>
               /\ answer \in Answers /\ answer.contract = asked[c].contract
               /\ Distance(asked[c].text, answer.text) < 2,
           where = "deliver" \/ (where = "persist" /\ order = "cache") => answer.guards = "pass"
    PROVE  AnswersInv'
<1> DEFINE to == [asked[c] EXCEPT !.at = where, !.keep = keep, !.answer = answer]
<1>1. asked' = [asked EXCEPT ![c] = to] BY DEF GoesOn
<1>2. CallFits(asked[c]) BY DEF AnswersInv
<1>3. /\ to \in Asking /\ to.at = where /\ to.answer = answer
      /\ to.text = asked[c].text /\ to.contract = asked[c].contract
  BY <1>2 DEF CallFits, Asking
<1> HIDE DEF to
<1>4. CallFits(to) BY <1>2, <1>3 DEF CallFits
<1>5. QED BY <1>1, <1>4, OneCallerMoves

LEMMA AskFits == ASSUME AnswersInv, NEW c \in CacheCallers, Ask(c) PROVE AnswersInv'
<1>1. PICK text \in Conversations, contract \in Contracts, tools \in BOOLEAN :
          /\ ~(order = "guards" /\ Blocks(text))
          /\ asked' = [asked EXCEPT ![c] =
                 [at |-> IF tools THEN "model" ELSE "ensure",
                  text |-> text, contract |-> contract, keep |-> FALSE,
                  answer |-> NoAnswer, known |-> FALSE]]
  BY DEF Ask
<1> DEFINE at == IF tools THEN "model" ELSE "ensure"
           to == [at |-> at, text |-> text, contract |-> contract, keep |-> FALSE,
                  answer |-> NoAnswer, known |-> FALSE]
<1>2. at \in {"model", "ensure"} OBVIOUS
<1>3. asked' = [asked EXCEPT ![c] = to] BY <1>1
<1> HIDE DEF at
<1>4. to \in Asking /\ to.at = at /\ to.text = text BY <1>2 DEF Asking
<1> HIDE DEF to
<1>5. CallFits(to) BY <1>1, <1>2, <1>4 DEF CallFits
<1>6. QED BY <1>3, <1>5, OneCallerMoves DEF Ask

LEMMA CandidatesAreEntries ==
    ASSUME NEW text, NEW contract PROVE \A found \in Candidates(text, contract) : found \subseteq entries
BY DEF Candidates, Nearest, WithContract

LEMMA LookUpFits == ASSUME AnswersInv, NEW c \in CacheCallers, LookUp(c) PROVE AnswersInv'
<1> DEFINE text == asked[c].text
           contract == asked[c].contract
           Fits(e) == e.contract = contract /\ Distance(text, e.text) < 2
           same == [text |-> text, contract |-> contract]
                       \in {[text |-> e.text, contract |-> e.contract] : e \in entries}
<1>1. asked[c].at = "lookup" /\ UNCHANGED <<order, entries>> BY DEF LookUp
<1>2. asked[c] # NotAsked /\ CallFits(asked[c]) BY <1>1 DEF AnswersInv, NotAsked
<1>3. PICK found \in (IF exists THEN Candidates(text, contract) ELSE {{}}) :
          \/ \E e \in found :
                 Fits(e) /\ GoesOn(c, IF order = "guards" THEN "check" ELSE "deliver", FALSE, e)
          \/ asked' = [asked EXCEPT ![c].at = "model", ![c].keep = TRUE, ![c].known = same]
  BY DEF LookUp
<1>4. found \subseteq entries BY CandidatesAreEntries
<1>5. ASSUME NEW e \in found, Fits(e),
             GoesOn(c, IF order = "guards" THEN "check" ELSE "deliver", FALSE, e)
      PROVE  AnswersInv'
  <2>1. e \in Answers BY <1>4 DEF AnswersInv, EntriesFit
  <2>2. order = "cache" => e.guards = "pass" BY <1>4 DEF AnswersInv, EntriesFit
  <2>3. order = "cache" \/ order = "guards" BY DEF AnswersInv
  <2>4. CASE order = "guards"
    <3>1. GoesOn(c, "check", FALSE, e) BY <1>5, <2>4
    <3>2. QED BY <1>1, <1>2, <1>5, <2>1, <3>1, CallGoesOn
  <2>5. CASE order = "cache"
    <3>1. GoesOn(c, "deliver", FALSE, e) BY <1>5, <2>5
    <3>2. QED BY <1>1, <1>2, <1>5, <2>1, <2>2, <2>5, <3>1, CallGoesOn
  <2>6. QED BY <2>3, <2>4, <2>5
<1>6. CASE asked' = [asked EXCEPT ![c].at = "model", ![c].keep = TRUE, ![c].known = same]
  <2> DEFINE to == [asked[c] EXCEPT !.at = "model", !.keep = TRUE, !.known = same]
  <2>1. asked' = [asked EXCEPT ![c] = to] BY <1>6
  <2>2. same \in BOOLEAN OBVIOUS
  <2> HIDE DEF same
  <2>3. to \in Asking /\ to.at = "model" /\ to.text = asked[c].text
    BY <1>2, <2>2 DEF CallFits, Asking
  <2> HIDE DEF to
  <2>4. CallFits(to) BY <1>2, <2>3 DEF CallFits
  <2>5. QED BY <1>1, <2>1, <2>4, OneCallerMoves
<1>7. QED BY <1>3, <1>5, <1>6

LEMMA AnswerFits == ASSUME AnswersInv, NEW c \in CacheCallers, Answer(c) PROVE AnswersInv'
<1>1. asked[c].at = "model" /\ UNCHANGED <<order, entries>> BY DEF Answer
<1>2. PICK verdict \in {"pass", "reject"} :
          GoesOn(c, IF order = "cache" THEN "check" ELSE "persist", asked[c].keep,
                 [text |-> asked[c].text, contract |-> asked[c].contract, guards |-> verdict])
  BY DEF Answer
<1>3. asked[c] # NotAsked /\ CallFits(asked[c]) BY <1>1 DEF AnswersInv, NotAsked
<1> DEFINE e == [text |-> asked[c].text, contract |-> asked[c].contract, guards |-> verdict]
<1>4. /\ e \in Answers /\ e.contract = asked[c].contract
      /\ e.text = asked[c].text /\ asked[c].keep \in BOOLEAN
  BY <1>3 DEF CallFits, Asking, Answers
<1>5. GoesOn(c, IF order = "cache" THEN "check" ELSE "persist", asked[c].keep, e) BY <1>2
<1> HIDE DEF e
<1>6. Distance(asked[c].text, e.text) < 2 BY <1>4 DEF Distance
<1>7. CASE order = "cache"
  <2>1. GoesOn(c, "check", asked[c].keep, e) BY <1>5, <1>7
  <2>2. QED BY <1>1, <1>3, <1>4, <1>6, <2>1, CallGoesOn
<1>8. CASE order = "guards"
  <2>1. GoesOn(c, "persist", asked[c].keep, e) BY <1>5, <1>8
  <2>2. QED BY <1>1, <1>3, <1>4, <1>6, <1>8, <2>1, CallGoesOn
<1>9. QED BY <1>7, <1>8 DEF AnswersInv

LEMMA CheckResultFits ==
    ASSUME AnswersInv, NEW c \in CacheCallers, CheckResult(c) PROVE AnswersInv'
<1>1. asked[c].at = "check" /\ UNCHANGED <<order, entries>> BY DEF CheckResult
<1>2. asked[c] # NotAsked /\ CallFits(asked[c]) BY <1>1 DEF AnswersInv, NotAsked
<1>3. CASE Rejected(c) BY <1>1, <1>3, OneCallerMoves DEF CheckResult
<1>4. CASE ~Rejected(c)
  <2> DEFINE e == asked[c].answer
  <2>1. /\ e \in Answers /\ e.contract = asked[c].contract
        /\ Distance(asked[c].text, e.text) < 2 /\ asked[c].keep \in BOOLEAN
    BY <1>1, <1>2 DEF CallFits, Asking
  <2>2. e.guards = "pass" BY <1>4, <2>1 DEF Rejected, Answers
  <2>3. GoesOn(c, IF order = "cache" THEN "persist" ELSE "deliver", asked[c].keep, e)
    BY <1>4 DEF CheckResult
  <2> HIDE DEF e
  <2>4. CASE order = "cache"
    <3>1. GoesOn(c, "persist", asked[c].keep, e) BY <2>3, <2>4
    <3>2. QED BY <1>1, <1>2, <2>1, <2>2, <3>1, CallGoesOn
  <2>5. CASE order = "guards"
    <3>1. GoesOn(c, "deliver", asked[c].keep, e) BY <2>3, <2>5
    <3>2. QED BY <1>1, <1>2, <2>1, <2>2, <3>1, CallGoesOn
  <2>6. QED BY <2>4, <2>5 DEF AnswersInv
<1>5. QED BY <1>3, <1>4

\* Only what the guards inside accepted is kept.
LEMMA PersistFits == ASSUME AnswersInv, NEW c \in CacheCallers, Persist(c) PROVE AnswersInv'
<1> DEFINE e == asked[c].answer
           where == IF order = "guards" THEN "check" ELSE "deliver"
           to == [asked[c] EXCEPT !.at = where, !.keep = FALSE, !.answer = e]
<1>1. /\ asked[c].at = "persist" /\ UNCHANGED order
      /\ entries' = entries \cup {e} \/ entries' = entries
      /\ asked' = [asked EXCEPT ![c] = to]
  BY DEF Persist, GoesOn
<1>2. CallFits(asked[c]) BY <1>1 DEF AnswersInv, NotAsked
<1>3. /\ e \in Answers /\ e.contract = asked[c].contract
      /\ Distance(asked[c].text, e.text) < 2
      /\ order = "cache" => e.guards = "pass"
  BY <1>1, <1>2 DEF CallFits
<1>4. EntriesFit'
  <2>1. entries' \subseteq Answers BY <1>1, <1>3 DEF AnswersInv, EntriesFit
  <2>2. IsFiniteSet(entries') BY <1>1, FS_AddElement DEF AnswersInv, EntriesFit
  <2>3. order = "cache" => \A x \in entries' : x.guards = "pass"
    BY <1>1, <1>3 DEF AnswersInv, EntriesFit
  <2>4. QED BY <1>1, <2>1, <2>2, <2>3 DEF EntriesFit
<1>5. where \in {"check", "deliver"} /\ (where = "deliver" => order = "cache")
  BY DEF AnswersInv
<1> HIDE DEF where
<1>6. /\ to \in Asking /\ to.at = where /\ to.answer = e
      /\ to.text = asked[c].text /\ to.contract = asked[c].contract
  BY <1>2, <1>3, <1>5 DEF CallFits, Asking
<1> HIDE DEF to, e
<1>7. CallFits(to) BY <1>2, <1>3, <1>5, <1>6 DEF CallFits
<1>8. ASSUME NEW d \in CacheCallers PROVE (asked[d] = NotAsked \/ CallFits(asked[d]))'
  <2>1. CASE d = c
    <3>1. asked'[d] = to BY <1>1, <2>1 DEF AnswersInv
    <3>2. QED BY <1>1, <1>7, <3>1 DEF CallFits
  <2>2. CASE d # c
    <3>1. asked'[d] = asked[d] BY <1>1, <2>2 DEF AnswersInv
    <3>2. asked[d] = NotAsked \/ CallFits(asked[d]) BY DEF AnswersInv
    <3>3. QED BY <1>1, <3>1, <3>2 DEF CallFits
  <2>3. QED BY <2>1, <2>2
<1>9. DOMAIN asked' = CacheCallers BY <1>1 DEF AnswersInv
<1>10. QED BY <1>1, <1>4, <1>8, <1>9 DEF AnswersInv

LEMMA CallerStep ==
    ASSUME AnswersInv, NEW c \in CacheCallers,
           \/ BeginEnsure(c) \/ EndEnsure(c) \/ IsEnsured(c) \/ EmbedFails(c) \/ QueryFails(c)
           \/ Fail(c) \/ Deliver(c)
    PROVE  AnswersInv'
<1>1. CASE BeginEnsure(c) \/ EndEnsure(c) \/ IsEnsured(c) \/ EmbedFails(c) \/ QueryFails(c)
  <2>1. asked[c] # NotAsked
    <3>1. asked[c].at \in {"ensure", "ensuring", "lookup"}
      BY <1>1 DEF BeginEnsure, EndEnsure, IsEnsured, EmbedFails, QueryFails
    <3>2. QED BY <3>1 DEF NotAsked
  <2>2. \E where \in {"ensuring", "lookup", "model"}, keep \in BOOLEAN : GoesOn(c, where, keep, NoAnswer)
    <3>1. CASE BeginEnsure(c) BY <3>1 DEF BeginEnsure
    <3>2. CASE EndEnsure(c) BY <3>2 DEF EndEnsure
    <3>3. CASE IsEnsured(c) BY <3>3 DEF IsEnsured
    <3>4. CASE EmbedFails(c) BY <3>4 DEF EmbedFails
    <3>5. CASE QueryFails(c) BY <3>5 DEF QueryFails
    <3>6. QED BY <1>1, <3>1, <3>2, <3>3, <3>4, <3>5
  <2>3. UNCHANGED <<order, entries>>
    BY <1>1 DEF BeginEnsure, EndEnsure, IsEnsured, EmbedFails, QueryFails
  <2>4. PICK where \in {"ensuring", "lookup", "model"}, keep \in BOOLEAN : GoesOn(c, where, keep, NoAnswer)
    BY <2>2
  <2>5. QED BY <2>1, <2>3, <2>4, CallGoesOn
<1>2. CASE Fail(c) \/ Deliver(c) BY <1>2, OneCallerMoves DEF Fail, Deliver
<1>3. QED BY <1>1, <1>2

LEMMA AnswersInvIsKept == AnswersInv /\ [CacheNext]_answerVars => AnswersInv'
<1> SUFFICES ASSUME AnswersInv, [CacheNext]_answerVars PROVE AnswersInv' OBVIOUS
<1>1. ASSUME NEW c \in CacheCallers, Ask(c) PROVE AnswersInv' BY <1>1, AskFits
<1>2. ASSUME NEW c \in CacheCallers, LookUp(c) PROVE AnswersInv' BY <1>2, LookUpFits
<1>3. ASSUME NEW c \in CacheCallers, Answer(c) PROVE AnswersInv' BY <1>3, AnswerFits
<1>4. ASSUME NEW c \in CacheCallers, CheckResult(c) PROVE AnswersInv' BY <1>4, CheckResultFits
<1>5. ASSUME NEW c \in CacheCallers, Persist(c) PROVE AnswersInv' BY <1>5, PersistFits
<1>6. ASSUME NEW c \in CacheCallers,
               \/ BeginEnsure(c) \/ EndEnsure(c) \/ IsEnsured(c) \/ EmbedFails(c) \/ QueryFails(c)
               \/ Fail(c) \/ Deliver(c)
        PROVE  AnswersInv'
    BY <1>6, CallerStep
<1>7. CASE UNCHANGED answerVars
    BY <1>7 DEF answerVars, AnswersInv, CallFits, EntriesFit
<1>8. QED BY <1>1, <1>2, <1>3, <1>4, <1>5, <1>6, <1>7 DEF CacheNext

\* lookup, persist and checkResult: whatever the callers do at the same time, and however
\* loosely the store filters, an answer that is delivered fits its call.
THEOREM AnswersAreFit == CacheSpec => []AnswersFit
<1>1. CacheInit => AnswersInv BY AnswersInvInit
<1>2. AnswersInv /\ [CacheNext]_answerVars => AnswersInv' BY AnswersInvIsKept
<1>3. AnswersInv => AnswersFit
  <2> SUFFICES ASSUME AnswersInv PROVE AnswersFit OBVIOUS
  <2>1. ASSUME NEW c \in CacheCallers, asked[c].at = "deliver"
        PROVE  /\ asked[c].answer.contract = asked[c].contract
               /\ Distance(asked[c].text, asked[c].answer.text) < 2
               /\ asked[c].answer.guards = "pass"
               /\ order = "guards" => ~Blocks(asked[c].text)
    <3>1. CallFits(asked[c]) BY <2>1 DEF AnswersInv, NotAsked
    <3>2. QED BY <2>1, <3>1 DEF CallFits
  <2>2. QED BY <2>1 DEF AnswersFit, AnswersInv, EntriesFit
<1>4. QED BY <1>1, <1>2, <1>3, PTL DEF CacheSpec

\* The collection is there before an entry is: the sync.Once is over by then, and one
\* call alone was in it.
EnsuredOnce ==
    /\ ensured \in {"no", "begun", "done"}
    /\ exists => ensured = "done"
    /\ entries # {} => exists
    /\ \A c, d \in CacheCallers :
           asked[c].at = "ensuring" => ensured = "begun" /\ (asked[d].at = "ensuring" => c = d)

\* A search of a store that filters returns an entry as near as any with this contract.
LEMMA SearchFinds ==
    ASSUME Overfetch = 0, IsFiniteSet(entries), NEW text, NEW contract, NEW e \in entries,
           e.text = text, e.contract = contract,
           NEW found \in Candidates(text, contract)
    PROVE  \E f \in found : f.contract = contract /\ Distance(text, f.text) < 2
<1> DEFINE from == WithContract(entries, contract)
<1>1. found \in Nearest(from, text, 1) BY DEF Candidates
<1>2. from \subseteq entries /\ e \in from /\ \A f \in from : f.contract = contract
  BY DEF WithContract
<1> HIDE DEF from
<1>3. IsFiniteSet(from) /\ from # {} BY <1>2, FS_Subset
<1>4. Cardinality(from) \in Nat /\ Cardinality(from) # 0 BY <1>3, FS_CardinalityType, FS_EmptySet
<1>5. /\ found \subseteq from
      /\ Cardinality(found) = IF Cardinality(from) < 1 THEN Cardinality(from) ELSE 1
      /\ \A f \in found, g \in from \ found : Distance(text, f.text) <= Distance(text, g.text)
  BY <1>1 DEF Nearest
<1>6. Cardinality(found) # 0 BY <1>4, <1>5
<1>7. PICK f \in found : TRUE BY <1>6, FS_EmptySet
<1>8. Distance(text, e.text) = 0 BY DEF Distance
<1>9. CASE e \in found BY <1>2, <1>8, <1>9
<1>10. CASE e \notin found
  <2>1. Distance(text, f.text) <= 0 BY <1>2, <1>5, <1>8, <1>10
  <2>2. Distance(text, f.text) < 2 BY <2>1 DEF Distance
  <2>3. QED BY <1>2, <1>5, <2>2
<1>11. QED BY <1>9, <1>10

\* A call of which the cache knows no answer it missed.
NothingMissed(r) == r.at # "free" => ~r.known

FoundInv == AnswersInv /\ EnsuredOnce /\ FindsTheSame

\* The call of one caller moves, in a collection that is there or not as before.
LEMMA OneCallFinds ==
    ASSUME FoundInv, NEW c \in CacheCallers,
           UNCHANGED <<ensured, exists>>, entries' = entries \/ exists,
           \A d \in CacheCallers \ {c} : asked'[d] = asked[d],
           asked'[c].at # "ensuring", NothingMissed(asked'[c])
    PROVE  EnsuredOnce' /\ FindsTheSame'
BY DEF FoundInv, EnsuredOnce, FindsTheSame, NothingMissed

LEMMA CallWent ==
    ASSUME FoundInv, NEW c \in CacheCallers, asked[c].at # "free",
           NEW where, NEW keep, NEW answer, GoesOn(c, where, keep, answer)
    PROVE  /\ asked'[c].at = where /\ NothingMissed(asked'[c])
           /\ \A d \in CacheCallers \ {c} : asked'[d] = asked[d]
<1>1. asked[c] # NotAsked BY DEF NotAsked
<1>2. DOMAIN asked = CacheCallers /\ asked[c] \in Asking /\ ~asked[c].known
  BY <1>1 DEF FoundInv, AnswersInv, CallFits, FindsTheSame
<1> DEFINE to == [asked[c] EXCEPT !.at = where, !.keep = keep, !.answer = answer]
<1>3. asked' = [asked EXCEPT ![c] = to] BY DEF GoesOn
<1>4. to.at = where /\ to.known = asked[c].known BY <1>2 DEF Asking
<1> HIDE DEF to
<1>5. asked'[c] = to /\ \A d \in CacheCallers \ {c} : asked'[d] = asked[d] BY <1>2, <1>3
<1>6. QED BY <1>2, <1>4, <1>5 DEF NothingMissed

LEMMA CallLeft ==
    ASSUME FoundInv, NEW c \in CacheCallers, asked' = [asked EXCEPT ![c] = NotAsked],
           UNCHANGED <<ensured, exists, entries>>
    PROVE  EnsuredOnce' /\ FindsTheSame'
<1>1. /\ asked'[c] = NotAsked
      /\ \A d \in CacheCallers \ {c} : asked'[d] = asked[d]
  BY DEF FoundInv, AnswersInv
<1>2. NotAsked.at = "free" BY DEF NotAsked
<1>3. QED BY <1>1, <1>2, OneCallFinds DEF NothingMissed

LEMMA LookUpFinds ==
    ASSUME Overfetch = 0, FoundInv, NEW c \in CacheCallers, LookUp(c)
    PROVE  EnsuredOnce' /\ FindsTheSame'
<1> DEFINE text == asked[c].text
           contract == asked[c].contract
           Fits(e) == e.contract = contract /\ Distance(text, e.text) < 2
           same == [text |-> text, contract |-> contract]
                       \in {[text |-> e.text, contract |-> e.contract] : e \in entries}
<1>1. asked[c].at = "lookup" /\ UNCHANGED <<ensured, exists, entries>> BY DEF LookUp
<1>2. PICK found \in (IF exists THEN Candidates(text, contract) ELSE {{}}) :
          \/ \E e \in found :
                 Fits(e) /\ GoesOn(c, IF order = "guards" THEN "check" ELSE "deliver", FALSE, e)
          \/ /\ \A e \in found : ~Fits(e)
             /\ asked' = [asked EXCEPT ![c].at = "model", ![c].keep = TRUE, ![c].known = same]
  BY DEF LookUp
<1>3. CASE \E e \in found :
               Fits(e) /\ GoesOn(c, IF order = "guards" THEN "check" ELSE "deliver", FALSE, e)
  <2>1. PICK e \in found : GoesOn(c, IF order = "guards" THEN "check" ELSE "deliver", FALSE, e)
    BY <1>3
  <2>2. PICK where : where = IF order = "guards" THEN "check" ELSE "deliver" OBVIOUS
  <2>3. GoesOn(c, where, FALSE, e) BY <2>1, <2>2
  <2>4. where # "ensuring" BY <2>2
  <2>5. QED BY <1>1, <2>3, <2>4, CallWent, OneCallFinds
<1>4. CASE /\ \A e \in found : ~Fits(e)
           /\ asked' = [asked EXCEPT ![c].at = "model", ![c].keep = TRUE, ![c].known = same]
  <2>1. ~same
    <3>1. SUFFICES ASSUME same PROVE FALSE OBVIOUS
    <3>2. PICK e \in entries : [text |-> text, contract |-> contract] = [text |-> e.text, contract |-> e.contract]
      BY <3>1
    <3>3. e.text = text /\ e.contract = contract BY <3>2
    <3>4. exists /\ IsFiniteSet(entries) BY DEF FoundInv, EnsuredOnce, AnswersInv, EntriesFit
    <3>5. found \in Candidates(text, contract) BY <3>4
    <3>6. \E f \in found : f.contract = contract /\ Distance(text, f.text) < 2
      BY <3>3, <3>4, <3>5, SearchFinds
    <3>7. QED BY <1>4, <3>6
  <2> HIDE DEF same
  <2>2. asked[c] # NotAsked BY <1>1 DEF NotAsked
  <2>3. DOMAIN asked = CacheCallers /\ asked[c] \in Asking
    BY <2>2 DEF FoundInv, AnswersInv, CallFits
  <2> DEFINE to == [asked[c] EXCEPT !.at = "model", !.keep = TRUE, !.known = same]
  <2>4. asked' = [asked EXCEPT ![c] = to] BY <1>4
  <2>5. to.at = "model" /\ to.known = same BY <2>3 DEF Asking
  <2> HIDE DEF to
  <2>6. asked'[c] = to /\ \A d \in CacheCallers \ {c} : asked'[d] = asked[d] BY <2>3, <2>4
  <2>7. QED BY <1>1, <2>1, <2>5, <2>6, OneCallFinds DEF NothingMissed
<1>5. QED BY <1>2, <1>3, <1>4

LEMMA FoundStep ==
    ASSUME Overfetch = 0, FoundInv, CacheNext PROVE EnsuredOnce' /\ FindsTheSame'
<1>1. PICK c \in CacheCallers :
          \/ Ask(c) \/ BeginEnsure(c) \/ EndEnsure(c) \/ IsEnsured(c)
          \/ EmbedFails(c) \/ LookUp(c) \/ QueryFails(c)
          \/ Fail(c) \/ Answer(c) \/ CheckResult(c) \/ Persist(c) \/ Deliver(c)
  BY DEF CacheNext
<1>2. CASE Ask(c)
  <2>1. asked'[c].at # "ensuring" /\ ~asked'[c].known
    BY <1>2 DEF Ask, FoundInv, AnswersInv
  <2>2. \A d \in CacheCallers \ {c} : asked'[d] = asked[d] BY <1>2 DEF Ask, FoundInv, AnswersInv
  <2>3. UNCHANGED <<ensured, exists, entries>> BY <1>2 DEF Ask
  <2>4. QED BY <2>1, <2>2, <2>3, OneCallFinds DEF NothingMissed
<1>3. CASE BeginEnsure(c)
  <2>1. /\ asked[c].at = "ensure" /\ ensured = "no" /\ ensured' = "begun"
        /\ GoesOn(c, "ensuring", FALSE, NoAnswer) /\ UNCHANGED <<exists, entries>>
    BY <1>3 DEF BeginEnsure
  <2>2. /\ asked'[c].at = "ensuring" /\ NothingMissed(asked'[c])
        /\ \A d \in CacheCallers \ {c} : asked'[d] = asked[d]
    BY <2>1, CallWent
  <2>3. \A d \in CacheCallers : asked[d].at # "ensuring" BY <2>1 DEF FoundInv, EnsuredOnce
  <2>4. EnsuredOnce' BY <2>1, <2>2, <2>3 DEF FoundInv, EnsuredOnce
  <2>5. QED BY <2>2, <2>4 DEF FoundInv, FindsTheSame, NothingMissed
<1>4. CASE EndEnsure(c)
  <2>1. /\ asked[c].at = "ensuring" /\ ensured' = "done" /\ UNCHANGED entries
        /\ \E where \in {"lookup", "model"} : GoesOn(c, where, FALSE, NoAnswer)
    BY <1>4 DEF EndEnsure
  <2>2. PICK where \in {"lookup", "model"} : GoesOn(c, where, FALSE, NoAnswer) BY <2>1
  <2>3. /\ asked'[c].at = where /\ NothingMissed(asked'[c])
        /\ \A d \in CacheCallers \ {c} : asked'[d] = asked[d]
    BY <2>1, <2>2, CallWent
  <2>4. entries = {} BY <2>1 DEF FoundInv, EnsuredOnce
  <2>5. \A d \in CacheCallers : asked'[d].at # "ensuring"
    BY <2>1, <2>3 DEF FoundInv, EnsuredOnce
  <2>6. EnsuredOnce' BY <2>1, <2>4, <2>5 DEF EnsuredOnce
  <2>7. QED BY <2>3, <2>6 DEF FoundInv, FindsTheSame, NothingMissed
<1>5. CASE LookUp(c) BY <1>5, LookUpFinds
<1>6. CASE Persist(c)
  <2>1. /\ asked[c].at = "persist" /\ UNCHANGED <<ensured, exists>>
        /\ entries' = entries \/ exists
        /\ GoesOn(c, IF order = "guards" THEN "check" ELSE "deliver", FALSE, asked[c].answer)
    BY <1>6 DEF Persist
  <2>2. PICK where : where = IF order = "guards" THEN "check" ELSE "deliver" OBVIOUS
  <2>3. GoesOn(c, where, FALSE, asked[c].answer) /\ where # "ensuring" BY <2>1, <2>2
  <2>4. QED BY <2>1, <2>3, CallWent, OneCallFinds
<1>7. ASSUME NEW where, NEW keep, NEW answer, GoesOn(c, where, keep, answer),
             where # "ensuring", asked[c].at # "free", UNCHANGED <<ensured, exists, entries>>
      PROVE  EnsuredOnce' /\ FindsTheSame'
  BY <1>7, CallWent, OneCallFinds
<1>8. CASE IsEnsured(c) BY <1>7, <1>8 DEF IsEnsured
<1>9. CASE EmbedFails(c) BY <1>7, <1>9 DEF EmbedFails
<1>10. CASE QueryFails(c) BY <1>7, <1>10 DEF QueryFails
<1>11. CASE Answer(c)
  <2>1. PICK verdict \in {"pass", "reject"} :
            GoesOn(c, IF order = "cache" THEN "check" ELSE "persist", asked[c].keep,
                   [text |-> asked[c].text, contract |-> asked[c].contract, guards |-> verdict])
    BY <1>11 DEF Answer
  <2>2. PICK where, answer : GoesOn(c, where, asked[c].keep, answer) /\ where # "ensuring"
    BY <2>1
  <2>3. asked[c].at # "free" /\ UNCHANGED <<ensured, exists, entries>> BY <1>11 DEF Answer
  <2>4. QED BY <1>7, <2>2, <2>3
<1>12. CASE Fail(c) \/ Deliver(c) BY <1>12, CallLeft DEF Fail, Deliver
<1>13. CASE CheckResult(c)
  <2>1. asked[c].at # "free" /\ UNCHANGED <<ensured, exists, entries>> BY <1>13 DEF CheckResult
  <2>2. CASE Rejected(c) BY <1>13, <2>1, <2>2, CallLeft DEF CheckResult
  <2>3. CASE ~Rejected(c)
    <3>1. PICK where : GoesOn(c, where, asked[c].keep, asked[c].answer) /\ where # "ensuring"
      BY <1>13, <2>3 DEF CheckResult
    <3>2. QED BY <1>7, <2>1, <3>1
  <2>4. QED BY <2>2, <2>3
<1>14. QED BY <1>1, <1>2, <1>3, <1>4, <1>5, <1>6, <1>8, <1>9, <1>10, <1>11, <1>12, <1>13

\* lookup with a store that filters by the contract, as PostgreSQL's and Qdrant's do:
\* besides, no search that works misses the answer to the very same call.
THEOREM CacheServesOnlyWhatFits ==
    ASSUME Overfetch = 0 PROVE CacheSpec => []ServesOnlyWhatFits
<1>1. CacheInit => FoundInv
  <2>1. CacheInit => EnsuredOnce /\ FindsTheSame
    BY DEF CacheInit, EnsuredOnce, FindsTheSame, NotAsked
  <2>2. QED BY <2>1, AnswersInvInit DEF FoundInv
<1>2. FoundInv /\ [CacheNext]_answerVars => FoundInv'
  <2> SUFFICES ASSUME FoundInv, [CacheNext]_answerVars PROVE FoundInv' OBVIOUS
  <2>1. AnswersInv' BY AnswersInvIsKept DEF FoundInv
  <2>2. CASE CacheNext BY <2>1, <2>2, FoundStep DEF FoundInv
  <2>3. CASE UNCHANGED answerVars
    BY <2>1, <2>3 DEF answerVars, FoundInv, EnsuredOnce, FindsTheSame
  <2>4. QED BY <2>2, <2>3
<1>3. CacheSpec => []FindsTheSame BY <1>1, <1>2, PTL DEF CacheSpec, FoundInv
<1>4. QED BY <1>3, AnswersAreFit, PTL DEF ServesOnlyWhatFits

-----------------------------------------------------------------------------
(* Ingestions *)

New == [at |-> "new"]
Ingesting == [at : {"ensure", "count", "split", "upsert", "done", "skipped", "failed"},
              how : {"ingest", "once", "save"}, stored : Nat, upTo : Nat]

AllOf(r) == IF r.how = "save" THEN 1 ELSE SourceChunks

Points == [by : Ingestions, chunk : Nat, copy : {0}]

\* The points that were sent and answered for, stored or refused.
Sent == points \cup refused
ReachedBy(i) == {p.chunk : p \in {q \in Sent : q.by = i}}

\* The chunks an ingestion has got to are those it counts, until a Clear; it fails within
\* the chunks of its source.
IngestionFits(i, r) ==
    /\ r = New \/ r \in Ingesting
    /\ r.at = "new" => ReachedBy(i) = {} /\ i \notin intact
    /\ r.at # "new" => ReachedBy(i) \subseteq 1 .. AllOf(r)
    /\ r.at \in {"ensure", "count"} => r.stored = 0
    /\ r.at = "split" => r.stored <= AllOf(r)
    /\ r.at = "upsert" => r.stored <= r.upTo /\ r.upTo <= AllOf(r)
    /\ r.at = "done" => r.stored = AllOf(r)
    /\ r.at \notin {"new", "skipped", "failed"} => ReachedBy(i) \subseteq 1 .. r.stored
    /\ i \in intact /\ r.at \notin {"skipped", "failed"} => ReachedBy(i) = 1 .. r.stored
    /\ i \in intact => \E n \in Nat : ReachedBy(i) = 1 .. n

IngestInv ==
    /\ kind \in {"psql", "qdrant", "weaviate"}
    /\ Sent \subseteq Points /\ IsFiniteSet(Sent)
    /\ points \cap refused = {} /\ (kind # "weaviate" => refused = {})
    /\ DOMAIN ingestion = Ingestions /\ intact \subseteq Ingestions
    /\ \A i \in Ingestions : IngestionFits(i, ingestion[i])

LEMMA LesserOfTwo ==
    ASSUME NEW m \in Int, NEW n \in Int
    PROVE  Min({m, n}) = IF m <= n THEN m ELSE n
BY DEF Min

LEMMA IngestInvInit == ASSUME RagInit PROVE IngestInv
<1>1. \A i : ReachedBy(i) = {} BY DEF RagInit, ReachedBy, Sent
<1>2. \A i \in Ingestions : IngestionFits(i, ingestion[i])
  BY <1>1 DEF RagInit, IngestionFits, New
<1>3. Sent = {} BY DEF RagInit, Sent
<1>4. QED BY <1>2, <1>3, FS_EmptySet DEF RagInit, IngestInv

\* An ingestion goes on, and no point comes or goes.
LEMMA IngestionMoves ==
    ASSUME IngestInv, NEW i \in Ingestions, NEW to, ingestion' = [ingestion EXCEPT ![i] = to],
           UNCHANGED <<kind, points, refused, intact>>, IngestionFits(i, to)
    PROVE  IngestInv'
<1>1. \A j, r : IngestionFits(j, r)' <=> IngestionFits(j, r) BY DEF IngestionFits, ReachedBy, Sent
<1>2. ASSUME NEW j \in Ingestions PROVE IngestionFits(j, ingestion[j])'
  <2>1. PICK r : r = ingestion'[j] OBVIOUS
  <2>2. IngestionFits(j, r) BY <2>1 DEF IngestInv
  <2>3. IngestionFits(j, r)' BY <1>1, <2>2
  <2>4. QED BY <2>1, <2>3 DEF IngestionFits
<1>3. DOMAIN ingestion' = Ingestions BY DEF IngestInv
<1>4. QED BY <1>2, <1>3 DEF IngestInv, Sent

\* Where Moves may take an ingestion.
LEMMA MovesFits ==
    ASSUME IngestInv, NEW i \in Ingestions, ingestion[i].at # "new",
           NEW to \in {"count", "split", "done", "skipped", "failed"}, Moves(i, to),
           UNCHANGED <<kind, points, refused, intact>>,
           to \in {"count", "split"} => ingestion[i].at \in {"ensure", "count"},
           to = "done" => ingestion[i].at = "split" /\ ingestion[i].stored = Chunks(i)
    PROVE  IngestInv'
<1> DEFINE r == ingestion[i]
           n == [r EXCEPT !.at = to]
<1>1. IngestionFits(i, r) BY DEF IngestInv
<1>2. r \in Ingesting BY <1>1 DEF IngestionFits, New
<1>3. /\ n \in Ingesting /\ n.at = to /\ n.stored = r.stored /\ n.upTo = r.upTo
      /\ AllOf(n) = AllOf(r)
  BY <1>2 DEF Ingesting, AllOf
<1>4. ingestion' = [ingestion EXCEPT ![i] = n] BY DEF Moves
<1>5. Chunks(i) = AllOf(r) /\ AllOf(r) \in Nat BY RetrievalConstants DEF Chunks, AllOf
<1> HIDE DEF n, r
<1>6. r.at # "new" BY DEF r
<1>7. to \in {"count", "split"} => r.stored = 0 BY <1>1 DEF IngestionFits, r
<1>8. to = "done" => r.stored = AllOf(r) /\ r.at = "split" BY <1>5 DEF r
<1>9. to \notin {"skipped", "failed"} =>
          /\ ReachedBy(i) \subseteq 1 .. r.stored
          /\ i \in intact => ReachedBy(i) = 1 .. r.stored
  <2>1. to \notin {"skipped", "failed"} => r.at \in {"ensure", "count", "split"} BY <1>8 DEF r
  <2>2. QED BY <1>1, <2>1 DEF IngestionFits
<1>10. IngestionFits(i, n) BY <1>1, <1>3, <1>5, <1>6, <1>7, <1>8, <1>9 DEF IngestionFits
<1>11. QED BY <1>4, <1>10, IngestionMoves

LEMMA BeginIngestionFits ==
    ASSUME IngestInv, NEW i \in Ingestions, BeginIngestion(i) PROVE IngestInv'
<1>1. PICK how \in {"ingest", "once", "save"} :
          ingestion' = [ingestion EXCEPT ![i] = [at |-> "ensure", how |-> how, stored |-> 0, upTo |-> 0]]
  BY DEF BeginIngestion
<1> DEFINE to == [at |-> "ensure", how |-> how, stored |-> 0, upTo |-> 0]
<1>2. to \in Ingesting /\ to.at = "ensure" /\ to.stored = 0 BY DEF Ingesting
<1>3. ingestion' = [ingestion EXCEPT ![i] = to] BY <1>1
<1> HIDE DEF to
<1>4. /\ ingestion[i].at = "new" /\ intact' = intact \cup {i} /\ UNCHANGED <<kind, points, refused>>
  BY DEF BeginIngestion
<1>5. ReachedBy(i) = {} BY <1>4 DEF IngestInv, IngestionFits
<1>6. \A j : ReachedBy(j)' = ReachedBy(j) BY <1>4 DEF ReachedBy, Sent
<1>7. ASSUME NEW j \in Ingestions PROVE IngestionFits(j, ingestion[j])'
  <2>1. CASE j = i
    <3>1. ingestion'[j] = to BY <1>3, <2>1 DEF IngestInv
    <3>2. ReachedBy(j)' = {} /\ 1 .. 0 = {} BY <1>5, <1>6, <2>1
    <3>3. QED BY <1>2, <3>1, <3>2 DEF IngestionFits
  <2>2. CASE j # i
    <3>1. ingestion'[j] = ingestion[j] /\ (j \in intact' <=> j \in intact)
      BY <1>3, <1>4, <2>2 DEF IngestInv
    <3>2. IngestionFits(j, ingestion[j]) BY DEF IngestInv
    <3>3. QED BY <1>6, <3>1, <3>2 DEF IngestionFits
  <2>3. QED BY <2>1, <2>2
<1>8. DOMAIN ingestion' = Ingestions BY <1>3 DEF IngestInv
<1>9. QED BY <1>4, <1>7, <1>8 DEF IngestInv, Sent

LEMMA NextBatchFits ==
    ASSUME IngestInv, NEW i \in Ingestions, NextBatch(i) PROVE IngestInv'
<1> DEFINE r == ingestion[i]
<1>1. r.at = "split" /\ UNCHANGED <<kind, points, refused, intact>> BY DEF NextBatch
<1>2. IngestionFits(i, r) /\ r \in Ingesting BY <1>1 DEF IngestInv, IngestionFits, New
<1>3. Chunks(i) = AllOf(r) /\ AllOf(r) \in Nat BY RetrievalConstants DEF Chunks, AllOf
<1>4. r.stored \in Nat /\ r.stored <= AllOf(r) BY <1>1, <1>2 DEF IngestionFits, Ingesting
<1>5. BatchEnd(i) = IF r.stored + EmbedBatch <= AllOf(r) THEN r.stored + EmbedBatch ELSE AllOf(r)
  BY <1>3, <1>4, LesserOfTwo, RetrievalConstants DEF BatchEnd
<1>6. CASE /\ BatchEnd(i) > r.stored
           /\ ingestion' = [ingestion EXCEPT ![i].at = "upsert", ![i].stored = BatchFrom(i), ![i].upTo = BatchEnd(i)]
  <2> DEFINE to == [r EXCEPT !.at = "upsert", !.upTo = BatchEnd(i)]
  <2>1. ingestion' = [ingestion EXCEPT ![i] = to] BY <1>6 DEF BatchFrom
  <2>2. BatchEnd(i) \in Nat /\ BatchEnd(i) <= AllOf(r) BY <1>3, <1>4, <1>5, RetrievalConstants
  <2>3. /\ to \in Ingesting /\ to.at = "upsert" /\ to.stored = r.stored /\ to.upTo = BatchEnd(i)
        /\ AllOf(to) = AllOf(r)
    BY <1>2, <2>2 DEF Ingesting, AllOf
  <2> HIDE DEF to, r
  <2>4. r.stored <= BatchEnd(i) BY <1>4, <1>6, <2>2 DEF r
  <2>5. IngestionFits(i, to) BY <1>1, <1>2, <2>2, <2>3, <2>4 DEF IngestionFits
  <2>6. QED BY <1>1, <2>1, <2>5, IngestionMoves
<1>7. CASE BatchEnd(i) = r.stored /\ Moves(i, "done")
  <2>1. r.stored = AllOf(r) BY <1>3, <1>4, <1>5, <1>7, RetrievalConstants
  <2>2. QED BY <1>1, <1>3, <1>7, <2>1, MovesFits
<1>8. CASE Moves(i, "failed") BY <1>1, <1>8, MovesFits
<1>9. QED BY <1>6, <1>7, <1>8 DEF NextBatch

LEMMA RequestFits ==
    ASSUME IngestInv, NEW i \in Ingestions, ingestion[i].at = "upsert"
    PROVE  /\ ingestion[i] \in Ingesting /\ RequestEnd(i) \in Nat
           /\ ingestion[i].stored <= RequestEnd(i) /\ RequestEnd(i) <= ingestion[i].upTo
           /\ RequestPoints(i) = {[by |-> i, chunk |-> n, copy |-> 0] : n \in ingestion[i].stored + 1 .. RequestEnd(i)}
           /\ RequestPoints(i) \subseteq Points /\ RequestPoints(i) \cap Sent = {}
           /\ IsFiniteSet(RequestPoints(i))
<1> DEFINE r == ingestion[i]
<1>1. IngestionFits(i, r) /\ r \in Ingesting BY DEF IngestInv, IngestionFits, New
<1>2. r.stored \in Nat /\ r.upTo \in Nat /\ r.stored <= r.upTo
  BY <1>1 DEF IngestionFits, Ingesting
<1>3. RequestEnd(i) \in Nat /\ r.stored <= RequestEnd(i) /\ RequestEnd(i) <= r.upTo
  <2>1. CASE kind = "psql" \/ StoreBatch <= 0 BY <1>2, <2>1 DEF RequestEnd
  <2>2. CASE ~(kind = "psql" \/ StoreBatch <= 0)
    <3>1. StoreBatch \in Nat /\ StoreBatch > 0 BY <2>2, RetrievalConstants
    <3>2. RequestEnd(i) = IF r.stored + StoreBatch <= r.upTo THEN r.stored + StoreBatch ELSE r.upTo
      BY <1>2, <2>2, <3>1, LesserOfTwo DEF RequestEnd
    <3>3. QED BY <1>2, <3>1, <3>2
  <2>3. QED BY <2>1, <2>2
<1> DEFINE S == r.stored + 1 .. RequestEnd(i)
           Point(n) == [by |-> i, chunk |-> n, copy |-> 0]
<1>4. ReachedBy(i) \subseteq 1 .. r.stored BY <1>1 DEF IngestionFits
<1>5. ASSUME NEW n \in S PROVE Copies(i, n) = 0 /\ Point(n) \notin Sent /\ Point(n) \in Points
  <2>1. n \in Nat /\ n \notin 1 .. r.stored BY <1>2, <1>3
  <2>2. n \notin ReachedBy(i) BY <1>4, <2>1
  <2>3. \A p \in Sent : ~(p.by = i /\ p.chunk = n) BY <2>2 DEF ReachedBy
  <2>4. {p \in points : p.by = i /\ p.chunk = n} = {} BY <2>3 DEF Sent
  <2>5. Copies(i, n) = 0 BY <2>4, FS_EmptySet DEF Copies
  <2>6. Point(n).by = i /\ Point(n).chunk = n /\ Point(n) \in Points BY <2>1 DEF Points
  <2>7. QED BY <2>3, <2>5, <2>6
<1>6. RequestPoints(i) = {Point(n) : n \in S} BY <1>5 DEF RequestPoints
<1>7. IsFiniteSet(RequestPoints(i))
  <2> DEFINE f == [n \in S |-> Point(n)]
  <2>1. IsFiniteSet(S)
    <3>1. r.stored + 1 \in Int /\ RequestEnd(i) \in Int BY <1>2, <1>3
    <3>2. QED BY <3>1, FS_Interval
  <2>2. f \in Surjection(S, RequestPoints(i)) BY <1>6 DEF Surjection
  <2>3. QED BY <2>1, <2>2, FS_Surjection
<1>8. RequestPoints(i) \subseteq Points /\ RequestPoints(i) \cap Sent = {} BY <1>5, <1>6
<1>9. QED BY <1>1, <1>3, <1>6, <1>7, <1>8

LEMMA UpsertFits ==
    ASSUME IngestInv, NEW i \in Ingestions, Upsert(i) PROVE IngestInv'
<1> DEFINE r == ingestion[i]
           end == RequestEnd(i)
<1>1. r.at = "upsert" /\ UNCHANGED <<kind, intact>> BY DEF Upsert
<1>2. CASE UNCHANGED <<points, refused>> /\ Moves(i, "failed") BY <1>1, <1>2, MovesFits
<1>3. CASE /\ \E left \in Refusals(i) : /\ points' = points \cup (RequestPoints(i) \ left)
                                      /\ refused' = refused \cup left
           /\ \/ ingestion' = [ingestion EXCEPT ![i].stored = end,
                                  ![i].at = IF end = ingestion[i].upTo THEN "split" ELSE "upsert"]
              \/ Moves(i, "failed")
  <2>1. /\ r \in Ingesting /\ end \in Nat /\ r.stored <= end /\ end <= r.upTo
        /\ RequestPoints(i) = {[by |-> i, chunk |-> n, copy |-> 0] : n \in r.stored + 1 .. end}
        /\ RequestPoints(i) \subseteq Points /\ RequestPoints(i) \cap Sent = {}
        /\ IsFiniteSet(RequestPoints(i))
    BY <1>1, RequestFits
  <2>2. IngestionFits(i, r) BY DEF IngestInv
  <2>3. /\ AllOf(r) \in Nat /\ r.stored \in Nat /\ r.upTo \in Nat /\ r.upTo <= AllOf(r)
    BY <1>1, <2>1, <2>2, RetrievalConstants DEF IngestionFits, Ingesting, AllOf
  <2>4. /\ Sent' = Sent \cup RequestPoints(i) /\ points' \cap refused' = {}
        /\ kind # "weaviate" => refused' = {}
        /\ Sent' \subseteq Points /\ IsFiniteSet(Sent')
    <3>1. PICK left : /\ left \subseteq RequestPoints(i) /\ (kind # "weaviate" => left = {})
                      /\ points' = points \cup (RequestPoints(i) \ left)
                      /\ refused' = refused \cup left
      BY <1>3 DEF Refusals
    <3>2. Sent' = Sent \cup RequestPoints(i) BY <3>1 DEF Sent
    <3>3. points' \cap refused' = {} /\ (kind # "weaviate" => refused' = {})
      BY <2>1, <3>1 DEF IngestInv, Sent
    <3>4. Sent' \subseteq Points /\ IsFiniteSet(Sent') BY <2>1, <3>2, FS_Union DEF IngestInv
    <3>5. QED BY <3>2, <3>3, <3>4
  <2>5. ReachedBy(i)' = ReachedBy(i) \cup (r.stored + 1 .. end)
    <3>1. ReachedBy(i)' = {p.chunk : p \in {q \in Sent \cup RequestPoints(i) : q.by = i}}
      BY <2>4 DEF ReachedBy
    <3>2. RequestPoints(i) = {[by |-> i, chunk |-> n, copy |-> 0] : n \in r.stored + 1 .. end}
      BY <2>1
    <3>3. ASSUME NEW x \in ReachedBy(i)' PROVE x \in ReachedBy(i) \cup (r.stored + 1 .. end)
      <4>1. PICK q \in Sent \cup RequestPoints(i) : q.by = i /\ x = q.chunk BY <3>1, <3>3
      <4>2. QED BY <3>2, <4>1 DEF ReachedBy
    <3>4. ASSUME NEW x \in ReachedBy(i) PROVE x \in ReachedBy(i)' BY <3>1, <3>4 DEF ReachedBy
    <3>5. ASSUME NEW x \in r.stored + 1 .. end PROVE x \in ReachedBy(i)'
      <4>1. [by |-> i, chunk |-> x, copy |-> 0] \in RequestPoints(i) BY <3>2, <3>5
      <4>2. QED BY <3>1, <4>1
    <3>6. QED BY <3>3, <3>4, <3>5
  <2>6. ASSUME NEW j \in Ingestions, j # i PROVE ReachedBy(j)' = ReachedBy(j)
    <3>1. \A p \in RequestPoints(i) : p.by = i BY <2>1
    <3>2. {q \in Sent' : q.by = j} = {q \in Sent : q.by = j} BY <2>4, <2>6, <3>1
    <3>3. QED BY <3>2 DEF ReachedBy
  <2>7. i \in intact => ReachedBy(i)' = 1 .. end
    <3>1. SUFFICES ASSUME i \in intact PROVE ReachedBy(i)' = 1 .. end OBVIOUS
    <3>2. ReachedBy(i) = 1 .. r.stored BY <1>1, <2>2, <3>1 DEF IngestionFits
    <3>3. QED BY <2>1, <2>3, <2>5, <3>2
  <2>8. ReachedBy(i)' \subseteq 1 .. AllOf(r)
    <3>1. ReachedBy(i) \subseteq 1 .. AllOf(r) BY <1>1, <2>2 DEF IngestionFits
    <3>2. QED BY <2>1, <2>3, <2>5, <3>1
  <2>13. ReachedBy(i)' \subseteq 1 .. end
    <3>1. ReachedBy(i) \subseteq 1 .. r.stored BY <1>1, <2>2 DEF IngestionFits
    <3>2. QED BY <2>1, <2>3, <2>5, <3>1
  <2>9. PICK to : /\ ingestion' = [ingestion EXCEPT ![i] = to] /\ to \in Ingesting
                  /\ AllOf(to) = AllOf(r) /\ to.upTo = r.upTo
                  /\ \/ /\ to.stored = end
                        /\ to.at = "upsert" \/ (to.at = "split" /\ end = r.upTo)
                     \/ to.at = "failed"
    <3>1. CASE ingestion' = [ingestion EXCEPT ![i].stored = end,
                                ![i].at = IF end = ingestion[i].upTo THEN "split" ELSE "upsert"]
      <4> DEFINE where == IF end = r.upTo THEN "split" ELSE "upsert"
                 to == [r EXCEPT !.stored = end, !.at = where]
      <4>1. ingestion' = [ingestion EXCEPT ![i] = to] BY <3>1
      <4>2. where = "upsert" \/ (where = "split" /\ end = r.upTo) OBVIOUS
      <4> HIDE DEF where
      <4>3. /\ to \in Ingesting /\ AllOf(to) = AllOf(r) /\ to.upTo = r.upTo
            /\ to.stored = end /\ to.at = where
        BY <2>1, <4>2 DEF Ingesting, AllOf
      <4>4. QED BY <4>1, <4>2, <4>3
    <3>2. CASE Moves(i, "failed")
      <4> DEFINE to == [r EXCEPT !.at = "failed"]
      <4>1. ingestion' = [ingestion EXCEPT ![i] = to] BY <3>2 DEF Moves
      <4>2. /\ to \in Ingesting /\ AllOf(to) = AllOf(r) /\ to.upTo = r.upTo
            /\ to.at = "failed"
        BY <2>1 DEF Ingesting, AllOf
      <4>3. QED BY <4>1, <4>2
    <3>3. QED BY <1>3, <3>1, <3>2
  <2>10. ASSUME NEW j \in Ingestions PROVE IngestionFits(j, ingestion[j])'
    <3>1. CASE j = i
      <4>1. ingestion'[j] = to BY <2>9, <3>1 DEF IngestInv
      <4>2. j \in intact' => \E n \in Nat : ReachedBy(j)' = 1 .. n BY <1>1, <2>1, <2>7, <3>1
      <4>3. end <= r.upTo /\ r.upTo <= AllOf(to) BY <2>1, <2>3, <2>9
      <4>4. end <= AllOf(to) BY <2>1, <2>3, <2>9, <4>3
      <4>5. ReachedBy(j)' \subseteq 1 .. AllOf(to) BY <2>8, <2>9, <3>1
      <4>8. ReachedBy(j)' \subseteq 1 .. end BY <2>13, <3>1
      <4>6. j \in intact' => ReachedBy(j)' = 1 .. end BY <1>1, <2>7, <3>1
      <4> HIDE DEF end, r
      <4>7. QED BY <2>9, <4>1, <4>2, <4>3, <4>4, <4>5, <4>6, <4>8 DEF IngestionFits
    <3>2. CASE j # i
      <4>1. ingestion'[j] = ingestion[j] BY <2>9, <3>2 DEF IngestInv
      <4>2. IngestionFits(j, ingestion[j]) BY DEF IngestInv
      <4>3. ReachedBy(j)' = ReachedBy(j) BY <2>6, <3>2
      <4>4. QED BY <1>1, <4>1, <4>2, <4>3 DEF IngestionFits
    <3>3. QED BY <3>1, <3>2
  <2>11. DOMAIN ingestion' = Ingestions BY <2>9 DEF IngestInv
  <2>12. QED BY <1>1, <2>4, <2>10, <2>11 DEF IngestInv
<1>4. QED BY <1>2, <1>3 DEF Upsert

\* A Clear leaves no point, and no ingestion that is still looked at.
LEMMA EmptiedFits ==
    ASSUME IngestInv, UNCHANGED <<kind, ingestion>>, points' = {}, refused' = {}, intact' = {}
    PROVE  IngestInv'
<1>1. \A j : ReachedBy(j)' = {} BY DEF ReachedBy, Sent
<1>2. ASSUME NEW j \in Ingestions PROVE IngestionFits(j, ingestion[j])'
  <2>1. IngestionFits(j, ingestion[j]) BY DEF IngestInv
  <2>2. QED BY <1>1, <2>1 DEF IngestionFits
<1>3. Sent' = {} BY DEF Sent
<1>4. QED BY <1>2, <1>3, FS_EmptySet DEF IngestInv

LEMMA UntouchedFits ==
    ASSUME IngestInv, UNCHANGED <<kind, ingestion, points, refused, intact>> PROVE IngestInv'
BY DEF IngestInv, IngestionFits, ReachedBy, Sent

LEMMA IngestInvIsKept == IngestInv /\ [RagNext]_ragVars => IngestInv'
<1> SUFFICES ASSUME IngestInv, [RagNext]_ragVars PROVE IngestInv' OBVIOUS
<1>1. ASSUME NEW i \in Ingestions, BeginIngestion(i) PROVE IngestInv'
  BY <1>1, BeginIngestionFits
<1>2. ASSUME NEW i \in Ingestions, Ensure(i) PROVE IngestInv'
  <2>1. ingestion[i].at = "ensure" /\ UNCHANGED <<kind, points, refused, intact>> BY <1>2 DEF Ensure
  <2>2. \E to \in {"count", "split", "failed"} : Moves(i, to)
    BY <1>2 DEF Ensure
  <2>3. PICK to \in {"count", "split", "failed"} : Moves(i, to) BY <2>2
  <2>4. QED BY <2>1, <2>3, MovesFits
<1>3. ASSUME NEW i \in Ingestions, Count(i) PROVE IngestInv'
  <2>1. ingestion[i].at = "count" /\ UNCHANGED <<kind, points, refused, intact>> BY <1>3 DEF Count
  <2>2. \E to \in {"failed", "skipped", "split"} : Moves(i, to) BY <1>3 DEF Count
  <2>3. PICK to \in {"failed", "skipped", "split"} : Moves(i, to) BY <2>2
  <2>4. QED BY <2>1, <2>3, MovesFits
<1>4. ASSUME NEW i \in Ingestions, NextBatch(i) PROVE IngestInv' BY <1>4, NextBatchFits
<1>5. ASSUME NEW i \in Ingestions, Upsert(i) PROVE IngestInv' BY <1>5, UpsertFits
<1>6. CASE QueryEnsures BY <1>6, UntouchedFits DEF QueryEnsures
<1>7. CASE ClearCollection BY <1>7, EmptiedFits, UntouchedFits DEF ClearCollection
<1>8. CASE Recreate BY <1>8, UntouchedFits DEF Recreate
<1>9. CASE UNCHANGED ragVars BY <1>9, UntouchedFits DEF ragVars
<1>10. QED BY <1>1, <1>2, <1>3, <1>4, <1>5, <1>6, <1>7, <1>8, <1>9 DEF RagNext

\* rag.Ingest and the stores' Upsert: whatever runs at the same time, wherever one fails,
\* and whichever objects Weaviate refuses, the chunks an ingestion has got to are the
\* first of its source, each stored once or refused, and all of them when it succeeds.
THEOREM IngestionsInOrder == RagSpec => []IngestsInOrder
<1>1. RagInit => IngestInv BY IngestInvInit
<1>2. IngestInv /\ [RagNext]_ragVars => IngestInv' BY IngestInvIsKept
<1>3. IngestInv => IngestsInOrder
  <2> SUFFICES ASSUME IngestInv PROVE IngestsInOrder OBVIOUS
  <2>1. ASSUME NEW p \in Sent, NEW q \in Sent, p.by = q.by, p.chunk = q.chunk PROVE p = q
    <3>1. /\ p = [by |-> p.by, chunk |-> p.chunk, copy |-> 0]
          /\ q = [by |-> q.by, chunk |-> q.chunk, copy |-> 0]
      BY DEF IngestInv, Points
    <3>2. QED BY <2>1, <3>1
  <2>2. ASSUME NEW i \in intact
        PROVE  LET reached == StoredBy(i) \cup RefusedOf(i)
               IN  /\ reached = 1 .. Cardinality(reached)
                   /\ StoredBy(i) \cap RefusedOf(i) = {}
                   /\ ingestion[i].at = "done" => reached = 1 .. Chunks(i)
    <3>1. StoredBy(i) \cup RefusedOf(i) = ReachedBy(i) BY DEF StoredBy, RefusedOf, ReachedBy, Sent
    <3>2. i \in Ingestions BY DEF IngestInv
    <3>3. IngestionFits(i, ingestion[i]) BY <3>2 DEF IngestInv
    <3>4. PICK n \in Nat : ReachedBy(i) = 1 .. n BY <3>3 DEF IngestionFits
    <3>5. Cardinality(1 .. n) = n BY FS_Interval
    <3>6. Chunks(i) = AllOf(ingestion[i]) BY DEF Chunks, AllOf
    <3>7. ingestion[i].at = "done" => ReachedBy(i) = 1 .. Chunks(i)
      BY <3>3, <3>6 DEF IngestionFits
    <3>8. ASSUME NEW x \in StoredBy(i) \cap RefusedOf(i) PROVE FALSE
      <4>1. PICK p \in points : p.by = i /\ p.chunk = x BY <3>8 DEF StoredBy
      <4>2. PICK q \in refused : q.by = i /\ q.chunk = x BY <3>8 DEF RefusedOf
      <4>3. p = q BY <2>1, <4>1, <4>2 DEF Sent
      <4>4. QED BY <4>3 DEF IngestInv
    <3>9. QED BY <3>1, <3>4, <3>5, <3>7, <3>8
  <2>3. \A p, q \in points : p.by = q.by /\ p.chunk = q.chunk => p = q BY <2>1 DEF Sent
  <2>4. QED BY <2>2, <2>3 DEF IngestsInOrder, IngestInv
<1>4. QED BY <1>1, <1>2, <1>3, PTL DEF RagSpec

-----------------------------------------------------------------------------
(* Queries *)

\* PostgreSQL takes a condition as MatchPayload does; Qdrant does not of a value of
\* QdrantDeparts, and of no other.
LEMMA FiltersMean ==
    ASSUME NEW c, NEW v, SupportedCondition(c)
    PROVE  /\ SqlMatches(c, v) <=> MatchCondition(c, v)
           /\ QdrantMatches(c, v) <=> IF QdrantDeparts(c, v) THEN ~MatchCondition(c, v) ELSE MatchCondition(c, v)
<1>1. \A w \in ValuesIn(c) : w.type \in Scalars BY DEF SupportedCondition
<1>2. ASSUME NEW x, NEW w \in ValuesIn(c)
      PROVE  (IF w.type = "float" THEN IsNumber(x) /\ x.is = w.is ELSE x.type = w.type /\ x.is = w.is)
                 <=> ValuesEqual(x, w) /\ ~FloatForInteger(x, w)
  BY <1>1 DEF ValuesEqual, FloatForInteger, IsNumber, Scalars
<1>3. ASSUME NEW w \in ValuesIn(c)
      PROVE  EqCondition(v, w) <=>
                 IF v.type = "list" THEN ListHolds(v, w) ELSE ValuesEqual(v, w) /\ ~FloatForInteger(v, w)
  <2>1. CASE v.type = "list"
    <3>1. AnyOf(v) = v.is BY <2>1 DEF AnyOf
    <3>2. EqCondition(v, w) <=>
              \E x \in v.is : IF w.type = "float" THEN IsNumber(x) /\ x.is = w.is
                             ELSE x.type = w.type /\ x.is = w.is
      BY <3>1, Zenon DEF EqCondition
    <3>3. ListHolds(v, w) <=> \E x \in v.is : ValuesEqual(x, w) /\ ~FloatForInteger(x, w)
      BY <2>1, Zenon DEF ListHolds
    <3>4. \A x : (IF w.type = "float" THEN IsNumber(x) /\ x.is = w.is ELSE x.type = w.type /\ x.is = w.is)
                     <=> ValuesEqual(x, w) /\ ~FloatForInteger(x, w)
      BY <1>2
    <3>5. EqCondition(v, w) <=> ListHolds(v, w) BY <3>2, <3>3, <3>4, Zenon
    <3>6. QED BY <2>1, <3>5
  <2>2. CASE v.type # "list"
    <3>1. AnyOf(v) = {v} BY <2>2 DEF AnyOf
    <3>2. QED BY <1>2, <2>2, <3>1 DEF EqCondition
  <2>3. QED BY <2>1, <2>2
<1>4. ASSUME NEW w \in ValuesIn(c)
      PROVE  /\ v.type \in {"missing", "null", "list"} => ~ValuesEqual(v, w)
             /\ FloatForInteger(v, w) => ValuesEqual(v, w) /\ v.type # "list"
             /\ ListHolds(v, w) => v.type = "list"
  BY <1>1 DEF ValuesEqual, FloatForInteger, ListHolds, IsNumber, Scalars
<1>5. ASSUME NEW w \in ValuesIn(c), w.type = "float", w.is = v.is, v.type = "float"
      PROVE  ValuesEqual(v, w) /\ ~FloatForInteger(v, w)
  BY <1>5 DEF ValuesEqual, FloatForInteger, IsNumber
<1>6. CASE c.op \in {"eq", "ne"}
  <2> DEFINE w == c.value
  <2>1. w \in ValuesIn(c) BY <1>6 DEF ValuesIn
  <2> HIDE DEF w
  <2>2. EqCondition(v, w) <=>
            IF v.type = "list" THEN ListHolds(v, w) ELSE ValuesEqual(v, w) /\ ~FloatForInteger(v, w)
    BY <1>3, <2>1
  <2>3. /\ v.type \in {"missing", "null", "list"} => ~ValuesEqual(v, w)
        /\ FloatForInteger(v, w) => ValuesEqual(v, w) /\ v.type # "list"
        /\ ListHolds(v, w) => v.type = "list"
    BY <1>4, <2>1
  <2>4. CASE c.op = "eq"
    <3>1. /\ SqlMatches(c, v) <=> ValuesEqual(v, w)
          /\ MatchCondition(c, v) <=> v.type # "missing" /\ ValuesEqual(v, w)
          /\ QdrantMatches(c, v) <=> EqCondition(v, w)
          /\ QdrantDeparts(c, v) <=> FloatForInteger(v, w) \/ ListHolds(v, w)
      BY <2>4 DEF SqlMatches, MatchCondition, QdrantMatches, QdrantDeparts, JsonContains, w
    <3>2. QED BY <2>2, <2>3, <3>1
  <2>5. CASE c.op = "ne"
    <3>1. /\ SqlMatches(c, v) <=> v.type # "missing" /\ ~ValuesEqual(v, w)
          /\ MatchCondition(c, v) <=> v.type # "missing" /\ ~ValuesEqual(v, w)
          /\ QdrantMatches(c, v) <=> ~EqCondition(v, w) /\ ~IsEmpty(v)
          /\ QdrantDeparts(c, v) <=> \/ FloatForInteger(v, w) \/ ListHolds(v, w)
                                     \/ v.type = "null" \/ (v.type = "list" /\ v.is = {})
      BY <2>5 DEF SqlMatches, MatchCondition, QdrantMatches, QdrantDeparts, JsonContains, w
    <3>2. ListHolds(v, w) => v.is # {} BY DEF ListHolds
    <3>3. FloatForInteger(v, w) => v.type = "float" BY DEF FloatForInteger
    <3>4. QED BY <2>2, <2>3, <3>1, <3>2, <3>3 DEF IsEmpty
  <2>6. QED BY <1>6, <2>4, <2>5
<1>7. CASE c.op = "in"
  <2>1. ValuesIn(c) = c.values BY <1>7 DEF ValuesIn
  <2>2. /\ SqlMatches(c, v) <=> \E w \in c.values : ValuesEqual(v, w)
        /\ MatchCondition(c, v) <=> v.type # "missing" /\ \E w \in c.values : ValuesEqual(v, w)
        /\ QdrantMatches(c, v) <=> \E w \in c.values : EqCondition(v, w)
        /\ QdrantDeparts(c, v) <=> \/ /\ \E w \in c.values : FloatForInteger(v, w)
                                      /\ ~\E w \in c.values : w.type = "float" /\ w.is = v.is
                                   \/ \E w \in c.values : ListHolds(v, w)
    BY <1>7 DEF SqlMatches, MatchCondition, QdrantMatches, QdrantDeparts, JsonContains
  <2>3. CASE v.type = "list"
    <3>1. /\ ~MatchCondition(c, v) /\ ~SqlMatches(c, v)
          /\ ~\E w \in c.values : FloatForInteger(v, w)
      BY <1>4, <2>1, <2>2, <2>3
    <3>2. QdrantMatches(c, v) <=> \E w \in c.values : ListHolds(v, w) BY <1>3, <2>1, <2>2, <2>3
    <3>3. QED BY <2>2, <3>1, <3>2
  <2>4. CASE v.type # "list"
    <3>1. SqlMatches(c, v) <=> MatchCondition(c, v) BY <1>4, <2>1, <2>2
    <3>2. ~\E w \in c.values : ListHolds(v, w) BY <1>4, <2>1, <2>4
    <3>3. QdrantMatches(c, v) <=> \E w \in c.values : ValuesEqual(v, w) /\ ~FloatForInteger(v, w)
      BY <1>3, <2>1, <2>2, <2>4
    <3>4. QdrantMatches(c, v) => MatchCondition(c, v) BY <1>4, <2>1, <2>2, <3>3
    <3>5. QdrantDeparts(c, v) => MatchCondition(c, v) /\ ~QdrantMatches(c, v)
      <4>1. SUFFICES ASSUME QdrantDeparts(c, v) PROVE MatchCondition(c, v) /\ ~QdrantMatches(c, v) OBVIOUS
      <4>2. PICK u \in c.values : FloatForInteger(v, u) BY <2>2, <3>2, <4>1
      <4>3. v.type = "float" BY <4>2 DEF FloatForInteger
      <4>4. MatchCondition(c, v) BY <1>4, <2>1, <2>2, <4>2, <4>3
      <4>5. ~\E w \in c.values : w.type = "float" /\ w.is = v.is BY <2>2, <3>2, <4>1
      <4>6. ASSUME NEW w \in c.values, ValuesEqual(v, w), ~FloatForInteger(v, w) PROVE FALSE
        <5>1. w.type = "float" /\ w.is = v.is
          BY <4>3, <4>6 DEF ValuesEqual, FloatForInteger, IsNumber
        <5>2. QED BY <4>5, <5>1
      <4>7. QED BY <3>3, <4>4, <4>6
    <3>6. MatchCondition(c, v) /\ ~QdrantMatches(c, v) => QdrantDeparts(c, v)
      <4>1. SUFFICES ASSUME MatchCondition(c, v), ~QdrantMatches(c, v) PROVE QdrantDeparts(c, v) OBVIOUS
      <4>2. PICK u \in c.values : ValuesEqual(v, u) BY <2>2, <4>1
      <4>3. FloatForInteger(v, u) BY <3>3, <4>1, <4>2
      <4>4. ASSUME NEW w \in c.values, w.type = "float", w.is = v.is PROVE FALSE
        <5>1. v.type = "float" BY <4>3 DEF FloatForInteger
        <5>2. ValuesEqual(v, w) /\ ~FloatForInteger(v, w) BY <1>5, <2>1, <4>4, <5>1
        <5>3. QED BY <3>3, <4>1, <5>2
      <4>5. QED BY <2>2, <4>3, <4>4
    <3>7. QED BY <3>1, <3>4, <3>5, <3>6
  <2>5. QED BY <2>3, <2>4
<1>8. CASE c.op \notin {"eq", "ne", "in"}
  <2>1. /\ SqlMatches(c, v) <=> InRange(c, v)
        /\ MatchCondition(c, v) <=> v.type # "missing" /\ InRange(c, v)
        /\ QdrantMatches(c, v) <=> \E x \in AnyOf(v) : InRange(c, x)
        /\ QdrantDeparts(c, v) <=> v.type = "list" /\ \E x \in v.is : InRange(c, x)
    BY <1>8 DEF SqlMatches, MatchCondition, QdrantMatches, QdrantDeparts
  <2>2. v.type \in {"missing", "list"} => ~InRange(c, v) BY DEF InRange, IsNumber
  <2>3. CASE v.type = "list"
    <3>1. AnyOf(v) = v.is BY <2>3 DEF AnyOf
    <3>2. QED BY <2>1, <2>2, <2>3, <3>1
  <2>4. CASE v.type # "list"
    <3>1. AnyOf(v) = {v} BY <2>4 DEF AnyOf
    <3>2. QED BY <2>1, <2>2, <2>4, <3>1
  <2>5. QED BY <2>3, <2>4
<1>9. QED BY <1>6, <1>7, <1>8

LEMMA SomeOf ==
    ASSUME NEW S, IsFiniteSet(S), NEW n \in Nat, NEW found \in AtMost(n, S)
    PROVE  /\ found \subseteq S /\ Cardinality(found) = Min({n, Cardinality(S)})
           /\ Cardinality(S) <= n => found = S
<1>1. found \in SUBSET S /\ Cardinality(found) = Min({n, Cardinality(S)}) BY DEF AtMost, kSubset
<1>2. Cardinality(S) \in Nat BY FS_CardinalityType
<1>3. Cardinality(S) <= n => Cardinality(found) = Cardinality(S)
  BY <1>1, <1>2, LesserOfTwo
<1>4. QED BY <1>1, <1>3, FS_Subset

LEMMA MatchesAgree ==
    ASSUME IngestInv PROVE QueriesAgree
<1> DEFINE Matching(c) == {p \in points : MeansMatch(c, ValueOf(p, c))}
<1> SUFFICES ASSUME NEW c \in Conditions, NEW found \in Results(c)
             PROVE  /\ found \subseteq Matching(c)
                    /\ Cardinality(found) = Min({TopK, Cardinality(Matching(c))})
                       \/ (kind = "weaviate" /\ Cardinality(points) > TopK * OverfetchFactor)
  BY DEF QueriesAgree
<1>1. TopK \in Nat /\ TopK * OverfetchFactor \in Nat BY RetrievalConstants DEF OverfetchFactor
<1>2. IsFiniteSet(points) /\ Cardinality(points) \in Nat
  <2>1. IsFiniteSet(Sent) /\ points \subseteq Sent BY DEF IngestInv, Sent
  <2>2. QED BY <2>1, FS_Subset, FS_CardinalityType
<1>3. Matching(c) \subseteq points /\ IsFiniteSet(Matching(c)) BY <1>2, FS_Subset
<1>4. CASE kind # "weaviate"
  <2>1. ASSUME NEW p \in points
        PROVE  (IF kind = "psql" THEN SqlMatches(c, ValueOf(p, c)) ELSE QdrantMatches(c, ValueOf(p, c)))
                   <=> MeansMatch(c, ValueOf(p, c))
    <3>1. PICK v : v = ValueOf(p, c) OBVIOUS
    <3>2. SupportedCondition(c) BY RetrievalConstants
    <3>3. kind \in {"psql", "qdrant"} BY <1>4 DEF IngestInv
    <3>4. QED BY <3>1, <3>2, <3>3, FiltersMean DEF MeansMatch
  <2>2. {p \in points : IF kind = "psql" THEN SqlMatches(c, ValueOf(p, c)) ELSE QdrantMatches(c, ValueOf(p, c))}
            = Matching(c)
    BY <2>1
  <2>3. found \in AtMost(TopK, Matching(c)) BY <1>4, <2>2 DEF Results
  <2>4. QED BY <1>1, <1>3, <2>3, SomeOf
<1>5. CASE kind = "weaviate"
  <2>1. PICK fetched \in AtMost(TopK * OverfetchFactor, points) :
            found \in AtMost(TopK, {p \in fetched : MatchCondition(c, ValueOf(p, c))})
    BY <1>5 DEF Results
  <2> DEFINE S == {p \in fetched : MatchCondition(c, ValueOf(p, c))}
  <2>2. fetched \subseteq points /\ (Cardinality(points) <= TopK * OverfetchFactor => fetched = points)
    BY <1>1, <1>2, <2>1, SomeOf
  <2>8. \A p : MeansMatch(c, ValueOf(p, c)) <=> MatchCondition(c, ValueOf(p, c)) BY <1>5 DEF MeansMatch
  <2>3. S \subseteq Matching(c) BY <2>2, <2>8
  <2>4. IsFiniteSet(S) BY <1>3, <2>3, FS_Subset
  <2>5. found \subseteq S /\ Cardinality(found) = Min({TopK, Cardinality(S)})
    BY <1>1, <2>1, <2>4, SomeOf
  <2>6. CASE Cardinality(points) <= TopK * OverfetchFactor
    <3>1. S = Matching(c) BY <2>2, <2>6, <2>8
    <3>2. QED BY <2>5, <3>1
  <2>7. CASE ~(Cardinality(points) <= TopK * OverfetchFactor) BY <1>1, <1>2, <1>5, <2>3, <2>5, <2>7
  <2>9. QED BY <2>6, <2>7
<1>6. QED BY <1>4, <1>5

\* Query, filterSQL, translateFilter: of whatever payloads, and conditions on strings,
\* booleans and numbers, PostgreSQL and Weaviate return points that match as MatchPayload
\* says, Qdrant does but for the values of QdrantDeparts, and each returns as many as
\* there are, up to the limit; Weaviate's may miss some when it has more points than it
\* fetches.
THEOREM StoresAgree == RagSpec => []QueriesAgree
<1>1. RagInit => IngestInv BY IngestInvInit
<1>2. IngestInv /\ [RagNext]_ragVars => IngestInv' BY IngestInvIsKept
<1>3. IngestInv => QueriesAgree BY MatchesAgree
<1>4. QED BY <1>1, <1>2, <1>3, PTL DEF RagSpec
=============================================================================

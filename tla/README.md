# phero: a verification project

TLA+ models of the stateful parts of phero (a Go framework for LLM agents), the TLC
runs that check them on small instances, and TLAPS proofs of what matters most.
Paths are relative to `src/`; `PROJECT.json` names, for every definition of the
models, the lines of code it stands for.

    tlc -workers 2 -config Tools.cfg MCTools     # a run (see "Runs")
    tlapm MemoryProofs.tla                       # the proofs of a *Proofs module

## 1. The system

phero is a library. An application builds an `agent` over an `llm` provider wrapped in
middleware, gives it tools, a memory and tracing, and may serve it over NATS, A2A or
MCP. Calls are synchronous and take a context; the concurrency is in what an
application does with them: several runs on one memory, several processes on one
store, tool calls of a round in goroutines of their own, prompts of a server, and
goroutines that the library starts (keepalives, heartbeats, background shells, the
limiter's producer).

| component | state it keeps | operations | who it talks to | what is hard | what has to be right |
|---|---|---|---|---|---|
| `nats` server | gate, handles of the service, two contexts per Start, heartbeat publisher, drain goroutine | Start, Drain, prompts | broker, handler | a shutdown at any point of a registration; asynchronous unsubscribe; handlers that ignore cancellation | admits nothing after the shutdown, abandons nothing, leaves nothing behind, ends |
| `nats` prompt stream | keepalive goroutine, chunks, the caller's inactivity deadline | Send, Text, processPrompt | broker | acks racing the response and ending with a drain, failed publishes, cuts, codes that pass four mappings | a text that is returned is whole and in order; no timeout while the handler works and is not cancelled; retryable means retryable |
| `nats` discovery | what a server advertises, what a caller knows of it | New, Discover, the checks of a prompt | broker | limits and names travel as text, from several SDKs; two sides measure a prompt | a caller finds the instances there are; what its checks let through is taken whole by the agent it saw |
| `nats` resolver, heartbeats | cache of handles, shared discovery, last beat per agent | Resolve, Invalidate, AsTool | client | callers that share a discovery and are cancelled; restarts behind a cached handle | nobody fails for another; a handle is current |
| `agent` run loop | session, savedTo, snapshot, checkpoint | Run, Compact | memory, llm, tools | saves, compactions and other runs interleave; failed saves; crashes | every message saved once; tool calls keep their results; nothing forgotten |
| `agent` events | the events of a stream, the trace's calls, the partial result | RunStream, startLLMCall, finishRun | a consumer, a trace | compactions, retries and ends between two events | what is told is what happened |
| `agent` compactor | the summary, the kept messages | Compact | llm, memory | budgets, splits, a summary written anew from the one before | what is left stands in for what was there |
| `agent` tool round | batches, slots, results | runToolCalls | tools | any order of finishing | results in call order, exclusive tools alone, the cap |
| memory stores: `simple`, `jsonfile`, `nats`, `psql` | log of messages, offset, snapshot, summary | Save, Retrieve, LoadSnapshot, SaveSnapshot, Clear | file, KV bucket, database | pruning and cursors, compare-and-swap with retries, crash between write and rename | the log is one conversation; a snapshot covers only what it saw |
| `llm/middleware` | tokens, slots, attempts, a cache | Execute, ExecuteStream, stop | llm, a vector store | streams half read, retries, a stop; cache and guards in either order | one answer, limits kept, slots come back; an answer from the cache fits the call |
| `tool/bash` | background shells, buffers with a cap; a directory and variables | run, bash_output, kill_shell, Close | processes | reads against writes and ends; commands at once | every byte returned once or reported; none outlives Close; no command undoes another's changes |
| `tool/permission` | rules, remembered answers, rules of a run | check, Allow, AllowForRun, Forget | a human | decisions that age while a question waits | asked exactly when needed; a run's rules end with it |
| `tool/file` | what was read and when | read, edit, write | file system | a file that changes in between | no edit overwrites an unseen change |
| `tool/file` search | none | grep, glob | file system | limits in several places, ignore files, links, changes under the walk | what is not marked truncated is complete |
| `tool/todo`, `tool/kv` | lists, a map, callbacks | set, get | - | order of callbacks | callbacks see the states in order |
| `trace` | open spans, totals, a bounded queue | Start, End, OnEnd, Shutdown | exporters | ends after the parent's end or the shutdown; a full queue | totals count a span once; spans are exported or counted as dropped |
| `llm` calls, tools, schemas | pricing table | options, guards, errors, usage; NewTool, NewRawTool | a provider | three vocabularies for one thing; schemas that are shared maps | a call means the same to every provider; a strict schema says what the loose one said |
| `llm` providers | none; what they need later travels in the messages | Execute, ExecuteStream | a provider's API | conversations that several providers answered; parallel calls; answers in pieces | a request the provider takes, that says all that was said; signatures go back; a stream gives what a buffered call gives |
| `rag`, vector stores | the collection, whether it was ensured | Ingest, IngestOnce, Query, Clear | an embedder, a database | failures between batches, objects refused in an answer that nobody reads; three stores with one meaning of a filter | what was ingested is a beginning of the source, or all of it, and no chunk twice; a query returns what matches |
| `a2a` | the cancel functions of running tasks | Execute, Cancel; a tool that sends, subscribes, polls | the a2a-go library | cancels, deadlines, ends and broken subscriptions in any order | the tool returns what the agent answered, or why not |
| `mcp`, embeddings, text splitters, exporters, other tools | little or none | conversions and requests | external services | - | see "Not modelled" |

`PROJECT.json` lists every component with its sources and status, and the hazards of
the code at the lines where they bite.

## 2. Plan

Done in this order, the most important behaviour first:

1. `DrainContract` (abstract), `ServerLifecycle` (implements it), `ServerLifecycleProofs`.
2. `ConversationLog` (abstract: what a memory promises), `SnapLog` (the shared operators
   of snapshots), `NatsMemory`, `SimpleMemory`, `JsonfileMemory`.
3. `AgentRun` over a memory.
4. `PromptStream`, `Resolver`, `ResponseChunks`.
5. `ToolRound`, `Permission`, `BashShells`, `LLMCalls`.
6. `Tracing`, `PsqlMemory`, `FileTools`.
7. `ProviderRequests`, `ReplyStream`.
8. `PersistentShell`, `AnswerCache`, `PayloadFilter` and `Retrieval`.

9. `A2ATask`, `AgentDiscovery`; `RunEvents`, `SummaryCompactor`; `FileSearch`;
   `ProviderCalls`, `StrictSchema`.

Next, as far as there is something to get wrong in it: `tool/todo`'s order of change
callbacks, and the recursive text splitter against a reference definition.

Proofs, done: section 6. To come, each with the run that checks its inductive invariant
first: `SimpleMemory`'s snapshots stand for what they cover (`SnapshotIsHonest`),
`SearchTellsAll`, and the refinements of `ConversationLog` as far as they do not need
what a fold computes.

## 3. Modules

| module | models | state <-> code | actions <-> code |
|---|---|---|---|
| `DrainContract` | what Drain promises: prompts are taken before the shutdown only, a clean drain left none running | - | - |
| `ServerLifecycle` | `nats/server.go`, `drain.go`, `heartbeat.go` | `gate` is the gate struct, `mu` the Start that registers under it, `handles` are `svc`, `stopServing`, `cancelPrompts`; `drain` is where `runDrain` is | one action per step of Start, of register (each failure too), of runDrain, of a Drain call, of a prompt's way through the endpoint and the gate |
| `PromptStream` | one prompt: `Client.Send`, `Stream.Text`, `processPrompt`, `errormap.go` | the wire is a sequence of messages, time is in ticks; `cancelled` is the prompt's context, from which the keepalive's derives | each publish, which may fail on its own (the error before the terminator too), the keepalive goroutine's steps, a drain's cancellation, the caller's reads, its deadline, its context and a broker without responders |
| `Resolver` | `nats/resolver.go`, `heartbeat.go`, Discover | `handleCache`, `resolving` (each caller's Resolve), `flight` (singleflight), `beat` (the tracker's stamp) | hits, misses, joins, cancelled callers, results, Invalidate |
| `ResponseChunks` | `encodeResponseChunks` | the rest of the text, the size tried | one round of the inner loop |
| `AgentDiscovery` | `nats/subject.go`, `options.go`, Discover and Prompt of `client.go`, the request half of `server.go` and `wire.go` | `served` are the instances that run, `disc` the records a caller has, `wire` a prompt under way | New and Start with their refusals, Discover with a filter, a prompt of the caller or of a foreign client, its handling |
| `A2ATask` | `a2a` | `task` is the stored task, `exec` where Execute is, `answer` what Run returned (an error says whether it wraps a cancellation or deadline), `cancels` the sync.Map, `tool` where AsTool's handler is | one action per yielded event, per lookup of Cancel, per event of a subscription and per poll |
| `AgentRun` | `agent/agent.go` (run, saves, checkpoints), `compact.go` | `session`, `rs` (runState), the memory's `log` and `latest` | one action between two calls of the memory or the model |
| `RunEvents` | `agent/stream.go`, `agent/llmcall.go`, the ends of `agent/agent.go` | `prompt` is the session, `run` the locals and runState, `calls` the payloads of the trace, `seen` what the consumer got | one action per turn of the loop: a compaction, a call's start, its answer, failure or tool calls, the end |
| `SummaryCompactor` | `agent/compact.go`, Agent.Compact, `internal/summary`, `llm/estimate.go` | `conv` the messages after the snapshot, `attempt` where Compact is | a run that saves; Compact, the summary (cut, asked again, failed), the snapshot stored or not |
| `ToolRound` | `runToolCalls`, `runToolBatch`, `processToolCalls` | `finished` is the channel, `holding` the slots, `results` the slice | a goroutine's slot, return, send and deferred release; the collector's receive |
| `SnapLog` | `memory/split.go`, `snapshot.go`, `internal/snaplog` | operators only | SplitPoint, Tail, Cutoff, Same |
| `ConversationLog` | what a memory promises | - | - |
| `NatsMemory` | `memory/nats`, `internal/natskv` | `kv` is the bucket's entry and its revision, `sess` what an attempt loaded | load, change, compare-and-swap, retry, give up |
| `SimpleMemory` | `memory/simple` with its ring | the ring's slots, head and size, the offset | each call; summarising in two steps, as its LLM call is made outside the lock |
| `JsonfileMemory` | `memory/jsonfile` | the memory and the file; `fileView` is what each caller got from LoadSnapshot | each call, LoadSnapshot and SaveSnapshot apart: change, write, rename, undo, or refused by the cutoff; crash, restart |
| `PsqlMemory` | `memory/psql` | `rows` and `snapshot_` are what is committed, `lastSeq` the sequence, `advisory` and `rowLock` the locks, `db` each process's transaction | one action per statement that waits or can be seen: lock, insert, commit, the summary's read and store, the conditional update, Clear's two deletes, a rollback |
| `Tracing` | `trace/span.go`, `provider.go`, `batch.go`, `totals.go`, `trace/jsonfile` | `totals` says how often each descendant was counted, `batch` is the queue and the span under export | each critical section of End, OnEnd, the Batch's goroutine, Shutdown |
| `FileTools` | `tool/file`: `tracker.go`, `read.go`, `write.go`, `edit.go`, `change.go` | `disk` is a version (content and stamp), `stamp` the tracker's entry | read: open, record; write and edit: check, plan, rename, record |
| `FileSearch` | `tool/file`: `walk.go`, `match.go`, `grep.go`, `glob.go`, the pages of `read.go` | `tree` maps paths to directories, which may be unreadable, files and links; `search` is a search under way, by a tool with its own limits and WithNoIgnore | a walk, the files one after the other, the result; a read and its pages; a tree that changes between |
| `Permission` | `tool/permission/permission.go`, `llm/run.go` | rules, `always`, `runRules`, `asker` holds askMu | first decision, turn to ask, second decision, answer; Allow, AllowForRun, Forget, the end of a run |
| `BashShells` | background part of `tool/bash/bash.go` | a buffer is the numbers of its first and last bytes with `readOffset` and `unreadDropped`; `shellMap` is `t.shell` | start, Write, Wait's goroutine, bash_output and kill_shell lock by lock, Close step by step |
| `PersistentShell` | foreground commands of `tool/bash/bash.go`, `session.go`, `runner.go` | `carried` is the shellState; an environment is a function from names, to Missing for those it lacks | run up to the runner, Start, a context that ends, the process's end and report, recordState |
| `AnswerCache` | `llm/middleware/cache.go`, `guardrails.go`, `stream.go` | `entries` are the points of the store, `ensured` the sync.Once; `asked` is where each call is | ask, ensure, look up, the model's answer, the check of the result, persist, deliver, each with its failure |
| `PayloadFilter` | `vectorstore/filter.go` and the filters of `psql` and `qdrant` | operators only | MatchPayload, filterSQL, translateFilter, on one condition |
| `Retrieval` | `rag`, and Upsert, Query, Clear of the three stores | `points` (each with an ID of its own: a chunk stored again is one more), `collection`, `ensureDone`; `refused` are the objects Weaviate's answers name as failed; `ingestion` is where each Ingest, IngestOnce or Save is | ensure, count, one batch, one request of an Upsert with the objects it refuses, the two halves of Weaviate's Clear; `Results` is Query |
| `LLMCalls` | `llm/middleware/limiter.go`, `retry.go` | tokens, slot holders, each call's attempt and what its caller got | each select of acquire and block, chunks, the outcome of an attempt, back-off |
| `ProviderCalls` | `llm/call.go`, `errors.go`, `pricing.go`, and the options, usage and errors of the three clients; the waits of `middleware/retry.go`, the chain of `guardrails.go` | `given` the call and its options, `sent` the request, `got` what came back, `retry` the attempt and its wait | make a call, guards, an attempt, an answer or failure, the wait |
| `StrictSchema` | `llm/schema.go`, `tool.go`, `response_format.go` | `heap` are the Go maps, which are shared, `stack` the recursion's calls | one action per phase of a map, in any order of its keys; an expansion; what NewTool and NewResponseFormat make of it |
| `ProviderRequests` | the conversions of `llm/anthropic`, `llm/openai`, `llm/google/convert.go` | `messages` is the conversation, a request a sequence of turns of blocks; text is a sequence of words | a user's message, a provider's answer, the results of its calls; `ToAnthropic`, `ToOpenAI`, `ToGoogle` are the requests |
| `ReplyStream` | `ExecuteStream` of `llm/openai` and `llm/google` | `gathered` is what the loop keeps, `seen` what it has yielded | one action per kind of piece, the end, a break, a consumer that stops |

A `*Proofs` module holds the theorems about the modules it extends (section 6).
`MC*` modules give the instances. `MCProtocols`, `MCAgents`, `MCStores`, `MCWaits` and `MCTools`
put together several modules that share no state: `part` says whose behaviour a behaviour is, so the state space is the sum of
the parts' and not their product, and a property of a part is checked on its part. In
`MCAgents` the runs in turn and the runs at once are two instances of `AgentRun`, of which
a behaviour moves one; they have their variables in common, but for the memory's snapshot.

`ServerLifecycle` instantiates `DrainContract`, and `NatsMemory` and `JsonfileMemory`
instantiate `ConversationLog`, with refinement mappings; the runs check that they
implement them.

## 4. Runs

| run | question | shows |
|---|---|---|
| `protocols` | a server's life (a Drain, two Starts one after the other and two prompts, every interleaving); discovery and the way of a prompt; a task over A2A; a call of the model; a conversation among providers; a streamed reply; schemas; the spans of a run: ends at once, a full queue, Shutdown | the gate counts exactly (`GateIsExact`); nothing stays registered (`NothingLeftBehind`); no handler is cancelled before the drain says so (`WorkIsNotAbandoned`); ready means serving (`ReadyMeansServing`); the contract is implemented (`KeepsContract`); `PromptsFindTheirAgent`; `ToolReportsTheRun`; `AnyProviderMeansTheSame`, and a conversation can go on with any of them; `StreamedAsBuffered`; `StrictAndTheSame`; totals and exported spans are what ran (`TraceIsExact`) |
| `server_two_starts` (violation) | ... and when two Starts overlap? | no: see Findings |
| `stores` | `simple`, `jsonfile`, `nats`, `psql`: pruning, eviction, summaries, two processes, failed writes, crashes, Clear; the cache of answers and guardrails; RAG over three vector stores; the resolver's handles | cursors keep naming the same message (`CursorsAreStable`), loading returns what is left to tell (`LoadsWhatWasSaid`), the memory is what a restart loads (`MemoryIsFile`), file and bucket hold one conversation (`KeepsConversation`, a refinement), a snapshot replaces only the one it was made from and a call gives up only when beaten (`LosesToOthersOnly`), a database's session reads as it was saved (`ReadsAsSaved`); `ServesOnlyWhatFits`; chunks are stored once and in order (`IngestsInOrder`), and a store departs from `MatchPayload` on the named values only (`QueriesAgree`); `NobodyFailsForAnother`, `HandleIsCurrent` |
| `agent_runs` | two runs on one memory, in turn with compactions, a fault or a lost acknowledgement, or at once; the events, results and trace of a run; a conversation compacted again and again | a stored snapshot stands for all it covers (`NothingForgotten`); the task is in every prompt (`TaskInSight`); of runs at once too, each message once, one iteration to lose, no call without its results (`MemoryIsWhole`); a run's stream and its calls' records tell it (`EventsTellTheRun`, `TraceRebuildsPrompts`); `SummaryStandsIn` |
| `agent_run_forgets` (violation) | `OverlapForgetsNothing`: `NothingForgotten` for runs at once | no: see Findings |
| `waits` | a prompt's stream, the cutting into chunks; runs whose prompt stays too long, without an iteration limit; a drain without time, whose handlers and broker do not help | `AnswerIsDeserved` (whole and in order, unless the error could not be published; no timeout while the handler works and no drain has cancelled it; permanent only what is); `SplitIsInvisible`; `WaitsEnd`: Text returns, the cutting ends, the runs end, the drain ends |
| `tools_and_calls` | a round, the permissions, the shells, background and persistent, a file, searches, the calls of the model under the limiter and retries | `RoundIsWhole`; `AskedAsNeeded`; `ShellsAreAccounted` (every byte, and none outlives Close); `CarriesEachChange`; `RefusesJustTheUnseen`; `SearchTellsAll`; `OneAnswer`; `RulesAndCallsEnd` |
| `first_burst` (violation) | the limiter's doc on its first burst | no: see Findings |
| `unseen_overwrite` (violation) | is nothing replaced that the model has not seen, when others write during a read? | no: see Findings |
| `empty_export` (violation) | does a variable that is exported empty carry over? | no: see Findings |
| `partial_text` (violation) | is a partial result the run's own? | no: see Findings |
| `recursive_schema` (violation) | can any type be a tool's? | no: see Findings |

Every property of a passing run has a mutant in `PROJECT.json`: a plausible bug in a
mapped definition (in the modules, the operators named `X_Variant`) with which TLC
finds the property violated.

### Bounds, and why they are enough

- `ServerLifecycle`: two Starts, one Drain call, two prompts. The code tells Starts
  apart only by which one's handles are stored, and prompts only by the gate's count:
  two of each give every order of two. The proofs hold for any number.
- Stores: three to six messages, two processes for `NatsMemory` and `PsqlMemory` (one
  of which prunes), one trouble each (a failed request, a lost acknowledgement or a
  Clear), one failed write, a crash and two callers' views for `JsonfileMemory`, one Clear. A
  conflict needs two writers; a cursor error needs a snapshot, a message before it and
  one after; a summary of two of three messages leaves one to lose. The third message
  is a tool result: it follows what a summary of two takes, and the first snapshot.
- `AgentRun`: two runs, two rounds of one call and two compactions in turn, one of each at once; one fault or lost
  acknowledgement. A second
  compaction is what builds on the first one's summary and pinned message.
- `PromptStream`: two chunks, a keepalive every 2 ticks, a wait of 4, runs up to 4, so
  acks and deadlines cross in each order, and one publish that fails, whichever it is; time
  goes on under a running handler until its third message, cancelled by a drain or not.
- `Resolver`: two callers, two instances, a TTL of 2 and a window of 1: a handle
  expires before and after its instance stops.
- `ResponseChunks`: every text of up to four runes of three kinds of sizes and limits
  around the overhead.
- `AgentDiscovery`: six configurations (two of one name, two refused, one cut to its
  connection's limit, which is above the client's), four foreign records (one whose
  metadata names another owner than its subject), four filters, seven prompts on both sides of each limit: two instances that serve at once.
- `A2ATask`: one task, two Cancels, replies of up to two parts of four kinds, errors that
  wrap a cancellation and others, on a live context and a cancelled one: a Cancel before,
  while and after the run is registered.
- `RunEvents`: two iterations (three in `partial_text`), one compaction at the threshold and one after a prompt
  that is too long, one round of two calls; a history with an answer of its own.
- `SummaryCompactor`: five messages of two sizes, a budget that fits some: a second
  compaction summarises what the first one kept.
- `ProviderCalls`: calls that each vary one thing, answers for each stop reason, causes
  on both sides of the longest wait; three attempts. `StrictSchema`: thirteen schemas,
  one for each keyword and combination that the code tells apart.
- `FileSearch`: three trees with one more or one fewer file, ignore rule, link or match, a
  `node_modules` and a directory that cannot be read; tools without a limit, with one of
  two or three results, with an output cap that fits none, some or all of the entries
  (an entry takes three or more, a cap is 2, 8 or 13), and with WithNoIgnore; head limits
  of none, one, two and four, with context and without; files that the input names, an
  ignored one among them; two changes. So there are searches that are complete with
  several entries, and searches that each of the limits cuts.
- `ToolRound`: every response of up to three calls of three kinds, two slots: an
  exclusive call before, between and after others, and a third call that waits.
- `Permission`: two calls, two runs, requests that meet each kind of rule, an
  ambiguous one and two that cannot be split; one rule added and one grant per run.
- `BashShells`: one shell of up to four bytes, a cap of two, characters of one and two
  bytes, two tool calls at a time, one Close.
- `PersistentShell`: two commands at once, any number after each other, one variable
  (empty or not, in the agent's environment) and two directories: two commands can each
  set or unset what the other did. Exports of an empty variable that was missing are
  left to `empty_export`.
- `AnswerCache`: two callers, three conversations of which two pairs are near and one
  is not, two contracts, two entries: the nearest point can be of the other contract,
  and a hit can be of another conversation.
- `Retrieval`: two ingestions of three chunks, in batches of two and requests of one: a
  batch that is full, one that is not, and a failure between any two, or an object
  refused between two that are stored. One result is asked for, one failure, one Clear;
  six points are more than Weaviate fetches. The chunks' metadata have each type of
  value, null, lists and integral floats among them; a saved text has no metadata.
- `Tracing`: a run, its tool call and a model call inside it, the tool's span ended
  twice, a queue of one: the shortest chain in which totals pass through a parent.
- `FileTools`: two reads at once, four versions, others writing between the calls: a
  version read, one replaced, one written by the model and one more by another.
- `ProviderRequests`: conversations with two answers, each from any of three
  providers, of up to two calls, whose results are text or an image: two calls are a
  parallel turn, and the second answer is where the first one's traces go back.
- `ReplyStream`: thinking and text of up to two words, white ones among them, and up to
  two calls of two pieces.
- `LLMCalls`: two callers (one streaming), two attempts, one slot, one token, one chunk before an
  end: a slot that is kept, or a chunk delivered twice, needs no more.

### Fairness

Only what the code's own goroutines and timers do: a goroutine that can run runs, a
ticker ticks, a timeout fires (`RunDrain`, `StartStep`s, `HeartbeatExit`; the loop of a run and its answers; the reader's deadline and the handler's
end; `DropRunRules`, the function of `context.AfterFunc`; `ProduceToken` and
`CallProgress`). Nothing is asked of the broker (a flush may never succeed), of a
handler on a drain (it may ignore its cancellation), of a human, or of a caller's
context. `WaitsEnd` assumes that a prompt's handler returns, not those of a drained server;
`RulesAndCallsEnd` that the model answers or fails, as both middlewares wait for it without a bound of their own.

## 5. Findings

- `nats.Server.Start` lets a second Start overlap the first and overwrites its
  handles; a drain then waits for ever for the first one's heartbeat publisher
  (`server_two_starts`).
- `snapshotCursor` accepts a tail that another run's message, never loaded, precedes
  in the log; the snapshot stored then covers that message without standing for it
  (`agent_run_forgets`).
- `NewLimiter`'s doc promises a pre-filled bucket; the bucket starts empty
  (`first_burst`).
- `read` of `tool/file` stamps the file after it has read it: what another program
  writes in between counts as read, and a later write replaces it
  (`unseen_overwrite`).
- A persistent shell compares a variable with what the old environment's map gives,
  which is the empty string for a name it lacks: a variable exported empty does not
  carry over (`empty_export`).

- After a compaction the text of a run that fails is looked for among all the messages
  that were kept, those of earlier runs included; its comment says "of the current run"
  (`partial_text`).
- The strict form of a recursive type's schema never ends when the field that refers to
  the type has a description (`recursive_schema`).

Seen with other constants and not kept as runs:
- `NatsMemory` with `OldCursors = TRUE`: a cursor from before a Clear passes `Cutoff`,
  and pruning drops messages saved after it.
- `SimpleMemory` with `Overlap = TRUE`: a Save during the LLM call of a summary is lost
  when the buffer is replaced.
- `AgentRun` with `MaxLost = 1` and `EveryMessageOnce`: a save that was applied and
  reported as failed is made again.
- `encodeResponseChunks` can fail although a rune would fit (limit 5, 3 bytes of room
  after the overhead): `NextSize` may skip the size that fits; `SplitIsInvisible` allows
  a failure only below the room the largest rune needs.
- `PsqlMemory` with `ClearRaces = TRUE`: SaveSnapshot looks for upTo's row and inserts
  the snapshot later without a lock on it; a Clear in between leaves a snapshot of a
  cleared conversation.
- `ReplyStream` with `CleanCuts = TRUE`: `llm/openai` takes a connection that closes
  early without an error for the end of the answer, cut arguments included;
  `llm/google` only when some part has come.
- `AnswerCache` with `Overfetch = 1`, as with a store that filters what it has fetched:
  an answer to the very call that is asked is missed.
- `JsonfileMemory` with `FileOldCursors = TRUE`: as with `NatsMemory`, a cursor from
  before a Clear passes `Cutoff`, the snapshot stands for messages it was not made of,
  and pruning drops them (`KeepsConversation`).
- A drained server answers 500 where a comment speaks of 503.

Code and words that differ, which the models have as the code does, in the runs that
pass; the properties name the exceptions:
- `nats/server.go:544-547` says that a failed publish is reported, as the caller would
  read a lost answer as an empty one; `sendErrorBody` (`:600-601`) ignores a failure of
  that report and sends the terminator, so Text returns what came before as the answer
  (`errorLost` in `TextIsWhole`).
- A keepalive's context derives from its prompt's (`nats/server.go:473-485`): when a drain
  cancels the handler its acks end, though the handler may go on, and its caller may time
  out (`cancelled` in `NoFalseTimeout`).
- `a2a/executor.go:44` names a Cancel call and a request's deadline as what makes a task
  canceled; at `:75` any error that wraps `context.Canceled` or `DeadlineExceeded` does,
  a model's own timeout too (`wraps` in `ToolReportsTheRun`).
- Weaviate's batch answers with an error for each object it refused, and
  `vectorstore/weaviate/weaviate.go:229` drops that answer: an ingestion that succeeds
  may lack chunks (`refused` in `IngestsInOrder`).
- `MatchPayload` is "the reference filter semantics" and compares numbers as float64
  (`vectorstore/filter.go:169-176`); Qdrant's integer match (`qdrant/filter.go:116`)
  does not find a float of that value, a list is found by a value in it, and null and
  the empty list count as no key (`QdrantDeparts` in `QueriesAgree`, which says that
  Qdrant departs on these and on nothing else).

Seen in the models, and promised by nothing in the repository:
- A2A: a Cancel that looks before the run is registered does not stop it; of an answer
  of several texts the tool returns the first; a rejected task's text counts as an
  answer.
- RunStream: a consumer that breaks does not stop the run, only its context does.
- Compact: a tool result that was cut and is cut again notes the second cut only.
- Discovery: names and sessions that join to the same instance name share a queue
  group; a limit of "1.5MB" is read as 1 MB; a prompt that is not UTF-8 arrives
  repaired; a server does not enforce the limit it advertises.
- Search: with no path and a working directory that is a link, nothing is found; the
  offset of read counts lines to skip, where its description speaks of the line to start
  from; a whole read of more than 2000 lines stops there unsaid, and counts as read;
  without a `.git`, ignore files count from the searched directory only.
- Calls: a guard that fails with a deadline gives an error that is retried; the phrases
  by which openai tells a prompt that is too long count with any status; an answer of
  nothing that was filtered is an error at Google and a result elsewhere; the room left
  for thinking may be one token.
- Schemas: additional properties with a type stay; a reference to an alias, with a
  description, loses its type; the only entry of an allOf replaces the properties beside
  it; a field of type any makes NewTool fail.

Read in the code and not modelled: the terminal message of `llm/openai`'s stream keeps
a text of white space only, which a buffered answer drops (`StreamedAsBuffered` allows
it); thinking of another provider goes to Anthropic with an empty signature;
`trace.Batch`'s count of dropped spans includes those that end after it is closed.

## 6. Proofs

Each theorem holds for every value of the constants that its module's `ASSUME`s allow:
any number of callers, processes, calls, prompts, messages, failures and crashes. Those
assumptions say what the code makes of its options (a threshold is at most the capacity,
a retry makes an attempt at least) and leave out a ring without capacity (section 7), and
TLC evaluates them on the runs. The proofs go one way: an inductive invariant, checked by TLC on the run's
instance before it was proved; one lemma for each action, or for each group that moves
the same state; frame lemmas for the actions that leave a part alone; and a theorem that
puts them together.

| module | theorem | states | inductive invariant |
|---|---|---|---|
| `ServerLifecycleProofs` | `TypeCorrect`, `GateCountsExactly` | `TypeOK`, `GateIsExact` | `GateInv` |
| | `ServerKeepsContract` | `KeepsContract`, the refinement of `DrainContract` | `GateInv` |
| | `NothingIsLeftBehind` | `NothingLeftBehind`, when one Start serves at a time | `RegistrationInv` |
| | `NoWorkIsAbandoned` | `WorkIsNotAbandoned`, overlapping Starts included | `CancellationInv` |
| | `ReadyIsTrue` | `ReadyMeansServing`, an action property | `SubscriptionInv` |
| | `ToolReportsTruly` | `ToolReportsTheRun`, of a task over A2A | `TaskInv` |
| | `PromptsArrive` | `PromptsFindTheirAgent`, of discovery and prompts | `DiscoveryInv` |
| `NatsClientProofs` | `AnswersAreWhole` | `AnswerIsWhole`, `PermanentIsDeserved` | `PromptInv` |
| | `AnswersAreDeserved` | `AnswerIsDeserved`: besides, no timeout on an agent at work | `PromptInv`, `AckInTime` |
| | `NobodyPaysForAnother`, `HandlesAreCurrent` | `NobodyFailsForAnother`; `HandleIsCurrent`, an action property | `ResolverInv` |
| `MemoryProofs` | `CursorsStayTrue` | `CursorsAreStable` and `TailIsWhole` of `memory/simple` | `SimpleInv` |
| | `FileIsMemory` | `MemoryIsFile` | `FileInv` |
| | `WritersLoseToOthersOnly` | `LosesToOthersOnly`, an action property | `WritersInv` |
| `CallProofs` | `CallersGetOneAnswer` | `OneAnswer` | `CallInv` |
| | `AnswersAreFit`, `CacheServesOnlyWhatFits` | `AnswersFit`; `ServesOnlyWhatFits` | `AnswersInv`, `FoundInv` |
| | `IngestionsInOrder`, `StoresAgree` | `IngestsInOrder`, `QueriesAgree` | `IngestInv` |
| `AgentProofs` | `NothingIsForgotten` | `NothingForgotten`, of runs in turn | `RunInv` |
| `AgentMemoryProofs` | `MemoryStaysWhole` | `MemoryIsWhole`, of runs at once too | `KeepInv` |
| | `TaskStaysInSight` | `TaskInSight`, of runs at once too | `KeepInv`, `SightInv` |
| `TraceProofs` | `TraceIsAlwaysExact`, `PromptsAreRebuilt` | `TraceIsExact`; `TraceRebuildsPrompts` | `TraceInv`, `PromptsInv` |
| | `EventsAreTold` | `EventsTellTheRun` | `EventsInv` |
| `ToolProofs` | `PolicyAsksAsNeeded` | `AskedAsNeeded`, an action property | `PermInv` |
| | `TrackerRefusesJustTheUnseen` | `RefusesJustTheUnseen` | `FileInv` |
| | `RoundsAreWhole` | `RoundIsWhole` | `RoundInv` |
| | `ShellCarriesEachChange` | `CarriesEachChange` | `PersistInv` |
| | `ShellsAreAccountedFor` | `ShellsAreAccounted` | `ShellsInv` |

### Why the properties alone are not inductive

- Gate: that `inflight` stays a natural number when a handler leaves needs the gate to
  count exactly, and that needs the gate to be shut wherever the drain relies on it.
  `RegistrationInv` relates where a Start is to the mutex, to the handles and to what
  the drain took of them. `CancellationInv`: a prompt came through a Start that had its
  contexts, and those are cancelled only past the drain's grace or by a failed Start.
  `SubscriptionInv`: what a Start subscribed stays, until its own failure or a drain.
- Prompt: what Text returns is decided by messages that are on their way, so `PromptInv`
  says what the server has published by each of its steps, that the wire is the end of
  it and that what was read is the chunks of the rest. `AckInTime` bounds the caller's
  silence by the age of the first message on the wire plus the keepalive's wait, while the
  connection holds, no publish fails and no drain has cancelled the handler.
- Resolver: `HeardLately` bounds how long the instances of the cache, of a discovery
  under way and behind the tracker's last beat can have been dead.
- Ring: `SimpleInv` says that the buffer is the end of the log and that what a load may
  have to return and the buffer has no more is tool results without their call. From it
  follows that the tail starts at the same message in the buffer and in the log. The
  lemmas below it (`RingAddIs`, `RingReplaceIs`) give what the ring's index arithmetic
  computes; `RingReplace`'s loop has a closed form, which is a fixed point of its
  recursive definition and the only one by the least index at which another would differ.
- File: `FileInv` has what each call goes back to when its write fails, and that a Clear
  that was not written left an empty memory, which no other call makes.
- Writers: `WritersInv` says of an attempt under way that the revision it loaded still
  stands, and its comparison with it, or that it was beaten; each earlier attempt of the
  call was beaten by a write of its own.
- Cache: an answer fits its call as soon as the call has it (`CallFits`), entries were
  checked when the guards are inside (`EntriesFit`), and the collection is made once.
- Ingestion: the chunks that are stored or refused are those the call has counted, in
  each of its places, and each is one point; a search then finds what the store's own
  filter, shown to be `MeansMatch` for every value, lets through.
- Calls: a call that waits for its next attempt has given its caller nothing, and each
  cause of an end that is named is so.
- Round: `RoundInv` counts the finished calls of the batch that runs, and puts those
  of the batches before it among the told and those after it among the spawned.
- Policy: an open question was undenied when it was asked, and the rules only it can add.
- Tracker: but for a change that is not recorded yet, its stamp is the file's just when
  the model knows what the file holds.
- Shells: what was returned, reported and is still to be reported adds up to where
  reading has come; what is not in the map never started or was read in full; after
  Close those that run are those it saw.
- Run: `RunInv` splits the log in what the snapshot covers and the rest, while no run is
  under way; during one it says what of the log, the session and the messages said each
  step of a save or compaction stands at, one run at a time (`OneAtATime`, `WorkIs`,
  `PlanIs`, `FinishIs`). A session is matched with the log by the positions that were
  picked from it (`Picked`), which the lemmas above reason about without induction over
  operators.
- Memory: what a run has said is what it saved and then what it has not saved, and
  `KeepInv` says for each step of a run where the border is: `savedTo` in the session,
  the log after the run's last save, the messages a compaction keeps. Each of those is
  made of whole rounds (`Paired`), so that no cut, save or load parts a call from its
  results. A save that was made and reported as failed is made again, which is why the
  clause on each message being there once is about runs without one.
- Sight: `SightInv` says of each snapshot that is about (a run's own, a compaction's
  plan, the memory's) that it pins the last user message it stands for, unless one
  comes after it in sight; a run may load a snapshot that another run stored, so the
  invariant is of all of them together.
- Task: an ended task stays as it is, and says what the run answered, or that someone
  cancelled it or its error wraps a cancellation; what the tool has seen of it is true of it still.
- Discovery: `DiscoveryInv` keeps, while instances come and go, where each handle comes
  from (`FoundIs`) and, with a message, the request it was made of and that it was let
  through (`WireIs`); that the limit a caller sees is a number below the server's own is
  the reading of a text (`CapIs`, `RegisteredIs`).
- Trace: `TraceInv` ties a span's totals to where its calls of End are: one call ended it,
  what a span counts has been added by its own End and is counted with all that counted
  it. `InTime` is the least set closed under children that ended in time, so that a span's
  totals reach it without an induction over the depth.
- Events: the properties say how events stand to each other; `EventsInv` says where the
  run is when they are told. Those of an iteration come after its call has started and
  are told at once, so that the next ones are of a later iteration (`Follows`), and those
  of a compaction before the call it makes room for: until then the last of them has the
  size of the session (`SizeIsTold`), and once the call is made that of its prompt
  (`SizesAreTold`). An answer is in the session only with its deltas told (`AnswersInv`).
- Prompts: `PromptsInv`: as long as the next record does not start from nothing, the
  session starts with the last call's prompt.

### Hypotheses, and why the code justifies them

- `OneServes` (`NothingIsLeftBehind`): Starts do not overlap; false otherwise, a finding.
- `KeepaliveInterval + MaxDelay < InactivityTimeout` (`AnswersAreDeserved`): 30 s and
  60 s by default, with a delivery of less than 30 s between them. Other settings, or a
  slower network, do make a caller give up.
- `NoSnapshotIsNone` (`CursorsStayTrue`): a nil `*Snapshot` is not a snapshot.
- `Touches \subseteq {"between"}` (`TrackerRefusesJustTheUnseen`): other programs write
  between the calls of the tools, not inside one; false otherwise, a finding.
- `~EmptyExports` (`ShellCarriesEachChange`): no command exports an empty variable that
  was missing; false otherwise, a finding.
- `Overfetch = 0` (`CacheServesOnlyWhatFits`): the store filters before it cuts to the
  limit, as the SQL of `psql` and Qdrant's filters do. `AnswersAreFit` needs it not.
- `RetrievalConstants` (`StoresAgree`): conditions are valid and of the supported types
  ("strings, booleans and numbers"); payloads are any.
- `RepliesAssumption` (`ToolReportsTruly`): a run that ends by handing off returns no
  blank text, which `processToolCalls` leaves out.
- `DiscoveryConstants` (`PromptsArrive`): limits and sizes are numbers, attachments a
  sequence, and a server's connection carries something (NATS itself has a limit).
- `~Concurrent` (`NothingIsForgotten`): runs on a memory follow one another; false
  otherwise, a finding. `NoSnapshot \notin Snapshots`: a nil `*Snapshot` is not one.
- `SpanConstants` (`TraceIsAlwaysExact`): a span's parent is a span, or it has none.
  `EventConstants` (`PromptsAreRebuilt`, `EventsAreTold`): the history is a sequence of
  messages, of the memory's and not of this run.
- `Retrieval` takes any `StoreBatch` and `BashShells` any `MaxBackgroundOutput`, of which
  zero and negative ones mean no limit, as in the code.

### Only model-checked

- Liveness (`WaitsEnd`, `RulesAndCallsEnd`) and whatever needs
  ENABLED: the prover has neither.
- What folds compute for every input: `KeepsConversation` and `ReadsAsSaved` (`Said` is
  a flattening, what is left of it a selection), `LoadsWhatWasSaid` but for `TailIsWhole`
  (`SnapshotIsHonest` and `SummaryKeepsNewer` are about what summaries say),
  `SplitIsInvisible`, `StrictAndTheSame`, `StreamedAsBuffered`. The library's
  induction theorems take an operator, which the provers cannot instantiate; where a
  proof needs an induction over numbers it takes the least counterexample
  (`LeastOf` in `MemoryProofs`, from the well-foundedness of the naturals).
- `SummaryStandsIn`, `AnyProviderMeansTheSame` and `SearchTellsAll`: not attempted.

## 7. What the models leave out

- `AgentRun`: the memory is atomic and not pruned (the stores have their own modules),
  a round of tools is one step (`ToolRound` has its own), cancellation may come at any
  point between two operations. `RunEvents` has what is told of a run, without saves and
  snapshots. `SummaryCompactor`: one caller at a time; texts are sizes.
- `AgentDiscovery`: JSON and base64 but for their sizes; the broker's queue groups pick
  any instance. `A2ATask`: the library, from how it is used; the stored task follows the
  events. `ProviderCalls`: the SDKs, and the seconds of a wait. `StrictSchema`: what a
  type is reflected to (a library does it).
- `FileSearch`: regular expressions (a line matches or not), multiline matches, and
  searches without a working directory. The walk sees the tree at one moment. What cannot
  be read, and an ignored file that the input names, is passed over without a mark, as in
  the code (`walk.go:191`, `:227`): completeness is about what can be reached and git
  would show.
- `NatsMemory`: one message per Save. `NatsMemory` and `JsonfileMemory`: no cursor from
  before a Clear is used after it (`OldCursors`, `FileOldCursors`; see Findings). `SimpleMemory`:
  a positive capacity (with 0 the ring divides by zero), callers take turns when it
  summarises. `JsonfileMemory`: a failed Clear is called again; a crash is a process
  crash (the directory is not synced, power loss is out).
- `PsqlMemory`: one message per Save. A memory that summarises is used in turns, as
  the transaction of a summary takes no lock on the session: what another process
  saves during the LLM call is deleted with the summarised rows. A Save whose summary
  fails returns an error with its rows stored.
- `Tracing`: identifiers, propagation, what is captured of contents. `FileTools`: one
  file; a version is content and stamp, so two writes within the file system's clock
  tick are told apart; a read of some lines counts as read, as in the code.
- `ProviderRequests`: system messages, options, schemas, usage, image URLs (refused by
  Gemini), arguments. `ReplyStream`: Anthropic's stream, which its SDK puts together.
- `PromptStream`: a connection loses all after a cut and nothing in the middle (chunks
  have no number, so that could not be noticed). `Resolver`: one agent. `ResponseChunks`: valid UTF-8.
- `ToolRound`: what a tool does; a panic in a tool. `Permission`: how a command line is
  split and a pattern matches, and how a path is resolved: a subject is a name, with
  the name it was written with. A file that is replaced by a link between the decision
  and the call is out of the Policy's sight and of the model's.
- `BashShells`: the filter and the cut of a long answer, which leave out what was read,
  and a signal to a process id that was reused between the reading of running and the
  kill.
- `PersistentShell`: background commands, which start from the state and do not change
  it (`BashShells` has their own); the text of commands. `AnswerCache`: what the guards
  look at; similarity is a relation of conversations. An answer cache made with
  WithSkipToolCalls(false) has the calls and results in the key's text, as any other
  conversation. `Retrieval`: how near points are, Delete, sizes of vectors, and a Qdrant
  that applies an upsert after it has answered (WithWait(false)). `PayloadFilter`: values
  of `In` that no condition supports, which Validate lets through.
- `LLMCalls`: how long a wait is (only that it may be cut short); a token that arrives
  as the limiter stops counts as before it.

Not modelled: MCP, embeddings and `memory/rag` (conversions around requests to external
services); trace formats and the OpenTelemetry bridge; parsers of commands, patterns and
skills (text analysis); the examples; and what section 2 lists as next.

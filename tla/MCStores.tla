------------------------------ MODULE MCStores ------------------------------
(***************************************************************************)
(* Small instances of what callers share: the stores of conversations and  *)
(* of vectors, the cache of answers, and the resolver's handles.           *)
(* They share no state among them: a behaviour is one part's, and the      *)
(* state space the sum of theirs.                                          *)
(*                                                                         *)
(* SimpleMemory: a ring of two messages with snapshots, pruned or not, and *)
(* one of four that summarises.  JsonfileMemory: with snapshots, pruned or *)
(* not, or with summaries.  NatsMemory and PsqlMemory: two processes, one  *)
(* of which prunes, or that summarise.  A summary is of two messages of    *)
(* three; the third message is a tool result.                              *)
(*                                                                         *)
(* AnswerCache: three conversations, of which two pairs are near, and a    *)
(* message guard that refuses the middle one.  Retrieval: two ingestions   *)
(* of a source of three chunks, with their payloads under three keys.       *)
(* Resolver: two callers and two instances of one agent.                   *)
(***************************************************************************)
EXTENDS SimpleMemory, JsonfileMemory, NatsMemory, PsqlMemory, AnswerCache, Retrieval, Resolver

CONSTANTS a, b

VARIABLE part \* whose behaviour this is

MCCallers == {a, b}
MCToolResults == {3}
MCOptions ==
    {[capacity |-> 2, prune |-> p, threshold |-> 0, summarySize |-> 0] : p \in BOOLEAN}
        \cup {[capacity |-> 4, prune |-> FALSE, threshold |-> 3, summarySize |-> 2]}
MCMaxMessages == [o \in MCOptions |-> IF o.threshold = 0 THEN 4 ELSE 6]

MCFileOptions ==
    {[prune |-> p, threshold |-> 0, summarySize |-> 0] : p \in BOOLEAN}
        \cup {[prune |-> FALSE, threshold |-> 3, summarySize |-> 2]}

MCKvMessages == [n \in {0, 3} |-> IF n = 0 THEN 3 ELSE 4]

MCDbMessages == [n \in {0, 3} |-> 4]

\* The callers of the file, of the cache and of the resolver are alike, and so are the
\* ingestions.
MCSymmetry == Permutations(FileCallers) \cup Permutations(CacheCallers) \cup Permutations(ToolCallers) \cup Permutations(Ingestions)

MCNear(x, y) == {x, y} \in {{"t", "u"}, {"u", "v"}}

\* Under "k" a whole number as an int, as a float, and a boolean; under "l" a list of it and
\* a text, an empty list, and null; under "m" a fraction, a text, and a list of a float.
\* What Save stores has none of the keys.
Value(type, is) == [type |-> type, is |-> is]
Null == [type |-> "null"]
MCChunkPayload ==
    <<[k |-> Value("int", 2), l |-> Value("list", {Value("int", 2), Value("string", "s")}), m |-> Value("float", 3)],
      [k |-> Value("float", 2), l |-> Value("list", {}), m |-> Value("string", "s")],
      [k |-> Value("bool", 1), l |-> Null, m |-> Value("list", {Value("float", 2)})]>>

MCConditions ==
    LET int == Value("int", 2)
        float == Value("float", 2)
        text == Value("string", "s")
    IN  [key : {"k"}, op : {"eq", "ne"}, value : {int, float, text}]
            \cup [key : {"l"}, op : {"eq", "ne"}, value : {int, text}]
            \cup [key : {"m"}, op : {"eq", "ne"}, value : {float}]
            \cup [key : {"k", "l"}, op : {"gte", "lt"}, value : {int}]
            \cup [key : {"m"}, op : {"gt", "lte"}, value : {float}]
            \cup [key : {"k", "l"}, op : {"in"}, values : {{int, text}, {int, float}}]

\* The other parts keep one of their initial states.
MCInit ==
    /\ part \in {"simple", "jsonfile", "nats", "psql", "answers", "vectors", "handles"}
    /\ Init /\ FileInit /\ KvInit /\ DbInit /\ CacheInit /\ RagInit /\ ResolverInit
    /\ part # "simple" => opt = CHOOSE o \in MCOptions : TRUE
    /\ part # "jsonfile" => fileOpt = CHOOSE o \in MCFileOptions : TRUE
    /\ part # "nats" => threshold = 0
    /\ part # "psql" => dbThreshold = 0
    /\ part # "answers" => order = "cache"
    /\ part # "vectors" => kind = "psql"

MCNext ==
    \/ part = "simple" /\ Next /\ UNCHANGED <<part, fileVars, kvVars, dbVars, answerVars, ragVars, resolverVars>>
    \/ part = "jsonfile" /\ FileNext /\ UNCHANGED <<part, vars, kvVars, dbVars, answerVars, ragVars, resolverVars>>
    \/ part = "nats" /\ KvNext /\ UNCHANGED <<part, vars, fileVars, dbVars, answerVars, ragVars, resolverVars>>
    \/ part = "psql" /\ DbNext /\ UNCHANGED <<part, vars, fileVars, kvVars, answerVars, ragVars, resolverVars>>
    \/ part = "answers" /\ CacheNext /\ UNCHANGED <<part, vars, fileVars, kvVars, dbVars, ragVars, resolverVars>>
    \/ part = "vectors" /\ RagNext /\ UNCHANGED <<part, vars, fileVars, kvVars, dbVars, answerVars, resolverVars>>
    \/ part = "handles" /\ ResolverNext /\ UNCHANGED <<part, vars, fileVars, kvVars, dbVars, answerVars, ragVars>>

MCVars == <<part, vars, fileVars, kvVars, dbVars, answerVars, ragVars, resolverVars>>

MCSpec == MCInit /\ [][MCNext]_MCVars

-----------------------------------------------------------------------------
\* What the file or the bucket holds is one conversation, which the contract of
\* memory.SnapshotStore describes: FileKeepsConversation and KvKeepsConversation,
\* each looked at in its own behaviours, where the store is written (memory/jsonfile,
\* memory/nats).
KeepsConversation ==
    /\ FileLog!Init /\ KvLog!Init
    /\ [][part = "jsonfile" /\ file' # file => [FileLog!Next]_(FileLog!vars)]_MCVars
    /\ [][part = "nats" /\ kv' # kv => [KvLog!Next]_(KvLog!vars)]_MCVars
=============================================================================

------------------------------- MODULE MCTools -------------------------------
(***************************************************************************)
(* Model-checking instances of seven parts that share no state: a round of *)
(* tool calls, the permissions of the calls, the background shells of the  *)
(* bash tool and its persistent shell, the file tools, their searches, and *)
(* the limits on the calls of the model.  A behaviour is one part's, and   *)
(* the state space the sum of theirs.                                      *)
(*                                                                         *)
(* The searches see three trees: with an ignored directory, an ignored     *)
(* file that a deeper .gitignore takes back, and links out of the working  *)
(* directory, one of them into a root that may be read; without those, and *)
(* with a file that has become binary; and with a match more or less.      *)
(***************************************************************************)
EXTENDS ToolRound, Permission, BashShells, PersistentShell, FileTools, LLMCalls

VARIABLES part, \* whose behaviour this is
          tree, changes, search, page

\* The variable is in the agent's environment.
MCStartEnv == [n \in {"x"} |-> "v"]

\* "b" has an ask rule, and a deny rule names the target of "link" as written.
MCWritten == [s \in {"a", "b", "c", "link"} |-> IF s = "link" THEN "d" ELSE s]

MCRequests ==
    LET Request(opaque, ambiguous, subjects) ==
            [opaque |-> opaque, ambiguous |-> ambiguous, subjects |-> subjects]
    IN  {Request(FALSE, FALSE, s) : s \in {{"a", "b"}, {"a", "c"}, {"link"}}}
            \cup {Request(TRUE, FALSE, s) : s \in {{"a"}, {"d"}}}
            \cup {Request(FALSE, TRUE, {})}

-----------------------------------------------------------------------------
MCWorkingDir == <<"w">>
MCReadRoots == {<<"s">>}

MCTrees ==
    LET Named(names) == <<[names |-> names]>>
        Rule(name, anchored, negate, dirOnly) ==
            [pattern |-> Named({name}), anchored |-> anchored, negate |-> negate, dirOnly |-> dirOnly]
        Dir(git, rules) == [kind |-> "dir", git |-> git, gitignore |-> rules, locked |-> FALSE]
        File(lines, hits, mtime) == [kind |-> "file", lines |-> lines, hits |-> hits, mtime |-> mtime, binary |-> FALSE]
        Link(to) == [kind |-> "link", to |-> to, mtime |-> 1]
        base == <<>> :> Dir(FALSE, <<>>)
                @@ <<"w">> :> Dir(TRUE, <<Rule("a", FALSE, FALSE, FALSE), Rule("g", FALSE, FALSE, TRUE)>>)
                @@ <<"w", "d">> :> Dir(FALSE, <<Rule("a", TRUE, TRUE, FALSE)>>)
                @@ <<"s">> :> Dir(FALSE, <<>>) @@ <<"s", "b">> :> File(1, {1}, 1) @@ <<"x">> :> File(1, {1}, 1)
        more == <<"w", "a">> :> File(1, {1}, 1) @@ <<"w", "g">> :> Dir(FALSE, <<>>)
                @@ <<"w", "g", "b">> :> File(1, {1}, 1)
                @@ <<"w", "p">> :> [Dir(FALSE, <<>>) EXCEPT !.locked = TRUE] @@ <<"w", "p", "b">> :> File(1, {1}, 1)
                @@ <<"w", "node_modules">> :> Dir(FALSE, <<>>) @@ <<"w", "node_modules", "b">> :> File(1, {1}, 1)
                @@ <<"w", "l">> :> Link(<<"x">>) @@ <<"w", "m">> :> Link(<<"s", "b">>)
    IN  {base @@ more @@ <<"w", "d", "a">> :> File(3, {1, 3}, 2) @@ <<"w", "b">> :> File(2, {2}, 2),
         base @@ <<"w", "d", "a">> :> File(3, {1, 3}, 2) @@ <<"w", "b">> :> [File(2, {2}, 3) EXCEPT !.binary = TRUE],
         base @@ more @@ <<"w", "d", "a">> :> File(3, {2}, 3)}

MCAllPaths ==
    <<<<>>, <<"s">>, <<"s", "b">>, <<"w">>, <<"w", "a">>, <<"w", "b">>, <<"w", "d">>, <<"w", "d", "a">>,
      <<"w", "g">>, <<"w", "g", "b">>, <<"w", "l">>, <<"w", "m">>,
      <<"w", "node_modules">>, <<"w", "node_modules", "b">>, <<"w", "p">>, <<"w", "p", "b">>, <<"x">>>>

MCSearches ==
    LET Under(of, absolute) == [of |-> of, absolute |-> absolute]
        Tool(noIgnore, maxResults, maxOutput) ==
            [noIgnore |-> noIgnore, maxResults |-> maxResults, maxOutput |-> maxOutput]
        Search(path, pattern, mode, before, after, limit, tool) ==
            [path |-> path, pattern |-> pattern, mode |-> mode, before |-> before, after |-> after,
             headLimit |-> limit, tool |-> tool]
        all == <<[names |-> {}]>>
        bs == all \o <<[names |-> {"b"}]>>
        d == <<[names |-> {"d"}]>> \o all
        unlimited == Tool(FALSE, 0, 0)
        limited == {Tool(FALSE, 2, 0), Tool(FALSE, 3, 8), Tool(FALSE, 0, 2), Tool(FALSE, 0, 13)}
        Here(pattern, mode, context, limit, tool) ==
            Search(Under(<<>>, FALSE), pattern, mode, context, context, limit, tool)
    IN  {Here(pattern, mode, 0, 0, tool) :
            pattern \in {<<>>, all, bs, d}, mode \in {"glob", "files", "content"},
            tool \in {unlimited, Tool(TRUE, 0, 0)}}
        \cup {Here(all, mode, 0, 0, tool) : mode \in {"glob", "files", "count"}, tool \in limited}
        \cup {Here(<<>>, "content", context, limit, tool) :
                  context \in 0 .. 1, limit \in {0, 1, 4}, tool \in limited}
        \cup {Here(<<>>, mode, 1, 0, unlimited) : mode \in {"files", "count", "content"}}
        \cup {Search(Under(<<>>, FALSE), <<>>, "content", 1, 0, 2, unlimited)}
        \cup {Search(Under(path, TRUE), pattern, mode, 0, 0, 0, unlimited) :
                  path \in {<<"s">>, <<"x">>, <<"w", "g">>, <<"w", "a">>, <<"w", "b">>, <<"w", "m">>},
                  mode \in {"glob", "files"}, pattern \in {<<>>, all}}
        \cup {Search(Under(<<"d">>, FALSE), <<>>, "content", 0, 0, 0, unlimited)}

MCReads == {[path |-> path, limit |-> limit] :
               path \in {<<"w", "d", "a">>, <<"x">>, <<"w", "m">>, <<"w", "b">>}, limit \in 0 .. 3}

Searching == INSTANCE FileSearch
    WITH Trees <- MCTrees, AllPaths <- MCAllPaths, WorkingDir <- MCWorkingDir, ReadRoots <- MCReadRoots,
         Searches <- MCSearches, Reads <- MCReads, MaxOutput <- 2,
         MaxFileLines <- 2, DefaultLimit <- 3, MaxChanges <- 2

searchVars == <<tree, changes, search, page>>

-----------------------------------------------------------------------------
notPermission == <<searchVars, roundVars, shellVars, persistVars, fileVars, callVars>>
notCalls == <<searchVars, roundVars, permVars, shellVars, persistVars, fileVars>>
MCVars == <<part, searchVars, roundVars, permVars, shellVars, persistVars, fileVars, callVars>>

\* The other parts keep one of their initial states.
MCInit ==
    /\ part \in {"round", "permission", "shells", "persistent", "files", "search", "calls"}
    /\ RoundInit /\ PermInit /\ ShellInit /\ PersistInit /\ FileInit /\ CallInit
    /\ Searching!SearchInit
    /\ part # "round" => calls = <<"plain">>
    /\ part # "files" => disk = Absent
    /\ part # "search" => tree = CHOOSE t \in MCTrees : <<"w", "b">> \notin DOMAIN t

Only(p) == part = p /\ UNCHANGED part

MCNext ==
    \/ Only("round") /\ RoundNext /\ UNCHANGED <<searchVars, permVars, shellVars, persistVars, fileVars, callVars>>
    \/ Only("permission") /\ PermNext /\ UNCHANGED notPermission
    \/ Only("shells") /\ ShellNext /\ UNCHANGED <<searchVars, roundVars, permVars, persistVars, fileVars, callVars>>
    \/ Only("persistent") /\ PersistNext /\ UNCHANGED <<searchVars, roundVars, permVars, shellVars, fileVars, callVars>>
    \/ Only("files") /\ FileNext /\ UNCHANGED <<searchVars, roundVars, permVars, shellVars, persistVars, callVars>>
    \/ Only("calls") /\ CallNext /\ UNCHANGED notCalls
    \/ Only("search") /\ Searching!SearchNext
          /\ UNCHANGED <<roundVars, permVars, shellVars, persistVars, fileVars, callVars>>

MCSpec ==
    /\ MCInit /\ [][MCNext]_MCVars
    /\ \A run \in Runs : WF_MCVars(Only("permission") /\ DropRunRules(run) /\ UNCHANGED notPermission)
    /\ WF_MCVars(Only("calls") /\ ProduceToken /\ UNCHANGED notCalls)
    /\ \A c \in LLMCallers : WF_MCVars(Only("calls") /\ CallProgress(c) /\ UNCHANGED notCalls)

-----------------------------------------------------------------------------
\* A search that is not marked truncated is complete, and one that is shows a beginning
\* of what there is, whatever changes under it; a read whose notes are followed shows each
\* line once (tool/file).
SearchTellsAll == Searching!SearchTellsAll

\* What waits, ends: the rules a run was granted go once it has ended, also those granted
\* after by a call it left behind (tool/permission); and a call of the model gets its turn
\* and ends, whatever the others do, and when the limiter is stopped too (llm/middleware).
RulesAndCallsEnd == RunRulesEnd /\ EveryCallEnds
=============================================================================

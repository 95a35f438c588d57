------------------------------ MODULE FileSearch ------------------------------
(***************************************************************************)
(* tool/file: glob and grep over a tree that others may change while a     *)
(* search reads it, and the pages of read.  A path is the sequence of its  *)
(* names; a tree gives each path a node:                                   *)
(*   a directory: its .gitignore, a sequence of rules, whether it holds    *)
(*     a repository, and whether it is locked: it cannot be read;          *)
(*   a file: its lines, those that match, its modification time;           *)
(*   a symbolic link: where it leads.                                      *)
(* The tools have a working directory, and each is made with its own       *)
(* options, a limit of 0 being none; a search and a read do not meet.      *)
(* A part of a pattern that matches within a name is the set of the names  *)
(* it matches; the walk of the directories sees the tree as it is at one   *)
(* moment.                                                                 *)
(***************************************************************************)
EXTENDS Integers, SequencesExt, FiniteSetsExt

CONSTANTS Trees,      \* what the file system may hold
          AllPaths,   \* its paths, in the order of their strings
          WorkingDir, ReadRoots,
          Searches,   \* inputs: [path, pattern, mode, before, after, headLimit], with
                      \* the options of the tool: [noIgnore, maxResults, maxOutput]
          Reads,      \* inputs: [path, limit], whole when limit is 0
          MaxOutput,  \* the output cap of read, in lines
          MaxFileLines, DefaultLimit,
          MaxChanges  \* bound on the changes of the tree

VARIABLES tree, changes,
          search, \* the search under way, with the trees there were: history
          page    \* the read under way, page by page, and what its reader got: history

searchVars == <<tree, changes, search, page>>

IdleCall == [at |-> "idle"]

SearchInit == tree \in Trees /\ changes = 0 /\ search = IdleCall /\ page = IdleCall

-----------------------------------------------------------------------------
(* Paths *)

AnyDirs == [names |-> {}]

\* resolvePathWithSymlinks: what the existing part of a path leads to.
Resolved(t, p) ==
    LET links == {n \in 1 .. Len(p) : SubSeq(p, 1, n) \in DOMAIN t /\ t[SubSeq(p, 1, n)].kind = "link"}
    IN  IF links = {} THEN p
        ELSE LET n == Min(links) IN t[SubSeq(p, 1, n)].to \o SubSeq(p, n + 1, Len(p))

Inside(t, dir, p) == IsPrefix(Resolved(t, dir), Resolved(t, p))

\* resolveReadPath: the working directory, or a root that may be read.
Readable(t, p) == \E dir \in {WorkingDir} \cup ReadRoots : Inside(t, dir, p)

\* resolveSearchRootIn: no path is the working directory, links and all; another is
\* resolved, and only an absolute one may be in a read root.
SearchRoot(t, path) ==
    IF path.of = <<>> THEN [ok |-> TRUE, root |-> WorkingDir]
    ELSE IF path.absolute
    THEN [ok |-> Readable(t, path.of), root |-> Resolved(t, path.of)]
    ELSE [ok |-> Inside(t, WorkingDir, WorkingDir \o path.of), root |-> Resolved(t, WorkingDir \o path.of)]

Relative(dir, p) == IF p = dir THEN <<".">> ELSE SubSeq(p, Len(dir) + 1, Len(p))

\* compileGlobMatcher: "**/" is any directories, "**" at the end whatever follows.
GlobMatches(pattern, p) ==
    LET m[i \in 1 .. Len(pattern) + 1, j \in 1 .. Len(p) + 1] ==
            IF i > Len(pattern) THEN j > Len(p)
            ELSE IF pattern[i] = AnyDirs
            THEN IF i = Len(pattern) THEN j <= Len(p) ELSE \E k \in j .. Len(p) + 1 : m[i + 1, k]
            ELSE j <= Len(p) /\ p[j] \in pattern[i].names /\ m[i + 1, j + 1]
    IN  m[1, 1]

-----------------------------------------------------------------------------
(* The .gitignore files *)

IsDir(t, p) == p \in DOMAIN t /\ t[p].kind = "dir"
Rules(t, dir) == IF IsDir(t, dir) THEN t[dir].gitignore ELSE <<>>

\* parseGitignore: a pattern of one name matches at any depth.
RulePattern(rule) == IF rule.anchored \/ Len(rule.pattern) > 1 THEN rule.pattern ELSE <<AnyDirs>> \o rule.pattern

RuleApplies(t, rule, dir, p) ==
    (rule.dirOnly => IsDir(t, p)) /\ GlobMatches(RulePattern(rule), Relative(dir, p))

Ancestors(p) == {SubSeq(p, 1, n) : n \in 0 .. Len(p) - 1}

\* newIgnorer: from the nearest directory with .git, or from where the search starts.
Top(t, root) ==
    LET repos == {d \in Ancestors(root) \cup {root} : IsDir(t, d) /\ t[d].git}
    IN  IF repos = {} THEN root ELSE CHOOSE d \in repos : \A o \in repos : Len(o) <= Len(d)

\* The directories whose rules are asked, the outmost first.
Chain(t, root, p) ==
    SetToSortSeq({d \in Ancestors(p) : IsPrefix(Top(t, root), d)}, LAMBDA a, b : Len(a) < Len(b))

\* ignorer.ignored: the last rule that matches decides.
Ignored(t, root, p, noIgnore) ==
    LET dirs == Chain(t, root, p)
        ByRules(start, dir) ==
            FoldLeft(LAMBDA is, rule : IF RuleApplies(t, rule, dir, p) THEN ~rule.negate ELSE is,
                    start, Rules(t, dir))
    IN  ~noIgnore /\ FoldLeft(ByRules, FALSE, dirs)

skippedDirs == {".git", ".hg", ".svn", "node_modules"}

EnterDir(t, root, p, noIgnore) ==
    \/ p = root
    \/ /\ Last(p) # ".git" /\ (Last(p) \in skippedDirs => noIgnore)
       /\ ~Ignored(t, root, p, noIgnore)

\* The root too, when it is a file.
SkipFile(t, root, p, noIgnore) ==
    Ignored(t, root, p, noIgnore) \/ (t[p].kind = "link" /\ ~Readable(t, p))

\* walkSearch: the files under the root; links to directories are not followed, and the
\* root, when it is a link, is all there is.  A directory that cannot be read is passed
\* over without a word.
Walked(t, root, noIgnore) ==
    {p \in DOMAIN t :
        /\ t[p].kind # "dir" /\ IsPrefix(root, p) /\ ~SkipFile(t, root, p, noIgnore)
        /\ \A d \in Ancestors(p) : IsPrefix(root, d) =>
               IsDir(t, d) /\ EnterDir(t, root, d, noIgnore) /\ ~t[d].locked}

-----------------------------------------------------------------------------
(* grep and glob *)

Selected(t, root, input) ==
    {p \in Walked(t, root, input.tool.noIgnore) : input.pattern = <<>> \/ GlobMatches(input.pattern, Relative(root, p))}

Place(p) == CHOOSE i \in DOMAIN AllPaths : AllPaths[i] = p

SortByPath(paths) == SelectSeq(AllPaths, LAMBDA p : p \in paths)

\* glob: the most recent first, then by path.
SortByTime(t, paths) ==
    SetToSortSeq(paths, LAMBDA p, q :
        \/ t[p].mtime > t[q].mtime
        \/ t[p].mtime = t[q].mtime /\ Place(p) < Place(q))

Entry(p, line) == [path |-> p, line |-> line, cut |-> FALSE]

Size(entry) == Len(entry.path) + (IF entry.line = 0 THEN 0 ELSE 1) + 1

SizeOf(entries) == FoldLeft(LAMBDA sum, entry : sum + Size(entry), 0, entries)

FirstOf(entries, n) == SubSeq(entries, 1, Min({n, Len(entries)}))

\* capEntries: those that fit, each with a separator; the first is cut to fit.
CapEntries(entries, maxOutput) ==
    LET fits == Max({n \in 0 .. Len(entries) : SizeOf(FirstOf(entries, n)) <= maxOutput})
    IN  IF maxOutput <= 0 \/ fits = Len(entries) THEN [out |-> entries, cut |-> FALSE]
        ELSE IF fits = 0 THEN [out |-> <<[entries[1] EXCEPT !.cut = TRUE]>>, cut |-> TRUE]
        ELSE [out |-> FirstOf(entries, fits), cut |-> TRUE]

\* What a file adds to the output: itself, its count, or its lines that match with
\* those around them.
FileMatches(node, p, input) ==
    LET lines == {l \in 1 .. node.lines : \E h \in node.hits : l \in h - input.before .. h + input.after}
    IN  IF node.hits = {} THEN <<>>
        ELSE IF input.mode = "content"
        THEN [k \in 1 .. Cardinality(lines) |-> Entry(p, SetToSortSeq(lines, LAMBDA x, y : x < y)[k])]
        ELSE IF input.mode = "count" THEN <<Entry(p, Cardinality(node.hits))>>
        ELSE <<Entry(p, 0)>>

\* head_limit only lowers the tool's own limit.
Limit(input) ==
    LET limits == {n \in {input.tool.maxResults, input.headLimit} : n > 0}
    IN  IF limits = {} THEN 0 ELSE Min(limits)

\* Variant: only the limit is told, not the output cap.
Over_Capped(entries, truncated) ==
    [search EXCEPT !.at = "over", !.truncated = truncated,
                   !.out = CapEntries(entries, search.input.tool.maxOutput).out]

Over(entries, truncated) ==
    LET capped == CapEntries(entries, search.input.tool.maxOutput)
    IN  [search EXCEPT !.at = "over", !.out = capped.out, !.truncated = truncated \/ capped.cut]

Refusal(input) ==
    IF input.mode = "glob" /\ input.pattern = <<>> THEN <<"ErrPatternRequired">>
    ELSE IF input.mode \in {"files", "count"} /\ (input.after > 0 \/ input.before > 0)
    THEN <<"ErrContextFlagsRequireContentMode">>
    ELSE IF ~SearchRoot(tree, input.path).ok THEN <<"ErrPathOutsideWorkingDirectory">>
    ELSE <<>>

StartSearch ==
    /\ search = IdleCall /\ page = IdleCall
    /\ \E input \in Searches :
           LET root == SearchRoot(tree, input.path).root
               refusal == Refusal(input)
           IN  search' = IF refusal # <<>> THEN [at |-> "refused", err |-> refusal[1]]
                         ELSE [at |-> "walked", input |-> input, root |-> root, out |-> <<>>, truncated |-> FALSE,
                               files |-> SortByPath(Selected(tree, root, input)), trees |-> <<tree>>]
    /\ UNCHANGED <<tree, changes, page>>

\* The walk has asked each path for its time.
Glob ==
    /\ search.at = "walked" /\ search.input.mode = "glob"
    /\ LET paths == SortByTime(search.trees[1], Range(search.files))
           entries == [i \in DOMAIN paths |-> Entry(paths[i], 0)]
           limit == search.input.tool.maxResults
       IN  search' = IF limit > 0 /\ Len(entries) > limit THEN Over(FirstOf(entries, limit), TRUE)
                     ELSE Over(entries, FALSE)
    /\ UNCHANGED <<tree, changes, page>>

FileThere(p) == p \in DOMAIN tree /\ Resolved(tree, p) \in DOMAIN tree /\ tree[Resolved(tree, p)].kind = "file"

\* grep reads a file as it is now; one that is gone, a directory or binary is left out.
ReadNext ==
    /\ search.at = "walked" /\ search.input.mode # "glob" /\ search.files # <<>>
    /\ LET p == Head(search.files)
           found == IF ~FileThere(p) \/ tree[Resolved(tree, p)].binary THEN <<>>
                    ELSE FileMatches(tree[Resolved(tree, p)], p, search.input)
           entries == search.out \o found
           limit == Limit(search.input)
       IN  search' = IF limit > 0 /\ Len(entries) > limit THEN Over(FirstOf(entries, limit), TRUE)
                     ELSE [search EXCEPT !.out = entries, !.files = Tail(@)]
    /\ UNCHANGED <<tree, changes, page>>

AllRead ==
    /\ search.at = "walked" /\ search.input.mode # "glob" /\ search.files = <<>>
    /\ search' = Over(search.out, FALSE)
    /\ UNCHANGED <<tree, changes, page>>

SearchAgain ==
    /\ search.at \in {"over", "refused"}
    /\ search' = IdleCall
    /\ UNCHANGED <<tree, changes, page>>

OthersChange ==
    /\ changes < MaxChanges /\ page = IdleCall
    /\ changes' = changes + 1
    /\ tree' \in Trees \ {tree}
    /\ search' = IF search.at = "walked" THEN [search EXCEPT !.trees = Append(@, tree')] ELSE search
    /\ UNCHANGED page

-----------------------------------------------------------------------------
(* read *)

\* "read on with offset=": how many lines there are before those not shown.
ReadOn(shown) == Last(shown)

\* readLines: the lines from the offset, up to the limit or the output cap, of which
\* only the cap leaves a note; the first line is shown whatever it takes.
ReadLines(node, offset, limit) ==
    LET asked == [i \in 1 .. Max({0, Min({offset + limit, node.lines}) - offset}) |-> offset + i]
        shown == FirstOf(asked, MaxOutput)
    IN  [shown |-> shown, note |-> IF Len(shown) < Len(asked) THEN <<ReadOn(shown)>> ELSE <<>>]

ReadLimit(limit) == IF limit <= 0 \/ limit > DefaultLimit THEN DefaultLimit ELSE limit

\* A read, or one that follows the note of the last: for as many lines as are left.
Read ==
    /\ search = IdleCall
    /\ page.at = "idle" \/ (page.at = "open" /\ page.note # <<>>)
    /\ \E input \in Reads :
           LET first == page.at = "idle"
               p == IF first THEN input.path ELSE page.path
               offset == IF first THEN 0 ELSE page.note[1]
               node == tree[Resolved(tree, p)]
               got == ReadLines(node, offset, ReadLimit(input.limit))
           IN  /\ FileThere(p)
               /\ page' = IF ~Readable(tree, p) THEN [at |-> "refused", err |-> "ErrPathOutsideWorkingDirectory"]
                          ELSE IF first /\ input.limit <= 0 /\ node.lines > MaxFileLines
                          THEN [at |-> "refused", err |-> "TooLargeError"]
                          ELSE [at |-> "open", path |-> p, note |-> got.note,
                                seen |-> (IF first THEN <<>> ELSE page.seen) \o got.shown]
    /\ UNCHANGED <<tree, changes, search>>

ReadDone ==
    /\ page.at \in {"open", "refused"}
    /\ page' = IdleCall
    /\ UNCHANGED <<tree, changes, search>>

SearchNext ==
    \/ StartSearch \/ Glob \/ ReadNext \/ AllRead \/ SearchAgain
    \/ OthersChange
    \/ Read \/ ReadDone

-----------------------------------------------------------------------------
(* Properties *)

\* "The last matching rule of the .gitignore files above it decides, as in git": that of
\* the inmost directory that has one.
Excluded(t, root, p) ==
    LET Applying(d) == {i \in DOMAIN Rules(t, d) : RuleApplies(t, Rules(t, d)[i], d, p)}
        deciding == {d \in Ancestors(p) : IsPrefix(Top(t, root), d) /\ Applying(d) # {}}
    IN  /\ deciding # {}
        /\ LET d == CHOOSE d \in deciding : \A o \in deciding : Len(o) <= Len(d)
           IN  ~Rules(t, d)[Max(Applying(d))].negate

\* The files git would show under the root, of those that can be reached: no directory
\* on the way is locked, and no link leads out.  A file that the input names is shown
\* like any other, and the root's own directory whatever is said of it.
Shown(t, root, input) ==
    LET Below(p) == {d \in Ancestors(p) : IsPrefix(root, d) /\ d # root}
        noIgnore == input.tool.noIgnore
    IN  {p \in DOMAIN t :
            /\ t[p].kind # "dir" /\ IsPrefix(root, p) /\ Readable(t, p)
            /\ noIgnore \/ \A q \in Below(p) \cup {p} : ~Excluded(t, root, q)
            /\ \A d \in Below(p) : Last(d) # ".git" /\ (noIgnore \/ Last(d) \notin skippedDirs)
            /\ \A d \in Ancestors(p) : IsPrefix(root, d) => ~t[d].locked
            /\ input.pattern = <<>> \/ GlobMatches(input.pattern, Relative(root, p))}

HasHit(t, p, input) ==
    /\ p \in DOMAIN t
    /\ input.mode = "glob" \/
       LET q == Resolved(t, p)
       IN  q \in DOMAIN t /\ t[q].kind = "file" /\ ~t[q].binary /\ t[q].hits # {}

\* What the mode tells of a file: that it matches, how often, or where, with the lines
\* around.
Told(t, p, input) ==
    LET node == t[Resolved(t, p)]
    IN  CASE input.mode = "content" ->
                UNION {h - input.before .. h + input.after : h \in node.hits} \cap 1 .. node.lines
          [] input.mode = "count" -> {Cardinality(node.hits)}
          [] OTHER -> {0}

\* e comes before f in the order of the mode.
ComesFirst(e, f, input, t) ==
    IF input.mode = "glob" THEN t[e.path].mtime >= t[f.path].mtime
    ELSE Place(e.path) < Place(f.path) \/ (e.path = f.path /\ e.line < f.line)

\* A search that is not marked Truncated is complete: of what git shows under the root,
\* matches, and was there all the time, each file is told of as it was at one moment.  One
\* that is marked is a beginning of that, not empty, and at a limit of its own.  What is
\* told was there when the search began, held that at some time, is in order and within
\* the limits (GlobOutput, GrepOutput, WithMaxResults, WithMaxOutputChars).  A read whose
\* notes are followed shows each line once, in order (readLines).
SearchTellsAll ==
    /\ search.at = "over" =>
           LET input == search.input
               out == search.out
               trees == search.trees
               shown == Shown(trees[1], search.root, input)
               told(p) == {out[i].line : i \in {i \in DOMAIN out : out[i].path = p}}
               kept == {p \in shown : \A i \in DOMAIN trees : HasHit(trees[i], p, input)}
               maxOutput == input.tool.maxOutput
               limits == {n \in {input.tool.maxResults} \cup (IF input.mode = "glob" THEN {} ELSE {input.headLimit}) :
                             n > 0}
           IN  /\ \A i \in DOMAIN out :
                      /\ out[i].path \in shown
                      /\ \E k \in DOMAIN trees :
                             HasHit(trees[k], out[i].path, input) /\ out[i].line \in Told(trees[k], out[i].path, input)
                      /\ \A j \in i + 1 .. Len(out) : ComesFirst(out[i], out[j], input, trees[1])
                      /\ out[i].cut => Len(out) = 1 /\ search.truncated
               /\ ~search.truncated =>
                      \A p \in kept : \E k \in DOMAIN trees : told(p) = Told(trees[k], p, input)
               /\ search.truncated =>
                      /\ out # <<>>
                      /\ Len(out) \in limits \/ maxOutput > 0
                      /\ \A p \in kept \ {out[i].path : i \in DOMAIN out} :
                             ComesFirst(Last(out), Entry(p, 0), input, trees[1])
               /\ \A limit \in limits : Len(out) <= limit
               /\ maxOutput > 0 => SizeOf(out) <= maxOutput \/ out[1].cut
    /\ page.at = "open" => page.seen = [i \in DOMAIN page.seen |-> i]
=============================================================================

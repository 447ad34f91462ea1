----------------------------- MODULE GitStatus -----------------------------
(***************************************************************************)
(* One run of the git probes of a `dbar status` or `dbar refresh`          *)
(* (src/git/mod.rs and src/git/probes.rs), in a repository that its user   *)
(* goes on working in.                                                     *)
(*                                                                         *)
(* A step is one git command; each is answered from the repository as it   *)
(* stands when the command runs, and any of them may fail.                 *)
(***************************************************************************)
EXTENDS Naturals, Sequences, FiniteSets

CONSTANTS
    Branches,      \* the branches that may be checked out
    Attributes,    \* sequences: the filter attribute of each tracked path below a directory
    Changes,       \* sequences of porcelain lines: the changes to report
    Counts,        \* what rev-list may count: <<in the upstream only, in HEAD only>>
    Batch,         \* FILTER_ATTRIBUTE_BATCH
    MaxMoves,      \* bound: changes the user makes while the probes run
    MayFail        \* a command may fail

Detached == "detached"
Blank    == " "    \* unchanged, in a porcelain line
Letters  == {Blank, "M", "A", "D", "R", "C", "U", "T", "?"}

ASSUME GitStatusAssumption ==
    /\ Detached \notin Branches
    /\ Attributes \subseteq Seq({"unspecified", "unset", "set", "named"})
    /\ Changes \subseteq Seq(Letters \X Letters)
    \* git-status(1): an unmerged or untracked path has no blank for its first letter.
    /\ \A c \in Changes : \A i \in DOMAIN c : c[i][1] = Blank => c[i][2] \notin {"U", "?", Blank}
    /\ Counts \subseteq Nat \X Nat
    /\ Batch \in Nat \ {0} /\ MaxMoves \in Nat /\ MayFail \in BOOLEAN

NoUpstream == <<>>

\* Where git is asked: in no repository, outside the work tree of one (a bare
\* repository, a .git directory), or in a work tree, at its root or below it.
\* `filters` is of the tracked paths below the project directory; `elsewhere` says
\* whether a tracked path that is not there selects a filter.
Origins == {"none", "named", "nameless"}
Repositories ==
    [kind : {"plain", "outside", "worktree"}, origin : Origins,
     head : Branches \cup {Detached}, filters : Attributes, elsewhere : BOOLEAN,
     changes : Changes, upstream : Counts \cup {NoUpstream}]

Probes    == {"origin", "repository", "branch", "preflight", "filter", "status", "counts"}
Positions == {"origin", "repository", "branch", "files", "attributes", "status", "counts",
              "done"}
Reports ==
    [name : {"", "origin", "path"}, outcome : {"", "available", "notARepository", "unavailable"},
     branch : Branches \cup {Detached}, dirty : BOOLEAN, staged : BOOLEAN,
     behind : Nat, ahead : Nat]

VARIABLES
    repo,        \* the repository
    seen,        \* the states it has been in since the probes began
    pc,
    listed,      \* how many paths ls-files listed
    batch,       \* the batches of them that check-attr has answered for
    report,      \* what has been collected
    failures     \* the probes whose failure is on record with it

vars == <<repo, seen, pc, listed, batch, report, failures>>

Init ==
    /\ repo \in Repositories /\ seen = {repo}
    /\ repo.kind # "worktree" =>
           repo.filters = <<>> /\ ~repo.elsewhere /\ repo.changes = <<>>
               /\ repo.upstream = NoUpstream
    /\ repo.kind = "plain" => repo.origin = "none" /\ repo.head = Detached
    /\ pc = "origin"
    /\ listed = 0 /\ batch = 0
    /\ report = [name |-> "", outcome |-> "", branch |-> Detached, dirty |-> FALSE,
                 staged |-> FALSE, behind |-> 0, ahead |-> 0]
    /\ failures = {}

Goto(next)      == pc' = next
Degrade(probe)  == failures' = failures \cup {probe}
Untouched       == UNCHANGED <<repo, seen>>

-----------------------------------------------------------------------------

\* project_name: a non-zero exit is git's answer for "no origin", and for "not a
\* repository".
AskOrigin ==
    /\ pc = "origin"
    /\ report' = [report EXCEPT !.name = IF repo.origin = "named" THEN "origin" ELSE "path"]
    /\ IF repo.origin = "nameless" THEN Degrade("origin") ELSE UNCHANGED failures
    /\ Goto("repository")
    /\ Untouched /\ UNCHANGED <<listed, batch>>

OriginFails ==
    /\ MayFail /\ pc = "origin"
    /\ report' = [report EXCEPT !.name = "path"]
    /\ Degrade("origin")
    /\ Goto("repository")
    /\ Untouched /\ UNCHANGED <<listed, batch>>

\* git_status: without a repository rev-parse exits with a status of its own,
\* which is a failed command as any other.
AskRepository ==
    /\ pc = "repository"
    /\ CASE repo.kind = "worktree" ->
              /\ report' = [report EXCEPT !.outcome = "available"]
              /\ Goto("branch") /\ UNCHANGED failures
         [] repo.kind = "outside" ->
              /\ report' = [report EXCEPT !.outcome = "notARepository"]
              /\ Goto("done") /\ UNCHANGED failures
         [] repo.kind = "plain" ->
              /\ report' = [report EXCEPT !.outcome = "unavailable"]
              /\ Goto("done") /\ Degrade("repository")
    /\ Untouched /\ UNCHANGED <<listed, batch>>

RepositoryFails ==
    /\ MayFail /\ pc = "repository"
    /\ report' = [report EXCEPT !.outcome = "unavailable"]
    /\ Degrade("repository")
    /\ Goto("done")
    /\ Untouched /\ UNCHANGED <<listed, batch>>

\* An empty answer is a detached HEAD, and no failure.
AskBranch ==
    /\ pc = "branch"
    /\ report' = [report EXCEPT !.branch = repo.head]
    /\ Goto("files")
    /\ Untouched /\ UNCHANGED <<listed, batch, failures>>

BranchFails ==
    /\ MayFail /\ pc = "branch"
    /\ Degrade("branch")
    /\ Goto("files")
    /\ Untouched /\ UNCHANGED <<listed, batch, report>>

-----------------------------------------------------------------------------

Selects(attribute) == attribute \notin {"unspecified", "unset"}

\* The paths of the next batch, and whether there is any.
NextBatch == {i \in 1..listed : batch * Batch < i /\ i <= (batch + 1) * Batch}

\* Faulty variant: a last batch that is not full is left out.
MoreWholePaths(n) == (n + 1) * Batch <= listed

\* Faulty variant: a list that fills its batches gets one more.
MorePathsInclusive(n) == n * Batch <= listed

MorePaths(n) == n * Batch < listed

\* ls-files runs in the project directory, and lists what is below it.
ListFiles ==
    /\ pc = "files"
    /\ listed' = Len(repo.filters)
    /\ Goto(IF listed' = 0 THEN "status" ELSE "attributes")
    /\ Untouched /\ UNCHANGED <<batch, report, failures>>

\* check-attr answers for one batch of the listed paths, as the attributes of
\* those that are left now stand; the first batch that selects a filter ends it.
CheckAttributes ==
    /\ pc = "attributes"
    /\ IF \E i \in NextBatch \cap DOMAIN repo.filters : Selects(repo.filters[i])
       THEN /\ Degrade("filter") /\ Goto("counts")
            /\ UNCHANGED batch
       ELSE /\ batch' = batch + 1
            /\ Goto(IF MorePaths(batch') THEN "attributes" ELSE "status")
            /\ UNCHANGED failures
    /\ Untouched /\ UNCHANGED <<listed, report>>

\* Faulty variant: without an answer the status probe goes ahead.
PreflightFailsOpen ==
    /\ MayFail /\ pc \in {"files", "attributes"}
    /\ Degrade("preflight")
    /\ Goto("status")
    /\ Untouched /\ UNCHANGED <<listed, batch, report>>

PreflightFails ==
    /\ MayFail /\ pc \in {"files", "attributes"}
    /\ Degrade("preflight")
    /\ Goto("counts")
    /\ Untouched /\ UNCHANGED <<listed, batch, report>>

-----------------------------------------------------------------------------

\* The two status characters of each porcelain line, as parse_porcelain finds
\* them: the output has been trimmed, so a first line that starts with a blank
\* has lost it, and the blank behind its status has moved up.
StatusChars(changes) ==
    [i \in DOMAIN changes |->
        IF i = 1 /\ changes[i][1] = Blank THEN <<changes[i][2], Blank>> ELSE changes[i]]

DirtyLetters  == {"M", "A", "D", "R", "C", "U", "?"}
StagedLetters == {"M", "A", "D", "R", "C"}

\* Faulty variant: both flags are read in the first column.
ReadsDirtyInFirst(changes, lines) ==
    \E i \in lines : StatusChars(changes)[i][1] \in DirtyLetters

ReadsDirty(changes, lines)  == \E i \in lines : StatusChars(changes)[i][2] \in DirtyLetters
ReadsStaged(changes, lines) == \E i \in lines : StatusChars(changes)[i][1] \in StagedLetters

\* parse_porcelain of the given lines; git status covers the whole repository.
Reads(lines) ==
    /\ report' = [report EXCEPT !.dirty = ReadsDirty(repo.changes, lines),
                                !.staged = ReadsStaged(repo.changes, lines)]
    /\ Goto("counts")
    /\ Untouched /\ UNCHANGED <<listed, batch>>

RunStatus ==
    /\ pc = "status"
    /\ Reads(DOMAIN repo.changes)
    /\ UNCHANGED failures

\* A line too short for two status characters is left out, and a failure on record
\* beside the flags of the others.
StatusIsMalformed ==
    /\ MayFail /\ pc = "status"
    /\ \E lines \in SUBSET DOMAIN repo.changes : Reads(lines)
    /\ Degrade("status")

StatusFails ==
    /\ MayFail /\ pc = "status"
    /\ Degrade("status")
    /\ Goto("counts")
    /\ Untouched /\ UNCHANGED <<listed, batch, report>>

\* Without an upstream rev-list fails, which is on record as any failure is.
AskCounts ==
    /\ pc = "counts"
    /\ IF repo.upstream = NoUpstream
       THEN Degrade("counts") /\ UNCHANGED report
       ELSE /\ report' = [report EXCEPT !.behind = repo.upstream[1],
                                        !.ahead = repo.upstream[2]]
            /\ UNCHANGED failures
    /\ Goto("done")
    /\ Untouched /\ UNCHANGED <<listed, batch>>

CountsFail ==
    /\ MayFail /\ pc = "counts"
    /\ Degrade("counts")
    /\ Goto("done")
    /\ Untouched /\ UNCHANGED <<listed, batch, report>>

-----------------------------------------------------------------------------

\* The user checks out, commits, edits, stages, fetches or rewrites attributes.
Move ==
    /\ pc # "done" /\ repo.kind = "worktree" /\ Cardinality(seen) <= MaxMoves
    /\ \/ \E b \in Branches \cup {Detached}    : repo' = [repo EXCEPT !.head = b]
       \/ \E c \in Changes                     : repo' = [repo EXCEPT !.changes = c]
       \/ \E f \in Attributes                  : repo' = [repo EXCEPT !.filters = f]
       \/ \E e \in BOOLEAN                     : repo' = [repo EXCEPT !.elsewhere = e]
       \/ \E o \in Origins                     : repo' = [repo EXCEPT !.origin = o]
       \/ \E u \in Counts \cup {NoUpstream}    : repo' = [repo EXCEPT !.upstream = u]
    /\ repo' \notin seen
    /\ seen' = seen \cup {repo'}
    /\ UNCHANGED <<pc, listed, batch, report, failures>>

Finished == pc = "done" /\ UNCHANGED vars

Next ==
    \/ AskOrigin \/ AskRepository \/ AskBranch \/ ListFiles \/ CheckAttributes
    \/ RunStatus \/ AskCounts
    \/ OriginFails \/ RepositoryFails \/ BranchFails \/ PreflightFails \/ StatusFails
    \/ StatusIsMalformed \/ CountsFail
    \/ Move \/ Finished

Spec == Init /\ [][Next]_vars

-----------------------------------------------------------------------------

TypeOK ==
    /\ repo \in Repositories /\ seen \subseteq Repositories
    /\ pc \in Positions /\ listed \in Nat /\ batch \in Nat
    /\ pc = "attributes" => NextBatch # {}      \* check-attr is never run on no path
    /\ report \in Reports /\ failures \subseteq Probes

\* What these lines report, by column.
Dirty(changes, lines)  == \E i \in lines : changes[i][2] \in DirtyLetters
Staged(changes, lines) == \E i \in lines : changes[i][1] \in StagedLetters

\* The flags are what the lines report, but that an unstaged change on the very first
\* of them, whose leading blank is lost, is taken for a staged one.
FlagsAreOf(changes, lines) ==
    LET shifted == {i \in lines : i = 1 /\ changes[i][1] = Blank} IN
    /\ report.dirty  <=> Dirty(changes, lines \ shifted)
    /\ report.staged <=> Staged(changes, lines) \/ Dirty(changes, shifted)

NameWasTrue ==
    \/ report.name = "origin" /\ \E r \in seen : r.origin = "named"
    \/ report.name = "path" /\ \E r \in seen : r.origin = "none"
    \/ report.name = "path" /\ "origin" \in failures

BranchWasTrue ==
    \/ \E r \in seen : report.branch = r.head
    \/ report.branch = Detached /\ "branch" \in failures

\* Unless a failure is on record the flags are of all the lines of one status, else of
\* those that could be read, if any.
FlagsWereTrue ==
    \E r \in seen : \E lines \in SUBSET DOMAIN r.changes :
        /\ lines = DOMAIN r.changes \/ failures \cap {"preflight", "filter", "status"} # {}
        /\ FlagsAreOf(r.changes, lines)

CountsWereTrue ==
    \/ \E r \in seen : <<report.behind, report.ahead>> = r.upstream
    \/ report.behind = 0 /\ report.ahead = 0 /\ "counts" \in failures

\* Every field of a finished snapshot either was true of the repository at some
\* moment while the probes ran, but for the one misreading that FlagsAreOf allows, or
\* is at its fallback with the failure on record (src/git/mod.rs, the fallback
\* policy): nothing is made up, and no failure or change of the repository half way
\* through turns one field into another.
EveryFieldWasTrue ==
    pc = "done" =>
        /\ NameWasTrue
        /\ report.outcome = "available" => BranchWasTrue /\ FlagsWereTrue /\ CountsWereTrue

\* Where a tracked path selects a filter.
FilteredPlaces(r) ==
    (IF \E i \in DOMAIN r.filters : Selects(r.filters[i]) THEN {"below"} ELSE {})
    \cup (IF r.elsewhere THEN {"elsewhere"} ELSE {})

\* While nobody changes the repository, `git status` runs over no path below the
\* project directory whose attributes select a filter, nor without an answer to that
\* question (src/git/probes.rs, guard_against_filter).  In the rest of the repository,
\* which it covers as well, there may be one.
StatusRunsOverNoFilter ==
    pc = "status" =>
        /\ failures \cap {"preflight", "filter"} = {}
        /\ Cardinality(seen) = 1 => FilteredPlaces(repo) \subseteq {"elsewhere"}

\* The dirty and staged flags of a clean run tell an unstaged change from a staged
\* one (src/git/mod.rs:63 and 65: "Whether the worktree has unstaged changes",
\* "Whether the index contains staged changes").
FlagsTellStagedFromUnstaged ==
    pc = "done" /\ report.outcome = "available" /\ Cardinality(seen) = 1 /\ failures = {} =>
        LET lines == DOMAIN repo.changes IN
        /\ report.dirty  <=> Dirty(repo.changes, lines)
        /\ report.staged <=> Staged(repo.changes, lines)
=============================================================================

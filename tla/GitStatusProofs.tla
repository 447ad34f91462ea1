-------------------------- MODULE GitStatusProofs --------------------------
(***************************************************************************)
(* Proofs about GitStatus, for any repository, any size of a batch, and    *)
(* any number of changes made while the probes run.                        *)
(***************************************************************************)
EXTENDS GitStatus, FiniteSetTheorems, TLAPS

(***************************************************************************)
(* Type correctness.                                                       *)
(***************************************************************************)

LEMMA RepoTypes ==
    ASSUME repo \in Repositories
    PROVE  /\ repo.kind \in {"plain", "outside", "worktree"}
           /\ repo.head \in Branches \cup {Detached}
           /\ repo.filters \in Seq({"unspecified", "unset", "set", "named"})
           /\ repo.changes \in Changes /\ repo.origin \in Origins
           /\ repo.upstream \in Counts \cup {NoUpstream}
           /\ repo.upstream # NoUpstream =>
                  repo.upstream[1] \in Nat /\ repo.upstream[2] \in Nat
<1>1. /\ repo.kind \in {"plain", "outside", "worktree"}
      /\ repo.head \in Branches \cup {Detached} /\ repo.filters \in Attributes
      /\ repo.changes \in Changes /\ repo.upstream \in Counts \cup {NoUpstream}
      /\ repo.origin \in Origins
  BY DEF Repositories
<1>2. Attributes \subseteq Seq({"unspecified", "unset", "set", "named"}) /\ Counts \subseteq Nat \X Nat
  BY GitStatusAssumption
<1>3. repo.upstream # NoUpstream => repo.upstream \in Nat \X Nat
  BY <1>1, <1>2
<1>4. QED
  BY <1>1, <1>2, <1>3

LEMMA BatchSize == Batch \in Nat /\ Batch > 0
BY GitStatusAssumption

LEMMA NextMultiple ==
    ASSUME NEW m \in Nat, NEW n \in Nat
    PROVE  m * n \in Nat /\ (m + 1) * n = m * n + n
BY SMT

\* As long as paths are left the next batch has one.
LEMMA MoreMeansABatch ==
    ASSUME NEW l \in Nat, NEW b \in Nat, b * Batch < l
    PROVE  {i \in 1..l : b * Batch < i /\ i <= (b + 1) * Batch} # {}
<1> DEFINE m == b * Batch
<1>1. m \in Nat /\ (b + 1) * Batch = m + Batch
  BY NextMultiple, BatchSize
<1>2. m < l
  OBVIOUS
<1>0. b * Batch = m
  OBVIOUS
<1> HIDE DEF m
<1>3. /\ m + 1 \in 1..l /\ m < m + 1 /\ m + 1 <= m + Batch
  BY <1>1, <1>2, BatchSize
<1>4. QED
  BY <1>0, <1>1, <1>3

\* Nothing is checked before the paths are listed.
FirstBatch == pc \in {"origin", "repository", "branch", "files"} => batch = 0

LEMMA TypeStep == TypeOK /\ FirstBatch /\ [Next]_vars => TypeOK'
<1> SUFFICES ASSUME TypeOK, FirstBatch, [Next]_vars PROVE TypeOK'
  OBVIOUS
<1> USE DEF TypeOK, Goto, Degrade, Untouched, Positions
<1>1. CASE AskOrigin \/ OriginFails
  BY <1>1 DEF AskOrigin, OriginFails, Reports, Probes
<1>2. CASE AskRepository \/ RepositoryFails
  BY <1>2, RepoTypes DEF AskRepository, RepositoryFails, Reports, Probes
<1>3. CASE AskBranch \/ BranchFails
  BY <1>3, RepoTypes DEF AskBranch, BranchFails, Reports, Probes
<1>4. CASE ListFiles
  <2>1. listed' \in Nat /\ batch' = batch /\ pc' \in {"status", "attributes"}
    BY <1>4 DEF ListFiles
  <2>2. ASSUME pc' = "attributes" PROVE NextBatch' # {}
    <3>1. listed' # 0 /\ batch' = 0
      BY <1>4, <2>2 DEF ListFiles, FirstBatch
    <3>2. 0 * Batch = 0 /\ (0 + 1) * Batch = Batch
      BY BatchSize
    <3>3. 0 * Batch < listed'
      BY <2>1, <3>1, <3>2
    <3>4. QED
      BY <2>1, <3>1, <3>3, MoreMeansABatch DEF NextBatch
  <2>3. QED
    BY <1>4, <2>1, <2>2 DEF ListFiles
<1>5. CASE CheckAttributes
  <2>1. /\ UNCHANGED <<repo, seen, listed, report>> /\ batch' \in Nat
        /\ failures' \subseteq Probes
        /\ pc' \in {"attributes", "status", "counts"}
        /\ pc' = "attributes" => MorePaths(batch')
    <3>1. CASE \E i \in NextBatch \cap DOMAIN repo.filters : Selects(repo.filters[i])
      BY <1>5, <3>1 DEF CheckAttributes, Probes
    <3>2. CASE ~\E i \in NextBatch \cap DOMAIN repo.filters : Selects(repo.filters[i])
      <4>1. /\ batch' = batch + 1 /\ UNCHANGED failures
            /\ pc' = IF MorePaths(batch') THEN "attributes" ELSE "status"
            /\ UNCHANGED <<repo, seen, listed, report>>
        BY <1>5, <3>2 DEF CheckAttributes
      <4>2. QED
        BY <4>1
    <3>3. QED
      BY <3>1, <3>2
  <2>2. ASSUME pc' = "attributes" PROVE NextBatch' # {}
    <3>1. batch' * Batch < listed' /\ listed' \in Nat /\ batch' \in Nat
      BY <2>1, <2>2 DEF MorePaths
    <3>2. QED
      BY <3>1, MoreMeansABatch DEF NextBatch
  <2>3. QED
    BY <2>1, <2>2
<1>6. CASE PreflightFails \/ StatusFails \/ CountsFail
  BY <1>6 DEF PreflightFails, StatusFails, CountsFail, Probes
<1>7. CASE RunStatus \/ StatusIsMalformed
  BY <1>7 DEF RunStatus, StatusIsMalformed, Reads, Reports, ReadsDirty, ReadsStaged, Probes
<1>8. CASE AskCounts
  <2>1. report' \in Reports /\ failures' \subseteq Probes
    BY <1>8, RepoTypes DEF AskCounts, Reports, Probes
  <2>2. QED
    BY <1>8, <2>1 DEF AskCounts
<1>9. CASE Move
  BY <1>9 DEF Move, Repositories, NextBatch
<1>10. CASE UNCHANGED vars
  BY <1>10 DEF vars, NextBatch
<1>11. QED
  BY <1>1, <1>2, <1>3, <1>4, <1>5, <1>6, <1>7, <1>8, <1>9, <1>10 DEF Next, Finished
(***************************************************************************)
(* The states the repository has been in.                                  *)
(***************************************************************************)
SeenOK == repo \in seen /\ IsFiniteSet(seen)

\* The repository is as it was when the probes began.
Unmoved == seen = {repo}

LEMMA OneSeen ==
    ASSUME SeenOK, Cardinality(seen) = 1 PROVE Unmoved
<1>1. PICK r : seen = {r}
  BY FS_Singleton DEF SeenOK
<1>2. QED
  BY <1>1 DEF SeenOK, Unmoved

(***************************************************************************)
(* The preflight: what the batches so far found, and no failure of its own *)
(* before the status.                                                      *)
(***************************************************************************)
CheckedUpTo(n) == \A i \in DOMAIN repo.filters : i <= n => ~Selects(repo.filters[i])

Preflight ==
    /\ FirstBatch
    /\ pc \in {"origin", "repository", "branch", "files", "attributes", "status"} =>
           failures \cap {"preflight", "filter"} = {}
    /\ pc = "attributes" /\ Unmoved =>
           listed = Len(repo.filters) /\ CheckedUpTo(batch * Batch)
    /\ pc = "status" /\ Unmoved => CheckedUpTo(Len(repo.filters))

(***************************************************************************)
(* The fields, from the probe that fills each of them on.                  *)
(***************************************************************************)
Answered == pc = "done" /\ report.outcome = "available"

Fields ==
    /\ pc # "origin" => NameWasTrue
    /\ pc \in {"origin", "repository", "branch"} => report.branch = Detached
    /\ pc \in {"files", "attributes", "status", "counts"} \/ Answered => BranchWasTrue
    /\ pc \notin {"counts", "done"} => ~report.dirty /\ ~report.staged
    /\ pc = "counts" \/ Answered => FlagsWereTrue
    /\ pc # "done" => report.behind = 0 /\ report.ahead = 0
    /\ Answered => CountsWereTrue

IInv == TypeOK /\ SeenOK /\ Preflight /\ Fields

LEMMA InitOK == Init => IInv
<1> SUFFICES ASSUME Init PROVE TypeOK /\ SeenOK /\ Preflight /\ Fields
  BY DEF IInv
<1>1. TypeOK
  BY DEF Init, TypeOK, Positions, Reports, Probes
<1>2. SeenOK
  BY FS_Singleton DEF Init, SeenOK
<1>3. Preflight
  BY DEF Init, Preflight, FirstBatch
<1>4. Fields
  BY DEF Init, Fields, Answered
<1>5. QED
  BY <1>1, <1>2, <1>3, <1>4

LEMMA BlankLines ==
    \A c \in Changes : \A i \in DOMAIN c : c[i][1] = Blank => c[i][2] \notin {"U", "?", Blank}
BY GitStatusAssumption

LEMMA BlankIsNoLetter == Blank \notin DirtyLetters \cup StagedLetters
BY Zenon DEF Blank, DirtyLetters, StagedLetters

\* Trimming moves a blank from before the first line's change to behind it, and does
\* nothing else to any line.
LEMMA TrimShifts ==
    ASSUME NEW c \in Changes, NEW lines \in SUBSET DOMAIN c,
           NEW shifted, shifted = {i \in lines : i = 1 /\ c[i][1] = Blank}
    PROVE  /\ ReadsDirty(c, lines) <=> Dirty(c, lines \ shifted)
           /\ ReadsStaged(c, lines) <=> Staged(c, lines) \/ Dirty(c, shifted)
<1>1. c \in Seq(Letters \X Letters)
  BY GitStatusAssumption
<1>2. ASSUME NEW i \in DOMAIN c
      PROVE  /\ c[i] = <<c[i][1], c[i][2]>> /\ c[i][1] \in Letters /\ c[i][2] \in Letters
             /\ c[i][1] = Blank => c[i][2] \notin {"U", "?", Blank}
  <2>1. c[i] \in Letters \X Letters
    BY <1>1
  <2>2. QED
    BY <2>1, BlankLines
<1>3. ASSUME NEW i \in lines
      PROVE  /\ StatusChars(c)[i][2] \in DirtyLetters
                     <=> i \notin shifted /\ c[i][2] \in DirtyLetters
             /\ StatusChars(c)[i][1] \in StagedLetters
                     <=> \/ c[i][1] \in StagedLetters
                         \/ i \in shifted /\ c[i][2] \in DirtyLetters
  <2>1. StatusChars(c)[i] = IF i = 1 /\ c[i][1] = Blank THEN <<c[i][2], Blank>> ELSE c[i]
    BY DEF StatusChars
  <2>2. CASE i = 1 /\ c[i][1] = Blank
    <3>1. StatusChars(c)[i][1] = c[i][2] /\ StatusChars(c)[i][2] = Blank /\ i \in shifted
      BY <2>1, <2>2
    <3>2. c[i][1] = Blank /\ c[i][2] \in {"M", "A", "D", "R", "C", "T"}
      BY <1>2, <2>2 DEF Letters
    <3>3. QED
      BY <3>1, <3>2, BlankIsNoLetter DEF DirtyLetters, StagedLetters
  <2>3. CASE ~(i = 1 /\ c[i][1] = Blank)
    BY <2>1, <2>3
  <2>4. QED
    BY <2>2, <2>3
<1>4. shifted \subseteq lines
  OBVIOUS
<1>5. QED
  BY <1>3, <1>4 DEF ReadsDirty, ReadsStaged, Dirty, Staged

\* What is read of some lines are the flags of those lines.
LEMMA FlagsAreRead ==
    ASSUME NEW c \in Changes, NEW lines \in SUBSET DOMAIN c,
           report'.dirty = ReadsDirty(c, lines), report'.staged = ReadsStaged(c, lines)
    PROVE  FlagsAreOf(c, lines)'
<1> DEFINE shifted == {i \in lines : i = 1 /\ c[i][1] = Blank}
<1>1. /\ ReadsDirty(c, lines) <=> Dirty(c, lines \ shifted)
      /\ ReadsStaged(c, lines) <=> Staged(c, lines) \/ Dirty(c, shifted)
  BY TrimShifts
<1>2. QED
  BY <1>1 DEF FlagsAreOf

LEMMA PreflightStep == IInv /\ [Next]_vars => SeenOK' /\ Preflight'
<1> SUFFICES ASSUME IInv, [Next]_vars PROVE SeenOK' /\ Preflight'
  OBVIOUS
<1> USE DEF IInv, Goto, Degrade
<1>1. CASE Move
  <2>1. SeenOK'
    BY <1>1, FS_AddElement DEF Move, SeenOK
  <2>2. ~Unmoved'
    BY <1>1 DEF Move, SeenOK, Unmoved
  <2>3. QED
    BY <1>1, <2>1, <2>2 DEF Move, Preflight, FirstBatch
<1>2. CASE CheckAttributes
  <2>1. UNCHANGED <<repo, seen, listed>> /\ pc = "attributes"
    BY <1>2 DEF CheckAttributes, Untouched
  <2>2. SeenOK'
    BY <2>1 DEF SeenOK
  <2>3. CASE pc' = "counts"
    BY <2>2, <2>3 DEF Preflight, FirstBatch
  <2>4. CASE pc' # "counts"
    <3>1. /\ \A i \in NextBatch \cap DOMAIN repo.filters : ~Selects(repo.filters[i])
          /\ batch' = batch + 1 /\ failures' = failures
          /\ pc' \in {"attributes", "status"}
          /\ pc' = "status" => ~MorePaths(batch')
      BY <1>2, <2>4 DEF CheckAttributes
    <3>2. ASSUME Unmoved PROVE /\ listed = Len(repo.filters)
                               /\ CheckedUpTo(batch' * Batch)
      <4>1. /\ listed = Len(repo.filters) /\ CheckedUpTo(batch * Batch)
            /\ DOMAIN repo.filters = 1..Len(repo.filters)
            /\ Len(repo.filters) \in Nat
        BY <2>1, <3>2, RepoTypes DEF Preflight, TypeOK
      <4>2. ASSUME NEW i \in DOMAIN repo.filters, i <= batch' * Batch,
                   ~(i <= batch * Batch)
            PROVE  i \in NextBatch
        <5>1. batch * Batch \in Nat
          BY NextMultiple, BatchSize DEF TypeOK
        <5>2. QED
          BY <3>1, <4>1, <4>2, <5>1 DEF NextBatch
      <4>3. QED
        BY <3>1, <4>1, <4>2 DEF CheckedUpTo
    <3>3. ASSUME Unmoved, pc' = "status" PROVE CheckedUpTo(Len(repo.filters))
      <4>1. batch' * Batch \in Nat /\ ~(batch' * Batch < Len(repo.filters))
        BY <3>1, <3>2, <3>3, NextMultiple, BatchSize DEF MorePaths, TypeOK
      <4>2. DOMAIN repo.filters = 1..Len(repo.filters) /\ Len(repo.filters) \in Nat
        BY RepoTypes DEF TypeOK
      <4>3. QED
        BY <3>2, <3>3, <4>1, <4>2 DEF CheckedUpTo
    <3>4. Unmoved' <=> Unmoved
      BY <2>1 DEF Unmoved
    <3>5. CheckedUpTo(batch * Batch)' <=> CheckedUpTo(batch' * Batch)
      BY <2>1 DEF CheckedUpTo
    <3>6. QED
      BY <2>1, <2>2, <3>1, <3>2, <3>3, <3>4, <3>5 DEF Preflight, FirstBatch, CheckedUpTo
  <2>5. QED
    BY <2>3, <2>4
<1>3. CASE ListFiles
  <2>1. /\ UNCHANGED <<repo, seen, batch, failures>> /\ batch = 0 /\ pc = "files"
        /\ listed' = Len(repo.filters)
        /\ pc' = IF listed' = 0 THEN "status" ELSE "attributes"
    BY <1>3 DEF ListFiles, Untouched, Preflight, FirstBatch
  <2>2. DOMAIN repo.filters = 1..Len(repo.filters) /\ Len(repo.filters) \in Nat
    BY RepoTypes DEF TypeOK
  <2>3. 0 * Batch = 0
    BY BatchSize
  <2>4. CheckedUpTo(0)
    BY <2>2 DEF CheckedUpTo
  <2>5. QED
    BY <2>1, <2>2, <2>3, <2>4 DEF Preflight, FirstBatch, SeenOK, Unmoved, CheckedUpTo
<1>4. CASE ~Move /\ ~CheckAttributes /\ ~ListFiles
  <2>1. UNCHANGED <<repo, seen>>
    BY <1>4 DEF Next, AskOrigin, AskRepository, AskBranch, RunStatus, AskCounts,
       OriginFails, RepositoryFails, BranchFails, PreflightFails, StatusFails, CountsFail,
       StatusIsMalformed, Reads, Finished, Untouched, vars
  <2>2. /\ UNCHANGED <<batch, listed>>
        /\ \/ pc' = pc /\ failures' = failures
           \/ pc' \in {"counts", "done"}
           \/ /\ pc \in {"origin", "repository", "branch"}
              /\ pc' \in {"repository", "branch", "files"}
              /\ failures' \subseteq failures \cup {"origin", "branch"}
    BY <1>4, RepoTypes DEF Next, TypeOK, AskOrigin, AskRepository, AskBranch, RunStatus, AskCounts,
       OriginFails, RepositoryFails, BranchFails, PreflightFails, StatusFails, CountsFail,
       StatusIsMalformed, Reads, Finished, vars
  <2>3. QED
    BY <2>1, <2>2 DEF Preflight, FirstBatch, SeenOK, Unmoved, CheckedUpTo
<1>5. QED
  BY <1>1, <1>2, <1>3, <1>4
\* What was true of a state that has been seen stays so.
LEMMA FieldsKeep ==
    ASSUME seen \subseteq seen', failures \subseteq failures'
    PROVE  /\ NameWasTrue /\ report'.name = report.name => NameWasTrue'
           /\ BranchWasTrue /\ report'.branch = report.branch => BranchWasTrue'
           /\ FlagsWereTrue /\ report'.dirty = report.dirty
                   /\ report'.staged = report.staged => FlagsWereTrue'
<1>1. ASSUME FlagsWereTrue, report'.dirty = report.dirty, report'.staged = report.staged
      PROVE  FlagsWereTrue'
  <2>1. PICK r \in seen : \E lines \in SUBSET DOMAIN r.changes :
            /\ \/ lines = DOMAIN r.changes
               \/ failures \cap {"preflight", "filter", "status"} # {}
            /\ FlagsAreOf(r.changes, lines)
    BY <1>1 DEF FlagsWereTrue
  <2>2. PICK lines \in SUBSET DOMAIN r.changes :
            /\ \/ lines = DOMAIN r.changes
               \/ failures \cap {"preflight", "filter", "status"} # {}
            /\ FlagsAreOf(r.changes, lines)
    BY <2>1
  <2>3. FlagsAreOf(r.changes, lines)'
    BY <1>1, <2>2 DEF FlagsAreOf
  <2>4. \/ lines = DOMAIN r.changes
        \/ failures' \cap {"preflight", "filter", "status"} # {}
    BY <2>2
  <2>5. r \in seen'
    OBVIOUS
  <2>6. QED
    BY <2>3, <2>4, <2>5 DEF FlagsWereTrue
<1>2. QED
  BY <1>1 DEF NameWasTrue, BranchWasTrue

LEMMA FieldsStep == IInv /\ [Next]_vars => Fields'
<1> SUFFICES ASSUME IInv, [Next]_vars PROVE Fields'
  OBVIOUS
<1> USE DEF IInv, Goto, Degrade, Untouched
<1>0. report \in Reports /\ repo \in Repositories /\ repo \in seen
  BY DEF TypeOK, SeenOK
<1>1. CASE AskOrigin \/ OriginFails
  <2>1. NameWasTrue'
    <3>1. CASE AskOrigin
      BY <1>0, <3>1, RepoTypes DEF AskOrigin, NameWasTrue, Reports, Origins
    <3>2. CASE OriginFails
      BY <1>0, <3>2 DEF OriginFails, NameWasTrue, Reports
    <3>3. QED
      BY <1>1, <3>1, <3>2
  <2>2. QED
    BY <1>0, <1>1, <2>1 DEF AskOrigin, OriginFails, Fields, Answered, Reports
<1>2. CASE AskRepository \/ RepositoryFails
  <2>1. /\ seen' = seen /\ failures \subseteq failures' /\ report'.name = report.name
        /\ pc = "repository"
    BY <1>0, <1>2, RepoTypes DEF AskRepository, RepositoryFails, Reports
  <2>2. NameWasTrue'
    BY <2>1, FieldsKeep DEF Fields
  <2>3. QED
    BY <1>0, <1>2, <2>2, RepoTypes
       DEF AskRepository, RepositoryFails, Fields, Answered, Reports
<1>3. CASE AskBranch
  <2>1. BranchWasTrue'
    BY <1>0, <1>3 DEF AskBranch, BranchWasTrue, Reports
  <2>2. NameWasTrue'
    BY <1>0, <1>3, FieldsKeep DEF AskBranch, Fields, Reports
  <2>3. QED
    BY <1>0, <1>3, <2>1, <2>2 DEF AskBranch, Fields, Answered, Reports
<1>4. CASE BranchFails
  <2>1. NameWasTrue'
    BY <1>4, FieldsKeep DEF BranchFails, Fields
  <2>2. QED
    BY <1>4, <2>1 DEF BranchFails, Fields, Answered, BranchWasTrue
<1>5. CASE ListFiles
  BY <1>5, FieldsKeep DEF ListFiles, Fields, Answered
<1>6. CASE CheckAttributes \/ PreflightFails
  <2>1. /\ UNCHANGED <<repo, seen, report>> /\ failures \subseteq failures'
        /\ pc \in {"files", "attributes"} /\ pc' \in {"attributes", "status", "counts"}
        /\ pc' = "counts" => failures' \cap {"preflight", "filter"} # {}
    BY <1>6 DEF CheckAttributes, PreflightFails
  <2>2. NameWasTrue' /\ BranchWasTrue'
    BY <2>1, FieldsKeep DEF Fields
  <2>3. ASSUME pc' = "counts" PROVE FlagsWereTrue'
    <3>1. /\ repo \in seen' /\ ~report'.dirty /\ ~report'.staged
          /\ failures' \cap {"preflight", "filter", "status"} # {}
      BY <1>0, <2>1, <2>3 DEF Fields
    <3>2. FlagsAreOf(repo.changes, {})'
      BY <2>1, <3>1 DEF FlagsAreOf, Dirty, Staged
    <3>3. QED
      BY <2>1, <3>1, <3>2 DEF FlagsWereTrue
  <2>4. QED
    BY <2>1, <2>2, <2>3 DEF Fields, Answered
<1>7. CASE RunStatus \/ StatusIsMalformed
  <2>1. PICK lines \in SUBSET DOMAIN repo.changes :
            /\ Reads(lines) /\ pc = "status" /\ failures \subseteq failures'
            /\ lines = DOMAIN repo.changes \/ "status" \in failures'
    BY <1>7 DEF RunStatus, StatusIsMalformed
  <2>2. /\ UNCHANGED <<repo, seen>> /\ pc' = "counts"
        /\ report'.dirty = ReadsDirty(repo.changes, lines)
        /\ report'.staged = ReadsStaged(repo.changes, lines)
        /\ report'.name = report.name /\ report'.branch = report.branch
        /\ report'.behind = report.behind /\ report'.ahead = report.ahead
    BY <1>0, <2>1 DEF Reads, Reports
  <2>3. FlagsWereTrue'
    <3>1. repo.changes \in Changes
      BY <1>0, RepoTypes
    <3>2. FlagsAreOf(repo.changes, lines)'
      BY <2>2, <3>1, FlagsAreRead
    <3>3. QED
      BY <1>0, <2>1, <2>2, <3>2 DEF FlagsWereTrue
  <2>4. NameWasTrue' /\ BranchWasTrue'
    BY <2>1, <2>2, FieldsKeep DEF Fields
  <2>5. QED
    BY <2>1, <2>2, <2>3, <2>4 DEF Fields, Answered
<1>8. CASE StatusFails
  <2>1. /\ UNCHANGED <<repo, seen, report>> /\ failures' = failures \cup {"status"}
        /\ pc = "status" /\ pc' = "counts"
    BY <1>8 DEF StatusFails
  <2>2. NameWasTrue' /\ BranchWasTrue'
    BY <2>1, FieldsKeep DEF Fields
  <2>3. FlagsWereTrue'
    <3>1. FlagsAreOf(repo.changes, {})'
      BY <2>1 DEF FlagsAreOf, Dirty, Staged, Fields
    <3>2. QED
      BY <1>0, <2>1, <3>1 DEF FlagsWereTrue
  <2>4. QED
    BY <2>1, <2>2, <2>3 DEF Fields, Answered
<1>9. CASE AskCounts \/ CountsFail
  <2>1. /\ seen' = seen /\ failures \subseteq failures' /\ pc = "counts" /\ pc' = "done"
        /\ report'.branch = report.branch /\ report'.name = report.name
        /\ report'.dirty = report.dirty /\ report'.staged = report.staged
    BY <1>0, <1>9 DEF AskCounts, CountsFail, Reports
  <2>2. CountsWereTrue'
    <3>1. ASSUME AskCounts, repo.upstream # NoUpstream PROVE CountsWereTrue'
      <4>1. /\ report'.behind = repo.upstream[1] /\ report'.ahead = repo.upstream[2]
            /\ seen' = seen
        BY <1>0, <3>1 DEF AskCounts, Reports, NoUpstream
      <4>2. repo.upstream = <<repo.upstream[1], repo.upstream[2]>>
        BY <1>0, <3>1, RepoTypes, GitStatusAssumption
      <4>3. QED
        BY <1>0, <4>1, <4>2 DEF CountsWereTrue
    <3>2. ASSUME UNCHANGED report, "counts" \in failures' PROVE CountsWereTrue'
      BY <2>1, <3>2 DEF CountsWereTrue, Fields
    <3>3. (AskCounts /\ repo.upstream = NoUpstream) \/ CountsFail =>
              UNCHANGED report /\ "counts" \in failures'
      BY DEF AskCounts, CountsFail
    <3>4. QED
      BY <1>9, <3>1, <3>2, <3>3
  <2>3. NameWasTrue' /\ BranchWasTrue' /\ FlagsWereTrue'
    BY <2>1, FieldsKeep DEF Fields
  <2>4. QED
    BY <2>1, <2>2, <2>3 DEF Fields, Answered
<1>10. CASE Move
  <2>1. /\ seen \subseteq seen' /\ UNCHANGED <<pc, report, failures>> /\ pc # "done"
    BY <1>10 DEF Move
  <2>2. QED
    BY <2>1, FieldsKeep DEF Fields, Answered
<1>11. CASE UNCHANGED vars
  <2>1. CountsWereTrue => CountsWereTrue'
    BY <1>11 DEF vars, CountsWereTrue
  <2>2. QED
    BY <1>11, <2>1, FieldsKeep DEF vars, Fields, Answered
<1>12. QED
  BY <1>1, <1>2, <1>3, <1>4, <1>5, <1>6, <1>7, <1>8, <1>9, <1>10, <1>11
     DEF Next, Finished

\* The inductive invariant: types, what the preflight has found so far, and that each
\* field was true, is at its fallback, or is still to come.
THEOREM ProbesInvariant == Spec => []IInv
<1>1. IInv /\ [Next]_vars => IInv'
  BY TypeStep, PreflightStep, FieldsStep DEF IInv, Preflight
<1>2. QED
  BY <1>1, InitOK, PTL DEF Spec

\* Every variable keeps its type, and check-attr is never run on no path.
THEOREM ProbesTypeCorrect == Spec => []TypeOK
<1>1. IInv => TypeOK
  BY DEF IInv
<1>2. QED
  BY <1>1, ProbesInvariant, PTL

\* Whatever the user changes and whichever command fails, no field of a snapshot is
\* made up: each was true, or is at its fallback with a failure on record, but for the
\* unstaged change on the first line of a status that is taken for a staged one.
THEOREM FieldsWereTrue == Spec => []EveryFieldWasTrue
<1>1. IInv => EveryFieldWasTrue
  BY DEF IInv, Fields, Answered, EveryFieldWasTrue
<1>2. QED
  BY <1>1, ProbesInvariant, PTL

\* With batches of any size over lists of any length, git status runs only where the
\* whole list was found to select no filter: what it is run over selects one only
\* outside the project directory, which the list is not about.
THEOREM NoFilterIsRun == Spec => []StatusRunsOverNoFilter
<1>1. IInv => StatusRunsOverNoFilter
  <2> SUFFICES ASSUME IInv, pc = "status" PROVE StatusRunsOverNoFilter
    BY DEF StatusRunsOverNoFilter
  <2>1. failures \cap {"preflight", "filter"} = {}
    BY DEF IInv, Preflight
  <2>2. ASSUME Cardinality(seen) = 1 PROVE FilteredPlaces(repo) \subseteq {"elsewhere"}
    <3>1. CheckedUpTo(Len(repo.filters))
      BY <2>2, OneSeen DEF IInv, Preflight
    <3>2. \A i \in DOMAIN repo.filters : i <= Len(repo.filters)
      BY RepoTypes DEF IInv, TypeOK
    <3>3. ~\E i \in DOMAIN repo.filters : Selects(repo.filters[i])
      BY <3>1, <3>2 DEF CheckedUpTo
    <3>4. QED
      BY <3>3 DEF FilteredPlaces
  <2>3. QED
    BY <2>1, <2>2 DEF StatusRunsOverNoFilter
<1>2. QED
  BY <1>1, ProbesInvariant, PTL
=============================================================================

# dbar in TLA+

`dbar` prints one status line for tmux: project, branch, dirty and staged flags,
distance from the upstream, pull request and tmux context. It is a short-lived
process that tmux starts over and over, several at a time, so what is hard about
it is not in one run but between runs (a cache directory and a tmux config that
they share) and below a run (processes it spawns, pipes, process groups, files
that a kill leaves behind). These modules model that part. Paths below are
relative to the repository's crate root, `src/`.

## 1. Inventory

| Component | State | Operations | Talks to | Correct when |
| --- | --- | --- | --- | --- |
| command runner (`command/`) | one `ChildSession`: child, claim, `reaped`, two reader handles | `run`: spawn, start readers, wait with timeout, kill the group, reap, join; `Drop` | kernel; called by git, tmux | the capture is whole or an error says why; one kill, none at a stranger's group; nothing is left running; the call returns |
| PR cache store (`cache/mod.rs`, `port.rs`) | files of a directory other processes share, `flock` on `.dbar.lock` | `load`, `store` | called by the refresh policy | an entry is whole, of its own key, and no older than it says |
| retention (`cache/retention.rs`) | none of its own | `sweep_cache_dir`, bounded in names listed, files opened and files removed | the same directory | only what is dbar's and past its TTL goes, never a live writer's file; a backlog is cleared |
| refresh policy (`status/mod.rs`, `status/pr/`) | a report per call | `refresh_pr_cache`, `load_cached_pr`, `decide` | cache, GitHub client | a failed lookup never becomes a cached answer; the report names failures and only failures |
| cache key (`status/cache_key.rs`) | none | FNV-1a of length-framed fields | policy | distinct pairs do not collide by framing |
| installer (`install/`) | config, `.dbar.bak`, `.dbar.lock`, temp files | `install`: lock, read, splice, back up, write | user's editor, other installs | every install is one splice; the user's text survives; files are whole and keep their mode |
| git probes (`git/`) | one report | `project_name`, `git_status`: seven git commands | command runner, repository in use | each field was true once or its failure is on record; `git status` runs no filter below the project directory |
| tmux context (`tmux/`) | one context | `resolve_context` | command runner | supplied fields are kept; all of a query or nothing |
| renderer (`render/`) | none | `render_status_line` | status | fits the width; escapes tmux formats |
| configuration (`config/`) | none | merge of flags over environment over file, defaults afterwards | lib | precedence, setting by setting; nothing is done under a malformed setting |
| GitHub client (`github/`) | none | one `gh pr list --head=<branch>` through the command runner, or a mock | policy | an error is told apart from "no PR" |
| CLI (`lib.rs`, `main.rs`) | none | `run_status`, `run_refresh`, `run_install` | all | a closed stdout is no failure |
| clock label, value types | none | formatting | | |

What makes these hard to test:

- three threads race for the right to kill one process group, against a kernel
  that reaps and reuses pids by itself;
- a join waits for an end of file that processes dbar did not start can withhold;
- several processes read, replace, sweep and lock the same files and may be killed
  between any two calls, and a pid is used again;
- a repository changes under the probes of one snapshot;
- an answer is as old as its way into the cache, its age there and the clock's last
  jump together, and two commands with settings of their own judge it;
- numeric edges: a stream of exactly the limit, the last lock attempt, the last
  batch of paths, a sweep's last removal.

`PROJECT.json` lists each of these at its line, with the property that covers it,
or the reason why none does.

## 2. Modules

| Module | Models | EXTENDS / INSTANCE |
| --- | --- | --- |
| `SignalClaim` | the rules of `ClaimState` | |
| `KillRight` | abstract: what kills a call may issue | |
| `CommandRun` | one `RealCommandRunner::run` with its threads, processes and pipes | `SignalClaim`, implements `KillRight` |
| `CommandRunProofs` | theorems: the claim and its kills, how a call ends | `CommandRun`, TLAPS |
| `AnswerStore` | abstract: what the cache directory shows of a key over time | |
| `PrCache` | refresh and status processes on one cache directory | implements `AnswerStore` |
| `PrCacheProofs` | theorems | `PrCache`, TLAPS |
| `Backlog` | sweep after sweep over one directory | |
| `BacklogProofs` | theorem | `Backlog`, TLAPS |
| `ManagedBlock` | the splice of the managed block, as operators | |
| `Settings` | the merge of a command's layers and its defaults, as operators | |
| `CacheKey` | the byte stream and the path of a key, as operators | |
| `PrDisplay` | what status shows of a pull request as time goes by | `Settings`, `CacheKey` |
| `PrDisplayProofs` | theorems, the key's framing among them | `PrDisplay`, TLAPS |
| `InstallSequence` | one `dbar install` after another on one text, with its settings | `ManagedBlock`, `Settings` |
| `InstallSequenceProofs` | theorems | `InstallSequence`, TLAPS |
| `ConfigStore` | abstract: config and backup under installs | |
| `Install` | install processes and the user on one config | `ManagedBlock`, implements `ConfigStore` |
| `InstallProofs` | theorems | `Install`, TLAPS |
| `GitStatus` | one run of the git probes in a repository in use | |
| `GitStatusProofs` | theorems | `GitStatus`, TLAPS |
| `StatusLine` | the segments, the escape and the layout of a line, as operators | |
| `StatusReport` | one `dbar status`, from the probes to the line and its diagnostics, or one `dbar refresh` and its diagnostics | `StatusLine` |
| `StatusReportProofs` | theorems | `StatusReport`, TLAPS |

`MC*` modules give the constants their values and the symmetry for TLC. A
definition under the comment "Faulty variant" stands for a plausible mistake in
the definition behind it, and is used by nothing; put in that definition's place
it makes the run of the property that `PROJECT.json` names for it fail.

### CommandRun

The state is that of `ChildSession` (`reaped`, `claim`, `joined`), of each reader
thread (`reader`, `got`), of the session's own position (`pc`, `result`), and what
the kernel knows (`child`, `desc`, `open`, `wrote`, `recycled`). A step is one
thread's next visible act: a byte read, a mutex taken, a `kill`, a `wait`. The
claim's mutex is held from `TakeClaim` to `KillSucceeds` or `KillFails`, as
`SignalClaim::signal` holds it across `kill(2)`. `WaitReaps` and `MarkReaped` are
two steps because `wait_timeout` and `mark_reaped` are. Descendants may fork,
write, close, exit and, with `MayEscape`, leave the group. `Recycle` gives the pid
to a stranger once neither the child nor a member of its group holds it. Bytes are
counted and carry no content.

### PrCache

A process is a `dbar status` (reads its key) or a `dbar refresh` (sweeps, reads its
key, asks GitHub, stores). Each call on the directory is a step; the judgement of
an entry (`SweepInspects`) and its removal (`SweepRemoves`) are two, as are the
read of an entry and the reading of the clock (`Load`, `Judge`). A kill (`Crash`)
drops the process's lock and leaves its files; a later process with the same pid
mints the same temp names. An answer is one of `github`, `branch` or none, which
is what `decide` tells apart; `answers` records what was ever obtained for a key.
`CallsLeft` counts the calls a process may still make, from its position and from what
its sweep and its temp names have used up of their limits.
Keys are distinct here; `CacheKey` and `PrDisplay` have what makes them so.

### Backlog

A directory is the sequence of its files' kinds in listing order, a sweep is one
step, and `Inspected` is the set of files that `sweep_expired_entries` opens under
its three limits. A file that does not parse as an entry or is too large is `garbled`
and passed over; one that cannot be opened, read, decoded, dated or removed is `broken`
and ends the sweep, which is a `?` in the code, so a sweep sees no more than what is
listed `Ahead` of the first such file. `Room(n)` says when the files a sweep passes over
leave its limits room for `n` expired ones; `SweepsKeepPace` has every sweep reclaim as
many of those ahead as it has room for, in any order of listing, and nothing else.
`Obstructed` names what keeps a backlog for good: a broken file, or enough that stay.

### Settings, CacheKey, PrDisplay

`Settings` has a layer as a function on the names it says something about, so the
merge is one layer over another (`Over`). `CacheKey` has the frames that `absorb_field` feeds
to the digest, `length:field`; the digest itself is a parameter, taken to tell the
streams at hand apart.

`PrDisplay` is the cache over time, which `PrCache` with its two clock values is too
detailed to show. A refresh is two steps, up to the answer (`RefreshAsks`) and the
`Store`, so that answers of concurrent refreshes may be stored in any order, late or
never. Each command has its own settings and its own reading of where the project and
the cache are. An entry has the `age` its stamp gives it, which `SetClock` moves back
and forth, and `taken`, the real time since GitHub gave the answer, which the code
cannot know. Around them checkouts and GitHub's answers change. `ShownUntilExpired` is
an action property, over all that goes on: it lists what may take a shown entry from a
status, and a sweep for another project, a late answer or a failed lookup is not on the
list.

### ManagedBlock, InstallSequence, Install

A config is a sequence of tokens: the two markers, line breaks, the user's text and
the body of a snippet. `Apply` is `apply_snippet` with its refusals. `Install` has
the whole transaction: the polled lock with `LOCK_ATTEMPTS`, the read, the backup
and the config each through a temp file that is created, given the config's mode,
filled and renamed, with failures and kills in between. A dry run takes no lock and
stops after the splice. `InstallSequence` derives the request and whether it is a dry
run from the flags, the environment and the file. `UserEdits` is the user, who takes no lock:
while no install holds it they may write the config, create or remove it and change
its mode; with `EditsInside` they may also write it in place between an install's steps.
`TextIsNeverExposed` is an action property of every file beside the config, those that a
killed install left included: text only goes into one that has the config's mode.

### GitStatus

A step is one git command answered from the repository as it then stands; the user
(`Move`) may change it between any two. The filter preflight runs in batches over the
paths that `git ls-files` lists, which are those below the project directory (`filters`);
`git status` covers the whole repository, and `elsewhere` says whether a filter is
selected in the rest of it. A porcelain line is its two letters; `StatusChars` applies the
trim of `CommandOutput::from_bytes`, and a line that cannot be read
(`StatusIsMalformed`) leaves the flags of the others and a failure on record. Names of
paths and branches are not interpreted.

`EveryFieldWasTrue` has each field by itself: the name, the branch, either flag and the
counts. One misreading is excepted in so many words (`FlagsAreOf`): an unstaged change
on the first line is taken for a staged one, which `git_flags` shows (section 4). No flag is excepted
beyond that, so a status that reads a column wrong on any other line is caught.

### StatusLine, StatusReport

`StatusReport` is the composition the user sees: git, then the cache, then tmux, then
the line, then what is mirrored to stderr, with a branch checked out or a client that
moves or goes away in between. With the command `refresh` it ends after the cache and
describes what went wrong there, the outermost cause and all below it. It takes the git commands in one step (`GitStatus` has
them one by one) and has each tmux query as its own. `faults` is a history of what
went wrong, kept apart from the four places the code keeps it in. `StatusLine` has
the renderer's operators over texts of characters, of which it tells apart what tmux
or a column count does: `#`, the two brackets, the brace and the parenthesis that open a
format and a command, a wide and an empty one.
Both readers of a line are scanners, a record carried from character to character:
`Scanned` is `visible_width`, and `Drawn` is tmux's side of the contract, what it makes
of a line. The texts a line is made of are sequences of strings of one character each,
whatever characters; that is all that is assumed of them.

## 3. What is checked

| Run | Instance | Shows |
| --- | --- | --- |
| `command_run` | one descendant that may leave the group, limit 1, streams of up to three and two bytes, every failure, fair threads | `TypeOK`, `CaptureIsComplete`, `OverrunIsReported`, `NothingLeftBehind`, `OnlyOthersKeepItWaiting`, `ImplementsKillRight`, `RunReturns` (if the timer fires), `OverrunReturns` (without it) |
| `cache_safety` | two pids, three runs, a kill, every failure, no directory yet or one with a file that is not an entry | `TypeOK`, `LiveTempSurvives`, `ImplementsAnswerStore`, `OnlyLeftoversSpoilALookup`, `CallsAreBounded` |
| `cache_ends` | two keys, fair processes, every failure, a kill | `EveryProcessEnds` |
| `backlog_roomy` | up to four files and two stores, limits 4, 3, 2 | `SweepsKeepPace`, `RoomyBacklogClears` |
| `pr_display` | two directories whose fields run together unframed, four pairs of settings, two answers on their way, a clock that is set back | `TypeOK`, `ShownWasAnswered`, `ShownUntilExpired`, `SettledAnswerIsShown` |
| `install_sequence` | every text of up to five tokens, and blocks with text around them; six stacks of layers, six sets of flags | `ReinstallIsNoOp`, `OnlyTheLastRequestCounts`, `SurroundingsKept`, `DuplicatesAreRefused`, `CommandLineCannotUnprotect` |
| `install_safety` | two pids, three runs, a kill, every failure, an edit, removal or change of mode outside the lock | `TypeOK`, `HolderIsAtWork`, `TextIsNeverExposed`, `ImplementsConfigStore` |
| `git_status` | five attribute lists, five change lists, any command failing, one change | `TypeOK`, `EveryFieldWasTrue`, `StatusRunsOverNoFilter` |
| `status_report` | names, branches, numbers and sessions with markup in them, three widths, any probe or write failing, one change outside; a status or a refresh | `TypeOK`, `PrIsOfTheBranchShown`, `NothingOfALostClient`, `EveryFaultIsMirrored`, `DrawnAsGiven` |

The bounds, and why they are enough:

- *Command.* Threads and the child are as many as in the code. One byte of limit
  and up to three bytes written give a stream below, at and above the limit, with a
  writer blocked on a pipe of one byte whose reader has gone. The descendant is at times a member of the
  group, at times an escapee with a pipe of its own, at times alone after the child.
- *Cache.* Two pids over three runs give two live processes and a pid used a second
  time; two attempts for a temp name give a retry and a last one, and with three runs
  a write may find both names taken by what killed and failed ones left; a clock of two
  values gives an entry that is fresh and one that is past a TTL of 0; limits of 2,
  2 and 1 stop a sweep by each of its bounds. `cache_ends` has a second key, with
  limits that let a sweep see both.
- *Display.* TTLs of 0 and 1 with ages up to `Horizon` (3) give an entry that is
  fresh for one command and expired for the other, at its TTL and past it. `MaxLag`,
  `MaxBack` of a second each are enough to make the shown answer older than its TTL;
  `MaxAnswers` of two lets the older of two answers be stored last, over the same
  path or another. `<<"a">>, <<"b","c">>` and `<<"a","b">>, <<"c">>` are the same
  bytes but for their frames. The settings have a TTL, a project and a cache
  directory in different layers, a mock client, and a malformed TTL that is
  overridden and one that is not.
- *Install.* Two lock attempts give a retry and a last one; the four texts are an
  empty config, one without a block, one with a stale block in the middle and one
  with half a block; two modes tell the config's from the umask's.
- *Git.* Batches of two over lists of none, two and three paths: an empty list, one
  that fills its batches and one that leaves the last short.
- *Status.* The texts have a character of each kind, with a `#` before a bracket, a
  `{` after the renderer's own `#`, and one before a brace and a parenthesis in a session. The widths are none,
  28 columns, which some lines reach exactly, pass by one or two or exceed, and 60,
  which no line reaches. A caller supplies all tmux fields, two or none.
- *Backlog.* The limits differ, and with two stores a directory has up to six files,
  more than any limit; with room for none, one and two expired files.

Deadlock is checked in every run; a system that has nothing left to do stutters by
`Finished`.

### Fairness

`CommandRun`: weak fairness of the session's own steps and of each reader's, since
threads that can run are run. `RunReturns` is conditional on `WF(WaitTimesOut)`,
which `wait_timeout` gives by returning at its deadline; `OverrunReturns` does
without. Nothing makes the child, a descendant or the kernel's
pid reuse act, and no failure is ever forced. `PrCache`: weak fairness of each
process's working steps. Weak fairness is enough for the lock although `flock`
gives no order, because the number of runs is finite. `Backlog`: sweeps go on
(each refresh runs one) and time passes. `PrDisplay`: time passes (`WF(Tick)`), and
`SettledAnswerIsShown` is conditional on refreshes of the pair that go on storing
its answer, which the user's key binding or timer decides; that condition is part of
the property.

## 4. Findings

Runs that TLC must find violated, because the code does not do what the repository
says of it. Each is quoted at its line in `PROJECT.json`.

1. `git_flags` (a bug): a repository whose first porcelain line is an unstaged
   change, ` M file`, is shown as staged and not dirty. `CommandOutput::from_bytes`
   trims the output that `parse_porcelain` reads by column; the tests' double does
   not trim.
2. `command_recycle`: between the kernel's reap in `wait_timeout` and its record, a
   reader that overran may still win the claim and send its kill to a pid that is
   no longer the child's.
3. `cache_first`: the first refresh ever, before the directory exists, reports a
   failed retention sweep.

More disagreements were met while modelling. The models have the code's
behaviour in each case and no run is spent on them:

- in a directory outside any repository the outcome is `Unavailable` and not
  `NotARepository`, because git's answer is an exit status (`docs/developers-guide.md:33-34`
  has the two told apart; `RepositoryFails` of `GitStatus`);
- tmux is asked four times and a client that moves in between mixes two of them
  (`tmux/mod.rs:19-21` has all four answers from the same client;
  `NothingOfALostClient` asks only that each was some client's);
- after a timeout, a descendant that left the group holds a pipe and the joins wait
  for its lifetime (`command/mod.rs:300-303` says they finish promptly;
  `OnlyOthersKeepItWaiting` shows that nothing else can hold them up);
- a refresh sweeps before it knows whether it will hit (`cache/retention.rs:123-125`);
- one file that is dbar's by name and cannot be opened, read, decoded or removed ends
  every sweep at its place in the listing, and files that do not parse, or foreign ones,
  at the head of the listing use up every sweep's limits: what is expired behind
  either is never reclaimed (`cache/retention.rs:127-128` says a backlog is cleared over
  successive runs; `RoomyBacklogClears` states the condition under which it is,
  `SweepsKeepPace` what one sweep does towards it);
- a comment in `remove_if_expired` (`cache/retention.rs:290-293`) says that a sweep may
  "at worst discard a just-written entry" between its read and its removal. It may
  not: `sweep_cache_dir` (line 111) and `store_cached_value` (`cache/mod.rs:262`) hold the
  same lock, so no dbar process writes in that window. `ImplementsAnswerStore` allows no
  removal of an entry that has been refreshed, and holds; with the
  lock of the store left out it fails. The comment is older than the lock or means writers other than dbar;
- in a project directory below the root of a repository `git ls-files` lists only what
  is below that directory (`git/probes.rs:259`, with the working directory of line 99),
  and `git status` (line 232) refreshes the whole repository: a filter selected elsewhere
  in it is run, where lines 250-251 say that "every tracked path" is queried
  (`StatusRunsOverNoFilter` speaks of the paths below);
- a status omits an entry that is expired for it, and `docs/users-guide.md:173-175`
  then says to run `dbar refresh`; where the refresh has a longer TTL it finds the
  same entry fresh and does nothing;
- the key has the project directory as it was given, so what a refresh stores at the
  root of a repository is not seen by a status in a directory below it;
- a refresh sweeps the entries of all projects by its own TTL, the shorter one's too
  (`SettledAnswerIsShown` holds in spite of it, because the answer is stored again, and
  `ShownUntilExpired` excepts it);
- an install over an emptied config writes no backup, and `.dbar.bak` then is not
  what that install replaced (`install/fs/mod.rs:38-39`; `ConfigStore` allows a
  splice of an empty config whatever the backup holds).

## 5. What is proved

For every value of the constants that the modules' assumptions allow, by TLAPS:

| Theorem | States | Rests on |
| --- | --- | --- |
| `TypeCorrect` | `Spec => []TypeOK` of `CommandRun` | step lemmas by thread |
| `KillRightRefinement` | `Spec => ImplementsKillRight` | `ClaimInvariant` |
| `CapturesAreComplete` | `Spec => []CaptureIsComplete` | `EndInvariant` |
| `OverrunsAreReported` | `Spec => []OverrunIsReported` | `EndInvariant` |
| `NothingIsLeftBehind` | `Spec => []NothingLeftBehind` | `EndInvariant` |
| `OnlyOthersKeepItWaitingEver` | `Spec => []OnlyOthersKeepItWaiting` | `EndInvariant`, `Unreaped`, `Started` |
| `StepsRunOut` | `Spec => [][OneStepLess]_vars` of `CommandRun` | `EndInvariant` |
| `CacheTypeCorrect` | `Spec => []TypeOK` of `PrCache` | `CacheInvariant` |
| `LiveTempsSurvive` | `Spec => []LiveTempSurvives` | `CacheInvariant` |
| `AnswerStoreRefinement` | `Spec => ImplementsAnswerStore` | `CacheInvariant` |
| `EveryCallIsOneLess` | `Spec => CallsAreBounded`, an action property | `CacheInvariant`, `Budget` |
| `LeftoversAloneSpoilLookups` | `Spec => OnlyLeftoversSpoilALookup`, an action property | `CacheInvariant`, `Counted`, `NamesRunOut` |
| `EverySweepKeepsPace` | `Spec => []SweepsKeepPace` of `Backlog` | `WithoutKeeps`, `AheadOf`, `FirstAreReclaimed` |
| `FramingSeparates` | two pairs with the same absorbed bytes are one pair, for every alphabet and every length (`CacheKey`) | `ConcatCancels`, `FramesSplit` |
| `TypeCorrect` | `Spec => []TypeOK` of `PrDisplay` | `Inductive` |
| `ShownWasAnsweredAlways` | `Spec => []ShownWasAnswered` of `PrDisplay` | `Inductive`, `FramingSeparates` |
| `ShownUntilExpiredAlways` | `Spec => ShownUntilExpired`, an action property | `Inductive`, `RefreshTakesExpired`, `StoreShowsOn`, `CheckoutElsewhere` |
| `ReinstallsAreNoOps` | `Spec => []ReinstallIsNoOp` of `InstallSequence` | `SequenceInvariant`, `FramedApplies` |
| `LastRequestDecides` | `Spec => []OnlyTheLastRequestCounts` | `SequenceInvariant`, `SplicedLeaves` |
| `SurroundingsAreKept` | `Spec => []SurroundingsKept` | `SequenceInvariant`, `FramedApplies` |
| `DuplicatesStayRefused` | `Spec => []DuplicatesAreRefused` | `SequenceInvariant`, `FramedMarkers` |
| `ProtectedConfigsStay` | `Spec => []CommandLineCannotUnprotect` | `HeldBackIsDryRun` |
| `InstallTypeCorrect` | `Spec => []TypeOK` of `Install` | `InstallInvariant` |
| `HoldersAreAtWork` | `Spec => []HolderIsAtWork` | `InstallInvariant` |
| `TextsAreNeverExposed` | `Spec => TextIsNeverExposed`, an action property | `InstallInvariant`, `WritesExposeNothing` |
| `ConfigStoreRefinement` | the user keeps away from a locked config: `Spec => ImplementsConfigStore` | `InstallInvariant` |
| `ProbesTypeCorrect` | `Spec => []TypeOK` of `GitStatus` | `ProbesInvariant` |
| `FieldsWereTrue` | `Spec => []EveryFieldWasTrue` | `ProbesInvariant`, `TrimShifts` |
| `NoFilterIsRun` | `Spec => []StatusRunsOverNoFilter` | `ProbesInvariant` |
| `ReportTypeCorrect` | `Spec => []TypeOK` of `StatusReport` | `ReportInvariant` |
| `PrBelongsToItsBranch` | `Spec => []PrIsOfTheBranchShown` | `ReportInvariant` |
| `LostClientsLeaveNothing` | `Spec => []NothingOfALostClient` | `ReportInvariant` |
| `FaultsAreMirrored` | `Spec => []EveryFaultIsMirrored` | `ReportInvariant`, `DescribesAll` |
| `LinesAreDrawnAsGiven` | `Spec => []DrawnAsGiven` | `LayoutIsDrawn`, `Written` |

The inductive invariants, each named `IInv` in its module:

- *Command.* `ClaimInv` ties the claim's state to the kills that have landed and to
  whether the reap is on record: without it nothing rules out that a claim handed
  back by a failed kill is spent twice. `KillRight` is then matched step by step:
  a kill that lands appends to `landed`, every other step stutters.
- *Command, its end.* `EndInv` adds what a reader's state says of its stream
  (`WholeOrCut`: bytes are all that was written and within the limit, an overrun is
  more than that), what the session's position says of the reap, the release and the joins
  (`Reaps`, `Releases`, `Joins`), and what a verdict was passed on (`Verdicts`).
  `Releases` is the part without which `NothingLeftBehind` is not kept: a claim that
  is spent means that a kill landed, and a kill that landed leaves no member alive
  and none that could fork.
- *Command, that it ends.* Two theorems are `RunReturns` without its fairness.
  `OnlyOthersKeepItWaiting` spells out for each thread when it finds what its next step
  needs (`SessionCanGoOn`, `ReaderCanGoOn`) and says that where none does, the call waits
  for a child with time left or for a process no kill reached. It needs of a child that
  is not recorded as reaped that the kernel still has it, at every position that waits
  for it (`Unreaped`); a thread that holds the claim's lock can always let go of it
  (`LockIsServed`). `StepsRunOut` is a count of the steps each thread has left.
- *Cache.* `Safe(p)` says of a process at each position what it holds: the lock, a
  temp file of its own with what it wrote, a victim of its sweep that is still what
  it judged, a value obtained for its key. Its parts are kept by a process's own steps
  (`ActorStaysSafe`) and by all the others' (`UntouchedStaysSafe`, because they
  hold no lock or touch other names). `EntriesWhole` keeps half-written files away
  from the names readers look at. `Counted` counts: the temp files there are, and the
  processes that may still create one, are together no more than the processes
  started; a writer that has tried a name found it taken (`Tried`), so one that has
  tried them all (`NamesRunOut`) comes after a run for each, and a report that says no
  more than this is excused (`EveryReportIsExcused`).
- *Cache, its end.* `Budget` is what `CallsAreBounded` needs beyond `IInv`: no sweep has
  spent more than its limits, one that is about to remove may remove once more, and the
  lock's holder is inside the passage it took it for, which no way out leaves without
  giving it back. Each step then lowers `CallsLeft` of the process that takes it
  (`ActorComesCloser`) and of no other. This is `EveryProcessEnds` without its fairness.
- *Backlog.* Nothing is needed of a state but that its listing is a sequence of kinds.
  The work is in counting: `Before(i, S)` numbers the members of a finite set `S` of
  places from 0 up, one for one (`RankingIsBijection`), so the sequence `Without` makes
  keeps every file it should (`WithoutKeeps`) and as many files as there is room for
  have a rank below all three limits (`FirstAreReclaimed`). Up to the first file a sweep
  fails at, the files ahead are the files there are (`AheadOf`).
- *Display.* `EntryOK` says of an entry that it sits at the path of the pair it is of
  and that `taken <= age + back + MaxLag`, up to the horizon: neither `age` nor `back`
  alone bounds how old an answer is. `FramingSeparates` is what makes the entry a
  status reads one of its own pair; that the digest tells the streams apart is
  assumed, of the pairs at hand and no others. `ShownUntilExpiredAlways` goes through
  what may happen to a shown entry: a sweep takes only what its own TTL is past
  (`RefreshTakesExpired`), a store over it is fresh again (`StoreShowsOn`), and a checkout
  in another directory leaves its path alone (`CheckoutElsewhere`).
- *Installs in a row.* From the first install that is not refused, the config is
  `Framed`: text without a marker, the block last asked for, text without a marker,
  and the two texts are where the user's original is spliced (`Around`). That needs
  three facts on `Apply` for texts of any length: a framed block is found again where it
  is (`FramedApplies`), a text without a block is closed and gets one (`PlainApplies`),
  and a block somebody else may have written is cut out with at most one line break
  behind it (`MarkedApplies`); every other text is refused whatever is asked for
  (`SplicedOrRefused`). Assumed: a block's body is no marker, line break or text of the
  user's, and a setting that loads has its declared type.
  That the command line cannot lift a dry run is a fact on the merge
  (`HeldBackIsDryRun`): a layer above can only say "dry run" or nothing, so what is below
  stays, or is malformed and nothing is installed.
- *Install.* `WorkInv(p)` is the same idea: who is past the lock holds it
  (`Locks`); what it is about to write is `Apply` of what it read (`Plans`); the
  temp file holds so much of it, in the right mode (`Fills`); while nobody edits inside the lock, the
  config is still what was read and, once it is the config's turn, the backup holds it
  (`Serial`). `TextsAreNeverExposed` has a step that writes text find the mode already
  copied (`Fills`): an install that holds the lock has seen the config's mode, which
  nobody changes until it lets go.
- *Git.* `Preflight` says that the batches so far had no filter in them, as long as
  nobody has changed the repository; at the end of the last batch these are all the
  paths below the project directory. `TrimShifts` says what the trim does to the first line and
  to no other. `Fields` has, for each probe that is over, that its field was true of some
  state seen or stands at its fallback with a failure on record.
- *Report.* `Pending` says what a probe that is still to come has left alone,
  `Answered` that an answer of tmux is for a field nobody supplied and was some
  client's, `Blamed` that each failure noted has been kept by its probe. That
  `describe_failures` loses none is `DescribesAll`.
- *Line.* `Written` says that the line on its way out is the layout of the two parts
  as they are now, for a client of one of the widths. For texts of any length
  this takes an induction, which is had from the well-foundedness of the finite sets of
  numbers and speaks of a set of numbers instead of a predicate (`LeastExists`,
  `Induction`). On it rest the joining of texts (`Flattened`) and one theory of scanners
  for the two there are, as functions that are read along a text: what such a machine
  comes to after two texts is what it comes to on the second from where the first
  left it (`EndOfTwo`). `DrawnAs(t, p)` says of an emitted text `t` that from plain text
  tmux draws `p` and is in plain text again, and `visible_width` has counted the columns
  of `p`. It holds of a tag (drawing nothing), of a value and its escape, of the
  renderer's own glyphs, and is kept by concatenation (`OneAfterTheOther`), hence of
  parts (`PiecesAreDrawn`) and of the layout of two (`LayoutIsDrawn`).

Every invariant that a run checks is stated by a theorem, and so are the refinements and
`CallsAreBounded`; `OneStepLess` is stated by a theorem and no run. Only model-checked: the liveness properties (`RunReturns`,
`OverrunReturns`, `EveryProcessEnds`, `RoomyBacklogClears`, `SettledAnswerIsShown`),
since fairness and `ENABLED` are beyond the prover; `OnlyOthersKeepItWaiting`,
`OneStepLess`, `CallsAreBounded` and `SweepsKeepPace` are the part of three of them that
is not. `ImplementsConfigStore` is
proved where the user keeps away from a locked config; the other theorems about
`Install` hold with edits inside the lock too. `OnlyLeftoversSpoilALookup` is what is left of
"an entirely healthy lookup describes nothing", which `cache_first` refutes: it names the
two cases in which one does, a directory that is missing and names that have run out.

## 6. What is not modelled, and why

- `github/`: the argument list of `gh` and what the errors say; the run itself is
  `CommandRun`, its outcomes are in `PrCache`, `PrDisplay` and `StatusReport`.
- `config/`: where files are looked for, clap's parsing and the library that merges;
  `Settings` has what they come to.
- `status/clock.rs`, `types.rs`: formatting; whether a clock is shown and renderable is
  a choice of `StatusReport`. Colours and the choice among glyphs.
- `lib.rs`: the text that `report_install_outcome` prints.
- The digest of `cache_key.rs`; the contents of the snippet;
  git's hardening flags; power loss (the code leaves the rename's durability to the
  file system).

## 7. Plan

Done, in this order: `CommandRun` with its proofs; `PrCache` with its proofs;
`ManagedBlock`, `InstallSequence`, `Install` with its proofs; `Backlog`;
`GitStatus`; `StatusLine` and `StatusReport`; `Settings`, `CacheKey` and `PrDisplay`
with their proofs; refreshes in `StatusReport`, settings in `InstallSequence`; the
proofs of `InstallSequence`, of how a call of `CommandRun` ends, of `GitStatus`, of
`StatusReport`, and of what a lookup of `PrCache` may report;
and, last, `OnlyOthersKeepItWaiting`, `SweepsKeepPace`, `CallsAreBounded`,
`CommandLineCannotUnprotect`, `ShownUntilExpired` and `DrawnAsGiven` with their theorems.

Next:

1. That a refresh of `PrDisplay` is what the steps of one in `PrCache` come to.
2. `OnlyOthersKeepItWaiting`'s counterpart for installs: that a process which does not
   go on waits for a lock whose holder does, and gives up after `LOCK_ATTEMPTS`.

------------------------------ MODULE PrCache ------------------------------
(***************************************************************************)
(* Several `dbar refresh` and `dbar status` processes on one PR cache      *)
(* directory: the refresh policy (src/status/mod.rs, src/status/pr/mod.rs) *)
(* over the file store (src/cache/mod.rs) and its bounded sweep            *)
(* (src/cache/retention.rs).                                               *)
(*                                                                         *)
(* A step is one call on the directory, one reading of the clock or one    *)
(* GitHub lookup; the flock on `.dbar.lock` is the only thing that orders  *)
(* the steps of two processes.  A process may die between any two steps.   *)
(***************************************************************************)
EXTENDS Naturals, FiniteSets

CONSTANTS
    Procs,           \* pids; a pid is used again after its process has ended
    Keys,            \* (project directory, branch) pairs
    NumberedKeys,    \* those whose branch is named after a PR, as pr/7 is
    Ttls,            \* the TTLs in seconds a process may be configured with
    ListLimit,       \* SWEEP_LIST_LIMIT
    InspectLimit,    \* SWEEP_INSPECT_LIMIT
    RemovalLimit,    \* SWEEP_REMOVAL_LIMIT
    Attempts,        \* TEMP_NAME_ATTEMPTS
    MaxClock,        \* bound: seconds that pass
    MaxRuns,         \* bound: processes started
    MaxCrashes,      \* bound: processes killed
    DirsAtStart,     \* whether the cache directory exists before the first refresh
    JunkAtStart,     \* an unreadable file may sit at a key from the start
    MayFail          \* a call on the directory or the clock may fail

ASSUME PrCacheAssumption ==
    /\ NumberedKeys \subseteq Keys /\ Ttls \subseteq Nat
    /\ {ListLimit, InspectLimit, RemovalLimit} \subseteq Nat
    /\ Attempts \in Nat \ {0}
    /\ {MaxClock, MaxRuns, MaxCrashes} \subseteq Nat
    /\ DirsAtStart \subseteq BOOLEAN /\ {JunkAtStart, MayFail} \subseteq BOOLEAN
    /\ "nobody" \notin Procs

NoOne == "nobody"

\* The answers: the PR GitHub knows, the number in the branch's name, no PR.
Values == {"github", "branch", ""}

\* A completed entry of each key, and the temp files a process may mint for it.
Entry(k)     == [key |-> k, writer |-> NoOne, counter |-> 0]
Temp(k, p, n) == [key |-> k, writer |-> p, counter |-> n]
EntryNames   == {Entry(k) : k \in Keys}
TempNames    == [key : Keys, writer : Procs, counter : 0..Attempts - 1]
Names        == EntryNames \cup TempNames

\* `stamp` is the updated_at recorded in an entry, `mtime` the file's own.
Files  == [body : {"none", "junk", "partial", "entry"}, value : Values,
           stamp : Nat, mtime : Nat]
NoFile == [body |-> "none", value |-> "", stamp |-> 0, mtime |-> 0]
Junk   == [NoFile EXCEPT !.body = "junk"]

Positions == {"idle", "sweepOpen", "sweepLock", "sweeping", "sweepRemove", "load",
              "judge", "lookup", "mkdir", "storeLock", "create", "fill", "rename"}
Storing   == {"create", "fill", "rename"}          \* under store_cached_value's lock
Sweeping  == {"sweeping", "sweepRemove"}           \* under sweep_cache_dir's lock

\* `cached`: resolve_dir answered Ok.
Requests == [mode : {"status", "refresh"}, key : Keys, ttl : Ttls, cached : BOOLEAN]
Sweeps   == [now : Nat, listed : SUBSET Names, inspected : Nat, removed : Nat,
             victims : SUBSET Names]
Writes   == [value : Values, stamp : Nat, attempt : 1..Attempts]
NoRequest == [mode |-> "none", key |-> "none", ttl |-> 0, cached |-> FALSE]
NoSweep  == [now |-> 0, listed |-> {}, inspected |-> 0, removed |-> 0, victims |-> {}]
NoWrite  == [value |-> "", stamp |-> 0, attempt |-> 1]

\* PrLookupReport: CacheOutcome, whether a RetentionSweepFailed wraps it, the
\* PrResolution and the CacheWriteOutcome.  The other flag is history: a
\* call failed on behalf of this report.
Flags    == {"sweepFailed", "trouble"}
Reports  == [cache : {"none", "hit", "miss", "readFailed", "dirUnavailable"},
             resolution : {"none", "fromCache", "github", "branchFallback", "noPr",
                           "lookupFailed"},
             write : {"none", "skipped", "stored", "failed"},
             flags : SUBSET Flags]
NoReport == [cache |-> "none", resolution |-> "none", write |-> "none", flags |-> {}]

VARIABLES
    clock,     \* wall-clock seconds
    dir,       \* the cache directory exists
    file,      \* its files
    lock,      \* the process that holds the flock
    pc, request, sweep, seen, write, report,    \* each process
    answers,   \* history: the values obtained for each key
    runs, crashes

diskVars  == <<clock, dir, file, lock>>
localVars == <<request, sweep, seen, write, report>>
countVars == <<runs, crashes>>
vars == <<diskVars, pc, localVars, answers, countVars>>

TypeOK ==
    /\ clock \in 0..MaxClock /\ dir \in BOOLEAN
    /\ file \in [Names -> Files]
    /\ lock \in Procs \cup {NoOne}
    /\ pc \in [Procs -> Positions]
    /\ request \in [Procs -> Requests \cup {NoRequest}]
    /\ sweep \in [Procs -> Sweeps]
    /\ seen \in [Procs -> Files]
    /\ write \in [Procs -> Writes]
    /\ report \in [Procs -> Reports]
    /\ answers \in [Keys -> SUBSET Values]
    /\ runs \in 0..MaxRuns /\ crashes \in 0..MaxCrashes

Init ==
    /\ clock = 0 /\ dir \in DirsAtStart /\ lock = NoOne
    /\ \E junk \in SUBSET (IF JunkAtStart /\ dir THEN EntryNames ELSE {}) :
           file = [n \in Names |-> IF n \in junk THEN Junk ELSE NoFile]
    /\ pc = [p \in Procs |-> "idle"]
    /\ request = [p \in Procs |-> NoRequest]
    /\ sweep = [p \in Procs |-> NoSweep]
    /\ seen = [p \in Procs |-> NoFile]
    /\ write = [p \in Procs |-> NoWrite]
    /\ report = [p \in Procs |-> NoReport]
    /\ answers = [k \in Keys |-> {}]
    /\ runs = 0 /\ crashes = 0
-----------------------------------------------------------------------------
(* Helpers.                                                                *)

Goto(p, position)   == pc' = [pc EXCEPT ![p] = position]
Note(p, r)          == report' = [report EXCEPT ![p] = r]
Key(p)              == request[p].key
OwnTemp(p)          == Temp(Key(p), p, write[p].attempt - 1)
Unlocked(p)         == IF lock = p THEN NoOne ELSE lock
Present             == {n \in Names : file[n].body # "none"}

\* now.saturating_sub(at) > ttl
Stale(now, at, ttl) == at + ttl < now

\* The process exits: its locals go, its lock with them; its report is made.
Exit(p, r) ==
    /\ Goto(p, "idle") /\ Note(p, r)
    /\ lock' = Unlocked(p)
    /\ request' = [request EXCEPT ![p] = NoRequest]
    /\ sweep' = [sweep EXCEPT ![p] = NoSweep]
    /\ seen' = [seen EXCEPT ![p] = NoFile]
    /\ write' = [write EXCEPT ![p] = NoWrite]

\* `dbar refresh` goes through resolve_pr_number, `dbar status` through load_cached_pr.
Start(p) ==
    /\ pc[p] = "idle" /\ runs < MaxRuns
    /\ \E r \in Requests :
          /\ ~r.cached => MayFail /\ r.mode = "refresh"
          /\ request' = [request EXCEPT ![p] = r]
          /\ Goto(p, IF r.mode = "status" THEN "load"
                     ELSE IF r.cached THEN "sweepOpen" ELSE "lookup")
          /\ Note(p, IF r.cached THEN NoReport
                     ELSE [NoReport EXCEPT !.cache = "dirUnavailable", !.flags = {"trouble"}])
    /\ runs' = runs + 1
    /\ UNCHANGED <<diskVars, sweep, seen, write, answers, crashes>>
-----------------------------------------------------------------------------
(* sweep_cache_dir, run by every refresh before it looks at its own key.   *)

\* Faulty variant: the lock outlives the sweep.
SweepDoneKeepsLock(p, flags) ==
    /\ Goto(p, "load")
    /\ Note(p, [report[p] EXCEPT !.flags = @ \cup flags])
    /\ sweep' = [sweep EXCEPT ![p] = NoSweep]
    /\ UNCHANGED <<diskVars, request, seen, write, answers, countVars>>

\* The sweep is over and its lock dropped; the refresh goes on to its own key.
SweepDone(p, flags) ==
    /\ Goto(p, "load")
    /\ Note(p, [report[p] EXCEPT !.flags = @ \cup flags])
    /\ lock' = Unlocked(p)
    /\ sweep' = [sweep EXCEPT ![p] = NoSweep]
    /\ UNCHANGED <<clock, dir, file, request, seen, write, answers, countVars>>

SweepOpen(p) ==
    /\ pc[p] = "sweepOpen" /\ dir
    /\ Goto(p, "sweepLock")
    /\ UNCHANGED <<diskVars, localVars, answers, countVars>>

SweepFindsNoDir(p) == pc[p] = "sweepOpen" /\ ~dir /\ SweepDone(p, {"sweepFailed"})

\* Another error of the open, the lock, the clock, the listing or an entry.
SweepFails(p) ==
    /\ MayFail /\ pc[p] \in {"sweepOpen", "sweepLock"} \cup Sweeping
    /\ SweepDone(p, {"sweepFailed", "trouble"})

\* Faulty variant: the sweep runs without the mutation lock.
SweepUnlocked(p) ==
    /\ pc[p] = "sweepLock"
    /\ \E listed \in SUBSET Present :
          sweep' = [sweep EXCEPT ![p].now = clock, ![p].listed = listed]
    /\ Goto(p, "sweeping")
    /\ UNCHANGED <<diskVars, request, seen, write, report, answers, countVars>>

\* The lock is taken, then the clock is read and the directory listed, in
\* whatever order the directory keeps.
SweepLock(p) ==
    /\ pc[p] = "sweepLock" /\ lock = NoOne
    /\ lock' = p
    /\ \E listed \in SUBSET Present :
          /\ listed = Present \/ Cardinality(listed) = ListLimit
          /\ Cardinality(listed) <= ListLimit
          /\ sweep' = [sweep EXCEPT ![p].now = clock, ![p].listed = listed]
    /\ Goto(p, "sweeping")
    /\ UNCHANGED <<clock, dir, file, request, seen, write, report, answers, countVars>>

SweepSpent(p) == \/ sweep[p].listed = {}
                 \/ sweep[p].inspected >= InspectLimit
                 \/ sweep[p].removed >= RemovalLimit

\* An entry is judged by the time it records, a temp file by its mtime.
Reclaimable(p, n) ==
    \/ n \in EntryNames /\ file[n].body = "entry"
          /\ Stale(sweep[p].now, file[n].stamp, request[p].ttl)
    \/ n \in TempNames /\ file[n].body # "none"
          /\ Stale(sweep[p].now, file[n].mtime, request[p].ttl)

SweepInspects(p) ==
    /\ pc[p] = "sweeping" /\ ~SweepSpent(p)
    /\ \E n \in sweep[p].listed :
          /\ sweep' = [sweep EXCEPT ![p].listed = @ \ {n}, ![p].inspected = @ + 1,
                          ![p].victims = IF Reclaimable(p, n) THEN {n} ELSE {}]
          /\ Goto(p, IF Reclaimable(p, n) THEN "sweepRemove" ELSE "sweeping")
    /\ UNCHANGED <<diskVars, request, seen, write, report, answers, countVars>>

\* Faulty variant: what is removed does not count.
SweepRemovesUncounted(p) ==
    /\ pc[p] = "sweepRemove"
    /\ file' = [n \in Names |-> IF n \in sweep[p].victims THEN NoFile ELSE file[n]]
    /\ sweep' = [sweep EXCEPT ![p].victims = {}]
    /\ Goto(p, "sweeping")
    /\ UNCHANGED <<clock, dir, lock, request, seen, write, report, answers, countVars>>

SweepRemoves(p) ==
    /\ pc[p] = "sweepRemove"
    /\ file' = [n \in Names |-> IF n \in sweep[p].victims THEN NoFile ELSE file[n]]
    /\ sweep' = [sweep EXCEPT ![p].removed = @ + 1, ![p].victims = {}]
    /\ Goto(p, "sweeping")
    /\ UNCHANGED <<clock, dir, lock, request, seen, write, report, answers, countVars>>

SweepEnds(p) ==
    pc[p] = "sweeping" /\ SweepSpent(p) /\ SweepDone(p, {})

Sweep(p) ==
    \/ SweepOpen(p) \/ SweepFindsNoDir(p) \/ SweepLock(p)
    \/ SweepInspects(p) \/ SweepRemoves(p) \/ SweepEnds(p)
-----------------------------------------------------------------------------
(* load_cached_value: the file is read, then the clock.                    *)

\* Reading opens one inode: what a rename puts at the name later is not seen.
Load(p) ==
    /\ pc[p] = "load"
    /\ seen' = [seen EXCEPT ![p] = file[Entry(Key(p))]]
    /\ Goto(p, "judge")
    /\ UNCHANGED <<diskVars, request, sweep, write, report, answers, countVars>>

\* A status query reports and exits; a refresh falls through to GitHub.
Missed(p, r) ==
    IF request[p].mode = "status"
    THEN Exit(p, [r EXCEPT !.resolution = "noPr", !.write = "skipped"])
    ELSE /\ Goto(p, "lookup") /\ Note(p, r)
         /\ seen' = [seen EXCEPT ![p] = NoFile]
         /\ UNCHANGED <<lock, request, sweep, write>>

LoadFails(p) ==
    /\ MayFail /\ pc[p] \in {"load", "judge"}
    /\ Missed(p, [report[p] EXCEPT !.cache = "readFailed", !.flags = @ \cup {"trouble"}])
    /\ UNCHANGED <<clock, dir, file, answers, countVars>>

Judge(p) ==
    /\ pc[p] = "judge"
    /\ LET expired == Stale(clock, seen[p].stamp, request[p].ttl) IN
       \/ /\ seen[p].body = "entry" /\ ~expired
          /\ Exit(p, [report[p] EXCEPT !.cache = "hit", !.resolution = "fromCache",
                                       !.write = "skipped"])
       \/ /\ seen[p].body = "entry" => expired
          /\ seen[p].body \in {"none", "entry"}
          /\ Missed(p, [report[p] EXCEPT !.cache = "miss"])
       \/ /\ seen[p].body \in {"junk", "partial"}
          /\ Missed(p, [report[p] EXCEPT !.cache = "readFailed", !.flags = @ \cup {"trouble"}])
    /\ UNCHANGED <<clock, dir, file, answers, countVars>>
-----------------------------------------------------------------------------
(* pr::decide and lookup_and_persist.                                      *)

\* pr_from_branch
PrFromBranch(k) == IF k \in NumberedKeys THEN "branch" ELSE ""

\* The value GitHub's answer gives a key: a PR, or what the branch name says.
Answer(outcome, k) == IF outcome = "some" THEN "github" ELSE PrFromBranch(k)

Resolution(outcome, k) ==
    CASE outcome = "failed" -> "lookupFailed"
      [] outcome = "some" -> "github"
      [] outcome = "none" -> IF k \in NumberedKeys THEN "branchFallback" ELSE "noPr"

\* PersistRequest: a failed lookup asks for nothing to be stored.
Persist(outcome) == outcome # "failed"

Lookup(p) ==
    /\ pc[p] = "lookup"
    /\ \E outcome \in {"some", "none"} \cup (IF MayFail THEN {"failed"} ELSE {}) :
          LET r == [report[p] EXCEPT !.resolution = Resolution(outcome, Key(p)),
                                     !.flags = IF outcome = "failed" THEN @ \cup {"trouble"} ELSE @] IN
          /\ answers' = IF outcome = "failed" THEN answers
                        ELSE [answers EXCEPT ![Key(p)] = @ \cup {Answer(outcome, Key(p))}]
          /\ IF Persist(outcome) /\ request[p].cached
             THEN /\ Goto(p, "mkdir") /\ Note(p, r)
                  /\ write' = [write EXCEPT ![p].value = Answer(outcome, Key(p))]
                  /\ UNCHANGED <<lock, request, sweep, seen>>
             ELSE Exit(p, [r EXCEPT !.write = "skipped"])
    /\ UNCHANGED <<clock, dir, file, countVars>>
-----------------------------------------------------------------------------
(* store_cached_value.                                                     *)

StoreEnds(p, outcome, flags) ==
    Exit(p, [report[p] EXCEPT !.write = outcome, !.flags = @ \cup flags])

Mkdir(p) ==
    /\ pc[p] = "mkdir"
    /\ dir' = TRUE
    /\ Goto(p, "storeLock")
    /\ UNCHANGED <<clock, file, lock, localVars, answers, countVars>>

\* Faulty variant: only the sweep takes the mutation lock.
StoreUnlocked(p) ==
    /\ pc[p] = "storeLock"
    /\ write' = [write EXCEPT ![p].stamp = clock]
    /\ Goto(p, "create")
    /\ UNCHANGED <<diskVars, request, sweep, seen, report, answers, countVars>>

StoreLock(p) ==
    /\ pc[p] = "storeLock" /\ lock = NoOne
    /\ lock' = p
    /\ write' = [write EXCEPT ![p].stamp = clock]
    /\ Goto(p, "create")
    /\ UNCHANGED <<clock, dir, file, request, sweep, seen, report, answers, countVars>>

Create(p) ==
    /\ pc[p] = "create" /\ file[OwnTemp(p)].body = "none"
    /\ file' = [file EXCEPT ![OwnTemp(p)] = [NoFile EXCEPT !.body = "partial", !.mtime = clock]]
    /\ Goto(p, "fill")
    /\ UNCHANGED <<clock, dir, lock, localVars, answers, countVars>>

\* Faulty variant: one attempt too many.
CreateRetriesPastBudget(p) ==
    /\ pc[p] = "create" /\ file[OwnTemp(p)].body # "none"
    /\ write' = [write EXCEPT ![p].attempt = @ + 1]
    /\ UNCHANGED <<diskVars, pc, request, sweep, seen, report, answers, countVars>>

\* The name is taken, by a process that had this pid and died: draw another.
CreateRetries(p) ==
    /\ pc[p] = "create" /\ file[OwnTemp(p)].body # "none"
    /\ write[p].attempt < Attempts
    /\ write' = [write EXCEPT ![p].attempt = @ + 1]
    /\ UNCHANGED <<diskVars, pc, request, sweep, seen, report, answers, countVars>>

\* Faulty variant: the first name taken ends the write.
CreateGivesUpAtOnce(p) ==
    /\ pc[p] = "create" /\ file[OwnTemp(p)].body # "none"
    /\ StoreEnds(p, "failed", {})
    /\ UNCHANGED <<clock, dir, file, answers, countVars>>

CreateGivesUp(p) ==
    /\ pc[p] = "create" /\ file[OwnTemp(p)].body # "none"
    /\ write[p].attempt = Attempts
    /\ StoreEnds(p, "failed", {})
    /\ UNCHANGED <<clock, dir, file, answers, countVars>>

Fill(p) ==
    /\ pc[p] = "fill"
    /\ file' = [file EXCEPT ![OwnTemp(p)] = [body |-> "entry", value |-> write[p].value,
                                             stamp |-> write[p].stamp, mtime |-> clock]]
    /\ Goto(p, "rename")
    /\ UNCHANGED <<clock, dir, lock, localVars, answers, countVars>>

\* An error before the rename; once the temp file is created it stays behind.
StoreFails(p) ==
    /\ MayFail /\ pc[p] \in {"mkdir", "storeLock", "create", "fill"}
    /\ StoreEnds(p, "failed", {"trouble"})
    /\ UNCHANGED <<clock, dir, file, answers, countVars>>

Rename(p) ==
    /\ pc[p] = "rename"
    /\ file' = [file EXCEPT ![Entry(Key(p))] = file[OwnTemp(p)], ![OwnTemp(p)] = NoFile]
    /\ StoreEnds(p, "stored", {})
    /\ UNCHANGED <<clock, dir, answers, countVars>>

\* The temp file is removed on a best effort.
RenameFails(p) ==
    /\ MayFail /\ pc[p] = "rename"
    /\ file' \in {file, [file EXCEPT ![OwnTemp(p)] = NoFile]}
    /\ StoreEnds(p, "failed", {"trouble"})
    /\ UNCHANGED <<clock, dir, answers, countVars>>

Store(p) ==
    \/ Mkdir(p) \/ StoreLock(p) \/ Create(p) \/ CreateRetries(p) \/ CreateGivesUp(p)
    \/ Fill(p) \/ Rename(p)
-----------------------------------------------------------------------------
Works(p) == Sweep(p) \/ Load(p) \/ Judge(p) \/ Lookup(p) \/ Store(p)
Fails(p) == SweepFails(p) \/ LoadFails(p) \/ StoreFails(p) \/ RenameFails(p)

\* The process is killed: its locals and its flock go, its files stay.
Crash(p) ==
    /\ pc[p] # "idle" /\ crashes < MaxCrashes
    /\ Exit(p, NoReport)
    /\ crashes' = crashes + 1
    /\ UNCHANGED <<clock, dir, file, answers, runs>>

Tick ==
    /\ clock < MaxClock
    /\ clock' = clock + 1
    /\ UNCHANGED <<dir, file, lock, pc, localVars, answers, countVars>>

Finished ==
    /\ runs = MaxRuns /\ \A p \in Procs : pc[p] = "idle"
    /\ UNCHANGED vars

Next == Tick \/ Finished \/ \E p \in Procs : Start(p) \/ Works(p) \/ Fails(p) \/ Crash(p)

Spec == Init /\ [][Next]_vars

\* The scheduler runs every process; nothing makes one start, die or fail.
FairSpec == Spec /\ \A p \in Procs : WF_vars(Works(p))
-----------------------------------------------------------------------------
(* Properties.                                                             *)

\* While a writer sits between create_new and rename, its temp file is there
\* and is its own, whatever other processes sweep, store or die
\* (retention.rs, remove_if_stale_temp: "safe against a live writer").
LiveTempSurvives ==
    \A p \in Procs :
        /\ pc[p] = "fill" => file[OwnTemp(p)].body = "partial"
        /\ pc[p] = "rename" => /\ file[OwnTemp(p)].body = "entry"
                               /\ file[OwnTemp(p)].value = write[p].value

\* What the directory shows of each key: a file that never was an entry is nothing.
Absent == [body |-> "none", value |-> "", stamp |-> 0]
View == [k \in Keys |->
            IF file[Entry(k)].body = "junk" THEN Absent
            ELSE [body |-> file[Entry(k)].body, value |-> file[Entry(k)].value,
                  stamp |-> file[Entry(k)].stamp]]
AS == INSTANCE AnswerStore WITH store <- View

\* Whatever the processes interleave, fail or die at, the directory behaves as
\* AnswerStore: an entry appears whole, holds a value obtained for its own key and never
\* one made up for a failed lookup, and is reclaimed only when it is past its sweeper's
\* TTL at that very moment.  For sweep_cache_dir and store_cached_value both hold the
\* mutation lock, so no store comes between a sweep's judgement of an entry and its
\* removal: the window in which remove_if_expired (retention.rs) says it may "discard a
\* just-written entry" is one the lock has closed.
ImplementsAnswerStore == AS!StoreSpec

\* A refresh on whose behalf no call failed reports no failure, as describe_failures has
\* it (status/pr/mod.rs: "An entirely healthy lookup describes nothing").
HealthyLookupDescribesNothing ==
    \A p \in Procs :
        report[p].write # "none" /\ "trouble" \notin report[p].flags
            => "sweepFailed" \notin report[p].flags /\ report[p].write # "failed"

\* p may come to report r where nothing failed: only for want of a directory does its
\* sweep, and only for want of a name its write, when every name its pid mints is there
\* and more runs have been started than there are names.
Excused(p, r) ==
    "trouble" \notin r.flags =>
        /\ "sweepFailed" \in r.flags \ report[p].flags => ~dir
        /\ r.write = "failed" /\ report[p].write # "failed" =>
               /\ \A n \in 0..Attempts - 1 : file[Temp(Key(p), p, n)].body # "none"
               /\ runs > Attempts

\* A refresh for which no call failed fails only over what earlier ones left, or did not
\* make yet.  Neither the writers it races nor one killed run, though its pid be used
\* again, take the last name from it: that takes a leftover at each of them, and a run for
\* each leftover (cache/mod.rs, TEMP_NAME_ATTEMPTS: "exhausting this budget means something
\* is wrong with the directory rather than merely unlucky").
OnlyLeftoversSpoilALookup == [][\A p \in Procs : Excused(p, report'[p])]_vars

\* The calls p may still make under the lock it holds, and until it is over.
SweepCalls(p) == (InspectLimit - sweep[p].inspected) + (RemovalLimit - sweep[p].removed) + 1
WriteCalls(p) == CASE pc[p] = "create" -> Attempts - write[p].attempt + 3
                   [] pc[p] = "fill"   -> 2
                   [] pc[p] = "rename" -> 1

CallsLeft(p) ==
    LET load == Attempts + 7 IN
    CASE pc[p] = "idle"      -> 0
      [] pc[p] \in Storing   -> WriteCalls(p)
      [] pc[p] = "storeLock" -> Attempts + 3
      [] pc[p] = "mkdir"     -> Attempts + 4
      [] pc[p] = "lookup"    -> Attempts + 5
      [] pc[p] = "judge"     -> Attempts + 6
      [] pc[p] = "load"      -> load
      [] pc[p] \in Sweeping  -> load + SweepCalls(p)
      [] pc[p] = "sweepLock" -> load + InspectLimit + RemovalLimit + 2
      [] pc[p] = "sweepOpen" -> load + InspectLimit + RemovalLimit + 3

\* Each call of a process, whether it succeeds, finds nothing, is tried again or
\* fails, leaves it fewer to make, and the mutation lock is held by nobody but a
\* process in one of the two passages it is for: so a process makes a number of calls
\* that the limits give, fewer than that under the lock, and whoever waits for the
\* lock waits for a process with work to do (retention.rs, sweep_expired_entries:
\* "bounded work"; mod.rs, write and acquire_mutation_lock).
CallsAreBounded ==
    [][/\ \A p \in Procs : Works(p) \/ Fails(p) => CallsLeft(p)' \in 0..CallsLeft(p) - 1
       /\ lock' # NoOne => pc'[lock'] \in Sweeping \cup Storing]_vars

\* Every process ends, and none waits for ever on the mutation lock: not on
\* one a dead process held, nor on one of its own.
EveryProcessEnds == \A p \in Procs : pc[p] # "idle" ~> pc[p] = "idle"
=============================================================================

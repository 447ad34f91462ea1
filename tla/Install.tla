------------------------------ MODULE Install ------------------------------
(***************************************************************************)
(* Several `dbar install` processes on one tmux config (src/install/mod.rs *)
(* and src/install/fs/mod.rs), and the user who edits it.                  *)
(*                                                                         *)
(* A step is one call on the directory; the flock on `.dbar.lock`, taken   *)
(* by polling, is the only thing that orders the steps of two installs.    *)
(* A process may die between any two steps.                                *)
(***************************************************************************)
EXTENDS ManagedBlock

CONSTANTS
    Procs,          \* pids; a pid is used again after its process has ended
    Edits,          \* the texts the user may leave in the config
    Modes,          \* file modes
    UmaskMode,      \* the mode of a file created without another to copy
    LockAttempts,   \* LOCK_ATTEMPTS
    MaxRuns,        \* bound: installs started
    MaxCrashes,     \* bound: installs killed
    MaxEdits,       \* bound: changes the user makes
    EditsInside,    \* the user may rewrite the config while an install holds the lock
    MayFail         \* a call on the directory may fail

ASSUME InstallAssumption ==
    /\ Variants # {} /\ Edits \subseteq Texts /\ UmaskMode \in Modes /\ "none" \notin Modes
    /\ "nobody" \notin Procs
    /\ LockAttempts \in Nat \ {0}
    /\ {MaxRuns, MaxCrashes, MaxEdits} \subseteq Nat
    /\ {EditsInside, MayFail} \subseteq BOOLEAN

NoOne == "nobody"

Absent == [text |-> <<>>, mode |-> "none"]
File(text, mode) == [text |-> text, mode |-> mode]
Files == [text : Texts, mode : Modes \cup {"none"}]

\* <target>.<pid>.<counter>.tmp; the counter is the process's own and starts at 0.
Targets == {"backup", "config"}
TempNames == [target : Targets, pid : Procs, counter : 0..1]

Positions == {"idle", "lock", "read", "create", "inherit", "fill", "rename"}
Writing   == {"create", "inherit", "fill", "rename"}
Outcomes  == {"none", "updated", "current", "preview", "refused", "locked", "failed",
              "killed"}

\* One call of install: what it was asked, what it read and is about to write.
Jobs == [mode : {"dryRun", "write"}, variant : Variants, tries : 0..LockAttempts,
         existing : Texts, contents : Texts, target : Targets, counter : 0..1]

VARIABLES
    config, backup,    \* the two files readers look at
    temps,             \* the temp files beside them
    lock,              \* who holds the flock
    pc, job, outcome,  \* of each process
    runs, crashes, edits

files == <<config, backup, temps>>
vars  == <<files, lock, pc, job, outcome, runs, crashes, edits>>

Request(mode, v) ==
    [mode |-> mode, variant |-> v, tries |-> 0, existing |-> <<>>, contents |-> <<>>,
     target |-> "config", counter |-> 0]

Init ==
    /\ \E text \in Edits, mode \in Modes : config \in {Absent, File(text, mode)}
    /\ backup = Absent
    /\ temps = [n \in TempNames |-> Absent]
    /\ lock = NoOne
    /\ pc = [p \in Procs |-> "idle"]
    /\ job = [p \in Procs |-> Request("dryRun", CHOOSE v \in Variants : TRUE)]
    /\ outcome = [p \in Procs |-> "none"]
    /\ runs = 0 /\ crashes = 0 /\ edits = 0

TempOf(p) == [target |-> job[p].target, pid |-> p, counter |-> job[p].counter]
Goto(p, to) == pc' = [pc EXCEPT ![p] = to]
Unlocked(p) == IF lock = p THEN NoOne ELSE lock

\* Faulty variant: the guard is not dropped with install's frame.
ReturnKeepsLock(p, what) ==
    /\ Goto(p, "idle")
    /\ outcome' = [outcome EXCEPT ![p] = what]
    /\ UNCHANGED lock

\* install returns: the guard is dropped.
Return(p, what) ==
    /\ Goto(p, "idle")
    /\ outcome' = [outcome EXCEPT ![p] = what]
    /\ lock' = Unlocked(p)

Start(p) ==
    /\ pc[p] = "idle" /\ runs < MaxRuns
    /\ \E mode \in {"dryRun", "write"}, v \in Variants :
           /\ job' = [job EXCEPT ![p] = Request(mode, v)]
           /\ Goto(p, IF mode = "write" THEN "lock" ELSE "read")
    /\ outcome' = [outcome EXCEPT ![p] = "none"]
    /\ runs' = runs + 1
    /\ UNCHANGED <<files, lock, crashes, edits>>

TakeLock(p) ==
    /\ pc[p] = "lock" /\ lock = NoOne
    /\ lock' = p
    /\ Goto(p, "read")
    /\ UNCHANGED <<files, job, outcome, runs, crashes, edits>>

\* Faulty variant: once the attempts are used up the install goes ahead.
FindLockedThenGoOn(p) ==
    /\ pc[p] = "lock" /\ lock # NoOne
    /\ job' = [job EXCEPT ![p].tries = @ + 1]
    /\ IF job[p].tries + 1 < LockAttempts THEN UNCHANGED pc ELSE Goto(p, "read")
    /\ UNCHANGED <<files, lock, outcome, runs, crashes, edits>>

\* Faulty variant: one attempt more than LOCK_ATTEMPTS.
FindLockedOnceMore(p) ==
    /\ pc[p] = "lock" /\ lock # NoOne
    /\ job' = [job EXCEPT ![p].tries = @ + 1]
    /\ IF job[p].tries < LockAttempts
       THEN UNCHANGED <<lock, pc, outcome>>
       ELSE Return(p, "locked")
    /\ UNCHANGED <<files, runs, crashes, edits>>

\* The flock is held by another: one attempt is spent, and another is made while
\* any are left.
FindLocked(p) ==
    /\ pc[p] = "lock" /\ lock # NoOne
    /\ job' = [job EXCEPT ![p].tries = @ + 1]
    /\ IF job[p].tries + 1 < LockAttempts
       THEN UNCHANGED <<lock, pc, outcome>>
       ELSE Return(p, "locked")
    /\ UNCHANGED <<files, runs, crashes, edits>>

\* The lock file cannot be opened, or the config is there and cannot be read: it
\* is too large, not UTF-8 or not readable.
AcquireOrReadFails(p) ==
    /\ MayFail /\ pc[p] \in {"lock", "read"}
    /\ Return(p, "failed")
    /\ UNCHANGED <<files, job, runs, crashes, edits>>

\* The config is read, an absent one as an empty text, and spliced in memory.
Read(p) ==
    LET text   == config.text
        result == Apply(text, job[p].variant)
        saves  == text # <<>>
    IN  /\ pc[p] = "read"
        /\ IF result.kind = "updated" /\ job[p].mode = "write"
           THEN /\ job' = [job EXCEPT ![p].existing = text, ![p].contents = result.text,
                                      ![p].target = IF saves THEN "backup" ELSE "config"]
                /\ Goto(p, "create")
                /\ UNCHANGED <<lock, outcome>>
           ELSE /\ Return(p, CASE result.kind = "updated" -> "preview"
                               [] result.kind = "current" -> "current"
                               [] OTHER                   -> "refused")
                /\ UNCHANGED job
        /\ UNCHANGED <<files, runs, crashes, edits>>

\* create_new mints the next name.
Create(p) ==
    /\ pc[p] = "create" /\ temps[TempOf(p)] = Absent
    /\ temps' = [temps EXCEPT ![TempOf(p)] = File(<<>>, UmaskMode)]
    /\ Goto(p, "inherit")
    /\ UNCHANGED <<config, backup, lock, job, outcome, runs, crashes, edits>>

\* The name was left behind by a killed install that had the same pid: the call
\* fails, and the error path removes the file it stumbled over.
CreateFindsLeftover(p) ==
    /\ pc[p] = "create" /\ temps[TempOf(p)] # Absent
    /\ temps' = [temps EXCEPT ![TempOf(p)] = Absent]
    /\ Return(p, "failed")
    /\ UNCHANGED <<config, backup, job, runs, crashes, edits>>

\* Faulty variant: each file takes the mode of the file it replaces.
InheritFromTarget(p) ==
    LET target == IF job[p].target = "backup" THEN backup ELSE config IN
    /\ pc[p] = "inherit"
    /\ temps' = [temps EXCEPT ![TempOf(p)].mode =
                     IF target = Absent THEN @ ELSE target.mode]
    /\ Goto(p, "fill")
    /\ UNCHANGED <<config, backup, lock, job, outcome, runs, crashes, edits>>

\* inherit_permissions_from: always the config's, for the backup too.
Inherit(p) ==
    /\ pc[p] = "inherit"
    /\ temps' = [temps EXCEPT ![TempOf(p)].mode =
                     IF config = Absent THEN @ ELSE config.mode]
    /\ Goto(p, "fill")
    /\ UNCHANGED <<config, backup, lock, job, outcome, runs, crashes, edits>>

\* write_all and sync_all.
Fill(p) ==
    /\ pc[p] = "fill"
    /\ temps' = [temps EXCEPT ![TempOf(p)].text =
                     IF job[p].target = "backup" THEN job[p].existing ELSE job[p].contents]
    /\ Goto(p, "rename")
    /\ UNCHANGED <<config, backup, lock, job, outcome, runs, crashes, edits>>

\* The backup is followed by the config, the config by the return of install.
Rename(p) ==
    /\ pc[p] = "rename"
    /\ temps' = [temps EXCEPT ![TempOf(p)] = Absent]
    /\ \/ /\ job[p].target = "backup"
          /\ backup' = temps[TempOf(p)]
          /\ job' = [job EXCEPT ![p].target = "config", ![p].counter = 1]
          /\ Goto(p, "create")
          /\ UNCHANGED <<config, lock, outcome>>
       \/ /\ job[p].target = "config"
          /\ config' = temps[TempOf(p)]
          /\ Return(p, "updated")
          /\ UNCHANGED <<backup, job>>
    /\ UNCHANGED <<runs, crashes, edits>>

\* A call on the temp file fails; so may its removal.
WriteFails(p) ==
    /\ MayFail /\ pc[p] \in Writing
    /\ \E left \in {temps[TempOf(p)], Absent} :
           temps' = [temps EXCEPT ![TempOf(p)] = left]
    /\ Return(p, "failed")
    /\ UNCHANGED <<config, backup, job, runs, crashes, edits>>

\* The kernel frees the flock of a process that dies; its temp file stays.
Killed(p) ==
    /\ pc[p] # "idle" /\ crashes < MaxCrashes
    /\ crashes' = crashes + 1
    /\ Return(p, "killed")
    /\ UNCHANGED <<files, job, runs, edits>>

Untouched == UNCHANGED <<backup, temps, lock, pc, job, outcome, runs, crashes>>

\* The user writes the config in place, or with no install at work on it creates it,
\* removes it or gives it another mode.
UserEdits ==
    /\ edits < MaxEdits
    /\ edits' = edits + 1
    /\ \/ \E text \in Edits \cup {config.text}, mode \in Modes :
              /\ lock = NoOne \/ (EditsInside /\ config.mode = mode)
              /\ config' = File(text, mode)
       \/ lock = NoOne /\ config # Absent /\ config' = Absent
    /\ Untouched

Finished ==
    /\ runs = MaxRuns /\ \A p \in Procs : pc[p] = "idle"
    /\ UNCHANGED vars

Installs(p) ==
    \/ Start(p) \/ TakeLock(p) \/ FindLocked(p) \/ AcquireOrReadFails(p) \/ Read(p)
    \/ Create(p) \/ CreateFindsLeftover(p) \/ Inherit(p) \/ Fill(p) \/ Rename(p)
    \/ WriteFails(p) \/ Killed(p)

Next == (\E p \in Procs : Installs(p)) \/ UserEdits \/ Finished

Spec == Init /\ [][Next]_vars

-----------------------------------------------------------------------------

TypeOK ==
    /\ config \in Files /\ backup \in Files
    /\ temps \in [TempNames -> Files]
    /\ lock \in Procs \cup {NoOne}
    /\ pc \in [Procs -> Positions]
    /\ job \in [Procs -> Jobs]
    /\ outcome \in [Procs -> Outcomes]
    /\ runs \in 0..MaxRuns /\ crashes \in 0..MaxCrashes /\ edits \in 0..MaxEdits

\* What an install waits for is always a live process in the middle of its
\* transaction (install/fs/mod.rs, LOCK_ATTEMPTS: "the thing being waited on is
\* always a live process"): no return, failure or kill leaves the lock behind.
HolderIsAtWork ==
    lock # NoOne => pc[lock] \in {"read"} \cup Writing /\ job[lock].mode = "write"

\* No step puts text where readers of another mode than the config's may find it: a file
\* beside the config that gains text, or changes while it holds some, is left in the
\* config's mode, and so is the backup.  What a killed or failed install leaves behind is
\* such a file from then on (install/fs/mod.rs, fill_then_rename: "a `0600` config's bytes
\* are never momentarily readable through a `0644` temp file").
TextIsNeverExposed ==
    [][config # Absent =>
           /\ \A n \in TempNames : temps'[n] # temps[n] /\ temps'[n].text # <<>> =>
                                      temps'[n].mode = config.mode
           /\ backup' # backup => backup'.mode = config.mode]_vars

CS == INSTANCE ConfigStore

\* Concurrent installs, kills and failed calls, with a user who keeps away from
\* a locked config, look like splices of the whole config, each with the text it
\* replaces already in the backup (ConfigStore).
ImplementsConfigStore == CS!StoreSpec
=============================================================================

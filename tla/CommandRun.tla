----------------------------- MODULE CommandRun -----------------------------
(***************************************************************************)
(* One call of `RealCommandRunner::run` (src/command/mod.rs): the session  *)
(* thread that spawns, waits for, kills and reaps the child, the two       *)
(* bounded reader threads (src/command/child.rs), the claim they share     *)
(* (src/command/signal.rs), and the kernel objects they act on.            *)
(*                                                                         *)
(* A thread's step is a system call, a lock acquisition or a join: between *)
(* two of them any other thread, the child or a descendant may move.       *)
(***************************************************************************)
EXTENDS Naturals, Sequences, FiniteSets, SignalClaim

CONSTANTS
    Descendants,    \* processes the child may background
    Limit,          \* max_output_bytes, per stream
    PipeCapacity,   \* bytes a pipe holds before a writer blocks
    MaxWritten,     \* bound: bytes ever written to each stream
    KillMayFail,    \* kill(2) may answer something other than Ok and ESRCH
    WaitMayFail,    \* wait(2) may fail and leave the child unreaped
    MayEscape       \* a descendant may leave the process group (setsid)

ASSUME CommandRunAssumption ==
    /\ Limit \in Nat /\ PipeCapacity \in Nat \ {0}
    /\ MaxWritten \in [{"stdout", "stderr"} -> Nat]
    /\ {KillMayFail, WaitMayFail, MayEscape} \subseteq BOOLEAN
    /\ "child" \notin Descendants
    /\ Session # Reader

Streams   == {"stdout", "stderr"}
Processes == Descendants \cup {"child"}
Threads   == Streams \cup {"session"}    \* a reader is named by its stream
NoThread  == "none"

\* The session's position in run() and in ChildSession::drop.
Positions == {"spawn", "startStdout", "startStderr", "wait", "markExit",
              "releaseExit", "joinStdout", "joinStderr", "decide",
              "releaseTimeout", "reapTimeout", "markTimeout", "dropRelease",
              "dropReap", "dropMark", "dropJoin", "returned"}
Results   == {"none", "Ok", "NonZero", "Timeout", "Io",
              "TooLargeStdout", "TooLargeStderr"}
ReaderStates == {"unstarted", "reading", "overrun", "bytes", "tooLarge", "failed"}

\* A kill the kernel accepted: who issued it, whether the child had then been
\* reaped by the kernel only ("silent") or also on record, and whose group the
\* pid then named.
Kills == [by : Signallers, reap : {"unreaped", "silent", "recorded"},
          hit : {"ours", "nobody", "foreign"}]

VARIABLES
    pc,        \* the session's position
    result,    \* what run() is going to return
    reaped,    \* ChildSession::reaped
    released,  \* Drop's `released`
    claim,     \* SignalClaim::state
    holder,    \* the thread that holds the claim's mutex across kill(2)
    previous,  \* that thread's `previous`, a local of its call
    child,     \* the kernel's view of the direct child
    status,    \* how the direct child ended
    desc,      \* the kernel's view of each descendant
    open,      \* the write ends each process still holds
    recycled,  \* another program's process group has taken the child's pid
    wrote,     \* bytes ever written to each stream
    got,       \* bytes the reader of each stream has taken from its pipe
    reader,    \* each reader thread
    joined,    \* the readers whose handle has been taken and joined
    kills      \* history: the kills the kernel accepted

claimVars   == <<claim, holder, previous>>
kernelVars  == <<child, status, desc, open, recycled>>
streamVars  == <<wrote, got, reader>>
sessionVars == <<pc, result, reaped, released, joined>>
vars == <<claimVars, kernelVars, streamVars, sessionVars, kills>>

TypeOK ==
    /\ pc \in Positions
    /\ result \in Results
    /\ reaped \in BOOLEAN /\ released \in BOOLEAN /\ recycled \in BOOLEAN
    /\ claim \in ClaimStates /\ previous \in ClaimStates
    /\ holder \in Threads \cup {NoThread}
    /\ child \in {"unspawned", "running", "zombie", "reaped"}
    /\ status \in {"none", "success", "failure", "signal"}
    /\ desc \in [Descendants -> {"unborn", "member", "escaped", "gone"}]
    /\ open \in [Processes -> SUBSET Streams]
    /\ wrote \in [Streams -> Nat] /\ \A s \in Streams : wrote[s] <= MaxWritten[s]
    /\ got \in [Streams -> 0..Limit + 1]
    /\ reader \in [Streams -> ReaderStates]
    /\ joined \in SUBSET Streams
    /\ kills \in Seq(Kills)

Init ==
    /\ pc = "spawn" /\ result = "none" /\ reaped = FALSE /\ released = FALSE
    /\ claim = "Unsignalled" /\ holder = NoThread /\ previous = "Unsignalled"
    /\ child = "unspawned" /\ status = "none"
    /\ desc = [d \in Descendants |-> "unborn"]
    /\ open = [p \in Processes |-> {}]
    /\ recycled = FALSE
    /\ wrote = [s \in Streams |-> 0] /\ got = [s \in Streams |-> 0]
    /\ reader = [s \in Streams |-> "unstarted"] /\ joined = {}
    /\ kills = <<>>
-----------------------------------------------------------------------------
(* The kernel: processes, their group and the pipes they inherited.        *)

Alive(p) == IF p = "child" THEN child = "running"
                           ELSE desc[p] \in {"member", "escaped"}
Writers(s) == {p \in Processes : s \in open[p]}

\* The pid names our group while the child is unreaped or a member lives.
GroupExists == \/ child \in {"running", "zombie"}
               \/ \E d \in Descendants : desc[d] = "member"

\* A reader thread drops its end of the pipe as it ends; an end no thread took
\* goes with the session's Child.
ReadEndOpen(s) == \/ reader[s] \in {"reading", "overrun"}
                  \/ reader[s] = "unstarted" /\ pc # "returned"

Bury(ps) == open' = [p \in Processes |-> IF p \in ps THEN {} ELSE open[p]]

Write(p, s) ==
    /\ Alive(p) /\ s \in open[p]
    /\ wrote[s] < MaxWritten[s]
    /\ ReadEndOpen(s) /\ wrote[s] - got[s] < PipeCapacity
    /\ wrote' = [wrote EXCEPT ![s] = @ + 1]
    /\ UNCHANGED <<claimVars, kernelVars, sessionVars, got, reader, kills>>

Close(p, s) ==
    /\ Alive(p) /\ s \in open[p]
    /\ open' = [open EXCEPT ![p] = @ \ {s}]
    /\ UNCHANGED <<claimVars, child, status, desc, recycled, streamVars,
                   sessionVars, kills>>

\* The child exits, or dies of SIGPIPE on a stream nobody reads any more.
ChildEnds(st) ==
    /\ child = "running"
    /\ st = "signal" => \E s \in open["child"] : ~ReadEndOpen(s)
    /\ child' = "zombie" /\ status' = st
    /\ Bury({"child"})
    /\ UNCHANGED <<claimVars, desc, recycled, streamVars, sessionVars, kills>>

DescendantEnds(d) ==
    /\ Alive(d)
    /\ desc' = [desc EXCEPT ![d] = "gone"]
    /\ Bury({d})
    /\ UNCHANGED <<claimVars, child, status, recycled, streamVars, sessionVars,
                   kills>>

\* A process inherits its parent's group and its open pipes.
Fork(p, d) ==
    /\ Alive(p) /\ desc[d] = "unborn"
    /\ desc' = [desc EXCEPT ![d] = IF p = "child" THEN "member" ELSE desc[p]]
    /\ open' = [open EXCEPT ![d] = open[p]]
    /\ UNCHANGED <<claimVars, child, status, recycled, streamVars, sessionVars,
                   kills>>

Escape(d) ==
    /\ MayEscape /\ desc[d] = "member"
    /\ desc' = [desc EXCEPT ![d] = "escaped"]
    /\ UNCHANGED <<claimVars, child, status, open, recycled, streamVars,
                   sessionVars, kills>>

Recycle ==
    /\ child = "reaped" /\ ~GroupExists /\ ~recycled
    /\ recycled' = TRUE
    /\ UNCHANGED <<claimVars, child, status, desc, open, streamVars,
                   sessionVars, kills>>

Environment ==
    \/ \E p \in Processes, s \in Streams : Write(p, s) \/ Close(p, s)
    \/ \E st \in {"success", "failure", "signal"} : ChildEnds(st)
    \/ \E d \in Descendants :
           DescendantEnds(d) \/ Escape(d) \/ \E p \in Processes : Fork(p, d)
    \/ Recycle
-----------------------------------------------------------------------------
(* SignalClaim::signal: the decision and the system call under one lock.   *)

Role(t) == IF t = "session" THEN Session ELSE Reader

\* The lock is taken and next_state answers Some(_).
TakeClaim(t) ==
    /\ holder = NoThread
    /\ MaySignal(claim, Role(t))
    /\ holder' = t /\ previous' = claim /\ claim' = NextClaim(claim)

\* The lock is taken and next_state answers None: nothing to do.
DeclineClaim(t) ==
    /\ holder = NoThread
    /\ ~MaySignal(claim, Role(t))
    /\ UNCHANGED claimVars

Hit == IF GroupExists THEN "ours" ELSE IF recycled THEN "foreign" ELSE "nobody"

\* Faulty variant: the kill reaches the direct child and no descendant.
KillChildOnly(t) ==
    /\ holder = t
    /\ holder' = NoThread
    /\ kills' = Append(kills, [by |-> Role(t), hit |-> Hit, reap |-> "unreaped"])
    /\ IF child = "running" THEN child' = "zombie" /\ status' = "signal"
                            ELSE UNCHANGED <<child, status>>
    /\ Bury({"child"})
    /\ previous' = "Unsignalled"
    /\ UNCHANGED <<claim, recycled, desc>>

\* signal_process_group answers Ok or ESRCH; SIGKILL ends every member.
KillSucceeds(t) ==
    /\ holder = t
    /\ holder' = NoThread
    /\ kills' = Append(kills,
          [by |-> Role(t), hit |-> Hit,
           reap |-> IF reaped THEN "recorded"
                    ELSE IF child = "reaped" THEN "silent" ELSE "unreaped"])
    /\ IF child = "running" THEN child' = "zombie" /\ status' = "signal"
                            ELSE UNCHANGED <<child, status>>
    /\ desc' = [d \in Descendants |->
                    IF desc[d] = "member" THEN "gone" ELSE desc[d]]
    /\ Bury({"child"} \cup {d \in Descendants : desc[d] = "member"})
    /\ previous' = "Unsignalled"
    /\ UNCHANGED <<claim, recycled>>

\* It answers anything else: the claim is handed back.
KillFails(t) ==
    /\ holder = t
    /\ KillMayFail /\ Hit # "nobody"
    /\ holder' = NoThread /\ claim' = previous /\ previous' = "Unsignalled"
    /\ UNCHANGED <<kernelVars, kills>>
-----------------------------------------------------------------------------
(* The reader threads (spawn_reader).                                      *)

\* Faulty variant: a read that stops at the limit cannot see an overrun.
TakeToLimit == Limit

\* The ceiling of the bounded read: one byte beyond the limit.
Take == Limit + 1

\* Faulty variant: a read with no ceiling.
ReadUnbounded(s) ==
    /\ reader[s] = "reading" /\ got[s] < wrote[s]
    /\ got' = [got EXCEPT ![s] = @ + 1]
    /\ UNCHANGED <<claimVars, kernelVars, sessionVars, wrote, reader, kills>>

ReadByte(s) ==
    /\ reader[s] = "reading"
    /\ got[s] < Take /\ got[s] < wrote[s]
    /\ got' = [got EXCEPT ![s] = @ + 1]
    /\ UNCHANGED <<claimVars, kernelVars, sessionVars, wrote, reader, kills>>

\* read_to_end returns: the ceiling is reached or every writer is gone.
FinishReading(s) ==
    /\ reader[s] = "reading"
    /\ got[s] = Take \/ (got[s] = wrote[s] /\ Writers(s) = {})
    /\ reader' = [reader EXCEPT ![s] =
                      IF got[s] > Limit THEN "overrun" ELSE "bytes"]
    /\ UNCHANGED <<claimVars, kernelVars, sessionVars, wrote, got, kills>>

ReadFails(s) ==
    /\ reader[s] = "reading"
    /\ reader' = [reader EXCEPT ![s] = "failed"]
    /\ UNCHANGED <<claimVars, kernelVars, sessionVars, wrote, got, kills>>

\* The overrun is reported whether or not the reader's kill succeeded.
Overran(s) == /\ reader' = [reader EXCEPT ![s] = "tooLarge"]
              /\ UNCHANGED <<wrote, got, sessionVars>>

ReaderTakesClaim(s) ==
    /\ reader[s] = "overrun"
    /\ TakeClaim(s)
    /\ UNCHANGED <<kernelVars, streamVars, sessionVars, kills>>

ReaderDeclines(s) ==
    /\ reader[s] = "overrun"
    /\ DeclineClaim(s)
    /\ Overran(s)
    /\ UNCHANGED <<kernelVars, kills>>

ReaderKills(s) == (KillSucceeds(s) \/ KillFails(s)) /\ Overran(s)

ReaderWorks(s) ==
    \/ ReadByte(s) \/ FinishReading(s)
    \/ ReaderTakesClaim(s) \/ ReaderDeclines(s) \/ ReaderKills(s)
-----------------------------------------------------------------------------
(* The session: run() from the spawn to the last line of Drop.             *)

Goto(next) == pc' = next
GiveUp(r)  == result' = r /\ pc' = "dropRelease"

Spawn ==
    /\ pc = "spawn"
    /\ child' = "running"
    /\ open' = [open EXCEPT !["child"] = Streams]
    /\ Goto("startStdout")
    /\ UNCHANGED <<claimVars, status, desc, recycled, streamVars, result,
                   reaped, released, joined, kills>>

\* command.spawn()? fails before there is a session to drop.
SpawnFails ==
    /\ pc = "spawn"
    /\ result' = "Io" /\ Goto("returned")
    /\ UNCHANGED <<claimVars, kernelVars, streamVars, reaped, released, joined,
                   kills>>

\* start_readers, one pipe and one thread at a time.
StartReader(s, next) ==
    /\ reader' = [reader EXCEPT ![s] = "reading"]
    /\ Goto(next)
    /\ UNCHANGED <<claimVars, kernelVars, wrote, got, result, reaped, released,
                   joined, kills>>

StartReaders ==
    \/ pc = "startStdout" /\ StartReader("stdout", "startStderr")
    \/ pc = "startStderr" /\ StartReader("stderr", "wait")

\* An error raised while the session holds the child: the pipes cannot be
\* taken, or wait_timeout fails.
SessionFails ==
    /\ pc \in {"startStdout", "startStderr", "wait"}
    /\ GiveUp("Io")
    /\ UNCHANGED <<claimVars, kernelVars, streamVars, reaped, released, joined,
                   kills>>

\* wait_timeout collects the exit status: the kernel has now reaped the child,
\* and nothing has yet recorded it.
WaitReaps ==
    /\ pc = "wait" /\ child = "zombie"
    /\ child' = "reaped"
    /\ Goto("markExit")
    /\ UNCHANGED <<claimVars, status, desc, open, recycled, streamVars, result,
                   reaped, released, joined, kills>>

WaitTimesOut ==
    /\ pc = "wait"
    /\ result' = "Timeout" /\ Goto("releaseTimeout")
    /\ UNCHANGED <<claimVars, kernelVars, streamVars, reaped, released, joined,
                   kills>>

\* mark_reaped, which waits for the claim's lock.
AfterMark == [markExit    |-> "releaseExit",
              markTimeout |-> "dropRelease",
              dropMark    |-> "dropJoin"]

MarkReaped ==
    /\ pc \in DOMAIN AfterMark
    /\ holder = NoThread
    /\ reaped' = TRUE /\ claim' = ClaimAfterReap(claim)
    /\ Goto(AfterMark[pc])
    /\ UNCHANGED <<holder, previous, kernelVars, streamVars, result, released,
                   joined, kills>>

\* release_process_group, at each of its three call sites.
AfterRelease == [releaseExit    |-> "joinStdout",
                 releaseTimeout |-> "reapTimeout",
                 dropRelease    |-> "dropReap"]

Released == /\ released' = (pc = "dropRelease")
            /\ Goto(AfterRelease[pc])
            /\ UNCHANGED result

SessionTakesClaim ==
    /\ pc \in DOMAIN AfterRelease
    /\ TakeClaim("session")
    /\ UNCHANGED <<kernelVars, streamVars, sessionVars, kills>>

SessionDeclines ==
    /\ pc \in DOMAIN AfterRelease
    /\ DeclineClaim("session")
    /\ Released
    /\ UNCHANGED <<kernelVars, streamVars, reaped, joined, kills>>

SessionKills ==
    /\ KillSucceeds("session")
    /\ Released
    /\ UNCHANGED <<streamVars, reaped, joined>>

\* `?` outside Drop; inside it the failure only means the readers are left.
SessionKillFails ==
    /\ KillFails("session")
    /\ IF pc = "dropRelease" THEN Goto("dropReap") /\ UNCHANGED result
                             ELSE GiveUp("Io")
    /\ UNCHANGED <<streamVars, reaped, released, joined>>

\* reap: already recorded, or a blocking wait for the child, or a failed one.
AfterReap == [reapTimeout |-> "markTimeout", dropReap |-> "dropMark"]

Reap ==
    /\ pc \in DOMAIN AfterReap
    /\ ~reaped /\ child = "zombie"
    /\ child' = "reaped"
    /\ Goto(AfterReap[pc])
    /\ UNCHANGED <<claimVars, status, desc, open, recycled, streamVars, result,
                   reaped, released, joined, kills>>

ReapFails ==
    /\ WaitMayFail
    /\ pc \in DOMAIN AfterReap
    /\ ~reaped
    /\ Goto(AfterReap[pc])
    /\ result' = IF pc = "reapTimeout" THEN "Io" ELSE result
    /\ UNCHANGED <<claimVars, kernelVars, streamVars, reaped, released, joined,
                   kills>>

SkipReap ==
    /\ pc = "dropReap" /\ reaped
    /\ Goto("dropJoin")
    /\ UNCHANGED <<claimVars, kernelVars, streamVars, result, reaped, released,
                   joined, kills>>

Ended(s) == reader[s] \in {"bytes", "tooLarge", "failed"}

\* join_readers: both are joined before either outcome is looked at.
JoinReaders ==
    /\ \/ pc = "joinStdout" /\ Ended("stdout") /\ Goto("joinStderr")
          /\ joined' = joined \cup {"stdout"}
       \/ pc = "joinStderr" /\ Ended("stderr") /\ Goto("decide")
          /\ joined' = joined \cup {"stderr"}
    /\ UNCHANGED <<claimVars, kernelVars, streamVars, result, reaped, released,
                   kills>>

\* Faulty variant: the exit status is consulted before the sizes.
OutcomeByStatus ==
    IF "failed" \in {reader[s] : s \in Streams} THEN "Io"
    ELSE IF status # "success" THEN "NonZero"
    ELSE IF reader["stdout"] = "tooLarge" THEN "TooLargeStdout"
    ELSE IF reader["stderr"] = "tooLarge" THEN "TooLargeStderr" ELSE "Ok"

\* The order in which run() consults the outcomes and the status.
Outcome ==
    IF "failed" \in {reader[s] : s \in Streams} THEN "Io"
    ELSE IF reader["stdout"] = "tooLarge" THEN "TooLargeStdout"
    ELSE IF reader["stderr"] = "tooLarge" THEN "TooLargeStderr"
    ELSE IF status # "success" THEN "NonZero" ELSE "Ok"

Decide ==
    /\ pc = "decide"
    /\ GiveUp(Outcome)
    /\ UNCHANGED <<claimVars, kernelVars, streamVars, reaped, released, joined,
                   kills>>

\* Faulty variant: Drop also waits for readers that were never started.
OutstandingOrUnstarted == Streams \ joined

\* Started readers not yet joined, in the order Drop joins them.
Outstanding == {s \in Streams : reader[s] # "unstarted"} \ joined

DropJoins ==
    /\ pc = "dropJoin" /\ released
    /\ \E s \in Outstanding :
          /\ s = "stderr" => "stdout" \notin Outstanding
          /\ Ended(s)
          /\ joined' = joined \cup {s}
    /\ UNCHANGED <<claimVars, kernelVars, streamVars, pc, result, reaped,
                   released, kills>>

Return ==
    /\ pc = "dropJoin" /\ (released => Outstanding = {})
    /\ Goto("returned")
    /\ UNCHANGED <<claimVars, kernelVars, streamVars, result, reaped, released,
                   joined, kills>>

\* The session's steps that nothing but its own thread decides.
SessionWorks ==
    \/ Spawn \/ StartReaders \/ WaitReaps \/ MarkReaped
    \/ SessionTakesClaim \/ SessionDeclines \/ SessionKills \/ SessionKillFails
    \/ Reap \/ SkipReap \/ JoinReaders \/ Decide \/ DropJoins \/ Return

\* Failures the operating system may raise, and need not.
Surprises == SpawnFails \/ SessionFails \/ ReapFails
             \/ \E s \in Streams : ReadFails(s)

\* run() has returned and every process it started is gone.
Finished ==
    /\ pc = "returned" /\ \A p \in Processes : ~Alive(p)
    /\ UNCHANGED vars

Next == \/ Environment \/ SessionWorks \/ WaitTimesOut \/ Surprises
        \/ \E s \in Streams : ReaderWorks(s)
        \/ Finished

Spec == Init /\ [][Next]_vars

\* Threads that can run do run. Nothing obliges the child or a descendant to
\* write, to close a stream or to exit.
UntimedSpec == /\ Spec
               /\ WF_vars(SessionWorks)
               /\ \A s \in Streams : WF_vars(ReaderWorks(s))
-----------------------------------------------------------------------------
\* The lock, the claim states and the hand-back of a failed kill together give
\* what the module documentation of signal.rs promises: one kill, and none by a
\* reader once the session has recorded the reap.
KR == INSTANCE KillRight WITH
          landed <- [i \in DOMAIN kills |-> kills[i].by]
ImplementsKillRight == KR!Spec

\* A result of Ok holds everything that was written: each stream was read to its
\* end within the limit, and the child ended by itself and successfully.
CaptureIsComplete ==
    pc = "returned" /\ result = "Ok" =>
        /\ \A s \in Streams : got[s] = wrote[s] /\ got[s] <= Limit
        /\ status = "success"

\* An overrun that run() waited for is reported as one: the exit status of the
\* child it killed never hides it, and no stream is accused that did not overrun.
OverrunIsReported ==
    pc = "returned" =>
        /\ "tooLarge" \in {reader[s] : s \in Streams} =>
               result \in {"TooLargeStdout", "TooLargeStderr", "Timeout", "Io"}
        /\ result = "TooLargeStdout" => wrote["stdout"] > Limit
        /\ result = "TooLargeStderr" => wrote["stderr"] > Limit

\* What Drop promises on every exit path: the child is reaped (unless wait(2)
\* itself failed) and, unless the kill failed, no member of the group is alive
\* and no reader thread is left running.
NothingLeftBehind ==
    pc = "returned" /\ child # "unspawned" =>
        /\ reaped
        /\ ~WaitMayFail => child = "reaped"
        /\ released \/ ~KillMayFail =>
               /\ \A d \in Descendants : desc[d] # "member"
               /\ \A s \in Streams : ~(reader[s] \in {"reading", "overrun"})

\* The claim "prevents a reader from aiming a recycled process ID".
ReaderNeverHitsRecycledPid ==
    \A i \in DOMAIN kills : kills[i].by = Reader => kills[i].hit # "foreign"

\* run() waits for a process that its kill did not reach: the child itself, after
\* Drop's kill failed too, or a descendant that left the group with a pipe.
Outlived ==
    \/ pc = "dropReap" /\ ~released /\ child = "running"
    \/ /\ pc \in {"joinStdout", "joinStderr", "dropJoin"}
       /\ \E s \in Streams, d \in Descendants : d \in Writers(s) /\ desc[d] = "escaped"

\* A thread finds what its next step needs.
SessionCanGoOn ==
    \/ pc \in {"spawn", "startStdout", "startStderr", "decide"}
    \/ pc = "wait" /\ child = "zombie"
    \/ pc \in DOMAIN AfterMark /\ holder = NoThread
    \/ pc \in DOMAIN AfterRelease /\ holder \in {NoThread, "session"}
    \/ pc \in DOMAIN AfterReap /\ ~reaped /\ child = "zombie"
    \/ pc = "dropReap" /\ reaped
    \/ pc = "joinStdout" /\ Ended("stdout")
    \/ pc = "joinStderr" /\ Ended("stderr")
    \/ pc = "dropJoin" /\ (released /\ Outstanding # {} =>
           Ended(IF "stdout" \in Outstanding THEN "stdout" ELSE "stderr"))

ReaderCanGoOn(s) ==
    \/ /\ reader[s] = "reading"
       /\ got[s] = Take \/ got[s] < wrote[s] \/ Writers(s) = {}
    \/ reader[s] = "overrun" /\ holder \in {NoThread, s}

\* What can keep a call waiting: a child it has still time for, or a process that no
\* kill reached, and never its own threads, for the claim's lock, for a join or for a
\* child that a kill is owed to.  And while a join waits, the only processes that can
\* hold a pipe open are descendants that left the group: the release before it got rid
\* of every other (child.rs, join_readers and Drop; signal.rs, SignalClaim::signal).
OnlyOthersKeepItWaiting ==
    /\ \/ pc = "returned" \/ SessionCanGoOn \/ \E s \in Streams : ReaderCanGoOn(s)
       \/ pc = "wait" /\ child = "running"
       \/ Outlived
    /\ pc \in {"joinStdout", "joinStderr", "dropJoin"} /\ (pc = "dropJoin" => released) =>
           \A s \in Streams : \A p \in Writers(s) : p # "child" /\ desc[p] = "escaped"

\* run() returns if a session that stays in its wait is eventually past its
\* deadline, whatever fails and whatever the child does: the one wait that can go
\* on for ever is for a process no kill reached, and once that ends so does run().
RunReturns == WF_vars(WaitTimesOut) => <>(pc = "returned") \/ <>[]Outlived

\* An overrun ends the run without help from the timeout: unless the run is ending
\* anyway its reader asks for the kill, and the kill, if it lands, is what ends the
\* session's wait.
OverrunReturns ==
    LET over == pc = "returned" \/ Outlived IN
    /\ (\E s \in Streams : reader[s] = "overrun") ~> (over \/ holder \in Streams)
    /\ (\E i \in DOMAIN kills : kills[i].by = Reader) ~> over
=============================================================================

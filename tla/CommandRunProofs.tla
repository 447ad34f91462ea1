-------------------------- MODULE CommandRunProofs --------------------------
(***************************************************************************)
(* Proofs about CommandRun, for every set of descendants, every limit and  *)
(* pipe capacity, and whichever system calls may fail.                     *)
(***************************************************************************)
EXTENDS CommandRun, FiniteSetTheorems, TLAPS

(***************************************************************************)
(* Type correctness.                                                       *)
(***************************************************************************)

\* The step of a thread into its kill, and out of it, keep the types of what
\* they touch. A thread holds the lock only where release_process_group is
\* called, or as a reader that overran.
HolderOK == holder = "session" => pc \in DOMAIN AfterRelease

LEMMA ClaimTypes ==
    ASSUME TypeOK, NEW t \in Threads, TakeClaim(t) \/ KillFails(t)
    PROVE  /\ claim' \in ClaimStates /\ previous' \in ClaimStates
           /\ holder' \in Threads \cup {NoThread}
BY DEF TypeOK, TakeClaim, KillFails, NextClaim, ClaimStates, Threads, Streams

LEMMA KillTypes ==
    ASSUME TypeOK, NEW t \in Threads, KillSucceeds(t)
    PROVE  /\ child' \in {"unspawned", "running", "zombie", "reaped"}
           /\ status' \in {"none", "success", "failure", "signal"}
           /\ desc' \in [Descendants -> {"unborn", "member", "escaped", "gone"}]
           /\ open' \in [Processes -> SUBSET Streams]
           /\ kills' \in Seq(Kills)
           /\ holder' = NoThread /\ previous' \in ClaimStates
           /\ UNCHANGED <<claim, recycled>>
<1>1. [by |-> Role(t), hit |-> Hit,
       reap |-> IF reaped THEN "recorded"
                ELSE IF child = "reaped" THEN "silent" ELSE "unreaped"] \in Kills
  BY DEF Kills, Role, Hit, Signallers
<1>2. kills' \in Seq(Kills)
  BY <1>1 DEF KillSucceeds, TypeOK
<1>3. open' \in [Processes -> SUBSET Streams]
  BY DEF KillSucceeds, Bury, TypeOK
<1>4. QED
  BY <1>2, <1>3 DEF KillSucceeds, TypeOK, ClaimStates

LEMMA EnvironmentTypes ==
    ASSUME TypeOK, Environment PROVE TypeOK'
<1>1. ASSUME NEW p \in Processes, NEW s \in Streams, Write(p, s) PROVE TypeOK'
  <2>1. /\ wrote' \in [Streams -> Nat]
        /\ \A r \in Streams : wrote'[r] <= MaxWritten[r]
    BY <1>1, CommandRunAssumption DEF Write, TypeOK, Streams
  <2>2. QED
    BY <1>1, <2>1 DEF Write, TypeOK, claimVars, kernelVars, sessionVars
<1>2. ASSUME NEW p \in Processes, NEW s \in Streams, Close(p, s) PROVE TypeOK'
  BY <1>2 DEF Close, TypeOK, claimVars, streamVars, sessionVars
<1>3. ASSUME NEW st \in {"success", "failure", "signal"}, ChildEnds(st) PROVE TypeOK'
  BY <1>3 DEF ChildEnds, Bury, TypeOK, claimVars, streamVars, sessionVars
<1>4. ASSUME NEW d \in Descendants, DescendantEnds(d) PROVE TypeOK'
  BY <1>4 DEF DescendantEnds, Bury, TypeOK, claimVars, streamVars, sessionVars
<1>5. ASSUME NEW d \in Descendants, Escape(d) PROVE TypeOK'
  BY <1>5 DEF Escape, TypeOK, claimVars, streamVars, sessionVars
<1>6. ASSUME NEW d \in Descendants, NEW p \in Processes, Fork(p, d) PROVE TypeOK'
  BY <1>6 DEF Fork, TypeOK, Processes, claimVars, streamVars, sessionVars
<1>7. CASE Recycle
  BY <1>7 DEF Recycle, TypeOK, claimVars, streamVars, sessionVars
<1>8. QED
  BY <1>1, <1>2, <1>3, <1>4, <1>5, <1>6, <1>7 DEF Environment

LEMMA ReaderTypes ==
    ASSUME TypeOK, NEW s \in Streams, ReaderWorks(s) \/ ReadFails(s) PROVE TypeOK'
<1>0. s \in Threads
  BY DEF Threads
<1>1. CASE ReadByte(s)
  BY <1>1, CommandRunAssumption
     DEF ReadByte, Take, TypeOK, claimVars, kernelVars, sessionVars
<1>2. CASE FinishReading(s)
  BY <1>2 DEF FinishReading, TypeOK, ReaderStates, claimVars, kernelVars, sessionVars
<1>3. CASE ReadFails(s)
  BY <1>3 DEF ReadFails, TypeOK, ReaderStates, claimVars, kernelVars, sessionVars
<1>4. CASE ReaderTakesClaim(s)
  BY <1>0, <1>4, ClaimTypes
     DEF ReaderTakesClaim, TypeOK, kernelVars, streamVars, sessionVars
<1>5. CASE ReaderDeclines(s)
  BY <1>5 DEF ReaderDeclines, DeclineClaim, Overran, TypeOK, ReaderStates,
              claimVars, kernelVars, sessionVars
<1>6. CASE KillSucceeds(s) /\ Overran(s)
  BY <1>0, <1>6, KillTypes DEF Overran, TypeOK, ReaderStates, sessionVars, Threads
<1>7. CASE KillFails(s) /\ Overran(s)
  BY <1>0, <1>7, ClaimTypes
     DEF KillFails, Overran, TypeOK, ReaderStates, kernelVars, sessionVars
<1>8. QED
  BY <1>1, <1>2, <1>3, <1>4, <1>5, <1>6, <1>7 DEF ReaderWorks, ReaderKills

LEMMA SessionTypes ==
    ASSUME TypeOK, HolderOK,
           SessionWorks \/ WaitTimesOut \/ SpawnFails \/ SessionFails \/ ReapFails
    PROVE  TypeOK'
<1> USE DEF Goto, GiveUp, Positions, Results
<1>0. "session" \in Threads
  BY DEF Threads
<1>1. CASE Spawn
  BY <1>1 DEF Spawn, TypeOK, claimVars, streamVars
<1>2. CASE StartReaders
  <2>1. ASSUME NEW s \in Streams, NEW next \in Positions, StartReader(s, next)
        PROVE  TypeOK'
    BY <2>1 DEF StartReader, TypeOK, ReaderStates, claimVars, kernelVars
  <2>2. QED
    BY <1>2, <2>1 DEF StartReaders, Streams
<1>3. CASE WaitReaps \/ SessionFails \/ WaitTimesOut \/ SpawnFails
  BY <1>3 DEF WaitReaps, SessionFails, WaitTimesOut, SpawnFails, TypeOK,
              claimVars, streamVars, kernelVars
<1>4. CASE MarkReaped
  BY <1>4 DEF MarkReaped, AfterMark, ClaimAfterReap, ClaimStates, TypeOK,
              kernelVars, streamVars
<1>5. CASE SessionTakesClaim
  BY <1>0, <1>5, ClaimTypes
     DEF SessionTakesClaim, TypeOK, kernelVars, streamVars, sessionVars
<1>6. CASE SessionDeclines
  BY <1>6 DEF SessionDeclines, DeclineClaim, Released, AfterRelease, TypeOK,
              claimVars, kernelVars, streamVars
<1>7. CASE SessionKills
  <2>1. pc' \in Positions /\ released' \in BOOLEAN /\ result' \in Results
    BY <1>7 DEF SessionKills, KillSucceeds, HolderOK, Released, AfterRelease, TypeOK
  <2>2. KillSucceeds("session") /\ UNCHANGED <<streamVars, reaped, joined>>
    BY <1>7 DEF SessionKills
  <2>3. QED
    BY <1>0, <2>1, <2>2, KillTypes DEF TypeOK, streamVars
<1>8. CASE SessionKillFails
  BY <1>0, <1>8, ClaimTypes
     DEF SessionKillFails, KillFails, TypeOK, kernelVars, streamVars
<1>9. CASE Reap \/ ReapFails \/ SkipReap
  BY <1>9 DEF Reap, ReapFails, SkipReap, AfterReap, TypeOK,
              claimVars, streamVars, kernelVars
<1>10. CASE JoinReaders \/ DropJoins \/ Return
  <2>1. joined' \in SUBSET Streams
    BY <1>10 DEF JoinReaders, DropJoins, Return, Outstanding, Streams, TypeOK
  <2>2. pc' \in Positions
    BY <1>10 DEF JoinReaders, DropJoins, Return, TypeOK
  <2>3. UNCHANGED <<claimVars, kernelVars, streamVars, result, reaped, released,
                    kills>>
    BY <1>10 DEF JoinReaders, DropJoins, Return
  <2>4. QED
    BY <2>1, <2>2, <2>3 DEF TypeOK, claimVars, streamVars, kernelVars
<1>11. CASE Decide
  BY <1>11 DEF Decide, Outcome, TypeOK, claimVars, streamVars, kernelVars
<1>12. QED
  BY <1>1, <1>2, <1>3, <1>4, <1>5, <1>6, <1>7, <1>8, <1>9, <1>10, <1>11
     DEF SessionWorks

(***************************************************************************)
(* The claim. Beyond the types: the lock's holder won a claim that nobody  *)
(* had spent, and the claim's state says whether the reap is on record and *)
(* whether a kill has landed.                                              *)
(***************************************************************************)
ClaimInv ==
    /\ HolderOK
    /\ reaped <=> claim \in {"Reaped", "Sealed"}
    /\ claim \in {"Unsignalled", "Reaped"} => kills = <<>> /\ holder = NoThread
    /\ holder # NoThread =>
           /\ kills = <<>>
           /\ MaySignal(previous, Role(holder))
           /\ claim = NextClaim(previous)

IInv == TypeOK /\ ClaimInv

LEMMA InitEstablishes == Init => IInv
<1> SUFFICES ASSUME Init PROVE TypeOK /\ ClaimInv
  BY DEF IInv
<1>1. kills \in Seq(Kills)
  BY DEF Init
<1>2. TypeOK
  <2>1. /\ wrote \in [Streams -> Nat] /\ \A s \in Streams : wrote[s] <= MaxWritten[s]
        /\ got \in [Streams -> 0..Limit + 1]
        /\ reader \in [Streams -> ReaderStates] /\ joined \in SUBSET Streams
    BY CommandRunAssumption DEF Init, ReaderStates, Streams
  <2>2. /\ pc \in Positions /\ result \in Results /\ claim \in ClaimStates
        /\ previous \in ClaimStates /\ holder \in Threads \cup {NoThread}
    BY DEF Init, Positions, Results, ClaimStates
  <2>3. QED
    BY <1>1, <2>1, <2>2 DEF Init, TypeOK
<1>3. ClaimInv
  BY DEF Init, ClaimInv, HolderOK, NoThread
<1>4. QED
  BY <1>2, <1>3

LEMMA EnvironmentKeepsClaim ==
    ASSUME IInv, Environment PROVE ClaimInv' /\ UNCHANGED <<kills, reaped>>
<1>1. UNCHANGED <<claimVars, sessionVars, kills>>
  BY DEF Environment, Write, Close, ChildEnds, DescendantEnds, Escape, Fork, Recycle
<1>2. QED
  BY <1>1 DEF IInv, ClaimInv, HolderOK, claimVars, sessionVars, Role

LEMMA ReaderKeepsClaim ==
    ASSUME IInv, NEW s \in Streams, ReaderWorks(s) \/ ReadFails(s)
    PROVE  ClaimInv'
<1> USE DEF IInv, ClaimInv, HolderOK
<1>1. s # "session" /\ s # NoThread
  BY DEF Streams, NoThread
<1>2. CASE ReadByte(s) \/ FinishReading(s) \/ ReadFails(s) \/ ReaderDeclines(s)
  BY <1>2 DEF ReadByte, FinishReading, ReadFails, ReaderDeclines, DeclineClaim,
              Overran, claimVars, sessionVars, Role
<1>3. CASE ReaderTakesClaim(s)
  BY <1>1, <1>3, CommandRunAssumption
     DEF ReaderTakesClaim, TakeClaim, MaySignal, NextClaim, Role, sessionVars
<1>4. CASE KillSucceeds(s) /\ Overran(s)
  BY <1>1, <1>4 DEF KillSucceeds, Overran, NextClaim, sessionVars, NoThread
<1>5. CASE KillFails(s) /\ Overran(s)
  BY <1>1, <1>5, CommandRunAssumption
     DEF KillFails, Overran, MaySignal, NextClaim, Role, sessionVars, NoThread
<1>6. QED
  BY <1>2, <1>3, <1>4, <1>5 DEF ReaderWorks, ReaderKills

LEMMA SessionKeepsClaim ==
    ASSUME IInv,
           SessionWorks \/ WaitTimesOut \/ SpawnFails \/ SessionFails \/ ReapFails
    PROVE  ClaimInv'
<1> USE DEF IInv, ClaimInv, HolderOK
<1>0. "session" # NoThread
  BY DEF NoThread
<1>1. CASE Spawn \/ StartReaders \/ WaitReaps \/ SessionFails \/ WaitTimesOut
           \/ SpawnFails \/ Reap \/ ReapFails \/ SkipReap
  <2>1. UNCHANGED <<claimVars, reaped, kills>> /\ pc \notin DOMAIN AfterRelease
    BY <1>1 DEF Spawn, StartReaders, StartReader, WaitReaps, SessionFails,
                WaitTimesOut, SpawnFails, Reap, ReapFails, SkipReap, AfterReap,
                AfterRelease
  <2>2. QED
    BY <2>1 DEF claimVars, Role
<1>2. CASE JoinReaders \/ DropJoins \/ Return \/ Decide
  <2>1. UNCHANGED <<claimVars, reaped, kills>> /\ pc \notin DOMAIN AfterRelease
    BY <1>2 DEF JoinReaders, DropJoins, Return, Decide, AfterRelease
  <2>2. QED
    BY <2>1 DEF claimVars, Role
<1>3. CASE MarkReaped
  <2>1. /\ holder = NoThread /\ UNCHANGED <<holder, previous, kills>>
        /\ claim' = ClaimAfterReap(claim) /\ reaped' = TRUE
    BY <1>3 DEF MarkReaped
  <2>2. QED
    BY <1>0, <2>1 DEF ClaimAfterReap, TypeOK, ClaimStates
<1>4. CASE SessionTakesClaim
  BY <1>0, <1>4 DEF SessionTakesClaim, TakeClaim, MaySignal, NextClaim,
                    sessionVars
<1>5. CASE SessionDeclines
  BY <1>0, <1>5 DEF SessionDeclines, DeclineClaim, claimVars
<1>6. CASE SessionKills
  BY <1>0, <1>6 DEF SessionKills, KillSucceeds, NextClaim
<1>7. CASE SessionKillFails
  BY <1>0, <1>7 DEF SessionKillFails, KillFails, MaySignal, NextClaim
<1>8. QED
  BY <1>1, <1>2, <1>3, <1>4, <1>5, <1>6, <1>7 DEF SessionWorks

LEMMA StepKeepsIInv == IInv /\ [Next]_vars => IInv'
<1> SUFFICES ASSUME IInv, [Next]_vars PROVE TypeOK' /\ ClaimInv'
  BY DEF IInv
<1>1. TypeOK /\ HolderOK
  BY DEF IInv, ClaimInv
<1>2. CASE Environment
  BY <1>1, <1>2, EnvironmentTypes, EnvironmentKeepsClaim
<1>3. ASSUME NEW s \in Streams, ReaderWorks(s) \/ ReadFails(s)
      PROVE  TypeOK' /\ ClaimInv'
  BY <1>1, <1>3, ReaderTypes, ReaderKeepsClaim
<1>4. CASE SessionWorks \/ WaitTimesOut \/ SpawnFails \/ SessionFails \/ ReapFails
  BY <1>1, <1>4, SessionTypes, SessionKeepsClaim
<1>5. CASE UNCHANGED vars
  BY <1>1, <1>5 DEF IInv, vars, TypeOK, ClaimInv, HolderOK, Role, claimVars,
                    kernelVars, streamVars, sessionVars
<1>6. QED
  BY <1>2, <1>3, <1>4, <1>5 DEF Next, Surprises, Finished

\* The inductive invariant: types, and what the lock's holder, the claim's state,
\* the session's own `reaped` and the kills that landed say of each other.
THEOREM ClaimInvariant == Spec => []IInv
BY InitEstablishes, StepKeepsIInv, PTL DEF Spec

\* Every variable of a run keeps its type, whatever fails.
THEOREM TypeCorrect == Spec => []TypeOK
<1>1. IInv => TypeOK
  BY DEF IInv
<1>2. QED
  BY <1>1, ClaimInvariant, PTL

(***************************************************************************)
(* Refinement of KillRight.                                                *)
(***************************************************************************)

LEMMA KillRefines ==
    ASSUME IInv, NEW t \in Threads, KillSucceeds(t), reaped' = reaped
    PROVE  KR!Kill(Role(t))
<1> DEFINE k == [by |-> Role(t), hit |-> Hit,
                 reap |-> IF reaped THEN "recorded"
                          ELSE IF child = "reaped" THEN "silent" ELSE "unreaped"]
<1>1. holder = t /\ holder # NoThread
  BY DEF KillSucceeds, Threads, Streams, NoThread
<1>2. kills = <<>> /\ kills' = <<k>>
  BY <1>1 DEF IInv, ClaimInv, KillSucceeds
<1>3. [i \in DOMAIN kills |-> kills[i].by] = <<>>
  BY <1>2
<1>4. [i \in DOMAIN kills' |-> kills'[i].by] = <<Role(t)>>
  <2>1. DOMAIN kills' = 1..1 /\ kills'[1] = k
    BY <1>2
  <2>2. k.by = Role(t)
    OBVIOUS
  <2> HIDE DEF k
  <2>3. QED
    BY <2>1, <2>2
<1>5. Role(t) = Reader => ~reaped
  BY <1>1, CommandRunAssumption
     DEF IInv, TypeOK, ClaimInv, MaySignal, NextClaim
<1>6. QED
  BY <1>3, <1>4, <1>5 DEF KR!Kill

LEMMA StepRefines == IInv /\ [Next]_vars => [KR!Next]_(KR!vars)
<1> SUFFICES ASSUME IInv, [Next]_vars PROVE [KR!Next]_(KR!vars)
  OBVIOUS
<1>1. CASE UNCHANGED <<kills, reaped>>
  BY <1>1 DEF KR!vars
<1>2. ASSUME NEW t \in Threads, KillSucceeds(t), reaped' = reaped
      PROVE  KR!Next
  BY <1>2, KillRefines DEF KR!Next, Role
<1>3. CASE MarkReaped
  <2>1. CASE reaped
    BY <1>1, <1>3, <2>1 DEF MarkReaped
  <2>2. CASE ~reaped
    BY <1>3, <2>2 DEF MarkReaped, KR!Next, KR!RecordReap
  <2>3. QED
    BY <2>1, <2>2
<1>4. CASE Environment
  BY <1>1, <1>4, EnvironmentKeepsClaim
<1>5. ASSUME NEW s \in Streams, ReaderWorks(s) \/ ReadFails(s)
      PROVE  [KR!Next]_(KR!vars)
  <2>1. s \in Threads
    BY DEF Threads
  <2>2. CASE KillSucceeds(s) /\ Overran(s)
    BY <1>2, <2>1, <2>2 DEF Overran, sessionVars
  <2>3. CASE ~(KillSucceeds(s) /\ Overran(s))
    BY <1>1, <1>5, <2>3
       DEF ReaderWorks, ReaderKills, ReadByte, FinishReading, ReaderTakesClaim,
           ReaderDeclines, ReadFails, KillFails, Overran, sessionVars
  <2>4. QED
    BY <2>2, <2>3
<1>6. CASE SessionWorks \/ WaitTimesOut \/ SpawnFails \/ SessionFails \/ ReapFails
  <2>1. CASE SessionKills
    BY <1>2, <2>1 DEF SessionKills, Threads
  <2>2. CASE ~MarkReaped /\ ~SessionKills
    <3>1. UNCHANGED <<kills, reaped>>
      BY <1>6, <2>2
         DEF SessionWorks, Spawn, StartReaders, StartReader, WaitReaps,
             SessionFails, WaitTimesOut, SpawnFails, SessionTakesClaim,
             SessionDeclines, SessionKillFails, KillFails, Reap, ReapFails,
             SkipReap, JoinReaders, DropJoins, Return, Decide, sessionVars
    <3>2. QED
      BY <1>1, <3>1
  <2>3. QED
    BY <1>3, <2>1, <2>2
<1>7. CASE UNCHANGED vars
  BY <1>1, <1>7 DEF vars, sessionVars
<1>8. QED
  BY <1>4, <1>5, <1>6, <1>7 DEF Next, Surprises, Finished

\* The lock, the four claim states and the hand-back of a failed kill implement
\* the abstract right to kill: at most one kill lands, and a reader's never
\* lands once the session has recorded the reap.
THEOREM KillRightRefinement == Spec => ImplementsKillRight
<1>1. Init => KR!Init
  BY DEF Init, KR!Init
<1>2. QED
  BY <1>1, StepRefines, ClaimInvariant, PTL
     DEF Spec, ImplementsKillRight, KR!Spec

(***************************************************************************)
(* What a run has to show for itself when it returns: the capture, the     *)
(* verdict on it, and what is left behind.                                 *)
(***************************************************************************)

Unstarted == \A s \in Streams : reader[s] = "unstarted"

(***************************************************************************)
(* What a reader's state says of its stream.                               *)
(***************************************************************************)
WholeOrCut(s) ==
    /\ got[s] <= wrote[s]
    /\ reader[s] = "bytes" => got[s] = wrote[s] /\ got[s] <= Limit /\ Writers(s) = {}
    /\ reader[s] \in {"overrun", "tooLarge"} => got[s] > Limit
    /\ holder = s => reader[s] = "overrun"
    /\ s \in joined => Ended(s)

\* Readers start late, and only over a child that is there.
Starts ==
    /\ pc \in {"spawn", "startStdout"} => Unstarted
    /\ pc = "startStderr" => reader["stderr"] = "unstarted"
    /\ pc = "spawn" => child = "unspawned"
    /\ child = "unspawned" => pc \in {"spawn", "returned"} /\ Unstarted

ReaderInv == Starts /\ \A s \in Streams : WholeOrCut(s)

(***************************************************************************)
(* What the session's position says of the reap, the release and the joins. *)
(***************************************************************************)
Reaps ==
    /\ pc \in {"markExit", "releaseExit", "joinStdout", "joinStderr", "decide"} =>
           child = "reaped"
    /\ pc \in {"spawn", "startStdout", "startStderr", "wait", "markExit", "markTimeout",
               "dropMark"} => ~reaped
    /\ pc \in {"dropJoin", "returned"} => reaped \/ child = "unspawned"
    /\ ~WaitMayFail /\ (reaped \/ pc \in {"markTimeout", "dropMark"}) => child = "reaped"

Releases ==
    /\ ~KillMayFail /\ pc \in {"dropReap", "dropMark", "dropJoin", "returned"} =>
           released \/ child = "unspawned"
    /\ released => kills # <<>>
    /\ claim \in {"Signalled", "Sealed"} /\ holder = NoThread => kills # <<>>
    /\ pc \in {"joinStdout", "joinStderr"} => kills # <<>>
    /\ kills # <<>> =>
           child \in {"zombie", "reaped"} /\ \A d \in Descendants : desc[d] # "member"

\* The kernel closes what a process that has ended held open.
OnlyTheLivingWrite == \A p \in Processes : open[p] # {} => Alive(p)

Joins ==
    /\ pc \in {"joinStderr", "decide"} => Ended("stdout")
    /\ pc = "decide" => Ended("stderr")
    /\ pc = "returned" /\ released => Outstanding = {}

(***************************************************************************)
(* What a verdict says of what it was passed on.                           *)
(***************************************************************************)
Early == {"spawn", "startStdout", "startStderr", "wait", "markExit", "releaseExit",
          "joinStdout", "joinStderr", "decide"}

Verdicts ==
    /\ result = "none" => pc \in Early
    /\ result \in {"Ok", "NonZero"} => \A s \in Streams : reader[s] = "bytes"
    /\ result = "Ok" => child = "reaped" /\ status = "success"
    /\ result = "TooLargeStdout" => reader["stdout"] = "tooLarge"
    /\ result = "TooLargeStderr" => reader["stderr"] = "tooLarge"

EndInv == ReaderInv /\ Reaps /\ Releases /\ OnlyTheLivingWrite /\ Joins /\ Verdicts

LEMMA EndInit == Init => EndInv
<1> SUFFICES ASSUME Init PROVE EndInv
  OBVIOUS
<1>1. ReaderInv
  BY DEF Init, ReaderInv, Starts, WholeOrCut, Unstarted, Streams, NoThread, Ended
<1>2. Reaps /\ Releases /\ Joins /\ OnlyTheLivingWrite
  BY DEF Init, Reaps, Releases, Joins, OnlyTheLivingWrite
<1>3. Verdicts
  BY DEF Init, Verdicts, Early
<1>4. QED
  BY <1>1, <1>2, <1>3 DEF EndInv

(***************************************************************************)
(* The environment.                                                        *)
(***************************************************************************)

LEMMA EnvironmentKeepsReaders ==
    ASSUME IInv, EndInv, Environment PROVE ReaderInv'
<1> USE DEF IInv, TypeOK, EndInv, ReaderInv
<1>1. UNCHANGED <<claimVars, sessionVars, got, reader>>
  BY DEF Environment, Write, Close, ChildEnds, DescendantEnds, Escape, Fork, Recycle,
         streamVars
<1>2. Starts'
  <2>1. child = "unspawned" <=> child' = "unspawned"
    BY DEF Environment, Write, Close, ChildEnds, DescendantEnds, Escape, Fork, Recycle,
           kernelVars
  <2>2. QED
    BY <1>1, <2>1 DEF Starts, Unstarted, sessionVars
<1>3. ASSUME NEW s \in Streams PROVE WholeOrCut(s)'
  <2>1. wrote'[s] \in Nat /\ wrote'[s] >= wrote[s]
    <3>1. ASSUME NEW p \in Processes, NEW r \in Streams, Write(p, r)
          PROVE  wrote'[s] \in Nat /\ wrote'[s] >= wrote[s]
      <4>1. wrote[r] \in Nat /\ wrote[s] \in Nat /\ wrote' = [wrote EXCEPT ![r] = @ + 1]
        BY <3>1 DEF Write
      <4>2. QED
        BY <4>1
    <3>2. CASE UNCHANGED wrote
      BY <3>2
    <3>3. QED
      BY <3>1, <3>2 DEF Environment, Close, ChildEnds, DescendantEnds, Escape, Fork,
                        Recycle, streamVars
  <2>2. ASSUME Writers(s) = {} PROVE Writers(s)' = {} /\ wrote'[s] = wrote[s]
    BY <2>2 DEF Environment, Write, Close, ChildEnds, DescendantEnds, Escape, Fork,
           Recycle, Bury, Writers, streamVars, kernelVars, Processes
  <2>3. /\ UNCHANGED <<got, reader, holder, joined>>
        /\ got[s] \in Nat /\ wrote[s] \in Nat /\ Limit \in Nat
    BY <1>1, CommandRunAssumption DEF claimVars, sessionVars
  <2>4. WholeOrCut(s)
    OBVIOUS
  <2> HIDE DEF IInv, TypeOK, EndInv, ReaderInv
  <2>5. QED
    BY <2>1, <2>2, <2>3, <2>4 DEF WholeOrCut, Ended
<1>4. QED
  BY <1>2, <1>3

LEMMA EnvironmentKeepsRest ==
    ASSUME IInv, EndInv, Environment
    PROVE  Reaps' /\ Releases' /\ OnlyTheLivingWrite' /\ Joins' /\ Verdicts'
<1> USE DEF IInv, TypeOK, EndInv
<1>1. UNCHANGED <<claimVars, sessionVars, got, reader, kills>>
  BY DEF Environment, Write, Close, ChildEnds, DescendantEnds, Escape, Fork, Recycle,
         streamVars
<1>2. /\ child = "unspawned" <=> child' = "unspawned"
      /\ child # "running" => UNCHANGED <<child, status>>
  BY DEF Environment, Write, Close, ChildEnds, DescendantEnds, Escape, Fork, Recycle,
         kernelVars
<1>3. Reaps'
  BY <1>1, <1>2 DEF Reaps, sessionVars
<1>4. Releases'
  <2>1. ASSUME child # "running", \A d \in Descendants : desc[d] # "member"
        PROVE  \A d \in Descendants : desc'[d] # "member"
    BY <2>1 DEF Environment, Write, Close, ChildEnds, DescendantEnds, Escape, Fork,
           Recycle, Alive, kernelVars, Processes
  <2>2. QED
    BY <1>1, <1>2, <2>1 DEF Releases, sessionVars, claimVars
<1>5. OnlyTheLivingWrite'
  BY CommandRunAssumption
     DEF OnlyTheLivingWrite, Environment, Write, Close, ChildEnds, DescendantEnds,
         Escape, Fork, Recycle, Alive, Bury, kernelVars, Processes
<1>6. Joins' /\ Verdicts'
  BY <1>1, <1>2 DEF Joins, Verdicts, Ended, Outstanding, sessionVars
<1>7. QED
  BY <1>3, <1>4, <1>5, <1>6
(***************************************************************************)
(* A reader.                                                               *)
(***************************************************************************)

\* What every step of a reader leaves alone, and what it has to start from.
LEMMA ReaderFrame ==
    ASSUME IInv, EndInv, NEW s \in Streams, ReaderWorks(s) \/ ReadFails(s)
    PROVE  /\ UNCHANGED <<sessionVars, wrote>>
           /\ reader[s] \in {"reading", "overrun"}
           /\ child # "unspawned"
           /\ \A r \in Streams \ {s} : reader'[r] = reader[r] /\ got'[r] = got[r]
           /\ holder' \in {holder, s, NoThread}
<1> USE DEF IInv, TypeOK, EndInv
<1>1. /\ UNCHANGED <<sessionVars, wrote>>
      /\ \A r \in Streams \ {s} : reader'[r] = reader[r] /\ got'[r] = got[r]
  BY DEF ReaderWorks, ReadByte, FinishReading, ReadFails, ReaderTakesClaim,
         ReaderDeclines, ReaderKills, Overran, streamVars
<1>2. holder' \in {holder, s, NoThread}
  BY DEF ReaderWorks, ReadByte, FinishReading, ReadFails, ReaderTakesClaim, TakeClaim,
         ReaderDeclines, DeclineClaim, ReaderKills, KillSucceeds, KillFails, claimVars
<1>3. reader[s] \in {"reading", "overrun"}
  BY DEF ReaderWorks, ReadByte, FinishReading, ReadFails, ReaderTakesClaim,
         ReaderDeclines, ReaderKills, KillSucceeds, KillFails, ReaderInv, WholeOrCut
<1>4. child # "unspawned"
  BY <1>3 DEF ReaderInv, Starts, Unstarted
<1>5. QED
  BY <1>1, <1>2, <1>3, <1>4

\* A kill, whoever sends it, ends the child and every member of its group.
LEMMA KillEnds ==
    ASSUME IInv, EndInv, NEW t \in Threads, KillSucceeds(t), child # "unspawned"
    PROVE  /\ kills' # <<>>
           /\ child' \in {"zombie", "reaped"}
           /\ child # "running" => UNCHANGED <<child, status>>
           /\ \A d \in Descendants : desc'[d] # "member"
           /\ \A s \in Streams : Writers(s) = {} => Writers(s)' = {}
           /\ OnlyTheLivingWrite'
<1> USE DEF IInv, TypeOK, EndInv
<1>1. kills' # <<>>
  <2>1. kills = <<>>
    BY DEF ClaimInv, KillSucceeds, Threads, Streams, NoThread
  <2>2. QED
    BY <2>1 DEF KillSucceeds
<1>2. /\ child' \in {"zombie", "reaped"}
      /\ child # "running" => UNCHANGED <<child, status>>
      /\ \A d \in Descendants : desc'[d] # "member"
  BY DEF KillSucceeds
<1>3. \A s \in Streams : Writers(s) = {} => Writers(s)' = {}
  BY DEF KillSucceeds, Bury, Writers
<1>4. OnlyTheLivingWrite'
  BY <1>2, CommandRunAssumption
     DEF KillSucceeds, Bury, OnlyTheLivingWrite, Alive, Processes
<1>5. QED
  BY <1>1, <1>2, <1>3, <1>4

LEMMA ReaderKeepsReaders ==
    ASSUME IInv, EndInv, NEW s \in Streams, ReaderWorks(s) \/ ReadFails(s)
    PROVE  ReaderInv'
<1> USE DEF IInv, TypeOK, EndInv, ReaderInv
<1>0. s \in Threads
  BY DEF Threads
<1>1. child' # "unspawned"
  BY <1>0, ReaderFrame, KillEnds
     DEF ReaderWorks, ReadByte, FinishReading, ReadFails, ReaderTakesClaim,
         ReaderDeclines, ReaderKills, KillFails, kernelVars
<1>2. Starts'
  BY <1>1, ReaderFrame DEF Starts, Unstarted, sessionVars, Streams
<1>3. ASSUME NEW r \in Streams PROVE Writers(r) = {} => Writers(r)' = {}
  BY <1>0, ReaderFrame, KillEnds
     DEF ReaderWorks, ReadByte, FinishReading, ReadFails, ReaderTakesClaim,
         ReaderDeclines, ReaderKills, KillFails, kernelVars, Writers
<1>4. ASSUME NEW r \in Streams \ {s} PROVE WholeOrCut(r)'
  <2>1. holder' = r => holder = r
    BY ReaderFrame DEF Streams, NoThread
  <2>2. QED
    BY <1>3, <2>1, ReaderFrame DEF WholeOrCut, Ended, sessionVars
<1>5. WholeOrCut(s)'
  <2>1. s \notin joined /\ joined' = joined
    BY ReaderFrame DEF WholeOrCut, Ended, sessionVars
  <2>2. /\ got[s] \in Nat /\ wrote[s] \in Nat /\ Limit \in Nat /\ got[s] <= wrote[s]
        /\ wrote' = wrote /\ s # NoThread
    BY CommandRunAssumption, ReaderFrame DEF WholeOrCut, Streams, NoThread
  <2>3. CASE ReadByte(s)
    BY <2>1, <2>2, <2>3 DEF ReadByte, WholeOrCut, claimVars
  <2>4. CASE FinishReading(s)
    <3>1. /\ UNCHANGED <<got, holder, joined>> /\ s \notin joined'
          /\ reader'[s] = IF got[s] > Limit THEN "overrun" ELSE "bytes"
      BY <2>1, <2>4 DEF FinishReading, claimVars
    <3>2. CASE got[s] > Limit
      BY <2>2, <3>1, <3>2 DEF WholeOrCut
    <3>3. CASE ~(got[s] > Limit)
      <4>1. got[s] = wrote[s] /\ Writers(s) = {}
        BY <2>2, <2>4, <3>3 DEF FinishReading, Take
      <4>2. Writers(s)' = {} /\ holder # s
        BY <1>3, <2>4, <4>1 DEF FinishReading, WholeOrCut
      <4>3. QED
        BY <2>2, <3>1, <3>3, <4>1, <4>2 DEF WholeOrCut
    <3>4. QED
      BY <3>2, <3>3
  <2>5. CASE ReadFails(s)
    BY <2>1, <2>2, <2>5 DEF ReadFails, WholeOrCut, claimVars
  <2>6. CASE ReaderTakesClaim(s)
    BY <2>1, <2>2, <2>6 DEF ReaderTakesClaim, WholeOrCut, streamVars
  <2>7. CASE ReaderDeclines(s)
    BY <2>1, <2>2, <2>7 DEF ReaderDeclines, DeclineClaim, Overran, WholeOrCut, claimVars
  <2>8. CASE ReaderKills(s)
    BY <2>1, <2>2, <2>8
       DEF ReaderKills, KillSucceeds, KillFails, Overran, WholeOrCut
  <2>9. QED
    BY <2>3, <2>4, <2>5, <2>6, <2>7, <2>8 DEF ReaderWorks
<1>6. QED
  BY <1>2, <1>4, <1>5

LEMMA ReaderKeepsRest ==
    ASSUME IInv, EndInv, NEW s \in Streams, ReaderWorks(s) \/ ReadFails(s)
    PROVE  Reaps' /\ Releases' /\ OnlyTheLivingWrite' /\ Joins' /\ Verdicts'
<1> USE DEF IInv, TypeOK, EndInv
<1>0. s \in Threads /\ s # NoThread
  BY DEF Threads, Streams, NoThread
<1>1. CASE KillSucceeds(s)
  <2>1. Releases' /\ OnlyTheLivingWrite'
    BY <1>0, <1>1, ReaderFrame, KillEnds DEF Releases, sessionVars
  <2>2. Reaps'
    BY <1>0, <1>1, ReaderFrame, KillEnds DEF Reaps, sessionVars
  <2>3. child = "reaped" => UNCHANGED <<child, status>>
    BY <1>0, <1>1, ReaderFrame, KillEnds
  <2>4. QED
    BY <2>1, <2>2, <2>3, ReaderFrame
       DEF Joins, Verdicts, Ended, Outstanding, sessionVars, WholeOrCut, Streams
<1>2. CASE ~KillSucceeds(s)
  <2>1. UNCHANGED <<kernelVars, kills>>
    BY <1>2 DEF ReaderWorks, ReadByte, FinishReading, ReadFails, ReaderTakesClaim,
         ReaderDeclines, ReaderKills, KillFails
  <2>2. claim' \in {"Signalled", "Sealed"} /\ holder' = NoThread =>
           claim' = claim /\ holder' = holder
    BY <1>0, <1>2 DEF ReaderWorks, ReadByte, FinishReading, ReadFails, ReaderTakesClaim,
         TakeClaim, ReaderDeclines, DeclineClaim, ReaderKills, KillFails, claimVars,
         ClaimInv, MaySignal
  <2>3. Releases' /\ OnlyTheLivingWrite' /\ Reaps'
    BY <2>1, <2>2, ReaderFrame
       DEF Releases, OnlyTheLivingWrite, Reaps, Alive, kernelVars, sessionVars
  <2>4. QED
    BY <2>1, <2>3, ReaderFrame
       DEF Joins, Verdicts, Ended, Outstanding, sessionVars, kernelVars, Streams
<1>3. QED
  BY <1>1, <1>2
(***************************************************************************)
(* The session. Its steps are taken in four groups: those up to the wait,  *)
(* the ones around the claim, the reaps and the joins.                     *)
(***************************************************************************)
Begins == Spawn \/ SpawnFails \/ StartReaders \/ SessionFails \/ WaitTimesOut
Claims == MarkReaped \/ SessionTakesClaim \/ SessionDeclines \/ SessionKills
          \/ SessionKillFails
Waits  == WaitReaps \/ Reap \/ ReapFails \/ SkipReap
Finals == JoinReaders \/ Decide \/ DropJoins \/ Return

LEMMA BeginsKeep ==
    ASSUME IInv, EndInv, Begins PROVE EndInv'
<1> USE DEF IInv, TypeOK, EndInv, Goto, GiveUp
<1>1. CASE Spawn
  <2>1. kills = <<>> /\ child = "unspawned" /\ pc = "spawn" /\ Unstarted
    BY <1>1 DEF Spawn, Releases, ReaderInv, Starts
  <2>2. Starts'
    BY <1>1, <2>1 DEF Spawn, Starts, Unstarted, streamVars
  <2>3. ASSUME NEW s \in Streams PROVE WholeOrCut(s)'
    BY <1>1, <2>1 DEF Spawn, ReaderInv, WholeOrCut, Ended, Unstarted, streamVars,
                      claimVars
  <2>4. Reaps' /\ Joins' /\ Verdicts'
    BY <1>1, <2>1 DEF Spawn, Reaps, Joins, Verdicts, Early, streamVars
  <2>5. Releases'
    BY <1>1, <2>1 DEF Spawn, Releases, claimVars
  <2>6. OnlyTheLivingWrite'
    BY <1>1, <2>1 DEF Spawn, OnlyTheLivingWrite, Alive, Processes
  <2>7. QED
    BY <2>2, <2>3, <2>4, <2>5, <2>6 DEF ReaderInv
<1>2. CASE StartReaders
  <2>1. PICK s \in Streams :
             /\ \/ pc = "startStdout" /\ s = "stdout" /\ pc' = "startStderr"
                \/ pc = "startStderr" /\ s = "stderr" /\ pc' = "wait"
             /\ reader[s] = "unstarted"
             /\ reader' = [reader EXCEPT ![s] = "reading"]
             /\ UNCHANGED <<claimVars, kernelVars, wrote, got, result, reaped,
                            released, joined, kills>>
    BY <1>2 DEF StartReaders, StartReader, Streams, ReaderInv, Starts, Unstarted
  <2>2. Starts'
    BY <2>1 DEF ReaderInv, Starts, Unstarted, kernelVars, Streams
  <2>3. ASSUME NEW r \in Streams PROVE WholeOrCut(r)'
    <3>1. reader'[r] # reader[r] => r = s /\ reader'[r] = "reading" /\ reader[r] = "unstarted"
      BY <2>1
    <3>2. /\ UNCHANGED <<holder, got, wrote, joined>>
          /\ Writers(r) = {} => Writers(r)' = {}
      BY <2>1 DEF claimVars, kernelVars, Writers
    <3>3. WholeOrCut(r)
      BY DEF ReaderInv
    <3>4. QED
      BY <3>1, <3>2, <3>3 DEF WholeOrCut, Ended
  <2>4. Reaps' /\ Releases' /\ OnlyTheLivingWrite'
    BY <2>1 DEF Reaps, Releases, OnlyTheLivingWrite, Alive, kernelVars, claimVars
  <2>5. Joins' /\ Verdicts'
    BY <2>1 DEF Joins, Verdicts, Early, kernelVars, Streams
  <2>6. QED
    BY <2>2, <2>3, <2>4, <2>5 DEF ReaderInv
<1>3. CASE SpawnFails \/ SessionFails \/ WaitTimesOut
  <2>1. /\ UNCHANGED <<claimVars, kernelVars, streamVars, reaped, released, joined, kills>>
        /\ \/ pc = "spawn" /\ pc' = "returned" /\ result' = "Io"
           \/ pc # "spawn" /\ pc' = "dropRelease" /\ result' = "Io"
           \/ pc # "spawn" /\ pc' = "releaseTimeout" /\ result' = "Timeout"
        /\ pc \notin {"returned", "dropJoin"}
    BY <1>3 DEF SpawnFails, SessionFails, WaitTimesOut
  <2>2. ReaderInv'
    BY <2>1 DEF ReaderInv, Starts, Unstarted, WholeOrCut, Ended, Writers, kernelVars,
                streamVars, claimVars
  <2>3. Reaps' /\ Releases' /\ OnlyTheLivingWrite'
    BY <2>1 DEF ReaderInv, Starts, Reaps, Releases, OnlyTheLivingWrite, Alive,
                kernelVars, claimVars
  <2>4. Joins' /\ Verdicts'
    <3>1. pc = "spawn" => ~released
      BY DEF Releases, ReaderInv, Starts
    <3>2. QED
      BY <2>1, <3>1 DEF Joins, Verdicts
  <2>5. QED
    BY <2>2, <2>3, <2>4
<1>4. QED
  BY <1>1, <1>2, <1>3 DEF Begins

LEMMA ClaimsKeep ==
    ASSUME IInv, EndInv, Claims PROVE EndInv'
<1> USE DEF IInv, TypeOK, EndInv, Goto, GiveUp
<1>0. "session" \in Threads /\ "session" # NoThread /\ "session" \notin Streams
  BY DEF Threads, Streams, NoThread
<1>1. CASE MarkReaped
  <2>1. /\ UNCHANGED <<holder, previous, kernelVars, streamVars, result, released,
                       joined, kills>>
        /\ holder = NoThread /\ ~reaped /\ reaped' = TRUE
        /\ claim' = ClaimAfterReap(claim)
        /\ \/ pc = "markExit" /\ pc' = "releaseExit"
           \/ pc = "markTimeout" /\ pc' = "dropRelease"
           \/ pc = "dropMark" /\ pc' = "dropJoin"
    BY <1>1 DEF MarkReaped, AfterMark, Reaps
  <2>2. ReaderInv'
    BY <2>1 DEF ReaderInv, Starts, Unstarted, WholeOrCut, Ended, Writers, kernelVars,
                streamVars
  <2>3. Reaps' /\ OnlyTheLivingWrite'
    BY <2>1 DEF Reaps, OnlyTheLivingWrite, Alive, kernelVars
  <2>4. Releases'
    BY <2>1 DEF Releases, ClaimAfterReap, ClaimInv, ClaimStates, kernelVars
  <2>5. Joins' /\ Verdicts'
    BY <2>1 DEF Joins, Verdicts, Early, kernelVars, streamVars, Ended
  <2>6. QED
    BY <2>2, <2>3, <2>4, <2>5
<1>2. CASE SessionTakesClaim
  <2>1. /\ UNCHANGED <<kernelVars, streamVars, sessionVars, kills>>
        /\ holder' = "session"
    BY <1>2 DEF SessionTakesClaim, TakeClaim
  <2>2. ReaderInv'
    BY <1>0, <2>1 DEF ReaderInv, Starts, Unstarted, WholeOrCut, Ended, Writers,
                kernelVars, streamVars, sessionVars
  <2>3. Reaps' /\ OnlyTheLivingWrite' /\ Releases'
    BY <1>0, <2>1 DEF Reaps, OnlyTheLivingWrite, Releases, Alive, kernelVars, sessionVars
  <2>4. Joins' /\ Verdicts'
    BY <2>1 DEF Joins, Verdicts, Ended, Outstanding, kernelVars, streamVars, sessionVars
  <2>5. QED
    BY <2>2, <2>3, <2>4
<1>3. CASE SessionDeclines \/ SessionKills
  <2>1. /\ UNCHANGED <<streamVars, reaped, joined, result>>
        /\ \/ pc = "releaseExit" /\ pc' = "joinStdout" /\ ~released'
           \/ pc = "releaseTimeout" /\ pc' = "reapTimeout" /\ ~released'
           \/ pc = "dropRelease" /\ pc' = "dropReap" /\ released'
    <3>1. pc \in DOMAIN AfterRelease /\ Released
      BY <1>0, <1>3 DEF SessionDeclines, SessionKills, KillSucceeds, ClaimInv, HolderOK
    <3>2. pc \in {"dropRelease", "releaseExit", "releaseTimeout"}
      BY <3>1 DEF AfterRelease
    <3>3. /\ released' <=> pc = "dropRelease"
          /\ result' = result /\ pc' = AfterRelease[pc]
      BY <3>1 DEF Released
    <3>4. UNCHANGED <<streamVars, reaped, joined>>
      BY <1>3 DEF SessionDeclines, SessionKills
    <3>5. QED
      BY <3>2, <3>3, <3>4 DEF AfterRelease
  <2>2. child # "unspawned"
    BY <2>1 DEF ReaderInv, Starts
  <2>3. /\ kills' # <<>>
        /\ child' \in {"zombie", "reaped"}
        /\ child # "running" => UNCHANGED <<child, status>>
        /\ \A d \in Descendants : desc'[d] # "member"
        /\ \A s \in Streams : Writers(s) = {} => Writers(s)' = {}
        /\ OnlyTheLivingWrite'
        /\ holder' = NoThread
    <3>1. CASE SessionKills
      BY <1>0, <2>2, <3>1, KillEnds DEF SessionKills, KillSucceeds
    <3>2. CASE SessionDeclines
      <4>1. /\ UNCHANGED <<claimVars, kernelVars, kills>> /\ holder = NoThread
            /\ claim \in {"Signalled", "Sealed"}
        BY <3>2 DEF SessionDeclines, DeclineClaim, MaySignal, Role, ClaimStates
      <4>2. kills # <<>>
        BY <4>1 DEF Releases
      <4>3. QED
        BY <4>1, <4>2 DEF Releases, OnlyTheLivingWrite, Alive, Writers, kernelVars,
                          claimVars
    <3>3. QED
      BY <1>3, <3>1, <3>2
  <2>4. Starts'
    BY <2>1, <2>3 DEF ReaderInv, Starts, Unstarted, streamVars
  <2>5. ASSUME NEW s \in Streams PROVE WholeOrCut(s)'
    BY <2>1, <2>3 DEF ReaderInv, WholeOrCut, Ended, streamVars, Streams, NoThread
  <2>6. Reaps' /\ Releases'
    BY <2>1, <2>2, <2>3 DEF Reaps, Releases
  <2>7. Joins' /\ Verdicts'
    BY <2>1, <2>3 DEF Joins, Verdicts, Early, Ended, Outstanding, streamVars
  <2>8. QED
    BY <2>3, <2>4, <2>5, <2>6, <2>7 DEF ReaderInv
<1>4. CASE SessionKillFails
  <2>1. /\ UNCHANGED <<kernelVars, kills, streamVars, reaped, released, joined>>
        /\ KillMayFail /\ claim' \in {"Unsignalled", "Reaped"}
        /\ holder' = NoThread
        /\ \/ pc = "dropRelease" /\ pc' = "dropReap" /\ result' = result
           \/ pc \in {"releaseExit", "releaseTimeout"} /\ pc' = "dropRelease"
              /\ result' = "Io"
    <3>1. /\ holder = "session" /\ pc \in DOMAIN AfterRelease
          /\ previous \in {"Unsignalled", "Reaped"}
      BY <1>0, <1>4 DEF SessionKillFails, KillFails, ClaimInv, HolderOK, MaySignal
    <3>2. pc \in {"dropRelease", "releaseExit", "releaseTimeout"}
      BY <3>1 DEF AfterRelease
    <3>3. QED
      BY <1>4, <3>1, <3>2 DEF SessionKillFails, KillFails
  <2>2. ReaderInv'
    BY <2>1 DEF ReaderInv, Starts, Unstarted, WholeOrCut, Ended, Writers,
                kernelVars, streamVars, Streams, NoThread
  <2>3. Reaps' /\ OnlyTheLivingWrite' /\ Releases'
    BY <2>1 DEF Reaps, OnlyTheLivingWrite, Releases, Alive, kernelVars
  <2>4. Joins' /\ Verdicts'
    BY <2>1 DEF Joins, Verdicts, Early, kernelVars, streamVars
  <2>5. QED
    BY <2>2, <2>3, <2>4
<1>5. QED
  BY <1>1, <1>2, <1>3, <1>4 DEF Claims
LEMMA WaitsKeep ==
    ASSUME IInv, EndInv, Waits PROVE EndInv'
<1> USE DEF IInv, TypeOK, EndInv, Goto
<1>1. /\ UNCHANGED <<claimVars, status, desc, open, recycled, streamVars, reaped,
                     released, joined, kills>>
      /\ child' = child \/ (child = "zombie" /\ child' = "reaped")
  BY DEF Waits, WaitReaps, Reap, ReapFails, SkipReap, kernelVars
<1>2. \/ /\ pc = "wait" /\ pc' = "markExit" /\ child' = "reaped" /\ result' = result
      \/ /\ pc = "reapTimeout" /\ pc' = "markTimeout" /\ ~reaped
         /\ WaitMayFail \/ child' = "reaped"
         /\ result' \in {result, "Io"}
      \/ /\ pc = "dropReap" /\ pc' = "dropMark" /\ ~reaped
         /\ WaitMayFail \/ child' = "reaped"
         /\ result' = result
      \/ pc = "dropReap" /\ pc' = "dropJoin" /\ reaped /\ result' = result
  <2>1. CASE WaitReaps \/ SkipReap
    BY <2>1 DEF WaitReaps, SkipReap
  <2>2. CASE Reap \/ ReapFails
    <3>1. pc \in {"reapTimeout", "dropReap"} /\ pc' = AfterReap[pc] /\ ~reaped
      BY <2>2 DEF Reap, ReapFails, AfterReap
    <3>2. /\ pc = "reapTimeout" => pc' = "markTimeout"
          /\ pc = "dropReap" => pc' = "dropMark"
      BY <3>1 DEF AfterReap
    <3>3. QED
      BY <2>2, <3>1, <3>2 DEF Reap, ReapFails
  <2>3. QED
    BY <2>1, <2>2 DEF Waits
<1>3. child # "unspawned" /\ child' # "unspawned"
  BY <1>1, <1>2 DEF ReaderInv, Starts
<1>4. ReaderInv'
  BY <1>1, <1>2, <1>3 DEF ReaderInv, Starts, Unstarted, WholeOrCut, Ended, Writers,
     streamVars, claimVars
<1>5. Reaps' /\ Releases'
  BY <1>1, <1>2, <1>3 DEF Reaps, Releases, claimVars
<1>6. OnlyTheLivingWrite'
  BY <1>1 DEF OnlyTheLivingWrite, Alive, Processes
<1>7. Joins' /\ Verdicts'
  BY <1>1, <1>2 DEF Joins, Verdicts, Early, streamVars
<1>8. QED
  BY <1>4, <1>5, <1>6, <1>7

LEMMA FinalsKeep ==
    ASSUME IInv, EndInv, Finals PROVE EndInv'
<1> USE DEF IInv, TypeOK, EndInv, Goto, GiveUp
<1>1. /\ UNCHANGED <<claimVars, kernelVars, streamVars, reaped, released, kills>>
      /\ pc \in {"joinStdout", "joinStderr", "decide", "dropJoin"}
      /\ pc' \in {"joinStderr", "decide", "dropRelease", "dropJoin", "returned"}
  BY DEF Finals, JoinReaders, Decide, DropJoins, Return
<1>2. \A s \in joined' \ joined : Ended(s)
  BY DEF Finals, JoinReaders, Decide, DropJoins, Return
<1>3. ReaderInv'
  <2>1. Starts'
    BY <1>1 DEF ReaderInv, Starts, kernelVars
  <2>2. ASSUME NEW s \in Streams PROVE WholeOrCut(s)'
    BY <1>1, <1>2 DEF ReaderInv, WholeOrCut, Ended, Writers, kernelVars, streamVars,
                      claimVars
  <2>3. QED
    BY <2>1, <2>2 DEF ReaderInv
<1>4. OnlyTheLivingWrite'
  BY <1>1 DEF OnlyTheLivingWrite, Alive, kernelVars
<1>5. Reaps' /\ Releases'
  BY <1>1 DEF Finals, JoinReaders, Decide, DropJoins, Return, Reaps, Releases,
              kernelVars, claimVars, ReaderInv, Starts
<1>6. CASE ~Decide
  <2>1. result' = result
    BY <1>6 DEF Finals, JoinReaders, DropJoins, Return
  <2>2. Joins'
    BY <1>1, <1>6 DEF Finals, JoinReaders, DropJoins, Return, Joins, Ended,
                      Outstanding, streamVars
  <2>3. Verdicts'
    BY <1>1, <1>6, <2>1 DEF Finals, JoinReaders, DropJoins, Return, Verdicts, Early,
                      kernelVars, streamVars
  <2>4. QED
    BY <1>3, <1>4, <1>5, <2>2, <2>3
<1>7. CASE Decide
  <2>1. /\ pc = "decide" /\ pc' = "dropRelease" /\ result' = Outcome
        /\ \A s \in Streams : Ended(s)
        /\ child = "reaped"
    BY <1>7 DEF Decide, Joins, Streams, Reaps
  <2>2. /\ Outcome # "none"
        /\ Outcome \in {"Ok", "NonZero"} => \A s \in Streams : reader[s] = "bytes"
        /\ Outcome = "Ok" => status = "success"
        /\ Outcome = "TooLargeStdout" => reader["stdout"] = "tooLarge"
        /\ Outcome = "TooLargeStderr" => reader["stderr"] = "tooLarge"
    BY <2>1 DEF Outcome, Ended, Streams
  <2>3. Verdicts' /\ Joins'
    BY <1>1, <2>1, <2>2 DEF Verdicts, Joins, kernelVars, streamVars
  <2>4. QED
    BY <1>3, <1>4, <1>5, <2>3
<1>8. QED
  BY <1>6, <1>7

LEMMA StepKeepsEndInv == IInv /\ EndInv /\ [Next]_vars => EndInv'
<1> SUFFICES ASSUME IInv, EndInv, [Next]_vars PROVE EndInv'
  OBVIOUS
<1>1. CASE Environment
  BY <1>1, EnvironmentKeepsReaders, EnvironmentKeepsRest DEF EndInv
<1>2. ASSUME NEW s \in Streams, ReaderWorks(s) \/ ReadFails(s) PROVE EndInv'
  BY <1>2, ReaderKeepsReaders, ReaderKeepsRest DEF EndInv
<1>3. CASE SessionWorks \/ WaitTimesOut \/ SpawnFails \/ SessionFails \/ ReapFails
  BY <1>3, BeginsKeep, ClaimsKeep, WaitsKeep, FinalsKeep
     DEF SessionWorks, Begins, Claims, Waits, Finals
<1>4. CASE UNCHANGED vars
  BY <1>4 DEF EndInv, ReaderInv, Starts, Unstarted, WholeOrCut, Ended, Writers, Reaps,
     Releases, OnlyTheLivingWrite, Alive, Joins, Outstanding, Verdicts, vars,
     claimVars, kernelVars, streamVars, sessionVars
<1>5. QED
  BY <1>1, <1>2, <1>3, <1>4 DEF Next, Surprises, Finished

\* The inductive invariant of a run's end.
THEOREM EndInvariant == Spec => [](IInv /\ EndInv)
BY InitEstablishes, StepKeepsIInv, EndInit, StepKeepsEndInv, PTL DEF Spec

\* An Ok holds all that was written, however the reads, the timer and the kills fell.
THEOREM CapturesAreComplete == Spec => []CaptureIsComplete
<1>1. IInv /\ EndInv => CaptureIsComplete
  BY DEF IInv, TypeOK, EndInv, ReaderInv, WholeOrCut, Verdicts, CaptureIsComplete
<1>2. QED
  BY <1>1, EndInvariant, PTL

\* An overrun is the verdict of a run that waited for it, and of no other stream.
THEOREM OverrunsAreReported == Spec => []OverrunIsReported
<1>1. IInv /\ EndInv => OverrunIsReported
  <2> SUFFICES ASSUME IInv, EndInv, pc = "returned" PROVE OverrunIsReported
    BY DEF OverrunIsReported
  <2>1. "tooLarge" \in {reader[s] : s \in Streams} =>
            result \notin {"none", "Ok", "NonZero"}
    BY DEF EndInv, Verdicts, Early
  <2>2. ASSUME NEW s \in Streams, reader[s] = "tooLarge" PROVE wrote[s] > Limit
    BY <2>2, CommandRunAssumption
       DEF IInv, TypeOK, EndInv, ReaderInv, WholeOrCut
  <2>3. QED
    BY <2>1, <2>2 DEF IInv, TypeOK, Results, EndInv, Verdicts, OverrunIsReported,
                      Streams
<1>2. QED
  BY <1>1, EndInvariant, PTL

\* A run that returns has reaped its child, and has left no member of the group and
\* no reader running, unless the very call that sees to it failed.
THEOREM NothingIsLeftBehind == Spec => []NothingLeftBehind
<1>1. IInv /\ EndInv => NothingLeftBehind
  <2> SUFFICES ASSUME IInv, EndInv, pc = "returned", child # "unspawned"
               PROVE  NothingLeftBehind
    BY DEF NothingLeftBehind
  <2>1. reaped /\ (~WaitMayFail => child = "reaped")
    BY DEF EndInv, Reaps
  <2>2. released \/ ~KillMayFail => released
    BY DEF EndInv, Releases
  <2>3. released => \A d \in Descendants : desc[d] # "member"
    BY DEF EndInv, Releases
  <2>4. released => \A s \in Streams : ~(reader[s] \in {"reading", "overrun"})
    BY DEF EndInv, Joins, Outstanding, ReaderInv, WholeOrCut, Ended
  <2>5. QED
    BY <2>1, <2>2, <2>3, <2>4 DEF NothingLeftBehind
<1>2. QED
  BY <1>1, EndInvariant, PTL

(***************************************************************************)
(* What can keep a call waiting, and that it runs out of steps.            *)
(***************************************************************************)

\* What the session's position says of the child it has not recorded as reaped: the
\* kernel has it still, and once the release after a timeout is over a kill has landed.
Unreaped ==
    /\ ~reaped /\ pc \notin {"spawn", "returned", "markExit", "markTimeout", "dropMark"} =>
           child \in {"running", "zombie"}
    /\ pc \in {"releaseExit", "joinStdout", "joinStderr", "decide"} => reaped
    /\ pc \in {"releaseTimeout", "reapTimeout"} => ~reaped
    /\ pc = "reapTimeout" => kills # <<>>

\* A step of another thread or of the environment leaves the child to be reaped.
LEMMA OthersLeaveUnreaped ==
    ASSUME TypeOK, Unreaped, UNCHANGED <<pc, reaped>>,
           child' = child \/ (child = "running" /\ child' = "zombie"),
           kills # <<>> => kills' # <<>>
    PROVE  Unreaped'
BY DEF Unreaped

LEMMA UnreapedKept == IInv /\ EndInv /\ Unreaped /\ [Next]_vars => Unreaped'
<1> SUFFICES ASSUME IInv, EndInv, Unreaped, [Next]_vars PROVE Unreaped'
  OBVIOUS
<1>0. TypeOK /\ Starts /\ Reaps /\ Releases
  BY DEF IInv, EndInv, ReaderInv
<1>1. CASE Environment
  <2>1. UNCHANGED <<pc, reaped, kills>>
        /\ (child' = child \/ (child = "running" /\ child' = "zombie"))
    BY <1>1 DEF Environment, Write, Close, ChildEnds, DescendantEnds, Fork, Escape, Recycle,
                sessionVars, kernelVars
  <2>2. QED
    BY <1>0, <2>1, OthersLeaveUnreaped
<1>2. ASSUME NEW s \in Streams, ReaderWorks(s) \/ ReadFails(s) PROVE Unreaped'
  <2>1. CASE KillSucceeds(s) /\ Overran(s)
    <3>1. UNCHANGED <<pc, reaped>> /\ kills' # <<>>
          /\ (child' = child \/ (child = "running" /\ child' = "zombie"))
      BY <1>0, <2>1 DEF KillSucceeds, Overran, sessionVars, TypeOK
    <3>2. QED
      BY <1>0, <3>1, OthersLeaveUnreaped
  <2>2. CASE UNCHANGED <<pc, reaped, kills, child>>
    BY <1>0, <2>2, OthersLeaveUnreaped
  <2>3. QED
    BY <1>2, <2>1, <2>2
       DEF ReaderWorks, ReadByte, FinishReading, ReadFails, ReaderTakesClaim, ReaderDeclines,
           ReaderKills, KillFails, Overran, sessionVars, kernelVars
<1>3. CASE Begins
  BY <1>0, <1>3 DEF Begins, Spawn, SpawnFails, StartReaders, StartReader, SessionFails,
     WaitTimesOut, GiveUp, Goto, Unreaped, Starts, Reaps, TypeOK, sessionVars, kernelVars
<1>4. CASE MarkReaped
  BY <1>0, <1>4 DEF MarkReaped, AfterMark, Goto, Unreaped, kernelVars
<1>5. CASE SessionTakesClaim
  BY <1>0, <1>5, OthersLeaveUnreaped DEF SessionTakesClaim, sessionVars, kernelVars
<1>6. CASE SessionDeclines
  <2>1. pc = "releaseTimeout" => kills # <<>>
    <3>1. claim \in {"Signalled", "Sealed"} /\ holder = NoThread
      BY <1>0, <1>6 DEF SessionDeclines, DeclineClaim, MaySignal, Role, TypeOK, ClaimStates
    <3>2. QED
      BY <1>0, <3>1 DEF Releases
  <2>2. QED
    BY <1>0, <1>6, <2>1 DEF SessionDeclines, DeclineClaim, Released, AfterRelease, Goto,
       Unreaped, kernelVars
<1>7. CASE SessionKills
  <2>1. kills' # <<>> /\ (child' = child \/ (child = "running" /\ child' = "zombie"))
    BY <1>0, <1>7 DEF SessionKills, KillSucceeds, TypeOK
  <2>2. reaped' = reaped /\ pc \in DOMAIN AfterRelease /\ pc' = AfterRelease[pc]
    BY <1>7 DEF SessionKills, KillSucceeds, Released, Goto, IInv, ClaimInv, HolderOK
  <2>3. QED
    BY <1>0, <2>1, <2>2 DEF AfterRelease, Unreaped
<1>8. CASE SessionKillFails
  BY <1>0, <1>8 DEF SessionKillFails, KillFails, Goto, GiveUp, Unreaped, IInv, ClaimInv,
     HolderOK, AfterRelease, kernelVars
<1>9. CASE Waits
  BY <1>0, <1>9 DEF Waits, WaitReaps, Reap, ReapFails, SkipReap, AfterReap, Goto, Unreaped,
     kernelVars
<1>10. CASE Finals
  BY <1>0, <1>10 DEF Finals, JoinReaders, Decide, DropJoins, Return, GiveUp, Goto, Unreaped,
     Reaps, kernelVars
<1>11. CASE UNCHANGED vars
  BY <1>0, <1>11, OthersLeaveUnreaped DEF vars, sessionVars, kernelVars
<1>12. QED
  BY <1>1, <1>2, <1>3, <1>4, <1>5, <1>6, <1>7, <1>8, <1>9, <1>10, <1>11
     DEF Next, Surprises, Finished, SessionWorks, Begins, Waits, Finals

\* Past start_readers, both have been started.
Started ==
    /\ pc = "startStderr" => reader["stdout"] # "unstarted"
    /\ pc \in {"wait", "markExit", "releaseExit", "joinStdout", "joinStderr"} =>
           \A s \in Streams : reader[s] # "unstarted"

LEMMA StartedKept == IInv /\ Started /\ [Next]_vars => Started'
<1> SUFFICES ASSUME IInv, Started, [Next]_vars PROVE Started'
  OBVIOUS
<1>0. TypeOK
  BY DEF IInv
<1>1. CASE UNCHANGED <<pc, reader>>
  BY <1>1 DEF Started
<1>2. CASE StartReaders
  BY <1>0, <1>2 DEF StartReaders, StartReader, Goto, Started, Streams, TypeOK
<1>3. ASSUME NEW s \in Streams, ReaderWorks(s) \/ ReadFails(s) PROVE Started'
  <2>1. pc' = pc
    BY <1>3 DEF ReaderWorks, ReadByte, FinishReading, ReadFails, ReaderTakesClaim,
       ReaderDeclines, ReaderKills, Overran, sessionVars
  <2>2. \A t \in Streams : reader[t] # "unstarted" => reader'[t] # "unstarted"
    BY <1>0, <1>3 DEF ReaderWorks, ReadByte, FinishReading, ReadFails, ReaderTakesClaim,
       ReaderDeclines, ReaderKills, Overran, streamVars, TypeOK
  <2>3. QED
    BY <2>1, <2>2 DEF Started, Streams
<1>4. ASSUME reader' = reader,
             pc' \in {"wait", "markExit", "releaseExit", "joinStdout", "joinStderr"} =>
                 pc \in {"wait", "markExit", "releaseExit", "joinStdout", "joinStderr"},
             pc' # "startStderr" \/ pc' = pc
      PROVE  Started'
  BY <1>4 DEF Started
<1>5. CASE Spawn \/ SpawnFails \/ SessionFails \/ WaitTimesOut
  BY <1>4, <1>5 DEF Spawn, SpawnFails, SessionFails, WaitTimesOut, GiveUp, Goto, streamVars
<1>6. CASE Waits \/ Finals
  BY <1>4, <1>6 DEF Waits, Finals, WaitReaps, Reap, ReapFails, SkipReap, AfterReap,
     JoinReaders, Decide, DropJoins, Return, GiveUp, Goto, streamVars
<1>7. CASE MarkReaped \/ SessionTakesClaim
  BY <1>4, <1>7 DEF MarkReaped, SessionTakesClaim, AfterMark, Goto, streamVars, sessionVars
<1>8. CASE SessionDeclines \/ SessionKills \/ SessionKillFails
  <2>1. pc \in DOMAIN AfterRelease /\ reader' = reader
        /\ pc' \in {AfterRelease[pc], "dropReap", "dropRelease"}
    BY <1>8 DEF SessionDeclines, SessionKills, SessionKillFails, KillSucceeds, KillFails,
       Released, GiveUp, Goto, IInv, ClaimInv, HolderOK, streamVars
  <2>2. QED
    BY <1>4, <2>1 DEF AfterRelease
<1>9. CASE Environment
  BY <1>1, <1>9 DEF Environment, Write, Close, ChildEnds, DescendantEnds, Fork, Escape,
     Recycle, sessionVars, streamVars
<1>10. QED
  BY <1>1, <1>2, <1>3, <1>5, <1>6, <1>7, <1>8, <1>9
     DEF Next, Surprises, Finished, SessionWorks, Waits, Finals, vars, streamVars, sessionVars

\* While a join waits, the descendants that left the group are the only writers.
LEMMA EscapeesHoldPipes ==
    ASSUME IInv, EndInv, pc \in {"joinStdout", "joinStderr", "dropJoin"},
           pc = "dropJoin" => released, NEW s \in Streams, NEW p \in Writers(s)
    PROVE  p \in Descendants /\ p # "child" /\ desc[p] = "escaped"
<1>1. kills # <<>>
  BY DEF EndInv, Releases
<1>2. child # "running" /\ \A d \in Descendants : desc[d] # "member"
  BY <1>1 DEF EndInv, Releases
<1>3. p \in Processes /\ Alive(p)
  BY DEF EndInv, OnlyTheLivingWrite, Writers
<1>4. QED
  BY <1>2, <1>3 DEF Alive, Processes

\* A reader that has not ended can go on, waits for a writer, or waits for the claim's
\* lock, and then it is the other reader that can go on, or the session.
LEMMA ReadersGoOn ==
    ASSUME IInv, EndInv, NEW s \in Streams, ~Ended(s), reader[s] # "unstarted"
    PROVE  \/ ReaderCanGoOn(s) \/ Writers(s) # {}
           \/ holder \in Streams /\ ReaderCanGoOn(holder)
           \/ holder = "session" /\ SessionCanGoOn
<1>1. /\ TypeOK /\ got[s] <= wrote[s]
      /\ \A t \in Streams : holder = t => reader[t] = "overrun"
      /\ reader[s] \in {"reading", "overrun"}
  BY DEF IInv, TypeOK, EndInv, ReaderInv, WholeOrCut, Ended, ReaderStates
<1>2. CASE reader[s] = "reading"
  BY <1>2 DEF ReaderCanGoOn
<1>3. CASE reader[s] = "overrun"
  <2>1. CASE holder = NoThread
    BY <1>3, <2>1 DEF ReaderCanGoOn
  <2>2. CASE holder \in Streams
    BY <1>1, <2>2 DEF ReaderCanGoOn
  <2>3. CASE holder = "session"
    BY <2>3 DEF IInv, ClaimInv, HolderOK, SessionCanGoOn
  <2>4. QED
    BY <1>1, <2>1, <2>2, <2>3 DEF TypeOK, Threads
<1>4. QED
  BY <1>1, <1>2, <1>3

\* The claim's lock is never waited for in vain.
LEMMA LockIsServed ==
    ASSUME IInv, EndInv, holder # NoThread
    PROVE  SessionCanGoOn \/ \E s \in Streams : ReaderCanGoOn(s)
<1>1. CASE holder = "session"
  BY <1>1 DEF IInv, ClaimInv, HolderOK, SessionCanGoOn
<1>2. CASE holder \in Streams
  BY <1>2 DEF EndInv, ReaderInv, WholeOrCut, ReaderCanGoOn
<1>3. QED
  BY <1>1, <1>2 DEF IInv, TypeOK, Threads

GoesOn == SessionCanGoOn \/ (\E s \in Streams : ReaderCanGoOn(s)) \/ Outlived

\* A join waits for a reader, which goes on or waits for an escapee.
LEMMA JoinsGoOn ==
    ASSUME IInv, EndInv, pc \in {"joinStdout", "joinStderr", "dropJoin"},
           pc = "dropJoin" => released,
           NEW s \in Streams, ~Ended(s), reader[s] # "unstarted"
    PROVE  GoesOn
<1>1. CASE Writers(s) # {}
  <2>1. PICK p \in Writers(s) : p \in Descendants /\ desc[p] = "escaped"
    BY <1>1, EscapeesHoldPipes
  <2>2. QED
    BY <2>1 DEF GoesOn, Outlived
<1>2. CASE Writers(s) = {}
  BY <1>2, ReadersGoOn DEF GoesOn
<1>3. QED
  BY <1>1, <1>2

LEMMA NobodyWaitsInVain ==
    ASSUME IInv, EndInv, Unreaped, Started
    PROVE  pc = "returned" \/ (pc = "wait" /\ child = "running") \/ GoesOn
<1>0. TypeOK /\ pc \in Positions /\ Starts /\ Reaps /\ Releases /\ Joins
  BY DEF IInv, TypeOK, EndInv, ReaderInv
<1>1. CASE pc \in {"spawn", "startStdout", "startStderr", "decide"}
  BY <1>1 DEF GoesOn, SessionCanGoOn
<1>2. CASE pc = "wait"
  BY <1>0, <1>2 DEF Unreaped, Reaps, GoesOn, SessionCanGoOn
<1>3. CASE pc \in DOMAIN AfterMark \cup DOMAIN AfterRelease
  <2>1. CASE holder = NoThread
    BY <1>3, <2>1 DEF GoesOn, SessionCanGoOn
  <2>2. QED
    BY <2>1, LockIsServed DEF GoesOn
<1>4. CASE pc = "reapTimeout"
  <2>1. ~reaped /\ child = "zombie"
    BY <1>0, <1>4 DEF Unreaped, Releases
  <2>2. QED
    BY <1>4, <2>1 DEF GoesOn, SessionCanGoOn, AfterReap
<1>5. CASE pc = "dropReap"
  <2>1. CASE reaped
    BY <1>5, <2>1 DEF GoesOn, SessionCanGoOn
  <2>2. CASE ~reaped /\ child = "zombie"
    BY <1>5, <2>2 DEF GoesOn, SessionCanGoOn, AfterReap
  <2>3. CASE ~reaped /\ child = "running"
    BY <1>0, <1>5, <2>3 DEF Releases, GoesOn, Outlived
  <2>4. QED
    BY <1>5, <2>1, <2>2, <2>3 DEF Unreaped
<1>6. CASE pc = "joinStdout"
  <2>1. reader["stdout"] # "unstarted"
    BY <1>6 DEF Started, Streams
  <2>2. QED
    BY <1>6, <2>1, JoinsGoOn DEF Streams, GoesOn, SessionCanGoOn
<1>7. CASE pc = "joinStderr"
  <2>1. reader["stderr"] # "unstarted"
    BY <1>7 DEF Started, Streams
  <2>2. QED
    BY <1>7, <2>1, JoinsGoOn DEF Streams, GoesOn, SessionCanGoOn
<1>8. CASE pc = "dropJoin"
  <2>1. CASE released /\ Outstanding # {}
    <3> DEFINE s == IF "stdout" \in Outstanding THEN "stdout" ELSE "stderr"
    <3>1. s \in Streams /\ reader[s] # "unstarted"
      BY <2>1 DEF Outstanding, Streams
    <3> HIDE DEF s
    <3>2. CASE Ended(s)
      BY <1>8, <2>1, <3>2 DEF GoesOn, SessionCanGoOn, s
    <3>3. QED
      BY <1>8, <2>1, <3>1, <3>2, JoinsGoOn
  <2>2. QED
    BY <1>8, <2>1 DEF GoesOn, SessionCanGoOn
<1>9. QED
  BY <1>0, <1>1, <1>2, <1>3, <1>4, <1>5, <1>6, <1>7, <1>8
     DEF Positions, AfterMark, AfterRelease

\* Whatever the child and its descendants do and whichever call fails, no thread of a
\* call waits for another of its own, for the claim's lock, a join or the reap: what it
\* waits for is a child that has time left, or a process no kill reached; and a join,
\* only for descendants that left the group.  This is RunReturns without its fairness:
\* a run that stands still does so for one of these reasons.
THEOREM OnlyOthersKeepItWaitingEver == Spec => []OnlyOthersKeepItWaiting
<1>1. Init => Unreaped /\ Started
  BY DEF Init, Unreaped, Started
<1>2. IInv /\ EndInv /\ Unreaped /\ Started /\ [Next]_vars => (Unreaped /\ Started)'
  BY UnreapedKept, StartedKept
<1>3. IInv /\ EndInv /\ Unreaped /\ Started => OnlyOthersKeepItWaiting
  BY NobodyWaitsInVain, EscapeesHoldPipes DEF OnlyOthersKeepItWaiting, GoesOn
<1>4. QED
  BY <1>1, <1>2, <1>3, EndInvariant, PTL DEF Spec

(***************************************************************************)
(* The steps a thread has left.  A position of the session counts one more *)
(* than any it leads to, a release two, for the lock and for the kill.     *)
(***************************************************************************)
Rank == [spawn |-> 17, startStdout |-> 16, startStderr |-> 15, wait |-> 14,
         markExit |-> 13, releaseExit |-> 12, joinStdout |-> 10, joinStderr |-> 9,
         decide |-> 8, releaseTimeout |-> 11, reapTimeout |-> 9, markTimeout |-> 8,
         dropRelease |-> 7, dropReap |-> 5, dropMark |-> 4, dropJoin |-> 1,
         returned |-> 0]

ToJoin == IF pc = "dropJoin" THEN Cardinality(Streams \ joined) ELSE 0

SessionLeft == Rank[pc] + ToJoin - (IF holder = "session" THEN 1 ELSE 0)

ReaderLeft(s) ==
    CASE reader[s] = "reading" -> (Take - got[s]) + 3
      [] reader[s] = "overrun" -> IF holder = s THEN 1 ELSE 2
      [] reader[s] \notin {"reading", "overrun"} -> 0

SessionActs   == SessionWorks \/ WaitTimesOut \/ SpawnFails \/ SessionFails \/ ReapFails
ReaderActs(s) == ReaderWorks(s) \/ ReadFails(s)

OneStepLess ==
    /\ SessionActs => SessionLeft' \in 0..SessionLeft - 1
    /\ \A s \in Streams : ReaderActs(s) => ReaderLeft(s)' \in 0..ReaderLeft(s) - 1

\* There are two streams to join.
LEMMA StreamsToJoin ==
    /\ \A S \in SUBSET Streams : Cardinality(S) \in 0..2
    /\ \A S \in SUBSET Streams : \A s \in S : Cardinality(S \ {s}) = Cardinality(S) - 1
<1>1. IsFiniteSet(Streams) /\ Cardinality(Streams) = 2
  <2>1. Streams = {"stdout"} \cup {"stderr"}
    BY DEF Streams
  <2>2. /\ IsFiniteSet({"stdout"}) /\ Cardinality({"stdout"}) = 1
    BY FS_Singleton
  <2>3. Streams = {"stdout"} \cup {"stderr"} /\ "stderr" \notin {"stdout"}
    BY <2>1
  <2>4. QED
    BY <2>2, <2>3, FS_AddElement
<1>2. \A S \in SUBSET Streams : IsFiniteSet(S) /\ Cardinality(S) \in Nat /\ Cardinality(S) <= 2
  BY <1>1, FS_Subset, FS_CardinalityType
<1>3. ASSUME NEW S \in SUBSET Streams, NEW s \in S PROVE Cardinality(S \ {s}) = Cardinality(S) - 1
  BY <1>2, FS_RemoveElement
<1>4. QED
  BY <1>2, <1>3

\* The session.  Its joins end as Drop's set of them shrinks; elsewhere it is the
\* position that is behind it, or the lock.
LEMMA SessionStepsLess ==
    ASSUME IInv, SessionActs PROVE SessionLeft' \in 0..SessionLeft - 1
<1>0. /\ pc \in Positions /\ joined \in SUBSET Streams
      /\ holder = "session" => pc \in DOMAIN AfterRelease
      /\ "session" # NoThread
  BY DEF IInv, TypeOK, ClaimInv, HolderOK, NoThread
<1>1. Cardinality(Streams \ joined) \in 0..2
  BY StreamsToJoin
<1>2. CASE DropJoins
  <2>1. PICK s \in Outstanding : joined' = joined \cup {s}
    BY <1>2 DEF DropJoins
  <2>2. /\ s \in Streams \ joined
        /\ Streams \ joined' = (Streams \ joined) \ {s}
    BY <2>1 DEF Outstanding
  <2>3. Cardinality(Streams \ joined') = Cardinality(Streams \ joined) - 1
    BY <2>2, StreamsToJoin
  <2>4. Cardinality(Streams \ joined') \in 0..2
    BY <2>2, StreamsToJoin
  <2>5. pc = "dropJoin" /\ pc' = pc /\ holder' = holder /\ holder # "session"
    BY <1>0, <1>2 DEF DropJoins, claimVars, AfterRelease
  <2>6. QED
    BY <1>1, <2>3, <2>4, <2>5 DEF SessionLeft, ToJoin, Rank
<1>3. CASE SessionTakesClaim
  <2>1. /\ pc \in DOMAIN AfterRelease /\ pc' = pc
        /\ holder = NoThread /\ holder' = "session"
    BY <1>3 DEF SessionTakesClaim, TakeClaim, sessionVars
  <2>2. QED
    BY <1>0, <2>1 DEF SessionLeft, ToJoin, Rank, AfterRelease
<1>4. CASE SessionDeclines \/ SessionKills \/ SessionKillFails
  <2>1. /\ pc \in DOMAIN AfterRelease
        /\ pc' \in {AfterRelease[pc]} \cup (IF pc = "dropRelease" THEN {} ELSE {"dropRelease"})
    BY <1>0, <1>4 DEF SessionDeclines, SessionKills, SessionKillFails, KillSucceeds,
       KillFails, Released, GiveUp, Goto, AfterRelease
  <2>2. holder \in {NoThread, "session"} /\ holder' = NoThread
    BY <1>4 DEF SessionDeclines, SessionKills, SessionKillFails, KillSucceeds, KillFails,
       DeclineClaim, claimVars
  <2>3. QED
    BY <1>0, <2>1, <2>2 DEF SessionLeft, ToJoin, Rank, AfterRelease
<1>5. ASSUME pc \notin DOMAIN AfterRelease, holder' = holder,
             \/ pc = "spawn" /\ pc' \in {"startStdout", "returned"}
             \/ pc = "startStdout" /\ pc' \in {"startStderr", "dropRelease"}
             \/ pc = "startStderr" /\ pc' \in {"wait", "dropRelease"}
             \/ pc = "wait" /\ pc' \in {"markExit", "releaseTimeout", "dropRelease"}
             \/ pc = "markExit" /\ pc' = "releaseExit"
             \/ pc = "joinStdout" /\ pc' = "joinStderr"
             \/ pc = "joinStderr" /\ pc' = "decide"
             \/ pc \in {"decide", "markTimeout"} /\ pc' = "dropRelease"
             \/ pc = "reapTimeout" /\ pc' = "markTimeout"
             \/ pc = "dropReap" /\ pc' \in {"dropMark", "dropJoin"}
             \/ pc = "dropMark" /\ pc' = "dropJoin"
             \/ pc = "dropJoin" /\ pc' = "returned"
      PROVE  SessionLeft' \in 0..SessionLeft - 1
  <2>1. holder # "session" /\ holder' # "session"
    BY <1>0, <1>5
  <2>2. ToJoin \in 0..2 /\ ToJoin' \in 0..2 /\ (pc' # "dropJoin" => ToJoin' = 0)
        /\ (pc # "dropJoin" => ToJoin = 0)
    <3>1. Cardinality(Streams \ joined') \in 0..2
      BY StreamsToJoin
    <3>2. QED
      BY <1>1, <3>1 DEF ToJoin
  <2> HIDE DEF ToJoin
  <2>3. SessionLeft = Rank[pc] + ToJoin /\ SessionLeft' = Rank[pc'] + ToJoin'
    BY <2>1, <2>2 DEF SessionLeft, Rank
  <2>4. QED
    BY <1>5, <2>2, <2>3 DEF Rank, AfterRelease
<1>6. CASE Spawn \/ StartReaders \/ SessionFails \/ SpawnFails \/ WaitTimesOut
  BY <1>5, <1>6 DEF Spawn, StartReaders, StartReader, SessionFails, SpawnFails, WaitTimesOut,
     GiveUp, Goto, AfterRelease, claimVars
<1>7. CASE WaitReaps \/ MarkReaped
  BY <1>5, <1>7 DEF WaitReaps, MarkReaped, AfterMark, AfterRelease, Goto, claimVars
<1>8. CASE Reap \/ ReapFails \/ SkipReap
  BY <1>5, <1>8 DEF Reap, ReapFails, SkipReap, AfterReap, AfterRelease, Goto, claimVars
<1>9. CASE JoinReaders \/ Decide \/ Return
  BY <1>5, <1>9 DEF JoinReaders, Decide, Return, GiveUp, Goto, AfterRelease, claimVars
<1>10. QED
  BY <1>2, <1>3, <1>4, <1>6, <1>7, <1>8, <1>9 DEF SessionActs, SessionWorks

\* A reader.
LEMMA ReaderStepsLess ==
    ASSUME IInv, EndInv, NEW s \in Streams, ReaderActs(s)
    PROVE  ReaderLeft(s)' \in 0..ReaderLeft(s) - 1
<1>0. /\ Take \in Nat /\ got[s] \in 0..Take /\ reader \in [Streams -> ReaderStates]
      /\ got \in [Streams -> 0..Limit + 1] /\ s # NoThread
      /\ holder = s => reader[s] = "overrun"
  BY CommandRunAssumption
     DEF IInv, TypeOK, Take, Streams, NoThread, EndInv, ReaderInv, WholeOrCut
<1>1. CASE ReadByte(s)
  <2>1. /\ reader[s] = "reading" /\ reader'[s] = "reading"
        /\ got[s] < Take /\ got'[s] = got[s] + 1
    BY <1>0, <1>1 DEF ReadByte
  <2>2. QED
    BY <1>0, <2>1 DEF ReaderLeft, Take
<1>2. CASE FinishReading(s)
  <2>1. reader[s] = "reading" /\ reader'[s] \in {"overrun", "bytes"} /\ holder' = holder
    BY <1>0, <1>2 DEF FinishReading, claimVars
  <2>2. ReaderLeft(s) \in Nat /\ ReaderLeft(s) >= 3 /\ ReaderLeft(s)' \in 0..2
    BY <1>0, <2>1 DEF ReaderLeft
  <2>3. QED
    BY <2>2
<1>3. CASE ReadFails(s)
  <2>1. reader[s] = "reading" /\ reader'[s] = "failed"
    BY <1>0, <1>3 DEF ReadFails
  <2>2. ReaderLeft(s) \in Nat /\ ReaderLeft(s) >= 3 /\ ReaderLeft(s)' = 0
    BY <1>0, <2>1 DEF ReaderLeft
  <2>3. QED
    BY <2>2
<1>4. CASE ReaderTakesClaim(s)
  <2>1. /\ reader[s] = "overrun" /\ reader'[s] = "overrun"
        /\ holder = NoThread /\ holder' = s
    BY <1>4 DEF ReaderTakesClaim, TakeClaim, streamVars
  <2>2. QED
    BY <1>0, <2>1 DEF ReaderLeft
<1>5. CASE ReaderDeclines(s) \/ ReaderKills(s)
  <2>1. reader[s] = "overrun" /\ reader'[s] = "tooLarge"
    BY <1>0, <1>5 DEF ReaderDeclines, ReaderKills, KillSucceeds, KillFails, Overran
  <2>2. QED
    BY <2>1 DEF ReaderLeft
<1>6. QED
  BY <1>1, <1>2, <1>3, <1>4, <1>5 DEF ReaderActs, ReaderWorks

\* Each step of a thread of the call leaves that thread fewer to take, seventeen of the
\* session and Limit + 4 of a reader at most: the call never spins, whatever the child
\* writes, however the claim's lock goes round and whichever call fails.  With
\* OnlyOthersKeepItWaitingEver, a call whose threads are run returns, or stands still
\* for a child that has time left or a process no kill reached.
THEOREM StepsRunOut == Spec => [][OneStepLess]_vars
<1>1. IInv /\ EndInv /\ [Next]_vars => [OneStepLess]_vars
  BY SessionStepsLess, ReaderStepsLess DEF OneStepLess
<1>2. QED
  BY <1>1, EndInvariant, PTL DEF Spec
=============================================================================

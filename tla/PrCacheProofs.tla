--------------------------- MODULE PrCacheProofs ---------------------------
(***************************************************************************)
(* Proofs about PrCache, for every set of pids, keys and TTLs, every sweep *)
(* limit and temp-name budget, and whichever calls fail or processes die.  *)
(***************************************************************************)
EXTENDS PrCache, FiniteSetTheorems, TLAPS

(***************************************************************************)
(* Type correctness.                                                       *)
(***************************************************************************)

\* What the steps of a process write has the type of the variable it goes to.
LEMMA NullTypes ==
    /\ NoFile \in Files /\ NoSweep \in Sweeps /\ NoWrite \in Writes /\ NoReport \in Reports
BY PrCacheAssumption DEF NoFile, Files, Values, NoSweep, Sweeps, NoWrite, Writes,
                         NoReport, Reports

LEMMA ReportTypes ==
    ASSUME NEW r \in Reports, NEW flags \in SUBSET Flags,
           NEW cache \in {"hit", "miss", "readFailed"},
           NEW wrote \in {"skipped", "stored", "failed"},
           NEW resolution \in {"fromCache", "github", "branchFallback", "noPr", "lookupFailed"}
    PROVE  /\ [r EXCEPT !.cache = cache] \in Reports
           /\ [r EXCEPT !.cache = cache, !.flags = @ \cup flags] \in Reports
           /\ [r EXCEPT !.cache = cache, !.resolution = resolution, !.write = wrote] \in Reports
           /\ [r EXCEPT !.resolution = resolution, !.write = wrote] \in Reports
           /\ [r EXCEPT !.resolution = resolution, !.flags = flags] \in Reports
           /\ [r EXCEPT !.write = wrote] \in Reports
           /\ [r EXCEPT !.write = wrote, !.flags = @ \cup flags] \in Reports
           /\ [r EXCEPT !.flags = @ \cup flags] \in Reports
BY DEF Reports

LEMMA ExitTypes ==
    ASSUME TypeOK, NEW p \in Procs, NEW r \in Reports, Exit(p, r)
    PROVE  /\ pc' \in [Procs -> Positions] /\ report' \in [Procs -> Reports]
           /\ lock' \in Procs \cup {NoOne}
           /\ request' \in [Procs -> Requests \cup {NoRequest}]
           /\ sweep' \in [Procs -> Sweeps] /\ seen' \in [Procs -> Files]
           /\ write' \in [Procs -> Writes]
BY NullTypes DEF Exit, TypeOK, Goto, Note, Unlocked, Positions

LEMMA MissedTypes ==
    ASSUME TypeOK, NEW p \in Procs, NEW r \in Reports, Missed(p, r)
    PROVE  /\ pc' \in [Procs -> Positions] /\ report' \in [Procs -> Reports]
           /\ lock' \in Procs \cup {NoOne}
           /\ request' \in [Procs -> Requests \cup {NoRequest}]
           /\ sweep' \in [Procs -> Sweeps] /\ seen' \in [Procs -> Files]
           /\ write' \in [Procs -> Writes]
<1>1. CASE request[p].mode = "status"
  BY <1>1, ExitTypes, ReportTypes DEF Missed
<1>2. CASE request[p].mode # "status"
  BY <1>2, NullTypes DEF Missed, TypeOK, Goto, Note, Positions
<1>3. QED
  BY <1>1, <1>2

LEMMA SweepDoneTypes ==
    ASSUME TypeOK, NEW p \in Procs, NEW flags \in SUBSET Flags, SweepDone(p, flags)
    PROVE  TypeOK'
<1>1. report' \in [Procs -> Reports]
  BY ReportTypes DEF SweepDone, TypeOK, Note
<1>2. QED
  BY <1>1, NullTypes DEF SweepDone, TypeOK, Goto, Unlocked, Positions, countVars

LEMMA NameTypes ==
    ASSUME TypeOK, NEW p \in Procs, request[p] \in Requests
    PROVE  /\ Key(p) \in Keys /\ OwnTemp(p) \in Names /\ Entry(Key(p)) \in Names
           /\ OwnTemp(p) # Entry(Key(p))
BY PrCacheAssumption DEF TypeOK, Key, OwnTemp, Temp, Entry, Names, EntryNames, TempNames,
                         Requests, Writes, NoOne

\* Who has started has a request.
Begun == \A p \in Procs : pc[p] # "idle" => request[p] \in Requests

\* Every step of Sweep and SweepFails.
LEMMA SweepTypes ==
    ASSUME TypeOK, NEW p \in Procs, Sweep(p) \/ SweepFails(p) PROVE TypeOK'
<1>1. CASE SweepOpen(p)
  BY <1>1 DEF SweepOpen, TypeOK, Goto, Positions, diskVars, localVars, countVars
<1>2. CASE SweepFindsNoDir(p) \/ SweepEnds(p) \/ SweepFails(p)
  <2>1. {"sweepFailed"} \in SUBSET Flags /\ {} \in SUBSET Flags
        /\ {"sweepFailed", "trouble"} \in SUBSET Flags
    BY DEF Flags
  <2>2. QED
    BY <1>2, <2>1, SweepDoneTypes DEF SweepFindsNoDir, SweepEnds, SweepFails
<1>3. CASE SweepLock(p)
  <2>1. clock \in Nat
    BY PrCacheAssumption DEF TypeOK
  <2>2. PICK listed \in SUBSET Present :
            sweep' = [sweep EXCEPT ![p].now = clock, ![p].listed = listed]
    BY <1>3 DEF SweepLock
  <2>3. sweep' \in [Procs -> Sweeps]
    <3>1. [sweep[p] EXCEPT !.now = clock, !.listed = listed] \in Sweeps
      BY <2>1 DEF TypeOK, Sweeps, Present
    <3>2. sweep' = [sweep EXCEPT ![p] = [sweep[p] EXCEPT !.now = clock, !.listed = listed]]
      BY <2>2 DEF TypeOK
    <3>3. QED
      BY <3>1, <3>2 DEF TypeOK
  <2>4. QED
    BY <1>3, <2>3 DEF SweepLock, TypeOK, Goto, Positions, countVars
<1>4. CASE SweepInspects(p)
  <2>1. PICK n \in sweep[p].listed :
            /\ sweep' = [sweep EXCEPT ![p].listed = @ \ {n}, ![p].inspected = @ + 1,
                             ![p].victims = IF Reclaimable(p, n) THEN {n} ELSE {}]
            /\ Goto(p, IF Reclaimable(p, n) THEN "sweepRemove" ELSE "sweeping")
    BY <1>4 DEF SweepInspects
  <2>2. sweep' \in [Procs -> Sweeps]
    BY <2>1 DEF TypeOK, Sweeps
  <2>3. pc' \in [Procs -> Positions]
    BY <2>1 DEF TypeOK, Goto, Positions
  <2>4. QED
    BY <1>4, <2>2, <2>3 DEF SweepInspects, TypeOK, diskVars, countVars
<1>5. CASE SweepRemoves(p)
  <2>1. sweep' \in [Procs -> Sweeps]
    <3>0. sweep[p] \in Sweeps
      BY DEF TypeOK
    <3>1. [sweep[p] EXCEPT !.removed = @ + 1, !.victims = {}] \in Sweeps
      <4>1. sweep[p].removed + 1 \in Nat /\ {} \in SUBSET Names
        BY <3>0 DEF Sweeps
      <4>2. QED
        BY <3>0, <4>1 DEF Sweeps
    <3>2. sweep' = [sweep EXCEPT ![p] = [sweep[p] EXCEPT !.removed = @ + 1, !.victims = {}]]
      BY <1>5 DEF SweepRemoves, TypeOK
    <3>3. QED
      BY <3>1, <3>2 DEF TypeOK
  <2>2. file' \in [Names -> Files]
    BY <1>5, NullTypes DEF SweepRemoves, TypeOK
  <2>3. QED
    BY <1>5, <2>1, <2>2 DEF SweepRemoves, TypeOK, Goto, Positions, countVars
<1>6. QED
  BY <1>1, <1>2, <1>3, <1>4, <1>5 DEF Sweep

\* Every step of Start, Load, Judge, Lookup and LoadFails.
LEMMA PolicyTypes ==
    ASSUME TypeOK, Begun, NEW p \in Procs,
           Start(p) \/ Load(p) \/ Judge(p) \/ LoadFails(p) \/ Lookup(p)
    PROVE  TypeOK'
<1>0. /\ {"trouble"} \in SUBSET Flags
      /\ report[p] \in Reports
      /\ pc[p] # "idle" => request[p] \in Requests
  BY DEF TypeOK, Flags, Begun
<1>1. CASE Start(p)
  <2>1. [NoReport EXCEPT !.cache = "dirUnavailable", !.flags = {"trouble"}] \in Reports
    BY <1>0 DEF NoReport, Reports
  <2>2. PICK r \in Requests :
          /\ request' = [request EXCEPT ![p] = r]
          /\ Goto(p, IF r.mode = "status" THEN "load"
                     ELSE IF r.cached THEN "sweepOpen" ELSE "lookup")
          /\ Note(p, IF r.cached THEN NoReport
                     ELSE [NoReport EXCEPT !.cache = "dirUnavailable", !.flags = {"trouble"}])
    BY <1>1 DEF Start
  <2>3. report' \in [Procs -> Reports]
    BY <2>1, <2>2, NullTypes DEF Note, TypeOK
  <2>4. pc' \in [Procs -> Positions] /\ request' \in [Procs -> Requests \cup {NoRequest}]
    BY <2>2 DEF Goto, TypeOK, Positions
  <2>5. runs' \in 0..MaxRuns
    BY <1>1, PrCacheAssumption DEF Start, TypeOK
  <2>6. QED
    BY <1>1, <2>3, <2>4, <2>5 DEF Start, TypeOK, diskVars
<1>2. CASE Load(p)
  BY <1>0, <1>2, NameTypes
     DEF Load, TypeOK, Goto, Positions, diskVars, countVars
<1>3. CASE LoadFails(p)
  <2>1. [report[p] EXCEPT !.cache = "readFailed", !.flags = @ \cup {"trouble"}] \in Reports
    BY <1>0, ReportTypes
  <2>2. QED
    BY <1>3, <2>1, MissedTypes DEF LoadFails, TypeOK, countVars
<1>4. CASE Judge(p)
  <2>1. /\ [report[p] EXCEPT !.cache = "readFailed", !.flags = @ \cup {"trouble"}] \in Reports
        /\ [report[p] EXCEPT !.cache = "miss"] \in Reports
        /\ [report[p] EXCEPT !.cache = "hit", !.resolution = "fromCache",
                             !.write = "skipped"] \in Reports
    BY <1>0, ReportTypes
  <2>2. \E r \in Reports : Exit(p, r) \/ Missed(p, r)
    BY <1>4, <2>1 DEF Judge
  <2>3. QED
    BY <1>4, <2>2, ExitTypes, MissedTypes DEF Judge, TypeOK, countVars
<1>5. CASE Lookup(p)
  <2>1. PICK outcome \in {"some", "none", "failed"} :
          LET r == [report[p] EXCEPT !.resolution = Resolution(outcome, Key(p)),
                        !.flags = IF outcome = "failed" THEN @ \cup {"trouble"} ELSE @] IN
          /\ answers' = IF outcome = "failed" THEN answers
                        ELSE [answers EXCEPT ![Key(p)] = @ \cup {Answer(outcome, Key(p))}]
          /\ IF Persist(outcome) /\ request[p].cached
             THEN /\ Goto(p, "mkdir") /\ Note(p, r)
                  /\ write' = [write EXCEPT ![p].value = Answer(outcome, Key(p))]
                  /\ UNCHANGED <<lock, request, sweep, seen>>
             ELSE Exit(p, [r EXCEPT !.write = "skipped"])
    BY <1>5 DEF Lookup
  <2> DEFINE r == [report[p] EXCEPT !.resolution = Resolution(outcome, Key(p)),
                        !.flags = IF outcome = "failed" THEN @ \cup {"trouble"} ELSE @]
  <2>2. Answer(outcome, Key(p)) \in Values
    BY DEF Answer, PrFromBranch, Values
  <2>3. Key(p) \in Keys
    BY <1>0, <1>5, NameTypes DEF Lookup
  <2>4. answers' \in [Keys -> SUBSET Values]
    BY <2>1, <2>2, <2>3 DEF TypeOK
  <2>5. r \in Reports
    <3>1. Resolution(outcome, Key(p)) \in {"fromCache", "github", "branchFallback", "noPr",
                                           "lookupFailed"}
      BY DEF Resolution
    <3>2. (IF outcome = "failed" THEN report[p].flags \cup {"trouble"} ELSE report[p].flags)
              \in SUBSET Flags
      BY <1>0 DEF Reports
    <3>3. QED
      BY <1>0, <3>1, <3>2, ReportTypes
  <2>6. CASE Persist(outcome) /\ request[p].cached
    <3>1. write' \in [Procs -> Writes]
      BY <2>1, <2>2, <2>6 DEF TypeOK, Writes
    <3>2. report' \in [Procs -> Reports] /\ pc' \in [Procs -> Positions]
      BY <2>1, <2>5, <2>6 DEF TypeOK, Note, Goto, Positions
    <3>3. QED
      BY <1>5, <2>1, <2>4, <2>6, <3>1, <3>2 DEF Lookup, TypeOK, countVars
  <2>7. CASE ~(Persist(outcome) /\ request[p].cached)
    <3>1. [r EXCEPT !.write = "skipped"] \in Reports
      BY <2>5, ReportTypes
    <3>2. QED
      BY <1>5, <2>1, <2>4, <2>7, <3>1, ExitTypes DEF Lookup, TypeOK, countVars
  <2>8. QED
    BY <2>6, <2>7
<1>6. QED
  BY <1>1, <1>2, <1>3, <1>4, <1>5

\* Every step of Store, StoreFails and RenameFails.
LEMMA StoreTypes ==
    ASSUME TypeOK, Begun, NEW p \in Procs, Store(p) \/ StoreFails(p) \/ RenameFails(p)
    PROVE  TypeOK'
<1>0. /\ request[p] \in Requests /\ Key(p) \in Keys
      /\ OwnTemp(p) \in Names /\ Entry(Key(p)) \in Names
      /\ clock \in Nat /\ write[p] \in Writes /\ report[p] \in Reports
      /\ {} \in SUBSET Flags /\ {"trouble"} \in SUBSET Flags
  <2>1. request[p] \in Requests
    BY DEF Begun, Store, StoreFails, RenameFails, Mkdir, StoreLock, Create, CreateRetries,
           CreateGivesUp, Fill, Rename
  <2>2. QED
    BY <2>1, NameTypes, PrCacheAssumption DEF TypeOK, Flags
<1>1. CASE Mkdir(p)
  BY <1>1 DEF Mkdir, TypeOK, Goto, Positions, localVars, countVars
<1>2. CASE StoreLock(p)
  <2>1. [write[p] EXCEPT !.stamp = clock] \in Writes
    BY <1>0 DEF Writes
  <2>2. write' \in [Procs -> Writes]
    BY <1>2, <2>1 DEF StoreLock, TypeOK
  <2>3. QED
    BY <1>2, <2>2 DEF StoreLock, TypeOK, Goto, Positions, countVars
<1>3. CASE Create(p)
  <2>1. [NoFile EXCEPT !.body = "partial", !.mtime = clock] \in Files
    BY <1>0 DEF NoFile, Files, Values
  <2>2. file' \in [Names -> Files]
    BY <1>3, <2>1 DEF Create, TypeOK
  <2>3. QED
    BY <1>3, <2>2 DEF Create, TypeOK, Goto, Positions, localVars, countVars
<1>4. CASE CreateRetries(p)
  <2>1. write[p].attempt + 1 \in 1..Attempts
    BY <1>0, <1>4, PrCacheAssumption DEF CreateRetries, Writes
  <2>2. [write[p] EXCEPT !.attempt = @ + 1] \in Writes
    BY <1>0, <2>1 DEF Writes
  <2>3. write' \in [Procs -> Writes]
    BY <1>4, <2>2 DEF CreateRetries, TypeOK
  <2>4. QED
    BY <1>4, <2>3 DEF CreateRetries, TypeOK, diskVars, countVars
<1>5. CASE CreateGivesUp(p) \/ StoreFails(p)
  <2>1. \E flags \in SUBSET Flags : StoreEnds(p, "failed", flags)
    BY <1>0, <1>5 DEF CreateGivesUp, StoreFails
  <2>2. \E r \in Reports : Exit(p, r)
    BY <1>0, <2>1, ReportTypes DEF StoreEnds
  <2>3. QED
    BY <1>5, <2>2, ExitTypes DEF CreateGivesUp, StoreFails, TypeOK, countVars
<1>6. CASE Fill(p)
  <2>1. [body |-> "entry", value |-> write[p].value, stamp |-> write[p].stamp,
         mtime |-> clock] \in Files
    BY <1>0 DEF Writes, Files
  <2>2. file' \in [Names -> Files]
    BY <1>6, <2>1 DEF Fill, TypeOK
  <2>3. QED
    BY <1>6, <2>2 DEF Fill, TypeOK, Goto, Positions, localVars, countVars
<1>7. CASE Rename(p) \/ RenameFails(p)
  <2>1. \E r \in Reports : Exit(p, r)
    BY <1>0, <1>7, ReportTypes DEF Rename, RenameFails, StoreEnds
  <2>2. file' \in [Names -> Files]
    BY <1>0, <1>7, NullTypes DEF Rename, RenameFails, TypeOK
  <2>3. QED
    BY <1>7, <2>1, <2>2, ExitTypes DEF Rename, RenameFails, TypeOK, countVars
<1>8. QED
  BY <1>1, <1>2, <1>3, <1>4, <1>5, <1>6, <1>7 DEF Store

LEMMA OtherTypes ==
    ASSUME TypeOK, Tick \/ Finished \/ \E p \in Procs : Crash(p) PROVE TypeOK'
<1>1. CASE Tick
  BY <1>1, PrCacheAssumption DEF Tick, TypeOK, localVars, countVars
<1>2. CASE Finished
  BY <1>2 DEF Finished, vars, TypeOK, diskVars, localVars, countVars
<1>3. ASSUME NEW p \in Procs, Crash(p) PROVE TypeOK'
  BY <1>3, ExitTypes, NullTypes, PrCacheAssumption DEF Crash, TypeOK
<1>4. QED
  BY <1>1, <1>2, <1>3

(***************************************************************************)
(* The inductive invariant.  Whoever reads the directory to change it, or  *)
(* changes it, holds the lock; so what a sweep has judged and what a       *)
(* writer has filled are still there at the next step.                     *)
(***************************************************************************)
Safe(p) ==
    /\ pc[p] # "idle" => request[p] \in Requests
    /\ pc[p] \in Sweeping \cup Storing => lock = p
    /\ pc[p] \in Sweeping => sweep[p].now <= clock
    /\ pc[p] = "sweepRemove" =>
          \E n \in Names : sweep[p].victims = {n} /\ Reclaimable(p, n)
    /\ pc[p] \in {"mkdir", "storeLock"} \cup Storing => write[p].value \in answers[Key(p)]
    /\ pc[p] \in Storing => write[p].stamp <= clock
    /\ pc[p] = "fill" => file[OwnTemp(p)].body = "partial"
    /\ pc[p] = "rename" => /\ file[OwnTemp(p)].body = "entry"
                           /\ file[OwnTemp(p)].value = write[p].value
                           /\ file[OwnTemp(p)].stamp = write[p].stamp

EntriesWhole == \A k \in Keys : file[Entry(k)].body # "partial"

IInv == TypeOK /\ (\A p \in Procs : Safe(p)) /\ EntriesWhole

\* A step leaves q's locals alone, and the directory too while q holds the lock.
Untouched(q) ==
    /\ pc'[q] = pc[q] /\ request'[q] = request[q]
    /\ sweep'[q] = sweep[q] /\ write'[q] = write[q]
    /\ lock = q => lock' = q /\ file' = file

Acts(p) == Start(p) \/ Works(p) \/ Fails(p) \/ Crash(p)

LEMMA UntouchedStaysSafe ==
    ASSUME IInv, NEW q \in Procs, Untouched(q), clock' \in Nat, clock <= clock',
           \A k \in Keys : answers[k] \subseteq answers'[k]
    PROVE  Safe(q)'
<1> USE DEF Untouched
<1>1. Safe(q) /\ clock \in Nat /\ sweep[q].now \in Nat /\ write[q].stamp \in Nat
      /\ (pc[q] # "idle" => Key(q) \in Keys)
  BY PrCacheAssumption DEF IInv, TypeOK, Sweeps, Writes, Safe, Key, Requests
<1>2. Key(q)' = Key(q) /\ OwnTemp(q)' = OwnTemp(q)
  BY DEF Key, OwnTemp, Temp
<1>3. pc[q] \in Sweeping \cup Storing => lock' = q /\ file' = file
  BY <1>1 DEF Safe
<1>4. ASSUME NEW n \in Names, file' = file PROVE Reclaimable(q, n)' = Reclaimable(q, n)
  BY <1>4 DEF Reclaimable, Stale, EntryNames, TempNames, Entry
<1>5. QED
  BY <1>1, <1>2, <1>3, <1>4 DEF Safe, Sweeping, Storing

\* The steps of one process leave the others untouched.
LEMMA ExitUntouched ==
    ASSUME TypeOK, NEW p \in Procs, NEW r, Exit(p, r) \/ Missed(p, r),
           NEW q \in Procs \ {p}
    PROVE  /\ pc'[q] = pc[q] /\ request'[q] = request[q]
           /\ sweep'[q] = sweep[q] /\ write'[q] = write[q]
           /\ lock = q => lock' = q
BY DEF Exit, Missed, TypeOK, Goto, Unlocked

LEMMA OthersUntouched ==
    ASSUME IInv, NEW p \in Procs, Acts(p)
    PROVE  /\ clock' = clock /\ \A k \in Keys : answers[k] \subseteq answers'[k]
           /\ \A q \in Procs \ {p} : Untouched(q)
<1> USE DEF IInv, Untouched
<1>0. TypeOK /\ Safe(p)
  OBVIOUS
<1>1. CASE Start(p)
  BY <1>1 DEF Start, Goto, TypeOK, diskVars
<1>2. CASE SweepFindsNoDir(p) \/ SweepEnds(p) \/ SweepFails(p)
  BY <1>2 DEF SweepFindsNoDir, SweepEnds, SweepFails, SweepDone, Goto, Unlocked, TypeOK
<1>3. CASE SweepOpen(p) \/ SweepLock(p) \/ SweepInspects(p)
  BY <1>3, PrCacheAssumption
     DEF SweepOpen, SweepLock, SweepInspects, Goto, TypeOK, diskVars, localVars, NoOne
<1>4. CASE SweepRemoves(p)
  BY <1>0, <1>4 DEF SweepRemoves, Goto, TypeOK, Safe, Sweeping
<1>5. CASE Load(p)
  BY <1>5 DEF Load, Goto, TypeOK, diskVars
<1>6. CASE Judge(p) \/ LoadFails(p)
  BY <1>6, ExitUntouched DEF Judge, LoadFails
<1>7. CASE Lookup(p)
  <2>1. \A k \in Keys : answers[k] \subseteq answers'[k]
    BY <1>7 DEF Lookup, TypeOK
  <2>2. clock' = clock /\ file' = file
    BY <1>7 DEF Lookup
  <2>3. ASSUME NEW q \in Procs \ {p} PROVE Untouched(q)
    <3>1. CASE \E r : Exit(p, r)
      BY <2>2, <3>1, ExitUntouched
    <3>2. CASE /\ Goto(p, "mkdir") /\ UNCHANGED <<lock, request, sweep, seen>>
               /\ \E v : write' = [write EXCEPT ![p].value = v]
      BY <2>2, <3>2 DEF Goto, TypeOK
    <3>3. QED
      BY <1>7, <3>1, <3>2 DEF Lookup
  <2>4. QED
    BY <2>1, <2>2, <2>3
<1>8. CASE Mkdir(p) \/ StoreLock(p) \/ CreateRetries(p)
  BY <1>8, PrCacheAssumption
     DEF Mkdir, StoreLock, CreateRetries, Goto, TypeOK, diskVars, localVars, NoOne
<1>9. CASE Create(p) \/ Fill(p)
  BY <1>0, <1>9 DEF Create, Fill, Goto, TypeOK, localVars, Safe, Storing
<1>10. CASE CreateGivesUp(p) \/ StoreFails(p)
  BY <1>10, ExitUntouched DEF CreateGivesUp, StoreFails, StoreEnds
<1>11. CASE Rename(p) \/ RenameFails(p)
  <2>1. lock = p
    BY <1>0, <1>11 DEF Rename, RenameFails, Safe, Storing
  <2>2. QED
    BY <1>11, <2>1, ExitUntouched DEF Rename, RenameFails, StoreEnds
<1>12. CASE Crash(p)
  BY <1>12, ExitUntouched DEF Crash
<1>13. QED
  BY <1>1, <1>2, <1>3, <1>4, <1>5, <1>6, <1>7, <1>8, <1>9, <1>10, <1>11, <1>12
     DEF Acts, Works, Fails, Sweep, Store

\* The steps of a process keep it safe.
LEMMA ActorStaysSafe ==
    ASSUME IInv, NEW p \in Procs, Acts(p), TypeOK'
    PROVE  Safe(p)'
<1>0. TypeOK /\ Safe(p) /\ clock \in Nat /\ clock' = clock
  BY OthersUntouched, PrCacheAssumption DEF IInv, TypeOK
<1>1. ASSUME pc'[p] \notin {"mkdir", "storeLock"} \cup Sweeping \cup Storing,
             pc'[p] # "idle" => request'[p] \in Requests
      PROVE  Safe(p)'
  BY <1>1 DEF Safe, Sweeping, Storing
<1>2. ASSUME NEW r, Exit(p, r) PROVE Safe(p)'
  <2>1. pc'[p] = "idle"
    BY <1>0, <1>2 DEF Exit, Goto, TypeOK
  <2>2. QED
    BY <1>1, <2>1 DEF Sweeping, Storing
<1>3. ASSUME NEW r, Missed(p, r), pc[p] # "idle" PROVE Safe(p)'
  BY <1>0, <1>1, <1>2, <1>3 DEF Missed, Goto, TypeOK, Safe, Sweeping, Storing
<1>4. CASE Start(p)
  BY <1>0, <1>1, <1>4 DEF Start, Goto, TypeOK, Sweeping, Storing
<1>5. CASE SweepOpen(p)
  BY <1>0, <1>1, <1>5 DEF SweepOpen, Goto, TypeOK, Sweeping, Storing, Safe, localVars
<1>6. CASE SweepFindsNoDir(p) \/ SweepEnds(p) \/ SweepFails(p)
  BY <1>0, <1>1, <1>6 DEF SweepFindsNoDir, SweepEnds, SweepFails, SweepDone, Goto, TypeOK,
                          Sweeping, Storing, Safe
<1>7. CASE SweepLock(p)
  <2>1. sweep'[p].now = clock /\ pc'[p] = "sweeping" /\ lock' = p /\ request' = request
    BY <1>0, <1>7 DEF SweepLock, Goto, TypeOK, Sweeps
  <2>2. QED
    BY <1>0, <1>7, <2>1 DEF Safe, SweepLock, Sweeping, Storing
<1>8. CASE SweepInspects(p)
  <2>1. PICK n \in sweep[p].listed :
            /\ sweep' = [sweep EXCEPT ![p].listed = @ \ {n}, ![p].inspected = @ + 1,
                             ![p].victims = IF Reclaimable(p, n) THEN {n} ELSE {}]
            /\ Goto(p, IF Reclaimable(p, n) THEN "sweepRemove" ELSE "sweeping")
    BY <1>8 DEF SweepInspects
  <2>2. /\ sweep'[p].now = sweep[p].now
        /\ sweep'[p].victims = IF Reclaimable(p, n) THEN {n} ELSE {}
        /\ pc'[p] = IF Reclaimable(p, n) THEN "sweepRemove" ELSE "sweeping"
        /\ request' = request /\ lock' = lock /\ file' = file
        /\ n \in Names /\ pc[p] = "sweeping"
    BY <1>0, <1>8, <2>1 DEF SweepInspects, Goto, TypeOK, Sweeps, diskVars
  <2>3. Reclaimable(p, n)' = Reclaimable(p, n)
    BY <2>2 DEF Reclaimable, Stale, EntryNames, TempNames, Entry
  <2>4. QED
    BY <1>0, <2>2, <2>3 DEF Safe, Sweeping, Storing
<1>9. CASE SweepRemoves(p)
  <2>1. sweep'[p].now = sweep[p].now /\ pc'[p] = "sweeping" /\ lock' = lock
        /\ request' = request /\ pc[p] = "sweepRemove"
    BY <1>0, <1>9 DEF SweepRemoves, Goto, TypeOK, Sweeps
  <2>2. QED
    BY <1>0, <2>1 DEF Safe, Sweeping, Storing
<1>10. CASE Load(p)
  BY <1>0, <1>1, <1>10 DEF Load, Goto, TypeOK, Sweeping, Storing, Safe
<1>11. CASE Judge(p) \/ LoadFails(p)
  BY <1>2, <1>3, <1>11 DEF Judge, LoadFails
<1>12. CASE Lookup(p)
  <2>1. CASE \E r : Exit(p, r)
    BY <1>2, <2>1
  <2>2. ASSUME NEW v, Goto(p, "mkdir"), UNCHANGED <<lock, request, sweep, seen>>,
               write' = [write EXCEPT ![p].value = v],
               answers' = [answers EXCEPT ![Key(p)] = @ \cup {v}]
        PROVE  Safe(p)'
    <3>1. request[p] \in Requests /\ Key(p) \in Keys
      BY <1>0, <1>12, NameTypes DEF Lookup, Safe
    <3>2. v \in answers'[Key(p)]
      BY <1>0, <2>2, <3>1 DEF TypeOK
    <3>3. write'[p].value = v /\ Key(p)' = Key(p) /\ pc'[p] = "mkdir" /\ request' = request
      BY <1>0, <2>2 DEF TypeOK, Writes, Goto, Key
    <3>4. QED
      BY <3>1, <3>2, <3>3 DEF Safe, Sweeping, Storing
  <2>3. QED
    BY <1>12, <2>1, <2>2 DEF Lookup, Persist
<1>13. CASE Mkdir(p)
  BY <1>0, <1>13 DEF Mkdir, Goto, TypeOK, Safe, Sweeping, Storing, localVars, Key
<1>14. CASE StoreLock(p)
  <2>1. /\ write'[p].stamp = clock /\ write'[p].value = write[p].value
        /\ pc'[p] = "create" /\ pc[p] = "storeLock" /\ lock' = p /\ request' = request
        /\ answers' = answers /\ Key(p)' = Key(p)
    BY <1>0, <1>14 DEF StoreLock, Goto, TypeOK, Writes, Key
  <2>2. QED
    BY <1>0, <2>1 DEF Safe, Sweeping, Storing
<1>15. CASE Create(p)
  <2>1. OwnTemp(p) \in Names
    BY <1>0, <1>15, NameTypes DEF Create, Safe
  <2>2. /\ file'[OwnTemp(p)].body = "partial" /\ OwnTemp(p)' = OwnTemp(p) /\ Key(p)' = Key(p)
        /\ pc'[p] = "fill" /\ pc[p] = "create" /\ lock' = lock
        /\ request' = request /\ write' = write /\ answers' = answers
    BY <1>0, <1>15, <2>1 DEF Create, Goto, TypeOK, localVars, OwnTemp, Temp, Key, NoFile
  <2>3. QED
    BY <1>0, <2>2 DEF Safe, Sweeping, Storing
<1>16. CASE CreateRetries(p)
  <2>1. /\ write'[p].stamp = write[p].stamp /\ write'[p].value = write[p].value
        /\ pc' = pc /\ pc[p] = "create" /\ lock' = lock /\ request' = request
        /\ answers' = answers /\ Key(p)' = Key(p)
    BY <1>0, <1>16 DEF CreateRetries, TypeOK, Writes, Key, diskVars
  <2>2. QED
    BY <1>0, <2>1 DEF Safe, Sweeping, Storing
<1>17. CASE Fill(p)
  <2>1. OwnTemp(p) \in Names
    BY <1>0, <1>17, NameTypes DEF Fill, Safe
  <2>2. /\ file'[OwnTemp(p)].body = "entry" /\ OwnTemp(p)' = OwnTemp(p) /\ Key(p)' = Key(p)
        /\ file'[OwnTemp(p)].value = write[p].value /\ file'[OwnTemp(p)].stamp = write[p].stamp
        /\ pc'[p] = "rename" /\ pc[p] = "fill" /\ lock' = lock
        /\ request' = request /\ write' = write /\ answers' = answers
    BY <1>0, <1>17, <2>1 DEF Fill, Goto, TypeOK, localVars, OwnTemp, Temp, Key
  <2>3. QED
    BY <1>0, <2>2 DEF Safe, Sweeping, Storing
<1>18. CASE CreateGivesUp(p) \/ StoreFails(p) \/ Rename(p) \/ RenameFails(p) \/ Crash(p)
  BY <1>2, <1>18 DEF CreateGivesUp, StoreFails, Rename, RenameFails, Crash, StoreEnds
<1>19. QED
  BY <1>4, <1>5, <1>6, <1>7, <1>8, <1>9, <1>10, <1>11, <1>12, <1>13, <1>14, <1>15, <1>16,
     <1>17, <1>18 DEF Acts, Works, Fails, Sweep, Store

\* A rename is the only way to a name readers look at, and it renames a file
\* that has been filled.
LEMMA EntriesStayWhole ==
    ASSUME IInv, NEW p \in Procs, Acts(p)
    PROVE  EntriesWhole'
<1> USE DEF IInv
<1>0. /\ TypeOK /\ Safe(p)
      /\ \A k \in Keys : Entry(k) \in Names /\ Entry(k) \notin TempNames
  BY PrCacheAssumption DEF Names, EntryNames, TempNames, Entry, NoOne
<1>1. CASE SweepRemoves(p)
  BY <1>0, <1>1 DEF SweepRemoves, EntriesWhole, NoFile
<1>2. CASE Create(p) \/ Fill(p) \/ Rename(p) \/ RenameFails(p)
  <2>1. OwnTemp(p) \in Names /\ Entry(Key(p)) \in Names /\ \A k \in Keys : OwnTemp(p) # Entry(k)
    BY <1>0, <1>2, NameTypes, PrCacheAssumption
       DEF Create, Fill, Rename, RenameFails, Safe, OwnTemp, Temp, Entry, NoOne
  <2>2. CASE Create(p) \/ Fill(p)
    BY <1>0, <2>1, <2>2 DEF Create, Fill, EntriesWhole, TypeOK
  <2>3. CASE Rename(p)
    BY <1>0, <2>1, <2>3 DEF Rename, EntriesWhole, TypeOK, Safe, NoFile
  <2>4. CASE RenameFails(p)
    BY <1>0, <2>1, <2>4 DEF RenameFails, EntriesWhole, TypeOK, NoFile
  <2>5. QED
    BY <1>2, <2>2, <2>3, <2>4
<1>3. CASE file' = file
  BY <1>3 DEF EntriesWhole
<1>4. QED
  BY <1>1, <1>2, <1>3
     DEF Acts, Works, Fails, Sweep, Store, Start, Load, Judge, LoadFails, Lookup, Crash,
         SweepOpen, SweepFindsNoDir, SweepLock, SweepInspects, SweepEnds, SweepFails, SweepDone,
         Mkdir, StoreLock, CreateRetries, CreateGivesUp, StoreFails, diskVars

LEMMA Inductive == IInv /\ [Next]_vars => IInv'
<1> SUFFICES ASSUME IInv, [Next]_vars PROVE IInv'
  OBVIOUS
<1>0. Begun
  BY DEF IInv, Safe, Begun
<1>1. ASSUME NEW p \in Procs, Acts(p) PROVE IInv'
  <2>1. TypeOK'
    BY <1>0, <1>1, SweepTypes, PolicyTypes, StoreTypes, OtherTypes
       DEF IInv, Acts, Works, Fails
  <2>2. clock \in Nat /\ clock' = clock
    BY <1>1, OthersUntouched, PrCacheAssumption DEF IInv, TypeOK
  <2>3. ASSUME NEW q \in Procs PROVE Safe(q)'
    <3>1. CASE q = p
      BY <1>1, <2>1, <3>1, ActorStaysSafe
    <3>2. CASE q # p
      BY <1>1, <2>2, <3>2, OthersUntouched, UntouchedStaysSafe
    <3>3. QED
      BY <3>1, <3>2
  <2>4. QED
    BY <1>1, <2>1, <2>3, EntriesStayWhole DEF IInv
<1>2. CASE Tick \/ Finished \/ UNCHANGED vars
  <2>1. TypeOK'
    BY <1>2, OtherTypes DEF IInv, vars, TypeOK, diskVars, localVars, countVars
  <2>2. /\ clock \in Nat /\ clock' \in Nat /\ clock <= clock' /\ file' = file
        /\ answers' = answers /\ \A q \in Procs : Untouched(q)
    BY <1>2, PrCacheAssumption
       DEF IInv, TypeOK, Tick, Finished, vars, diskVars, localVars, Untouched
  <2>3. \A q \in Procs : Safe(q)'
    BY <2>2, UntouchedStaysSafe
  <2>4. EntriesWhole'
    BY <2>2 DEF IInv, EntriesWhole
  <2>5. QED
    BY <2>1, <2>3, <2>4 DEF IInv
<1>3. QED
  BY <1>1, <1>2 DEF Next, Acts

LEMMA Initial == Init => IInv
<1> SUFFICES ASSUME Init PROVE IInv
  OBVIOUS
<1>1. \A n \in Names : file[n] \in {Junk, NoFile}
  BY DEF Init
<1>2. Junk \in Files
  BY NullTypes DEF Junk, NoFile, Files
<1>3. file \in [Names -> Files]
  BY <1>1, <1>2, NullTypes DEF Init
<1>4. TypeOK
  BY <1>3, NullTypes, PrCacheAssumption DEF Init, TypeOK, Positions
<1>5. EntriesWhole
  <2>1. \A k \in Keys : Entry(k) \in Names
    BY DEF Names, EntryNames
  <2>2. Junk.body # "partial" /\ NoFile.body # "partial"
    BY DEF Junk, NoFile
  <2>3. QED
    BY <1>1, <2>1, <2>2 DEF EntriesWhole
<1>6. \A p \in Procs : Safe(p)
  BY DEF Init, Safe, Sweeping, Storing
<1>7. QED
  BY <1>4, <1>5, <1>6 DEF IInv

\* The mutation lock and the files under it obey IInv in every reachable state.
THEOREM CacheInvariant == Spec => []IInv
BY Initial, Inductive, PTL DEF Spec

\* Every variable keeps its type: no temp-name attempt exceeds the budget.
THEOREM CacheTypeCorrect == Spec => []TypeOK
<1>1. IInv => TypeOK
  BY DEF IInv
<1>2. QED
  BY <1>1, CacheInvariant, PTL

\* A live writer's temp file is never swept, overwritten or renamed by others.
THEOREM LiveTempsSurvive == Spec => []LiveTempSurvives
<1>1. IInv => LiveTempSurvives
  BY DEF IInv, Safe, LiveTempSurvives
<1>2. QED
  BY <1>1, CacheInvariant, PTL

(***************************************************************************)
(* The directory implements AnswerStore: a lookup obtains, a rename keeps, *)
(* a removal of an entry forgets, and every other step shows nothing.      *)
(***************************************************************************)
StoreStep == [AS!StoreNext]_<<View, answers, clock>>

LEMMA EmptyFiles ==
    /\ NoFile.body = "none" /\ NoFile.value = "" /\ NoFile.stamp = 0 /\ Junk.body = "junk"
    /\ [body |-> NoFile.body, value |-> NoFile.value, stamp |-> NoFile.stamp] = Absent
    /\ Absent = AS!Nothing
BY DEF NoFile, Junk, Absent, AS!Nothing

LEMMA HiddenStep ==
    ASSUME \A k \in Keys : file'[Entry(k)] = file[Entry(k)], answers' = answers, clock' = clock
    PROVE  StoreStep
<1>1. View' = View
  BY DEF View, Entry, Absent
<1>2. QED
  BY <1>1 DEF StoreStep

LEMMA RemovalForgets ==
    ASSUME IInv, NEW p \in Procs, SweepRemoves(p) PROVE StoreStep
<1>0. TypeOK /\ Safe(p) /\ lock = p
  BY DEF IInv, Safe, SweepRemoves, Sweeping
<1>1. PICK n \in Names : sweep[p].victims = {n} /\ Reclaimable(p, n)
  BY <1>0 DEF Safe, SweepRemoves
<1>2. file' = [m \in Names |-> IF m = n THEN NoFile ELSE file[m]]
  BY <1>1 DEF SweepRemoves
<1>3. answers' = answers /\ clock' = clock /\ clock \in Nat
  BY <1>0, PrCacheAssumption DEF SweepRemoves, TypeOK
<1>4. \A k \in Keys : Entry(k) \in Names /\ Entry(k) \notin TempNames
  BY PrCacheAssumption DEF Names, EntryNames, TempNames, Entry, NoOne
<1>5. CASE n \in TempNames
  BY <1>2, <1>3, <1>4, <1>5, HiddenStep
<1>6. CASE n \notin TempNames
  <2>1. PICK k \in Keys : n = Entry(k)
    BY <1>6 DEF Names, EntryNames
  <2>2. /\ file[n].body = "entry" /\ request[p].ttl \in Ttls
        /\ file[n].stamp + request[p].ttl < clock
    <3>1. /\ file[n].body = "entry" /\ file[n].stamp + request[p].ttl < sweep[p].now
      BY <1>1, <1>6 DEF Reclaimable, Stale
    <3>2. /\ sweep[p].now <= clock /\ request[p].ttl \in Ttls
      BY <1>0 DEF Safe, SweepRemoves, Sweeping, Requests
    <3>3. file[n].stamp \in Nat /\ request[p].ttl \in Nat /\ sweep[p].now \in Nat
      BY <1>0, <3>2, PrCacheAssumption DEF TypeOK, Files, Sweeps
    <3>4. QED
      BY <1>3, <3>1, <3>2, <3>3
  <2>3. View[k].body = "entry" /\ View[k].stamp = file[n].stamp
    BY <2>1, <2>2 DEF View
  <2>4. View' = [View EXCEPT ![k] = AS!Nothing]
    <3>1. \A j \in Keys : j # k => Entry(j) # n
      BY <2>1 DEF Entry
    <3>2. \A j \in Keys : file'[Entry(j)] = IF j = k THEN NoFile ELSE file[Entry(j)]
      BY <1>2, <1>4, <2>1, <3>1
    <3>3. View' = [j \in Keys |-> IF j = k THEN Absent ELSE View[j]]
      BY <3>2, EmptyFiles DEF View, Entry
    <3>4. QED
      BY <3>3 DEF View, AS!Nothing, Absent
  <2>5. AS!Forget(k, request[p].ttl)
    BY <1>3, <2>2, <2>3, <2>4 DEF AS!Forget
  <2>6. QED
    BY <2>2, <2>5 DEF StoreStep, AS!StoreNext
<1>7. QED
  BY <1>5, <1>6

LEMMA RenameKeeps ==
    ASSUME IInv, NEW p \in Procs, Rename(p) PROVE StoreStep
<1>0. TypeOK /\ Safe(p) /\ request[p] \in Requests
  BY DEF IInv, Safe, Rename
<1> DEFINE k == Key(p)  f == file[OwnTemp(p)]
<1>1. k \in Keys /\ OwnTemp(p) \in Names /\ Entry(k) \in Names
  BY <1>0, NameTypes
<1>2. /\ f.body = "entry" /\ f.value \in answers[k] /\ f.value \in Values
      /\ f.stamp \in 0..clock
  <2>1. f.body = "entry" /\ f.value = write[p].value /\ f.stamp = write[p].stamp
        /\ write[p].value \in answers[k] /\ write[p].stamp <= clock
    BY <1>0 DEF Safe, Rename, Storing
  <2>2. clock \in Nat /\ write[p].stamp \in Nat /\ write[p].value \in Values
    BY <1>0, PrCacheAssumption DEF TypeOK, Writes
  <2>3. QED
    BY <2>1, <2>2
<1>3. answers' = answers /\ clock' = clock
  BY DEF Rename
<1>4. \A j \in Keys : file'[Entry(j)] = IF j = k THEN f ELSE file[Entry(j)]
  <2>1. \A j \in Keys : Entry(j) # OwnTemp(p) /\ Entry(j) \in Names
                        /\ (j # k => Entry(j) # Entry(k))
    BY PrCacheAssumption DEF Entry, OwnTemp, Temp, Names, EntryNames, NoOne
  <2>2. file' = [file EXCEPT ![Entry(k)] = f, ![OwnTemp(p)] = NoFile]
    BY DEF Rename
  <2>3. file \in [Names -> Files]
    BY <1>0 DEF TypeOK
  <2>4. QED
    BY <1>1, <2>1, <2>2, <2>3
<1>5. View' = [View EXCEPT ![k] = [body |-> "entry", value |-> f.value, stamp |-> f.stamp]]
  <2>1. View' = [j \in Keys |-> IF j = k
                    THEN [body |-> "entry", value |-> f.value, stamp |-> f.stamp] ELSE View[j]]
    BY <1>2, <1>4 DEF View, Entry, Absent
  <2>2. QED
    BY <2>1 DEF View
<1>6. AS!Keep(k, f.value, f.stamp)
  BY <1>2, <1>3, <1>5 DEF AS!Keep
<1>7. QED
  BY <1>1, <1>2, <1>6 DEF StoreStep, AS!StoreNext

LEMMA LookupObtains ==
    ASSUME IInv, NEW p \in Procs, Lookup(p) PROVE StoreStep
<1>1. /\ \A k \in Keys : file'[Entry(k)] = file[Entry(k)]
      /\ clock' = clock
  BY DEF Lookup
<1>2. View' = View
  BY <1>1 DEF View, Entry, Absent
<1>3. Key(p) \in Keys
  BY NameTypes DEF IInv, Safe, Lookup
<1>4. CASE answers' = answers
  BY <1>1, <1>4, HiddenStep
<1>5. ASSUME NEW outcome, answers' = [answers EXCEPT ![Key(p)] = @ \cup {Answer(outcome, Key(p))}]
      PROVE  StoreStep
  <2>1. Answer(outcome, Key(p)) \in Values
    BY DEF Answer, PrFromBranch, Values
  <2>2. AS!Obtain(Key(p), Answer(outcome, Key(p)))
    BY <1>1, <1>2, <1>5 DEF AS!Obtain
  <2>3. QED
    BY <1>3, <2>1, <2>2 DEF StoreStep, AS!StoreNext
<1>6. QED
  BY <1>4, <1>5 DEF Lookup

LEMMA EveryStep == ASSUME IInv, [Next]_vars PROVE StoreStep
<1>1. ASSUME NEW p \in Procs, Acts(p) PROVE StoreStep
  <2>0. TypeOK /\ Safe(p) /\ \A k \in Keys : Entry(k) \in Names
    BY DEF IInv, Names, EntryNames
  <2>1. CASE SweepRemoves(p)
    BY <2>1, RemovalForgets
  <2>2. CASE Rename(p)
    BY <2>2, RenameKeeps
  <2>3. CASE Lookup(p)
    BY <2>3, LookupObtains
  <2>4. CASE Create(p) \/ Fill(p) \/ RenameFails(p)
    <3>1. \A k \in Keys : Entry(k) # OwnTemp(p)
      BY PrCacheAssumption DEF Entry, OwnTemp, Temp, NoOne
    <3>2. \A k \in Keys : file'[Entry(k)] = file[Entry(k)]
      BY <2>0, <2>4, <3>1 DEF Create, Fill, RenameFails, TypeOK
    <3>3. answers' = answers /\ clock' = clock
      BY <2>4 DEF Create, Fill, RenameFails
    <3>4. QED
      BY <3>2, <3>3, HiddenStep
  <2>5. CASE file' = file /\ answers' = answers /\ clock' = clock
    BY <2>5, HiddenStep
  <2>6. QED
    BY <1>1, <2>1, <2>2, <2>3, <2>4, <2>5
       DEF Acts, Works, Fails, Sweep, Store, Start, Load, Judge, LoadFails, Crash,
           SweepOpen, SweepFindsNoDir, SweepLock, SweepInspects, SweepEnds, SweepFails,
           SweepDone, Mkdir, StoreLock, CreateRetries, CreateGivesUp, StoreFails, diskVars
<1>2. CASE Tick
  <2>1. clock \in Nat /\ clock' > clock /\ answers' = answers
    BY <1>2, PrCacheAssumption DEF IInv, TypeOK, Tick
  <2>2. View' = View
    BY <1>2 DEF Tick, View, Entry, Absent
  <2>3. QED
    BY <2>1, <2>2 DEF StoreStep, AS!StoreNext, AS!Pass
<1>3. CASE Finished \/ UNCHANGED vars
  BY <1>3, HiddenStep DEF Finished, vars, diskVars
<1>4. QED
  BY <1>1, <1>2, <1>3 DEF Next, Acts

\* The directory implements AnswerStore, for all processes, crashes and failures.
THEOREM AnswerStoreRefinement == Spec => ImplementsAnswerStore
<1>1. Init => AS!StoreInit
  <2> SUFFICES ASSUME Init PROVE AS!StoreInit
    OBVIOUS
  <2>1. \A k \in Keys : file[Entry(k)] \in {Junk, NoFile}
    BY DEF Init, Names, EntryNames
  <2>2. View = [k \in Keys |-> AS!Nothing]
    BY <2>1, EmptyFiles DEF View
  <2>3. QED
    BY <2>2 DEF Init, AS!StoreInit
<1>2. IInv /\ [Next]_vars => [AS!StoreNext]_<<View, answers, clock>>
  BY EveryStep DEF StoreStep
<1>3. QED
  BY <1>1, <1>2, CacheInvariant, PTL DEF Spec, ImplementsAnswerStore, AS!StoreSpec

(***************************************************************************)
(* What a refresh fails over where no call fails.  A name that is taken    *)
(* was left by a run of its own, and a writer counts one it has not        *)
(* created yet: so there are never more leftovers and writers to come than *)
(* there were runs.                                                        *)
(***************************************************************************)
Debris == {n \in TempNames : file[n].body # "none"}

\* Those who may still create a temp file.
ToCreate == {p \in Procs : pc[p] \notin {"idle", "fill", "rename"}}

FewEnough(left, coming, started) ==
    IsFiniteSet(left) /\ IsFiniteSet(coming) /\ Cardinality(left) + Cardinality(coming) <= started

\* A writer has found every name it tried before taken, and still does.
Tried(p) ==
    /\ pc[p] \notin Storing => write[p].attempt = 1
    /\ pc[p] = "create" =>
           \A i \in 0..Attempts - 1 :
               i + 1 < write[p].attempt => file[Temp(Key(p), p, i)].body # "none"

Counted == FewEnough(Debris, ToCreate, runs) /\ \A p \in Procs : Tried(p)

LEMMA FewerStayFew ==
    ASSUME NEW left, NEW coming, NEW started \in Nat, FewEnough(left, coming, started),
           NEW left2, left2 \subseteq left, NEW coming2, coming2 \subseteq coming
    PROVE  FewEnough(left2, coming2, started)
<1>1. /\ Cardinality(left) \in Nat /\ Cardinality(coming) \in Nat
      /\ IsFiniteSet(left2) /\ Cardinality(left2) <= Cardinality(left)
      /\ IsFiniteSet(coming2) /\ Cardinality(coming2) <= Cardinality(coming)
  BY FS_Subset, FS_CardinalityType DEF FewEnough
<1>2. Cardinality(left2) \in Nat /\ Cardinality(coming2) \in Nat
  BY <1>1, FS_CardinalityType
<1>3. QED
  BY <1>1, <1>2 DEF FewEnough

LEMMA OneMoreStarts ==
    ASSUME NEW left, NEW coming, NEW started \in Nat, FewEnough(left, coming, started), NEW p
    PROVE  FewEnough(left, coming \cup {p}, started + 1)
<1>1. /\ Cardinality(left) \in Nat /\ Cardinality(coming) \in Nat
      /\ IsFiniteSet(coming \cup {p})
      /\ Cardinality(coming \cup {p}) = IF p \in coming THEN Cardinality(coming)
                                                        ELSE Cardinality(coming) + 1
  BY FS_AddElement, FS_CardinalityType DEF FewEnough
<1>2. QED
  BY <1>1 DEF FewEnough

LEMMA OneCreates ==
    ASSUME NEW left, NEW coming, NEW started \in Nat, FewEnough(left, coming, started),
           NEW p \in coming, NEW n
    PROVE  FewEnough(left \cup {n}, coming \ {p}, started)
<1>1. /\ Cardinality(left) \in Nat /\ Cardinality(coming) \in Nat
      /\ IsFiniteSet(coming \ {p}) /\ Cardinality(coming \ {p}) = Cardinality(coming) - 1
      /\ IsFiniteSet(left \cup {n})
      /\ Cardinality(left \cup {n}) = IF n \in left THEN Cardinality(left)
                                                    ELSE Cardinality(left) + 1
  BY FS_AddElement, FS_RemoveElement, FS_CardinalityType DEF FewEnough
<1>2. QED
  BY <1>1 DEF FewEnough

\* Who gives up has found every name taken, and so many runs have started.
LEMMA NamesRunOut ==
    ASSUME IInv, Counted, NEW p \in Procs, CreateGivesUp(p)
    PROVE  /\ \A n \in 0..Attempts - 1 : file[Temp(Key(p), p, n)].body # "none"
           /\ runs > Attempts
<1>1. /\ pc[p] = "create" /\ write[p].attempt = Attempts /\ Key(p) \in Keys
      /\ file[Temp(Key(p), p, Attempts - 1)].body # "none"
      /\ Attempts \in Nat \ {0} /\ runs \in 0..MaxRuns /\ MaxRuns \in Nat
  BY NameTypes, PrCacheAssumption DEF CreateGivesUp, OwnTemp, IInv, Safe, TypeOK
<1> DEFINE k == Key(p)
           f == [i \in 0..Attempts - 1 |-> Temp(k, p, i)]
<1>2. \A i \in 0..Attempts - 1 : Temp(k, p, i) \in Debris
  <2>1. ASSUME NEW i \in 0..Attempts - 1 PROVE Temp(k, p, i) \in Debris
    <3>1. Temp(k, p, i) \in TempNames
      BY <1>1 DEF Temp, TempNames
    <3>2. i + 1 < Attempts \/ i = Attempts - 1
      BY <1>1
    <3>3. file[Temp(k, p, i)].body # "none"
      BY <1>1, <3>2 DEF Counted, Tried
    <3>4. QED
      BY <3>1, <3>3 DEF Debris
  <2>2. QED
    BY <2>1
<1>3. f \in Injection(0..Attempts - 1, Debris)
  <2>1. f \in [0..Attempts - 1 -> Debris]
    BY <1>2
  <2>2. \A i, j \in 0..Attempts - 1 : f[i] = f[j] => i = j
    BY DEF Temp
  <2>3. QED
    BY <2>1, <2>2 DEF Injection, IsInjective
<1>4. IsFiniteSet(Debris) /\ IsFiniteSet(ToCreate) /\ p \in ToCreate
      /\ Cardinality(Debris) + Cardinality(ToCreate) <= runs
  BY <1>1 DEF Counted, FewEnough, ToCreate
<1>5. Cardinality(0..Attempts - 1) = Attempts
  BY <1>1, FS_Interval
<1>6. Attempts <= Cardinality(Debris)
  BY <1>3, <1>4, <1>5, FS_Injection
<1>7. Cardinality(Debris) \in Nat /\ Cardinality(ToCreate) \in Nat /\ Cardinality(ToCreate) # 0
  BY <1>4, FS_CardinalityType, FS_EmptySet
<1>8. QED
  BY <1>1, <1>2, <1>4, <1>6, <1>7 DEF Debris

\* Every temp file there is at a step is there before it, but for the one created.
LEMMA DebrisShrinks ==
    ASSUME IInv, NEW p \in Procs, Acts(p), ~Create(p)
    PROVE  Debris' \subseteq Debris
<1>0. TypeOK /\ Safe(p) /\ \A k \in Keys : Entry(k) \notin TempNames
  BY PrCacheAssumption DEF IInv, TempNames, Entry, NoOne
<1>1. CASE file' = file
  BY <1>1 DEF Debris
<1>2. CASE SweepRemoves(p)
  BY <1>2 DEF SweepRemoves, Debris, Names, NoFile
<1>3. CASE Fill(p) \/ Rename(p) \/ RenameFails(p)
  <2>1. OwnTemp(p) \in Names /\ Key(p) \in Keys /\ file[OwnTemp(p)].body # "none"
    BY <1>0, <1>3, NameTypes DEF Fill, Rename, RenameFails, Safe
  <2>2. \A n \in TempNames : file'[n].body # "none" => n = OwnTemp(p) \/ file[n].body # "none"
    BY <1>0, <1>3, <2>1 DEF Fill, Rename, RenameFails, TypeOK, NoFile, Names
  <2>3. QED
    BY <2>1, <2>2 DEF Debris
<1>4. QED
  BY <1>1, <1>2, <1>3
     DEF Acts, Works, Fails, Sweep, Store, Start, Load, Judge, LoadFails, Lookup, Crash,
         SweepOpen, SweepFindsNoDir, SweepLock, SweepInspects, SweepEnds, SweepFails, SweepDone,
         Mkdir, StoreLock, CreateRetries, CreateGivesUp, StoreFails, diskVars

LEMMA CountKept ==
    ASSUME IInv, FewEnough(Debris, ToCreate, runs), NEW p \in Procs, Acts(p)
    PROVE  FewEnough(Debris', ToCreate', runs')
<1>0. TypeOK /\ Safe(p) /\ runs \in Nat
  BY PrCacheAssumption DEF IInv, TypeOK
<1>1. \A q \in Procs \ {p} : pc'[q] = pc[q]
  BY OthersUntouched DEF Untouched
<1>2. CASE Start(p)
  <2>1. runs' = runs + 1 /\ file' = file
    BY <1>2 DEF Start, diskVars
  <2>2. Debris' = Debris
    BY <2>1 DEF Debris
  <2>3. ToCreate' \subseteq ToCreate \cup {p}
    BY <1>1 DEF ToCreate
  <2>4. FewEnough(Debris, ToCreate \cup {p}, runs + 1)
    BY <1>0, OneMoreStarts
  <2>5. QED
    BY <1>0, <2>1, <2>2, <2>3, <2>4, FewerStayFew
<1>3. CASE Create(p)
  <2>1. runs' = runs /\ p \in ToCreate /\ pc'[p] = "fill"
    BY <1>0, <1>3 DEF Create, ToCreate, countVars, Goto, TypeOK
  <2>2. ToCreate' \subseteq ToCreate \ {p}
    BY <1>1, <2>1 DEF ToCreate
  <2>3. Debris' \subseteq Debris \cup {OwnTemp(p)}
    BY <1>0, <1>3 DEF Create, Debris, TypeOK, Names
  <2>4. FewEnough(Debris \cup {OwnTemp(p)}, ToCreate \ {p}, runs)
    BY <1>0, <2>1, OneCreates
  <2>5. QED
    BY <1>0, <2>1, <2>2, <2>3, <2>4, FewerStayFew
<1>4. CASE ~Start(p) /\ ~Create(p)
  <2>1. Debris' \subseteq Debris
    BY <1>4, DebrisShrinks
  <2>2. /\ runs' = runs
        /\ pc'[p] \in {"idle", "fill", "rename"} \/ pc[p] \notin {"idle", "fill", "rename"}
    <3> USE <1>0, <1>4 DEF Goto, Exit, countVars, TypeOK
    <3>1. CASE Sweep(p) \/ SweepFails(p)
      BY <3>1 DEF Sweep, SweepOpen, SweepFindsNoDir, SweepLock, SweepInspects, SweepRemoves, SweepEnds,
                  SweepFails, SweepDone, Sweeping
    <3>2. CASE Load(p) \/ LoadFails(p) \/ Judge(p)
      BY <3>2 DEF Load, LoadFails, Judge, Missed
    <3>3. CASE Lookup(p)
      BY <3>3 DEF Lookup
    <3>4. CASE Store(p) \/ StoreFails(p) \/ RenameFails(p) \/ Crash(p)
      BY <3>4 DEF Store, Mkdir, StoreLock, CreateRetries, CreateGivesUp, Fill, Rename, StoreFails,
                  RenameFails, Crash, StoreEnds
    <3>5. QED
      BY <3>1, <3>2, <3>3, <3>4 DEF Acts, Works, Fails
  <2>3. ToCreate' \subseteq ToCreate
    BY <1>1, <2>2 DEF ToCreate
  <2>4. QED
    BY <1>0, <2>1, <2>2, <2>3, FewerStayFew
<1>5. QED
  BY <1>2, <1>3, <1>4

LEMMA TriedKept ==
    ASSUME IInv, Counted, NEW p \in Procs, Acts(p)
    PROVE  \A q \in Procs : Tried(q)'
<1>0. /\ TypeOK /\ Attempts \in Nat \ {0}
      /\ pc[p] \notin Storing => write[p].attempt = 1
      /\ pc[p] = "create" =>
             \A i \in 0..Attempts - 1 :
                 i + 1 < write[p].attempt => file[Temp(Key(p), p, i)].body # "none"
  BY PrCacheAssumption DEF IInv, Counted, Tried
<1>1. ASSUME NEW q \in Procs \ {p} PROVE Tried(q)'
  <2>1. Untouched(q) /\ Tried(q) /\ Safe(q)
    BY OthersUntouched DEF IInv, Counted
  <2>2. pc[q] = "create" => file' = file /\ Key(q)' = Key(q)
    BY <2>1 DEF Untouched, Safe, Storing, Key
  <2>3. QED
    BY <2>1, <2>2 DEF Untouched, Tried, Temp
<1> SUFFICES Tried(p)'
  BY <1>1
<1> DEFINE Fresh == pc'[p] # "create" /\ (pc'[p] \in Storing \/ write'[p].attempt = 1)
<1>2. Fresh => Tried(p)'
  BY DEF Tried
<1>3. NoWrite.attempt = 1 /\ "idle" \notin Storing
  BY DEF NoWrite, Storing
<1>4. ASSUME NEW r, Exit(p, r) PROVE Tried(p)'
  <2>1. pc'[p] = "idle" /\ write'[p] = NoWrite
    BY <1>0, <1>4 DEF Exit, Goto, TypeOK
  <2>2. QED
    BY <1>2, <1>3, <2>1
<1>5. CASE Start(p) \/ Load(p) \/ Mkdir(p)
  <2>1. pc'[p] # "create" /\ pc[p] \notin Storing /\ write' = write
    BY <1>0, <1>5 DEF Start, Load, Mkdir, Goto, TypeOK, Storing, localVars
  <2>2. QED
    BY <1>0, <1>2, <2>1
<1>6. CASE Sweep(p) \/ SweepFails(p)
  <2>1. pc'[p] # "create" /\ pc[p] \notin Storing /\ write' = write
    BY <1>0, <1>6
       DEF Sweep, SweepOpen, SweepFindsNoDir, SweepLock, SweepInspects, SweepRemoves, SweepEnds,
           SweepFails, SweepDone, Sweeping, Goto, TypeOK, Storing, localVars
  <2>2. QED
    BY <1>0, <1>2, <2>1
<1>7. CASE Judge(p) \/ LoadFails(p)
  <2>1. CASE \E r : Exit(p, r)
    BY <1>4, <2>1
  <2>2. CASE Goto(p, "lookup") /\ write' = write
    <3>1. pc[p] \notin Storing /\ pc'[p] = "lookup"
      BY <1>0, <1>7, <2>2 DEF Judge, LoadFails, Goto, TypeOK, Storing
    <3>2. QED
      BY <1>0, <1>2, <2>2, <3>1
  <2>3. QED
    BY <1>7, <2>1, <2>2 DEF Judge, LoadFails, Missed
<1>8. CASE Lookup(p)
  <2>1. CASE \E r : Exit(p, r)
    BY <1>4, <2>1
  <2>2. ASSUME NEW v, Goto(p, "mkdir"), write' = [write EXCEPT ![p].value = v] PROVE Tried(p)'
    <3>1. write'[p].attempt = write[p].attempt /\ pc'[p] = "mkdir"
      BY <1>0, <2>2 DEF TypeOK, Writes, Goto
    <3>2. pc[p] \notin Storing
      BY <1>8 DEF Lookup, Storing
    <3>3. QED
      BY <1>0, <1>2, <3>1, <3>2
  <2>3. QED
    BY <1>8, <2>1, <2>2 DEF Lookup
<1>9. CASE StoreLock(p)
  <2>1. /\ pc'[p] = "create" /\ pc'[p] \in Storing
        /\ write'[p].attempt = write[p].attempt /\ pc[p] \notin Storing
    BY <1>0, <1>9 DEF StoreLock, Goto, TypeOK, Writes, Storing
  <2>2. \A i \in 0..Attempts - 1 : ~(i + 1 < write'[p].attempt)
    BY <1>0, <2>1
  <2>3. QED
    BY <2>1, <2>2 DEF Tried
<1>10. CASE CreateRetries(p)
  <2>1. /\ pc[p] = "create" /\ pc' = pc /\ file' = file /\ Key(p)' = Key(p)
        /\ file[Temp(Key(p), p, write[p].attempt - 1)].body # "none"
        /\ write'[p].attempt = write[p].attempt + 1 /\ write[p].attempt \in 1..Attempts
    BY <1>0, <1>10 DEF CreateRetries, TypeOK, Writes, Key, diskVars, OwnTemp
  <2>2. \A i \in 0..Attempts - 1 :
            i + 1 < write[p].attempt + 1 => i + 1 < write[p].attempt \/ i = write[p].attempt - 1
    BY <1>0, <2>1
  <2>3. \A i \in 0..Attempts - 1 :
            i + 1 < write'[p].attempt => file'[Temp(Key(p)', p, i)].body # "none"
    BY <1>0, <2>1, <2>2
  <2>4. pc'[p] \in Storing
    BY <2>1 DEF Storing
  <2>5. QED
    BY <2>3, <2>4 DEF Tried, Temp
<1>11. CASE Create(p) \/ Fill(p)
  <2>1. pc'[p] \in Storing /\ pc'[p] # "create"
    BY <1>0, <1>11 DEF Create, Fill, Goto, TypeOK, Storing
  <2>2. QED
    BY <1>2, <2>1
<1>12. CASE CreateGivesUp(p) \/ StoreFails(p) \/ Rename(p) \/ RenameFails(p) \/ Crash(p)
  <2>1. \E r : Exit(p, r)
    BY <1>12 DEF CreateGivesUp, StoreFails, Rename, RenameFails, Crash, StoreEnds
  <2>2. QED
    BY <1>4, <2>1
<1>13. QED
  BY <1>5, <1>6, <1>7, <1>8, <1>9, <1>10, <1>11, <1>12 DEF Acts, Works, Fails, Store

\* A report a call has failed for is excused, and so is one with nothing worse in it
\* than there was.
LEMMA TroubleIsExcused ==
    ASSUME NEW p \in Procs, NEW r, "trouble" \in r.flags PROVE Excused(p, r)
BY DEF Excused

LEMMA NoWorseIsExcused ==
    ASSUME NEW p \in Procs, NEW r, r.flags \subseteq report[p].flags,
           r.write \in {report[p].write, "none", "skipped", "stored"}
    PROVE  Excused(p, r)
BY DEF Excused

LEMMA SweepIsExcused ==
    ASSUME IInv, NEW p \in Procs, Sweep(p) \/ SweepFails(p)
    PROVE  report' = report \/ \E r : Note(p, r) /\ Excused(p, r)
<1>0. report[p] \in Reports
  BY DEF IInv, TypeOK
<1>1. CASE SweepFindsNoDir(p)
  <2> DEFINE r == [report[p] EXCEPT !.flags = @ \cup {"sweepFailed"}]
  <2>1. Note(p, r) /\ ~dir
    BY <1>1 DEF SweepFindsNoDir, SweepDone
  <2>2. r.write = report[p].write
    BY <1>0 DEF Reports
  <2>3. Excused(p, r)
    BY <2>1, <2>2 DEF Excused
  <2>4. QED
    BY <2>1, <2>3
<1>2. CASE SweepEnds(p)
  <2> DEFINE r == [report[p] EXCEPT !.flags = @ \cup {}]
  <2>1. Note(p, r)
    BY <1>2 DEF SweepEnds, SweepDone
  <2>2. r.flags = report[p].flags /\ r.write = report[p].write
    BY <1>0 DEF Reports
  <2>3. QED
    BY <2>1, <2>2, NoWorseIsExcused
<1>3. CASE SweepFails(p)
  <2> DEFINE r == [report[p] EXCEPT !.flags = @ \cup {"sweepFailed", "trouble"}]
  <2>1. Note(p, r)
    BY <1>3 DEF SweepFails, SweepDone
  <2>2. "trouble" \in r.flags
    BY <1>0 DEF Reports
  <2>3. QED
    BY <2>1, <2>2, TroubleIsExcused
<1>4. QED
  BY <1>1, <1>2, <1>3
     DEF Sweep, SweepOpen, SweepLock, SweepInspects, SweepRemoves, localVars

LEMMA LoadIsExcused ==
    ASSUME IInv, NEW p \in Procs, Judge(p) \/ LoadFails(p)
    PROVE  \E r : Note(p, r) /\ Excused(p, r)
<1>0. report[p] \in Reports
  BY DEF IInv, TypeOK
<1> DEFINE hit    == [report[p] EXCEPT !.cache = "hit", !.resolution = "fromCache",
                                      !.write = "skipped"]
           miss   == [report[p] EXCEPT !.cache = "miss"]
           failed == [report[p] EXCEPT !.cache = "readFailed", !.flags = @ \cup {"trouble"}]
           Over(r) == [r EXCEPT !.resolution = "noPr", !.write = "skipped"]
<1>1. \/ Note(p, hit) \/ Note(p, miss) \/ Note(p, failed)
      \/ Note(p, Over(miss)) \/ Note(p, Over(failed))
  BY DEF Judge, LoadFails, Missed, Exit
<1>2. /\ hit.flags = report[p].flags /\ hit.write = "skipped"
      /\ miss.flags = report[p].flags /\ miss.write = report[p].write
      /\ Over(miss).flags = report[p].flags /\ Over(miss).write = "skipped"
      /\ "trouble" \in failed.flags /\ "trouble" \in Over(failed).flags
  BY <1>0 DEF Reports
<1> HIDE DEF hit, miss, failed, Over
<1>3. /\ Excused(p, hit) /\ Excused(p, miss) /\ Excused(p, failed)
      /\ Excused(p, Over(miss)) /\ Excused(p, Over(failed))
  BY <1>2, TroubleIsExcused, NoWorseIsExcused
<1>4. QED
  BY <1>1, <1>3

LEMMA LookupIsExcused ==
    ASSUME IInv, NEW p \in Procs, Lookup(p)
    PROVE  \E r : Note(p, r) /\ Excused(p, r)
<1>0. report[p] \in Reports
  BY DEF IInv, TypeOK
<1> DEFINE Said(outcome) ==
               [report[p] EXCEPT !.resolution = Resolution(outcome, Key(p)),
                                 !.flags = IF outcome = "failed" THEN @ \cup {"trouble"} ELSE @]
           Over(r) == [r EXCEPT !.write = "skipped"]
<1>1. PICK outcome : Note(p, Said(outcome)) \/ Note(p, Over(Said(outcome)))
  BY DEF Lookup, Exit
<1>2. /\ Said(outcome).write = report[p].write /\ Over(Said(outcome)).write = "skipped"
      /\ Over(Said(outcome)).flags = Said(outcome).flags
      /\ "trouble" \in Said(outcome).flags \/ Said(outcome).flags = report[p].flags
  BY <1>0 DEF Reports
<1> HIDE DEF Said, Over
<1>3. Excused(p, Said(outcome)) /\ Excused(p, Over(Said(outcome)))
  BY <1>2, TroubleIsExcused, NoWorseIsExcused
<1>4. QED
  BY <1>1, <1>3

LEMMA StoreIsExcused ==
    ASSUME IInv, Counted, NEW p \in Procs, Store(p) \/ StoreFails(p) \/ RenameFails(p)
    PROVE  report' = report \/ \E r : Note(p, r) /\ Excused(p, r)
<1>0. report[p] \in Reports
  BY DEF IInv, TypeOK
<1>1. CASE CreateGivesUp(p)
  <2> DEFINE r == [report[p] EXCEPT !.write = "failed", !.flags = @ \cup {}]
  <2>1. Note(p, r)
    BY <1>1 DEF CreateGivesUp, StoreEnds, Exit
  <2>2. r.flags = report[p].flags
    BY <1>0 DEF Reports
  <2> HIDE DEF r
  <2>3. Excused(p, r)
    BY <1>1, <2>2, NamesRunOut DEF Excused
  <2>4. QED
    BY <2>1, <2>3
<1>2. CASE Rename(p)
  <2> DEFINE r == [report[p] EXCEPT !.write = "stored", !.flags = @ \cup {}]
  <2>1. Note(p, r)
    BY <1>2 DEF Rename, StoreEnds, Exit
  <2>2. r.flags = report[p].flags /\ r.write = "stored"
    BY <1>0 DEF Reports
  <2>3. QED
    BY <2>1, <2>2, NoWorseIsExcused
<1>3. CASE StoreFails(p) \/ RenameFails(p)
  <2> DEFINE r == [report[p] EXCEPT !.write = "failed", !.flags = @ \cup {"trouble"}]
  <2>1. Note(p, r)
    BY <1>3 DEF StoreFails, RenameFails, StoreEnds, Exit
  <2>2. "trouble" \in r.flags
    BY <1>0 DEF Reports
  <2>3. QED
    BY <2>1, <2>2, TroubleIsExcused
<1>4. QED
  BY <1>1, <1>2, <1>3
     DEF Store, Mkdir, StoreLock, Create, CreateRetries, Fill, localVars

\* What a process that acts notes is excused, and the others note nothing.
LEMMA EveryReportIsExcused ==
    ASSUME IInv, Counted, [Next]_vars
    PROVE  \A q \in Procs : Excused(q, report'[q])
<1>0. report \in [Procs -> Reports] /\ \A q \in Procs : Excused(q, report[q])
  BY DEF IInv, TypeOK, Excused
<1>1. ASSUME NEW p \in Procs, NEW r, Note(p, r), Excused(p, r)
      PROVE  \A q \in Procs : Excused(q, report'[q])
  <2>1. \A q \in Procs : report'[q] = IF q = p THEN r ELSE report[q]
    BY <1>0, <1>1 DEF Note
  <2>2. QED
    BY <1>0, <1>1, <2>1
<1>2. CASE report' = report
  BY <1>0, <1>2
<1>3. ASSUME NEW p \in Procs, Acts(p)
      PROVE  report' = report \/ \E r : Note(p, r) /\ Excused(p, r)
  <2>1. CASE Start(p) \/ Crash(p)
    <3> DEFINE none == [NoReport EXCEPT !.cache = "dirUnavailable", !.flags = {"trouble"}]
    <3>1. Note(p, NoReport) \/ Note(p, none)
      BY <2>1 DEF Start, Crash, Exit
    <3>2. "trouble" \in none.flags /\ NoReport.flags = {} /\ NoReport.write = "none"
      BY DEF NoReport
    <3> HIDE DEF none
    <3>3. Excused(p, NoReport) /\ Excused(p, none)
      BY <3>2, TroubleIsExcused, NoWorseIsExcused
    <3>4. QED
      BY <3>1, <3>3
  <2>2. CASE Load(p)
    BY <2>2 DEF Load
  <2>3. QED
    BY <1>3, <2>1, <2>2, SweepIsExcused, LoadIsExcused, LookupIsExcused, StoreIsExcused
       DEF Acts, Works, Fails
<1>4. CASE Tick \/ Finished \/ UNCHANGED vars
  BY <1>2, <1>4 DEF Tick, Finished, vars, localVars
<1>5. QED
  BY <1>1, <1>2, <1>3, <1>4 DEF Next, Acts

LEMMA CountedOn == IInv /\ Counted /\ [Next]_vars => Counted'
<1> SUFFICES ASSUME IInv, Counted, [Next]_vars PROVE Counted'
  OBVIOUS
<1>1. ASSUME NEW p \in Procs, Acts(p) PROVE Counted'
  <2>1. FewEnough(Debris', ToCreate', runs')
    BY <1>1, CountKept DEF Counted
  <2>2. \A q \in Procs : Tried(q)'
    BY <1>1, TriedKept
  <2>3. FewEnough(Debris, ToCreate, runs)'
    BY <2>1 DEF FewEnough
  <2>4. QED
    BY <2>2, <2>3 DEF Counted
<1>2. CASE Tick \/ Finished \/ UNCHANGED vars
  <2>1. UNCHANGED <<file, pc, request, write, runs>>
    BY <1>2 DEF Tick, Finished, vars, diskVars, localVars, countVars
  <2>2. Debris' = Debris /\ ToCreate' = ToCreate
    BY <2>1 DEF Debris, ToCreate
  <2>3. \A q \in Procs : Tried(q)'
    BY <2>1 DEF Counted, Tried, Key, Temp
  <2>4. QED
    BY <2>1, <2>2, <2>3 DEF Counted, FewEnough
<1>3. QED
  BY <1>1, <1>2 DEF Next, Acts

LEMMA CountedAtFirst == Init => Counted
<1> SUFFICES ASSUME Init PROVE Counted
  OBVIOUS
<1>1. Debris = {}
  <2>1. \A n \in TempNames : n \in Names /\ n \notin EntryNames
    BY PrCacheAssumption DEF Names, EntryNames, TempNames, Entry, NoOne
  <2>2. QED
    BY <2>1, EmptyFiles DEF Init, Debris
<1>2. ToCreate = {}
  BY DEF Init, ToCreate
<1>3. FewEnough(Debris, ToCreate, runs)
  BY <1>1, <1>2, FS_EmptySet DEF Init, FewEnough
<1>4. \A p \in Procs : Tried(p)
  BY DEF Init, Tried, NoWrite
<1>5. QED
  BY <1>3, <1>4 DEF Counted

\* A refresh for which no call failed fails to sweep only where there is no directory,
\* and to store only over a leftover at each name it may mint, which took more runs than
\* there are names: whether or not the directory is there at first, and for any number of
\* runs, whichever of them failed or died.
THEOREM LeftoversAloneSpoilLookups == Spec => OnlyLeftoversSpoilALookup
<1> DEFINE Step == \A p \in Procs : Excused(p, report'[p])
<1>1. IInv /\ Counted /\ [Next]_vars => Counted'
  BY CountedOn
<1>2. IInv /\ Counted /\ [Next]_vars => [Step]_vars
  BY EveryReportIsExcused
<1>3. QED
  BY <1>1, <1>2, CountedAtFirst, CacheInvariant, PTL DEF Spec, OnlyLeftoversSpoilALookup

(***************************************************************************)
(* That a process runs out of calls to make.  Within counts what a sweep   *)
(* has spent, which its limits bound; the lock's holder is in one of the   *)
(* passages it is for, because every way out of them gives it back.        *)
(***************************************************************************)
Within(p) ==
    /\ sweep[p].inspected <= InspectLimit /\ sweep[p].removed <= RemovalLimit
    /\ pc[p] = "sweepRemove" => sweep[p].removed < RemovalLimit

HolderWorks == lock # NoOne => pc[lock] \in Sweeping \cup Storing

Budget == (\A p \in Procs : Within(p)) /\ HolderWorks

\* A step of p brings it closer to its end, within what its sweep may spend, and
\* takes the lock for a passage or gives it back.
Closer(p) == Works(p) \/ Fails(p) => CallsLeft(p)' \in 0..CallsLeft(p) - 1
Lawful(p) == /\ lock' \in {NoOne, lock, p}
             /\ lock' = p => pc'[p] \in Sweeping \cup Storing

LEMMA CallsAreLeft ==
    ASSUME TypeOK, NEW p \in Procs, Within(p), pc[p] # "idle"
    PROVE  CallsLeft(p) \in Nat \ {0}
<1>1. /\ InspectLimit \in Nat /\ RemovalLimit \in Nat /\ Attempts \in Nat \ {0}
      /\ sweep[p].inspected \in Nat /\ sweep[p].removed \in Nat
      /\ write[p].attempt \in 1..Attempts /\ pc[p] \in Positions
  BY PrCacheAssumption DEF TypeOK, Sweeps, Writes
<1>2. SweepCalls(p) \in Nat
  BY <1>1 DEF SweepCalls, Within
<1>3. CASE pc[p] \in Storing
  <2>1. WriteCalls(p) \in Nat \ {0}
    BY <1>1, <1>3 DEF WriteCalls, Storing
  <2>2. CallsLeft(p) = WriteCalls(p)
    BY <1>3 DEF CallsLeft, Storing, Sweeping
  <2>3. QED
    BY <2>1, <2>2
<1>4. CASE pc[p] \notin Storing
  BY <1>1, <1>2, <1>4 DEF CallsLeft, Storing, Sweeping, Positions
<1>5. QED
  BY <1>3, <1>4

\* A process that ends has nothing left to do and gives the lock back.
LEMMA ExitIsCloser ==
    ASSUME TypeOK, NEW p \in Procs, Within(p), pc[p] # "idle", NEW r, Exit(p, r)
    PROVE  Within(p)' /\ Lawful(p) /\ Closer(p)
<1>1. pc'[p] = "idle" /\ sweep'[p] = NoSweep
  BY DEF Exit, Goto, TypeOK
<1>2. CallsLeft(p)' = 0
  BY <1>1 DEF CallsLeft, Storing, Sweeping
<1>3. CallsLeft(p)' \in 0..CallsLeft(p) - 1
  BY <1>2, CallsAreLeft
<1>4. Within(p)'
  BY <1>1, PrCacheAssumption DEF Within, NoSweep
<1>5. lock' \in {NoOne, lock} /\ lock' # p
  BY PrCacheAssumption DEF Exit, Unlocked, NoOne
<1>6. QED
  BY <1>3, <1>4, <1>5 DEF Lawful, Closer

LEMMA MissIsCloser ==
    ASSUME TypeOK, NEW p \in Procs, Within(p), HolderWorks, pc[p] \in {"load", "judge"},
           NEW r, Missed(p, r)
    PROVE  Within(p)' /\ Lawful(p) /\ Closer(p)
<1>1. CASE request[p].mode = "status"
  BY <1>1, ExitIsCloser DEF Missed
<1>2. CASE request[p].mode # "status"
  <2>1. pc'[p] = "lookup" /\ sweep' = sweep /\ lock' = lock
    BY <1>2 DEF Missed, Goto, TypeOK
  <2>2. CallsLeft(p)' = Attempts + 5 /\ CallsLeft(p) \in {Attempts + 6, Attempts + 7}
    BY <2>1 DEF CallsLeft, Storing, Sweeping
  <2>3. lock # p
    BY PrCacheAssumption DEF HolderWorks, Sweeping, Storing, NoOne
  <2>4. QED
    BY <2>1, <2>2, <2>3, PrCacheAssumption DEF Within, Lawful, Closer
<1>3. QED
  BY <1>1, <1>2

LEMMA SweepIsCloser ==
    ASSUME IInv, Budget, NEW p \in Procs, Sweep(p) \/ SweepFails(p)
    PROVE  Within(p)' /\ Lawful(p) /\ Closer(p)
<1>0. /\ TypeOK /\ Within(p) /\ p # NoOne
      /\ InspectLimit \in Nat /\ RemovalLimit \in Nat /\ Attempts \in Nat \ {0}
      /\ sweep[p] \in Sweeps /\ sweep[p].inspected \in Nat /\ sweep[p].removed \in Nat
      /\ pc[p] \notin Sweeping \cup Storing => lock # p
  BY PrCacheAssumption DEF IInv, TypeOK, Budget, HolderWorks, Sweeps, NoOne
<1>1. CASE SweepOpen(p)
  <2>1. pc[p] = "sweepOpen" /\ pc'[p] = "sweepLock" /\ sweep' = sweep /\ lock' = lock
    BY <1>0, <1>1 DEF SweepOpen, Goto, TypeOK, localVars, diskVars
  <2>2. QED
    BY <1>0, <2>1 DEF Within, Lawful, Closer, CallsLeft, Storing, Sweeping
<1>2. ASSUME NEW flags, SweepDone(p, flags),
             pc[p] \in {"sweepOpen", "sweepLock"} \cup Sweeping
      PROVE  Within(p)' /\ Lawful(p) /\ Closer(p)
  <2>1. pc'[p] = "load" /\ sweep'[p] = NoSweep /\ lock' \in {NoOne, lock} /\ lock' # p
    BY <1>0, <1>2 DEF SweepDone, Goto, TypeOK, Unlocked
  <2>2. Within(p)'
    BY <1>0, <2>1 DEF Within, NoSweep
  <2>3. CallsLeft(p)' = Attempts + 7
    BY <2>1 DEF CallsLeft, Storing, Sweeping
  <2>4. SweepCalls(p) \in Nat \ {0}
    BY <1>0 DEF SweepCalls, Within
  <2>5. /\ CallsLeft(p) \in Nat
        /\ CallsLeft(p) > Attempts + 7
    BY <1>0, <1>2, <2>4 DEF CallsLeft, Storing, Sweeping
  <2>6. QED
    BY <1>0, <2>1, <2>2, <2>3, <2>5 DEF Lawful, Closer
<1>3. CASE SweepFindsNoDir(p) \/ SweepEnds(p) \/ SweepFails(p)
  BY <1>2, <1>3 DEF SweepFindsNoDir, SweepEnds, SweepFails, Sweeping
<1>4. CASE SweepLock(p)
  <2>1. /\ pc[p] = "sweepLock" /\ pc'[p] = "sweeping" /\ lock' = p
        /\ sweep'[p].inspected = sweep[p].inspected /\ sweep'[p].removed = sweep[p].removed
    BY <1>0, <1>4 DEF SweepLock, Goto, TypeOK, Sweeps
  <2>2. Within(p)' /\ Lawful(p)
    BY <1>0, <2>1 DEF Within, Lawful, Sweeping
  <2>3. QED
    BY <1>0, <2>1, <2>2 DEF Within, Closer, CallsLeft, SweepCalls, Storing, Sweeping
<1>5. CASE SweepInspects(p)
  <2>1. /\ pc[p] = "sweeping" /\ pc'[p] \in Sweeping /\ lock' = lock
        /\ sweep'[p].inspected = sweep[p].inspected + 1 /\ sweep'[p].removed = sweep[p].removed
    BY <1>0, <1>5 DEF SweepInspects, Goto, TypeOK, Sweeps, Sweeping, diskVars
  <2>2. sweep[p].inspected < InspectLimit /\ sweep[p].removed < RemovalLimit
    BY <1>0, <1>5 DEF SweepInspects, SweepSpent
  <2>3. Within(p)' /\ Lawful(p)
    BY <1>0, <2>1, <2>2 DEF Within, Lawful
  <2>4. QED
    BY <1>0, <2>1, <2>2, <2>3 DEF Closer, CallsLeft, SweepCalls, Storing, Sweeping
<1>6. CASE SweepRemoves(p)
  <2>1. /\ pc[p] = "sweepRemove" /\ pc'[p] = "sweeping" /\ lock' = lock
        /\ sweep'[p].inspected = sweep[p].inspected /\ sweep'[p].removed = sweep[p].removed + 1
    BY <1>0, <1>6 DEF SweepRemoves, Goto, TypeOK, Sweeps
  <2>2. Within(p)' /\ Lawful(p)
    BY <1>0, <2>1 DEF Within, Lawful, Sweeping
  <2>3. QED
    BY <1>0, <2>1, <2>2 DEF Within, Closer, CallsLeft, SweepCalls, Storing, Sweeping
<1>7. QED
  BY <1>1, <1>3, <1>4, <1>5, <1>6 DEF Sweep

LEMMA PolicyIsCloser ==
    ASSUME IInv, Budget, NEW p \in Procs, Load(p) \/ Judge(p) \/ LoadFails(p) \/ Lookup(p)
    PROVE  Within(p)' /\ Lawful(p) /\ Closer(p)
<1>0. /\ TypeOK /\ Within(p) /\ HolderWorks /\ p # NoOne /\ Attempts \in Nat \ {0}
      /\ pc[p] \notin Sweeping \cup Storing => lock # p
  BY PrCacheAssumption DEF IInv, TypeOK, Budget, HolderWorks, NoOne
<1>1. CASE Load(p)
  <2>1. pc[p] = "load" /\ pc'[p] = "judge" /\ sweep' = sweep /\ lock' = lock
    BY <1>0, <1>1 DEF Load, Goto, TypeOK, diskVars
  <2>2. QED
    BY <1>0, <2>1 DEF Within, Lawful, Closer, CallsLeft, Storing, Sweeping
<1>2. CASE Judge(p) \/ LoadFails(p)
  <2>1. pc[p] \in {"load", "judge"} /\ \E r : Exit(p, r) \/ Missed(p, r)
    BY <1>2 DEF Judge, LoadFails
  <2>2. QED
    BY <1>0, <2>1, ExitIsCloser, MissIsCloser
<1>3. CASE Lookup(p)
  <2>0. pc[p] = "lookup"
    BY <1>3 DEF Lookup
  <2>1. ASSUME NEW r, Exit(p, r) PROVE Within(p)' /\ Lawful(p) /\ Closer(p)
    BY <1>0, <2>0, <2>1, ExitIsCloser
  <2>2. CASE Goto(p, "mkdir") /\ UNCHANGED <<lock, request, sweep, seen>>
    <3>1. pc'[p] = "mkdir"
      BY <1>0, <2>2 DEF Goto, TypeOK
    <3>2. QED
      BY <1>0, <2>0, <2>2, <3>1 DEF Within, Lawful, Closer, CallsLeft, Storing, Sweeping
  <2>3. (\E r : Exit(p, r)) \/ (Goto(p, "mkdir") /\ UNCHANGED <<lock, request, sweep, seen>>)
    BY <1>3 DEF Lookup
  <2>4. QED
    BY <2>1, <2>2, <2>3
<1>4. QED
  BY <1>1, <1>2, <1>3

LEMMA StoreIsCloser ==
    ASSUME IInv, Budget, NEW p \in Procs, Store(p) \/ StoreFails(p) \/ RenameFails(p)
    PROVE  Within(p)' /\ Lawful(p) /\ Closer(p)
<1>0. /\ TypeOK /\ Within(p) /\ p # NoOne /\ Attempts \in Nat \ {0}
      /\ write[p] \in Writes /\ write[p].attempt \in 1..Attempts
      /\ pc[p] \notin Sweeping \cup Storing => lock # p
  BY PrCacheAssumption DEF IInv, TypeOK, Budget, HolderWorks, Writes, NoOne
<1>1. CASE Mkdir(p)
  <2>1. pc[p] = "mkdir" /\ pc'[p] = "storeLock" /\ sweep' = sweep /\ lock' = lock
    BY <1>0, <1>1 DEF Mkdir, Goto, TypeOK, localVars
  <2>2. QED
    BY <1>0, <2>1 DEF Within, Lawful, Closer, CallsLeft, Storing, Sweeping
<1>2. CASE StoreLock(p)
  <2>1. /\ pc[p] = "storeLock" /\ pc'[p] = "create" /\ sweep' = sweep /\ lock' = p
        /\ write'[p].attempt = write[p].attempt
    BY <1>0, <1>2 DEF StoreLock, Goto, TypeOK, Writes
  <2>2. QED
    BY <1>0, <2>1 DEF Within, Lawful, Closer, CallsLeft, WriteCalls, Storing, Sweeping
<1>3. CASE Create(p)
  <2>1. pc[p] = "create" /\ pc'[p] = "fill" /\ sweep' = sweep /\ lock' = lock
    BY <1>0, <1>3 DEF Create, Goto, TypeOK, localVars
  <2>2. QED
    BY <1>0, <2>1 DEF Within, Lawful, Closer, CallsLeft, WriteCalls, Storing, Sweeping
<1>4. CASE CreateRetries(p)
  <2>1. /\ pc[p] = "create" /\ pc'[p] = "create" /\ sweep' = sweep /\ lock' = lock
        /\ write'[p].attempt = write[p].attempt + 1 /\ write[p].attempt < Attempts
    BY <1>0, <1>4 DEF CreateRetries, TypeOK, Writes, diskVars
  <2>2. QED
    BY <1>0, <2>1 DEF Within, Lawful, Closer, CallsLeft, WriteCalls, Storing, Sweeping
<1>5. CASE Fill(p)
  <2>1. pc[p] = "fill" /\ pc'[p] = "rename" /\ sweep' = sweep /\ lock' = lock
    BY <1>0, <1>5 DEF Fill, Goto, TypeOK, localVars
  <2>2. QED
    BY <1>0, <2>1 DEF Within, Lawful, Closer, CallsLeft, WriteCalls, Storing, Sweeping
<1>6. CASE CreateGivesUp(p) \/ StoreFails(p) \/ Rename(p) \/ RenameFails(p)
  <2>1. pc[p] # "idle" /\ \E r : Exit(p, r)
    BY <1>6 DEF CreateGivesUp, StoreFails, Rename, RenameFails, StoreEnds
  <2>2. QED
    BY <1>0, <2>1, ExitIsCloser
<1>7. QED
  BY <1>1, <1>2, <1>3, <1>4, <1>5, <1>6 DEF Store

LEMMA ActorComesCloser ==
    ASSUME IInv, Budget, NEW p \in Procs, Acts(p)
    PROVE  Within(p)' /\ Lawful(p) /\ Closer(p)
<1>0. /\ TypeOK /\ Within(p) /\ HolderWorks /\ p # NoOne
  BY PrCacheAssumption DEF IInv, Budget, NoOne
<1>1. CASE Start(p)
  <2>1. /\ pc[p] = "idle" /\ sweep' = sweep /\ lock' = lock
        /\ pc'[p] \in {"load", "sweepOpen", "lookup"}
    BY <1>0, <1>1 DEF Start, Goto, TypeOK, diskVars
  <2>2. lock # p
    BY <1>0, <2>1 DEF HolderWorks, Sweeping, Storing
  <2>3. ~Works(p) /\ ~Fails(p)
    BY <2>1 DEF Works, Fails, Sweep, Store, SweepOpen, SweepFindsNoDir, SweepLock,
                SweepInspects, SweepRemoves, SweepEnds, Load, Judge, Lookup, Mkdir, StoreLock,
                Create, CreateRetries, CreateGivesUp, Fill, Rename, SweepFails, LoadFails,
                StoreFails, RenameFails, Sweeping
  <2>4. QED
    BY <1>0, <2>1, <2>2, <2>3 DEF Within, Lawful, Closer
<1>2. CASE Crash(p)
  BY <1>0, <1>2, ExitIsCloser DEF Crash
<1>3. QED
  BY <1>1, <1>2, SweepIsCloser, PolicyIsCloser, StoreIsCloser DEF Acts, Works, Fails

\* The others' sweeps and positions are left alone, and one that holds the lock
\* keeps it.
LEMMA BudgetKept ==
    ASSUME IInv, Budget, NEW p \in Procs, Acts(p)
    PROVE  /\ Budget'
           /\ lock' # NoOne => pc'[lock'] \in Sweeping \cup Storing
<1>1. Within(p)' /\ Lawful(p)
  BY ActorComesCloser
<1>2. ASSUME NEW q \in Procs \ {p} PROVE pc'[q] = pc[q] /\ sweep'[q] = sweep[q] /\ Within(q)'
  BY OthersUntouched DEF Untouched, Budget, Within
<1>3. lock' # NoOne => pc'[lock'] \in Sweeping \cup Storing
  <2>1. lock \in Procs \cup {NoOne}
    BY DEF IInv, TypeOK
  <2>2. QED
    BY <1>1, <1>2, <2>1 DEF Lawful, Budget, HolderWorks
<1>4. QED
  BY <1>1, <1>2, <1>3 DEF Budget, HolderWorks

\* A step of one process is no call of another's.
LEMMA OneActsAtATime ==
    ASSUME IInv, Budget, NEW p \in Procs, Acts(p), NEW q \in Procs
    PROVE  Closer(q)
<1>1. CASE q = p
  BY <1>1, ActorComesCloser
<1>2. CASE Acts(q)
  BY <1>2, ActorComesCloser
<1>3. QED
  BY <1>2 DEF Acts, Closer

LEMMA BoundsKept ==
    ASSUME IInv, Budget, [Next]_vars
    PROVE  /\ Budget'
           /\ \A p \in Procs : Closer(p)
           /\ lock' # NoOne => pc'[lock'] \in Sweeping \cup Storing
<1>1. CASE \E p \in Procs : Acts(p)
  BY <1>1, BudgetKept, OneActsAtATime
<1>2. CASE ~\E p \in Procs : Acts(p)
  <2>1. UNCHANGED <<pc, sweep, lock>>
    BY <1>2 DEF Next, Acts, Tick, Finished, vars, diskVars, localVars
  <2>2. \A p \in Procs : Closer(p)
    BY <1>2 DEF Acts, Closer
  <2>3. QED
    BY <2>1, <2>2 DEF Budget, Within, HolderWorks
<1>3. QED
  BY <1>1, <1>2

LEMMA BudgetBegins == Init => Budget
BY PrCacheAssumption DEF Init, Budget, Within, HolderWorks, NoSweep

\* However the processes interleave, fail or die, each makes a number of calls that the
\* limits give, and the lock is only ever held for a passage that ends (sweep_cache_dir,
\* write).  Without fairness, which no theorem here has, this is what is left to prove of
\* EveryProcessEnds: a process that never ends is one that nobody runs.
THEOREM EveryCallIsOneLess == Spec => CallsAreBounded
<1> DEFINE Step == /\ \A p \in Procs : Works(p) \/ Fails(p) => CallsLeft(p)' \in 0..CallsLeft(p) - 1
                   /\ lock' # NoOne => pc'[lock'] \in Sweeping \cup Storing
<1>1. IInv /\ Budget /\ [Next]_vars => Budget'
  BY BoundsKept
<1>2. IInv /\ Budget /\ [Next]_vars => [Step]_vars
  BY BoundsKept DEF Closer
<1>3. QED
  BY <1>1, <1>2, BudgetBegins, CacheInvariant, PTL DEF Spec, CallsAreBounded
=============================================================================

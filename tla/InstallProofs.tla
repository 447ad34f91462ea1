--------------------------- MODULE InstallProofs ---------------------------
(***************************************************************************)
(* Proofs about Install, for every set of pids, requests, texts the user   *)
(* may write and file modes, and whichever calls fail or installs die.     *)
(***************************************************************************)
EXTENDS Install, SequenceTheorems, FiniteSetTheorems, TLAPS

(***************************************************************************)
(* The splice yields a config of tokens.                                   *)
(***************************************************************************)

LEMMA SnippetType == ASSUME NEW v \in Variants PROVE Snippet(v) \in Texts
BY DEF Snippet, Texts, Tokens, Begin, End, Break

\* A marker that is counted once has a place.
LEMMA PlaceExists ==
    ASSUME NEW text \in Texts, NEW t, Count(text, t) = 1
    PROVE  Place(text, t) \in 1..Len(text)
<1>1. {i \in DOMAIN text : text[i] = t} # {}
  BY FS_EmptySet DEF Count
<1>2. PICK i \in DOMAIN text : text[i] = t
  BY <1>1
<1>3. Place(text, t) \in DOMAIN text
  BY <1>2 DEF Place
<1> QED
  BY <1>3 DEF Texts

LEMMA CutTypes ==
    ASSUME NEW text \in Texts, NEW b \in 1..Len(text), NEW e \in 1..Len(text)
    PROVE  SubSeq(text, 1, b - 1) \in Texts /\ SubSeq(text, e + 1, Len(text)) \in Texts
<1>1. \A m \in 1..Len(text) + 1, n \in 0..Len(text) : SubSeq(text, m, n) \in Seq(Tokens)
  BY SubSeqProperties DEF Texts
<1> QED
  BY <1>1 DEF Texts

\* apply_snippet, whatever the config holds: a text or a refusal.
LEMMA ApplyType ==
    ASSUME NEW text \in Texts, NEW v \in Variants
    PROVE  Apply(text, v).text \in Texts
<1>1. <<>> \in Texts /\ <<Break>> \in Texts
  BY DEF Texts, Tokens, Break
<1>2. \A s, t \in Texts : s \o t \in Texts
  BY DEF Texts
<1>3. CASE Count(text, Begin) = 0 /\ Count(text, End) = 0
  <2>1. AppendSnippet(text, v).text \in Texts
    BY <1>1, <1>2, SnippetType DEF AppendSnippet, Updated
  <2> QED
    BY <1>3, <2>1 DEF Apply
<1>4. CASE Count(text, Begin) = 1 /\ Count(text, End) = 1
  <2> DEFINE b == Place(text, Begin)
             e == BlockEnd(text)
  <2>1. b \in 1..Len(text) /\ Place(text, End) \in 1..Len(text)
    BY <1>4, PlaceExists
  <2>2. Len(text) \in Nat
    BY DEF Texts
  <2>3. e \in 1..Len(text)
    BY <2>1, <2>2 DEF BlockEnd
  <2>4. SubSeq(text, 1, b - 1) \in Texts /\ SubSeq(text, e + 1, Len(text)) \in Texts
    BY <2>1, <2>3, CutTypes
  <2> HIDE DEF b, e
  <2>5. SubSeq(text, 1, b - 1) \o Snippet(v) \o SubSeq(text, e + 1, Len(text)) \in Texts
    BY <1>2, <2>4, SnippetType
  <2>6. ReplaceBlock(text, v).text \in Texts
    BY <1>1, <2>5 DEF ReplaceBlock, Updated, Current, Refused, b, e
  <2> QED
    BY <1>4, <2>6 DEF Apply
<1>5. CASE /\ ~(Count(text, Begin) = 0 /\ Count(text, End) = 0)
           /\ ~(Count(text, Begin) = 1 /\ Count(text, End) = 1)
  BY <1>1, <1>5 DEF Apply, Refused
<1> QED
  BY <1>3, <1>4, <1>5

(***************************************************************************)
(* Type correctness.  An install polls only while it has attempts left.    *)
(***************************************************************************)

TypeInv == TypeOK /\ \A p \in Procs : pc[p] = "lock" => job[p].tries < LockAttempts

LEMMA FileTypes ==
    /\ Absent \in Files
    /\ \A text \in Texts, mode \in Modes : File(text, mode) \in Files
BY DEF Absent, File, Files, Texts

LEMMA RequestTypes ==
    ASSUME NEW mode \in {"dryRun", "write"}, NEW v \in Variants
    PROVE  Request(mode, v) \in Jobs /\ Request(mode, v).tries < LockAttempts
BY InstallAssumption DEF Request, Jobs, Targets, Texts

LEMMA InitType == Init => TypeInv
<1> SUFFICES ASSUME Init PROVE TypeInv
  OBVIOUS
<1>1. (CHOOSE v \in Variants : TRUE) \in Variants
  BY InstallAssumption
<1>2. config \in Files /\ backup \in Files
  BY FileTypes, InstallAssumption DEF Init
<1>3. job \in [Procs -> Jobs]
  BY <1>1, RequestTypes DEF Init
<1>4. \A p \in Procs : pc[p] # "lock"
  BY DEF Init
<1> QED
  BY <1>2, <1>3, <1>4, FileTypes, InstallAssumption DEF Init, TypeInv, TypeOK, Positions, Outcomes

LEMMA TempOfType == ASSUME TypeOK, NEW p \in Procs PROVE TempOf(p) \in TempNames
BY DEF TypeOK, Jobs, TempOf, TempNames

LEMMA ReturnTypes ==
    ASSUME TypeOK, NEW p \in Procs, NEW what \in Outcomes, Return(p, what)
    PROVE  /\ pc' \in [Procs -> Positions] /\ outcome' \in [Procs -> Outcomes]
           /\ lock' \in Procs \cup {NoOne} /\ pc'[p] = "idle"
           /\ \A q \in Procs : pc'[q] = "lock" => q # p /\ pc[q] = "lock"
BY DEF TypeOK, Return, Goto, Unlocked, Positions

\* A file with another text or mode in it is a file.
LEMMA RewriteTypes ==
    ASSUME NEW f \in Files, NEW text \in Texts, NEW mode \in Modes \cup {"none"}
    PROVE  [f EXCEPT !.text = text] \in Files /\ [f EXCEPT !.mode = mode] \in Files
BY DEF Files

LEMMA InstallsType ==
    ASSUME TypeInv, NEW p \in Procs, Installs(p)
    PROVE  TypeInv'
<1> USE DEF TypeInv
<1>1. CASE Start(p)
  <2>1. PICK mode \in {"dryRun", "write"}, v \in Variants :
            /\ job' = [job EXCEPT ![p] = Request(mode, v)]
            /\ Goto(p, IF mode = "write" THEN "lock" ELSE "read")
    BY <1>1 DEF Start
  <2>2. job' \in [Procs -> Jobs] /\ job'[p].tries < LockAttempts
    BY <2>1, RequestTypes DEF TypeOK
  <2>3. \A q \in Procs : q # p => job'[q] = job[q] /\ pc'[q] = pc[q]
    BY <2>1 DEF TypeOK, Goto
  <2>4. pc' \in [Procs -> Positions] /\ outcome' \in [Procs -> Outcomes]
    BY <1>1, <2>1 DEF Start, TypeOK, Goto, Positions, Outcomes
  <2>5. runs' \in 0..MaxRuns
    BY <1>1, InstallAssumption DEF Start, TypeOK
  <2> QED
    BY <1>1, <2>2, <2>3, <2>4, <2>5 DEF Start, TypeOK, files
<1>2. CASE TakeLock(p)
  BY <1>2 DEF TakeLock, TypeOK, Goto, Positions, files
<1>3. CASE FindLocked(p)
  <2>1. job[p].tries + 1 \in 0..LockAttempts
    BY <1>3, InstallAssumption DEF FindLocked, TypeOK, Jobs
  <2>2. job' \in [Procs -> Jobs]
    BY <1>3, <2>1 DEF FindLocked, TypeOK, Jobs
  <2>3. job'[p].tries = job[p].tries + 1 /\ \A q \in Procs : q # p => job'[q] = job[q]
    BY <1>3 DEF FindLocked, TypeOK, Jobs
  <2>4. CASE job[p].tries + 1 < LockAttempts
    BY <1>3, <2>2, <2>3, <2>4 DEF FindLocked, TypeOK, files
  <2>5. CASE ~(job[p].tries + 1 < LockAttempts)
    <3>1. Return(p, "locked")
      BY <1>3, <2>5 DEF FindLocked
    <3> QED
      BY <1>3, <2>2, <2>3, <3>1, ReturnTypes DEF FindLocked, TypeOK, Outcomes, files
  <2> QED
    BY <2>4, <2>5
<1>4. CASE AcquireOrReadFails(p)
  BY <1>4, ReturnTypes DEF AcquireOrReadFails, TypeOK, Outcomes, files
<1>5. CASE Read(p)
  <2>1. Apply(config.text, job[p].variant).text \in Texts /\ config.text \in Texts
    BY ApplyType DEF TypeOK, Files, Jobs
  <2> DEFINE result == Apply(config.text, job[p].variant)
  <2>2. CASE result.kind = "updated" /\ job[p].mode = "write"
    <3> DEFINE target == IF config.text # <<>> THEN "backup" ELSE "config"
               planned == [job[p] EXCEPT !.existing = config.text, !.contents = result.text,
                                         !.target = target]
    <3>a. job[p] \in Jobs /\ target \in Targets
      BY DEF TypeOK, Targets
    <3>b. planned \in Jobs
      BY <2>1, <3>a DEF Jobs
    <3>c. job' = [job EXCEPT ![p] = planned] /\ Goto(p, "create")
      BY <1>5, <2>2 DEF Read, TypeOK
    <3>1. job' \in [Procs -> Jobs] /\ Goto(p, "create")
      BY <3>b, <3>c DEF TypeOK
    <3>2. \A q \in Procs : pc'[q] = "lock" => pc[q] = "lock" /\ job'[q].tries = job[q].tries
      BY <1>5, <2>2 DEF Read, TypeOK, Goto
    <3> QED
      BY <1>5, <2>2, <3>1, <3>2 DEF Read, TypeOK, Goto, Positions, files
  <2>3. CASE ~(result.kind = "updated" /\ job[p].mode = "write")
    <3>1. \E what \in Outcomes : Return(p, what)
      BY <1>5, <2>3 DEF Read, Outcomes
    <3> QED
      BY <1>5, <2>3, <3>1, ReturnTypes DEF Read, TypeOK, files
  <2> QED
    BY <2>2, <2>3
<1>6. CASE Create(p)
  <2>1. File(<<>>, UmaskMode) \in Files
    <3>1. <<>> \in Texts
      BY DEF Texts
    <3> QED
      BY <3>1, FileTypes, InstallAssumption
  <2> QED
    BY <1>6, <2>1, TempOfType DEF Create, TypeOK, Goto, Positions
<1>7. CASE CreateFindsLeftover(p)
  BY <1>7, ReturnTypes, TempOfType, FileTypes DEF CreateFindsLeftover, TypeOK, Outcomes
<1>8. CASE Inherit(p)
  <2>1. temps' \in [TempNames -> Files]
    BY <1>8, RewriteTypes, TempOfType DEF Inherit, TypeOK, Files
  <2> QED
    BY <1>8, <2>1 DEF Inherit, TypeOK, Goto, Positions
<1>9. CASE Fill(p)
  <2>1. temps' \in [TempNames -> Files]
    BY <1>9, RewriteTypes, TempOfType DEF Fill, TypeOK, Files, Jobs
  <2> QED
    BY <1>9, <2>1 DEF Fill, TypeOK, Goto, Positions
<1>10. CASE Rename(p)
  <2>1. temps[TempOf(p)] \in Files /\ temps' \in [TempNames -> Files]
    BY <1>10, TempOfType, FileTypes DEF Rename, TypeOK
  <2>2. CASE job[p].target = "backup"
    <3>1. job' \in [Procs -> Jobs]
      BY <1>10, <2>2 DEF Rename, TypeOK, Jobs, Targets
    <3>2. \A q \in Procs : pc'[q] = "lock" => pc[q] = "lock" /\ job'[q].tries = job[q].tries
      BY <1>10, <2>2 DEF Rename, TypeOK, Goto
    <3> QED
      BY <1>10, <2>1, <2>2, <3>1, <3>2 DEF Rename, TypeOK, Goto, Positions
  <2>3. CASE job[p].target = "config"
    <3>1. Return(p, "updated")
      BY <1>10, <2>3 DEF Rename
    <3> QED
      BY <1>10, <2>1, <2>3, <3>1, ReturnTypes DEF Rename, TypeOK, Outcomes
  <2> QED
    BY <1>10, <2>2, <2>3 DEF Rename
<1>11. CASE WriteFails(p)
  BY <1>11, ReturnTypes, TempOfType, FileTypes DEF WriteFails, TypeOK, Outcomes
<1>12. CASE Killed(p)
  <2>1. crashes' \in 0..MaxCrashes
    BY <1>12, InstallAssumption DEF Killed, TypeOK
  <2> QED
    BY <1>12, <2>1, ReturnTypes DEF Killed, TypeOK, Outcomes, files
<1> QED
  BY <1>1, <1>2, <1>3, <1>4, <1>5, <1>6, <1>7, <1>8, <1>9, <1>10, <1>11, <1>12 DEF Installs

LEMMA EditsType == ASSUME TypeInv, UserEdits PROVE TypeInv'
<1>1. edits' \in 0..MaxEdits
  BY InstallAssumption DEF UserEdits, TypeInv, TypeOK
<1>2. config' \in Files
  <2>1. config.text \in Texts
    BY DEF TypeInv, TypeOK, Files
  <2> QED
    BY <2>1, FileTypes, InstallAssumption DEF UserEdits
<1> QED
  BY <1>1, <1>2 DEF UserEdits, Untouched, TypeInv, TypeOK

LEMMA TypeStep == TypeInv /\ [Next]_vars => TypeInv'
<1> SUFFICES ASSUME TypeInv, [Next]_vars PROVE TypeInv'
  OBVIOUS
<1>1. CASE UNCHANGED vars
  BY <1>1 DEF vars, files, TypeInv, TypeOK
<1>2. CASE Finished
  BY <1>1, <1>2 DEF Finished, vars, files, TypeInv, TypeOK
<1> QED
  BY <1>1, <1>2, InstallsType, EditsType DEF Next

(***************************************************************************)
(* The inductive invariant.  Everything rests on who holds the lock: an    *)
(* install that writes holds it from its read to its return, so the config *)
(* it read is the config it replaces, and its temp file is its own.        *)
(***************************************************************************)

\* An install in its transaction holds the lock.
Locks(p) ==
    /\ pc[p] \in {"lock"} \cup Writing => job[p].mode = "write"
    /\ pc[p] \in {"read"} \cup Writing /\ job[p].mode = "write" => lock = p

\* What it is about to write is the splice of what it read.
Plans(p) ==
    pc[p] \in Writing =>
        /\ Apply(job[p].existing, job[p].variant).kind = "updated"
        /\ Apply(job[p].existing, job[p].variant).text = job[p].contents
        /\ job[p].target = "backup" => job[p].existing # <<>>

Planned(p) == IF job[p].target = "backup" THEN job[p].existing ELSE job[p].contents

\* Its temp file has the mode, then the text, it is going to be renamed with.
Fills(p) ==
    /\ pc[p] = "inherit" => temps[TempOf(p)].mode = UmaskMode
    /\ pc[p] \in {"fill", "rename"} =>
           temps[TempOf(p)].mode = IF config = Absent THEN UmaskMode ELSE config.mode
    /\ pc[p] = "rename" => temps[TempOf(p)].text = Planned(p)

\* Nobody has written the config since it read it, and the backup is made first.
Serial(p) ==
    ~EditsInside /\ pc[p] \in Writing =>
        /\ job[p].existing = config.text
        /\ job[p].target = "config" => config.text = <<>> \/ backup = config

WorkInv(p) == Locks(p) /\ Plans(p) /\ Fills(p) /\ Serial(p)

\* An absent config is an empty one.
ConfigWhole == config.mode = "none" => config = Absent

IInv == TypeInv /\ HolderIsAtWork /\ ConfigWhole /\ \A p \in Procs : WorkInv(p)

LEMMA InitIInv == Init => IInv
<1> SUFFICES ASSUME Init PROVE IInv
  OBVIOUS
<1>1. HolderIsAtWork
  BY InstallAssumption DEF Init, HolderIsAtWork
<1>2. ConfigWhole
  BY InstallAssumption DEF Init, ConfigWhole, File, Absent
<1>3. \A p \in Procs : WorkInv(p)
  BY DEF Init, WorkInv, Locks, Plans, Fills, Serial, Writing
<1> QED
  BY <1>1, <1>2, <1>3, InitType DEF IInv

(***************************************************************************)
(* The step of one install as the others see it.                           *)
(***************************************************************************)

\* q's place and job are its own, and so is the temp file it has in hand.
LEMMA OthersUndisturbed ==
    ASSUME TypeOK, NEW p \in Procs, NEW q \in Procs, q # p, Installs(p)
    PROVE  /\ pc'[q] = pc[q] /\ job'[q] = job[q]
           /\ temps'[TempOf(q)] = temps[TempOf(q)] /\ TempOf(q)' = TempOf(q)
<1>1. pc'[q] = pc[q]
  BY DEF Installs, Start, TakeLock, FindLocked, AcquireOrReadFails, Read, Create,
         CreateFindsLeftover, Inherit, Fill, Rename, WriteFails, Killed, Return, Goto, TypeOK
<1>2. job'[q] = job[q]
  BY DEF Installs, Start, TakeLock, FindLocked, AcquireOrReadFails, Read, Create,
         CreateFindsLeftover, Inherit, Fill, Rename, WriteFails, Killed, Return, TypeOK
<1>3. TempOf(q) # TempOf(p) /\ TempOf(q) \in TempNames /\ TempOf(p) \in TempNames
  BY TempOfType DEF TempOf
<1>4. temps'[TempOf(q)] = temps[TempOf(q)]
  <2>1. \/ temps' = temps
        \/ \E f : temps' = [temps EXCEPT ![TempOf(p)] = f]
    <3>1. CASE Inherit(p) \/ Fill(p)
      BY <3>1, <1>3 DEF Inherit, Fill, TypeOK
    <3>2. CASE Create(p) \/ CreateFindsLeftover(p) \/ Rename(p) \/ WriteFails(p)
      BY <3>2 DEF Create, CreateFindsLeftover, Rename, WriteFails
    <3>3. CASE \/ Start(p) \/ TakeLock(p) \/ FindLocked(p) \/ AcquireOrReadFails(p) \/ Read(p)
               \/ Killed(p)
      BY <3>3 DEF Start, TakeLock, FindLocked, AcquireOrReadFails, Read, Killed, files
    <3> QED
      BY <3>1, <3>2, <3>3 DEF Installs
  <2> QED
    BY <2>1, <1>3 DEF TypeOK
<1> QED
  BY <1>1, <1>2, <1>4 DEF TempOf

\* The lock is taken from nobody but its holder, and the files readers look at
\* change under it only.
LEMMA LockProtects ==
    ASSUME IInv, NEW p \in Procs, NEW q \in Procs, q # p, Installs(p), lock = q
    PROVE  lock' = q /\ config' = config /\ backup' = backup
<1>1. lock # NoOne /\ lock # p
  BY InstallAssumption DEF NoOne
<1>2. pc[p] \notin Writing
  BY <1>1 DEF IInv, WorkInv, Locks
<1>3. lock' = q
  BY <1>1, <1>2 DEF Installs, Start, TakeLock, FindLocked, AcquireOrReadFails, Read, Create,
         CreateFindsLeftover, Inherit, Fill, Rename, WriteFails, Killed, Return, Unlocked, Writing
<1>4. config' = config /\ backup' = backup
  BY <1>2 DEF Installs, Start, TakeLock, FindLocked, AcquireOrReadFails, Read, Create,
         CreateFindsLeftover, Inherit, Fill, Rename, WriteFails, Killed, files, Writing
<1> QED
  BY <1>3, <1>4

LEMMA OthersKeepWorking ==
    ASSUME IInv, NEW p \in Procs, NEW q \in Procs, q # p, Installs(p)
    PROVE  WorkInv(q)'
<1>1. /\ pc'[q] = pc[q] /\ job'[q] = job[q]
      /\ temps'[TempOf(q)] = temps[TempOf(q)] /\ TempOf(q)' = TempOf(q)
  BY OthersUndisturbed DEF IInv, TypeInv
<1>2. WorkInv(q)
  BY DEF IInv
<1>3. CASE lock = q
  <2>1. lock' = q /\ config' = config /\ backup' = backup
    BY <1>3, LockProtects
  <2> QED
    BY <1>1, <1>2, <2>1 DEF WorkInv, Locks, Plans, Planned, Fills, Serial
<1>4. CASE lock # q
  <2>1. pc[q] \notin Writing /\ ~(pc[q] = "read" /\ job[q].mode = "write")
    BY <1>2, <1>4 DEF WorkInv, Locks
  <2> QED
    BY <1>1, <1>2, <2>1 DEF WorkInv, Locks, Plans, Fills, Serial, Writing
<1> QED
  BY <1>3, <1>4

(***************************************************************************)
(* The step of an install as it sees itself.                               *)
(***************************************************************************)

LEMMA ReturnKeepsWorking ==
    ASSUME IInv, NEW p \in Procs, NEW what, Return(p, what)
    PROVE  WorkInv(p)'
<1>1. pc'[p] = "idle"
  BY DEF Return, Goto, IInv, TypeInv, TypeOK
<1> QED
  BY <1>1 DEF WorkInv, Locks, Plans, Fills, Serial, Writing

LEMMA TempWritten ==
    ASSUME TypeOK, NEW p \in Procs
    PROVE  \A text : temps' = [temps EXCEPT ![TempOf(p)].text = text] =>
               /\ temps'[TempOf(p)].text = text
               /\ temps'[TempOf(p)].mode = temps[TempOf(p)].mode
<1>1. TempOf(p) \in TempNames
  BY TempOfType
<1> QED
  BY <1>1 DEF TypeOK, Files

LEMMA InstallsKeepsWorking ==
    ASSUME IInv, NEW p \in Procs, Installs(p)
    PROVE  WorkInv(p)'
<1>0. TypeOK /\ WorkInv(p)
  BY DEF IInv, TypeInv
<1>1. CASE Start(p)
  <2>1. /\ pc'[p] \in {"lock", "read"}
        /\ pc'[p] = "lock" => job'[p].mode = "write"
        /\ pc'[p] = "read" => job'[p].mode = "dryRun"
    BY <1>0, <1>1 DEF Start, Goto, Request, TypeOK
  <2> QED
    BY <2>1 DEF WorkInv, Locks, Plans, Fills, Serial, Writing
<1>2. CASE TakeLock(p)
  <2>1. lock' = p /\ pc'[p] = "read" /\ pc[p] = "lock"
    BY <1>0, <1>2 DEF TakeLock, Goto, TypeOK
  <2> QED
    BY <1>0, <2>1 DEF WorkInv, Locks, Plans, Fills, Serial, Writing
<1>3. CASE FindLocked(p)
  <2>1. CASE job[p].tries + 1 < LockAttempts
    <3>1. pc'[p] = "lock" /\ job'[p].mode = job[p].mode
      BY <1>0, <1>3, <2>1 DEF FindLocked, TypeOK, Jobs
    <3> QED
      BY <1>0, <1>3, <3>1 DEF FindLocked, WorkInv, Locks, Plans, Fills, Serial, Writing
  <2>2. CASE ~(job[p].tries + 1 < LockAttempts)
    BY <1>3, <2>2, ReturnKeepsWorking DEF FindLocked
  <2> QED
    BY <2>1, <2>2
<1>4. CASE AcquireOrReadFails(p)
  BY <1>4, ReturnKeepsWorking DEF AcquireOrReadFails
<1>5. CASE Read(p)
  <2> DEFINE result == Apply(config.text, job[p].variant)
  <2>1. CASE result.kind = "updated" /\ job[p].mode = "write"
    <3>1. /\ pc'[p] = "create" /\ job'[p].existing = config.text
          /\ job'[p].contents = result.text /\ job'[p].variant = job[p].variant
          /\ job'[p].mode = "write"
          /\ job'[p].target = IF config.text # <<>> THEN "backup" ELSE "config"
      BY <1>0, <1>5, <2>1 DEF Read, Goto, TypeOK, Jobs
    <3>2. lock' = p /\ config' = config
      BY <1>0, <1>5, <2>1 DEF Read, WorkInv, Locks, files
    <3>3. Locks(p)' /\ Fills(p)'
      BY <3>1, <3>2 DEF Locks, Fills
    <3>4. Plans(p)' /\ Serial(p)'
      BY <2>1, <3>1, <3>2 DEF Plans, Serial
    <3> QED
      BY <3>3, <3>4 DEF WorkInv
  <2>2. CASE ~(result.kind = "updated" /\ job[p].mode = "write")
    <3>1. \E what \in {"preview", "current", "refused"} : Return(p, what)
      BY <1>5, <2>2 DEF Read
    <3> QED
      BY <3>1, ReturnKeepsWorking
  <2> QED
    BY <2>1, <2>2
<1>6. CASE Create(p)
  <2>1. pc'[p] = "inherit" /\ TempOf(p)' = TempOf(p) /\ pc[p] = "create"
    BY <1>0, <1>6 DEF Create, Goto, TypeOK, TempOf
  <2>2. temps'[TempOf(p)].mode = UmaskMode
    BY <1>0, <1>6, TempOfType DEF Create, File, TypeOK
  <2> QED
    BY <1>0, <1>6, <2>1, <2>2 DEF Create, WorkInv, Locks, Plans, Fills, Serial, Writing
<1>7. CASE CreateFindsLeftover(p)
  BY <1>7, ReturnKeepsWorking DEF CreateFindsLeftover
<1>8. CASE Inherit(p)
  <2>1. pc'[p] = "fill" /\ TempOf(p)' = TempOf(p) /\ pc[p] = "inherit"
    BY <1>0, <1>8 DEF Inherit, Goto, TypeOK, TempOf
  <2>2. temps'[TempOf(p)].mode = IF config = Absent THEN UmaskMode ELSE config.mode
    <3>1. temps[TempOf(p)].mode = UmaskMode
      BY <1>0, <2>1 DEF WorkInv, Fills
    <3>2. TempOf(p) \in TempNames
      BY <1>0, TempOfType
    <3> QED
      BY <1>0, <1>8, <3>1, <3>2 DEF Inherit, TypeOK, Files
  <2> QED
    BY <1>0, <1>8, <2>1, <2>2 DEF Inherit, WorkInv, Locks, Plans, Fills, Serial, Writing
<1>9. CASE Fill(p)
  <2>1. /\ pc'[p] = "rename" /\ TempOf(p)' = TempOf(p) /\ Planned(p)' = Planned(p)
        /\ pc[p] = "fill"
    BY <1>0, <1>9 DEF Fill, Goto, TypeOK, TempOf, Planned
  <2>2. temps'[TempOf(p)].text = Planned(p) /\ temps'[TempOf(p)].mode = temps[TempOf(p)].mode
    <3>1. temps' = [temps EXCEPT ![TempOf(p)].text = Planned(p)]
      BY <1>9 DEF Fill, Planned
    <3> QED
      BY <1>0, <3>1, TempWritten
  <2> QED
    BY <1>0, <1>9, <2>1, <2>2 DEF Fill, WorkInv, Locks, Plans, Fills, Serial, Writing
<1>10. CASE Rename(p)
  <2>1. CASE job[p].target = "backup"
    <3>1. /\ pc'[p] = "create" /\ pc[p] = "rename" /\ lock' = lock
          /\ job'[p] = [job[p] EXCEPT !.target = "config", !.counter = 1]
          /\ config' = config /\ backup' = temps[TempOf(p)]
      BY <1>0, <1>10, <2>1 DEF Rename, Goto, TypeOK
    <3>2. /\ job'[p].existing = job[p].existing /\ job'[p].contents = job[p].contents
          /\ job'[p].variant = job[p].variant /\ job'[p].mode = job[p].mode
          /\ job'[p].target = "config"
      BY <1>0, <3>1 DEF TypeOK, Jobs
    <3>3. ~EditsInside => backup' = config
      <4> SUFFICES ASSUME ~EditsInside PROVE backup' = config
        OBVIOUS
      <4>1. job[p].existing = config.text /\ job[p].existing # <<>>
        BY <1>0, <2>1, <3>1 DEF WorkInv, Serial, Plans, Writing
      <4>2. config # Absent
        BY <4>1 DEF Absent
      <4>3. temps[TempOf(p)].text = config.text /\ temps[TempOf(p)].mode = config.mode
        BY <1>0, <2>1, <3>1, <4>1, <4>2 DEF WorkInv, Fills, Planned
      <4>4. temps[TempOf(p)] \in Files /\ config \in Files
        BY <1>0, TempOfType DEF TypeOK
      <4> QED
        BY <3>1, <4>3, <4>4 DEF Files
    <3>4. Locks(p)' /\ Fills(p)'
      BY <1>0, <3>1, <3>2 DEF WorkInv, Locks, Fills, Writing
    <3>5. Plans(p)' /\ Serial(p)'
      BY <1>0, <3>1, <3>2, <3>3 DEF WorkInv, Plans, Serial, Writing
    <3> QED
      BY <3>4, <3>5 DEF WorkInv
  <2>2. CASE job[p].target = "config"
    BY <1>10, <2>2, ReturnKeepsWorking DEF Rename
  <2> QED
    BY <1>10, <2>1, <2>2 DEF Rename
<1>11. CASE WriteFails(p)
  BY <1>11, ReturnKeepsWorking DEF WriteFails
<1>12. CASE Killed(p)
  BY <1>12, ReturnKeepsWorking DEF Killed
<1> QED
  BY <1>1, <1>2, <1>3, <1>4, <1>5, <1>6, <1>7, <1>8, <1>9, <1>10, <1>11, <1>12 DEF Installs

\* Whoever holds the lock after the step of p is at work.
LEMMA InstallsKeepsHolder ==
    ASSUME IInv, NEW p \in Procs, Installs(p)
    PROVE  HolderIsAtWork'
<1>0. TypeOK /\ WorkInv(p) /\ HolderIsAtWork
  BY DEF IInv, TypeInv
<1>1. CASE lock \in Procs /\ lock # p
  <2>1. lock' = lock
    BY <1>1, LockProtects
  <2>2. pc'[lock] = pc[lock] /\ job'[lock] = job[lock]
    BY <1>0, <1>1, OthersUndisturbed
  <2> QED
    BY <1>0, <2>1, <2>2 DEF HolderIsAtWork
<1>2. CASE lock \in {NoOne, p}
  <2>1. CASE \E what : Return(p, what)
    BY <1>2, <2>1 DEF Return, Unlocked, HolderIsAtWork
  <2>2. CASE lock = NoOne /\ lock' = lock
    BY <2>2 DEF HolderIsAtWork
  <2>3. CASE TakeLock(p)
    BY <1>0, <2>3 DEF TakeLock, HolderIsAtWork, Goto, TypeOK, WorkInv, Locks, Writing
  <2>4. CASE lock = p /\ lock' = lock /\ ~(\E what : Return(p, what))
    <3>1. pc[p] \in {"read"} \cup Writing /\ job[p].mode = "write"
      BY <1>0, <2>4, InstallAssumption DEF HolderIsAtWork, NoOne
    <3>2. pc'[p] \in {"read"} \cup Writing /\ job'[p].mode = job[p].mode
      BY <1>0, <2>4, <3>1
         DEF Installs, Start, TakeLock, FindLocked, AcquireOrReadFails, Read, Create,
             CreateFindsLeftover, Inherit, Fill, Rename, WriteFails, Killed, Goto, Writing,
             TypeOK, Jobs
    <3> QED
      BY <2>4, <3>1, <3>2 DEF HolderIsAtWork
  <2>5. \/ \E what : Return(p, what)
        \/ TakeLock(p)
        \/ lock' = lock
    BY DEF Installs, Start, FindLocked, AcquireOrReadFails, Read, Create,
           CreateFindsLeftover, Inherit, Fill, Rename, WriteFails, Killed
  <2> QED
    BY <1>2, <2>1, <2>2, <2>3, <2>4, <2>5
<1> QED
  BY <1>0, <1>1, <1>2 DEF TypeOK

\* What is renamed to the config has a mode.
LEMMA InstallsKeepsWhole ==
    ASSUME IInv, NEW p \in Procs, Installs(p)
    PROVE  ConfigWhole'
<1>1. CASE config' = config
  BY <1>1 DEF IInv, ConfigWhole
<1>2. CASE config' # config
  <2>1. pc[p] = "rename" /\ config' = temps[TempOf(p)]
    BY <1>2 DEF Installs, Start, TakeLock, FindLocked, AcquireOrReadFails, Read, Create,
       CreateFindsLeftover, Inherit, Fill, Rename, WriteFails, Killed, files
  <2>2. config'.mode = IF config = Absent THEN UmaskMode ELSE config.mode
    BY <2>1 DEF IInv, WorkInv, Fills
  <2> QED
    BY <2>2, InstallAssumption DEF IInv, ConfigWhole
<1> QED
  BY <1>1, <1>2

LEMMA EditsIInv == ASSUME IInv, UserEdits PROVE IInv'
<1>1. TypeInv' /\ HolderIsAtWork'
  BY EditsType DEF IInv, UserEdits, Untouched, HolderIsAtWork
<1>2. ConfigWhole'
  BY InstallAssumption DEF UserEdits, ConfigWhole, File
<1>3. ASSUME NEW q \in Procs PROVE WorkInv(q)'
  <2>1. WorkInv(q) /\ UNCHANGED <<temps, lock, pc, job, backup, TempOf(q)>>
    BY DEF IInv, UserEdits, Untouched, TempOf
  <2>2. Locks(q)' /\ Plans(q)'
    BY <2>1 DEF WorkInv, Locks, Plans
  <2>3. CASE lock = NoOne
    <3>1. pc[q] \notin Writing
      BY <2>1, <2>3, InstallAssumption DEF WorkInv, Locks, NoOne
    <3> QED
      BY <2>1, <2>2, <3>1 DEF WorkInv, Fills, Serial, Writing
  <2>4. CASE lock # NoOne
    <3>1. EditsInside /\ config # Absent /\ config' # Absent /\ config'.mode = config.mode
      BY <2>4, InstallAssumption DEF UserEdits, File, Absent
    <3> QED
      BY <2>1, <2>2, <3>1 DEF WorkInv, Fills, Serial, Planned
  <2> QED
    BY <2>3, <2>4
<1> QED
  BY <1>1, <1>2, <1>3 DEF IInv

LEMMA StepIInv == IInv /\ [Next]_vars => IInv'
<1> SUFFICES ASSUME IInv, [Next]_vars PROVE IInv'
  OBVIOUS
<1>1. ASSUME NEW p \in Procs, Installs(p) PROVE IInv'
  <2>1. \A q \in Procs : WorkInv(q)'
    BY <1>1, OthersKeepWorking, InstallsKeepsWorking
  <2> QED
    BY <1>1, <2>1, InstallsType, InstallsKeepsHolder, InstallsKeepsWhole DEF IInv
<1>2. CASE UNCHANGED vars
  BY <1>2 DEF vars, files, IInv, TypeInv, TypeOK, HolderIsAtWork, ConfigWhole, WorkInv,
              Locks, Plans, Planned, Fills, Serial, TempOf
<1>3. CASE Finished
  BY <1>2, <1>3 DEF Finished
<1> QED
  BY <1>1, <1>2, <1>3, EditsIInv DEF Next

\* The inductive invariant of the whole component.
THEOREM InstallInvariant == Spec => []IInv
BY InitIInv, StepIInv, PTL DEF Spec

\* Every variable keeps its type: no install polls a held lock more often than
\* LOCK_ATTEMPTS, whoever else comes and goes.
THEOREM InstallTypeCorrect == Spec => []TypeOK
<1>1. IInv => TypeOK
  BY DEF IInv, TypeInv
<1> QED
  BY <1>1, InstallInvariant, PTL

\* Whatever fails and whoever is killed, the lock is only ever held by an install
\* that is in the middle of its transaction.
THEOREM HoldersAreAtWork == Spec => []HolderIsAtWork
<1>1. IInv => HolderIsAtWork
  BY DEF IInv
<1> QED
  BY <1>1, InstallInvariant, PTL

\* The mode goes onto a temp file before the text does, and only one install at a time
\* has a temp file in hand.
LEMMA WritesExposeNothing ==
    ASSUME IInv, NEW p \in Procs, Installs(p), config # Absent
    PROVE  /\ \A n \in TempNames : temps'[n] # temps[n] /\ temps'[n].text # <<>> =>
                                       temps'[n].mode = config.mode
           /\ backup' # backup => backup'.mode = config.mode
<1>0. /\ temps \in [TempNames -> Files] /\ TempOf(p) \in TempNames
      /\ pc[p] \in {"fill", "rename"} => temps[TempOf(p)].mode = config.mode
  BY TempOfType DEF IInv, TypeInv, TypeOK, WorkInv, Fills
<1>1. ASSUME NEW n \in TempNames, temps'[n] # temps[n], temps'[n].text # <<>>
      PROVE  temps'[n].mode = config.mode
  <2>1. CASE Create(p) \/ CreateFindsLeftover(p) \/ Rename(p) \/ WriteFails(p)
    BY <1>0, <1>1, <2>1
       DEF Create, CreateFindsLeftover, Rename, WriteFails, File, Absent
  <2>2. CASE Inherit(p)
    BY <1>0, <1>1, <2>2 DEF Inherit, Files
  <2>3. CASE Fill(p)
    <3>1. temps' = [temps EXCEPT ![TempOf(p)].text = Planned(p)] /\ pc[p] = "fill"
      BY <2>3 DEF Fill, Planned
    <3> QED
      BY <1>0, <1>1, <3>1 DEF Files
  <2>4. CASE temps' = temps
    BY <1>1, <2>4
  <2> QED
    BY <2>1, <2>2, <2>3, <2>4
       DEF Installs, Start, TakeLock, FindLocked, AcquireOrReadFails, Read, Killed, files
<1>2. ASSUME backup' # backup PROVE backup'.mode = config.mode
  <2>1. pc[p] = "rename" /\ backup' = temps[TempOf(p)]
    BY <1>2 DEF Installs, Start, TakeLock, FindLocked, AcquireOrReadFails, Read, Create,
       CreateFindsLeftover, Inherit, Fill, Rename, WriteFails, Killed, files
  <2> QED
    BY <1>0, <2>1
<1> QED
  BY <1>1, <1>2

\* Text only ever goes into a file that has the config's mode, and stays in it there, be
\* the install killed or failed by then: for a user who while an install is at work writes
\* the config in place only, and otherwise edits, creates and removes it and changes its
\* mode as ever.
THEOREM TextsAreNeverExposed == Spec => TextIsNeverExposed
<1> DEFINE Step ==
        config # Absent =>
           /\ \A n \in TempNames : temps'[n] # temps[n] /\ temps'[n].text # <<>> =>
                                      temps'[n].mode = config.mode
           /\ backup' # backup => backup'.mode = config.mode
<1>1. IInv /\ [Next]_vars => [Step]_vars
  <2> SUFFICES ASSUME IInv, Next PROVE Step
    OBVIOUS
  <2>1. CASE \E p \in Procs : Installs(p)
    BY <2>1, WritesExposeNothing
  <2>2. CASE UserEdits \/ Finished
    BY <2>2 DEF UserEdits, Untouched, Finished, vars, files
  <2> QED
    BY <2>1, <2>2 DEF Next
<1> QED
  BY <1>1, InstallInvariant, PTL DEF Spec, TextIsNeverExposed

(***************************************************************************)
(* Refinement: an install, seen from the config and its backup, saves the  *)
(* whole config and then splices the whole config.                         *)
(***************************************************************************)

LEMMA InitRefines == Init => CS!StoreInit
BY DEF Init, CS!StoreInit, CS!Absent, CS!File, Absent, File

LEMMA RenameRefines ==
    ASSUME ~EditsInside, IInv, NEW p \in Procs, Rename(p)
    PROVE  CS!StoreNext
<1>0. TypeOK /\ WorkInv(p) /\ pc[p] = "rename" /\ pc[p] \in Writing
  BY DEF IInv, TypeInv, Rename, Writing
<1>1. /\ job[p].existing = config.text
      /\ job[p].target = "config" => config.text = <<>> \/ backup = config
      /\ Apply(config.text, job[p].variant).kind = "updated"
      /\ Apply(config.text, job[p].variant).text = job[p].contents
      /\ job[p].target = "backup" => config.text # <<>>
  BY <1>0 DEF WorkInv, Serial, Plans
<1>2. /\ temps[TempOf(p)].text = Planned(p)
      /\ temps[TempOf(p)].mode = IF config = Absent THEN UmaskMode ELSE config.mode
      /\ temps[TempOf(p)] \in Files /\ config \in Files
  BY <1>0, TempOfType DEF WorkInv, Fills, TypeOK
<1>3. CASE job[p].target = "backup"
  <2>1. config # Absent
    BY <1>1, <1>3 DEF Absent
  <2>2. temps[TempOf(p)] = config
    BY <1>1, <1>2, <1>3, <2>1 DEF Planned, Files
  <2> QED
    BY <1>1, <1>3, <2>2 DEF Rename, CS!StoreNext, CS!Save
<1>4. CASE job[p].target = "config"
  <2>1. config' = temps[TempOf(p)] /\ backup' = backup
    BY <1>4 DEF Rename
  <2>2. config' = [text |-> job[p].contents,
                   mode |-> IF config = Absent THEN UmaskMode ELSE config.mode]
    BY <1>2, <1>4, <2>1 DEF Planned, Files
  <2>3. job[p].variant \in Variants
    BY <1>0 DEF TypeOK, Jobs
  <2>4. CS!Splice(job[p].variant)
    BY <1>1, <1>4, <2>1, <2>2 DEF CS!Splice, CS!File, CS!Absent, Absent
  <2> QED
    BY <2>3, <2>4 DEF CS!StoreNext
<1> QED
  BY <1>3, <1>4 DEF Rename

LEMMA EditRefines == ASSUME UserEdits PROVE CS!StoreNext
<1>1. backup' = backup
  BY DEF UserEdits, Untouched
<1>2. CASE config' = Absent
  BY <1>1, <1>2 DEF CS!StoreNext, CS!Remove, CS!Absent, Absent
<1>3. CASE \E text \in Edits \cup {config.text}, mode \in Modes :
              config' = File(text, mode)
  BY <1>1, <1>3 DEF CS!StoreNext, CS!Edit, CS!File, File, Absent
<1> QED
  BY <1>2, <1>3 DEF UserEdits

LEMMA StepRefines ==
    ASSUME ~EditsInside
    PROVE  IInv /\ [Next]_vars => [CS!StoreNext]_<<config, backup>>
<1> SUFFICES ASSUME IInv, [Next]_vars PROVE [CS!StoreNext]_<<config, backup>>
  OBVIOUS
<1>1. ASSUME NEW p \in Procs, Installs(p) PROVE [CS!StoreNext]_<<config, backup>>
  <2>1. CASE Rename(p)
    BY <2>1, RenameRefines
  <2>2. CASE ~Rename(p)
    BY <1>1, <2>2 DEF Installs, Start, TakeLock, FindLocked, AcquireOrReadFails, Read, Create,
       CreateFindsLeftover, Inherit, Fill, WriteFails, Killed, files
  <2> QED
    BY <2>1, <2>2
<1>2. CASE UNCHANGED vars \/ Finished
  BY <1>2 DEF Finished, vars, files
<1> QED
  BY <1>1, <1>2, EditRefines DEF Next

\* With a user who keeps away from a locked config, any number of installs are
\* one splice after another, and what a splice replaces is in the backup.
THEOREM ConfigStoreRefinement ==
    ASSUME ~EditsInside PROVE Spec => ImplementsConfigStore
<1>1. Init => CS!StoreInit
  BY InitRefines
<1>2. IInv /\ [Next]_vars => [CS!StoreNext]_<<config, backup>>
  BY StepRefines
<1> QED
  BY <1>1, <1>2, InstallInvariant, PTL DEF Spec, ImplementsConfigStore, CS!StoreSpec
=============================================================================

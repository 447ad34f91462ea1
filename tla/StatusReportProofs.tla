------------------------- MODULE StatusReportProofs -------------------------
(***************************************************************************)
(* Proofs about StatusReport: what a line shows and what its diagnostics   *)
(* report, for any texts, any cache, any clients and any number of changes *)
(* made while the line is put together; and how a line is drawn, whatever  *)
(* the characters in its texts.                                            *)
(***************************************************************************)
EXTENDS StatusReport, Integers, SequenceTheorems, FiniteSetTheorems,
        WellFoundedInduction, TLAPS

(***************************************************************************)
(* The invariant: which probe a failure is from, what a probe that is      *)
(* still to come has left alone, where an answer of tmux is from, and that *)
(* every failure noted has been kept by its probe.                         *)
(***************************************************************************)

GitFaults == {"origin", "repository", "field"}

Sources ==
    /\ gitFaults \subseteq GitFaults
    /\ prFaults \subseteq PrFaults
    /\ tmuxFaults \subseteq Fields \cup {"tmux"}

Pending ==
    /\ pc \in {"directory", "git"} => gitFaults = {}
    /\ pc \in {"directory", "git", "pr"} => pr = Unset /\ prFaults = {}
    /\ pc \in {"directory", "git", "pr", "tmux", "merge"} => tmuxFaults = {} /\ context = supplied
    /\ exit = "none" <=> pc # "done"

Answered ==
    \A f \in DOMAIN answers :
        f \in Missing /\ \E v \in views \ {NoClient} : answers[f] = v[f]

Blamed == faults = Diagnostics

IInv ==
    TypeOK /\ Sources /\ Pending /\ Answered /\ Blamed
        /\ PrIsOfTheBranchShown /\ NothingOfALostClient /\ EveryFaultIsMirrored

LEMMA ViewTypes ==
    /\ \A v \in Views : DOMAIN v = Fields /\ \A f \in Fields : v[f] \in Texts
    /\ \A c \in Supplied : DOMAIN c = Fields /\ \A f \in Fields : c[f] \in Texts
    /\ \A f \in Fields : NoClient[f] = Unset
BY StatusReportAssumption DEF Texts, NoClient

LEMMA CacheTypes ==
    ASSUME NEW c \in Caches, NEW b \in Branches
    PROVE  c[b] \in Numbers \cup {<<>>, Unset}
BY StatusReportAssumption

\* describe_failures gives one description to each thing that went wrong.
LEMMA DescribesAll == \A m \in Mishaps : Describe(Report(m)) = m.lost
<1> SUFFICES ASSUME NEW m \in Mishaps PROVE Describe(Report(m)) = m.lost
  OBVIOUS
<1>1. /\ m.lost \subseteq PrFaults
      /\ "dir" \in m.lost => m.lost \subseteq {"dir", "lookup"}
      /\ m.hit => m.lost \subseteq {"sweep"}
      /\ "lookup" \in m.lost => "store" \notin m.lost
  BY DEF Mishaps
<1>2. /\ Report(m).sweepFailed = ("sweep" \in m.lost)
      /\ (Report(m).current = "dirUnavailable") = ("dir" \in m.lost)
      /\ (Report(m).current = "readFailed") = ("dir" \notin m.lost /\ "read" \in m.lost)
      /\ (Report(m).resolution = "lookupFailed") = ("lookup" \in m.lost)
      /\ (Report(m).write = "failed") = ("store" \in m.lost)
  <2>1. Report(m).sweepFailed = ("sweep" \in m.lost)
    BY DEF Report
  <2>2. (Report(m).current = "dirUnavailable") = ("dir" \in m.lost)
    BY <1>1 DEF Report
  <2>3. (Report(m).current = "readFailed") = ("dir" \notin m.lost /\ "read" \in m.lost)
    BY <1>1 DEF Report
  <2>4. (Report(m).resolution = "lookupFailed") = ("lookup" \in m.lost)
    BY DEF Report
  <2>5. (Report(m).write = "failed") = ("store" \in m.lost)
    BY <1>1 DEF Report
  <2>6. QED
    BY <2>1, <2>2, <2>3, <2>4, <2>5
<1>3. /\ "sweep" \in Describe(Report(m)) <=> "sweep" \in m.lost
      /\ "dir" \in Describe(Report(m)) <=> "dir" \in m.lost
      /\ "read" \in Describe(Report(m)) <=> "read" \in m.lost
      /\ "lookup" \in Describe(Report(m)) <=> "lookup" \in m.lost
      /\ "store" \in Describe(Report(m)) <=> "store" \in m.lost
  BY <1>1, <1>2 DEF Describe, When
<1>4. Describe(Report(m)) \subseteq PrFaults
  BY DEF Describe, When, PrFaults
<1>5. QED
  BY <1>1, <1>3, <1>4 DEF PrFaults

-----------------------------------------------------------------------------
(* One lemma for each step of a line.                                      *)

LEMMA InitHolds == Init => IInv
<1> SUFFICES ASSUME Init PROVE IInv
  OBVIOUS
<1>1. supplied \in Supplied \cup {NoClient} /\ context = supplied /\ DOMAIN context = Fields
  BY StatusReportAssumption DEF Init, NoClient
<1>2. TypeOK
  BY <1>1, StatusReportAssumption DEF Init, TypeOK, Positions, Snapshots
<1>3. QED
  BY <1>1, <1>2 DEF Init, IInv, Sources, Pending, Answered, Blamed, Diagnostics,
                    PrIsOfTheBranchShown, NothingOfALostClient, EveryFaultIsMirrored

\* Steps that leave what was probed alone.
LEMMA WaysOut ==
    ASSUME IInv, FindDirectory \/ NoDirectory \/ SkipPr \/ PreResolved \/ WriteLine \/ WriteFails
                      \/ Mirror \/ MirrorFails \/ StaysQuiet
    PROVE  IInv'
<1>1. /\ UNCHANGED <<outside, gitVars, prVars, tmuxVars, faults>>
      /\ stderr' \in {stderr, Diagnostics}
      /\ pc' \in Positions /\ exit' \in {"none", "ok", "quiet", "error"}
      /\ pc' \in {"directory", "git"} => pc \in {"directory", "git"}
      /\ pc' \in {"directory", "git", "pr"} => pc \in {"directory", "git", "pr"}
      /\ pc' \in {"directory", "git", "pr", "tmux", "merge"}
             => pc \in {"directory", "git", "pr", "tmux", "merge"}
      /\ exit' = "none" <=> pc' # "done"
      /\ exit' = "ok" => stderr' = Diagnostics
  BY DEF IInv, Pending, FindDirectory, NoDirectory, SkipPr, PreResolved, WriteLine, WriteFails, Mirror,
         MirrorFails, StaysQuiet, Goto, Exit, Positions, outVars, TypeOK
<1>2. TypeOK'
  BY <1>1 DEF IInv, TypeOK, outside, gitVars, prVars, tmuxVars, Diagnostics
<1>3. Sources' /\ Pending' /\ Answered' /\ Blamed'
  BY <1>1 DEF IInv, Sources, Pending, Answered, Blamed, Missing, outside, gitVars, prVars, tmuxVars,
              Diagnostics
<1>4. PrIsOfTheBranchShown' /\ NothingOfALostClient' /\ EveryFaultIsMirrored'
  BY <1>1 DEF IInv, Blamed, PrIsOfTheBranchShown, NothingOfALostClient, EveryFaultIsMirrored,
              outside, gitVars, prVars, tmuxVars, Diagnostics
<1>5. QED
  BY <1>2, <1>3, <1>4 DEF IInv

LEMMA GitStep == IInv /\ ProbeGit => IInv'
<1> SUFFICES ASSUME IInv, ProbeGit PROVE IInv'
  OBVIOUS
<1>1. /\ pc = "git" /\ pc' = "pr" /\ UNCHANGED <<outside, prVars, tmuxVars, outVars>>
      /\ faults' = faults \cup gitFaults' /\ gitFaults' \subseteq GitFaults
      /\ project' \in Projects \cup {Unset}
      /\ git' \in Snapshots
  BY DEF ProbeGit, Goto, Note, IInv, TypeOK, Snapshots, GitFaults
<1>2. /\ pr = Unset /\ prFaults = {} /\ gitFaults = {} /\ tmuxFaults = {} /\ context = supplied
      /\ exit = "none" /\ faults = {}
  BY <1>1 DEF IInv, Pending, Blamed, Diagnostics
<1>3. TypeOK'
  BY <1>1 DEF IInv, TypeOK, outside, prVars, tmuxVars, outVars, Positions, GitFaults, Faults
<1>4. Sources' /\ Pending' /\ Answered' /\ Blamed'
  BY <1>1, <1>2 DEF IInv, Sources, Pending, Answered, Blamed, Missing, outside, prVars, tmuxVars,
                    outVars, Diagnostics
<1>5. PrIsOfTheBranchShown' /\ NothingOfALostClient' /\ EveryFaultIsMirrored'
  BY <1>1, <1>2 DEF PrIsOfTheBranchShown, NothingOfALostClient, EveryFaultIsMirrored,
                    prVars, tmuxVars, outVars
<1>6. QED
  BY <1>3, <1>4, <1>5 DEF IInv

LEMMA PrStep == IInv /\ (ReadPr \/ RefreshPr) => IInv'
<1> SUFFICES ASSUME IInv, ReadPr \/ RefreshPr PROVE IInv'
  OBVIOUS
<1>1. /\ pc = "pr" /\ pc' \in {"tmux", "mirror"} /\ UNCHANGED <<outside, gitVars, tmuxVars, outVars>>
      /\ git.branch # Unset /\ git.branch \in Branches /\ cached \in Caches
  BY DEF ReadPr, RefreshPr, Goto, IInv, TypeOK, Snapshots
<1>2. pr = Unset /\ prFaults = {} /\ tmuxFaults = {} /\ context = supplied /\ exit = "none"
  BY <1>1 DEF IInv, Pending
<1>3. prFaults' \subseteq PrFaults /\ faults' = faults \cup prFaults'
  <2>1. CASE ReadPr
    BY <2>1, <1>2 DEF ReadPr, Note, PrFaults
  <2>2. CASE RefreshPr
    <3>1. PICK m \in Mishaps : prFaults' = Describe(Report(m)) /\ faults' = faults \cup m.lost
      BY <2>2 DEF RefreshPr, Note
    <3>2. m.lost \subseteq PrFaults
      BY DEF Mishaps
    <3>3. QED
      BY <3>1, <3>2, DescribesAll
  <2>3. QED
    BY <2>1, <2>2
<1>4. pr' # Unset => pr' = cached[git.branch] /\ pr' \in Numbers
  BY <1>1, <1>2, CacheTypes DEF ReadPr, RefreshPr, CacheKey
<1>5. TypeOK'
  BY <1>1, <1>3, <1>4 DEF IInv, TypeOK, outside, gitVars, tmuxVars, outVars, Positions, Faults
<1>6. Sources' /\ Pending' /\ Answered' /\ Blamed'
  BY <1>1, <1>2, <1>3 DEF IInv, Sources, Pending, Answered, Blamed, Missing, outside, gitVars, tmuxVars,
                          outVars, Diagnostics
<1>7. PrIsOfTheBranchShown' /\ NothingOfALostClient' /\ EveryFaultIsMirrored'
  BY <1>1, <1>2, <1>4 DEF PrIsOfTheBranchShown, NothingOfALostClient, EveryFaultIsMirrored,
                          outside, gitVars, tmuxVars, outVars
<1>8. QED
  BY <1>5, <1>6, <1>7 DEF IInv

LEMMA QueryStep == IInv /\ QueryField => IInv'
<1> SUFFICES ASSUME IInv, QueryField PROVE IInv'
  OBVIOUS
<1>1. PICK i \in Unasked :
          /\ answers' = [f \in DOMAIN answers \cup {FieldOrder[i]} |->
                            IF f \in DOMAIN answers THEN answers[f] ELSE view[f]]
          /\ Goto(IF Unasked = {i} THEN "merge" ELSE "tmux")
  BY DEF QueryField
<1>2. /\ pc = "tmux" /\ pc' \in {"tmux", "merge"} /\ view \in views \ {NoClient}
      /\ UNCHANGED <<outside, gitVars, prVars, supplied, context, tmuxFaults, outVars, faults>>
  BY <1>1 DEF QueryField, Goto, IInv, TypeOK
<1>3. FieldOrder[i] \in Missing /\ Missing \subseteq Fields
  BY DEF Unasked, Missing
<1>4. TypeOK'
  BY <1>1, <1>2, <1>3 DEF IInv, TypeOK, outside, gitVars, prVars, outVars, Positions
<1>5. Answered'
  <2>1. /\ Missing' = Missing /\ views' = views
        /\ \A f \in DOMAIN answers' :
              \/ f \in DOMAIN answers /\ answers'[f] = answers[f]
              \/ f = FieldOrder[i] /\ answers'[f] = view[f]
    BY <1>1, <1>2 DEF Missing, outside
  <2>2. \A f \in DOMAIN answers : f \in Missing /\ \E v \in views \ {NoClient} : answers[f] = v[f]
    BY DEF IInv, Answered
  <2>3. ASSUME NEW f \in DOMAIN answers'
        PROVE  f \in Missing' /\ \E v \in views' \ {NoClient} : answers'[f] = v[f]
    BY <1>2, <1>3, <2>1, <2>2
  <2>4. NoClient' = NoClient
    BY DEF NoClient
  <2>5. QED
    BY <2>3, <2>4 DEF Answered
<1>6. Sources' /\ Pending' /\ Blamed'
  BY <1>2 DEF IInv, Sources, Pending, Blamed, gitVars, prVars, outVars, Diagnostics
<1>7. PrIsOfTheBranchShown' /\ NothingOfALostClient' /\ EveryFaultIsMirrored'
  BY <1>2 DEF IInv, PrIsOfTheBranchShown, NothingOfALostClient, EveryFaultIsMirrored,
              outside, gitVars, prVars, outVars
<1>8. QED
  BY <1>4, <1>5, <1>6, <1>7 DEF IInv

LEMMA LostStep == IInv /\ QueryFails => IInv'
<1> SUFFICES ASSUME IInv, QueryFails PROVE IInv'
  OBVIOUS
<1>1. /\ pc = "tmux" /\ pc' = "print" /\ tmuxFaults' = {"tmux"} /\ faults' = faults \cup {"tmux"}
      /\ UNCHANGED <<outside, gitVars, prVars, supplied, answers, context, outVars>>
  BY DEF QueryFails, Goto, Note
<1>2. tmuxFaults = {} /\ context = supplied /\ exit = "none"
  BY <1>1 DEF IInv, Pending
<1>3. TypeOK'
  BY <1>1 DEF IInv, TypeOK, outside, gitVars, prVars, outVars, Positions, Faults
<1>4. Sources' /\ Pending' /\ Answered' /\ Blamed'
  BY <1>1, <1>2 DEF IInv, Sources, Pending, Answered, Blamed, Missing, outside, gitVars, prVars, outVars,
                    Diagnostics
<1>5. PrIsOfTheBranchShown' /\ NothingOfALostClient' /\ EveryFaultIsMirrored'
  BY <1>1, <1>2 DEF IInv, PrIsOfTheBranchShown, NothingOfALostClient, EveryFaultIsMirrored,
                    outside, gitVars, prVars, outVars
<1>6. QED
  BY <1>3, <1>4, <1>5 DEF IInv

LEMMA MergeStep == IInv /\ MergeFields => IInv'
<1> SUFFICES ASSUME IInv, MergeFields PROVE IInv'
  OBVIOUS
<1> DEFINE empty == {f \in DOMAIN answers : answers[f] = <<>>}
<1>1. /\ pc = "merge" /\ pc' = "print" /\ tmuxFaults' = empty /\ faults' = faults \cup empty
      /\ context' = [f \in Fields |-> IF f \in DOMAIN answers \ empty THEN answers[f] ELSE supplied[f]]
      /\ UNCHANGED <<outside, gitVars, prVars, supplied, answers, outVars>>
  BY DEF MergeFields, Goto, Note
<1>2. tmuxFaults = {} /\ exit = "none" /\ empty \subseteq Fields /\ DOMAIN answers \subseteq Fields
  BY <1>1 DEF IInv, Pending, TypeOK
<1>3. "tmux" \notin faults'
  BY <1>1, <1>2 DEF IInv, Sources, Blamed, Diagnostics, GitFaults, PrFaults, Fields
<1>4. \A f \in Fields : context'[f] # supplied[f] =>
          /\ supplied[f] = Unset /\ context'[f] # <<>>
          /\ \E v \in views \ {NoClient} : context'[f] = v[f]
  BY <1>1 DEF IInv, Answered, Missing
<1>5. \A v \in views \ {NoClient} : v \in Views
  BY DEF IInv, TypeOK
<1>6. TypeOK'
  <2>1. \A f \in Fields : context'[f] = supplied[f] \/ context'[f] \in Texts \ {<<>>}
    BY <1>4, <1>5, ViewTypes
  <2>2. DOMAIN context' = Fields
    BY <1>1
  <2>3. Texts' = Texts
    BY DEF Texts
  <2>4. QED
    BY <1>1, <1>2, <2>1, <2>2 DEF IInv, TypeOK, outside, gitVars, prVars, outVars, Positions, Faults
<1>7. Sources' /\ Pending' /\ Answered' /\ Blamed'
  BY <1>1, <1>2 DEF IInv, Sources, Pending, Answered, Blamed, Missing, outside, gitVars, prVars, outVars,
                    Diagnostics
<1>8. PrIsOfTheBranchShown' /\ EveryFaultIsMirrored'
  BY <1>1, <1>2 DEF IInv, PrIsOfTheBranchShown, EveryFaultIsMirrored, outside, gitVars, prVars, outVars
<1>9. NothingOfALostClient'
  BY <1>1, <1>3, <1>4 DEF NothingOfALostClient, outside
<1>10. QED
  BY <1>6, <1>7, <1>8, <1>9 DEF IInv

LEMMA OutsideStep == IInv /\ Outside => IInv'
<1> SUFFICES ASSUME IInv, Outside PROVE IInv'
  OBVIOUS
<1>1. /\ UNCHANGED <<command, cached, pc, gitVars, prVars, tmuxVars, outVars, faults>>
      /\ head' \in Branches \cup {Unset} /\ view' \in views' /\ views \subseteq views'
      /\ views' \subseteq Views \cup {NoClient} /\ moves' \in 0..MaxMoves
  BY StatusReportAssumption DEF Outside, Checkout, ClientMoves, IInv, TypeOK
<1>2. TypeOK'
  BY <1>1 DEF IInv, TypeOK, gitVars, prVars, tmuxVars, outVars
<1>3. Sources' /\ Pending' /\ Answered' /\ Blamed'
  BY <1>1 DEF IInv, Sources, Pending, Answered, Blamed, Missing, gitVars, prVars, tmuxVars, outVars,
              Diagnostics
<1>4. PrIsOfTheBranchShown' /\ NothingOfALostClient' /\ EveryFaultIsMirrored'
  BY <1>1 DEF IInv, PrIsOfTheBranchShown, NothingOfALostClient, EveryFaultIsMirrored,
              gitVars, prVars, tmuxVars, outVars
<1>5. QED
  BY <1>2, <1>3, <1>4 DEF IInv

LEMMA Stutter == IInv /\ UNCHANGED vars => IInv'
<1> SUFFICES ASSUME IInv, UNCHANGED vars PROVE IInv'
  OBVIOUS
<1> USE DEF vars, outside, gitVars, prVars, tmuxVars, outVars
<1>1. TypeOK' /\ Sources' /\ Pending'
  BY DEF IInv, TypeOK, Sources, Pending
<1>2. Answered' /\ Blamed'
  BY DEF IInv, Answered, Missing, Blamed, Diagnostics
<1>3. PrIsOfTheBranchShown' /\ NothingOfALostClient' /\ EveryFaultIsMirrored'
  BY DEF IInv, PrIsOfTheBranchShown, NothingOfALostClient, EveryFaultIsMirrored
<1>4. QED
  BY <1>1, <1>2, <1>3 DEF IInv

-----------------------------------------------------------------------------

\* The invariant of build_status_report and run_refresh holds in every state.
THEOREM ReportInvariant == Spec => []IInv
<1>1. IInv /\ [Next]_vars => IInv'
  BY WaysOut, GitStep, PrStep, QueryStep, LostStep, MergeStep, OutsideStep, Stutter DEF Next, Finished
<1>2. QED
  BY InitHolds, <1>1, PTL DEF Spec

\* Every variable keeps its type; a field of the tmux context is never an empty
\* text that tmux answered (resolve_context, build_status_report).
THEOREM ReportTypeCorrect == Spec => []TypeOK
<1>1. IInv => TypeOK
  BY DEF IInv
<1>2. QED
  BY ReportInvariant, <1>1, PTL

\* The PR on a line is that of the branch on the line, whatever is checked out
\* while the line is put together (build_status_report).
THEOREM PrBelongsToItsBranch == Spec => []PrIsOfTheBranchShown
<1>1. IInv => PrIsOfTheBranchShown
  BY DEF IInv
<1>2. QED
  BY ReportInvariant, <1>1, PTL

\* Nothing of a client that was lost half way is used, and what a caller supplied
\* is kept (the fallback policy of resolve_context).
THEOREM LostClientsLeaveNothing == Spec => []NothingOfALostClient
<1>1. IInv => NothingOfALostClient
  BY DEF IInv
<1>2. QED
  BY ReportInvariant, <1>1, PTL

\* A run that mirrors its diagnostics mirrors every failure its probes absorbed
\* and no other (describe_failures, StatusDiagnostics, report_diagnostics).
THEOREM FaultsAreMirrored == Spec => []EveryFaultIsMirrored
<1>1. IInv => EveryFaultIsMirrored
  BY DEF IInv
<1>2. QED
  BY ReportInvariant, <1>1, PTL

(***************************************************************************)
(* Induction, over a set of numbers.                                       *)
(***************************************************************************)

LEMMA LeastExists ==
    ASSUME NEW T \in SUBSET Nat, T # {}
    PROVE  \E n \in T : \A m \in T : n <= m
<1> DEFINE Below(n) == 0..n - 1
           U == {Below(n) : n \in T}
<1>1. IsWellFoundedOn(StrictSubsetOrdering(Nat), FiniteSubsetsOf(Nat))
  BY FS_StrictSubsetOrderingWellFounded
<1>2. \A n \in T : Below(n) \in FiniteSubsetsOf(Nat)
  <2> SUFFICES ASSUME NEW n \in T PROVE Below(n) \in FiniteSubsetsOf(Nat)
    OBVIOUS
  <2>1. 0 \in Int /\ n - 1 \in Int
    OBVIOUS
  <2>2. IsFiniteSet(0..n - 1)
    BY <2>1, FS_Interval
  <2>3. 0..n - 1 \subseteq Nat
    OBVIOUS
  <2>4. QED
    BY <2>2, <2>3 DEF FiniteSubsetsOf
<1>3. U \subseteq FiniteSubsetsOf(Nat) /\ U # {}
  BY <1>2
<1> HIDE DEF U
<1>4. PICK x \in U : \A y \in U : ~(<<y, x>> \in StrictSubsetOrdering(Nat))
  BY <1>1, <1>3, WFMin
<1>5. PICK n \in T : x = Below(n)
  BY <1>4 DEF U
<1>6. ASSUME NEW m \in T, m < n PROVE FALSE
  <2>1. Below(m) \in U
    BY DEF U
  <2>2. Below(m) \subseteq Below(n) /\ m \in Below(n) /\ m \notin Below(m)
    BY <1>6
  <2>3. Below(m) \in SUBSET Nat /\ Below(n) \in SUBSET Nat
    OBVIOUS
  <2>4. <<Below(m), Below(n)>> \in StrictSubsetOrdering(Nat)
    <3> HIDE DEF Below
    <3>1. QED
      BY <2>2, <2>3 DEF StrictSubsetOrdering
  <2>5. QED
    BY <1>4, <1>5, <2>1, <2>4
<1>7. QED
  BY <1>6

LEMMA Induction ==
    ASSUME NEW T, 0 \in T, \A n \in Nat : n \in T => n + 1 \in T
    PROVE  Nat \subseteq T
<1> DEFINE F == {n \in Nat : n \notin T}
<1>1. SUFFICES ASSUME F # {} PROVE FALSE
  OBVIOUS
<1>2. PICK n \in F : \A m \in F : n <= m
  BY <1>1, LeastExists
<1>3. n \in Nat /\ n # 0 /\ n - 1 \in Nat
  OBVIOUS
<1>4. n - 1 \in T
  BY <1>2, <1>3
<1>5. QED
  BY <1>3, <1>4

(***************************************************************************)
(* Machines that read a text: where they end is a function of it, and what *)
(* two texts in a row come to is what the second comes to from there.      *)
(***************************************************************************)

Machine(S, C, step) == step \in [S \X C -> S]

Reads(f, step, start, t) ==
    f[0] = start /\ \A n \in 1..Len(t) : f[n] = step[<<f[n - 1], t[n]>>]

Runs(S, step, start, t) == {f \in [0..Len(t) -> S] : Reads(f, step, start, t)}

End(S, step, start, t) == (CHOOSE f \in Runs(S, step, start, t) : TRUE)[Len(t)]

LEMMA RunExists ==
    ASSUME NEW S, NEW C, NEW step, Machine(S, C, step), NEW start \in S, NEW t \in Seq(C)
    PROVE  \E f : f \in Runs(S, step, start, t)
<1> DEFINE Upto(m) == {f \in [0..m -> S] :
                          f[0] = start /\ \A n \in 1..m : f[n] = step[<<f[n - 1], t[n]>>]}
           T == {m \in Nat : m <= Len(t) => \E f : f \in Upto(m)}
<1>1. Len(t) \in Nat /\ \A n \in 1..Len(t) : t[n] \in C
  OBVIOUS
<1>2. 0 \in T
  <2> DEFINE f == [n \in 0..0 |-> start]
  <2>1. f \in Upto(0)
    OBVIOUS
  <2>2. QED
    BY <2>1
<1>3. ASSUME NEW m \in Nat, m \in T PROVE m + 1 \in T
  <2>1. SUFFICES ASSUME m + 1 <= Len(t) PROVE \E f : f \in Upto(m + 1)
    OBVIOUS
  <2>2. PICK f : f \in Upto(m)
    BY <1>1, <1>3, <2>1
  <2> DEFINE last == step[<<f[m], t[m + 1]>>]
             g == [n \in 0..m + 1 |-> IF n = m + 1 THEN last ELSE f[n]]
  <2>3. last \in S
    <3>1. f[m] \in S /\ t[m + 1] \in C
      BY <1>1, <2>1, <2>2
    <3>2. QED
      BY <3>1 DEF Machine
  <2>4. \A n \in 0..m : n \in 0..m + 1 /\ n # m + 1 /\ f[n] \in S
    BY <2>2
  <2> HIDE DEF last
  <2>5. g \in [0..m + 1 -> S]
    BY <2>3, <2>4
  <2>6. \A n \in 0..m : g[n] = f[n]
    BY <2>4
  <2>7. ASSUME NEW n \in 1..m + 1 PROVE g[n] = step[<<g[n - 1], t[n]>>]
    <3>1. CASE n = m + 1
      <4>1. g[n] = last /\ n - 1 = m /\ g[m] = f[m]
        BY <2>6, <3>1
      <4>2. QED
        BY <3>1, <4>1 DEF last
    <3>2. CASE n # m + 1
      <4>1. n \in 1..m /\ n \in 0..m /\ n - 1 \in 0..m
        BY <3>2
      <4>2. g[n] = f[n] /\ g[n - 1] = f[n - 1]
        BY <2>6, <4>1
      <4>3. f[n] = step[<<f[n - 1], t[n]>>]
        BY <2>2, <4>1
      <4>4. QED
        BY <4>2, <4>3
    <3>3. QED
      BY <3>1, <3>2
  <2>8. g[0] = start
    BY <2>2, <2>6
  <2>9. g \in Upto(m + 1)
    BY <2>5, <2>7, <2>8
  <2>10. QED
    BY <2>9
<1> HIDE DEF T
<1>4. Len(t) \in T
  BY <1>1, <1>2, <1>3, Induction
<1>5. QED
  BY <1>1, <1>4 DEF T, Runs, Reads

LEMMA RunsAgree ==
    ASSUME NEW S, NEW C, NEW step, Machine(S, C, step), NEW start \in S, NEW t \in Seq(C),
           NEW f, NEW g, Reads(f, step, start, t), Reads(g, step, start, t)
    PROVE  \A n \in 0..Len(t) : f[n] = g[n]
<1> DEFINE T == {m \in Nat : m <= Len(t) => f[m] = g[m]}
<1>1. Len(t) \in Nat
  OBVIOUS
<1>2. 0 \in T
  BY DEF Reads
<1>3. ASSUME NEW m \in Nat, m \in T PROVE m + 1 \in T
  <2>1. SUFFICES ASSUME m + 1 <= Len(t) PROVE f[m + 1] = g[m + 1]
    OBVIOUS
  <2>2. m + 1 \in 1..Len(t) /\ (m + 1) - 1 = m /\ f[m] = g[m]
    BY <1>1, <1>3, <2>1
  <2>3. f[m + 1] = step[<<f[(m + 1) - 1], t[m + 1]>>] /\ g[m + 1] = step[<<g[(m + 1) - 1], t[m + 1]>>]
    BY <2>2 DEF Reads
  <2>4. QED
    BY <2>2, <2>3
<1> HIDE DEF T
<1>4. Nat \subseteq T
  BY <1>2, <1>3, Induction
<1>5. QED
  BY <1>1, <1>4 DEF T

LEMMA EndOfRun ==
    ASSUME NEW S, NEW C, NEW step, Machine(S, C, step), NEW start \in S, NEW t \in Seq(C)
    PROVE  /\ End(S, step, start, t) \in S
           /\ \A f : Reads(f, step, start, t) => End(S, step, start, t) = f[Len(t)]
<1> DEFINE g == CHOOSE f \in Runs(S, step, start, t) : TRUE
<1>1. g \in Runs(S, step, start, t)
  BY RunExists
<1>2. Len(t) \in Nat /\ Len(t) \in 0..Len(t)
  OBVIOUS
<1>3. End(S, step, start, t) = g[Len(t)]
  BY DEF End
<1> HIDE DEF g
<1>4. Reads(g, step, start, t)
  BY <1>1 DEF Runs
<1>5. ASSUME NEW f, Reads(f, step, start, t)
      PROVE  g[Len(t)] = f[Len(t)]
  BY <1>2, <1>4, <1>5, RunsAgree
<1>6. g[Len(t)] \in S
  BY <1>1, <1>2 DEF Runs
<1>7. QED
  BY <1>3, <1>5, <1>6

LEMMA EndOfNothing ==
    ASSUME NEW S, NEW C, NEW step, Machine(S, C, step), NEW start \in S
    PROVE  End(S, step, start, <<>>) = start
<1> DEFINE f == [n \in {0} |-> start]
           t == <<>>
<1>1. t \in Seq(C) /\ Len(t) = 0
  OBVIOUS
<1>2. f[0] = start
  OBVIOUS
<1> HIDE DEF f, t
<1>3. t \in Seq(C) /\ Reads(f, step, start, t)
  BY <1>1, <1>2 DEF Reads
<1>4. End(S, step, start, t) = f[Len(t)]
  BY <1>3, EndOfRun
<1>5. QED
  BY <1>1, <1>2, <1>4 DEF t

LEMMA EndOfOne ==
    ASSUME NEW S, NEW C, NEW step, Machine(S, C, step), NEW start \in S, NEW c \in C
    PROVE  End(S, step, start, <<c>>) = step[<<start, c>>]
<1> DEFINE t == <<c>>
           f == [n \in 0..1 |-> IF n = 0 THEN start ELSE step[<<start, c>>]]
<1>1. t \in Seq(C) /\ Len(t) = 1 /\ t[1] = c
  OBVIOUS
<1>2. f[0] = start /\ f[1] = step[<<start, c>>]
  OBVIOUS
<1> HIDE DEF f, t
<1>3. t \in Seq(C) /\ Reads(f, step, start, t)
  <2>1. \A n \in 1..Len(t) : n = 1 /\ n - 1 = 0
    BY <1>1
  <2>2. QED
    BY <1>1, <1>2, <2>1 DEF Reads
<1>4. End(S, step, start, t) = f[Len(t)]
  BY <1>3, EndOfRun
<1>5. QED
  BY <1>1, <1>2, <1>4 DEF t

LEMMA EndOfTwo ==
    ASSUME NEW S, NEW C, NEW step, Machine(S, C, step), NEW start \in S,
           NEW t \in Seq(C), NEW u \in Seq(C)
    PROVE  End(S, step, start, t \o u) = End(S, step, End(S, step, start, t), u)
<1> DEFINE middle == End(S, step, start, t)
           tu == t \o u
<1>1. PICK f : f \in Runs(S, step, start, t)
  BY RunExists
<1>2. Reads(f, step, start, t)
  BY <1>1 DEF Runs
<1>3. middle \in S /\ middle = f[Len(t)]
  BY <1>2, EndOfRun
<1> HIDE DEF middle
<1>4. PICK g : g \in Runs(S, step, middle, u)
  BY <1>3, RunExists
<1>5. Reads(g, step, middle, u)
  BY <1>4 DEF Runs
<1>6. End(S, step, middle, u) = g[Len(u)]
  BY <1>3, <1>5, EndOfRun
<1> DEFINE h == [n \in 0..Len(t) + Len(u) |-> IF n <= Len(t) THEN f[n] ELSE g[n - Len(t)]]
<1>7. /\ tu \in Seq(C) /\ Len(tu) = Len(t) + Len(u) /\ Len(t) \in Nat /\ Len(u) \in Nat
      /\ \A n \in 1..Len(t) : tu[n] = t[n]
      /\ \A n \in 1..Len(u) : tu[n + Len(t)] = u[n]
  OBVIOUS
<1>8. /\ \A n \in 0..Len(t) : h[n] = f[n]
      /\ \A n \in 0..Len(u) : h[n + Len(t)] = g[n]
  <2>1. \A n \in 0..Len(t) : h[n] = f[n]
    BY <1>7
  <2>2. ASSUME NEW n \in 0..Len(u) PROVE h[n + Len(t)] = g[n]
    <3>1. CASE n = 0
      BY <1>3, <1>5, <1>7, <3>1 DEF Reads
    <3>2. CASE n # 0
      <4>1. n + Len(t) \in 0..Len(t) + Len(u) /\ ~(n + Len(t) <= Len(t)) /\ (n + Len(t)) - Len(t) = n
        BY <1>7, <3>2
      <4>2. QED
        BY <4>1
    <3>3. QED
      BY <3>1, <3>2
  <2>3. QED
    BY <2>1, <2>2
<1> HIDE DEF h, tu
<1>9. ASSUME NEW n \in 1..Len(tu) PROVE h[n] = step[<<h[n - 1], tu[n]>>]
  <2>1. CASE n <= Len(t)
    <3>1. n \in 1..Len(t) /\ n \in 0..Len(t) /\ n - 1 \in 0..Len(t)
      BY <1>7, <2>1
    <3>2. h[n] = f[n] /\ h[n - 1] = f[n - 1] /\ tu[n] = t[n] /\ f[n] = step[<<f[n - 1], t[n]>>]
      BY <1>2, <1>7, <1>8, <3>1 DEF Reads
    <3>3. QED
      BY <3>2
  <2>2. CASE n > Len(t)
    <3> DEFINE k == n - Len(t)
    <3>1. k \in 1..Len(u) /\ k \in 0..Len(u) /\ k - 1 \in 0..Len(u)
          /\ n = k + Len(t) /\ n - 1 = (k - 1) + Len(t)
      BY <1>7, <2>2
    <3> HIDE DEF k
    <3>2. h[n] = g[k] /\ h[n - 1] = g[k - 1] /\ tu[n] = u[k] /\ g[k] = step[<<g[k - 1], u[k]>>]
      BY <1>5, <1>7, <1>8, <3>1 DEF Reads
    <3>3. QED
      BY <3>2
  <2>3. QED
    BY <1>7, <2>1, <2>2
<1>10. h[0] = start /\ h[Len(tu)] = g[Len(u)]
  <2>1. 0 \in 0..Len(t) /\ Len(u) \in 0..Len(u) /\ Len(tu) = Len(u) + Len(t)
    BY <1>7
  <2>2. QED
    BY <1>2, <1>8, <2>1 DEF Reads
<1>11. End(S, step, start, tu) = h[Len(tu)]
  <2>1. Reads(h, step, start, tu)
    BY <1>9, <1>10 DEF Reads
  <2>2. tu \in Seq(C)
    BY <1>7
  <2>3. QED
    BY <2>1, <2>2, EndOfRun
<1>12. QED
  BY <1>6, <1>10, <1>11 DEF tu, middle

(***************************************************************************)
(* FlattenSeq, as the run that puts one sequence behind another.           *)
(***************************************************************************)

Joining(X) == [p \in Seq(X) \X Seq(X) |-> p[1] \o p[2]]

Strung(f, ss) == f[0] = <<>> /\ \A n \in 1..Len(ss) : f[n] = f[n - 1] \o ss[n]

LEMMA Flattened ==
    ASSUME NEW X, NEW ss \in Seq(Seq(X))
    PROVE  \E f \in [0..Len(ss) -> Seq(X)] : Strung(f, ss) /\ FlattenSeq(ss) = f[Len(ss)]
<1>1. Len(ss) \in Nat /\ \A n \in 1..Len(ss) : ss[n] \in Seq(X)
  OBVIOUS
<1>2. PICK f : f \in Runs(Seq(X), Joining(X), <<>>, ss)
  <2>1. Machine(Seq(X), Seq(X), Joining(X))
    BY DEF Machine, Joining
  <2>2. <<>> \in Seq(X)
    OBVIOUS
  <2>3. QED
    BY <2>1, <2>2, RunExists
<1>3. f \in [0..Len(ss) -> Seq(X)] /\ f[0] = <<>>
  BY <1>2 DEF Runs, Reads
<1>4. ASSUME NEW n \in 1..Len(ss) PROVE f[n] = f[n - 1] \o ss[n] /\ f[n - 1] \in Seq(X)
  <2>1. f[n] = Joining(X)[<<f[n - 1], ss[n]>>]
    BY <1>2 DEF Runs, Reads
  <2>2. n - 1 \in 0..Len(ss)
    BY <1>1
  <2>3. f[n - 1] \in Seq(X) /\ ss[n] \in Seq(X)
    BY <1>1, <1>3, <2>2
  <2>4. QED
    BY <2>1, <2>3 DEF Joining
<1>5. Strung(f, ss)
  BY <1>3, <1>4 DEF Strung
<1>6. FlattenSeq(ss) = f[Len(ss)]
  <2>1. CASE Len(ss) = 0
    <3>1. ss = <<>>
      BY <2>1
    <3>2. QED
      BY <1>3, <2>1, <3>1 DEF FlattenSeq
  <2>2. CASE Len(ss) # 0
    <3> DEFINE IsFlat(g) == g = [i \in 1..Len(ss) |-> IF i = 1 THEN ss[i] ELSE g[i - 1] \o ss[i]]
               h == [i \in 1..Len(ss) |-> f[i]]
               flat == CHOOSE g : IsFlat(g)
    <3>0. f[1] = ss[1] /\ 1 \in 1..Len(ss)
      <4>1. 1 \in 1..Len(ss) /\ 1 - 1 = 0
        BY <1>1, <2>2
      <4>2. f[1] = f[0] \o ss[1] /\ ss[1] \in Seq(X)
        BY <1>1, <1>4, <4>1
      <4>3. <<>> \o ss[1] = ss[1]
        BY <4>2, ConcatEmptySeq
      <4>4. QED
        BY <1>3, <4>1, <4>2, <4>3
    <3>1. FlattenSeq(ss) = flat[Len(ss)]
      BY <2>2 DEF FlattenSeq
    <3>2. \A i \in 1..Len(ss) : h[i] = IF i = 1 THEN ss[i] ELSE h[i - 1] \o ss[i]
      <4>1. ASSUME NEW i \in 1..Len(ss), i = 1 PROVE f[i] = ss[i]
        BY <3>0, <4>1
      <4>2. ASSUME NEW i \in 1..Len(ss), i # 1 PROVE f[i] = h[i - 1] \o ss[i]
        <5>1. i - 1 \in 1..Len(ss)
          BY <1>1, <4>2
        <5>2. h[i - 1] = f[i - 1]
          BY <5>1
        <5>3. QED
          BY <1>4, <5>2
      <4>3. \A i \in 1..Len(ss) : h[i] = f[i]
        OBVIOUS
      <4> HIDE DEF h
      <4>4. QED
        BY <4>1, <4>2, <4>3
    <3>3. IsFlat(h)
      BY <3>2
    <3>4. IsFlat(flat)
      <4>1. \E g : IsFlat(g)
        BY <3>3
      <4>2. QED
        BY <4>1
    <3>5. /\ flat[1] = ss[1]
          /\ \A i \in 1..Len(ss) : i # 1 => flat[i] = flat[i - 1] \o ss[i]
      <4>1. \A i \in 1..Len(ss) : flat[i] = IF i = 1 THEN ss[i] ELSE flat[i - 1] \o ss[i]
        <5> HIDE DEF flat
        <5>1. QED
          BY <3>4
      <4>2. 1 \in 1..Len(ss)
        BY <1>1, <2>2
      <4> HIDE DEF flat
      <4>3. QED
        BY <4>1, <4>2
    <3> HIDE DEF flat, h, IsFlat
    <3> DEFINE T == {m \in Nat : m + 1 <= Len(ss) => flat[m + 1] = f[m + 1]}
    <3>6. 0 \in T
      BY <3>0, <3>5
    <3>7. ASSUME NEW m \in Nat, m \in T PROVE m + 1 \in T
      <4>1. SUFFICES ASSUME (m + 1) + 1 <= Len(ss) PROVE flat[(m + 1) + 1] = f[(m + 1) + 1]
        OBVIOUS
      <4>2. (m + 1) + 1 \in 1..Len(ss) /\ (m + 1) + 1 # 1 /\ ((m + 1) + 1) - 1 = m + 1 /\ flat[m + 1] = f[m + 1]
        BY <1>1, <3>7, <4>1
      <4>3. QED
        BY <1>4, <3>5, <4>2
    <3> HIDE DEF T
    <3>8. Len(ss) - 1 \in Nat /\ (Len(ss) - 1) + 1 = Len(ss)
      BY <1>1, <2>2
    <3>9. Len(ss) - 1 \in T
      BY <3>6, <3>7, <3>8, Induction
    <3>10. flat[Len(ss)] = f[Len(ss)]
      BY <3>8, <3>9 DEF T
    <3>11. QED
      BY <3>1, <3>10
  <2>3. QED
    BY <2>1, <2>2
<1>7. QED
  BY <1>3, <1>5, <1>6

LEMMA FlatType ==
    ASSUME NEW X, NEW ss \in Seq(Seq(X))
    PROVE  FlattenSeq(ss) \in Seq(X)
<1>1. PICK f \in [0..Len(ss) -> Seq(X)] : FlattenSeq(ss) = f[Len(ss)]
  BY Flattened
<1>2. Len(ss) \in 0..Len(ss)
  OBVIOUS
<1>3. QED
  BY <1>1, <1>2

\* Only nothing comes to nothing.
LEMMA FlatOfNothing ==
    ASSUME NEW X, NEW ss \in Seq(Seq(X)), FlattenSeq(ss) = <<>>, NEW i \in DOMAIN ss
    PROVE  ss[i] = <<>>
<1>1. PICK f \in [0..Len(ss) -> Seq(X)] : Strung(f, ss) /\ FlattenSeq(ss) = f[Len(ss)]
  BY Flattened
<1>2. Len(ss) \in Nat /\ i \in 1..Len(ss)
  OBVIOUS
<1> DEFINE T == {m \in Nat : i <= m /\ m <= Len(ss) /\ f[m] = <<>> => ss[i] = <<>>}
<1>3. 0 \in T
  BY <1>2
<1>4. ASSUME NEW m \in Nat, m \in T PROVE m + 1 \in T
  <2>1. SUFFICES ASSUME i <= m + 1, m + 1 <= Len(ss), f[m + 1] = <<>> PROVE ss[i] = <<>>
    OBVIOUS
  <2>2. m + 1 \in 1..Len(ss) /\ (m + 1) - 1 = m /\ m \in 0..Len(ss)
    BY <1>2, <2>1
  <2>3. f[m + 1] = f[m] \o ss[m + 1] /\ f[m] \in Seq(X)
    BY <1>1, <2>2 DEF Strung
  <2>4. ss[m + 1] \in Seq(X)
    BY <2>2
  <2>5. f[m] = <<>> /\ ss[m + 1] = <<>>
    <3>1. \A s, u \in Seq(X) : s \o u = <<>> => s = <<>> /\ u = <<>>
      BY ConcatEqualIffEmpty
    <3>2. QED
      BY <2>1, <2>3, <2>4, <3>1, Zenon
  <2>6. QED
    BY <1>2, <1>4, <2>1, <2>2, <2>5
<1> HIDE DEF T
<1>5. Len(ss) \in T
  BY <1>2, <1>3, <1>4, Induction
<1>6. QED
  BY <1>1, <1>2, <1>5 DEF T

LEMMA FlatOfFew ==
    ASSUME NEW X, NEW s \in Seq(X), NEW t \in Seq(X)
    PROVE  /\ FlattenSeq(<<s>>) = s
           /\ FlattenSeq(<<s, t>>) = s \o t
<1>1. FlattenSeq(<<s>>) = s
  <2> DEFINE ss == <<s>>
  <2>1. ss \in Seq(Seq(X)) /\ Len(ss) = 1 /\ ss[1] = s
    OBVIOUS
  <2> HIDE DEF ss
  <2>2. PICK f : Strung(f, ss) /\ FlattenSeq(ss) = f[Len(ss)]
    BY <2>1, Flattened
  <2>3. f[1] = <<>> \o s /\ <<>> \o s = s
    <3>1. 1 \in 1..Len(ss) /\ 1 - 1 = 0
      BY <2>1
    <3>2. QED
      BY <2>1, <2>2, <3>1, ConcatEmptySeq DEF Strung
  <2>4. QED
    BY <2>1, <2>2, <2>3 DEF ss
<1>2. FlattenSeq(<<s, t>>) = s \o t
  <2> DEFINE ss == <<s, t>>
  <2>1. ss \in Seq(Seq(X)) /\ Len(ss) = 2 /\ ss[1] = s /\ ss[2] = t
    OBVIOUS
  <2> HIDE DEF ss
  <2>2. PICK f : Strung(f, ss) /\ FlattenSeq(ss) = f[Len(ss)]
    BY <2>1, Flattened
  <2>3. f[1] = <<>> \o s /\ <<>> \o s = s /\ f[2] = f[1] \o t
    <3>1. 1 \in 1..Len(ss) /\ 1 - 1 = 0 /\ 2 \in 1..Len(ss) /\ 2 - 1 = 1
      BY <2>1
    <3>2. QED
      BY <2>1, <2>2, <3>1, ConcatEmptySeq DEF Strung
  <2>4. QED
    BY <2>1, <2>2, <2>3 DEF ss
<1>3. QED
  BY <1>1, <1>2

LEMMA FlatOfSingles ==
    ASSUME NEW X, NEW t \in Seq(X)
    PROVE  /\ [i \in DOMAIN t |-> <<t[i]>>] \in Seq(Seq(X))
           /\ FlattenSeq([i \in DOMAIN t |-> <<t[i]>>]) = t
<1> DEFINE ss == [i \in DOMAIN t |-> <<t[i]>>]
<1>1. Len(t) \in Nat /\ DOMAIN t = 1..Len(t) /\ \A i \in 1..Len(t) : t[i] \in X
  BY LenProperties
<1>2. \A i \in 1..Len(t) : ss[i] = <<t[i]>> /\ ss[i] \in Seq(X)
  BY <1>1
<1>3. ss \in Seq(Seq(X)) /\ Len(ss) = Len(t)
  BY <1>1, <1>2
<1> HIDE DEF ss
<1>4. PICK f \in [0..Len(ss) -> Seq(X)] : Strung(f, ss) /\ FlattenSeq(ss) = f[Len(ss)]
  BY <1>3, Flattened
<1> DEFINE T == {m \in Nat : m <= Len(t) => f[m] = SubSeq(t, 1, m)}
<1>5. 0 \in T
  BY <1>4, SubSeqEmpty DEF Strung
<1>6. ASSUME NEW m \in Nat, m \in T PROVE m + 1 \in T
  <2>1. SUFFICES ASSUME m + 1 <= Len(t) PROVE f[m + 1] = SubSeq(t, 1, m + 1)
    OBVIOUS
  <2>2. m + 1 \in 1..Len(t) /\ (m + 1) - 1 = m /\ 1 \in 1..Len(t) /\ m + 1 \in 1..Len(t)
    BY <1>1, <2>1
  <2>3. f[m + 1] = f[m] \o <<t[m + 1]>>
    BY <1>2, <1>3, <1>4, <2>2 DEF Strung
  <2>4. SubSeq(t, 1, m + 1) = SubSeq(t, 1, (m + 1) - 1) \o <<t[m + 1]>>
    BY <2>2, SubSeqRecursiveSecond
  <2>5. f[m] = SubSeq(t, 1, m)
    BY <1>1, <1>6, <2>1
  <2>6. QED
    BY <2>2, <2>3, <2>4, <2>5
<1> HIDE DEF T
<1>7. Len(t) \in T
  BY <1>1, <1>5, <1>6, Induction
<1>8. f[Len(t)] = t
  BY <1>1, <1>7, SubSeqFull DEF T
<1>9. QED
  BY <1>3, <1>4, <1>8 DEF ss

(***************************************************************************)
(* The two that read a line: tmux and visible_width.                       *)
(***************************************************************************)

Char == STRING \cup {" ", "#", "[", "]", "g", "n", "d", "/", "c", "-", ":", ".", "@", "unset"}

DrawStates == [mode : {"text", "hash", "tag", "format"}, drawn : Seq(Char)]
ScanStates == [mode : {"text", "hash", "tag"}, width : Nat]
Drawing    == [x \in DrawStates \X Char |-> DrawChar(x[1], x[2])]
Scanning   == [x \in ScanStates \X Char |-> ScanChar(x[1], x[2])]

Shown(d) == [mode |-> "text", drawn |-> d]
Taken(w) == [mode |-> "text", width |-> w]

LEMMA DrawCharType ==
    ASSUME NEW s \in DrawStates, NEW c \in Char
    PROVE  DrawChar(s, c) \in DrawStates
<1>1. s.drawn \in Seq(Char) /\ s.mode \in {"text", "hash", "tag", "format"} /\ "#" \in Char
  BY DEF DrawStates, Char
<1>2. Append(s.drawn, c) \in Seq(Char) /\ Append(s.drawn, "#") \in Seq(Char)
  BY <1>1
<1>3. CASE s.mode = "text"
  <2>1. CASE c = "#"
    BY <1>3, <2>1 DEF DrawChar, DrawStates
  <2>2. CASE c # "#"
    BY <1>2, <1>3, <2>2 DEF DrawChar, DrawStates
  <2>3. QED
    BY <2>1, <2>2
<1>4. CASE s.mode = "hash" /\ c \in {"[", "{", "("}
  BY <1>4 DEF DrawChar, DrawStates
<1>5. CASE s.mode = "hash" /\ c \notin {"[", "{", "("}
  <2> DEFINE d == Append(s.drawn, "#") \o (IF c = "#" THEN <<>> ELSE <<c>>)
  <2>1. d \in Seq(Char)
    <3>1. (IF c = "#" THEN <<>> ELSE <<c>>) \in Seq(Char)
      OBVIOUS
    <3>2. QED
      BY <1>2, <3>1, ConcatProperties
  <2>2. DrawChar(s, c) = Shown(d)
    BY <1>5 DEF DrawChar, Shown
  <2> HIDE DEF d
  <2>3. QED
    BY <2>1, <2>2 DEF DrawStates, Shown
<1>6. CASE s.mode = "tag"
  BY <1>6 DEF DrawChar, DrawStates
<1>7. CASE s.mode = "format"
  BY <1>7 DEF DrawChar, DrawStates
<1>8. QED
  BY <1>1, <1>3, <1>4, <1>5, <1>6, <1>7

LEMMA ScanCharCases ==
    ASSUME NEW s, s.mode \in {"text", "hash", "tag"}, NEW c
    PROVE  /\ s.mode = "tag" => ScanChar(s, c) = [s EXCEPT !.mode = IF c = "]" THEN "text" ELSE "tag"]
           /\ s.mode = "hash" /\ c = "#" => ScanChar(s, c) = Taken(s.width + 1)
           /\ s.mode = "hash" /\ c = "[" => ScanChar(s, c) = [s EXCEPT !.mode = "tag"]
           /\ s.mode = "hash" /\ c \notin {"#", "["}
                  => ScanChar(s, c) = Taken(s.width + 1 + CharWidth(c))
           /\ s.mode = "text" /\ c = "#" => ScanChar(s, c) = [s EXCEPT !.mode = "hash"]
           /\ s.mode = "text" /\ c # "#"
                  => ScanChar(s, c) = [s EXCEPT !.width = s.width + CharWidth(c)]
BY Zenon DEF ScanChar, Taken

LEMMA ScanCharType ==
    ASSUME NEW s \in ScanStates, NEW c \in Char
    PROVE  ScanChar(s, c) \in ScanStates /\ CharWidth(c) \in Nat
<1>1. s.width \in Nat /\ s.mode \in {"text", "hash", "tag"} /\ CharWidth(c) \in Nat
  BY DEF ScanStates, CharWidth
<1>2. s.width + 1 \in Nat /\ s.width + CharWidth(c) \in Nat /\ s.width + 1 + CharWidth(c) \in Nat
  BY <1>1
<1>3. /\ \A m \in {"text", "hash", "tag"} : [s EXCEPT !.mode = m] \in ScanStates
      /\ \A w \in Nat : [s EXCEPT !.width = w] \in ScanStates /\ Taken(w) \in ScanStates
  BY DEF ScanStates, Taken
<1>4. (IF c = "]" THEN "text" ELSE "tag") \in {"text", "hash", "tag"}
  OBVIOUS
<1>5. CASE s.mode = "tag"
  <2>1. ScanChar(s, c) = [s EXCEPT !.mode = IF c = "]" THEN "text" ELSE "tag"]
    BY <1>1, <1>5, ScanCharCases
  <2>2. QED
    BY <1>1, <1>3, <1>4, <2>1, Zenon
<1>6. CASE s.mode = "hash" /\ c = "#"
  <2>1. ScanChar(s, c) = Taken(s.width + 1)
    BY <1>1, <1>6, ScanCharCases
  <2>2. QED
    BY <1>1, <1>2, <1>3, <2>1, Zenon
<1>7. CASE s.mode = "hash" /\ c = "["
  <2>1. ScanChar(s, c) = [s EXCEPT !.mode = "tag"]
    BY <1>1, <1>7, ScanCharCases
  <2>2. QED
    BY <1>1, <1>3, <2>1, Zenon
<1>8. CASE s.mode = "hash" /\ c \notin {"#", "["}
  <2>1. ScanChar(s, c) = Taken(s.width + 1 + CharWidth(c))
    BY <1>1, <1>8, ScanCharCases
  <2>2. QED
    BY <1>1, <1>2, <1>3, <2>1, Zenon
<1>9. CASE s.mode = "text" /\ c = "#"
  <2>1. ScanChar(s, c) = [s EXCEPT !.mode = "hash"]
    BY <1>1, <1>9, ScanCharCases
  <2>2. QED
    BY <1>1, <1>3, <2>1, Zenon
<1>10. CASE s.mode = "text" /\ c # "#"
  <2>1. ScanChar(s, c) = [s EXCEPT !.width = s.width + CharWidth(c)]
    BY <1>1, <1>10, ScanCharCases
  <2>2. QED
    BY <1>1, <1>2, <1>3, <2>1, Zenon
<1>11. QED
  BY <1>1, <1>5, <1>6, <1>7, <1>8, <1>9, <1>10

LEMMA Machines ==
    /\ Machine(DrawStates, Char, Drawing)
    /\ Machine(ScanStates, Char, Scanning)
<1>1. Machine(DrawStates, Char, Drawing)
  BY DrawCharType DEF Machine, Drawing
<1>2. Machine(ScanStates, Char, Scanning)
  BY ScanCharType DEF Machine, Scanning
<1>3. QED
  BY <1>1, <1>2

DrawnFrom(s, t)   == End(DrawStates, Drawing, s, t)
ScannedFrom(s, t) == End(ScanStates, Scanning, s, t)

\* The two operators are what these machines come to.
LEMMA DrawnIsEnd ==
    ASSUME NEW t \in Seq(Char)
    PROVE  DrawnOf(t) = DrawnFrom(Shown(<<>>), t)
<1> DEFINE start == Shown(<<>>)
           IsScan(g) == g = [n \in 0..Len(t) |-> IF n = 0 THEN start ELSE DrawChar(g[n - 1], t[n])]
           scan == CHOOSE g : IsScan(g)
<1>1. start \in DrawStates
  BY DEF Shown, DrawStates
<1>2. DrawnOf(t) = scan[Len(t)]
  BY DEF DrawnOf, Shown
<1> HIDE DEF start
<1>3. Len(t) \in Nat /\ \A n \in 1..Len(t) : t[n] \in Char
  BY LenProperties
<1>4. PICK f : f \in Runs(DrawStates, Drawing, start, t)
  BY <1>1, Machines, RunExists
<1>5. Reads(f, Drawing, start, t) /\ f \in [0..Len(t) -> DrawStates]
  BY <1>4 DEF Runs
<1>6. ASSUME NEW n \in 0..Len(t)
      PROVE  f[n] = IF n = 0 THEN start ELSE DrawChar(f[n - 1], t[n])
  <2>1. CASE n = 0
    BY <1>5, <2>1 DEF Reads
  <2>2. CASE n # 0
    <3>1. n \in 1..Len(t) /\ n - 1 \in 0..Len(t)
      BY <1>3, <2>2
    <3>2. f[n] = Drawing[<<f[n - 1], t[n]>>] /\ f[n - 1] \in DrawStates /\ t[n] \in Char
      BY <1>3, <1>5, <3>1 DEF Reads
    <3>3. QED
      BY <2>2, <3>2 DEF Drawing
  <2>3. QED
    BY <2>1, <2>2
<1>7. IsScan(f)
  BY <1>5, <1>6
<1>8. IsScan(scan)
  <2>1. \E g : IsScan(g)
    BY <1>7
  <2>2. QED
    BY <2>1
<1> HIDE DEF scan
<1>9. \A n \in 0..Len(t) : scan[n] = IF n = 0 THEN start ELSE DrawChar(scan[n - 1], t[n])
  BY <1>8
<1> HIDE DEF IsScan
<1> DEFINE T == {m \in Nat : m <= Len(t) => scan[m] = f[m]}
<1>10. 0 \in T
  BY <1>3, <1>6, <1>9
<1>11. ASSUME NEW m \in Nat, m \in T PROVE m + 1 \in T
  <2>1. SUFFICES ASSUME m + 1 <= Len(t) PROVE scan[m + 1] = f[m + 1]
    OBVIOUS
  <2>2. m + 1 \in 0..Len(t) /\ m + 1 # 0 /\ (m + 1) - 1 = m /\ scan[m] = f[m]
    BY <1>3, <1>11, <2>1
  <2>3. QED
    BY <1>6, <1>9, <2>2
<1> HIDE DEF T
<1>12. Len(t) \in T
  BY <1>3, <1>10, <1>11, Induction
<1>13. DrawnFrom(start, t) = f[Len(t)]
  BY <1>1, <1>5, Machines, EndOfRun DEF DrawnFrom
<1>14. QED
  BY <1>2, <1>3, <1>12, <1>13 DEF T, start

LEMMA ScannedIsEnd ==
    ASSUME NEW t \in Seq(Char)
    PROVE  Scanned(t) = ScannedFrom(Taken(0), t)
<1> DEFINE start == Taken(0)
           IsScan(g) == g = [n \in 0..Len(t) |-> IF n = 0 THEN start ELSE ScanChar(g[n - 1], t[n])]
           scan == CHOOSE g : IsScan(g)
<1>1. start \in ScanStates
  BY DEF Taken, ScanStates
<1>2. Scanned(t) = scan[Len(t)]
  BY DEF Scanned, Taken
<1> HIDE DEF start
<1>3. Len(t) \in Nat /\ \A n \in 1..Len(t) : t[n] \in Char
  BY LenProperties
<1>4. PICK f : f \in Runs(ScanStates, Scanning, start, t)
  BY <1>1, Machines, RunExists
<1>5. Reads(f, Scanning, start, t) /\ f \in [0..Len(t) -> ScanStates]
  BY <1>4 DEF Runs
<1>6. ASSUME NEW n \in 0..Len(t)
      PROVE  f[n] = IF n = 0 THEN start ELSE ScanChar(f[n - 1], t[n])
  <2>1. CASE n = 0
    BY <1>5, <2>1 DEF Reads
  <2>2. CASE n # 0
    <3>1. n \in 1..Len(t) /\ n - 1 \in 0..Len(t)
      BY <1>3, <2>2
    <3>2. f[n] = Scanning[<<f[n - 1], t[n]>>] /\ f[n - 1] \in ScanStates /\ t[n] \in Char
      BY <1>3, <1>5, <3>1 DEF Reads
    <3>3. QED
      BY <2>2, <3>2 DEF Scanning
  <2>3. QED
    BY <2>1, <2>2
<1>7. IsScan(f)
  BY <1>5, <1>6
<1>8. IsScan(scan)
  <2>1. \E g : IsScan(g)
    BY <1>7
  <2>2. QED
    BY <2>1
<1> HIDE DEF scan
<1>9. \A n \in 0..Len(t) : scan[n] = IF n = 0 THEN start ELSE ScanChar(scan[n - 1], t[n])
  BY <1>8
<1> HIDE DEF IsScan
<1> DEFINE T == {m \in Nat : m <= Len(t) => scan[m] = f[m]}
<1>10. 0 \in T
  BY <1>3, <1>6, <1>9
<1>11. ASSUME NEW m \in Nat, m \in T PROVE m + 1 \in T
  <2>1. SUFFICES ASSUME m + 1 <= Len(t) PROVE scan[m + 1] = f[m + 1]
    OBVIOUS
  <2>2. m + 1 \in 0..Len(t) /\ m + 1 # 0 /\ (m + 1) - 1 = m /\ scan[m] = f[m]
    BY <1>3, <1>11, <2>1
  <2>3. QED
    BY <1>6, <1>9, <2>2
<1> HIDE DEF T
<1>12. Len(t) \in T
  BY <1>3, <1>10, <1>11, Induction
<1>13. ScannedFrom(start, t) = f[Len(t)]
  BY <1>1, <1>5, Machines, EndOfRun DEF ScannedFrom
<1>14. QED
  BY <1>2, <1>3, <1>12, <1>13 DEF T, start

(***************************************************************************)
(* Columns add up.                                                         *)
(***************************************************************************)

Places(t, c) == {i \in DOMAIN t : t[i] = c}

LEMMA PlacesFinite ==
    ASSUME NEW t \in Seq(Char), NEW c
    PROVE  /\ IsFiniteSet(Places(t, c)) /\ Cardinality(Places(t, c)) \in Nat
           /\ Cardinality(Places(t, c)) <= Len(t) /\ Len(t) \in Nat
<1>1. Len(t) \in Nat /\ DOMAIN t = 1..Len(t)
  BY LenProperties
<1>2. IsFiniteSet(1..Len(t)) /\ Cardinality(1..Len(t)) = Len(t)
  <2>1. 1 \in Int /\ Len(t) \in Int
    BY <1>1
  <2>2. IsFiniteSet(1..Len(t)) /\ Cardinality(1..Len(t)) = IF 1 > Len(t) THEN 0 ELSE Len(t) - 1 + 1
    BY <2>1, FS_Interval
  <2>3. (IF 1 > Len(t) THEN 0 ELSE Len(t) - 1 + 1) = Len(t)
    BY <1>1
  <2>4. QED
    BY <2>2, <2>3
<1>3. Places(t, c) \in SUBSET (1..Len(t))
  BY <1>1 DEF Places
<1>4. QED
  BY <1>1, <1>2, <1>3, FS_Subset, FS_CardinalityType

LEMMA PlacesAddUp ==
    ASSUME NEW t \in Seq(Char), NEW u \in Seq(Char), NEW c
    PROVE  Cardinality(Places(t \o u, c)) = Cardinality(Places(t, c)) + Cardinality(Places(u, c))
<1> DEFINE A == Places(t, c)
           B == Places(u, c)
           f == [i \in B |-> i + Len(t)]
           D == {i + Len(t) : i \in B}
           tu == t \o u
<1>1. /\ Len(t) \in Nat /\ DOMAIN t = 1..Len(t) /\ Len(u) \in Nat /\ DOMAIN u = 1..Len(u)
      /\ DOMAIN tu = 1..Len(t) + Len(u)
      /\ \A i \in 1..Len(t) + Len(u) : tu[i] = IF i <= Len(t) THEN t[i] ELSE u[i - Len(t)]
  BY LenProperties, ConcatProperties
<1>2. IsFiniteSet(A) /\ IsFiniteSet(B) /\ Cardinality(A) \in Nat /\ Cardinality(B) \in Nat
  BY PlacesFinite
<1> HIDE DEF tu
<1>3. Places(tu, c) = A \cup D
  <2>1. ASSUME NEW i \in Places(tu, c) PROVE i \in A \cup D
    <3>1. i \in 1..Len(t) + Len(u) /\ tu[i] = c
      BY <1>1 DEF Places
    <3>2. CASE i <= Len(t)
      BY <1>1, <3>1, <3>2 DEF Places
    <3>3. CASE ~(i <= Len(t))
      <4>1. i - Len(t) \in 1..Len(u) /\ u[i - Len(t)] = c /\ i = (i - Len(t)) + Len(t)
        BY <1>1, <3>1, <3>3
      <4>2. i - Len(t) \in B
        BY <1>1, <4>1 DEF Places
      <4>3. QED
        BY <4>1, <4>2
    <3>4. QED
      BY <3>2, <3>3
  <2>2. ASSUME NEW i \in A PROVE i \in Places(tu, c)
    <3>1. i \in 1..Len(t) /\ t[i] = c
      BY <1>1 DEF Places
    <3>2. i \in 1..Len(t) + Len(u) /\ i <= Len(t)
      BY <1>1, <3>1
    <3>3. QED
      BY <1>1, <3>1, <3>2 DEF Places
  <2>3. ASSUME NEW i \in B PROVE i + Len(t) \in Places(tu, c)
    <3>1. i \in 1..Len(u) /\ u[i] = c
      BY <1>1 DEF Places
    <3>2. i + Len(t) \in 1..Len(t) + Len(u) /\ ~(i + Len(t) <= Len(t)) /\ (i + Len(t)) - Len(t) = i
      BY <1>1, <3>1
    <3>3. QED
      BY <1>1, <3>1, <3>2 DEF Places
  <2> HIDE DEF A, B
  <2>4. QED
    BY <2>1, <2>2, <2>3
<1>4. A \cap D = {}
  BY <1>1 DEF Places
<1>5. IsFiniteSet(D) /\ Cardinality(D) = Cardinality(B)
  <2>1. B \subseteq Nat
    BY <1>1 DEF Places
  <2> HIDE DEF B
  <2>2. f \in [B -> D] /\ (\A i, j \in B : f[i] = f[j] => i = j) /\ (\A y \in D : \E i \in B : f[i] = y)
    BY <1>1, <2>1
  <2>3. f \in Bijection(B, D)
    BY <2>2 DEF Bijection, Injection, IsInjective, Surjection
  <2>4. ExistsBijection(B, D)
    BY <2>3 DEF ExistsBijection
  <2>5. QED
    BY <1>2, <2>4, FS_Bijection
<1> HIDE DEF A, B, D
<1>6. Cardinality(A \cup D) = Cardinality(A) + Cardinality(D) - Cardinality(A \cap D)
  BY <1>2, <1>5, FS_Union
<1>7. Cardinality({}) = 0
  BY FS_EmptySet
<1>8. Cardinality(A \cup D) = Cardinality(A) + Cardinality(B)
  <2>1. Cardinality(A \cap D) = 0 /\ Cardinality(D) = Cardinality(B)
    BY <1>4, <1>5, <1>7, Zenon
  <2>2. QED
    BY <1>2, <1>6, <2>1
<1>9. QED
  BY <1>3, <1>8 DEF A, B, tu

LEMMA ColumnsAddUp ==
    ASSUME NEW t \in Seq(Char), NEW u \in Seq(Char)
    PROVE  /\ Columns(t) \in Nat /\ Columns(u) \in Nat
           /\ Columns(t \o u) = Columns(t) + Columns(u)
<1> DEFINE N(s, c) == Cardinality(Places(s, c))
<1>1. \A s \in Seq(Char) : Columns(s) = Len(s) + N(s, "w") - N(s, "z")
  BY DEF Columns, Places
<1>2. \A s \in Seq(Char) : N(s, "w") \in Nat /\ N(s, "z") \in Nat /\ N(s, "z") <= Len(s) /\ Len(s) \in Nat
  BY PlacesFinite
<1>3. N(t \o u, "w") = N(t, "w") + N(u, "w") /\ N(t \o u, "z") = N(t, "z") + N(u, "z")
  BY PlacesAddUp
<1>4. t \o u \in Seq(Char) /\ Len(t \o u) = Len(t) + Len(u)
  BY ConcatProperties
<1> HIDE DEF N
<1>5. \A s \in Seq(Char) : Columns(s) \in Nat
  BY <1>1, <1>2
<1>6. /\ Columns(t) = Len(t) + N(t, "w") - N(t, "z")
      /\ Columns(u) = Len(u) + N(u, "w") - N(u, "z")
      /\ Columns(t \o u) = Len(t \o u) + N(t \o u, "w") - N(t \o u, "z")
  BY <1>1, <1>4, Zenon
<1>7. /\ N(t, "w") \in Nat /\ N(t, "z") \in Nat /\ Len(t) \in Nat
      /\ N(u, "w") \in Nat /\ N(u, "z") \in Nat /\ Len(u) \in Nat
  BY <1>2, Zenon
<1>8. QED
  BY <1>3, <1>4, <1>5, <1>6, <1>7

LEMMA ColumnsOfFew ==
    /\ Columns(<<>>) = 0
    /\ \A c \in Char : Columns(<<c>>) = CharWidth(c)
<1>1. Columns(<<>>) = 0
  <2>1. Places(<<>>, "w") = {} /\ Places(<<>>, "z") = {} /\ Len(<<>>) = 0
    BY DEF Places
  <2>2. Cardinality({}) = 0
    BY FS_EmptySet
  <2>3. Columns(<<>>) = Len(<<>>) + Cardinality(Places(<<>>, "w")) - Cardinality(Places(<<>>, "z"))
    BY DEF Columns, Places
  <2>4. Columns(<<>>) = 0 + 0 - 0
    BY <2>1, <2>2, <2>3, Zenon
  <2>5. QED
    BY <2>4
<1>2. ASSUME NEW c \in Char PROVE Columns(<<c>>) = CharWidth(c)
  <2>1. Columns(<<c>>) = Len(<<c>>) + Cardinality(Places(<<c>>, "w")) - Cardinality(Places(<<c>>, "z"))
    BY DEF Columns, Places
  <2>2. \A d : Places(<<c>>, d) = IF c = d THEN {1} ELSE {}
    BY DEF Places
  <2>3. Cardinality({}) = 0 /\ Cardinality({1}) = 1 /\ Len(<<c>>) = 1
    BY FS_EmptySet, FS_Singleton
  <2>4. CASE c = "w"
    BY <2>1, <2>2, <2>3, <2>4 DEF CharWidth
  <2>5. CASE c = "z"
    BY <2>1, <2>2, <2>3, <2>5 DEF CharWidth
  <2>6. CASE c # "w" /\ c # "z"
    BY <2>1, <2>2, <2>3, <2>6 DEF CharWidth
  <2>7. QED
    BY <2>4, <2>5, <2>6
<1>3. QED
  BY <1>1, <1>2

(***************************************************************************)
(* A text that both read as another: from wherever they are in the midst   *)
(* of text, it adds that other one to what is drawn, and its columns to    *)
(* the width, and leaves them in the midst of text.                        *)
(***************************************************************************)

DrawnAs(t, p) ==
    /\ t \in Seq(Char) /\ p \in Seq(Char)
    /\ \A d \in Seq(Char) : DrawnFrom(Shown(d), t) = Shown(d \o p)
    /\ \A w \in Nat : ScannedFrom(Taken(w), t) = Taken(w + Columns(p))

LEMMA NothingDrawsNothing == DrawnAs(<<>>, <<>>)
<1>1. ASSUME NEW d \in Seq(Char) PROVE DrawnFrom(Shown(d), <<>>) = Shown(d \o <<>>)
  <2>1. Shown(d) \in DrawStates
    BY DEF Shown, DrawStates
  <2>2. DrawnFrom(Shown(d), <<>>) = Shown(d)
    BY <2>1, Machines, EndOfNothing DEF DrawnFrom
  <2>3. d \o <<>> = d
    BY ConcatEmptySeq
  <2>4. QED
    BY <2>2, <2>3
<1>2. ASSUME NEW w \in Nat PROVE ScannedFrom(Taken(w), <<>>) = Taken(w + Columns(<<>>))
  <2>1. Taken(w) \in ScanStates
    BY DEF Taken, ScanStates
  <2>2. ScannedFrom(Taken(w), <<>>) = Taken(w)
    BY <2>1, Machines, EndOfNothing DEF ScannedFrom
  <2>3. w + Columns(<<>>) = w
    BY ColumnsOfFew
  <2>4. QED
    BY <2>2, <2>3
<1>3. <<>> \in Seq(Char)
  OBVIOUS
<1>4. QED
  BY <1>1, <1>2, <1>3 DEF DrawnAs

LEMMA OneAfterTheOther ==
    ASSUME NEW t, NEW p, NEW u, NEW q, DrawnAs(t, p), DrawnAs(u, q)
    PROVE  DrawnAs(t \o u, p \o q)
<1>1. /\ t \in Seq(Char) /\ p \in Seq(Char) /\ u \in Seq(Char) /\ q \in Seq(Char)
      /\ t \o u \in Seq(Char) /\ p \o q \in Seq(Char)
  BY ConcatProperties DEF DrawnAs
<1>2. ASSUME NEW d \in Seq(Char) PROVE DrawnFrom(Shown(d), t \o u) = Shown(d \o (p \o q))
  <2>1. Shown(d) \in DrawStates
    BY DEF Shown, DrawStates
  <2>2. DrawnFrom(Shown(d), t \o u) = DrawnFrom(DrawnFrom(Shown(d), t), u)
    BY <1>1, <2>1, Machines, EndOfTwo DEF DrawnFrom
  <2>3. d \o p \in Seq(Char)
    BY <1>1, ConcatProperties
  <2>4. DrawnFrom(Shown(d), t) = Shown(d \o p) /\ DrawnFrom(Shown(d \o p), u) = Shown((d \o p) \o q)
    BY <2>3 DEF DrawnAs
  <2>5. (d \o p) \o q = d \o (p \o q)
    <3>1. \A a, b, c \in Seq(Char) : (a \o b) \o c = a \o (b \o c)
      BY ConcatAssociative
    <3>2. QED
      BY <1>1, <3>1, Zenon
  <2>6. QED
    BY <2>2, <2>4, <2>5
<1>3. ASSUME NEW w \in Nat PROVE ScannedFrom(Taken(w), t \o u) = Taken(w + Columns(p \o q))
  <2>1. Taken(w) \in ScanStates
    BY DEF Taken, ScanStates
  <2>2. ScannedFrom(Taken(w), t \o u) = ScannedFrom(ScannedFrom(Taken(w), t), u)
    BY <1>1, <2>1, Machines, EndOfTwo DEF ScannedFrom
  <2>3. Columns(p) \in Nat /\ Columns(q) \in Nat /\ Columns(p \o q) = Columns(p) + Columns(q)
    BY <1>1, ColumnsAddUp
  <2>4. w + Columns(p) \in Nat /\ (w + Columns(p)) + Columns(q) = w + Columns(p \o q)
    BY <2>3
  <2>5. /\ ScannedFrom(Taken(w), t) = Taken(w + Columns(p))
        /\ ScannedFrom(Taken(w + Columns(p)), u) = Taken((w + Columns(p)) + Columns(q))
    BY <2>4 DEF DrawnAs
  <2>6. QED
    BY <2>2, <2>4, <2>5
<1>4. QED
  BY <1>1, <1>2, <1>3 DEF DrawnAs

LEMMA FlatDrawnAs ==
    ASSUME NEW ss \in Seq(Seq(Char)), NEW pp \in Seq(Seq(Char)), Len(ss) = Len(pp),
           \A i \in 1..Len(ss) : DrawnAs(ss[i], pp[i])
    PROVE  DrawnAs(FlattenSeq(ss), FlattenSeq(pp))
<1>1. PICK f \in [0..Len(ss) -> Seq(Char)] : Strung(f, ss) /\ FlattenSeq(ss) = f[Len(ss)]
  BY Flattened
<1>2. PICK g \in [0..Len(pp) -> Seq(Char)] : Strung(g, pp) /\ FlattenSeq(pp) = g[Len(pp)]
  BY Flattened
<1>3. Len(ss) \in Nat
  OBVIOUS
<1> DEFINE T == {m \in Nat : m <= Len(ss) => DrawnAs(f[m], g[m])}
<1>4. 0 \in T
  BY <1>1, <1>2, NothingDrawsNothing DEF Strung
<1>5. ASSUME NEW m \in Nat, m \in T PROVE m + 1 \in T
  <2>1. SUFFICES ASSUME m + 1 <= Len(ss) PROVE DrawnAs(f[m + 1], g[m + 1])
    OBVIOUS
  <2>2. m + 1 \in 1..Len(ss) /\ (m + 1) - 1 = m /\ m <= Len(ss)
    BY <1>3, <2>1
  <2>3. f[m + 1] = f[m] \o ss[m + 1] /\ g[m + 1] = g[m] \o pp[m + 1]
    BY <1>1, <1>2, <2>2 DEF Strung
  <2>4. DrawnAs(f[m], g[m]) /\ DrawnAs(ss[m + 1], pp[m + 1])
    BY <1>5, <2>2
  <2>5. DrawnAs(f[m] \o ss[m + 1], g[m] \o pp[m + 1])
    BY <2>4, OneAfterTheOther
  <2>6. QED
    BY <2>3, <2>5
<1> HIDE DEF T
<1>6. Len(ss) \in T
  BY <1>3, <1>4, <1>5, Induction
<1>7. DrawnAs(f[Len(ss)], g[Len(ss)])
  BY <1>3, <1>6 DEF T
<1>8. QED
  BY <1>1, <1>2, <1>7

(***************************************************************************)
(* What a line is put together from.                                       *)
(***************************************************************************)

LEMMA CharByChar ==
    ASSUME NEW c \in Char
    PROVE  /\ \A s \in DrawStates : DrawnFrom(s, <<c>>) = DrawChar(s, c)
           /\ \A s \in DrawStates, t \in Seq(Char) :
                  DrawnFrom(s, <<c>> \o t) = DrawnFrom(DrawChar(s, c), t)
           /\ \A s \in ScanStates : ScannedFrom(s, <<c>>) = ScanChar(s, c)
           /\ \A s \in ScanStates, t \in Seq(Char) :
                  ScannedFrom(s, <<c>> \o t) = ScannedFrom(ScanChar(s, c), t)
<1>1. ASSUME NEW s \in DrawStates PROVE DrawnFrom(s, <<c>>) = DrawChar(s, c)
  <2>1. End(DrawStates, Drawing, s, <<c>>) = Drawing[<<s, c>>]
    BY Machines, EndOfOne
  <2>2. Drawing[<<s, c>>] = DrawChar(s, c)
    BY DEF Drawing
  <2>3. QED
    BY <2>1, <2>2 DEF DrawnFrom
<1>2. ASSUME NEW s \in ScanStates PROVE ScannedFrom(s, <<c>>) = ScanChar(s, c)
  <2>1. End(ScanStates, Scanning, s, <<c>>) = Scanning[<<s, c>>]
    BY Machines, EndOfOne
  <2>2. Scanning[<<s, c>>] = ScanChar(s, c)
    BY DEF Scanning
  <2>3. QED
    BY <2>1, <2>2 DEF ScannedFrom
<1>3. <<c>> \in Seq(Char)
  OBVIOUS
<1>4. ASSUME NEW s \in DrawStates, NEW t \in Seq(Char)
      PROVE  DrawnFrom(s, <<c>> \o t) = DrawnFrom(DrawChar(s, c), t)
  <2> DEFINE one == <<c>>
  <2>1. one \in Seq(Char) /\ DrawnFrom(s, one) = DrawChar(s, c)
    BY <1>1, <1>3
  <2> HIDE DEF one
  <2>2. DrawnFrom(s, one \o t) = DrawnFrom(DrawnFrom(s, one), t)
    BY <2>1, Machines, EndOfTwo DEF DrawnFrom
  <2>3. QED
    BY <2>1, <2>2 DEF one
<1>5. ASSUME NEW s \in ScanStates, NEW t \in Seq(Char)
      PROVE  ScannedFrom(s, <<c>> \o t) = ScannedFrom(ScanChar(s, c), t)
  <2> DEFINE one == <<c>>
  <2>1. one \in Seq(Char) /\ ScannedFrom(s, one) = ScanChar(s, c)
    BY <1>2, <1>3
  <2> HIDE DEF one
  <2>2. ScannedFrom(s, one \o t) = ScannedFrom(ScannedFrom(s, one), t)
    BY <2>1, Machines, EndOfTwo DEF ScannedFrom
  <2>3. QED
    BY <2>1, <2>2 DEF one
<1>6. QED
  BY <1>1, <1>2, <1>4, <1>5

LEMMA CharIsDrawn ==
    ASSUME NEW c \in Char, c # "#"
    PROVE  DrawnAs(<<c>>, <<c>>)
<1>1. ASSUME NEW d \in Seq(Char) PROVE DrawnFrom(Shown(d), <<c>>) = Shown(d \o <<c>>)
  <2>1. Shown(d) \in DrawStates /\ Shown(d).mode = "text" /\ Shown(d).drawn = d
    BY DEF Shown, DrawStates
  <2>2. DrawnFrom(Shown(d), <<c>>) = DrawChar(Shown(d), c)
    BY <2>1, CharByChar
  <2>3. DrawChar(Shown(d), c) = [Shown(d) EXCEPT !.drawn = Append(d, c)]
    BY <2>1 DEF DrawChar
  <2>4. [Shown(d) EXCEPT !.drawn = Append(d, c)] = Shown(Append(d, c))
    <3>1. \A e : [Shown(d) EXCEPT !.drawn = e] = Shown(e)
      BY DEF Shown
    <3>2. QED
      BY <3>1
  <2>5. Append(d, c) = d \o <<c>>
    OBVIOUS
  <2>6. QED
    BY <2>2, <2>3, <2>4, <2>5
<1>2. ASSUME NEW w \in Nat PROVE ScannedFrom(Taken(w), <<c>>) = Taken(w + Columns(<<c>>))
  <2>1. Taken(w) \in ScanStates /\ Taken(w).mode = "text" /\ Taken(w).width = w
    BY DEF Taken, ScanStates
  <2>2. ScannedFrom(Taken(w), <<c>>) = ScanChar(Taken(w), c)
    BY <2>1, CharByChar
  <2>3. ScanChar(Taken(w), c) = [Taken(w) EXCEPT !.width = w + CharWidth(c)]
    BY <2>1, ScanCharCases
  <2>4. [Taken(w) EXCEPT !.width = w + CharWidth(c)] = Taken(w + CharWidth(c))
    BY DEF Taken
  <2>5. QED
    BY <2>2, <2>3, <2>4, ColumnsOfFew
<1>3. <<c>> \in Seq(Char)
  OBVIOUS
<1>4. QED
  BY <1>1, <1>2, <1>3 DEF DrawnAs

Amidst(m, d)  == [mode |-> m, drawn |-> d]
AmidstW(m, w) == [mode |-> m, width |-> w]

LEMMA Escapes ==
    /\ DrawnAs(<<"#", "#">>, <<"#">>)
    /\ DrawnAs(<<"#", "[", "]">>, <<>>)
<1>1. "#" \in Char /\ "[" \in Char /\ "]" \in Char
  BY DEF Char
<1>2. <<"#">> \in Seq(Char) /\ <<"[", "]">> \in Seq(Char) /\ <<"]">> \in Seq(Char) /\ <<>> \in Seq(Char)
      /\ <<"#", "#">> \in Seq(Char) /\ <<"#", "[", "]">> \in Seq(Char)
  BY <1>1
<1>3. <<"#", "#">> = <<"#">> \o <<"#">> /\ <<"#", "[", "]">> = <<"#">> \o <<"[", "]">>
      /\ <<"[", "]">> = <<"[">> \o <<"]">>
  OBVIOUS
<1>4. ASSUME NEW d \in Seq(Char)
      PROVE  /\ DrawnFrom(Shown(d), <<"#", "#">>) = Shown(d \o <<"#">>)
             /\ DrawnFrom(Shown(d), <<"#", "[", "]">>) = Shown(d \o <<>>)
  <2>1. /\ Shown(d) \in DrawStates /\ Amidst("hash", d) \in DrawStates
        /\ Amidst("tag", d) \in DrawStates
    BY DEF Shown, Amidst, DrawStates
  <2>2. DrawChar(Shown(d), "#") = Amidst("hash", d)
    BY DEF DrawChar, Shown, Amidst
  <2>3. DrawChar(Amidst("hash", d), "#") = Shown(d \o <<"#">>)
    <3>1. Append(d, "#") \o <<>> = d \o <<"#">>
      BY <1>1
    <3>2. DrawChar(Amidst("hash", d), "#") = Shown(Append(d, "#") \o <<>>)
      BY DEF DrawChar, Shown, Amidst
    <3>3. QED
      BY <3>1, <3>2
  <2>4. DrawChar(Amidst("hash", d), "[") = Amidst("tag", d)
    BY DEF DrawChar, Amidst
  <2>5. DrawChar(Amidst("tag", d), "]") = Shown(d) /\ d \o <<>> = d
    BY ConcatEmptySeq DEF DrawChar, Amidst, Shown
  <2>6. /\ \A t \in Seq(Char) : DrawnFrom(Shown(d), <<"#">> \o t) = DrawnFrom(Amidst("hash", d), t)
        /\ \A t \in Seq(Char) : DrawnFrom(Amidst("hash", d), <<"[">> \o t) = DrawnFrom(Amidst("tag", d), t)
        /\ DrawnFrom(Amidst("hash", d), <<"#">>) = Shown(d \o <<"#">>)
        /\ DrawnFrom(Amidst("tag", d), <<"]">>) = Shown(d \o <<>>)
    <3>1. \A t \in Seq(Char) : DrawnFrom(Shown(d), <<"#">> \o t) = DrawnFrom(DrawChar(Shown(d), "#"), t)
      BY <1>1, <2>1, CharByChar
    <3>2. \A t \in Seq(Char) : DrawnFrom(Amidst("hash", d), <<"[">> \o t) = DrawnFrom(DrawChar(Amidst("hash", d), "["), t)
      BY <1>1, <2>1, CharByChar
    <3>3. DrawnFrom(Amidst("hash", d), <<"#">>) = DrawChar(Amidst("hash", d), "#")
      BY <1>1, <2>1, CharByChar
    <3>4. DrawnFrom(Amidst("tag", d), <<"]">>) = DrawChar(Amidst("tag", d), "]")
      BY <1>1, <2>1, CharByChar
    <3>5. QED
      BY <2>2, <2>3, <2>4, <2>5, <3>1, <3>2, <3>3, <3>4, Zenon
  <2>7. /\ DrawnFrom(Shown(d), <<"#">> \o <<"#">>) = Shown(d \o <<"#">>)
        /\ DrawnFrom(Shown(d), <<"#">> \o (<<"[">> \o <<"]">>)) = Shown(d \o <<>>)
    <3>1. <<"[">> \o <<"]">> \in Seq(Char)
      BY <1>2, <1>3
    <3>2. QED
      BY <1>2, <2>6, <3>1, Zenon
  <2>8. QED
    BY <1>3, <2>7, Zenon
<1>5. ASSUME NEW w \in Nat
      PROVE  /\ ScannedFrom(Taken(w), <<"#", "#">>) = Taken(w + Columns(<<"#">>))
             /\ ScannedFrom(Taken(w), <<"#", "[", "]">>) = Taken(w + Columns(<<>>))
  <2>1. /\ Taken(w) \in ScanStates /\ AmidstW("hash", w) \in ScanStates
        /\ AmidstW("tag", w) \in ScanStates
    BY DEF Taken, AmidstW, ScanStates
  <2>2. ScanChar(Taken(w), "#") = AmidstW("hash", w)
    BY DEF ScanChar, Taken, AmidstW
  <2>3. ScanChar(AmidstW("hash", w), "#") = Taken(w + 1) /\ Columns(<<"#">>) = 1
    BY <1>1, ColumnsOfFew DEF ScanChar, Taken, AmidstW, CharWidth
  <2>4. ScanChar(AmidstW("hash", w), "[") = AmidstW("tag", w)
    BY DEF ScanChar, AmidstW
  <2>5. ScanChar(AmidstW("tag", w), "]") = Taken(w) /\ w + Columns(<<>>) = w
    BY ColumnsOfFew DEF ScanChar, AmidstW, Taken
  <2>6. /\ \A t \in Seq(Char) : ScannedFrom(Taken(w), <<"#">> \o t) = ScannedFrom(AmidstW("hash", w), t)
        /\ \A t \in Seq(Char) : ScannedFrom(AmidstW("hash", w), <<"[">> \o t) = ScannedFrom(AmidstW("tag", w), t)
        /\ ScannedFrom(AmidstW("hash", w), <<"#">>) = Taken(w + Columns(<<"#">>))
        /\ ScannedFrom(AmidstW("tag", w), <<"]">>) = Taken(w + Columns(<<>>))
    <3>1. \A t \in Seq(Char) : ScannedFrom(Taken(w), <<"#">> \o t) = ScannedFrom(ScanChar(Taken(w), "#"), t)
      BY <1>1, <2>1, CharByChar
    <3>2. \A t \in Seq(Char) : ScannedFrom(AmidstW("hash", w), <<"[">> \o t) = ScannedFrom(ScanChar(AmidstW("hash", w), "["), t)
      BY <1>1, <2>1, CharByChar
    <3>3. ScannedFrom(AmidstW("hash", w), <<"#">>) = ScanChar(AmidstW("hash", w), "#")
      BY <1>1, <2>1, CharByChar
    <3>4. ScannedFrom(AmidstW("tag", w), <<"]">>) = ScanChar(AmidstW("tag", w), "]")
      BY <1>1, <2>1, CharByChar
    <3>5. QED
      BY <2>2, <2>3, <2>4, <2>5, <3>1, <3>2, <3>3, <3>4, Zenon
  <2>7. /\ ScannedFrom(Taken(w), <<"#">> \o <<"#">>) = Taken(w + Columns(<<"#">>))
        /\ ScannedFrom(Taken(w), <<"#">> \o (<<"[">> \o <<"]">>)) = Taken(w + Columns(<<>>))
    <3>1. <<"[">> \o <<"]">> \in Seq(Char)
      BY <1>2, <1>3
    <3>2. QED
      BY <1>2, <2>6, <3>1, Zenon
  <2>8. QED
    BY <1>3, <2>7, Zenon
<1>6. QED
  BY <1>2, <1>4, <1>5 DEF DrawnAs

\* A value is drawn as it is, whatever is in it.
LEMMA ValueIsDrawn ==
    ASSUME NEW t \in Seq(Char)
    PROVE  DrawnAs(Escape(t), t)
<1> DEFINE ss == [i \in DOMAIN t |-> IF t[i] = "#" THEN <<"#", "#">> ELSE <<t[i]>>]
           pp == [i \in DOMAIN t |-> <<t[i]>>]
<1>1. Len(t) \in Nat /\ DOMAIN t = 1..Len(t) /\ \A i \in 1..Len(t) : t[i] \in Char
  BY LenProperties
<1>2. \A i \in 1..Len(t) : DrawnAs(ss[i], pp[i])
  <2> SUFFICES ASSUME NEW i \in 1..Len(t)
               PROVE  DrawnAs(IF t[i] = "#" THEN <<"#", "#">> ELSE <<t[i]>>, <<t[i]>>)
    BY <1>1
  <2>1. CASE t[i] = "#"
    BY <2>1, Escapes
  <2>2. CASE t[i] # "#"
    BY <1>1, <2>2, CharIsDrawn
  <2>3. QED
    BY <2>1, <2>2
<1>3. ss \in Seq(Seq(Char)) /\ Len(ss) = Len(t) /\ pp \in Seq(Seq(Char)) /\ Len(pp) = Len(t)
  <2>1. \A i \in 1..Len(t) : ss[i] \in Seq(Char) /\ pp[i] \in Seq(Char)
    BY <1>2 DEF DrawnAs
  <2>2. QED
    BY <1>1, <2>1
<1>4. FlattenSeq(pp) = t
  BY FlatOfSingles
<1>5. Escape(t) = FlattenSeq(ss)
  BY DEF Escape
<1> HIDE DEF ss, pp
<1>6. DrawnAs(FlattenSeq(ss), FlattenSeq(pp))
  BY <1>2, <1>3, FlatDrawnAs
<1>7. QED
  BY <1>4, <1>5, <1>6

LEMMA PlainIsDrawn ==
    ASSUME NEW t \in Seq(Char), \A i \in 1..Len(t) : t[i] # "#"
    PROVE  DrawnAs(t, t)
<1> DEFINE ss == [i \in DOMAIN t |-> <<t[i]>>]
<1>1. Len(t) \in Nat /\ DOMAIN t = 1..Len(t) /\ \A i \in 1..Len(t) : t[i] \in Char
  BY LenProperties
<1>2. ss \in Seq(Seq(Char)) /\ FlattenSeq(ss) = t
  BY FlatOfSingles
<1>3. Len(ss) = Len(t) /\ \A i \in 1..Len(t) : ss[i] = <<t[i]>>
  BY <1>1
<1> HIDE DEF ss
<1>4. \A i \in 1..Len(ss) : DrawnAs(ss[i], ss[i])
  BY <1>1, <1>3, CharIsDrawn
<1>5. DrawnAs(FlattenSeq(ss), FlattenSeq(ss))
  BY <1>2, <1>4, FlatDrawnAs
<1>6. QED
  BY <1>2, <1>5

Pieces ==
    {p \in [kind : {"tag", "value", "own"}, text : Seq(Char)] :
        /\ p.kind = "tag" => p.text = <<>>
        /\ p.kind = "own" => \A i \in 1..Len(p.text) : p.text[i] # "#"}

LEMMA PieceIsDrawn ==
    ASSUME NEW p \in Pieces
    PROVE  DrawnAs(Emit(p), p.text)
<1>1. p.text \in Seq(Char) /\ p.kind \in {"tag", "value", "own"}
  BY DEF Pieces
<1>2. CASE p.kind = "tag"
  <2>1. Emit(p) = <<"#", "[", "]">> /\ p.text = <<>>
    BY <1>2 DEF Emit, Pieces
  <2>2. QED
    BY <2>1, Escapes
<1>3. CASE p.kind = "value"
  <2>1. Emit(p) = Escape(p.text)
    BY <1>3 DEF Emit
  <2>2. QED
    BY <1>1, <2>1, ValueIsDrawn
<1>4. CASE p.kind = "own"
  <2>1. Emit(p) = p.text /\ \A i \in 1..Len(p.text) : p.text[i] # "#"
    BY <1>4 DEF Emit, Pieces
  <2>2. QED
    BY <1>1, <2>1, PlainIsDrawn
<1>5. QED
  BY <1>1, <1>2, <1>3, <1>4

LEMMA PiecesAreDrawn ==
    ASSUME NEW pp \in Seq(Pieces)
    PROVE  DrawnAs(Emitted(pp), Plain(pp))
<1> DEFINE ss == [i \in DOMAIN pp |-> Emit(pp[i])]
           tt == [i \in DOMAIN pp |-> pp[i].text]
<1>1. Len(pp) \in Nat /\ DOMAIN pp = 1..Len(pp) /\ \A i \in 1..Len(pp) : pp[i] \in Pieces
  BY LenProperties
<1>2. \A i \in 1..Len(pp) : ss[i] = Emit(pp[i]) /\ tt[i] = pp[i].text
  BY <1>1
<1>3. \A i \in 1..Len(pp) : DrawnAs(ss[i], tt[i])
  BY <1>1, <1>2, PieceIsDrawn
<1>4. \A i \in 1..Len(pp) : ss[i] \in Seq(Char) /\ tt[i] \in Seq(Char)
  BY <1>3 DEF DrawnAs
<1>5. ss \in Seq(Seq(Char)) /\ Len(ss) = Len(pp) /\ tt \in Seq(Seq(Char)) /\ Len(tt) = Len(pp)
  BY <1>1, <1>4
<1>6. Emitted(pp) = FlattenSeq(ss) /\ Plain(pp) = FlattenSeq(tt)
  BY DEF Emitted, Plain
<1> HIDE DEF ss, tt
<1>7. QED
  BY <1>3, <1>5, <1>6, FlatDrawnAs

\* A piece that shows is not lost among the others.
LEMMA PlainOfNothing ==
    ASSUME NEW pp \in Seq(Pieces), Plain(pp) = <<>>, NEW i \in 1..Len(pp)
    PROVE  pp[i].text = <<>>
<1> DEFINE tt == [j \in DOMAIN pp |-> pp[j].text]
<1>1. Len(pp) \in Nat /\ DOMAIN pp = 1..Len(pp) /\ \A j \in 1..Len(pp) : pp[j] \in Pieces
  BY LenProperties
<1>2. \A j \in 1..Len(pp) : tt[j] = pp[j].text /\ tt[j] \in Seq(Char)
  BY <1>1 DEF Pieces
<1>3. tt \in Seq(Seq(Char)) /\ DOMAIN tt = 1..Len(pp) /\ FlattenSeq(tt) = <<>>
  BY <1>1, <1>2 DEF Plain
<1> HIDE DEF tt
<1>4. tt[i] = <<>>
  BY <1>3, FlatOfNothing
<1>5. QED
  BY <1>2, <1>4

LEMMA EmptyParts == Emitted(<<>>) = <<>> /\ Plain(<<>>) = <<>> /\ Joined(<<>>) = <<>>
BY DEF Emitted, Plain, Joined, FlattenSeq

(***************************************************************************)
(* The parts of a line are made of such pieces.                            *)
(***************************************************************************)

LEMMA PieceTypes ==
    /\ Tag \in Pieces /\ Glyph \in Pieces /\ Blank \in Pieces /\ Own(<<"n">>) \in Pieces
    /\ \A t \in Seq(Char) : Value(t) \in Pieces
<1>1. "g" \in Char /\ " " \in Char /\ "n" \in Char
  BY DEF Char
<1>2. ASSUME NEW c \in Char, c # "#" PROVE Own(<<c>>) \in Pieces
  <2> DEFINE t == <<c>>
  <2>1. t \in Seq(Char) /\ \A i \in 1..Len(t) : t[i] # "#"
    BY <1>2
  <2> HIDE DEF t
  <2>2. Own(t) \in Pieces
    BY <2>1 DEF Own, Pieces
  <2>3. QED
    BY <2>2 DEF t
<1>3. "g" # "#" /\ " " # "#" /\ "n" # "#"
  OBVIOUS
<1>4. Glyph \in Pieces /\ Blank \in Pieces /\ Own(<<"n">>) \in Pieces
  BY <1>1, <1>2, <1>3 DEF Glyph, Blank
<1>5. Tag \in Pieces
  BY DEF Tag, Pieces
<1>6. ASSUME NEW t \in Seq(Char) PROVE Value(t) \in Pieces
  BY DEF Value, Pieces
<1>7. QED
  BY <1>4, <1>5, <1>6

LEMMA JoinedPieces ==
    ASSUME NEW parts \in Seq(Seq(Pieces))
    PROVE  Joined(parts) \in Seq(Pieces)
<1> DEFINE list == [i \in DOMAIN parts |-> IF i = 1 THEN parts[1] ELSE <<Blank>> \o parts[i]]
<1>1. Len(parts) \in Nat /\ DOMAIN parts = 1..Len(parts)
      /\ \A i \in 1..Len(parts) : parts[i] \in Seq(Pieces)
  BY LenProperties
<1>2. <<Blank>> \in Seq(Pieces)
  BY PieceTypes
<1>3. \A i \in 1..Len(parts) : <<Blank>> \o parts[i] \in Seq(Pieces)
  BY <1>1, <1>2, ConcatProperties
<1>4. \A i \in 1..Len(parts) : list[i] \in Seq(Pieces)
  BY <1>1, <1>3
<1>5. list \in Seq(Seq(Pieces))
  BY <1>1, <1>4
<1>6. Joined(parts) = FlattenSeq(list)
  BY DEF Joined
<1> HIDE DEF list
<1>7. QED
  BY <1>5, <1>6, FlatType

LEMMA IfType ==
    ASSUME NEW condition, NEW segment \in Seq(Pieces)
    PROVE  If(condition, segment) \in Seq(Seq(Pieces))
BY DEF If

LEMMA MarksType ==
    ASSUME NEW flags
    PROVE  Marks(flags) \in Seq(Pieces)
<1> DEFINE mark == <<Tag, Glyph>>
           counted == <<Tag, Glyph, Own(<<"n">>)>>
           shown == If("staged" \in flags, mark) \o If("dirty" \in flags, mark)
                      \o If("ahead" \in flags, counted) \o If("behind" \in flags, counted)
<1>1. mark \in Seq(Pieces) /\ counted \in Seq(Pieces)
  BY PieceTypes
<1>2. Marks(flags) = IF shown = <<>> THEN mark ELSE Joined(shown)
  BY DEF Marks
<1> HIDE DEF mark, counted
<1>3. shown \in Seq(Seq(Pieces))
  BY <1>1, IfType, ConcatProperties
<1> HIDE DEF shown
<1>4. QED
  BY <1>1, <1>2, <1>3, JoinedPieces

LEMMA LeftPartType ==
    ASSUME NEW name \in Seq(Char), NEW snapshot, snapshot.branch \in Seq(Char), NEW number \in Seq(Char)
    PROVE  LeftPart(name, snapshot, number) \in Seq(Pieces)
<1>1. DetachedLabel \in Seq(Char) /\ <<"#">> \in Seq(Char)
  <2>1. "d" \in Char /\ "#" \in Char
    BY DEF Char
  <2>2. QED
    BY <2>1 DEF DetachedLabel
<1>2. ProjectSegment(name) \in Seq(Pieces)
  BY PieceTypes DEF ProjectSegment
<1>3. BranchSegment(snapshot) \in Seq(Pieces)
  <2> DEFINE label == IF snapshot.branch = Unset THEN DetachedLabel ELSE snapshot.branch
             first == <<Tag, Glyph, Blank, Value(label)>>
             parts == <<first, Marks(snapshot.flags), <<Tag>> >>
  <2>1. label \in Seq(Char)
    BY <1>1
  <2>2. BranchSegment(snapshot) = Joined(parts)
    BY DEF BranchSegment
  <2> HIDE DEF label
  <2>3. first \in Seq(Pieces) /\ <<Tag>> \in Seq(Pieces)
    BY <2>1, PieceTypes
  <2>4. Marks(snapshot.flags) \in Seq(Pieces)
    BY MarksType
  <2> HIDE DEF first
  <2>5. parts \in Seq(Seq(Pieces))
    BY <2>3, <2>4
  <2> HIDE DEF parts
  <2>6. QED
    BY <2>2, <2>5, JoinedPieces
<1>4. WorktreeSegment \in Seq(Pieces)
  BY PieceTypes DEF WorktreeSegment
<1>5. PrSegment(number) \in Seq(Pieces)
  <2>1. Value(<<"#">>) \in Pieces /\ Value(number) \in Pieces
    BY <1>1, PieceTypes
  <2>2. QED
    BY <2>1, PieceTypes DEF PrSegment
<1> DEFINE parts == <<ProjectSegment(name)>>
                    \o If(snapshot.available, BranchSegment(snapshot))
                    \o If(snapshot.available /\ "worktree" \in snapshot.flags, WorktreeSegment)
                    \o If(number # Unset, PrSegment(number))
<1>6. <<ProjectSegment(name)>> \in Seq(Seq(Pieces))
  BY <1>2
<1>7. parts \in Seq(Seq(Pieces))
  BY <1>3, <1>4, <1>5, <1>6, IfType, ConcatProperties
<1>8. LeftPart(name, snapshot, number) = Joined(parts)
  BY DEF LeftPart
<1> HIDE DEF parts
<1>9. QED
  BY <1>7, <1>8, JoinedPieces

LEMMA TmuxSegmentType ==
    ASSUME NEW shown, \A f \in Fields : shown[f] \in Seq(Char), DOMAIN shown = Fields
    PROVE  TmuxSegment(shown) \in Seq(Pieces)
<1>1. /\ shown.session \in Seq(Char) /\ shown.window \in Seq(Char)
      /\ shown.pane \in Seq(Char) /\ shown.socket \in Seq(Char)
  BY DEF Fields
<1>2. /\ <<":">> \in Seq(Char) /\ <<".">> \in Seq(Char) /\ <<"@">> \in Seq(Char)
      /\ <<"-">> \in Seq(Char)
  <2>1. ":" \in Char /\ "." \in Char /\ "@" \in Char /\ "-" \in Char
    BY DEF Char
  <2>2. QED
    BY <2>1
<1>3. OrDash(shown.window) \in Seq(Char) /\ OrDash(shown.pane) \in Seq(Char)
  BY <1>1, <1>2 DEF OrDash
<1> DEFINE location == shown.session \o <<":">> \o OrDash(shown.window) \o <<".">>
                           \o OrDash(shown.pane)
           server == IF shown.socket \in {Unset, DefaultSocket} THEN <<>>
                                                               ELSE <<"@">> \o shown.socket
<1>4. location \in Seq(Char)
  BY <1>1, <1>2, <1>3, ConcatProperties
<1>5. server \in Seq(Char)
  <2>1. <<"@">> \o shown.socket \in Seq(Char)
    BY <1>1, <1>2, ConcatProperties
  <2>2. QED
    BY <2>1
<1>6. TmuxSegment(shown) = <<Tag, Glyph, Blank, Value(location \o server), Tag>>
  BY DEF TmuxSegment
<1> HIDE DEF location, server
<1>7. Value(location \o server) \in Pieces
  BY <1>4, <1>5, ConcatProperties, PieceTypes
<1>8. QED
  BY <1>6, <1>7, PieceTypes

\* The right part is empty or has something that shows.
LEMMA RightPartType ==
    ASSUME NEW shown, \A f \in Fields : shown[f] \in Seq(Char), DOMAIN shown = Fields,
           NEW label \in Seq(Char)
    PROVE  /\ RightPart(shown, label) \in Seq(Pieces)
           /\ Plain(RightPart(shown, label)) = <<>> => RightPart(shown, label) = <<>>
<1> DEFINE right == RightPart(shown, label)
           a == TmuxSegment(shown)
           b == ClockSegment(label)
           Opens(pp) == pp \in Seq(Pieces) /\ Len(pp) >= 2 /\ pp[2] = Glyph
<1>1. Opens(a)
  <2>1. Len(a) = 5 /\ a[2] = Glyph
    BY DEF TmuxSegment
  <2>2. QED
    BY <2>1, TmuxSegmentType
<1>2. Opens(b)
  <2>1. Value(label) \in Pieces
    BY PieceTypes
  <2>2. QED
    BY <2>1, PieceTypes DEF ClockSegment
<1> HIDE DEF a, b
<1>3. \/ right = Joined(<<>>)
      \/ right = Joined(<<a>>)
      \/ right = Joined(<<b>>)
      \/ right = Joined(<<a, b>>)
  <2>1. right = Joined(If(shown.session # Unset, a) \o If(label # Unset, b))
    BY DEF RightPart, a, b
  <2>2. /\ <<>> \o <<>> = <<>> /\ <<a>> \o <<>> = <<a>> /\ <<>> \o <<b>> = <<b>>
        /\ <<a>> \o <<b>> = <<a, b>>
    <3>1. <<a>> \in Seq({a, b}) /\ <<b>> \in Seq({a, b}) /\ <<>> \in Seq({a, b})
      OBVIOUS
    <3>2. <<a>> \o <<b>> = <<a, b>>
      <4> DEFINE s == <<a>>
                 u == <<b>>
                 su == <<a, b>>
      <4>1. /\ s \in Seq({a, b}) /\ u \in Seq({a, b}) /\ su \in Seq({a, b})
            /\ Len(s) = 1 /\ Len(u) = 1 /\ Len(su) = 2
            /\ s[1] = a /\ u[1] = b /\ su[1] = a /\ su[2] = b
        OBVIOUS
      <4> HIDE DEF s, u, su
      <4>2. /\ s \o u \in Seq({a, b}) /\ Len(s \o u) = 2
            /\ (s \o u)[1] = a /\ (s \o u)[2] = b
        <5>1. /\ s \o u \in Seq({a, b}) /\ Len(s \o u) = Len(s) + Len(u)
              /\ \A i \in 1..Len(s) + Len(u) :
                     (s \o u)[i] = IF i <= Len(s) THEN s[i] ELSE u[i - Len(s)]
          BY <4>1, ConcatProperties
        <5>2. Len(s) + Len(u) = 2 /\ 1 \in 1..2 /\ 2 \in 1..2 /\ 2 - 1 = 1
          BY <4>1
        <5>3. QED
          BY <4>1, <5>1, <5>2
      <4>3. s \o u = su
        BY <4>1, <4>2, SeqEqual
      <4>4. QED
        BY <4>3 DEF s, u, su
    <3>3. QED
      BY <3>1, <3>2, ConcatEmptySeq
  <2> HIDE DEF right
  <2>3. QED
    BY <2>1, <2>2 DEF If
<1> HIDE DEF right
<1>4. Joined(<<a>>) = a /\ Joined(<<b>>) = b
  <2> SUFFICES ASSUME NEW s \in Seq(Pieces) PROVE Joined(<<s>>) = s
    BY <1>1, <1>2
  <2>1. Joined(<<s>>) = FlattenSeq(<<s>>)
    <3>1. [i \in DOMAIN <<s>> |-> IF i = 1 THEN (<<s>>)[1] ELSE <<Blank>> \o (<<s>>)[i]] = <<s>>
      OBVIOUS
    <3>2. QED
      BY <3>1 DEF Joined
  <2>2. QED
    BY <2>1, FlatOfFew
<1>5. Joined(<<a, b>>) = a \o (<<Blank>> \o b)
  <2> DEFINE c == <<Blank>> \o b
             parts == <<a, b>>
             list == [i \in DOMAIN parts |-> IF i = 1 THEN parts[1] ELSE <<Blank>> \o parts[i]]
  <2>1. c \in Seq(Pieces)
    <3>1. <<Blank>> \in Seq(Pieces)
      BY PieceTypes
    <3>2. QED
      BY <1>2, <3>1, ConcatProperties
  <2>2. DOMAIN list = 1..2 /\ list[1] = a /\ list[2] = c
    OBVIOUS
  <2>3. Joined(parts) = FlattenSeq(list)
    BY DEF Joined
  <2> HIDE DEF c
  <2>4. list = <<a, c>>
    <3>1. list = [i \in 1..2 |-> list[i]]
      BY <2>2
    <3> HIDE DEF list
    <3>2. QED
      BY <2>2, <3>1
  <2>5. FlattenSeq(<<a, c>>) = a \o c
    BY <1>1, <2>1, FlatOfFew
  <2>6. QED
    BY <2>3, <2>4, <2>5 DEF c
<1>6. Opens(a \o (<<Blank>> \o b))
  <2>1. <<Blank>> \in Seq(Pieces)
    BY PieceTypes
  <2>2. <<Blank>> \o b \in Seq(Pieces)
    BY <1>2, <2>1, ConcatProperties
  <2> DEFINE c == <<Blank>> \o b
  <2> HIDE DEF c
  <2>3. /\ a \o c \in Seq(Pieces) /\ Len(a \o c) = Len(a) + Len(c)
        /\ Len(a) \in Nat /\ Len(c) \in Nat /\ Len(a) >= 2
        /\ \A i \in 1..Len(a) + Len(c) : (a \o c)[i] = IF i <= Len(a) THEN a[i] ELSE c[i - Len(a)]
    BY <1>1, <2>2, ConcatProperties, LenProperties DEF c
  <2>4. (a \o c)[2] = a[2] /\ Len(a \o c) >= 2
    BY <2>3
  <2>5. QED
    BY <1>1, <2>3, <2>4 DEF c
<1>7. right = <<>> \/ Opens(right)
  <2> HIDE DEF Opens
  <2>1. QED
    BY <1>1, <1>2, <1>3, <1>4, <1>5, <1>6, EmptyParts
<1>8. right \in Seq(Pieces)
  <2>1. <<>> \in Seq(Pieces)
    OBVIOUS
  <2>2. QED
    BY <1>7, <2>1
<1>9. ASSUME Opens(right), Plain(right) = <<>> PROVE FALSE
  <2>1. 2 \in 1..Len(right) /\ right[2] = Glyph /\ right \in Seq(Pieces)
    BY <1>9
  <2>2. Glyph.text = <<>>
    BY <1>9, <2>1, PlainOfNothing
  <2>3. Glyph.text = <<"g">>
    BY DEF Glyph, Own
  <2>4. QED
    BY <2>2, <2>3
<1>10. QED
  BY <1>7, <1>8, <1>9 DEF right

(***************************************************************************)
(* The line.                                                               *)
(***************************************************************************)

LEMMA DrawnText ==
    ASSUME NEW t, NEW p, DrawnAs(t, p)
    PROVE  /\ t \in Seq(Char) /\ p \in Seq(Char)
           /\ Drawn(t) = p /\ VisibleWidth(t) = Columns(p) /\ Columns(p) \in Nat
<1>1. t \in Seq(Char) /\ p \in Seq(Char) /\ <<>> \in Seq(Char) /\ 0 \in Nat
  BY DEF DrawnAs
<1>2. <<>> \o p = p
  BY <1>1, ConcatEmptySeq
<1>3. Columns(p) \in Nat
  BY <1>1, ColumnsAddUp
<1>4. DrawnOf(t) = Shown(p)
  <2>1. DrawnFrom(Shown(<<>>), t) = Shown(<<>> \o p)
    BY <1>1 DEF DrawnAs
  <2>2. QED
    BY <1>1, <1>2, <2>1, DrawnIsEnd
<1>5. Scanned(t) = Taken(Columns(p))
  <2>1. ScannedFrom(Taken(0), t) = Taken(0 + Columns(p))
    BY <1>1 DEF DrawnAs
  <2>2. 0 + Columns(p) = Columns(p)
    BY <1>3
  <2>3. QED
    BY <1>1, <2>1, <2>2, ScannedIsEnd
<1>6. Drawn(t) = p
  <2>1. DrawnOf(t).mode = "text" /\ DrawnOf(t).drawn = p
    BY <1>4 DEF Shown
  <2>2. Drawn(t) = p \o <<>>
    BY <2>1 DEF Drawn
  <2>3. QED
    BY <1>1, <2>2, ConcatEmptySeq
<1>7. VisibleWidth(t) = Columns(p)
  <2>1. Scanned(t).mode = "text" /\ Scanned(t).width = Columns(p)
    BY <1>5 DEF Taken
  <2>2. VisibleWidth(t) = Columns(p) + 0
    BY <2>1 DEF VisibleWidth
  <2>3. QED
    BY <1>3, <2>2
<1>8. QED
  BY <1>1, <1>3, <1>6, <1>7

LEMMA BlanksAreDrawn ==
    ASSUME NEW n \in Nat
    PROVE  DrawnAs(Blanks(n), Blanks(n))
<1>1. " " \in Char
  BY DEF Char
<1>2. Blanks(n) \in Seq(Char) /\ Len(Blanks(n)) = n /\ \A i \in 1..n : Blanks(n)[i] = " "
  <2>1. \A c \in Char : LET t == [i \in 1..n |-> c]
                        IN  t \in Seq(Char) /\ Len(t) = n /\ \A i \in 1..n : t[i] = c
    OBVIOUS
  <2>2. QED
    BY <1>1, <2>1, Zenon DEF Blanks
<1>3. " " # "#"
  OBVIOUS
<1>4. QED
  BY <1>2, <1>3, PlainIsDrawn

LEMMA LayoutIsDrawn ==
    ASSUME NEW left \in Seq(Pieces), NEW right \in Seq(Pieces), NEW width \in Nat,
           Plain(right) = <<>> => right = <<>>
    PROVE  LET taken == Columns(Plain(left)) + Columns(Plain(right))
               gap   == IF width > taken THEN width - taken ELSE 1
           IN  Drawn(Layout(Emitted(left), Emitted(right), width))
                   = IF Plain(right) = <<>> THEN Plain(left)
                     ELSE Plain(left) \o Blanks(gap) \o Plain(right)
<1> DEFINE l == Emitted(left)
           r == Emitted(right)
           givenL == Plain(left)
           givenR == Plain(right)
           taken == Columns(givenL) + Columns(givenR)
           gap == IF width > taken THEN width - taken ELSE 1
<1>1. DrawnAs(l, givenL) /\ DrawnAs(r, givenR)
  BY PiecesAreDrawn
<1>2. /\ Drawn(l) = givenL /\ VisibleWidth(l) = Columns(givenL) /\ Columns(givenL) \in Nat
      /\ Drawn(r) = givenR /\ VisibleWidth(r) = Columns(givenR) /\ Columns(givenR) \in Nat
  BY <1>1, DrawnText
<1>3. r = <<>> <=> givenR = <<>>
  <2>1. givenR = <<>> => r = <<>>
    BY EmptyParts
  <2>2. r = <<>> => givenR = <<>>
    BY <1>2, NothingDrawsNothing, DrawnText
  <2>3. QED
    BY <2>1, <2>2
<1> HIDE DEF l, r, givenL, givenR
<1>4. CASE givenR = <<>>
  <2>1. r = <<>>
    BY <1>3, <1>4
  <2>2. Layout(l, r, width) = l
    BY <2>1, Zenon DEF Layout
  <2>3. QED
    BY <1>2, <1>4, <2>2 DEF l, r, givenL, givenR
<1>5. CASE givenR # <<>>
  <2>1. gap \in Nat
    BY <1>2
  <2>2. Layout(l, r, width) = l \o Blanks(gap) \o r
    <3>1. Blanks(1) = <<" ">>
      <4>1. \A c : [i \in 1..1 |-> c] = <<c>>
        OBVIOUS
      <4>2. QED
        BY <4>1, Zenon DEF Blanks
    <3>2. CASE width <= taken + 1
      <4>1. gap = 1
        BY <1>2, <3>2
      <4>2. Layout(l, r, width) = l \o <<" ">> \o r
        BY <1>2, <1>3, <1>5, <3>2 DEF Layout
      <4>3. QED
        BY <3>1, <4>1, <4>2
    <3>3. CASE ~(width <= taken + 1)
      <4>1. gap = width - taken
        BY <1>2, <3>3
      <4>2. Layout(l, r, width) = l \o Blanks(width - taken) \o r
        BY <1>2, <1>3, <1>5, <3>3 DEF Layout
      <4>3. QED
        BY <4>1, <4>2
    <3>4. QED
      BY <3>2, <3>3
  <2> HIDE DEF gap
  <2>3. DrawnAs(l \o Blanks(gap) \o r, givenL \o Blanks(gap) \o givenR)
    <3>1. DrawnAs(Blanks(gap), Blanks(gap))
      BY <2>1, BlanksAreDrawn
    <3>2. DrawnAs(l \o Blanks(gap), givenL \o Blanks(gap))
      BY <1>1, <3>1, OneAfterTheOther
    <3>3. QED
      BY <1>1, <3>2, OneAfterTheOther
  <2>4. Drawn(Layout(l, r, width)) = givenL \o Blanks(gap) \o givenR
    BY <2>2, <2>3, DrawnText
  <2>5. QED
    BY <1>5, <2>4 DEF gap, l, r, givenL, givenR
<1>6. QED
  BY <1>4, <1>5 DEF l, r, givenL, givenR

-----------------------------------------------------------------------------
(* The line of a run, until it is done.                                    *)

LEMMA TextsAreTexts ==
    /\ Texts \subseteq Seq(Char)
    /\ \A c \in Supplied \cup {NoClient} : DOMAIN c = Fields /\ \A f \in Fields : c[f] \in Seq(Char)
    /\ Unset \in Seq(Char) /\ <<"c">> \in Seq(Char)
<1>1. Unset \in Seq(Char) /\ <<"c">> \in Seq(Char)
  <2>1. "unset" \in Char /\ "c" \in Char
    BY DEF Char
  <2>2. QED
    BY <2>1 DEF Unset
<1>2. Seq(STRING) \subseteq Seq(Char)
  <2>1. STRING \subseteq Char
    BY DEF Char
  <2>2. QED
    BY <2>1, SeqMonotonic
<1>3. /\ Projects \cup Branches \cup Numbers \subseteq Seq(STRING)
      /\ \A v \in Views \cup Supplied : \A f \in Fields : v[f] \in Seq(STRING)
      /\ \A v \in Views \cup Supplied : DOMAIN v = Fields
  BY StatusReportAssumption
<1>4. Texts \subseteq Seq(Char)
  <2>1. /\ Projects \subseteq Seq(Char) /\ Branches \subseteq Seq(Char) /\ Numbers \subseteq Seq(Char)
    BY <1>2, <1>3
  <2>2. \A v \in Views \cup Supplied : \A f \in Fields : v[f] \in Seq(Char)
    BY <1>2, <1>3
  <2>3. ASSUME NEW t \in Texts PROVE t \in Seq(Char)
    <3>1. \/ t \in Projects \/ t \in Branches \/ t \in Numbers \/ t = Unset
          \/ \E v \in Views \cup Supplied : \E f \in Fields : t = v[f]
      BY DEF Texts
    <3>2. QED
      BY <1>1, <2>1, <2>2, <3>1
  <2>4. QED
    BY <2>3
<1>5. DOMAIN NoClient = Fields /\ \A f \in Fields : NoClient[f] \in Seq(Char)
  BY <1>1 DEF NoClient
<1>6. \A c \in Supplied : DOMAIN c = Fields /\ \A f \in Fields : c[f] \in Seq(Char)
  BY <1>2, <1>3
<1>7. QED
  BY <1>1, <1>4, <1>5, <1>6

Written ==
    pc = "mirror" /\ command = "status" =>
        /\ stdout.line = Line(stdout.clock, stdout.width)
        /\ stdout.width \in Widths /\ stdout.clock \in {Unset, <<"c">>}

LEMMA WrittenIsKept == Written /\ [Next]_vars => Written'
<1> SUFFICES ASSUME Written, [Next]_vars, pc' = "mirror", command' = "status"
             PROVE  /\ stdout'.line = Line(stdout.clock, stdout.width)'
                    /\ stdout'.width \in Widths /\ stdout'.clock \in {Unset, <<"c">>}
  BY DEF Written
<1>1. CASE WriteLine
  <2>1. UNCHANGED <<project, git, pr, context>>
    BY <1>1 DEF WriteLine, gitVars, prVars, tmuxVars
  <2>2. PICK clock \in Clocks, width \in Widths :
            IF clock = "unrenderable"
            THEN Exit("error") /\ UNCHANGED stdout
            ELSE /\ stdout' = [line |-> Line(ClockLabel(clock), width), width |-> width,
                               clock |-> ClockLabel(clock)]
                 /\ Goto("mirror") /\ UNCHANGED exit
    BY <1>1 DEF WriteLine
  <2>3. clock # "unrenderable"
    BY <2>2 DEF Exit, Goto
  <2>4. /\ stdout'.line = Line(ClockLabel(clock), width) /\ stdout'.width = width
        /\ stdout'.clock = ClockLabel(clock)
    BY <2>2, <2>3
  <2>5. ClockLabel(clock) \in {Unset, <<"c">>}
    BY DEF ClockLabel
  <2>6. Line(stdout.clock, stdout.width)' = Line(ClockLabel(clock), width)
    BY <2>1, <2>4 DEF Line
  <2>7. QED
    BY <2>4, <2>5, <2>6
<1>2. CASE UNCHANGED vars
  <2>1. UNCHANGED <<project, git, pr, context, stdout, pc, command>>
    BY <1>2 DEF vars, outside, gitVars, prVars, tmuxVars, outVars
  <2>2. QED
    BY <2>1 DEF Written, Line
<1>3. CASE Outside
  <2>1. pc \in {"pr", "tmux"} /\ pc' = pc
    BY <1>3 DEF Outside, Checkout, ClientMoves
  <2>2. QED
    BY <2>1
<1>4. ASSUME \/ FindDirectory \/ NoDirectory \/ ProbeGit \/ ReadPr \/ SkipPr \/ RefreshPr
             \/ PreResolved \/ QueryField \/ QueryFails \/ MergeFields
             \/ WriteFails \/ Mirror \/ MirrorFails \/ StaysQuiet
      PROVE  FALSE
  <2>1. UNCHANGED outside
    BY <1>4 DEF FindDirectory, NoDirectory, ProbeGit, ReadPr, SkipPr, RefreshPr, PreResolved,
                QueryField, QueryFails, MergeFields, WriteFails, Mirror, MirrorFails, StaysQuiet
  <2>2. command = "status"
    BY <2>1 DEF outside
  <2>3. QED
    BY <1>4, <2>2 DEF FindDirectory, NoDirectory, ProbeGit, ReadPr, SkipPr, RefreshPr, PreResolved,
                QueryField, QueryFails, MergeFields, WriteFails, Mirror, MirrorFails, StaysQuiet,
                Goto, Exit
<1>5. QED
  BY <1>1, <1>2, <1>3, <1>4 DEF Next, Finished

LEMMA WrittenIsDrawn == TypeOK /\ Written => DrawnAsGiven
<1> SUFFICES ASSUME TypeOK, Written, pc = "mirror", command = "status"
             PROVE  LET left  == Plain(LeftPart(project, git, pr))
                        right == Plain(RightPart(context, stdout.clock))
                        taken == Columns(left) + Columns(right)
                        gap   == IF stdout.width > taken THEN stdout.width - taken ELSE 1
                    IN  Drawn(stdout.line)
                            = IF right = <<>> THEN left ELSE left \o Blanks(gap) \o right
  BY DEF DrawnAsGiven
<1>1. /\ stdout.line = Line(stdout.clock, stdout.width)
      /\ stdout.width \in Nat /\ stdout.clock \in Seq(Char)
  BY TextsAreTexts, StatusReportAssumption DEF Written
<1>2. project \in Seq(Char) /\ git.branch \in Seq(Char) /\ pr \in Seq(Char)
  <2>1. project \in Texts /\ git.branch \in Texts /\ pr \in Texts
    BY DEF TypeOK, Snapshots, Texts
  <2>2. QED
    BY <2>1, TextsAreTexts
<1>3. DOMAIN context = Fields /\ \A f \in Fields : context[f] \in Seq(Char)
  BY TextsAreTexts DEF TypeOK
<1> DEFINE left == LeftPart(project, git, pr)
           right == RightPart(context, stdout.clock)
           width == stdout.width
           line == stdout.line
<1>4. left \in Seq(Pieces)
  BY <1>2, LeftPartType
<1>5. right \in Seq(Pieces) /\ (Plain(right) = <<>> => right = <<>>)
  BY <1>1, <1>3, RightPartType
<1>6. line = Layout(Emitted(left), Emitted(right), width) /\ width \in Nat
  BY <1>1 DEF Line
<1> HIDE DEF left, right, width, line
<1>7. LET taken == Columns(Plain(left)) + Columns(Plain(right))
          gap   == IF width > taken THEN width - taken ELSE 1
      IN  Drawn(line) = IF Plain(right) = <<>> THEN Plain(left)
                        ELSE Plain(left) \o Blanks(gap) \o Plain(right)
  BY <1>4, <1>5, <1>6, LayoutIsDrawn, Zenon
<1>8. QED
  BY <1>7, Zenon DEF left, right, width, line

\* tmux draws a line as the values it was given, character by character, with the right
\* part at the client's edge wherever there is room for a blank between the two: for any
\* names, branches, numbers, tmux contexts and widths (escape_tmux, visible_width and
\* layout_with_width in src/render/mod.rs).
THEOREM LinesAreDrawnAsGiven == Spec => []DrawnAsGiven
<1>1. Init => Written
  BY DEF Init, Written
<1>2. IInv => TypeOK
  BY DEF IInv
<1>3. QED
  BY ReportInvariant, <1>1, <1>2, WrittenIsKept, WrittenIsDrawn, PTL DEF Spec
=============================================================================

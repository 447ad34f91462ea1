---------------------------- MODULE StatusReport ----------------------------
(***************************************************************************)
(* One `dbar status`: build_status_report (src/status/mod.rs) asks git,    *)
(* the PR cache and tmux (src/tmux/mod.rs) one after the other, renders    *)
(* what it got and absorbs what failed; run_status (src/lib.rs) prints the *)
(* line and mirrors the failures.  Or one `dbar refresh`: run_refresh asks *)
(* git, refreshes the cache and mirrors the failures.                      *)
(*                                                                         *)
(* Meanwhile another branch may be checked out and the tmux client may     *)
(* move or go away.  The git commands are one step here (GitStatus has     *)
(* them one by one), a tmux query is a step each.                          *)
(*                                                                         *)
(* An argument is chosen where the code first looks at it.                 *)
(***************************************************************************)
EXTENDS StatusLine, FiniteSets

CONSTANTS
    Projects,    \* texts: project names
    Branches,    \* texts: the branches that may be checked out
    Numbers,     \* texts: PR numbers
    Caches,      \* the fresh entry of each branch: a number, <<>> for no PR, or Unset
    Views,       \* what tmux answers of a client: a text for each of Fields
    Supplied,    \* the contexts a caller may supply: a text or Unset for each
    Flags,       \* the sets of flags a git snapshot may have
    Widths,      \* client widths
    MaxMoves     \* bound: changes from outside while the line is put together

Fields   == {"session", "window", "pane", "socket"}
NoClient == [f \in Fields |-> Unset]

ASSUME StatusReportAssumption ==
    /\ Caches \subseteq [Branches -> Numbers \cup {<<>>, Unset}]
    /\ \A v \in Views \cup Supplied : DOMAIN v = Fields
    /\ \A v \in Views : \A f \in Fields : v[f] # Unset
    /\ Projects \cup Branches \cup Numbers \subseteq Seq(STRING)
    /\ \A v \in Views \cup Supplied : \A f \in Fields : v[f] \in Seq(STRING)
    /\ Widths \subseteq Nat /\ MaxMoves \in Nat

Nothing   == [line |-> <<>>, width |-> NoWidth, clock |-> Unset]
Snapshots == [available : BOOLEAN, branch : Branches \cup {Unset}, flags : Flags \cup {{}}]
Clocks    == {"off", "shown", "unrenderable"}

\* What a probe can record: one for the project name, two for the snapshot, five
\* for the PR lookup, one for a lost client and one for each empty answer.
PrFaults  == {"dir", "sweep", "read", "lookup", "store"}
Faults    == {"origin", "repository", "field", "tmux"} \cup PrFaults \cup Fields
Positions == {"directory", "git", "pr", "tmux", "merge", "print", "mirror", "done"}

VARIABLES
    command,               \* what dbar was asked to do
    head, cached, view,    \* outside: the checkout, the fresh entries, the tmux client
    views, moves,          \* history: the clients tmux has answered for
    pc, project, git, pr, prFaults, gitFaults,
    supplied, answers, context, tmuxFaults,
    stdout, stderr, exit,
    faults                 \* history: what failed, came back empty or had no answer

outside == <<command, head, cached, view, views, moves>>
gitVars == <<project, git, gitFaults>>
prVars  == <<pr, prFaults>>
tmuxVars == <<supplied, answers, context, tmuxFaults>>
outVars == <<stdout, stderr, exit>>
vars == <<outside, pc, gitVars, prVars, tmuxVars, outVars, faults>>

Init ==
    /\ command \in {"status", "refresh"}
    /\ head \in Branches \cup {Unset}
    /\ cached \in Caches
    /\ view \in Views \cup {NoClient}
    /\ views = {view} /\ moves = 0
    /\ pc = "directory"
    /\ project = Unset /\ gitFaults = {}
    /\ git = [available |-> FALSE, branch |-> Unset, flags |-> {}]
    /\ pr = Unset /\ prFaults = {}
    /\ supplied \in (IF command = "status" THEN Supplied ELSE {NoClient})
    /\ context = supplied
    /\ answers = [f \in {} |-> Unset] /\ tmuxFaults = {}
    /\ stdout = Nothing /\ stderr = {} /\ exit = "none" /\ faults = {}

Goto(to) == pc' = to
Note(found) == faults' = faults \cup found
Exit(how) == exit' = how /\ Goto("done")

-----------------------------------------------------------------------------

\* resolve_project_dir, the only failure before anything is probed.
FindDirectory ==
    /\ pc = "directory"
    /\ Goto("git")
    /\ UNCHANGED <<outside, gitVars, prVars, tmuxVars, outVars, faults>>

NoDirectory ==
    /\ pc = "directory"
    /\ Exit("error")
    /\ UNCHANGED <<outside, gitVars, prVars, tmuxVars, stdout, stderr, faults>>

\* git::project_name, for a line only, and git::git_status, with the failures each
\* absorbs.
ProbeGit ==
    /\ pc = "git"
    /\ \E name \in Projects, origin \in SUBSET {"origin"}, inside \in BOOLEAN,
          lost \in SUBSET {"repository"}, flags \in Flags, field \in SUBSET {"field"},
          branch \in {head, Unset} :
          /\ command = "refresh" => origin = {}
          /\ ~inside => flags = {} /\ field = {} /\ branch = Unset
          /\ inside => lost = {} /\ (branch # head => field # {})
          /\ project' = IF command = "status" THEN name ELSE Unset
          /\ git' = [available |-> inside, branch |-> branch, flags |-> flags]
          /\ gitFaults' = origin \cup lost \cup field
          /\ Note(gitFaults')
    /\ Goto("pr")
    /\ UNCHANGED <<outside, prVars, tmuxVars, outVars>>

\* Faulty variant: the cache is asked for what is checked out by now.
CacheKeyOfHead == IF head = Unset THEN git.branch ELSE head

\* The key is the branch of the snapshot, not what is checked out by now.
CacheKey == git.branch

\* load_cached_pr, where there is a branch and PRs are shown; an entry without a
\* number says that the branch has none.
ReadPr ==
    /\ pc = "pr" /\ command = "status" /\ git.branch # Unset
    /\ \/ /\ pr' = IF cached[CacheKey] = <<>> THEN Unset ELSE cached[CacheKey]
          /\ UNCHANGED <<prFaults, faults>>
       \/ /\ prFaults' \in {{"dir"}, {"read"}} /\ Note(prFaults')
          /\ UNCHANGED pr
    /\ Goto("tmux")
    /\ UNCHANGED <<outside, gitVars, tmuxVars, outVars>>

\* No branch, or PRs are not shown: a refresh has nothing to do.
SkipPr ==
    /\ pc = "pr" /\ (command = "refresh" => git.branch = Unset)
    /\ Goto(IF command = "status" THEN "tmux" ELSE "mirror")
    /\ UNCHANGED <<outside, gitVars, prVars, tmuxVars, outVars, faults>>

\* What refresh_pr_cache may meet: without a directory there is nothing to sweep,
\* read or store, a hit asks for no more, and a failed lookup stores nothing.
Mishaps == {m \in [lost : SUBSET PrFaults, hit : BOOLEAN] :
               /\ "dir" \in m.lost => m.lost \subseteq {"dir", "lookup"}
               /\ m.hit => m.lost \subseteq {"sweep"}
               /\ "lookup" \in m.lost => "store" \notin m.lost}

\* The report; the outcome of the current key is wrapped by that of a failed sweep.
Report(m) ==
    [sweepFailed |-> "sweep" \in m.lost,
     current     |-> CASE "dir" \in m.lost  -> "dirUnavailable"
                       [] "read" \in m.lost -> "readFailed"
                       [] OTHER             -> IF m.hit THEN "hit" ELSE "miss",
     resolution  |-> IF "lookup" \in m.lost THEN "lookupFailed" ELSE "resolved",
     write       |-> CASE "store" \in m.lost -> "failed"
                       [] m.hit \/ m.lost \cap {"dir", "lookup"} # {} -> "skipped"
                       [] OTHER -> "stored"]

When(condition, fault) == IF condition THEN {fault} ELSE {}

\* Faulty variant: what a failed sweep wraps is not described.
DescribeOutermost(report) ==
    When(report.sweepFailed, "sweep")
    \cup When(report.current = "dirUnavailable" /\ ~report.sweepFailed, "dir")
    \cup When(report.current = "readFailed" /\ ~report.sweepFailed, "read")
    \cup When(report.resolution = "lookupFailed", "lookup")
    \cup When(report.write = "failed", "store")

\* describe_failures.
Describe(report) ==
    When(report.sweepFailed, "sweep")
    \cup When(report.current = "dirUnavailable", "dir")
    \cup When(report.current = "readFailed", "read")
    \cup When(report.resolution = "lookupFailed", "lookup")
    \cup When(report.write = "failed", "store")

\* refresh_pr_cache, for the branch of the snapshot (PrCache has it call by call).
RefreshPr ==
    /\ pc = "pr" /\ command = "refresh" /\ git.branch # Unset
    /\ \E m \in Mishaps : prFaults' = Describe(Report(m)) /\ Note(m.lost)
    /\ Goto("mirror")
    /\ UNCHANGED <<outside, gitVars, pr, tmuxVars, outVars>>

-----------------------------------------------------------------------------
(* tmux::resolve_context.                                                  *)

FieldOrder == <<"session", "window", "pane", "socket">>
Missing    == {f \in Fields : supplied[f] = Unset}
Unasked    == {i \in 1..4 : FieldOrder[i] \in Missing \ DOMAIN answers}

\* Every field was supplied: tmux is not asked.
PreResolved ==
    /\ pc = "tmux" /\ Missing = {}
    /\ Goto("print")
    /\ UNCHANGED <<outside, gitVars, prVars, tmuxVars, outVars, faults>>

QueryField ==
    /\ pc = "tmux" /\ view # NoClient
    /\ \E i \in Unasked :
          /\ \A j \in Unasked : i <= j
          /\ answers' = [f \in DOMAIN answers \cup {FieldOrder[i]} |->
                            IF f \in DOMAIN answers THEN answers[f] ELSE view[f]]
          /\ Goto(IF Unasked = {i} THEN "merge" ELSE "tmux")
    /\ UNCHANGED <<outside, gitVars, prVars, supplied, context, tmuxFaults, outVars, faults>>

\* Faulty variant: the answers there are so far are used.
QueryFailsHalfWay ==
    /\ pc = "tmux" /\ Unasked # {}
    /\ tmuxFaults' = {"tmux"} /\ Note({"tmux"})
    /\ context' = [f \in Fields |-> IF f \in DOMAIN answers THEN answers[f] ELSE supplied[f]]
    /\ Goto("print")
    /\ UNCHANGED <<outside, gitVars, prVars, supplied, answers, outVars>>

\* A query may fail whatever it asks, and must where there is no client.  The
\* first failure ends the probe and what has been answered is dropped.
QueryFails ==
    /\ pc = "tmux" /\ Unasked # {}
    /\ tmuxFaults' = {"tmux"} /\ Note({"tmux"})
    /\ Goto("print")
    /\ UNCHANGED <<outside, gitVars, prVars, supplied, answers, context, outVars>>

\* Faulty variant: an empty answer is an answer.
MergeEveryField ==
    /\ pc = "merge"
    /\ context' = [f \in Fields |-> IF f \in DOMAIN answers THEN answers[f] ELSE supplied[f]]
    /\ Goto("print")
    /\ UNCHANGED <<outside, gitVars, prVars, supplied, answers, tmuxFaults, outVars, faults>>

\* merge_fields: an empty answer leaves its field unset.
MergeFields ==
    LET empty == {f \in DOMAIN answers : answers[f] = <<>>} IN
    /\ pc = "merge"
    /\ context' = [f \in Fields |->
                      IF f \in DOMAIN answers \ empty THEN answers[f] ELSE supplied[f]]
    /\ tmuxFaults' = empty /\ Note(empty)
    /\ Goto("print")
    /\ UNCHANGED <<outside, gitVars, prVars, supplied, answers, outVars>>

-----------------------------------------------------------------------------

Line(label, width) ==
    Layout(Emitted(LeftPart(project, git, pr)), Emitted(RightPart(context, label)), width)

ClockLabel(clock) == IF clock = "shown" THEN <<"c">> ELSE Unset

\* The line is written and flushed; a reader that has closed the pipe is no
\* failure, and an unrenderable clock is one that no fallback covers.
WriteLine ==
    /\ pc = "print"
    /\ \E clock \in Clocks, width \in Widths :
          IF clock = "unrenderable"
          THEN Exit("error") /\ UNCHANGED stdout
          ELSE /\ stdout' = [line |-> Line(ClockLabel(clock), width), width |-> width,
                             clock |-> ClockLabel(clock)]
               /\ Goto("mirror") /\ UNCHANGED exit
    /\ UNCHANGED <<outside, gitVars, prVars, tmuxVars, stderr, faults>>

\* How much of the line has arrived is left open.
WriteFails ==
    /\ pc = "print"
    /\ Exit("error")
    /\ UNCHANGED <<outside, gitVars, prVars, tmuxVars, stdout, stderr, faults>>

\* Faulty variant: what project_name absorbed is left behind.
DiagnosticsOfStatus == (gitFaults \ {"origin"}) \cup tmuxFaults \cup prFaults

\* StatusDiagnostics, one line for each failure absorbed.
Diagnostics == gitFaults \cup tmuxFaults \cup prFaults

\* report_diagnostics, where it is enabled.
Mirror ==
    /\ pc = "mirror"
    /\ stderr' = Diagnostics
    /\ Exit("ok")
    /\ UNCHANGED <<outside, gitVars, prVars, tmuxVars, stdout, faults>>

MirrorFails ==
    /\ pc = "mirror"
    /\ Exit("error")
    /\ UNCHANGED <<outside, gitVars, prVars, tmuxVars, stdout, stderr, faults>>

StaysQuiet ==
    /\ pc = "mirror"
    /\ Exit("quiet")
    /\ UNCHANGED <<outside, gitVars, prVars, tmuxVars, stdout, stderr, faults>>

-----------------------------------------------------------------------------
(* What goes on outside, where it can come between two reads.              *)

Checkout ==
    /\ pc = "pr"
    /\ head' \in Branches \cup {Unset} /\ head' # head
    /\ UNCHANGED <<command, cached, view, views>>

ClientMoves ==
    /\ pc = "tmux"
    /\ view' \in Views \cup {NoClient} /\ view' # view
    /\ views' = views \cup {view'}
    /\ UNCHANGED <<command, head, cached>>

Outside ==
    /\ moves < MaxMoves /\ moves' = moves + 1
    /\ Checkout \/ ClientMoves
    /\ UNCHANGED <<pc, gitVars, prVars, tmuxVars, outVars, faults>>

Finished == pc = "done" /\ UNCHANGED vars

Next ==
    \/ FindDirectory \/ NoDirectory \/ ProbeGit \/ ReadPr \/ SkipPr \/ RefreshPr
    \/ PreResolved \/ QueryField \/ QueryFails \/ MergeFields
    \/ WriteLine \/ WriteFails \/ Mirror \/ MirrorFails \/ StaysQuiet
    \/ Outside \/ Finished

Spec == Init /\ [][Next]_vars

-----------------------------------------------------------------------------

Texts == Projects \cup Branches \cup Numbers \cup {Unset} \cup {v[f] : v \in Views, f \in Fields}
                  \cup {c[f] : c \in Supplied, f \in Fields}

\* A field is what the caller supplied or a text that is not empty.
TypeOK ==
    /\ command \in {"status", "refresh"} /\ pc \in Positions /\ exit \in {"none", "ok", "quiet", "error"}
    /\ head \in Branches \cup {Unset} /\ cached \in Caches
    /\ view \in views /\ views \subseteq Views \cup {NoClient} /\ moves \in 0..MaxMoves
    /\ project \in Projects \cup {Unset} /\ git \in Snapshots /\ pr \in Numbers \cup {Unset}
    /\ supplied \in Supplied \cup {NoClient}
    /\ \A f \in Fields : context[f] = supplied[f] \/ context[f] \in Texts \ {<<>>}
    /\ DOMAIN context = Fields /\ DOMAIN answers \subseteq Fields
    /\ stderr \cup faults \cup gitFaults \cup prFaults \cup tmuxFaults \subseteq Faults

\* The number next to a branch is that branch's, whatever is checked out between
\* the snapshot and the read of the cache (build_status_report).
PrIsOfTheBranchShown ==
    pr # Unset => git.branch # Unset /\ pr = cached[git.branch]

\* What a caller supplied is kept, what tmux answered of a client that was lost
\* half way is not used, and nothing is shown that no client had (the fallback
\* policy of src/tmux/mod.rs).
NothingOfALostClient ==
    \A f \in Fields : context[f] # supplied[f] =>
        /\ supplied[f] = Unset /\ "tmux" \notin faults
        /\ \E v \in views : context[f] = v[f]

\* A run that mirrors its diagnostics mirrors every failure it met, that of a key
\* under that of its directory's sweep too, and makes none up ("Every entry describes a failure the fallback policy absorbed. An empty set
\* of diagnostics means every probe answered cleanly", StatusDiagnostics).
EveryFaultIsMirrored == exit = "ok" => stderr = faults

\* What tmux draws of a line: a doubled "#" is one, a "#" before "[" opens a tag,
\* one before "{" a format or "(" a command, and before anything else it is drawn.  A tag ends at "]";
\* a format or a command is taken to hide all that follows.
DrawChar(scan, c) ==
    CASE scan.mode = "text" ->
             IF c = "#" THEN [scan EXCEPT !.mode = "hash"]
                        ELSE [scan EXCEPT !.drawn = Append(@, c)]
      [] scan.mode = "hash" /\ c \in {"[", "{", "("} ->
             [scan EXCEPT !.mode = IF c = "[" THEN "tag" ELSE "format"]
      [] scan.mode = "hash" /\ c \notin {"[", "{", "("} ->
             [mode  |-> "text",
              drawn |-> Append(scan.drawn, "#") \o (IF c = "#" THEN <<>> ELSE <<c>>)]
      [] scan.mode = "tag" ->
             [scan EXCEPT !.mode = IF c = "]" THEN "text" ELSE "tag"]
      [] scan.mode = "format" -> scan

DrawnOf(line) ==
    LET scan[n \in 0..Len(line)] == IF n = 0 THEN [mode |-> "text", drawn |-> <<>>]
                                             ELSE DrawChar(scan[n - 1], line[n])
    IN  scan[Len(line)]

Drawn(line) == DrawnOf(line).drawn \o (IF DrawnOf(line).mode = "hash" THEN <<"#">> ELSE <<>>)

Plain(pieces) == FlattenSeq([i \in DOMAIN pieces |-> pieces[i].text])
Columns(t)    == Len(t) + Cardinality({i \in DOMAIN t : t[i] = "w"})
                        - Cardinality({i \in DOMAIN t : t[i] = "z"})

\* tmux draws a line as the values it was given, character by character, with the
\* right part ending at the client's edge wherever there is room for a blank
\* between the two: no value opens a tag or a format, none is lost, and none
\* makes the renderer count a width that is not drawn.
DrawnAsGiven ==
    pc = "mirror" /\ command = "status" =>
        LET left  == Plain(LeftPart(project, git, pr))
            right == Plain(RightPart(context, stdout.clock))
            taken == Columns(left) + Columns(right)
            gap   == IF stdout.width > taken THEN stdout.width - taken ELSE 1
        IN  Drawn(stdout.line) = IF right = <<>> THEN left ELSE left \o Blanks(gap) \o right
=============================================================================

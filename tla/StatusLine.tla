----------------------------- MODULE StatusLine -----------------------------
(***************************************************************************)
(* The rendering of a status line (src/render/mod.rs): which segments it   *)
(* has, what escaping does to the values in them, and how the right-hand   *)
(* part is pushed to the edge of the client.                               *)
(*                                                                         *)
(* A text is a sequence of characters, and a character matters for what    *)
(* tmux makes of it and for its width: "#", "[", "]", "{" and "(" are      *)
(* themselves, "w" is two columns wide, "z" none, and all others one.      *)
(***************************************************************************)
EXTENDS Naturals, Sequences, SequencesExt

Unset == <<"unset">>        \* an Option that is None
DetachedLabel == <<"d">>    \* the label of a HEAD without a branch
DefaultSocket == <<"/">>    \* a path of the server tmux starts by default

CharWidth(c) == CASE c = "w" -> 2 [] c = "z" -> 0 [] OTHER -> 1

\* A line is put together from pieces: style tags, dynamic values, and the
\* renderer's own glyphs and blanks.
Tag      == [kind |-> "tag",   text |-> <<>>]
Value(t) == [kind |-> "value", text |-> t]
Own(t)   == [kind |-> "own",   text |-> t]
Glyph    == Own(<<"g">>)
Blank    == Own(<<" ">>)

\* Faulty variant: a value is escaped where it starts a tag and nowhere else.
EscapeTags(t) ==
    FlattenSeq([i \in DOMAIN t |->
        IF t[i] = "#" /\ i < Len(t) /\ t[i + 1] = "[" THEN <<"#", "#">> ELSE <<t[i]>>])

Escape(t) == FlattenSeq([i \in DOMAIN t |-> IF t[i] = "#" THEN <<"#", "#">> ELSE <<t[i]>>])

Emit(piece) == CASE piece.kind = "tag"   -> <<"#", "[", "]">>
                 [] piece.kind = "value" -> Escape(piece.text)
                 [] piece.kind = "own"   -> piece.text
Emitted(pieces) == FlattenSeq([i \in DOMAIN pieces |-> Emit(pieces[i])])

\* parts.join(" ")
Joined(parts) ==
    FlattenSeq([i \in DOMAIN parts |-> IF i = 1 THEN parts[1] ELSE <<Blank>> \o parts[i]])

-----------------------------------------------------------------------------
(* The segments.                                                           *)

ProjectSegment(name) == <<Tag, Blank, Value(name), Blank, Tag, Glyph, Tag, Tag>>

If(condition, segment) == IF condition THEN <<segment>> ELSE <<>>

\* The marks of a branch, in this order; the clean mark where there is no other.
Marks(flags) ==
    LET mark    == <<Tag, Glyph>>
        counted == <<Tag, Glyph, Own(<<"n">>)>>
        shown   == If("staged" \in flags, mark) \o If("dirty" \in flags, mark)
                      \o If("ahead" \in flags, counted) \o If("behind" \in flags, counted)
    IN  IF shown = <<>> THEN mark ELSE Joined(shown)

BranchSegment(git) ==
    Joined(<< <<Tag, Glyph, Blank,
                Value(IF git.branch = Unset THEN DetachedLabel ELSE git.branch)>>,
              Marks(git.flags), <<Tag>> >>)

WorktreeSegment   == <<Tag, Glyph, Tag>>
PrSegment(number) == <<Tag, Glyph, Blank, Value(<<"#">>), Value(number), Tag>>

OrDash(t) == IF t = Unset THEN <<"-">> ELSE t

\* session:window.pane, and @socket where it is not the default server.
TmuxSegment(context) ==
    LET location == context.session \o <<":">> \o OrDash(context.window) \o <<".">>
                        \o OrDash(context.pane)
        server   == IF context.socket \in {Unset, DefaultSocket} THEN <<>>
                                                            ELSE <<"@">> \o context.socket
    IN  <<Tag, Glyph, Blank, Value(location \o server), Tag>>

ClockSegment(label) == <<Tag, Glyph, Blank, Value(label), Tag>>

\* The two halves of a line; the right one may be empty.
LeftPart(project, git, pr) ==
    Joined(<<ProjectSegment(project)>>
           \o If(git.available, BranchSegment(git))
           \o If(git.available /\ "worktree" \in git.flags, WorktreeSegment)
           \o If(pr # Unset, PrSegment(pr)))

RightPart(context, clock) ==
    Joined(If(context.session # Unset, TmuxSegment(context))
           \o If(clock # Unset, ClockSegment(clock)))

-----------------------------------------------------------------------------
(* The layout.                                                             *)

\* visible_width: a doubled "#" is one column, a tag none, a "#" before
\* anything else a character like any other.
ScanChar(scan, c) ==
    CASE scan.mode = "tag" ->
             [scan EXCEPT !.mode = IF c = "]" THEN "text" ELSE "tag"]
      [] scan.mode = "hash" /\ c = "#" ->
             [mode |-> "text", width |-> scan.width + 1]
      [] scan.mode = "hash" /\ c = "[" ->
             [scan EXCEPT !.mode = "tag"]
      [] scan.mode = "hash" /\ c \notin {"#", "["} ->
             [mode |-> "text", width |-> scan.width + 1 + CharWidth(c)]
      [] scan.mode = "text" ->
             IF c = "#" THEN [scan EXCEPT !.mode = "hash"]
                        ELSE [scan EXCEPT !.width = @ + CharWidth(c)]

Scanned(t) ==
    LET scan[n \in 0..Len(t)] == IF n = 0 THEN [mode |-> "text", width |-> 0]
                                          ELSE ScanChar(scan[n - 1], t[n])
    IN  scan[Len(t)]

VisibleWidth(t) == Scanned(t).width + (IF Scanned(t).mode = "hash" THEN 1 ELSE 0)

Blanks(n) == [i \in 1..n |-> " "]

\* layout_with_width; a client of unknown width is laid out as one too narrow.
NoWidth == 0

Layout(left, right, width) ==
    LET taken == VisibleWidth(left) + VisibleWidth(right)
    IN  IF right = <<>> THEN left
        ELSE IF width <= taken + 1 THEN left \o <<" ">> \o right
        ELSE left \o Blanks(width - taken) \o right
=============================================================================

---------------------------- MODULE ManagedBlock ----------------------------
(***************************************************************************)
(* Splicing dbar's managed block into a tmux config                        *)
(* (src/install/snippet.rs).                                               *)
(*                                                                         *)
(* A config is a sequence of tokens: the two markers, line breaks, pieces  *)
(* of the user's own text, and the bodies of the blocks that the variants  *)
(* of the snippet (left or right, full or plain) bind.                     *)
(***************************************************************************)
EXTENDS Naturals, Sequences, FiniteSets

CONSTANTS Variants     \* the requests: a position and a width

Begin == "begin"
End   == "end"
Break == "nl"
Tokens == {Begin, End, Break, "user"} \cup Variants

\* The body of a block holds no marker of its own.
ASSUME VariantsAssumption == Variants \cap {Begin, End, Break, "user"} = {}

Texts == Seq(Tokens)

\* build_snippet, by what tells one request from another.
Snippet(v) == <<Begin, Break, v, Break, End, Break>>

Count(text, t) == Cardinality({i \in DOMAIN text : text[i] = t})
Place(text, t) == CHOOSE i \in DOMAIN text : text[i] = t

Updated(text) == [kind |-> "updated", text |-> text]
Current(text) == [kind |-> "current", text |-> text]
Refused(why)  == [kind |-> why, text |-> <<>>]

AppendSnippet(text, v) ==
    Updated(IF text = <<>> \/ text[Len(text)] = Break
            THEN text \o Snippet(v)
            ELSE text \o <<Break>> \o Snippet(v))

\* Faulty variant: the line break behind the end marker is taken for the user's.
BlockEndAtMarker(text) == Place(text, End)

\* Where the block's last line ends: behind the line break that follows the end
\* marker, if one does.
BlockEnd(text) ==
    LET e == Place(text, End) IN
    IF e < Len(text) /\ text[e + 1] = Break THEN e + 1 ELSE e

\* Faulty variant: a block that no longer matches is taken out and a fresh one
\* appended.
ReplaceAtTheEnd(text, v) ==
    LET b == Place(text, Begin)
        e == BlockEnd(text)
    IN  IF Place(text, End) < b THEN Refused("incomplete")
        ELSE IF SubSeq(text, b, e) = Snippet(v) THEN Current(text)
        ELSE Updated(SubSeq(text, 1, b - 1) \o SubSeq(text, e + 1, Len(text)) \o Snippet(v))

ReplaceBlock(text, v) ==
    LET b == Place(text, Begin)
        e == BlockEnd(text)
    IN  IF Place(text, End) < b THEN Refused("incomplete")
        ELSE IF SubSeq(text, b, e) = Snippet(v) THEN Current(text)
        ELSE Updated(SubSeq(text, 1, b - 1) \o Snippet(v) \o SubSeq(text, e + 1, Len(text)))

\* Faulty variant: the first begin marker decides, and duplicates are not counted.
ApplyToFirstBlock(text, v) ==
    CASE Count(text, Begin) = 0                          -> AppendSnippet(text, v)
      [] Count(text, Begin) > 0 /\ Count(text, End) > 0  -> ReplaceBlock(text, v)
      [] OTHER                                           -> Refused("incomplete")

\* apply_snippet: the markers are counted before anything is rewritten.
Apply(text, v) ==
    LET begins == Count(text, Begin)
        ends   == Count(text, End)
    IN  CASE begins = 0 /\ ends = 0 -> AppendSnippet(text, v)
          [] begins = 1 /\ ends = 1 -> ReplaceBlock(text, v)
          [] begins > 1 \/ ends > 1 -> Refused("duplicate")
          [] OTHER                  -> Refused("incomplete")
=============================================================================

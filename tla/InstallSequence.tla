-------------------------- MODULE InstallSequence --------------------------
(***************************************************************************)
(* A user's config under one `dbar install` after another (run_install in  *)
(* src/lib.rs), each with the flags it is given over the settings of the   *)
(* environment and the configuration file, and nobody else touching it:    *)
(* what the splice of ManagedBlock amounts to over time.                   *)
(***************************************************************************)
EXTENDS ManagedBlock, Settings

CONSTANTS
    Originals,     \* the texts the user's config may hold at first
    Stacks,        \* the environments and files there may be
    Flags,         \* the flags an install may be given
    VariantOf      \* the variant of each position and width

\* A bare flag accepts no value, so it is given as TRUE or not at all.
ASSUME InstallSequenceAssumption ==
    /\ VariantOf \in [{"left", "right"} \X BOOLEAN -> Variants]
    /\ Originals \subseteq Texts
    /\ \A flags \in Flags, n \in {"dry_run", "full"} :
           n \in DOMAIN flags => flags[n] = TRUE

\* A setting that is not malformed has the type its command declares.
ASSUME SettingsAreTyped ==
    \A flags \in Flags, stack \in Stacks :
        LET s == Merged(flags, stack) IN
        Loads(s) => Position(s) \in {"left", "right"} /\ IsFull(s) \in BOOLEAN

VARIABLES
    layers,      \* the environment and the configuration file
    original,    \* what the user wrote
    config,
    last         \* what the last install that was no dry run did

vars == <<layers, original, config, last>>

Init ==
    /\ layers \in Stacks
    /\ original \in Originals
    /\ config = original
    /\ last = [variant |-> "none", kind |-> "none"]

\* An install that is refused leaves the config as it is, and so does a dry run.
Install(flags) ==
    LET s == Merged(flags, layers)
        v == VariantOf[<<Position(s), IsFull(s)>>]
        r == Apply(config, v)
    IN
    /\ Loads(s)
    /\ IF IsDryRun(s) THEN UNCHANGED <<config, last>>
       ELSE /\ config' = IF r.kind = "updated" THEN r.text ELSE config
            /\ last' = [variant |-> v, kind |-> r.kind]
    /\ UNCHANGED <<layers, original>>

Next == \E flags \in Flags : Install(flags)

Spec == Init /\ [][Next]_vars

Done(kind) == kind \in {"updated", "current"}

\* The user's own text of a config with at most one block in it: what precedes
\* the block, and what follows it.
Surroundings(text) ==
    IF Count(text, Begin) = 0 THEN <<text, <<>>>>
    ELSE <<SubSeq(text, 1, Place(text, Begin) - 1),
           SubSeq(text, BlockEnd(text) + 1, Len(text))>>

\* Installing what is already installed changes nothing, whatever the config
\* held before and however many installs came between (install/property_tests.rs:
\* "a second install over an already-installed configuration has to be a no-op").
ReinstallIsNoOp ==
    Done(last.kind) => Apply(config, last.variant) = Current(config)

\* Only the last request counts: the config is the one that request would have
\* made of the user's text directly, so requests replace one another and no
\* residue of an earlier one, not even a blank line, is left behind.
OnlyTheLastRequestCounts ==
    Done(last.kind) =>
        config = IF Apply(original, last.variant).kind = "updated"
                 THEN Apply(original, last.variant).text ELSE original

\* The user's own text survives in its place: what precedes and what follows the
\* block is what it was, but for the line break an unfinished last line is given.
SurroundingsKept ==
    Done(last.kind) =>
        \/ Surroundings(config) = Surroundings(original)
        \/ /\ Count(original, Begin) = 0
           /\ original # <<>> /\ original[Len(original)] # Break
           /\ Surroundings(config) = <<original \o <<Break>>, <<>>>>

\* Two managed blocks are never taken for one: a config with a second begin or
\* end marker in it is refused for as long as it has one.
DuplicatesAreRefused ==
    /\ Done(last.kind) => Count(config, Begin) = 1 /\ Count(config, End) = 1
    /\ last.kind = "duplicate" =>
           config = original /\ (Count(config, Begin) > 1 \/ Count(config, End) > 1)

\* Below the flags it says dry run, or something that cannot be read.
HeldBack ==
    LET below == Over(layers.env, layers.file) IN
    "dry_run" \in DOMAIN below /\ below["dry_run"] \in {TRUE, Malformed}

\* "The command line can turn a setting on but cannot turn one off"
\* (docs/users-guide.md): a config the environment or the file protects is never
\* written, whatever the flags and however often.
CommandLineCannotUnprotect == HeldBack => config = original
=============================================================================

---------------------------- MODULE ConfigStore ----------------------------
(***************************************************************************)
(* What `dbar install` promises about a tmux config that nobody edits      *)
(* while an install is at work on it (src/install/mod.rs and               *)
(* src/install/fs/mod.rs): every install is one splice of the text that    *)
(* stands in the config at that instant, that text is in the backup by     *)
(* then, and neither file is ever anything but whole and in the config's   *)
(* mode.                                                                   *)
(***************************************************************************)
CONSTANTS
    Variants,       \* what may be asked of an install
    Apply(_, _),    \* the splice of a request into a text
    Edits,          \* the texts the user may leave in the config
    Modes,          \* file modes
    UmaskMode       \* the mode of a file created without another to copy

VARIABLES config, backup

Absent == [text |-> <<>>, mode |-> "none"]
File(text, mode) == [text |-> text, mode |-> mode]

StoreInit ==
    /\ \E text \in Edits, mode \in Modes : config \in {Absent, File(text, mode)}
    /\ backup = Absent

\* The user writes the config, creates it or gives it another mode, or removes it.
Edit(text, mode) == config' = File(text, mode) /\ UNCHANGED backup

Remove == config' = Absent /\ UNCHANGED backup

\* The config is copied over the backup.
Save == config.text # <<>> /\ backup' = config /\ UNCHANGED config

\* The block is spliced into a config whose text the backup holds.
Splice(v) ==
    /\ config.text = <<>> \/ backup = config
    /\ Apply(config.text, v).kind = "updated"
    /\ config' = File(Apply(config.text, v).text,
                      IF config = Absent THEN UmaskMode ELSE config.mode)
    /\ UNCHANGED backup

StoreNext ==
    \/ \E text \in Edits \cup {config.text}, mode \in Modes : Edit(text, mode)
    \/ Remove \/ Save
    \/ \E v \in Variants : Splice(v)

StoreSpec == StoreInit /\ [][StoreNext]_<<config, backup>>
=============================================================================

------------------------- MODULE MCInstallSequence -------------------------
(* InstallSequence on a small instance. *)
EXTENDS InstallSequence, TLC

\* Every text of up to five tokens, and every complete block, current or stale,
\* with up to two tokens before it or behind it.
AnyToken == {"begin", "end", "nl", "user", "left"}
UpTo(n) == UNION {[1..m -> AnyToken] : m \in 0..n}
SomeOriginals ==
    UpTo(5) \cup {a \o Snippet(v) \o b : a \in UpTo(1), b \in UpTo(2), v \in Variants}

SomeVariants ==
    (<<"left", FALSE>> :> "left") @@ (<<"right", FALSE>> :> "right")
    @@ (<<"left", TRUE>> :> "left full") @@ (<<"right", TRUE>> :> "right full")

Nothing == [n \in {} |-> n]
DryRun(value) == [dry_run |-> value]

\* Nothing set; the right side, in full; a dry run from the file; the file's dry
\* run turned off by the environment; one turned on by it; one that is no truth
\* value.
SomeStacks ==
    {[env |-> Nothing, file |-> Nothing],
     [env |-> [position |-> "right"], file |-> [position |-> Malformed, full |-> TRUE]],
     [env |-> Nothing, file |-> DryRun(TRUE)],
     [env |-> DryRun(FALSE), file |-> DryRun(TRUE)],
     [env |-> DryRun(TRUE), file |-> DryRun(FALSE)],
     [env |-> DryRun(Malformed), file |-> Nothing]}

SomeFlags ==
    {Nothing, [full |-> TRUE], [position |-> "left"], [position |-> "right"],
     DryRun(TRUE), [position |-> "left", full |-> TRUE, dry_run |-> TRUE]}
=============================================================================

------------------------------ MODULE Settings ------------------------------
(***************************************************************************)
(* The settings of a command (src/config/mod.rs): what its flags, its      *)
(* environment variables and its section of the configuration file come    *)
(* to.                                                                     *)
(*                                                                         *)
(* A layer is a function on the settings it has something to say about.  A *)
(* flag that is not given says nothing, for every field is an Option       *)
(* without a clap default.                                                 *)
(***************************************************************************)
CONSTANTS
    Malformed,     \* a value that is not one of its setting's type
    DefaultTtl     \* CacheTtlSeconds::default

\* One layer over another: it has the last word on what it says anything about.
Over(upper, lower) ==
    [n \in DOMAIN upper \cup DOMAIN lower |-> IF n \in DOMAIN upper THEN upper[n] ELSE lower[n]]

\* Faulty variant: bare flags that are not given are materialised as FALSE.
MergedOverDefaults(flags, layers) ==
    Over(flags, Over([dry_run |-> FALSE, full |-> FALSE], Over(layers.env, layers.file)))

\* load_and_merge: flags over the environment over the file, setting by setting.
Merged(flags, layers) == Over(flags, Over(layers.env, layers.file))

\* A command with a malformed setting ends as a merge error and does nothing; a
\* malformed value that a layer above replaces is never looked at.
Loads(settings) == \A n \in DOMAIN settings : settings[n] # Malformed

\* Defaults are applied to what the merge leaves out.
Setting(settings, name, default) ==
    IF name \in DOMAIN settings THEN settings[name] ELSE default

\* pr_cache_ttl_or_default, of StatusArgs and of RefreshArgs.
StatusTtl(settings) == Setting(settings, "pr_cache_ttl_seconds", DefaultTtl)
RefreshTtl(settings) == Setting(settings, "pr_cache_ttl_seconds", DefaultTtl)

ShowsPr(settings) == Setting(settings, "show_pr", TRUE)
IsDryRun(settings) == Setting(settings, "dry_run", FALSE)
IsFull(settings) == Setting(settings, "full", FALSE)
Position(settings) == Setting(settings, "position", "left")

\* resolve_project_dir and resolve_cache_dir.
ProjectDir(settings, cwd) == Setting(settings, "project_dir", cwd)
CacheDir(settings, userDir) == Setting(settings, "cache_dir", userDir)
=============================================================================

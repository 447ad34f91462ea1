---------------------------- MODULE MCPrDisplay ----------------------------
(* PrDisplay on a small instance. *)
EXTENDS PrDisplay, TLC

\* Two directories whose names and branches run into the same bytes.
A  == <<"a">>
AB == <<"a", "b">>
BC == <<"b", "c">>
C  == <<"c">>

SomeDirs   == {A, AB}
SomeHeads  == (A :> {BC, NoBranch}) @@ (AB :> {C})
SomeReplies == (<<A, BC>> :> {"", "7"}) @@ (<<AB, C>> :> {""})
SomeNumbers == (BC :> "") @@ (C :> "9")
SomeDecimals == [n \in 0..MaxLen |-> <<<<"0">>, <<"1">>, <<"2">>>>[n + 1]]
Itself(stream) == stream

Nothing == [n \in {} |-> n]
Both(given) == [status |-> given, refresh |-> given]
Ttl(n) == [pr_cache_ttl_seconds |-> n]
Here == [project_dir |-> AB]
Other == [cache_dir |-> "other"]

\* Nothing set; the same TTL for both, and refreshes that are for one directory
\* wherever they are run, and with a mock client; a cache directory for both, set in different layers, and a
\* malformed TTL that is overridden; one that is not.
SomeStacks ==
    {Both([env |-> Nothing, file |-> Nothing]),
     [status  |-> [env |-> Nothing, file |-> Ttl(0)],
      refresh |-> [env |-> Here @@ [github_mock_pr |-> "none"], file |-> Ttl(0)]],
     [status  |-> [env |-> Other, file |-> Nothing],
      refresh |-> [env |-> Ttl(1), file |-> Other @@ Ttl(Malformed)]],
     [status  |-> [env |-> Ttl(0), file |-> Ttl(1)],
      refresh |-> [env |-> Ttl(Malformed), file |-> Ttl(1)]]}

OfARefresh == {Nothing, Ttl(0)}
OfAStatus  == {Nothing, Ttl(0), Here}
=============================================================================

----------------------------- MODULE MCInstall -----------------------------
EXTENDS Install, TLC

Symmetry == Permutations(Procs)

\* An emptied config, one without a block, one with an unfinished last line, one
\* with a stale block in it, one with half a block.
SomeEdits == {<<>>, <<"user">>, <<"user", "nl">> \o Snippet("left") \o <<"user">>,
              <<"begin", "user">>}
=============================================================================

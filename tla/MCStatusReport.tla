--------------------------- MODULE MCStatusReport ---------------------------
EXTENDS StatusReport

SomeProjects == {<<"w", "#">>}
SomeBranches == {<<"b">>, <<"#", "[", "z">>}
SomeNumbers  == {<<"7">>, <<"{">>}
SomeCaches   == {[b \in SomeBranches |-> IF b = <<"b">> THEN <<"7">> ELSE <<"{">>],
                 [b \in SomeBranches |-> IF b = <<"b">> THEN <<>> ELSE Unset]}
SomeFlags    == {{}, {"staged", "behind", "worktree"}}
SomeWidths   == {NoWidth, 28, 60}

Context(session, window, pane, socket) ==
    [session |-> session, window |-> window, pane |-> pane, socket |-> socket]

\* A client on the default server, one on another whose pane is not answered for.
SomeViews == {Context(<<"s">>, <<"1">>, <<"2">>, DefaultSocket),
              Context(<<"#", "{", "#", "(">>, <<"3">>, <<>>, <<"x">>)}

\* All that the installed snippet passes, all but the pane, or nothing.
SomeSupplied == {Context(<<"s">>, <<"1">>, <<"2">>, DefaultSocket),
                 Context(<<"s">>, Unset, <<"2">>, Unset),
                 Context(Unset, Unset, Unset, Unset)}
=============================================================================

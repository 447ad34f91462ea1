---------------------------- MODULE MCGitStatus ----------------------------
EXTENDS GitStatus

SomeAttributes ==
    {<<>>, <<"unspecified", "unset", "unspecified">>, <<"unspecified", "unset", "named">>,
     <<"set", "unset">>, <<"unset", "unspecified">>}

M(x, y) == <<x, y>>
SomeChanges ==
    {<<>>, <<M(" ", "M")>>, <<M("M", " "), M(" ", "D")>>, <<M("?", "?")>>,
     <<M(" ", "M"), M("A", " ")>>}

SomeCounts == {<<0, 0>>, <<1, 0>>, <<1, 2>>}
=============================================================================

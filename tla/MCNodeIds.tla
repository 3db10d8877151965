----------------------------- MODULE MCNodeIds -----------------------------
(* Names over two letters, and three characters for generated identifiers. *)
EXTENDS NodeIds, TLC

MCLetters == {"a", "b", "0", "1", "2"}

MCCharacters == <<"0", "1", "2">>

A(n) == [i \in 1 .. n |-> "a"]

\* A bridge and a node with the same name of one letter.
MCShortFiles == {[nodes |-> {<<"a">>, <<"b">>}, bridges |-> {<<"a">>}]}

\* Names that are cut to the same four letters in all three ways, more of them
\* than characters or not; a short name that looks like a generated identifier;
\* names that differ in each cut; bridges named like nodes.
MCFiles ==
    MCShortFiles \cup
    {[nodes   |-> {A(6), A(7), <<"0", "a", "a", "a", "a">>},
      bridges |-> {A(6), A(8)}],
     [nodes   |-> {A(6), A(7), A(8), A(9)}, bridges |-> {A(6)}],
     [nodes   |-> {A(6), A(7)}, bridges |-> {<<"1", "a", "a", "a", "a">>}],
     [nodes   |-> {<<"a", "b", "b", "a", "b", "a">>, <<"a", "b", "a", "a", "b", "a">>,
                   <<"1", "a", "b", "b", "a">>},
      bridges |-> {<<"a", "b", "b", "b", "b", "a">>, <<"1", "a", "b", "b", "a">>}],
     [nodes   |-> {<<"a", "b">>, <<"b", "a", "a">>, <<"0", "a", "b", "a", "b">>},
      bridges |-> {<<"a", "b">>}]}

=============================================================================

----------------------------- MODULE MCLibrary -----------------------------
(* Two entries of one title and what may be said about them. *)
EXTENDS Library
CONSTANTS a, b, v, r1, r2, w, n

Activity(variant, rest) == [title |-> a, variant |-> variant, rest |-> rest, what |-> w]
MCPairs == {<<a, v>>, <<b, Plain>>}
MCActivityFiles == {<<Activity(NoColumn, r1)>>,
                    <<Activity(Plain, r1), Activity(Plain, r1)>>,
                    <<Activity(Plain, r1), Activity(v, r2)>>}
Entries(variant, rest) == [title |-> a, variant |-> variant, rest |-> rest]
MCMediaFiles == {<<Entries(NoColumn, r2)>>, <<Entries(Plain, r2), Entries(v, r1)>>}
MCStoneFiles == {<<[title |-> a, variant |-> NoColumn, name |-> n]>>}
=============================================================================

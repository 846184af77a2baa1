-------------------------- MODULE MCXCodecPipePair --------------------------
(***************************************************************************)
(* Two processes and two connections.                                      *)
(***************************************************************************)
EXTENDS XCodecPipePair, TLC

CONSTANTS A, B, c1, c2

MCPeer == {A, B}
MCConn == {c1, c2}
MCHash == {1, 2}
MCSegment == {"a", "b", "c"}
MCHashOf == [a |-> 1, b |-> 1, c |-> 2]
MCInputs == {<<"a">>, <<"c", "a">>}
MCInputs1 == {<<"a">>, <<"b">>}
MCInputs2 == {<<"a">>}
MCOneWay == [p \in MCPeer |-> IF p = A THEN 1 ELSE 0]
MCConnSymmetry == Permutations(MCConn)
=============================================================================

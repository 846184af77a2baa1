--------------------------- MODULE MCXCodecStream ---------------------------
(***************************************************************************)
(* Five segments over four hashes: hash 0 (which no window can hold), and  *)
(* one hash that two segments share.  Hash 3 keeps a window of two slots   *)
(* wrapping.                                                               *)
(***************************************************************************)
EXTENDS XCodecStream

MCHash == {0, 1, 2, 3}
MCSegment == {"z", "a", "b", "c", "d"}
MCHashOf == [z |-> 0, a |-> 1, b |-> 1, c |-> 2, d |-> 3]
=============================================================================

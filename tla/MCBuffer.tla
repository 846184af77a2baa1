------------------------------ MODULE MCBuffer ------------------------------
(***************************************************************************)
(* Two Buffers over segments of three bytes, of one thread, and one        *)
(* segment with the references of several threads.  The models share no    *)
(* state: in a behaviour one of them runs, as which says.                  *)
(*                                                                         *)
(* No call that changes a Buffer looks at the bytes, so few words show     *)
(* what becomes of each place in them.                                     *)
(***************************************************************************)
EXTENDS Buffer, SharedSegment

VARIABLE which

MCWord == {<<0>>, <<1, 0, 1, 1>>}
MCLongWord == {<<0, 1, 2, 3, 4, 5>>}

\* One Buffer can hold more than a segment by itself.
MCMaxLen == <<4, 3>>
MCLongMaxLen == <<6, 6>>

MCInit == which \in {"buffers", "segment"} /\ Init /\ SharedInit

MCNext ==
    /\ \/ which = "buffers" /\ Next /\ UNCHANGED sharedVars
       \/ which = "segment" /\ SharedNext /\ UNCHANGED vars
    /\ UNCHANGED which

MCSpec == MCInit /\ [][MCNext]_<<which, vars, sharedVars>>
=============================================================================

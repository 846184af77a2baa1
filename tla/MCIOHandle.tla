----------------------------- MODULE MCIOHandle -----------------------------
(***************************************************************************)
(* A Handle on one socket; and the program diskdup, which has a Handle on  *)
(* each of two volumes of up to three blocks and sees the answers of them. *)
(* In a behaviour either one of them runs, as which says, and the other    *)
(* stays as it is.                                                         *)
(***************************************************************************)
EXTENDS IOHandle

CONSTANTS Block, Torn, None

VARIABLES which, original, volume, block, dupAction, buffer, written, dupHandle, failed, dupBad

dupVars == <<original, volume, block, dupAction, buffer, written, dupHandle, failed, dupBad>>

Volumes == UNION {[1..n -> Block] : n \in 0..3}

Dup == INSTANCE DiskDup WITH action <- dupAction, handle <- dupHandle, bad <- dupBad

MCInit ==
    /\ which \in {"handle", "diskdup"} /\ Init /\ Dup!DupInit
    /\ which # "diskdup" => original = [s \in Dup!Side |-> <<>>]

MCNext ==
    /\ \/ which = "handle" /\ Next /\ UNCHANGED dupVars
       \/ which = "diskdup" /\ Dup!DupNext /\ UNCHANGED vars
    /\ UNCHANGED which

\* The fairness that each of the modules assumes.  A Handle that is left as it is at
\* first has nothing to do.
MCSpec ==
    /\ MCInit /\ [][MCNext]_<<which, vars, dupVars>>
    /\ Fairness
    /\ WF_dupVars(which = "diskdup" /\ Dup!Answers)

\* The Handle, its poll and DiskDup keep their types, and their assertions hold.
HandlesInv == HandleInv /\ Dup!DiskDupInv

\* What a Handle reads and writes is what arrived and what was given, in order and
\* complete; what diskdup has passed is copied, and what it has not is as it was.
TransfersAreFaithful == TransferIsFaithful /\ Dup!BlocksAreCopied

\* What was asked of a Handle is answered when it can be; diskdup ends.
HandlesProgress == HandleProgress /\ (which = "diskdup" => Dup!DiskDupEnds)
=============================================================================

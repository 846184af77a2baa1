--------------------------- MODULE ReliableStream ---------------------------
(***************************************************************************)
(* What the two clients at the ends of a proxied connection may rely on.   *)
(* Each client reads, in order, what the other wrote; it reads EOS only    *)
(* when it has read everything and the other has closed, or when the       *)
(* connection has broken.                                                  *)
(***************************************************************************)
EXTENDS Naturals, Sequences

CONSTANTS End,        \* the ends of all connections
          Other(_)    \* the other end of an end's connection

VARIABLES sent,     \* sent[e]: what the client at e has written
          closed,   \* the ends whose client has closed
          recv,     \* recv[e]: what the client at e has read
          ended,    \* the ends whose client has read EOS
          broken    \* the ends of broken connections

vars == <<sent, closed, recv, ended, broken>>

Init ==
    /\ sent = [e \in End |-> <<>>] /\ recv = [e \in End |-> <<>>]
    /\ closed = {} /\ ended = {} /\ broken = {}

Write(e) ==
    /\ e \notin closed
    /\ \/ /\ sent[e] = SubSeq(sent'[e], 1, Len(sent[e]))
          /\ sent' = [sent EXCEPT ![e] = sent'[e]]
          /\ UNCHANGED closed
       \/ closed' = closed \cup {e} /\ UNCHANGED sent
    /\ UNCHANGED <<recv, ended, broken>>

Complete(e) == Other(e) \in closed /\ recv'[e] = sent[Other(e)]

Read(e) ==
    /\ e \notin ended
    /\ \E n \in Len(recv[e])..Len(sent[Other(e)]) :
         recv' = [recv EXCEPT ![e] = SubSeq(sent[Other(e)], 1, n)]
    /\ \/ UNCHANGED ended
       \/ /\ Complete(e) \/ e \in broken
          /\ ended' = ended \cup {e}
    /\ UNCHANGED <<sent, closed, broken>>

Break ==
    /\ broken \subseteq broken'
    /\ UNCHANGED <<sent, closed, recv, ended>>

Next == Break \/ \E e \in End : Write(e) \/ Read(e)

Spec == Init /\ [][Next]_vars
=============================================================================

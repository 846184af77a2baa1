---------------------------- MODULE ByteStrings ----------------------------
(***************************************************************************)
(* What a Buffer promises its users (common/buffer.h): every Buffer is a   *)
(* string of bytes of its own.  An operation on one of them changes that   *)
(* one, and the Buffer it moves bytes to, and no other; a BufferSegment    *)
(* taken out of a Buffer keeps its bytes for as long as it is held.        *)
(***************************************************************************)
EXTENDS Sequences, Naturals

CONSTANTS Buf,    \* the Buffers
          None    \* no Buffer: bytes that are removed are not kept

VARIABLES text,   \* [Buf -> Seq(Byte)]: the bytes of each Buffer
          taken   \* the bytes of the BufferSegment the caller holds, or <<>>

vars == <<text, taken>>

First(s, n) == SubSeq(s, 1, n)
Rest(s, n) == SubSeq(s, n + 1, Len(s))

Init ==
    /\ text = [b \in Buf |-> <<>>]
    /\ taken = <<>>

Put(b, w) ==
    /\ text' = [text EXCEPT ![b] = @ \o w]
    /\ UNCHANGED taken

Assign(b, w) ==
    /\ text' = [text EXCEPT ![b] = w]
    /\ UNCHANGED taken

\* The n bytes of b from offset o on leave it, for the end of clip if there is one.
Remove(b, o, n, clip) ==
    LET left == First(text[b], o) \o Rest(text[b], o + n)
        gone == First(Rest(text[b], o), n) IN
    /\ text' = [c \in Buf |-> IF c = b THEN left
                              ELSE IF c = clip THEN text[c] \o gone ELSE text[c]]
    /\ UNCHANGED taken

\* The first o bytes of b are dropped and the n after them go to the end of c.
Move(b, c, o, n) ==
    /\ text' = [text EXCEPT ![b] = Rest(@, o + n),
                            ![c] = @ \o First(Rest(text[b], o), n)]
    /\ UNCHANGED taken

\* The caller takes a segment with the first n bytes of b, which keeps them or not.
Take(b, n, keeps) ==
    /\ taken' = First(text[b], n)
    /\ text' = [text EXCEPT ![b] = IF keeps THEN @ ELSE Rest(@, n)]

Release ==
    /\ taken' = <<>>
    /\ UNCHANGED text
=============================================================================

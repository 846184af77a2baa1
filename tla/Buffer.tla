------------------------------- MODULE Buffer -------------------------------
(***************************************************************************)
(* Buffer and BufferSegment (common/buffer.h): a Buffer is a deque of      *)
(* pointers to reference-counted BufferSegments, which Buffers share.  An  *)
(* operation that would change a segment copies it first unless it holds   *)
(* the only reference.                                                     *)
(*                                                                         *)
(* A segment is its offset_, the bytes between offset_ and                 *)
(* offset_ + length_, and its reference count; what else its array holds   *)
(* is never read.  Every call is made on the segments and, next to them,   *)
(* on the byte strings the callers were promised.                          *)
(***************************************************************************)
EXTENDS Integers, FiniteSets, SequencesExt

CONSTANTS Bufs,       \* the number of Buffers
          Word,       \* the strings of bytes that are appended
          SegSize,    \* BUFFER_SEGMENT_SIZE
          MaxLen,     \* bound: MaxLen[b] bytes in Buffer b
          MaxSegs,    \* bound: segments in use before a call that may create some
          AnyCut,     \* cut is also called where it uses an invalid iterator
          AnyTrim     \* trim is also given a clip for bytes of several segments

ASSUME BufferAssumption ==
    /\ Bufs \in Nat
    /\ <<>> \notin Word
    /\ SegSize \in Nat \ {0}
    /\ AnyCut \in BOOLEAN /\ AnyTrim \in BOOLEAN

VARIABLES seg,     \* the segments in use; a pointer is an index here
          data,    \* data_ of each Buffer
          length,  \* length_ of each Buffer, which is kept beside the list
          held,    \* the segment a caller holds a reference to, or None
          text,    \* the byte strings promised: see ByteStrings
          taken

vars == <<seg, data, length, held, text, taken>>

Buf == 1..Bufs
None == 0   \* no Buffer and no segment

Promise == INSTANCE ByteStrings

First(s, n) == SubSeq(s, 1, n)
Rest(s, n) == SubSeq(s, n + 1, Len(s))

-----------------------------------------------------------------------------
(* BufferSegment.  h is the heap, a sequence of segments; one without a    *)
(* reference was deleted.                                                  *)

Create(h, w) == Append(h, [off |-> 0, bytes |-> w, refs |-> 1])
New(h) == Len(h) + 1

Ref(h, s) == [h EXCEPT ![s].refs = @ + 1]

Unref(h, s) == [h EXCEPT ![s].refs = @ - 1]

Exclusive(h, s) == h[s].refs = 1

Avail(h, s) == SegSize - Len(h[s].bytes)

\* Mutant: a segment that others share is changed in place.
RewrittenInPlace(h, s, off, w) == [h |-> [h EXCEPT ![s].off = off, ![s].bytes = w], s |-> s]

\* A segment with bytes w in place of those of s: s itself, changed to begin at
\* off, when this is the only reference, and otherwise a copy, for which the
\* reference to s is given up.
Rewritten(h, s, off, w) ==
    IF Exclusive(h, s)
    THEN [h |-> [h EXCEPT ![s].off = off, ![s].bytes = w], s |-> s]
    ELSE [h |-> Unref(Create(h, w), s), s |-> New(h)]

\* The copy of s when it is shared begins at offset 0, and pullup moves the data
\* there when they are followed by too little room.
SegAppend(h, s, w) ==
    LET off == IF Avail(h, s) - h[s].off < Len(w) THEN 0 ELSE h[s].off
    IN  Rewritten(h, s, off, h[s].bytes \o w)

SegSkip(h, s, n) == Rewritten(h, s, h[s].off + n, Rest(h[s].bytes, n))

SegTruncate(h, s, n) == Rewritten(h, s, h[s].off, First(h[s].bytes, n))

SegTrim(h, s, n) == SegTruncate(h, s, Len(h[s].bytes) - n)

SegCut(h, s, o, n) ==
    IF o = 0 THEN SegSkip(h, s, n)
    ELSE Rewritten(h, s, h[s].off, First(h[s].bytes, o) \o Rest(h[s].bytes, o + n))

-----------------------------------------------------------------------------
(* Buffer.  A memory m is what the operations read and write: the heap h,  *)
(* the lists d and the lengths len.                                        *)

Memory == [h |-> seg, d |-> data, len |-> length]

SegLen(m, s) == Len(m.h[s].bytes)

RECURSIVE Contents(_, _)
Contents(m, l) == IF l = <<>> THEN <<>> ELSE m.h[Head(l)].bytes \o Contents(m, Tail(l))

RECURSIVE Size(_, _)
Size(m, l) == IF l = <<>> THEN 0 ELSE SegLen(m, Head(l)) + Size(m, Tail(l))

\* append(BufferSegment *)
PutSeg(m, b, s) ==
    [h |-> Ref(m.h, s), d |-> [m.d EXCEPT ![b] = Append(@, s)],
     len |-> [m.len EXCEPT ![b] = @ + SegLen(m, s)]]

\* append(const Buffer&)
RECURSIVE PutSegs(_, _, _)
PutSegs(m, b, l) == IF l = <<>> THEN m ELSE PutSegs(PutSeg(m, b, Head(l)), b, Tail(l))

\* A new segment of bytes w, created, appended and given up by append(buf, len).
PutNew(m, b, w) ==
    LET s == New(m.h)
        x == PutSeg([m EXCEPT !.h = Create(m.h, w)], b, s)
    IN  [x EXCEPT !.h = Unref(x.h, s)]

\* Complete segments, and one for the bytes that are left.
RECURSIVE PutPieces(_, _, _)
PutPieces(m, b, w) ==
    IF w = <<>> THEN m
    ELSE IF Len(w) < SegSize THEN PutNew(m, b, w)
    ELSE PutPieces(PutNew(m, b, First(w, SegSize)), b, Rest(w, SegSize))

\* append(const uint8_t *, size_t)
PutBytes(m, b, w) ==
    IF /\ Len(w) < SegSize /\ m.d[b] # <<>>
       /\ Exclusive(m.h, Last(m.d[b])) /\ Avail(m.h, Last(m.d[b])) >= Len(w)
    THEN LET r == SegAppend(m.h, Last(m.d[b]), w)
         IN  [h |-> r.h, d |-> [m.d EXCEPT ![b] = Append(Front(@), r.s)],
              len |-> [m.len EXCEPT ![b] = @ + Len(w)]]
    ELSE PutPieces(m, b, w)

RECURSIVE UnrefAll(_, _)
UnrefAll(h, l) == IF l = <<>> THEN h ELSE UnrefAll(Unref(h, Head(l)), Tail(l))

Clear(m, b) ==
    [h |-> UnrefAll(m.h, m.d[b]), d |-> [m.d EXCEPT ![b] = <<>>],
     len |-> [m.len EXCEPT ![b] = @ - Size(m, m.d[b])]]

\* moveout(Buffer *)
MoveAll(m, b, c) ==
    [h |-> m.h, d |-> [m.d EXCEPT ![b] = <<>>, ![c] = @ \o m.d[b]],
     len |-> [m.len EXCEPT ![b] = 0, ![c] = @ + m.len[b]]]

\* What skip, trim and cut do for the clip, with bytes and with a whole segment
\* that left its Buffer.
ClipBytes(m, clip, w) == IF clip = None THEN m ELSE PutBytes(m, clip, w)

\* Mutant: the reference of the Buffer the segment left is not given up.
ClipSegKept(m, clip, s) == IF clip = None THEN m ELSE PutSeg(m, clip, s)

ClipSeg(m, clip, s) ==
    LET x == IF clip = None THEN m ELSE PutSeg(m, clip, s)
    IN  [x EXCEPT !.h = Unref(x.h, s)]

\* The loop of skip, over the segments l of b that follow the segments before in
\* data_: whole segments go, and the first n bytes of the one they end in.
RECURSIVE SkipList(_, _, _, _, _, _)
SkipList(m, b, before, l, n, clip) ==
    LET s == Head(l)
        x == ClipBytes(m, clip, First(m.h[s].bytes, n))
        r == SegSkip(x.h, s, n) IN
    IF n = 0 THEN [m EXCEPT !.d[b] = before \o l]
    ELSE IF n >= SegLen(m, s)
    THEN SkipList(ClipSeg(m, clip, s), b, before, Tail(l), n - SegLen(m, s), clip)
    ELSE [x EXCEPT !.h = r.h, !.d[b] = before \o <<r.s>> \o Tail(l)]

\* The loop of trim, from the last segment of l to the first.
RECURSIVE TrimList(_, _, _, _, _)
TrimList(m, b, l, n, clip) ==
    LET s == Last(l)
        x == ClipBytes(m, clip, Rest(m.h[s].bytes, SegLen(m, s) - n))
        r == SegTrim(x.h, s, n) IN
    IF n = 0 THEN [m EXCEPT !.d[b] = l]
    ELSE IF n >= SegLen(m, s)
    THEN TrimList(ClipSeg(m, clip, s), b, Front(l), n - SegLen(m, s), clip)
    ELSE [x EXCEPT !.h = r.h, !.d[b] = Append(Front(l), r.s)]

SkipAll(m, b, clip) == IF clip = None THEN Clear(m, b) ELSE MoveAll(m, b, clip)

Skip(m, b, n, clip) ==
    IF n = m.len[b] THEN SkipAll(m, b, clip)
    ELSE LET x == SkipList(m, b, <<>>, m.d[b], n, clip)
         IN  [x EXCEPT !.len[b] = @ - n]

Trim(m, b, n, clip) ==
    IF n = m.len[b] THEN SkipAll(m, b, clip)
    ELSE LET x == TrimList(m, b, m.d[b], n, clip)
         IN  [x EXCEPT !.len[b] = @ - n]

\* The segment of l that holds the byte at offset o, and where it begins.
RECURSIVE At(_, _, _)
At(m, l, o) ==
    IF o < SegLen(m, Head(l)) THEN [i |-> 1, begin |-> 0]
    ELSE LET a == At(m, Tail(l), o - SegLen(m, Head(l)))
         IN  [i |-> a.i + 1, begin |-> a.begin + SegLen(m, Head(l))]

\* cut erases the segment it finds at index i and inserts the part of it that
\* remains.  insert invalidates the iterator that cut goes on with: libstdc++
\* moves the elements behind it unless it is in the first half, and then the
\* iterator is at the segment that was inserted rather than at the next one.
Invalid(i, size) == i > 0 /\ i >= size \div 2

Stale(m, b, o, n) ==
    LET a == At(m, m.d[b], o) IN
    /\ a.begin < o
    /\ a.begin + SegLen(m, m.d[b][a.i]) < o + n
    /\ Invalid(a.i - 1, Len(m.d[b]) - 1)

\* Up to the end of b cut is trim, and from its start skip; here neither is so.
Cut(m, b, o, n, clip) ==
    LET l == m.d[b]
        i == At(m, l, o).i
        s == l[i]
        off == o - At(m, l, o).begin              \* offset in segment s
        behind == SegLen(m, s) - off              \* bytes of s from there on
        before == First(l, i - 1)
        \* the bytes are all in s
        w == ClipBytes(m, clip, SubSeq(m.h[s].bytes, off + 1, off + n))
        c == SegCut(w.h, s, off, n)
        inside == [w EXCEPT !.h = c.h, !.d[b] = before \o <<c.s>> \o Rest(l, i)]
        \* the first off bytes of s remain
        x == ClipBytes(m, clip, Rest(m.h[s].bytes, off))
        t == SegTruncate(x.h, s, off)
        y == [x EXCEPT !.h = t.h]
        across == IF n = behind
                  THEN [y EXCEPT !.d[b] = before \o <<t.s>> \o Rest(l, i)]
                  ELSE IF Invalid(i - 1, Len(l) - 1)
                  THEN SkipList(y, b, before, <<t.s>> \o Rest(l, i), n - behind, clip)
                  ELSE SkipList(y, b, Append(before, t.s), Rest(l, i), n - behind, clip)
        rest == IF n < behind THEN inside
                ELSE IF off > 0 THEN across
                ELSE SkipList(m, b, before, Rest(l, i - 1), n, clip)
    IN  [rest EXCEPT !.len[b] = @ - n]

\* copyout(BufferSegment **, size_t): a segment of the first n bytes of b, with a
\* reference to it for the caller.
SegmentOf(m, b, n) ==
    LET s == Head(m.d[b]) IN
    IF SegLen(m, s) = n THEN [h |-> Ref(m.h, s), s |-> s]
    ELSE IF SegLen(m, s) > n THEN SegTruncate(Ref(m.h, s), s, n)
    ELSE [h |-> Create(m.h, First(Contents(m, m.d[b]), n)), s |-> New(m.h)]

-----------------------------------------------------------------------------
(* The calls that only read, on the bytes of the segments of a list.       *)

Chunks(m, l) == [i \in DOMAIN l |-> m.h[l[i]].bytes]

\* copyout(dst, offset, dstsize): n bytes from offset o on
RECURSIVE Copyout(_, _, _)
Copyout(k, o, n) ==
    LET size == Len(Head(k)) IN
    IF k = <<>> THEN <<>>
    ELSE IF o >= size THEN Copyout(Tail(k), o - size, n)
    ELSE IF n > size - o THEN Rest(Head(k), o) \o Copyout(Tail(k), 0, n - (size - o))
    ELSE SubSeq(Head(k), o + 1, o + n)

\* find: the offset of the first ch among the first limit bytes, or -1.  from is
\* the offset of the first byte of k.
RECURSIVE Find(_, _, _, _)
Find(k, ch, limit, from) ==
    LET size == IF limit < Len(Head(k)) THEN limit ELSE Len(Head(k))
        hits == {i \in 1..size : Head(k)[i] = ch} IN
    IF k = <<>> THEN -1
    ELSE IF hits # {} THEN from + Min(hits) - 1
    ELSE IF limit = size THEN -1
    ELSE Find(Tail(k), ch, limit - size, from + size)

\* The loops of prefix: p are the bytes of the prefix still to be found, by the
\* segment, and q those of the Buffer still to be looked at.
RECURSIVE Prefix(_, _)
Prefix(p, q) ==
    LET n == IF Len(Head(p)) < Len(Head(q)) THEN Len(Head(p)) ELSE Len(Head(q))
        Past(k) == IF Len(Head(k)) = n THEN Tail(k) ELSE <<Rest(Head(k), n)>> \o Tail(k) IN
    IF p = <<>> THEN TRUE
    ELSE /\ First(Head(p), n) = First(Head(q), n)
         /\ Prefix(Past(p), Past(q))

-----------------------------------------------------------------------------
(* The calls, each with the promise it is held to.                         *)

Init ==
    /\ seg = <<>>
    /\ data = [b \in Buf |-> <<>>]
    /\ length = [b \in Buf |-> 0]
    /\ held = None
    /\ Promise!Init

\* The pointers of the Buffers and of the caller, in some order.
RECURSIVE Joined(_)
Joined(d) == IF d = <<>> THEN <<>> ELSE Head(d) \o Joined(Tail(d))

Pointers(d, k) == Joined(d) \o (IF k = None THEN <<>> ELSE <<k>>)

RECURSIVE Distinct(_, _)
Distinct(l, seen) ==
    IF l = <<>> THEN <<>>
    ELSE IF Head(l) \in seen THEN Distinct(Tail(l), seen)
    ELSE <<Head(l)>> \o Distinct(Tail(l), seen \cup {Head(l)})

Undeleted(h) == SelectSeq([s \in DOMAIN h |-> s], LAMBDA s : h[s].refs > 0)

\* A call leaves the memory m and the caller with the segment k.  Addresses mean
\* nothing, and so the segments that are pointed to, or were not deleted, are
\* numbered in the order of the pointers.
Becomes(memory, k) ==
    \E m \in {memory} :
    \E order \in {Distinct(Pointers(m.d, k) \o Undeleted(m.h), {})} :
    \E at \in {[s \in Range(order) |-> CHOOSE i \in DOMAIN order : order[i] = s]} :
        /\ seg' = [i \in DOMAIN order |-> m.h[order[i]]]
        /\ data' = [b \in Buf |-> [i \in DOMAIN m.d[b] |-> at[m.d[b][i]]]]
        /\ length' = m.len
        /\ held' = IF k = None THEN None ELSE at[k]

AppendBytes(b, w) ==
    /\ length[b] + Len(w) <= MaxLen[b]
    /\ Becomes(PutBytes(Memory, b, w), held)
    /\ Promise!Put(b, w)

\* append(const Buffer&, size_t), or append(const Buffer&) when n is its length
AppendBuffer(b, c, n) ==
    LET m == PutSegs(Memory, b, data[c]) IN
    /\ length[b] + length[c] <= MaxLen[b]
    /\ Becomes(IF n = length[c] THEN m ELSE Trim(m, b, length[c] - n, None), held)
    /\ Promise!Put(b, First(text[c], n))

AssignBuffer(b, c) ==
    /\ length[c] <= MaxLen[b]
    /\ Becomes(PutSegs(Clear(Memory, b), b, data[c]), held)
    /\ Promise!Assign(b, text[c])

ClearBuffer(b) ==
    /\ Becomes(Clear(Memory, b), held)
    /\ Promise!Assign(b, <<>>)

SkipBytes(b, n, clip) ==
    /\ Becomes(Skip(Memory, b, n, clip), held)
    /\ Promise!Remove(b, 0, n, clip)

\* A clip gets the bytes of one segment only.
TrimDefined(b, n, clip) ==
    AnyTrim \/ clip = None \/ n = length[b] \/ n <= SegLen(Memory, Last(data[b]))

TrimBytes(b, n, clip) ==
    /\ TrimDefined(b, n, clip)
    /\ Becomes(Trim(Memory, b, n, clip), held)
    /\ Promise!Remove(b, length[b] - n, n, clip)

CutBytes(b, o, n, clip) ==
    /\ AnyCut \/ ~Stale(Memory, b, o, n)
    /\ Becomes(Cut(Memory, b, o, n, clip), held)
    /\ Promise!Remove(b, o, n, clip)

\* moveout(Buffer *, unsigned, size_t)
MoveBytes(b, c, o, n) ==
    LET m == IF o = 0 THEN Memory ELSE Skip(Memory, b, o, None) IN
    /\ Becomes(Skip(m, b, n, c), held)
    /\ Promise!Move(b, c, o, n)

\* copyout(BufferSegment **, size_t)
TakeCopy(b, n) ==
    LET r == SegmentOf(Memory, b, n) IN
    /\ held = None
    /\ Becomes([Memory EXCEPT !.h = r.h], r.s)
    /\ Promise!Take(b, n, TRUE)

\* moveout(BufferSegment **)
TakeFirst(b) ==
    LET s == Head(data[b]) IN
    /\ held = None
    /\ Becomes([Memory EXCEPT !.d[b] = Tail(@), !.len[b] = @ - SegLen(Memory, s)], s)
    /\ Promise!Take(b, SegLen(Memory, s), FALSE)

AppendHeld(b) ==
    /\ held # None
    /\ length[b] + SegLen(Memory, held) <= MaxLen[b]
    /\ Becomes(PutSeg(Memory, b, held), held)
    /\ Promise!Put(b, taken)

ReleaseHeld ==
    /\ held # None
    /\ Becomes([Memory EXCEPT !.h = Unref(seg, held)], None)
    /\ Promise!Release

\* Each call with the arguments its assertions allow; no call is made with one
\* Buffer in two parts.  Without an offset, moveout to a Buffer and cut are skip;
\* pop and moveout to an array are skip without a clip.
Next ==
    \/ ReleaseHeld
    \/ \E b \in Buf : ClearBuffer(b) \/ (Len(seg) <= MaxSegs /\ AppendHeld(b))
    \/ \E b \in Buf, w \in Word : Len(seg) <= MaxSegs /\ AppendBytes(b, w)
    \/ \E b \in Buf : data[b] # <<>> /\ TakeFirst(b)
    \/ \E b \in Buf : \E n \in 1..length[b] :
          /\ Len(seg) <= MaxSegs
          /\ \/ n <= SegSize /\ TakeCopy(b, n)
             \/ \E clip \in (Buf \cup {None}) \ {b} :
                   /\ clip # None => length[clip] + n <= MaxLen[clip]
                   /\ \/ SkipBytes(b, n, clip)
                      \/ TrimBytes(b, n, clip)
                      \/ \E o \in 1..(length[b] - n - 1) : CutBytes(b, o, n, clip)
             \/ \E c \in Buf \ {b} :
                   \/ AppendBuffer(c, b, n)
                   \/ /\ length[c] + n <= MaxLen[c]
                      /\ \E o \in 1..(length[b] - n) : MoveBytes(b, c, o, n)
    \/ \E b \in Buf : \E c \in Buf \ {b} : Len(seg) <= MaxSegs /\ AssignBuffer(b, c)

Spec == Init /\ [][Next]_vars

-----------------------------------------------------------------------------

BufferTypeOK ==
    /\ \A s \in DOMAIN seg : seg[s].off \in 0..SegSize /\ seg[s].refs \in Nat
    /\ \A b \in Buf : Range(data[b]) \subseteq DOMAIN seg /\ length[b] \in 0..MaxLen[b]
    /\ held \in DOMAIN seg \cup {None}

\* length_ is the number of bytes in the segments, which is what clear asserts.
\* A segment in use has a byte and fits its array: data(), end() and the two
\* loops of prefix assert the one, and memcpy to tail() relies on the other.
SegmentsInOrder ==
    /\ \A b \in Buf : length[b] = Size(Memory, data[b])
    /\ \A s \in DOMAIN seg :
          Len(seg[s].bytes) > 0 /\ seg[s].off + Len(seg[s].bytes) <= SegSize

\* Every reference count is the number of pointers to the segment, so that a
\* segment is deleted when its last holder lets go, no earlier and no later,
\* and exclusive() means what its name says.
RefsAreExact ==
    \A s \in DOMAIN seg :
        /\ seg[s].refs > 0
        /\ seg[s].refs = Len(SelectSeq(Pointers(data, held), LAMBDA t : t = s))

\* Every Buffer has the bytes its own calls gave it, and a segment that was
\* taken out those it had then, whatever is done to Buffers it is shared with.
BuffersKeepTheirBytes ==
    /\ \A b \in Buf : Contents(Memory, data[b]) = text[b]
    /\ held # None => seg[held].bytes = taken

\* copyout, find and prefix, which walk the segments, find in them what is in
\* the string of bytes, wherever the segments begin and end.
ReadersAgree ==
    \A b \in Buf : data[b] # <<>> =>
        LET k == Chunks(Memory, data[b])
            t == text[b] IN
        /\ \A o \in 0..Len(t) : \A n \in 1..(Len(t) - o) :
              Copyout(k, o, n) = SubSeq(t, o + 1, o + n)
        /\ \A ch \in UNION {Range(w) : w \in Word}, limit \in 1..Len(t) :
              LET hits == {i \in 1..limit : t[i] = ch}
              IN  Find(k, ch, limit, 0) = IF hits = {} THEN -1 ELSE Min(hits) - 1
        /\ \A c \in Buf : length[c] \in 1..length[b] =>
              Prefix(Chunks(Memory, data[c]), k) = IsPrefix(text[c], t)

\* The segments and the lists of them are in order, and those that read them find
\* the bytes.
SegmentsSound == BufferTypeOK /\ SegmentsInOrder /\ RefsAreExact /\ ReadersAgree
=============================================================================

----------------------------- MODULE XCodecHash -----------------------------
(***************************************************************************)
(* XCodecHash: the rolling hash of the last SEGMENT_LENGTH bytes.  Two     *)
(* pairs of running sums, one over the bytes and one over the position of  *)
(* their lowest set bit, are mixed into one number.  The shifts and widths *)
(* are parameters, so that small instances have collisions.                *)
(***************************************************************************)
EXTENDS Naturals, Sequences, SequencesExt

CONSTANTS SEGMENT_LENGTH,   \* XCODEC_SEGMENT_LENGTH (2048 in the code)
          SUM_MOD,          \* the sums are uint32_t: 2^32
          BITS_SHIFT, BYTES_SHIFT, MIX_SHIFT,   \* 2^16, 2^20, 2^36
          HASH_MOD          \* the hash is uint64_t: 2^64

ASSUME HashAssumption ==
    /\ SEGMENT_LENGTH \in Nat \ {0}
    /\ {SUM_MOD, BITS_SHIFT, BYTES_SHIFT, MIX_SHIFT, HASH_MOD} \subseteq Nat \ {0}

\* The place of the lowest set bit, counted from 1; 0 when there is none.
ffs(ch) == IF ch = 0 THEN 0
           ELSE CHOOSE i \in 1..8 : /\ ch % (2 ^ i) # 0
                                    /\ ch % (2 ^ (i - 1)) = 0
Word(ch) == ch + 1

\* XCodecHash::RollingHash
NewSums == [sum1 |-> 0, sum2 |-> 0, buffer |-> [i \in 0..SEGMENT_LENGTH - 1 |-> 0]]
SumsAdd(s, ch, start) ==
    LET sum1 == (s.sum1 + ch) % SUM_MOD
    IN [sum1 |-> sum1, sum2 |-> (s.sum2 + sum1) % SUM_MOD,
        buffer |-> [s.buffer EXCEPT ![start] = ch]]
Minus(a, b) == (a + SUM_MOD - (b % SUM_MOD)) % SUM_MOD

\* Mutant: the byte that leaves is taken out of the second sum once only.
SumsRollOnce(s, ch, start) ==
    LET dead == s.buffer[start]
    IN SumsAdd([s EXCEPT !.sum1 = Minus(@, dead), !.sum2 = Minus(@, dead)], ch, start)

SumsRoll(s, ch, start) ==
    LET dead == s.buffer[start]
    IN SumsAdd([s EXCEPT !.sum1 = Minus(@, dead),
                         !.sum2 = Minus(@, dead * SEGMENT_LENGTH)], ch, start)

\* The constructor, add, reset, roll and mix.  reset leaves the buffers.
NewHash == [bytes |-> NewSums, bits |-> NewSums, start |-> 0, length |-> 0]
Add(h, ch) == [bytes |-> SumsAdd(h.bytes, Word(ch), h.start),
               bits |-> SumsAdd(h.bits, ffs(ch), h.start),
               start |-> (h.start + 1) % SEGMENT_LENGTH, length |-> h.length + 1]
Reset(h) == [bytes |-> [h.bytes EXCEPT !.sum1 = 0, !.sum2 = 0],
             bits |-> [h.bits EXCEPT !.sum1 = 0, !.sum2 = 0],
             start |-> 0, length |-> 0]
Roll(h, ch) == [bytes |-> SumsRoll(h.bytes, Word(ch), h.start),
                bits |-> SumsRoll(h.bits, ffs(ch), h.start),
                start |-> (h.start + 1) % SEGMENT_LENGTH, length |-> h.length]
Mix(h) ==
    LET bits_hash == (h.bits.sum1 * BITS_SHIFT + h.bits.sum2) % SUM_MOD
        bytes_hash == (h.bytes.sum1 * BYTES_SHIFT + h.bytes.sum2) % SUM_MOD
    IN (bits_hash * MIX_SHIFT + bytes_hash) % HASH_MOD

\* The static XCodecHash::hash of a segment.
HashOf(data) == Mix(FoldLeft(Add, NewHash, data))
=============================================================================

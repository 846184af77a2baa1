---------------------------- MODULE XCodecWindow ----------------------------
(***************************************************************************)
(* XCodecWindow: the ring of the last WINDOW_COUNT hashes declared or      *)
(* referenced in one direction of one stream.  The encoder and the decoder *)
(* each own one.  A slot number is what <BACKREF> carries, so the two must *)
(* stay equal.  A slot that was never used holds hash 0, which is why hash *)
(* 0 itself can never be stored.                                           *)
(***************************************************************************)
EXTENDS Naturals, StdMap

CONSTANTS Hash,          \* the uint64_t hashes
          Segment,       \* the BufferSegments of XCODEC_SEGMENT_LENGTH bytes
          WINDOW_COUNT   \* XCODEC_WINDOW_COUNT (256 in the code)

ASSUME WindowAssumption == /\ WINDOW_COUNT \in Nat \ {0}
                           /\ Hash \subseteq Nat

Slot == 0..(WINDOW_COUNT - 1)

\* The members of the class.
Window == [window : [Slot -> Hash \cup {0}], cursor : Slot,
           present : MapOf(Hash \ {0}, Slot), segments : MapOf(Hash \ {0}, Segment)]

\* XCodecWindow::XCodecWindow
EmptyWindow == [window   |-> [b \in Slot |-> 0],
                cursor   |-> 0,
                present  |-> EmptyMap,
                segments |-> EmptyMap]

\* XCodecWindow::declare.  Erasing the old hash of a slot that was never
\* used erases nothing: hash 0 is not a key of either map.
Declare(w, hash, seg) ==
    IF hash = 0 \/ hash \in DOMAIN w.present THEN w
    ELSE LET old == w.window[w.cursor] IN
         [window   |-> [w.window EXCEPT ![w.cursor] = hash],
          cursor   |-> (w.cursor + 1) % WINDOW_COUNT,
          present  |-> Insert(Erase(w.present, old), hash, w.cursor),
          segments |-> Insert(Erase(w.segments, old), hash, seg)]

\* XCodecWindow::present, without its out parameter; the slot is
\* w.present[hash].
Present(w, hash) == hash \in DOMAIN w.present

\* XCodecWindow::dereference: whether the slot yields a segment, and which.
Holds(w, c) == w.window[c] # 0
Dereference(w, c) == w.segments[w.window[c]]

\* The ASSERTs of declare, present and dereference, for every argument they
\* could be called with.
AssertsHold(w) ==
    /\ LET old == w.window[w.cursor] IN
       old # 0 => /\ old \in DOMAIN w.present
                  /\ w.present[old] = w.cursor
                  /\ old \in DOMAIN w.segments
    /\ \A hash \in DOMAIN w.present : w.window[w.present[hash]] = hash
    /\ \A c \in Slot : Holds(w, c) => w.window[c] \in DOMAIN w.segments

\* present_ is exactly the inverse of the used part of window_, and
\* segments_ has the same keys.
WindowInv(w) ==
    /\ w \in Window
    /\ DOMAIN w.segments = DOMAIN w.present
    /\ \A h \in DOMAIN w.present : w.window[w.present[h]] = h
    /\ \A c \in Slot : w.window[c] # 0 => /\ w.window[c] \in DOMAIN w.present
                                          /\ w.present[w.window[c]] = c
=============================================================================

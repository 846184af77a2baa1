--------------------------- MODULE SharedSegment ---------------------------
(***************************************************************************)
(* One BufferSegment (common/buffer.h) and the references to it, in        *)
(* Buffers that belong to different threads.  No lock is taken: the        *)
(* reference count (common/refcount.h) is atomic, and the comment at the   *)
(* head of buffer.h argues that this suffices.                             *)
(*                                                                         *)
(* A reference is used by one thread at a time, and each of its steps is   *)
(* one access to the count or one use of the data.  A segment is also      *)
(* written in place: by skip, trim, cut and append when exclusive() said   *)
(* that this is the only reference.                                        *)
(***************************************************************************)
EXTENDS Naturals, FiniteSets

CONSTANT Reference   \* the places a pointer to the segment can be in

ASSUME ReferenceFinite == IsFiniteSet(Reference) /\ Reference # {}

VARIABLES refs,     \* refs_
          at,       \* [Reference -> where the thread that uses it is]
          seen,     \* [Reference -> Nat]: r in RefCount::drop
          deleted   \* the segment was deleted

sharedVars == <<refs, at, seen, deleted>>

\* A reference that is idle, in the middle of an operation, or being dropped,
\* up to the cmpset that takes it off the count.
Holding == {"idle", "write", "copy", "load", "cmpset"}
Places == {"none", "delete"} \cup Holding

Holders == {x \in Reference : at[x] \in Holding}

Go(x, to) == at' = [at EXCEPT ![x] = to]

\* create: the segment has one reference.
Creator == CHOOSE x \in Reference : TRUE

SharedInit ==
    /\ refs = 1
    /\ at = [x \in Reference |-> IF x = Creator THEN "idle" ELSE "none"]
    /\ seen = [x \in Reference |-> 0]
    /\ deleted = FALSE

\* append(BufferSegment *) to another Buffer, which another thread may then take
\* over
Hold(x, y) ==
    /\ at[x] = "idle" /\ at[y] = "none"
    /\ refs' = refs + 1
    /\ Go(y, "idle")
    /\ UNCHANGED <<seen, deleted>>

\* skip, trim, cut, append: exclusive() decides what the operation does.
Modify(x) ==
    /\ at[x] = "idle"
    /\ Go(x, IF refs = 1 THEN "write" ELSE "copy")
    /\ UNCHANGED <<refs, seen, deleted>>

\* offset_, length_ and the data were changed in place.
Written(x) ==
    /\ at[x] = "write"
    /\ Go(x, "idle")
    /\ UNCHANGED <<refs, seen, deleted>>

\* The bytes were copied to a new segment, and unref is called on this one.
Copied(x) ==
    /\ at[x] = "copy"
    /\ Go(x, "load")
    /\ UNCHANGED <<refs, seen, deleted>>

\* unref, without an operation: clear, and the destructor of a Buffer
Drop(x) ==
    /\ at[x] = "idle"
    /\ Go(x, "load")
    /\ UNCHANGED <<refs, seen, deleted>>

\* RefCount::drop
Load(x) ==
    /\ at[x] = "load"
    /\ seen' = [seen EXCEPT ![x] = refs]
    /\ Go(x, "cmpset")
    /\ UNCHANGED <<refs, deleted>>

\* Mutant: a plain store in place of the cmpset.
CmpsetStore(x) ==
    /\ at[x] = "cmpset"
    /\ refs' = seen[x] - 1
    /\ Go(x, IF seen[x] = 1 THEN "delete" ELSE "none")
    /\ UNCHANGED <<seen, deleted>>

Cmpset(x) ==
    /\ at[x] = "cmpset"
    /\ IF refs = seen[x]
       THEN /\ refs' = seen[x] - 1
            /\ Go(x, IF seen[x] = 1 THEN "delete" ELSE "none")
       ELSE /\ Go(x, "load")
            /\ UNCHANGED refs
    /\ UNCHANGED <<seen, deleted>>

Delete(x) ==
    /\ at[x] = "delete"
    /\ deleted' = TRUE
    /\ Go(x, "none")
    /\ UNCHANGED <<refs, seen>>

SharedNext ==
    \E x \in Reference :
        \/ Modify(x) \/ Written(x) \/ Copied(x) \/ Drop(x)
        \/ Load(x) \/ Cmpset(x) \/ Delete(x)
        \/ \E y \in Reference : Hold(x, y)

SharedSpec == SharedInit /\ [][SharedNext]_sharedVars

SharedTypeOK ==
    /\ refs \in Nat
    /\ at \in [Reference -> Places]
    /\ seen \in [Reference -> Nat]
    /\ deleted \in BOOLEAN

\* The count is the number of references that were not dropped; the segment is
\* deleted, once, by the thread that dropped the last one.
CountIsExact ==
    /\ refs = Cardinality(Holders)
    /\ \A x \in Reference : at[x] = "delete" =>
          ~deleted /\ Holders = {} /\ \A y \in Reference : at[y] = "delete" => y = x
    /\ deleted => Holders = {}

\* "Atomic reference counting should be sufficient": while one thread writes a
\* segment in place no other has a reference to it.
WriterIsAlone == \A x \in Reference : at[x] = "write" => Holders = {x}

\* BufferSegments that threads share are counted exactly, deleted once, and
\* changed in place by whoever holds the only reference, without a lock.
SharedInv == SharedTypeOK /\ CountIsExact /\ WriterIsAlone
=============================================================================

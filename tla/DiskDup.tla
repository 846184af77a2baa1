------------------------------ MODULE DiskDup -------------------------------
(***************************************************************************)
(* The program diskdup: it reads a block of the source and of the target   *)
(* at once, and writes to the target the block that differs, until one of  *)
(* the two has ended or something fails; then it closes both.              *)
(*                                                                         *)
(* A volume is the sequence of its whole blocks; a part of a block at its  *)
(* end comes with EOS, which is the same to the program as no part.  The   *)
(* Handle of each volume is module IOHandle, here reduced to the answers   *)
(* it gives: Done, EOS or an error, whenever it is ready to.               *)
(***************************************************************************)
EXTENDS Naturals, Sequences

CONSTANTS Block,     \* what a block may hold
          Volumes,   \* what the volumes may hold: sequences of blocks
          Torn,      \* a block of which only a part was written
          None       \* no block: an empty Buffer

Side == {"source", "target"}

VARIABLES
    original,      \* what the volumes held at first
    volume,        \* what they hold
    block,         \* block_number_
    action,        \* source_action_ and target_action_: what each is of, or "none"
    buffer,        \* source_buffer_ and target_buffer_
    written,       \* write_buffer_ of the target's Handle
    handle,        \* source_ and target_: "open", "closed" or "deleted"
    failed,        \* an operation has failed
    bad            \* the checks that failed

dupVars == <<original, volume, block, action, buffer, written, handle, failed, bad>>

Other(s) == IF s = "source" THEN "target" ELSE "source"
Both(v) == [s \in Side |-> v]
Check(holds) == bad' = IF holds THEN bad ELSE bad \cup {"assert"}

\* DiskDup::DiskDup
DupInit ==
    /\ original \in [Side -> Volumes] /\ volume = original
    /\ block = 0 /\ action = Both("read") /\ buffer = Both(None) /\ written = None
    /\ handle = Both("open") /\ failed = FALSE /\ bad = {}
-----------------------------------------------------------------------------
\* Mutant: the blocks that were read before stay in the buffers.
ScheduleReadKeeps(n, read) == block' = n /\ buffer' = read /\ action' = Both("read")

\* DiskDup::schedule_read of block n, with the buffers as read says before it.
ScheduleRead(n, read) == block' = n /\ buffer' = Both(None) /\ action' = Both("read")

\* DiskDup::schedule_write: the Handle takes what is in source_buffer_.
ScheduleWrite(read) ==
    /\ written' = read["source"] /\ buffer' = [read EXCEPT !["source"] = None]
    /\ action' = [source |-> "none", target |-> "write"]
    /\ UNCHANGED block

\* Mutant: only the volume that was heard of is closed.
ScheduleCloseOne(s) ==
    /\ action' = [action EXCEPT ![s] = "close"] /\ handle' = [handle EXCEPT ![s] = "closed"]
    /\ UNCHANGED <<block, buffer>>

\* DiskDup::schedule_close, when s has answered: what the other volume was asked
\* for is cancelled, and both are closed.
ScheduleClose(s) ==
    /\ action' = Both("close") /\ handle' = Both("closed")
    /\ UNCHANGED <<block, buffer>>
-----------------------------------------------------------------------------
(***************************************************************************)
(* DiskDup::read_complete, with a block, EOS or an error.                  *)
(***************************************************************************)
ReadDone(s) ==
    /\ action[s] = "read" /\ block < Len(volume[s])
    /\ LET read == [buffer EXCEPT ![s] = volume[s][block + 1]] IN
       \/ /\ read[Other(s)] = None
          /\ buffer' = read /\ action' = [action EXCEPT ![s] = "none"]
          /\ UNCHANGED <<block, written, bad>>
       \/ /\ read[Other(s)] # None /\ Check(action[Other(s)] = "none")
          /\ \/ read["source"] # read["target"] /\ ScheduleWrite(read)
             \/ /\ read["source"] = read["target"]
                /\ ScheduleRead(block + 1, read) /\ UNCHANGED written
    /\ UNCHANGED <<original, volume, handle, failed>>

ReadEnds(s) ==
    /\ action[s] = "read" /\ block >= Len(volume[s])
    /\ ScheduleClose(s)
    /\ UNCHANGED <<original, volume, written, failed, bad>>

ReadFails(s) ==
    /\ action[s] = "read"
    /\ ScheduleClose(s) /\ failed' = TRUE
    /\ UNCHANGED <<original, volume, written, bad>>

(***************************************************************************)
(* DiskDup::write_complete, when all of the block is written, or with an   *)
(* error, when none, a part or all of it may be.                           *)
(***************************************************************************)
WriteDone ==
    /\ action["target"] = "write"
    /\ volume' = [volume EXCEPT !["target"][block + 1] = written] /\ written' = None
    /\ Check(action["source"] = "none" /\ written # None)
    /\ ScheduleRead(block + 1, buffer)
    /\ UNCHANGED <<original, handle, failed>>

\* Mutant: an error is taken for the end of the write.
WriteFailsOn ==
    /\ action["target"] = "write"
    /\ \E b \in {volume["target"][block + 1], Torn, written} :
         volume' = [volume EXCEPT !["target"][block + 1] = b]
    /\ ScheduleRead(block + 1, buffer) /\ failed' = TRUE /\ written' = None
    /\ UNCHANGED <<original, handle, bad>>

WriteFails ==
    /\ action["target"] = "write"
    /\ \E b \in {volume["target"][block + 1], Torn, written} :
         volume' = [volume EXCEPT !["target"][block + 1] = b]
    /\ Check(action["source"] = "none")
    /\ ScheduleClose("target") /\ failed' = TRUE
    /\ UNCHANGED <<original, written>>

\* DiskDup::close_complete; after both, the DiskDup deletes itself.
CloseComplete(s) ==
    /\ action[s] = "close"
    /\ action' = [action EXCEPT ![s] = "none"] /\ handle' = [handle EXCEPT ![s] = "deleted"]
    /\ UNCHANGED <<original, volume, block, buffer, written, failed, bad>>

Answers == WriteDone \/ WriteFails \/ \E s \in Side : ReadDone(s) \/ ReadEnds(s) \/ CloseComplete(s)

DupNext == Answers \/ \E s \in Side : ReadFails(s)

\* The Handles answer what they are asked.
DupFairSpec == DupInit /\ [][DupNext]_dupVars /\ WF_dupVars(Answers)
-----------------------------------------------------------------------------
\* The types of the members of DiskDup.
DiskDupTypeOK ==
    /\ action \in [Side -> {"read", "write", "close", "none"}]
    /\ handle \in [Side -> {"open", "closed", "deleted"}]
    /\ block \in 0..Len(volume["source"]) /\ block <= Len(volume["target"])

\* The assertions of read_complete, write_complete and schedule_write hold: a block is
\* compared when both volumes have answered for it, and a closed volume is asked for
\* nothing.
DiskDupAsserts ==
    /\ bad = {}
    /\ \A s \in Side : handle[s] # "open" => action[s] \in {"close", "none"}
    /\ \A s \in Side : buffer[s] # None /\ handle[s] = "open" =>
         action[s] # "read" /\ buffer[s] = volume[s][block + 1]

\* The blocks that were passed are those of the source, those that come are as they
\* were, and only a write that failed leaves the one in between neither; the source
\* and the ends of both are as they were; when both volumes are closed and
\* nothing has failed, all that the target had room for is copied.
BlocksAreCopied ==
    /\ volume["source"] = original["source"]
    /\ Len(volume["target"]) = Len(original["target"])
    /\ \A b \in 1..Len(volume["target"]) :
         /\ b <= block => volume["target"][b] = original["source"][b]
         /\ b > block + 1 => volume["target"][b] = original["target"][b]
         /\ b = block + 1 /\ ~failed => volume["target"][b] = original["target"][b]
    /\ ~failed /\ (\E s \in Side : handle[s] # "open") =>
         \E s \in Side : block = Len(original[s])

\* What keeps the above: the volumes are open together, a write is of the source's
\* block to where it belongs, and who is not waited for any more has the block in
\* its buffer.
DiskDupInv ==
    /\ original \in [Side -> Seq(Block)] /\ volume \in [Side -> Seq(Block \cup {Torn})]
    /\ buffer \in [Side -> Block \cup {None}]
    /\ block \in Nat /\ \A s \in Side : block <= Len(volume[s])
    /\ DiskDupTypeOK /\ DiskDupAsserts /\ BlocksAreCopied
    /\ handle["source"] = "open" <=> handle["target"] = "open"
    /\ \A s \in Side :
         /\ handle[s] = "open" => ~failed /\ action[s] # "close"
         /\ handle[s] = "open" /\ buffer[s] # None => block < Len(volume[s])
    /\ action["source"] # "write"
    /\ action["target"] = "write" =>
         /\ action["source"] = "none" /\ written = original["source"][block + 1]
         /\ block < Len(volume["source"]) /\ block < Len(volume["target"])

\* The program ends, with both volumes closed.
DiskDupEnds == <>(handle = Both("deleted"))
=============================================================================

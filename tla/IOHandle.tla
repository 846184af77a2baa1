------------------------------ MODULE IOHandle ------------------------------
(***************************************************************************)
(* IOSystem::Handle on a socket: reads and writes that the descriptor      *)
(* cannot satisfy at once wait for EventPoll, and go on in the IOSystem's  *)
(* CallbackThread.  The user of the Handle reads, writes, cancels and      *)
(* closes in the EventThread, where its callbacks execute too.             *)
(*                                                                         *)
(* What the Handle does while it holds its mtx_ is one step.  The user     *)
(* does nothing after an error, an EOS or a cancellation but close.        *)
(* Offsets are not modelled: read_offset_ and write_offset_ are -1.        *)
(***************************************************************************)
EXTENDS EventPoll

CONSTANTS
    ReadSize,      \* IO_READ_BUFFER_SIZE
    Space,         \* what the kernel's send buffer holds
    ReadAmounts,   \* the amounts the user asks for; 0 is any amount
    WriteAmounts,  \* the amounts the user writes at once
    MaxIn,         \* bound: bytes that arrive
    MaxOut         \* bound: bytes that the user writes

ASSUME HandleAssumption ==
    /\ ReadSize \in Nat \ {0} /\ Space \in Nat \ {0}
    /\ ReadAmounts \subseteq Nat /\ WriteAmounts \subseteq Nat \ {0}
    /\ MaxIn \in Nat /\ MaxOut \in Nat

VARIABLES
    arrived, eof, reset,   \* the kernel: bytes received so far, the peer's
                           \* shutdown and its reset
    space,                 \* the room in the kernel's send buffer
    taken, accepted,       \* bytes read from and written to the kernel so far
    readBuffer,            \* read_buffer_: bytes are named by their position
    readAmount,            \* read_amount_
    writeBuffer,           \* the length of write_buffer_
    callback,              \* whether read_callback_ and write_callback_ are set
    action,                \* read_action_ and write_action_: "none", "poll" or
                           \* "user", the Action of the user's callback
    fd,                    \* "open", "closed" or "detached"
    user,                  \* per direction: "idle", "eos", "error", "cancelled", or
                           \* the Action the user has: "direct", that of its own
                           \* callback, or "handle", that of read_cancel
    scheduled,             \* the user's callback in the EventThread, or NULL
    asked, delivered, given,   \* what the user last asked for, the bytes it
                               \* has received, and how many it has written
    bad                    \* the checks that failed

kernelVars == <<arrived, eof, reset, space>>
readVars == <<readBuffer, readAmount, taken>>
writeVars == <<writeBuffer, accepted>>
handleVars == <<callback, action, fd>>
userVars == <<user, scheduled, asked, delivered, given>>
vars == <<pollVars, kernelVars, readVars, writeVars, handleVars, userVars, bad>>

Init ==
    /\ PollInit
    /\ arrived = 0 /\ eof = FALSE /\ reset = FALSE /\ space = Space
    /\ readBuffer = <<>> /\ readAmount = 0 /\ taken = 0
    /\ writeBuffer = 0 /\ accepted = 0
    /\ callback = [d \in Dir |-> FALSE] /\ action = [d \in Dir |-> "none"] /\ fd = "open"
    /\ user = [d \in Dir |-> "idle"] /\ scheduled = [d \in Dir |-> NULL]
    /\ asked = 0 /\ delivered = <<>> /\ given = 0
    /\ bad = {}

Bytes(first, last) == [i \in 1..(last - first + 1) |-> first + i - 1]
Least(a, b) == IF a < b THEN a ELSE b
-----------------------------------------------------------------------------
(***************************************************************************)
(* The kernel and the peer.                                                *)
(***************************************************************************)
Arrive ==
    /\ arrived < MaxIn /\ ~eof /\ ~reset /\ fd = "open"
    /\ arrived' = arrived + 1
    /\ UNCHANGED <<pollVars, eof, reset, space, readVars, writeVars, handleVars, userVars, bad>>

Eof ==
    /\ ~eof /\ ~reset /\ fd = "open"
    /\ eof' = TRUE
    /\ UNCHANGED <<pollVars, arrived, reset, space, readVars, writeVars, handleVars, userVars, bad>>

Reset ==
    /\ ~reset /\ fd = "open"
    /\ reset' = TRUE
    /\ UNCHANGED <<pollVars, arrived, eof, space, readVars, writeVars, handleVars, userVars, bad>>

Drain ==
    /\ space < Space /\ ~reset /\ fd = "open"
    /\ space' = Space
    /\ UNCHANGED <<pollVars, arrived, eof, reset, readVars, writeVars, handleVars, userVars, bad>>

\* The events each filter can fire with.
Events ==
    [d \in Dir |->
       IF d = "read"
       THEN (IF arrived > taken THEN {"Done"} ELSE {})
              \cup (IF eof THEN {"EOS"} ELSE {}) \cup (IF reset THEN {"EOS", "Error"} ELSE {})
       ELSE (IF space > 0 THEN {"Done"} ELSE {})
              \cup (IF reset THEN {"Done", "Error"} ELSE {})]
-----------------------------------------------------------------------------
(***************************************************************************)
(* read_do and write_do.  Each yields the event for the user's callback,   *)
(* or "none" when it returns NULL, and the buffer it leaves.               *)
(***************************************************************************)
Nothing(buffer, t) ==
    [event |-> "none", data |-> <<>>, buffer |-> buffer, taken |-> t]

\* The read is complete: its amount, or all there is, goes to the user.
Complete(buffer, amount, t) ==
    LET n == IF amount = 0 THEN Len(buffer) ELSE amount
    IN  [event |-> "Done", data |-> SubSeq(buffer, 1, n),
         buffer |-> SubSeq(buffer, n + 1, Len(buffer)), taken |-> t]

\* Mutant: an EOS event from the poll ends the stream at once.
ReadDoEos(buffer, amount) ==
    LET n == Least(arrived - taken, ReadSize)
        more == buffer \o Bytes(taken + 1, taken + n)
    IN
    IF buffer # <<>> /\ Len(buffer) >= amount THEN Complete(buffer, amount, taken)
    ELSE IF reset THEN [event |-> "Error", data |-> buffer, buffer |-> <<>>, taken |-> taken]
    ELSE IF eof THEN [event |-> "EOS", data |-> buffer, buffer |-> <<>>, taken |-> taken]
    ELSE IF n = 0 THEN Nothing(buffer, taken)
    ELSE IF Len(more) >= amount THEN Complete(more, amount, taken + n)
    ELSE Nothing(more, taken + n)

\* IOSystem::Handle::read_do
ReadDo(buffer, amount) ==
    LET n == Least(arrived - taken, ReadSize)
        more == buffer \o Bytes(taken + 1, taken + n)
    IN
    IF buffer # <<>> /\ Len(buffer) >= amount THEN Complete(buffer, amount, taken)
    ELSE IF reset THEN [event |-> "Error", data |-> buffer, buffer |-> <<>>, taken |-> taken]
    ELSE IF n = 0
    THEN IF eof THEN [event |-> "EOS", data |-> buffer, buffer |-> <<>>, taken |-> taken]
         ELSE Nothing(buffer, taken)
    ELSE IF Len(more) >= amount THEN Complete(more, amount, taken + n)
    ELSE Nothing(more, taken + n)

\* Mutant: a partial write completes the user's write.
WriteDoPartial(n) ==
    LET m == Least(n, space) IN
    IF reset THEN [event |-> "Error", count |-> 0]
    ELSE [event |-> IF m > 0 THEN "Done" ELSE "none", count |-> m]

\* IOSystem::Handle::write_do, for a write_buffer_ of n bytes.
WriteDo(n) ==
    LET m == Least(n, space) IN
    IF reset THEN [event |-> "Error", count |-> 0]
    ELSE [event |-> IF m = n THEN "Done" ELSE "none", count |-> m]
-----------------------------------------------------------------------------
(***************************************************************************)
(* The outcome: the user's callback is scheduled, or the Handle will poll. *)
(***************************************************************************)
Schedule(d, event, data) ==
    /\ callback' = [callback EXCEPT ![d] = event = "none"]
    /\ scheduled' = [scheduled EXCEPT
                       ![d] = IF event = "none" THEN NULL ELSE [event |-> event, data |-> data]]

\* For a read of the given amount, ...
ReadOutcome(amount) ==
    LET r == ReadDo(readBuffer, amount) IN
    /\ readBuffer' = r.buffer /\ taken' = r.taken
    /\ readAmount' = IF r.event = "none" THEN amount ELSE 0
    /\ Schedule("read", r.event, r.data)
    /\ UNCHANGED <<writeVars, space>>

\* ... and for a write_buffer_ of n bytes.
WriteOutcome(n) ==
    LET w == WriteDo(n) IN
    /\ writeBuffer' = n - w.count /\ accepted' = accepted + w.count
    /\ space' = space - w.count
    /\ Schedule("write", w.event, <<>>)
    /\ UNCHANGED readVars

\* IOSystem::read and IOSystem::write, once the outcome is known.
Begin(d) ==
    /\ IF callback'[d]
       THEN /\ Poll(d)
            /\ action' = [action EXCEPT ![d] = "poll"]
            /\ user' = [user EXCEPT ![d] = "handle"]
       ELSE user' = [user EXCEPT ![d] = "direct"] /\ UNCHANGED <<handler, filter, action>>
    /\ bad' = IF \/ callback[d] \/ action[d] # "none"
                 \/ callback'[d] /\ handler[d] # "none"
                 \/ d = "write" /\ writeBuffer # 0
              THEN bad \cup {"assert"} ELSE bad
    /\ UNCHANGED <<batch, pollMain, pollStop, queue, running, inflight, fd, delivered,
                   arrived, eof, reset>>

\* IOSystem::read
Read(n) ==
    /\ user["read"] = "idle" /\ fd = "open"
    /\ ReadOutcome(n) /\ asked' = n
    /\ Begin("read")
    /\ UNCHANGED given

\* IOSystem::write
Write(n) ==
    /\ user["write"] = "idle" /\ fd = "open" /\ given + n <= MaxOut
    /\ WriteOutcome(writeBuffer + n) /\ given' = given + n
    /\ Begin("write")
    /\ UNCHANGED asked

\* Handle::read_callback and Handle::write_callback, in the IOSystem's thread,
\* whatever has become of the Handle since the callback was taken.
HandleCallback ==
    /\ running # NULL
    /\ LET d == running[1] IN
       IF fd = "detached" \/ action[d] = "none"
       THEN /\ bad' = bad \cup {IF fd = "detached" THEN "freed" ELSE "NULL"}
            /\ UNCHANGED <<pollVars, kernelVars, readVars, writeVars, handleVars, userVars>>
       ELSE /\ IF running[2] = "Error"
               THEN Schedule(d, "Error", <<>>) /\ UNCHANGED <<readVars, writeVars, space>>
               ELSE IF d = "read" THEN ReadOutcome(readAmount)
               ELSE WriteOutcome(writeBuffer)
            /\ CancelPoll(d, callback'[d])
            /\ action' = [action EXCEPT ![d] = IF callback'[d] THEN "poll" ELSE "user"]
            /\ running' = NULL
            /\ bad' = IF inflight' THEN bad \cup {"HALT"} ELSE bad
            /\ UNCHANGED <<batch, pollMain, pollStop, fd, arrived, eof, reset, user, asked,
                           delivered, given>>
-----------------------------------------------------------------------------
\* The user's callback executes.  It cancels its Action, which for a Handle's is
\* read_cancel or write_cancel.
UserCallback(d) ==
    /\ scheduled[d] # NULL
    /\ scheduled' = [scheduled EXCEPT ![d] = NULL]
    /\ delivered' = delivered \o scheduled[d].data
    /\ user' = [user EXCEPT ![d] = CASE scheduled[d].event = "Done" -> "idle"
                                     [] scheduled[d].event = "EOS" -> "eos"
                                     [] scheduled[d].event = "Error" -> "error"]
    /\ action' = [action EXCEPT ![d] = "none"]
    /\ bad' = IF user[d] = "handle" /\ action[d] = "none" THEN bad \cup {"assert"} ELSE bad
    /\ UNCHANGED <<pollVars, kernelVars, readVars, writeVars, callback, fd, asked, given>>

\* The user cancels what it waits for: Handle::read_cancel or write_cancel, or
\* the cancellation of its callback in the EventThread.
UserCancel(d) ==
    /\ user[d] \in {"direct", "handle"}
    /\ user' = [user EXCEPT ![d] = "cancelled"]
    /\ scheduled' = [scheduled EXCEPT ![d] = NULL]
    /\ action' = [action EXCEPT ![d] = "none"]
    /\ callback' = [callback EXCEPT ![d] = FALSE]
    /\ IF action[d] = "poll"
       THEN CancelPoll(d, FALSE)
       ELSE UNCHANGED <<handler, filter, queue, inflight>>
    /\ bad' = IF user[d] = "handle" /\ action[d] = "none" THEN bad \cup {"assert"} ELSE bad
    /\ UNCHANGED <<batch, pollMain, pollStop, running, kernelVars, readVars, writeVars, fd,
                   asked, delivered, given>>

\* IOSystem::close.  The kernel drops the filters of a closed descriptor.
Close ==
    /\ fd = "open" /\ \A d \in Dir : user[d] \notin {"direct", "handle"}
    /\ fd' = "closed" /\ filter' = [d \in Dir |-> FALSE]
    /\ bad' = IF \E d \in Dir : callback[d] \/ action[d] # "none"
              THEN bad \cup {"assert"} ELSE bad
    /\ UNCHANGED <<handler, batch, pollMain, pollStop, queue, running, inflight, kernelVars,
                   readVars, writeVars, callback, action, userVars>>

\* IOSystem::detach, which deletes the Handle.
Detach ==
    /\ fd = "closed"
    /\ fd' = "detached"
    /\ UNCHANGED <<pollVars, kernelVars, readVars, writeVars, callback, action, userVars, bad>>

Other == <<kernelVars, readVars, writeVars, handleVars, userVars, bad>>

PollStep == (PollStop \/ Kevent(Events) \/ Dispatch \/ Take) /\ UNCHANGED Other

Kernel == Arrive \/ Eof \/ Reset \/ Drain

User ==
    \/ \E n \in ReadAmounts : Read(n)
    \/ \E n \in WriteAmounts : Write(n)
    \/ \E d \in Dir : UserCallback(d) \/ UserCancel(d)
    \/ Close \/ Detach

\* A failed check ends the process.
Next == bad = {} /\ (PollStep \/ Kernel \/ HandleCallback \/ User)

Spec == Init /\ [][Next]_vars

\* The threads run, the user's callbacks execute, and the peer reads what it is
\* sent.
Fairness ==
    /\ WF_vars(bad = {} /\ Kevent(Events) /\ UNCHANGED Other)
    /\ WF_vars(bad = {} /\ Dispatch /\ UNCHANGED Other)
    /\ WF_vars(bad = {} /\ Take /\ UNCHANGED Other)
    /\ WF_vars(bad = {} /\ HandleCallback)
    /\ \A d \in Dir : WF_vars(bad = {} /\ UserCallback(d))
    /\ WF_vars(bad = {} /\ Drain)

FairSpec == Spec /\ Fairness
-----------------------------------------------------------------------------
\* The types of the Handle's members and of the user's state.
HandleTypeOK ==
    /\ PollTypeOK
    /\ arrived \in 0..MaxIn /\ taken \in 0..arrived /\ space \in 0..Space
    /\ accepted \in 0..given /\ given \in 0..MaxOut
    /\ readBuffer \in Seq(1..MaxIn) /\ delivered \in Seq(1..MaxIn)
    /\ callback \in [Dir -> BOOLEAN] /\ action \in [Dir -> {"none", "poll", "user"}]
    /\ fd \in {"open", "closed", "detached"}
    /\ user \in [Dir -> {"idle", "direct", "handle", "eos", "error", "cancelled"}]
    /\ bad \subseteq {"assert", "HALT", "NULL", "freed"}

\* The assertions of IOSystem, of Handle and of EventPoll hold, and a callback
\* that executes has been cancelled, whatever the order of events,
\* cancellations and errors.
HandleAsserts == bad \cap {"assert", "HALT"} = {}

\* A read gets what it asked for, no more and no less.
ReadIsExact ==
    scheduled["read"] # NULL /\ scheduled["read"].event = "Done" =>
      LET n == Len(scheduled["read"].data) IN n > 0 /\ (asked > 0 => n = asked)

\* What the user has received, what is on its way to it and what the Handle
\* keeps is what arrived, in order: nothing is lost, repeated or reordered.
\* Only a cancelled or failed read may lose what it would have returned.
ReadInOrder ==
    LET coming == IF scheduled["read"] = NULL THEN <<>> ELSE scheduled["read"].data IN
    /\ IsPrefix(delivered, Bytes(1, taken))
    /\ user["read"] \in {"idle", "direct", "handle"} =>
         delivered \o coming \o readBuffer = Bytes(1, taken)

\* EOS comes after everything that was sent before it.
EosIsLast == user["read"] = "eos" => eof /\ delivered = Bytes(1, arrived)

\* A write that is reported as done is all in the kernel's hands, however often
\* it had to wait for room.
WriteIsComplete ==
    /\ scheduled["write"] # NULL /\ scheduled["write"].event = "Done" => accepted = given
    /\ accepted + writeBuffer = given

\* A closed descriptor has no handler and no callback left, so that its number
\* can be used again.
ClosedIsQuiet == fd # "open" => queue = <<>> /\ \A d \in Dir : handler[d] = "none"

\* A read that can be satisfied is answered, unless polling was stopped.
ReadCompletes ==
    /\ user["read"] = "handle"
    /\ eof \/ reset \/ Len(readBuffer) + arrived - taken >= IF asked = 0 THEN 1 ELSE asked
    ~> user["read"] # "handle" \/ pollStop \/ bad # {}

\* A write is answered, unless polling was stopped.
WriteCompletes == user["write"] = "handle" ~> user["write"] # "handle" \/ pollStop \/ bad # {}

\* The members of Handle and EventPoll have their types, their assertions hold,
\* and a closed descriptor has nothing left in EventPoll.
HandleInv == HandleTypeOK /\ HandleAsserts /\ ClosedIsQuiet

\* Reads yield the bytes that arrived, in order and in the amounts asked for, and
\* EOS after the last of them; a write is done when all its bytes are written.
TransferIsFaithful == ReadIsExact /\ ReadInOrder /\ EosIsLast /\ WriteIsComplete

\* IOSystem::read and IOSystem::write are answered, when they can be.
HandleProgress == ReadCompletes /\ WriteCompletes
=============================================================================

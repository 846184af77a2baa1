------------------------------- MODULE Splice -------------------------------
(***************************************************************************)
(* A Splice moves a byte stream from a source through a Pipe to a sink, or *)
(* straight from source to sink.  The Pipe is a PipeProducer, or a chain   *)
(* of them as WANProxyCodecPipePair makes it: the first two are joined by  *)
(* a PipeLink, that and the third by another, and so on, and in each link  *)
(* a PipeSplice feeds the output of what is before it to the Pipe behind.  *)
(* Pipe i is the i-th of the chain and link i the one between the pipes i  *)
(* and i + 1.                                                              *)
(*                                                                         *)
(* What consume() makes of the data is left open by the kind of Pipe:      *)
(*   "count", "deflate"   PipeByteCount, PipeNull and DeflatePipe: all of  *)
(*              it, at once                                                *)
(*   "inflate"  InflatePipe: may hold some back, may fail, and ends its    *)
(*              output if it is told of the end of a complete stream       *)
(*   "decode"   decoder_pipe_ of an XCodecPipePair: may hold some back, may *)
(*              fail, and ends its output when it sees the end of the      *)
(*              stream in it or is told of it                              *)
(*   "encode"   encoder_pipe_: also produces of its own accord, for the    *)
(*              other direction, which is here to hold something back; and *)
(*              when it has been told of the end, it may end its output    *)
(*              later, once both directions are acknowledged, or never     *)
(* A stream is complete with byte MaxBytes; the source may end earlier.    *)
(*                                                                         *)
(* Everything happens in the EventThread, one callback at a time, in the   *)
(* order in which callbacks were scheduled; only the source and the sink   *)
(* take their time.                                                        *)
(***************************************************************************)
EXTENDS Naturals, Sequences, SequencesExt

CONSTANTS MaxBytes,  \* bound: bytes of the stream, named by their position
          Chains     \* the chains of Pipes, as sequences of kinds

ASSUME SpliceAssumption ==
    /\ MaxBytes \in Nat
    /\ \A c \in Chains : \A i \in DOMAIN c :
          c[i] \in {"count", "deflate", "inflate", "encode", "decode"}

VARIABLES
    chain,     \* the kinds of the Pipes that pipe_ is made of; none if it is NULL
    read,      \* bytes read from the source so far
    pipes,     \* the PipeProducers: output_buffer_, output_eos_, error_, whether
               \* output_callback_ is set; what consume() was given
               \* and told of, and what it holds back
    links,     \* the PipeLinks: pipe_splice_error_, source_eos_ and what the
               \* PipeSplice waits for
    acts,      \* the Actions of the Splice that are not NULL
    events,    \* the callbacks scheduled in the EventThread
    readEos,   \* read_eos_
    outputEos, \* output_eos_
    callback,  \* "set" for callback_, "scheduled" for callback_action_, or "none"
    result,    \* the event of the callback once it is scheduled
    written,   \* the bytes handed to the sink
    shut,      \* the sink has been shut down for writing
    deleted,   \* the Pipes were deleted
    bad        \* the checks that failed

pipeVars == <<pipes, links, deleted>>
spliceVars == <<acts, readEos, outputEos, callback, result, written, shut>>
vars == <<chain, read, pipeVars, events, spliceVars, bad>>

Piped == chain # <<>>

Direct == {"count", "deflate"}

\* A callback of the Splice, for which of is 0, or of the PipeSplice of link of.
Event(of, action, type, data) ==
    [of |-> of, action |-> action, type |-> type, data |-> data]

\* Splice::start: the Splice reads, and waits for the Pipe's output, as the
\* PipeSplices have done since the PipeLinks were made.
Init ==
    /\ chain \in Chains /\ read = 0
    /\ pipes = [i \in DOMAIN chain |->
                  [fed |-> 0, told |-> FALSE, held |-> <<>>, buffer |-> <<>>, eos |-> FALSE,
                   error |-> FALSE, waiting |-> TRUE]]
    /\ links = [k \in 1..(Len(chain) - 1) |->
                  [waits |-> "output", sourceEos |-> FALSE, error |-> FALSE]]
    /\ acts = IF Piped THEN {"read", "output"} ELSE {"read"}
    /\ events = <<>> /\ readEos = FALSE /\ outputEos = FALSE
    /\ callback = "set" /\ result = "none" /\ written = <<>> /\ shut = FALSE
    /\ deleted = FALSE /\ bad = {}

Bytes(first, last) == [i \in 1..(last - first + 1) |-> first + i - 1]

Pending(action) ==
    action \in acts /\ \A i \in DOMAIN events : ~(events[i].of = 0 /\ events[i].action = action)

\* A check that the code makes.
Check(holds) == bad' = IF holds THEN bad ELSE bad \cup {"assert"}
-----------------------------------------------------------------------------
(***************************************************************************)
(* PipeProducer                                                            *)
(***************************************************************************)
\* Mutant: the end of the stream is looked at before the buffer.
OutputDoEosFirst(i, p) ==
    LET of == IF i = Len(chain) THEN 0 ELSE i IN
    IF p.error THEN <<Event(of, "output", "Error", <<>>)>>
    ELSE IF p.eos THEN <<Event(of, "output", "EOS", <<>>)>>
    ELSE IF p.buffer # <<>> THEN <<Event(of, "output", "Done", p.buffer)>>
    ELSE <<>>

\* PipeProducer::output_do: the event for the output callback, if there is one.
\* The output of pipe i goes to link i, and that of the last to the Splice.
OutputDo(i, p) ==
    LET of == IF i = Len(chain) THEN 0 ELSE i IN
    IF p.error THEN <<Event(of, "output", "Error", <<>>)>>
    ELSE IF p.buffer # <<>> THEN <<Event(of, "output", "Done", p.buffer)>>
    ELSE IF p.eos THEN <<Event(of, "output", "EOS", <<>>)>>
    ELSE <<>>

\* Mutant: the buffer is not cleared.
ServedTwice(i, p) == IF p.waiting THEN [p EXCEPT !.waiting = OutputDo(i, p) = <<>>] ELSE p

\* The PipeProducer after output_do, if an output callback waits.
Served(i, p) ==
    IF p.waiting THEN [p EXCEPT !.buffer = <<>>, !.waiting = OutputDo(i, p) = <<>>] ELSE p

\* What produce, produce_eos, produce_error and output schedule.
Output(i, p) == IF p.waiting THEN OutputDo(i, p) ELSE <<>>

\* produce of the first k of the bytes held, ...
Produce(p, k) ==
    [p EXCEPT !.buffer = @ \o SubSeq(p.held, 1, k), !.held = SubSeq(@, k + 1, Len(@))]

\* ... produce_eos with the first k of them, ...
ProduceEos(p, k) ==
    [p EXCEPT !.buffer = @ \o SubSeq(p.held, 1, k), !.held = <<>>, !.eos = TRUE]

\* ... and produce_error.
ProduceError(p) == IF p.eos THEN p ELSE [p EXCEPT !.buffer = <<>>, !.error = TRUE]

\* What consume() of the kinds of Pipe may do with the data and the end that p was
\* given.  At the end of a stream that is not complete InflatePipe produces no end,
\* and decoder_consume drops what it could not decode; encoder_consume only says in
\* its output that the stream has ended.
MayProduce(kind, p) ==
    LET complete == p.fed = MaxBytes
        some == {Produce(p, k) : k \in 0..Len(p.held)}
        all == {ProduceEos(p, Len(p.held))} IN
    IF p.eos \/ p.error THEN {p}
    ELSE CASE kind \in Direct -> IF p.told THEN all ELSE {Produce(p, Len(p.held))}
           [] kind = "inflate" -> IF p.told /\ complete THEN all ELSE some \cup {ProduceError(p)}
           [] kind = "decode" -> IF complete THEN all \cup {ProduceError(p)}
                                 ELSE IF p.told THEN {ProduceEos(p, 0)}
                                 ELSE some \cup {ProduceError(p)}
           [] kind = "encode" -> IF p.told THEN {Produce(p, Len(p.held))} ELSE some

\* What encoder_pipe_ may produce in decoder_consume of the same XCodecPipePair: <ASK>,
\* <LEARN> and <EOS_ACK>, and the end when the end of both directions has been
\* acknowledged.
MayProduceLater(p) ==
    IF p.eos \/ p.error THEN {}
    ELSE IF p.told THEN {ProduceEos(p, Len(p.held))}
    ELSE {Produce(p, k) : k \in 1..Len(p.held)}

\* PipeProducer::input: consume, for the end of the stream when data is empty.
Consumed(kind, p, data) ==
    IF p.error THEN {p}
    ELSE MayProduce(kind, [p EXCEPT !.fed = @ + Len(data), !.held = @ \o data,
                                    !.told = @ \/ data = <<>>])

\* input of pipe i, for the callback of of, and what it schedules.
Feed(i, of, data, rest) ==
    \E p \in Consumed(chain[i], pipes[i], data) :
        /\ pipes' = [pipes EXCEPT ![i] = Served(i, p)]
        /\ events' = rest \o Output(i, p) \o
                     <<Event(of, "input", IF p.error THEN "Error" ELSE "Done", <<>>)>>

\* output of pipe i, asked for through the PipeLink it ends, if it ends one.
Await(i, rest) ==
    LET p == [pipes[i] EXCEPT !.waiting = TRUE] IN
    IF i > 1 /\ links[i - 1].error
    THEN /\ events' = Append(rest, Event(IF i = Len(chain) THEN 0 ELSE i, "output", "Error", <<>>))
         /\ UNCHANGED pipes
    ELSE /\ pipes' = [pipes EXCEPT ![i] = Served(i, p)]
         /\ events' = rest \o Output(i, p)

\* The checks of PipeProducer::output.
MayAwait(i) == (i > 1 /\ links[i - 1].error) \/ ~pipes[i].waiting

\* PipeLink::input: of the last link, which asks the one before, down to pipe 1.
PipeInput(data, rest) ==
    IF \E k \in DOMAIN links : links[k].error
    THEN /\ events' = Append(rest, Event(0, "input", "Error", <<>>))
         /\ UNCHANGED pipes
    ELSE Feed(1, 0, data, rest)
-----------------------------------------------------------------------------
(***************************************************************************)
(* The source and the sink.                                                *)
(***************************************************************************)
Source ==
    /\ Pending("read")
    /\ \/ \E n \in 1..(MaxBytes - read) :
            /\ events' = Append(events, Event(0, "read", "Done", Bytes(read + 1, read + n)))
            /\ read' = read + n
       \/ \E type \in {"EOS", "Error"} :
            /\ events' = Append(events, Event(0, "read", type, <<>>))
            /\ UNCHANGED read
    /\ UNCHANGED <<pipeVars, spliceVars, bad>>

Sink ==
    /\ Pending("write")
    /\ \E type \in {"Done", "Error"} :
         events' = Append(events, Event(0, "write", type, <<>>))
    /\ UNCHANGED <<read, pipeVars, spliceVars, bad>>

\* encoder_pipe_ of an XCodecPipePair produces something of its own accord.
PipeProduces(i) ==
    /\ chain[i] = "encode" /\ ~deleted
    /\ \E p \in MayProduceLater(pipes[i]) :
         pipes' = [pipes EXCEPT ![i] = Served(i, p)] /\ events' = events \o Output(i, p)
    /\ UNCHANGED <<read, links, deleted, spliceVars, bad>>
-----------------------------------------------------------------------------
(***************************************************************************)
(* The callbacks of the PipeSplice of link k, and the one it calls last.   *)
(***************************************************************************)
Link(k, waits) == links' = [links EXCEPT ![k].waits = waits]

\* The callback of the PipeLink is scheduled.
LinkEnds(k, type, rest) ==
    /\ Link(k, "end") /\ events' = Append(rest, Event(k, "end", type, <<>>))
    /\ UNCHANGED pipes

\* PipeSplice::output_complete
LinkOutput(k, e, rest) ==
    /\ Check(links[k].waits = "output" /\ ~links[k].sourceEos)
    /\ IF e.type = "Error" THEN LinkEnds(k, "Error", rest)
       ELSE /\ Feed(k + 1, k, e.data, rest)
            /\ links' = [links EXCEPT ![k].waits = "input",
                                      ![k].sourceEos = e.type = "EOS"]

\* Mutant: the PipeSplice goes on after the end.
LinkInputForever(k, e, rest) ==
    IF e.type = "Error" THEN LinkEnds(k, "Error", rest) /\ Check(links[k].waits = "input")
    ELSE /\ Link(k, "output") /\ Await(k, rest)
         /\ Check(links[k].waits = "input" /\ MayAwait(k))

\* PipeSplice::input_complete
LinkInput(k, e, rest) ==
    IF e.type = "Error" THEN LinkEnds(k, "Error", rest) /\ Check(links[k].waits = "input")
    ELSE IF links[k].sourceEos
    THEN LinkEnds(k, "EOS", rest) /\ Check(links[k].waits = "input")
    ELSE /\ Link(k, "output") /\ Await(k, rest)
         /\ Check(links[k].waits = "input" /\ MayAwait(k))

\* PipeLink::pipe_splice_complete, which deletes the PipeSplice
LinkEnd(k, e, rest) ==
    /\ links' = [links EXCEPT ![k].waits = "none", ![k].error = e.type = "Error"]
    /\ events' = rest
    /\ Check(links[k].waits = "end")
    /\ UNCHANGED pipes

LinkStep ==
    /\ events # <<>>
    /\ LET e == Head(events)
           rest == Tail(events) IN
       /\ e.of # 0
       /\ \/ e.action = "output" /\ LinkOutput(e.of, e, rest)
          \/ e.action = "input" /\ LinkInput(e.of, e, rest)
          \/ e.action = "end" /\ LinkEnd(e.of, e, rest)
    /\ UNCHANGED <<read, deleted, spliceVars>>
-----------------------------------------------------------------------------
(***************************************************************************)
(* The callbacks of the Splice.  e is the event, rest the callbacks behind *)
(* it, and own the other Actions.                                          *)
(***************************************************************************)
\* The Splice no longer waits for the output of the last Pipe.
NotAwaited ==
    [i \in DOMAIN pipes |->
        IF i = Len(chain) THEN [pipes[i] EXCEPT !.waiting = FALSE] ELSE pipes[i]]

\* The callbacks that are not the Splice's.
OfLinks == SelectSeq(events, LAMBDA e : e.of # 0)

\* Splice::complete: everything else is cancelled.
Complete(type, holds) ==
    /\ Check(holds /\ callback = "set")
    /\ acts' = {} /\ events' = Append(OfLinks, Event(0, "done", type, <<>>))
    /\ pipes' = NotAwaited
    /\ callback' = "scheduled" /\ result' = type
    /\ UNCHANGED <<read, readEos, outputEos, written, shut>>

\* StreamChannel::shutdown of the sink.
Shutdown(rest, own) ==
    /\ acts' = own \cup {"shutdown"} /\ shut' = TRUE
    /\ \E type \in {"Done", "Error"} :
         events' = Append(rest, Event(0, "shutdown", type, <<>>))
    /\ UNCHANGED <<read, pipes, outputEos, callback, result, written>>

\* StreamChannel::write to the sink.
Write(rest, own, data) ==
    /\ acts' = own \cup {"write"} /\ events' = rest /\ written' = written \o data
    /\ UNCHANGED <<read, pipes, outputEos, callback, result, shut>>

\* Splice::read_complete
ReadComplete(e, rest, own) ==
    IF e.type = "Error" THEN Complete("Error", ~readEos)
    ELSE /\ readEos' = (readEos \/ e.data = <<>>)
         /\ IF Piped
            THEN /\ PipeInput(e.data, rest)
                 /\ acts' = own \cup {"input"}
                 /\ Check(~readEos /\ "input" \notin own)
                 /\ UNCHANGED <<read, outputEos, callback, result, written, shut>>
            ELSE /\ IF e.data = <<>> THEN Shutdown(rest, own) ELSE Write(rest, own, e.data)
                 /\ Check(~readEos /\ (e.data = <<>> \/ "write" \notin own))

\* Mutant: the Splice does not see that its sink was shut down before.
InputCompleteBlind(e, rest, own) ==
    IF e.type = "Error" THEN Complete("Error", TRUE)
    ELSE /\ acts' = IF readEos THEN own ELSE own \cup {"read"}
         /\ events' = rest
         /\ Check("read" \notin own)
         /\ UNCHANGED <<read, pipes, readEos, outputEos, callback, result, written, shut>>

\* Splice::input_complete
InputComplete(e, rest, own) ==
    IF e.type = "Error" THEN Complete("Error", TRUE)
    ELSE IF readEos /\ outputEos THEN Complete("EOS", TRUE)
    ELSE /\ acts' = IF readEos THEN own ELSE own \cup {"read"}
         /\ events' = rest
         /\ Check("read" \notin own)
         /\ UNCHANGED <<read, pipes, readEos, outputEos, callback, result, written, shut>>

\* Splice::output_complete
OutputComplete(e, rest, own) ==
    IF e.type = "Error" THEN Complete("Error", TRUE)
    ELSE /\ IF e.type = "EOS" THEN Shutdown(rest, own) ELSE Write(rest, own, e.data)
         /\ Check(e.type = "EOS" \/ "write" \notin own)
         /\ UNCHANGED readEos

\* Splice::write_complete, and output of the last Pipe for the next output.
WriteComplete(e, rest, own) ==
    IF e.type = "Error" THEN Complete("Error", TRUE)
    ELSE IF Piped
    THEN /\ Await(Len(chain), rest) /\ acts' = own \cup {"output"}
         /\ Check("output" \notin own /\ MayAwait(Len(chain)))
         /\ UNCHANGED <<read, readEos, outputEos, callback, result, written, shut>>
    ELSE IF readEos /\ "shutdown" \notin own
    THEN Shutdown(rest, own) /\ UNCHANGED <<readEos, bad>>
    ELSE /\ acts' = IF readEos THEN own ELSE own \cup {"read"}
         /\ events' = rest
         /\ UNCHANGED <<read, pipes, readEos, outputEos, callback, result, written, shut, bad>>

\* Splice::shutdown_complete
ShutdownComplete(e, rest, own) ==
    IF readEos THEN Complete("EOS", TRUE)
    ELSE /\ outputEos' = TRUE /\ acts' = own /\ events' = rest
         /\ UNCHANGED <<read, pipes, readEos, callback, result, written, shut, bad>>

\* The owner's callback, which cancels the Action of start and deletes the
\* Splice: the assertions of ~Splice.
Done(rest) ==
    /\ callback' = "none" /\ events' = rest
    /\ Check(callback = "scheduled" /\ acts = {} /\ \A i \in DOMAIN rest : rest[i].of # 0)
    /\ UNCHANGED <<read, pipes, acts, readEos, outputEos, result, written, shut>>

SpliceStep ==
    /\ events # <<>>
    /\ LET e == Head(events)
           rest == Tail(events)
           own == acts \ {e.action}
       IN  /\ e.of = 0
           /\ \/ e.action = "read" /\ ReadComplete(e, rest, own)
              \/ e.action = "input" /\ InputComplete(e, rest, own)
              \/ e.action = "output" /\ OutputComplete(e, rest, own)
              \/ e.action = "write" /\ WriteComplete(e, rest, own)
              \/ e.action = "shutdown" /\ ShutdownComplete(e, rest, own)
              \/ e.action = "done" /\ Done(rest)
    /\ UNCHANGED <<links, deleted>>

\* Splice::cancel, by the owner, who deletes the Splice afterwards.
Cancel ==
    /\ callback # "none"
    /\ callback' = "none" /\ acts' = {} /\ events' = OfLinks /\ pipes' = NotAwaited
    /\ UNCHANGED <<read, links, deleted, readEos, outputEos, result, written, shut, bad>>

\* The owner deletes the PipeLinks, which cancels their PipeSplices, and then
\* the Pipes: the assertions of ~PipeSplice and ~PipeProducer.
DeletePipes ==
    /\ callback = "none" /\ ~deleted /\ Piped
    /\ deleted' = TRUE
    /\ links' = [k \in DOMAIN links |-> [links[k] EXCEPT !.waits = "none"]]
    /\ pipes' = [i \in DOMAIN pipes |->
                   IF i \in DOMAIN links /\ links[i].waits = "output"
                   THEN [pipes[i] EXCEPT !.waiting = FALSE] ELSE pipes[i]]
    /\ events' = SelectSeq(events, LAMBDA e : e.of # 0 /\ links[e.of].waits # e.action)
    /\ Check(\A i \in DOMAIN pipes : ~pipes'[i].waiting)
    /\ UNCHANGED <<read, spliceVars>>

\* The EventThread executes a callback.
Step == (LinkStep \/ SpliceStep) /\ UNCHANGED chain

Next ==
    /\ \/ Source \/ Sink \/ \E i \in DOMAIN chain : PipeProduces(i)
       \/ LinkStep \/ SpliceStep \/ Cancel \/ DeletePipes
    /\ UNCHANGED chain

Spec == Init /\ [][Next]_vars

\* Source and sink make progress, and the EventThread runs.
Fairness ==
    /\ WF_vars(Source /\ UNCHANGED chain) /\ WF_vars(Sink /\ UNCHANGED chain) /\ WF_vars(Step)

FairSpec == Spec /\ Fairness
-----------------------------------------------------------------------------
\* The types of the Splice's members and of the Pipes'.
SpliceTypeOK ==
    /\ read \in 0..MaxBytes /\ written \in Seq(1..MaxBytes)
    /\ acts \subseteq {"read", "input", "output", "write", "shutdown"}
    /\ callback \in {"set", "scheduled", "none"} /\ result \in {"none", "EOS", "Error"}
    /\ \A i \in DOMAIN pipes :
          pipes[i].held \in Seq(1..MaxBytes) /\ pipes[i].buffer \in Seq(1..MaxBytes)
    /\ \A k \in DOMAIN links : links[k].waits \in {"output", "input", "end", "none"}

\* The assertions of Splice, PipeSplice, PipeLink and PipeProducer hold, in any
\* order of completions, and what is deleted has nothing outstanding.
SpliceAsserts ==
    /\ bad = {}
    /\ \A i \in DOMAIN events :
         LET e == events[i] IN
         IF e.of = 0 THEN e.action \in acts \cup {"done"} ELSE e.action = links[e.of].waits
    /\ deleted => events = <<>>

\* The sink gets the bytes of the source, each once and in order, through however
\* many Pipes.
SpliceInOrder == written = Bytes(1, Len(written)) /\ Len(written) <= read

\* Whoever waits for output has been given what there is: data, the end, or
\* the error (also the assertion of produce_error on output that has ended).
OutputIsOffered ==
    \A i \in DOMAIN pipes : pipes[i].waiting =>
        pipes[i].buffer = <<>> /\ ~pipes[i].eos /\ ~pipes[i].error

\* The XCodecPipePair drops what it could not decode of a stream that ends early.
Cut == read < MaxBytes /\ \E i \in DOMAIN chain : chain[i] = "decode"

\* The sink is shut down only after all that the Pipes will ever produce has been
\* written to it.
ShutdownIsLast ==
    shut => /\ Len(written) = read \/ Cut
            /\ \A i \in DOMAIN pipes : pipes[i].buffer = <<>>
            /\ Piped => pipes[Len(chain)].eos
            /\ "write" \notin acts

\* A Splice that ends with EOS has read the end of its source, has written
\* everything, and has passed the end on.
EosIsComplete == result = "EOS" => readEos /\ shut /\ (Len(written) = read \/ Cut)

\* The Splice has read the end of its source and waits for output that does not
\* come: a PipeLink before the last Pipe has failed, which the Splice finds out
\* when it has input for the Pipe or asks for output again; InflatePipe was told
\* of the end of a stream that is not complete, and made nothing of it; or
\* encoder_pipe_ was told of the end, which the peer has not acknowledged.
Stranded ==
    /\ readEos /\ acts = {"output"}
    /\ \/ \E k \in DOMAIN links : links[k].error
       \/ \E i \in DOMAIN chain :
            /\ pipes[i].told /\ ~pipes[i].eos
            /\ chain[i] = "encode" \/ (chain[i] = "inflate" /\ read < MaxBytes)

\* A Splice ends, whatever the order in which the end of the source, the end of
\* the Pipes' output and the shutdown of the sink come about, but for the three
\* cases in which no one passes on the end of the stream.
SpliceEnds == <>(callback = "none") \/ <>[]Stranded

\* The members of Splice, PipeLink and PipeProducer have their types, their
\* assertions hold, and output that is waited for is handed over as soon as it
\* exists.
SpliceInv == SpliceTypeOK /\ SpliceAsserts /\ OutputIsOffered

\* The end comes last: for the sink, which is shut down, and for the user of the
\* Splice, who is told EOS.
EndIsLast == ShutdownIsLast /\ EosIsComplete
=============================================================================

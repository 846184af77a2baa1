----------------------------- MODULE HTTPServer -----------------------------
(***************************************************************************)
(* A connection of the monitor's HTTP server: an HTTPServerHandler (here a *)
(* MonitorClient) with its HTTPServerPipe, through which a Splice passes   *)
(* what the client sends, and from which it gets the response.  The pipe   *)
(* parses the request as it comes in, in whatever pieces, and answers by   *)
(* itself what is not a request; the handler answers the rest.             *)
(*                                                                         *)
(* Text is a sequence of words and line ends; a header's name ends in its  *)
(* colon, and the space that begins a folded line is a word of its own.    *)
(* The Splice, which is module Splice, is reduced to its effects: it feeds *)
(* the pipe, writes what the pipe produces, shuts the socket down behind   *)
(* it, and completes when the client has ended too or something failed.    *)
(***************************************************************************)
EXTENDS Naturals, Sequences, SequencesExt

CONSTANT Texts   \* what clients may send before they end

\* The names of headers.
Names == {"Host:", "Accept:"}

VARIABLES
    text,      \* what this client sends
    arrived,   \* how much of it the pipe was given
    over,      \* the Splice was told of the end of it
    pipe,      \* HTTPServerPipe: state_, buffer_, request_ (start_line_, headers_)
    asked,     \* the handler's request: "set" for callback_, the event for action_, "none"
    output,    \* PipeProducer: output_buffer_ and output_eos_
    answers,   \* the statuses that send_response was given
    told,      \* the responses written to the client
    shut,      \* the socket has been shut down for writing
    events,    \* the callbacks scheduled in the EventThread
    handler,   \* "splicing", "closing" or "deleted"
    bad        \* the checks that failed

spliceVars == <<told, shut, handler>>
vars == <<text, arrived, over, pipe, asked, output, answers, spliceVars, events, bad>>

\* HTTPServerHandler::HTTPServerHandler
Init ==
    /\ text \in Texts /\ arrived = 0 /\ over = FALSE
    /\ pipe = [state |-> "GetStart", buffer |-> <<>>, start |-> <<>>, headers |-> <<>>]
    /\ asked = "set" /\ output = [buffer |-> <<>>, eos |-> FALSE]
    /\ answers = <<>> /\ told = <<>> /\ shut = FALSE
    /\ events = <<>> /\ handler = "splicing" /\ bad = {}

Check(holds) == bad' = IF holds THEN bad ELSE bad \cup {"assert"}
Drop(s, n) == SubSeq(s, n + 1, Len(s))
-----------------------------------------------------------------------------
(***************************************************************************)
(* HTTPProtocol::ExtractLine, and what HTTPServerPipe::consume makes of    *)
(* each line.                                                              *)
(***************************************************************************)
\* Mutant: a carriage return ends the line by itself when nothing follows yet.
ExtractLineEager(b) ==
    LET ends == {i \in DOMAIN b : b[i] \in {"CR", "LF"}}
        pos == CHOOSE i \in ends : \A j \in ends : i <= j
        line(n) == [status |-> "success", line |-> SubSeq(b, 1, pos - 1), rest |-> Drop(b, pos + n)]
    IN  IF ends = {} THEN [status |-> "incomplete"]
        ELSE IF b[pos] = "LF" \/ pos = Len(b) THEN line(0)
        ELSE IF b[pos + 1] = "LF" THEN line(1) ELSE [status |-> "failure"]

ExtractLine(b) ==
    LET ends == {i \in DOMAIN b : b[i] \in {"CR", "LF"}}
        pos == CHOOSE i \in ends : \A j \in ends : i <= j
        line(n) == [status |-> "success", line |-> SubSeq(b, 1, pos - 1), rest |-> Drop(b, pos + n)]
    IN  IF ends = {} THEN [status |-> "incomplete"]
        ELSE IF b[pos] = "LF" THEN line(0)
        ELSE IF pos = Len(b) THEN [status |-> "incomplete"]
        ELSE IF b[pos + 1] = "LF" THEN line(1) ELSE [status |-> "failure"]

\* Buffer::split at spaces
Words(line) == SelectSeq(line, LAMBDA w : w # " ")

\* send_response while there is no request yet.
Refused(p) == [p EXCEPT !.state = "Error", !.buffer = <<>>]
Got(p) == IF p.buffer = <<>> THEN [p EXCEPT !.state = "GotRequest"] ELSE Refused(p)

StartLine(p, line) ==
    LET q == [p EXCEPT !.start = line] IN
    CASE Len(Words(line)) = 3 -> [q EXCEPT !.state = "GetHeaders"]
      [] Len(Words(line)) = 2 -> Got(q)
      [] OTHER -> Refused(q)

HeaderLine(p, line) ==
    IF line = <<>> THEN Got(p)
    ELSE IF line[1] = " "
    THEN IF p.headers = <<>> THEN Refused(p)
         ELSE [p EXCEPT !.headers[Len(p.headers)] = @ \o line]
    ELSE IF line[1] \in Names THEN [p EXCEPT !.headers = Append(@, line)] ELSE Refused(p)

RECURSIVE Parse(_)
Parse(p) ==
    LET l == ExtractLine(p.buffer) IN
    CASE l.status = "incomplete" -> p
      [] l.status = "failure" -> Refused(p)
      [] OTHER ->
           LET q == [p EXCEPT !.buffer = l.rest]
               next == IF p.state = "GetStart" THEN StartLine(q, l.line) ELSE HeaderLine(q, l.line)
           IN  IF next.state \in {"GotRequest", "Error"} \/ next.buffer = <<>> THEN next
               ELSE Parse(next)
-----------------------------------------------------------------------------
(***************************************************************************)
(* HTTPServerPipe                                                          *)
(***************************************************************************)
Over(p) == p.state \in {"GotRequest", "Error"}

\* HTTPServerPipe::send_response: produce_eos of the response.  Whoever sends one
\* checks that the output has not ended yet, as produce_eos does.
SendResponse(status) ==
    /\ answers' = Append(answers, status)
    /\ output' = [buffer |-> Append(output.buffer, status), eos |-> TRUE]

\* Mutant: only an error is told to who waits for the request.
BecomesSilent(q, rest) ==
    /\ pipe' = q
    /\ IF q.state = "Error" /\ asked = "set"
       THEN asked' = "Error" /\ events' = Append(rest, "request")
       ELSE asked' = asked /\ events' = rest
    /\ IF q.state = "Error" THEN SendResponse("BadRequest") ELSE UNCHANGED <<answers, output>>
    /\ Check(~output.eos)

\* The pipe becomes q: the callback is scheduled, if there is one and q is
\* the end of parsing, and the pipe sends the response if q is an error.
Becomes(q, rest) ==
    /\ pipe' = q
    /\ IF Over(q) /\ asked = "set"
       THEN /\ asked' = IF q.state = "GotRequest" THEN "Done" ELSE "Error"
            /\ events' = Append(rest, "request")
       ELSE asked' = asked /\ events' = rest
    /\ IF q.state = "Error" THEN SendResponse("BadRequest") ELSE UNCHANGED <<answers, output>>
    /\ Check(~output.eos)

\* Mutant: data behind the request is refused, though the request is answered too.
ConsumeRefuses(data) ==
    IF Over(pipe)
    THEN /\ pipe' = IF data # <<>> THEN [pipe EXCEPT !.state = "Error"] ELSE pipe
         /\ IF data # <<>> /\ pipe.state = "GotRequest" THEN SendResponse("BadRequest")
            ELSE UNCHANGED <<answers, output>>
         /\ UNCHANGED <<asked, events, bad>>
    ELSE IF data = <<>> THEN Becomes(Refused(pipe), events)
    ELSE Becomes(Parse([pipe EXCEPT !.buffer = @ \o data]), events)

\* HTTPServerPipe::consume
Consume(data) ==
    IF Over(pipe)
    THEN /\ pipe' = IF data # <<>> THEN [pipe EXCEPT !.state = "Error"] ELSE pipe
         /\ Check(pipe.buffer = <<>>)
         /\ UNCHANGED <<asked, events, answers, output>>
    ELSE IF data = <<>> THEN Becomes(Refused(pipe), events)
    ELSE Becomes(Parse([pipe EXCEPT !.buffer = @ \o data]), events)

-----------------------------------------------------------------------------
(***************************************************************************)
(* The Splice, until it has completed.                                     *)
(***************************************************************************)
Splicing == handler = "splicing" /\ \A i \in DOMAIN events : events[i] # "splice"

Arrive ==
    /\ Splicing /\ ~over
    /\ \E n \in 1..(Len(text) - arrived) :
         Consume(SubSeq(text, arrived + 1, arrived + n)) /\ arrived' = arrived + n
    /\ UNCHANGED <<text, over, spliceVars>>

\* The end of what the client sends, here or before it has sent all of it.
ArriveEnd ==
    /\ Splicing /\ ~over
    /\ Consume(<<>>) /\ over' = TRUE
    /\ UNCHANGED <<text, arrived, spliceVars>>

Write ==
    /\ Splicing /\ output.buffer # <<>>
    /\ told' = told \o output.buffer /\ output' = [output EXCEPT !.buffer = <<>>]
    /\ UNCHANGED <<text, arrived, over, pipe, asked, answers, shut, handler, events, bad>>

Shutdown ==
    /\ Splicing /\ output.buffer = <<>> /\ output.eos /\ ~shut
    /\ shut' = TRUE
    /\ UNCHANGED <<text, arrived, over, pipe, asked, output, answers, told, handler, events, bad>>

Completes ==
    /\ Splicing /\ over /\ shut
    /\ events' = Append(events, "splice")
    /\ UNCHANGED <<text, arrived, over, pipe, asked, output, answers, spliceVars, bad>>

Fails ==
    /\ Splicing
    /\ events' = Append(events, "splice")
    /\ UNCHANGED <<text, arrived, over, pipe, asked, output, answers, spliceVars, bad>>
-----------------------------------------------------------------------------
(***************************************************************************)
(* HTTPServerHandler                                                       *)
(***************************************************************************)
\* HTTPServerHandler::request and MonitorClient::handle_request
Status(start) ==
    LET w == Words(start) IN
    CASE w[2] = "%x" -> "BadRequest"
      [] Len(w) = 3 /\ w[3] # "HTTP/1.1" -> "VersionNotSupported"
      [] w[1] # "GET" -> "BadRequest"
      [] w[2] \in {"/", "/object/x"} -> "OK"
      [] OTHER -> "NotFound"

Request ==
    /\ events # <<>> /\ Head(events) = "request"
    /\ events' = Tail(events) /\ asked' = "none"
    /\ IF asked = "Error" THEN UNCHANGED <<answers, output, bad>>
       ELSE /\ SendResponse(Status(pipe.start))
            /\ Check(asked = "Done" /\ Over(pipe) /\ pipe.buffer = <<>> /\ ~output.eos)
    /\ UNCHANGED <<text, arrived, over, pipe, spliceVars>>

\* HTTPServerHandler::splice_complete: a request that is still waited for is
\* cancelled, the pipe deleted, and the socket closed.
SpliceComplete ==
    /\ events # <<>> /\ Head(events) = "splice"
    /\ asked' = "none" /\ handler' = "closing"
    /\ events' = Append(SelectSeq(Tail(events), LAMBDA e : e # "request"), "close")
    /\ UNCHANGED <<text, arrived, over, pipe, output, answers, told, shut, bad>>

\* HTTPServerHandler::close_complete and ~HTTPServerHandler
CloseComplete ==
    /\ events # <<>> /\ Head(events) = "close"
    /\ events' = Tail(events) /\ handler' = "deleted"
    /\ Check(handler = "closing" /\ asked = "none")
    /\ UNCHANGED <<text, arrived, over, pipe, asked, output, answers, told, shut>>

Step == Request \/ SpliceComplete \/ CloseComplete
Transfers == Write \/ Shutdown \/ Completes

Next == Arrive \/ ArriveEnd \/ Transfers \/ Fails \/ Step

\* The EventThread runs, and the Splice passes on what it is given.
FairSpec == Init /\ [][Next]_vars /\ WF_vars(Step) /\ WF_vars(Transfers)
-----------------------------------------------------------------------------
\* The types of what a connection consists of.
HTTPTypeOK ==
    /\ arrived \in 0..Len(text) /\ over \in BOOLEAN /\ shut \in BOOLEAN
    /\ pipe.state \in {"GetStart", "GetHeaders", "GotRequest", "Error"}
    /\ asked \in {"set", "Done", "Error", "none"}
    /\ handler \in {"splicing", "closing", "deleted"}

\* The assertions of HTTPServerPipe, of the PipeProducer it is and of the handler
\* hold, in particular that output ends once; and what is deleted was not asked for.
HTTPAsserts ==
    /\ bad = {}
    /\ (asked \in {"Done", "Error"}) = (\E i \in DOMAIN events : events[i] = "request")
    /\ handler = "deleted" => events = <<>> /\ asked = "none"

\* The lines of a text that ends with the end of a line, and what makes one a
\* request.
LinesOf(t) ==
    LET s == SelectSeq(t, LAMBDA w : w # "CR")
        ends == SetToSortSeq({i \in DOMAIN s : s[i] = "LF"}, <)
    IN  [k \in DOMAIN ends |->
           SubSeq(s, IF k = 1 THEN 1 ELSE ends[k - 1] + 1, ends[k] - 1)]
IsRequest(t) ==
    /\ t # <<>> /\ t[Len(t)] = "LF"
    /\ LET l == LinesOf(t)
           n == Len(l) IN
       \/ n = 1 /\ Len(Words(l[1])) = 2
       \/ /\ n > 1 /\ Len(Words(l[1])) = 3 /\ l[n] = <<>>
          /\ \A k \in 2..(n - 1) : l[k] # <<>> /\ l[k][1] \in Names \cup {" "}
          /\ n > 2 => l[2][1] # " "

\* The part of the text that is a request, which may be all of it, none, or
\* be followed by more.
RequestIn(t) == {k \in 1..Len(t) : IsRequest(SubSeq(t, 1, k))}

\* The header fields of a request, with the lines that are folded into each.
HeadersOf(t) ==
    LET l == LinesOf(t)
        named == SetToSortSeq({k \in 2..(Len(l) - 1) : l[k][1] # " "}, <)
        next(i) == IF i = Len(named) THEN Len(l) ELSE named[i + 1]
    IN  [i \in DOMAIN named |-> FlattenSeq(SubSeq(l, named[i], next(i) - 1))]

\* However the text was cut up on its way: the client is answered at most once; a
\* request is read as what was sent, and answered for what it is; what is no
\* request, or ends too early, is refused.  Of a request with more behind it the
\* request is answered, or it is refused, according to how they arrived.
AnsweredOnce ==
    /\ Len(answers) <= 1
    /\ told \in {<<>>, answers}
    /\ LET ks == RequestIn(SubSeq(text, 1, arrived)) IN
       /\ pipe.state = "GotRequest" =>
            \E k \in ks : LET t == SubSeq(text, 1, k) IN
               pipe.start = LinesOf(t)[1] /\ pipe.headers = HeadersOf(t)
       /\ answers # <<>> =>
            \/ answers[1] = "BadRequest" /\ arrived \notin ks
            \/ \E k \in ks : answers[1] = Status(LinesOf(SubSeq(text, 1, k))[1])

\* A client whose request has arrived gets the answer, without having to
\* end its side of the connection; one that ends it is answered, and the handler
\* is deleted, as it is if the socket fails.
HTTPProgress ==
    /\ (arrived \in RequestIn(SubSeq(text, 1, arrived)) \/ over)
          ~> (told # <<>> \/ handler = "deleted")
    /\ (over \/ ~Splicing) ~> (handler = "deleted")
=============================================================================

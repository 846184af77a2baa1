----------------------------- MODULE MCTimeouts -----------------------------
(***************************************************************************)
(* The TimeoutThread with timeouts of up to a second and a third, set at   *)
(* any time in two seconds of three units; and a CallbackQueue, of which   *)
(* TimeoutThread sees no more than that a callback is in it or was         *)
(* scheduled.  In a behaviour either one of them runs, as which says, and  *)
(* the other stays as it is.                                               *)
(***************************************************************************)
EXTENDS TimeoutThread

CONSTANTS a, b, c, Client, MaxStops

VARIABLES which,
          here, once, deleted, overlap, handlers, action, scheduled, drain, event, subject,
          state, stops, queueBad

queueVars ==
    <<here, once, deleted, overlap, handlers, action, scheduled, drain, event, subject,
      state, stops, queueBad>>

Q == INSTANCE CallbackQueue WITH queue <- handlers, bad <- queueBad

MCInit ==
    /\ which \in {"timeouts", "queue"} /\ Init /\ Q!Init
    /\ which # "queue" => ~here /\ ~once

MCNext ==
    /\ \/ which = "timeouts" /\ Next /\ UNCHANGED queueVars
       \/ which = "queue" /\ Q!Next /\ UNCHANGED vars
    /\ UNCHANGED which

\* The fairness that each of the modules assumes.
MCSpec ==
    /\ MCInit /\ [][MCNext]_<<which, vars, queueVars>>
    /\ WF_vars(which = "timeouts" /\ Tick) /\ WF_vars(which = "timeouts" /\ Submit)
    /\ WF_vars(which = "timeouts" /\ Main)
    /\ WF_queueVars(which = "queue" /\ Q!Draining) /\ WF_queueVars(which = "queue" /\ Q!Executing)

\* The TimeoutThread and CallbackQueue keep their types, every timeout is in one
\* place, and cancel finds its callback, in the queue or by its action_, unless
\* drain came in between its two looks, or it came in between drain's stores.
TimeoutInv ==
    /\ TimeoutTypeOK /\ TimeoutInQueue /\ QueueSound /\ TimersSound
    /\ Q!QueueTypeOK /\ Q!CancelFindsCallback

\* A handler executes once at most, and not after it was cancelled; while it
\* waits it is in the queue, or scheduled with an action_ to cancel it by.
HandlerOnce == Q!HandlerOnce /\ Q!HandlerNotLost

\* drain reaches every handler that was registered before.
StopReachesAll == Q!StopReachesAll
=============================================================================

------------------------------ MODULE Monitor ------------------------------
(***************************************************************************)
(* What a Mutex and a SleepQueue on it promise their users together: at    *)
(* most one thread is inside; a thread that sleeps is outside until it is  *)
(* admitted again; a signal rouses a sleeper when there is one.  Sleeping  *)
(* may end without a signal.                                               *)
(***************************************************************************)
CONSTANT Thread

VARIABLES at,      \* at[t]: "out", "entering", "in" or "asleep"
          roused   \* the sleepers that have been signalled

vars == <<at, roused>>

Inside == {t \in Thread : at[t] = "in"}
Sleeping == {t \in Thread : at[t] = "asleep"}

Init == at = [t \in Thread |-> "out"] /\ roused = {}
-----------------------------------------------------------------------------
\* t asks to enter, after a sleep or from outside.
Enter(t) ==
    /\ at[t] \in {"out", "asleep"}
    /\ \/ at' = [at EXCEPT ![t] = "entering"]
       \/ Inside = {} /\ at' = [at EXCEPT ![t] = "in"]
    /\ roused' = roused \ {t}

Admit(t) ==
    /\ at[t] = "entering" /\ Inside = {}
    /\ at' = [at EXCEPT ![t] = "in"]
    /\ UNCHANGED roused

Leave(t) ==
    /\ at[t] = "in"
    /\ at' = [at EXCEPT ![t] = "out"]
    /\ UNCHANGED roused

Sleep(t) ==
    /\ at[t] = "in"
    /\ at' = [at EXCEPT ![t] = "asleep"]
    /\ UNCHANGED roused

Signal(t) ==
    /\ at[t] = "in"
    /\ \/ Sleeping \subseteq roused /\ UNCHANGED roused
       \/ \E u \in Sleeping \ roused : roused' = roused \cup {u}
    /\ UNCHANGED at

Next == \E t \in Thread : Enter(t) \/ Admit(t) \/ Leave(t) \/ Sleep(t) \/ Signal(t)

Spec == Init /\ [][Next]_vars

\* A free monitor admits one of the threads that wait, and a sleeper that was
\* signalled does not sleep on.
FairSpec ==
    /\ Spec
    /\ WF_vars(\E t \in Thread : Admit(t))
    /\ \A t \in Thread : WF_vars(t \in roused /\ Enter(t))
=============================================================================

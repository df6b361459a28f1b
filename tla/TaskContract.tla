---------------------------- MODULE TaskContract ----------------------------
(***************************************************************************)
(* What a ReschedulableTask promises to the producer, the consumer and the *)
(* environment that own one, with the strand, the timer, the mutex and the *)
(* futures left out.  Every trigger (schedule_now, or the expiry of the    *)
(* timer armed by schedule_after) is honoured by exactly one call of the   *)
(* task's function unless destroy() intervenes; calls never overlap; once  *)
(* destroy() has begun no call starts; and destroy() returns only when the *)
(* call in progress, if there is one, has ended.                           *)
(***************************************************************************)
EXTENDS Naturals

CONSTANT Destroyers             \* threads that call destroy()

VARIABLES
    due,                        \* triggers not yet honoured by a call
    running,                    \* the function is being called
    destroyed,                  \* destroy() has begun
    returned                    \* the destroyers whose call has returned

vars == <<due, running, destroyed, returned>>

Init ==
    /\ due = 0
    /\ running = FALSE
    /\ destroyed = FALSE
    /\ returned = {}

Trigger ==
    /\ due' = due + 1
    /\ UNCHANGED <<running, destroyed, returned>>

Start ==
    /\ ~destroyed
    /\ ~running
    /\ due > 0
    /\ due' = due - 1
    /\ running' = TRUE
    /\ UNCHANGED <<destroyed, returned>>

Finish ==
    /\ running
    /\ running' = FALSE
    /\ UNCHANGED <<due, destroyed, returned>>

Destroy ==
    /\ destroyed' = TRUE
    /\ UNCHANGED <<due, running, returned>>

\* Triggers that destroy() finds are dropped, never called.
Discard ==
    /\ destroyed
    /\ due' \in 0 .. due
    /\ UNCHANGED <<running, destroyed, returned>>

Return(d) ==
    /\ destroyed
    /\ ~running
    /\ returned' = returned \cup {d}
    /\ UNCHANGED <<due, running, destroyed>>

Next ==
    \/ Trigger
    \/ Start
    \/ Finish
    \/ Destroy
    \/ Discard
    \/ \E d \in Destroyers : Return(d)

Spec == Init /\ [][Next]_vars
=============================================================================

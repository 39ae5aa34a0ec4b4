--------------------------- MODULE LayerLifecycle ---------------------------
(***************************************************************************)
(* What an application promises the layers of a client that keeps the      *)
(* rules: OnAttach first, phase and event callbacks only between OnAttach  *)
(* and OnDettach, each OnDettach after its own OnAttach, and a layer freed *)
(* only when its last OnDettach has returned.  Application implements it.  *)
(***************************************************************************)
EXTENDS Naturals, Sequences

CONSTANT Layer

VARIABLES
    stage,      \* how far each layer is
    callbacks   \* the callbacks in progress, the one that runs last

vars == <<stage, callbacks>>

Stage == {"detached", "attached", "detaching", "freed"}

Init == stage = [l \in Layer |-> "detached"] /\ callbacks = << >>

Enter(fn, l, before, after) ==
    /\ stage[l] = before /\ stage' = [stage EXCEPT ![l] = after]
    /\ callbacks' = Append(callbacks, [fn |-> fn, layer |-> l])

Attach(l) == Enter("OnAttach", l, "detached", "attached")
Detach(l) == Enter("OnDettach", l, "attached", "detaching")

(* A phase callback is never called from another callback.                 *)
RunPhase(l) == callbacks = << >> /\ Enter("phase", l, "attached", "attached")
RaiseEvent(l) == Enter("OnEvent", l, "attached", "attached")

(* The OnDettach of destroy_application is the last, and nothing else runs.*)
Teardown(l) == callbacks = << >> /\ Enter("teardown", l, "attached", "detaching")

Return ==
    /\ callbacks # << >>
    /\ LET returning == callbacks[Len(callbacks)]
       IN  stage' = [stage EXCEPT ![returning.layer] =
                        IF returning.fn = "OnDettach" THEN "detached"
                        ELSE IF returning.fn = "teardown" THEN "freed" ELSE @]
    /\ callbacks' = SubSeq(callbacks, 1, Len(callbacks) - 1)

Next ==
    \/ \E l \in Layer : Attach(l) \/ Detach(l) \/ RunPhase(l) \/ RaiseEvent(l) \/ Teardown(l)
    \/ Return

Spec == Init /\ [][Next]_vars
=============================================================================

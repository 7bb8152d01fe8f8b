----------------------------- MODULE DeckBarrier -----------------------------
(***************************************************************************)
(* What the audio engine's lifecycle promises its callers, with none of    *)
(* the tasks, semaphores and timeouts that implement it: a deck comes to   *)
(* hold media (an open file, its cache buffer, the tasks that read it)     *)
(* only inside an admitted LOAD, and once the removal barrier is closed no *)
(* deck holds anything until it is opened again.  The promise is void once  *)
(* a LOAD that aborts has lost sight of its own session.                    *)
(***************************************************************************)
CONSTANT Decks                 \* the decks of the player

VARIABLES
    barrier,                   \* "open", "closing", "closed" or "void"
    loading,                   \* loading[d]: a LOAD of deck d was admitted
    holds                      \* holds[d]: deck d holds media

vars == <<barrier, loading, holds>>

Init ==
    /\ barrier = "open"
    /\ loading = [d \in Decks |-> FALSE]
    /\ holds = [d \in Decks |-> FALSE]

\* A LOAD passes admission.
Admit(d) ==
    /\ barrier = "open"
    /\ ~loading[d]
    /\ loading' = [loading EXCEPT ![d] = TRUE]
    /\ UNCHANGED <<barrier, holds>>

\* Its session comes into being.
Acquire(d) ==
    /\ loading[d]
    /\ holds' = [holds EXCEPT ![d] = TRUE]
    /\ UNCHANGED <<barrier, loading>>

\* The LOAD returns; its session may end with it.
EndLoad(d) ==
    /\ loading[d]
    /\ loading' = [loading EXCEPT ![d] = FALSE]
    /\ \/ UNCHANGED holds
       \/ holds' = [holds EXCEPT ![d] = FALSE]
    /\ UNCHANGED barrier

\* A session ends: a STOP, or its tasks give up.
Drop(d) ==
    /\ holds[d]
    /\ holds' = [holds EXCEPT ![d] = FALSE]
    /\ UNCHANGED <<barrier, loading>>

\* A LOAD aborts and forgets the session it began.
Forget(d) ==
    /\ barrier # "void"
    /\ loading[d] /\ holds[d]
    /\ barrier' = "void"
    /\ loading' = [loading EXCEPT ![d] = FALSE]
    /\ UNCHANGED holds

\* From then on decks may come to hold anything at any time.
Void ==
    /\ barrier = "void" /\ barrier' = "void"
    /\ loading' \in [Decks -> BOOLEAN]
    /\ holds' \in [Decks -> BOOLEAN]

\* Media removal closes admission first ...
Close ==
    /\ barrier = "open"
    /\ barrier' = "closing"
    /\ UNCHANGED <<loading, holds>>

\* ... and owns the barrier when every deck has let go.
Closed ==
    /\ barrier = "closing"
    /\ \A d \in Decks : ~loading[d] /\ ~holds[d]
    /\ barrier' = "closed"
    /\ UNCHANGED <<loading, holds>>

\* The removal is over, or a deck could not be stopped.
Reopen ==
    /\ barrier \in {"closing", "closed"}
    /\ barrier' = "open"
    /\ UNCHANGED <<loading, holds>>

Next ==
    \/ Close \/ Closed \/ Reopen \/ Void
    \/ \E d \in Decks : Admit(d) \/ Acquire(d) \/ EndLoad(d) \/ Drop(d) \/ Forget(d)

Spec == Init /\ [][Next]_vars
=============================================================================

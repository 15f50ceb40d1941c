------------------------ MODULE PreparationContract ------------------------
(***************************************************************************)
(* What the rest of an upgrade may rely on when it hands optional download *)
(* work to a preparation session (src/src/integrations/preparation.rs):    *)
(* every piece of work runs at most once, new work starts only while the   *)
(* session is open, and a session that is over has no work left running.   *)
(***************************************************************************)
CONSTANT Jobs

VARIABLES
    open,       \* the session still accepts work
    running,    \* work that is being done
    ran,        \* work that was done, successfully or not
    over        \* the session is closed and its owner is in no call of it

vars == <<open, running, ran, over>>

Init == open = TRUE /\ running = {} /\ ran = {} /\ over = FALSE

(* Work starts in an open session, and never a second time.                *)
Start(S) ==
    /\ open
    /\ S \cap (running \cup ran) = {}
    /\ running' = running \cup S
    /\ UNCHANGED <<open, ran, over>>

End(p) ==
    /\ p \in running
    /\ running' = running \ {p}
    /\ ran' = ran \cup {p}
    /\ UNCHANGED <<open, over>>

(* The owner ends the session; ending it again is allowed.                 *)
Close ==
    /\ open' = FALSE
    /\ over' \in BOOLEAN
    /\ over' => running = {}
    /\ UNCHANGED <<running, ran>>

Return ==
    /\ ~open /\ running = {}
    /\ over' = TRUE
    /\ UNCHANGED <<open, running, ran>>

Next ==
    \/ \E S \in SUBSET Jobs : Start(S)
    \/ \E p \in Jobs : End(p)
    \/ Close
    \/ Return

Spec == Init /\ [][Next]_vars
=============================================================================

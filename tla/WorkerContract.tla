--------------------------- MODULE WorkerContract ---------------------------
(***************************************************************************)
(* What a job worker promises its user, with the wire, the counter and the *)
(* commands left out: it works on jobs while it is open, takes on none     *)
(* once close() was called, and the promise of close() resolves when the   *)
(* last job it holds is done ("has stopped accepting tasks and has drained *)
(* all current active tasks", src/lib/ZBWorkerBase.ts:207).                *)
(***************************************************************************)
EXTENDS FiniteSets

CONSTANT Tasks

VARIABLES held,   \* the jobs the worker is responsible for
          phase   \* "open", "closing", "closed"

contractVars == <<held, phase>>

ContractInit == held = {} /\ phase = "open"

Accept(ts) ==
    /\ phase = "open"
    /\ ts \cap held = {} /\ ts # {}
    /\ held' = held \cup ts
    /\ UNCHANGED phase

Release(t) ==
    /\ t \in held
    /\ held' = held \ {t}
    /\ UNCHANGED phase

Shut ==
    /\ phase = "open"
    /\ phase' = "closing"
    /\ UNCHANGED held

Resolve ==
    /\ phase = "closing" /\ held = {}
    /\ phase' = "closed"
    /\ UNCHANGED held

ContractNext ==
    \/ \E ts \in SUBSET Tasks : Accept(ts)
    \/ \E t \in Tasks : Release(t)
    \/ Shut \/ Resolve

ContractSpec == ContractInit /\ [][ContractNext]_contractVars
=============================================================================

------------------------- MODULE MCGracefulShutdown -------------------------
(* Instances of GracefulShutdown for TLC: two workers and two jobs, whose  *)
(* counters of calls stop at one, and one job whose refused job.fail() is  *)
(* not caught.  Jobs and workers are interchangeable, but liveness is      *)
(* checked: instead of a symmetry, the first is always used first.         *)
EXTENDS GracefulShutdown

FirstWorker == CHOOSE w \in Workers : TRUE
FirstJob == CHOOSE j \in Jobs : TRUE

\* Sound: the fairness asks of no worker to be created and of no job to be
\* activated.
InOrder ==
    /\ \A w \in Workers : worker[w] # "absent" => worker[FirstWorker] # "absent"
    /\ \A j \in Jobs : owner[j] # NoWorker => owner[FirstJob] # NoWorker

BoundedSpec ==
    ShutdownInit /\ [][ShutdownNext /\ InOrder']_shutdownVars /\ ShutdownFairness
=============================================================================

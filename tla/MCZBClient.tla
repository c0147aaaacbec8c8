----------------------------- MODULE MCZBClient -----------------------------
(* Instances of a whole ZBClient for TLC.  Commands, activations and the   *)
(* configuration share only the closing of the client; bounds: an          *)
(* application uses commands or activations, and only the client with no   *)
(* configuration at all is used.  Two commands with one request object are *)
(* enough for what commands can do to each other.                          *)
EXTENDS ZBClient, TLC

\* Sound: the run checks safety only, and Init and Next name no command.
Interchangeable == Permutations(Commands)

NoneIssued == \A c \in Commands : status[c] = "idle"
NoneActivated == \A a \in Activations : call[a] = "idle"

Unconfigured ==
    /\ TRUE \notin {input.env[v] : v \in DOMAIN input.env \ {"secure"}}
    /\ TRUE \notin {input.opts[o] : o \in DOMAIN input.opts \ {"useTLS"}}
    /\ ~input.explicit /\ {input.env.secure, input.opts.useTLS} = {"undefined"}

BoundedInit ==
    ZBClientInit /\ (Unconfigured \/ (retry /\ maxRetries = -1 /\ method = "completeJob"))

BoundedNext ==
    Unconfigured /\ ZBClientNext /\ (NoneIssued' \/ NoneActivated')

BoundedSpec == BoundedInit /\ [][BoundedNext]_clientStateVars
=============================================================================

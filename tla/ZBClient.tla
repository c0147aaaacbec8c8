------------------------------ MODULE ZBClient ------------------------------
(***************************************************************************)
(* One ZBClient as its application sees it (src/zb/ZBClient.ts): the       *)
(* configuration its constructor settles on, the commands with their       *)
(* request objects, and the activateJobs() calls.  They share the closing  *)
(* of the client and the channel; their steps interleave freely.           *)
(***************************************************************************)
EXTENDS ClientRequests, ManualActivation, Configuration

clientStateVars == <<clientRequestVars, activationVars, input>>

ZBClientInit == ConfigurationInit /\ RequestInit /\ ActivationInit

\* The configuration is read once.
ZBClientNext ==
    /\ UNCHANGED input
    /\ \/ RequestNext /\ UNCHANGED activationVars
       \/ ActivationNext /\ UNCHANGED requestVars

ZBClientSpec == ZBClientInit /\ [][ZBClientNext]_clientStateVars
=============================================================================

------------------------- MODULE MCConnectionStatus -------------------------
(* Instances of a connection and its log for TLC: small times, few         *)
(* messages.                                                               *)
EXTENDS StatefulLog
=============================================================================

---------------------------- MODULE MCOAuthTokens ----------------------------
(* Instances of OAuthTokens for TLC.  Bound: two open clients share the    *)
(* file while the endpoint works; one is left, without a file to read at   *)
(* first, when it may fail, since a failure concerns one client.           *)
EXTENDS OAuthTokens

Open == {p \in Providers : ~stopped[p]}
MCTokenInit ==
    /\ TokenInit
    /\ IF failing THEN Cardinality(Open) = 1 /\ file = None ELSE Open = Providers

MCTokenSpec == MCTokenInit /\ [][TokenNext]_tokenVars /\ TokenFairness
=============================================================================

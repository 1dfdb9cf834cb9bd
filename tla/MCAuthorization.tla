-------------------------- MODULE MCAuthorization --------------------------
(***************************************************************************)
(* The authorization store under faults and restarts, and the grants and     *)
(* tokens it holds.  Each is checked by itself: the store with two tokens,  *)
(* one whose revocation is in question and one that keeps it changing, and   *)
(* the tokens over a store whose saves succeed.                              *)
(***************************************************************************)
EXTENDS MCOAuthTokens, AuthzStore

CONSTANTS t1, t2

VARIABLE part

MCToken == {t1, t2}

AuthorizationInit ==
  /\ Init /\ TokensInit
  /\ part \in {"store", "tokens"}

AuthorizationNext ==
  /\ \/ part = "store"  /\ Next /\ UNCHANGED tokensVars
     \/ part = "tokens" /\ TokensNext /\ Within' /\ UNCHANGED vars
  /\ UNCHANGED part

AuthorizationSpec == AuthorizationInit /\ [][AuthorizationNext]_<<vars, tokensVars, part>>
=============================================================================

--------------------------- MODULE MCOAuthTokens ---------------------------
(* One device with the client that proved its key, and an MCP client.      *)
EXTENDS OAuthTokens, TLC

CONSTANTS u1, u2, d1, agent, chat, g1, g2

MCUser     == {u1, u2}
MCGrant    == {g1, g2}
MCDeviceOf == [c \in Client |-> IF c = agent THEN d1 ELSE None]
Symmetry   == Permutations(MCGrant) \cup Permutations(MCUser)

\* The accounts that acted or changed.
Players == {u \in User : users[u] # "active" \/ password[u] > 0}
           \cup ({granted[g].user : g \in Grant} \ {None}) \cup {p[2] : p \in posts}

\* Either one account uses up to four token pairs, or there are two accounts,
\* without a second pair in a family, password change or switch.
Within ==
  \/ off = {} /\ (\A u \in User : password[u] = 0) /\ (\A g \in Grant : pairs[g] <= 1)
  \/ Cardinality(Players) <= 1 /\ pairs[g1] + pairs[g2] <= 4
=============================================================================

-------------------------- MODULE MC_AuthSessions --------------------------
\* Instances of AuthSessions, with its refinement mapping, for TLC.
EXTENDS AuthSessionsRegistry, TLC

\* Accounts, handlers and token identities are interchangeable.
Symmetry == Permutations(Users) \cup Permutations(Requests)
              \cup Permutations(TokenId)
=============================================================================

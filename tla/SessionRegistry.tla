--------------------------- MODULE SessionRegistry ---------------------------
(***************************************************************************)
(* What the session store promises: a login opens a session of its         *)
(* account, a session stays open through any number of token rotations,    *)
(* and once closed it is never open again.                                 *)
(***************************************************************************)
CONSTANTS Users, Session

VARIABLES
    owner,      \* the account of every session ever opened
    open        \* the sessions that can still be continued

registryVars == <<owner, open>>

Opened == DOMAIN owner

RegistryInit ==
    /\ owner = [s \in {} |-> s]
    /\ open = {}

Open(s, u) ==
    /\ s \notin Opened
    /\ owner' = [x \in Opened \cup {s} |-> IF x = s THEN u ELSE owner[x]]
    /\ open' = open \cup {s}

\* One operation closes sessions of one account only: one, some or all.
Close(u) ==
    /\ open' \subseteq open
    /\ \A s \in open \ open' : owner[s] = u
    /\ UNCHANGED owner

RegistryNext ==
    \E u \in Users : Close(u) \/ \E s \in Session : Open(s, u)

RegistrySpec == RegistryInit /\ [][RegistryNext]_registryVars
=============================================================================

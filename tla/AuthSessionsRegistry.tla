------------------------ MODULE AuthSessionsRegistry ------------------------
(***************************************************************************)
(* AuthSessions implements SessionRegistry: the session of a token pair is *)
(* the login it descends from; it is open while a row or a refresh between *)
(* its delete and its insert holds it.                                     *)
(***************************************************************************)
EXTENDS AuthSessions

SlotOwner == [s \in {info[t].slot : t \in Issued} |-> info[s].user]

OpenSlots ==
    {info[t].slot : t \in rows}
      \cup {req[r].slot : r \in {q \in Requests : req[q].at = "rotateStore"}}

Registry == INSTANCE SessionRegistry
              WITH Session <- TokenId, owner <- SlotOwner, open <- OpenSlots

\* Every step of the handlers opens a new session, closes sessions of one
\* account or leaves the sessions alone: a rotation, however it interleaves
\* with logouts and password changes, never revives one that was closed
\* (auth.service.ts:398-522).
ImplementsRegistry == Registry!RegistrySpec
=============================================================================

---------------------------- MODULE GroupHistory ----------------------------
(***************************************************************************)
(* What a group promises to its clients: there is one history of commits,  *)
(* everybody's view is a prefix of it, a member's view grows by one commit *)
(* at a time, and only a client that was added can start a new view.       *)
(***************************************************************************)
EXTENDS Naturals, Sequences

CONSTANTS
  Clients,
  Ids,             \* names of commits
  InitialMembers   \* the members of the first epoch

VARIABLES
  history,         \* the commits of the group
  members,         \* the members of each epoch
  view             \* each client's transcript, empty without a group
vars == <<history, members, view>>

FirstCommit == 0

Prefix(n) == [i \in 1..n |-> history[i]]

Init ==
  /\ history = <<FirstCommit>>
  /\ members = <<InitialMembers>>
  /\ view = [c \in Clients |-> IF c \in InitialMembers THEN history ELSE <<>>]

\* A member's commit is the next one of the group.
Extend(id, new) ==
  /\ history' = Append(history, id)
  /\ members' = Append(members, new)
  /\ UNCHANGED view

\* A member follows the history by one commit.
Follow(c) ==
  /\ view[c] # <<>>
  /\ c \in members[Len(view[c])]
  /\ Len(view[c]) < Len(history)
  /\ view' = [view EXCEPT ![c] = Prefix(Len(view[c]) + 1)]
  /\ UNCHANGED <<history, members>>

\* A client joins an epoch in which it is a member.
Join(c, n) ==
  /\ view[c] = <<>>
  /\ c \in members[n]
  /\ view' = [view EXCEPT ![c] = Prefix(n)]
  /\ UNCHANGED <<history, members>>

Leave(c) ==
  /\ view[c] # <<>>
  /\ view' = [view EXCEPT ![c] = <<>>]
  /\ UNCHANGED <<history, members>>

Next ==
  \/ \E id \in Ids, new \in SUBSET Clients : Extend(id, new)
  \/ \E c \in Clients : Follow(c) \/ Leave(c) \/ \E n \in 1..Len(history) : Join(c, n)

Spec == Init /\ [][Next]_vars
=============================================================================

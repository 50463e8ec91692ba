-------------------------- MODULE MCCommitCreation --------------------------
(***************************************************************************)
(* Three members, two of which queue, commit and stage.  The catalogues    *)
(* contain every pair of proposals that filter_proposals or a check        *)
(* relates: an Update and two removals of the same member, two Adds of one *)
(* client, a removal and an Add of the same client, two ReInits, two       *)
(* GroupContextExtensions, PSKs from the store and from the builder.       *)
(***************************************************************************)
EXTENDS CommitCreation

Proposal(id, type, sender, subject) ==
  [id |-> id, type |-> type, sender |-> sender, subject |-> subject, byRef |-> TRUE]

Inline(id, type, sender, subject) ==
  [id |-> id, type |-> type, sender |-> sender, subject |-> subject, byRef |-> FALSE]

MCLeafIndices == 0..5

MCTree == [m \in 0..2 |-> [key |-> <<"k0", "k1", "k2">>[m + 1], leaf |-> m + 100]]

Option(own, consume, key, force) ==
  [own_proposals |-> own, consume_proposal_store |-> consume, new_key |-> key,
   force_self_update |-> force]

MCMembershipCatalogue ==
  { Proposal(1, "Update", 0, "k0"),  Proposal(2, "Update", 1, "k1"),
    Proposal(3, "Remove", 0, 1),     Proposal(4, "SelfRemove", 1, 1),
    Proposal(5, "Add", 2, "k1"),     Proposal(6, "Remove", 1, 0) }

MCMembershipOptions ==
  { Option(<<>>, TRUE, NoKey, FALSE), Option(<<>>, TRUE, "k1", FALSE),
    Option(<<>>, FALSE, "k8", TRUE),
    Option(<<Inline(23, "Add", 0, "k9")>>, TRUE, NoKey, FALSE),
    Option(<<Inline(22, "Add", 0, "k1"), Inline(21, "Remove", 0, 1)>>, TRUE, NoKey, FALSE) }

MCContextCatalogue ==
  { Proposal(1, "ReInit", 1, 0),  Proposal(2, "ReInit", 2, 0),
    Proposal(3, "GroupContextExtensions", 1, {}),
    Proposal(4, "GroupContextExtensions", 2, {{"c"}}),
    Proposal(5, "PreSharedKey", 1, 1),  Proposal(6, "PreSharedKey", 2, 1),
    Proposal(9, "PreSharedKey", 2, 2),
    Proposal(7, "AppDataUpdate", 1, [component |-> "c", remove |-> TRUE]),
    Proposal(8, "AppDataUpdate", 2, [component |-> "c", remove |-> FALSE]) }

MCContextOptions ==
  { Option(<<>>, TRUE, NoKey, FALSE), Option(<<>>, TRUE, NoKey, TRUE),
    Option(<<Inline(21, "PreSharedKey", 0, 2)>>, TRUE, NoKey, FALSE) }

MCMembership == [catalogue |-> MCMembershipCatalogue, options |-> MCMembershipOptions, max_sent |-> 3]

MCContext == [catalogue |-> MCContextCatalogue, options |-> MCContextOptions, max_sent |-> 2]

MCScenarios == [membership |-> MCMembership, context |-> MCContext]

MCContextOnly == [context |-> MCContext]
=============================================================================

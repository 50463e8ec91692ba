--------------------------- MODULE MCInteropClient ---------------------------
EXTENDS InteropClient

MCServers == {"s1", "s2"}

MCHome == [alice |-> "s1", bob |-> "s2", carl |-> "s1"]

MCKeyPool == [alice |-> <<"a1", "a2">>, bob |-> <<"b1", "b2", "b3">>, carl |-> <<"c1", "c2">>]

MCOwner == [a1 |-> "alice", a2 |-> "alice", b1 |-> "bob", b2 |-> "bob", b3 |-> "bob", c1 |-> "carl",
            c2 |-> "carl"]

MCLeafIndices == 0..5

\* What a test does not use.
Nothing ==
  [calls |-> {}, by_value |-> {"none"}, psks |-> {}, secrets |-> {1}, reinits |-> {}, branches |-> {},
   signers |-> {}, indices |-> {0, 1}, external_types |-> {}, creators |-> {"alice"},
   external_tree |-> FALSE, max_epoch |-> 2, max_states |-> 2, max_proposals |-> 1,
   max_stored |-> 1, max_commits |-> 2, force_path |-> {TRUE},
   keys |-> [alice |-> 1, bob |-> 1, carl |-> 0], packages |-> [alice |-> 0, bob |-> 1, carl |-> 0],
   joiners |-> {"bob", "carl"}]

Joining == {"create_group", "create_key_package", "join_group", "commit", "handle_commit"}

MCScenarios ==
  [psk |-> [Nothing EXCEPT
     !.calls = Joining \cup {"store_psk", "external_psk_proposal", "resumption_psk_proposal"},
     !.by_value = {"none", "add", "externalPSK"}, !.max_stored = 2, !.psks = {"psk"}, !.secrets = {1, 2},
     !.max_states = 1],
   members |-> [Nothing EXCEPT
     !.calls = Joining \cup {"add_proposal", "update_proposal", "remove_proposal",
                             "group_context_extensions_proposal"},
     !.by_value = {"none", "add", "remove", "groupContextExtensions"}, !.keys.carl = 1, !.packages.carl = 1],
   external |-> [Nothing EXCEPT
     !.calls = (Joining \ {"create_key_package"}) \cup
               {"group_info", "external_join", "new_member_add_proposal"},
     !.external_tree = TRUE, !.keys.carl = 1, !.packages.carl = 1],
   signers |-> [Nothing EXCEPT
     !.calls = Joining \cup {"group_info", "create_external_signer", "add_external_signer",
                             "external_signer_proposal"},
     !.by_value = {"none", "add"}, !.signers = {"x1"}, !.max_proposals = 2,
     !.external_types = {"Add", "Remove"}],
   reinit |-> [Nothing EXCEPT
     !.calls = (Joining \ {"handle_commit"}) \cup
               {"re_init_proposal", "re_init_commit", "handle_pending_re_init_commit",
                "handle_re_init_commit", "re_init_welcome", "handle_re_init_welcome",
                "handle_pending_commit"},
     !.by_value = {"add"},
     !.reinits = {[gid |-> "successor", suite |-> "other suite", exts |-> {}]}, !.max_commits = 3,
     !.keys = [alice |-> 2, bob |-> 2, carl |-> 0]],
   branch |-> [Nothing EXCEPT
     !.calls = Joining \cup {"create_branch", "handle_branch"},
     !.by_value = {"none", "add"}, !.branches = {"sub"},
     !.keys = [alice |-> 1, bob |-> 2, carl |-> 1], !.packages = [alice |-> 0, bob |-> 2, carl |-> 1],
     !.joiners = {"bob"}]]
=============================================================================

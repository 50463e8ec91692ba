--------------------------- MODULE MCGroupMessages ---------------------------
EXTENDS GroupMessages, ApplicationExport

MCRatchetConfig == [out_of_order_tolerance |-> 1, maximum_forward_distance |-> 2]

MCTailAad == <<<<"raw">>>>

MCClients == {"a1", "a2", "b", "c", "d"}

Keys == [c \in MCClients |-> IF c \in {"a1", "a2"} THEN "a" ELSE c]

NoEmulation == [c \in MCClients |-> {}]

Budget(application, proposal, outside, commit) ==
  [kind \in {"Application", "Proposal", "Outside", "Commit"} |->
     CASE kind = "Application" -> application [] kind = "Proposal" -> proposal
       [] kind = "Outside" -> outside [] kind = "Commit" -> commit]

RemoveC == [type |-> "Remove", index |-> 2, key |-> "none"]

AddD == [type |-> "Add", index |-> 0, key |-> "d"]

UpdateSomething == [type |-> "AppDataUpdate", index |-> 1, key |-> "value"]

RequireSafeAad == [type |-> "AppDataUpdate", index |-> 0, key |-> "required"]

Scenario(name) ==
  [name |-> name, safe_aad_required |-> FALSE,
   index |-> ("a1" :> 0) @@ ("b" :> 1) @@ ("c" :> 2), leaves |-> (0 :> "a") @@ (1 :> "b") @@ (2 :> "c"),
   key |-> Keys, emulation |-> NoEmulation, dual_use |-> {},
   incoming |-> "AlwaysCiphertext", outgoing |-> [c \in MCClients |-> "AlwaysCiphertext"],
   senders |-> {}, proposers |-> {}, committers |-> {}, joiners |-> {}, proposals |-> {}, outside |-> {},
   inline |-> {{}}, receivers |-> {}, budget |-> Budget(0, 0, 0, 0)]

\* Two siblings behind one leaf send at the same time.
Siblings ==
  [Scenario("siblings") EXCEPT
     !.index = ("a1" :> 0) @@ ("a2" :> 0) @@ ("b" :> 1), !.leaves = (0 :> "a") @@ (1 :> "b"),
     !.emulation = [c \in MCClients |-> CASE c = "a1" -> {3} [] c = "a2" -> {5} [] OTHER -> {}],
     !.dual_use = {"a1", "a2"}, !.senders = {"a1", "a2"}, !.receivers = {"a1", "a2"},
     !.budget = Budget(3, 0, 0, 0)]

\* Another member ends the epoch in which they send.
SiblingsAcrossEpochs ==
  [Siblings EXCEPT !.name = "siblings across epochs", !.committers = {"b"}, !.budget = Budget(2, 0, 0, 1)]

\* A member leaves and is replaced by another one in its leaf, by encrypted
\* handshake messages, while application messages are on their way.
Replacement ==
  [Scenario("replacement") EXCEPT
     !.safe_aad_required = TRUE, !.senders = {"c", "d"},
     !.proposers = {"c"}, !.committers = {"b"}, !.joiners = {"d"}, !.receivers = {"a1", "b"},
     !.proposals = {RemoveC}, !.inline = {{AddD}}, !.budget = Budget(2, 1, 0, 1)]

\* Public handshake messages of members, and a commit from outside.
Public ==
  [Scenario("public") EXCEPT
     !.incoming = "AlwaysPlaintext", !.outgoing = [c \in MCClients |-> "AlwaysPlaintext"],
     !.proposers = {"a1"}, !.committers = {"b"}, !.joiners = {"d"}, !.receivers = {"a1", "b", "observer"},
     !.proposals = {UpdateSomething}, !.budget = Budget(0, 1, 0, 2)]

\* Proposals from outside.
Outside ==
  [Public EXCEPT !.name = "outside", !.outside = {RemoveC, AddD}, !.budget = Budget(0, 0, 1, 1)]

\* Only the exporter is used.
Exports == Scenario("exports")

MCScenarios == {Siblings, SiblingsAcrossEpochs, Replacement, Public, Outside, Exports}

MCComponents == {<<0, 0>>, <<0, 1>>, <<1, 0>>}

MCInit == Init /\ ExportInit /\ (scenario.name # "exports" => ~commits)

MCNext ==
  \/ scenario.name # "exports" /\ Next /\ UNCHANGED exportVars
  \/ scenario.name = "exports" /\ ExportNext /\ UNCHANGED vars

MCSpec == MCInit /\ [][MCNext]_<<vars, exportVars>>
=============================================================================

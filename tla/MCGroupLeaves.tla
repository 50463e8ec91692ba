---------------------------- MODULE MCGroupLeaves ----------------------------
(* A creator and two more clients, two credential types, one unknown         *)
(* extension type and one custom proposal type of the private range.         *)
EXTENDS GroupLeaves

CONSTANTS alice, bob, carol

Private == 61441
MCClients == {alice, bob, carol}
MCPolicies == alice :> "Verify" @@ bob :> "VerifyAt" @@ carol :> "Skip"

Full == WithGrease(NewCapabilities({1}, {Private, AppDataDictionary}, {Private}, {1, 2}), 2570)
Plain == [ForProvider({1}) EXCEPT !.credentials = {1}]

Long == NewLifetime(1, 1, 10)
Short == NewLifetime(1, 1, 1)

MCCreatorBuilders ==
    {KeyPackageBuilder(1, caps, {}, {}, {}, FALSE, Long) : caps \in {{}, {Full}}}

MCContexts == {NoExtensions} \cup FromVec("GroupContext",
    <<[type |-> RequiredCapabilities, data |-> Requirement({Private}, {}, {})],
      [type |-> Private, data |-> "x"]>>)

MCBuilders ==
    {KeyPackageBuilder(1, {}, {}, {}, {}, TRUE, Short),
     KeyPackageBuilder(2, {Full}, {}, {}, {}, FALSE, Long),
     KeyPackageBuilder(1, {Plain}, {}, {}, {Private :> "x"}, FALSE, Long),
     KeyPackageBuilder(1, {Plain}, {"Widen"}, {Private :> "y"}, {Private :> "x"}, TRUE, Long)}

MCParameters ==
    {NoParameters, LeafParameters({2}, {Full}, {}, {"Widen"}), LeafParameters({}, {Plain}, {}, {})}

MCExternals == {LeafParameters({1}, {}, {}, {}), LeafParameters({2}, {Full}, {}, {})}

MCProposed ==
    {RequiredCapabilities :> Requirement({Private}, {}, {}) @@ Private :> "x",
     RequiredCapabilities :> Requirement({}, {Private}, {2})}
=============================================================================

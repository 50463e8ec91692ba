----------------------------- MODULE Extensions -----------------------------
(***************************************************************************)
(* The extension, proposal and credential types of MLS and the typed       *)
(* extension lists of OpenMLS.  A type is the 16-bit number that encodes   *)
(* it: the Rust enums and these numbers are in bijection because encoding  *)
(* refuses a Grease, Unknown, Custom or Other variant that would decode    *)
(* as another variant.  A list of extensions holds at most one of a type,  *)
(* so it is a function from the types present to their contents; the       *)
(* order of the list only matters on the wire.                             *)
(***************************************************************************)
EXTENDS Naturals, Sequences, Functions, TLC

\* The fifteen reserved values 0x0A0A, 0x1A1A, ... 0xEAEA.
GreaseValues == {4112 * n + 2570 : n \in 0..14}

IsGrease(t) == t \in GreaseValues

(***************************************************************************)
(* From<u16> of the three enums.                                           *)
(***************************************************************************)
ExtensionKind(t) ==
    LET known == 1 :> "ApplicationId" @@ 2 :> "RatchetTree" @@ 3 :> "RequiredCapabilities"
                 @@ 4 :> "ExternalPub" @@ 5 :> "ExternalSenders" @@ 6 :> "AppDataDictionary"
                 @@ 10 :> "LastResort"
    IN  IF t \in DOMAIN known THEN known[t] ELSE IF IsGrease(t) THEN "Grease" ELSE "Unknown"

ProposalKind(t) ==
    LET known == <<"Add", "Update", "Remove", "PreSharedKey", "Reinit", "ExternalInit",
                   "GroupContextExtensions", "AppDataUpdate", "AppEphemeral", "SelfRemove">>
    IN  IF t \in DOMAIN known THEN known[t] ELSE IF IsGrease(t) THEN "Grease" ELSE "Custom"

CredentialKind(t) ==
    IF t = 1 THEN "Basic" ELSE IF t = 2 THEN "X509" ELSE IF IsGrease(t) THEN "Grease" ELSE "Other"

RequiredCapabilities == 3
AppDataDictionary == 6
LastResort == 10

\* Support for a default type is implied and is never listed.
IsDefaultExtension(t) ==
    ExtensionKind(t) \in {"ApplicationId", "RatchetTree", "RequiredCapabilities",
                          "ExternalPub", "ExternalSenders"}

IsDefaultProposal(t) ==
    ProposalKind(t) \in
        {"Add", "Update", "Remove", "PreSharedKey", "Reinit", "ExternalInit",
         "GroupContextExtensions"}

\* The proposals whose commit needs an update path.
IsPathRequired(t) ==
    ProposalKind(t) \in {"Update", "Remove", "ExternalInit", "GroupContextExtensions",
                         "SelfRemove"}

(***************************************************************************)
(* The objects an extension type may appear in.                            *)
(***************************************************************************)
IsValidInLeafNode(t) ==
    ExtensionKind(t) \in {"Grease", "Unknown", "ApplicationId", "AppDataDictionary"}

IsValidInGroupInfo(t) ==
    ExtensionKind(t) \in {"RatchetTree", "ExternalPub", "AppDataDictionary", "Grease", "Unknown"}

IsValidInKeyPackage(t) ==
    ExtensionKind(t) \in {"Grease", "Unknown", "LastResort", "AppDataDictionary"}

IsValidInGroupContext(t) ==
    ExtensionKind(t) \in {"RequiredCapabilities", "ExternalSenders", "Unknown", "Grease",
                          "AppDataDictionary"}

\* validate_extension_type of the four objects an extension list belongs to.
ValidateExtensionType(object, t) ==
    CASE object = "LeafNode" -> IsValidInLeafNode(t)
      [] object = "GroupInfo" -> IsValidInGroupInfo(t)
      [] object = "KeyPackage" -> IsValidInKeyPackage(t)
      [] object = "GroupContext" -> IsValidInGroupContext(t)

(***************************************************************************)
(* Extension lists.  The operations that may fail return the set of their  *)
(* result: empty when the code returns an error.                           *)
(***************************************************************************)
NoExtensions == [t \in {} |-> 0]

Contains(exts, t) == t \in DOMAIN exts

RemoveExtension(exts, t) == Restrict(exts, DOMAIN exts \ {t})

Single(object, t, data) ==
    IF ValidateExtensionType(object, t) THEN {t :> data} ELSE {}

\* from_vec: every type must fit the object and no type may come twice.
FromVec(object, list) ==
    LET Fits == \A i \in DOMAIN list : ValidateExtensionType(object, list[i].type)
        Unique == \A i, j \in DOMAIN list : list[i].type = list[j].type => i = j
    IN  IF Fits /\ Unique
        THEN {[t \in {list[i].type : i \in DOMAIN list} |->
                  (CHOOSE e \in {list[i] : i \in DOMAIN list} : e.type = t).data]}
        ELSE {}

AddOrReplace(object, exts, t, data) ==
    IF ValidateExtensionType(object, t)
    THEN {(t :> data) @@ RemoveExtension(exts, t)} ELSE {}

\* find_by_type and the typed accessors: the content if the type is present.
Find(exts, t) == IF Contains(exts, t) THEN {exts[t]} ELSE {}

(***************************************************************************)
(* RequiredCapabilitiesExtension.                                          *)
(***************************************************************************)
Requirement(extensions, proposals, credentials) ==
    [extensions |-> extensions, proposals |-> proposals, credentials |-> credentials]

RequiredOf(exts) == Find(exts, RequiredCapabilities)

RequiresExtensionTypeSupport(required, t) == t \in required.extensions

-----------------------------------------------------------------------------
(***************************************************************************)
(* The capabilities a leaf advertises.  The five lists of the struct are   *)
(* sets: nothing in the library depends on their order or on repetitions.  *)
(***************************************************************************)

Mls10 == "Mls10"

\* The lists a caller leaves out are empty; only the version has a default.
NewCapabilities(ciphersuites, extensions, proposals, credentials) ==
    [versions |-> {Mls10}, ciphersuites |-> ciphersuites, extensions |-> extensions,
     proposals |-> proposals, credentials |-> credentials]

DefaultCapabilities == NewCapabilities({}, {}, {}, {})

\* Capabilities::for_provider: the suites of the crypto provider, nothing else.
ForProvider(supported) == [DefaultCapabilities EXCEPT !.ciphersuites = supported]

(***************************************************************************)
(* resolve_capabilities: an option is a set of at most one element.  What  *)
(* the caller did not set is widened from the leaf, what they set is held  *)
(* to the letter, and an explicit policy wins over both.                   *)
(***************************************************************************)
Given(option, default) == IF option = {} THEN default ELSE CHOOSE x \in option : TRUE

ResolveCapabilities(capabilities, policy) ==
    IF capabilities # {}
    THEN [caps |-> Given(capabilities, {}), policy |-> Given(policy, "Reject")]
    ELSE [caps |-> DefaultCapabilities, policy |-> Given(policy, "Widen")]

ResolveForExistingLeaf(capabilities, policy, existing) ==
    IF capabilities # {}
    THEN ResolveCapabilities(capabilities, policy)
    ELSE [caps |-> existing, policy |-> Given(policy, "Reject")]

(***************************************************************************)
(* What the capabilities cover.                                            *)
(***************************************************************************)
SupportsRequiredCapabilities(caps, required) ==
    /\ \A t \in required.extensions : IsDefaultExtension(t) \/ t \in caps.extensions
    /\ \A t \in required.proposals : IsDefaultProposal(t) \/ t \in caps.proposals
    /\ required.credentials \subseteq caps.credentials

ContainsExtensions(caps, exts) ==
    \A t \in DOMAIN exts : IsDefaultExtension(t) \/ t \in caps.extensions

ContainsCredential(caps, credential) == credential \in caps.credentials

ContainsVersion(caps, version) == version \in caps.versions

ContainsCiphersuite(caps, ciphersuite) == ciphersuite \in caps.ciphersuites

(***************************************************************************)
(* What the library adds by itself: only facts about the leaf being built, *)
(* never what the group requires.                                          *)
(***************************************************************************)
EnsureVersion(caps, version) == [caps EXCEPT !.versions = @ \cup {version}]

WidenForExtensions(caps, exts) ==
    [caps EXCEPT !.extensions = @ \cup {t \in DOMAIN exts : ~IsDefaultExtension(t)}]

WidenForKeyPackage(caps, exts) == WidenForExtensions(caps, exts)

WidenFor(caps, ciphersuite, credential, exts) ==
    WidenForExtensions([caps EXCEPT !.ciphersuites = @ \cup {ciphersuite},
                                    !.credentials = @ \cup {credential}], exts)

\* with_grease: a reserved value in each list that has none yet.
WithGrease(caps, value) ==
    [caps EXCEPT
        !.ciphersuites = IF \E t \in @ : IsGrease(t) THEN @ ELSE @ \cup {value},
        !.extensions = IF \E t \in @ : ExtensionKind(t) = "Grease" THEN @ ELSE @ \cup {value},
        !.proposals = IF \E t \in @ : ProposalKind(t) = "Grease" THEN @ ELSE @ \cup {value},
        !.credentials = IF \E t \in @ : CredentialKind(t) = "Grease" THEN @ ELSE @ \cup {value}]
=============================================================================

-------------------------- MODULE ApplicationExport --------------------------
(***************************************************************************)
(* The forward secure exporter: a puncturable pseudorandom function        *)
(* (openmls/src/schedule/pprf, application_export_tree.rs) that gives each *)
(* component one secret per epoch, once, and the calls that use it on the  *)
(* group, on the pending commit and on a commit that was received          *)
(* (mls_group/exporting.rs, staged_commit.rs, framing/validation.rs).      *)
(*                                                                         *)
(* A member has its trees in memory and in its storage.  Deriving a child  *)
(* and writing to the storage may fail, and the member may restart.  It    *)
(* either commits itself or receives the commits.                          *)
(***************************************************************************)
EXTENDS SecretTree

CONSTANTS MaxDepth,       \* Prefix::MAX_DEPTH: the length of an input in bits
          Components,     \* the inputs that are used, sequences of bits
          MaxExportEpoch,
          MaxExportFaults

VARIABLES commits,    \* whether the member is the one who commits
          exporter,   \* its epoch, the tree of the epoch, and that of the commit (option)
          stored,     \* the same as it is in the storage
          handed,     \* <<epoch, component, secret>> given to the application
          lost,       \* <<epoch, component>> hit by a failure
          twice,      \* what was handed out again
          faults      \* failures so far

exportVars == <<commits, exporter, stored, handed, lost, twice, faults>>

-----------------------------------------------------------------------------
(* The function: nodes maps the prefix of a node to its secret.            *)

NewPprf(secret) == <<>> :> secret

PprfChild(secret, bit) ==
  IF bit = 1 THEN DeriveChildSecrets(secret).right ELSE DeriveChildSecrets(secret).left

\* Leaves the node it started from where it is.
MutantEvaluate(nodes, input, failing) ==
  LET found == {k \in 0..MaxDepth : SubSeq(input, 1, k) \in DOMAIN nodes}
      start == Min(found)
      secret[k \in start..MaxDepth] ==
        IF k = start THEN nodes[SubSeq(input, 1, k)] ELSE PprfChild(secret[k - 1], input[k])
  IN IF found = {} THEN [result |-> {}, nodes |-> nodes]
     ELSE [result |-> {secret[MaxDepth]}, nodes |-> nodes]

\* evaluate: the highest node above the input is taken out, and the nodes next
\* to the way down to the input are put in.  failing is the depth at which the
\* derivation fails, MaxDepth if it does not.
Evaluate(nodes, input, failing) ==
  LET found == {k \in 0..MaxDepth : SubSeq(input, 1, k) \in DOMAIN nodes}
      start == Min(found)
      stop == IF failing >= start THEN failing ELSE MaxDepth
      secret[k \in start..MaxDepth] ==
        IF k = start THEN nodes[SubSeq(input, 1, k)] ELSE PprfChild(secret[k - 1], input[k])
      copath(k) == Append(SubSeq(input, 1, k), 1 - input[k + 1])
      kept == Restrict(nodes, DOMAIN nodes \ {SubSeq(input, 1, start)})
      added == [p \in {copath(k) : k \in start..(stop - 1)} |->
                  PprfChild(secret[Len(p) - 1], p[Len(p)])]
  IN IF found = {} THEN [result |-> {}, nodes |-> nodes]
     ELSE [result |-> IF stop = MaxDepth THEN {secret[MaxDepth]} ELSE {}, nodes |-> added @@ kept]

IsDerivable(nodes, input) == \E k \in 0..MaxDepth : SubSeq(input, 1, k) \in DOMAIN nodes

\* ApplicationExportTree::new
ExportTree(epoch) == NewPprf(DeriveSecret(<<"epoch", epoch>>, "application_export"))

-----------------------------------------------------------------------------
(* The member.                                                             *)

ExportInit ==
  /\ commits \in BOOLEAN
  /\ exporter = [epoch |-> 0, tree |-> ExportTree(0), commit |-> {}]
  /\ stored = exporter
  /\ handed = {} /\ lost = {} /\ twice = {} /\ faults = 0

WasHanded(epoch, component) == \E h \in handed : h[1] = epoch /\ h[2] = component

\* The call is done, at the given depth of failure and with the given outcome of
\* the write: the secret is handed out only if both went well.
Exported(epoch, component, evaluated, before, written) ==
  LET failed == evaluated.result = {} \/ ~written
      gone == {c \in Components : IsDerivable(before, c) /\ ~IsDerivable(evaluated.nodes, c)}
  IN /\ handed' = IF failed THEN handed
                  ELSE handed \cup {<<epoch, component, secret>> : secret \in evaluated.result}
     /\ twice' = IF ~failed /\ WasHanded(epoch, component)
                 THEN twice \cup {<<epoch, component>>} ELSE twice
     /\ lost' = IF failed THEN lost \cup {<<epoch, c>> : c \in gone} ELSE lost

Outcomes == {o \in [failing : 0..MaxDepth, written : BOOLEAN] :
               (o.failing < MaxDepth \/ ~o.written) => faults < MaxExportFaults}

Costs(o) == faults' = IF o.failing < MaxDepth \/ ~o.written THEN faults + 1 ELSE faults

\* safe_export_secret: the tree is written when the secret has been derived
SafeExportSecret(component) ==
  \E o \in Outcomes : \E evaluated \in {Evaluate(exporter.tree, component, o.failing)} :
    /\ exporter' = [exporter EXCEPT !.tree = evaluated.nodes]
    /\ stored' = IF evaluated.result # {} /\ o.written
                 THEN [stored EXCEPT !.tree = evaluated.nodes] ELSE stored
    /\ Exported(exporter.epoch, component, evaluated, exporter.tree, o.written)
    /\ Costs(o)
    /\ UNCHANGED commits

\* safe_export_secret_from_pending, and safe_export_secret of a message that
\* has a staged commit, which is in no storage
SafeExportSecretFromCommit(component) ==
  \E o \in Outcomes, tree \in exporter.commit :
    \E evaluated \in {Evaluate(tree, component, o.failing)} :
      /\ exporter' = [exporter EXCEPT !.commit = {evaluated.nodes}]
      /\ stored' = IF commits /\ evaluated.result # {} /\ o.written
                   THEN [stored EXCEPT !.commit = {evaluated.nodes}] ELSE stored
      /\ Exported(exporter.epoch + 1, component, evaluated, tree, o.written)
      /\ Costs(o)
      /\ UNCHANGED commits

\* The pending commit of the committer is stored, the staged commit of another
\* member is not.
StageForExport ==
  /\ exporter.commit = {} /\ exporter.epoch < MaxExportEpoch
  /\ exporter' = [exporter EXCEPT !.commit = {ExportTree(exporter.epoch + 1)}]
  /\ stored' = IF commits THEN [stored EXCEPT !.commit = exporter'.commit] ELSE stored
  /\ UNCHANGED <<commits, handed, lost, twice, faults>>

\* merge_commit, as far as the exporter goes
MergeForExport ==
  /\ \E tree \in exporter.commit :
       exporter' = [epoch |-> exporter.epoch + 1, tree |-> tree, commit |-> {}]
  /\ stored' = exporter'
  /\ UNCHANGED <<commits, handed, lost, twice, faults>>

\* load: a staged commit is forgotten with what was taken from it, and what a
\* failure took from the memory alone is back
RestartForExport ==
  LET back(e, c) == \/ e = stored.epoch /\ IsDerivable(stored.tree, c)
                    \/ e = stored.epoch + 1 /\ \E tree \in stored.commit : IsDerivable(tree, c)
      remembers(e) == stored.commit # {} \/ e <= stored.epoch
  IN /\ faults < MaxExportFaults /\ faults' = faults + 1
     /\ exporter' = stored
     /\ handed' = {h \in handed : remembers(h[1])}
     /\ lost' = {l \in lost : remembers(l[1]) /\ ~back(l[1], l[2])}
     /\ UNCHANGED <<commits, stored, twice>>

ExportNext ==
  \/ \E c \in Components : SafeExportSecret(c) \/ SafeExportSecretFromCommit(c)
  \/ StageForExport \/ MergeForExport \/ RestartForExport

-----------------------------------------------------------------------------
(* Properties.                                                             *)

Reference(epoch, component) ==
  FoldLeft(PprfChild, DeriveSecret(<<"epoch", epoch>>, "application_export"), component)

\* What the member holds for a component is what it has not been given.
IsAccounted(epoch, nodes, saved, component) ==
  /\ WasHanded(epoch, component) => ~IsDerivable(nodes, component) /\ ~IsDerivable(saved, component)
  /\ IsDerivable(nodes, component) \/ WasHanded(epoch, component) \/ <<epoch, component>> \in lost

\* Every component gets the secret of its epoch, the one that all members
\* derive whatever they export in which order, from the group, the pending
\* commit or the commit that was received, and gets it once: what was handed out
\* can be derived neither from the memory nor from the storage any more, and what
\* was not can still be exported unless a call failed half way (Pprf::evaluate,
\* safe_export_secret, safe_export_secret_from_pending).
ExportsHappenOnce ==
  /\ twice = {}
  /\ \A h \in handed : h[3] = Reference(h[1], h[2])
  /\ \A c \in Components :
       /\ IsAccounted(exporter.epoch, exporter.tree, stored.tree, c)
       /\ \A tree \in exporter.commit :
            \A saved \in IF stored.commit = {} THEN {<<>>} ELSE stored.commit :
              IsAccounted(exporter.epoch + 1, tree, saved, c)
=============================================================================

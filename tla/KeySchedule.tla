----------------------------- MODULE KeySchedule -----------------------------
(***************************************************************************)
(* The key schedule of an epoch (openmls/src/schedule), over symbolic      *)
(* secrets: a secret is the term that derives it, so two secrets are equal *)
(* exactly when they were derived the same way from the same inputs.       *)
(* Terms are tuples that start with a name.                                *)
(***************************************************************************)
EXTENDS Naturals, Sequences, FiniteSets, SequencesExt

Zero == <<"zero">>

HkdfExtract(salt, ikm) == <<"extract", salt, ikm>>

KdfExpandLabel(secret, label, context) == <<label, secret, context>>

DeriveSecret(secret, label) == <<label, secret>>

PublicKey(private) == <<"public", private>>

(***************************************************************************)
(* Pre-shared keys.  An id is a record [type, usage, gid, epoch, nonce]:   *)
(* an External one names its key in gid.                                   *)
(***************************************************************************)
ExternalPsk(name, nonce) ==
  [type |-> "External", usage |-> "none", gid |-> name, epoch |-> 0, nonce |-> nonce]

ResumptionPsk(usage, gid, epoch, nonce) ==
  [type |-> "Resumption", usage |-> usage, gid |-> gid, epoch |-> epoch, nonce |-> nonce]

IsForeign(id) == id.usage \in {"Reinit", "Branch"}

\* The id without the nonce names the secret in the storage provider, whose
\* PSKs are a function from names to secrets.
StoredSecret(stored, id) == <<"psk", id.gid, stored[id.gid]>>

ValidateInWelcome(ids) ==
  /\ \A i \in DOMAIN ids : ids[i].usage # "Application"
  /\ Cardinality({i \in DOMAIN ids : IsForeign(ids[i])}) <= 1

\* load_psks: no result if one of the keys is missing or may not be used.
\* gid and foreign are options; the foreign secret serves one id.
LoadPsks(stored, resumption_psks, gid, foreign, ids) ==
  LET found(id) == CASE id.type = "External" -> id.gid \in DOMAIN stored
                     [] id.usage = "Application" -> id.gid \in gid /\ id.epoch \in DOMAIN resumption_psks
                     [] IsForeign(id) -> \E psk \in foreign : psk.id = id
      secret(id) == CASE id.type = "External" -> StoredSecret(stored, id)
                      [] id.usage = "Application" -> resumption_psks[id.epoch]
                      [] IsForeign(id) -> (CHOOSE psk \in foreign : TRUE).secret
  IN IF /\ \A i \in DOMAIN ids : found(ids[i])
        /\ Cardinality({i \in DOMAIN ids : IsForeign(ids[i])}) <= 1
     THEN {[i \in DOMAIN ids |-> [id |-> ids[i], secret |-> secret(ids[i])]]}
     ELSE {}

PskInput(psk, index, count) ==
  KdfExpandLabel(HkdfExtract(Zero, psk.secret), "derived psk", <<psk.id, index, count>>)

PskSecret(psks) ==
  FoldLeftDomain(LAMBDA acc, i : HkdfExtract(PskInput(psks[i], i - 1, Len(psks)), acc), Zero, psks)

(***************************************************************************)
(* From one epoch to the next.  A commit without a path has no commit      *)
(* secret, which extracts like a string of zeros.                          *)
(***************************************************************************)
CommitSecret(path_secret) == DeriveSecret(path_secret, "path")

JoinerSecret(commit_secret, init_secret, context) ==
  KdfExpandLabel(HkdfExtract(init_secret, commit_secret), "joiner", context)

\* IntermediateSecret::new: the schedule before the context is added.
KeyScheduleInit(joiner_secret, psk_secret) == HkdfExtract(joiner_secret, psk_secret)

WelcomeSecret(key_schedule) == DeriveSecret(key_schedule, "welcome")

EpochSecret(key_schedule, context) == KdfExpandLabel(key_schedule, "epoch", context)

\* EpochSecrets::new; a group keeps the epoch secret in place of these.
InitSecret(epoch_secret) == DeriveSecret(epoch_secret, "init")

EncryptionSecret(epoch_secret) == DeriveSecret(epoch_secret, "encryption")

ExportedSecret(epoch_secret, label) ==
  KdfExpandLabel(DeriveSecret(DeriveSecret(epoch_secret, "exporter"), label), "exported", Zero)

ExternalPriv(epoch_secret) == <<"keypair", DeriveSecret(epoch_secret, "external")>>

EpochAuthenticator(epoch_secret) == DeriveSecret(epoch_secret, "authentication")

ResumptionPskSecret(epoch_secret) == DeriveSecret(epoch_secret, "resumption")

MembershipTag(epoch_secret, content) == <<"mac", DeriveSecret(epoch_secret, "membership"), content>>

ConfirmationTag(epoch_secret, transcript) ==
  <<"mac", DeriveSecret(epoch_secret, "confirm"), transcript>>

\* External commits: both sides export the init secret from an HPKE context,
\* the sender from the public key and a fresh KEM output for it, the members
\* from their private key and that output.
KemOutput(external_pub, randomness) == <<"kem", external_pub, randomness>>

InitFromGroupContext(external_pub, kem_output) == <<"external init", external_pub, kem_output>>

InitFromKemOutput(external_priv, kem_output) ==
  <<"external init", PublicKey(external_priv), kem_output>>
=============================================================================

--------------------------- MODULE SenderRatchet ---------------------------
(***************************************************************************)
(* The sender ratchets of the secret tree (openmls/src/tree/               *)
(* sender_ratchet.rs), as operators on values.                             *)
(*                                                                         *)
(* A ratchet secret is represented by its generation: whoever holds the    *)
(* head secret of generation h can derive the key material of every        *)
(* generation >= h and of none below.  Key material is represented by the  *)
(* generation it was derived for, so that a key found under the wrong      *)
(* index is a wrong value and not a right one by construction.             *)
(***************************************************************************)
EXTENDS Integers, Sequences

CONSTANT MaxGeneration  \* u32::MAX: the generation no ratchet moves beyond

ASSUME MaxGenerationAssumption == MaxGeneration \in Nat

Generation == 0 .. MaxGeneration

\* The entry of a window whose key material was taken.
Taken == -1

\* SenderRatchetConfiguration: the two bounds are u32 values.
Configuration == [out_of_order_tolerance : Generation,
                  maximum_forward_distance : Generation]

MinOf(a, b) == IF a < b THEN a ELSE b

-----------------------------------------------------------------------------
(***************************************************************************)
(* RatchetSecret: the own EncryptionRatchet is one, a DecryptionRatchet    *)
(* has one as its head.                                                    *)
(***************************************************************************)
InitialRatchetSecret == 0

\* ratchet_forward refuses to leave generation u32::MAX (RatchetTooLong).
CanRatchetForward(head) == head # MaxGeneration

\* ratchet_forward derives the key material of `head` and moves one on.
RatchetForward(head) == head + 1

-----------------------------------------------------------------------------
(***************************************************************************)
(* DecryptionRatchet: past_secrets[i] belongs to generation                *)
(* ratchet_head - i.                                                       *)
(***************************************************************************)
DecryptionRatchet == [ratchet_head : Generation,
                      past_secrets : Seq(Generation \cup {Taken})]

NewDecryptionRatchet == [ratchet_head |-> InitialRatchetSecret,
                         past_secrets |-> << >>]

\* past_secret_index, counted from 1.
PastSecretIndex(r, generation) == r.ratchet_head - generation

\* The comparison that comes first avoids overflowing a u32.
TooDistantInTheFuture(r, generation, cfg) ==
  /\ r.ratchet_head < MaxGeneration - cfg.maximum_forward_distance
  /\ generation > r.ratchet_head + cfg.maximum_forward_distance

TooDistantInThePast(r, generation, cfg) ==
  /\ generation < r.ratchet_head
  /\ r.ratchet_head - generation > cfg.out_of_order_tolerance

\* The error peek returns, or "Ok".
PeekResult(r, generation, cfg) ==
  CASE TooDistantInTheFuture(r, generation, cfg) -> "TooDistantInTheFuture"
    [] TooDistantInThePast(r, generation, cfg) -> "TooDistantInThePast"
    [] generation >= r.ratchet_head ->
         IF generation = MaxGeneration THEN "RatchetTooLong" ELSE "Ok"
    [] OTHER ->
         LET index == PastSecretIndex(r, generation)
         IN  CASE index > Len(r.past_secrets) -> "IndexOutOfBounds"
               [] index <= Len(r.past_secrets) ->
                    IF r.past_secrets[index] = Taken
                    THEN "SecretReuseError" ELSE "Ok"

\* The key material peek hands out when it succeeds.
PeekedSecret(r, generation) ==
  IF generation >= r.ratchet_head
  THEN generation
  ELSE r.past_secrets[PastSecretIndex(r, generation)]

\* How many of the secrets skipped on the way to `generation` peek keeps.
SkippedKept(r, generation, cfg) ==
  MinOf(generation - r.ratchet_head, cfg.out_of_order_tolerance)

\* consume of PeekedGeneration::Forward: the skipped secrets, newest first,
\* and before them an entry for the generation that is used, are pushed in
\* front of the window, which is then cut to the tolerance.
ConsumeForward(r, generation, cfg) ==
  LET k == SkippedKept(r, generation, cfg)
  IN  [ratchet_head |-> RatchetForward(generation),
       past_secrets |->
         [i \in 1 .. MinOf(1 + k + Len(r.past_secrets),
                           cfg.out_of_order_tolerance) |->
            IF i = 1 THEN Taken
            ELSE IF i - 1 <= k THEN generation - (i - 1)
            ELSE r.past_secrets[i - 1 - k]]]

\* consume of PeekedGeneration::Past: the entry is taken.
ConsumePast(r, generation) ==
  [r EXCEPT !.past_secrets[PastSecretIndex(r, generation)] = Taken]

\* Marks a generation as used that peek returned.
Consume(r, generation, cfg) ==
  IF generation >= r.ratchet_head
  THEN ConsumeForward(r, generation, cfg)
  ELSE ConsumePast(r, generation)
=============================================================================

-------------------------- MODULE MCMemberSecrets --------------------------
(***************************************************************************)
(* What a member keeps of its own between messages and epochs: the         *)
(* ratchets of an epoch, the message secrets of past epochs and the        *)
(* resumption PSKs.  The three do not touch each other's state, so a       *)
(* behaviour explores one of them and leaves the others in an initial      *)
(* state.                                                                  *)
(*                                                                         *)
(* Bounds.  Ratchets: generations 0..5 with u32::MAX mapped to 5, so that  *)
(* a ratchet reaches its end; a tolerance of 2 and one of 3 with a forward *)
(* distance of 2, so that the window overflows and its end is reached by   *)
(* jumps.  Message secrets: policies that keep no, one, three and all past *)
(* epochs, five epochs and three values of the clock: lists overflow,      *)
(* shrink and expire.  Resumption PSKs: sizes 2 and 5 and epochs up to 14, *)
(* so that a list rolls over several times from the early entry epochs.    *)
(***************************************************************************)
EXTENDS MessageRatchets, MessageSecretsStore, ResumptionPskStore

VARIABLE part

MCConfigurations ==
  {[out_of_order_tolerance |-> t, maximum_forward_distance |-> 2] : t \in {2, 3}}

MCInit ==
  /\ RatchetInit /\ Init /\ PskInit
  /\ part \in {"ratchets", "secrets", "psks"}
  /\ part = "ratchets" \/ cfg.out_of_order_tolerance = 2
  /\ part = "secrets" \/ (clock = 0 /\ mem.policy = 0 /\ mem.epoch = 0)
  /\ part = "psks" \/ (epoch = 0 /\ start = 0 /\ store.max_number_of_secrets = HardCoded)

MCNext ==
  \/ part = "ratchets" /\ RatchetNext /\ UNCHANGED <<vars, pskVars, part>>
  \/ part = "secrets" /\ Next /\ UNCHANGED <<ratchetVars, pskVars, part>>
  \/ part = "psks" /\ MergeStagedCommit /\ UNCHANGED <<ratchetVars, vars, part>>

MCSpec == MCInit /\ [][MCNext]_<<ratchetVars, vars, pskVars, part>>
=============================================================================

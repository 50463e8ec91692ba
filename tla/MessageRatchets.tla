-------------------------- MODULE MessageRatchets --------------------------
(***************************************************************************)
(* One sender and one receiver of PrivateMessages in one epoch: the own    *)
(* EncryptionRatchet of the sender, the DecryptionRatchet the receiver     *)
(* keeps for that sender, the copies of both that the two clients persist  *)
(* with write_message_secrets, and a delivery service that may lose,       *)
(* duplicate and reorder messages.                                         *)
(*                                                                         *)
(* process_message and encrypt take `&mut self`, so each is one step; a    *)
(* call that fails part of the way is a step of its own.                   *)
(***************************************************************************)
EXTENDS SenderRatchet

CONSTANTS Configurations,  \* values set_configuration may install
          MaxFailures      \* bound: storage errors and crashes in a behaviour

ASSUME ConfigurationsAssumption ==
  /\ Configurations \subseteq Configuration
  /\ Configurations # {}
  /\ MaxFailures \in Nat

VARIABLES
  enc,       \* sender: generation of the own ratchet in memory
  encDisk,   \* sender: the persisted one
  sent,      \* generations of the messages returned by encrypt, in order
  dec,       \* receiver: the DecryptionRatchet in memory
  decDisk,   \* receiver: the persisted one
  cfg,       \* receiver: the SenderRatchetConfiguration in force
  accepted,  \* history: how often process_message returned a generation
  lost,      \* history: generations consumed by a call that then failed
  failures   \* storage errors and crashes so far

ratchetVars == << enc, encDisk, sent, dec, decDisk, cfg, accepted, lost, failures >>
senderVars == << enc, encDisk, sent >>
receiverVars == << dec, decDisk, cfg, accepted, lost >>

RatchetInit ==
  /\ enc = InitialRatchetSecret
  /\ encDisk = InitialRatchetSecret
  /\ sent = << >>
  /\ dec = NewDecryptionRatchet
  /\ decDisk = NewDecryptionRatchet
  /\ cfg \in Configurations
  /\ accepted = [g \in Generation |-> 0]
  /\ lost = {}
  /\ failures = 0

Fail == failures < MaxFailures /\ failures' = failures + 1

-----------------------------------------------------------------------------
(***************************************************************************)
(* The sender                                                              *)
(***************************************************************************)

\* Mutant: the message is returned before the secrets are written.
MutantEncryptUnwritten ==
  /\ CanRatchetForward(enc)
  /\ enc' = RatchetForward(enc)
  /\ sent' = Append(sent, enc)
  /\ UNCHANGED encDisk /\ UNCHANGED receiverVars /\ UNCHANGED failures

\* encrypt: the ratchet moves, the message secrets are written, and only
\* then is the message returned.
Encrypt ==
  /\ CanRatchetForward(enc)
  /\ enc' = RatchetForward(enc)
  /\ encDisk' = RatchetForward(enc)
  /\ sent' = Append(sent, enc)
  /\ UNCHANGED receiverVars /\ UNCHANGED failures

\* encrypt when write_message_secrets fails: no message is returned.  An
\* error does not say whether the record was written.
EncryptStorageError ==
  /\ CanRatchetForward(enc)
  /\ enc' = RatchetForward(enc)
  /\ encDisk' \in {encDisk, RatchetForward(enc)}
  /\ Fail
  /\ UNCHANGED sent /\ UNCHANGED receiverVars

\* The sending client stops and loads the group from storage.
SenderRestart ==
  /\ enc' = encDisk
  /\ Fail
  /\ UNCHANGED << encDisk, sent >> /\ UNCHANGED receiverVars

-----------------------------------------------------------------------------
(***************************************************************************)
(* The receiver                                                            *)
(***************************************************************************)

\* Some message of the sender that the ratchet has key material for.
Decryptable(generation) ==
  /\ \E i \in 1 .. Len(sent) : sent[i] = generation
  /\ PeekResult(dec, generation, cfg) = "Ok"
  /\ PeekedSecret(dec, generation) = generation

\* Mutant: the consumed ratchet is not persisted.
MutantProcessUnwritten(generation) ==
  /\ Decryptable(generation)
  /\ dec' = Consume(dec, generation, cfg)
  /\ accepted' = [accepted EXCEPT ![generation] = @ + 1]
  /\ UNCHANGED << decDisk, cfg, lost, failures >> /\ UNCHANGED senderVars

\* process_message: peek, decrypt, verify and process, then consume and
\* write the message secrets.
ProcessMessage(generation) ==
  /\ Decryptable(generation)
  /\ dec' = Consume(dec, generation, cfg)
  /\ decDisk' = Consume(dec, generation, cfg)
  /\ accepted' = [accepted EXCEPT ![generation] = @ + 1]
  /\ UNCHANGED << cfg, lost, failures >> /\ UNCHANGED senderVars

\* Mutant: the generation is consumed before the content is validated.
MutantInvalidConsumes(generation) ==
  /\ Decryptable(generation)
  /\ dec' = Consume(dec, generation, cfg)
  /\ decDisk' = Consume(dec, generation, cfg)
  /\ UNCHANGED << cfg, accepted, lost, failures >> /\ UNCHANGED senderVars

\* process_message when the decrypted content is refused (say, a commit
\* whose proposals have not arrived yet): the peeked change is dropped.
ProcessInvalid(generation) ==
  /\ Decryptable(generation)
  /\ UNCHANGED ratchetVars

\* process_message when write_message_secrets fails at its end.
ProcessStorageError(generation) ==
  /\ Decryptable(generation)
  /\ dec' = Consume(dec, generation, cfg)
  /\ decDisk' \in {decDisk, Consume(dec, generation, cfg)}
  /\ lost' = lost \cup {generation}
  /\ Fail
  /\ UNCHANGED << cfg, accepted >> /\ UNCHANGED senderVars

\* The receiving client stops and loads the group from storage.
ReceiverRestart ==
  /\ dec' = decDisk
  /\ Fail
  /\ UNCHANGED << decDisk, cfg, accepted, lost >> /\ UNCHANGED senderVars

\* set_configuration.
SetRatchetConfiguration(c) ==
  /\ cfg' = c
  /\ UNCHANGED << dec, decDisk, accepted, lost, failures >>
  /\ UNCHANGED senderVars

RatchetNext ==
  \/ Encrypt
  \/ EncryptStorageError
  \/ SenderRestart
  \/ \E g \in Generation :
       ProcessMessage(g) \/ ProcessInvalid(g) \/ ProcessStorageError(g)
  \/ ReceiverRestart
  \/ \E c \in Configurations : SetRatchetConfiguration(c)

RatchetSpec == RatchetInit /\ [][RatchetNext]_ratchetVars
-----------------------------------------------------------------------------
(***************************************************************************)
(* Properties                                                              *)
(***************************************************************************)

\* The state variables have their types.
RatchetTypeOK ==
  /\ enc \in Generation
  /\ encDisk \in Generation
  /\ sent \in Seq(Generation)
  /\ dec \in DecryptionRatchet
  /\ decDisk \in DecryptionRatchet
  /\ cfg \in Configurations
  /\ accepted \in [Generation -> Nat]
  /\ lost \subseteq Generation
  /\ failures \in 0 .. MaxFailures

\* encrypt never returns two messages of the same generation, which would be
\* encrypted under the same key.
NoGenerationSentTwice ==
  \A i, j \in 1 .. Len(sent) : sent[i] = sent[j] => i = j

\* process_message returns the content of a generation at most once.
NoGenerationAcceptedTwice ==
  \A g \in Generation : accepted[g] <= 1

\* A generation is used once on either side, whatever storage errors and
\* restarts happen in between: the sender's ratchet is persisted before the
\* message is released, and the receiver's before the content is returned, also
\* when the client restarts from storage between two copies of the message.
GenerationsAreUsedOnce == NoGenerationSentTwice /\ NoGenerationAcceptedTwice

\* Whether the key material of generation g can be computed from ratchet r.
Derivable(r, g) ==
  \/ g >= r.ratchet_head
  \/ \E i \in 1 .. Len(r.past_secrets) : r.past_secrets[i] = g

\* Forward secrecy of the receiver: once process_message has returned a
\* message, neither the memory nor the storage of the client can compute its
\* key again.
AcceptedKeysAreGone ==
  \A g \in Generation :
    accepted[g] > 0 => ~ Derivable(dec, g) /\ ~ Derivable(decDisk, g)

\* Slot i of the window belongs to the i-th generation before the head.
IndexedByGeneration(r) ==
  /\ Len(r.past_secrets) <= r.ratchet_head
  /\ \A i \in 1 .. Len(r.past_secrets) :
       r.past_secrets[i] \in {Taken, r.ratchet_head - i}

\* The index computed by past_secret_index finds the key of the requested
\* generation, after any mixture of forward and out-of-order deliveries and
\* of changes to the tolerance.
WindowIsIndexedByGeneration ==
  IndexedByGeneration(dec) /\ IndexedByGeneration(decDisk)

\* A generation that was neither returned nor lost to a storage error, and
\* that every tolerance in use covers, still has its key: a message whose
\* processing failed, or that was overtaken, can be processed later.
DelayedMessagesStayDecryptable ==
  \A g \in Generation :
    /\ g < dec.ratchet_head
    /\ accepted[g] = 0
    /\ g \notin lost
    /\ \A c \in Configurations :
         dec.ratchet_head - g <= c.out_of_order_tolerance
    => PeekResult(dec, g, cfg) = "Ok" /\ PeekedSecret(dec, g) = g
=============================================================================

------------------------ MODULE ResumptionPskStore ------------------------
(***************************************************************************)
(* The rollover list in which a member keeps the resumption PSKs of past   *)
(* epochs, from the moment the member enters the group: one secret is      *)
(* added on entry (by creation or Welcome) and one at every merged commit. *)
(* A secret is abstracted to the epoch it belongs to.                      *)
(***************************************************************************)
EXTENDS Integers, Sequences

CONSTANTS
  Configured,   \* number_of_resumption_psks of the member's configuration
  HardCoded,    \* the 32 of a group created or joined by external commit
  MaxPskEpoch      \* bound on the epochs explored

ASSUME SizesAssumption == Configured \in Nat /\ HardCoded \in Nat /\ MaxPskEpoch \in Nat

VARIABLES
  store,        \* the ResumptionPskStore of the member
  epoch,        \* the member's current epoch
  start         \* the first epoch of which the member added the secret

pskVars == <<store, epoch, start>>

New(max) == [max_number_of_secrets |-> max, resumption_psk |-> <<>>, cursor |-> 0]

MutantOverwritesFirst(s, e) ==
  LET len == Len(s.resumption_psk)
  IN IF s.max_number_of_secrets = 0 THEN s
     ELSE IF len < s.max_number_of_secrets
     THEN [s EXCEPT !.resumption_psk = Append(@, e), !.cursor = @ + 1]
     ELSE [s EXCEPT !.resumption_psk[1] = e]

Add(s, e) ==
  LET len == Len(s.resumption_psk)
  IN IF s.max_number_of_secrets = 0 THEN s
     ELSE IF len < s.max_number_of_secrets
     THEN [s EXCEPT !.resumption_psk = [i \in 1..(len + 1) |-> IF i <= len THEN @[i] ELSE e],
                    !.cursor = @ + 1]
     ELSE LET c == (s.cursor + 1) % len
          IN [s EXCEPT !.resumption_psk = [@ EXCEPT ![c + 1] = e], !.cursor = c]

Holds(s, e) == \E i \in 1..Len(s.resumption_psk) : s.resumption_psk[i] = e

\* build_internal of the group builder, in epoch 0.
Create ==
  /\ store = Add(New(HardCoded), 0)
  /\ epoch = 0 /\ start = 0

\* into_staged_welcome_inner, in the epoch of the Welcome.
JoinByWelcome(e) ==
  /\ store = Add(New(Configured), e)
  /\ epoch = e /\ start = e

\* build_group of the external commit builder: the secret of the epoch of the
\* GroupInfo is not known, the one of the joined epoch is added by the merge.
JoinByExternalCommit(e) ==
  /\ store = New(HardCoded)
  /\ epoch = e /\ start = e + 1

PskInit == Create \/ \E e \in 0..MaxPskEpoch : JoinByWelcome(e) \/ JoinByExternalCommit(e)

\* merge_staged_commit, for a commit that does not remove the member.
MergeStagedCommit ==
  /\ epoch < MaxPskEpoch
  /\ epoch' = epoch + 1
  /\ store' = Add(store, epoch + 1)
  /\ UNCHANGED start

PskSpec == PskInit /\ [][MergeStagedCommit]_pskVars

-----------------------------------------------------------------------------

\* The store has the types of the fields of ResumptionPskStore: a list of
\* secrets, named by their epoch, and a cursor.
PskTypeOK ==
  /\ store \in [max_number_of_secrets : {Configured, HardCoded},
                resumption_psk : Seq(Nat), cursor : Nat]
  /\ Len(store.resumption_psk) <= store.max_number_of_secrets
  /\ epoch \in Nat /\ start \in Nat

\* However often the list rolls over, the secrets of all but one of the
\* max_number_of_secrets most recent epochs since the member's entry can be
\* looked up, so a resumption PSK of such an epoch can be used.
RecentSecretsAreKept ==
  \A e \in start..epoch :
    /\ store.max_number_of_secrets > 0
    /\ e = epoch \/ e > epoch - store.max_number_of_secrets + 1
    => Holds(store, e)

\* "get" finds the first entry of an epoch: no epoch has two.
OneSecretPerEpoch ==
  \A i, j \in 1..Len(store.resumption_psk) :
    store.resumption_psk[i] = store.resumption_psk[j] => i = j

-----------------------------------------------------------------------------
(* What the documentation says and the code does not do.                   *)

\* "Number of resumption psks to keep": the list holds the most recent ones,
\* as many as its size allows.
MostRecentSecretsAreKept ==
  \A e \in start..epoch : e > epoch - store.max_number_of_secrets => Holds(store, e)
=============================================================================

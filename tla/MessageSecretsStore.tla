------------------------ MODULE MessageSecretsStore ------------------------
(***************************************************************************)
(* The message secrets of past epochs that a member keeps for stragglers:  *)
(* how many, which ones, and when they are deleted by policy or by time.   *)
(*                                                                         *)
(* The group in memory and its image in storage are records.  A storage    *)
(* error is reported to the application, which rolls its transaction back  *)
(* and loads the group again before it goes on.  The clock is the system's *)
(* and may be set back.                                                    *)
(***************************************************************************)
EXTENDS Ranks, Functions, FiniteSetsExt

CONSTANTS
  Limits,      \* the max_epochs of the policies; KeepAll is the largest of them
  MaxEpoch,    \* bound: the last epoch
  MaxTime      \* bound: the values of the clock

ASSUME LimitsAssumption == IsFiniteSet(Limits) /\ Limits # {} /\ Limits \subseteq Nat

ASSUME SecretsBoundsAssumption == MaxEpoch \in Nat /\ MaxTime \in Nat

VARIABLES
  mem,         \* the group in memory
  disk,        \* the group in storage
  failed,      \* an operation has reported a storage error
  clock
vars == <<mem, disk, failed, clock>>

Times == 0..MaxTime

\* An EpochTree.  The timestamp is optional: older versions wrote none.
EpochTree(epoch, added_at) == [epoch |-> epoch, added_at |-> added_at]

\* "kept" is a ghost field: every epoch whose secrets were put into the list.
Group(policy, epoch, added_at, past) ==
  [policy |-> policy, max_epochs |-> policy, epoch |-> epoch, added_at |-> added_at,
   past_epoch_trees |-> past, kept |-> {past[i].epoch : i \in DOMAIN past}]

\* The deserializer's sort: older versions persisted the list rotated.  An epoch
\* has one tree, so the k-th tree is the one of the k-th epoch.
EpochTreesOldestFirst(past) ==
  LET epochs == {past[i].epoch : i \in DOMAIN past}
  IN [k \in 1..Cardinality(epochs) |-> CHOOSE tree \in Range(past) : tree.epoch = Nth(epochs, k)]

\* What a version without timestamps may have stored.
LegacyLists(epoch, policy) ==
  LET epochs == {x \in SUBSET (0..(epoch - 1)) : Cardinality(x) <= policy}
  IN UNION {{[i \in DOMAIN s |-> EpochTree(s[i], {})] : s \in Bijection(1..Cardinality(x), x)} :
            x \in epochs}

\* A group that was just created or joined, or one stored by an older version.
Init ==
  /\ clock \in Times
  /\ \E policy \in Limits :
       \/ mem = Group(policy, 0, {clock}, <<>>)
       \/ \E past \in LegacyLists(2, policy) : mem = Group(policy, 2, {}, EpochTreesOldestFirst(past))
  /\ disk = mem
  /\ failed = FALSE

-----------------------------------------------------------------------------

MutantOverwritesTheNewest(past, n) == SubSeq(past, 1, IF Len(past) < n THEN Len(past) ELSE n)

\* resize, and drain(0..excess) in general: the n newest stay.
Newest(past, n) == IF Len(past) <= n THEN past ELSE SubSeq(past, Len(past) - n + 1, Len(past))

Resized(g, policy) ==
  [g EXCEPT !.max_epochs = policy, !.past_epoch_trees = Newest(@, policy)]

\* add_past_epoch_tree: a full list is rotated and truncated first.
AddPastEpochTree(g) ==
  IF g.max_epochs = 0 THEN g
  ELSE [g EXCEPT
          !.past_epoch_trees =
             Append(IF Len(@) >= g.max_epochs THEN Newest(@, g.max_epochs - 1) ELSE @,
                    EpochTree(g.epoch, g.added_at)),
          !.kept = @ \cup {g.epoch}]

\* The store's part of merge_commit.
MergedGroup(g) ==
  [AddPastEpochTree(g) EXCEPT !.epoch = g.epoch + 1, !.added_at = {clock}]

\* Every tree up to the newest one with an expired timestamp goes, all of them
\* if the current epoch's secrets have expired.
DeleteExpired(g, expired) ==
  LET past == g.past_epoch_trees
      found == {i \in DOMAIN past : past[i].added_at \cap expired # {}}
  IN IF g.added_at \cap expired # {} THEN <<>>
     ELSE SubSeq(past, Max(found \cup {0}) + 1, Len(past))

\* duration_since fails for a time in the future.
OlderThan(duration) == {t \in Times : clock >= t /\ clock - t > duration}

Before(cutoff) == {t \in Times : t < cutoff}

MutantDrainsOneLess(g, config) ==
  LET past == g.past_epoch_trees
      found == {i \in DOMAIN past : past[i].added_at \cap Before(config.time) # {}}
  IN IF config.kind = "BeforeTimestamp" /\ found # {}
     THEN SubSeq(past, Max(found), Len(past))
     ELSE past

\* The time-based deletions and DeleteAllWithoutTimestamp.
DeletedBy(g, config) ==
  CASE config.kind = "OlderThanDuration" -> DeleteExpired(g, OlderThan(config.time))
    [] config.kind = "BeforeTimestamp" -> DeleteExpired(g, Before(config.time))
    [] config.kind = "DeleteAllWithoutTimestamp" ->
         LET past == g.past_epoch_trees
         IN Subsequence(past, {i \in DOMAIN past : past[i].added_at # {}})
    [] config.kind = "DeleteAll" -> <<>>

\* max_past_epochs applies after the time-based deletion.
AfterDeletion(g, config, max_past_epochs) ==
  LET rest == DeletedBy(g, config)
  IN [g EXCEPT !.past_epoch_trees =
        IF max_past_epochs = {} THEN rest ELSE Newest(rest, CHOOSE n \in max_past_epochs : TRUE)]

-----------------------------------------------------------------------------

\* The operation's result is written, or the write fails and is rolled back.
WriteOrFail(new) ==
  /\ mem' = new
  /\ \/ disk' = new /\ failed' = FALSE
     \/ UNCHANGED disk /\ failed' = TRUE

MergeCommit ==
  /\ ~failed /\ mem.epoch < MaxEpoch
  /\ WriteOrFail(MergedGroup(mem))
  /\ UNCHANGED clock

\* The store is resized only if the policy differs from the configured one.
SetConfiguration(policy) ==
  LET configured == [mem EXCEPT !.policy = policy]
  IN /\ ~failed
     /\ \/ WriteOrFail(IF policy = mem.policy THEN configured ELSE Resized(configured, policy))
        \/ mem' = configured /\ UNCHANGED disk /\ failed' = TRUE
     /\ UNCHANGED clock

SetPastEpochDeletionPolicy(policy) ==
  /\ ~failed
  /\ WriteOrFail([Resized(mem, policy) EXCEPT !.policy = policy])
  /\ UNCHANGED clock

Configs ==
  [kind : {"OlderThanDuration", "BeforeTimestamp"}, time : Times]
    \cup [kind : {"DeleteAllWithoutTimestamp", "DeleteAll"}, time : {0}]

\* The optional max_past_epochs of a deletion.
MaxPastEpochs == {{}} \cup {{n} : n \in Limits}

DeletePastEpochSecrets(config, max_past_epochs) ==
  /\ ~failed
  /\ WriteOrFail(AfterDeletion(mem, config, max_past_epochs))
  /\ UNCHANGED clock

MutantNoReload ==
  /\ failed
  /\ mem' = [disk EXCEPT !.policy = mem.policy]
  /\ failed' = FALSE
  /\ UNCHANGED <<disk, clock>>

\* MlsGroup::load; after a reported error the application has to do it.
Load ==
  /\ failed \/ mem # disk
  /\ mem' = [disk EXCEPT !.past_epoch_trees = EpochTreesOldestFirst(@)]
  /\ failed' = FALSE
  /\ UNCHANGED <<disk, clock>>

\* The system clock is read or set (external).
SetClock(t) ==
  /\ clock' = t
  /\ UNCHANGED <<mem, disk, failed>>

Next ==
  \/ MergeCommit
  \/ \E policy \in Limits : SetConfiguration(policy) \/ SetPastEpochDeletionPolicy(policy)
  \/ \E config \in Configs, max \in MaxPastEpochs : DeletePastEpochSecrets(config, max)
  \/ Load
  \/ \E t \in Times : SetClock(t)

Spec == Init /\ [][Next]_vars

-----------------------------------------------------------------------------

\* The store in memory and the written one have the types of the fields of
\* MessageSecretsStore and of the deletion policy.
TypeOK ==
  /\ \A g \in {mem, disk} :
       /\ {g.policy, g.max_epochs} \subseteq Limits
       /\ g.epoch \in 0..MaxEpoch
       /\ g.added_at \subseteq Times /\ Cardinality(g.added_at) <= 1
       /\ \A t \in Range(g.past_epoch_trees) : t.epoch < g.epoch /\ t.added_at \subseteq Times
  /\ clock \in Times /\ failed \in BOOLEAN

\* The list is oldest first and never longer than the limit (debug_assert of
\* add_past_epoch_tree, and the order epoch_trees_oldest_first restores).
OldestFirstWithinLimit(g) ==
  LET past == g.past_epoch_trees
  IN /\ Len(past) <= g.max_epochs
     /\ \A i, j \in DOMAIN past : i < j => past[i].epoch < past[j].epoch

\* No listed secret is older than one that is gone.
NewestSurvive(g) ==
  LET past == g.past_epoch_trees
  IN \A i \in DOMAIN past, f \in g.kept :
       f > past[i].epoch => \E j \in DOMAIN past : past[j].epoch = f

\* Whatever resizing, eviction and deletion by time or by count are combined,
\* also with timestamps that are missing or out of order: lookups find one tree
\* per epoch, the limit is kept, and a secret is dropped only together with all
\* older ones, so the survivors are the newest.
OldestGoFirst == OldestFirstWithinLimit(mem) /\ NewestSurvive(mem)

\* The number of epochs kept is the configured one: also when a storage error
\* interrupted set_configuration after it had stored the policy in memory, and
\* the application loads the group and tries again.
PolicyIsApplied == ~failed => mem.max_epochs = mem.policy

\* The secrets of the epochs began in the order of the list: the clock was not
\* set back meanwhile, as far as the timestamps tell.
BeganInOrder(g) ==
  LET starts == Append([i \in DOMAIN g.past_epoch_trees |-> g.past_epoch_trees[i].added_at], g.added_at)
  IN \A i, j \in DOMAIN starts : i < j => \A s \in starts[i], t \in starts[j] : s <= t

\* After delete_past_epoch_secrets no past secret remains that is known to be
\* older than the given time, not even behind a younger one; and no secret goes
\* that is inside the retention window, as long as the clock was not set back
\* while the listed epochs began.
DeletionIsExact ==
  [][\A cutoff \in Times, max \in MaxPastEpochs :
       DeletePastEpochSecrets([kind |-> "BeforeTimestamp", time |-> cutoff], max) =>
         /\ \A t \in Range(mem'.past_epoch_trees) : t.added_at \cap Before(cutoff) = {}
         /\ max = {} /\ BeganInOrder(mem) =>
              \A t \in Range(mem.past_epoch_trees) :
                (\E s \in t.added_at : s >= cutoff) => t \in Range(mem'.past_epoch_trees)]_vars
=============================================================================

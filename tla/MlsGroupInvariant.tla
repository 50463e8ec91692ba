------------------------- MODULE MlsGroupInvariant --------------------------
(***************************************************************************)
(* The inductive invariant of MlsGroup, and the steps that preserve it     *)
(* whatever is in the proposal lists.  What needs facts about the lists or *)
(* about counting is in MlsGroupProofs.                                    *)
(***************************************************************************)
EXTENDS MlsGroup, TLAPS

\* The prover of a leaf that names none.
USE ZenonT(30)

-----------------------------------------------------------------------------
(* The invariant.                                                          *)

Keys == {Key[c] : c \in Clients}

Leaf == [key : Keys, leaf : Int]

Trees == UNION {[M -> Leaf] : M \in SUBSET Clients}

\* An Update is about its sender.
Proposal ==
  {p \in [id : Nat, type : {k[1] : k \in Kinds}, sender : Clients, subject : Clients \cup Keys,
          target : Clients, byRef : BOOLEAN, context : Seq(Nat)] :
     p.subject = Subject(p.type, p.target) /\ (p.type = "Update" => p.target = p.sender)}

Commit ==
  [id : Nat, sender : Clients, context : Seq(Nat), path : BOOLEAN, queue : Seq(Proposal),
   tree : Trees]

Staged ==
  [id : Nat \ {0}, kind : {"GroupMember", "PublicState"}, transcript : Seq(Nat), tree : Trees,
   new_keypairs : SUBSET Int, new_leaf_keypair : SUBSET Int, reinit : BOOLEAN]

Group ==
  [state : {"None", "Operational", "PendingCommit", "Inactive"}, pending : {NoCommit} \cup Staged,
   transcript : Seq(Nat), tree : Trees, proposals : Seq(Proposal), own_leaf_nodes : SUBSET Int]

KeyStore ==
  [epoch_keypairs : SUBSET ((Nat \ {0}) \X Int), leaf_keypairs : SUBSET Int,
   used_key_packages : SUBSET Int]

TypeInv ==
  /\ mem \in [Clients -> Group] /\ disk = mem
  /\ keystore \in [Clients -> KeyStore]
  /\ app \in [Clients -> {NoCommit} \cup Staged]
  /\ proposals \in SUBSET Proposal /\ IsFiniteSet(proposals)
  /\ commits \in SUBSET Commit /\ IsFiniteSet(commits)
  /\ log \in Seq(commits)

\* References and commit ids are not reused.
IdsInv ==
  /\ \A p \in proposals : p.byRef /\ \E n \in 1..Cardinality(proposals) : p.id = ProposalId(n)
  /\ \A p, q \in proposals : p.id = q.id => p = q
  /\ \A m \in commits : \E n \in 1..Cardinality(commits) : m.id = CommitId(n)
  /\ \A l, m \in commits : l.id = m.id => l = m
  /\ Cardinality(commits) <= MaxCommits

\* A leaf has its client's key.
OwnKeys(tree) == \A d \in DOMAIN tree : tree[d].key = Key[d]

\* A transcript of the group.
InHistory(transcript) ==
  Len(transcript) \in 1..(Len(log) + 1) /\ transcript = TranscriptAt(Len(transcript))

\* The delivery service accepted the commits of one history.
LogInv ==
  /\ \A i \in 1..Len(log) : log[i].context = TranscriptAt(i)
  /\ \A n \in 1..(Len(log) + 1) : OwnKeys(TreeAt(n))
  /\ \A p \in proposals : InHistory(p.context) /\ p.sender \in DOMAIN TreeAt(Len(p.context))

\* An entry of a commit's list: a proposal that was sent, or one of the committer.
EntryOK(p, m) == p.context = m.context /\ (p.byRef => p \in proposals) /\ (~p.byRef => p.type # "Update")

CommitOK(m) ==
  LET tree == TreeAt(Len(m.context))
  IN /\ InHistory(m.context)
     /\ m.sender \in DOMAIN tree
     /\ \A i \in DOMAIN m.queue : EntryOK(m.queue[i], m)
     /\ DistinctIds(m.queue)
     /\ BuilderChecks(m.queue, tree, m.sender, NoKey) = "Ok"
     /\ \A i \in OfType(m.queue, "Update") : m.queue[i].sender \in DOMAIN tree \ RemovedMembers(m.queue)
     /\ PathRequired(m.queue) => m.path
     /\ m.tree = NewTree(m.queue, tree, m.sender, m.path, m.id)

CommitsInv == \A m \in commits : CommitOK(m)

\* What a client has in memory.
MemberOK(c) ==
  /\ mem[c].state = "None" => mem[c] = NoGroup
  /\ mem[c].state = "PendingCommit" <=> mem[c].pending # NoCommit
  /\ app[c] # NoCommit => IsActive(c)
  /\ mem[c].state # "None" => InHistory(mem[c].transcript) /\ mem[c].tree = TreeAt(Epoch(c))
  /\ IsActive(c) =>
       /\ c \in DOMAIN mem[c].tree
       /\ \A i \in DOMAIN mem[c].proposals :
            mem[c].proposals[i] \in proposals /\ mem[c].proposals[i].context = mem[c].transcript

\* s is the StagedCommit of the commit that the delivery service has for c's epoch.
IsNext(c, s) ==
  /\ Epoch(c) \in 1..Len(log)
  /\ s.id = log[Epoch(c)].id
  /\ s.transcript = Append(mem[c].transcript, s.id)
  /\ s.tree = log[Epoch(c)].tree
  /\ s.kind = "PublicState" <=> c \in RemovedMembers(log[Epoch(c)].queue)

\* The staged commits that a client holds.
StagedOK(c) ==
  /\ mem[c].pending # NoCommit =>
       \E m \in commits :
         m.sender = c /\ m.context = mem[c].transcript /\ mem[c].pending = OwnStaged(m)
  /\ app[c] # NoCommit => IsNext(c, app[c])

MembersInv == \A c \in Clients : MemberOK(c) /\ StagedOK(c)

\* Members have the private keys of their leaves and of no earlier epoch.
KeysOK(c) ==
  /\ IsActive(c) => mem[c].tree[c].leaf \in EpochKeys(c)
  /\ \A s \in StagedAt(c) : s.kind = "GroupMember" => s.tree[c].leaf \in AvailableKeys(c, s)
  /\ \A k \in keystore[c].epoch_keypairs :
       k[1] # Epoch(c) =>
         /\ k[1] <= Len(log)
         /\ c \in DOMAIN TreeAt(k[1] + 1) => \E add \in Added(log[k[1]]) : add[1] = c

KeysInv == \A c \in Clients : KeysOK(c)

\* The client used, or can still use, a key package that adds it in epoch r.
HasJoined(c, r) ==
  \E add \in Added(log[r - 1]) : add[1] = c /\ add[2] \in keystore[c].used_key_packages

CanJoin(c, r) ==
  \E add \in Added(log[r - 1]) : add[1] = c /\ add[2] \notin keystore[c].used_key_packages

\* Every epoch in which the client could still join, up to epoch n, lies before
\* one in which it did join.
JoinedLater(c, n) == \A r \in 2..n : CanJoin(c, r) => \E q \in (r + 1)..n : HasJoined(c, q)

\* The private keys of the own Updates of the epoch are kept: a client does not
\* come back to an epoch that it has been in.
UpdatesOK(c) ==
  /\ IsActive(c) =>
       /\ JoinedLater(c, Epoch(c))
       /\ \A p \in proposals : p.sender = c /\ Len(p.context) > Epoch(c) =>
            \E r \in (Epoch(c) + 1)..Len(p.context) : HasJoined(c, r)
       /\ \A p \in proposals :
            p.type = "Update" /\ p.sender = c /\ p.context = mem[c].transcript =>
              p.id \in mem[c].own_leaf_nodes \cap keystore[c].leaf_keypairs
  /\ \A p \in proposals : p.sender = c => JoinedLater(c, Len(p.context))

UpdatesInv == \A c \in Clients : UpdatesOK(c)

IInv ==
  TypeInv /\ IdsInv /\ LogInv /\ CommitsInv /\ MembersInv /\ KeysInv /\ UpdatesInv

-----------------------------------------------------------------------------
(* The history.                                                            *)

\* The first tree has the initial members' leaves with their own keys.
LEMMA FirstTreeType == FirstTree \in Trees /\ OwnKeys(FirstTree) /\ DOMAIN FirstTree = InitialMembers
<1>1. \A c \in InitialMembers : [key |-> Key[c], leaf |-> -1 - c] \in Leaf
  BY SMTT(30), ClientsAssumption DEF Leaf, Keys
<1>2. InitialMembers \in SUBSET Clients
  BY ClientsAssumption
<1>3. FirstTree \in [InitialMembers -> Leaf]
  BY <1>1 DEF FirstTree
<1> QED BY <1>2, <1>3 DEF Trees, FirstTree, OwnKeys

\* The transcript of an epoch is a sequence of commit ids; the commit of the epoch
\* extends it.
LEMMA TranscriptFacts ==
  ASSUME TypeInv, NEW n \in 1..(Len(log) + 1)
  PROVE  /\ TranscriptAt(n) \in Seq(Nat) /\ Len(TranscriptAt(n)) = n
         /\ TreeAt(n) \in Trees
         /\ n <= Len(log) => TranscriptAt(n + 1) = Append(TranscriptAt(n), log[n].id)
         /\ n <= Len(log) => TreeAt(n + 1) = log[n].tree /\ log[n] \in commits
<1>1. Len(log) \in Nat /\ n \in Nat /\ \A i \in 1..Len(log) : log[i] \in commits
  BY SMTT(30) DEF TypeInv
<1>2. \A m \in commits : m \in Commit
  BY DEF TypeInv
<1>3. \A i \in 1..Len(log) : log[i].id \in Nat /\ log[i].tree \in Trees
  BY <1>1, <1>2 DEF Commit
<1>4. \A i \in 1..n : (IF i = 1 THEN 0 ELSE log[i - 1].id) \in Nat
  <2>1. \A i \in 1..n : i # 1 => i - 1 \in 1..Len(log)
    BY SMTT(30), <1>1
  <2> QED BY <1>3, <2>1
<1>5. TranscriptAt(n) \in Seq(Nat) /\ Len(TranscriptAt(n)) = n
  BY SMTT(30), <1>1, <1>4 DEF TranscriptAt
<1>6. TreeAt(n) \in Trees
  <2>1. n # 1 => n - 1 \in 1..Len(log)
    BY SMTT(30), <1>1
  <2> QED BY <1>3, <2>1, FirstTreeType DEF TreeAt
<1>7. ASSUME n <= Len(log)
      PROVE  TranscriptAt(n + 1) = Append(TranscriptAt(n), log[n].id)
  <2>1. DOMAIN TranscriptAt(n + 1) = 1..(n + 1) /\ DOMAIN TranscriptAt(n) = 1..n
    BY DEF TranscriptAt
  <2>2. TranscriptAt(n + 1) = [i \in 1..(n + 1) |-> IF i <= n THEN TranscriptAt(n)[i] ELSE log[n].id]
    <3>1. \A i \in 1..(n + 1) : ~(i <= n) => i = n + 1 /\ i - 1 = n /\ i # 1
      BY SMTT(30), <1>1
    <3>2. \A i \in 1..(n + 1) : i <= n => i \in 1..n
      BY SMTT(30), <1>1
    <3> QED BY <3>1, <3>2 DEF TranscriptAt
  <2>3. Append(TranscriptAt(n), log[n].id) =
          [i \in 1..(n + 1) |-> IF i <= n THEN TranscriptAt(n)[i] ELSE log[n].id]
    BY SMTT(30), <1>5
  <2> QED BY <2>2, <2>3
<1>8. n <= Len(log) => TreeAt(n + 1) = log[n].tree /\ log[n] \in commits
  <2>1. n <= Len(log) => n + 1 # 1 /\ n + 1 - 1 = n /\ n \in 1..Len(log)
    BY SMTT(30), <1>1
  <2> QED BY SMTT(30), <1>1, <2>1 DEF TreeAt
<1> QED BY <1>5, <1>6, <1>7, <1>8

\* The commit that the delivery service has for a client's epoch.
LEMMA PendingIsNext ==
  ASSUME TypeInv, LogInv, NEW c \in Clients, NEW m \in Pending(c)
  PROVE  Epoch(c) \in 1..Len(log) /\ m = log[Epoch(c)] /\ m \in commits
<1>1. PICK i \in DOMAIN log : m = log[i] /\ m.context = mem[c].transcript
  BY DEF Pending, Range
<1>2. i \in 1..Len(log) /\ Len(log) \in Nat /\ m \in commits
  BY SMTT(30), <1>1 DEF TypeInv
<1>3. m.context = TranscriptAt(i)
  BY <1>1, <1>2 DEF LogInv
<1>4. Len(TranscriptAt(i)) = i
  BY SMTT(30), <1>2, TranscriptFacts
<1>5. Epoch(c) = i
  BY <1>1, <1>3, <1>4 DEF Epoch
<1> QED BY <1>1, <1>2, <1>5

-----------------------------------------------------------------------------
(* A step of one client leaves the others as they are.                     *)

\* A step that neither changes what a client has, nor the history, and in which the
\* client sends no proposal, keeps what is known about the client.
LEMMA Frame ==
  ASSUME NEW d \in Clients, mem'[d] = mem[d], app'[d] = app[d], keystore'[d] = keystore[d],
         log' = log, proposals \subseteq proposals', commits \subseteq commits',
         \A p \in proposals' : p \in proposals \/ p.sender # d,
         MemberOK(d), StagedOK(d), KeysOK(d), UpdatesOK(d)
  PROVE  MemberOK(d)' /\ StagedOK(d)' /\ KeysOK(d)' /\ UpdatesOK(d)'
<1>1. IsActive(d)' = IsActive(d) /\ Epoch(d)' = Epoch(d) /\ EpochKeys(d)' = EpochKeys(d)
  BY DEF IsActive, Epoch, EpochKeys
<1>2. \A n : TranscriptAt(n)' = TranscriptAt(n) /\ TreeAt(n)' = TreeAt(n)
  BY DEF TranscriptAt, TreeAt
<1>3. MemberOK(d)'
  BY <1>1, <1>2 DEF MemberOK, InHistory
<1>4. StagedOK(d)'
  BY <1>1 DEF StagedOK, IsNext
<1>5. KeysOK(d)'
  BY SMTT(30), <1>1, <1>2 DEF KeysOK, StagedAt, AvailableKeys, Added
<1>6. UpdatesOK(d)'
  <2>1. \A r : HasJoined(d, r)' = HasJoined(d, r) /\ CanJoin(d, r)' = CanJoin(d, r)
    BY DEF HasJoined, CanJoin, Added
  <2>2. \A n : JoinedLater(d, n)' <=> JoinedLater(d, n)
    BY <2>1 DEF JoinedLater
  <2> QED BY <1>1, <2>1, <2>2 DEF UpdatesOK
<1> QED BY <1>3, <1>4, <1>5, <1>6

\* A step of one client: what is known of the others and of the history stays.
LEMMA ClientStep ==
  ASSUME IInv, TypeInv', NEW c \in Clients,
         UNCHANGED <<proposals, commits, log>>,
         \A d \in Clients \ {c} :
           mem'[d] = mem[d] /\ app'[d] = app[d] /\ keystore'[d] = keystore[d],
         MemberOK(c)', StagedOK(c)', KeysOK(c)', UpdatesOK(c)'
  PROVE  IInv'
<1>1. \A d \in Clients : MemberOK(d)' /\ StagedOK(d)' /\ KeysOK(d)' /\ UpdatesOK(d)'
  BY Frame DEF IInv, MembersInv, KeysInv, UpdatesInv
<1>2. IdsInv'
  BY DEF IInv, IdsInv
<1>3. \A n : TranscriptAt(n)' = TranscriptAt(n) /\ TreeAt(n)' = TreeAt(n)
  BY DEF TranscriptAt, TreeAt
<1>4. \A t : InHistory(t)' = InHistory(t)
  BY <1>3 DEF InHistory
<1>5. LogInv'
  BY <1>3, <1>4 DEF IInv, LogInv
<1>6. CommitsInv'
  BY <1>3, <1>4 DEF IInv, CommitsInv, CommitOK, EntryOK
<1> QED BY <1>1, <1>2, <1>5, <1>6 DEF IInv, MembersInv, KeysInv, UpdatesInv

\* The facts about one client.
LEMMA ClientFacts ==
  ASSUME IInv, NEW c \in Clients
  PROVE  /\ TypeInv /\ MemberOK(c) /\ StagedOK(c) /\ KeysOK(c) /\ UpdatesOK(c)
         /\ mem[c] \in Group /\ disk = mem /\ keystore[c] \in KeyStore
         /\ app[c] \in {NoCommit} \cup Staged
BY DEF IInv, TypeInv, MembersInv, KeysInv, UpdatesInv

\* What a client follows and holds does not depend on its queue.
LEMMA QueueFrame ==
  ASSUME NEW c \in Clients, mem'[c].state = mem[c].state, mem'[c].pending = mem[c].pending,
         mem'[c].transcript = mem[c].transcript, mem'[c].tree = mem[c].tree, app'[c] = app[c],
         keystore'[c].epoch_keypairs = keystore[c].epoch_keypairs, log' = log,
         commits' = commits, StagedOK(c), KeysOK(c)
  PROVE  StagedOK(c)' /\ KeysOK(c)'
<1>1. IsActive(c)' = IsActive(c) /\ Epoch(c)' = Epoch(c) /\ EpochKeys(c)' = EpochKeys(c)
  BY DEF IsActive, Epoch, EpochKeys
<1>2. \A n : TreeAt(n)' = TreeAt(n)
  BY DEF TreeAt
<1>3. StagedOK(c)'
  BY <1>1 DEF StagedOK, IsNext
<1>4. KeysOK(c)'
  BY SMTT(30), <1>1, <1>2 DEF KeysOK, StagedAt, AvailableKeys, Added
<1> QED BY <1>3, <1>4

\* What a client may still decrypt depends on its epoch and its private keys only.
LEMMA UpdatesFrame ==
  ASSUME NEW c \in Clients, IsActive(c)' = IsActive(c), mem'[c].transcript = mem[c].transcript,
         mem'[c].own_leaf_nodes = mem[c].own_leaf_nodes, keystore'[c] = keystore[c],
         proposals' = proposals, log' = log, UpdatesOK(c)
  PROVE  UpdatesOK(c)'
<1>1. Epoch(c)' = Epoch(c)
  BY DEF Epoch
<1>2. \A r : HasJoined(c, r)' = HasJoined(c, r) /\ CanJoin(c, r)' = CanJoin(c, r)
  BY DEF HasJoined, CanJoin, Added
<1>3. \A n : JoinedLater(c, n)' <=> JoinedLater(c, n)
  BY <1>2 DEF JoinedLater
<1> QED BY <1>1, <1>2, <1>3 DEF UpdatesOK

-----------------------------------------------------------------------------
(* Steps within an epoch.                                                  *)

\* The entries of an extended sequence.
LEMMA AppendEntries ==
  ASSUME NEW T, NEW s \in Seq(T), NEW e \in T
  PROVE  /\ Append(s, e) \in Seq(T)
         /\ \A i \in DOMAIN Append(s, e) : (i \in DOMAIN s /\ Append(s, e)[i] = s[i]) \/ Append(s, e)[i] = e
BY SMTT(30)

\* A received proposal of the epoch is queued.
LEMMA ReceiveProposalStep ==
  ASSUME IInv, NEW c \in Clients, NEW p \in proposals, ReceiveProposal(c, p)
  PROVE  IInv'
<1>1. /\ IsActive(c) /\ p.context = mem[c].transcript
      /\ mem' = [mem EXCEPT ![c].proposals = Append(@, p)]
      /\ disk' = [disk EXCEPT ![c].proposals = Append(@, p)]
      /\ UNCHANGED <<keystore, app, proposals, commits, log>>
  BY DEF ReceiveProposal
<1>2. /\ TypeInv /\ MemberOK(c) /\ StagedOK(c) /\ KeysOK(c) /\ UpdatesOK(c)
      /\ mem[c] \in Group /\ disk = mem
  BY ClientFacts
<1>3. p \in Proposal /\ mem \in [Clients -> Group] /\ mem[c].proposals \in Seq(Proposal)
  BY <1>2 DEF TypeInv, Group
<1>4. /\ mem'[c] = [mem[c] EXCEPT !.proposals = Append(@, p)]
      /\ \A d \in Clients \ {c} : mem'[d] = mem[d]
  BY <1>1, <1>3
<1>5. /\ mem'[c].state = mem[c].state /\ mem'[c].pending = mem[c].pending
      /\ mem'[c].transcript = mem[c].transcript /\ mem'[c].tree = mem[c].tree
      /\ mem'[c].own_leaf_nodes = mem[c].own_leaf_nodes
      /\ mem'[c].proposals = Append(mem[c].proposals, p)
      /\ mem'[c] \in Group
  <2> DEFINE g == mem[c]
             h == mem'[c]
             q == Append(mem[c].proposals, p)
  <2>1. g \in Group /\ q \in Seq(Proposal) /\ h = [g EXCEPT !.proposals = q]
    BY <1>2, <1>3, <1>4, AppendEntries
  <2> HIDE DEF g, h, q
  <2>2. /\ h \in Group /\ h.proposals = q /\ h.own_leaf_nodes = g.own_leaf_nodes
        /\ h.state = g.state /\ h.pending = g.pending
        /\ h.transcript = g.transcript /\ h.tree = g.tree
    BY <2>1 DEF Group
  <2> QED BY <2>2 DEF g, h, q
<1>6. TypeInv'
  <2>1. mem' \in [Clients -> Group] /\ disk' = mem'
    BY <1>1, <1>2, <1>3, <1>4, <1>5
  <2> QED BY <1>1, <1>2, <2>1 DEF TypeInv
<1>7. /\ IsActive(c)' = IsActive(c) /\ Epoch(c)' = Epoch(c) /\ EpochKeys(c)' = EpochKeys(c)
      /\ \A n : TranscriptAt(n)' = TranscriptAt(n) /\ TreeAt(n)' = TreeAt(n)
  BY <1>1, <1>5 DEF IsActive, Epoch, EpochKeys, TranscriptAt, TreeAt
<1>8. MemberOK(c)'
  <2>1. \A i \in DOMAIN mem'[c].proposals :
          mem'[c].proposals[i] \in proposals /\ mem'[c].proposals[i].context = mem[c].transcript
    <3>1. \A i \in DOMAIN mem[c].proposals :
            mem[c].proposals[i] \in proposals /\ mem[c].proposals[i].context = mem[c].transcript
      BY <1>1, <1>2 DEF MemberOK
    <3>2. \A i \in DOMAIN Append(mem[c].proposals, p) :
            \/ i \in DOMAIN mem[c].proposals /\ Append(mem[c].proposals, p)[i] = mem[c].proposals[i]
            \/ Append(mem[c].proposals, p)[i] = p
      BY SMTT(30), <1>3
    <3> QED BY SMTT(30), <1>1, <1>5, <3>1, <3>2
  <2>2. mem[c].state # "None"
    BY <1>1 DEF IsActive
  <2> QED BY <1>1, <1>2, <1>5, <1>7, <2>1, <2>2 DEF MemberOK, InHistory
<1>9. StagedOK(c)' /\ KeysOK(c)'
  BY <1>1, <1>2, <1>5, QueueFrame
<1>11. UpdatesOK(c)'
  <2>1. \A r : HasJoined(c, r)' = HasJoined(c, r) /\ CanJoin(c, r)' = CanJoin(c, r)
    BY <1>1 DEF HasJoined, CanJoin, Added
  <2>2. \A n : JoinedLater(c, n)' <=> JoinedLater(c, n)
    BY <2>1 DEF JoinedLater
  <2> QED BY <1>1, <1>2, <1>5, <1>7, <2>1, <2>2 DEF UpdatesOK
<1> QED BY <1>1, <1>4, <1>6, <1>8, <1>9, <1>11, ClientStep

\* Emptying the queue leaves everything else alone.
LEMMA ClearPendingProposalsStep ==
  ASSUME IInv, NEW c \in Clients, ClearPendingProposals(c)
  PROVE  IInv'
<1>1. /\ mem' = [mem EXCEPT ![c].proposals = <<>>] /\ disk' = [disk EXCEPT ![c].proposals = <<>>]
      /\ UNCHANGED <<keystore, app, proposals, commits, log>> /\ mem[c].proposals # <<>>
  BY DEF ClearPendingProposals
<1>2. /\ TypeInv /\ MemberOK(c) /\ StagedOK(c) /\ KeysOK(c) /\ UpdatesOK(c)
      /\ mem[c] \in Group /\ disk = mem
  BY ClientFacts
<1>3. mem \in [Clients -> Group]
  BY <1>2 DEF TypeInv
<1>4. /\ mem'[c] = [mem[c] EXCEPT !.proposals = <<>>]
      /\ \A d \in Clients \ {c} : mem'[d] = mem[d]
  BY <1>1, <1>3
<1>5. /\ mem'[c].state = mem[c].state /\ mem'[c].pending = mem[c].pending
      /\ mem'[c].transcript = mem[c].transcript /\ mem'[c].tree = mem[c].tree
      /\ mem'[c].own_leaf_nodes = mem[c].own_leaf_nodes
      /\ mem'[c].proposals = <<>>
      /\ mem'[c] \in Group
  <2> DEFINE g == mem[c]
             h == mem'[c]
             q == <<>>
  <2>1. g \in Group /\ q \in Seq(Proposal) /\ h = [g EXCEPT !.proposals = q]
    BY SMTT(30), <1>2, <1>4
  <2> HIDE DEF g, h, q
  <2>2. /\ h \in Group /\ h.proposals = q /\ h.own_leaf_nodes = g.own_leaf_nodes
        /\ h.state = g.state /\ h.pending = g.pending
        /\ h.transcript = g.transcript /\ h.tree = g.tree
    BY <2>1 DEF Group
  <2> QED BY <2>2 DEF g, h, q
<1>6. TypeInv'
  <2>1. mem' \in [Clients -> Group] /\ disk' = mem'
    BY <1>1, <1>2, <1>3, <1>4, <1>5
  <2> QED BY <1>1, <1>2, <2>1 DEF TypeInv
<1>7. /\ IsActive(c)' = IsActive(c) /\ Epoch(c)' = Epoch(c) /\ EpochKeys(c)' = EpochKeys(c)
      /\ \A n : TranscriptAt(n)' = TranscriptAt(n) /\ TreeAt(n)' = TreeAt(n)
  BY <1>1, <1>5 DEF IsActive, Epoch, EpochKeys, TranscriptAt, TreeAt
<1>8. MemberOK(c)'
  <2>1. DOMAIN mem'[c].proposals = {}
    BY SMTT(30), <1>5
  <2>2. mem[c].state # "None"
    <3>1. NoGroup.proposals = <<>>
      BY DEF NoGroup
    <3> QED BY <1>1, <1>2, <3>1 DEF MemberOK
  <2> QED BY <1>1, <1>2, <1>5, <1>7, <2>1, <2>2 DEF MemberOK, InHistory
<1>9. StagedOK(c)' /\ KeysOK(c)'
  BY <1>1, <1>2, <1>5, QueueFrame
<1>11. UpdatesOK(c)'
  <2>1. \A r : HasJoined(c, r)' = HasJoined(c, r) /\ CanJoin(c, r)' = CanJoin(c, r)
    BY <1>1 DEF HasJoined, CanJoin, Added
  <2>2. \A n : JoinedLater(c, n)' <=> JoinedLater(c, n)
    BY <2>1 DEF JoinedLater
  <2> QED BY <1>1, <1>2, <1>5, <1>7, <2>1, <2>2 DEF UpdatesOK
<1> QED BY <1>1, <1>4, <1>6, <1>8, <1>9, <1>11, ClientStep

\* Clearing a pending commit: the client stays in its epoch.
LEMMA ClearPendingCommitStep ==
  ASSUME IInv, NEW c \in Clients, ClearPendingCommit(c)
  PROVE  IInv'
<1>1. /\ mem[c].state = "PendingCommit"
      /\ mem' = [mem EXCEPT ![c].state = "Operational", ![c].pending = NoCommit]
      /\ disk' = [disk EXCEPT ![c].state = "Operational", ![c].pending = NoCommit]
      /\ UNCHANGED <<keystore, app, proposals, commits, log>>
  BY DEF ClearPendingCommit
<1>2. /\ TypeInv /\ MemberOK(c) /\ StagedOK(c) /\ KeysOK(c) /\ UpdatesOK(c)
      /\ mem[c] \in Group /\ disk = mem
  BY SMTT(30), ClientFacts
<1>3. mem \in [Clients -> Group]
  BY SMTT(30), <1>2 DEF TypeInv
<1>4. /\ mem'[c] = [mem[c] EXCEPT !.state = "Operational", !.pending = NoCommit]
      /\ \A d \in Clients \ {c} : mem'[d] = mem[d]
  BY <1>1, <1>3
<1>5. /\ mem'[c].state = "Operational" /\ mem'[c].pending = NoCommit
      /\ mem'[c].transcript = mem[c].transcript /\ mem'[c].tree = mem[c].tree
      /\ mem'[c].own_leaf_nodes = mem[c].own_leaf_nodes
      /\ mem'[c].proposals = mem[c].proposals
      /\ mem'[c] \in Group
  <2> DEFINE g == mem[c]
             h == mem'[c]
  <2>1. g \in Group /\ h = [g EXCEPT !.state = "Operational", !.pending = NoCommit]
    BY <1>2, <1>4
  <2> HIDE DEF g, h
  <2>2. /\ h \in Group /\ h.proposals = g.proposals /\ h.own_leaf_nodes = g.own_leaf_nodes
        /\ h.state = "Operational" /\ h.pending = NoCommit
        /\ h.transcript = g.transcript /\ h.tree = g.tree
    BY <2>1 DEF Group
  <2> QED BY <2>2 DEF g, h
<1>6. TypeInv'
  <2>1. mem' \in [Clients -> Group] /\ disk' = mem'
    BY <1>1, <1>2, <1>3, <1>4, <1>5
  <2> QED BY <1>1, <1>2, <2>1 DEF TypeInv
<1>7. /\ IsActive(c)' /\ IsActive(c) /\ Epoch(c)' = Epoch(c) /\ EpochKeys(c)' = EpochKeys(c)
      /\ \A n : TranscriptAt(n)' = TranscriptAt(n) /\ TreeAt(n)' = TreeAt(n)
  BY <1>1, <1>5 DEF IsActive, Epoch, EpochKeys, TranscriptAt, TreeAt
<1>8. MemberOK(c)'
  <2>1. InHistory(mem[c].transcript)'
    BY <1>1, <1>2, <1>5, <1>7 DEF MemberOK, InHistory
  <2>2. mem[c].tree = TreeAt(Epoch(c)) /\ c \in DOMAIN mem[c].tree
    BY <1>1, <1>2, <1>7 DEF MemberOK
  <2>3. \A i \in DOMAIN mem[c].proposals :
          mem[c].proposals[i] \in proposals /\ mem[c].proposals[i].context = mem[c].transcript
    BY <1>2, <1>7 DEF MemberOK
  <2>4. proposals' = proposals /\ app'[c] = app[c]
    BY <1>1
  <2>5. mem'[c].state # "None" /\ mem'[c].state # "PendingCommit"
    BY <1>5
  <2> QED BY <1>5, <1>7, <2>1, <2>2, <2>3, <2>4, <2>5 DEF MemberOK
<1>9. StagedOK(c)'
  BY <1>1, <1>2, <1>5, <1>7 DEF StagedOK, IsNext
<1>10. KeysOK(c)'
  <2>1. \A s \in StagedAt(c)' : s \in StagedAt(c) /\ AvailableKeys(c, s)' = AvailableKeys(c, s)
    BY <1>1, <1>5, <1>7 DEF StagedAt, AvailableKeys
  <2>2. \A m : Added(m)' = Added(m)
    BY DEF Added
  <2> QED BY <1>1, <1>2, <1>5, <1>7, <2>1, <2>2 DEF KeysOK
<1>11. UpdatesOK(c)'
  BY <1>1, <1>2, <1>5, <1>7, UpdatesFrame
<1> QED BY <1>1, <1>4, <1>6, <1>8, <1>9, <1>10, <1>11, ClientStep

\* A restart: storage has the group that memory had.
LEMMA LoadStep ==
  ASSUME IInv, NEW c \in Clients, Load(c)
  PROVE  IInv'
<1>1. /\ mem' = [mem EXCEPT ![c] = disk[c]] /\ app' = [app EXCEPT ![c] = NoCommit]
      /\ UNCHANGED <<disk, keystore, proposals, commits, log>>
  BY DEF Load
<1>2. /\ TypeInv /\ MemberOK(c) /\ StagedOK(c) /\ KeysOK(c) /\ UpdatesOK(c) /\ disk = mem
  BY ClientFacts
<1>3. mem' = mem
  BY <1>1, <1>2 DEF TypeInv
<1>4. app'[c] = NoCommit /\ \A d \in Clients \ {c} : app'[d] = app[d]
  BY <1>1, <1>2 DEF TypeInv
<1>5. TypeInv'
  BY <1>1, <1>2, <1>3, <1>4 DEF TypeInv
<1>6. /\ IsActive(c)' = IsActive(c) /\ Epoch(c)' = Epoch(c) /\ EpochKeys(c)' = EpochKeys(c)
      /\ \A n : TranscriptAt(n)' = TranscriptAt(n) /\ TreeAt(n)' = TreeAt(n)
  BY <1>1, <1>3 DEF IsActive, Epoch, EpochKeys, TranscriptAt, TreeAt
<1>7. MemberOK(c)'
  BY <1>1, <1>2, <1>3, <1>4, <1>6 DEF MemberOK, InHistory
<1>8. StagedOK(c)'
  BY <1>1, <1>2, <1>3, <1>4 DEF StagedOK
<1>9. KeysOK(c)'
  <2>1. \A s \in StagedAt(c)' : s \in StagedAt(c) /\ AvailableKeys(c, s)' = AvailableKeys(c, s)
    BY <1>3, <1>4, <1>6 DEF StagedAt, AvailableKeys
  <2>2. \A m : Added(m)' = Added(m)
    BY DEF Added
  <2> QED BY <1>1, <1>2, <1>3, <1>6, <2>1, <2>2 DEF KeysOK
<1>10. UpdatesOK(c)'
  BY <1>1, <1>2, <1>3, <1>6, UpdatesFrame
<1> QED BY <1>1, <1>3, <1>4, <1>5, <1>7, <1>8, <1>9, <1>10, ClientStep

-----------------------------------------------------------------------------
(* The next epoch.                                                         *)

\* The delivery service appends to the history; nobody's part of it changes.
LEMMA AcceptStep ==
  ASSUME IInv, NEW m \in commits, OwnKeys(m.tree), Accept(m)
  PROVE  IInv'
<1>0. PICK N \in Nat : N = Len(log)
  BY SMTT(30) DEF IInv, TypeInv
<1>1. /\ Len(m.context) = N + 1 /\ log' = Append(log, m)
      /\ UNCHANGED <<mem, disk, keystore, app, proposals, commits>>
  BY <1>0 DEF Accept
<1>2. TypeInv /\ N \in Nat /\ log \in Seq(commits) /\ N = Len(log)
  BY <1>0 DEF IInv, TypeInv
<1>3. /\ Len(log') = N + 1 /\ log'[N + 1] = m /\ log' \in Seq(commits)
      /\ \A i \in 1..N : log'[i] = log[i]
  BY SMTT(30), <1>1, <1>2
<1>4. TypeInv'
  BY <1>1, <1>2, <1>3 DEF TypeInv
<1>5. \A n \in 1..(N + 1) : TranscriptAt(n)' = TranscriptAt(n) /\ TreeAt(n)' = TreeAt(n)
  <2>1. SUFFICES ASSUME NEW n \in 1..(N + 1)
                 PROVE  TranscriptAt(n)' = TranscriptAt(n) /\ TreeAt(n)' = TreeAt(n)
    OBVIOUS
  <2>2. \A i \in 1..n : i # 1 => i - 1 \in 1..N
    BY SMTT(30), <1>2
  <2>3. n # 1 => n - 1 \in 1..N
    BY SMTT(30), <1>2
  <2> QED BY <1>3, <2>2, <2>3 DEF TranscriptAt, TreeAt
<1>6. TreeAt(N + 2)' = m.tree
  BY SMTT(30), <1>2, <1>3 DEF TreeAt
<1>7. \A t : InHistory(t) => InHistory(t)' /\ Len(t) \in 1..(N + 1)
  <2>1. \A n \in 1..(N + 1) : n \in 1..(N + 1 + 1)
    BY SMTT(30), <1>2
  <2> QED BY <1>2, <1>3, <1>5, <2>1 DEF InHistory
<1>8. CommitOK(m) /\ m \in Commit
  BY <1>2 DEF IInv, CommitsInv, TypeInv
<1>9. m.context = TranscriptAt(N + 1)
  BY <1>1, <1>2, <1>8 DEF CommitOK, InHistory
<1>10. LogInv'
  <2>1. \A i \in 1..Len(log') : log'[i].context = TranscriptAt(i)'
    <3>1. \A i \in 1..Len(log') : i \in 1..N \/ i = N + 1
      BY SMTT(30), <1>2, <1>3
    <3>2. \A i \in 1..N : i \in 1..(N + 1) /\ log[i].context = TranscriptAt(i)
      BY SMTT(30), <1>2 DEF IInv, LogInv
    <3>3. N + 1 \in 1..(N + 1)
      BY SMTT(30), <1>2
    <3> QED BY <1>3, <1>5, <1>9, <3>1, <3>2, <3>3
  <2>2. \A n \in 1..(Len(log') + 1) : OwnKeys(TreeAt(n)')
    <3>1. \A n \in 1..(Len(log') + 1) : n \in 1..(N + 1) \/ n = N + 2
      BY SMTT(30), <1>2, <1>3
    <3>2. \A n \in 1..(N + 1) : OwnKeys(TreeAt(n))
      BY <1>2 DEF IInv, LogInv
    <3> QED BY <1>5, <1>6, <3>1, <3>2
  <2>3. \A p \in proposals : InHistory(p.context)' /\ p.sender \in DOMAIN TreeAt(Len(p.context))'
    <3>1. \A p \in proposals : InHistory(p.context) /\ p.sender \in DOMAIN TreeAt(Len(p.context))
      BY DEF IInv, LogInv
    <3> QED BY <1>5, <1>7, <3>1
  <2>4. \A t : OwnKeys(t)' = OwnKeys(t)
    BY DEF OwnKeys
  <2> QED BY <1>1, <2>1, <2>2, <2>3, <2>4 DEF LogInv
<1>11. IdsInv'
  BY <1>1 DEF IInv, IdsInv
<1>12. CommitsInv'
  <2>1. SUFFICES ASSUME NEW l \in commits
                 PROVE  CommitOK(l)'
    BY <1>1 DEF CommitsInv
  <2>2. CommitOK(l)
    BY DEF IInv, CommitsInv
  <2>3. InHistory(l.context)' /\ TreeAt(Len(l.context))' = TreeAt(Len(l.context))
    BY <1>5, <1>7, <2>2 DEF CommitOK
  <2> QED BY <1>1, <2>2, <2>3 DEF CommitOK, EntryOK
<1>13. ASSUME NEW c \in Clients
       PROVE  MemberOK(c)' /\ StagedOK(c)' /\ KeysOK(c)' /\ UpdatesOK(c)'
  <2>1. /\ MemberOK(c) /\ StagedOK(c) /\ KeysOK(c) /\ UpdatesOK(c)
        /\ keystore[c] \in KeyStore
    BY ClientFacts
  <2>2. /\ IsActive(c)' = IsActive(c) /\ Epoch(c)' = Epoch(c) /\ EpochKeys(c)' = EpochKeys(c)
    BY <1>1 DEF IsActive, Epoch, EpochKeys
  <2>3. mem[c].state # "None" => Epoch(c) \in 1..(N + 1)
    BY <1>2, <2>1 DEF MemberOK, InHistory, Epoch
  <2>4. MemberOK(c)'
    BY <1>1, <1>5, <1>7, <2>1, <2>2, <2>3 DEF MemberOK
  <2>5. StagedOK(c)'
    <3>1. \A s : IsNext(c, s) => IsNext(c, s)'
      <4>1. Epoch(c) \in 1..N => Epoch(c) \in 1..(N + 1)
        BY SMTT(30), <1>2
      <4> QED BY <1>1, <1>2, <1>3, <2>2, <4>1 DEF IsNext
    <3> QED BY <1>1, <2>1, <3>1 DEF StagedOK
  <2>6. KeysOK(c)'
    <3>1. StagedAt(c)' = StagedAt(c) /\ \A s : AvailableKeys(c, s)' = AvailableKeys(c, s)
      BY <1>1, <2>2 DEF StagedAt, AvailableKeys
    <3>2. \A l : Added(l)' = Added(l)
      BY DEF Added
    <3>3. ASSUME NEW k \in keystore[c].epoch_keypairs, k[1] # Epoch(c)
          PROVE  /\ k[1] <= Len(log')
                 /\ c \in DOMAIN TreeAt(k[1] + 1)' => \E add \in Added(log'[k[1]]) : add[1] = c
      <4>1. k[1] \in Nat \ {0}
        BY <2>1 DEF KeyStore
      <4>2. k[1] <= N /\ (c \in DOMAIN TreeAt(k[1] + 1) => \E add \in Added(log[k[1]]) : add[1] = c)
        BY <1>2, <2>1, <3>3 DEF KeysOK
      <4>3. k[1] + 1 \in 1..(N + 1) /\ k[1] \in 1..N /\ k[1] <= N + 1
        BY SMTT(30), <1>2, <4>1, <4>2
      <4> QED BY <1>3, <1>5, <4>2, <4>3
    <3>4. \A s \in StagedAt(c) : s.kind = "GroupMember" => s.tree[c].leaf \in AvailableKeys(c, s)
      BY <2>1 DEF KeysOK
    <3>5. IsActive(c) => mem[c].tree[c].leaf \in EpochKeys(c)
      BY <2>1 DEF KeysOK
    <3> QED BY <1>1, <2>2, <3>1, <3>2, <3>3, <3>4, <3>5 DEF KeysOK
  <2>7. UpdatesOK(c)'
    <3>1. \A r \in 2..(N + 1) : HasJoined(c, r)' = HasJoined(c, r) /\ CanJoin(c, r)' = CanJoin(c, r)
      <4>1. \A r \in 2..(N + 1) : r - 1 \in 1..N
        BY SMTT(30), <1>2
      <4>2. \A l : Added(l)' = Added(l)
        BY SMTT(30) DEF Added
      <4>3. \A r \in 2..(N + 1) : Added(log[r - 1])' = Added(log[r - 1])
        BY <1>3, <4>1, <4>2
      <4> QED BY <1>1, <4>3 DEF HasJoined, CanJoin
    <3>2. \A n \in 1..(N + 1) : JoinedLater(c, n) => JoinedLater(c, n)'
      <4>1. \A n \in 1..(N + 1) : \A r \in 2..n : r \in 2..(N + 1)
        BY SMTT(30), <1>2
      <4>2. \A n \in 1..(N + 1) : \A r \in 2..n : \A q \in (r + 1)..n : q \in 2..(N + 1)
        BY SMTT(30), <1>2
      <4> QED BY <3>1, <4>1, <4>2 DEF JoinedLater
    <3>3. \A p \in proposals : Len(p.context) \in 1..(N + 1)
      BY <1>7 DEF IInv, LogInv
    <3>4. IsActive(c) => Epoch(c) \in 1..(N + 1)
      BY <2>3 DEF IsActive
    <3>5. IsActive(c) => \A p \in proposals : p.sender = c /\ Len(p.context) > Epoch(c) =>
            \E r \in (Epoch(c) + 1)..Len(p.context) : HasJoined(c, r)'
      <4>1. ASSUME IsActive(c), NEW p \in proposals, p.sender = c, Len(p.context) > Epoch(c)
            PROVE  \E r \in (Epoch(c) + 1)..Len(p.context) : HasJoined(c, r)'
        <5>1. PICK r \in (Epoch(c) + 1)..Len(p.context) : HasJoined(c, r)
          BY <2>1, <4>1 DEF UpdatesOK
        <5>2. r \in 2..(N + 1)
          BY SMTT(30), <1>2, <3>3, <3>4, <4>1
        <5> QED BY <3>1, <5>1, <5>2
      <4> QED BY <4>1
    <3> QED BY <1>1, <2>1, <2>2, <3>2, <3>3, <3>4, <3>5 DEF UpdatesOK
  <2> QED BY <2>4, <2>5, <2>6, <2>7
<1> QED BY <1>4, <1>10, <1>11, <1>12, <1>13 DEF IInv, MembersInv, KeysInv, UpdatesInv

\* Who is a member after a commit: a member that was not removed is not added, and
\* one that was removed is a member only if it was added again.
AfterCommit(c, m) ==
  /\ c \notin RemovedMembers(m.queue) =>
       c \in DOMAIN m.tree /\ ~\E add \in Added(m) : add[1] = c
  /\ c \in RemovedMembers(m.queue) /\ c \in DOMAIN m.tree => \E add \in Added(m) : add[1] = c

\* The private keys after a merge: those of the new epoch's leaf instead of those
\* of the epoch that ends, unless the client was removed.
LEMMA MergedKeyStore ==
  ASSUME NEW c \in Clients, keystore[c] \in KeyStore, NEW s \in Staged, NEW n \in Nat,
         Len(s.transcript) = n + 1
  PROVE  LET new == MergedKeys(c, s)
         IN /\ \A k \in new.epoch_keypairs : \/ k \in keystore[c].epoch_keypairs /\ k[1] # n
                                             \/ k[1] = n + 1
            /\ s.tree[c].leaf \in Int /\ s.tree[c].leaf \in AvailableKeys(c, s) =>
                 <<n + 1, s.tree[c].leaf>> \in new.epoch_keypairs
            /\ s.tree[c].leaf \in Int => new \in KeyStore
            /\ new.used_key_packages = keystore[c].used_key_packages
<1> DEFINE owned == AvailableKeys(c, s) \cap {s.tree[c].leaf}
           old == keystore[c]
           epochs == {k \in old.epoch_keypairs : k[1] # (n + 1) - 1} \cup {<<n + 1, k>> : k \in owned}
           leaves == old.leaf_keypairs \ s.new_leaf_keypair
           new == MergedKeys(c, s)
<1>1. new = [old EXCEPT !.epoch_keypairs = epochs, !.leaf_keypairs = leaves]
  BY DEF MergedKeys
<1>2. old \in KeyStore /\ leaves \in SUBSET Int
  BY DEF KeyStore
<1>3. s.tree[c].leaf \in Int => epochs \in SUBSET ((Nat \ {0}) \X Int)
  BY SMTT(30), <1>2 DEF KeyStore
<1>4. /\ \A k \in epochs : (k \in old.epoch_keypairs /\ k[1] # n) \/ k[1] = n + 1
      /\ s.tree[c].leaf \in AvailableKeys(c, s) => <<n + 1, s.tree[c].leaf>> \in epochs
  BY SMTT(30) DEF KeyStore
<1> HIDE DEF new, epochs, leaves, old
<1>5. new.epoch_keypairs = epochs /\ new.used_key_packages = old.used_key_packages
  BY <1>1, <1>2 DEF KeyStore
<1>6. s.tree[c].leaf \in Int => new \in KeyStore
  BY <1>1, <1>2, <1>3 DEF KeyStore
<1> QED BY <1>4, <1>5, <1>6 DEF new, old

\* Merging the commit of the epoch: the client is in the next epoch with its tree
\* and its keys, or it is out of the group.
LEMMA MergeStep ==
  ASSUME IInv, NEW c \in Clients, IsActive(c), NEW s \in Staged, IsNext(c, s), Merge(c, s),
         AfterCommit(c, log[Epoch(c)])
  PROVE  IInv'
<1>1. /\ s.kind = "GroupMember" => s.tree[c].leaf \in AvailableKeys(c, s)
      /\ mem' = [mem EXCEPT ![c] = Merged(@, s)]
      /\ disk' = [disk EXCEPT ![c] = Merged(@, s)]
      /\ keystore' = [keystore EXCEPT ![c] = IF s.kind = "PublicState" THEN @ ELSE MergedKeys(c, s)]
      /\ app' = [app EXCEPT ![c] = NoCommit]
      /\ UNCHANGED <<proposals, commits, log>>
  BY DEF Merge
<1>2. /\ TypeInv /\ MemberOK(c) /\ StagedOK(c) /\ KeysOK(c) /\ UpdatesOK(c)
      /\ mem[c] \in Group /\ disk = mem /\ keystore[c] \in KeyStore
  BY ClientFacts
<1>3. PICK n \in 1..Len(log) : n = Epoch(c)
  BY DEF IsNext
<1>4. PICK m \in commits : m = log[n]
  BY SMTT(30), <1>2, <1>3 DEF TypeInv
<1>5. /\ s.id = m.id /\ s.transcript = Append(mem[c].transcript, s.id) /\ s.tree = m.tree
      /\ s.kind = "PublicState" <=> c \in RemovedMembers(m.queue)
  BY <1>3, <1>4 DEF IsNext
<1>6. /\ n \in Nat /\ n \in 1..(Len(log) + 1) /\ n + 1 \in 1..(Len(log) + 1) /\ Len(log) \in Nat
      /\ n <= Len(log)
  BY SMTT(30), <1>2, <1>3 DEF TypeInv
<1>7. mem[c].transcript = TranscriptAt(n) /\ mem[c].tree = TreeAt(n) /\ c \in DOMAIN mem[c].tree
  BY <1>2, <1>3 DEF MemberOK, InHistory, IsActive, Epoch
<1>8. /\ s.transcript = TranscriptAt(n + 1) /\ Len(s.transcript) = n + 1 /\ s.tree = TreeAt(n + 1)
  BY <1>2, <1>4, <1>5, <1>6, <1>7, TranscriptFacts
<1>9. AfterCommit(c, m)
  BY <1>3, <1>4
<1> DEFINE state == IF s.kind = "PublicState" \/ s.reinit THEN "Inactive" ELSE "Operational"
           queue == IF s.kind = "PublicState" THEN mem[c].proposals ELSE <<>>
<1>10. /\ mem'[c] = [mem[c] EXCEPT !.state = state, !.pending = NoCommit, !.own_leaf_nodes = {},
                       !.transcript = s.transcript, !.tree = s.tree, !.proposals = queue]
       /\ \A d \in Clients \ {c} : mem'[d] = mem[d]
       /\ mem' = [mem EXCEPT ![c] = mem'[c]]
       /\ disk' = mem'
  BY <1>1, <1>2 DEF TypeInv, Merged
<1>11. /\ mem'[c].state = state /\ mem'[c].pending = NoCommit
       /\ mem'[c].transcript = s.transcript /\ mem'[c].tree = s.tree
       /\ mem'[c].proposals = queue
       /\ mem'[c] \in Group
  <2> DEFINE g == mem[c]
             h == mem'[c]
  <2>1. queue \in Seq(Proposal) /\ state \in {"Inactive", "Operational"}
    BY SMTT(30), <1>2 DEF Group
  <2>2. s.transcript \in Seq(Nat) /\ s.tree \in Trees
    BY DEF Staged
  <2> HIDE DEF queue, state
  <2>3. /\ g \in Group
        /\ h = [g EXCEPT !.state = state, !.pending = NoCommit, !.own_leaf_nodes = {},
                         !.transcript = s.transcript, !.tree = s.tree, !.proposals = queue]
    BY <1>2, <1>10
  <2> HIDE DEF g, h
  <2>4. /\ h \in Group /\ h.proposals = queue /\ h.state = state /\ h.pending = NoCommit
        /\ h.transcript = s.transcript /\ h.tree = s.tree
    BY <2>1, <2>2, <2>3 DEF Group
  <2> QED BY <2>4 DEF h
<1>12. /\ state # "None" /\ state # "PendingCommit"
       /\ state = "Operational" => s.kind = "GroupMember" /\ c \notin RemovedMembers(m.queue) /\ queue = <<>>
  BY <1>5 DEF Staged
<1> HIDE DEF state, queue
<1>13. app'[c] = NoCommit /\ \A d \in Clients \ {c} : app'[d] = app[d] /\ keystore'[d] = keystore[d]
  BY <1>1, <1>2 DEF TypeInv
<1>14. /\ keystore'[c] \in KeyStore
       /\ keystore'[c].used_key_packages = keystore[c].used_key_packages
       /\ \A k \in keystore'[c].epoch_keypairs :
            \/ k \in keystore[c].epoch_keypairs /\ (k[1] = n => c \in RemovedMembers(m.queue))
            \/ k[1] = n + 1
       /\ s.kind = "GroupMember" => <<n + 1, s.tree[c].leaf>> \in keystore'[c].epoch_keypairs
  <2>1. CASE s.kind = "PublicState"
    <3>1. keystore'[c] = keystore[c]
      BY <1>1, <1>2, <2>1 DEF TypeInv
    <3> QED BY <1>2, <1>5, <2>1, <3>1
  <2>2. CASE s.kind = "GroupMember"
    <3>1. keystore'[c] = MergedKeys(c, s)
      BY <1>1, <1>2, <2>2 DEF TypeInv
    <3>2. c \in DOMAIN s.tree
      BY <1>5, <1>9, <2>2 DEF AfterCommit
    <3>3. s.tree[c].leaf \in Int
      BY SMTT(30), <3>2 DEF Staged, Trees, Leaf
    <3>4. s.tree[c].leaf \in AvailableKeys(c, s)
      BY <1>1, <2>2
    <3> DEFINE new == MergedKeys(c, s)
    <3>5. /\ \A k \in new.epoch_keypairs : \/ k \in keystore[c].epoch_keypairs /\ k[1] # n
                                           \/ k[1] = n + 1
          /\ <<n + 1, s.tree[c].leaf>> \in new.epoch_keypairs
          /\ new \in KeyStore
          /\ new.used_key_packages = keystore[c].used_key_packages
      BY <1>2, <1>6, <1>8, <3>3, <3>4, MergedKeyStore
    <3> HIDE DEF new
    <3> QED BY <3>1, <3>5 DEF new
  <2>3. s.kind = "PublicState" \/ s.kind = "GroupMember"
    BY DEF Staged
  <2> QED BY <2>1, <2>2, <2>3
<1>15. TypeInv'
  <2>1. mem' \in [Clients -> Group]
    BY <1>2, <1>10, <1>11 DEF TypeInv
  <2>2. keystore' \in [Clients -> KeyStore]
    <3>1. keystore' = [keystore EXCEPT ![c] = keystore'[c]]
      BY <1>1, <1>2 DEF TypeInv
    <3> QED BY <1>2, <1>14, <3>1 DEF TypeInv
  <2>3. app' \in [Clients -> {NoCommit} \cup Staged]
    BY <1>1, <1>2 DEF TypeInv
  <2> QED BY <1>1, <1>2, <1>10, <2>1, <2>2, <2>3 DEF TypeInv
<1>16. /\ Epoch(c)' = n + 1 /\ (IsActive(c)' <=> state = "Operational")
       /\ \A k : TranscriptAt(k)' = TranscriptAt(k) /\ TreeAt(k)' = TreeAt(k)
       /\ \A t : InHistory(t)' = InHistory(t)
  <2>1. Epoch(c)' = n + 1
    BY <1>8, <1>11 DEF Epoch
  <2>2. IsActive(c)' <=> state = "Operational"
    BY <1>11, <1>12 DEF IsActive
  <2>3. \A k : TranscriptAt(k)' = TranscriptAt(k) /\ TreeAt(k)' = TreeAt(k)
    BY <1>1 DEF TranscriptAt, TreeAt
  <2>4. \A t : InHistory(t)' = InHistory(t)
    BY <1>1, <2>3 DEF InHistory
  <2> QED BY <2>1, <2>2, <2>3, <2>4
<1>17. MemberOK(c)'
  <2>1. InHistory(s.transcript)
    BY <1>6, <1>8 DEF InHistory
  <2>2. state = "Operational" => c \in DOMAIN s.tree
    BY <1>5, <1>9, <1>12 DEF AfterCommit
  <2>3. state = "Operational" => DOMAIN mem'[c].proposals = {}
    BY SMTT(30), <1>11, <1>12
  <2> QED BY <1>8, <1>11, <1>12, <1>13, <1>16, <2>1, <2>2, <2>3 DEF MemberOK
<1>18. StagedOK(c)'
  BY <1>11, <1>13 DEF StagedOK
<1>19. KeysOK(c)'
  <2>1. StagedAt(c)' = {}
    BY <1>11, <1>13 DEF StagedAt
  <2>2. state = "Operational" => s.tree[c].leaf \in EpochKeys(c)'
    <3>1. SUFFICES ASSUME state = "Operational"
                   PROVE  s.tree[c].leaf \in EpochKeys(c)'
      OBVIOUS
    <3> DEFINE k == <<n + 1, s.tree[c].leaf>>
    <3>2. k \in keystore'[c].epoch_keypairs /\ k[1] = Epoch(c)' /\ k[2] = s.tree[c].leaf
      BY <1>12, <1>14, <1>16, <3>1
    <3> HIDE DEF k
    <3> QED BY <3>2 DEF EpochKeys
  <2>3. ASSUME NEW k \in keystore'[c].epoch_keypairs, k[1] # Epoch(c)'
        PROVE  /\ k[1] <= Len(log)
               /\ c \in DOMAIN TreeAt(k[1] + 1) => \E add \in Added(log[k[1]]) : add[1] = c
    <3>1. k \in keystore[c].epoch_keypairs /\ (k[1] = n => c \in RemovedMembers(m.queue))
      BY <1>14, <1>16, <2>3
    <3>2. CASE k[1] # n
      BY <1>2, <1>3, <3>1, <3>2 DEF KeysOK
    <3>3. CASE k[1] = n
      <4>1. c \in DOMAIN m.tree => \E add \in Added(m) : add[1] = c
        BY <1>9, <3>1, <3>3 DEF AfterCommit
      <4> QED BY <1>4, <1>5, <1>6, <1>8, <3>3, <4>1
    <3> QED BY <3>2, <3>3
  <2>4. \A l : Added(l)' = Added(l)
    BY DEF Added
  <2>5. log' = log
    BY <1>1
  <2> QED BY <1>11, <1>16, <2>1, <2>2, <2>3, <2>4, <2>5 DEF KeysOK
<1>20. UpdatesOK(c)'
  <2>1. \A r : HasJoined(c, r)' = HasJoined(c, r) /\ CanJoin(c, r)' = CanJoin(c, r)
    <3>1. keystore'[c].used_key_packages = keystore[c].used_key_packages /\ log' = log
      BY <1>1, <1>14
    <3> QED BY <3>1 DEF HasJoined, CanJoin, Added
  <2>2. \A k : JoinedLater(c, k)' <=> JoinedLater(c, k)
    BY <2>1 DEF JoinedLater
  <2>3. \A p \in proposals : p.sender = c => JoinedLater(c, Len(p.context))'
    BY <1>2, <2>2 DEF UpdatesOK
  <2>4. ASSUME state = "Operational"
        PROVE  ~HasJoined(c, n + 1) /\ ~CanJoin(c, n + 1)
    <3>1. ~\E add \in Added(log[n]) : add[1] = c
      BY <1>4, <1>9, <1>12, <2>4 DEF AfterCommit
    <3>2. (n + 1) - 1 = n
      BY SMTT(30), <1>6
    <3> QED BY <3>1, <3>2 DEF HasJoined, CanJoin
  <2>5. ASSUME state = "Operational"
        PROVE  JoinedLater(c, n + 1)
    <3>1. JoinedLater(c, n)
      BY <1>2, <1>3 DEF UpdatesOK
    <3>2. \A r \in 2..(n + 1) : r \in 2..n \/ r = n + 1
      BY SMTT(30), <1>6
    <3>3. \A r \in 2..(n + 1) : \A q \in (r + 1)..n : q \in (r + 1)..(n + 1)
      BY SMTT(30), <1>6
    <3> QED BY <2>4, <2>5, <3>1, <3>2, <3>3 DEF JoinedLater
  <2>6. ASSUME state = "Operational", NEW p \in proposals, p.sender = c, Len(p.context) > n
        PROVE  \E r \in ((n + 1) + 1)..Len(p.context) : HasJoined(c, r)
    <3>1. PICK r \in (n + 1)..Len(p.context) : HasJoined(c, r)
      BY <1>2, <1>3, <2>6 DEF UpdatesOK
    <3>2. r # n + 1
      BY <2>4, <2>6, <3>1
    <3>3. r \in ((n + 1) + 1)..Len(p.context)
      BY SMTT(30), <1>6, <3>2
    <3> QED BY <3>1, <3>3
  <2>7. \A p \in proposals : Len(p.context) \in Nat
    <3>1. proposals \in SUBSET Proposal
      BY <1>2 DEF TypeInv
    <3> QED BY SMTT(30), <3>1 DEF Proposal
  <2>8. state = "Operational" => \A p \in proposals : p.sender = c => Len(p.context) # n + 1
    <3>1. ((n + 1) + 1)..(n + 1) = {} /\ n + 1 > n
      BY SMTT(30), <1>6
    <3> QED BY <2>6, <3>1
  <2>9. state = "Operational" => \A p \in proposals : p.sender = c /\ Len(p.context) > n + 1 =>
          \E r \in ((n + 1) + 1)..Len(p.context) : HasJoined(c, r)'
    <3>1. \A p \in proposals : Len(p.context) > n + 1 => Len(p.context) > n
      BY SMTT(30), <1>6, <2>7
    <3> QED BY <2>1, <2>6, <3>1
  <2>10. state = "Operational" => \A p \in proposals : p.sender = c => p.context # mem'[c].transcript
    BY <1>8, <1>11, <2>8
  <2>11. proposals' = proposals
    BY <1>1
  <2> QED BY <1>16, <2>2, <2>3, <2>5, <2>9, <2>10, <2>11 DEF UpdatesOK
<1>21. \A d \in Clients \ {c} : mem'[d] = mem[d] /\ app'[d] = app[d] /\ keystore'[d] = keystore[d]
  BY <1>10, <1>13
<1> QED BY <1>1, <1>15, <1>17, <1>18, <1>19, <1>20, <1>21, ClientStep

\* The invariant is about the variables.
LEMMA StutteringStep ==
  ASSUME IInv, UNCHANGED vars
  PROVE  IInv'
<1>1. TypeInv' /\ IdsInv'
  BY DEF vars, IInv, TypeInv, IdsInv
<1>2. /\ \A n : TranscriptAt(n)' = TranscriptAt(n) /\ TreeAt(n)' = TreeAt(n)
      /\ \A t : InHistory(t)' = InHistory(t)
  BY DEF vars, TranscriptAt, TreeAt, InHistory
<1>3. LogInv' /\ CommitsInv'
  BY <1>2 DEF vars, IInv, LogInv, CommitsInv, CommitOK, EntryOK
<1>4. ASSUME NEW d \in Clients
      PROVE  MemberOK(d)' /\ StagedOK(d)' /\ KeysOK(d)' /\ UpdatesOK(d)'
  <2>1. MemberOK(d) /\ StagedOK(d) /\ KeysOK(d) /\ UpdatesOK(d)
    BY ClientFacts
  <2> QED BY <2>1, Frame DEF vars
<1> QED BY <1>1, <1>3, <1>4 DEF IInv, MembersInv, KeysInv, UpdatesInv

-----------------------------------------------------------------------------
(* Joining and leaving.                                                    *)

\* A client without a group has a group record, with nothing in it.
LEMMA NoGroupType == NoGroup \in Group
<1>1. <<>> \in [{} -> Leaf]
  BY SMTT(30)
<1>2. <<>> \in Trees
  BY <1>1 DEF Trees
<1> QED BY SMTT(30), <1>2 DEF NoGroup, Group

\* A group is its fields.
LEMMA SameGroup ==
  ASSUME NEW g \in Group, NEW h \in Group, g.state = h.state, g.pending = h.pending,
         g.transcript = h.transcript, g.tree = h.tree, g.proposals = h.proposals,
         g.own_leaf_nodes = h.own_leaf_nodes
  PROVE  g = h
BY SMTT(30) DEF Group

\* Using a key package: what was joined stays joined, and less can be joined.
LEMMA UsedGrows ==
  ASSUME NEW c \in Clients, log' = log,
         keystore[c].used_key_packages \subseteq keystore'[c].used_key_packages
  PROVE  /\ \A r : (HasJoined(c, r) => HasJoined(c, r)') /\ (CanJoin(c, r)' => CanJoin(c, r))
         /\ \A n : JoinedLater(c, n) => JoinedLater(c, n)'
<1>1. \A m : Added(m)' = Added(m)
  BY DEF Added
<1>2. \A r : (HasJoined(c, r) => HasJoined(c, r)') /\ (CanJoin(c, r)' => CanJoin(c, r))
  BY <1>1 DEF HasJoined, CanJoin
<1>3. \A n : JoinedLater(c, n) => JoinedLater(c, n)'
  BY <1>2 DEF JoinedLater
<1> QED BY <1>2, <1>3

\* A Welcome for a client that has a group: the key package is used up.
LEMMA RefusedWelcomeStep ==
  ASSUME IInv, NEW c \in Clients, NEW id \in Int,
         keystore' = [keystore EXCEPT ![c] = [keystore[c] EXCEPT !.used_key_packages = @ \cup {id}]],
         UNCHANGED <<mem, disk, app, proposals, commits, log>>
  PROVE  IInv'
<1>1. /\ TypeInv /\ MemberOK(c) /\ StagedOK(c) /\ KeysOK(c) /\ UpdatesOK(c) /\ keystore[c] \in KeyStore
  BY ClientFacts
<1>2. /\ keystore'[c] = [keystore[c] EXCEPT !.used_key_packages = @ \cup {id}]
      /\ \A d \in Clients \ {c} : keystore'[d] = keystore[d]
  BY <1>1 DEF TypeInv
<1>3. /\ keystore'[c] \in KeyStore /\ keystore'[c].epoch_keypairs = keystore[c].epoch_keypairs
      /\ keystore'[c].leaf_keypairs = keystore[c].leaf_keypairs
      /\ keystore'[c].used_key_packages = keystore[c].used_key_packages \cup {id}
  <2> DEFINE g == keystore[c]
             h == keystore'[c]
             used == keystore[c].used_key_packages \cup {id}
  <2>1. g \in KeyStore /\ h = [g EXCEPT !.used_key_packages = used] /\ used \in SUBSET Int
    BY <1>1, <1>2 DEF KeyStore
  <2> HIDE DEF g, h, used
  <2>2. /\ h \in KeyStore /\ h.epoch_keypairs = g.epoch_keypairs /\ h.leaf_keypairs = g.leaf_keypairs
        /\ h.used_key_packages = used
    BY <2>1 DEF KeyStore
  <2> QED BY <2>2 DEF g, h, used
<1>4. TypeInv'
  <2>1. keystore' = [keystore EXCEPT ![c] = keystore'[c]]
    BY <1>1 DEF TypeInv
  <2>2. keystore' \in [Clients -> KeyStore]
    BY <1>1, <1>3, <2>1 DEF TypeInv
  <2> QED BY <1>1, <2>2 DEF TypeInv
<1>5. /\ IsActive(c)' = IsActive(c) /\ Epoch(c)' = Epoch(c)
      /\ \A n : TranscriptAt(n)' = TranscriptAt(n) /\ TreeAt(n)' = TreeAt(n)
  BY DEF IsActive, Epoch, TranscriptAt, TreeAt
<1>6. MemberOK(c)'
  BY <1>1, <1>5 DEF MemberOK, InHistory
<1>7. StagedOK(c)' /\ KeysOK(c)'
  BY <1>1, <1>3, QueueFrame
<1>8. UpdatesOK(c)'
  <2>1. /\ \A r : HasJoined(c, r) => HasJoined(c, r)'
        /\ \A n : JoinedLater(c, n) => JoinedLater(c, n)'
    BY <1>3, UsedGrows
  <2> QED BY <1>1, <1>3, <1>5, <2>1 DEF UpdatesOK
<1> QED BY <1>2, <1>4, <1>6, <1>7, <1>8, ClientStep

\* The group of a client that joins in the epoch after the j-th accepted commit.
JoinedGroup(j) ==
  [NoGroup EXCEPT !.state = "Operational", !.tree = log[j].tree,
                  !.transcript = Append(log[j].context, log[j].id)]

\* Whoever the j-th commit adds has, after it, the leaf of its one key package.
AddedOK(c, j) ==
  \A add \in Added(log[j]) :
    add[1] = c => /\ c \in DOMAIN TreeAt(j + 1) /\ TreeAt(j + 1)[c].leaf = add[2] /\ add[2] \in Int
                  /\ \A other \in Added(log[j]) : other[1] = c => other[2] = add[2]

\* What a Welcome changes for a client without a group.
Joins(c, j, add) ==
  /\ keystore' = [keystore EXCEPT ![c] =
                    [keystore[c] EXCEPT !.used_key_packages = keystore[c].used_key_packages \cup {add[2]},
                                        !.epoch_keypairs = keystore[c].epoch_keypairs \cup {<<j + 1, add[2]>>}]]
  /\ mem' = [mem EXCEPT ![c] = JoinedGroup(j)]
  /\ disk' = [disk EXCEPT ![c] = [JoinedGroup(j) EXCEPT !.proposals = disk[c].proposals,
                                                      !.own_leaf_nodes = disk[c].own_leaf_nodes]]
  /\ app' = [app EXCEPT ![c] = NoCommit]
  /\ UNCHANGED <<proposals, commits, log>>

\* A client without a group joins: it is in an epoch in which it has sent nothing.
LEMMA AcceptedWelcomeStep ==
  ASSUME IInv, NEW c \in Clients, mem[c].state = "None", NEW j \in 1..Len(log), AddedOK(c, j),
         NEW add \in Added(log[j]), add[1] = c, add[2] \notin keystore[c].used_key_packages,
         Joins(c, j, add)
  PROVE  IInv'
<1> USE DEF Joins
<1>1. /\ TypeInv /\ MemberOK(c) /\ KeysOK(c) /\ UpdatesOK(c)
      /\ mem[c] \in Group /\ disk = mem /\ keystore[c] \in KeyStore
  BY ClientFacts
<1>2. /\ Len(log) \in Nat /\ j \in Nat /\ j + 1 \in 1..(Len(log) + 1) /\ j \in 1..(Len(log) + 1)
      /\ j <= Len(log)
  BY SMTT(30), <1>1 DEF TypeInv
<1>3. /\ c \in DOMAIN TreeAt(j + 1) /\ TreeAt(j + 1)[c].leaf = add[2] /\ add[2] \in Int
      /\ \A other \in Added(log[j]) : other[1] = c => other[2] = add[2]
  BY DEF AddedOK
<1>4. /\ Append(log[j].context, log[j].id) = TranscriptAt(j + 1) /\ Len(TranscriptAt(j + 1)) = j + 1
      /\ log[j].tree = TreeAt(j + 1) /\ TranscriptAt(j + 1) \in Seq(Nat) /\ TreeAt(j + 1) \in Trees
  <2>1. log[j].context = TranscriptAt(j)
    BY DEF IInv, LogInv
  <2> QED BY <1>1, <1>2, <2>1, TranscriptFacts
<1>5. mem[c] = NoGroup /\ Epoch(c) = 0
  <2>1. mem[c] = NoGroup
    BY <1>1 DEF MemberOK
  <2>2. NoGroup.transcript = <<>>
    BY DEF NoGroup
  <2> QED BY SMTT(30), <2>1, <2>2 DEF Epoch
<1> DEFINE group == JoinedGroup(j)
<1>6. /\ group \in Group /\ group.state = "Operational" /\ group.pending = NoCommit
      /\ group.transcript = TranscriptAt(j + 1) /\ group.tree = TreeAt(j + 1)
      /\ group.proposals = <<>> /\ group.own_leaf_nodes = {}
  <2>1. /\ NoGroup.pending = NoCommit /\ NoGroup.proposals = <<>> /\ NoGroup.own_leaf_nodes = {}
    BY DEF NoGroup
  <2>2. group = [NoGroup EXCEPT !.state = "Operational", !.tree = TreeAt(j + 1),
                                !.transcript = TranscriptAt(j + 1)]
    BY <1>4 DEF JoinedGroup
  <2> HIDE DEF group
  <2> QED BY <1>4, <2>1, <2>2, NoGroupType DEF Group
<1>7. mem'[c] = group /\ \A d \in Clients \ {c} : mem'[d] = mem[d]
  BY <1>1 DEF TypeInv
<1>8. disk' = mem'
  <2> DEFINE stored == [group EXCEPT !.proposals = disk[c].proposals,
                                     !.own_leaf_nodes = disk[c].own_leaf_nodes]
  <2>1. disk[c].proposals = <<>> /\ disk[c].own_leaf_nodes = {}
    BY SMTT(30), <1>1, <1>5 DEF NoGroup
  <2>2. stored = [group EXCEPT !.proposals = <<>>, !.own_leaf_nodes = {}]
    BY <2>1
  <2>3. disk' = [mem EXCEPT ![c] = stored]
    BY <1>1
  <2> HIDE DEF group, stored
  <2>4. /\ stored \in Group /\ stored.state = group.state /\ stored.pending = group.pending
        /\ stored.transcript = group.transcript /\ stored.tree = group.tree
        /\ stored.proposals = <<>> /\ stored.own_leaf_nodes = {}
    BY <1>6, <2>2 DEF Group
  <2>5. stored = group
    BY <1>6, <2>4, SameGroup
  <2> QED BY <2>3, <2>5 DEF group
<1> HIDE DEF group
<1>9. app'[c] = NoCommit /\ \A d \in Clients \ {c} : app'[d] = app[d] /\ keystore'[d] = keystore[d]
  BY <1>1 DEF TypeInv
<1>10. /\ keystore'[c] \in KeyStore
       /\ keystore'[c].epoch_keypairs = keystore[c].epoch_keypairs \cup {<<j + 1, add[2]>>}
       /\ keystore'[c].used_key_packages = keystore[c].used_key_packages \cup {add[2]}
  <2> DEFINE g == keystore[c]
             h == keystore'[c]
             used == keystore[c].used_key_packages \cup {add[2]}
             pairs == keystore[c].epoch_keypairs \cup {<<j + 1, add[2]>>}
  <2>1. g \in KeyStore /\ used \in SUBSET Int /\ pairs \in SUBSET ((Nat \ {0}) \X Int)
    BY SMTT(30), <1>1, <1>2, <1>3 DEF KeyStore
  <2>2. h = [g EXCEPT !.used_key_packages = used, !.epoch_keypairs = pairs]
    BY <1>1 DEF TypeInv
  <2> HIDE DEF g, h, used, pairs
  <2>3. h \in KeyStore /\ h.epoch_keypairs = pairs /\ h.used_key_packages = used
    BY <2>1, <2>2 DEF KeyStore
  <2> QED BY <2>3 DEF h, used, pairs
<1>11. TypeInv'
  <2>1. mem' = [mem EXCEPT ![c] = group]
    BY DEF group
  <2>2. mem' \in [Clients -> Group]
    BY <1>1, <1>6, <2>1 DEF TypeInv
  <2>3. keystore' = [keystore EXCEPT ![c] = keystore'[c]]
    BY <1>1 DEF TypeInv
  <2>4. keystore' \in [Clients -> KeyStore]
    BY <1>1, <1>10, <2>3 DEF TypeInv
  <2>5. app' \in [Clients -> {NoCommit} \cup Staged]
    BY <1>1 DEF TypeInv
  <2> QED BY <1>1, <1>8, <2>2, <2>4, <2>5 DEF TypeInv
<1>12. /\ Epoch(c)' = j + 1 /\ IsActive(c)'
       /\ \A k : TranscriptAt(k)' = TranscriptAt(k) /\ TreeAt(k)' = TreeAt(k)
       /\ \A t : InHistory(t)' = InHistory(t)
  <2>1. Epoch(c)' = j + 1 /\ IsActive(c)'
    BY <1>4, <1>6, <1>7 DEF Epoch, IsActive
  <2>2. \A k : TranscriptAt(k)' = TranscriptAt(k) /\ TreeAt(k)' = TreeAt(k)
    BY DEF TranscriptAt, TreeAt
  <2>3. \A t : InHistory(t)' = InHistory(t)
    BY <2>2 DEF InHistory
  <2> QED BY <2>1, <2>2, <2>3
<1>13. MemberOK(c)'
  <2>1. InHistory(TranscriptAt(j + 1))
    BY <1>2, <1>4 DEF InHistory
  <2>2. DOMAIN mem'[c].proposals = {}
    BY SMTT(30), <1>6, <1>7
  <2>3. /\ mem'[c].state # "None" /\ mem'[c].state # "PendingCommit" /\ mem'[c].pending = NoCommit
        /\ mem'[c].transcript = TranscriptAt(j + 1) /\ mem'[c].tree = TreeAt(j + 1)
    BY <1>6, <1>7
  <2> QED BY <1>3, <1>9, <1>12, <2>1, <2>2, <2>3 DEF MemberOK
<1>14. StagedOK(c)'
  BY <1>6, <1>7, <1>9 DEF StagedOK
<1>15. KeysOK(c)'
  <2>1. StagedAt(c)' = {}
    BY <1>6, <1>7, <1>9 DEF StagedAt
  <2>2. mem'[c].tree[c].leaf \in EpochKeys(c)'
    <3> DEFINE k == <<j + 1, add[2]>>
    <3>1. k \in keystore'[c].epoch_keypairs /\ k[1] = Epoch(c)' /\ k[2] = add[2]
      BY <1>10, <1>12
    <3>2. mem'[c].tree[c].leaf = add[2]
      BY <1>3, <1>6, <1>7
    <3> HIDE DEF k
    <3> QED BY <3>1, <3>2 DEF EpochKeys
  <2>3. ASSUME NEW k \in keystore'[c].epoch_keypairs, k[1] # Epoch(c)'
        PROVE  /\ k[1] <= Len(log)
               /\ c \in DOMAIN TreeAt(k[1] + 1) => \E a \in Added(log[k[1]]) : a[1] = c
    <3>1. k \in keystore[c].epoch_keypairs
      BY SMTT(30), <1>10, <1>12, <2>3
    <3>2. k[1] # 0
      BY <1>1, <3>1 DEF KeyStore
    <3> QED BY <1>1, <1>5, <3>1, <3>2 DEF KeysOK
  <2>4. \A l : Added(l)' = Added(l)
    BY DEF Added
  <2> QED BY <1>12, <2>1, <2>2, <2>3, <2>4 DEF KeysOK
<1>16. UpdatesOK(c)'
  <2>1. /\ \A r : (HasJoined(c, r) => HasJoined(c, r)') /\ (CanJoin(c, r)' => CanJoin(c, r))
        /\ \A n : JoinedLater(c, n) => JoinedLater(c, n)'
    BY <1>10, UsedGrows
  <2>2. (j + 1) - 1 = j /\ j + 1 > j /\ j + 1 \in Nat /\ j >= 1
    BY SMTT(30), <1>2
  <2>3. CanJoin(c, j + 1)
    BY <2>2 DEF CanJoin
  <2>4. HasJoined(c, j + 1)' /\ ~CanJoin(c, j + 1)'
    <3>1. \A l : Added(l)' = Added(l)
      BY SMTT(30) DEF Added
    <3>2. HasJoined(c, j + 1)'
      BY <1>10, <2>2, <3>1 DEF HasJoined
    <3>3. ~CanJoin(c, j + 1)'
      BY <1>3, <1>10, <2>2, <3>1 DEF CanJoin
    <3> QED BY <3>2, <3>3
  <2>5. JoinedLater(c, j + 1)'
    <3>1. \A r \in 2..(j + 1) : r = j + 1 \/ j + 1 \in (r + 1)..(j + 1)
      BY SMTT(30), <2>2
    <3> QED BY <2>4, <3>1 DEF JoinedLater
  <2>6. ASSUME NEW p \in proposals, p.sender = c, Len(p.context) >= j + 1
        PROVE  \E r \in ((j + 1) + 1)..Len(p.context) : HasJoined(c, r)
    <3>1. JoinedLater(c, Len(p.context)) /\ Len(p.context) \in Nat
      BY SMTT(30), <1>1, <2>6 DEF UpdatesOK, TypeInv, Proposal
    <3>2. j + 1 \in 2..Len(p.context)
      BY SMTT(30), <2>2, <2>6, <3>1
    <3> QED BY <2>3, <3>1, <3>2 DEF JoinedLater
  <2>7. \A p \in proposals : Len(p.context) \in Nat
    <3>1. proposals \in SUBSET Proposal
      BY <1>1 DEF TypeInv
    <3> QED BY SMTT(30), <3>1 DEF Proposal
  <2>8. \A p \in proposals : p.sender = c => p.context # mem'[c].transcript
    <3>1. ((j + 1) + 1)..(j + 1) = {} /\ j + 1 >= j + 1
      BY SMTT(30), <2>2
    <3>2. \A p \in proposals : p.sender = c => Len(p.context) # j + 1
      BY <2>6, <3>1
    <3> QED BY SMTT(30), <1>4, <1>6, <1>7, <3>2
  <2>9. \A p \in proposals : p.sender = c /\ Len(p.context) > j + 1 =>
          \E r \in ((j + 1) + 1)..Len(p.context) : HasJoined(c, r)'
    <3>1. \A p \in proposals : Len(p.context) > j + 1 => Len(p.context) >= j + 1
      BY SMTT(30), <2>2, <2>7
    <3> QED BY <2>1, <2>6, <3>1
  <2>10. \A p \in proposals : p.sender = c => JoinedLater(c, Len(p.context))'
    BY <1>1, <2>1 DEF UpdatesOK
  <2> QED BY <1>12, <2>5, <2>8, <2>9, <2>10 DEF UpdatesOK
<1>17. \A d \in Clients \ {c} : mem'[d] = mem[d] /\ app'[d] = app[d] /\ keystore'[d] = keystore[d]
  BY <1>7, <1>9
<1> QED BY <1>11, <1>13, <1>14, <1>15, <1>16, <1>17, ClientStep

\* A Welcome uses a key package up, and starts a group where none is stored.
LEMMA JoinFromWelcomeStep ==
  ASSUME IInv, Joining = "fresh", NEW c \in Clients, NEW j \in 1..Len(log),
         JoinFromWelcome(c, log[j]), AddedOK(c, j)
  PROVE  IInv'
<1>1. TypeInv /\ disk = mem /\ keystore[c] \in KeyStore /\ Len(log[j].context) = j
  <2>1. TypeInv /\ disk = mem /\ keystore[c] \in KeyStore
    BY ClientFacts
  <2>2. log[j].context = TranscriptAt(j) /\ j \in 1..(Len(log) + 1)
    BY SMTT(30), <2>1 DEF IInv, LogInv, TypeInv
  <2> QED BY <2>1, <2>2, TranscriptFacts
<1>2. PICK add \in Added(log[j]) :
        /\ add[1] = c /\ add[2] \notin keystore[c].used_key_packages
        /\ IF Joining = "fresh" /\ disk[c].state # "None"
           THEN /\ keystore' = [keystore EXCEPT ![c] =
                                  [keystore[c] EXCEPT !.used_key_packages = @ \cup {add[2]}]]
                /\ UNCHANGED <<mem, disk, app>>
           ELSE /\ keystore' = [keystore EXCEPT ![c] =
                     [[keystore[c] EXCEPT !.used_key_packages = @ \cup {add[2]}] EXCEPT
                         !.epoch_keypairs = @ \cup {<<Len(log[j].context) + 1, add[2]>>}]]
                /\ mem' = [mem EXCEPT ![c] = JoinedGroup(j)]
                /\ disk' = [disk EXCEPT ![c] =
                              [JoinedGroup(j) EXCEPT !.proposals = disk[c].proposals,
                                                     !.own_leaf_nodes = disk[c].own_leaf_nodes]]
                /\ app' = [app EXCEPT ![c] = NoCommit]
  BY DEF JoinFromWelcome, JoinedGroup
<1>3. UNCHANGED <<proposals, commits, log>>
  BY DEF JoinFromWelcome
<1>4. CASE disk[c].state # "None"
  <2>1. add[2] \in Int
    BY <1>2 DEF AddedOK
  <2> QED BY <1>2, <1>3, <1>4, <2>1, RefusedWelcomeStep
<1>5. CASE disk[c].state = "None"
  <2> DEFINE used == keystore[c].used_key_packages \cup {add[2]}
             pairs == keystore[c].epoch_keypairs \cup {<<j + 1, add[2]>>}
  <2>1. keystore' = [keystore EXCEPT ![c] =
                       [[keystore[c] EXCEPT !.used_key_packages = used] EXCEPT !.epoch_keypairs = pairs]]
    <3>1. [keystore[c] EXCEPT !.used_key_packages = used].epoch_keypairs = keystore[c].epoch_keypairs
      BY <1>1 DEF KeyStore
    <3> QED BY <1>1, <1>2, <1>5, <3>1
  <2>2. [[keystore[c] EXCEPT !.used_key_packages = used] EXCEPT !.epoch_keypairs = pairs]
          = [keystore[c] EXCEPT !.used_key_packages = used, !.epoch_keypairs = pairs]
    <3> HIDE DEF used, pairs
    <3> QED BY <1>1 DEF KeyStore
  <2>3. keystore' = [keystore EXCEPT ![c] =
                       [keystore[c] EXCEPT !.used_key_packages = used, !.epoch_keypairs = pairs]]
    BY <2>1, <2>2
  <2>4. mem' = [mem EXCEPT ![c] = JoinedGroup(j)] /\ app' = [app EXCEPT ![c] = NoCommit]
    BY <1>2, <1>5
  <2>5. disk' = [disk EXCEPT ![c] = [JoinedGroup(j) EXCEPT !.proposals = disk[c].proposals,
                                                          !.own_leaf_nodes = disk[c].own_leaf_nodes]]
    BY <1>2, <1>5
  <2>6. Joins(c, j, add)
    BY <1>3, <2>3, <2>4, <2>5 DEF Joins
  <2>7. mem[c].state = "None" /\ add[1] = c /\ add[2] \notin keystore[c].used_key_packages
    BY <1>1, <1>2, <1>5
  <2> QED BY <1>2, <2>6, <2>7, AcceptedWelcomeStep
<1> QED BY <1>4, <1>5

\* A client deletes a group that it was removed from.
LEMMA DeleteStep ==
  ASSUME IInv, NEW c \in Clients, Delete(c)
  PROVE  IInv'
<1>1. /\ TypeInv /\ MemberOK(c) /\ KeysOK(c) /\ UpdatesOK(c)
      /\ mem[c] \in Group /\ disk = mem /\ keystore[c] \in KeyStore
  BY ClientFacts
<1>2. /\ mem[c].state = "Inactive" /\ mem' = [mem EXCEPT ![c] = NoGroup] /\ disk' = mem'
      /\ keystore' = [keystore EXCEPT ![c].epoch_keypairs = {k \in @ : k[1] # Epoch(c)}]
      /\ UNCHANGED <<app, proposals, commits, log>>
  BY <1>1 DEF Delete
<1>3. /\ mem'[c] = NoGroup /\ app[c] = NoCommit
      /\ \A d \in Clients \ {c} : mem'[d] = mem[d] /\ app'[d] = app[d] /\ keystore'[d] = keystore[d]
  BY <1>1, <1>2 DEF TypeInv, MemberOK, IsActive
<1>4. /\ NoGroup.state = "None" /\ NoGroup.pending = NoCommit /\ NoGroup.transcript = <<>>
  BY DEF NoGroup
<1>5. /\ keystore'[c] \in KeyStore
      /\ keystore'[c].epoch_keypairs = {k \in keystore[c].epoch_keypairs : k[1] # Epoch(c)}
      /\ keystore'[c].leaf_keypairs = keystore[c].leaf_keypairs
      /\ keystore'[c].used_key_packages = keystore[c].used_key_packages
  <2> DEFINE g == keystore[c]
             h == keystore'[c]
             pairs == {k \in keystore[c].epoch_keypairs : k[1] # Epoch(c)}
  <2>1. g \in KeyStore /\ pairs \in SUBSET ((Nat \ {0}) \X Int)
    BY <1>1 DEF KeyStore
  <2>2. h = [g EXCEPT !.epoch_keypairs = pairs]
    BY <1>1, <1>2 DEF TypeInv
  <2> HIDE DEF g, h, pairs
  <2>3. /\ h \in KeyStore /\ h.epoch_keypairs = pairs /\ h.leaf_keypairs = g.leaf_keypairs
        /\ h.used_key_packages = g.used_key_packages
    BY <2>1, <2>2 DEF KeyStore
  <2> QED BY <2>3 DEF g, h, pairs
<1>6. TypeInv'
  <2>1. mem' \in [Clients -> Group]
    BY <1>1, <1>2, NoGroupType DEF TypeInv
  <2>2. keystore' = [keystore EXCEPT ![c] = keystore'[c]]
    BY <1>1, <1>2 DEF TypeInv
  <2>3. keystore' \in [Clients -> KeyStore]
    BY <1>1, <1>5, <2>2 DEF TypeInv
  <2> QED BY <1>1, <1>2, <2>1, <2>3 DEF TypeInv
<1>7. ~IsActive(c)' /\ Epoch(c)' = 0 /\ StagedAt(c)' = {}
  BY SMTT(30), <1>2, <1>3, <1>4 DEF IsActive, Epoch, StagedAt
<1>8. MemberOK(c)'
  BY <1>2, <1>3, <1>4, <1>7 DEF MemberOK
<1>9. StagedOK(c)'
  BY <1>2, <1>3, <1>4 DEF StagedOK
<1>10. KeysOK(c)'
  <2>1. \A l : Added(l)' = Added(l)
    BY DEF Added
  <2>2. \A n : TreeAt(n)' = TreeAt(n)
    BY <1>2 DEF TreeAt
  <2> QED BY <1>1, <1>2, <1>5, <1>7, <2>1, <2>2 DEF KeysOK
<1>11. UpdatesOK(c)'
  <2>1. \A n : JoinedLater(c, n) => JoinedLater(c, n)'
    BY <1>2, <1>5, UsedGrows
  <2> QED BY <1>1, <1>2, <1>7, <2>1 DEF UpdatesOK
<1> QED BY <1>2, <1>3, <1>6, <1>8, <1>9, <1>10, <1>11, ClientStep

-----------------------------------------------------------------------------
(* What a list of proposals does to the leaves.                            *)

AddedBy(queue) == {queue[i].target : i \in OfType(queue, "Add")}

NewMembers(queue, tree) == (DOMAIN tree \ RemovedMembers(queue)) \cup AddedBy(queue)

\* The Updates and Adds that concern a client, as the ids of the new leaves.
LeavesFor(queue, d) ==
  {queue[i].id : i \in {i \in DOMAIN queue : queue[i].type \in {"Add", "Update"} /\ queue[i].target = d}}

\* The leaves after the list, without the path.
Applied(queue, tree) ==
  [m \in (DOMAIN tree \ RemovedMembers(queue)) \cup AddedBy(queue) |->
     IF LeavesFor(queue, m) = {} THEN tree[m]
     ELSE [key |-> Key[m], leaf |-> CHOOSE k \in LeavesFor(queue, m) : TRUE]]

\* A path changes the committer's leaf, after the list was applied.
LEMMA NewTreeApplied ==
  ASSUME NEW queue, NEW tree, NEW committer, NEW path \in BOOLEAN, NEW id
  PROVE  NewTree(queue, tree, committer, path, id) =
           IF path THEN [Applied(queue, tree) EXCEPT ![committer] = [key |-> Key[committer], leaf |-> id]]
           ELSE Applied(queue, tree)
<1> DEFINE adds == {queue[i] : i \in OfType(queue, "Add")}
           updates == {queue[i] : i \in OfType(queue, "Update")}
           leafOf(m) == {p.id : p \in {p \in adds \cup updates : p.target = m}}
           added == {p.target : p \in adds}
<1>1. \A m : leafOf(m) = LeavesFor(queue, m)
  BY DEF LeavesFor, OfType
<1>2. added = AddedBy(queue)
  BY DEF AddedBy
<1>3. Applied(queue, tree) =
        [m \in (DOMAIN tree \ RemovedMembers(queue)) \cup added |->
           IF leafOf(m) = {} THEN tree[m]
           ELSE [key |-> Key[m], leaf |-> CHOOSE k \in leafOf(m) : TRUE]]
  BY <1>1, <1>2 DEF Applied
<1> QED BY <1>3 DEF NewTree

\* A path changes the committer's leaf only.
LEMMA PathLeaf ==
  ASSUME NEW queue, NEW tree, NEW committer \in DOMAIN Applied(queue, tree), NEW path \in BOOLEAN, NEW id,
         NEW d, d # committer
  PROVE  /\ DOMAIN NewTree(queue, tree, committer, path, id) = DOMAIN Applied(queue, tree)
         /\ NewTree(queue, tree, committer, path, id)[d] = Applied(queue, tree)[d]
<1> DEFINE A == Applied(queue, tree)
           new == NewTree(queue, tree, committer, path, id)
<1>1. new = IF path THEN [A EXCEPT ![committer] = [key |-> Key[committer], leaf |-> id]] ELSE A
  BY SMTT(30), NewTreeApplied
<1>2. A = [m \in DOMAIN A |-> A[m]]
  BY DEF Applied
<1> HIDE DEF A, new
<1>3. DOMAIN new = DOMAIN A
  BY <1>1, <1>2
<1>4. new[d] = A[d]
  BY SMTT(30), <1>1, <1>2
<1> QED BY <1>3, <1>4 DEF A, new

\* The leaves stay leaves of clients with their own keys, and the members are those
\* that were not removed and those that were added.
LEMMA NewTreeType ==
  ASSUME NEW queue \in Seq(Proposal), NEW tree \in Trees, OwnKeys(tree),
         NEW committer \in DOMAIN tree, committer \notin RemovedMembers(queue),
         NEW path \in BOOLEAN, NEW id \in Nat
  PROVE  /\ NewTree(queue, tree, committer, path, id) \in Trees
         /\ OwnKeys(NewTree(queue, tree, committer, path, id))
         /\ DOMAIN NewTree(queue, tree, committer, path, id) = NewMembers(queue, tree)
<1> DEFINE D == (DOMAIN tree \ RemovedMembers(queue)) \cup AddedBy(queue)
           A == Applied(queue, tree)
<1>1. DOMAIN A = D
  BY DEF Applied
<1>2. PICK M \in SUBSET Clients : tree \in [M -> Leaf]
  BY DEF Trees
<1>3. \A i \in DOMAIN queue : queue[i] \in Proposal
  BY SMTT(30)
<1>4. \A i \in DOMAIN queue : queue[i].id \in Nat /\ queue[i].target \in Clients
  BY <1>3 DEF Proposal
<1>5. AddedBy(queue) \in SUBSET Clients
  BY <1>4 DEF AddedBy, OfType
<1>6. \A d : LeavesFor(queue, d) \in SUBSET Int
  BY SMTT(30), <1>4 DEF LeavesFor
<1>7. \A d \in D : A[d].key = Key[d] /\ A[d] \in Leaf
  <2>1. SUFFICES ASSUME NEW d \in D
                 PROVE  A[d].key = Key[d] /\ A[d] \in Leaf
    OBVIOUS
  <2>2. A[d] = IF LeavesFor(queue, d) = {} THEN tree[d]
               ELSE [key |-> Key[d], leaf |-> CHOOSE k \in LeavesFor(queue, d) : TRUE]
    BY DEF Applied
  <2>3. d \in Clients
    BY <1>2, <1>5
  <2>4. CASE LeavesFor(queue, d) = {}
    <3>1. d \in DOMAIN tree
      BY <2>4 DEF AddedBy, OfType, LeavesFor
    <3> QED BY <1>2, <2>2, <2>4, <3>1 DEF OwnKeys
  <2>5. CASE LeavesFor(queue, d) # {}
    <3>1. (CHOOSE k \in LeavesFor(queue, d) : TRUE) \in Int
      BY <1>6, <2>5
    <3> QED BY SMTT(30), <2>2, <2>3, <2>5, <3>1 DEF Leaf, Keys
  <2> QED BY <2>4, <2>5
<1>8. committer \in D /\ [key |-> Key[committer], leaf |-> id] \in Leaf
  BY SMTT(30), <1>2 DEF Leaf, Keys
<1>9. D \in SUBSET Clients
  BY <1>2, <1>5
<1> DEFINE new == NewTree(queue, tree, committer, path, id)
<1>10. new = IF path THEN [A EXCEPT ![committer] = [key |-> Key[committer], leaf |-> id]] ELSE A
  BY SMTT(30), NewTreeApplied
<1>11. A = [d \in D |-> A[d]]
  BY DEF Applied
<1> HIDE DEF new, A, D
<1>12. new \in [D -> Leaf] /\ \A d \in D : new[d].key = Key[d]
  BY <1>1, <1>7, <1>8, <1>10, <1>11
<1>13. new \in Trees /\ DOMAIN new = D
  BY <1>9, <1>12 DEF Trees
<1> QED BY <1>12, <1>13 DEF OwnKeys, new, D, NewMembers

\* What becomes of the leaf of a member that is neither removed nor added.
LEMMA NewTreeLeaf ==
  ASSUME NEW queue, NEW tree, NEW committer, NEW path \in BOOLEAN, NEW id,
         NEW d \in DOMAIN tree \ RemovedMembers(queue), d \notin AddedBy(queue),
         committer \in DOMAIN tree \ RemovedMembers(queue)
  PROVE  LET new == NewTree(queue, tree, committer, path, id)
         IN /\ path /\ d = committer => new[d].leaf = id
            /\ ~(path /\ d = committer) =>
                 \/ new[d] = tree[d]
                 \/ \E i \in OfType(queue, "Update") :
                      queue[i].target = d /\ new[d].leaf = queue[i].id
<1> DEFINE A == Applied(queue, tree)
           new == NewTree(queue, tree, committer, path, id)
<1>1. new = IF path THEN [A EXCEPT ![committer] = [key |-> Key[committer], leaf |-> id]] ELSE A
  BY SMTT(30), NewTreeApplied
<1>2. A[d] = IF LeavesFor(queue, d) = {} THEN tree[d]
             ELSE [key |-> Key[d], leaf |-> CHOOSE k \in LeavesFor(queue, d) : TRUE]
  BY DEF Applied
<1>3. d \in DOMAIN A /\ committer \in DOMAIN A
  BY DEF Applied
<1>4. LeavesFor(queue, d) # {} =>
        \E i \in OfType(queue, "Update") : queue[i].target = d /\ A[d].leaf = queue[i].id
  <2>1. SUFFICES ASSUME LeavesFor(queue, d) # {}
                 PROVE  \E i \in OfType(queue, "Update") : queue[i].target = d /\ A[d].leaf = queue[i].id
    OBVIOUS
  <2>2. A[d].leaf \in LeavesFor(queue, d)
    BY SMTT(30), <1>2, <2>1
  <2> QED BY <2>2 DEF LeavesFor, AddedBy, OfType
<1> HIDE DEF A, new
<1>5. path /\ d = committer => new[d].leaf = id
  BY <1>1, <1>3
<1>6. ~(path /\ d = committer) => new[d] = A[d]
  BY <1>1, <1>3
<1> QED BY <1>2, <1>4, <1>5, <1>6 DEF new

\* The clients that a commit adds, and their key packages.
LEMMA AddedClients ==
  ASSUME NEW m, NEW c
  PROVE  c \in AddedBy(m.queue) <=> \E add \in Added(m) : add[1] = c
<1>1. ASSUME c \in AddedBy(m.queue)
      PROVE  \E add \in Added(m) : add[1] = c
  <2>1. PICK i \in OfType(m.queue, "Add") : c = m.queue[i].target
    BY <1>1 DEF AddedBy
  <2> DEFINE add == <<m.queue[i].target, m.queue[i].id>>
  <2>2. add \in Added(m) /\ add[1] = c
    BY <2>1 DEF Added
  <2> HIDE DEF add
  <2> QED BY <2>2
<1>2. ASSUME NEW add \in Added(m), add[1] = c
      PROVE  c \in AddedBy(m.queue)
  <2>1. PICK i \in OfType(m.queue, "Add") : add = <<m.queue[i].target, m.queue[i].id>>
    BY DEF Added
  <2> QED BY <1>2, <2>1 DEF AddedBy
<1> QED BY <1>1, <1>2

\* The commit of a member's epoch was made for the tree that the member has.
LEMMA PendingCommit ==
  ASSUME IInv, NEW c \in Clients, IsActive(c), NEW m \in Pending(c)
  PROVE  /\ Epoch(c) \in 1..Len(log) /\ m = log[Epoch(c)] /\ m \in commits /\ m \in Commit
         /\ CommitOK(m) /\ m.context = mem[c].transcript
         /\ mem[c].tree = TreeAt(Len(m.context)) /\ mem[c].tree \in Trees /\ OwnKeys(mem[c].tree)
         /\ m.tree = NewTree(m.queue, mem[c].tree, m.sender, m.path, m.id)
<1>1. TypeInv /\ LogInv /\ MemberOK(c) /\ mem[c] \in Group
  BY ClientFacts DEF IInv
<1>2. Epoch(c) \in 1..Len(log) /\ m = log[Epoch(c)] /\ m \in commits
  BY <1>1, PendingIsNext
<1>3. m \in Commit /\ CommitOK(m) /\ m.context = mem[c].transcript
  BY <1>1, <1>2 DEF IInv, TypeInv, CommitsInv, Pending
<1>4. mem[c].tree = TreeAt(Epoch(c)) /\ Epoch(c) = Len(m.context)
  BY <1>1, <1>3 DEF MemberOK, IsActive, Epoch
<1>5. mem[c].tree \in Trees /\ OwnKeys(mem[c].tree)
  <2>1. Len(log) \in Nat
    BY SMTT(30), <1>1 DEF TypeInv
  <2>2. Epoch(c) \in 1..(Len(log) + 1)
    BY SMTT(30), <1>2, <2>1
  <2> QED BY <1>1, <1>4, <2>2 DEF LogInv, Group
<1> QED BY <1>2, <1>3, <1>4, <1>5 DEF CommitOK

-----------------------------------------------------------------------------
(* Proposals.                                                              *)

\* A finite set can be counted: one more member, one more in the count.
CountsUp(S) ==
  /\ Cardinality(S) \in Nat
  /\ \A x : x \notin S => /\ IsFiniteSet(S \cup {x})
                         /\ Cardinality(S \cup {x}) = Cardinality(S) + 1

\* A new proposal has a new reference; an Update's key is stored with it.
LEMMA ProposeStep ==
  ASSUME IInv, CountsUp(proposals), NEW c \in Clients, NEW k \in Kinds, Propose(c, k[1], k[2])
  PROVE  IInv'
<1> DEFINE type == k[1]
           target == k[2]
           id == ProposalId(Cardinality(proposals) + 1)
           p == [id |-> id, type |-> type, sender |-> c, subject |-> Subject(type, target),
                 target |-> target, byRef |-> TRUE, context |-> mem[c].transcript]
           leaf == IF type = "Update" THEN {id} ELSE {}
<1>1. /\ mem[c].state = "Operational"
      /\ type = "Update" => target = c
      /\ proposals' = proposals \cup {p}
      /\ mem' = [mem EXCEPT ![c].proposals = Append(@, p), ![c].own_leaf_nodes = @ \cup leaf]
      /\ disk' = [disk EXCEPT ![c].proposals = Append(@, p), ![c].own_leaf_nodes = @ \cup leaf]
      /\ keystore' = [keystore EXCEPT ![c].leaf_keypairs = @ \cup leaf]
      /\ UNCHANGED <<app, commits, log>>
  BY DEF Propose
<1>2. /\ TypeInv /\ MemberOK(c) /\ StagedOK(c) /\ KeysOK(c) /\ UpdatesOK(c)
      /\ mem[c] \in Group /\ disk = mem /\ keystore[c] \in KeyStore
  BY ClientFacts
<1>3. Cardinality(proposals) \in Nat /\ id \in Nat
  BY SMTT(30) DEF CountsUp, ProposalId
<1>4. /\ mem \in [Clients -> Group] /\ mem[c].proposals \in Seq(Proposal)
      /\ mem[c].transcript \in Seq(Nat) /\ mem[c].own_leaf_nodes \in SUBSET Int
  BY <1>2 DEF TypeInv, Group
<1>5. leaf \in SUBSET Int
  BY SMTT(30), <1>3
<1>6. p \in Proposal /\ p.id = id /\ p.sender = c /\ p.byRef /\ p.context = mem[c].transcript
  <2>1. target \in Clients
    BY KindsAssumption
  <2>2. Subject(type, target) \in Clients \cup Keys
    BY <2>1 DEF Subject, Keys
  <2> HIDE DEF id
  <2> QED BY <1>1, <1>3, <1>4, <2>1, <2>2 DEF Proposal
<1> HIDE DEF p
<1>7. p \notin proposals /\ \A q \in proposals : q.id # id
  <2>1. \A q \in proposals : \E n \in 1..Cardinality(proposals) : q.id = ProposalId(n)
    BY DEF IInv, IdsInv
  <2>2. \A n \in 1..Cardinality(proposals) : ProposalId(n) # id
    BY SMTT(30), <1>3 DEF ProposalId
  <2> QED BY <1>6, <2>1, <2>2
<1>8. IsFiniteSet(proposals') /\ Cardinality(proposals') = Cardinality(proposals) + 1
  BY <1>1, <1>7 DEF CountsUp
<1> DEFINE queue == Append(mem[c].proposals, p)
           leaves == mem[c].own_leaf_nodes \cup leaf
<1>9. /\ mem'[c] = [mem[c] EXCEPT !.proposals = queue, !.own_leaf_nodes = leaves]
      /\ \A d \in Clients \ {c} : mem'[d] = mem[d]
  BY <1>1, <1>4
<1>10. /\ mem'[c].state = mem[c].state /\ mem'[c].pending = mem[c].pending
       /\ mem'[c].transcript = mem[c].transcript /\ mem'[c].tree = mem[c].tree
       /\ mem'[c].own_leaf_nodes = leaves /\ mem'[c].proposals = queue
       /\ mem'[c] \in Group
  <2> DEFINE g == mem[c]
             h == mem'[c]
  <2>1. g \in Group /\ queue \in Seq(Proposal) /\ leaves \in SUBSET Int
    BY <1>2, <1>4, <1>5, <1>6, AppendEntries
  <2> HIDE DEF queue, leaves
  <2>2. h = [g EXCEPT !.proposals = queue, !.own_leaf_nodes = leaves]
    BY <1>9
  <2> HIDE DEF g, h
  <2>3. /\ h \in Group /\ h.proposals = queue /\ h.own_leaf_nodes = leaves
        /\ h.state = g.state /\ h.pending = g.pending
        /\ h.transcript = g.transcript /\ h.tree = g.tree
    BY <2>1, <2>2 DEF Group
  <2> QED BY <2>3 DEF g, h
<1> HIDE DEF leaf
<1>11. /\ keystore'[c] \in KeyStore
       /\ keystore'[c].epoch_keypairs = keystore[c].epoch_keypairs
       /\ keystore'[c].leaf_keypairs = keystore[c].leaf_keypairs \cup leaf
       /\ keystore'[c].used_key_packages = keystore[c].used_key_packages
       /\ \A d \in Clients \ {c} : keystore'[d] = keystore[d]
       /\ keystore' \in [Clients -> KeyStore]
  <2>1. keystore \in [Clients -> KeyStore]
    BY <1>2 DEF TypeInv
  <2> QED BY <1>1, <1>5, <2>1 DEF KeyStore
<1>12. TypeInv'
  <2>1. mem' \in [Clients -> Group] /\ disk' = mem'
    BY <1>1, <1>2, <1>4, <1>9, <1>10
  <2>2. proposals' \in SUBSET Proposal
    BY <1>1, <1>2, <1>6 DEF TypeInv
  <2> QED BY <1>1, <1>2, <1>8, <1>11, <2>1, <2>2 DEF TypeInv
<1>13. /\ IsActive(c)' /\ IsActive(c) /\ Epoch(c)' = Epoch(c)
       /\ \A n : TranscriptAt(n)' = TranscriptAt(n) /\ TreeAt(n)' = TreeAt(n)
       /\ \A t : InHistory(t)' = InHistory(t)
  <2>1. IsActive(c)' /\ IsActive(c) /\ Epoch(c)' = Epoch(c)
    BY <1>1, <1>10 DEF IsActive, Epoch
  <2>2. \A n : TranscriptAt(n)' = TranscriptAt(n) /\ TreeAt(n)' = TreeAt(n)
    BY <1>1 DEF TranscriptAt, TreeAt
  <2>3. \A t : InHistory(t)' = InHistory(t)
    BY <1>1, <2>2 DEF InHistory
  <2> QED BY <2>1, <2>2, <2>3
<1>14. InHistory(mem[c].transcript)
  BY <1>1, <1>2 DEF MemberOK
<1>15. IdsInv'
  <2>1. \A q \in proposals' : q.byRef /\ \E n \in 1..Cardinality(proposals') : q.id = ProposalId(n)
    <3>1. \A n \in 1..Cardinality(proposals) : n \in 1..Cardinality(proposals')
      BY SMTT(30), <1>3, <1>8
    <3>2. Cardinality(proposals) + 1 \in 1..Cardinality(proposals')
      BY SMTT(30), <1>3, <1>8
    <3> QED BY <1>1, <1>6, <3>1, <3>2 DEF IInv, IdsInv
  <2>2. \A q, r \in proposals' : q.id = r.id => q = r
    BY SMTT(30), <1>1, <1>6, <1>7 DEF IInv, IdsInv
  <2> QED BY <1>1, <2>1, <2>2 DEF IInv, IdsInv
<1>16. LogInv'
  <2>1. c \in DOMAIN TreeAt(Epoch(c))
    BY <1>1, <1>2, <1>13 DEF MemberOK
  <2>2. InHistory(p.context) /\ p.sender \in DOMAIN TreeAt(Len(p.context))
    BY <1>6, <1>14, <2>1 DEF Epoch
  <2>3. \A q \in proposals' : InHistory(q.context) /\ q.sender \in DOMAIN TreeAt(Len(q.context))
    BY <1>1, <2>2 DEF IInv, LogInv
  <2> QED BY <1>1, <1>13, <2>3 DEF IInv, LogInv
<1>17. CommitsInv'
  BY <1>1, <1>13 DEF IInv, CommitsInv, CommitOK, EntryOK
<1>18. MemberOK(c)'
  <2>1. \A i \in DOMAIN mem'[c].proposals :
          mem'[c].proposals[i] \in proposals' /\ mem'[c].proposals[i].context = mem[c].transcript
    <3>1. \A i \in DOMAIN mem[c].proposals :
            mem[c].proposals[i] \in proposals /\ mem[c].proposals[i].context = mem[c].transcript
      BY <1>13, <1>2 DEF MemberOK
    <3>2. \A i \in DOMAIN queue : (i \in DOMAIN mem[c].proposals /\ queue[i] = mem[c].proposals[i]) \/ queue[i] = p
      BY SMTT(30), <1>4, <1>6, AppendEntries
    <3>3. p \in proposals' /\ proposals \subseteq proposals' /\ p.context = mem[c].transcript
      BY <1>1, <1>6
    <3> HIDE DEF queue
    <3>4. \A i \in DOMAIN queue : queue[i] \in proposals' /\ queue[i].context = mem[c].transcript
      BY <3>1, <3>2, <3>3
    <3> QED BY <1>10, <3>4
  <2> HIDE DEF queue
  <2> QED BY <1>1, <1>2, <1>10, <1>13, <2>1 DEF MemberOK
<1>19. StagedOK(c)' /\ KeysOK(c)'
  BY <1>1, <1>2, <1>10, <1>11, QueueFrame
<1>21. UpdatesOK(c)'
  <2>1. \A r : HasJoined(c, r)' = HasJoined(c, r) /\ CanJoin(c, r)' = CanJoin(c, r)
    BY SMTT(30), <1>1, <1>11 DEF HasJoined, CanJoin, Added
  <2>2. \A n : JoinedLater(c, n)' <=> JoinedLater(c, n)
    BY <2>1 DEF JoinedLater
  <2>3. Len(p.context) = Epoch(c) /\ Epoch(c) \in Nat
    BY SMTT(30), <1>4, <1>6 DEF Epoch
  <2>4. JoinedLater(c, Epoch(c))
    BY <1>2, <1>13 DEF UpdatesOK
  <2>5. p.type = "Update" => p.id \in leaf
    BY <1>6 DEF p, leaf
  <2>6. \A q \in proposals' : q.sender = c => JoinedLater(c, Len(q.context))'
    BY <1>1, <1>2, <2>2, <2>3, <2>4 DEF UpdatesOK
  <2>7. \A q \in proposals' : q.sender = c /\ Len(q.context) > Epoch(c)' =>
          \E r \in (Epoch(c)' + 1)..Len(q.context) : HasJoined(c, r)'
    BY SMTT(30), <1>1, <1>2, <1>13, <2>1, <2>3 DEF UpdatesOK
  <2>8. \A q \in proposals' :
          q.type = "Update" /\ q.sender = c /\ q.context = mem'[c].transcript =>
            q.id \in mem'[c].own_leaf_nodes \cap keystore'[c].leaf_keypairs
    BY <1>1, <1>2, <1>10, <1>11, <1>13, <2>5 DEF UpdatesOK
  <2> QED BY <1>13, <2>2, <2>4, <2>6, <2>7, <2>8 DEF UpdatesOK
<1>22. ASSUME NEW d \in Clients \ {c}
       PROVE  MemberOK(d)' /\ StagedOK(d)' /\ KeysOK(d)' /\ UpdatesOK(d)'
  <2>1. MemberOK(d) /\ StagedOK(d) /\ KeysOK(d) /\ UpdatesOK(d)
    BY ClientFacts
  <2> QED BY <1>1, <1>6, <1>9, <1>11, <2>1, Frame
<1> QED BY <1>12, <1>15, <1>16, <1>17, <1>18, <1>19, <1>21, <1>22
        DEF IInv, MembersInv, KeysInv, UpdatesInv

InlineOK(own, id, context) ==
  /\ own \in Seq(Proposal)
  /\ \A i \in DOMAIN own : /\ own[i].id = id /\ own[i].byRef = FALSE /\ own[i].type # "Update"
                           /\ own[i].context = context
  /\ \A i, j \in DOMAIN own : i = j

\* The builder's own proposals are of the current epoch, and not Updates.
LEMMA InlineEntries ==
  ASSUME NEW c \in Clients, NEW id \in Nat, mem[c].transcript \in Seq(Nat), NEW own \in Inline(c, id)
  PROVE  InlineOK(own, id, mem[c].transcript)
<1>1. CASE own = <<>>
  BY SMTT(30), <1>1 DEF InlineOK
<1>2. CASE own # <<>>
  <2>1. PICK k \in Kinds :
          /\ k[1] # "Update"
          /\ own = <<[id |-> id, type |-> k[1], sender |-> c, subject |-> Subject(k[1], k[2]),
                      target |-> k[2], byRef |-> FALSE, context |-> mem[c].transcript]>>
    BY <1>2 DEF Inline
  <2> DEFINE p == [id |-> id, type |-> k[1], sender |-> c, subject |-> Subject(k[1], k[2]),
                   target |-> k[2], byRef |-> FALSE, context |-> mem[c].transcript]
  <2>2. k[2] \in Clients
    BY KindsAssumption
  <2>3. Subject(k[1], k[2]) \in Clients \cup Keys
    BY <2>2 DEF Subject, Keys
  <2>4. /\ p \in Proposal /\ p.id = id /\ p.byRef = FALSE /\ p.type # "Update"
        /\ p.context = mem[c].transcript
    BY <2>1, <2>2, <2>3 DEF Proposal
  <2>5. own = <<p>>
    BY <2>1
  <2> HIDE DEF p
  <2> QED BY SMTT(30), <2>4, <2>5 DEF InlineOK
<1> QED BY <1>1, <1>2

-----------------------------------------------------------------------------
(* The first epoch.                                                        *)

\* The invariant holds in the first epoch.
LEMMA InitInv ==
  ASSUME IsFiniteSet({}), Cardinality({}) = 0
  PROVE  Init => IInv
<1>1. SUFFICES ASSUME Init
               PROVE  IInv
  OBVIOUS
<1>2. /\ FirstGroup \in Group /\ FirstGroup.state = "Operational" /\ FirstGroup.pending = NoCommit
      /\ FirstGroup.transcript = <<0>> /\ FirstGroup.tree = FirstTree /\ FirstGroup.proposals = <<>>
  <2>1. <<0>> \in Seq(Nat)
    BY SMTT(30)
  <2>2. NoGroup.pending = NoCommit /\ NoGroup.proposals = <<>>
    BY DEF NoGroup
  <2> QED BY <2>1, <2>2, NoGroupType, FirstTreeType DEF FirstGroup, Group
<1>3. \A c \in Clients : mem[c] = (IF c \in InitialMembers THEN FirstGroup ELSE NoGroup)
  BY <1>1 DEF Init
<1>4. TypeInv
  <2>1. mem \in [Clients -> Group]
    BY <1>1, <1>2, NoGroupType DEF Init
  <2>2. keystore \in [Clients -> KeyStore]
    BY SMTT(30), <1>1, ClientsAssumption DEF Init, KeyStore
  <2>3. IsFiniteSet(proposals) /\ IsFiniteSet(commits)
    BY <1>1 DEF Init
  <2> QED BY SMTT(30), <1>1, <2>1, <2>2, <2>3 DEF Init, TypeInv
<1>5. IdsInv
  BY SMTT(30), <1>1, BoundsAssumption DEF Init, IdsInv
<1>6. Len(log) = 0 /\ TreeAt(1) = FirstTree /\ TranscriptAt(1) = <<0>>
  BY SMTT(30), <1>1 DEF Init, TreeAt, TranscriptAt
<1>7. LogInv
  BY SMTT(30), <1>1, <1>6, FirstTreeType DEF Init, LogInv
<1>8. CommitsInv
  BY <1>1 DEF Init, CommitsInv
<1>9. \A c \in Clients : app[c] = NoCommit
  BY <1>1 DEF Init
<1>10. ASSUME NEW c \in Clients
       PROVE  MemberOK(c) /\ StagedOK(c) /\ KeysOK(c) /\ UpdatesOK(c)
  <2>1. CASE c \in InitialMembers
    <3>1. mem[c] = FirstGroup /\ Epoch(c) = 1 /\ IsActive(c)
      <4>1. mem[c] = FirstGroup
        BY <1>3, <2>1
      <4>2. mem[c].transcript = <<0>> /\ mem[c].state = "Operational"
        BY <1>2, <4>1
      <4> QED BY <4>1, <4>2 DEF Epoch, IsActive
    <3>2. MemberOK(c)
      <4>1. InHistory(mem[c].transcript) /\ mem[c].tree = TreeAt(Epoch(c))
        <5>1. Len(mem[c].transcript) = 1
          BY <3>1 DEF Epoch
        <5>2. mem[c].transcript = TranscriptAt(1) /\ mem[c].tree = TreeAt(1)
          BY <1>2, <1>6, <3>1
        <5>3. 1 \in 1..(Len(log) + 1)
          BY SMTT(30), <1>6
        <5> QED BY <3>1, <5>1, <5>2, <5>3 DEF InHistory
      <4>2. DOMAIN mem[c].proposals = {} /\ c \in DOMAIN mem[c].tree
        BY SMTT(30), <1>2, <2>1, <3>1, FirstTreeType
      <4> QED BY <1>2, <1>9, <3>1, <4>1, <4>2 DEF MemberOK
    <3>3. StagedOK(c)
      BY <1>2, <1>9, <3>1 DEF StagedOK
    <3>4. keystore[c].epoch_keypairs = {<<1, -1 - c>>}
      BY <1>1, <2>1 DEF Init
    <3>5. mem[c].tree[c].leaf = -1 - c
      BY SMTT(30), <1>2, <2>1, <3>1 DEF FirstTree
    <3>6. -1 - c \in EpochKeys(c)
      <4> DEFINE k == <<1, -1 - c>>
      <4>1. k \in keystore[c].epoch_keypairs /\ k[1] = Epoch(c) /\ k[2] = -1 - c
        BY <3>1, <3>4
      <4> HIDE DEF k
      <4> QED BY <4>1 DEF EpochKeys
    <3>7. KeysOK(c)
      BY SMTT(30), <1>2, <1>9, <3>1, <3>4, <3>5, <3>6 DEF KeysOK, StagedAt
    <3>8. UpdatesOK(c)
      BY SMTT(30), <1>1, <3>1 DEF UpdatesOK, JoinedLater, Init
    <3> QED BY <3>2, <3>3, <3>7, <3>8
  <2>2. CASE c \notin InitialMembers
    <3>1. mem[c] = NoGroup /\ ~IsActive(c)
      <4>1. mem[c] = NoGroup
        BY <1>3, <2>2
      <4>2. NoGroup.state = "None"
        BY DEF NoGroup
      <4> QED BY <4>1, <4>2 DEF IsActive
    <3>2. keystore[c].epoch_keypairs = {}
      BY <1>1, <2>2 DEF Init
    <3>3. MemberOK(c)
      BY SMTT(30), <1>9, <3>1 DEF MemberOK, NoGroup
    <3>4. StagedOK(c)
      BY SMTT(30), <1>9, <3>1 DEF StagedOK, NoGroup
    <3>5. KeysOK(c)
      BY SMTT(30), <1>9, <3>1, <3>2 DEF KeysOK, StagedAt, NoGroup
    <3>6. UpdatesOK(c)
      BY <1>1, <3>1 DEF UpdatesOK, Init
    <3> QED BY SMTT(30), <3>3, <3>4, <3>5, <3>6
  <2> QED BY <2>1, <2>2
<1> QED BY <1>4, <1>5, <1>7, <1>8, <1>10 DEF IInv, MembersInv, KeysInv, UpdatesInv

-----------------------------------------------------------------------------
(* The refinement of GroupHistory.                                         *)

\* The members of the epochs.
MembersOf == [i \in 1..(Len(log) + 1) |-> DOMAIN TreeAt(i)]

Views == [c \in Clients |-> mem[c].transcript]

\* A prefix of the history is the transcript of an epoch.
LEMMA HistoryPrefix ==
  ASSUME TypeInv, NEW n \in 1..(Len(log) + 1)
  PROVE  [i \in 1..n |-> TranscriptAt(Len(log) + 1)[i]] = TranscriptAt(n)
<1>1. Len(log) \in Nat
  BY SMTT(30) DEF TypeInv
<1>2. \A i \in 1..n : i \in 1..(Len(log) + 1)
  BY SMTT(30), <1>1
<1> QED BY <1>2 DEF TranscriptAt

\* A step that leaves the log alone leaves the history alone.
LEMMA SameHistory ==
  ASSUME log' = log
  PROVE  TranscriptAt(Len(log) + 1)' = TranscriptAt(Len(log) + 1) /\ MembersOf' = MembersOf
BY DEF TranscriptAt, TreeAt, MembersOf

\* A step that leaves the transcripts and the log alone is invisible.
LEMMA Invisible ==
  ASSUME log' = log, \A c \in Clients : mem'[c].transcript = mem[c].transcript
  PROVE  UNCHANGED History!vars
<1>1. Views' = Views
  BY DEF Views
<1> QED BY <1>1, SameHistory DEF History!vars, MembersOf, Views

\* A step that changes one client's transcript.
LEMMA OneView ==
  ASSUME NEW c \in Clients, NEW t, mem'[c].transcript = t,
         \A d \in Clients \ {c} : mem'[d].transcript = mem[d].transcript
  PROVE  Views' = [Views EXCEPT ![c] = t]
BY DEF Views

\* The first epoch is the first epoch of the history.
LEMMA RefinesInit == Init => History!Init
<1> SUFFICES ASSUME Init PROVE History!Init
  OBVIOUS
<1>1. log = <<>> /\ Len(log) = 0
  BY DEF Init
<1>2. TranscriptAt(Len(log) + 1) = <<0>>
  BY SMTT(30), <1>1 DEF TranscriptAt
<1>3. MembersOf = <<InitialMembers>>
  <2>1. TreeAt(1) = FirstTree
    BY DEF TreeAt
  <2> QED BY SMTT(30), <1>1, <2>1, FirstTreeType DEF MembersOf
<1>4. Views = [c \in Clients |-> IF c \in InitialMembers THEN <<0>> ELSE <<>>]
  <2>1. \A c \in Clients : mem[c] = IF c \in InitialMembers THEN FirstGroup ELSE NoGroup
    BY DEF Init
  <2>2. FirstGroup.transcript = <<0>> /\ NoGroup.transcript = <<>>
    BY DEF FirstGroup, NoGroup
  <2> QED BY <2>1, <2>2 DEF Views
<1> QED BY <1>2, <1>3, <1>4 DEF History!Init, History!FirstCommit, MembersOf, Views

\* Accepting a commit extends the history.
LEMMA RefinesAccept ==
  ASSUME IInv, CountsUp(commits), NEW m \in commits, Accept(m)
  PROVE  History!Next
<1>1. TypeInv /\ log' = Append(log, m) /\ mem' = mem /\ m \in Commit
  BY DEF Accept, IInv, TypeInv
<1>2. PICK n \in Nat : n = Len(log)
  BY SMTT(30), <1>1 DEF TypeInv
<1>3. /\ Len(log') = n + 1 /\ \A i \in 1..n : log'[i] = log[i]
      /\ log'[n + 1] = m
  BY SMTT(30), <1>1, <1>2 DEF TypeInv
<1>4. TranscriptAt(Len(log) + 1)' = Append(TranscriptAt(Len(log) + 1), m.id)
  <2> DEFINE old == [i \in 1..(n + 1) |-> IF i = 1 THEN 0 ELSE log[i - 1].id]
             new == [i \in 1..(n + 2) |-> IF i = 1 THEN 0 ELSE log'[i - 1].id]
  <2>1. old \in Seq(Nat) /\ Len(old) = n + 1 /\ TranscriptAt(Len(log) + 1) = old
    <3>1. TranscriptAt(Len(log) + 1) = old
      BY <1>2 DEF TranscriptAt
    <3>2. n + 1 \in 1..(Len(log) + 1)
      BY SMTT(30), <1>2
    <3> QED BY <1>1, <1>2, <3>1, <3>2, TranscriptFacts
  <2>2. TranscriptAt(Len(log) + 1)' = new
    <3>1. (n + 1) + 1 = n + 2
      BY SMTT(30)
    <3> QED BY <1>3, <3>1 DEF TranscriptAt
  <2>3. DOMAIN new = 1..(n + 2) /\ DOMAIN Append(old, m.id) = 1..(n + 2)
    <3> HIDE DEF old
    <3> QED BY SMTT(30), <2>1
  <2>4. \A i \in 1..(n + 1) : new[i] = old[i]
    <3>1. SUFFICES ASSUME NEW i \in 1..(n + 1) PROVE new[i] = old[i]
      OBVIOUS
    <3>2. i \in 1..(n + 2) /\ (i # 1 => i - 1 \in 1..n)
      BY SMTT(30)
    <3> QED BY <1>3, <3>2
  <2>5. new[n + 2] = m.id
    <3>1. n + 2 \in 1..(n + 2) /\ n + 2 # 1 /\ (n + 2) - 1 = n + 1
      BY SMTT(30)
    <3> QED BY <1>3, <3>1
  <2> HIDE DEF old, new
  <2>6. \A i \in 1..(n + 2) : new[i] = Append(old, m.id)[i]
    BY SMTT(30), <2>1, <2>4, <2>5
  <2>7. new = Append(old, m.id)
    <3>1. new = [i \in 1..(n + 2) |-> new[i]]
      BY <2>3 DEF new
    <3> QED BY SMTT(30), <2>1, <2>3, <2>6, <3>1
  <2> QED BY <2>1, <2>2, <2>7
<1>5. MembersOf' = Append(MembersOf, DOMAIN m.tree)
  <2> DEFINE old == MembersOf
             new == MembersOf'
  <2>1. old = [i \in 1..(n + 1) |-> DOMAIN TreeAt(i)] /\ new = [i \in 1..(n + 2) |-> DOMAIN TreeAt(i)']
    <3>1. (n + 1) + 1 = n + 2
      BY SMTT(30)
    <3> QED BY <1>2, <1>3, <3>1 DEF MembersOf
  <2>2. old \in Seq(SUBSET Clients) /\ Len(old) = n + 1
    <3>1. \A i \in 1..(n + 1) : DOMAIN TreeAt(i) \in SUBSET Clients
      BY SMTT(30), <1>1, <1>2, TranscriptFacts DEF Trees
    <3> HIDE DEF old
    <3> QED BY SMTT(30), <2>1, <3>1
  <2>3. \A i \in 1..(n + 1) : TreeAt(i)' = TreeAt(i)
    <3>1. \A i \in 1..(n + 1) : i # 1 => i - 1 \in 1..n
      BY SMTT(30)
    <3> QED BY <1>3, <3>1 DEF TreeAt
  <2>4. TreeAt(n + 2)' = m.tree
    <3>1. n + 2 # 1 /\ (n + 2) - 1 = n + 1
      BY SMTT(30)
    <3> QED BY <1>3, <3>1 DEF TreeAt
  <2> HIDE DEF old, new
  <2>5. \A i \in 1..(n + 2) : new[i] = Append(old, DOMAIN m.tree)[i]
    <3>1. \A i \in 1..(n + 2) : i \in 1..(n + 1) \/ i = n + 2
      BY SMTT(30)
    <3> QED BY SMTT(30), <2>1, <2>2, <2>3, <2>4, <3>1
  <2>6. DOMAIN Append(old, DOMAIN m.tree) = 1..(n + 2) /\ new = [i \in 1..(n + 2) |-> new[i]]
    BY SMTT(30), <2>1, <2>2
  <2>7. Append(old, DOMAIN m.tree) = [i \in 1..(n + 2) |-> Append(old, DOMAIN m.tree)[i]]
    BY SMTT(30), <2>2, <2>6
  <2>8. new = Append(old, DOMAIN m.tree)
    BY <2>5, <2>6, <2>7
  <2> QED BY <2>8 DEF old, new
<1>6. Views' = Views
  BY <1>1 DEF Views
<1>7. \E k \in 1..MaxCommits : m.id = CommitId(k)
  <2>1. PICK k \in 1..Cardinality(commits) : m.id = CommitId(k)
    BY DEF IInv, IdsInv
  <2>2. Cardinality(commits) \in Nat /\ Cardinality(commits) <= MaxCommits
    BY DEF IInv, IdsInv, CountsUp
  <2> QED BY SMTT(30), <2>1, <2>2, BoundsAssumption
<1>8. DOMAIN m.tree \in SUBSET Clients
  BY <1>1 DEF Commit, Trees
<1>9. History!Extend(m.id, DOMAIN m.tree)
  BY <1>4, <1>5, <1>6 DEF History!Extend, MembersOf, Views
<1> QED BY <1>7, <1>8, <1>9 DEF History!Next

\* Merging the commit of the epoch follows the history by one commit.
LEMMA RefinesMerge ==
  ASSUME IInv, NEW c \in Clients, IsActive(c), NEW s \in Staged, IsNext(c, s), Merge(c, s)
  PROVE  History!Next
<1>1. TypeInv /\ MemberOK(c) /\ mem[c] \in Group
  BY ClientFacts
<1>2. PICK n \in Nat : n = Epoch(c)
  BY SMTT(30), <1>1 DEF Epoch, Group
<1>3. /\ n \in 1..Len(log) /\ s.transcript = Append(mem[c].transcript, log[n].id)
      /\ n \in 1..(Len(log) + 1) /\ n + 1 \in 1..(Len(log) + 1) /\ Len(log) \in Nat
  BY SMTT(30), <1>1, <1>2 DEF IsNext, TypeInv
<1>4. mem[c].transcript = TranscriptAt(n) /\ mem[c].tree = TreeAt(n) /\ c \in DOMAIN TreeAt(n)
  BY <1>1, <1>2 DEF MemberOK, InHistory, IsActive, Epoch
<1>5. s.transcript = TranscriptAt(n + 1) /\ Len(TranscriptAt(n)) = n
  BY SMTT(30), <1>1, <1>3, <1>4, TranscriptFacts
<1>6. Len(TranscriptAt(Len(log) + 1)) = Len(log) + 1
  BY SMTT(30), <1>1, <1>3, TranscriptFacts
<1>7. /\ mem' = [mem EXCEPT ![c] = Merged(mem[c], s)] /\ log' = log
  BY DEF Merge
<1>8. mem'[c].transcript = TranscriptAt(n + 1) /\ \A d \in Clients \ {c} : mem'[d] = mem[d]
  <2>1. mem'[c] = Merged(mem[c], s) /\ \A d \in Clients \ {c} : mem'[d] = mem[d]
    BY <1>1, <1>7 DEF TypeInv
  <2>2. Merged(mem[c], s).transcript = s.transcript
    BY <1>1 DEF Merged, Group
  <2> QED BY <1>5, <2>1, <2>2
<1>9. Views' = [Views EXCEPT ![c] = TranscriptAt(n + 1)]
  BY SMTT(30), <1>8, OneView
<1>10. Views[c] = TranscriptAt(n) /\ Views[c] # <<>> /\ Len(Views[c]) = n
  BY SMTT(30), <1>3, <1>4, <1>5 DEF Views
<1>11. [i \in 1..(n + 1) |-> TranscriptAt(Len(log) + 1)[i]] = TranscriptAt(n + 1)
  BY <1>1, <1>3, HistoryPrefix
<1>12. c \in MembersOf[n] /\ n < Len(log) + 1
  BY SMTT(30), <1>3, <1>4 DEF MembersOf
<1>13. History!Follow(c)
  BY <1>6, <1>7, <1>9, <1>10, <1>11, <1>12, SameHistory
  DEF History!Follow, History!Prefix, MembersOf, Views
<1> QED BY <1>13 DEF History!Next

\* A Welcome lets a client without a group start its view; for any other client
\* nothing of the history changes.
LEMMA RefinesJoin ==
  ASSUME IInv, Joining = "fresh", NEW c \in Clients, NEW j \in 1..Len(log),
         JoinFromWelcome(c, log[j]), AddedOK(c, j)
  PROVE  [History!Next]_(History!vars)
<1>1. TypeInv /\ MemberOK(c) /\ disk = mem /\ log' = log
  BY ClientFacts DEF JoinFromWelcome
<1>2. PICK add \in Added(log[j]) :
        /\ add[1] = c
        /\ IF Joining = "fresh" /\ disk[c].state # "None"
           THEN mem' = mem
           ELSE mem' = [mem EXCEPT ![c] = JoinedGroup(j)]
  BY DEF JoinFromWelcome, JoinedGroup
<1>3. CASE mem[c].state # "None"
  BY <1>1, <1>2, <1>3, Invisible
<1>4. CASE mem[c].state = "None"
  <2>1. PICK n \in Nat : n = j + 1
    BY SMTT(30)
  <2>2. n \in 1..(Len(log) + 1) /\ j \in 1..(Len(log) + 1) /\ j <= Len(log) /\ Len(log) \in Nat
    BY SMTT(30), <1>1, <2>1 DEF TypeInv
  <2>3. c \in DOMAIN TreeAt(n)
    BY <1>2, <2>1 DEF AddedOK
  <2>4. JoinedGroup(j).transcript = TranscriptAt(n)
    <3>1. log[j].context = TranscriptAt(j)
      BY DEF IInv, LogInv
    <3>2. Append(log[j].context, log[j].id) = TranscriptAt(n)
      BY <1>1, <2>1, <2>2, <3>1, TranscriptFacts
    <3>3. NoGroup \in Group
      BY NoGroupType
    <3> QED BY <3>2, <3>3 DEF JoinedGroup, Group
  <2>5. mem'[c].transcript = TranscriptAt(n) /\ \A d \in Clients \ {c} : mem'[d] = mem[d]
    BY <1>1, <1>2, <1>4, <2>4 DEF TypeInv
  <2>6. Views' = [Views EXCEPT ![c] = TranscriptAt(n)]
    BY <2>5, OneView
  <2>7. Views[c] = <<>>
    BY SMTT(30), <1>1, <1>4 DEF Views, MemberOK, NoGroup
  <2>8. Len(TranscriptAt(Len(log) + 1)) = Len(log) + 1
    BY SMTT(30), <1>1, <2>2, TranscriptFacts
  <2>9. [i \in 1..n |-> TranscriptAt(Len(log) + 1)[i]] = TranscriptAt(n) /\ c \in MembersOf[n]
    BY <1>1, <2>2, <2>3, HistoryPrefix DEF MembersOf
  <2>10. History!Join(c, n)
    BY <1>1, <2>6, <2>7, <2>9, SameHistory DEF History!Join, History!Prefix, MembersOf, Views
  <2> QED BY <2>2, <2>8, <2>10 DEF History!Next
<1> QED BY <1>3, <1>4

\* Deleting a group ends a view.
LEMMA RefinesDelete ==
  ASSUME IInv, NEW c \in Clients, Delete(c)
  PROVE  History!Next
<1>1. TypeInv /\ MemberOK(c) /\ log' = log /\ mem' = [mem EXCEPT ![c] = NoGroup]
      /\ mem[c].state = "Inactive"
  BY ClientFacts DEF Delete
<1>2. NoGroup.transcript = <<>>
  BY DEF NoGroup
<1>3. mem'[c].transcript = <<>> /\ \A d \in Clients \ {c} : mem'[d] = mem[d]
  BY <1>1, <1>2 DEF TypeInv
<1>4. Views' = [Views EXCEPT ![c] = <<>>]
  BY <1>3, OneView
<1>5. Views[c] # <<>>
  <2>1. Len(mem[c].transcript) \in 1..(Len(log) + 1)
    BY <1>1 DEF MemberOK, InHistory
  <2> QED BY SMTT(30), <2>1 DEF Views
<1>6. History!Leave(c)
  BY <1>1, <1>4, <1>5, SameHistory DEF History!Leave, MembersOf, Views
<1> QED BY <1>6 DEF History!Next

\* Everything else happens within an epoch.
LEMMA WithinEpoch ==
  ASSUME IInv, NEW c \in Clients,
         \/ \E k \in Kinds : Propose(c, k[1], k[2])
         \/ \E p \in proposals : ReceiveProposal(c, p)
         \/ \E force \in BOOLEAN : CreateCommit(c, force)
         \/ ClearPendingProposals(c)
         \/ ClearPendingCommit(c)
         \/ ProcessCommit(c)
         \/ Load(c)
  PROVE  UNCHANGED History!vars
<1>1. TypeInv /\ mem[c] \in Group /\ disk = mem
  BY ClientFacts
<1>2. log' = log
  BY DEF Propose, ReceiveProposal, CreateCommit, ClearPendingProposals, ClearPendingCommit,
         ProcessCommit, Load
<1>3. \A d \in Clients : mem'[d].transcript = mem[d].transcript
  <2>1. CASE \E k \in Kinds : Propose(c, k[1], k[2])
    <3>1. PICK k \in Kinds : Propose(c, k[1], k[2])
      BY <2>1
    <3> DEFINE id == ProposalId(Cardinality(proposals) + 1)
               p == [id |-> id, type |-> k[1], sender |-> c, subject |-> Subject(k[1], k[2]),
                     target |-> k[2], byRef |-> TRUE, context |-> mem[c].transcript]
               leaf == IF k[1] = "Update" THEN {id} ELSE {}
    <3>2. mem' = [mem EXCEPT ![c].proposals = Append(@, p), ![c].own_leaf_nodes = @ \cup leaf]
      BY <3>1 DEF Propose
    <3> HIDE DEF p, leaf
    <3> QED BY <1>1, <3>2 DEF TypeInv, Group
  <2>2. CASE \E p \in proposals : ReceiveProposal(c, p)
    BY SMTT(30), <1>1, <2>2 DEF ReceiveProposal, TypeInv, Group
  <2>3. CASE \E force \in BOOLEAN : CreateCommit(c, force)
    <3>1. PICK staged : mem' = WritePendingCommit(mem, c, staged)
      BY <2>3 DEF CreateCommit
    <3> QED BY <1>1, <3>1 DEF WritePendingCommit, TypeInv, Group
  <2>4. CASE ClearPendingProposals(c)
    BY <1>1, <2>4 DEF ClearPendingProposals, TypeInv, Group
  <2>5. CASE ClearPendingCommit(c)
    BY <1>1, <2>5 DEF ClearPendingCommit, TypeInv, Group
  <2>6. CASE ProcessCommit(c)
    BY <2>6 DEF ProcessCommit
  <2>7. CASE Load(c)
    BY <1>1, <2>7 DEF Load, TypeInv
  <2> QED BY <2>1, <2>2, <2>3, <2>4, <2>5, <2>6, <2>7
<1> QED BY <1>2, <1>3, Invisible
=============================================================================

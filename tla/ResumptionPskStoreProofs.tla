---------------------- MODULE ResumptionPskStoreProofs ----------------------
(***************************************************************************)
(* Proofs about the rollover list, for every size and any number of        *)
(* epochs.  The inductive invariant says which epoch every slot holds: the *)
(* list is first filled in order; the first round of overwriting starts at *)
(* the second slot and leaves the first one for last; from the second      *)
(* round on the list is a ring that holds the latest epochs.               *)
(***************************************************************************)
EXTENDS ResumptionPskStore, TLAPS

Max == store.max_number_of_secrets
Psks == store.resumption_psk

\* The number of secrets added so far.
Added == epoch - start + 1

Filling ==
  /\ Added <= Max
  /\ Len(Psks) = Added /\ store.cursor = Added
  /\ \A i \in 1..Len(Psks) : Psks[i] = start + i - 1

FirstRound ==
  /\ Max < Added /\ Added < 2 * Max
  /\ Len(Psks) = Max /\ store.cursor = Added - Max
  /\ \A i \in 1..Len(Psks) :
       Psks[i] = IF i = 1 \/ i > store.cursor + 1 THEN start + i - 1
                 ELSE epoch - store.cursor - 1 + i

LaterRounds ==
  /\ 2 * Max <= Added
  /\ Len(Psks) = Max /\ store.cursor \in 0..(Max - 1)
  /\ \A i \in 1..Len(Psks) :
       Psks[i] = IF i <= store.cursor + 1 THEN epoch - store.cursor - 1 + i
                 ELSE epoch - store.cursor - 1 + i - Max

SlotsInv ==
  /\ store = [max_number_of_secrets |-> Max, resumption_psk |-> Psks, cursor |-> store.cursor]
  /\ Max \in {Configured, HardCoded} /\ store.cursor \in Nat
  /\ Psks \in Seq(Nat)
  /\ epoch \in Nat /\ start \in Nat /\ start <= epoch + 1
  /\ Max = 0 => Psks = <<>>
  /\ Max > 0 => Filling \/ FirstRound \/ LaterRounds

\* How the cursor moves once the list is full: it is then at most the size.
LEMMA CursorStep ==
  ASSUME NEW c \in Nat, NEW m \in Nat, m > 0, c <= m
  PROVE  (c + 1) % m = IF c + 1 < m THEN c + 1
                       ELSE IF c + 1 = m THEN 0
                       ELSE IF m = 1 THEN 0 ELSE 1
PROOF
<1>1. CASE c + 1 < m
  BY <1>1
<1>2. CASE c + 1 = m
  BY <1>2
<1>3. CASE c + 1 > m /\ m = 1
  BY <1>3
<1>4. CASE c + 1 > m /\ m > 1
  <2>1. c + 1 = m + 1
    BY <1>4
  <2>2. (m + 1) % m = 1
    BY <1>4
  <2> QED BY <1>4, <2>1, <2>2
<1> QED BY <1>1, <1>2, <1>3, <1>4

\* The same for a cursor that is a position of the list.
LEMMA CursorRolls ==
  ASSUME NEW c \in Nat, NEW m \in Nat, c < m
  PROVE  (c + 1) % m = IF c + 1 < m THEN c + 1 ELSE 0
PROOF
<1>1. m > 0 /\ c <= m /\ (c + 1 < m \/ c + 1 = m)
  OBVIOUS
<1> QED BY <1>1, CursorStep

\* What one addition does to the list while it is being filled ...
LEMMA AddFilling ==
  ASSUME SlotsInv, MergeStagedCommit, Max > 0, Len(Psks) < Max
  PROVE  /\ Max' = Max /\ store'.cursor = store.cursor + 1
         /\ store' = [max_number_of_secrets |-> Max', resumption_psk |-> Psks',
                      cursor |-> store'.cursor]
         /\ Psks' \in Seq(Nat) /\ Len(Psks') = Len(Psks) + 1
         /\ \A i \in 1..Len(Psks') : Psks'[i] = IF i <= Len(Psks) THEN Psks[i] ELSE epoch + 1
PROOF
<1> DEFINE new == [i \in 1..(Len(Psks) + 1) |-> IF i <= Len(Psks) THEN Psks[i] ELSE epoch + 1]
<1>1. store' = [store EXCEPT !.resumption_psk = new, !.cursor = store.cursor + 1]
  BY DEF MergeStagedCommit, Add, Max, Psks
<1>2. Psks \in Seq(Nat) /\ Len(Psks) \in Nat /\ epoch + 1 \in Nat
  BY DEF SlotsInv
<1>3. \A i \in 1..Len(Psks) : Psks[i] \in Nat
  BY <1>2
<1>4. new \in Seq(Nat) /\ Len(new) = Len(Psks) + 1
  BY <1>2, <1>3
<1>5. Max' = Max /\ Psks' = new /\ store'.cursor = store.cursor + 1
  BY <1>1 DEF SlotsInv, Max, Psks
<1>6. store' = [max_number_of_secrets |-> Max', resumption_psk |-> Psks', cursor |-> store'.cursor]
  BY <1>1, <1>5 DEF SlotsInv, Max, Psks
<1> QED BY <1>2, <1>4, <1>5, <1>6

\* ... and once it is full.
LEMMA AddFull ==
  ASSUME SlotsInv, MergeStagedCommit, Max > 0, Len(Psks) = Max, store.cursor <= Max
  PROVE  /\ Max' = Max /\ store'.cursor = (store.cursor + 1) % Max
         /\ store' = [max_number_of_secrets |-> Max', resumption_psk |-> Psks',
                      cursor |-> store'.cursor]
         /\ Psks' \in Seq(Nat) /\ Len(Psks') = Max
         /\ \A i \in 1..Len(Psks') :
              Psks'[i] = IF i = store'.cursor + 1 THEN epoch + 1 ELSE Psks[i]
PROOF
<1> DEFINE c == (store.cursor + 1) % Max
           new == [Psks EXCEPT ![c + 1] = epoch + 1]
<1>0. Max \in Nat /\ store.cursor \in Nat
  BY SizesAssumption DEF SlotsInv
<1>1. store' = [store EXCEPT !.resumption_psk = new, !.cursor = c]
  BY DEF MergeStagedCommit, Add, Max, Psks
<1>2. Psks \in Seq(Nat) /\ epoch + 1 \in Nat
  BY DEF SlotsInv
<1>3. c \in 0..(Max - 1)
  BY <1>0, CursorStep
<1> HIDE DEF c
<1>4. new \in Seq(Nat) /\ Len(new) = Max
  BY <1>0, <1>2, <1>3
<1>5. \A i \in 1..Max : new[i] = IF i = c + 1 THEN epoch + 1 ELSE Psks[i]
  BY <1>0, <1>2, <1>3
<1>6. Max' = Max /\ Psks' = new /\ store'.cursor = c
  BY <1>1 DEF SlotsInv, Max, Psks
<1>7. store' = [max_number_of_secrets |-> Max', resumption_psk |-> Psks', cursor |-> store'.cursor]
  BY <1>1, <1>6 DEF SlotsInv, Max, Psks
<1> HIDE DEF new
<1>8. store'.cursor = (store.cursor + 1) % Max
  BY <1>6 DEF c
<1> QED BY <1>4, <1>5, <1>6, <1>7, <1>8

\* Inductiveness: one step per phase of the list.
LEMMA SlotsStep ==
  ASSUME SlotsInv, MergeStagedCommit
  PROVE  SlotsInv'
PROOF
<1>0. /\ epoch' = epoch + 1 /\ start' = start
      /\ epoch \in Nat /\ start \in Nat /\ start <= epoch + 1
      /\ Max \in Nat /\ store.cursor \in Nat
  BY SizesAssumption DEF SlotsInv, MergeStagedCommit
<1>8. Max \in {Configured, HardCoded} /\ Psks \in Seq(Nat)
  BY DEF SlotsInv
<1>1. epoch' \in Nat /\ start' \in Nat /\ start' <= epoch' + 1 /\ Added' = Added + 1 /\ Added \in Nat
  BY <1>0 DEF Added
<1>2. CASE Max = 0
  <2>1. store' = store
    BY <1>2 DEF MergeStagedCommit, Add, Max
  <2> QED BY <1>0, <1>1, <1>2, <1>8, <2>1 DEF SlotsInv, Max, Psks
<1>3. CASE Max > 0 /\ Filling /\ Added < Max
  <2>1. Len(Psks) < Max
    BY <1>3 DEF Filling
  <2>2. Max' = Max /\ store'.cursor = Added' /\ Len(Psks') = Added' /\ Psks' \in Seq(Nat)
    BY <1>0, <1>1, <1>3, <1>8, <2>1, AddFilling DEF Filling
  <2>3. \A i \in 1..Len(Psks') : Psks'[i] = start' + i - 1
    <3> TAKE i \in 1..Len(Psks')
    <3>1. Psks'[i] = IF i <= Len(Psks) THEN Psks[i] ELSE epoch + 1
      BY <1>3, <2>1, AddFilling
    <3>2. i \in 1..(Added + 1) /\ Len(Psks) = Added
      BY <1>1, <1>3, <2>2 DEF Filling
    <3> QED BY <1>0, <1>1, <1>3, <3>1, <3>2 DEF Filling, Added
  <2>4. Filling'
    BY <1>0, <1>1, <1>3, <2>2, <2>3 DEF Filling
  <2>5. store' = [max_number_of_secrets |-> Max', resumption_psk |-> Psks',
                  cursor |-> store'.cursor]
    BY <1>3, <2>1, AddFilling
  <2> QED BY <1>0, <1>1, <1>3, <1>8, <2>2, <2>4, <2>5 DEF SlotsInv
<1>4. ASSUME Max > 0, Len(Psks) = Max, store.cursor <= Max,
             FirstRound' \/ LaterRounds'
      PROVE  SlotsInv'
  <2>1. /\ Max' = Max /\ store'.cursor = (store.cursor + 1) % Max /\ Psks' \in Seq(Nat)
        /\ store' = [max_number_of_secrets |-> Max', resumption_psk |-> Psks',
                     cursor |-> store'.cursor]
    BY <1>4, AddFull
  <2>2. store'.cursor \in Nat
    BY <1>0, <1>4, <2>1, CursorStep
  <2> QED BY <1>0, <1>1, <1>4, <1>8, <2>1, <2>2 DEF SlotsInv
<1>5. CASE Max > 0 /\ Filling /\ Added = Max
  <2>1. Len(Psks) = Max /\ store.cursor = Max
    BY <1>5 DEF Filling
  <2>2. /\ Max' = Max /\ Len(Psks') = Max /\ store'.cursor = (store.cursor + 1) % Max
        /\ \A i \in 1..Len(Psks') :
             Psks'[i] = IF i = store'.cursor + 1 THEN epoch + 1 ELSE Psks[i]
    BY <1>0, <1>5, <2>1, AddFull
  <2>3. store'.cursor = IF Max = 1 THEN 0 ELSE 1
    BY <1>0, <1>5, <2>1, <2>2, CursorStep
  <2>4. \A i \in 1..Max : Psks[i] = start + i - 1
    BY <1>5, <2>1 DEF Filling
  <2>5. CASE Max = 1
    <3>1. \A i \in 1..Len(Psks') : Psks'[i] = epoch + 1
      BY <2>2, <2>3, <2>5
    <3>2. LaterRounds'
      BY <1>0, <1>1, <1>5, <2>2, <2>3, <2>5, <3>1 DEF LaterRounds
    <3> QED BY <1>4, <1>5, <2>1, <3>2, <1>0
  <2>6. CASE Max > 1
    <3>1. \A i \in 1..Len(Psks') :
            Psks'[i] = IF i = 1 \/ i > store'.cursor + 1 THEN start' + i - 1
                       ELSE epoch' - store'.cursor - 1 + i
      <4> SUFFICES ASSUME NEW i \in 1..Max
                   PROVE  Psks'[i] = IF i = 1 \/ i > 1 + 1 THEN start + i - 1
                                     ELSE (epoch + 1) - 1 - 1 + i
        <5>1. store'.cursor = 1 /\ Len(Psks') = Max /\ start' = start /\ epoch' = epoch + 1
          BY <1>0, <2>2, <2>3, <2>6
        <5> QED BY <5>1
      <4>1. Psks'[i] = IF i = 2 THEN epoch + 1 ELSE Psks[i]
        BY <2>2, <2>3, <2>6
      <4> QED BY <1>0, <2>4, <4>1
    <3>2. Max' < Added' /\ Added' < 2 * Max' /\ Len(Psks') = Max' /\ store'.cursor = Added' - Max'
      BY <1>0, <1>1, <1>5, <2>2, <2>3, <2>6
    <3>3. FirstRound'
      BY <3>1, <3>2 DEF FirstRound
    <3> QED BY <1>4, <1>5, <2>1, <3>3, <1>0
  <2> QED BY <1>0, <1>5, <2>5, <2>6
<1>6. CASE Max > 0 /\ FirstRound
  <2>1. /\ Len(Psks) = Max /\ store.cursor = Added - Max /\ store.cursor < Max /\ store.cursor > 0
        /\ Added < 2 * Max
    BY <1>0, <1>1, <1>6 DEF FirstRound
  <2>2. /\ Max' = Max /\ Len(Psks') = Max /\ store'.cursor = (store.cursor + 1) % Max
        /\ \A i \in 1..Len(Psks') :
             Psks'[i] = IF i = store'.cursor + 1 THEN epoch + 1 ELSE Psks[i]
    BY <1>0, <1>6, <2>1, AddFull
  <2>3. store'.cursor = IF store.cursor + 1 < Max THEN store.cursor + 1 ELSE 0
    BY <1>0, <2>1, <2>2, CursorRolls
  <2>4. \A i \in 1..Max :
          Psks[i] = IF i = 1 \/ i > store.cursor + 1 THEN start + i - 1
                    ELSE epoch - store.cursor - 1 + i
    BY <1>6, <2>1 DEF FirstRound
  <2>5. CASE store.cursor + 1 < Max
    <3>1. \A i \in 1..Len(Psks') :
            Psks'[i] = IF i = 1 \/ i > store'.cursor + 1 THEN start' + i - 1
                       ELSE epoch' - store'.cursor - 1 + i
      <4> SUFFICES ASSUME NEW i \in 1..Max
                   PROVE  Psks'[i] = IF i = 1 \/ i > (store.cursor + 1) + 1 THEN start + i - 1
                                     ELSE (epoch + 1) - (store.cursor + 1) - 1 + i
        BY <1>0, <2>2, <2>3, <2>5
      <4>1. Psks'[i] = IF i = (store.cursor + 1) + 1 THEN epoch + 1 ELSE Psks[i]
        BY <2>2, <2>3, <2>5
      <4>2. Psks[i] = IF i = 1 \/ i > store.cursor + 1 THEN start + i - 1
                      ELSE epoch - store.cursor - 1 + i
        BY <2>4
      <4>3. CASE i = store.cursor + 2
        BY <1>0, <4>1, <4>3
      <4>4. CASE i # store.cursor + 2 /\ (i = 1 \/ i > store.cursor + 1)
        <5>1. i # (store.cursor + 1) + 1 /\ (i = 1 \/ i > (store.cursor + 1) + 1)
          BY <1>0, <4>4
        <5> QED BY <4>1, <4>2, <4>4, <5>1
      <4>5. CASE ~(i = 1 \/ i > store.cursor + 1)
        BY <1>0, <4>1, <4>2, <4>5
      <4> QED BY <4>3, <4>4, <4>5
    <3>2. Max' < Added' /\ Added' < 2 * Max' /\ Len(Psks') = Max' /\ store'.cursor = Added' - Max'
      BY <1>0, <1>1, <1>6, <2>1, <2>2, <2>3, <2>5
    <3>3. FirstRound'
      BY <3>1, <3>2 DEF FirstRound
    <3> QED BY <1>0, <1>4, <1>6, <2>1, <3>3
  <2>6. CASE store.cursor + 1 = Max
    <3>1. \A i \in 1..Len(Psks') :
            Psks'[i] = IF i <= store'.cursor + 1 THEN epoch' - store'.cursor - 1 + i
                       ELSE epoch' - store'.cursor - 1 + i - Max'
      <4>0. store'.cursor = 0
        BY <1>0, <2>3, <2>6
      <4> SUFFICES ASSUME NEW i \in 1..Max
                   PROVE  Psks'[i] = IF i <= 0 + 1 THEN (epoch + 1) - 0 - 1 + i
                                     ELSE (epoch + 1) - 0 - 1 + i - Max
        BY <1>0, <2>2, <4>0
      <4>1. Psks'[i] = IF i = 0 + 1 THEN epoch + 1 ELSE Psks[i]
        BY <2>2, <4>0
      <4>2. Psks[i] = IF i = 1 \/ i > store.cursor + 1 THEN start + i - 1
                      ELSE epoch - store.cursor - 1 + i
        BY <2>4
      <4>3. CASE i = 1
        BY <1>0, <4>1, <4>3
      <4>4. CASE i > 1
        <5>1. i # 0 + 1 /\ i # 1 /\ ~(i > store.cursor + 1) /\ ~(i <= 0 + 1)
          BY <1>0, <2>6, <4>4
        <5>2. Psks'[i] = epoch - store.cursor - 1 + i
          BY <4>1, <4>2, <5>1
        <5>3. epoch - store.cursor - 1 + i = (epoch + 1) - 0 - 1 + i - Max
          <6>1. i \in Int
            BY <1>0
          <6>2. epoch - store.cursor - 1 + i = epoch - (store.cursor + 1) + i
            BY <1>0, <6>1
          <6>3. (epoch + 1) - 0 - 1 + i - Max = epoch - Max + i
            BY <1>0, <6>1
          <6> QED BY <2>6, <6>2, <6>3
        <5> QED BY <5>1, <5>2, <5>3
      <4> QED BY <1>0, <4>3, <4>4
    <3>2. LaterRounds'
      BY <1>0, <1>1, <1>6, <2>1, <2>2, <2>3, <2>6, <3>1 DEF LaterRounds
    <3> QED BY <1>0, <1>4, <1>6, <2>1, <3>2
  <2> QED BY <1>0, <2>1, <2>5, <2>6
<1>7. CASE Max > 0 /\ LaterRounds
  <2>1. Len(Psks) = Max /\ store.cursor < Max /\ store.cursor <= Max /\ 2 * Max <= Added
    BY <1>0, <1>7 DEF LaterRounds
  <2>2. /\ Max' = Max /\ Len(Psks') = Max /\ store'.cursor = (store.cursor + 1) % Max
        /\ \A i \in 1..Len(Psks') :
             Psks'[i] = IF i = store'.cursor + 1 THEN epoch + 1 ELSE Psks[i]
    BY <1>0, <1>7, <2>1, AddFull
  <2>3. store'.cursor = IF store.cursor + 1 < Max THEN store.cursor + 1 ELSE 0
    BY <1>0, <2>1, <2>2, CursorRolls
  <2>4. \A i \in 1..Max :
          Psks[i] = IF i <= store.cursor + 1 THEN epoch - store.cursor - 1 + i
                    ELSE epoch - store.cursor - 1 + i - Max
    BY <1>7, <2>1 DEF LaterRounds
  <2>5. \A i \in 1..Len(Psks') :
          Psks'[i] = IF i <= store'.cursor + 1 THEN epoch' - store'.cursor - 1 + i
                     ELSE epoch' - store'.cursor - 1 + i - Max'
    <3> SUFFICES ASSUME NEW i \in 1..Max
                 PROVE  Psks'[i] = IF i <= store'.cursor + 1 THEN (epoch + 1) - store'.cursor - 1 + i
                                   ELSE (epoch + 1) - store'.cursor - 1 + i - Max
      BY <1>0, <2>2
    <3>1. store'.cursor \in Nat
      BY <1>0, <2>3
    <3>2. Psks'[i] = IF i = store'.cursor + 1 THEN epoch + 1 ELSE Psks[i]
      BY <2>2
    <3>3. Psks[i] = IF i <= store.cursor + 1 THEN epoch - store.cursor - 1 + i
                    ELSE epoch - store.cursor - 1 + i - Max
      BY <2>4
    <3>4. CASE store.cursor + 1 < Max
      <4>1. store'.cursor = store.cursor + 1
        BY <2>3, <3>4
      <4>2. CASE i <= store.cursor + 1
        BY <1>0, <3>2, <3>3, <4>1, <4>2
      <4>3. CASE i = store.cursor + 2
        BY <1>0, <3>2, <4>1, <4>3
      <4>4. CASE i > store.cursor + 2
        <5>1. ~(i <= store.cursor + 1) /\ i # store'.cursor + 1 /\ ~(i <= store'.cursor + 1)
          BY <1>0, <4>1, <4>4
        <5>2. Psks'[i] = epoch - store.cursor - 1 + i - Max
          BY <3>2, <3>3, <5>1
        <5> QED BY <1>0, <4>1, <5>1, <5>2
      <4> QED BY <1>0, <4>2, <4>3, <4>4
    <3>5. CASE store.cursor + 1 = Max
      <4>1. store'.cursor = 0
        BY <1>0, <2>3, <3>5
      <4>2. CASE i = 1
        BY <1>0, <3>2, <4>1, <4>2
      <4>3. CASE i > 1
        BY <1>0, <3>2, <3>3, <3>5, <4>1, <4>3
      <4> QED BY <1>0, <4>2, <4>3
    <3> QED BY <1>0, <2>1, <3>4, <3>5
  <2>6. 2 * Max' <= Added' /\ store'.cursor \in 0..(Max' - 1)
    <3>1. 2 * Max <= Added + 1
      BY <1>0, <1>1, <2>1
    <3>2. store'.cursor \in Nat /\ store'.cursor < Max
      BY <1>0, <1>7, <2>1, <2>3
    <3> QED BY <1>0, <1>1, <2>2, <3>1, <3>2
  <2>7. LaterRounds'
    BY <2>2, <2>5, <2>6 DEF LaterRounds
  <2> QED BY <1>0, <1>4, <1>7, <2>1, <2>7
<1> QED BY <1>0, <1>1, <1>2, <1>3, <1>5, <1>6, <1>7 DEF SlotsInv, Filling

\* A store with its first secret.
LEMMA FirstSecret ==
  ASSUME NEW m \in Nat, NEW e \in Nat, store = Add(New(m), e)
  PROVE  /\ Max = m
         /\ store = [max_number_of_secrets |-> Max, resumption_psk |-> Psks,
                     cursor |-> store.cursor]
         /\ Psks \in Seq(Nat)
         /\ m = 0 => Psks = <<>> /\ store.cursor = 0
         /\ m > 0 => Len(Psks) = 1 /\ Psks[1] = e /\ store.cursor = 1
PROOF
<1>1. CASE m = 0
  BY <1>1 DEF Add, New, Max, Psks
<1>2. CASE m > 0
  <2> DEFINE one == [i \in 1..1 |-> e]
  <2>1. store = [max_number_of_secrets |-> m, resumption_psk |-> one, cursor |-> 1]
    <3>1. New(m).max_number_of_secrets = m /\ New(m).resumption_psk = <<>> /\ New(m).cursor = 0
      BY DEF New
    <3>2. Len(New(m).resumption_psk) = 0
      BY <3>1
    <3>3. store = [New(m) EXCEPT !.resumption_psk = [i \in 1..(0 + 1) |->
                                   IF i <= 0 THEN New(m).resumption_psk[i] ELSE e],
                                 !.cursor = 0 + 1]
      BY <1>2, <3>1, <3>2 DEF Add
    <3>4. [i \in 1..(0 + 1) |-> IF i <= 0 THEN New(m).resumption_psk[i] ELSE e] = one
      OBVIOUS
    <3>5. store = [New(m) EXCEPT !.resumption_psk = one, !.cursor = 1]
      <4>1. 0 + 1 = 1
        OBVIOUS
      <4> HIDE DEF one
      <4> QED BY ONLY <3>3, <3>4, <4>1
    <3> HIDE DEF one
    <3> QED BY <3>5 DEF New
  <2>2. one \in Seq(Nat) /\ Len(one) = 1 /\ one[1] = e
    OBVIOUS
  <2> HIDE DEF one
  <2> QED BY <1>2, <2>1, <2>2 DEF Max, Psks
<1> QED BY <1>1, <1>2

\* Every merged commit keeps the description of the slots, so it holds in all
\* reachable states of the store.
THEOREM SlotsInvariance == PskSpec => []SlotsInv
PROOF
<1>1. PskInit => SlotsInv
  <2> SUFFICES ASSUME PskInit PROVE SlotsInv
    OBVIOUS
  <2>1. CASE Create
    <3>1. store = Add(New(HardCoded), 0) /\ epoch = 0 /\ start = 0
      BY <2>1 DEF Create
    <3>2. /\ Max = HardCoded /\ Psks \in Seq(Nat) /\ Max \in Nat
          /\ store = [max_number_of_secrets |-> Max, resumption_psk |-> Psks,
                      cursor |-> store.cursor]
          /\ Max = 0 => Psks = <<>> /\ store.cursor = 0
          /\ Max > 0 => Len(Psks) = 1 /\ Psks[1] = 0 /\ store.cursor = 1
      BY <3>1, FirstSecret, SizesAssumption
    <3>3. Max > 0 => Filling
      <4>1. Added = 1
        BY <3>1 DEF Added
      <4>2. ASSUME Max > 0, NEW i \in 1..Len(Psks) PROVE i = 1
        <5>1. Len(Psks) = 1
          BY <3>2, <4>2
        <5> QED BY <4>2, <5>1
      <4> QED BY <3>1, <3>2, <4>1, <4>2 DEF Filling
    <3> QED BY <3>1, <3>2, <3>3 DEF SlotsInv
  <2>2. ASSUME NEW e \in 0..MaxPskEpoch, JoinByWelcome(e) PROVE SlotsInv
    <3>1. store = Add(New(Configured), e) /\ epoch = e /\ start = e /\ e \in Nat
      BY <2>2, SizesAssumption DEF JoinByWelcome
    <3>2. /\ Max = Configured /\ Psks \in Seq(Nat) /\ Max \in Nat
          /\ store = [max_number_of_secrets |-> Max, resumption_psk |-> Psks,
                      cursor |-> store.cursor]
          /\ Max = 0 => Psks = <<>> /\ store.cursor = 0
          /\ Max > 0 => Len(Psks) = 1 /\ Psks[1] = e /\ store.cursor = 1
      BY <3>1, FirstSecret, SizesAssumption
    <3>3. Max > 0 => Filling
      <4>1. Added = 1
        BY <3>1 DEF Added
      <4>2. ASSUME Max > 0, NEW i \in 1..Len(Psks) PROVE i = 1
        <5>1. Len(Psks) = 1
          BY <3>2, <4>2
        <5> QED BY <4>2, <5>1
      <4> QED BY <3>1, <3>2, <4>1, <4>2 DEF Filling
    <3> QED BY <3>1, <3>2, <3>3 DEF SlotsInv
  <2>3. ASSUME NEW e \in 0..MaxPskEpoch, JoinByExternalCommit(e) PROVE SlotsInv
    BY <2>3, SizesAssumption DEF JoinByExternalCommit, SlotsInv, New, Max, Psks, Filling, Added
  <2> QED BY <2>1, <2>2, <2>3 DEF PskInit
<1>2. SlotsInv /\ [MergeStagedCommit]_pskVars => SlotsInv'
  <2>1. CASE MergeStagedCommit
    BY <2>1, SlotsStep
  <2>2. ASSUME SlotsInv, UNCHANGED pskVars PROVE SlotsInv'
    BY <2>2 DEF SlotsInv, pskVars, Max, Psks, Added, Filling, FirstRound, LaterRounds
  <2> QED BY <2>1, <2>2
<1> QED BY <1>1, <1>2, PTL DEF PskSpec

\* The list never exceeds its size, whatever the size and however many commits
\* are merged.
THEOREM TypeCorrect == PskSpec => []PskTypeOK
PROOF
<1>1. SlotsInv => PskTypeOK
  <2> SUFFICES ASSUME SlotsInv PROVE PskTypeOK
    OBVIOUS
  <2>1. Max \in Nat
    BY SizesAssumption DEF SlotsInv
  <2>2. Len(Psks) <= Max
    BY <2>1 DEF SlotsInv, Filling, FirstRound, LaterRounds
  <2> QED BY <2>1, <2>2 DEF SlotsInv, PskTypeOK, Max, Psks
<1> QED BY <1>1, SlotsInvariance, PTL

\* The newest secret and those of the max_number_of_secrets - 1 latest epochs
\* can always be looked up in the rollover list of ResumptionPskStore::add.
THEOREM RecentKept == PskSpec => []RecentSecretsAreKept
PROOF
<1>1. SlotsInv => RecentSecretsAreKept
  <2> SUFFICES ASSUME SlotsInv, NEW e \in start..epoch, Max > 0,
                      e = epoch \/ e > epoch - Max + 1
               PROVE  \E i \in 1..Len(Psks) : Psks[i] = e
    BY DEF RecentSecretsAreKept, Holds, Max, Psks
  <2>1. Max \in Nat /\ epoch \in Nat /\ start \in Nat /\ store.cursor \in Nat /\ e \in Int
    BY SizesAssumption DEF SlotsInv
  <2>2. CASE Filling
    <3>1. (e - start + 1) \in 1..Len(Psks) /\ Psks[e - start + 1] = e
      BY <2>1, <2>2 DEF Filling, Added
    <3> QED BY <3>1
  <2>3. CASE FirstRound
    <3>0. /\ store.cursor = epoch - start + 1 - Max /\ store.cursor < Max /\ store.cursor > 0
          /\ Len(Psks) = Max
      BY <2>1, <2>3 DEF FirstRound, Added
    <3>1. CASE e >= start + Max
      <4> DEFINE i == e - epoch + store.cursor + 1
      <4>1. i \in 1..Len(Psks) /\ i # 1 /\ ~(i > store.cursor + 1)
        BY <2>1, <3>0, <3>1
      <4>2. Psks[i] = epoch - store.cursor - 1 + i
        BY <2>3, <4>1 DEF FirstRound
      <4>3. Psks[i] = e
        BY <2>1, <4>2
      <4> QED BY <4>1, <4>3
    <3>2. CASE e < start + Max
      <4> DEFINE i == e - start + 1
      <4>1. i \in 1..Len(Psks) /\ i > store.cursor + 1
        BY <2>1, <3>0, <3>2
      <4>2. Psks[i] = start + i - 1
        BY <2>3, <4>1 DEF FirstRound
      <4>3. Psks[i] = e
        BY <2>1, <4>2
      <4> QED BY <4>1, <4>3
    <3> QED BY <2>1, <3>1, <3>2
  <2>4. CASE LaterRounds
    <3>0. store.cursor < Max /\ Len(Psks) = Max
      BY <2>1, <2>4 DEF LaterRounds
    <3>1. CASE e > epoch - store.cursor - 1
      <4> DEFINE i == e - epoch + store.cursor + 1
      <4>1. i \in 1..Len(Psks) /\ i <= store.cursor + 1
        <5>1. i >= 1 /\ i <= store.cursor + 1 /\ i \in Int
          BY <2>1, <3>1
        <5> HIDE DEF i
        <5> QED BY <2>1, <3>0, <5>1
      <4>2. Psks[i] = epoch - store.cursor - 1 + i
        BY <2>4, <4>1 DEF LaterRounds
      <4>3. Psks[i] = e
        BY <2>1, <4>2
      <4> QED BY <4>1, <4>3
    <3>2. CASE e <= epoch - store.cursor - 1
      <4> DEFINE i == e - epoch + store.cursor + 1 + Max
      <4>1. i \in 1..Len(Psks) /\ ~(i <= store.cursor + 1)
        <5>1. e > epoch - Max + 1
          BY <2>1, <3>2
        <5>2. i > store.cursor + 1 /\ i <= Max /\ i \in Int
          BY <2>1, <3>0, <3>2, <5>1, SMTT(20)
        <5> HIDE DEF i
        <5> QED BY <2>1, <3>0, <5>2
      <4>2. Psks[i] = epoch - store.cursor - 1 + i - Max
        BY <2>4, <4>1 DEF LaterRounds
      <4>3. Psks[i] = e
        BY <2>1, <4>2
      <4> QED BY <4>1, <4>3
    <3> QED BY <2>1, <3>0, <3>1, <3>2
  <2> QED BY <2>2, <2>3, <2>4 DEF SlotsInv
<1> QED BY <1>1, SlotsInvariance, PTL

\* No two slots hold the secret of the same epoch, so ResumptionPskStore::get
\* is unambiguous.
THEOREM OneEach == PskSpec => []OneSecretPerEpoch
PROOF
<1>1. SlotsInv => OneSecretPerEpoch
  <2>1. SUFFICES ASSUME SlotsInv, NEW i \in Int, NEW j \in Int,
                        i \in 1..Len(Psks), j \in 1..Len(Psks), Psks[i] = Psks[j]
                 PROVE  i = j
    BY DEF OneSecretPerEpoch, Psks
  <2> DEFINE m == Max
             c == store.cursor
  <2>2. m \in Nat /\ epoch \in Nat /\ start \in Nat /\ c \in Nat
    BY <2>1, SizesAssumption DEF SlotsInv
  <2>3. CASE m = 0
    BY <2>1, <2>3 DEF SlotsInv
  <2>4. CASE Filling
    <3>1. start + i - 1 = start + j - 1
      BY <2>1, <2>4 DEF Filling
    <3> HIDE DEF m, c
    <3> QED BY <2>2, <3>1
  <2>5. CASE FirstRound
    <3>1. 0 < c /\ c < m /\ epoch = start + c + m - 1
      BY <2>2, <2>5 DEF FirstRound, Added
    <3>2. 1 <= i /\ i <= m /\ 1 <= j /\ j <= m
      BY <2>1, <2>2, <2>5 DEF FirstRound
    <3>3.   (IF i = 1 \/ i > c + 1 THEN start + i - 1 ELSE epoch - c - 1 + i)
          = (IF j = 1 \/ j > c + 1 THEN start + j - 1 ELSE epoch - c - 1 + j)
      BY <2>1, <2>5 DEF FirstRound
    <3> HIDE DEF m, c
    <3> QED BY <2>2, <3>1, <3>2, <3>3
  <2>6. CASE LaterRounds
    <3>1. c < m
      BY <2>2, <2>6 DEF LaterRounds
    <3>2. 1 <= i /\ i <= m /\ 1 <= j /\ j <= m
      BY <2>1, <2>2, <2>6 DEF LaterRounds
    <3>3.   (IF i <= c + 1 THEN epoch - c - 1 + i ELSE epoch - c - 1 + i - m)
          = (IF j <= c + 1 THEN epoch - c - 1 + j ELSE epoch - c - 1 + j - m)
      BY <2>1, <2>6 DEF LaterRounds
    <3> HIDE DEF m, c
    <3> QED BY <2>2, <3>1, <3>2, <3>3
  <2>7. m > 0 \/ m = 0
    BY <2>2
  <2> QED BY <2>1, <2>3, <2>4, <2>5, <2>6, <2>7 DEF SlotsInv
<1> QED BY <1>1, SlotsInvariance, PTL
=============================================================================

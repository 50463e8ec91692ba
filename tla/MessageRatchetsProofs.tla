----------------------- MODULE MessageRatchetsProofs -----------------------
(***************************************************************************)
(* The safety of message protection, for every bound on generations, every *)
(* set of ratchet configurations and any number of failures.               *)
(***************************************************************************)
EXTENDS MessageRatchets, SequenceTheorems, TLAPS

\* encrypt persists its ratchet before it releases a message, so every
\* released generation lies below the persisted one.
SenderInv ==
  /\ encDisk <= enc
  /\ \A i \in 1 .. Len(sent) : sent[i] < encDisk
  /\ \A i, j \in 1 .. Len(sent) : i < j => sent[i] < sent[j]

\* An entry of the window is Taken only if its generation was returned to
\* the application or lost to a storage error.
TakenIsUsed(r) ==
  \A i \in 1 .. Len(r.past_secrets) :
    r.past_secrets[i] = Taken =>
      accepted[r.ratchet_head - i] > 0 \/ r.ratchet_head - i \in lost

\* The window reaches back as far as every configuration asks.
WindowReaches(r) ==
  \A n \in 0 .. r.ratchet_head :
    (\A c \in Configurations : n <= c.out_of_order_tolerance)
      => n <= Len(r.past_secrets)

\* The inductive invariant.
ReceiverInv ==
  /\ WindowIsIndexedByGeneration
  /\ NoGenerationAcceptedTwice
  /\ AcceptedKeysAreGone
  /\ TakenIsUsed(dec) /\ TakenIsUsed(decDisk)
  /\ WindowReaches(dec) /\ WindowReaches(decDisk)

Inv == RatchetTypeOK /\ SenderInv /\ ReceiverInv

-----------------------------------------------------------------------------
\* The smaller of two numbers.
LEMMA MinOfBounds ==
  \A a, b \in Nat : MinOf(a, b) \in Nat /\ MinOf(a, b) <= a /\ MinOf(a, b) <= b
BY DEF MinOf

\* The window q.past_secrets of a ratchet that moved from r beyond g: index i
\* holds the key of the i-th generation below the new head.
IsForwardWindow(q, r, g, k, t) ==
  /\ q.ratchet_head = g + 1
  /\ q.past_secrets \in Seq(Generation \cup {Taken})
  /\ Len(q.past_secrets) = MinOf(1 + k + Len(r.past_secrets), t)
  /\ \A i \in 1 .. Len(q.past_secrets) :
       q.past_secrets[i] = IF i = 1 THEN Taken
                           ELSE IF i - 1 <= k THEN g + 1 - i
                           ELSE r.past_secrets[i - 1 - k]

\* What consume makes of the window when the ratchet moves forward.
LEMMA ConsumeForwardWindow ==
  ASSUME NEW r \in DecryptionRatchet, NEW g \in Generation,
         NEW c \in Configuration, g >= r.ratchet_head,
         NEW k, k = MinOf(g - r.ratchet_head, c.out_of_order_tolerance),
         NEW q, q = ConsumeForward(r, g, c)
  PROVE  IsForwardWindow(q, r, g, k, c.out_of_order_tolerance)
<1> DEFINE t == c.out_of_order_tolerance
           S == Generation \cup {Taken}
           p == r.past_secrets
           m == MinOf(1 + k + Len(p), t)
           entry(i) == IF i = 1 THEN Taken
                       ELSE IF i - 1 <= k THEN g - (i - 1)
                       ELSE p[i - 1 - k]
<1>1. /\ t \in Nat /\ k \in Nat /\ g \in Nat /\ r.ratchet_head \in Nat
      /\ k <= t /\ k <= g - r.ratchet_head /\ g <= MaxGeneration
      /\ p \in Seq(S) /\ Len(p) \in Nat
  BY MaxGenerationAssumption
     DEF Configuration, DecryptionRatchet, Generation, MinOf
<1>2. q.ratchet_head = g + 1 /\ q.past_secrets = [i \in 1 .. m |-> entry(i)]
  BY DEF ConsumeForward, SkippedKept, RatchetForward
<1>3. m \in Nat /\ m <= 1 + k + Len(p)
  <2> HIDE DEF p, t, S
  <2>1. 1 + k + Len(p) \in Nat /\ t \in Nat
    BY <1>1
  <2> QED BY <2>1, MinOfBounds
<1> HIDE DEF m, p, t
<1>4. ASSUME NEW i \in 1 .. m
      PROVE  entry(i) \in S
  <2>0. i \in Int /\ 1 <= i /\ i <= m
    BY <1>3
  <2>1. CASE i = 1
    BY <2>1
  <2>2. CASE i # 1 /\ i - 1 <= k
    <3>1. g - (i - 1) \in Int /\ 0 <= g - (i - 1) /\ g - (i - 1) <= g
      BY <1>1, <2>0, <2>2
    <3>2. g - (i - 1) \in Generation
      BY <1>1, <3>1, MaxGenerationAssumption DEF Generation
    <3> QED BY <2>2, <3>2
  <2>3. CASE i # 1 /\ ~ (i - 1 <= k)
    <3>1. i - 1 - k \in 1 .. Len(p)
      BY <1>1, <1>3, <2>0, <2>3, SMTT(20)
    <3>2. p[i - 1 - k] \in S
      <4> HIDE DEF S
      <4> QED BY <1>1, <3>1, ElementOfSeq
    <3> QED BY <2>3, <3>2
  <2> QED BY <2>1, <2>2, <2>3
<1>5. q.past_secrets \in Seq(S) /\ Len(q.past_secrets) = m
  <2> HIDE DEF S, entry
  <2> QED BY <1>2, <1>3, <1>4
<1>6. \A i \in 1 .. m : q.past_secrets[i] = entry(i)
  BY <1>2
<1>7. \A i \in 1 .. m : g - (i - 1) = g + 1 - i
  BY <1>1, <1>3
<1> QED BY <1>2, <1>5, <1>6, <1>7 DEF m, p, t, IsForwardWindow

\* The ratchet that consume leaves behind when it moves forward.
LEMMA ConsumeForwardRatchet ==
  ASSUME NEW r \in DecryptionRatchet, NEW g \in Generation,
         NEW c \in Configurations, IndexedByGeneration(r),
         g >= r.ratchet_head, g # MaxGeneration,
         NEW q, q = ConsumeForward(r, g, c)
  PROVE  /\ q \in DecryptionRatchet
         /\ IndexedByGeneration(q)
         /\ \A i \in 1 .. Len(q.past_secrets) :
              q.past_secrets[i] = Taken =>
                \/ q.ratchet_head - i = g
                \/ \E j \in 1 .. Len(r.past_secrets) :
                     /\ r.past_secrets[j] = Taken
                     /\ r.ratchet_head - j = q.ratchet_head - i
         /\ ~ Derivable(q, g)
         /\ \A x \in Generation : ~ Derivable(r, x) => ~ Derivable(q, x)
         /\ WindowReaches(r) => WindowReaches(q)
<1> DEFINE t == c.out_of_order_tolerance
           h == r.ratchet_head
           p == r.past_secrets
           k == MinOf(g - h, t)
           w == q.past_secrets
<1>1. c \in Configuration
  BY ConfigurationsAssumption
<1>2. /\ t \in Nat /\ h \in Nat /\ g \in Nat /\ k \in Nat
      /\ g + 1 \in Generation
      /\ Len(p) \in Nat /\ Len(p) <= h
      /\ k = IF g - h < t THEN g - h ELSE t
      /\ g >= h
  BY <1>1, MaxGenerationAssumption
     DEF Configuration, DecryptionRatchet, Generation, MinOf, IndexedByGeneration
<1>3. /\ q.ratchet_head = g + 1
      /\ w \in Seq(Generation \cup {Taken})
      /\ Len(w) = MinOf(1 + k + Len(p), t)
      /\ \A i \in 1 .. Len(w) :
           w[i] = IF i = 1 THEN Taken
                  ELSE IF i - 1 <= k THEN g + 1 - i
                  ELSE p[i - 1 - k]
  <2>1. IsForwardWindow(q, r, g, k, t)
    BY <1>1, ConsumeForwardWindow
  <2> QED BY <2>1 DEF IsForwardWindow
<1>4. \A i \in 1 .. Len(p) : p[i] \in {Taken, h - i}
  BY DEF IndexedByGeneration
<1>5. q \in DecryptionRatchet
  BY <1>2, <1>3 DEF ConsumeForward, RatchetForward, DecryptionRatchet
<1>6. Len(w) = IF 1 + k + Len(p) < t THEN 1 + k + Len(p) ELSE t
  BY <1>3 DEF MinOf
<1> HIDE DEF t, h, p, k, w
<1>15. \A i \in 1 .. Len(w) :
         w[i] = IF i = 1 THEN Taken
                ELSE IF i - 1 <= k THEN g + 1 - i
                ELSE p[i - 1 - k]
  BY <1>3
<1>16. q.ratchet_head = g + 1
  BY <1>3
<1>7. \A i \in 1 .. Len(w) :
        i > 1 /\ ~ (i - 1 <= k) =>
          k = g - h /\ i - 1 - k \in 1 .. Len(p) /\ h - (i - 1 - k) = g + 1 - i
  BY <1>2, <1>6
<1>8. \A i \in 1 .. Len(w) : w[i] \in {Taken, g + 1 - i}
  <2> SUFFICES ASSUME NEW i \in 1 .. Len(w)
               PROVE  w[i] \in {Taken, g + 1 - i}
    OBVIOUS
  <2>1. CASE i = 1 \/ i - 1 <= k
    BY <1>15, <2>1
  <2>2. CASE i > 1 /\ ~ (i - 1 <= k)
    <3>1. w[i] = p[i - 1 - k]
      BY <1>15, <2>2
    <3>2. i - 1 - k \in 1 .. Len(p) /\ h - (i - 1 - k) = g + 1 - i
      BY <1>7, <2>2
    <3>3. p[i - 1 - k] \in {Taken, h - (i - 1 - k)}
      BY <1>4, <3>2
    <3> QED BY <3>1, <3>2, <3>3
  <2>3. i \in Int /\ i >= 1
    BY <1>2, <1>6
  <2> QED BY <2>1, <2>2, <2>3
<1>9. Len(w) <= g + 1 /\ Len(w) \in Nat
  BY <1>2, <1>6
<1>10. IndexedByGeneration(q)
  <2>1. /\ Len(w) <= q.ratchet_head
        /\ \A i \in 1 .. Len(w) : w[i] \in {Taken, q.ratchet_head - i}
    BY <1>2, <1>8, <1>9, <1>16
  <2> QED BY <2>1 DEF IndexedByGeneration, w
<1>11. ASSUME NEW i \in 1 .. Len(w), w[i] = Taken
       PROVE  \/ g + 1 - i = g
              \/ \E j \in 1 .. Len(p) : p[j] = Taken /\ h - j = g + 1 - i
  <2>1. CASE i = 1
    BY <1>2, <2>1
  <2>2. CASE i > 1 /\ i - 1 <= k
    <3>1. w[i] = g + 1 - i /\ g + 1 - i >= 0
      BY <1>2, <1>9, <1>15, <2>2
    <3> QED BY <1>2, <1>9, <1>11, <3>1 DEF Taken
  <2>3. CASE i > 1 /\ ~ (i - 1 <= k)
    <3>1. w[i] = p[i - 1 - k]
      BY <1>15, <2>3
    <3> QED BY <1>7, <1>11, <2>3, <3>1
  <2> QED BY <1>9, <2>1, <2>2, <2>3
<1>12. ~ Derivable(q, g)
  <2>1. ~ (g >= g + 1)
    BY <1>2
  <2>2. \A i \in 1 .. Len(w) : w[i] # g
    <3>1. \A i \in 1 .. Len(w) : i = 1 \/ g + 1 - i < g
      BY <1>2, <1>9
    <3>2. g # Taken
      BY <1>2 DEF Taken
    <3>3. \A i \in 1 .. Len(w) : i = 1 => w[i] = Taken
      BY <1>15
    <3> QED BY <1>2, <1>8, <1>9, <3>1, <3>2, <3>3
  <2> QED BY <1>16, <2>1, <2>2 DEF Derivable, w
<1>13. ASSUME NEW x \in Generation, ~ Derivable(r, x)
       PROVE  ~ Derivable(q, x)
  <2>1. x < h /\ x \in Nat
    BY <1>2, <1>13, MaxGenerationAssumption DEF Derivable, Generation, h
  <2>2. \A i \in 1 .. Len(p) : p[i] # x
    BY <1>13 DEF Derivable, p
  <2>3. ~ (x >= g + 1)
    BY <1>2, <2>1
  <2>4. ASSUME NEW i \in 1 .. Len(w), w[i] = x
        PROVE  FALSE
    <3>1. x # Taken
      BY <2>1 DEF Taken
    <3>2. CASE i = 1
      BY <1>15, <2>4, <3>1, <3>2
    <3>3. CASE i > 1 /\ i - 1 <= k
      <4>1. w[i] = g + 1 - i /\ g + 1 - i >= h
        BY <1>2, <1>9, <1>15, <3>3
      <4> QED BY <2>1, <2>4, <1>2, <4>1
    <3>4. CASE i > 1 /\ ~ (i - 1 <= k)
      <4>1. w[i] = p[i - 1 - k]
        BY <1>15, <3>4
      <4> QED BY <1>7, <2>2, <2>4, <3>4, <4>1
    <3> QED BY <1>9, <3>2, <3>3, <3>4
  <2> QED BY <1>16, <2>3, <2>4 DEF Derivable, w
<1>14. ASSUME WindowReaches(r)
       PROVE  WindowReaches(q)
  <2> SUFFICES ASSUME NEW n \in 0 .. (g + 1),
                      \A d \in Configurations : n <= d.out_of_order_tolerance
               PROVE  n <= Len(w)
    BY <1>16 DEF WindowReaches, w
  <2>1. n <= t
    BY DEF t
  <2>2. \A m \in 0 .. h : m <= n => m <= Len(p)
    <3> SUFFICES ASSUME NEW m \in 0 .. h, m <= n
                 PROVE  m <= Len(p)
      OBVIOUS
    <3>1. ASSUME NEW d \in Configurations
          PROVE  m <= d.out_of_order_tolerance
      <4>1. n <= d.out_of_order_tolerance /\ d.out_of_order_tolerance \in Nat
        BY ConfigurationsAssumption, MaxGenerationAssumption
           DEF Configuration, Generation
      <4> QED BY <1>2, <4>1
    <3> QED BY <1>14, <3>1 DEF WindowReaches, h, p
  <2>3. CASE n <= h
    BY <1>2, <1>6, <2>1, <2>2, <2>3
  <2>4. CASE n > h
    BY <1>2, <1>6, <2>1, <2>2, <2>4
  <2> QED BY <1>2, <2>3, <2>4
<1>17. \A i \in 1 .. Len(q.past_secrets) :
         q.past_secrets[i] = Taken =>
           \/ q.ratchet_head - i = g
           \/ \E j \in 1 .. Len(r.past_secrets) :
                /\ r.past_secrets[j] = Taken
                /\ r.ratchet_head - j = q.ratchet_head - i
  BY <1>2, <1>9, <1>11, <1>16, SMTT(20) DEF w, p, h
<1> QED BY <1>5, <1>10, <1>12, <1>13, <1>14, <1>17

\* The ratchet that consume leaves behind when it takes a past secret.
LEMMA ConsumePastRatchet ==
  ASSUME NEW r \in DecryptionRatchet, NEW g \in Generation,
         IndexedByGeneration(r), g < r.ratchet_head,
         r.ratchet_head - g <= Len(r.past_secrets),
         NEW q, q = ConsumePast(r, g)
  PROVE  /\ q \in DecryptionRatchet
         /\ IndexedByGeneration(q)
         /\ \A i \in 1 .. Len(q.past_secrets) :
              q.past_secrets[i] = Taken =>
                \/ q.ratchet_head - i = g
                \/ \E j \in 1 .. Len(r.past_secrets) :
                     /\ r.past_secrets[j] = Taken
                     /\ r.ratchet_head - j = q.ratchet_head - i
         /\ ~ Derivable(q, g)
         /\ \A x \in Generation : ~ Derivable(r, x) => ~ Derivable(q, x)
         /\ WindowReaches(r) => WindowReaches(q)
<1> DEFINE h == r.ratchet_head
           p == r.past_secrets
           w == q.past_secrets
           n == h - g
<1>1. /\ h \in Nat /\ g \in Nat /\ g < h
      /\ p \in Seq(Generation \cup {Taken})
      /\ Len(p) \in Nat
  BY MaxGenerationAssumption DEF DecryptionRatchet, Generation
<1>2. n \in 1 .. Len(p)
  BY <1>1
<1>3. q.ratchet_head = h /\ w = [p EXCEPT ![n] = Taken]
  BY DEF ConsumePast, PastSecretIndex, DecryptionRatchet
<1>4. /\ q \in DecryptionRatchet /\ w \in Seq(Generation \cup {Taken})
      /\ Len(w) = Len(p)
  <2> HIDE DEF n
  <2>1. w \in Seq(Generation \cup {Taken}) /\ Len(w) = Len(p)
    BY <1>1, <1>2, <1>3, ExceptSeq
  <2> QED BY <2>1 DEF ConsumePast, DecryptionRatchet
<1>5. \A i \in 1 .. Len(p) : w[i] = IF i = n THEN Taken ELSE p[i]
  <2> HIDE DEF n, w, p
  <2> QED BY <1>1, <1>2, <1>3
<1>6. Len(p) <= h /\ \A i \in 1 .. Len(p) : p[i] \in {Taken, h - i}
  BY DEF IndexedByGeneration
<1> HIDE DEF h, p, w, n
<1>7. \A i \in 1 .. Len(w) : w[i] \in {Taken, h - i}
  BY <1>4, <1>5, <1>6
<1>8. IndexedByGeneration(q)
  <2>1. Len(w) <= q.ratchet_head
        /\ \A i \in 1 .. Len(w) : w[i] \in {Taken, q.ratchet_head - i}
    BY <1>1, <1>3, <1>4, <1>6, <1>7
  <2> QED BY <2>1 DEF IndexedByGeneration, w
<1>9. \A i \in 1 .. Len(w) :
        w[i] = Taken => h - i = g \/ p[i] = Taken
  BY <1>1, <1>2, <1>4, <1>5 DEF n
<1>10. ~ Derivable(q, g)
  <2>1. g # Taken
    BY <1>1 DEF Taken
  <2>2. \A i \in 1 .. Len(w) : w[i] # g
    BY <1>1, <1>2, <1>4, <1>5, <1>6, <2>1 DEF n
  <2> QED BY <1>1, <1>3, <2>2 DEF Derivable, w
<1>11. ASSUME NEW x \in Generation, ~ Derivable(r, x)
       PROVE  ~ Derivable(q, x)
  <2>1. x < h /\ x \in Nat /\ x # Taken
    BY <1>1, <1>11, MaxGenerationAssumption DEF Derivable, Generation, h, Taken
  <2>2. \A i \in 1 .. Len(p) : p[i] # x
    BY <1>11 DEF Derivable, p
  <2>3. \A i \in 1 .. Len(w) : w[i] # x
    BY <1>4, <1>5, <2>1, <2>2
  <2> QED BY <1>1, <1>3, <2>1, <2>3 DEF Derivable, w
<1>12. WindowReaches(r) => WindowReaches(q)
  BY <1>3, <1>4 DEF WindowReaches, h, w, p
<1>13. \A i \in 1 .. Len(q.past_secrets) :
         q.past_secrets[i] = Taken =>
           \/ q.ratchet_head - i = g
           \/ \E j \in 1 .. Len(r.past_secrets) :
                /\ r.past_secrets[j] = Taken
                /\ r.ratchet_head - j = q.ratchet_head - i
  BY <1>1, <1>3, <1>4, <1>9 DEF h, w, p
<1> QED BY <1>4, <1>8, <1>10, <1>11, <1>12, <1>13

\* peek succeeds only for a generation whose key the ratchet still holds.
LEMMA PeekOk ==
  ASSUME NEW r \in DecryptionRatchet, NEW g \in Generation,
         NEW c \in Configuration, IndexedByGeneration(r),
         PeekResult(r, g, c) = "Ok"
  PROVE  /\ Derivable(r, g)
         /\ g >= r.ratchet_head => g # MaxGeneration
         /\ g < r.ratchet_head =>
              /\ r.ratchet_head - g <= Len(r.past_secrets)
              /\ r.past_secrets[r.ratchet_head - g] = g
<1>1. /\ r.ratchet_head \in Nat /\ g \in Nat /\ Len(r.past_secrets) \in Nat
      /\ r.past_secrets \in Seq(Generation \cup {Taken})
  BY MaxGenerationAssumption DEF DecryptionRatchet, Generation
<1>2. CASE g >= r.ratchet_head
  <2>1. g # MaxGeneration
    BY <1>2 DEF PeekResult
  <2> QED BY <1>1, <1>2, <2>1 DEF Derivable
<1>3. CASE g < r.ratchet_head
  <2> DEFINE i == r.ratchet_head - g
  <2>1. ~ (g >= r.ratchet_head) /\ i \in Nat /\ i >= 1
    BY <1>1, <1>3
  <2>2. i <= Len(r.past_secrets)
    BY <1>1, <2>1 DEF PeekResult, PastSecretIndex
  <2>3. r.past_secrets[i] # Taken
    BY <1>1, <2>1, <2>2 DEF PeekResult, PastSecretIndex
  <2>4. r.past_secrets[i] \in {Taken, r.ratchet_head - i}
    BY <1>1, <2>1, <2>2 DEF IndexedByGeneration
  <2>5. r.past_secrets[i] = g
    BY <1>1, <2>3, <2>4
  <2> QED BY <1>1, <2>1, <2>2, <2>5 DEF Derivable
<1> QED BY <1>1, <1>2, <1>3

\* The two cases of consume together.
LEMMA ConsumeRatchet ==
  ASSUME NEW r \in DecryptionRatchet, NEW g \in Generation,
         NEW c \in Configurations, IndexedByGeneration(r),
         PeekResult(r, g, c) = "Ok",
         NEW q, q = Consume(r, g, c)
  PROVE  /\ q \in DecryptionRatchet
         /\ IndexedByGeneration(q)
         /\ \A i \in 1 .. Len(q.past_secrets) :
              q.past_secrets[i] = Taken =>
                \/ q.ratchet_head - i = g
                \/ \E j \in 1 .. Len(r.past_secrets) :
                     /\ r.past_secrets[j] = Taken
                     /\ r.ratchet_head - j = q.ratchet_head - i
         /\ ~ Derivable(q, g)
         /\ \A x \in Generation : ~ Derivable(r, x) => ~ Derivable(q, x)
         /\ WindowReaches(r) => WindowReaches(q)
<1>1. c \in Configuration
  BY ConfigurationsAssumption
<1>2. CASE g >= r.ratchet_head
  <2>1. q = ConsumeForward(r, g, c) /\ g # MaxGeneration
    BY <1>1, <1>2, PeekOk DEF Consume
  <2> QED BY <1>2, <2>1, ConsumeForwardRatchet
<1>3. CASE ~ (g >= r.ratchet_head)
  <2>1. g < r.ratchet_head
    BY <1>3, MaxGenerationAssumption DEF DecryptionRatchet, Generation
  <2>2. q = ConsumePast(r, g) /\ r.ratchet_head - g <= Len(r.past_secrets)
    BY <1>1, <1>3, <2>1, PeekOk DEF Consume
  <2> QED BY <2>1, <2>2, ConsumePastRatchet
<1> QED BY <1>2, <1>3

\* What ReceiverInv says of one ratchet: the one in memory or the one in
\* storage.
RatchetInv(r) ==
  /\ r \in DecryptionRatchet
  /\ IndexedByGeneration(r)
  /\ \A g \in Generation : accepted[g] > 0 => ~ Derivable(r, g)
  /\ TakenIsUsed(r)
  /\ WindowReaches(r)

\* ReceiverInv, regrouped by ratchet.
LEMMA ReceiverInvByRatchet ==
  ASSUME RatchetTypeOK
  PROVE  ReceiverInv <=>
           RatchetInv(dec) /\ RatchetInv(decDisk) /\ NoGenerationAcceptedTwice
BY DEF RatchetTypeOK, ReceiverInv, RatchetInv, WindowIsIndexedByGeneration,
       AcceptedKeysAreGone

\* A ratchet after consume satisfies its part of the invariant once the
\* generation is recorded as accepted or as lost.
LEMMA ConsumedRatchetInv ==
  ASSUME RatchetTypeOK, RatchetInv(dec), NEW g \in Generation, Decryptable(g),
         NEW q, q = Consume(dec, g, cfg),
         RatchetTypeOK', dec' = q,
         \/ accepted' = [accepted EXCEPT ![g] = @ + 1] /\ lost' = lost
         \/ accepted' = accepted /\ lost' = lost \cup {g}
  PROVE  RatchetInv(dec)'
<1>1. /\ dec \in DecryptionRatchet /\ cfg \in Configurations
      /\ IndexedByGeneration(dec) /\ PeekResult(dec, g, cfg) = "Ok"
      /\ accepted \in [Generation -> Nat] /\ accepted' \in [Generation -> Nat]
  BY DEF RatchetTypeOK, RatchetInv, Decryptable
<1>2. /\ q \in DecryptionRatchet
      /\ IndexedByGeneration(q)
      /\ \A i \in 1 .. Len(q.past_secrets) :
           q.past_secrets[i] = Taken =>
             \/ q.ratchet_head - i = g
             \/ \E j \in 1 .. Len(dec.past_secrets) :
                  /\ dec.past_secrets[j] = Taken
                  /\ dec.ratchet_head - j = q.ratchet_head - i
      /\ ~ Derivable(q, g)
      /\ \A x \in Generation : ~ Derivable(dec, x) => ~ Derivable(q, x)
      /\ WindowReaches(q)
  BY <1>1, ConsumeRatchet DEF RatchetInv
<1>3. \A x \in Generation : accepted'[x] > 0 => x = g \/ accepted[x] > 0
  BY <1>1
<1>4. \A x \in Generation : accepted'[x] > 0 => ~ Derivable(q, x)
  BY <1>2, <1>3 DEF RatchetInv
<1>5. /\ \A x \in Generation : accepted[x] > 0 => accepted'[x] > 0
      /\ lost \subseteq lost'
      /\ accepted'[g] > 0 \/ g \in lost'
  BY <1>1
<1>6. ASSUME NEW i \in 1 .. Len(q.past_secrets), q.past_secrets[i] = Taken
      PROVE  accepted'[q.ratchet_head - i] > 0 \/ q.ratchet_head - i \in lost'
  <2>1. CASE q.ratchet_head - i = g
    BY <1>5, <2>1
  <2>2. CASE \E j \in 1 .. Len(dec.past_secrets) :
               /\ dec.past_secrets[j] = Taken
               /\ dec.ratchet_head - j = q.ratchet_head - i
    <3>1. PICK j \in 1 .. Len(dec.past_secrets) :
                 /\ dec.past_secrets[j] = Taken
                 /\ dec.ratchet_head - j = q.ratchet_head - i
      BY <2>2
    <3>2. accepted[dec.ratchet_head - j] > 0 \/ dec.ratchet_head - j \in lost
      BY <3>1 DEF RatchetInv, TakenIsUsed
    <3>3. dec.ratchet_head - j \in Generation
      <4>1. /\ dec.ratchet_head \in 0 .. MaxGeneration
            /\ Len(dec.past_secrets) \in Nat
            /\ Len(dec.past_secrets) <= dec.ratchet_head
        BY <1>1 DEF IndexedByGeneration, DecryptionRatchet, Generation
      <4> QED BY <4>1, MaxGenerationAssumption DEF Generation
    <3> QED BY <1>5, <3>1, <3>2, <3>3
  <2> QED BY <1>2, <1>6, <2>1, <2>2
<1>7. TakenIsUsed(dec)'
  BY <1>6 DEF TakenIsUsed
<1>8. IndexedByGeneration(dec)' /\ WindowReaches(dec)' /\ dec' \in DecryptionRatchet
  BY <1>2 DEF IndexedByGeneration, WindowReaches
<1>9. \A x \in Generation : (accepted[x] > 0 => ~ Derivable(dec, x))'
  BY <1>4 DEF Derivable
<1> QED BY <1>7, <1>8, <1>9 DEF RatchetInv

-----------------------------------------------------------------------------
\* Inv holds initially.
LEMMA InitInv == RatchetInit => Inv
<1> SUFFICES ASSUME RatchetInit PROVE Inv
  OBVIOUS
<1>1. NewDecryptionRatchet \in DecryptionRatchet
  BY MaxGenerationAssumption
     DEF NewDecryptionRatchet, DecryptionRatchet, Generation, InitialRatchetSecret
<1>2. RatchetTypeOK
  BY <1>1, MaxGenerationAssumption, ConfigurationsAssumption
     DEF RatchetInit, RatchetTypeOK, Generation, InitialRatchetSecret
<1>3. SenderInv
  BY DEF RatchetInit, SenderInv, InitialRatchetSecret
<1>4. RatchetInv(dec) /\ RatchetInv(decDisk)
  <2>1. RatchetInv(NewDecryptionRatchet)
    BY <1>1 DEF RatchetInit, RatchetInv, IndexedByGeneration, TakenIsUsed, WindowReaches,
                NewDecryptionRatchet, InitialRatchetSecret
  <2> QED BY <2>1 DEF RatchetInit
<1>5. NoGenerationAcceptedTwice
  BY DEF RatchetInit, NoGenerationAcceptedTwice
<1> QED BY <1>2, <1>3, <1>4, <1>5, ReceiverInvByRatchet DEF Inv

\* Every step keeps the types.
LEMMA TypeStep == RatchetTypeOK /\ ReceiverInv /\ [RatchetNext]_ratchetVars => RatchetTypeOK'
<1> SUFFICES ASSUME RatchetTypeOK, ReceiverInv, [RatchetNext]_ratchetVars PROVE RatchetTypeOK'
  OBVIOUS
<1>1. ASSUME CanRatchetForward(enc) PROVE RatchetForward(enc) \in Generation
  BY <1>1, MaxGenerationAssumption
     DEF RatchetTypeOK, CanRatchetForward, RatchetForward, Generation
<1>2. ASSUME failures < MaxFailures PROVE failures + 1 \in 0 .. MaxFailures
  BY <1>2, ConfigurationsAssumption DEF RatchetTypeOK
<1>3. ASSUME NEW g \in Generation, Decryptable(g)
      PROVE  Consume(dec, g, cfg) \in DecryptionRatchet
  BY <1>3, ConsumeRatchet
     DEF RatchetTypeOK, ReceiverInv, WindowIsIndexedByGeneration, Decryptable
<1>4. CASE Encrypt
  <2>1. sent' \in Seq(Generation)
    BY <1>4 DEF Encrypt, RatchetTypeOK
  <2> QED BY <1>1, <1>4, <2>1 DEF Encrypt, RatchetTypeOK, receiverVars
<1>5. CASE EncryptStorageError
  BY <1>1, <1>2, <1>5 DEF EncryptStorageError, Fail, RatchetTypeOK, receiverVars
<1>6. CASE SenderRestart
  BY <1>2, <1>6 DEF SenderRestart, Fail, RatchetTypeOK, receiverVars
<1>7. ASSUME NEW g \in Generation, ProcessMessage(g) PROVE RatchetTypeOK'
  BY <1>3, <1>7 DEF ProcessMessage, RatchetTypeOK, senderVars
<1>8. ASSUME NEW g \in Generation, ProcessInvalid(g) PROVE RatchetTypeOK'
  BY <1>8 DEF ProcessInvalid, RatchetTypeOK, ratchetVars
<1>9. ASSUME NEW g \in Generation, ProcessStorageError(g) PROVE RatchetTypeOK'
  BY <1>2, <1>3, <1>9 DEF ProcessStorageError, Fail, RatchetTypeOK, senderVars
<1>10. CASE ReceiverRestart
  BY <1>2, <1>10 DEF ReceiverRestart, Fail, RatchetTypeOK, senderVars
<1>11. ASSUME NEW c \in Configurations, SetRatchetConfiguration(c) PROVE RatchetTypeOK'
  BY <1>11 DEF SetRatchetConfiguration, RatchetTypeOK, senderVars
<1>12. CASE UNCHANGED ratchetVars
  BY <1>12 DEF RatchetTypeOK, ratchetVars
<1> QED BY <1>4, <1>5, <1>6, <1>7, <1>8, <1>9, <1>10, <1>11, <1>12 DEF RatchetNext

\* Every step keeps what is known of the sender.
LEMMA SenderStep == RatchetTypeOK /\ SenderInv /\ [RatchetNext]_ratchetVars => SenderInv'
<1> SUFFICES ASSUME RatchetTypeOK, SenderInv, [RatchetNext]_ratchetVars PROVE SenderInv'
  OBVIOUS
<1>1. /\ enc \in Nat /\ encDisk \in Nat /\ Len(sent) \in Nat
      /\ sent \in Seq(Generation)
      /\ \A i \in 1 .. Len(sent) : sent[i] \in Nat
  BY MaxGenerationAssumption DEF RatchetTypeOK, Generation
<1>2. CASE Encrypt
  <2> DEFINE n == Len(sent)
  <2>1. /\ Len(sent') = n + 1
        /\ \A i \in 1 .. n : sent'[i] = sent[i]
        /\ sent'[n + 1] = enc
    <3>1. enc \in Generation /\ sent' = Append(sent, enc)
      BY <1>2 DEF Encrypt, RatchetTypeOK
    <3> QED BY <1>1, <3>1
  <2>2. encDisk' = enc + 1 /\ enc' = enc + 1
    BY <1>2 DEF Encrypt, RatchetForward
  <2>3. \A i \in 1 .. n : sent[i] < enc
    BY <1>1 DEF SenderInv
  <2>4. \A i \in 1 .. n + 1 : sent'[i] < encDisk'
    BY <1>1, <2>1, <2>2, <2>3
  <2>5. ASSUME NEW i \in 1 .. n + 1, NEW j \in 1 .. n + 1, i < j
        PROVE  sent'[i] < sent'[j]
    <3>1. i \in 1 .. n /\ sent'[i] = sent[i]
      BY <1>1, <2>1, <2>5
    <3>2. CASE j = n + 1
      BY <2>1, <2>3, <3>1, <3>2
    <3>3. CASE j # n + 1
      <4>1. j \in 1 .. n /\ sent'[j] = sent[j]
        BY <1>1, <2>1, <3>3
      <4> QED BY <2>5, <3>1, <4>1 DEF SenderInv
    <3> QED BY <3>2, <3>3
  <2> QED BY <1>1, <2>1, <2>2, <2>4, <2>5 DEF SenderInv
<1>3. CASE EncryptStorageError
  <2>1. /\ sent' = sent /\ enc' = enc + 1
        /\ encDisk' = encDisk \/ encDisk' = enc + 1
    BY <1>3 DEF EncryptStorageError, RatchetForward
  <2> QED BY <1>1, <2>1 DEF SenderInv
<1>4. CASE SenderRestart
  BY <1>1, <1>4 DEF SenderRestart, SenderInv
<1>5. CASE UNCHANGED senderVars
  BY <1>5 DEF senderVars, SenderInv
<1>6. [RatchetNext]_ratchetVars => Encrypt \/ EncryptStorageError \/ SenderRestart
                      \/ UNCHANGED senderVars
  BY DEF RatchetNext, ProcessMessage, ProcessInvalid, ProcessStorageError,
         ReceiverRestart, SetRatchetConfiguration, ratchetVars, senderVars
<1> QED BY <1>2, <1>3, <1>4, <1>5, <1>6

\* Every step keeps what is known of the receiver.
LEMMA ReceiverStep ==
  RatchetTypeOK /\ ReceiverInv /\ RatchetTypeOK' /\ [RatchetNext]_ratchetVars => ReceiverInv'
<1> SUFFICES ASSUME RatchetTypeOK, ReceiverInv, RatchetTypeOK', [RatchetNext]_ratchetVars PROVE ReceiverInv'
  OBVIOUS
<1>1. RatchetInv(dec) /\ RatchetInv(decDisk) /\ NoGenerationAcceptedTwice
  BY ReceiverInvByRatchet
<1>2. SUFFICES RatchetInv(dec)' /\ RatchetInv(decDisk)' /\ NoGenerationAcceptedTwice'
  <2>1. RatchetTypeOK' => (ReceiverInv' <=> RatchetInv(dec)' /\ RatchetInv(decDisk)'
                                     /\ NoGenerationAcceptedTwice')
    BY DEF RatchetTypeOK, ReceiverInv, RatchetInv, WindowIsIndexedByGeneration,
           AcceptedKeysAreGone
  <2> QED BY <2>1
<1>3. ASSUME NEW g \in Generation, ProcessMessage(g)
      PROVE  RatchetInv(dec)' /\ RatchetInv(decDisk)' /\ NoGenerationAcceptedTwice'
  <2>1. /\ Decryptable(g)
        /\ dec' = Consume(dec, g, cfg) /\ decDisk' = dec'
        /\ accepted' = [accepted EXCEPT ![g] = @ + 1] /\ lost' = lost
    BY <1>3 DEF ProcessMessage
  <2>2. RatchetInv(dec)'
    BY <1>1, <2>1, ConsumedRatchetInv
  <2>3. RatchetInv(decDisk)'
    BY <2>1, <2>2 DEF RatchetInv, IndexedByGeneration, Derivable, TakenIsUsed,
                      WindowReaches
  <2>4. accepted[g] = 0
    <3>1. Derivable(dec, g)
      BY <1>1, <2>1, ConfigurationsAssumption, PeekOk
         DEF RatchetTypeOK, RatchetInv, Decryptable
    <3>2. ~ (accepted[g] > 0)
      BY <1>1, <3>1 DEF RatchetInv
    <3>3. accepted[g] \in Nat
      BY DEF RatchetTypeOK
    <3> QED BY <3>2, <3>3
  <2>5. NoGenerationAcceptedTwice'
    BY <1>1, <2>1, <2>4 DEF NoGenerationAcceptedTwice, RatchetTypeOK
  <2> QED BY <2>2, <2>3, <2>5
<1>4. ASSUME NEW g \in Generation, ProcessStorageError(g)
      PROVE  RatchetInv(dec)' /\ RatchetInv(decDisk)' /\ NoGenerationAcceptedTwice'
  <2>1. /\ Decryptable(g)
        /\ dec' = Consume(dec, g, cfg) /\ (decDisk' = decDisk \/ decDisk' = dec')
        /\ accepted' = accepted /\ lost' = lost \cup {g}
    BY <1>4 DEF ProcessStorageError
  <2>2. RatchetInv(dec)'
    BY <1>1, <2>1, ConsumedRatchetInv
  <2>3. RatchetInv(decDisk)'
    <3>1. CASE decDisk' = decDisk
      BY <1>1, <2>1, <3>1 DEF RatchetInv, IndexedByGeneration, Derivable,
                              TakenIsUsed, WindowReaches
    <3>2. CASE decDisk' = dec'
      BY <2>1, <2>2, <3>2 DEF RatchetInv, IndexedByGeneration, Derivable,
                              TakenIsUsed, WindowReaches
    <3> QED BY <2>1, <3>1, <3>2
  <2>4. NoGenerationAcceptedTwice'
    BY <1>1, <2>1 DEF NoGenerationAcceptedTwice
  <2> QED BY <2>2, <2>3, <2>4
<1>5. CASE /\ dec' = dec \/ dec' = decDisk
           /\ decDisk' = decDisk /\ accepted' = accepted /\ lost' = lost
  <2>1. RatchetInv(dec)'
    BY <1>1, <1>5 DEF RatchetInv, IndexedByGeneration, Derivable, TakenIsUsed,
                      WindowReaches
  <2>2. RatchetInv(decDisk)'
    BY <1>1, <1>5 DEF RatchetInv, IndexedByGeneration, Derivable, TakenIsUsed,
                      WindowReaches
  <2> QED BY <1>1, <1>5, <2>1, <2>2 DEF NoGenerationAcceptedTwice
<1>6. \/ \E g \in Generation : ProcessMessage(g) \/ ProcessStorageError(g)
      \/ /\ dec' = dec \/ dec' = decDisk
         /\ decDisk' = decDisk /\ accepted' = accepted /\ lost' = lost
  BY DEF RatchetNext, Encrypt, EncryptStorageError, SenderRestart, ProcessInvalid,
         ReceiverRestart, SetRatchetConfiguration, ratchetVars, receiverVars
<1> QED BY <1>3, <1>4, <1>5, <1>6

\* Inv is an invariant.
THEOREM Invariance == RatchetSpec => []Inv
<1>1. RatchetInit => Inv
  BY InitInv
<1>2. Inv /\ [RatchetNext]_ratchetVars => Inv'
  BY TypeStep, SenderStep, ReceiverStep DEF Inv
<1> QED BY <1>1, <1>2, PTL DEF RatchetSpec

\* The variables have their types in every reachable state.
THEOREM TypeCorrect == RatchetSpec => []RatchetTypeOK
<1>1. Inv => RatchetTypeOK
  BY DEF Inv
<1> QED BY <1>1, Invariance, PTL

\* encrypt never releases two messages under one generation.
THEOREM SentOnce == RatchetSpec => []NoGenerationSentTwice
<1>1. Inv => NoGenerationSentTwice
  <2> SUFFICES ASSUME Inv, NEW i \in 1 .. Len(sent), NEW j \in 1 .. Len(sent),
                      sent[i] = sent[j], i # j
               PROVE  FALSE
    BY DEF NoGenerationSentTwice
  <2>1. sent \in Seq(Generation) /\ Len(sent) \in Nat
        /\ sent[i] \in Nat /\ sent[j] \in Nat
    <3>1. sent \in Seq(Generation) /\ Len(sent) \in Nat
      BY DEF Inv, RatchetTypeOK
    <3>2. sent[i] \in Generation /\ sent[j] \in Generation
      BY <3>1
    <3> QED BY <3>1, <3>2, MaxGenerationAssumption DEF Generation
  <2>2. i < j \/ j < i
    BY <2>1
  <2> QED BY <2>1, <2>2 DEF Inv, SenderInv
<1> QED BY <1>1, Invariance, PTL

\* process_message accepts a generation at most once, also across restarts,
\* and an accepted key is gone from memory and from storage.
THEOREM AcceptedOnce == RatchetSpec => [](NoGenerationAcceptedTwice /\ AcceptedKeysAreGone)
<1>1. Inv => NoGenerationAcceptedTwice /\ AcceptedKeysAreGone
  BY DEF Inv, ReceiverInv
<1> QED BY <1>1, Invariance, PTL

\* Both ends use a generation once: neither a duplicated message nor a restart
\* between the ratchet's step and its write brings a generation back.
THEOREM UsedOnce == RatchetSpec => []GenerationsAreUsedOnce
<1>1. NoGenerationSentTwice /\ NoGenerationAcceptedTwice => GenerationsAreUsedOnce
  BY DEF GenerationsAreUsedOnce
<1> QED BY <1>1, SentOnce, AcceptedOnce, PTL

\* After process_message has returned the content, its key cannot be derived
\* from the ratchet in memory or from the stored one.
THEOREM KeysGone == RatchetSpec => []AcceptedKeysAreGone
<1> QED BY AcceptedOnce, PTL

\* past_secret_index finds the key of the generation it is asked for.
THEOREM IndexCorrect == RatchetSpec => []WindowIsIndexedByGeneration
<1>1. Inv => WindowIsIndexedByGeneration
  BY DEF Inv, ReceiverInv
<1> QED BY <1>1, Invariance, PTL

\* A message inside the window that was not processed stays decryptable.
THEOREM Retriable == RatchetSpec => []DelayedMessagesStayDecryptable
<1>1. Inv => DelayedMessagesStayDecryptable
  <2> SUFFICES ASSUME Inv, NEW g \in Generation, g < dec.ratchet_head,
                      accepted[g] = 0, g \notin lost,
                      \A c \in Configurations :
                        dec.ratchet_head - g <= c.out_of_order_tolerance
               PROVE  PeekResult(dec, g, cfg) = "Ok" /\ PeekedSecret(dec, g) = g
    BY DEF DelayedMessagesStayDecryptable
  <2> DEFINE h == dec.ratchet_head
             p == dec.past_secrets
             n == h - g
  <2>1. /\ h \in Nat /\ g \in Nat /\ Len(p) \in Nat /\ cfg \in Configuration
        /\ cfg \in Configurations
        /\ cfg.maximum_forward_distance \in Nat
        /\ cfg.out_of_order_tolerance \in Nat
    <3>1. cfg \in Configurations /\ cfg \in Configuration /\ dec \in DecryptionRatchet
      BY ConfigurationsAssumption DEF Inv, RatchetTypeOK
    <3>2. h \in Generation /\ Len(p) \in Nat
      BY <3>1 DEF DecryptionRatchet
    <3>3. /\ cfg.maximum_forward_distance \in Generation
          /\ cfg.out_of_order_tolerance \in Generation
      BY <3>1 DEF Configuration
    <3> QED BY <3>1, <3>2, <3>3, MaxGenerationAssumption DEF Generation
  <2>2. n \in 1 .. h /\ n \in 0 .. h /\ h - n = g
    BY <2>1
  <2>3. n <= Len(p)
    BY <2>2 DEF Inv, ReceiverInv, WindowReaches
  <2>4. n \in 1 .. Len(p)
    BY <2>1, <2>2, <2>3
  <2>5. p[n] # Taken
    <3>1. ~ (accepted[h - n] > 0) /\ ~ (h - n \in lost)
      BY <2>2
    <3> QED BY <2>4, <3>1 DEF Inv, ReceiverInv, TakenIsUsed
  <2>6. p[n] \in {Taken, h - n}
    BY <2>4 DEF Inv, ReceiverInv, WindowIsIndexedByGeneration, IndexedByGeneration
  <2>7. p[n] = g
    BY <2>2, <2>5, <2>6
  <2>8. ~ (g >= h)
    BY <2>1
  <2>9. PeekedSecret(dec, g) = g
    BY <2>7, <2>8 DEF PeekedSecret, PastSecretIndex
  <2>10. ~ TooDistantInTheFuture(dec, g, cfg)
    BY <2>1 DEF TooDistantInTheFuture
  <2>11. ~ TooDistantInThePast(dec, g, cfg)
    BY <2>1 DEF TooDistantInThePast
  <2>12. PeekResult(dec, g, cfg) = "Ok"
    BY <2>1, <2>3, <2>4, <2>5, <2>8, <2>10, <2>11 DEF PeekResult, PastSecretIndex
  <2> QED BY <2>9, <2>12
<1> QED BY <1>1, Invariance, PTL
=============================================================================

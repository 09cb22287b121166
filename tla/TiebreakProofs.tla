--------------------------- MODULE TiebreakProofs ---------------------------
(***************************************************************************)
(* Proofs about Tiebreak for every number of candidates, tiers, runs and   *)
(* failures.                                                               *)
(***************************************************************************)
EXTENDS Tiebreak, Sums

Mod(a, n) == a % n

Finished == pc = "report" \/ exit = 0

TypeOK ==
    /\ pc \in {"prepare", "run", "report", "exit"}
    /\ tier \in TierSet /\ round \in 0..Runs /\ place \in Cands
    /\ failures \in Nat
    /\ samples \in [Cands -> [TierSet -> [Samples -> Nat]]]
    /\ discarded \in [Cands -> [TierSet -> Nat]]
    /\ launched \in [Cands -> [TierSet -> Nat]]
    /\ position \in [Cands -> [TierSet -> [Cands -> Nat]]]
    /\ exit \in {Running, 0, 2, 4, 6}
    /\ exit = 0 => pc = "exit"

\* Candidate c had its turn in the present round.
Ahead(c) == \E k \in Cands : k < place /\ Mod(Offset + k, Candidates) = c

\* Warm-ups and measured runs of c in the present tier.
WarmUps(c) == IF round > 0 \/ Ahead(c) THEN 1 ELSE 0
MeasuredRuns(c) ==
    IF round = 0 THEN 0 ELSE IF Ahead(c) THEN round ELSE round - 1

\* What is accounted for of a candidate in a tier, by its samples s, its l starts
\* and the d discarded ones: w warm-ups and m measured runs, with f failures of
\* the condition that is running.
Tally(s, l, d, w, m, f) ==
    /\ SumOver(s, Samples) = m
    /\ l = w + m + d + f
    /\ d <= (w + m) * (MaxFailures - 1)
Accounted(c, t, w, m, f) ==
    Tally(samples[c][t], launched[c][t], discarded[c][t], w, m, f)

\* Measured rounds of the present tier in which place k was run.
RoundsAt(k) == IF round = 0 THEN 0 ELSE IF k < place THEN round ELSE round - 1

\* In n rounds candidate c was in place k in every Candidates-th one: in the
\* rounds from m on, counted from 0.
Spread(p, c, k, n) ==
    \E m \in Cands : /\ Mod(m + k, Candidates) = c
                     /\ n - m <= Candidates * p
                     /\ Candidates * p < n - m + Candidates

AccountInv ==
    /\ pc \in {"prepare", "run"} =>
          /\ failures <= MaxFailures - 1
          /\ \A c \in Cands, t \in TierSet :
                /\ t < tier => Accounted(c, t, 1, Runs, 0)
                /\ t = tier => Accounted(c, t, WarmUps(c), MeasuredRuns(c),
                                         IF c = Turn THEN failures ELSE 0)
                /\ t > tier => Accounted(c, t, 0, 0, 0)
    /\ Finished => \A c \in Cands, t \in TierSet : Accounted(c, t, 1, Runs, 0)
    /\ pc = "prepare" => tier = 0 /\ round = 0 /\ place = 0 /\ failures = 0

\* Whatever became of the measurement, no further than it got.
PlaceInv ==
    \A c, k \in Cands, t \in TierSet :
        /\ t < tier \/ Finished => Spread(position[c][t][k], c, k, Runs)
        /\ pc \in {"prepare", "run"} /\ t = tier
              => Spread(position[c][t][k], c, k, RoundsAt(k))
        /\ pc \in {"prepare", "run"} /\ t > tier => position[c][t][k] = 0

IInv == TypeOK /\ AccountInv /\ PlaceInv
-----------------------------------------------------------------------------
(* Remainders.                                                             *)

LEMMA Remainder ==
    ASSUME NEW n \in Nat \ {0}, NEW a \in Nat
    PROVE  \E q \in Int : a = n * q + Mod(a, n) /\ Mod(a, n) \in 0..(n - 1)
  <1>1. a = n * (a \div n) + (a % n) /\ a % n \in 0..(n - 1)
    OBVIOUS
  <1>2. a \div n \in Int
    OBVIOUS
  <1> QED BY <1>1, <1>2 DEF Mod

\* A multiple of n that is nearer than n is 0.
LEMMA NearMultiple ==
    ASSUME NEW n \in Nat \ {0}, NEW q \in Int, n * q < n, -n < n * q
    PROVE  q = 0
  OBVIOUS

LEMMA Distribution ==
    ASSUME NEW n \in Int, NEW a \in Int, NEW b \in Int
    PROVE  /\ n * (a - b) = n * a - n * b /\ n * (a + b) = n * a + n * b
           /\ n * a \in Int /\ n * b \in Int
  OBVIOUS

\* Numbers a multiple of n apart have the same remainder, and no others.
LEMMA SameRemainder ==
    ASSUME NEW n \in Nat \ {0}, NEW a \in Nat, NEW b \in Nat
    PROVE  /\ Mod(a, n) = Mod(b, n) => \E q \in Int : a - b = n * q
           /\ \A q \in Int : a - b = n * q => Mod(a, n) = Mod(b, n)
  <1>1. PICK qa \in Int : a = n * qa + Mod(a, n) /\ Mod(a, n) \in 0..(n - 1)
    BY Remainder
  <1>2. PICK qb \in Int : b = n * qb + Mod(b, n) /\ Mod(b, n) \in 0..(n - 1)
    BY Remainder
  <1>3. PICK ra \in 0..(n - 1), rb \in 0..(n - 1) :
           /\ a = n * qa + ra /\ ra = Mod(a, n)
           /\ b = n * qb + rb /\ rb = Mod(b, n)
    BY <1>1, <1>2
  <1>4. /\ n * (qa - qb) = n * qa - n * qb /\ qa - qb \in Int
        /\ n * qa \in Int /\ n * qb \in Int
    BY Distribution
  <1>5. a - b = n * (qa - qb) + (ra - rb)
    BY <1>3, <1>4
  <1>6. ASSUME ra = rb PROVE \E q \in Int : a - b = n * q
    <2>1. a - b = n * (qa - qb)
      BY <1>4, <1>5, <1>6
    <2> QED BY <1>4, <2>1
  <1>7. ASSUME NEW q \in Int, a - b = n * q PROVE ra = rb
    <2>1. /\ n * (q - (qa - qb)) = n * q - n * (qa - qb)
          /\ n * q \in Int /\ n * (qa - qb) \in Int
      BY <1>4, Distribution
    <2>2. n * (q - (qa - qb)) = ra - rb
      BY <1>5, <1>7, <2>1
    <2>3. n * (q - (qa - qb)) < n /\ -n < n * (q - (qa - qb))
      BY <2>2
    <2>4. q - (qa - qb) = 0
      BY <1>4, <2>3, NearMultiple
    <2>5. n * (q - (qa - qb)) = 0
      BY <2>4
    <2> QED BY <2>2, <2>5
  <1> QED BY <1>3, <1>6, <1>7

\* The constants as the provers need them.
LEMMA Bounds ==
    /\ Candidates \in Nat \ {0} /\ Cands = 0..(Candidates - 1)
    /\ TierCount \in Nat \ {0} /\ TierSet = 0..(TierCount - 1)
    /\ Runs \in Nat \ {0} /\ MaxFailures \in Nat \ {0}
  <1>1. 0 % 2 = 0
    OBVIOUS
  <1> QED BY <1>1, TiebreakAssumption DEF TiebreakAssumption, Cands, TierSet

\* From any offset the candidates take one place each.
LEMMA Rotation ==
    ASSUME NEW o \in Nat
    PROVE  /\ \A k \in Cands : Mod(o + k, Candidates) \in Cands
           /\ \A k, l \in Cands :
                 Mod(o + k, Candidates) = Mod(o + l, Candidates) => k = l
           /\ \A c \in Cands : \E k \in Cands : Mod(o + k, Candidates) = c
  <1>0. PICK n \in Nat \ {0} : n = Candidates /\ Cands = 0..(n - 1)
    BY Bounds
  <1>1. ASSUME NEW k \in Cands PROVE Mod(o + k, n) \in Cands
    <2>1. o + k \in Nat
      BY <1>0
    <2> QED BY <1>0, <2>1, Remainder
  <1>2. ASSUME NEW k \in Cands, NEW l \in Cands, Mod(o + k, n) = Mod(o + l, n)
        PROVE  k = l
    <2>1. o + k \in Nat /\ o + l \in Nat
      BY <1>0
    <2>2. PICK q \in Int : (o + k) - (o + l) = n * q
      BY <1>2, <2>1, SameRemainder
    <2>3. n * q = k - l /\ k - l < n /\ -n < k - l
      BY <1>0, <2>2
    <2>4. q = 0
      BY <2>3, NearMultiple
    <2> QED BY <1>0, <2>3, <2>4
  <1>3. ASSUME NEW c \in Cands
        PROVE  \E k \in Cands : Mod(o + k, n) = c
    <2>1. PICK r \in 0..(n - 1), q \in Int : o = n * q + r
      BY Remainder
    <2>2. Mod(c, n) = c
      <3>1. PICK s \in Int : c = n * s + Mod(c, n) /\ Mod(c, n) \in 0..(n - 1)
        <4>1. c \in Nat
          BY <1>0
        <4> QED BY <4>1, Remainder
      <3>2. n * s = c - Mod(c, n) /\ n * s < n /\ -n < n * s
        BY <1>0, <3>1
      <3>3. s = 0
        BY <3>2, NearMultiple
      <3>4. n * s = 0
        BY <3>3
      <3> QED BY <1>0, <3>1, <3>4
    <2>3. CASE r <= c
      <3>1. /\ c - r \in Cands /\ o + (c - r) \in Nat /\ c \in Nat
            /\ (o + (c - r)) - c = n * q
        BY <1>0, <2>1, <2>3
      <3>2. Mod(o + (c - r), n) = Mod(c, n)
        BY <3>1, SameRemainder
      <3> QED BY <2>2, <3>1, <3>2
    <2>4. CASE c < r
      <3>1. n * (q + 1) = n * q + n
        BY Distribution, <1>0
      <3>2. /\ c - r + n \in Cands /\ o + (c - r + n) \in Nat /\ c \in Nat
            /\ (o + (c - r + n)) - c = n * (q + 1)
        BY <1>0, <2>1, <2>4, <3>1
      <3>3. Mod(o + (c - r + n), n) = Mod(c, n)
        BY <3>2, SameRemainder
      <3> QED BY <2>2, <3>2, <3>3
    <2> QED BY <1>0, <2>1, <2>3, <2>4
  <1> QED BY <1>0, <1>1, <1>2, <1>3

\* The offset may be taken before the remainder is.
LEMMA OffsetFirst ==
    ASSUME NEW o \in Nat, NEW k \in Cands
    PROVE  /\ Mod(o, Candidates) \in Cands
           /\ Mod(Mod(o, Candidates) + k, Candidates) = Mod(o + k, Candidates)
  <1>0. PICK n \in Nat \ {0} : n = Candidates /\ Cands = 0..(n - 1)
    BY Bounds
  <1>1. PICK q \in Int, r \in 0..(n - 1) : o = n * q + r /\ r = Mod(o, n)
    BY Remainder
  <1>2. o + k \in Nat /\ r + k \in Nat /\ (o + k) - (r + k) = n * q
    <2>1. n * q \in Int /\ k \in Nat /\ r \in Nat
      BY <1>0
    <2>2. o = n * q + r
      BY <1>1
    <2> QED BY <2>1, <2>2
  <1>3. Mod(o + k, n) = Mod(r + k, n)
    BY <1>2, SameRemainder
  <1> QED BY <1>0, <1>1, <1>3

-----------------------------------------------------------------------------
(* How the runs of a candidate spread over the places.                     *)

LEMMA SpreadStart ==
    ASSUME NEW c \in Cands, NEW k \in Cands
    PROVE  Spread(0, c, k, 0)
  <1>1. k \in Nat
    BY Bounds
  <1>2. PICK m \in Cands : Mod(k + m, Candidates) = c
    BY <1>1, Rotation
  <1>3. /\ k + m = m + k /\ 0 - m <= Candidates * 0
        /\ Candidates * 0 < 0 - m + Candidates
    BY <1>1, Bounds
  <1> QED BY <1>2, <1>3 DEF Spread

LEMMA SpreadHit ==
    ASSUME NEW c \in Cands, NEW k \in Cands, NEW n \in Nat, NEW p \in Nat,
           Spread(p, c, k, n), Mod(n + k, Candidates) = c
    PROVE  Spread(p + 1, c, k, n + 1)
  <1>0. /\ Candidates \in Nat \ {0} /\ k \in Nat
        /\ \A m \in Cands : m \in Nat /\ m < Candidates
    BY Bounds
  <1>1. PICK m \in Cands : /\ Mod(m + k, Candidates) = c
                           /\ n - m <= Candidates * p
                           /\ Candidates * p < n - m + Candidates
    BY DEF Spread
  <1>2. m \in Nat /\ n + k \in Nat /\ m + k \in Nat
    BY <1>0
  <1>3. PICK q \in Int : (n + k) - (m + k) = Candidates * q
    <2>1. Mod(n + k, Candidates) = Mod(m + k, Candidates)
      BY <1>1
    <2> QED BY <1>0, <1>2, <2>1, SameRemainder
  <1>4. n - m = Candidates * q
    BY <1>0, <1>2, <1>3
  <1>5. Candidates * (p - q) = Candidates * p - Candidates * q
        /\ Candidates * (p + 1) = Candidates * p + Candidates * 1
        /\ Candidates * p \in Int /\ Candidates * q \in Int
    BY <1>0, Distribution
  <1>6. Candidates * (p - q) < Candidates /\ -Candidates < Candidates * (p - q)
    BY <1>0, <1>1, <1>2, <1>4, <1>5
  <1>7. p - q = 0
    BY <1>0, <1>6, NearMultiple
  <1>8. Candidates * (p + 1) = n - m + Candidates
    <2>1. p = q
      BY <1>7
    <2> QED BY <1>0, <1>4, <1>5, <2>1
  <1>9. (n + 1) - m <= Candidates * (p + 1)
        /\ Candidates * (p + 1) < (n + 1) - m + Candidates
    BY <1>0, <1>2, <1>8
  <1> QED BY <1>1, <1>9 DEF Spread

LEMMA SpreadMiss ==
    ASSUME NEW c \in Cands, NEW k \in Cands, NEW n \in Nat, NEW p \in Nat,
           Spread(p, c, k, n), Mod(n + k, Candidates) # c
    PROVE  Spread(p, c, k, n + 1)
  <1>0. /\ Candidates \in Nat \ {0} /\ k \in Nat
        /\ \A m \in Cands : m \in Nat /\ m < Candidates
    BY Bounds
  <1>1. PICK m \in Cands : /\ Mod(m + k, Candidates) = c
                           /\ n - m <= Candidates * p
                           /\ Candidates * p < n - m + Candidates
    BY DEF Spread
  <1>2. /\ m \in Nat /\ n + k \in Nat /\ m + k \in Nat
        /\ (n + k) - (m + k) = n - m
    BY <1>0
  <1>3. n - m # Candidates * p
    <2> SUFFICES ASSUME n - m = Candidates * p PROVE FALSE
      OBVIOUS
    <2>1. Mod(n + k, Candidates) = Mod(m + k, Candidates)
      BY <1>0, <1>2, SameRemainder
    <2> QED BY <1>1, <2>1
  <1>4. (n + 1) - m <= Candidates * p
        /\ Candidates * p < (n + 1) - m + Candidates
    <2>1. Candidates * p \in Int
      BY <1>0
    <2> QED BY <1>0, <1>1, <1>2, <1>3, <2>1
  <1> QED BY <1>1, <1>4 DEF Spread

LEMMA SpreadEven ==
    ASSUME NEW c \in Cands, NEW k \in Cands, NEW l \in Cands, NEW n \in Nat,
           NEW p \in Nat, NEW q \in Nat, Spread(p, c, k, n), Spread(q, c, l, n)
    PROVE  p <= q + 1
  <1>0. /\ Candidates \in Nat \ {0}
        /\ \A m \in Cands : m \in Nat /\ m < Candidates
    BY Bounds
  <1>1. PICK m \in Cands : /\ n - m <= Candidates * p
                           /\ Candidates * p < n - m + Candidates
    BY DEF Spread
  <1>2. PICK o \in Cands : /\ n - o <= Candidates * q
                           /\ Candidates * q < n - o + Candidates
    BY DEF Spread
  <1>3. SUFFICES ASSUME p >= q + 2 PROVE FALSE
    OBVIOUS
  <1>4. /\ Candidates * (q + 2) = Candidates * q + Candidates * 2
        /\ Candidates * p \in Int /\ Candidates * q \in Int
    BY <1>0, Distribution
  <1>5. Candidates * (q + 2) <= Candidates * p
    BY <1>0, <1>3
  <1> QED BY <1>0, <1>1, <1>2, <1>4, <1>5
-----------------------------------------------------------------------------
(* The next condition.                                                     *)

\* The same counts after the run of this condition.
After(c) == Ahead(c) \/ c = Turn
WarmUpsAfter(c) == IF round > 0 \/ After(c) THEN 1 ELSE 0
MeasuredAfter(c) ==
    IF round = 0 THEN 0 ELSE IF After(c) THEN round ELSE round - 1
RoundsAfter(k) == IF round = 0 THEN 0 ELSE IF k <= place THEN round ELSE round - 1

\* It is one candidate's turn, who had none in this round before; in the last
\* place everybody had one.
LEMMA TurnFacts ==
    ASSUME TypeOK
    PROVE  /\ Offset \in Cands /\ Offset \in Nat
           /\ Turn = Mod(Offset + place, Candidates) /\ Turn \in Cands
           /\ ~Ahead(Turn)
           /\ place = Candidates - 1 => \A c \in Cands : After(c)
           /\ round > 0 => Turn = Mod((round - 1) + place, Candidates)
  <1>0. /\ tier \in Nat /\ round \in Nat /\ place \in Cands /\ 0 \in Cands
        /\ Cands \subseteq Nat /\ Candidates \in Nat \ {0}
        /\ \A k \in Cands : k <= Candidates - 1
    BY Bounds DEF TypeOK
  <1>1. Offset = IF round = 0 THEN Mod(tier, Candidates)
                 ELSE Mod(round - 1, Candidates)
    BY DEF Offset, Mod
  <1>2. Offset \in Cands /\ Offset \in Nat
    <2>1. CASE round = 0
      BY <1>0, <1>1, <2>1, OffsetFirst
    <2>2. CASE round # 0
      <3>1. round - 1 \in Nat
        BY <1>0, <2>2
      <3> QED BY <1>0, <1>1, <2>2, <3>1, OffsetFirst
    <2> QED BY <2>1, <2>2
  <1>3. Turn = Mod(Offset + place, Candidates)
    BY DEF Turn, Mod
  <1>4. Turn \in Cands
    BY <1>0, <1>2, <1>3, Rotation
  <1>5. ~Ahead(Turn)
    <2> SUFFICES ASSUME NEW k \in Cands, k < place,
                        Mod(Offset + k, Candidates) = Turn
                 PROVE  FALSE
      BY DEF Ahead
    <2>1. k = place
      BY <1>0, <1>2, <1>3, Rotation
    <2> QED BY <1>0, <2>1
  <1>6. ASSUME place = Candidates - 1, NEW c \in Cands PROVE After(c)
    <2>1. PICK k \in Cands : Mod(Offset + k, Candidates) = c
      BY <1>2, Rotation
    <2>2. k < place \/ k = place
      BY <1>0, <1>6
    <2> QED BY <1>3, <2>1, <2>2 DEF After, Ahead
  <1>7. ASSUME round > 0 PROVE Turn = Mod((round - 1) + place, Candidates)
    <2>1. round - 1 \in Nat /\ Offset = Mod(round - 1, Candidates)
      BY <1>0, <1>1, <1>7
    <2> QED BY <1>0, <1>3, <2>1, OffsetFirst
  <1> QED BY <1>2, <1>3, <1>4, <1>5, <1>6, <1>7

\* The loops go on with the next candidate, the next repetition or the next tier,
\* or they are done.
LEMMA Advances ==
    ASSUME TypeOK, pc = "run", NextCondition
    PROVE  /\ tier' \in TierSet /\ round' \in 0..Runs /\ place' \in Cands
           /\ failures' = 0
           /\ \/ /\ pc' = "run" /\ tier' = tier
                 /\ \A c \in Cands : /\ WarmUps(c)' = WarmUpsAfter(c)
                                     /\ MeasuredRuns(c)' = MeasuredAfter(c)
                                     /\ RoundsAt(c)' = RoundsAfter(c)
              \/ /\ \A c \in Cands : /\ WarmUpsAfter(c) = 1
                                     /\ MeasuredAfter(c) = Runs
                                     /\ RoundsAfter(c) = Runs
                 /\ \/ /\ pc' = "run" /\ tier' = tier + 1
                       /\ \A c \in Cands : /\ WarmUps(c)' = 0
                                           /\ MeasuredRuns(c)' = 0
                                           /\ RoundsAt(c)' = 0
                    \/ pc' = "report" /\ tier' = tier /\ tier = TierCount - 1
  <1>0. /\ tier \in Nat /\ round \in Nat /\ place \in Nat /\ round <= Runs
        /\ place <= Candidates - 1 /\ tier <= TierCount - 1 /\ Runs \in Nat \ {0}
        /\ Candidates \in Nat \ {0} /\ TierCount \in Nat \ {0}
        /\ Cands = 0..(Candidates - 1) /\ TierSet = 0..(TierCount - 1)
    BY Bounds DEF TypeOK
  <1>1. failures' = 0
    BY DEF NextCondition
  <1>2. CASE place < Candidates - 1
    <2>1. /\ place' = place + 1 /\ round' = round /\ tier' = tier /\ pc' = "run"
      BY <1>2 DEF NextCondition
    <2>2. Offset' = Offset
      BY <2>1 DEF Offset
    <2>3. ASSUME NEW c \in Cands PROVE Ahead(c)' <=> After(c)
      <3>1. Ahead(c)' <=> \E k \in Cands :
               k < place + 1 /\ Mod(Offset + k, Candidates) = c
        BY <2>1, <2>2 DEF Ahead
      <3>2. \A k \in Cands : k < place + 1 <=> k < place \/ k = place
        BY <1>0
      <3>3. place \in Cands /\ Turn = Mod(Offset + place, Candidates)
        BY TurnFacts DEF TypeOK
      <3> QED BY <3>1, <3>2, <3>3 DEF After, Ahead
    <2>4. \A c \in Cands : /\ WarmUps(c)' = WarmUpsAfter(c)
                           /\ MeasuredRuns(c)' = MeasuredAfter(c)
      BY <2>1, <2>3
      DEF WarmUps, WarmUpsAfter, MeasuredRuns, MeasuredAfter
    <2>5. \A c \in Cands : RoundsAt(c)' = RoundsAfter(c)
      BY <1>0, <2>1 DEF RoundsAt, RoundsAfter
    <2>6. tier' \in TierSet /\ round' \in 0..Runs /\ place' \in Cands
      BY <1>0, <1>2, <2>1
    <2> QED BY <1>1, <2>1, <2>4, <2>5, <2>6
  <1>3. CASE ~(place < Candidates - 1)
    <2>1. place = Candidates - 1 /\ place' = 0 /\ 0 \in Cands
      BY <1>0, <1>3 DEF NextCondition
    <2>2. \A c \in Cands : After(c)
      BY <2>1, TurnFacts
    <2>3. \A c \in Cands : ~Ahead(c)'
      BY <1>0, <2>1 DEF Ahead
    <2>4. \A c \in Cands : /\ WarmUpsAfter(c) = 1
                           /\ MeasuredAfter(c) = round
                           /\ RoundsAfter(c) = round
      BY <1>0, <2>1, <2>2 DEF WarmUpsAfter, MeasuredAfter, RoundsAfter
    <2>5. CASE round < Runs
      <3>1. round' = round + 1 /\ tier' = tier /\ pc' = "run"
        BY <1>3, <2>5 DEF NextCondition
      <3>2. \A c \in Cands : /\ WarmUps(c)' = 1
                             /\ MeasuredRuns(c)' = round
                             /\ RoundsAt(c)' = round
        BY <1>0, <2>1, <2>3, <3>1 DEF WarmUps, MeasuredRuns, RoundsAt
      <3>3. tier' \in TierSet /\ round' \in 0..Runs /\ place' \in Cands
        BY <1>0, <2>1, <2>5, <3>1
      <3> QED BY <1>1, <2>4, <3>1, <3>2, <3>3
    <2>6. CASE ~(round < Runs)
      <3>1. round = Runs
        BY <1>0, <2>6
      <3>2. CASE tier < TierCount - 1
        <4>1. round' = 0 /\ tier' = tier + 1 /\ pc' = "run"
          BY <1>3, <2>6, <3>2 DEF NextCondition
        <4>2. \A c \in Cands : /\ WarmUps(c)' = 0
                               /\ MeasuredRuns(c)' = 0
                               /\ RoundsAt(c)' = 0
          BY <2>3, <4>1 DEF WarmUps, MeasuredRuns, RoundsAt
        <4>3. tier' \in TierSet /\ round' \in 0..Runs /\ place' \in Cands
          BY <1>0, <2>1, <3>2, <4>1
        <4> QED BY <1>1, <2>4, <3>1, <4>1, <4>2, <4>3
      <3>3. CASE ~(tier < TierCount - 1)
        <4>1. pc' = "report" /\ round' = round /\ tier' = tier
              /\ tier = TierCount - 1
          BY <1>0, <1>3, <2>6, <3>3 DEF NextCondition
        <4>2. tier' \in TierSet /\ round' \in 0..Runs /\ place' \in Cands
          BY <1>0, <2>1, <4>1
        <4> QED BY <1>1, <2>4, <3>1, <4>1, <4>2
      <3> QED BY <3>2, <3>3
    <2> QED BY <2>5, <2>6
  <1> QED BY <1>2, <1>3
-----------------------------------------------------------------------------
(* The run of a condition that counts.                                     *)

\* Finitely many values may be measured: without it there is no sum.
LEMMA SamplesFinite == IsFiniteSet(Samples)
  BY TiebreakAssumption, FS_AddElement DEF TiebreakAssumption, Samples

\* With the warm-up or the measured run of the condition, which makes the samples
\* s2 of s, the candidate at turn has one more; its discarded runs are reported.
LEMMA TallyOfTurn ==
    ASSUME TypeOK, NEW s, NEW s2, NEW l \in Nat, NEW d \in Nat,
           failures <= MaxFailures - 1,
           Tally(s, l, d, WarmUps(Turn), MeasuredRuns(Turn), failures),
           SumOver(s2, Samples)
              = IF round > 0 THEN SumOver(s, Samples) + 1 ELSE SumOver(s, Samples)
    PROVE  Tally(s2, l + 1, d + failures, WarmUpsAfter(Turn), MeasuredAfter(Turn), 0)
  <1>0. round \in Nat /\ failures \in Nat /\ MaxFailures - 1 \in Nat
    BY Bounds DEF TypeOK
  <1>1. ~Ahead(Turn) /\ After(Turn)
    BY TurnFacts DEF After
  <1>2. PICK w \in Nat, m \in Nat :
           /\ w = WarmUps(Turn) /\ m = MeasuredRuns(Turn)
           /\ \/ /\ round = 0 /\ w = 0 /\ m = 0
                 /\ WarmUpsAfter(Turn) = 1 /\ MeasuredAfter(Turn) = 0
              \/ /\ round > 0 /\ w = 1
                 /\ WarmUpsAfter(Turn) = 1 /\ MeasuredAfter(Turn) = m + 1
    BY <1>0, <1>1 DEF WarmUps, MeasuredRuns, WarmUpsAfter, MeasuredAfter
  <1>3. /\ SumOver(s, Samples) = m /\ l = w + m + d + failures
        /\ d <= (w + m) * (MaxFailures - 1)
    BY <1>2 DEF Tally
  <1>4. PICK w2 \in Nat, m2 \in Nat :
           /\ w2 = WarmUpsAfter(Turn) /\ m2 = MeasuredAfter(Turn)
           /\ w2 + m2 = w + m + 1 /\ SumOver(s2, Samples) = m2
    BY <1>0, <1>2, <1>3
  <1>5. d + failures <= (w2 + m2) * (MaxFailures - 1)
    <2>1. (MaxFailures - 1) * ((w + m) + 1)
             = (MaxFailures - 1) * (w + m) + (MaxFailures - 1) * 1
      BY <1>0, Distribution
    <2>2. /\ (w + m) * (MaxFailures - 1) = (MaxFailures - 1) * (w + m)
          /\ (w2 + m2) * (MaxFailures - 1) = (MaxFailures - 1) * ((w + m) + 1)
          /\ (MaxFailures - 1) * (w + m) \in Int
      BY <1>0, <1>4
    <2> QED BY <1>0, <1>3, <2>1, <2>2
  <1>6. l + 1 = w2 + m2 + (d + failures) + 0
    BY <1>0, <1>3, <1>4
  <1> QED BY <1>4, <1>5, <1>6 DEF Tally

\* The others have what they had.
LEMMA TallyOfOthers ==
    ASSUME TypeOK, NEW c \in Cands, c # Turn
    PROVE  WarmUpsAfter(c) = WarmUps(c) /\ MeasuredAfter(c) = MeasuredRuns(c)
  BY DEF WarmUpsAfter, WarmUps, MeasuredAfter, MeasuredRuns, After

\* After a run that counts the books are in order for the next condition.
LEMMA AccountsKept ==
    ASSUME TypeOK, AccountInv, pc = "run", exit' = exit,
           Launched, NextCondition,
           samples' \in [Cands -> [TierSet -> [Samples -> Nat]]],
           \A c \in Cands, t \in TierSet : c # Turn \/ t # tier =>
              samples'[c][t] = samples[c][t],
           SumOver(samples'[Turn][tier], Samples)
              = IF round > 0 THEN SumOver(samples[Turn][tier], Samples) + 1
                ELSE SumOver(samples[Turn][tier], Samples)
    PROVE  AccountInv'
  <1>0. /\ launched \in [Cands -> [TierSet -> Nat]]
        /\ discarded \in [Cands -> [TierSet -> Nat]]
        /\ tier \in TierSet /\ Turn \in Cands
        /\ failures <= MaxFailures - 1 /\ failures \in Nat
    BY TurnFacts DEF TypeOK, AccountInv
  <1>1. /\ launched' = [launched EXCEPT ![Turn][tier] = @ + 1]
        /\ discarded' = [discarded EXCEPT ![Turn][tier] = @ + failures]
    BY DEF Launched, NextCondition, Discarded
  <1> DEFINE New(c, t, w, m) ==
                Tally(samples'[c][t], launched'[c][t], discarded'[c][t], w, m, 0)
  <1>2. ASSUME NEW c \in Cands, NEW t \in TierSet, c # Turn \/ t # tier,
               NEW w, NEW m, Accounted(c, t, w, m, 0)
        PROVE  New(c, t, w, m)
    <2>1. launched'[c][t] = launched[c][t] /\ discarded'[c][t] = discarded[c][t]
          /\ samples'[c][t] = samples[c][t]
      BY <1>0, <1>1, <1>2
    <2> QED BY <1>2, <2>1 DEF Accounted
  <1>3. New(Turn, tier, WarmUpsAfter(Turn), MeasuredAfter(Turn))
    <2>1. launched'[Turn][tier] = launched[Turn][tier] + 1
          /\ discarded'[Turn][tier] = discarded[Turn][tier] + failures
          /\ launched[Turn][tier] \in Nat /\ discarded[Turn][tier] \in Nat
      BY <1>0, <1>1
    <2>2. Tally(samples[Turn][tier], launched[Turn][tier], discarded[Turn][tier],
                WarmUps(Turn), MeasuredRuns(Turn), failures)
      BY <1>0 DEF AccountInv, Accounted
    <2> QED BY <1>0, <2>1, <2>2, TallyOfTurn
  <1>4. \A c \in Cands : New(c, tier, WarmUpsAfter(c), MeasuredAfter(c))
    <2> SUFFICES ASSUME NEW c \in Cands, c # Turn
                 PROVE  New(c, tier, WarmUpsAfter(c), MeasuredAfter(c))
      BY <1>3
    <2>1. Accounted(c, tier, WarmUps(c), MeasuredRuns(c), 0)
      BY <1>0 DEF AccountInv
    <2>2. New(c, tier, WarmUps(c), MeasuredRuns(c))
      BY <1>0, <1>2, <2>1
    <2> QED BY <2>2, TallyOfOthers
  <1>5. \A c \in Cands, t \in TierSet : /\ t < tier => New(c, t, 1, Runs)
                                        /\ t > tier => New(c, t, 0, 0)
    <2> TAKE c \in Cands, t \in TierSet
    <2>1. t # tier \/ ~(t < tier \/ t > tier)
      BY Bounds
    <2>2. /\ t < tier => Accounted(c, t, 1, Runs, 0)
          /\ t > tier => Accounted(c, t, 0, 0, 0)
      BY DEF AccountInv
    <2> QED BY <1>2, <2>1, <2>2
  <1> HIDE DEF New
  <1>6. Turn' \in Cands => \A c \in Cands :
           (IF c = Turn' THEN failures' ELSE 0) = 0
    BY Advances
  <1>7. failures' <= MaxFailures' - 1 /\ pc' # "prepare" /\ exit' # 0
    <2>1. exit # 0
      BY DEF TypeOK
    <2> QED BY <2>1, Advances, Bounds
  <1>8. CASE /\ pc' = "run" /\ tier' = tier
             /\ \A c \in Cands : /\ WarmUps(c)' = WarmUpsAfter(c)
                                 /\ MeasuredRuns(c)' = MeasuredAfter(c)
    <2>1. \A c \in Cands, t \in TierSet :
             /\ t < tier' => New(c, t, 1, Runs)
             /\ t = tier' => New(c, t, WarmUps(c)', MeasuredRuns(c)')
             /\ t > tier' => New(c, t, 0, 0)
      BY <1>4, <1>5, <1>8
    <2>2. failures' = 0
      BY Advances
    <2> QED BY <1>7, <1>8, <2>1, <2>2 DEF AccountInv, Accounted, Finished, New
  <1>9. CASE /\ \A c \in Cands : WarmUpsAfter(c) = 1 /\ MeasuredAfter(c) = Runs
             /\ pc' = "run" /\ tier' = tier + 1
             /\ \A c \in Cands : WarmUps(c)' = 0 /\ MeasuredRuns(c)' = 0
    <2>1. \A t \in TierSet : /\ t < tier + 1 => t < tier \/ t = tier
                             /\ t = tier + 1 => t > tier
                             /\ t > tier + 1 => t > tier
      BY <1>0, Bounds
    <2>2. \A c \in Cands, t \in TierSet :
             /\ t < tier' => New(c, t, 1, Runs)
             /\ t = tier' => New(c, t, WarmUps(c)', MeasuredRuns(c)')
             /\ t > tier' => New(c, t, 0, 0)
      BY <1>4, <1>5, <1>9, <2>1
    <2>3. failures' = 0
      BY Advances
    <2> QED BY <1>7, <1>9, <2>2, <2>3 DEF AccountInv, Accounted, Finished, New
  <1>10. CASE /\ \A c \in Cands : WarmUpsAfter(c) = 1 /\ MeasuredAfter(c) = Runs
              /\ pc' = "report" /\ tier = TierCount - 1
    <2>1. \A t \in TierSet : t < tier \/ t = tier
      BY <1>0, <1>10, Bounds
    <2>2. \A c \in Cands, t \in TierSet : New(c, t, 1, Runs)
      BY <1>4, <1>5, <1>10, <2>1
    <2> QED BY <1>7, <1>10, <2>2 DEF AccountInv, Accounted, Finished, New
  <1> QED BY <1>8, <1>9, <1>10, Advances
-----------------------------------------------------------------------------
(* The places of the measured runs.                                        *)

\* With the measured run of the condition, if it is one, every candidate has been
\* in every place for the rounds that were run there.
LEMMA PlaceOfTurn ==
    ASSUME TypeOK, PlaceInv, pc = "run",
           position' = IF round > 0
                       THEN [position EXCEPT ![Turn][tier][place] = @ + 1]
                       ELSE position
    PROVE  \A c, k \in Cands :
              /\ Spread(position'[c][tier][k], c, k, RoundsAfter(k))
              /\ \A t \in TierSet : t # tier => position'[c][t][k] = position[c][t][k]
  <1>0. /\ position \in [Cands -> [TierSet -> [Cands -> Nat]]]
        /\ tier \in TierSet /\ Turn \in Cands /\ place \in Cands
        /\ round \in Nat /\ place \in Nat /\ \A k \in Cands : k \in Nat
    <2>1. Turn \in Cands
      BY TurnFacts
    <2>2. \A k \in Cands : k \in Nat
      BY Bounds
    <2>3. round \in Nat
      BY Bounds DEF TypeOK
    <2> QED BY <2>1, <2>2, <2>3 DEF TypeOK
  <1> SUFFICES ASSUME NEW c \in Cands, NEW k \in Cands
               PROVE  /\ Spread(position'[c][tier][k], c, k, RoundsAfter(k))
                      /\ \A t \in TierSet :
                            t # tier => position'[c][t][k] = position[c][t][k]
    OBVIOUS
  <1>1. \A t \in TierSet : t # tier => position'[c][t][k] = position[c][t][k]
    BY <1>0
  <1>2. Spread(position[c][tier][k], c, k, RoundsAt(k))
    BY <1>0 DEF PlaceInv
  <1>3. CASE round = 0
    BY <1>1, <1>2, <1>3 DEF RoundsAt, RoundsAfter
  <1>4. CASE round > 0 /\ k # place
    <2>1. RoundsAfter(k) = RoundsAt(k)
      BY <1>0, <1>4 DEF RoundsAt, RoundsAfter
    <2>2. position'[c][tier][k] = position[c][tier][k]
      BY <1>0, <1>4
    <2> QED BY <1>1, <1>2, <2>1, <2>2
  <1>5. CASE round > 0 /\ k = place
    <2>1. RoundsAt(k) = round - 1 /\ RoundsAfter(k) = (round - 1) + 1
          /\ round - 1 \in Nat
      BY <1>0, <1>5 DEF RoundsAt, RoundsAfter
    <2>2. Turn = Mod((round - 1) + k, Candidates)
      BY <1>5, TurnFacts
    <2>3. position[c][tier][k] \in Nat
      BY <1>0
    <2>4. CASE c = Turn
      <3>1. position'[c][tier][k] = position[c][tier][k] + 1
        BY <1>0, <1>5, <2>4
      <3> QED BY <1>1, <1>2, <2>1, <2>2, <2>3, <2>4, <3>1, SpreadHit
    <2>5. CASE c # Turn
      <3>1. position'[c][tier][k] = position[c][tier][k]
        BY <1>0, <1>5, <2>5
      <3> QED BY <1>1, <1>2, <2>1, <2>2, <2>3, <2>5, <3>1, SpreadMiss
    <2> QED BY <2>4, <2>5
  <1> QED BY <1>0, <1>3, <1>4, <1>5

\* After it they are right for the next condition.
LEMMA PlacesKept ==
    ASSUME TypeOK, PlaceInv, pc = "run", exit' = exit, NextCondition,
           position' = IF round > 0
                       THEN [position EXCEPT ![Turn][tier][place] = @ + 1]
                       ELSE position
    PROVE  PlaceInv'
  <1>0. tier \in TierSet /\ pc' # "prepare" /\ exit' # 0
    BY Advances DEF TypeOK
  <1>1. \A c, k \in Cands :
           /\ Spread(position'[c][tier][k], c, k, RoundsAfter(k))
           /\ \A t \in TierSet : t # tier => position'[c][t][k] = position[c][t][k]
    BY PlaceOfTurn
  <1>2. \A c, k \in Cands, t \in TierSet :
           /\ t < tier => Spread(position'[c][t][k], c, k, Runs)
           /\ t > tier => position'[c][t][k] = 0
    <2> TAKE c, k \in Cands, t \in TierSet
    <2>1. t < tier \/ t > tier => t # tier
      BY <1>0, Bounds
    <2> QED BY <1>1, <2>1 DEF PlaceInv
  <1>3. CASE /\ pc' = "run" /\ tier' = tier
             /\ \A k \in Cands : RoundsAt(k)' = RoundsAfter(k)
    BY <1>0, <1>1, <1>2, <1>3 DEF PlaceInv, Finished
  <1>4. CASE /\ \A k \in Cands : RoundsAfter(k) = Runs
             /\ pc' = "run" /\ tier' = tier + 1
             /\ \A k \in Cands : RoundsAt(k)' = 0
    <2>1. \A t \in TierSet : /\ t < tier + 1 => t < tier \/ t = tier
                             /\ t = tier + 1 => t > tier
                             /\ t > tier + 1 => t > tier
      BY <1>0, Bounds
    <2>2. \A c, k \in Cands, t \in TierSet :
             /\ t < tier' => Spread(position'[c][t][k], c, k, Runs)
             /\ t = tier' => Spread(position'[c][t][k], c, k, RoundsAt(k)')
             /\ t > tier' => position'[c][t][k] = 0
      BY <1>1, <1>2, <1>4, <2>1, SpreadStart
    <2> QED BY <1>0, <1>4, <2>2 DEF PlaceInv, Finished
  <1>5. CASE /\ \A k \in Cands : RoundsAfter(k) = Runs
             /\ pc' = "report" /\ tier' = tier /\ tier = TierCount - 1
    <2>1. \A t \in TierSet : t < tier \/ t = tier
      BY <1>0, <1>5, Bounds
    <2>2. \A c, k \in Cands, t \in TierSet : Spread(position'[c][t][k], c, k, Runs)
      BY <1>1, <1>2, <1>5, <2>1
    <2> QED BY <1>0, <1>5, <2>2 DEF PlaceInv, Finished
  <1> QED BY <1>3, <1>4, <1>5, Advances
-----------------------------------------------------------------------------
(* The invariant.                                                          *)

LEMMA InitHolds == Init => IInv
  <1> SUFFICES ASSUME Init PROVE IInv
    OBVIOUS
  <1>0. /\ 0 \in Cands /\ 0 \in TierSet /\ 0 \in 0..Runs /\ Runs \in Nat
        /\ MaxFailures \in Nat \ {0} /\ \A t \in TierSet : t \in Nat
        /\ \A k \in Cands : k \in Nat
    BY Bounds
  <1>1. TypeOK
    BY <1>0 DEF Init, TypeOK, Running
  <1>2. AccountInv
    <2>1. \A c \in Cands : ~Ahead(c)
      BY <1>0 DEF Ahead, Init
    <2>2. \A c \in Cands : WarmUps(c) = 0 /\ MeasuredRuns(c) = 0
      BY <2>1 DEF WarmUps, MeasuredRuns, Init
    <2>3. ASSUME NEW c \in Cands, NEW t \in TierSet
          PROVE  Accounted(c, t, 0, 0, 0)
      <3>1. \A v \in Samples : samples[c][t][v] = 0
        BY DEF Init
      <3>2. SumOver(samples[c][t], Samples) = 0
        BY <3>1, SumZero, SamplesFinite
      <3>3. launched[c][t] = 0 /\ discarded[c][t] = 0
        BY DEF Init
      <3>4. 0 = 0 + 0 + 0 + 0 /\ 0 <= (0 + 0) * (MaxFailures - 1)
        BY <1>0
      <3> QED BY <3>2, <3>3, <3>4 DEF Accounted, Tally
    <2>4. \A t \in TierSet : ~(t < 0)
      BY <1>0
    <2>5. \A c \in Cands : (IF c = Turn THEN failures ELSE 0) = 0
      BY DEF Init
    <2> QED BY <1>0, <2>2, <2>3, <2>4, <2>5 DEF AccountInv, Init, Finished, Running
  <1>3. PlaceInv
    <2>1. \A k \in Cands : RoundsAt(k) = 0
      BY DEF RoundsAt, Init
    <2>2. \A c, k \in Cands, t \in TierSet : position[c][t][k] = 0
      BY DEF Init
    <2>3. \A t \in TierSet : ~(t < 0)
      BY <1>0
    <2>4. ~Finished /\ tier = 0
      BY DEF Init, Finished, Running
    <2> QED BY <2>1, <2>2, <2>3, <2>4, SpreadStart DEF PlaceInv
  <1> QED BY <1>1, <1>2, <1>3 DEF IInv

\* A condition that is not over, and what is not about its counts, leaves the
\* places alone; so does giving up.
LEMMA Unmoved ==
    ASSUME PlaceInv, UNCHANGED <<tier, round, place, position>>,
           Finished' => Finished,
           pc' \in {"prepare", "run"} => pc \in {"prepare", "run"}
    PROVE  PlaceInv'
  <1>1. \A k \in Cands : RoundsAt(k)' = RoundsAt(k)
    BY DEF RoundsAt
  <1> QED BY <1>1 DEF PlaceInv

\* The books stay in order when nothing is counted.
LEMMA Uncounted ==
    ASSUME AccountInv,
           UNCHANGED <<tier, round, place, failures, samples, discarded, launched>>,
           Finished' => Finished,
           pc' = "prepare" => pc = "prepare",
           pc' \in {"prepare", "run"} => pc \in {"prepare", "run"}
    PROVE  AccountInv'
  <1>1. Offset' = Offset /\ Turn' = Turn
    BY DEF Offset, Turn
  <1>2. \A c \in Cands : Ahead(c)' = Ahead(c)
    BY <1>1 DEF Ahead
  <1>3. \A c \in Cands : WarmUps(c)' = WarmUps(c) /\ MeasuredRuns(c)' = MeasuredRuns(c)
    BY <1>2 DEF WarmUps, MeasuredRuns
  <1>4. \A c \in Cands, t \in TierSet : \A w, m, f :
           Accounted(c, t, w, m, f)' <=> Accounted(c, t, w, m, f)
    BY DEF Accounted
  <1> QED BY <1>1, <1>3, <1>4 DEF AccountInv

LEMMA PrepareKeeps == ASSUME IInv, Prepare PROVE IInv'
  <1>1. TypeOK'
    BY DEF IInv, TypeOK, Prepare, Exit
  <1>2. (Finished' => Finished) /\ (pc' = "prepare" => pc = "prepare")
        /\ pc = "prepare"
    BY DEF Prepare, Exit, Finished
  <1>3. UNCHANGED <<tier, round, place, failures, samples, discarded, launched,
                    position>>
    BY DEF Prepare
  <1>4. AccountInv'
    BY <1>2, <1>3, Uncounted DEF IInv
  <1>5. PlaceInv'
    BY <1>2, <1>3, Unmoved DEF IInv
  <1> QED BY <1>1, <1>4, <1>5 DEF IInv

\* What the runs that count leave of the types.
LEMMA TypesKept ==
    ASSUME TypeOK, pc = "run", exit' = exit, Launched, NextCondition,
           samples' \in [Cands -> [TierSet -> [Samples -> Nat]]],
           position' \in [Cands -> [TierSet -> [Cands -> Nat]]]
    PROVE  TypeOK'
  <1>1. Turn \in Cands
    BY TurnFacts
  <1>2. /\ tier' \in TierSet /\ round' \in 0..Runs /\ place' \in Cands
        /\ failures' = 0 /\ pc' \in {"run", "report"}
    BY Advances
  <1>3. launched' \in [Cands -> [TierSet -> Nat]]
    BY <1>1 DEF TypeOK, Launched
  <1>4. discarded' \in [Cands -> [TierSet -> Nat]]
    BY <1>1 DEF TypeOK, NextCondition, Discarded
  <1>5. exit' \in {Running, 0, 2, 4, 6} /\ exit' # 0
    BY DEF TypeOK
  <1> QED BY <1>2, <1>3, <1>4, <1>5 DEF TypeOK

LEMMA WarmedUpKeeps == ASSUME IInv, WarmedUp PROVE IInv'
  <1>1. /\ TypeOK /\ AccountInv /\ PlaceInv /\ pc = "run" /\ ~(round > 0)
        /\ Launched /\ NextCondition /\ exit' = exit
        /\ samples' = samples /\ position' = position
    BY DEF IInv, WarmedUp
  <1>2. /\ samples' \in [Cands -> [TierSet -> [Samples -> Nat]]]
        /\ position' \in [Cands -> [TierSet -> [Cands -> Nat]]]
    BY <1>1 DEF TypeOK
  <1>3. TypeOK'
    BY <1>1, <1>2, TypesKept
  <1>4. AccountInv'
    BY <1>1, <1>2, AccountsKept
  <1>5. PlaceInv'
    BY <1>1, PlacesKept
  <1> QED BY <1>3, <1>4, <1>5 DEF IInv

LEMMA MeasuredKeeps ==
    ASSUME IInv, NEW elapsed \in Samples, Measured(elapsed) PROVE IInv'
  <1>1. /\ TypeOK /\ AccountInv /\ PlaceInv /\ pc = "run" /\ round > 0
        /\ Launched /\ NextCondition /\ exit' = exit
        /\ samples' = [samples EXCEPT ![Turn][tier][elapsed] = @ + 1]
        /\ position' = [position EXCEPT ![Turn][tier][place] = @ + 1]
    BY DEF IInv, Measured
  <1>2. /\ Turn \in Cands /\ tier \in TierSet /\ place \in Cands
        /\ samples \in [Cands -> [TierSet -> [Samples -> Nat]]]
        /\ position \in [Cands -> [TierSet -> [Cands -> Nat]]]
    BY <1>1, TurnFacts DEF TypeOK
  <1>3. samples' \in [Cands -> [TierSet -> [Samples -> Nat]]]
    BY <1>1, <1>2
  <1>4. position' \in [Cands -> [TierSet -> [Cands -> Nat]]]
    BY <1>1, <1>2
  <1>5. TypeOK'
    BY <1>1, <1>3, <1>4, TypesKept
  <1>6. \A c \in Cands, t \in TierSet :
           c # Turn \/ t # tier => samples'[c][t] = samples[c][t]
    BY <1>1, <1>2
  <1>7. SumOver(samples'[Turn][tier], Samples)
           = SumOver(samples[Turn][tier], Samples) + 1
    <2>1. \A v \in Samples :
             /\ samples[Turn][tier][v] \in Int
             /\ samples'[Turn][tier][v] = IF v = elapsed
                                          THEN samples[Turn][tier][v] + 1
                                          ELSE samples[Turn][tier][v]
      BY <1>1, <1>2
    <2>2. PICK f, g : f = samples[Turn][tier] /\ g = samples'[Turn][tier]
      OBVIOUS
    <2>3. \A v \in Samples : /\ f[v] \in Int
                             /\ g[v] = IF v = elapsed THEN f[v] + 1 ELSE f[v]
      BY <2>1, <2>2
    <2>4. IsFiniteSet(Samples) /\ 1 \in Int
      BY SamplesFinite
    <2>5. SumOver(g, Samples) = SumOver(f, Samples) + 1
      BY <2>3, <2>4, SumChange
    <2> QED BY <2>2, <2>5
  <1>8. AccountInv'
    BY <1>1, <1>3, <1>6, <1>7, AccountsKept
  <1>9. PlaceInv'
    BY <1>1, PlacesKept
  <1> QED BY <1>5, <1>8, <1>9 DEF IInv

\* One more start and one more failure of the condition; the one that reaches
\* the limit ends the measurement.
LEMMA OperatorFailureKeeps ==
    ASSUME IInv, NEW pending \in BOOLEAN, OperatorFailure(pending) PROVE IInv'
  <1>0. /\ Turn \in Cands /\ tier \in TierSet /\ MaxFailures \in Nat \ {0}
        /\ launched \in [Cands -> [TierSet -> Nat]] /\ failures \in Nat
    BY TurnFacts, Bounds DEF IInv, TypeOK
  <1>1. /\ pc = "run" /\ failures' = failures + 1
        /\ launched' = [launched EXCEPT ![Turn][tier] = @ + 1]
        /\ UNCHANGED <<tier, round, place, samples, discarded, record, position>>
    BY DEF OperatorFailure, Launched
  <1>2. \/ pc' = "exit" /\ exit' = 4
        \/ pc' = "run" /\ exit' = exit /\ failures + 1 < MaxFailures
    BY <1>0, <1>1 DEF OperatorFailure, GivesUp, Exit
  <1>3. launched' \in [Cands -> [TierSet -> Nat]] /\ failures' \in Nat
    BY <1>0, <1>1
  <1>4. TypeOK'
    <2>1. exit' \in {Running, 0, 2, 4, 6} /\ (exit' = 0 => pc' = "exit")
          /\ pc' \in {"prepare", "run", "report", "exit"}
      BY <1>2, <1>1 DEF IInv, TypeOK
    <2> QED BY <1>1, <1>3, <2>1 DEF IInv, TypeOK
  <1>5. Finished' => Finished
    BY <1>1, <1>2 DEF Finished
  <1>6. PlaceInv'
    BY <1>1, <1>2, <1>5, Unmoved DEF IInv
  <1>7. AccountInv'
    <2>1. Offset' = Offset /\ Turn' = Turn
      BY <1>1 DEF Offset, Turn
    <2>2. \A c \in Cands : Ahead(c)' = Ahead(c)
      BY <1>1, <2>1 DEF Ahead
    <2>3. \A c \in Cands : /\ WarmUps(c)' = WarmUps(c)
                           /\ MeasuredRuns(c)' = MeasuredRuns(c)
      BY <1>1, <2>2 DEF WarmUps, MeasuredRuns
    <2>4. CASE pc' = "exit" /\ exit' = 4
      BY <2>4 DEF AccountInv, Finished
    <2>5. CASE pc' = "run" /\ exit' = exit /\ failures + 1 < MaxFailures
      <3>1. ~Finished'
        BY <1>1, <2>5 DEF Finished, IInv, TypeOK
      <3>2. failures' <= MaxFailures - 1
        BY <1>0, <1>1, <2>5
      <3>3. ASSUME NEW c \in Cands, NEW t \in TierSet, c # Turn \/ t # tier,
                   NEW w, NEW m, Accounted(c, t, w, m, 0)
            PROVE  Accounted(c, t, w, m, 0)'
        <4>1. launched'[c][t] = launched[c][t]
          BY <1>0, <1>1, <3>3
        <4> QED BY <1>1, <3>3, <4>1 DEF Accounted
      <3>4. ASSUME NEW w \in Nat, NEW m \in Nat, Accounted(Turn, tier, w, m, failures)
            PROVE  Tally(samples'[Turn][tier], launched'[Turn][tier],
                         discarded'[Turn][tier], w, m, failures')
        <4>1. launched'[Turn][tier] = launched[Turn][tier] + 1
              /\ launched[Turn][tier] \in Nat
          BY <1>0, <1>1
        <4>2. discarded[Turn][tier] \in Nat
          BY <1>0 DEF IInv, TypeOK
        <4> QED BY <1>0, <1>1, <3>4, <4>1, <4>2 DEF Accounted, Tally
      <3>5. WarmUps(Turn) \in Nat /\ MeasuredRuns(Turn) \in Nat
        <4>1. round \in Nat
          BY Bounds DEF IInv, TypeOK
        <4> QED BY <4>1 DEF WarmUps, MeasuredRuns
      <3>6. \A c \in Cands, t \in TierSet :
               /\ t < tier => Accounted(c, t, 1, Runs, 0)
               /\ t = tier => Accounted(c, t, WarmUps(c), MeasuredRuns(c),
                                        IF c = Turn THEN failures ELSE 0)
               /\ t > tier => Accounted(c, t, 0, 0, 0)
        BY <1>1 DEF IInv, AccountInv
      <3>7. \A c \in Cands, t \in TierSet :
               /\ t < tier => Accounted(c, t, 1, Runs, 0)'
               /\ t > tier => Accounted(c, t, 0, 0, 0)'
        <4>1. \A t \in TierSet : t < tier \/ t > tier => t # tier
          BY <1>0, Bounds
        <4> QED BY <3>3, <3>6, <4>1
      <3>8. \A c \in Cands :
               Tally(samples'[c][tier], launched'[c][tier], discarded'[c][tier],
                     WarmUps(c), MeasuredRuns(c),
                     IF c = Turn THEN failures' ELSE 0)
        <4> TAKE c \in Cands
        <4>1. CASE c = Turn
          BY <1>0, <3>4, <3>5, <3>6, <4>1
        <4>2. CASE c # Turn
          <5>1. /\ launched'[c][tier] = launched[c][tier]
                /\ samples' = samples /\ discarded' = discarded
            BY <1>0, <1>1, <4>2
          <5>2. Accounted(c, tier, WarmUps(c), MeasuredRuns(c), 0)
            BY <1>0, <3>6, <4>2
          <5> QED BY <4>2, <5>1, <5>2 DEF Accounted
        <4> QED BY <4>1, <4>2
      <3> QED BY <1>1, <2>1, <2>3, <2>5, <3>1, <3>2, <3>7, <3>8
          DEF AccountInv, Accounted
    <2> QED BY <1>2, <2>4, <2>5
  <1> QED BY <1>4, <1>6, <1>7 DEF IInv

LEMMA FairnessViolationKeeps == ASSUME IInv, FairnessViolation PROVE IInv'
  <1>1. /\ Turn \in Cands /\ tier \in TierSet
        /\ launched \in [Cands -> [TierSet -> Nat]]
    BY TurnFacts DEF IInv, TypeOK
  <1>2. /\ pc' = "exit" /\ exit' \in {2, 4}
        /\ launched' = [launched EXCEPT ![Turn][tier] = @ + 1]
        /\ UNCHANGED <<tier, round, place, failures, samples, discarded, position>>
    BY DEF FairnessViolation, Launched, Exit
  <1>3. launched' \in [Cands -> [TierSet -> Nat]]
    BY <1>1, <1>2
  <1>4. TypeOK'
    BY <1>2, <1>3 DEF IInv, TypeOK
  <1>5. AccountInv'
    BY <1>2 DEF AccountInv, Finished
  <1>6. PlaceInv'
    BY <1>2, Unmoved DEF IInv, Finished
  <1> QED BY <1>4, <1>5, <1>6 DEF IInv

LEMMA ReportKeeps == ASSUME IInv, Report PROVE IInv'
  <1>1. /\ pc = "report" /\ pc' = "exit" /\ exit' \in {0, 4}
        /\ UNCHANGED <<tier, round, place, failures, samples, discarded, launched,
                       position>>
    BY DEF Report, Exit
  <1>2. TypeOK'
    BY <1>1 DEF IInv, TypeOK
  <1>3. AccountInv'
    BY <1>1, Uncounted DEF IInv, Finished
  <1>4. PlaceInv'
    BY <1>1, Unmoved DEF IInv, Finished
  <1> QED BY <1>2, <1>3, <1>4 DEF IInv

LEMMA StutterKeeps == ASSUME IInv, UNCHANGED vars PROVE IInv'
  <1>1. UNCHANGED <<pc, exit, tier, round, place, failures, samples, discarded,
                    launched, position>>
    BY DEF vars
  <1>2. TypeOK'
    BY <1>1 DEF IInv, TypeOK
  <1>3. AccountInv'
    BY <1>1, Uncounted DEF IInv, Finished
  <1>4. PlaceInv'
    BY <1>1, Unmoved DEF IInv, Finished
  <1> QED BY <1>2, <1>3, <1>4 DEF IInv

LEMMA StepKeeps == IInv /\ [Next]_vars => IInv'
  BY PrepareKeeps, WarmedUpKeeps, MeasuredKeeps, OperatorFailureKeeps,
     FairnessViolationKeeps, ReportKeeps, StutterKeeps
  DEF Next

\* The invariant of measure_tiebreak_latency: types, what is accounted for of
\* every candidate and tier, and where the candidates ran.
THEOREM Invariance == Spec => []IInv
  BY InitHolds, StepKeeps, PTL DEF Spec

\* Every container that was started is a warm-up, one of the Runs samples or a
\* discarded run when the record is made, whatever failed in between.
THEOREM EveryRunIsAccounted == Spec => []EveryRunAccounted
  <1>1. ASSUME IInv PROVE EveryRunAccounted
    <2> SUFFICES ASSUME Finished, NEW c \in Cands, NEW t \in TierSet
                 PROVE  /\ Count(c, t, Samples) = Runs
                        /\ launched[c][t] = 1 + Runs + discarded[c][t]
                        /\ discarded[c][t] <= (1 + Runs) * (MaxFailures - 1)
      BY DEF EveryRunAccounted, Finished
    <2>1. Accounted(c, t, 1, Runs, 0)
      BY <1>1 DEF IInv, AccountInv
    <2>2. Count(c, t, Samples) = SumOver(samples[c][t], Samples)
      BY DEF Count, SumOver, MapThenSumSet, MapThenFoldSet
    <2>3. discarded[c][t] \in Nat
      BY <1>1 DEF IInv, TypeOK
    <2>4. launched[c][t] = 1 + Runs + discarded[c][t]
      BY <2>1, <2>3, Bounds DEF Accounted, Tally
    <2> QED BY <2>1, <2>2, <2>4 DEF Accounted, Tally
  <1> QED BY <1>1, Invariance, PTL

\* In a tier that is measured no candidate ran in a place more than once more
\* often than in any other.
THEOREM PositionsAreBalanced == Spec => []PositionsBalanced
  <1>1. ASSUME IInv PROVE PositionsBalanced
    <2> SUFFICES ASSUME NEW t \in TierSet, MeasuredAll(t),
                        NEW c \in Cands, NEW k \in Cands, NEW l \in Cands
                 PROVE  position[c][t][k] <= position[c][t][l] + 1
      BY DEF PositionsBalanced
    <2>1. t < tier \/ Finished
      BY <1>1, Bounds DEF MeasuredAll, Finished, IInv, TypeOK
    <2>2. /\ Spread(position[c][t][k], c, k, Runs)
          /\ Spread(position[c][t][l], c, l, Runs)
      BY <1>1, <2>1 DEF IInv, PlaceInv
    <2>3. position[c][t][k] \in Nat /\ position[c][t][l] \in Nat
      BY <1>1 DEF IInv, TypeOK
    <2> QED BY <2>2, <2>3, SpreadEven, Bounds
  <1> QED BY <1>1, Invariance, PTL

-----------------------------------------------------------------------------
(* Sorting.                                                                *)

\* Values in the order of size, v taking the places after those of smaller values.
Below(f, S, v) == SumOver(f, {w \in S : w < v})
UpTo(f, S, v) == SumOver(f, {w \in S : w <= v})

LEMMA Blocks ==
    ASSUME NEW S \in SUBSET Nat, IsFiniteSet(S), NEW f, \A x \in S : f[x] \in Nat
    PROVE  /\ \A v \in S : /\ Below(f, S, v) \in Nat /\ UpTo(f, S, v) \in Nat
                           /\ UpTo(f, S, v) = f[v] + Below(f, S, v)
                           /\ UpTo(f, S, v) <= SumOver(f, S)
           /\ \A v, w \in S : v < w => UpTo(f, S, v) <= Below(f, S, w)
           /\ SumOver(f, S) \in Nat
  <1>1. ASSUME NEW v \in S
        PROVE  /\ Below(f, S, v) \in Nat /\ UpTo(f, S, v) \in Nat
               /\ UpTo(f, S, v) = f[v] + Below(f, S, v)
               /\ UpTo(f, S, v) <= SumOver(f, S) /\ SumOver(f, S) \in Nat
    <2>1. PICK A, B : A = {w \in S : w < v} /\ B = {w \in S : w <= v}
      OBVIOUS
    <2>2. A \in SUBSET S /\ B \in SUBSET S /\ v \in B
      BY <2>1
    <2>3. B \ {v} = A
      <3>1. \A w \in S : w \in Nat /\ v \in Nat /\ (w < v <=> w <= v /\ w # v)
        OBVIOUS
      <3> QED BY <2>1, <3>1
    <2>4. IsFiniteSet(B) /\ \A y \in B : f[y] \in Int
      <3>1. IsFiniteSet(B)
        BY <2>2, FS_Subset
      <3>2. \A y \in S : f[y] \in Int
        OBVIOUS
      <3> QED BY <2>2, <3>1, <3>2
    <2>5. SumOver(f, B) = f[v] + SumOver(f, B \ {v})
      BY <2>2, <2>4, SumWithout
    <2>6. /\ SumOver(f, A) \in Nat /\ SumOver(f, B) \in Nat /\ SumOver(f, S) \in Nat
          /\ SumOver(f, B) <= SumOver(f, S)
      BY <2>2, SumSubset
    <2> QED BY <2>1, <2>3, <2>5, <2>6 DEF Below, UpTo
  <1>2. ASSUME NEW v \in S, NEW w \in S, v < w PROVE UpTo(f, S, v) <= Below(f, S, w)
    <2>1. PICK A, B : A = {u \in S : u <= v} /\ B = {u \in S : u < w}
      OBVIOUS
    <2>2. B \in SUBSET S /\ A \in SUBSET B
      <3>1. \A u \in S : u \in Nat /\ v \in Nat /\ w \in Nat /\ (u <= v => u < w)
        BY <1>2
      <3> QED BY <2>1, <3>1
    <2>3. IsFiniteSet(B) /\ \A y \in B : f[y] \in Nat
      BY <2>2, FS_Subset
    <2>4. SumOver(f, A) <= SumOver(f, B)
      BY <2>2, <2>3, SumSubset
    <2> QED BY <2>1, <2>4 DEF Below, UpTo
  <1>3. SumOver(f, S) \in Nat
    BY SumType
  <1> QED BY <1>1, <1>2, <1>3

\* Every place has its value.
LEMMA BlockOf ==
    ASSUME NEW S \in SUBSET Nat, IsFiniteSet(S), NEW f, \A x \in S : f[x] \in Nat,
           NEW i \in 1..SumOver(f, S)
    PROVE  \E v \in S : Below(f, S, v) < i /\ i <= UpTo(f, S, v)
  <1>1. SumOver(f, S) \in Nat /\ i \in Nat /\ 1 <= i /\ i <= SumOver(f, S)
    <2>1. PICK n : n = SumOver(f, S)
      OBVIOUS
    <2>2. n \in Nat
      BY <2>1, SumType
    <2>3. i \in 1..n
      BY <2>1
    <2>4. i \in Nat /\ 1 <= i /\ i <= n
      BY <2>2, <2>3
    <2> QED BY <2>1, <2>2, <2>4
  <1>2. PICK T : T = {v \in S : i <= UpTo(f, S, v)}
    OBVIOUS
  <1>3. S # {}
    <2> SUFFICES ASSUME S = {} PROVE FALSE
      OBVIOUS
    <2>1. SumOver(f, S) = 0
      BY SumRecursion
    <2> QED BY <1>1, <2>1
  <1>4. T # {}
    <2>1. PICK x \in S : \A y \in S : y <= x
      BY <1>3, GreatestElement
    <2>2. {w \in S : w <= x} = S
      BY <2>1
    <2>3. UpTo(f, S, x) = SumOver(f, S)
      BY <2>2 DEF UpTo
    <2> QED BY <1>1, <1>2, <2>1, <2>3
  <1>5. T \in SUBSET Nat
    BY <1>2
  <1>6. PICK v \in T : \A w \in T : v <= w
    BY <1>4, <1>5, LeastElement
  <1>7. v \in S /\ i <= UpTo(f, S, v) /\ Below(f, S, v) \in Nat
    BY <1>2, <1>6, Blocks
  <1>8. Below(f, S, v) < i
    <2>1. PICK A : A = {w \in S : w < v}
      OBVIOUS
    <2>2. A \in SUBSET S /\ A \in SUBSET Nat /\ IsFiniteSet(A)
      BY <2>1, FS_Subset
    <2>3. CASE A = {}
      <3>1. SumOver(f, A) = 0
        BY <2>2, <2>3, SumRecursion
      <3> QED BY <1>1, <2>1, <3>1 DEF Below
    <2>4. CASE A # {}
      <3>1. PICK u \in A : \A w \in A : w <= u
        BY <2>2, <2>4, GreatestElement
      <3>2. u \in S /\ u < v /\ \A w \in S : w <= u <=> w < v
        BY <1>7, <2>1, <3>1
      <3>3. {w \in S : w <= u} = {w \in S : w < v}
        BY <3>2
      <3>4. Below(f, S, v) = UpTo(f, S, u)
        BY <3>3 DEF Below, UpTo
      <3>5. u \notin T
        BY <1>5, <1>6, <3>2
      <3>6. UpTo(f, S, u) \in Nat /\ ~(i <= UpTo(f, S, u))
        BY <1>2, <3>2, <3>5, Blocks
      <3> QED BY <1>1, <3>4, <3>6
    <2> QED BY <2>3, <2>4
  <1> QED BY <1>7, <1>8

\* How often a sequence of n values has v, and the places where it has one of B.
Often(n, s, v) == Cardinality({i \in 1..n : s[i] = v})
Places(n, s, B) == {i \in 1..n : s[i] \in B}

\* sorted(): any numbers have an order that does not decrease.
LEMMA SortedExists ==
    ASSUME NEW S \in SUBSET Nat, IsFiniteSet(S), NEW f, \A x \in S : f[x] \in Nat,
           NEW n \in Nat, n = SumOver(f, S)
    PROVE  \E s \in [1..n -> S] :
              /\ \A i, j \in 1..n : i < j => s[i] <= s[j]
              /\ \A v \in S : Often(n, s, v) = f[v]
  <1> DEFINE In(i, v) == Below(f, S, v) < i /\ i <= UpTo(f, S, v)
             s == [i \in 1..n |-> CHOOSE v \in S : In(i, v)]
  <1>1. \A i \in 1..n : \E v \in S : In(i, v)
    BY BlockOf
  <1>2. \A i \in 1..n : s[i] \in S /\ In(i, s[i])
    BY <1>1
  <1>3. /\ \A v \in S : /\ Below(f, S, v) \in Nat /\ UpTo(f, S, v) \in Nat
                        /\ UpTo(f, S, v) = f[v] + Below(f, S, v)
                        /\ UpTo(f, S, v) <= n
        /\ \A v, w \in S : v < w => UpTo(f, S, v) <= Below(f, S, w)
    BY Blocks
  <1>4. s \in [1..n -> S]
    BY <1>2
  <1> HIDE DEF s
  <1>5. ASSUME NEW i \in 1..n, NEW j \in 1..n, i <= j PROVE s[i] <= s[j]
    <2>1. PICK v \in S, w \in S : v = s[i] /\ w = s[j]
      BY <1>2
    <2>2. Below(f, S, v) < i /\ j <= UpTo(f, S, w)
      BY <1>2, <2>1
    <2>3. ~(w < v)
      <3> SUFFICES ASSUME w < v PROVE FALSE
        OBVIOUS
      <3>1. UpTo(f, S, w) <= Below(f, S, v)
        BY <1>3
      <3>2. UpTo(f, S, w) \in Nat /\ Below(f, S, v) \in Nat
        BY <1>3
      <3> QED BY <1>5, <2>2, <3>1, <3>2
    <2> QED BY <2>1, <2>3
  <1>6. ASSUME NEW v \in S
        PROVE  Cardinality({i \in 1..n : s[i] = v}) = f[v]
    <2>1. PICK a \in Nat, b \in Nat : a = Below(f, S, v) /\ b = UpTo(f, S, v)
      BY <1>3
    <2>2. b = f[v] + a /\ b <= n /\ f[v] \in Nat
      BY <1>3, <2>1
    <2>3. ASSUME NEW i \in (a + 1)..b PROVE i \in 1..n /\ s[i] = v
      <3>1. i \in 1..n
        BY <2>2
      <3>2. PICK w \in S : w = s[i]
        BY <1>2, <3>1
      <3>3. Below(f, S, w) < i /\ i <= UpTo(f, S, w)
        BY <1>2, <3>1, <3>2
      <3>4. PICK x \in Nat, y \in Nat : x = Below(f, S, w) /\ y = UpTo(f, S, w)
        BY <1>3
      <3>5. (v < w => b <= x) /\ (w < v => y <= a)
        BY <1>3, <2>1, <3>4
      <3>6. ~(v < w) /\ ~(w < v)
        BY <2>2, <3>3, <3>4, <3>5
      <3> QED BY <3>1, <3>2, <3>6
    <2>4. ASSUME NEW i \in 1..n, s[i] = v PROVE i \in (a + 1)..b
      BY <1>2, <2>1, <2>4
    <2>5. {i \in 1..n : s[i] = v} = (a + 1)..b
      BY <2>3, <2>4
    <2>6. Cardinality((a + 1)..b) = IF a + 1 > b THEN 0 ELSE b - (a + 1) + 1
      <3>1. a + 1 \in Int /\ b \in Int
        OBVIOUS
      <3> QED BY <3>1, FS_Interval
    <2>7. f[v] = IF a + 1 > b THEN 0 ELSE b - (a + 1) + 1
      BY <2>2
    <2> QED BY <2>5, <2>6, <2>7
  <1>7. \A i, j \in 1..n : i < j => s[i] <= s[j]
    BY <1>5
  <1>8. \A v \in S : Often(n, s, v) = f[v]
    BY <1>6 DEF Often
  <1> QED BY <1>4, <1>7, <1>8

\* Adding up how often values come is counting the places that have one of them.
LEMMA SumIsCount ==
    ASSUME NEW S \in SUBSET Nat, IsFiniteSet(S), NEW n \in Nat,
           NEW s \in [1..n -> S], NEW f, \A v \in S : Often(n, s, v) = f[v],
           NEW A \in SUBSET S
    PROVE  SumOver(f, A) = Cardinality(Places(n, s, A))
  <1> USE DEF Often, Places
  <1> DEFINE At(B) == Places(n, s, B)
             F == {B \in SUBSET S : SumOver(f, B) # Cardinality(At(B))}
  <1>0. IsFiniteSet(1..n)
    <2>1. 1 \in Int /\ n \in Int
      OBVIOUS
    <2> QED BY <2>1, FS_Interval
  <1>1. \A B : IsFiniteSet(At(B)) /\ Cardinality(At(B)) \in Nat
    <2> TAKE B
    <2>1. At(B) \in SUBSET (1..n)
      OBVIOUS
    <2> HIDE DEF At
    <2>2. IsFiniteSet(At(B))
      BY <1>0, <2>1, FS_Subset
    <2> QED BY <2>2, FS_CardinalityType
  <1>2. \A v \in S : f[v] \in Nat
    <2> TAKE v \in S
    <2>1. {i \in 1..n : s[i] = v} = At({v})
      OBVIOUS
    <2> HIDE DEF At
    <2> QED BY <1>1, <2>1
  <1>3. ASSUME F # {} PROVE FALSE
    <2>1. PICK B \in F : \A x \in B : B \ {x} \notin F
      <3>1. F \in SUBSET SUBSET S
        OBVIOUS
      <3> HIDE DEF F
      <3> QED BY <1>3, <3>1, SmallestSet
    <2>2. B \in SUBSET S /\ IsFiniteSet(B) /\ SumOver(f, B) # Cardinality(At(B))
      BY <2>1, FS_Subset
    <2>3. CASE B = {}
      <3>1. At(B) = {}
        BY <2>3
      <3>2. SumOver(f, B) = 0
        BY <2>2, <2>3, SumRecursion
      <3>3. Cardinality({}) = 0
        BY FS_EmptySet
      <3> HIDE DEF At
      <3> QED BY <2>2, <3>1, <3>2, <3>3
    <2>4. CASE B # {}
      <3>1. PICK x \in B : TRUE
        BY <2>4
      <3>2. \A y \in B : f[y] \in Int
        BY <1>2, <2>2
      <3>3. SumOver(f, B) = f[x] + SumOver(f, B \ {x})
        BY <2>2, <3>1, <3>2, SumWithout
      <3>4. SumOver(f, B \ {x}) = Cardinality(At(B \ {x}))
        BY <2>1, <2>2, <3>1
      <3>5. /\ At(B) = At({x}) \cup At(B \ {x}) /\ At({x}) \cap At(B \ {x}) = {}
            /\ At({x}) = {i \in 1..n : s[i] = x}
        BY <2>2, <3>1
      <3>6. Cardinality(At({x})) = f[x]
        BY <2>2, <3>1, <3>5
      <3> HIDE DEF At
      <3>7. /\ Cardinality(At({x}) \cup At(B \ {x})) = Cardinality(At({x}))
                  + Cardinality(At(B \ {x})) - Cardinality(At({x}) \cap At(B \ {x}))
        BY <1>1, FS_Union
      <3>8. Cardinality(At({x}) \cap At(B \ {x})) = 0
        BY <3>5, FS_EmptySet
      <3>9. Cardinality(At({x})) \in Nat /\ Cardinality(At(B \ {x})) \in Nat
        BY <1>1
      <3>10. Cardinality(At(B)) = f[x] + Cardinality(At(B \ {x}))
        <4>1. PICK a, b : a = Cardinality(At({x})) /\ b = Cardinality(At(B \ {x}))
          OBVIOUS
        <4>2. Cardinality(At(B)) = a + b - 0 /\ a \in Nat /\ b \in Nat
          BY <3>5, <3>7, <3>8, <3>9, <4>1
        <4>3. Cardinality(At(B)) = a + b
          BY <4>2
        <4> QED BY <3>6, <4>1, <4>3
      <3> QED BY <2>2, <3>3, <3>4, <3>10
    <2> QED BY <2>3, <2>4
  <1>4. A \notin F
    BY <1>3
  <1> QED BY <1>4

\* The values that are not greater, and not smaller, than m; and the samples f,
\* n in all, of which more than half are in each.
NotAbove(S, m) == {v \in S : v <= m}
NotBelow(S, m) == {v \in S : v >= m}
Central(S, f, n, m) ==
    2 * SumOver(f, NotAbove(S, m)) > n /\ 2 * SumOver(f, NotBelow(S, m)) > n

\* The n samples f in an order that does not decrease.
InOrder(S, f, n, s) ==
    /\ s \in [1..n -> S]
    /\ \A i, j \in 1..n : i < j => s[i] <= s[j]
    /\ \A v \in S : Often(n, s, v) = f[v]

\* Of an odd number of samples in order, the middle one is the only value that a
\* majority is not above and a majority is not below.
LEMMA MiddleOfSorted ==
    ASSUME NEW S \in SUBSET Nat, IsFiniteSet(S), NEW n \in Nat, n % 2 = 1,
           NEW s, NEW f, InOrder(S, f, n, s)
    PROVE  /\ s[n \div 2 + 1] \in S
           /\ Central(S, f, n, s[n \div 2 + 1])
           /\ \A m \in S : Central(S, f, n, m) => m = s[n \div 2 + 1]
  <1> s \in [1..n -> S] /\ \A i, j \in 1..n : i < j => s[i] <= s[j]
    BY DEF InOrder
  <1> \A v \in S : Often(n, s, v) = f[v]
    BY DEF InOrder
  <1>0. \A B \in SUBSET S : SumOver(f, B) = Cardinality(Places(n, s, B))
    BY SumIsCount
  <1> USE DEF Places, NotAbove, NotBelow
  <1> DEFINE At(B) == Places(n, s, B)
             Low(m) == NotAbove(S, m)
             High(m) == NotBelow(S, m)
  <1>1. PICK q \in Nat : n = 2 * q + 1 /\ q = n \div 2
    OBVIOUS
  <1>2. PICK k \in 1..n, x \in S : k = q + 1 /\ k = n \div 2 + 1 /\ x = s[k]
    <2>1. q + 1 \in 1..n /\ q + 1 = n \div 2 + 1
      BY <1>1
    <2>2. s[q + 1] \in S
      BY <2>1
    <2> QED BY <2>1, <2>2
  <1>4. IsFiniteSet(1..n) /\ Cardinality(1..n) = n
    <2>1. /\ 1 \in Int /\ n \in Int
      BY <1>1
    <2>2. IsFiniteSet(1..n) /\ Cardinality(1..n) = IF 1 > n THEN 0 ELSE n - 1 + 1
      BY <2>1, FS_Interval
    <2>3. (IF 1 > n THEN 0 ELSE n - 1 + 1) = n
      BY <1>1
    <2> QED BY <2>2, <2>3
  <1>5. \A B : IsFiniteSet(At(B)) /\ Cardinality(At(B)) \in Nat
    <2> TAKE B
    <2>1. At(B) \in SUBSET (1..n)
      OBVIOUS
    <2> HIDE DEF At
    <2>2. IsFiniteSet(At(B))
      BY <1>4, <2>1, FS_Subset
    <2> QED BY <2>2, FS_CardinalityType
  <1>6. \A m : Low(m) \in SUBSET S /\ High(m) \in SUBSET S
    OBVIOUS
  <1>7. 1..k \subseteq At(Low(x)) /\ k..n \subseteq At(High(x))
    <2>1. \A i \in 1..k : i \in 1..n /\ s[i] \in S /\ (i = k \/ i < k)
      BY <1>1, <1>2
    <2>2. \A i \in k..n : i \in 1..n /\ s[i] \in S /\ (i = k \/ k < i)
      BY <1>1, <1>2
    <2>3. \A i \in 1..k : s[i] <= x
      BY <1>2, <2>1
    <2>4. \A i \in k..n : s[i] >= x
      BY <1>2, <2>2
    <2> QED BY <2>1, <2>2, <2>3, <2>4
  <1>8. Cardinality(1..k) = q + 1 /\ Cardinality(k..n) = q + 1
    <2>1. 1 \in Int /\ k \in Int /\ n \in Int
      BY <1>1, <1>2
    <2>2. /\ Cardinality(1..k) = IF 1 > k THEN 0 ELSE k - 1 + 1
          /\ Cardinality(k..n) = IF k > n THEN 0 ELSE n - k + 1
      BY <2>1, FS_Interval
    <2> QED BY <1>1, <1>2, <2>2
  <1>9. Cardinality(At(Low(x))) >= q + 1 /\ Cardinality(At(High(x))) >= q + 1
    <2> HIDE DEF At, Low, High
    <2>1. Cardinality(1..k) <= Cardinality(At(Low(x)))
      BY <1>5, <1>7, FS_Subset
    <2>2. Cardinality(k..n) <= Cardinality(At(High(x)))
      BY <1>5, <1>7, FS_Subset
    <2> QED BY <1>5, <1>8, <2>1, <2>2
  <1>10. ASSUME NEW a \in S, NEW b \in S, a < b,
                2 * SumOver(f, Low(a)) > n, 2 * SumOver(f, High(b)) > n
         PROVE  FALSE
    <2>1. At(Low(a)) \subseteq 1..n /\ At(High(b)) \subseteq 1..n
      OBVIOUS
    <2>2. At(Low(a)) \cap At(High(b)) = {}
      <3>1. \A v \in S : v \in Nat /\ ~(v <= a /\ v >= b)
        BY <1>10
      <3> QED BY <3>1
    <2>3. SumOver(f, Low(a)) = Cardinality(At(Low(a))) /\ SumOver(f, High(b)) = Cardinality(At(High(b)))
      BY <1>0, <1>6
    <2> HIDE DEF At, Low, High
    <2>4. PICK c \in Nat, d \in Nat : c = Cardinality(At(Low(a))) /\ d = Cardinality(At(High(b)))
      BY <1>5
    <2>5. c + d > n
      BY <1>1, <1>10, <2>3, <2>4
    <2>6. Cardinality(At(Low(a))) + Cardinality(At(High(b))) > Cardinality(1..n)
      BY <1>4, <2>4, <2>5
    <2> QED BY <1>4, <2>1, <2>2, <2>6, FS_MajoritiesIntersect
  <1>11. 2 * SumOver(f, Low(x)) > n /\ 2 * SumOver(f, High(x)) > n
    <2>1. SumOver(f, Low(x)) = Cardinality(At(Low(x))) /\ SumOver(f, High(x)) = Cardinality(At(High(x)))
      BY <1>0, <1>6
    <2> HIDE DEF At, Low, High
    <2>2. PICK c \in Nat, d \in Nat : c = Cardinality(At(Low(x))) /\ d = Cardinality(At(High(x)))
      BY <1>5
    <2>3. 2 * c > n /\ 2 * d > n
      <3>1. c >= q + 1 /\ d >= q + 1
        BY <1>9, <2>2
      <3> QED BY <1>1, <3>1
    <2> QED BY <2>1, <2>2, <2>3
  <1>12. ASSUME NEW m \in S, 2 * SumOver(f, Low(m)) > n, 2 * SumOver(f, High(m)) > n
         PROVE  m = x
    <2>1. ~(m < x) /\ ~(x < m)
      BY <1>10, <1>11, <1>12
    <2>2. m \in Nat /\ x \in Nat
      OBVIOUS
    <2> QED BY <2>1, <2>2
  <1> QED BY <1>1, <1>2, <1>11, <1>12 DEF Central

-----------------------------------------------------------------------------
(* The ranking.                                                            *)

LEMMA CountIsSum == \A c, t, S : Count(c, t, S) = SumOver(samples[c][t], S)
  BY DEF Count, SumOver, MapThenSumSet, MapThenFoldSet

\* The samples of a measured tier can be put in order.
LEMMA SamplesInOrder ==
    ASSUME IInv, pc = "report", NEW c \in Cands, NEW t \in TierSet
    PROVE  InOrder(Samples, samples[c][t], Runs, SortedSamples(c, t))
  <1> DEFINE Good(s) ==
                /\ \A i, j \in 1..Runs : i < j => s[i] <= s[j]
                /\ \A v \in Samples : Cardinality({i \in 1..Runs : s[i] = v}) = samples[c][t][v]
  <1>1. samples[c][t] \in [Samples -> Nat]
    BY DEF IInv, TypeOK
  <1>2. SumOver(samples[c][t], Samples) = Runs
    <2>1. Accounted(c, t, 1, Runs, 0)
      BY DEF IInv, AccountInv, Finished
    <2> QED BY <2>1 DEF Accounted, Tally
  <1>3. Samples \in SUBSET Nat /\ IsFiniteSet(Samples) /\ Runs \in Nat
    BY SamplesFinite, TiebreakAssumption DEF TiebreakAssumption, Samples
  <1>4. PICK f : f = samples[c][t]
    OBVIOUS
  <1>5. \A x \in Samples : f[x] \in Nat
    BY <1>1, <1>4
  <1>6. \E s \in [1..Runs -> Samples] :
           /\ \A i, j \in 1..Runs : i < j => s[i] <= s[j]
           /\ \A v \in Samples : Often(Runs, s, v) = f[v]
    BY <1>2, <1>3, <1>4, <1>5, SortedExists
  <1>7. \E s \in [1..Runs -> Samples] : Good(s)
    BY <1>4, <1>6 DEF Often
  <1>8. SortedSamples(c, t) \in [1..Runs -> Samples] /\ Good(SortedSamples(c, t))
    <2>1. SortedSamples(c, t) = CHOOSE s \in [1..Runs -> Samples] : Good(s)
      BY DEF SortedSamples
    <2> HIDE DEF Good
    <2> QED BY <1>7, <2>1
  <1> QED BY <1>8 DEF InOrder, Often

\* statistics.median of an odd number of samples is the value that a majority is
\* not above and a majority not below.
LEMMA MedianIsMiddle ==
    ASSUME IInv, pc = "report", NEW c \in Cands, NEW t \in TierSet
    PROVE  Median(c, t) = MiddleSample(c, t) /\ Median(c, t) \in Nat
  <1> DEFINE f == samples[c][t]
             Middle(m) == /\ 2 * Count(c, t, {v \in Samples : v <= m}) > Runs
                          /\ 2 * Count(c, t, {v \in Samples : v >= m}) > Runs
  <1>1. Samples \in SUBSET Nat /\ IsFiniteSet(Samples) /\ Runs \in Nat /\ Runs % 2 = 1
    BY SamplesFinite, TiebreakAssumption DEF TiebreakAssumption, Samples
  <1>2. \A m : Middle(m) <=> Central(Samples, f, Runs, m)
    BY CountIsSum DEF Central, NotAbove, NotBelow
  <1>3. InOrder(Samples, f, Runs, SortedSamples(c, t))
    BY SamplesInOrder
  <1>4. MiddleSample(c, t) = CHOOSE m \in Samples : Middle(m)
    BY DEF MiddleSample
  <1> HIDE DEF f, Middle
  <1>5. /\ Median(c, t) \in Samples
        /\ Central(Samples, f, Runs, Median(c, t))
        /\ \A m \in Samples : Central(Samples, f, Runs, m) => m = Median(c, t)
    BY <1>1, <1>3, MiddleOfSorted DEF Median
  <1>6. MiddleSample(c, t) = Median(c, t)
    BY <1>2, <1>4, <1>5
  <1> QED BY <1>1, <1>5, <1>6

LEMMA TotalIsMiddle ==
    ASSUME IInv, pc = "report", NEW c \in Cands
    PROVE  Total(c) = MiddleTotal(c) /\ Total(c) \in Nat
  <1>1. PICK f, g : /\ f = [t \in TierSet |-> Median(c, t)]
                    /\ g = [t \in TierSet |-> MiddleSample(c, t)]
    OBVIOUS
  <1>2. \A t \in TierSet : f[t] = g[t] /\ f[t] \in Nat
    BY <1>1, MedianIsMiddle
  <1>3. DOMAIN f = TierSet /\ DOMAIN g = TierSet
    BY <1>1
  <1>4. IsFiniteSet(TierSet)
    <2>1. 0 \in Int /\ TierCount - 1 \in Int
      BY Bounds
    <2> QED BY <2>1, Bounds, FS_Interval
  <1>5. Total(c) = SumOver(f, TierSet) /\ MiddleTotal(c) = SumOver(g, TierSet)
    BY <1>1, <1>3, SumFunctionIsSum DEF Total, MiddleTotal
  <1>6. SumOver(f, TierSet) = SumOver(g, TierSet) /\ SumOver(f, TierSet) \in Nat
    BY <1>2, <1>4, SumEqual, SumType
  <1> QED BY <1>5, <1>6

LEMMA Product ==
    ASSUME NEW n \in Nat \ {0}, NEW q \in Int
    PROVE  (q >= 0 => n * q >= 0) /\ (q >= 1 => n * q >= n)
  OBVIOUS

\* Rounding keeps the order, and times a tick apart stay apart.
LEMMA Rounding ==
    ASSUME NEW a \in Nat, NEW b \in Nat
    PROVE  /\ ComparisonTime(a) \in Int
           /\ a <= b => ComparisonTime(a) <= ComparisonTime(b)
           /\ b - a >= Resolution => ComparisonTime(a) < ComparisonTime(b)
  <1>1. PICK n \in Nat \ {0} : n = Resolution
    BY TiebreakAssumption DEF TiebreakAssumption
  <1>2. PICK h \in Nat : h = n \div 2
    OBVIOUS
  <1>3. ASSUME NEW x \in Nat
        PROVE  \E q \in Int, r \in 0..(n - 1) :
                  /\ x + h = n * q + r
                  /\ ComparisonTime(x) = n * q
    <2>1. PICK y \in Nat : y = x + h
      OBVIOUS
    <2>2. y = n * (y \div n) + (y % n) /\ y % n \in 0..(n - 1) /\ y \div n \in Int
      OBVIOUS
    <2>3. ComparisonTime(x) = (y \div n) * n
      BY <1>1, <1>2, <2>1 DEF ComparisonTime
    <2>4. (y \div n) * n = n * (y \div n)
      BY <2>2
    <2> QED BY <2>1, <2>2, <2>3, <2>4
  <1>4. PICK qa \in Int, ra \in 0..(n - 1) :
           a + h = n * qa + ra /\ ComparisonTime(a) = n * qa
    BY <1>3
  <1>5. PICK qb \in Int, rb \in 0..(n - 1) :
           b + h = n * qb + rb /\ ComparisonTime(b) = n * qb
    BY <1>3
  <1>6. /\ qb - qa \in Int /\ n * qa \in Int /\ n * qb \in Int
        /\ n * (qb - qa) = n * qb - n * qa
        /\ n * (qa - qb) = n * qa - n * qb
    BY Distribution
  <1>7. b - a = (n * qb - n * qa) + (rb - ra)
    BY <1>4, <1>5, <1>6
  <1>8. /\ qb >= qa => n * qb - n * qa >= 0
        /\ qb >= qa + 1 => n * qb - n * qa >= n
        /\ qa >= qb => n * qa - n * qb >= 0
        /\ qa >= qb + 1 => n * qa - n * qb >= n
    <2>1. /\ qb - qa >= 0 => n * (qb - qa) >= 0
          /\ qb - qa >= 1 => n * (qb - qa) >= n
      BY Product
    <2>2. /\ qa - qb >= 0 => n * (qa - qb) >= 0
          /\ qa - qb >= 1 => n * (qa - qb) >= n
      BY Product
    <2> QED BY <1>6, <2>1, <2>2
  <1>9. PICK x \in Int, y \in Int : x = n * qa /\ y = n * qb
    BY <1>6
  <1>10. ASSUME a <= b PROVE x <= y
    <2>1. ~(qa >= qb + 1)
      BY <1>7, <1>8, <1>9, <1>10
    <2> QED BY <1>8, <1>9, <2>1
  <1>11. ASSUME b - a >= n PROVE x < y
    <2>1. ~(qa >= qb)
      BY <1>7, <1>8, <1>9, <1>11
    <2> QED BY <1>8, <1>9, <2>1
  <1> QED BY <1>1, <1>4, <1>5, <1>9, <1>10, <1>11

LEMMA CandsFinite == IsFiniteSet(Cands) /\ Cardinality(Cands) = Candidates
  <1>1. PICK n \in Nat \ {0} : n = Candidates
    BY Bounds
  <1>2. 0 \in Int /\ n - 1 \in Int
    OBVIOUS
  <1>3. IsFiniteSet(0..(n - 1)) /\ Cardinality(0..(n - 1)) = IF 0 > n - 1 THEN 0 ELSE n - 1 - 0 + 1
    BY <1>2, FS_Interval
  <1>4. (IF 0 > n - 1 THEN 0 ELSE n - 1 - 0 + 1) = n
    OBVIOUS
  <1> QED BY <1>1, <1>3, <1>4, Bounds

\* Before is a strict order of all candidates.
LEMMA BeforeOrders ==
    ASSUME NEW time \in [Cands -> Int]
    PROVE  /\ \A c \in Cands : ~Before(time, c, c)
           /\ \A c, d \in Cands : c # d => Before(time, c, d) \/ Before(time, d, c)
           /\ \A c, d \in Cands : ~(Before(time, c, d) /\ Before(time, d, c))
           /\ \A c, d, e \in Cands :
                 Before(time, c, d) /\ Before(time, d, e) => Before(time, c, e)
  <1>1. \A c \in Cands : c \in Int /\ time[c] \in Int
    BY Bounds
  <1> QED BY <1>1 DEF Before

\* rows.sort: the candidates can be listed in this order.
LEMMA ListedInOrder ==
    ASSUME NEW time \in [Cands -> Int]
    PROVE  /\ Listed(time) \in [1..Candidates -> Cands]
           /\ \A i, j \in 1..Candidates :
                 i < j => Before(time, Listed(time)[i], Listed(time)[j])
  <1> DEFINE Sorted(rows) == \A i, j \in 1..Candidates :
                                i < j => Before(time, rows[i], rows[j])
             First(c) == {d \in Cands : ~Before(time, c, d)}
             pos == [c \in Cands |-> Cardinality(First(c))]
  <1>1. \A c \in Cands : /\ First(c) \in SUBSET Cands /\ c \in First(c)
    BY BeforeOrders
  <1>2. \A c, d \in Cands : Before(time, c, d) => First(c) \subseteq First(d) /\ d \notin First(c)
    BY BeforeOrders
  <1> HIDE DEF First
  <1>3. ASSUME NEW c \in Cands PROVE pos[c] \in 1..Candidates
    <2>1. IsFiniteSet(First(c)) /\ Cardinality(First(c)) <= Cardinality(Cands)
      BY <1>1, CandsFinite, FS_Subset
    <2>2. Cardinality(First(c)) \in Nat /\ Cardinality(First(c)) # 0
      BY <1>1, <2>1, FS_CardinalityType, FS_EmptySet
    <2>3. PICK k \in Nat, n \in Nat : k = Cardinality(First(c)) /\ n = Candidates
      BY <2>2, Bounds
    <2>4. k <= n /\ k # 0
      BY <2>1, <2>2, <2>3, CandsFinite
    <2>5. k \in 1..n
      BY <2>4
    <2> QED BY <2>3, <2>5
  <1>4. ASSUME NEW c \in Cands, NEW d \in Cands, Before(time, c, d) PROVE pos[c] < pos[d]
    <2>1. IsFiniteSet(First(d)) /\ First(c) \in SUBSET First(d) /\ First(c) # First(d)
      BY <1>1, <1>2, <1>4, CandsFinite, FS_Subset
    <2>2. /\ Cardinality(First(c)) <= Cardinality(First(d))
          /\ Cardinality(First(c)) # Cardinality(First(d))
      BY <2>1, FS_Subset
    <2>3. pos[c] \in Int /\ pos[d] \in Int
      BY <1>3, Bounds
    <2> QED BY <2>2, <2>3
  <1>5. pos \in [Cands -> 1..Candidates]
    BY <1>3
  <1> HIDE DEF pos
  <1>6. \A c, d \in Cands : pos[c] = pos[d] => c = d
    <2>1. \A c \in Cands : pos[c] \in Int
      BY <1>5, Bounds
    <2> QED BY <1>4, <2>1, BeforeOrders
  <1>7. \A i \in 1..Candidates : \E c \in Cands : pos[c] = i
    <2>1. pos \in Injection(Cands, 1..Candidates)
      BY <1>5, <1>6 DEF Injection, IsInjective
    <2>2. PICK n \in Nat \ {0} : n = Candidates
      BY Bounds
    <2>3. IsFiniteSet(1..n) /\ Cardinality(1..n) = n
      <3>1. 1 \in Int /\ n \in Int
        OBVIOUS
      <3>2. IsFiniteSet(1..n) /\ Cardinality(1..n) = IF 1 > n THEN 0 ELSE n - 1 + 1
        BY <3>1, FS_Interval
      <3> QED BY <3>2
    <2>4. pos \in Surjection(Cands, 1..Candidates)
      BY <2>1, <2>2, <2>3, CandsFinite, FS_Injection
    <2> QED BY <2>4 DEF Surjection
  <1> DEFINE rows == [i \in 1..Candidates |-> CHOOSE c \in Cands : pos[c] = i]
  <1>8. \A i \in 1..Candidates : rows[i] \in Cands /\ pos[rows[i]] = i
    BY <1>7
  <1>9. rows \in [1..Candidates -> Cands]
    BY <1>8
  <1> HIDE DEF rows
  <1>10. Sorted(rows)
    <2> SUFFICES ASSUME NEW i \in 1..Candidates, NEW j \in 1..Candidates, i < j
                 PROVE  Before(time, rows[i], rows[j])
      OBVIOUS
    <2>1. PICK c \in Cands, d \in Cands : c = rows[i] /\ d = rows[j] /\ pos[c] = i /\ pos[d] = j
      BY <1>8
    <2>2. i \in Int /\ j \in Int
      BY Bounds
    <2>3. c # d /\ ~(pos[d] < pos[c])
      BY <2>1, <2>2
    <2>4. Before(time, c, d)
      BY <1>4, <2>3, BeforeOrders
    <2> QED BY <2>1, <2>4
  <1>11. Listed(time) = CHOOSE r \in [1..Candidates -> Cands] : Sorted(r)
    BY DEF Listed
  <1>12. Listed(time) \in [1..Candidates -> Cands] /\ Sorted(Listed(time))
    <2> HIDE DEF Sorted
    <2> QED BY <1>9, <1>10, <1>11
  <1> QED BY <1>12

\* The candidates with a lower comparison time.
Faster(time, c) == {d \in Cands : time[d] < time[c]}

LEMMA FirstOf ==
    ASSUME NEW n \in Nat, NEW rows \in [1..n -> Cands], NEW time, NEW c,
           NEW r \in 1..n, time[rows[r]] = time[c],
           \A i \in 1..n : time[rows[i]] = time[c] => r <= i
    PROVE  Rank(time, rows, c) = r
  <1> DEFINE I == {i \in 1..n : time[rows[i]] = time[c]}
  <1>1. Len(rows) = n
    OBVIOUS
  <1>2. r \in I /\ \A i \in I : r <= i /\ i \in Nat
    OBVIOUS
  <1>3. Rank(time, rows, c) = CHOOSE x \in I : \A y \in I : x <= y
    BY <1>1, <1>2 DEF Rank, SelectInSeq, Min
  <1> HIDE DEF I
  <1>4. \A x \in I : (\A y \in I : x <= y) => x = r
    BY <1>2
  <1> QED BY <1>2, <1>3, <1>4

\* The position of the first row with the same time counts the lower times.
LEMMA RankCounts ==
    ASSUME NEW time \in [Cands -> Int], NEW c \in Cands
    PROVE  Rank(time, Listed(time), c) = 1 + Cardinality(Faster(time, c))
  <1>1. PICK n \in Nat \ {0} : n = Candidates
    BY Bounds
  <1>2. PICK rows \in [1..n -> Cands] :
           /\ rows = Listed(time)
           /\ \A i, j \in 1..n : i < j => Before(time, rows[i], rows[j])
    BY <1>1, ListedInOrder
  <1>3. \A i, j \in 1..n : rows[i] = rows[j] => i = j
    <2>1. \A i, j \in 1..n : i < j \/ j < i \/ i = j
      OBVIOUS
    <2> QED BY <1>2, <2>1, BeforeOrders
  <1>4. \A d \in Cands : \E i \in 1..n : rows[i] = d
    <2>1. rows \in Injection(1..n, Cands)
      BY <1>3 DEF Injection, IsInjective
    <2>2. Cardinality(1..n) = n
      <3>1. 1 \in Int /\ n \in Int
        OBVIOUS
      <3>2. Cardinality(1..n) = IF 1 > n THEN 0 ELSE n - 1 + 1
        BY <3>1, FS_Interval
      <3> QED BY <3>2
    <2>3. rows \in Surjection(1..n, Cands)
      BY <1>1, <2>1, <2>2, CandsFinite, FS_Injection
    <2> QED BY <2>3 DEF Surjection
  <1> DEFINE I == {i \in 1..n : time[rows[i]] = time[c]}
  <1>5. PICK r \in I : \A i \in I : r <= i
    <2>1. I # {}
      BY <1>4
    <2>2. I \in SUBSET Nat
      OBVIOUS
    <2> HIDE DEF I
    <2> QED BY <2>1, <2>2, LeastElement
  <1>6. r \in 1..n /\ time[rows[r]] = time[c] /\ \A i \in 1..n : time[rows[i]] = time[c] => r <= i
    BY <1>5
  <1>7. Rank(time, rows, c) = r
    BY <1>6, FirstOf
  <1>8. \A d \in Cands : time[d] \in Int
    OBVIOUS
  <1>9. \A i \in 1..n : time[rows[i]] < time[c] <=> i < r
    <2> TAKE i \in 1..n
    <2>1. PICK x \in Int, y \in Int : x = time[rows[i]] /\ y = time[c]
      BY <1>8
    <2>2. i < r => x < y
      <3>1. i < r => Before(time, rows[i], rows[r])
        BY <1>2, <1>6
      <3>2. i < r => x # y
        BY <1>6, <2>1
      <3> QED BY <1>6, <2>1, <3>1, <3>2 DEF Before
    <2>3. r < i => ~(x < y)
      <3>1. r < i => Before(time, rows[r], rows[i])
        BY <1>2, <1>6
      <3> QED BY <1>6, <2>1, <3>1 DEF Before
    <2>4. i = r => ~(x < y)
      BY <1>6, <2>1
    <2>5. i < r \/ r < i \/ i = r
      BY <1>6
    <2>6. r < i \/ i = r => ~(i < r)
      BY <1>6
    <2> QED BY <2>1, <2>2, <2>3, <2>4, <2>5, <2>6
  <1> HIDE DEF I
  <1>10. PICK k \in Nat : k = r - 1 /\ k <= n
    BY <1>6
  <1>11. \A i \in 1..n : i < r <=> i \in 1..k
    BY <1>6, <1>10
  <1> DEFINE g == [i \in 1..k |-> rows[i]]
  <1>12. \A i \in 1..k : i \in 1..n /\ g[i] = rows[i]
    BY <1>10
  <1>13. g \in Bijection(1..k, Faster(time, c))
    <2>1. g \in [1..k -> Faster(time, c)]
      BY <1>9, <1>11, <1>12 DEF Faster
    <2> HIDE DEF g
    <2>2. \A i, j \in 1..k : g[i] = g[j] => i = j
      BY <1>3, <1>12
    <2>3. \A d \in Faster(time, c) : \E i \in 1..k : g[i] = d
      BY <1>4, <1>9, <1>11, <1>12 DEF Faster
    <2> QED BY <2>1, <2>2, <2>3 DEF Bijection, Injection, Surjection, IsInjective
  <1>14. Cardinality(Faster(time, c)) = k
    <2>1. 1 \in Int /\ k \in Int
      OBVIOUS
    <2>2. IsFiniteSet(1..k) /\ Cardinality(1..k) = IF 1 > k THEN 0 ELSE k - 1 + 1
      BY <2>1, FS_Interval
    <2>3. Cardinality(1..k) = k
      BY <2>2
    <2>4. ExistsBijection(1..k, Faster(time, c))
      BY <1>13 DEF ExistsBijection
    <2> QED BY <2>2, <2>3, <2>4, FS_Bijection
  <1> QED BY <1>2, <1>6, <1>7, <1>10, <1>14

\* A candidate is faster than another where fewer candidates are faster than it.
LEMMA FasterOrders ==
    ASSUME NEW time \in [Cands -> Int], NEW c \in Cands, NEW d \in Cands
    PROVE  /\ Cardinality(Faster(time, c)) \in Nat
           /\ time[c] < time[d]
                 <=> Cardinality(Faster(time, c)) < Cardinality(Faster(time, d))
  <1>1. \A e \in Cands : time[e] \in Int
    OBVIOUS
  <1>2. \A e : Faster(time, e) \in SUBSET Cands
    BY DEF Faster
  <1>3. \A e : IsFiniteSet(Faster(time, e)) /\ Cardinality(Faster(time, e)) \in Nat
    BY <1>2, CandsFinite, FS_Subset, FS_CardinalityType
  <1>4. ASSUME time[c] < time[d]
        PROVE  Cardinality(Faster(time, c)) < Cardinality(Faster(time, d))
    <2>1. Faster(time, c) \in SUBSET Faster(time, d)
      BY <1>1, <1>4 DEF Faster
    <2>2. c \in Faster(time, d) /\ c \notin Faster(time, c)
      BY <1>1, <1>4 DEF Faster
    <2>3. /\ Cardinality(Faster(time, c)) <= Cardinality(Faster(time, d))
          /\ Cardinality(Faster(time, c)) # Cardinality(Faster(time, d))
      BY <1>3, <2>1, <2>2, FS_Subset
    <2> QED BY <1>3, <2>3
  <1>5. ASSUME ~(time[c] < time[d])
        PROVE  Cardinality(Faster(time, d)) <= Cardinality(Faster(time, c))
    <2>1. Faster(time, d) \in SUBSET Faster(time, c)
      BY <1>1, <1>5 DEF Faster
    <2> QED BY <1>3, <2>1, FS_Subset
  <1> QED BY <1>3, <1>4, <1>5

\* The candidates with a better rank.
Better(ranks, c) == {d \in Cands : ranks[d] < ranks[c]}

\* The record that is published from the totals.
LEMMA RankingIs ==
    ASSUME NEW time \in [Cands -> Int]
    PROVE  \A c, d \in Cands :
              /\ Ranking(time)[c] = 1 + Cardinality(Better(Ranking(time), c))
              /\ Ranking(time)[c] < Ranking(time)[d] <=> time[c] < time[d]
  <1>1. \A c \in Cands : /\ Ranking(time)[c] = 1 + Cardinality(Faster(time, c))
                         /\ Cardinality(Faster(time, c)) \in Nat
    BY RankCounts, FasterOrders DEF Ranking
  <1>2. \A c, d \in Cands : Ranking(time)[c] < Ranking(time)[d] <=> time[c] < time[d]
    BY <1>1, FasterOrders
  <1>3. \A c \in Cands : Better(Ranking(time), c) = Faster(time, c)
    BY <1>2 DEF Better, Faster
  <1> QED BY <1>1, <1>2, <1>3

\* Nothing is recorded before the end, and what is recorded is justified.
RankInv == (pc # "exit" => record = NoRecord) /\ RankingJustified

\* The medians depend on the samples alone.
LEMMA SameSamples ==
    ASSUME samples' = samples
    PROVE  \A c \in Cands : MiddleTotal(c)' = MiddleTotal(c)
  <1>1. \A c, t, S : Count(c, t, S)' = Count(c, t, S)
    BY DEF Count, MapThenSumSet, MapThenFoldSet
  <1>2. \A c, t : MiddleSample(c, t)' = MiddleSample(c, t)
    BY <1>1 DEF MiddleSample
  <1> QED BY <1>2 DEF MiddleTotal

LEMMA ReportJustifies ==
    ASSUME IInv, RankInv, Report PROVE RankInv'
  <1>1. pc = "report" /\ pc' = "exit" /\ samples' = samples
    BY DEF Report, Exit
  <1>2. CASE UNCHANGED record
    BY <1>1, <1>2 DEF RankInv, RankingJustified, NoRecord
  <1>3. CASE record' = Ranking([c \in Cands |-> ComparisonTime(Total(c))])
    <2> DEFINE time == [c \in Cands |-> ComparisonTime(Total(c))]
    <2>1. \A c \in Cands : Total(c) \in Nat /\ Total(c) = MiddleTotal(c)
      BY <1>1, TotalIsMiddle
    <2>2. time \in [Cands -> Int]
      BY <2>1, Rounding
    <2>3. \A c \in Cands : time[c] = ComparisonTime(MiddleTotal(c)) /\ MiddleTotal(c) \in Nat
      BY <2>1
    <2>4. \A c \in Cands : MiddleTotal(c)' = MiddleTotal(c)
      BY <1>1, SameSamples
    <2> HIDE DEF time
    <2>5. /\ \A c, d \in Cands :
                /\ record'[c] = 1 + Cardinality(Better(record', c))
                /\ record'[c] < record'[d] <=> time[c] < time[d]
      BY <1>3, <2>2, RankingIs DEF time
    <2>6. ASSUME NEW c \in Cands, NEW d \in Cands
          PROVE  /\ record'[c] < record'[d] => MiddleTotal(c) < MiddleTotal(d)
                 /\ MiddleTotal(d) - MiddleTotal(c) >= Resolution => record'[c] < record'[d]
      <3>1. PICK a \in Nat, b \in Nat : a = MiddleTotal(c) /\ b = MiddleTotal(d)
        BY <2>3
      <3>2. PICK x \in Int, y \in Int : x = ComparisonTime(a) /\ y = ComparisonTime(b)
        BY Rounding
      <3>3. (b <= a => y <= x) /\ (b - a >= Resolution => x < y)
        BY <3>2, Rounding
      <3>4. time[c] = x /\ time[d] = y
        BY <2>3, <3>1, <3>2
      <3>5. x < y => a < b
        BY <3>3
      <3> QED BY <2>5, <3>1, <3>3, <3>4, <3>5
    <2> QED BY <1>1, <2>4, <2>5, <2>6 DEF RankInv, RankingJustified, Better
  <1> QED BY <1>2, <1>3 DEF Report

\* Every other step leaves the record as it is.
LEMMA RankKept == ASSUME IInv, RankInv, [Next]_vars PROVE RankInv'
  <1>1. CASE Report
    BY <1>1, ReportJustifies
  <1>2. CASE Prepare \/ WarmedUp \/ (\E elapsed \in Samples : Measured(elapsed))
             \/ (\E pending \in BOOLEAN : OperatorFailure(pending)) \/ FairnessViolation
    <2>1. pc # "exit" /\ record' = record
      BY <1>2 DEF Prepare, WarmedUp, Measured, OperatorFailure, FairnessViolation
    <2> QED BY <2>1 DEF RankInv, RankingJustified, NoRecord
  <1>3. CASE UNCHANGED vars
    <2>1. pc' = pc /\ record' = record /\ samples' = samples
      BY <1>3 DEF vars
    <2> QED BY <2>1, SameSamples DEF RankInv, RankingJustified, NoRecord
  <1> QED BY <1>1, <1>2, <1>3 DEF Next

\* The published ranks count the candidates that are ranked better, a better rank
\* means a lower total of medians, and totals a tick or more apart are told apart,
\* for every number of candidates and samples and every resolution.
THEOREM RankingIsJustified == Spec => []RankingJustified
  <1>1. Init => RankInv
    BY DEF Init, RankInv, RankingJustified
  <1>2. IInv /\ RankInv /\ [Next]_vars => RankInv'
    BY RankKept
  <1>3. RankInv => RankingJustified
    BY DEF RankInv
  <1> QED BY <1>1, <1>2, <1>3, Invariance, PTL DEF Spec

=============================================================================

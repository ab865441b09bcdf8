---------------------------- MODULE SpreadsProofs ----------------------------
(***************************************************************************)
(* The spreads of a team survive being sent and worked out again.          *)
(*                                                                         *)
(* First the EVs that a stat takes: stat_to_ev.cpp inverts initial_stat    *)
(* and initial_hp, which round down up to three times.  Its answer is      *)
(* enough, it is the least, and there is one whenever any EV will do; so   *)
(* calculate_ivs_and_evs misses no spread because of rounding, and the     *)
(* optimizer drops no EV that matters and keeps none that does not.        *)
(*                                                                         *)
(* Then calculate_ivs_and_evs: whatever it returns for the stats of a real *)
(* Pokemon has them, also where one EV serves two stats.                   *)
(***************************************************************************)
EXTENDS Spreads, WellFoundedInduction, TLAPS

Levels == 1 .. 100
Effects == {Negative, Neutral, Positive}

\* The division of integers for any positive divisor
LEMMA DivisionFacts ==
    ASSUME NEW a \in Int, NEW b \in Nat, b > 0
    PROVE  /\ a \div b \in Int
           /\ b * (a \div b) =< a
           /\ a < b * (a \div b) + b
  BY Z3

\* RoundUpDivide is the least quotient that is enough.
LEMMA RoundUpDivideIsLeast ==
    ASSUME NEW a \in Int, NEW b \in Nat, b > 0
    PROVE  /\ RoundUpDivide(a, b) \in Int
           /\ RoundUpDivide(a, b) * b >= a
           /\ (RoundUpDivide(a, b) - 1) * b < a
  <1> DEFINE q == (-a) \div b
  <1>1. q \in Int /\ b * q =< -a /\ -a < b * q + b
    BY DivisionFacts
  <1> HIDE DEF q
  <1>2. (-q) * b >= a /\ (-q - 1) * b < a
    BY <1>1
  <1> QED BY <1>1, <1>2 DEF RoundUpDivide, q

(***************************************************************************)
(* Rounding down and rounding up are adjoint: a bound on one side of a     *)
(* division is a bound on the other.                                       *)
(***************************************************************************)

LEMMA QuotientAtLeast ==
    ASSUME NEW a \in Int, NEW b \in Nat, b > 0, NEW x \in Int
    PROVE  a \div b >= x <=> a >= x * b
  <1> DEFINE q == a \div b
  <1>1. q \in Int /\ b * q =< a /\ a < b * q + b
    BY DivisionFacts
  <1> HIDE DEF q
  <1>2. CASE q >= x
    <2>1. q * b >= x * b
      BY <1>1, <1>2
    <2> QED BY <1>1, <1>2, <2>1 DEF q
  <1>3. CASE ~(q >= x)
    <2>1. x * b >= (q + 1) * b
      BY <1>1, <1>3
    <2> QED BY <1>1, <1>3, <2>1 DEF q
  <1> QED BY <1>2, <1>3

LEMMA RoundUpAtMost ==
    ASSUME NEW a \in Int, NEW b \in Nat, b > 0, NEW x \in Int
    PROVE  x >= RoundUpDivide(a, b) <=> x * b >= a
  <1> DEFINE r == RoundUpDivide(a, b)
  <1>1. r \in Int /\ r * b >= a /\ (r - 1) * b < a
    BY RoundUpDivideIsLeast
  <1> HIDE DEF r
  <1>2. CASE x >= r
    <2>1. x * b >= r * b
      BY <1>1, <1>2
    <2> QED BY <1>1, <1>2, <2>1 DEF r
  <1>3. CASE ~(x >= r)
    <2>1. x * b =< (r - 1) * b
      BY <1>1, <1>3
    <2> QED BY <1>1, <1>3, <2>1 DEF r
  <1> QED BY <1>2, <1>3

\* A part of level / 100 is as high as it must be exactly when the whole is.
LEMMA LevelAtLeast ==
    ASSUME NEW level \in Levels, NEW whole \in Int, NEW part \in Int
    PROVE  (whole * level) \div 100 >= part <=> whole >= RoundUpDivide(part * 100, level)
  <1>1. whole * level \in Int /\ part * 100 \in Int /\ level \in Nat /\ level > 0
    BY DEF Levels
  <1>2. (whole * level) \div 100 >= part <=> whole * level >= part * 100
    BY <1>1, QuotientAtLeast
  <1>3. whole >= RoundUpDivide(part * 100, level) <=> whole * level >= part * 100
    BY <1>1, RoundUpAtMost
  <1> QED BY <1>2, <1>3

-----------------------------------------------------------------------------

\* How many fourths of EVs a stat takes, before it is known whether they are legal
Fourths(target, base, level, effect, iv) ==
    RoundUpDivide((RoundUpDivide(target * 10, Boost(effect)) - 5) * 100, level) - 2 * base - iv

HPFourths(target, base, level, iv) ==
    RoundUpDivide((target - level - 10) * 100, level) - 2 * base - iv

LEMMA FourthsAreExact ==
    ASSUME NEW target \in Int, NEW base \in Int, NEW level \in Levels, NEW effect \in Effects,
           NEW iv \in Int, NEW ev \in Int
    PROVE  /\ Fourths(target, base, level, effect, iv) \in Int
           /\ InitialStat(base, level, effect, iv, ev) \in Int
           /\ InitialStat(base, level, effect, iv, ev) >= target
                  <=> ev \div 4 >= Fourths(target, base, level, effect, iv)
  <1> DEFINE whole == 2 * base + iv + ev \div 4
             b == Boost(effect)
             unboosted == RoundUpDivide(target * 10, b) - 5
             scaled == (whole * level) \div 100
             least == RoundUpDivide(unboosted * 100, level)
  <1>1. b \in Nat /\ b > 0
    BY DEF Boost, Effects, Negative, Neutral, Positive
  <1>2. ev \div 4 \in Int /\ whole \in Int /\ level \in Nat /\ level > 0
    BY DivisionFacts DEF Levels
  <1>3. RoundUpDivide(target * 10, b) \in Int /\ unboosted \in Int
    <2> HIDE DEF b
    <2>1. target * 10 \in Int
      OBVIOUS
    <2>2. RoundUpDivide(target * 10, b) \in Int
      BY <1>1, <2>1, RoundUpDivideIsLeast
    <2> QED BY <2>2
  <1>4. least \in Int
    BY <1>2, <1>3, RoundUpDivideIsLeast
  <1>5. scaled \in Int
    BY <1>2, DivisionFacts
  <1>6. ((scaled + 5) * b) \div 10 \in Int
    BY <1>1, <1>5, DivisionFacts
  <1>7. ((scaled + 5) * b) \div 10 >= target <=> (scaled + 5) * b >= target * 10
    BY <1>1, <1>5, QuotientAtLeast
  <1>8. (scaled + 5) * b >= target * 10 <=> scaled + 5 >= RoundUpDivide(target * 10, b)
    BY <1>1, <1>5, RoundUpAtMost
  <1>9. scaled >= unboosted <=> whole >= least
    BY <1>2, <1>3, LevelAtLeast
  <1>10. InitialStat(base, level, effect, iv, ev) = ((scaled + 5) * b) \div 10
    BY DEF InitialStat
  <1>11. Fourths(target, base, level, effect, iv) = least - 2 * base - iv
    BY DEF Fourths
  <1> HIDE DEF scaled, b, least
  <1>12. scaled + 5 >= RoundUpDivide(target * 10, b) <=> scaled >= unboosted
    BY <1>3, <1>5
  <1>13. whole >= least <=> ev \div 4 >= least - 2 * base - iv
    BY <1>2, <1>4
  <1> QED BY <1>4, <1>6, <1>7, <1>8, <1>9, <1>10, <1>11, <1>12, <1>13

LEMMA HPFourthsAreExact ==
    ASSUME NEW target \in Int, NEW base \in Int, base > 1, NEW level \in Levels,
           NEW iv \in Int, NEW ev \in Int
    PROVE  /\ HPFourths(target, base, level, iv) \in Int
           /\ InitialHP(base, level, iv, ev) \in Int
           /\ InitialHP(base, level, iv, ev) >= target
                  <=> ev \div 4 >= HPFourths(target, base, level, iv)
  <1> DEFINE whole == 2 * base + iv + ev \div 4
             part == target - level - 10
             scaled == (whole * level) \div 100
             least == RoundUpDivide(part * 100, level)
  <1>1. ev \div 4 \in Int /\ whole \in Int /\ level \in Nat /\ level > 0 /\ part \in Int
    BY DivisionFacts DEF Levels
  <1>2. least \in Int
    BY <1>1, RoundUpDivideIsLeast
  <1>3. scaled \in Int
    BY <1>1, DivisionFacts
  <1>4. scaled >= part <=> whole >= least
    BY <1>1, LevelAtLeast
  <1>5. InitialHP(base, level, iv, ev) = scaled + 10 + level
    BY DEF InitialHP
  <1>6. HPFourths(target, base, level, iv) = least - 2 * base - iv
    BY DEF HPFourths
  <1> HIDE DEF scaled, least
  <1>7. scaled + 10 + level >= target <=> scaled >= part
    BY <1>1, <1>3
  <1>8. whole >= least <=> ev \div 4 >= least - 2 * base - iv
    BY <1>1, <1>2
  <1> QED BY <1>1, <1>2, <1>3, <1>4, <1>5, <1>6, <1>7, <1>8

\* maybe_ev gives the least EVs of so many fourths, or none when there are none.
LEMMA MaybeEVFacts ==
    ASSUME NEW n \in Int
    PROVE  /\ MaybeEV(n * 4) # NoEV =>
                  /\ MaybeEV(n * 4) \in 0 .. MaxEV
                  /\ MaybeEV(n * 4) \div 4 >= n
                  /\ \A e \in 0 .. MaxEV : e < MaybeEV(n * 4) => ~(e \div 4 >= n)
           /\ MaybeEV(n * 4) = NoEV => \A e \in 0 .. MaxEV : ~(e \div 4 >= n)
  <1>1. CASE n * 4 > MaxEV
    BY <1>1 DEF MaybeEV, MaxEV, NoEV
  <1>2. CASE n < 0
    BY <1>2 DEF MaybeEV, MaxEV, NoEV
  <1>3. CASE n >= 0 /\ n * 4 =< MaxEV
    BY <1>3 DEF MaybeEV, MaxEV, NoEV
  <1> QED BY <1>1, <1>2, <1>3 DEF MaxEV

-----------------------------------------------------------------------------

(***************************************************************************)
(* stat_to_ev_at_least_pre_iv: the EVs it gives make the stat at least     *)
(* what was asked for, any fewer do not, and it gives none only when all   *)
(* there are would not be enough.  optimize_evs keeps a Pokemon's attacks, *)
(* Speed and defenses by this, with the fewest EVs.                        *)
(***************************************************************************)
THEOREM StatToEVAtLeastIsLeast ==
    ASSUME NEW target \in Int, NEW base \in Int, NEW level \in Levels, NEW effect \in Effects,
           NEW iv \in Int
    PROVE  LET found == StatToEVAtLeast(target, base, level, effect, iv)
               Enough(ev) == InitialStat(base, level, effect, iv, ev) >= target
           IN  /\ found # NoEV => /\ found \in 0 .. MaxEV
                                  /\ Enough(found)
                                  /\ \A ev \in 0 .. MaxEV : ev < found => ~Enough(ev)
               /\ found = NoEV => \A ev \in 0 .. MaxEV : ~Enough(ev)
  <1> DEFINE n == Fourths(target, base, level, effect, iv)
             found == StatToEVAtLeast(target, base, level, effect, iv)
             Enough(ev) == InitialStat(base, level, effect, iv, ev) >= target
  <1>1. found = MaybeEV(n * 4)
    BY DEF StatToEVAtLeast, Fourths
  <1>2. n \in Int
    BY FourthsAreExact
  <1>3. ASSUME NEW ev \in 0 .. MaxEV
        PROVE  Enough(ev) <=> ev \div 4 >= n
    BY FourthsAreExact DEF MaxEV
  <1> HIDE DEF n, found, Enough
  <1>4. found # NoEV => /\ found \in 0 .. MaxEV
                        /\ found \div 4 >= n
                        /\ \A ev \in 0 .. MaxEV : ev < found => ~(ev \div 4 >= n)
    BY <1>1, <1>2, MaybeEVFacts
  <1>5. found = NoEV => \A ev \in 0 .. MaxEV : ~(ev \div 4 >= n)
    BY <1>1, <1>2, MaybeEVFacts
  <1>6. /\ found # NoEV => /\ found \in 0 .. MaxEV
                           /\ Enough(found)
                           /\ \A ev \in 0 .. MaxEV : ev < found => ~Enough(ev)
        /\ found = NoEV => \A ev \in 0 .. MaxEV : ~Enough(ev)
    BY <1>3, <1>4, <1>5
  <1> QED BY <1>6 DEF found, Enough

(***************************************************************************)
(* More EVs never lower a stat.                                            *)
(***************************************************************************)
LEMMA InitialStatIsMonotonic ==
    ASSUME NEW base \in Int, NEW level \in Levels, NEW effect \in Effects, NEW iv \in Int,
           NEW low \in 0 .. MaxEV, NEW high \in 0 .. MaxEV, low =< high
    PROVE  /\ InitialStat(base, level, effect, iv, low) \in Int
           /\ InitialStat(base, level, effect, iv, high) \in Int
           /\ InitialStat(base, level, effect, iv, low) =< InitialStat(base, level, effect, iv, high)
  <1> DEFINE target == InitialStat(base, level, effect, iv, low)
             n == Fourths(target, base, level, effect, iv)
  <1>1. low \in Int /\ high \in Int /\ low \div 4 =< high \div 4 /\ low \div 4 \in Int /\ high \div 4 \in Int
    BY DEF MaxEV
  <1>2. target \in Int
    BY <1>1, FourthsAreExact
  <1>3. InitialStat(base, level, effect, iv, high) \in Int
    BY <1>1, FourthsAreExact
  <1> HIDE DEF target
  <1>4. n \in Int /\ (InitialStat(base, level, effect, iv, low) >= target <=> low \div 4 >= n)
    BY <1>1, <1>2, FourthsAreExact
  <1>5. InitialStat(base, level, effect, iv, high) >= target <=> high \div 4 >= n
    BY <1>1, <1>2, FourthsAreExact
  <1> HIDE DEF n
  <1>6. InitialStat(base, level, effect, iv, high) >= target
    BY <1>1, <1>2, <1>4, <1>5 DEF target
  <1> QED BY <1>2, <1>3, <1>6 DEF target

(***************************************************************************)
(* stat_to_ev: the EVs it gives make exactly the stat, and it gives none   *)
(* only when no EVs do.  calculate_ivs_and_evs throws for stats without a  *)
(* spread: this function never makes it throw for stats that have one.     *)
(***************************************************************************)
THEOREM StatToEVFindsOne ==
    ASSUME NEW target \in Int, NEW base \in Int, NEW level \in Levels, NEW effect \in Effects,
           NEW iv \in Int
    PROVE  LET found == StatToEV(target, base, level, effect, iv)
               Makes(ev) == InitialStat(base, level, effect, iv, ev) = target
           IN  /\ found # NoEV => found \in 0 .. MaxEV /\ Makes(found)
               /\ found = NoEV => \A ev \in 0 .. MaxEV : ~Makes(ev)
  <1> DEFINE least == StatToEVAtLeast(target, base, level, effect, iv)
             found == StatToEV(target, base, level, effect, iv)
             S(ev) == InitialStat(base, level, effect, iv, ev)
  <1>1. /\ least # NoEV => /\ least \in 0 .. MaxEV
                           /\ S(least) >= target
                           /\ \A ev \in 0 .. MaxEV : ev < least => ~(S(ev) >= target)
        /\ least = NoEV => \A ev \in 0 .. MaxEV : ~(S(ev) >= target)
    BY StatToEVAtLeastIsLeast
  <1>2. found = IF least # NoEV /\ S(least) = target THEN least ELSE NoEV
    BY DEF StatToEV
  <1>3. \A ev \in 0 .. MaxEV : S(ev) \in Int
    BY FourthsAreExact DEF MaxEV
  <1>4. \A low, high \in 0 .. MaxEV : low =< high => S(low) =< S(high)
    BY InitialStatIsMonotonic
  <1> HIDE DEF least, found, S
  <1>5. found # NoEV => found \in 0 .. MaxEV /\ S(found) = target
    BY <1>1, <1>2
  <1>6. ASSUME found = NoEV, NEW ev \in 0 .. MaxEV, S(ev) = target
        PROVE  FALSE
    <2>1. S(ev) >= target
      BY <1>3, <1>6
    <2>2. least # NoEV /\ least \in 0 .. MaxEV
      BY <1>1, <1>6, <2>1
    <2>3. least =< ev
      BY <1>1, <1>6, <2>1, <2>2 DEF MaxEV
    <2>4. S(least) =< target /\ S(least) >= target
      BY <1>1, <1>4, <1>6, <2>2, <2>3
    <2>5. S(least) \in Int
      BY <1>3, <2>2
    <2>6. S(least) = target
      BY <2>4, <2>5
    <2>7. found = least
      BY <1>2, <2>2, <2>6
    <2> QED BY <1>6, <2>2, <2>7
  <1> QED BY <1>5, <1>6 DEF found, S

(***************************************************************************)
(* hp_to_ev: the same for HP, also of the species that always has one.     *)
(***************************************************************************)
THEOREM HPToEVFindsOne ==
    ASSUME NEW target \in Int, NEW base \in Nat, base > 0, NEW level \in Levels, NEW iv \in Int
    PROVE  LET found == HPToEV(target, base, level, iv)
               Makes(ev) == InitialHP(base, level, iv, ev) = target
           IN  /\ found # NoEV => found \in 0 .. MaxEV /\ Makes(found)
               /\ found = NoEV => \A ev \in 0 .. MaxEV : ~Makes(ev)
  <1> DEFINE n == HPFourths(target, base, level, iv)
             least == MaybeEV(n * 4)
             found == HPToEV(target, base, level, iv)
             H(ev) == InitialHP(base, level, iv, ev)
  <1>1. CASE base = 1
    BY <1>1 DEF HPToEV, InitialHP, NoEV, MaxEV
  <1>2. CASE base > 1
    <2>1. found = IF least # NoEV /\ H(least) = target THEN least ELSE NoEV
      BY <1>2 DEF HPToEV, HPFourths
    <2>2. n \in Int
      BY <1>2, HPFourthsAreExact
    <2>3. ASSUME NEW ev \in 0 .. MaxEV
          PROVE  H(ev) \in Int /\ (H(ev) >= target <=> ev \div 4 >= n)
      BY <1>2, HPFourthsAreExact DEF MaxEV
    <2>4. ASSUME NEW low \in 0 .. MaxEV, NEW high \in 0 .. MaxEV, low =< high
          PROVE  H(low) =< H(high)
      <3> DEFINE h == H(low)
                 m == HPFourths(h, base, level, iv)
      <3>1. h \in Int
        BY <2>3
      <3>2. low \in Int /\ high \in Int /\ low \div 4 =< high \div 4
            /\ low \div 4 \in Int /\ high \div 4 \in Int
        BY <2>4 DEF MaxEV
      <3> HIDE DEF h
      <3>3. m \in Int /\ (H(low) >= h <=> low \div 4 >= m) /\ (H(high) >= h <=> high \div 4 >= m)
        BY <1>2, <3>1, <3>2, HPFourthsAreExact
      <3> HIDE DEF m, H
      <3>4. low \div 4 >= m
        BY <3>1, <3>3 DEF h
      <3>5. high \div 4 >= m
        BY <3>2, <3>3, <3>4
      <3> QED BY <3>1, <3>3, <3>5, <2>3 DEF h
    <2>5. /\ least # NoEV => /\ least \in 0 .. MaxEV
                             /\ least \div 4 >= n
                             /\ \A ev \in 0 .. MaxEV : ev < least => ~(ev \div 4 >= n)
          /\ least = NoEV => \A ev \in 0 .. MaxEV : ~(ev \div 4 >= n)
      BY <2>2, MaybeEVFacts
    <2> HIDE DEF n, least, found, H
    <2>6. found # NoEV => found \in 0 .. MaxEV /\ H(found) = target
      BY <2>1, <2>5
    <2>7. ASSUME found = NoEV, NEW ev \in 0 .. MaxEV, H(ev) = target
          PROVE  FALSE
      <3>1. ev \div 4 >= n
        BY <2>3, <2>7
      <3>2. least # NoEV /\ least \in 0 .. MaxEV
        BY <2>5, <3>1
      <3>3. least =< ev
        BY <2>5, <3>1, <3>2 DEF MaxEV
      <3>4. H(least) =< target
        BY <2>4, <2>7, <3>2, <3>3
      <3>5. H(least) >= target /\ H(least) \in Int
        BY <2>3, <2>5, <3>2
      <3> QED BY <2>1, <2>7, <3>2, <3>4, <3>5
    <2> QED BY <2>6, <2>7 DEF found, H
  <1> QED BY <1>1, <1>2

-----------------------------------------------------------------------------
(* What is least by a rank: it is there, whenever there is anything.       *)

LEMMA MinOfNats ==
    ASSUME NEW T \in SUBSET Nat, T # {}
    PROVE  \E x \in T : \A y \in T : x =< y
  <1> DEFINE R == OpToRel(<, Nat)
  <1>1. IsWellFoundedOn(R, Nat)
    BY NatLessThanWellFounded
  <1>2. \A x, y \in Nat : x < y => <<x, y>> \in R
    BY DEF OpToRel
  <1> HIDE DEF R
  <1>3. PICK x \in T : \A y \in T : ~(<<y, x>> \in R)
    BY <1>1, WFMin
  <1>4. \A y \in T : ~(y < x)
    BY <1>2, <1>3
  <1>5. \A y \in T : x =< y
    BY <1>3, <1>4
  <1> QED BY <1>5

LEMMA MinExists ==
    ASSUME NEW T \in SUBSET Int, T # {}, \E lo \in Int : \A x \in T : lo =< x
    PROVE  Min(T) \in T /\ \A y \in T : Min(T) =< y
  <1>0. PICK lo \in Int : \A x \in T : lo =< x
    OBVIOUS
  <1> DEFINE D == {x - lo : x \in T}
  <1>1. \A x \in T : x - lo \in Nat
    BY <1>0
  <1>2. D \in SUBSET Nat /\ D # {}
    BY <1>1
  <1>3. PICK d \in D : \A e \in D : d =< e
    <2> HIDE DEF D
    <2> QED BY <1>2, MinOfNats
  <1>4. PICK x \in T : d = x - lo
    OBVIOUS
  <1>5. ASSUME NEW y \in T
        PROVE  x =< y
    <2>1. y - lo \in D
      OBVIOUS
    <2>2. x - lo =< y - lo
      BY <1>3, <1>4, <2>1
    <2> QED BY <1>4, <2>2
  <1> QED BY <1>4, <1>5 DEF Min

\* The loops over IVs return one of the spreads that fit.
LEMMA FirstIsOne ==
    ASSUME NEW S, S # {}, NEW order, DOMAIN order \subseteq Nat,
           \A s \in S : \A i \in DOMAIN order : s.ivs[order[i]] \in 0 .. 31
    PROVE  First(S, order) \in S
  <1> DEFINE rank(s) == -Digits(s.ivs, order)
             T == {rank(s) : s \in S}
             lo == -(32 * (32 * (32 * (32 * 31 + 31) + 31) + 31) + 31)
  <1>1. ASSUME NEW s \in S
        PROVE  rank(s) \in Int /\ lo =< rank(s)
    <2> DEFINE digit(i) == IF i \in DOMAIN order THEN s.ivs[order[i]] ELSE 0
    <2>1. \A i \in 1 .. 5 : digit(i) \in 0 .. 31
      OBVIOUS
    <2>2. Digits(s.ivs, order)
            = 32 * (32 * (32 * (32 * digit(1) + digit(2)) + digit(3)) + digit(4)) + digit(5)
      BY DEF Digits
    <2> HIDE DEF digit
    <2>3. /\ digit(1) \in 0 .. 31 /\ digit(2) \in 0 .. 31 /\ digit(3) \in 0 .. 31
          /\ digit(4) \in 0 .. 31 /\ digit(5) \in 0 .. 31
      BY <2>1
    <2> DEFINE d2 == 32 * digit(1) + digit(2)
               d3 == 32 * d2 + digit(3)
               d4 == 32 * d3 + digit(4)
               d5 == 32 * d4 + digit(5)
               m3 == 32 * 1023 + 31
               m4 == 32 * m3 + 31
    <2>5. d2 \in Int /\ d2 =< 1023
      BY <2>3
    <2> HIDE DEF d2
    <2>6. m3 \in Int /\ d3 \in Int /\ d3 =< m3
      BY <2>3, <2>5
    <2> HIDE DEF d3, m3
    <2>7. m4 \in Int /\ d4 \in Int /\ d4 =< m4
      BY <2>3, <2>6
    <2> HIDE DEF d4, m4
    <2>8. d5 \in Int /\ -(32 * m4 + 31) =< -d5
      BY <2>3, <2>7
    <2>9. lo = -(32 * m4 + 31)
      BY SMT DEF m4, m3
    <2>10. Digits(s.ivs, order) = d5
      BY <2>2 DEF d4, d3, d2
    <2> HIDE DEF d5, lo
    <2> QED BY <2>8, <2>9, <2>10
  <1>0. lo \in Int
    BY SMT
  <1> HIDE DEF rank, lo
  <1>2. T \in SUBSET Int /\ T # {} /\ \A x \in T : lo =< x
    BY <1>1
  <1>3. Min(T) \in T
    <2> HIDE DEF T
    <2> QED BY <1>0, <1>2, MinExists
  <1>4. PICK s \in S : rank(s) = Min(T)
    BY <1>3
  <1>5. First(S, order) = CHOOSE c \in {x \in S : rank(x) = Min(T)} : TRUE
    BY DEF First, LeastBy, rank
  <1>6. First(S, order) \in {x \in S : rank(x) = Min(T)}
    <2> HIDE DEF T
    <2> QED BY <1>4, <1>5
  <1> QED BY <1>6

-----------------------------------------------------------------------------
(* Whatever spread is made up for some stats has these stats.              *)

LEMMA PossibleIVs ==
    ASSUME NEW generation, NEW hiddenPower
    PROVE  LET possible == PossibleDVsOrIVs(generation, hiddenPower)
           IN  IF IsOld(generation)
               THEN \A s \in {"atk", "def", "spe", "spc"} : possible[s] \subseteq 0 .. 15
               ELSE \A s \in PermanentStat : possible[s] \subseteq 0 .. 31
  <1>1. \A s, t : PossibleDVsType(s, t) \subseteq 0 .. 15 /\ PossibleIVsType(s, t) \subseteq 0 .. 31
    BY DEF PossibleDVsType, PossibleIVsType
  <1> QED BY <1>1 DEF PossibleDVsOrIVs

LEMMA WithEVsFit ==
    ASSUME NEW toEV, NEW w \in WithEVs(toEV)
    PROVE  w.iv \in DOMAIN toEV /\ w.ev = toEV[w.iv] /\ w.ev # NoEV
  BY DEF WithEVs

LEMMA StatToEVMakes ==
    ASSUME NEW target, NEW base, NEW level, NEW effect, NEW iv,
           StatToEV(target, base, level, effect, iv) # NoEV
    PROVE  InitialStat(base, level, effect, iv, StatToEV(target, base, level, effect, iv)) = target
  BY DEF StatToEV

LEMMA HPToEVMakes ==
    ASSUME NEW target, NEW base, NEW level, NEW iv, HPToEV(target, base, level, iv) # NoEV
    PROVE  InitialHP(base, level, iv, HPToEV(target, base, level, iv)) = target
  BY DEF HPToEV

\* The spreads of the later generations
LEMMA SplitSpreadsFit ==
    ASSUME NEW generation, ~IsOld(generation), NEW base, NEW level, NEW stats, NEW hiddenPower,
           NEW nature,
           NEW hp \in WithEVs([iv \in PossibleDVsOrIVs(generation, hiddenPower)["hp"] |->
                                 HPToEV(stats["hp"], base["hp"], level, iv)]),
           NEW c \in SplitSpreads(generation, base, level, stats, hiddenPower, hp, nature)
    PROVE  /\ c.nature = nature
           /\ \A s \in PermanentStat : c.ivs[s] \in 0 .. 31
           /\ HasHiddenPower(generation, c.ivs, hiddenPower)
           /\ InitialHP(base["hp"], level, c.ivs["hp"], c.evs["hp"]) = stats["hp"]
           /\ \A s \in RegularStat :
                 InitialStat(base[s], level, ToNatureEffect(nature, s), c.ivs[s], c.evs[s]) = stats[s]
  <1> DEFINE possible == PossibleDVsOrIVs(generation, hiddenPower)
             toEV(s, iv) == StatToEV(stats[s], base[s], level, ToNatureEffect(nature, s), iv)
             ways(s) == WithEVs([iv \in possible[s] |-> toEV(s, iv)])
             toHP(iv) == HPToEV(stats["hp"], base["hp"], level, iv)
  <1>1. PICK w \in ways("atk") \X ways("def") \X ways("spa") \X ways("spd") \X ways("spe") :
          /\ c.nature = nature
          /\ c.ivs = [hp |-> hp.iv, atk |-> w[1].iv, def |-> w[2].iv,
                      spa |-> w[3].iv, spd |-> w[4].iv, spe |-> w[5].iv]
          /\ c.evs = [hp |-> hp.ev, atk |-> w[1].ev, def |-> w[2].ev,
                      spa |-> w[3].ev, spd |-> w[4].ev, spe |-> w[5].ev]
          /\ HasHiddenPower(generation, c.ivs, hiddenPower)
    <2> DEFINE made(w) ==
                 [nature |-> nature,
                  ivs |-> [hp |-> hp.iv, atk |-> w[1].iv, def |-> w[2].iv,
                           spa |-> w[3].iv, spd |-> w[4].iv, spe |-> w[5].iv],
                  evs |-> [hp |-> hp.ev, atk |-> w[1].ev, def |-> w[2].ev,
                           spa |-> w[3].ev, spd |-> w[4].ev, spe |-> w[5].ev]]
               all == {made(w) : w \in ways("atk") \X ways("def") \X ways("spa") \X ways("spd") \X ways("spe")}
    <2>1. SplitSpreads(generation, base, level, stats, hiddenPower, hp, nature)
            = {x \in all : EVSum(x.evs) <= MaxTotalEVs /\ HasHiddenPower(generation, x.ivs, hiddenPower)}
      BY DEF SplitSpreads
    <2>2. c \in all /\ HasHiddenPower(generation, c.ivs, hiddenPower)
      BY <2>1
    <2> HIDE DEF made
    <2>3. PICK w \in ways("atk") \X ways("def") \X ways("spa") \X ways("spd") \X ways("spe") : c = made(w)
      BY <2>2
    <2> QED BY <2>2, <2>3 DEF made
  <1>2. \A s \in PermanentStat : possible[s] \subseteq 0 .. 31
    BY PossibleIVs
  <1>3. \A s \in RegularStat : \A v \in ways(s) :
          /\ v.iv \in 0 .. 31 /\ v.ev = toEV(s, v.iv)
          /\ InitialStat(base[s], level, ToNatureEffect(nature, s), v.iv, v.ev) = stats[s]
    <2>1. ASSUME NEW s \in RegularStat, NEW v \in ways(s)
          PROVE  /\ v.iv \in 0 .. 31 /\ v.ev = toEV(s, v.iv)
                 /\ InitialStat(base[s], level, ToNatureEffect(nature, s), v.iv, v.ev) = stats[s]
      <3> DEFINE f == [iv \in possible[s] |-> toEV(s, iv)]
      <3>1. v.iv \in DOMAIN f /\ v.ev = f[v.iv] /\ v.ev # NoEV
        BY <2>1, WithEVsFit
      <3>2. v.iv \in possible[s] /\ v.ev = toEV(s, v.iv) /\ toEV(s, v.iv) # NoEV
        BY <3>1
      <3>3. v.iv \in 0 .. 31
        BY <1>2, <3>2 DEF PermanentStat
      <3> QED BY <3>2, <3>3, StatToEVMakes
    <2> QED BY <2>1
  <1>4. hp.iv \in 0 .. 31 /\ InitialHP(base["hp"], level, hp.iv, hp.ev) = stats["hp"]
    <2> DEFINE f == [iv \in possible["hp"] |-> toHP(iv)]
    <2>1. hp.iv \in DOMAIN f /\ hp.ev = f[hp.iv] /\ hp.ev # NoEV
      BY WithEVsFit
    <2>2. hp.iv \in possible["hp"] /\ hp.ev = toHP(hp.iv) /\ toHP(hp.iv) # NoEV
      BY <2>1
    <2>3. hp.iv \in 0 .. 31
      BY <1>2, <2>2 DEF PermanentStat
    <2> QED BY <2>2, <2>3, HPToEVMakes
  <1> HIDE DEF possible, toEV, ways, toHP
  <1>5. /\ w[1] \in ways("atk") /\ w[2] \in ways("def") /\ w[3] \in ways("spa")
        /\ w[4] \in ways("spd") /\ w[5] \in ways("spe")
    OBVIOUS
  <1>6. /\ c.ivs["hp"] = hp.iv /\ c.evs["hp"] = hp.ev
        /\ c.ivs["atk"] = w[1].iv /\ c.evs["atk"] = w[1].ev
        /\ c.ivs["def"] = w[2].iv /\ c.evs["def"] = w[2].ev
        /\ c.ivs["spa"] = w[3].iv /\ c.evs["spa"] = w[3].ev
        /\ c.ivs["spd"] = w[4].iv /\ c.evs["spd"] = w[4].ev
        /\ c.ivs["spe"] = w[5].iv /\ c.evs["spe"] = w[5].ev
    BY <1>1
  <1>7. ASSUME NEW s \in RegularStat
        PROVE  \E v \in ways(s) : c.ivs[s] = v.iv /\ c.evs[s] = v.ev
    BY <1>5, <1>6 DEF RegularStat
  <1>8. \A s \in RegularStat :
          /\ c.ivs[s] \in 0 .. 31
          /\ InitialStat(base[s], level, ToNatureEffect(nature, s), c.ivs[s], c.evs[s]) = stats[s]
    BY <1>3, <1>7
  <1> QED BY <1>1, <1>4, <1>6, <1>8 DEF PermanentStat

LEMMA CalculateSplitFits ==
    ASSUME NEW generation, ~IsOld(generation), NEW base, NEW level, NEW stats, NEW hiddenPower,
           NEW natures, DOMAIN natures \subseteq Nat,
           NEW c, c = CalculateSplit(generation, base, level, stats, hiddenPower, natures),
           c # NoSpread
    PROVE  /\ \E n \in DOMAIN natures : c.nature = natures[n]
           /\ \A s \in PermanentStat : c.ivs[s] \in 0 .. 31
           /\ HasHiddenPower(generation, c.ivs, hiddenPower)
           /\ InitialHP(base["hp"], level, c.ivs["hp"], c.evs["hp"]) = stats["hp"]
           /\ \A s \in RegularStat :
                 InitialStat(base[s], level, ToNatureEffect(c.nature, s), c.ivs[s], c.evs[s]) = stats[s]
  <1> DEFINE possible == PossibleDVsOrIVs(generation, hiddenPower)["hp"]
             hps == WithEVs([iv \in possible |-> HPToEV(stats["hp"], base["hp"], level, iv)])
             spreads(hp, n) == SplitSpreads(generation, base, level, stats, hiddenPower, hp, natures[n])
             fit == {t \in hps \X (DOMAIN natures) : spreads(t[1], t[2]) # {}}
             highest == {t \in fit : -t[1].iv = Min({-u[1].iv : u \in fit})}
             first == {t \in highest : t[2] = Min({u[2] : u \in highest})}
             found == CHOOSE t \in first : TRUE
             order == <<"atk", "def", "spa", "spd", "spe">>
  <1>1. c = IF fit = {} THEN NoSpread ELSE First(spreads(found[1], found[2]), order)
    BY DEF CalculateSplit, LeastBy
  <1>2. fit # {} /\ c = First(spreads(found[1], found[2]), order)
    <2> HIDE DEF fit, spreads, found
    <2> QED BY <1>1
  <1>3. \A hp \in hps : hp.iv \in 0 .. 31
    <2>1. possible \subseteq 0 .. 31
      BY PossibleIVs DEF PermanentStat
    <2> DEFINE f == [iv \in possible |-> HPToEV(stats["hp"], base["hp"], level, iv)]
    <2>2. \A hp \in hps : hp.iv \in DOMAIN f
      <3> HIDE DEF f
      <3> QED BY WithEVsFit DEF f
    <2> HIDE DEF possible, hps
    <2> QED BY <2>1, <2>2
  <1>4. highest # {}
    <2> DEFINE T == {-u[1].iv : u \in fit}
    <2>1. \A u \in fit : u[1] \in hps
      OBVIOUS
    <2>2. \A u \in fit : -u[1].iv \in Int /\ -31 =< -u[1].iv
      BY <1>3, <2>1
    <2>3. T \in SUBSET Int /\ T # {} /\ \A x \in T : -31 =< x
      BY <1>2, <2>2
    <2>4. Min(T) \in T
      <3> HIDE DEF T
      <3>1. -31 \in Int
        OBVIOUS
      <3> QED BY <2>3, <3>1, MinExists
    <2> QED BY <2>4
  <1>5. first # {}
    <2> DEFINE T == {u[2] : u \in highest}
    <2>1. \A u \in highest : u[2] \in Nat
      OBVIOUS
    <2> HIDE DEF highest
    <2>2. T \in SUBSET Int /\ T # {} /\ \A x \in T : 0 =< x
      BY <1>4, <2>1
    <2>3. Min(T) \in T
      <3> HIDE DEF T
      <3> QED BY <2>2, MinExists
    <2> QED BY <2>3
  <1>6. found \in fit
    <2>1. found \in first
      <3> HIDE DEF first
      <3> QED BY <1>5
    <2> QED BY <2>1
  <1>7. found[1] \in hps /\ found[2] \in DOMAIN natures /\ spreads(found[1], found[2]) # {}
    <2> HIDE DEF hps, spreads, found
    <2> QED BY <1>6
  <1> DEFINE hp == found[1]
             n == found[2]
  <1> HIDE DEF found, fit, highest, first
  <1>8. ASSUME NEW s \in spreads(hp, n)
        PROVE  /\ s.nature = natures[n]
               /\ \A k \in PermanentStat : s.ivs[k] \in 0 .. 31
               /\ HasHiddenPower(generation, s.ivs, hiddenPower)
               /\ InitialHP(base["hp"], level, s.ivs["hp"], s.evs["hp"]) = stats["hp"]
               /\ \A k \in RegularStat :
                     InitialStat(base[k], level, ToNatureEffect(natures[n], k), s.ivs[k], s.evs[k]) = stats[k]
    BY <1>7, SplitSpreadsFit
  <1>9. First(spreads(hp, n), order) \in spreads(hp, n)
    <2> DEFINE S == spreads(hp, n)
    <2>1. DOMAIN order \subseteq Nat /\ \A i \in DOMAIN order : order[i] \in PermanentStat
      BY DEF PermanentStat, RegularStat
    <2>2. \A s \in S : \A i \in DOMAIN order : s.ivs[order[i]] \in 0 .. 31
      BY <1>8, <2>1
    <2> HIDE DEF S, order
    <2>3. S # {}
      BY <1>7 DEF S
    <2>4. First(S, order) \in S
      BY <2>1, <2>2, <2>3, FirstIsOne
    <2> QED BY <2>4 DEF S
  <1> HIDE DEF spreads, hp, n, order
  <1>10. c \in spreads(hp, n) /\ n \in DOMAIN natures
    BY <1>2, <1>7, <1>9 DEF hp, n
  <1> QED BY <1>8, <1>10

-----------------------------------------------------------------------------
(* Up to the second generation one EV serves both special stats.           *)

LEMMA InitialStatOfFourths ==
    ASSUME NEW base \in Int, NEW level \in Levels, NEW effect \in Effects, NEW iv \in Int,
           NEW low \in Int, NEW high \in Int, low \div 4 =< high \div 4
    PROVE  /\ InitialStat(base, level, effect, iv, low) \in Int
           /\ InitialStat(base, level, effect, iv, high) \in Int
           /\ InitialStat(base, level, effect, iv, low) =< InitialStat(base, level, effect, iv, high)
  <1> DEFINE target == InitialStat(base, level, effect, iv, low)
             n == Fourths(target, base, level, effect, iv)
  <1>1. low \div 4 \in Int /\ high \div 4 \in Int
    BY DivisionFacts
  <1>2. target \in Int
    BY FourthsAreExact
  <1>3. InitialStat(base, level, effect, iv, high) \in Int
    BY FourthsAreExact
  <1> HIDE DEF target
  <1>4. n \in Int /\ (InitialStat(base, level, effect, iv, low) >= target <=> low \div 4 >= n)
    BY <1>2, FourthsAreExact
  <1>5. InitialStat(base, level, effect, iv, high) >= target <=> high \div 4 >= n
    BY <1>2, FourthsAreExact
  <1> HIDE DEF n
  <1>6. InitialStat(base, level, effect, iv, high) >= target
    BY <1>1, <1>2, <1>4, <1>5 DEF target
  <1> QED BY <1>2, <1>3, <1>6 DEF target

\* The more EVs that the other special stat takes leave this one as it is: the
\* original Pokemon made both with the same ones.
LEMMA SharedEVs ==
    ASSUME NEW base \in Int, NEW other \in Int, NEW level \in Levels,
           NEW iv0 \in Int, NEW ev0 \in Int, NEW iv \in Int,
           NEW target, target = InitialStat(base, level, Neutral, iv0, ev0),
           NEW wanted, wanted = InitialStat(other, level, Neutral, iv0, ev0),
           NEW few, few = StatToEV(target, base, level, Neutral, iv), few # NoEV,
           NEW many, many = StatToEV(wanted, other, level, Neutral, iv), many # NoEV,
           few =< many
    PROVE  InitialStat(base, level, Neutral, iv, many) = target
  <1> DEFINE q == ev0 \div 4
             ev == 4 * (iv0 + q - iv)
             S(e) == InitialStat(base, level, Neutral, iv, e)
             n == Fourths(wanted, other, level, Neutral, iv)
  <1>1. Neutral \in Effects /\ q \in Int
    BY DivisionFacts DEF Effects
  <1>2. target \in Int /\ wanted \in Int
    BY <1>1, FourthsAreExact
  <1>3. few \in 0 .. MaxEV /\ S(few) = target /\ many \in 0 .. MaxEV
    BY <1>1, <1>2, StatToEVFindsOne
  <1>4. ev \in Int /\ ev \div 4 = iv0 + q - iv
    <2> DEFINE k == iv0 + q - iv
    <2>1. k \in Int
      BY <1>1
    <2> HIDE DEF k
    <2>2. 4 * k \in Int /\ (4 * k) \div 4 = k
      BY <2>1
    <2> QED BY <2>2 DEF k
  <1>5. ASSUME NEW b \in Int
        PROVE  InitialStat(b, level, Neutral, iv, ev) = InitialStat(b, level, Neutral, iv0, ev0)
    <2> HIDE DEF ev, q
    <2>1. 2 * b + iv + ev \div 4 = 2 * b + iv0 + q
      BY <1>1, <1>4
    <2> QED BY <2>1 DEF InitialStat, q
  <1>6. S(ev) = target /\ InitialStat(other, level, Neutral, iv, ev) = wanted
    BY <1>5
  <1>7. n \in Int /\ ev \div 4 >= n
    <2> HIDE DEF ev
    <2>1. InitialStat(other, level, Neutral, iv, ev) >= wanted
      BY <1>2, <1>6
    <2> QED BY <1>1, <1>2, <1>4, <2>1, FourthsAreExact
  <1>8. many = MaybeEV(n * 4)
    BY DEF StatToEV, StatToEVAtLeast, Fourths
  <1> HIDE DEF ev, n, q, S
  <1>9. CASE n < 0
    <2>1. many = 0
      BY <1>7, <1>8, <1>9 DEF MaybeEV, MaxEV
    <2>2. few = many
      BY <1>3, <2>1 DEF MaxEV
    <2> QED BY <1>3, <2>2 DEF S
  <1>10. CASE ~(n < 0)
    <2>1. many = n * 4
      BY <1>7, <1>8, <1>10 DEF MaybeEV, MaxEV, NoEV
    <2>2. many \div 4 = n
      BY <1>7, <2>1
    <2>3. many \div 4 =< ev \div 4
      BY <1>4, <1>7, <2>2
    <2>4. few \div 4 =< many \div 4 /\ few \in Int /\ many \in Int
      BY <1>3 DEF MaxEV
    <2>5. S(few) \in Int /\ S(many) \in Int /\ S(few) =< S(many)
      BY <1>1, <2>4, InitialStatOfFourths DEF S
    <2>6. S(many) =< S(ev)
      BY <1>1, <1>4, <2>3, <2>4, InitialStatOfFourths DEF S
    <2>7. S(many) = target
      BY <1>2, <1>3, <1>6, <2>5, <2>6
    <2> QED BY <2>7 DEF S
  <1> QED BY <1>9, <1>10

LEMMA MaxOfTwo ==
    ASSUME NEW a \in Int, NEW b \in Int
    PROVE  Max({a, b}) = IF a =< b THEN b ELSE a
  BY DEF Max

\* What is made up for a real Pokemon of the first two generations has its stats.
LEMMA CalculateOldFits ==
    ASSUME NEW generation, IsOld(generation), NEW base \in [PermanentStat -> 1 .. 255],
           NEW level \in Levels, NEW hiddenPower,
           NEW s, s.nature = Hardy,
           s.ivs \in [{"atk", "def", "spe", "spc"} -> 0 .. 15],
           s.evs \in [{"hp", "atk", "def", "spe", "spc"} -> 0 .. MaxEV],
           NEW stats, stats = MakeStats(generation, base, level, s),
           NEW c, c = CalculateOld(generation, base, level, stats, hiddenPower), c # NoSpread
    PROVE  /\ c.nature = Hardy
           /\ c.ivs \in [{"atk", "def", "spe", "spc"} -> 0 .. 15]
           /\ generation = 1 \/ HasHiddenPower(generation, c.ivs, hiddenPower)
           /\ MakeStats(generation, base, level, c) = stats
  <1> DEFINE possible == PossibleDVsOrIVs(generation, IF generation = 1 THEN NoHiddenPower ELSE hiddenPower)
             toEV(k, dv) == StatToEV(stats[k], base[k], level, Neutral, 2 * dv)
             ways(k) == {[dv |-> d, ev |-> toEV(k, d)] : d \in {e \in possible[k] : toEV(k, e) # NoEV}}
             specials == {[dv |-> d, ev |-> Max({toEV("spa", d), toEV("spd", d)})] :
                            d \in {e \in possible["spc"] : NoEV \notin {toEV("spa", e), toEV("spd", e)}}}
             dvsOf(w) == [atk |-> w[1].dv, def |-> w[2].dv, spe |-> w[3].dv, spc |-> w[4].dv]
             made(w) == [nature |-> Hardy, ivs |-> dvsOf(w),
                         evs |-> [hp |-> HPToEV(stats["hp"], base["hp"], level, 2 * GetHP(dvsOf(w))),
                                  atk |-> w[1].ev, def |-> w[2].ev, spe |-> w[3].ev, spc |-> w[4].ev]]
             all == {made(w) : w \in ways("atk") \X ways("def") \X ways("spe") \X specials}
             fit == {x \in all : /\ x.evs["hp"] # NoEV
                                 /\ generation = 1 \/ HasHiddenPower(generation, x.ivs, hiddenPower)}
             order == <<"atk", "def", "spe", "spc">>
  <1>1. c = IF fit = {} THEN NoSpread ELSE First(fit, order)
    BY DEF CalculateOld
  <1>2. \A k \in {"atk", "def", "spe", "spc"} : possible[k] \subseteq 0 .. 15
    BY PossibleIVs
  <1>3. \A k \in {"atk", "def", "spe"} : \A w \in ways(k) :
          w.dv \in 0 .. 15 /\ w.ev = toEV(k, w.dv) /\ w.ev # NoEV
    <2> HIDE DEF possible, toEV
    <2> QED BY <1>2
  <1>4. \A w \in specials : /\ w.dv \in 0 .. 15
                            /\ toEV("spa", w.dv) # NoEV /\ toEV("spd", w.dv) # NoEV
                            /\ w.ev = Max({toEV("spa", w.dv), toEV("spd", w.dv)})
    <2> DEFINE best(d) == Max({toEV("spa", d), toEV("spd", d)})
    <2>1. ASSUME NEW w \in specials
          PROVE  \E d \in possible["spc"] : /\ NoEV \notin {toEV("spa", d), toEV("spd", d)}
                                           /\ w = [dv |-> d, ev |-> best(d)]
      <3> HIDE DEF possible, toEV, best
      <3> QED BY DEF best
    <2> HIDE DEF possible, toEV, best, specials
    <2>2. \A w \in specials : /\ w.dv \in 0 .. 15
                              /\ toEV("spa", w.dv) # NoEV /\ toEV("spd", w.dv) # NoEV
                              /\ w.ev = best(w.dv)
      BY <1>2, <2>1
    <2> QED BY <2>2 DEF best
  <1> HIDE DEF ways, specials
  <1>5. \A x \in all : /\ x.ivs["atk"] \in 0 .. 15 /\ x.ivs["def"] \in 0 .. 15
                       /\ x.ivs["spe"] \in 0 .. 15 /\ x.ivs["spc"] \in 0 .. 15
    <2> HIDE DEF toEV
    <2>1. ASSUME NEW w \in ways("atk") \X ways("def") \X ways("spe") \X specials
          PROVE  /\ dvsOf(w)["atk"] \in 0 .. 15 /\ dvsOf(w)["def"] \in 0 .. 15
                 /\ dvsOf(w)["spe"] \in 0 .. 15 /\ dvsOf(w)["spc"] \in 0 .. 15
      <3>1. w[1] \in ways("atk") /\ w[2] \in ways("def") /\ w[3] \in ways("spe") /\ w[4] \in specials
        OBVIOUS
      <3>2. w[1].dv \in 0 .. 15 /\ w[2].dv \in 0 .. 15 /\ w[3].dv \in 0 .. 15 /\ w[4].dv \in 0 .. 15
        BY <1>3, <1>4, <3>1
      <3> QED BY <3>2
    <2> HIDE DEF dvsOf
    <2>2. ASSUME NEW x \in all
          PROVE  \E w \in ways("atk") \X ways("def") \X ways("spe") \X specials : x.ivs = dvsOf(w)
      OBVIOUS
    <2> QED BY <2>1, <2>2
  <1>6. c \in fit
    <2>1. DOMAIN order \subseteq Nat /\ \A i \in DOMAIN order : order[i] \in {"atk", "def", "spe", "spc"}
      OBVIOUS
    <2>2. fit # {} /\ c = First(fit, order)
      <3> HIDE DEF fit, order
      <3> QED BY <1>1
    <2>3. \A x \in fit : x \in all
      <3> HIDE DEF all
      <3> QED OBVIOUS
    <2> HIDE DEF fit, all, order
    <2>4. \A x \in fit : \A i \in DOMAIN order : x.ivs[order[i]] \in 0 .. 31
      <3>1. ASSUME NEW x \in fit, NEW i \in DOMAIN order
            PROVE  x.ivs[order[i]] \in 0 .. 15
        BY <1>5, <2>1, <2>3
      <3>2. \A n \in 0 .. 15 : n \in 0 .. 31
        OBVIOUS
      <3> QED BY <3>1, <3>2
    <2> QED BY <2>1, <2>2, <2>4, FirstIsOne
  <1>7. PICK w \in ways("atk") \X ways("def") \X ways("spe") \X specials : c = made(w)
    <2> HIDE DEF made
    <2> QED BY <1>6
  <1>8. /\ c.evs["hp"] # NoEV
        /\ generation = 1 \/ HasHiddenPower(generation, c.ivs, hiddenPower)
    <2> HIDE DEF all
    <2> QED BY <1>6
  <1>9. w[1] \in ways("atk") /\ w[2] \in ways("def") /\ w[3] \in ways("spe") /\ w[4] \in specials
    OBVIOUS
  <1> HIDE DEF toEV
  <1>10. /\ c.nature = Hardy
         /\ c.ivs = dvsOf(w)
         /\ c.evs["hp"] = HPToEV(stats["hp"], base["hp"], level, 2 * GetHP(c.ivs))
         /\ c.evs["atk"] = w[1].ev /\ c.evs["def"] = w[2].ev /\ c.evs["spe"] = w[3].ev /\ c.evs["spc"] = w[4].ev
    <2> HIDE DEF dvsOf
    <2> QED BY <1>7
  <1>11. /\ c.ivs["atk"] = w[1].dv /\ c.ivs["def"] = w[2].dv /\ c.ivs["spe"] = w[3].dv /\ c.ivs["spc"] = w[4].dv
    BY <1>10
  <1>12. \A k \in {"atk", "def", "spe"} :
           c.ivs[k] \in 0 .. 15 /\ c.evs[k] = toEV(k, c.ivs[k]) /\ c.evs[k] # NoEV
    <2>1. /\ w[1].dv \in 0 .. 15 /\ w[1].ev = toEV("atk", w[1].dv) /\ w[1].ev # NoEV
          /\ w[2].dv \in 0 .. 15 /\ w[2].ev = toEV("def", w[2].dv) /\ w[2].ev # NoEV
          /\ w[3].dv \in 0 .. 15 /\ w[3].ev = toEV("spe", w[3].dv) /\ w[3].ev # NoEV
      BY <1>3, <1>9
    <2> QED BY <1>10, <1>11, <2>1
  <1>13. /\ c.ivs["spc"] \in 0 .. 15
         /\ toEV("spa", c.ivs["spc"]) # NoEV /\ toEV("spd", c.ivs["spc"]) # NoEV
         /\ c.evs["spc"] = Max({toEV("spa", c.ivs["spc"]), toEV("spd", c.ivs["spc"])})
    BY <1>4, <1>9, <1>10, <1>11
  <1>14. c.ivs \in [{"atk", "def", "spe", "spc"} -> 0 .. 15]
    BY <1>10, <1>11, <1>12, <1>13
  <1> DEFINE Stat(k, iv, ev) == InitialStat(base[k], level, Neutral, iv, ev)
  <1>15. \A k : ToNatureEffect(Hardy, k) = Neutral \/ k \in {"none"}
    BY DEF ToNatureEffect, Hardy
  <1>16. ASSUME NEW x, x.nature = Hardy
         PROVE  /\ MakeStats(generation, base, level, x)
                     = [k \in PermanentStat |->
                          CASE k = "hp" -> InitialHP(base["hp"], level, 2 * GetHP(x.ivs), x.evs["hp"])
                            [] k \in {"spa", "spd"} -> Stat(k, 2 * x.ivs["spc"], x.evs["spc"])
                            [] OTHER -> Stat(k, 2 * x.ivs[k], x.evs[k])]
    <2>1. ASSUME NEW k \in PermanentStat
          PROVE  MakeStats(generation, base, level, x)[k]
                     = CASE k = "hp" -> InitialHP(base["hp"], level, 2 * GetHP(x.ivs), x.evs["hp"])
                         [] k \in {"spa", "spd"} -> Stat(k, 2 * x.ivs["spc"], x.evs["spc"])
                         [] OTHER -> Stat(k, 2 * x.ivs[k], x.evs[k])
      <3>1. CASE k = "hp"
        BY <3>1 DEF MakeStats, IVOf, EVOf, Combined, PermanentStat
      <3>2. CASE k \in {"spa", "spd"}
        BY <1>15, <1>16, <3>2 DEF MakeStats, IVOf, EVOf, Combined, PermanentStat, RegularStat
      <3>3. CASE k \in {"atk", "def", "spe"}
        BY <1>15, <1>16, <3>3 DEF MakeStats, IVOf, EVOf, Combined, PermanentStat, RegularStat
      <3> QED BY <3>1, <3>2, <3>3 DEF PermanentStat, RegularStat
    <2> QED BY <2>1 DEF MakeStats
  <1>17. InitialHP(base["hp"], level, 2 * GetHP(c.ivs), c.evs["hp"]) = stats["hp"]
    BY <1>8, <1>10, HPToEVMakes
  <1>18. ASSUME NEW k \in {"atk", "def", "spe"}
         PROVE  Stat(k, 2 * c.ivs[k], c.evs[k]) = stats[k]
    <2>1. toEV(k, c.ivs[k]) # NoEV /\ c.evs[k] = toEV(k, c.ivs[k])
      BY <1>12
    <2> QED BY <2>1, StatToEVMakes DEF toEV
  <1>19. /\ stats["spa"] = Stat("spa", 2 * s.ivs["spc"], s.evs["spc"])
         /\ stats["spd"] = Stat("spd", 2 * s.ivs["spc"], s.evs["spc"])
    BY <1>16 DEF PermanentStat, RegularStat
  <1>20. /\ 2 * s.ivs["spc"] \in Int /\ s.evs["spc"] \in Int /\ 2 * c.ivs["spc"] \in Int
         /\ base["spa"] \in Int /\ base["spd"] \in Int
    BY <1>13 DEF PermanentStat, RegularStat, MaxEV
  <1> DEFINE a == toEV("spa", c.ivs["spc"])
             d == toEV("spd", c.ivs["spc"])
  <1>21. stats["spa"] \in Int /\ stats["spd"] \in Int
    BY <1>19, <1>20, FourthsAreExact DEF Effects
  <1>22. a \in Int /\ d \in Int
    <2>1. a \in 0 .. MaxEV /\ d \in 0 .. MaxEV
      BY <1>13, <1>20, <1>21, StatToEVFindsOne DEF toEV, Effects
    <2> QED BY <2>1 DEF MaxEV
  <1>23. /\ Stat("spa", 2 * c.ivs["spc"], a) = stats["spa"]
         /\ Stat("spd", 2 * c.ivs["spc"], d) = stats["spd"]
    BY <1>13, StatToEVMakes DEF toEV
  <1>24. a =< d => Stat("spa", 2 * c.ivs["spc"], d) = stats["spa"]
    <2> DEFINE iv == 2 * c.ivs["spc"]
               iv0 == 2 * s.ivs["spc"]
    <2>1. iv \in Int /\ iv0 \in Int
      BY <1>20
    <2>2. a = StatToEV(stats["spa"], base["spa"], level, Neutral, iv)
          /\ d = StatToEV(stats["spd"], base["spd"], level, Neutral, iv)
      BY DEF toEV
    <2>3. a # NoEV /\ d # NoEV
      BY <1>13
    <2>4. stats["spa"] = InitialStat(base["spa"], level, Neutral, iv0, s.evs["spc"])
          /\ stats["spd"] = InitialStat(base["spd"], level, Neutral, iv0, s.evs["spc"])
      BY <1>19
    <2> HIDE DEF a, d, iv, iv0
    <2>5. a =< d => InitialStat(base["spa"], level, Neutral, iv, d) = stats["spa"]
      BY <1>20, <2>1, <2>2, <2>3, <2>4, SharedEVs
    <2> QED BY <2>5 DEF iv
  <1>25. d =< a => Stat("spd", 2 * c.ivs["spc"], a) = stats["spd"]
    <2> DEFINE iv == 2 * c.ivs["spc"]
               iv0 == 2 * s.ivs["spc"]
    <2>1. iv \in Int /\ iv0 \in Int
      BY <1>20
    <2>2. a = StatToEV(stats["spa"], base["spa"], level, Neutral, iv)
          /\ d = StatToEV(stats["spd"], base["spd"], level, Neutral, iv)
      BY DEF toEV
    <2>3. a # NoEV /\ d # NoEV
      BY <1>13
    <2>4. stats["spa"] = InitialStat(base["spa"], level, Neutral, iv0, s.evs["spc"])
          /\ stats["spd"] = InitialStat(base["spd"], level, Neutral, iv0, s.evs["spc"])
      BY <1>19
    <2> HIDE DEF a, d, iv, iv0
    <2>5. d =< a => InitialStat(base["spd"], level, Neutral, iv, a) = stats["spd"]
      BY <1>20, <2>1, <2>2, <2>3, <2>4, SharedEVs
    <2> QED BY <2>5 DEF iv
  <1>26. c.evs["spc"] = IF a =< d THEN d ELSE a
    <2>1. c.evs["spc"] = Max({a, d})
      BY <1>13
    <2> HIDE DEF a, d
    <2> QED BY <1>22, <2>1, MaxOfTwo
  <1>27. /\ Stat("spa", 2 * c.ivs["spc"], c.evs["spc"]) = stats["spa"]
         /\ Stat("spd", 2 * c.ivs["spc"], c.evs["spc"]) = stats["spd"]
    <2> HIDE DEF a, d, Stat
    <2>1. a =< d \/ d =< a
      BY <1>22
    <2>2. CASE a =< d
      BY <1>23, <1>24, <1>26, <2>2
    <2>3. CASE ~(a =< d)
      BY <1>23, <1>25, <1>26, <2>1, <2>3
    <2> QED BY <2>2, <2>3
  <1>28. MakeStats(generation, base, level, c) = stats
    <2> DEFINE m == MakeStats(generation, base, level, c)
    <2>1. m = [k \in PermanentStat |->
                 CASE k = "hp" -> InitialHP(base["hp"], level, 2 * GetHP(c.ivs), c.evs["hp"])
                   [] k \in {"spa", "spd"} -> Stat(k, 2 * c.ivs["spc"], c.evs["spc"])
                   [] OTHER -> Stat(k, 2 * c.ivs[k], c.evs[k])]
      BY <1>10, <1>16
    <2> HIDE DEF m, Stat
    <2>2. ASSUME NEW k \in PermanentStat
          PROVE  m[k] = stats[k]
      <3>1. CASE k = "hp"
        BY <1>17, <2>1, <3>1
      <3>2. CASE k \in {"spa", "spd"}
        BY <1>27, <2>1, <3>2
      <3>3. CASE k \in {"atk", "def", "spe"}
        BY <1>18, <2>1, <3>3
      <3> QED BY <3>1, <3>2, <3>3 DEF PermanentStat, RegularStat
    <2>3. stats = [k \in PermanentStat |-> stats[k]] /\ m = [k \in PermanentStat |-> m[k]]
      BY <2>1 DEF MakeStats
    <2>4. m = stats
      BY <2>2, <2>3
    <2> QED BY <2>4 DEF m
  <1> QED BY <1>8, <1>10, <1>14, <1>28

-----------------------------------------------------------------------------
(* A Pokemon of the client's team, sent and received.                      *)

LEMMA SplitStats ==
    ASSUME NEW generation, ~IsOld(generation), NEW base, NEW level, NEW x
    PROVE  MakeStats(generation, base, level, x)
             = [k \in PermanentStat |->
                  IF k = "hp"
                  THEN InitialHP(base["hp"], level, x.ivs["hp"], x.evs["hp"])
                  ELSE InitialStat(base[k], level, ToNatureEffect(x.nature, k), x.ivs[k], x.evs[k])]
  <1>1. ASSUME NEW k \in PermanentStat
        PROVE  IVOf(generation, x.ivs, k) = x.ivs[k] /\ EVOf(generation, x.evs, k) = x.evs[k]
    BY DEF IVOf, EVOf
  <1> QED BY <1>1 DEF MakeStats

\* Whatever is made up for the stats and the Hidden Power of a Pokemon has them.
LEMMA MadeUpIsAlike ==
    ASSUME NEW p \in Owned, NEW natures, DOMAIN natures \subseteq Nat,
           NEW c, c = CalculateIVsAndEVs(p.generation, p.base, p.level, StatsOf(p, p.spread),
                                         KnownHiddenPower(p, p.spread), natures),
           c # NoSpread
    PROVE  /\ StatsOf(p, c) = StatsOf(p, p.spread)
           /\ KnownHiddenPower(p, c) = KnownHiddenPower(p, p.spread)
           /\ IF IsOld(p.generation) THEN c.nature = Hardy ELSE \E n \in DOMAIN natures : c.nature = natures[n]
  <1> DEFINE stats == StatsOf(p, p.spread)
             hidden == KnownHiddenPower(p, p.spread)
  <1>1. /\ p.generation \in Nat \ {0} /\ p.level \in Levels /\ p.base \in [PermanentStat -> 1 .. 255]
        /\ p.hasHiddenPower \in BOOLEAN /\ (p.generation = 1 => ~p.hasHiddenPower)
    BY OwnedAssumption DEF Levels
  <1>2. stats = MakeStats(p.generation, p.base, p.level, p.spread)
        /\ StatsOf(p, c) = MakeStats(p.generation, p.base, p.level, c)
    BY DEF StatsOf
  <1>3. p.hasHiddenPower => hidden # NoHiddenPower
    <2> SUFFICES ASSUME p.hasHiddenPower
                 PROVE  hidden.power # NoHiddenPower.power
      OBVIOUS
    <2>1. hidden.power = CalculatePower(p.generation, p.spread.ivs)
      BY DEF KnownHiddenPower, HiddenPowerOf
    <2>2. hidden.power = AssumedPower(p.generation)
      BY <2>1, HiddenPowerAssumption
    <2>3. AssumedPower(p.generation) \in {60, 70}
      BY DEF AssumedPower
    <2> QED BY <2>2, <2>3 DEF NoHiddenPower
  <1>4. ASSUME p.hasHiddenPower => HasHiddenPower(p.generation, c.ivs, hidden)
        PROVE  KnownHiddenPower(p, c) = hidden
    BY <1>3, <1>4 DEF HasHiddenPower, KnownHiddenPower
  <1> HIDE DEF stats, hidden
  <1>5. CASE IsOld(p.generation)
    <2>1. /\ p.spread.nature = Hardy
          /\ p.spread.ivs \in [{"atk", "def", "spe", "spc"} -> 0 .. 15]
          /\ p.spread.evs \in [{"hp", "atk", "def", "spe", "spc"} -> 0 .. MaxEV]
      BY <1>5, OwnedAssumption
    <2>2. c = CalculateOld(p.generation, p.base, p.level, stats, hidden)
      BY <1>5 DEF CalculateIVsAndEVs, stats, hidden
    <2>3. /\ c.nature = Hardy
          /\ p.generation = 1 \/ HasHiddenPower(p.generation, c.ivs, hidden)
          /\ MakeStats(p.generation, p.base, p.level, c) = stats
      BY <1>1, <1>2, <1>5, <2>1, <2>2, CalculateOldFits
    <2> QED BY <1>1, <1>2, <1>4, <1>5, <2>3 DEF stats, hidden
  <1>6. CASE ~IsOld(p.generation)
    <2>1. c = CalculateSplit(p.generation, p.base, p.level, stats, hidden, natures)
      BY <1>6 DEF CalculateIVsAndEVs, stats, hidden
    <2>2. /\ \E n \in DOMAIN natures : c.nature = natures[n]
          /\ HasHiddenPower(p.generation, c.ivs, hidden)
          /\ InitialHP(p.base["hp"], p.level, c.ivs["hp"], c.evs["hp"]) = stats["hp"]
          /\ \A s \in RegularStat :
                InitialStat(p.base[s], p.level, ToNatureEffect(c.nature, s), c.ivs[s], c.evs[s]) = stats[s]
      BY <1>6, <2>1, CalculateSplitFits
    <2>3. MakeStats(p.generation, p.base, p.level, c) = [k \in PermanentStat |-> stats[k]]
      <3> DEFINE m == MakeStats(p.generation, p.base, p.level, c)
      <3>1. m = [k \in PermanentStat |->
                  IF k = "hp"
                  THEN InitialHP(p.base["hp"], p.level, c.ivs["hp"], c.evs["hp"])
                  ELSE InitialStat(p.base[k], p.level, ToNatureEffect(c.nature, k), c.ivs[k], c.evs[k])]
        BY <1>6, SplitStats
      <3> HIDE DEF m
      <3>2. \A k \in PermanentStat : m[k] = stats[k]
        BY <2>2, <3>1 DEF PermanentStat
      <3>3. m = [k \in PermanentStat |-> m[k]]
        BY <3>1
      <3> QED BY <3>2, <3>3 DEF m
    <2>4. stats = [k \in PermanentStat |-> stats[k]]
      BY <1>2 DEF MakeStats
    <2>5. StatsOf(p, c) = stats
      BY <1>2, <2>3, <2>4
    <2> QED BY <1>4, <1>6, <2>2, <2>5 DEF stats, hidden
  <1> QED BY <1>5, <1>6

\* What the server tells of the Hidden Power, and what is guessed, come to the
\* Hidden Power that there is.
LEMMA ParsedIsKnown ==
    ASSUME NEW p \in Owned, NEW s, KnownHiddenPower(p, s) = KnownHiddenPower(p, p.spread)
    PROVE  ParsedHiddenPower(p, s) = KnownHiddenPower(p, p.spread)
  <1>1. CASE p.hasHiddenPower
    <2>1. CalculatePower(p.generation, p.spread.ivs) = AssumedPower(p.generation)
      BY <1>1, HiddenPowerAssumption
    <2>2. HiddenPowerOf(p.generation, s.ivs) = HiddenPowerOf(p.generation, p.spread.ivs)
      BY <1>1 DEF KnownHiddenPower
    <2>3. CalculateType(p.generation, s.ivs) = CalculateType(p.generation, p.spread.ivs)
      BY <2>2 DEF HiddenPowerOf
    <2> QED BY <1>1, <2>1, <2>3 DEF ParsedHiddenPower, KnownHiddenPower, HiddenPowerOf
  <1>2. CASE ~p.hasHiddenPower
    BY <1>2 DEF ParsedHiddenPower, KnownHiddenPower
  <1> QED BY <1>1, <1>2

\* An owned Pokemon is as it was stored, or as good as it was.
Alike ==
    /\ phase \in {"stored", "exported", "received"} => pokemon \in Owned
    /\ phase = "stored" => spread = pokemon.spread
    /\ RoundTrip

(***************************************************************************)
(* For every Pokemon of the client's team, of any generation, base stats,  *)
(* level, nature, IVs and EVs: the spread that to_packed_format exports    *)
(* has its stats, nature and Hidden Power, and the one that                *)
(* parsed_team_to_known_team makes up has its stats and Hidden Power.      *)
(***************************************************************************)
THEOREM RoundTrips == Spec => []RoundTrip
  <1>1. Init => Alike
    BY DEF Init, Alike, RoundTrip
  <1>2. Alike /\ [Next]_vars => Alike'
    <2> SUFFICES ASSUME Alike, [Next]_vars
                 PROVE  Alike'
      OBVIOUS
    <2>1. CASE Exports
      <3> DEFINE natures == <<spread.nature>>
                 c == Calculate(KnownHiddenPower(pokemon, spread), natures)
      <3>1. /\ pokemon \in Owned /\ spread = pokemon.spread /\ pokemon' = pokemon
            /\ Becomes(c, "exported")
        BY <2>1 DEF Exports, Alike
      <3>2. DOMAIN natures \subseteq Nat /\ \A n \in DOMAIN natures : natures[n] = pokemon.spread.nature
        BY <3>1
      <3>3. c = CalculateIVsAndEVs(pokemon.generation, pokemon.base, pokemon.level,
                                   StatsOf(pokemon, pokemon.spread), KnownHiddenPower(pokemon, pokemon.spread), natures)
        BY <3>1 DEF Calculate
      <3> HIDE DEF natures, c
      <3>4. CASE c = NoSpread
        BY <3>1, <3>4 DEF Becomes, Alike, RoundTrip
      <3>5. CASE c # NoSpread
        <4>1. /\ StatsOf(pokemon, c) = StatsOf(pokemon, pokemon.spread)
              /\ KnownHiddenPower(pokemon, c) = KnownHiddenPower(pokemon, pokemon.spread)
              /\ IF IsOld(pokemon.generation)
                 THEN c.nature = Hardy
                 ELSE \E n \in DOMAIN natures : c.nature = natures[n]
          BY <3>1, <3>2, <3>3, <3>5, MadeUpIsAlike
        <4>2. c.nature = pokemon.spread.nature
          BY <3>1, <3>2, <4>1, OwnedAssumption
        <4>3. spread' = c /\ phase' = "exported"
          BY <3>1, <3>5 DEF Becomes
        <4> QED BY <3>1, <4>1, <4>2, <4>3 DEF Alike, RoundTrip, StatsOf, KnownHiddenPower
      <3> QED BY <3>4, <3>5
    <2>2. CASE Receives
      <3> DEFINE natures == AllNatures(pokemon.generation)
                 c == Calculate(ParsedHiddenPower(pokemon, spread), natures)
      <3>1. /\ pokemon \in Owned /\ pokemon' = pokemon
            /\ StatsOf(pokemon, spread) = StatsOf(pokemon, pokemon.spread)
            /\ KnownHiddenPower(pokemon, spread) = KnownHiddenPower(pokemon, pokemon.spread)
            /\ Becomes(c, "received")
        BY <2>2 DEF Receives, Alike, RoundTrip
      <3>2. DOMAIN natures \subseteq Nat
        BY DEF AllNatures, Nature
      <3>3. c = CalculateIVsAndEVs(pokemon.generation, pokemon.base, pokemon.level,
                                   StatsOf(pokemon, pokemon.spread), KnownHiddenPower(pokemon, pokemon.spread), natures)
        BY <3>1, ParsedIsKnown DEF Calculate
      <3> HIDE DEF natures, c
      <3>4. CASE c = NoSpread
        BY <3>1, <3>4 DEF Becomes, Alike, RoundTrip
      <3>5. CASE c # NoSpread
        <4>1. /\ StatsOf(pokemon, c) = StatsOf(pokemon, pokemon.spread)
              /\ KnownHiddenPower(pokemon, c) = KnownHiddenPower(pokemon, pokemon.spread)
          BY <3>1, <3>2, <3>3, <3>5, MadeUpIsAlike
        <4>2. spread' = c /\ phase' = "received"
          BY <3>1, <3>5 DEF Becomes
        <4> QED BY <3>1, <4>1, <4>2 DEF Alike, RoundTrip, StatsOf, KnownHiddenPower
      <3> QED BY <3>4, <3>5
    <2>3. CASE Estimates
      <3>1. phase' \in {"failed", "estimated"}
        BY <2>3 DEF Estimates, Becomes
      <3> QED BY <3>1 DEF Alike, RoundTrip
    <2>4. CASE Pads
      <3>1. phase' \in {"failed", "padded"}
        BY <2>4 DEF Pads, Becomes
      <3> QED BY <3>1 DEF Alike, RoundTrip
    <2>5. CASE Minimizes
      <3>1. phase' \in {"failed", "optimized", "minimal"}
        BY <2>5 DEF Minimizes, Becomes
      <3> QED BY <3>1 DEF Alike, RoundTrip
    <2>6. CASE UNCHANGED vars
      BY <2>6 DEF vars, Alike, RoundTrip, StatsOf, KnownHiddenPower
    <2> QED BY <2>1, <2>2, <2>3, <2>4, <2>5, <2>6 DEF Next
  <1>3. Alike => RoundTrip
    BY DEF Alike
  <1> QED BY <1>1, <1>2, <1>3, PTL DEF Spec
=============================================================================

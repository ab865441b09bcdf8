-------------------------------- MODULE Stats --------------------------------
(***************************************************************************)
(* The stats of a Pokemon and what they are made of: its base stats and    *)
(* level, its nature, and an IV and an EV for each stat (src/source/tm/stat). *)
(* All of it is integer arithmetic that rounds down, so that several       *)
(* spreads of natures, IVs and EVs give the same stats.                    *)
(*                                                                         *)
(* A spread is a record of a nature, IVs and EVs.  Up to the second        *)
(* generation the IVs are DVs of half the size, Special Attack and Special *)
(* Defense share theirs ("spc"), HP has none of its own, and there are no  *)
(* natures.                                                                *)
(***************************************************************************)
EXTENDS Integers, SequencesExt

RegularStat == {"atk", "def", "spa", "spd", "spe"}
PermanentStat == {"hp"} \cup RegularStat

IsOld(generation) == generation <= 2
Combined(stat) == IF stat \in {"spa", "spd"} THEN "spc" ELSE stat

-----------------------------------------------------------------------------
(* Natures.  The four that change nothing and come after Hardy are left out. *)

Negative == -1
Neutral == 0
Positive == 1
Boost(effect) == 10 + effect \* tenths

Hardy == [raises |-> "none", lowers |-> "none"]

\* All natures in the order of the enumeration: each stat is raised four times in a row.
Nature ==
    LET order == <<"atk", "def", "spe", "spa", "spd">>
        raised(i) == (i - 2) \div 4 + 1
        lowered(i) == LET n == 1 + ((i - 2) % 4) IN IF n < raised(i) THEN n ELSE n + 1
    IN  [i \in 1 .. 21 |->
            IF i = 1 THEN Hardy ELSE [raises |-> order[raised(i)], lowers |-> order[lowered(i)]]]

ToNatureEffect(nature, stat) ==
    CASE nature.raises = stat -> Positive
      [] nature.lowers = stat -> Negative
      [] OTHER                -> Neutral

-----------------------------------------------------------------------------

\* The code's loops keep the first of the best: what is least by a rank
LeastBy(S, Rank(_)) ==
    LET least == Min({Rank(x) : x \in S})
    IN  {x \in S : Rank(x) = least}

-----------------------------------------------------------------------------
(* From a spread to stats. *)

MaxEV == 255
UsefulMax == 252
MaxTotalEVs == 510 \* from the third generation on

EVSum(evs) == evs["hp"] + evs["atk"] + evs["def"] + evs["spa"] + evs["spd"] + evs["spe"]

InRange(evs) == \A s \in DOMAIN evs : evs[s] \in 0 .. MaxEV

InitialStat(base, level, effect, iv, ev) ==
    ((((2 * base + iv + ev \div 4) * level) \div 100 + 5) * Boost(effect)) \div 10

InitialHP(base, level, iv, ev) ==
    IF base > 1
    THEN ((2 * base + iv + ev \div 4) * level) \div 100 + 10 + level
    ELSE 1

\* The DV of HP is made of the last bits of the others
GetHP(dvs) ==
    8 * (dvs["atk"] % 2) + 4 * (dvs["def"] % 2) + 2 * (dvs["spe"] % 2) + (dvs["spc"] % 2)

IVOf(generation, ivs, stat) ==
    IF ~IsOld(generation) THEN ivs[stat]
    ELSE IF stat = "hp" THEN 2 * GetHP(ivs)
    ELSE 2 * ivs[Combined(stat)]

EVOf(generation, evs, stat) == IF IsOld(generation) THEN evs[Combined(stat)] ELSE evs[stat]

\* In the first generation the base stats of "spa" and "spd" are the same, and
\* so are the stats.
MakeStats(generation, base, level, spread) ==
    [stat \in PermanentStat |->
        LET iv == IVOf(generation, spread.ivs, stat)
            ev == EVOf(generation, spread.evs, stat)
        IN  IF stat = "hp"
            THEN InitialHP(base["hp"], level, iv, ev)
            ELSE InitialStat(base[stat], level, ToNatureEffect(spread.nature, stat), iv, ev)]

\* The spread of a Pokemon that nothing is known of
DefaultSpread(generation) ==
    [nature |-> Hardy,
     ivs |-> IF IsOld(generation)
             THEN [s \in {"atk", "def", "spe", "spc"} |-> 15]
             ELSE [s \in PermanentStat |-> 31],
     evs |-> IF IsOld(generation)
             THEN [s \in {"hp", "atk", "def", "spe", "spc"} |-> UsefulMax]
             ELSE [s \in PermanentStat |-> 0]]

-----------------------------------------------------------------------------
(* From a stat to the EVs that it takes. *)

NoEV == -1

\* Mutation of RoundUpDivide: it rounds down.
MutRoundUpDivide(a, b) == a \div b

RoundUpDivide(a, b) == -((-a) \div b)

MaybeEV(computed) ==
    CASE computed > MaxEV -> NoEV
      [] computed < 0     -> 0
      [] OTHER            -> computed

HPToEV(target, base, level, iv) ==
    LET ev == IF base = 1
              THEN (IF target = 1 THEN 0 ELSE NoEV)
              ELSE MaybeEV((RoundUpDivide((target - level - 10) * 100, level) - 2 * base - iv) * 4)
    IN  IF ev # NoEV /\ InitialHP(base, level, iv, ev) = target THEN ev ELSE NoEV

StatToEVAtLeast(target, base, level, effect, iv) ==
    LET unboosted == RoundUpDivide(target * 10, Boost(effect)) - 5
    IN  MaybeEV((RoundUpDivide(unboosted * 100, level) - 2 * base - iv) * 4)

StatToEV(target, base, level, effect, iv) ==
    LET ev == StatToEVAtLeast(target, base, level, effect, iv)
    IN  IF ev # NoEV /\ InitialStat(base, level, effect, iv, ev) = target THEN ev ELSE NoEV
=============================================================================

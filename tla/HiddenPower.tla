---------------------------- MODULE HiddenPower ----------------------------
(***************************************************************************)
(* The type and the power of the move Hidden Power, which are a function of *)
(* the DVs or IVs of its user (pokemon/hidden_power.cpp), and the other way *)
(* round the DVs or IVs that leave a Hidden Power possible, stat by stat   *)
(* (stat/possible_dvs_or_ivs.cpp).  A type is its index in                 *)
(*   Fighting Flying Poison Ground Rock Bug Ghost Steel                    *)
(*   Fire Water Grass Electric Psychic Ice Dragon Dark                     *)
(***************************************************************************)
EXTENDS Stats

Dark == 15

NoHiddenPower == [type |-> -1, power |-> 0]

HasIVPower(generation) == generation \in 3 .. 5

\* The weight of a stat in the sums over IVs
Weight == [hp |-> 1, atk |-> 2, def |-> 4, spe |-> 8, spa |-> 16, spd |-> 32]

SumStats(bit) ==
    bit["hp"] + 2 * bit["atk"] + 4 * bit["def"] + 8 * bit["spe"] + 16 * bit["spa"] + 32 * bit["spd"]

CalculateType(generation, ivs) ==
    IF IsOld(generation)
    THEN 4 * (ivs["atk"] % 4) + (ivs["def"] % 4)
    ELSE (SumStats([s \in PermanentStat |-> ivs[s] % 2]) * 15) \div 63

CalculatePower(generation, ivs) ==
    LET bit(s) == IF ivs[s] < 8 THEN 0 ELSE 1
        x == 8 * bit("atk") + 4 * bit("def") + 2 * bit("spe") + bit("spc")
        y == IF ivs["spc"] < 3 THEN ivs["spc"] ELSE 3
    IN  CASE IsOld(generation)      -> (5 * x + y) \div 2 + 31
          [] HasIVPower(generation) -> (SumStats([s \in PermanentStat |-> (ivs[s] \div 2) % 2]) * 40) \div 63 + 30
          [] OTHER                  -> 60

HiddenPowerOf(generation, ivs) ==
    [type |-> CalculateType(generation, ivs), power |-> CalculatePower(generation, ivs)]

-----------------------------------------------------------------------------
(* The DVs of the second generation *)

PossibleDVsType(stat, type) ==
    {dv \in 0 .. 15 : CASE stat = "atk" -> dv % 4 = type \div 4
                        [] stat = "def" -> dv % 4 = type % 4
                        [] OTHER        -> TRUE}

PossibleDVsPower(stat, power) ==
    LET contribution == [atk |-> 8, def |-> 4, spe |-> 2][stat]
        high == (((power - 31) * 2) \div 5) % (2 * contribution) >= contribution
    IN  IF stat = "spc"
        THEN [r \in 0 .. 4 |-> CASE r = 0 -> 0 .. 1
                                 [] r = 1 -> 2 .. 7
                                 [] r = 4 -> 8 .. 15
                                 [] OTHER -> {}][(power - 31) % 5]
        ELSE {dv \in 0 .. 15 : high = (dv >= 8)}

-----------------------------------------------------------------------------
(* The IVs of the later ones *)

\* Whether the IVs of a stat are even, odd or any, for each type from the first
AllowedIVs(stat, type) ==
    LET row == CASE stat = "spe" -> <<"even", "any", "any", "any", "even", "any", "odd", "any",
                                      "even", "any", "odd", "any", "even", "any", "odd", "odd">>
                 [] stat = "spa" -> <<"even", "even", "even", "any", "odd", "odd", "odd", "any",
                                      "even", "even", "even", "any", "odd", "odd", "odd", "odd">>
                 [] stat = "spd" -> <<"even", "even", "even", "even", "even", "even", "even", "any",
                                      "odd", "odd", "odd", "odd", "odd", "odd", "odd", "odd">>
                 [] OTHER        -> [i \in 1 .. 16 |-> IF i - 1 = Dark THEN "odd" ELSE "any"]
    IN  row[type + 1]

PossibleIVsType(stat, type) ==
    {iv \in 0 .. 31 : CASE AllowedIVs(stat, type) = "any"  -> TRUE
                        [] AllowedIVs(stat, type) = "even" -> iv % 2 = 0
                        [] AllowedIVs(stat, type) = "odd"  -> iv % 2 = 1}

\* One or two sums of the second bits give a power
PossiblePowerSums(power) ==
    LET min == (power - 30) * 63
        least == (min + 39) \div 40
    IN  {least} \cup {sum \in {least + 1} : sum * 40 <= min + 62 /\ sum <= 63}

PossibleIVsPower(stat, power) ==
    LET bits == {(sum \div Weight[stat]) % 2 : sum \in PossiblePowerSums(power)}
    IN  {iv \in 0 .. 31 : (IF iv % 4 <= 1 THEN 0 ELSE 1) \in bits}

-----------------------------------------------------------------------------

\* The DVs or IVs that each stat of a user of this Hidden Power may have
PossibleDVsOrIVs(generation, hiddenPower) ==
    LET any == hiddenPower = NoHiddenPower
        dvs(s) == IF any THEN 0 .. 15
                  ELSE PossibleDVsType(s, hiddenPower.type) \cap PossibleDVsPower(s, hiddenPower.power)
        ivs(s) == IF any THEN 0 .. 31
                  ELSE PossibleIVsType(s, hiddenPower.type)
                       \cap (IF HasIVPower(generation) THEN PossibleIVsPower(s, hiddenPower.power) ELSE 0 .. 31)
    IN  IF IsOld(generation)
        THEN [s \in {"atk", "def", "spe", "spc"} |-> dvs(s)]
        ELSE [s \in PermanentStat |-> ivs(s)]

\* Mutation of HasHiddenPower: that each stat may have its IV is taken to be enough.
MutHasHiddenPower(generation, ivs, hiddenPower) == TRUE

\* Whether a spread has the Hidden Power that is asked for, if one is
HasHiddenPower(generation, ivs, hiddenPower) ==
    hiddenPower # NoHiddenPower => HiddenPowerOf(generation, ivs) = hiddenPower
=============================================================================

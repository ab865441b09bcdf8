----------------------------- MODULE IVsAndEVs -----------------------------
(***************************************************************************)
(* calculate_ivs_and_evs (stat/calculate_ivs_and_evs.cpp): a spread that   *)
(* gives the stats and the Hidden Power of a Pokemon.  The function tries  *)
(* spreads in a fixed order, higher IVs first, and returns the first that  *)
(* fits.                                                                   *)
(***************************************************************************)
EXTENDS HiddenPower

CONSTANT NoSpread \* the function throws

\* The IVs, or DVs, that a stat may have, with the EVs that make it what it is.
\* Hidden Power does not tell IVs apart that differ by a multiple of four, and the
\* lower one needs more EVs: of those only the highest may be in the first spread
\* that fits.
WithEVs(toEV) ==
    LET fits == {iv \in DOMAIN toEV : toEV[iv] # NoEV}
    IN  {[iv |-> i, ev |-> toEV[i]] :
           i \in {j \in fits : \A k \in fits : k > j => (k - j) % 4 # 0}}

\* The loops over the stats in this order reach the spread with the higher IV
\* first: the IVs are the digits of a number.
Digits(ivs, order) ==
    LET digit(i) == IF i \in DOMAIN order THEN ivs[order[i]] ELSE 0
    IN  32 * (32 * (32 * (32 * digit(1) + digit(2)) + digit(3)) + digit(4)) + digit(5)

First(spreads, order) ==
    CHOOSE c \in LeastBy(spreads, LAMBDA s : -Digits(s.ivs, order)) : TRUE

\* From the third generation on: the spreads with this HP and nature
SplitSpreads(generation, base, level, stats, hiddenPower, hp, nature) ==
    LET possible == PossibleDVsOrIVs(generation, hiddenPower)
        ways(stat) == WithEVs([iv \in possible[stat] |->
                         StatToEV(stats[stat], base[stat], level, ToNatureEffect(nature, stat), iv)])
        all == {[nature |-> nature,
                 ivs |-> [hp |-> hp.iv, atk |-> w[1].iv, def |-> w[2].iv, spa |-> w[3].iv, spd |-> w[4].iv, spe |-> w[5].iv],
                 evs |-> [hp |-> hp.ev, atk |-> w[1].ev, def |-> w[2].ev, spa |-> w[3].ev, spd |-> w[4].ev, spe |-> w[5].ev]] :
                  w \in ways("atk") \X ways("def") \X ways("spa") \X ways("spd") \X ways("spe")}
    IN  {c \in all : EVSum(c.evs) <= MaxTotalEVs /\ HasHiddenPower(generation, c.ivs, hiddenPower)}

CalculateSplit(generation, base, level, stats, hiddenPower, natures) ==
    LET possible == PossibleDVsOrIVs(generation, hiddenPower)["hp"]
        hps == WithEVs([iv \in possible |-> HPToEV(stats["hp"], base["hp"], level, iv)])
        spreads(hp, n) == SplitSpreads(generation, base, level, stats, hiddenPower, hp, natures[n])
        fit == {t \in hps \X (DOMAIN natures) : spreads(t[1], t[2]) # {}}
        found == CHOOSE t \in LeastBy(LeastBy(fit, LAMBDA t : -t[1].iv), LAMBDA t : t[2]) : TRUE
    IN  IF fit = {}
        THEN NoSpread
        ELSE First(spreads(found[1], found[2]), <<"atk", "def", "spa", "spd", "spe">>)

\* Up to the second: EVs have no common limit, and one EV serves both specials
CalculateOld(generation, base, level, stats, hiddenPower) ==
    LET possible == PossibleDVsOrIVs(generation, IF generation = 1 THEN NoHiddenPower ELSE hiddenPower)
        toEV(stat, dv) == StatToEV(stats[stat], base[stat], level, Neutral, 2 * dv)
        ways(stat) == {[dv |-> d, ev |-> toEV(stat, d)] : d \in {e \in possible[stat] : toEV(stat, e) # NoEV}}
        specials == {[dv |-> d, ev |-> Max({toEV("spa", d), toEV("spd", d)})] :
                       d \in {e \in possible["spc"] : NoEV \notin {toEV("spa", e), toEV("spd", e)}}}
        spread(w) ==
            LET dvs == [atk |-> w[1].dv, def |-> w[2].dv, spe |-> w[3].dv, spc |-> w[4].dv]
            IN  [nature |-> Hardy, ivs |-> dvs,
                 evs |-> [hp |-> HPToEV(stats["hp"], base["hp"], level, 2 * GetHP(dvs)),
                          atk |-> w[1].ev, def |-> w[2].ev, spe |-> w[3].ev, spc |-> w[4].ev]]
        all == {spread(w) : w \in ways("atk") \X ways("def") \X ways("spe") \X specials}
        fit == {c \in all : /\ c.evs["hp"] # NoEV
                            /\ generation = 1 \/ HasHiddenPower(generation, c.ivs, hiddenPower)}
    IN  IF fit = {} THEN NoSpread ELSE First(fit, <<"atk", "def", "spe", "spc">>)

CalculateIVsAndEVs(generation, base, level, stats, hiddenPower, natures) ==
    IF IsOld(generation)
    THEN CalculateOld(generation, base, level, stats, hiddenPower)
    ELSE CalculateSplit(generation, base, level, stats, hiddenPower, natures)
=============================================================================

----------------------------- MODULE EVOptimizer -----------------------------
(***************************************************************************)
(* The steps of optimize_evs (team_predictor/ev_optimizer), which guesses  *)
(* the nature, IVs and EVs of a Pokemon of the other side:                 *)
(*   pad_evs hands out all EVs that are left;                              *)
(*   compute_minimal_spread then looks for the fewest EVs that keep what    *)
(*     the Pokemon can use: its Speed, the attacks it has moves for, and   *)
(*     how much damage of either kind it survives (HP times the defense).  *)
(***************************************************************************)
EXTENDS IVsAndEVs

-----------------------------------------------------------------------------
(* Padding *)

Used(stat, includeAttack, includeSpecialAttack) ==
    (stat = "atk" => includeAttack) /\ (stat = "spa" => includeSpecialAttack)

MinimalIncrement == 4

UsefulValue(value) == value - (value % MinimalIncrement)

Remaining(evs) == MaxTotalEVs - EVSum(evs)

GetNotFull(ev) == IF ev < UsefulMax THEN ev ELSE 0

UsedNonFullEVs(evs) == EVSum([s \in PermanentStat |-> GetNotFull(evs[s])])

ProportionateValue(ev, remaining, used) == ev + (ev * remaining) \div used

\* The first of the greatest
GreatestNonFull(evs) ==
    LET order == <<"hp", "atk", "def", "spa", "spd", "spe">>
        normalized(i) == IF evs[order[i]] >= UsefulMax THEN -1 ELSE evs[order[i]]
        greatest == LeastBy(1 .. 6, LAMBDA i : -normalized(i))
    IN  order[Min(greatest)]

FillGreatest(evs) ==
    LET used == UsedNonFullEVs(evs)
        stat == GreatestNonFull(evs)
        fills == used > 0 /\ ProportionateValue(evs[stat], Remaining(evs), used) >= UsefulMax
    IN  IF fills THEN [evs EXCEPT ![stat] = UsefulMax] ELSE evs

\* Two stats at most are full (510 \div 252 rounds), and a round that fills none ends it.
FillEVsThatShouldFill(evs) == FillGreatest(FillGreatest(evs))

AssignEVsProportionally(original, includeAttack, includeSpecialAttack) ==
    LET evs == FillEVsThatShouldFill(original)
        used == UsedNonFullEVs(evs)
        updates(s) == /\ used > 0
                      /\ evs[s] # UsefulMax
                      /\ Used(s, includeAttack, includeSpecialAttack)
    IN  [s \in PermanentStat |->
            IF updates(s) THEN UsefulValue(ProportionateValue(evs[s], Remaining(evs), used)) ELSE evs[s]]

FillInEmptyEVs(evs, includeAttack, includeSpecialAttack) ==
    LET used(s) == Used(s, includeAttack, includeSpecialAttack)
        stats == SelectSeq(<<"spa", "atk", "spd", "def", "hp", "spe">>, used)
        share(e, toAddTo) == Remaining(e) \div (IF toAddTo > 1 THEN toAddTo ELSE 1)
        update(acc, s) ==
            IF acc.evs[s] = UsefulMax
            THEN acc
            ELSE [evs |-> [acc.evs EXCEPT ![s] = UsefulValue(@ + share(acc.evs, acc.toAddTo))],
                  toAddTo |-> acc.toAddTo - 1]
        start == [evs |-> evs, toAddTo |-> Cardinality({s \in PermanentStat : used(s) /\ evs[s] < UsefulMax})]
    IN  FoldLeft(update, start, stats).evs

PadOldEVs(includeAttack) ==
    [s \in {"hp", "atk", "def", "spe", "spc"} |-> IF s = "atk" /\ ~includeAttack THEN 0 ELSE UsefulMax]

PadEVs(generation, evs, includeAttack, includeSpecialAttack) ==
    IF IsOld(generation)
    THEN PadOldEVs(includeAttack)
    ELSE FillInEmptyEVs(AssignEVsProportionally(evs, includeAttack, includeSpecialAttack),
                        includeAttack, includeSpecialAttack)

\* What the assertions of pad_evs ask of its result
IsPadded(generation, evs) ==
    /\ InRange(evs)
    /\ ~IsOld(generation) => EVSum(evs) \in MaxTotalEVs - MinimalIncrement + 1 .. MaxTotalEVs

-----------------------------------------------------------------------------
(* The parts of a minimal spread: attacks, defenses and Speed *)

NE(physical, special) == [physical |-> physical, special |-> special]

NatureEffects ==
    <<NE(Positive, Neutral), NE(Positive, Negative), NE(Neutral, Positive), NE(Neutral, Neutral),
      NE(Neutral, Negative), NE(Negative, Positive), NE(Negative, Neutral)>>

\* Mutation of UsefulNatureEffects: an attack in use is always raised.
MutUsefulNatureEffects(isPhysical, isSpecial) ==
    CASE isPhysical /\ isSpecial  -> NatureEffects
      [] isPhysical /\ ~isSpecial -> <<NE(Positive, Negative)>>
      [] ~isPhysical /\ isSpecial -> <<NE(Negative, Positive)>>
      [] OTHER                    -> <<NE(Negative, Neutral)>>

UsefulNatureEffects(isPhysical, isSpecial) ==
    CASE isPhysical /\ isSpecial  -> NatureEffects
      [] isPhysical /\ ~isSpecial -> <<NE(Positive, Negative), NE(Neutral, Negative)>>
      [] ~isPhysical /\ isSpecial -> <<NE(Negative, Positive), NE(Negative, Neutral)>>
      [] OTHER                    -> <<NE(Negative, Neutral)>>

MinStat == 4

\* The two highest and, for an attack that is not used, the two lowest
PossibleOptimizedIVs(ivs) == {i \in ivs : Cardinality({j \in ivs : j > i}) < 2}
LowestIVs(ivs) == {i \in ivs : Cardinality({j \in ivs : j < i}) < 2}

Possible(level, base, ivs, effect, target) ==
    LET ev(iv) == StatToEVAtLeast(target, base, level, effect, iv)
    IN  {[effect |-> effect, iv |-> i, ev |-> ev(i)] : i \in {j \in ivs : ev(j) # NoEV}}

\* What ComputeMinimalSpread is asked for, with the IVs that are possible
OffensiveEVs(q, ivs) ==
    LET natures == UsefulNatureEffects(q.includeAttack, q.includeSpecialAttack)
        atkIVs == IF q.includeAttack THEN PossibleOptimizedIVs(ivs["atk"]) ELSE LowestIVs(ivs["atk"])
        spaIVs == PossibleOptimizedIVs(ivs["spa"])
        atkTarget == IF q.includeAttack THEN q.stats["atk"] ELSE MinStat
        spaTarget == IF q.includeSpecialAttack THEN q.stats["spa"] ELSE MinStat
        place(iv, used) == IF used THEN 31 - iv ELSE iv
    IN  UNION {{[atk |-> w[1], spa |-> w[2], rank |-> 1024 * n + 32 * place(w[1].iv, q.includeAttack) + 31 - w[2].iv] :
                  w \in Possible(q.level, q.base["atk"], atkIVs, natures[n].physical, atkTarget)
                        \X Possible(q.level, q.base["spa"], spaIVs, natures[n].special, spaTarget)} :
               n \in DOMAIN natures}

SpeedEVs(q, ivs) ==
    UNION {{[spe |-> w, rank |-> 32 * effect + 31 - w.iv] :
              w \in Possible(q.level, q.base["spe"], PossibleOptimizedIVs(ivs["spe"]), effect, q.stats["spe"])} :
           effect \in Negative .. Positive}

\* The spreads of HP with this IV and the defenses with these nature effects
DefensiveCandidates(q, ivs, hpIV, natures) ==
    LET product(stat) == q.stats["hp"] * q.stats[stat]
        ways(ev, stat, effect) ==
            LET hp == InitialHP(q.base["hp"], q.level, hpIV, ev)
            IN  Possible(q.level, q.base[stat], PossibleOptimizedIVs(ivs[stat]), effect,
                         RoundUpDivide(product(stat), hp))
        all == UNION {{[hp |-> [iv |-> hpIV, ev |-> ev], def |-> w[1], spd |-> w[2], sum |-> ev + w[1].ev + w[2].ev] :
                         w \in ways(ev, "def", natures.physical) \X ways(ev, "spd", natures.special)} :
                      ev \in {4 * n : n \in 0 .. UsefulMax \div 4}}
    IN  {c \in all : c.sum <= MaxTotalEVs}

\* Of as many EVs the greater product is better.  It does not fit in TLC's integers:
\* two digits of it are compared one after the other.
BestDefense(q, candidates) ==
    LET hp(c) == InitialHP(q.base["hp"], q.level, c.hp.iv, c.hp.ev)
        single(c, stat, w) == hp(c) * InitialStat(q.base[stat], q.level, w.effect, w.iv, w.ev)
        def(c) == single(c, "def", c.def)
        spd(c) == single(c, "spd", c.spd)
        high(c) == def(c) * (spd(c) \div 1024) + (def(c) * (spd(c) % 1024)) \div 1024
        low(c) == (def(c) * (spd(c) % 1024)) % 1024
        fewest == LeastBy(candidates, LAMBDA c : c.sum)
        greatest == LeastBy(LeastBy(fewest, LAMBDA c : -high(c)), LAMBDA c : -low(c))
    IN  CHOOSE c \in LeastBy(greatest, LAMBDA c : c.hp.ev) : TRUE

\* One for each IV of HP, nature effects and IVs of the defenses
DefensiveEVs(q, ivs) ==
    LET best(hpIV, n) ==
            LET all == DefensiveCandidates(q, ivs, hpIV, NatureEffects[n])
            IN  {[c |-> BestDefense(q, {c \in all : c.def.iv = k[1] /\ c.spd.iv = k[2]}),
                  rank |-> 32 * (31 - hpIV) + 4 * n + 2 * (k[1] - 30) + k[2] - 30] :
                    k \in {<<c.def.iv, c.spd.iv>> : c \in all}}
    IN  UNION {best(w[1], w[2]) : w \in PossibleOptimizedIVs(ivs["hp"]) \X (DOMAIN NatureEffects)}

-----------------------------------------------------------------------------
(* Combining them *)

\* Whether a nature has these effects
Compatible(o, d, s) ==
    LET effects == <<s.spe.effect, o.atk.effect, o.spa.effect, d.c.def.effect, d.c.spd.effect>>
        stats(effect) == {i \in 1 .. 5 : effects[i] = effect}
    IN  /\ Cardinality(stats(Positive)) = Cardinality(stats(Negative))
        /\ Cardinality(stats(Positive)) <= 1

CombinedIVs(o, d, s) ==
    [hp |-> d.c.hp.iv, atk |-> o.atk.iv, def |-> d.c.def.iv, spa |-> o.spa.iv, spd |-> d.c.spd.iv, spe |-> s.spe.iv]

CombinedEVs(o, d, s) ==
    [hp |-> d.c.hp.ev, atk |-> o.atk.ev, def |-> d.c.def.ev, spa |-> o.spa.ev, spd |-> d.c.spd.ev, spe |-> s.spe.ev]

ToNature(effects) ==
    CHOOSE nature \in {Nature[i] : i \in DOMAIN Nature} :
        \A stat \in RegularStat : ToNatureEffect(nature, stat) = effects[stat]

CombinedNature(o, d, s) ==
    ToNature([atk |-> o.atk.effect, def |-> d.c.def.effect, spa |-> o.spa.effect,
              spd |-> d.c.spd.effect, spe |-> s.spe.effect])

\* The first with the fewest EVs, in the order of Speed, attacks, defenses
Combine(q, offensive, defensive, speed) ==
    LET fit == {w \in offensive \X defensive \X speed :
                  /\ Compatible(w[1], w[2], w[3])
                  /\ HasHiddenPower(q.generation, CombinedIVs(w[1], w[2], w[3]), q.hiddenPower)}
        sum(w) == EVSum(CombinedEVs(w[1], w[2], w[3]))
        fewest == LeastBy(fit, sum)
        bySpeed == LeastBy(fewest, LAMBDA w : w[3].rank)
        byAttacks == LeastBy(bySpeed, LAMBDA w : w[1].rank)
        best == CHOOSE w \in LeastBy(byAttacks, LAMBDA w : w[2].rank) : TRUE
    IN  IF fit = {} \/ sum(best) > MaxTotalEVs
        THEN NoSpread
        ELSE [nature |-> CombinedNature(best[1], best[2], best[3]),
              ivs |-> CombinedIVs(best[1], best[2], best[3]),
              evs |-> CombinedEVs(best[1], best[2], best[3])]

\* NoSpread stands for an assertion that fails
SplitSpecialMinimalSpread(q, ivs) ==
    LET expected == PossibleOptimizedIVs(ivs["def"]) \cup PossibleOptimizedIVs(ivs["spd"]) \subseteq 30 .. 31
        defensive == DefensiveEVs(q, ivs)
        speed == SpeedEVs(q, ivs)
    IN  IF ~expected \/ defensive = {} \/ speed = {}
        THEN NoSpread
        ELSE Combine(q, OffensiveEVs(q, ivs), defensive, speed)

\* Mutation of GetAttack: it takes the highest or the lowest, odd or even.
MutGetAttack(dvs, includeAttack) == IF includeAttack THEN Max(dvs) ELSE Min(dvs)

\* An odd DV of Attack adds half of what the DV of HP can be.
GetAttack(dvs, includeAttack) ==
    LET odd == {dv \in dvs : dv % 2 = 1}
        choice == IF odd = {} THEN dvs ELSE odd
    IN  IF includeAttack THEN Max(choice) ELSE Min(choice)

CombinedSpecialMinimalSpread(dvs, includeAttack) ==
    [nature |-> Hardy,
     ivs |-> [atk |-> GetAttack(dvs["atk"], includeAttack),
              def |-> Max(dvs["def"]), spe |-> Max(dvs["spe"]), spc |-> Max(dvs["spc"])],
     evs |-> PadOldEVs(includeAttack)]

ComputeMinimalSpread(q) ==
    LET possible == PossibleDVsOrIVs(q.generation, q.hiddenPower)
    IN  IF IsOld(q.generation)
        THEN CombinedSpecialMinimalSpread(possible, q.includeAttack)
        ELSE SplitSpecialMinimalSpread(q, possible)
=============================================================================

------------------------------- MODULE Spreads -------------------------------
(***************************************************************************)
(* What becomes of the stats of one Pokemon.                               *)
(*                                                                         *)
(* A Pokemon of the client's own team is read from a team file, exported   *)
(* to the server as a spread (to_packed_format), and received again in     *)
(* each request as stats without nature, IVs or EVs, from which            *)
(* parsed_team_to_known_team makes up a spread once more.                  *)
(*                                                                         *)
(* Of a Pokemon of the other side the client has seen the species, the     *)
(* level and some moves: optimize_pokemon_evs (team_predictor_impl.cpp)    *)
(* starts from a default spread, and pads and minimizes it until it stays  *)
(* as it is (optimize_evs).                                                *)
(***************************************************************************)
EXTENDS EVOptimizer

CONSTANTS Owned, Seen

\* What a Pokemon of a team file is.  There is no Hidden Power in the first generation.
ASSUME OwnedAssumption ==
    \A p \in Owned :
        /\ p.generation \in Nat \ {0}
        /\ p.level \in 1 .. 100
        /\ p.base \in [PermanentStat -> 1 .. 255]
        /\ p.hasHiddenPower \in BOOLEAN
        /\ p.generation = 1 => ~p.hasHiddenPower
        /\ IF IsOld(p.generation)
           THEN /\ p.spread.nature = Hardy
                /\ p.spread.ivs \in [{"atk", "def", "spe", "spc"} -> 0 .. 15]
                /\ p.spread.evs \in [{"hp", "atk", "def", "spe", "spc"} -> 0 .. MaxEV]
           ELSE /\ p.spread.ivs \in [PermanentStat -> 0 .. 31]
                /\ p.spread.evs \in [PermanentStat -> 0 .. MaxEV]

\* The most there is
AssumedPower(generation) == IF generation <= 5 THEN 70 ELSE 60

\* Seen Pokemon of the later generations have no Hidden Power here: see the README.
ASSUME HiddenPowerAssumption ==
    /\ \A p \in Owned :
          p.hasHiddenPower => CalculatePower(p.generation, p.spread.ivs) = AssumedPower(p.generation)
    /\ \A p \in Seen : p.hasHiddenPower => p.generation = 2

VARIABLES
    pokemon,  \* one of Owned or Seen
    phase,    \* what has been done with it
    spread,   \* its nature, IVs and EVs
    previous  \* optimize_evs' spread before it was padded

vars == <<pokemon, phase, spread, previous>>

StatsOf(p, s) == MakeStats(p.generation, p.base, p.level, s)

\* Pokemon computes its own from its IVs.  A Pokemon that was seen to use Hidden
\* Power is taken to have the strongest of type Dark.
KnownHiddenPower(p, s) ==
    IF p.hasHiddenPower THEN HiddenPowerOf(p.generation, s.ivs) ELSE NoHiddenPower

SeenHiddenPower(p) ==
    IF p.hasHiddenPower
    THEN [type |-> Dark, power |-> AssumedPower(p.generation)]
    ELSE NoHiddenPower

\* The server tells the type in the name of the move; the power is a guess.
ParsedHiddenPower(p, s) ==
    IF p.hasHiddenPower
    THEN [type |-> CalculateType(p.generation, s.ivs), power |-> AssumedPower(p.generation)]
    ELSE NoHiddenPower

AllNatures(generation) == IF IsOld(generation) THEN <<Hardy>> ELSE Nature

Becomes(next, newPhase) ==
    /\ spread' = IF next = NoSpread THEN spread ELSE next
    /\ phase' = IF next = NoSpread THEN "failed" ELSE newPhase

-----------------------------------------------------------------------------

Init ==
    /\ previous = NoSpread
    /\ \/ /\ pokemon \in Owned
          /\ phase = "stored"
          /\ spread = pokemon.spread
       \/ /\ pokemon \in Seen
          /\ phase = "seen"
          /\ spread = DefaultSpread(pokemon.generation)

Calculate(hiddenPower, natures) ==
    CalculateIVsAndEVs(pokemon.generation, pokemon.base, pokemon.level,
                       StatsOf(pokemon, spread), hiddenPower, natures)

Exports ==
    /\ phase = "stored"
    /\ Becomes(Calculate(KnownHiddenPower(pokemon, spread), <<spread.nature>>), "exported")
    /\ UNCHANGED <<pokemon, previous>>

Receives ==
    /\ phase = "exported"
    /\ Becomes(Calculate(ParsedHiddenPower(pokemon, spread), AllNatures(pokemon.generation)), "received")
    /\ UNCHANGED <<pokemon, previous>>

Estimates ==
    /\ phase = "seen"
    /\ Becomes(Calculate(SeenHiddenPower(pokemon), <<spread.nature>>), "estimated")
    /\ UNCHANGED <<pokemon, previous>>

Pads ==
    /\ phase \in {"estimated", "minimal"}
    /\ LET evs == PadEVs(pokemon.generation, spread.evs, pokemon.includeAttack, pokemon.includeSpecialAttack)
       IN  Becomes(IF IsPadded(pokemon.generation, evs) THEN [spread EXCEPT !.evs = evs] ELSE NoSpread, "padded")
    /\ previous' = spread
    /\ UNCHANGED pokemon

Minimizes ==
    /\ phase = "padded"
    /\ LET minimal == ComputeMinimalSpread(
               [generation |-> pokemon.generation, base |-> pokemon.base, level |-> pokemon.level,
                stats |-> StatsOf(pokemon, spread), hiddenPower |-> SeenHiddenPower(pokemon),
                includeAttack |-> pokemon.includeAttack, includeSpecialAttack |-> pokemon.includeSpecialAttack])
       IN  Becomes(minimal, IF minimal = previous THEN "optimized" ELSE "minimal")
    /\ UNCHANGED <<pokemon, previous>>

Next == Exports \/ Receives \/ Estimates \/ Pads \/ Minimizes

IsDone == phase \in {"received", "optimized", "failed"}

\* Nothing waits for anything else.  This is WF_vars(Next), as Next is enabled until
\* IsDone, without making TLC compute every spread again to find that out.
Fairness == []<>IsDone \/ []<><<TRUE>>_vars

Spec == Init /\ [][Next]_vars /\ Fairness

-----------------------------------------------------------------------------

\* The loop of optimize_evs ends, and neither an assertion of it nor
\* calculate_ivs_and_evs' exception stops a Pokemon: some spread is found for
\* the stats of every Pokemon of the client, and the other side's get one.
EachGetsASpread == <>(phase \in {"received", "optimized"})

\* The spread that is exported has the stats, the nature and the Hidden Power
\* of the Pokemon, and the spread made up for the stats that come back
\* has the stats and the Hidden Power.
RoundTrip ==
    phase \in {"exported", "received"} =>
        /\ StatsOf(pokemon, spread) = StatsOf(pokemon, pokemon.spread)
        /\ phase = "exported" => spread.nature = pokemon.spread.nature
        /\ KnownHiddenPower(pokemon, spread) = KnownHiddenPower(pokemon, pokemon.spread)

\* What the Pokemon can use, given the moves it has been seen to have
Usefulness(p, s) ==
    LET stats == StatsOf(p, s)
    IN  [atk |-> IF p.includeAttack THEN stats["atk"] ELSE 0,
         spa |-> IF p.includeSpecialAttack THEN stats["spa"] ELSE 0,
         spe |-> stats["spe"],
         physicalBulk |-> stats["hp"] * stats["def"],
         specialBulk |-> stats["hp"] * stats["spd"]]

AtLeast(after, before) == \A k \in DOMAIN before : after[k] >= before[k]

\* Neither padding nor minimizing makes a Pokemon slower, or weaker in an attack it
\* uses, or easier to faint by hits of either kind.
KeepsWhatMatters ==
    [][(phase \in {"estimated", "minimal", "padded"}) =>
          AtLeast(Usefulness(pokemon, spread'), Usefulness(pokemon, spread))]_vars

\* The fewest EVs by trial: of any nature and HP with the highest IVs, each
\* stat just as high as it must be
FewestEVs(p, s) ==
    LET stats == StatsOf(p, s)
        choices == {4 * n : n \in 0 .. UsefulMax \div 4}
        impossible == 1000
        least(stat, effect, target) ==
            LET enough == {ev \in choices : InitialStat(p.base[stat], p.level, effect, 31, ev) >= target}
            IN  IF enough = {} THEN impossible ELSE Min(enough)
        attack(stat, used) ==
            [e \in Negative .. Positive |-> IF used THEN least(stat, e, stats[stat]) ELSE 0]
        atk == attack("atk", p.includeAttack)
        spa == attack("spa", p.includeSpecialAttack)
        spe == attack("spe", TRUE)
        bulk(stat, hp, e) == least(stat, e, RoundUpDivide(stats["hp"] * stats[stat], hp))
        defenses(ev) ==
            LET hp == InitialHP(p.base["hp"], p.level, 31, ev)
            IN  [def |-> [e \in Negative .. Positive |-> bulk("def", hp, e)],
                 spd |-> [e \in Negative .. Positive |-> bulk("spd", hp, e)]]
        rest == [ev \in choices |-> defenses(ev)]
        total(n, ev) ==
            ev + atk[ToNatureEffect(n, "atk")] + spa[ToNatureEffect(n, "spa")] + spe[ToNatureEffect(n, "spe")]
               + rest[ev].def[ToNatureEffect(n, "def")] + rest[ev].spd[ToNatureEffect(n, "spd")]
    IN  Min({total(Nature[i], ev) : i \in DOMAIN Nature, ev \in choices})

\* compute_minimal_spread splits the problem into attacks, defenses and Speed, and
\* drops most of the ways to solve each: the one it finds still has the fewest EVs
\* of all natures and spreads that keep what matters.
SpendsLeast ==
    [][phase = "padded" /\ ~IsOld(pokemon.generation) /\ phase' # "failed" =>
          EVSum(spread'.evs) = FewestEVs(pokemon, spread)]_vars
=============================================================================

------------------------------ MODULE MCSpreads ------------------------------
(***************************************************************************)
(* Pokemon for Spreads: base stats of real species at the extremes (one    *)
(* point of HP, very bulky, very frail), at levels where rounding differs  *)
(* the most.                                                               *)
(***************************************************************************)
EXTENDS Spreads

CONSTANT Levels

Stat6(hp, atk, def, spa, spd, spe) ==
    [hp |-> hp, atk |-> atk, def |-> def, spa |-> spa, spd |-> spd, spe |-> spe]

Shedinja == Stat6(1, 90, 45, 30, 30, 40)
Blissey  == Stat6(255, 10, 10, 75, 135, 55)
Shuckle  == Stat6(20, 10, 230, 10, 230, 5)
Deoxys   == Stat6(50, 150, 50, 150, 50, 150)
Garchomp == Stat6(108, 130, 95, 80, 85, 102)
Tauros   == Stat6(75, 100, 95, 40, 70, 110)
Mewtwo   == Stat6(106, 110, 90, 154, 154, 130)

DV4(atk, def, spe, spc) == [atk |-> atk, def |-> def, spe |-> spe, spc |-> spc]
EV5(hp, atk, def, spe, spc) == [hp |-> hp, atk |-> atk, def |-> def, spe |-> spe, spc |-> spc]

OwnedPokemon(generation, level, base, nature, ivs, evs, hasHiddenPower) ==
    [generation |-> generation, level |-> level, base |-> base, hasHiddenPower |-> hasHiddenPower,
     spread |-> [nature |-> nature, ivs |-> ivs, evs |-> evs]]

MCOwned ==
    {OwnedPokemon(generation, level, base, Hardy, dvs, evs, FALSE) :
        generation \in {1}, level \in Levels, base \in {Mewtwo},
        dvs \in {DV4(15, 15, 15, 15), DV4(2, 13, 8, 7)},
        evs \in {EV5(252, 252, 252, 252, 252), EV5(0, 255, 16, 40, 100)}}
    \cup
    {OwnedPokemon(2, level, Tauros, Hardy, dvs, EV5(252, 252, 252, 252, 252), TRUE) :
        level \in Levels, dvs \in {DV4(15, 15, 15, 15), DV4(15, 13, 15, 15), DV4(8, 13, 14, 10)}}
    \cup
    {OwnedPokemon(4, level, base, Nature[nature], ivs, evs, FALSE) :
        level \in Levels, base \in {Garchomp, Shedinja}, nature \in {1, 3, 15, 19},
        ivs \in {Stat6(31, 31, 31, 31, 31, 31), Stat6(3, 20, 9, 0, 31, 17)},
        evs \in {Stat6(4, 252, 0, 0, 0, 252), Stat6(85, 85, 85, 85, 85, 85)}}
    \cup
    {OwnedPokemon(4, level, Garchomp, Nature[13], ivs, Stat6(4, 252, 0, 0, 0, 252), TRUE) :
        level \in Levels \ {5},
        ivs \in {Stat6(31, 30, 31, 30, 31, 30), Stat6(30, 31, 31, 2, 31, 31), Stat6(31, 31, 31, 3, 30, 31)}}
    \cup
    {OwnedPokemon(6, 100, Deoxys, Nature[4], ivs, Stat6(0, 252, 4, 0, 0, 252), TRUE) :
        ivs \in {Stat6(31, 31, 31, 31, 31, 31), Stat6(0, 30, 31, 17, 30, 1)}}

SeenPokemon(generation, level, base, atk, spa, hasHiddenPower) ==
    [generation |-> generation, level |-> level, base |-> base, includeAttack |-> atk,
     includeSpecialAttack |-> spa, hasHiddenPower |-> hasHiddenPower]

MCSeen ==
    {SeenPokemon(2, level, Tauros, atk, spa, hidden) :
        level \in Levels, atk \in BOOLEAN, spa \in {TRUE}, hidden \in BOOLEAN}
    \cup
    {SeenPokemon(4, level, base, atk, spa, FALSE) :
        level \in Levels, base \in {Shedinja, Blissey, Shuckle, Deoxys, Garchomp},
        atk \in BOOLEAN, spa \in BOOLEAN}
=============================================================================

----------------------------- MODULE EndOfTurn -----------------------------
(***************************************************************************)
(* The end of a turn: end_of_turn.cpp, with environment.cpp and wish.cpp.  *)
(* What the code draws for a Pokemon, EndOfTurnFlags, is a record: whether *)
(* it thaws, sheds its skin, and whether the move it is locked in to ends. *)
(***************************************************************************)
EXTENDS ActivePokemon

\* Environment::advance_one_turn; -1 turns are permanent weather.
AdvanceEnvironment(w) ==
  LET turns == IF w.turns > 0 THEN w.turns - 1 ELSE w.turns
  IN  [w EXCEPT !.turns = turns, !.weather = IF turns = 0 THEN Clear ELSE @]

\* hail_effect, rain_effect, sand_effect and sun_effect: the sixteenths of its HP
\* that a Pokemon gains
WeatherHeals(w, s) ==
  LET weather == Weather(w)
      ability == Ability(w, s)
      immune == IF weather = "hail" THEN {"ice"} ELSE {"ground", "rock", "steel"}
      sheltering == IF weather = "hail" THEN {"snow_cloak", "ice_body"} ELSE {"sand_veil"}
  IN  CASE weather = "hail" /\ ability = "ice_body"   -> 1
        [] weather = "rain" /\ ability = "rain_dish"  -> 1
        [] weather \in {"rain", "sun"} /\ ability = "dry_skin" -> 2
        [] weather = "sun" /\ ability = "solar_power" -> -2
        [] weather \in {"hail", "sand"} /\ ability \notin sheltering
             /\ ~IsType(w, s, immune)                 -> -1
        [] OTHER                                      -> 0

WeatherEffect(w, s) ==
  IF Weather(w) = "rain" /\ Ability(w, s) = "hydration" THEN ClearStatus(w, s)
  ELSE IF WeatherHeals(w, s) = 0 THEN w ELSE Heal(w, s, WeatherHeals(w, s), 16)

EnvironmentEffects(w, first) ==
  WeatherEffect(WeatherEffect(AdvanceEnvironment(w), first), Other(first))

DecrementWish(w, s) ==
  CASE w[s].wish = Inactive -> w
    [] w[s].wish = 0        -> Heal([w EXCEPT ![s].wish = Inactive], s, 1, 2)
    [] OTHER                -> [w EXCEPT ![s].wish = @ - 1]

-----------------------------------------------------------------------------
(* other_effects, in the order of its statements.  Each part takes the     *)
(* world that the part before it has left.                                 *)

\* Ingrain and Aqua Ring
RootOrRing(w, s, flag) ==
  IF ~Has(w, s, flag) THEN w
  ELSE IF Item(w, s) = "big_root" THEN Heal(w, s, 13, 160) ELSE Heal(w, s, 1, 16)

SwitchedInThisTurn(l) == l.moved /\ l.move = NoMove

SpeedBoostOrShedSkin(w, s, sheds) ==
  IF ~SwitchedInThisTurn(w[s].lum) /\ Ability(w, s) = "speed_boost"
  THEN Boost(w, s, {"spe"}, 1)
  ELSE IF sheds THEN ClearStatus(w, s) ELSE w

\* Leftovers, Black Sludge and, at the end, a Sticky Barb
HealingItem(w, s) ==
  CASE Item(w, s) = "leftovers" \/ (Item(w, s) = "black_sludge" /\ IsType(w, s, {"poison"}))
                                 -> Heal(w, s, 1, 16)
    [] Item(w, s) = "black_sludge" /\ ~IsType(w, s, {"poison"})
                                 -> Heal(w, s, -1, 8)
    [] OTHER                     -> w
StickyBarb(w, s) == IF Item(w, s) = "sticky_barb" THEN Heal(w, s, -1, 8) ELSE w

\* Flame Orb and Toxic Orb
StatusOrb(w, s) ==
  LET status == CASE Item(w, s) = "flame_orb" -> "burn"
                  [] Item(w, s) = "toxic_orb" -> "toxic"
                  [] OTHER                    -> Clear
  IN  IF status # Clear /\ IndirectStatusCanApply(w, s, status)
      THEN SetStatus(w, s, status) ELSE w

\* The counters that end by themselves, in the order in which they are advanced
AdvanceCounters(w, s) ==
  LET a == Advance(Advance(w, s, "disable"), s, "encore")
      b == Advance(Advance(a, s, "taunt"), s, "magnet_rise")
  IN  Advance(Advance(b, s, "heal_block"), s, "embargo")

EitherUproars(w, s) == Uproaring(w, s) \/ Uproaring(w, Other(s))

HealedInTurn(w, s, flags) ==
  HealingItem(SpeedBoostOrShedSkin(RootOrRing(RootOrRing(w, s, "ingrained"), s, "aqua_ring"),
                                   s, flags.sheds), s)

HurtInTurn(w, s, uproar) ==
  PartialTrapDamage(HandleCurse(StatusOrb(StatusAndLeechSeedEffects(w, s, uproar), s), s), s)

Yawned(w, s, uproar) == TryToActivateYawn(w, s, uproar, TeamHasStatus(w, s, "sleep"))

OtherEffects(w, s, flags) ==
  IF HP(w, s) = 0 THEN w
  ELSE StickyBarb(Yawned(AdvanceCounters(
         AdvancedLockIn(HurtInTurn(HealedInTurn(w, s, flags), s, EitherUproars(w, s)),
                        s, flags.ending), s), s, EitherUproars(w, s)), s)

-----------------------------------------------------------------------------
(* The three ends of a turn *)

BothEndTurn(w) == EndTurn(EndTurn(w, "ai"), "foe")

\* generation_1_end_of_turn
Generation1EndOfTurn(w, first, flags) ==
  LET last == Other(first)
  IN  AdvancedLockIn(AdvancedLockIn(w, first, flags[first].ending), last, flags[last].ending)

\* One step of generation_2_end_of_turn for one Pokemon
Sandstorm(w, s) ==
  IF Weather(w) = "sand" /\ ~IsType(w, s, {"ground", "rock", "steel"})
  THEN Heal(w, s, -1, 8) ELSE w
Leftovers(w, s) == IF Item(w, s) = "leftovers" THEN Heal(w, s, 1, 16) ELSE w
Thaw(w, s, thaws) == IF thaws THEN ClearStatus(w, s) ELSE w

\* generation_2_end_of_turn
Generation2EndOfTurn(w, first, flags) ==
  LET last == Other(first)
      sand(v) == Sandstorm(Sandstorm(v, first), last)
      sung(v) == PerishSongTurn(PerishSongTurn(v, first), last)
      fed(v) == Leftovers(Leftovers(v, first), last)
      thawed(v) == Thaw(Thaw(v, first, flags[first].thaws), last, flags[last].thaws)
      encored(v) == Advance(Advance(v, first, "encore"), last, "encore")
  IN  Generation1EndOfTurn(encored(thawed(fed(sung(sand(AdvanceEnvironment(w)))))), first, flags)

\* generation_3_plus_end_of_turn
Generation3EndOfTurn(w, first, flags) ==
  LET last == Other(first)
      wished(v) == DecrementWish(DecrementWish(v, first), last)
      others(v) == OtherEffects(OtherEffects(v, first, flags[first]), last, flags[last])
      sung(v) == PerishSongTurn(PerishSongTurn(v, first), last)
  IN  sung(others(EnvironmentEffects(wished(w), first)))

\* end_of_turn
EndOfTurn(w, first, flags) ==
  BothEndTurn(CASE Rules.generation = 1 -> Generation1EndOfTurn(w, first, flags)
                [] Rules.generation = 2 -> Generation2EndOfTurn(w, first, flags)
                [] OTHER                -> Generation3EndOfTurn(w, first, flags))

=============================================================================

-------------------------------- MODULE Team --------------------------------
(***************************************************************************)
(* A team and its side of the field: team.cpp with entry_hazards.cpp,      *)
(* apply_entry_hazards.cpp, activate_ability_on_switch.cpp,                *)
(* ability_blocks_switching.cpp and get_legal_selections.cpp.              *)
(***************************************************************************)
EXTENDS ActivePokemon

-----------------------------------------------------------------------------
(* Entry hazards, kept by the team that they hurt *)

MaxLayers(hazard) ==
  CASE hazard = "spikes"       -> IF Rules.generation = 1 THEN 0
                                  ELSE IF Rules.generation = 2 THEN 1 ELSE 3
    [] hazard = "toxic_spikes" -> IF Rules.generation >= 4 THEN 2 ELSE 0
    [] OTHER                   -> IF Rules.generation >= 4 THEN 1 ELSE 0

AddHazard(w, s, hazard) ==
  IF w[s].hazards[hazard] = MaxLayers(hazard) THEN w
  ELSE [w EXCEPT ![s].hazards[hazard] = @ + 1]

NoHazards == [hazard \in {"spikes", "toxic_spikes", "rock"} |-> 0]

\* grounded
Grounded(w, s) ==
  \/ /\ ~IsType(w, s, {"flying"})
     /\ Ability(w, s) # "levitate"
     /\ ~Active(w, s, "magnet_rise")
     /\ Item(w, s) # "air_balloon"
  \/ (IF Rules.generation <= 4 THEN Held(w, s) ELSE Item(w, s)) = "iron_ball"
  \/ Has(w, s, "ingrained")

\* apply_toxic_spikes
ToxicSpikes(w, s) ==
  LET layers == w[s].hazards["toxic_spikes"]
      status == IF layers = 1 THEN "poison" ELSE "toxic"
      guarded == Rules.generation = 4 /\ Ability(w, s) = "magic_guard"
  IN  IF layers = 0 THEN w
      ELSE IF IsType(w, s, {"poison"}) THEN [w EXCEPT ![s].hazards["toxic_spikes"] = 0]
      ELSE IF ~guarded /\ IndirectStatusCanApply(w, s, status) THEN SetStatus(w, s, status)
      ELSE w

\* spikes_damage
Spikes(w, s) ==
  LET layers == w[s].hazards["spikes"]
  IN  IF layers = 0 THEN w ELSE Heal(w, s, -1, 10 - 2 * layers)

WeakToRock == {"fire", "ice", "flying", "bug"}
ResistsRock == {"fighting", "ground", "steel"}

\* Twice as much for each type, of the four at most that count
Doubled(types) == <<1, 2, 4, 8, 16>>[1 + Cardinality(types)]

StealthRock(w, s) ==
  LET types == Rules.types[s][w[s].active]
  IN  IF w[s].hazards["rock"] = 0 THEN w
      ELSE Heal(w, s, -Doubled(types \cap WeakToRock), 8 * Doubled(types \cap ResistsRock))

\* apply(EntryHazards)
ApplyHazards(w, s) ==
  IF Item(w, s) = "heavy_duty_boots" THEN w
  ELSE StealthRock(IF Grounded(w, s) THEN Spikes(ToxicSpikes(w, s), s) ELSE w, s)

-----------------------------------------------------------------------------
(* Weather, and the abilities of who comes in *)

\* Environment::activate_weather; -1 turns are permanent.
ActivateWeather(w, weather, turns) ==
  IF w.weather = weather /\ turns # -1 THEN w
  ELSE [w EXCEPT !.weather = weather, !.turns = turns]

Extends(item, weather) ==
  \/ item = "icy_rock" /\ weather = "hail"
  \/ item = "damp_rock" /\ weather = "rain"
  \/ item = "smooth_rock" /\ weather = "sand"
  \/ item = "heat_rock" /\ weather = "sun"

WeatherTurns(w, s, weather) == IF Extends(Item(w, s), weather) THEN 8 ELSE 5

WeatherOf ==
  [drizzle |-> "rain", drought |-> "sun", sand_stream |-> "sand", snow_warning |-> "hail"]

Intimidate(w, s) ==
  LET lowered == Boost(w, s, {"atk"}, -1)
      orb == Item(w, s) = "adrenaline_orb" /\ w[s].stages["spe"] # 6
  IN  IF w[s].stages["atk"] = -6 THEN w
      ELSE IF orb THEN RemoveItem(Boost(lowered, s, {"spe"}, 1), s) ELSE lowered

\* activate_ability_on_switch
ActivateAbilityOnSwitch(w, s) ==
  LET ability == Ability(w, s)
  IN  CASE ability = "intimidate"       -> Intimidate(w, Other(s))
        [] ability \in DOMAIN WeatherOf ->
             LET weather == WeatherOf[ability]
             IN  ActivateWeather(w, weather, IF Rules.generation <= 5 THEN -1
                                             ELSE WeatherTurns(w, s, weather))
        [] OTHER                        -> w

-----------------------------------------------------------------------------
(* Switching *)

Members(w, s) == DOMAIN w[s].team
Bench(w, s) == {m \in Members(w, s) \ {w[s].active} : w[s].team[m].hp # 0}

\* A Pokemon that an entry hazard fainted activates no ability.
Arrives(w, s) == IF HP(w, s) = 0 THEN w ELSE ActivateAbilityOnSwitch(w, s)

\* m comes in after the other has left.
Enters(w, s, m, replacing) ==
  Arrives(ApplyHazards(SwitchIn([w EXCEPT ![s].active = m], s, replacing), s), s)

Leaves(w, s) == FoeHasSwitched(SwitchOut(w, s), Other(s), BatonPassing(w, s))

EndOfSwitch(w, s, replacing) == IF replacing THEN w ELSE EndOfAttack(w, s)

\* Team::switch_pokemon
SwitchPokemon(w, s, m) ==
  EndOfSwitch(Enters(Leaves(w, s), s, m, HP(w, s) = 0), s, HP(w, s) = 0)

\* Team::clear_field
ClearTeamField(w, s) == [ClearField(w, s) EXCEPT ![s].hazards = NoHazards]

-----------------------------------------------------------------------------
(* Legal selections *)

ChoiceItem == {"choice_band", "choice_scarf", "choice_specs"}

MustRepeat(w, s) ==
  \/ Active(w, s, "encore")
  \/ Item(w, s) \in ChoiceItem
  \/ IsImmobilizing(w[s].lum)

MovesOf(s, m) == Rules.moves[s][m]

\* blocks_selection_and_execution_attempt, but for the PP
BlocksAttempt(w, s, m) ==
  /\ m # "struggle"
  /\ \/ IsDisabled(w, s, m)
     \/ Active(w, s, "heal_block") /\ "healing" \in MoveData[m].traits
     \/ Has(w, Other(s), "imprison") /\ m \in MovesOf(Other(s), w[Other(s)].active)

IsDamaging(m) == MoveData[m].damage # {0}

\* blocks_selection_and_execution
BlocksExecution(w, s, m) == Active(w, s, "taunt") /\ ~IsDamaging(m)

\* is_legal_move
IsLegalMove(w, s, m) ==
  LET last == w[s].lum.move
  IN  /\ ~(last # NoMove /\ last # m /\ MustRepeat(w, s))
      /\ ~BlocksAttempt(w, s, m)
      /\ ~BlocksExecution(w, s, m)
      /\ ~(Has(w, s, "tormented") /\ last = m)

AbilityBlocksSwitching(w, s) ==
  LET ability == Ability(w, Other(s))
  IN  /\ Rules.generation >= 6 => ~IsType(w, s, {"ghost"})
      /\ \/ ability = "shadow_tag"
              /\ (Rules.generation >= 4 => Ability(w, s) # "shadow_tag")
         \/ ability = "arena_trap" /\ Grounded(w, s)
         \/ ability = "magnet_pull" /\ IsType(w, s, {"steel"})

Trapped(w, s) == Has(w, s, "fully_trapped") \/ Has(w, s, "ingrained") \/ Active(w, s, "partial_trap")

\* can_switch
CanSwitch(w, s) ==
  ~(AbilityBlocksSwitching(w, s) \/ Trapped(w, s)) \/ Item(w, s) = "shed_shell"

LegalMoves(w, s) ==
  LET regular == {m \in MovesOf(s, w[s].active) : IsLegalMove(w, s, m)}
  IN  IF LockedIn(w[s].lum) # NoMove THEN {LockedIn(w[s].lum)}
      ELSE IF regular = {} THEN {"struggle"} ELSE regular

LegalSwitches(w, s) ==
  IF LockedIn(w[s].lum) = NoMove /\ CanSwitch(w, s) THEN Bench(w, s) ELSE {}

=============================================================================

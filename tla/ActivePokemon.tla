--------------------------- MODULE ActivePokemon ---------------------------
(***************************************************************************)
(* The Pokemon on the field and what happens to it:                        *)
(* pokemon/active_pokemon.cpp (ActivePokemonFlags and                      *)
(* AnyMutableActivePokemon) with pokemon/active_status.cpp, the counters   *)
(* of pokemon/, held_item.cpp and heal.cpp.                                *)
(*                                                                         *)
(* A world is the two teams and the weather, a value; a method of the code *)
(* is an operator from a world to a world.  What it reads of the data of   *)
(* the game is in Rules: see Scenarios in Battlefield.                     *)
(***************************************************************************)
EXTENDS Integers, FiniteSets

CONSTANTS
  Rules,          \* the generation, and what each Pokemon is and knows
  MaxHP,          \* the HP every Pokemon starts with
  Move, NoMove, MaxSuccesses,   \* of LastUsedMove
  MoveData        \* what the code's tables say of a move: see SideEffects

KindOf == [m \in Move |-> MoveData[m].kind]

INSTANCE LastUsedMove WITH Generation <- Rules.generation

Side == {"ai", "foe"}
Other(s) == IF s = "ai" THEN "foe" ELSE "ai"

Stat == {"atk", "def", "spa", "spd", "spe", "acc", "eva"}

Clear == "clear"
Sleeping == {"sleep", "rest"}
Statuses == {Clear, "burn", "freeze", "paralysis", "poison", "toxic"} \cup Sleeping

NoItem == "none"

\* The generation the field exists from: ExistsIf and BoolIf of ActivePokemonFlags
Since(f) ==
  IF f \in {"perish_song", "encore", "partial_trap", "attracted", "cursed", "defense_curled",
            "fully_trapped", "identified"} THEN 2
  ELSE IF f \in {"yawn", "taunt", "charged", "flash_fire", "imprison", "ingrained",
                 "mud_sport", "tormented", "water_sport"} THEN 3
  ELSE IF f \in {"embargo", "heal_block", "magnet_rise", "aqua_ring", "power_trick",
                 "unburdened"} THEN 4
  ELSE 1

Exists(f) == Rules.generation >= Since(f)

\* The counters, and the turns after which they end
Duration ==
  [confusion |-> 4, disable |-> 7, embargo |-> 5, encore |-> 8, heal_block |-> 5,
   magnet_rise |-> 5, partial_trap |-> IF Rules.generation <= 4 THEN 5 ELSE 7,
   perish_song |-> 3, taunt |-> 5, yawn |-> 1]
Counter == DOMAIN Duration

Inactive == -1

-----------------------------------------------------------------------------
(* What the methods ask *)

Mon(w, s) == w[s].team[w[s].active]
HP(w, s) == Mon(w, s).hp
Status(w, s) == Mon(w, s).status
Has(w, s, f) == f \in w[s].flags
Active(w, s, c) == w[s].count[c] # Inactive

Ability(w, s) ==
  IF Rules.generation <= 2 THEN "none" ELSE Rules.ability[s][w[s].active]
IsType(w, s, types) == Rules.types[s][w[s].active] \cap types # {}

\* unrestricted_item and item: what a Pokemon holds, and what it can use
Held(w, s) == IF Mon(w, s).held THEN Mon(w, s).item ELSE NoItem
Item(w, s) == IF Active(w, s, "embargo") THEN NoItem ELSE Held(w, s)

\* Held items that the code takes for lost never
CannotBeLost == {NoItem, "berry", "berserk_gene"}

Weather(w) == IF \E s \in Side : Ability(w, s) = "cloud_nine" THEN Clear ELSE w.weather

BatonPassing(w, s) == IsBatonPassing(w[s].lum)
Size(w, s) == Cardinality({m \in DOMAIN w[s].team : m = w[s].active \/ w[s].team[m].hp # 0})

\* blocks_status of an ability and of a type
AbilityBlocksStatus(w, s, by, status) ==
  LET ability == Ability(w, s)
      weather == Weather(w)
      blocked == by = "mold_breaker"
      guarded == ~blocked /\ ability = "leaf_guard" /\ weather = "sun"
  IN  CASE status = "freeze"    -> weather = "sun" \/ (~blocked /\ ability = "magma_armor")
        [] status = "burn"      -> guarded \/ (~blocked /\ ability = "water_veil")
        [] status = "paralysis" -> guarded \/ (~blocked /\ ability = "limber")
        [] status \in {"poison", "toxic"} -> guarded \/ (~blocked /\ ability = "immunity")
        [] status \in Sleeping  -> guarded \/ (~blocked /\ ability = "insomnia")
        [] OTHER                -> FALSE

TypesBlocking(status) ==
  CASE status = "burn"                -> {"fire"}
    [] status = "freeze"              -> {"ice"}
    [] status \in {"poison", "toxic"} -> {"poison", "steel"}
    [] OTHER                          -> {}

TeamHasStatus(w, s, status) ==
  \E m \in DOMAIN w[s].team :
    (m = w[s].active \/ w[s].team[m].hp # 0) /\ w[s].team[m].status = status

IndirectStatusCanApply(w, s, status) ==
  /\ Status(w, s) = Clear
  /\ ~AbilityBlocksStatus(w, s, "none", status)
  /\ ~IsType(w, s, TypesBlocking(status))

ItemClearsStatus(item, status) ==
  \/ item = "lum_berry"
  \/ item = "chesto_berry" /\ status \in Sleeping
  \/ item = "pecha_berry" /\ status \in {"poison", "toxic"}
  \/ item = "rawst_berry" /\ status = "burn"

-----------------------------------------------------------------------------
(* Flags, counters and stages *)

\* BOUNDED_ASSERT, and what the code throws
Asserted(w, holds) == IF holds THEN w ELSE [w EXCEPT !.failed = TRUE]

SetFlag(w, s, f) == IF Exists(f) THEN [w EXCEPT ![s].flags = @ \cup {f}] ELSE w
ClearFlags(w, s, fs) == [w EXCEPT ![s].flags = @ \ fs]

\* The move that Disable hit is forgotten with its counter.
StopCounters(w, s, cs) ==
  [w EXCEPT ![s].count = [c \in Counter |-> IF c \in cs THEN Inactive ELSE @[c]],
            ![s].disabled = IF "disable" \in cs THEN NoMove ELSE @]

\* activate() of the counters that start again
Restart(w, s, c) == IF Exists(c) THEN [w EXCEPT ![s].count[c] = 0] ELSE w

\* activate() of Confusion, PartialTrap, PerishSong and YawnCounter
Start(w, s, c) == IF Active(w, s, c) THEN w ELSE Restart(w, s, c)

\* Mutation of Advance: the last turn is not seen.
MutAdvance(w, s, c) ==
  IF ~Active(w, s, c) THEN w ELSE [w EXCEPT ![s].count[c] = @ + 1]

\* advance_one_turn
Advance(w, s, c) ==
  IF ~Active(w, s, c) THEN w
  ELSE IF w[s].count[c] = Duration[c] THEN StopCounters(w, s, {c})
  ELSE [w EXCEPT ![s].count[c] = @ + 1]

Clamped(n, low, high) == IF n < low THEN low ELSE IF n > high THEN high ELSE n

Boost(w, s, stats, n) ==
  [w EXCEPT ![s].stages = [t \in Stat |-> IF t \in stats THEN Clamped(@[t] + n, -6, 6) ELSE @[t]]]

-----------------------------------------------------------------------------
(* Items.  A Pokemon keeps the item it lost, for Recycle. *)

RemoveItem(w, s) ==
  IF Held(w, s) \in CannotBeLost THEN w
  ELSE SetFlag([w EXCEPT ![s].team[w[s].active].held = FALSE], s, "unburdened")

DestroyItem(w, s) ==
  IF Held(w, s) = NoItem THEN w
  ELSE SetFlag([w EXCEPT ![s].team[w[s].active].item = NoItem], s, "unburdened")

RecycleItem(w, s) == [w EXCEPT ![s].team[w[s].active].held = TRUE]

SetItem(w, s, item) ==
  [w EXCEPT ![s].team[w[s].active].item = item, ![s].team[w[s].active].held = TRUE]

\* Mutation of StealItem: the victim keeps its item.
MutStealItem(w, s) ==
  IF Held(w, s) # NoItem \/ Held(w, Other(s)) \in CannotBeLost THEN w
  ELSE SetItem(w, s, Held(w, Other(s)))

StealItem(w, s) ==
  LET item == Held(w, Other(s))
  IN  IF Held(w, s) # NoItem \/ item \in CannotBeLost THEN w
      ELSE SetItem(RemoveItem(w, Other(s)), s, item)

SwapItems(w, s) ==
  LET mine == Held(w, s)
      theirs == Held(w, Other(s))
  IN  IF {mine, theirs} \cap CannotBeLost # {} THEN w
      ELSE SetItem(SetItem(w, s, theirs), Other(s), mine)

MentalHerbCures(w, s) ==
  LET cured == ClearFlags(w, s, {"attracted"})
  IN  IF Rules.generation <= 4 THEN cured
      ELSE StopCounters(ClearFlags(cured, s, {"tormented"}), s, {"disable", "encore", "taunt"})

ApplyOwnMentalHerb(w, s) ==
  IF Item(w, s) = "mental_herb" THEN RemoveItem(MentalHerbCures(w, s), s) ELSE w

Confuse(w, s) ==
  IF Ability(w, s) = "own_tempo" THEN w
  ELSE IF Item(w, s) = "lum_berry" THEN RemoveItem(w, s)
  ELSE Start(w, s, "confusion")

\* attract() of one side, without what a Destiny Knot does to the other
BeAttracted(w, s) ==
  LET attracted == SetFlag(w, s, "attracted")
      handled == CASE Item(w, s) = "mental_herb"  -> ApplyOwnMentalHerb(attracted, s)
                   [] Item(w, s) = "destiny_knot" -> RemoveItem(attracted, s)
                   [] OTHER                       -> attracted
  IN  IF Ability(w, s) # "oblivious" THEN handled
      ELSE IF Rules.generation <= 4 THEN w
      ELSE ClearFlags(handled, s, {"attracted"})

KnotHolds(w, s) ==
  Item(w, s) = "destiny_knot" /\ (Ability(w, s) = "oblivious" => Rules.generation >= 5)

\* attract(): a knot is used up before it attracts the foe, so two of them end.
Attract(w, s) ==
  LET once == BeAttracted(w, s)
      twice == BeAttracted(once, Other(s))
  IN  IF ~KnotHolds(w, s) THEN once
      ELSE IF ~KnotHolds(once, Other(s)) THEN twice
      ELSE BeAttracted(twice, s)

-----------------------------------------------------------------------------
(* HP *)

ConfusesAtQuarter == {"figy_berry"}

\* pinch_item_effects: the items that act at half of the HP and at a quarter of it.
\* A Custap Berry is used up at any HP.
ActsAtHalf(item) ==
  item \in {"berry", "sitrus_berry"} \/ (item \in ConfusesAtQuarter /\ Rules.generation <= 6)
ActsAtQuarter(item) ==
  item = "liechi_berry" \/ (item \in ConfusesAtQuarter /\ Rules.generation >= 7)

PinchItemActs(w, s, item) ==
  \/ item = "custap_berry"
  \/ ActsAtHalf(item) /\ 2 * HP(w, s) <= MaxHP
  \/ ActsAtQuarter(item) /\ (IF Ability(w, s) = "gluttony" THEN 2 ELSE 4) * HP(w, s) <= MaxHP

PinchItemHeals(item) ==
  CASE item = "berry"        -> 10
    [] item = "sitrus_berry" -> IF Rules.generation <= 3 THEN 30 ELSE MaxHP \div 4
    [] item \in ConfusesAtQuarter -> IF Rules.generation <= 6 THEN MaxHP \div 8 ELSE MaxHP \div 2
    [] OTHER                 -> 0

PutHP(w, s, hp) == [w EXCEPT ![s].team[w[s].active].hp = hp]

\* Who eats a berry of ConfusesAtQuarter dislikes it.
ConfusedBy(w, s, item) == IF item \in ConfusesAtQuarter THEN Confuse(w, s) ELSE w

UsePinchItem(w, s, item) ==
  LET healed == PutHP(w, s, Clamped(HP(w, s) + PinchItemHeals(item), 0, MaxHP))
      boosted == Boost(healed, s, IF item = "liechi_berry" THEN {"atk"} ELSE {}, 1)
  IN  ConfusedBy(RemoveItem(boosted, s), s, item)

\* activate_pinch_item
ActivatePinchItem(w, s) ==
  IF PinchItemActs(w, s, Item(w, s)) THEN UsePinchItem(w, s, Item(w, s)) ELSE w

SetHP(w, s, hp) == IF hp = 0 THEN PutHP(w, s, 0) ELSE ActivatePinchItem(PutHP(w, s, hp), s)

ChangeHP(w, s, change) == SetHP(w, s, Clamped(HP(w, s) + change, 0, MaxHP))

Faint(w, s) == SetHP(w, s, 0)

\* The change of HP for an amount healed: an amount of 0 is taken for damage.
HealChange(n) == IF n > 0 THEN n ELSE Clamped(n, -MaxHP, -1)

\* Mutation of HealExactly: who has no HP is healed as well.
MutHealExactly(w, s, n) ==
  IF n <= 0 /\ Ability(w, s) = "magic_guard" THEN w ELSE ChangeHP(w, s, HealChange(n))

\* heal_exactly
HealExactly(w, s, n) ==
  IF HP(w, s) = 0 \/ (n <= 0 /\ Ability(w, s) = "magic_guard") THEN w
  ELSE ChangeHP(w, s, HealChange(n))

\* heal: integer division rounds towards zero.
Heal(w, s, numerator, denominator) ==
  HealExactly(w, s, IF numerator >= 0 THEN (MaxHP * numerator) \div denominator
                    ELSE -((MaxHP * (-numerator)) \div denominator))

IndirectDamage(w, s, damage) == SetFlag(ChangeHP(w, s, -damage), s, "damaged")

UsedWithEffect(l, effect) ==
  l.move \in Move /\ l.successes >= 1 /\ MoveData[l.move].effect = effect

IsDestinyBonded(l) == UsedWithEffect(l, <<"destiny_bond">>)
IsEnduring(l) == l.moved /\ UsedWithEffect(l, <<"endure">>)

\* can_be_koed and applied_damage: the damage and whether a Focus Sash is used
AppliedDamage(w, s, damage) ==
  LET full == HP(w, s) = MaxHP
      endures == \/ IsEnduring(w[s].lum)
                 \/ full /\ Rules.generation >= 5 /\ Ability(w, s) = "sturdy"
      sash == ~endures /\ full /\ Item(w, s) = "focus_sash"
      survives == HP(w, s) <= damage /\ (endures \/ sash)
  IN  [damage |-> IF survives THEN HP(w, s) - 1 ELSE Clamped(damage, 0, HP(w, s)),
       consumes |-> survives /\ sash]

-----------------------------------------------------------------------------
(* Status.  active.state is what the code shares between Nightmare and     *)
(* the counter of Toxic, told apart by the status alone.                   *)

Nightmare == 1
NoNightmare == 2
MaxToxic == 15

\* Mutation of ActiveStatusSet: sleep does not start without nightmares.
MutActiveStatusSet(state, status) == IF status = "toxic" THEN 1 ELSE state

\* ActiveStatus::set
ActiveStatusSet(state, status) ==
  IF status \in Sleeping THEN NoNightmare ELSE IF status = "toxic" THEN 1 ELSE state

PutStatus(w, s, status) ==
  [w EXCEPT ![s].team[w[s].active].status = status, ![s].state = ActiveStatusSet(@, status)]

ClearStatus(w, s) == PutStatus(w, s, Clear)

\* set_status_impl
SetStatus(w, s, status) ==
  IF ItemClearsStatus(Item(w, s), status) THEN RemoveItem(ClearStatus(w, s), s)
  ELSE PutStatus(w, s, status)

GiveNightmares(w, s) ==
  IF Status(w, s) \in Sleeping THEN [w EXCEPT ![s].state = Nightmare] ELSE w

Uproaring(w, s) == w[s].lum.effect = "UproarCounter"

\* rest()
Rest(w, s) ==
  LET fails == \/ Uproaring(w, Other(s))
               \/ Rules.generation >= 3 /\ Status(w, s) \in Sleeping
               \/ AbilityBlocksStatus(w, s, Ability(w, s), "rest")
               \/ HP(w, s) = MaxHP
  IN  IF fails THEN w ELSE SetStatus(PutHP(w, s, MaxHP), s, "rest")

\* What Leech Seed does to the other once s was hurt
LeechDrains(w, s, drained, oozes) ==
  LET change == IF Item(w, s) = "big_root" THEN (drained * 13) \div 10 ELSE drained
  IN  IF HP(w, Other(s)) = 0 THEN w
      ELSE ChangeHP(w, Other(s), IF oozes THEN -change ELSE change)

LeechFrom(w, s, hurt) ==
  LeechDrains(hurt, s, HP(w, s) - HP(hurt, s), Ability(w, s) = "liquid_ooze")

\* handle_leech_seed
LeechSeed(w, s) ==
  IF Has(w, s, "leech_seeded") THEN LeechFrom(w, s, Heal(w, s, -1, 8)) ELSE w

Burn(w, s) ==
  Heal(w, s, IF Rules.generation = 1 \/ Rules.generation >= 7 THEN -1 ELSE -2, 16)

Poison(w, s) ==
  IF Rules.generation = 1 THEN Heal(w, s, -1, 16)
  ELSE Heal(w, s, IF Ability(w, s) = "poison_heal" THEN 1 ELSE -1, 8)

\* handle_toxic
Toxic(w, s) ==
  LET damage == w[s].state * (MaxHP \div 16)
      heals == Ability(w, s) = "poison_heal"
  IN  [HealExactly(w, s, IF heals THEN MaxHP \div 8 ELSE -damage)
         EXCEPT ![s].state = Clamped(@ + 1, 1, MaxToxic)]

\* is_nightmare, which asserts that the Pokemon sleeps as ActiveStatus has it
Dreams(w, s) == Asserted(w, w[s].state \in {Nightmare, NoNightmare})

NightmareHurts(w, s) == IF w[s].state = Nightmare THEN Heal(w, s, -1, 4) ELSE w
BadDreams(w, s) == IF Ability(w, Other(s)) = "bad_dreams" THEN Heal(w, s, -1, 8) ELSE w

\* handle_sleep_and_rest
Sleep(w, s, uproar) ==
  IF uproar THEN ClearStatus(Dreams(w, s), s)
  ELSE BadDreams(NightmareHurts(Dreams(w, s), s), s)

StatusEffect(w, s, status, uproar) ==
  CASE status = "burn"       -> Burn(w, s)
    [] status = "poison"     -> Poison(w, s)
    [] status = "toxic"      -> Toxic(w, s)
    [] status \in Sleeping   -> Sleep(w, s, uproar)
    [] OTHER                 -> w

\* status_and_leech_seed_effects: end_of_attack, end_of_turn.  The status is that
\* of before where it comes second to Leech Seed up to generation 2.
SeedThenStatus(w, s, status, uproar) == StatusEffect(LeechSeed(w, s), s, status, uproar)

StatusAndLeechSeedEffects(w, s, uproar) ==
  LET status == Status(w, s)
      modern == Rules.generation >= 3
  IN  IF modern \/ status \in Sleeping
      THEN SeedThenStatus(w, s, status, modern /\ uproar)
      ELSE LeechSeed(StatusEffect(w, s, status, FALSE), s)

HandleCurse(w, s) == IF Has(w, s, "cursed") THEN Heal(w, s, -1, 4) ELSE w

EndOfAttack(w, s) ==
  IF Rules.generation <= 2 /\ HP(w, s) # 0 /\ HP(w, Other(s)) # 0
  THEN HandleCurse(StatusAndLeechSeedEffects(w, s, FALSE), s)
  ELSE w

-----------------------------------------------------------------------------
(* Damage by a move, and Substitute *)

HasSubstitute(w, s) == w[s].substitute # 0

\* use_substitute, Substitute::create
UseSubstitute(w, s) ==
  LET quarter == MaxHP \div 4
      enough == IF Rules.generation = 1 THEN 4 * HP(w, s) >= MaxHP ELSE 4 * HP(w, s) > MaxHP
      bonus == IF Rules.generation = 1 THEN 1 ELSE 0
  IN  IF HasSubstitute(w, s) \/ ~enough THEN w
      ELSE IndirectDamage([w EXCEPT ![s].substitute = quarter + bonus], s, quarter)

\* What direct_damage asserts of the target
DirectDamageAsserted(w, s, m) ==
  HP(w, s) # 0 /\ ~(HasSubstitute(w, s) /\ MoveData[m].substitute = "causes_failure")

\* direct_damage to s by the other Pokemon: the world, and the damage done
DirectDamage(w, s, m, damage) ==
  LET applied == AppliedDamage(w, s, damage)
      hurt == IndirectDamage(w, s, applied.damage)
      used == IF applied.consumes THEN RemoveItem(hurt, s) ELSE hurt
      bonded == IsDestinyBonded(used[s].lum) /\ HP(used, s) = 0
      left == w[s].substitute
  IN  IF HasSubstitute(w, s) /\ MoveData[m].substitute = "absorbs"
      THEN [world |-> [w EXCEPT ![s].substitute = Clamped(left - damage, 0, left)],
            done |-> Clamped(damage, 0, left)]
      ELSE [world |-> IF bonded THEN Faint(used, Other(s)) ELSE used,
            done |-> applied.damage]

-----------------------------------------------------------------------------
(* What moves and turns do to the Pokemon *)

Minimize(w, s) ==
  Boost(SetFlag(w, s, "minimized"), s, {"eva"}, IF Rules.generation <= 4 THEN 1 ELSE 2)

Flinch(w, s) ==
  [w EXCEPT ![s].flags = @ \cup {"flinched"}, ![s].lum = Unsuccessful(@)]

\* disable: a second Disable changes the move and not the count.
Disable(w, s, m) ==
  ApplyOwnMentalHerb(Start([w EXCEPT ![s].disabled = m], s, "disable"), s)

IsDisabled(w, s, m) == Active(w, s, "disable") /\ w[s].disabled = m

\* increment_stockpile: the defenses rise when the count does not.
IncrementStockpile(w, s) ==
  IF Rules.generation <= 2 THEN w
  ELSE IF w[s].stockpile = 3 THEN Boost(w, s, {"def", "spd"}, 1)
  ELSE [w EXCEPT ![s].stockpile = @ + 1]

ReleaseStockpile(w, s) ==
  [Boost(w, s, {"def", "spd"}, -w[s].stockpile) EXCEPT ![s].stockpile = 0]

BerserkGene(w, s) == RemoveItem(Confuse(Boost(w, s, {"atk"}, 2), s), s)

PartialTrapDamage(w, s) ==
  IF ~Active(w, s, "partial_trap") THEN w
  ELSE Advance(Heal(w, s, -1, IF Rules.generation <= 5 THEN 16 ELSE 8), s, "partial_trap")

\* Mutation of PerishSongTurn: the song ends without a faint.
MutPerishSongTurn(w, s) == Advance(w, s, "perish_song")

PerishSongTurn(w, s) ==
  LET advanced == Advance(w, s, "perish_song")
  IN  IF Active(w, s, "perish_song") /\ ~Active(advanced, s, "perish_song")
      THEN Faint(advanced, s) ELSE advanced

\* try_to_activate_yawn: the clause looks for "sleep" alone.
TryToActivateYawn(w, s, uproar, claused) ==
  LET advanced == Advance(w, s, "yawn")
      sleeps == /\ Active(w, s, "yawn") /\ ~Active(advanced, s, "yawn")
                /\ ~uproar /\ ~claused
                /\ IndirectStatusCanApply(advanced, s, "sleep")
  IN  IF sleeps THEN SetStatus(advanced, s, "sleep") ELSE advanced

\* advance_lock_in
AdvancedLockIn(w, s, ending) ==
  LET advanced == [Asserted(w, ~AdvanceLockInThrows(w[s].lum, ending))
                     EXCEPT ![s].lum = AdvanceLockIn(@, ending)]
  IN  IF ConfusedByLockIn(w[s].lum, ending) THEN Confuse(advanced, s) ELSE advanced

\* reset_end_of_turn
EndTurn(w, s) ==
  ClearFlags([w EXCEPT ![s].lum = ResetEndOfTurn(@)], s, {"damaged", "flinched"})

ClearField(w, s) == StopCounters(ClearFlags(w, s, {"leech_seeded"}), s, {"partial_trap"})

-----------------------------------------------------------------------------
(* Switches *)

NoStages == [t \in Stat |-> 0]

\* What Baton Pass hands over
Passable == {"aqua_ring", "cursed", "fully_trapped", "focused_energy", "ingrained",
             "leech_seeded", "power_trick"}
PassableCounter == {"confusion", "embargo", "magnet_rise", "perish_song"}

\* What ends for who leaves, however it leaves
Personal == {"attracted", "charged", "defense_curled", "flash_fire", "flinched", "identified",
             "imprison", "minimized", "mud_sport", "tormented", "unburdened", "water_sport"}

\* switch_in
SwitchIn(w, s, replacing) ==
  LET status == IF Rules.generation <= 2 /\ Status(w, s) = "toxic" THEN "poison"
                ELSE Status(w, s)
      in == [PutStatus(w, s, status) EXCEPT ![s].lum = UseSwitch(@, replacing)]
  IN  IF Item(in, s) = "berserk_gene" THEN BerserkGene(in, s) ELSE in

\* Mutation of SwitchOut: Ingrain is kept.
MutSwitchOut(w, s) ==
  LET cured == IF Ability(w, s) = "natural_cure" THEN ClearStatus(w, s) ELSE w
      own == StopCounters(ClearFlags(cured, s, Personal), s, Counter \ PassableCounter)
      kept == [own EXCEPT ![s].stockpile = 0]
  IN  IF BatonPassing(w, s) THEN kept
      ELSE [StopCounters(ClearFlags(kept, s, Passable \ {"ingrained"}), s, Counter)
              EXCEPT ![s].stages = NoStages, ![s].substitute = 0]

\* switch_out.  "damaged" is of the turn, not of the Pokemon: EndTurn clears it.
SwitchOut(w, s) ==
  LET cured == IF Ability(w, s) = "natural_cure" THEN ClearStatus(w, s) ELSE w
      own == StopCounters(ClearFlags(cured, s, Personal), s, Counter \ PassableCounter)
      kept == [own EXCEPT ![s].stockpile = 0]
  IN  IF BatonPassing(w, s) THEN kept
      ELSE [StopCounters(ClearFlags(kept, s, Passable), s, Counter)
              EXCEPT ![s].stages = NoStages, ![s].substitute = 0]

\* foe_switched: s stays, and the foe has left
FoeHasSwitched(w, s, batonPassing) ==
  LET trapped == IF Rules.generation <= 4 /\ batonPassing THEN {} ELSE {"fully_trapped"}
      freed == StopCounters(ClearFlags(w, s, trapped \cup {"attracted"}), s, {"partial_trap"})
  IN  [freed EXCEPT ![s].lum = FoeSwitched(@)]

=============================================================================

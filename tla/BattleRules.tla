---------------------------- MODULE BattleRules ----------------------------
(***************************************************************************)
(* The execution of a move, from the status of its user to the effects of  *)
(* the item it holds: move/call_move_impl.cpp with can_execute_move.cpp,   *)
(* move/move_is_unsuccessful.cpp, ability_blocks_move.cpp and              *)
(* move/affects_target.cpp; and, through what it extends, the end of the   *)
(* turn and switches.                                                      *)
(*                                                                         *)
(* What is drawn for a move is a record: whether its user's status clears, *)
(* whether it is paralyzed, whether it misses, whether Bide ends, the      *)
(* effect, the damage, and what the ability of who is touched does.        *)
(***************************************************************************)
EXTENDS SideEffects, EndOfTurn

Targets(m) == MoveData[m].target
HasTrait(m, trait) == trait \in MoveData[m].traits

\* Whom targets_foe_specifically and move_targets_foe accept
TargetsFoeSpecifically(m) == Targets(m) = "adjacent"
TargetsFoe(m) == Targets(m) \in {"adjacent", "foes", "spread", "all"}

\* advance_status_from_move, without the counter of sleep
AdvanceStatus(w, u, clears) ==
  IF clears THEN [w EXCEPT ![u].team[w[u].active].status = Clear] ELSE w

\* can_attempt_move_execution.  In generation 1 a Pokemon wakes up and does
\* nothing, and does nothing in its sleep that it could do awake.
CanAttemptMove(w, u, m, wasAsleep) ==
  /\ ~IsImmobilizing(w[Other(u)].lum)
  /\ Status(w, u) = "freeze" => HasTrait(m, "thaws_user")
  /\ IF Rules.generation = 1 THEN ~wasAsleep
     ELSE HasTrait(m, "while_sleeping") = (Status(w, u) \in Sleeping)
  /\ ~BlocksAttempt(w, u, m)

UseUnsuccessfully(w, u, m) == [w EXCEPT ![u].lum = UnsuccessfulMove(@, m)]

\* What an attempt comes to: the world, the damage done, and whether the effect of
\* the move takes place.  side_effect_happens_on_miss, on Protect and on a Substitute
\* name the moves whose effect does when they reach nobody.
Attempt(w, m, reached, done) ==
  [world |-> w, reached |-> reached, done |-> done,
   affects |-> reached \/ HasTrait(m, "explodes")]
Fails(w) == [world |-> w, reached |-> FALSE, done |-> 0, affects |-> FALSE]

HurriedByMiss(w, u) ==
  IF Item(w, u) = "blunder_policy" THEN RemoveItem(Boost(w, u, {"spe"}, 2), u) ELSE w

\* Mutation of MoveIsUnsuccessful: a move at a Pokemon that has fainted does not fail.
MutMoveIsUnsuccessful(w, u, m, threatens) ==
  LET t == Other(u)
  IN  \/ HasTrait(m, "sound") /\ Ability(w, t) = "soundproof"
      \/ HasTrait(m, "explosive") /\ Ability(w, t) = "damp"
      \/ HasTrait(m, "focus_punch") /\ Has(w, u, "damaged")
      \/ HasTrait(m, "sucker_punch") /\ ~threatens

\* move_is_unsuccessful.  `threatens`: the other is still to use a damaging move.
MoveIsUnsuccessful(w, u, m, threatens) ==
  LET t == Other(u)
  IN  \/ HasTrait(m, "sound") /\ Ability(w, t) = "soundproof"
      \/ HasTrait(m, "explosive") /\ Ability(w, t) = "damp"
      \/ HasTrait(m, "focus_punch") /\ Has(w, u, "damaged")
      \/ HasTrait(m, "sucker_punch") /\ ~threatens
      \/ HP(w, t) = 0 /\ Targets(m) = "adjacent"

BlockedByProtect(m) == TargetsFoe(m) /\ Targets(m) # "all" /\ ~HasTrait(m, "feint")

\* ability_blocks_move.  Up to generation 3 the moves named for it are let through.
AbilityBlocksMove(w, u, m) ==
  LET ability == Ability(w, Other(u))
      absorbs(type) == TargetsFoe(m) /\ MoveData[m].type = type
      named(move) == Rules.generation <= 3 /\ m = move
  IN  CASE ability = "flash_fire"  -> /\ absorbs("fire") /\ ~named("will_o_wisp")
                                      /\ ~(Rules.generation <= 4 /\ Status(w, Other(u)) = "freeze")
        [] ability = "volt_absorb" -> absorbs("electric") /\ ~named("thunder_wave")
        [] ability \in {"water_absorb", "dry_skin"} -> absorbs("water")
        [] ability = "motor_drive" -> absorbs("electric")
        [] OTHER                   -> FALSE

HandleAbilityBlocksMove(w, t) ==
  CASE Ability(w, t) = "flash_fire"  -> SetFlag(w, t, "flash_fire")
    [] Ability(w, t) = "motor_drive" -> Boost(w, t, {"spe"}, 1)
    [] OTHER                         -> Heal(w, t, 1, 4)

\* The types that an attack of a type has no effect on
Immune(type) ==
  CASE type = "electric"               -> {"ground"}
    [] type = "ground"                 -> {"flying"}
    [] type \in {"normal", "fighting"} -> {"ghost"}
    [] type = "ghost"                  -> IF Rules.generation = 1 THEN {"normal", "psychic"}
                                          ELSE {"normal"}
    [] type = "poison"                 -> IF Rules.generation = 1 THEN {} ELSE {"steel"}
    [] type = "psychic"                -> {"dark"}
    [] type = "dragon"                 -> {"fairy"}
    [] OTHER                           -> {}

\* affects_target
AffectsTarget(w, t, m) ==
  LET type == MoveData[m].type
  IN  IsDamaging(m) => ~IsType(w, t, Immune(type)) /\ (type = "ground" => Grounded(w, t))

\* successfully_use_move
UseSuccessfully(w, u, m, ends) ==
  LET l == w[u].lum
      herb == Item(w, u) = "power_herb"
      sun == Weather(w) = "sun"
      used == [Asserted(w, ~SuccessfulMoveThrows(l, m, ends))
                 EXCEPT ![u].lum = SuccessfulMove(@, m, m, ends, herb, sun)]
  IN  IF HP(w, u) # 0 /\ ConsumesItem(l, m, herb, sun) THEN RemoveItem(used, u) ELSE used

\* activate_target_ability: neither the user's status nor its HP is looked at.
ActivateTargetAbility(w, u, contact) ==
  CASE contact = "nothing"     -> w
    [] contact = "infatuation" -> Attract(w, u)
    [] OTHER                   -> SetStatus(w, u, contact)

\* After the effect: the user's item, and the ability of the one it touched
AfterDamage(w, u, done, contact) ==
  IF done = 0 THEN w
  ELSE ActivateTargetAbility(CASE Item(w, u) = "life_orb"   -> Heal(w, u, -1, 10)
                               [] Item(w, u) = "shell_bell" -> ChangeHP(w, u, AtLeastOne(done \div 8))
                               [] OTHER                     -> w,
                             u, contact)

\* The damage of a move that is not being charged
Damages(w, u, m, damage) ==
  IF damage = 0 \/ IsCharging(w[u].lum) THEN [world |-> w, done |-> 0]
  ELSE DirectDamage(Asserted(w, DirectDamageAsserted(w, Other(u), m)), Other(u), m, damage)

Reaches(hit, m, absorbed) == Attempt(hit.world, m, ~absorbed, hit.done)

\* The damage, once nothing stops the move
HitsTarget(w, u, m, damage) ==
  LET interaction == IF HasSubstitute(w, Other(u)) THEN MoveData[m].substitute ELSE "bypassed"
  IN  IF interaction = "causes_failure" THEN Fails(w)
      ELSE Reaches(Damages(w, u, m, damage), m, interaction = "absorbs")

\* A move of a type that does not affect a Ghost needs no recharge.
AffectsNobody(w, u) ==
  IF IsType(w, Other(u), {"ghost"}) THEN [w EXCEPT ![u].lum = Recharge(@)] ELSE w

\* From ability_blocks_move on: `w` is after successfully_use_move.
AfterUse(w, u, m, damage) ==
  LET ready == IF HasTrait(m, "thaws_user") THEN Thawed(w, u) ELSE w
  IN  IF AbilityBlocksMove(w, u, m) THEN Fails(HandleAbilityBlocksMove(w, Other(u)))
      ELSE IF TargetsFoeSpecifically(m) /\ ~AffectsTarget(w, Other(u), m)
      THEN Fails(AffectsNobody(ready, u))
      ELSE HitsTarget(ready, u, m, damage)

\* From advance_confusion on
Executes(w, u, m, threatens, draw) ==
  IF draw.misses THEN Attempt(HurriedByMiss(UseUnsuccessfully(w, u, m), u), m, FALSE, 0)
  ELSE IF MoveIsUnsuccessful(w, u, m, threatens) THEN Fails(UseUnsuccessfully(w, u, m))
  ELSE IF IsProtecting(w[Other(u)].lum) /\ BlockedByProtect(m) THEN Attempt(w, m, FALSE, 0)
  ELSE AfterUse(UseSuccessfully(w, u, m, draw.ends), u, m, draw.damage)

\* From can_attempt_move_execution on: `w` is after advance_status_from_move and
\* recharge().
Attempts(w, u, m, threatens, draw, wasAsleep, recharging) ==
  IF ~CanAttemptMove(w, u, m, wasAsleep) THEN Fails(UseUnsuccessfully(w, u, m))
  ELSE IF Has(w, u, "flinched")
  THEN Fails(IF Ability(w, u) = "steadfast" THEN Boost(w, u, {"spe"}, 1) ELSE w)
  ELSE IF BlocksExecution(w, u, m) \/ draw.paralyzed \/ recharging
  THEN Fails(UseUnsuccessfully(w, u, m))
  ELSE Executes(Advance(w, u, "confusion"), u, m, threatens, draw)

\* The effect, and what follows damage that reached its target
TakesEffect(attempt, u, draw) ==
  IF ~attempt.affects THEN attempt.world
  ELSE AfterDamage(ApplyEffect(attempt.world, u, draw.effect, attempt.done), u,
                   IF attempt.reached THEN attempt.done ELSE 0, draw.contact)

\* try_use_move
TryUseMove(w, u, m, threatens, draw) ==
  TakesEffect(Attempts([AdvanceStatus(w, u, draw.clears) EXCEPT ![u].lum = Recharge(@)],
                       u, m, threatens, draw,
                       Status(w, u) \in Sleeping, IsRecharging(w[u].lum)),
              u, draw)

\* call_move
CallMove(w, u, m, threatens, draw) ==
  EndOfAttack(TryUseMove(Asserted(w, HP(w, u) # 0), u, m, threatens, draw), u)

-----------------------------------------------------------------------------
(* What may be drawn: probability_of_clearing, paralysis_probability and   *)
(* possible_side_effects, all of the battle before the move                *)

MayClear(w, u) ==
  LET status == Status(w, u)
  IN  IF status \in Sleeping \/ (status = "freeze" /\ Rules.generation >= 2)
      THEN BOOLEAN ELSE {FALSE}

\* A search whose damage is unknown takes a Substitute for unbreakable; a client is
\* told the damage.
PossibleDamage(w, u, m) ==
  MoveData[m].damage \cup
  IF HasSubstitute(w, Other(u)) /\ MoveData[m].substitute # "bypassed" THEN {0} ELSE {}

ContactEffect ==
  [flame_body |-> "burn", static |-> "paralysis", poison_point |-> "poison",
   cute_charm |-> "infatuation"]

\* What a client is told; a search draws "nothing"
PossibleContact(w, u, m) ==
  LET ability == Ability(w, Other(u))
      touched == /\ HasTrait(m, "contact")
                 /\ ability \in DOMAIN ContactEffect
                 /\ IF ability = "cute_charm" THEN Rules.opposite
                    ELSE IndirectStatusCanApply(w, u, ContactEffect[ability])
  IN  {"nothing"} \cup IF touched THEN {ContactEffect[ability]} ELSE {}

Draws(w, u, m) ==
  [clears    : MayClear(w, u),
   paralyzed : IF Status(w, u) = "paralysis" THEN BOOLEAN ELSE {FALSE},
   misses    : IF HasTrait(m, "can_miss") THEN BOOLEAN ELSE {FALSE},
   ends      : ActionEnds(w[u].lum),
   effect    : PossibleEffects(w, u, m),
   damage    : PossibleDamage(w, u, m),
   contact   : PossibleContact(w, u, m)]

=============================================================================

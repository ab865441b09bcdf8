---------------------------- MODULE SideEffects ----------------------------
(***************************************************************************)
(* The side effects of moves: move/side_effects_impl.cpp.                  *)
(*                                                                         *)
(* The code maps a move to functions and their probabilities before the    *)
(* move is executed, from the battle as it is then (possible_side_effects),*)
(* and calls the one that was drawn after the damage.  Here                *)
(*   MoveData[m].effect      is the entry of a move, a tuple that names a  *)
(*                           family of effects and its parameters,         *)
(*   PossibleEffects(w,u,m)  the effects that may be drawn for the user u, *)
(*   ApplyEffect(w,u,f,d)    what calling f does when d damage was done.   *)
(***************************************************************************)
EXTENDS Team

NoEffect == <<"none">>

\* basic_probability: the effect, or nothing when it is not certain
Maybe(certain, f) == IF certain THEN {f} ELSE {f, NoEffect}

-----------------------------------------------------------------------------
(* Status *)

\* Mutation of CanHaveStatus: a team-mate that sleeps does not count.
MutCanHaveStatus(w, u, status, immune) ==
  LET t == Other(u)
  IN  /\ ~AbilityBlocksStatus(w, t, Ability(w, u), status)
      /\ ~IsType(w, t, immune)
      /\ status = "sleep" => ~Uproaring(w, u) /\ ~Uproaring(w, t)

\* status_can_apply_ignoring_current_status, for the Pokemon opposite to u
CanHaveStatus(w, u, status, immune) ==
  LET t == Other(u)
  IN  /\ ~AbilityBlocksStatus(w, t, Ability(w, u), status)
      /\ ~IsType(w, t, immune)
      /\ status \in {"freeze", "sleep"} => ~TeamHasStatus(w, t, status)
      /\ status = "sleep" => ~Uproaring(w, u) /\ ~Uproaring(w, t)

StatusCanApply(w, u, status, immune) ==
  Status(w, Other(u)) = Clear /\ CanHaveStatus(w, u, status, immune)

\* status_effect, thaw_and_burn_effect, fang_effects, recoil_status and
\* tri_attack_effect
PossibleStatusEffects(w, u, e) ==
  LET t == Other(u)
      frozen == Status(w, t) = "freeze"
      canBurn == Status(w, t) \in {Clear, "freeze"} /\ CanHaveStatus(w, u, "burn", {"fire"})
      tri == {status \in {"burn", "freeze", "paralysis"} :
                StatusCanApply(w, u, status,
                  IF status # "paralysis" THEN TypesBlocking(status)
                  ELSE IF Rules.generation <= 5 THEN {} ELSE {"electric"})}
  IN  CASE e[1] = "status" ->
             IF StatusCanApply(w, u, e[2], e[3]) THEN Maybe(e[4], <<"status", e[2]>>) ELSE {NoEffect}
        [] e[1] = "thaw_burn" ->
             IF canBurn
             THEN {<<"status", "burn">>} \cup
                  (IF e[2] THEN {} ELSE {IF frozen THEN <<"cure">> ELSE NoEffect})
             ELSE {IF frozen THEN <<"cure">> ELSE NoEffect}
        [] e[1] = "fang" ->
             {NoEffect, <<"flinch">>} \cup
             (IF StatusCanApply(w, u, e[2], e[3])
              THEN {<<"status", e[2]>>, <<"status_and_flinch", e[2]>>} ELSE {})
        [] e[1] = "recoil_status" ->
             {<<"recoil", 3>>} \cup
             (IF StatusCanApply(w, u, e[2], e[3]) THEN {<<"recoil_and_status", e[2]>>} ELSE {})
        [] e[1] = "tri" ->
             IF Rules.generation = 1 \/ IsType(w, t, {"ghost"}) THEN {NoEffect}
             ELSE IF Rules.generation > 2 THEN {NoEffect} \cup {<<"status", status>> : status \in tri}
             ELSE IF frozen THEN {NoEffect, <<"cure">>, <<"status", "burn">>}
             ELSE IF Status(w, t) # Clear THEN {NoEffect}
             ELSE {NoEffect} \cup {<<"status", status>> : status \in
                    {"burn", "paralysis"} \cup (IF TeamHasStatus(w, t, "freeze") THEN {} ELSE {"freeze"})}

\* reflected_status: Synchronize
Reflected(status) ==
  CASE status \in {"burn", "paralysis", "poison"} -> status
    [] status = "toxic" -> IF Rules.generation <= 4 THEN "poison" ELSE "toxic"
    [] OTHER            -> Clear

\* apply_status: the user's own status is not looked at.
ApplyStatus(w, u, status) ==
  IF Reflected(status) # Clear /\ Ability(w, Other(u)) = "synchronize"
  THEN SetStatus(SetStatus(w, Other(u), status), u, Reflected(status))
  ELSE SetStatus(w, Other(u), status)

TryApplyStatus(w, u, status, immune) ==
  IF StatusCanApply(w, u, status, immune) THEN ApplyStatus(w, u, status) ELSE w

\* Psycho Shift: Rest shifts as sleep, and the user is cured in any case.
PsychoShift(w, u) ==
  LET status == IF Status(w, u) = "rest" THEN "sleep" ELSE Status(w, u)
      immune == IF status = "paralysis" THEN {} ELSE TypesBlocking(status)
      shifted == IF status \in {Clear, "freeze"} THEN w ELSE TryApplyStatus(w, u, status, immune)
  IN  IF Status(w, Other(u)) # Clear THEN w ELSE ClearStatus(shifted, u)

\* cure_all_status: the Pokemon that are left, without their ActiveStatus.
\* heal_bell of generations 3, 4, 6 and 7 leaves out Soundproof.
CureTeam(w, u, silent) ==
  LET deaf(m) == Rules.ability[u][m] = "soundproof"
                 /\ (Rules.generation \in {3, 4} \/ (Rules.generation \in {6, 7} /\ m = w[u].active))
  IN  [w EXCEPT ![u].team = [m \in DOMAIN @ |->
         IF (m = w[u].active \/ @[m].hp # 0) /\ ~(silent /\ deaf(m))
         THEN [@[m] EXCEPT !.status = Clear] ELSE @[m]]]

StatusEffects == {"status", "cure", "status_and_flinch", "recoil_and_status", "rest", "heal_bell",
                  "aromatherapy", "psycho_shift", "refresh", "heal_and_cure", "wake_up", "yawn",
                  "nightmare"}

AtLeastOne(n) == IF n < 1 THEN 1 ELSE n

\* RecoilEffect
Recoil(w, u, denominator, damage) ==
  IF Ability(w, u) \in {"magic_guard", "rock_head"} THEN w
  ELSE ChangeHP(w, u, -AtLeastOne(damage \div denominator))

ApplyStatusEffect(w, u, f, damage) ==
  LET t == Other(u)
  IN  CASE f[1] = "status"            -> ApplyStatus(w, u, f[2])
        [] f[1] = "cure"              -> ClearStatus(w, t)
        [] f[1] = "status_and_flinch" -> Flinch(ApplyStatus(w, u, f[2]), t)
        [] f[1] = "recoil_and_status" -> Recoil(ApplyStatus(w, u, f[2]), u, 3, damage)
        [] f[1] = "rest"              -> Rest(w, u)
        [] f[1] = "heal_bell"         -> CureTeam(w, u, TRUE)
        [] f[1] = "aromatherapy"      -> CureTeam(w, u, FALSE)
        [] f[1] = "psycho_shift"      -> PsychoShift(w, u)
        [] f[1] = "refresh"           -> ClearStatus(w, u)
        [] f[1] = "heal_and_cure"     -> ClearStatus(Heal(w, u, 1, 4), u)
        [] f[1] = "wake_up"           -> IF Status(w, t) \in Sleeping THEN ClearStatus(w, t) ELSE w
        [] f[1] = "yawn"              -> Start(w, t, "yawn")
        [] f[1] = "nightmare"         -> GiveNightmares(w, t)

-----------------------------------------------------------------------------
(* HP *)

HPEffects == {"absorb", "recoil", "struggle", "heal", "sun_heal", "sand_heal", "swallow", "spit_up",
              "stockpile", "wish", "pain_split", "substitute", "faint", "faint_at_substitute",
              "memento", "curse"}

\* absorb_effect: what the drained one's Liquid Ooze does comes from ability.cpp.
Absorb(w, u, damage) ==
  LET half == damage \div 2
      absorbed == AtLeastOne(IF Item(w, u) = "big_root" THEN (half * 13) \div 10 ELSE half)
  IN  ChangeHP(w, u, IF Ability(w, Other(u)) = "liquid_ooze" THEN -absorbed ELSE absorbed)

Struggle(w, u, damage) ==
  ChangeHP(w, u, -AtLeastOne(CASE Rules.generation = 1       -> damage \div 2
                               [] Rules.generation \in {2, 3} -> damage \div 4
                               [] OTHER                      -> MaxHP \div 4))

\* Moonlight, Morning Sun and Synthesis: twelfths of the HP
SunHeal(w, u) ==
  Heal(w, u, CASE Weather(w) = Clear -> 6
               [] Weather(w) = "sun" -> IF Rules.generation <= 2 THEN 12 ELSE 8
               [] OTHER              -> 3, 12)

\* Shore Up
SandHeal(w, u) == Heal(w, u, IF Weather(w) = "sand" THEN 4 ELSE 3, 6)

\* swallow_healing
Swallow(w, u) ==
  LET stockpiled == w[u].stockpile
  IN  IF stockpiled = 0 THEN w
      ELSE Heal(ReleaseStockpile(w, u), u, IF stockpiled = 3 THEN 4 ELSE stockpiled, 4)

\* equalize_hp
PainSplit(w, u) ==
  LET both(v, average) == SetHP(SetHP(v, u, average), Other(u), average)
  IN  both(w, (HP(w, u) + HP(w, Other(u))) \div 2)

Curse(w, u) ==
  LET t == Other(u)
      strong == Rules.generation = 2 /\ w[u].stages["atk"] = 6 /\ w[u].stages["def"] = 6
  IN  IF IsType(w, u, {"ghost"})
      THEN IF Has(w, t, "cursed") THEN w
           ELSE SetFlag(IndirectDamage(w, u, MaxHP \div 2), t, "cursed")
      ELSE IF strong THEN w
      ELSE Boost(Boost(w, u, {"atk", "def"}, 1), u, {"spe"}, -1)

ApplyHPEffect(w, u, f, damage) ==
  CASE f[1] = "absorb"     -> Absorb(w, u, damage)
    [] f[1] = "recoil"     -> Recoil(w, u, f[2], damage)
    [] f[1] = "struggle"   -> Struggle(w, u, damage)
    [] f[1] = "heal"       -> Heal(w, u, 1, f[2])
    [] f[1] = "sun_heal"   -> SunHeal(w, u)
    [] f[1] = "sand_heal"  -> SandHeal(w, u)
    [] f[1] = "swallow"    -> Swallow(w, u)
    [] f[1] = "spit_up"    -> ReleaseStockpile(w, u)
    [] f[1] = "stockpile"  -> IncrementStockpile(w, u)
    [] f[1] = "wish"       -> IF Rules.generation >= 3 /\ w[u].wish = Inactive
                              THEN [w EXCEPT ![u].wish = 1] ELSE w
    [] f[1] = "pain_split" -> PainSplit(w, u)
    [] f[1] = "substitute" -> UseSubstitute(w, u)
    [] f[1] = "faint"      -> Faint(w, u)
    [] f[1] = "faint_at_substitute" -> IF HasSubstitute(w, Other(u)) THEN Faint(w, u) ELSE w
    [] f[1] = "memento"    -> Faint(Boost(w, Other(u), {"atk", "spa"}, -2), u)
    [] f[1] = "curse"      -> Curse(w, u)

-----------------------------------------------------------------------------
(* Stages *)

StageEffects == {"stages", "defense_curl", "confusing_boost", "guard_swap",
                 "heart_swap", "minimize", "no_retreat", "defog"}

\* Moves that change stages come as <<"stages", who, stats, change>>.
ApplyStageEffect(w, u, f) ==
  LET t == Other(u)
      saturated == Rules.generation <= 2 /\ w[t].stages[f[2]] = 6
      swapped(stats) ==
        [w EXCEPT ![u].stages = [x \in Stat |-> IF x \in stats THEN w[t].stages[x] ELSE @[x]],
                  ![t].stages = [x \in Stat |-> IF x \in stats THEN w[u].stages[x] ELSE @[x]]]
  IN  CASE f[1] = "stages"          -> Boost(w, IF f[2] = "user" THEN u ELSE t, f[3], f[4])
        [] f[1] = "defense_curl"    -> SetFlag(Boost(w, u, {"def"}, 1), u, "defense_curled")
        [] f[1] = "confusing_boost" -> IF saturated THEN w ELSE Confuse(Boost(w, t, {f[2]}, f[3]), t)
        [] f[1] = "guard_swap"      -> swapped({"def", "spd"})
        [] f[1] = "heart_swap"      -> swapped(Stat)
        [] f[1] = "minimize"        -> Minimize(w, u)
        [] f[1] = "no_retreat"      -> Boost(SetFlag(w, u, "fully_trapped"), u,
                                             Stat \ {"acc", "eva"}, 1)
        [] f[1] = "defog"           -> Boost(w, t, {"eva"}, -1)

-----------------------------------------------------------------------------
(* Flags and counters *)

VolatileEffects == {"flinch", "confuse", "set_user", "set_other", "count_user", "count_other",
                    "encore", "taunt", "torment", "disable", "attract", "trap", "thaw_and_trap",
                    "jaw_lock", "perish_song", "power_trick"}

Thawed(w, s) == IF Status(w, s) = "freeze" THEN ClearStatus(w, s) ELSE w

PerishSong(w, u) ==
  LET hears(v, s) == IF Ability(v, s) = "soundproof" THEN v ELSE Start(v, s, "perish_song")
      sung == IF Rules.generation >= 8 THEN Start(w, u, "perish_song") ELSE hears(w, u)
  IN  hears(sung, Other(u))

ApplyVolatileEffect(w, u, f) ==
  LET t == Other(u)
  IN  CASE f[1] = "flinch"        -> Flinch(w, t)
        [] f[1] = "confuse"       -> Confuse(w, t)
        [] f[1] = "set_user"      -> SetFlag(w, u, f[2])
        [] f[1] = "set_other"     -> SetFlag(w, t, f[2])
        [] f[1] = "count_user"    -> Restart(w, u, f[2])
        [] f[1] = "count_other"   -> Restart(w, t, f[2])
        [] f[1] \in {"encore", "taunt"} -> ApplyOwnMentalHerb(Restart(w, t, f[1]), t)
        [] f[1] = "torment"       -> ApplyOwnMentalHerb(SetFlag(w, t, "tormented"), t)
        [] f[1] = "disable"       -> IF w[t].lum.move \in {NoMove, "struggle"} THEN w
                                     ELSE Disable(w, t, w[t].lum.move)
        [] f[1] = "attract"       -> Attract(w, t)
        [] f[1] = "trap"          -> Start(w, t, "partial_trap")
        [] f[1] = "thaw_and_trap" -> Start(Thawed(w, t), t, "partial_trap")
        [] f[1] = "jaw_lock"      -> SetFlag(SetFlag(w, u, "fully_trapped"), t, "fully_trapped")
        [] f[1] = "perish_song"   -> PerishSong(w, u)
        [] f[1] = "power_trick"   -> IF Has(w, u, "power_trick") THEN ClearFlags(w, u, {"power_trick"})
                                     ELSE SetFlag(w, u, "power_trick")

-----------------------------------------------------------------------------
(* Items *)

ItemEffects == {"steal", "swap_items", "knock_off", "incinerate", "recycle", "fling"}

\* item_can_be_lost
ItemCanBeLost(w, s) ==
  Ability(w, s) = "sticky_hold" => Rules.generation >= 5 /\ HP(w, s) = 0

Berries == {"berry", "sitrus_berry", "figy_berry", "liechi_berry", "custap_berry", "lum_berry",
            "chesto_berry", "pecha_berry", "rawst_berry"}

\* apply_white_herb
ApplyWhiteHerb(w, s) ==
  [w EXCEPT ![s].stages = [x \in Stat |-> Clamped(@[x], 0, 6)]]

\* fling_effects: the effect of what is flung, which is lost whatever it is
FlungStatus(item) ==
  CASE item = "flame_orb"   -> "burn"
    [] item = "light_ball"  -> "paralysis"
    [] item = "poison_barb" -> "poison"
    [] item = "toxic_orb"   -> "toxic"
    [] OTHER                -> Clear

FlungAt(w, u, item) ==
  LET t == Other(u)
      status == FlungStatus(item)
  IN  CASE status # Clear        -> TryApplyStatus(w, u, status, TypesBlocking(status))
        [] item \in {"kings_rock", "razor_fang"} -> Flinch(w, t)
        [] item = "mental_herb"  -> MentalHerbCures(w, t)
        [] item = "white_herb"   -> ApplyWhiteHerb(w, t)
        [] OTHER                 -> w

Fling(w, u) == RemoveItem(FlungAt(w, u, Item(w, u)), u)

ApplyItemEffect(w, u, f) ==
  LET t == Other(u)
      loses == ItemCanBeLost(w, t)
  IN  CASE f[1] = "steal"      -> IF loses THEN StealItem(w, u) ELSE w
        [] f[1] = "swap_items" -> IF loses THEN SwapItems(w, u) ELSE w
        [] f[1] = "knock_off"  -> IF loses THEN RemoveItem(w, t) ELSE w
        [] f[1] = "incinerate" -> IF loses /\ Item(w, t) \in Berries THEN DestroyItem(w, t) ELSE w
        [] f[1] = "recycle"    -> RecycleItem(w, u)
        [] f[1] = "fling"      -> Fling(w, u)

-----------------------------------------------------------------------------
(* The field, and the other team *)

FieldEffects == {"weather", "hazard", "rapid_spin", "phaze", "break_protect", "hyper_beam"}

\* active_pokemon_can_be_phazed
CanBePhazed(w, s) ==
  ~Has(w, s, "ingrained") /\ Ability(w, s) # "suction_cups" /\ Size(w, s) > 1

RapidSpin(w, u) ==
  LET cleared == ClearTeamField(w, u)
  IN  IF Rules.generation >= 8 THEN Boost(cleared, u, {"spe"}, 1) ELSE cleared

\* Hyper Beam in generation 1: asserts that there was a recharge to end.
HyperBeam(w, u) ==
  IF Rules.generation # 1 \/ HP(w, Other(u)) # 0 THEN w
  ELSE [Asserted(w, IsRecharging(w[u].lum)) EXCEPT ![u].lum = Recharge(@)]

ApplyFieldEffect(w, u, f) ==
  LET t == Other(u)
  IN  CASE f[1] = "weather"       -> ActivateWeather(w, f[2], WeatherTurns(w, u, f[2]))
        [] f[1] = "hazard"        -> AddHazard(w, t, f[2])
        [] f[1] = "rapid_spin"    -> RapidSpin(w, u)
        [] f[1] = "phaze"         -> SwitchPokemon(w, t, f[2])
        [] f[1] = "break_protect" -> [w EXCEPT ![t].lum = BreakProtect(@)]
        [] f[1] = "hyper_beam"    -> HyperBeam(w, u)

-----------------------------------------------------------------------------
(* possible_side_effects *)

Conditional == {"stages", "flinch", "confuse", "dream_eater", "acupressure", "attract", "bounce",
                "shadow_force", "sky_attack", "meteor_beam", "skull_bash", "jaw_lock", "phaze", "faint"}

\* Effects that depend on the battle before the move, those of status aside.
\* The charge of Bounce, Shadow Force and Sky Attack is over before its effect is
\* drawn where the user attacks, so it is drawn where the user charges.
PossibleConditionalEffects(w, u, m, e) ==
  LET t == Other(u)
      charging == IsCharging(w[u].lum)
      lockedIn == LockedIn(w[u].lum) = m
      raisable == {x \in Stat : w[u].stages[x] # 6}
      mayPhaze == Rules.generation >= 3 \/ (Rules.generation = 2 /\ w[t].lum.moved)
  IN  CASE e[1] = "stages"      -> Maybe(e[5], <<"stages", e[2], e[3], e[4]>>)
        [] e[1] = "flinch"      -> Maybe(e[2], <<"flinch">>)
        [] e[1] = "confuse"     -> IF IsType(w, t, e[2]) THEN {NoEffect} ELSE Maybe(e[3], <<"confuse">>)
        [] e[1] = "dream_eater" -> {IF Status(w, t) \in Sleeping THEN <<"absorb">> ELSE NoEffect}
        [] e[1] = "acupressure" -> IF raisable = {} THEN {NoEffect}
                                   ELSE {<<"stages", "user", {x}, 2>> : x \in raisable}
        [] e[1] = "attract"     -> {IF Rules.opposite THEN <<"attract">> ELSE NoEffect}
        [] e[1] = "bounce"      -> IF charging \/ ~StatusCanApply(w, u, "paralysis", {}) THEN {NoEffect}
                                   ELSE {NoEffect, <<"status", "paralysis">>}
        [] e[1] = "shadow_force" -> {IF charging THEN NoEffect ELSE <<"break_protect">>}
        [] e[1] = "sky_attack"  -> IF charging THEN {NoEffect} ELSE {NoEffect, <<"flinch">>}
        [] e[1] = "meteor_beam" -> {IF lockedIn THEN NoEffect ELSE <<"stages", "user", {"spa"}, 1>>}
        [] e[1] = "skull_bash"  -> {IF lockedIn \/ Rules.generation = 1 THEN NoEffect
                                    ELSE <<"stages", "user", {"def"}, 1>>}
        [] e[1] = "jaw_lock"    -> {IF Has(w, u, "fully_trapped") \/ Has(w, t, "fully_trapped")
                                    THEN NoEffect ELSE e}
        [] e[1] = "phaze"       -> IF mayPhaze /\ CanBePhazed(w, t)
                                   THEN {<<"phaze", m2>> : m2 \in Bench(w, t)} ELSE {NoEffect}
        [] e[1] = "faint"       -> {IF Rules.generation = 1 /\ HasSubstitute(w, t)
                                    THEN <<"faint_at_substitute">> ELSE e}

PossibleEffects(w, u, m) ==
  LET e == MoveData[m].effect
  IN  IF e[1] \in {"status", "thaw_burn", "fang", "recoil_status", "tri"}
      THEN PossibleStatusEffects(w, u, e)
      ELSE IF e[1] \in Conditional THEN PossibleConditionalEffects(w, u, m, e)
      ELSE {e}

ApplyEffect(w, u, f, damage) ==
  CASE f[1] \in StatusEffects   -> ApplyStatusEffect(w, u, f, damage)
    [] f[1] \in HPEffects       -> ApplyHPEffect(w, u, f, damage)
    [] f[1] \in StageEffects    -> ApplyStageEffect(w, u, f)
    [] f[1] \in VolatileEffects -> ApplyVolatileEffect(w, u, f)
    [] f[1] \in ItemEffects     -> ApplyItemEffect(w, u, f)
    [] f[1] \in FieldEffects    -> ApplyFieldEffect(w, u, f)
    [] OTHER                    -> w

=============================================================================

--------------------------- MODULE MCBattlefield ---------------------------
(* Moves by the entries that the tables of the code have for them, and the    *)
(* teams that meet.                                                           *)
EXTENDS Battlefield

Plain(effect) ==
  [kind |-> "other", effect |-> effect, target |-> "adjacent", damage |-> {0},
   type |-> "normal", priority |-> 0, traits |-> {}, substitute |-> "absorbs"]
Attack(damage, type, effect) == [Plain(effect) EXCEPT !.damage = {damage}, !.type = type]
Self(effect) == [Plain(effect) EXCEPT !.target = "self", !.substitute = "bypassed"]
Bypassing(effect) == [Plain(effect) EXCEPT !.substitute = "bypassed"]
Missable(move) == [move EXCEPT !.traits = @ \cup {"can_miss"}]
Touching(move) == [move EXCEPT !.traits = @ \cup {"contact"}]
OfKind(move, kind) == [move EXCEPT !.kind = kind]
First(move, priority) == [move EXCEPT !.priority = priority]
Trait(move, trait) == [move EXCEPT !.traits = @ \cup {trait}]

Unaffected == <<"none">>

DataOf(m) ==
  CASE m = "struggle"      -> Attack(4, "typeless", <<"struggle">>)
    [] m = "splash"        -> Self(Unaffected)
    [] m = "tackle"        -> Touching(Attack(4, "normal", Unaffected))
    [] m = "slam"          -> Attack(12, "normal", Unaffected)
    [] m = "earthquake"    -> [Attack(6, "ground", Unaffected) EXCEPT !.target = "spread"]
    [] m = "bone_rush"     -> Missable(Attack(6, "ground", Unaffected))
    [] m = "explosion"     -> [Trait(Trait(Attack(12, "normal", <<"faint">>), "explodes"), "explosive")
                                 EXCEPT !.target = "spread"]
    [] m = "memento"       -> Trait(Plain(<<"memento">>), "explodes")
    [] m = "double_edge"   -> Attack(6, "normal", <<"recoil", 3>>)
    [] m = "flare_blitz"   -> Trait(Attack(6, "fire", <<"recoil_status", "burn", {"fire"}>>), "thaws_user")
    [] m = "ice_beam"      -> Attack(4, "ice", <<"status", "freeze", {"ice"}, FALSE>>)
    [] m = "ice_fang"      -> Attack(4, "ice", <<"fang", "freeze", {"ice"}>>)
    [] m = "ember"         -> Attack(4, "fire", <<"thaw_burn", FALSE>>)
    [] m = "tri_attack"    -> Attack(4, "normal", <<"tri">>)
    [] m = "leech_seed"    -> Plain(<<"set_other", "leech_seeded">>)
    [] m = "absorb"        -> Attack(4, "grass", <<"absorb">>)
    [] m = "dream_eater"   -> [Attack(6, "psychic", <<"dream_eater">>) EXCEPT !.substitute = "causes_failure"]
    [] m = "wrap"          -> Missable(OfKind(Attack(2, "normal", <<"trap">>), "trap"))
    [] m = "hyper_beam"    -> OfKind(Attack(8, "normal", <<"hyper_beam">>), "recharge")
    [] m = "outrage"       -> OfKind(Attack(4, "dragon", Unaffected), "rampage")
    [] m = "solar_beam"    -> OfKind(Attack(8, "grass", Unaffected), "solar")
    [] m = "bounce"        -> OfKind(Missable(Attack(6, "flying", <<"bounce">>)), "vanish")
    [] m = "skull_bash"    -> OfKind(Attack(8, "normal", <<"skull_bash">>), "charge")
    [] m = "bide"          -> OfKind(Attack(6, "normal", Unaffected), "bide")
    [] m = "thunder_wave"  -> Plain(<<"status", "paralysis", {"ground"}, TRUE>>)
    [] m = "toxic"         -> Missable(Plain(<<"status", "toxic", {"poison", "steel"}, TRUE>>))
    [] m = "poison_powder" -> Plain(<<"status", "poison", {"poison", "steel"}, TRUE>>)
    [] m = "sleep_powder"  -> Missable(Plain(<<"status", "sleep", {}, TRUE>>))
    [] m = "yawn"          -> Plain(<<"yawn">>)
    [] m = "nightmare"     -> Plain(<<"nightmare">>)
    [] m = "rest"          -> Trait(Self(<<"rest">>), "healing")
    [] m = "snore"         -> Trait(Trait(Attack(4, "normal", <<"flinch", FALSE>>), "while_sleeping"), "sound")
    [] m = "heal_bell"     -> Self(<<"heal_bell">>)
    [] m = "aromatherapy"  -> Self(<<"aromatherapy">>)
    [] m = "refresh"       -> Self(<<"refresh">>)
    [] m = "psycho_shift"  -> Plain(<<"psycho_shift">>)
    [] m = "recover"       -> Trait(Self(<<"heal", 2>>), "healing")
    [] m = "wish"          -> Trait(Self(<<"wish">>), "healing")
    [] m = "synthesis"     -> Trait(Self(<<"sun_heal">>), "healing")
    [] m = "pain_split"    -> Plain(<<"pain_split">>)
    [] m = "substitute"    -> Self(<<"substitute">>)
    [] m = "destiny_bond"  -> Self(<<"destiny_bond">>)
    [] m = "endure"        -> First(Self(<<"endure">>), 4)
    [] m = "protect"       -> First(OfKind(Self(Unaffected), "protect"), 4)
    [] m = "feint"         -> First(Trait(Attack(2, "normal", <<"break_protect">>), "feint"), 2)
    [] m = "perish_song"   -> [Self(<<"perish_song">>) EXCEPT !.target = "all"]
    [] m = "baton_pass"    -> OfKind(Self(Unaffected), "baton")
    [] m = "u_turn"        -> OfKind(Attack(4, "bug", Unaffected), "delayed")
    [] m = "mean_look"     -> Bypassing(<<"set_other", "fully_trapped">>)
    [] m = "attract"       -> Bypassing(<<"attract">>)
    [] m = "roar"          -> First(Trait(Bypassing(<<"phaze">>), "sound"), -6)
    [] m = "spikes"        -> [Self(<<"hazard", "spikes">>) EXCEPT !.target = "field"]
    [] m = "toxic_spikes"  -> [Self(<<"hazard", "toxic_spikes">>) EXCEPT !.target = "field"]
    [] m = "stealth_rock"  -> [Self(<<"hazard", "rock">>) EXCEPT !.target = "field"]
    [] m = "rapid_spin"    -> Attack(2, "normal", <<"rapid_spin">>)
    [] m = "hail"          -> [Self(<<"weather", "hail">>) EXCEPT !.target = "field"]
    [] m = "thief"         -> Attack(2, "dark", <<"steal">>)
    [] m = "trick"         -> Plain(<<"swap_items">>)
    [] m = "knock_off"     -> Attack(2, "dark", <<"knock_off">>)
    [] m = "incinerate"    -> Attack(2, "fire", <<"incinerate">>)
    [] m = "fling"         -> Attack(2, "dark", <<"fling">>)
    [] m = "recycle"       -> Self(<<"recycle">>)
    [] m = "stockpile"     -> Self(<<"stockpile">>)
    [] m = "swallow"       -> Trait(Self(<<"swallow">>), "healing")
    [] m = "curse"         -> Plain(<<"curse">>)
    [] m = "ingrain"       -> Self(<<"set_user", "ingrained">>)
    [] m = "aqua_ring"     -> Self(<<"set_user", "aqua_ring">>)
    [] m = "taunt"         -> Bypassing(<<"taunt">>)
    [] m = "torment"       -> Bypassing(<<"torment">>)
    [] m = "encore"        -> Bypassing(<<"encore">>)
    [] m = "disable"       -> Bypassing(<<"disable">>)
    [] m = "embargo"       -> Plain(<<"count_other", "embargo">>)
    [] m = "heal_block"    -> Plain(<<"count_other", "heal_block">>)
    [] m = "magnet_rise"   -> Self(<<"count_user", "magnet_rise">>)
    [] m = "imprison"      -> Self(<<"set_user", "imprison">>)
    [] m = "swords_dance"  -> Self(<<"stages", "user", {"atk"}, 2, TRUE>>)
    [] m = "growl"         -> Trait(Plain(<<"stages", "other", {"atk"}, -1, TRUE>>), "sound")
    [] m = "swagger"       -> Plain(<<"confusing_boost", "atk", 2>>)
    [] m = "heart_swap"    -> Bypassing(<<"heart_swap">>)
    [] m = "confuse_ray"   -> Plain(<<"confuse", {}, TRUE>>)
    [] m = "minimize"      -> Self(<<"minimize">>)
    [] m = "power_trick"   -> Self(<<"power_trick">>)
    [] m = "sucker_punch"  -> First(Trait(Attack(6, "dark", Unaffected), "sucker_punch"), 1)
    [] m = "focus_punch"   -> First(Trait(Attack(8, "fighting", Unaffected), "focus_punch"), -3)
    [] m = "thunderbolt"   -> Attack(6, "electric", <<"status", "paralysis", {}, FALSE>>)
    [] m = "sky_attack"    -> OfKind(Attack(8, "flying", <<"sky_attack">>), "charge")
    [] m = "shadow_force"  -> OfKind(Trait(Attack(6, "ghost", <<"shadow_force">>), "feint"), "vanish")
    [] m = "meteor_beam"   -> OfKind(Attack(8, "rock", <<"meteor_beam">>), "charge")
    [] m = "wake_up_slap"  -> Attack(4, "fighting", <<"wake_up">>)
    [] m = "fire_spin"     -> OfKind(Attack(2, "fire", <<"thaw_and_trap">>), "trap")
    [] m = "defog"         -> Plain(<<"defog">>)
    [] m = "spit_up"       -> Attack(4, "normal", <<"spit_up">>)
    [] m = "shore_up"      -> Trait(Self(<<"sand_heal">>), "healing")
    [] m = "jungle_healing" -> Trait(Self(<<"heal_and_cure">>), "healing")
    [] m = "acupressure"   -> Self(<<"acupressure">>)
    [] m = "defense_curl"  -> Self(<<"defense_curl">>)
    [] m = "no_retreat"    -> Self(<<"no_retreat">>)
    [] m = "jaw_lock"      -> Attack(4, "dark", <<"jaw_lock">>)
    [] m = "guard_swap"    -> Bypassing(<<"guard_swap">>)

MoveTable == [m \in Move |-> DataOf(m)]

-----------------------------------------------------------------------------
(* A Pokemon is its types, ability, item and moves.                           *)

Pokemon(types, ability, item, moves) ==
  [types |-> types, ability |-> ability, item |-> item, moves |-> moves]

\* Two Pokemon a side, "a1" and "a2" against "f1" and "f2"
Meets(generation, turns, opposite, a1, a2, f1, f2) ==
  LET of(f) == [ai |-> [a1 |-> a1[f], a2 |-> a2[f]], foe |-> [f1 |-> f1[f], f2 |-> f2[f]]]
  IN  [generation |-> generation, turns |-> turns, opposite |-> opposite,
       lead |-> [ai |-> "a1", foe |-> "f1"],
       types |-> of("types"), ability |-> of("ability"), item |-> of("item"),
       moves |-> of("moves")]

Normal == {"normal"}

ScenarioOf(name) ==
  CASE name = "perish" ->
         Meets(4, 5, TRUE,
               Pokemon(Normal, "none", "none", {"perish_song", "mean_look"}),
               Pokemon(Normal, "shadow_tag", "none", {"attract", "splash"}),
               Pokemon(Normal, "none", "none", {"baton_pass", "splash", "substitute"}),
               Pokemon(Normal, "soundproof", "none", {"ingrain", "roar"}))
    [] name = "second" ->
         Meets(2, 4, TRUE,
               Pokemon(Normal, "none", "leftovers", {"perish_song", "leech_seed"}),
               Pokemon({"ghost"}, "none", "none", {"curse", "spikes"}),
               Pokemon(Normal, "none", "none", {"baton_pass", "substitute"}),
               Pokemon(Normal, "none", "berserk_gene", {"roar", "toxic"}))
    [] name = "sleep" ->
         Meets(5, 4, FALSE,
               Pokemon(Normal, "none", "none", {"sleep_powder", "nightmare", "toxic"}),
               Pokemon(Normal, "none", "none", {"dream_eater", "yawn"}),
               Pokemon(Normal, "none", "chesto_berry", {"rest", "psycho_shift", "baton_pass"}),
               Pokemon(Normal, "natural_cure", "none", {"heal_bell", "snore"}))
    [] name = "toxic" ->
         Meets(5, 4, FALSE,
               Pokemon(Normal, "none", "none", {"toxic", "toxic_spikes"}),
               Pokemon(Normal, "synchronize", "toxic_orb", {"psycho_shift", "knock_off"}),
               Pokemon(Normal, "none", "lum_berry", {"rest", "rapid_spin"}),
               Pokemon(Normal, "shed_skin", "flame_orb", {"refresh", "tackle"}))
    [] name = "items" ->
         Meets(4, 4, TRUE,
               Pokemon(Normal, "none", "none", {"thief", "knock_off", "embargo"}),
               Pokemon(Normal, "sticky_hold", "flame_orb", {"trick", "fling"}),
               Pokemon(Normal, "none", "sitrus_berry", {"substitute", "slam"}),
               Pokemon(Normal, "none", "destiny_knot", {"attract", "incinerate"}))
    [] name = "seeds" ->
         Meets(3, 4, FALSE,
               Pokemon(Normal, "none", "leftovers", {"leech_seed", "pain_split"}),
               Pokemon(Normal, "none", "none", {"explosion", "hail", "wrap"}),
               Pokemon({"ice"}, "liquid_ooze", "none", {"substitute", "destiny_bond"}),
               Pokemon(Normal, "rain_dish", "none", {"wish", "recover", "ember"}))
    [] name = "first" ->
         Meets(1, 4, FALSE,
               Pokemon(Normal, "none", "none", {"wrap", "hyper_beam"}),
               Pokemon(Normal, "none", "none", {"sleep_powder", "leech_seed", "explosion"}),
               Pokemon(Normal, "none", "none", {"rest", "thunder_wave"}),
               Pokemon(Normal, "none", "none", {"toxic", "substitute"}))
    [] name = "faints" ->
         Meets(4, 3, FALSE,
               Pokemon(Normal, "none", "life_orb", {"double_edge", "memento", "absorb"}),
               Pokemon(Normal, "drizzle", "shell_bell", {"sucker_punch", "focus_punch", "flare_blitz"}),
               Pokemon(Normal, "static", "focus_sash", {"u_turn", "endure", "poison_powder"}),
               Pokemon({"flying", "fire"}, "intimidate", "figy_berry", {"stealth_rock", "destiny_bond", "thunderbolt"}))
    [] name = "counters" ->
         Meets(5, 3, FALSE,
               Pokemon(Normal, "none", "none", {"taunt", "encore", "disable", "confuse_ray"}),
               Pokemon(Normal, "oblivious", "none", {"torment", "heal_block", "ice_fang"}),
               Pokemon(Normal, "none", "mental_herb", {"recover", "stockpile", "swallow", "minimize"}),
               Pokemon(Normal, "speed_boost", "choice_band", {"outrage", "imprison", "magnet_rise", "heart_swap"}))
    [] name = "charges" ->
         Meets(4, 3, FALSE,
               Pokemon(Normal, "none", "power_herb", {"solar_beam", "skull_bash", "tri_attack"}),
               Pokemon({"fire"}, "drought", "none", {"flare_blitz", "bide"}),
               Pokemon(Normal, "flash_fire", "blunder_policy", {"bounce", "substitute"}),
               Pokemon({"grass"}, "dry_skin", "black_sludge", {"synthesis", "aqua_ring"}))
    [] name = "hazards" ->
         Meets(8, 4, FALSE,
               Pokemon(Normal, "sand_stream", "smooth_rock", {"spikes", "stealth_rock", "bone_rush"}),
               Pokemon({"flying"}, "intimidate", "none", {"toxic_spikes", "roar"}),
               Pokemon({"poison"}, "none", "liechi_berry", {"rapid_spin", "power_trick"}),
               Pokemon({"fire", "flying"}, "steadfast", "adrenaline_orb", {"aromatherapy", "snore"}))
    [] name = "guards" ->
         Meets(8, 3, FALSE,
               Pokemon(Normal, "none", "chesto_berry", {"feint", "no_retreat", "shore_up"}),
               Pokemon(Normal, "none", "none", {"acupressure", "defense_curl", "jungle_healing"}),
               Pokemon(Normal, "none", "custap_berry", {"protect", "recycle", "swords_dance"}),
               Pokemon(Normal, "water_veil", "mental_herb", {"jaw_lock", "meteor_beam", "guard_swap"}))
    [] name = "clouds" ->
         Meets(4, 3, FALSE,
               Pokemon(Normal, "cloud_nine", "mental_herb", {"sky_attack", "spit_up", "stockpile"}),
               Pokemon(Normal, "none", "kings_rock", {"wake_up_slap", "defog", "fling"}),
               Pokemon({"ghost"}, "own_tempo", "none", {"rest", "shadow_force", "swagger"}),
               Pokemon(Normal, "snow_warning", "lum_berry", {"fire_spin", "taunt", "ice_beam"}))
    [] name = "thefts" ->
         Meets(4, 4, FALSE,
               Pokemon(Normal, "none", "none", {"thief", "slam"}),
               Pokemon(Normal, "none", "shell_bell", {"absorb", "trick"}),
               Pokemon(Normal, "none", "leftovers", {"recycle", "destiny_bond"}),
               Pokemon(Normal, "none", "none", {"splash"}))

ScenarioTable ==
  [name \in {"perish", "second", "sleep", "toxic", "items", "seeds", "first", "faints", "counters",
             "charges", "hazards", "guards", "clouds", "thefts"} |-> ScenarioOf(name)]

\* These are teams and tables for which no assertion fails, as BattlefieldProofs has it.
ASSUME TabledAssumption == Scenarios = ScenarioTable => Tabled

\* A move that hits all around it, and Spikes to faint to before it does
SpreadTable ==
  [name \in {"spread"} |->
     Meets(5, 5, FALSE,
           Pokemon(Normal, "none", "none", {"spikes", "earthquake"}),
           Pokemon(Normal, "none", "none", {"tackle"}),
           Pokemon(Normal, "none", "none", {"tackle"}),
           Pokemon(Normal, "none", "none", {"splash"}))]
=============================================================================

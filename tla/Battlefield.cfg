SPECIFICATION Spec
CONSTANTS
  Scenarios <- ScenarioTable
  MaxHP = 16
  Move = {"struggle", "splash", "tackle", "slam", "earthquake", "bone_rush", "explosion", "memento",
          "double_edge", "flare_blitz", "ice_beam", "ice_fang", "ember", "tri_attack", "leech_seed",
          "absorb", "dream_eater", "wrap", "hyper_beam", "outrage", "solar_beam", "bounce",
          "skull_bash", "bide", "thunder_wave", "toxic", "poison_powder", "sleep_powder", "yawn",
          "nightmare", "rest", "snore", "heal_bell", "aromatherapy", "refresh", "psycho_shift",
          "recover", "wish", "synthesis", "pain_split", "substitute", "destiny_bond", "endure",
          "protect", "feint", "perish_song", "baton_pass", "u_turn", "mean_look", "attract",
          "roar", "spikes", "toxic_spikes", "stealth_rock", "rapid_spin", "hail", "thief",
          "trick", "knock_off", "incinerate", "fling", "recycle", "stockpile", "swallow",
          "curse", "ingrain", "aqua_ring", "taunt", "torment", "encore", "disable",
          "embargo", "heal_block", "magnet_rise", "imprison", "swords_dance", "growl", "swagger",
          "heart_swap", "confuse_ray", "minimize", "power_trick", "sucker_punch", "focus_punch", "thunderbolt",
          "sky_attack", "shadow_force", "meteor_beam", "wake_up_slap", "fire_spin", "defog",
          "spit_up", "shore_up", "jungle_healing", "acupressure", "defense_curl", "no_retreat",
          "jaw_lock", "guard_swap"}
  NoMove = NoMove
  MaxSuccesses = 1
  MoveData <- MoveTable
INVARIANTS
  TypeOK
  NothingFails
  SleepClause
PROPERTIES
  ItemsAreNotCopied
  StatusStateStartsAnew
  PerishSongIsFinal
  NothingOutlivesItsStay
  FaintedStaysFainted

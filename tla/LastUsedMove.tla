---------------------------- MODULE LastUsedMove ----------------------------
(***************************************************************************)
(* What a Pokemon in battle remembers about the move it last used:         *)
(* pokemon/last_used_move.cpp, struct LastUsedMove, with the counters it   *)
(* holds (bide/duration.cpp, pokemon/rampage.cpp, pokemon/immobilize.cpp,  *)
(* pokemon/uproar.cpp).  The struct is a value and its methods are         *)
(* operators from a value to a value, so that the machines that own one    *)
(* (LockIn) or two of them (Turn) share the definitions.                   *)
(*                                                                         *)
(* A move is a member of Move; KindOf gives the case of the switch in      *)
(* successful_move it falls under, the only thing the struct tells apart.  *)
(***************************************************************************)
EXTENDS Integers

CONSTANTS
  Generation,     \* the generation of the game, a template parameter
  Move,           \* the moves
  KindOf,         \* how LastUsedMove classifies each move
  NoMove,         \* tv::none
  MaxSuccesses    \* bound of m_consecutive_successes (10 in the source)

Kinds == {"bide", "vanish", "charge", "solar", "trap", "protect", "recharge",
          "rampage", "uproar", "baton", "delayed", "other"}

ASSUME GenerationAssumption == Generation \in 1..8
ASSUME MoveAssumption == NoMove \notin Move /\ KindOf \in [Move -> Kinds]
ASSUME SuccessesAssumption == MaxSuccesses \in Nat \ {0}

Effects == {"Empty", "Bide", "ChargingUp", "Immobilize", "Protecting",
            "Rampage", "Recharging", "UproarCounter", "Vanishing"}

-----------------------------------------------------------------------------
(* The counters: the value at which advance_one_turn throws, and how       *)
(* certain the end is at each value.                                       *)

MaxTurns(effect) ==
  CASE effect = "Bide"       -> IF Generation <= 2 THEN 2 ELSE 1
    [] effect = "Rampage"    -> IF Generation = 1 THEN 4 ELSE 3
    [] effect = "Immobilize" -> 5
    [] effect = "UproarCounter"     -> 5
    [] OTHER                 -> 0

\* The values a flag takes with non-zero probability when it is impossible
\* below `from`, certain at `max` and open in between.
FlagBranches(turns, from, max) ==
  IF turns < from THEN {FALSE} ELSE IF turns < max THEN BOOLEAN ELSE {TRUE}

-----------------------------------------------------------------------------
LastUsed == [move      : Move \cup {NoMove},
             successes : 0..MaxSuccesses,
             moved     : BOOLEAN,
             effect    : Effects,
             turns     : 0..5]

Initial == [move |-> NoMove, successes |-> 0, moved |-> FALSE,
            effect |-> "Empty", turns |-> 0]

WithEffect(l, effect) == [l EXCEPT !.effect = effect, !.turns = 0]

SuccessfulLastMove(l, m) == l.move = m /\ l.successes >= 1

LockedIn(l) == IF l.effect # "Empty" THEN l.move ELSE NoMove

IsCharging(l) == l.effect \in {"Bide", "ChargingUp"}
IsProtecting(l) == l.effect = "Protecting"
IsImmobilizing(l) == l.effect = "Immobilize"

\* is_delayed_switch of move/is_delayed_switch.cpp
IsDelayedSwitch(m) == m \in Move /\ KindOf[m] \in {"baton", "delayed"}

IsDelayedSwitching(l) == l.moved /\ IsDelayedSwitch(l.move) /\ l.successes >= 1

IsBatonPassing(l) ==
  l.moved /\ l.move \in Move /\ KindOf[l.move] = "baton" /\ l.successes >= 1

BreakProtect(l) == IF IsProtecting(l) THEN WithEffect(l, "Empty") ELSE l

\* Mutation of ResetEndOfTurn: m_moved_this_turn is not reset.
MutResetEndOfTurn(l) == BreakProtect(l)

ResetEndOfTurn(l) == [BreakProtect(l) EXCEPT !.moved = FALSE]

\* Mutation of Unsuccessful: the effect survives a failed move.
MutUnsuccessful(l) == [l EXCEPT !.successes = 0, !.moved = TRUE]

\* Mutation of Unsuccessful: to flinch is not to move.
MutUnsuccessfulUnmoved(l) == [WithEffect(l, "Empty") EXCEPT !.successes = 0]

\* unsuccessful_move(): the move is not known, as when flinching
Unsuccessful(l) ==
  [WithEffect(l, "Empty") EXCEPT !.successes = 0, !.moved = TRUE]

\* unsuccessful_move(move)
UnsuccessfulMove(l, m) == [Unsuccessful(l) EXCEPT !.move = m]

\* Mutation of UseSwitch: the effect survives a switch.
MutUseSwitch(l, replacing) ==
  [l EXCEPT !.move = NoMove, !.moved = IF replacing THEN l.moved ELSE TRUE]

\* Mutation of UseSwitch: the move of who left is kept.
MutUseSwitchKeepsMove(l, replacing) ==
  [WithEffect(l, "Empty") EXCEPT !.moved = IF replacing THEN l.moved ELSE TRUE]

UseSwitch(l, replacing) ==
  [WithEffect(l, "Empty") EXCEPT !.move = NoMove,
                                 !.moved = IF replacing THEN l.moved ELSE TRUE]

HitSelf(l) == [WithEffect(l, "Empty") EXCEPT !.move = NoMove, !.moved = TRUE]

IsRecharging(l) == l.effect = "Recharging"
Recharge(l) == IF IsRecharging(l) THEN WithEffect(l, "Empty") ELSE l

EndImmobilize(l) == IF IsImmobilizing(l) THEN WithEffect(l, "Empty") ELSE l
FoeSwitched(l) == EndImmobilize(l)

-----------------------------------------------------------------------------
(* successful_move *)

\* The effect a move sets up when none is in force.  `herb`: the user holds a
\* Power Herb; `sun`: the effective weather is sun.
EffectOfMove(m, herb, sun) ==
  LET kind == KindOf[m]
  IN  CASE kind = "bide"                                     -> "Bide"
        [] kind = "vanish" /\ ~herb                          -> "Vanishing"
        [] kind = "charge" /\ ~herb                          -> "ChargingUp"
        [] kind = "solar" /\ ~sun /\ ~herb                   -> "ChargingUp"
        [] kind = "trap" /\ Generation = 1                   -> "Immobilize"
        [] kind = "protect"                                  -> "Protecting"
        [] kind = "recharge"                                 -> "Recharging"
        [] kind = "rampage"                                  -> "Rampage"
        [] kind = "uproar"                                   -> "UproarCounter"
        [] OTHER                                             -> "Empty"

\* The value successful_move returns: this execution used up the Power Herb.
ConsumesItem(l, last, herb, sun) ==
  /\ l.effect = "Empty"
  /\ herb
  /\ KindOf[last] \in {"vanish", "charge", "solar"}
  /\ KindOf[last] = "solar" => ~sun

\* The effects of the two-turn and n-turn moves, whose next execution must be
\* of the move that is locked in.
LockEffects == Effects \ {"Empty", "Protecting"}

\* successful_move throws or fails its assertion
SuccessfulMoveThrows(l, first, ends) ==
  \/ l.effect = "Protecting"
  \/ l.effect \in LockEffects /\ ~SuccessfulLastMove(l, first)
  \/ l.effect = "UproarCounter" /\ KindOf[l.move] # "uproar"
  \/ l.effect = "Bide" /\ ~ends /\ l.turns = MaxTurns("Bide")

AfterEffect(l, last, ends, herb, sun) ==
  CASE l.effect = "Empty"                      -> WithEffect(l, EffectOfMove(last, herb, sun))
    [] l.effect = "Bide" /\ ~ends              -> [l EXCEPT !.turns = l.turns + 1]
    [] l.effect = "Bide" /\ ends               -> WithEffect(l, "Empty")
    [] l.effect \in {"ChargingUp", "Vanishing"} -> WithEffect(l, "Empty")
    [] OTHER                                   -> l

\* Mutation of SuccessfulMove: a plain instead of a saturating increment.
MutSuccessfulMove(l, first, last, ends, herb, sun) ==
  [AfterEffect(l, last, ends, herb, sun) EXCEPT
     !.move = first,
     !.moved = TRUE,
     !.successes = IF l.move # first THEN 1 ELSE l.successes + 1]

SuccessfulMove(l, first, last, ends, herb, sun) ==
  [AfterEffect(l, last, ends, herb, sun) EXCEPT
     !.move = first,
     !.moved = TRUE,
     !.successes = IF l.move # first THEN 1
                   ELSE IF l.successes < MaxSuccesses THEN l.successes + 1
                   ELSE MaxSuccesses]

\* action_end_probability: only Bide ends at an action
ActionEnds(l) ==
  IF l.effect = "Bide" THEN FlagBranches(l.turns, 1, MaxTurns("Bide")) ELSE {FALSE}

-----------------------------------------------------------------------------
(* advance_lock_in and end_of_turn_end_probability, at the end of a turn.  *)
(* UproarCounter has no end_of_turn_end_probability.                       *)

\* Mutation of LockInEnds: the end is never certain.
MutLockInEnds(l) ==
  CASE l.effect = "Immobilize" -> FlagBranches(l.turns, 2, 6)
    [] l.effect = "Rampage"    -> FlagBranches(l.turns, MaxTurns("Rampage") - 1, 6)
    [] OTHER                   -> {FALSE}

LockInEnds(l) ==
  CASE l.effect = "Immobilize" -> FlagBranches(l.turns, 2, MaxTurns("Immobilize"))
    [] l.effect = "Rampage"    -> FlagBranches(l.turns, MaxTurns("Rampage") - 1, MaxTurns("Rampage"))
    [] OTHER                   -> {FALSE}

CountedAtEndOfTurn == {"Immobilize", "Rampage", "UproarCounter"}

AdvanceLockInThrows(l, ending) ==
  /\ l.effect \in CountedAtEndOfTurn
  /\ ~ending
  /\ l.turns = MaxTurns(l.effect)

\* Mutation of AdvanceLockIn: a turn in which the user did not move is not
\* counted.
MutAdvanceLockIn(l, ending) ==
  IF l.effect \notin CountedAtEndOfTurn \/ ~l.moved THEN l
  ELSE IF ending THEN WithEffect(l, "Empty")
  ELSE [l EXCEPT !.turns = l.turns + 1]

AdvanceLockIn(l, ending) ==
  IF l.effect \notin CountedAtEndOfTurn THEN l
  ELSE IF ending THEN WithEffect(l, "Empty")
  ELSE [l EXCEPT !.turns = l.turns + 1]

\* The value advance_lock_in returns: the user gets confused.
ConfusedByLockIn(l, ending) == l.effect = "Rampage" /\ ending

=============================================================================

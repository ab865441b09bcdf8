------------------------------- MODULE LockIn -------------------------------
(***************************************************************************)
(* One side's active Pokemon through the turns of a battle, as the search  *)
(* drives it: a legal selection (get_legal_selections.cpp), one execution  *)
(* of the selected move (try_use_move, move/call_move_impl.cpp), what the  *)
(* foe does to it meanwhile, and the end of the turn (end_of_turn.cpp).    *)
(* The foe, sleep, paralysis, accuracy and damage are choices here; what   *)
(* is tracked exactly is what locks a Pokemon into a move: LastUsedMove,   *)
(* PP and the Power Herb.                                                  *)
(***************************************************************************)
EXTENDS LastUsedMove

CONSTANTS
  Struggle,          \* the move that is always there and needs no PP
  SleepTalk,         \* Sleep Talk, or NoMove if nobody knows it
  SleepTalkCalls,    \* the moves can_be_selected_by_sleep_talk accepts
  MaxPP              \* the PP every regular move starts with

ASSUME StruggleAssumption == Struggle \in Move /\ KindOf[Struggle] = "other"
ASSUME SleepTalkAssumption ==
  /\ SleepTalk # Struggle
  /\ SleepTalk \in Move => KindOf[SleepTalk] = "other"
  /\ SleepTalkCalls \subseteq Move \ {SleepTalk, Struggle}
  /\ \A m \in SleepTalkCalls : KindOf[m] \notin {"bide", "vanish", "solar", "uproar"}
ASSUME PPAssumption == MaxPP \in Nat \ {0}

RegularMoves == Move \ {Struggle}

VARIABLES
  lum,        \* m_flags.last_used_move of the active Pokemon
  pp,         \* PP left of each of its regular moves
  herb,       \* it holds a Power Herb
  flinched,   \* m_flags.flinched
  alive,      \* its HP is not 0
  phase,      \* where it is in its turn: "select", "act" or "acted"
  selected,   \* the move it selected, NoMove when it selected nothing
  age,        \* history: the turns the current effect has been in force
  thrown      \* history: an exception left LastUsedMove

vars == <<lum, pp, herb, flinched, alive, phase, selected, age, thrown>>

\* age stops counting here, above what any counter of LastUsedMove reaches.
AgeBound == 8

FullPP == [m \in RegularMoves |-> MaxPP]

Init ==
  /\ lum = Initial
  /\ pp = FullPP
  /\ herb \in BOOLEAN
  /\ flinched = FALSE
  /\ alive = TRUE
  /\ phase = "select"
  /\ selected = NoMove
  /\ age = 0
  /\ thrown = FALSE

-----------------------------------------------------------------------------
(* Selection *)

HasPP(m) == m # Struggle => pp[m] > 0

\* Disable, Taunt, Encore and the like may leave any part of the usable moves,
\* or nothing but Struggle.
LegalMoves ==
  IF LockedIn(lum) # NoMove THEN {LockedIn(lum)}
  ELSE {m \in Move : HasPP(m)}

SelectMove(m) ==
  /\ phase = "select" /\ alive /\ ~thrown
  /\ m \in LegalMoves
  /\ phase' = "act"
  /\ selected' = m
  /\ UNCHANGED <<lum, pp, herb, flinched, alive, age, thrown>>

\* possible_executed_moves.  Sleep Talk calls another move only when asleep; when
\* awake it is executed itself, and cannot be attempted.
PossibleExecuted(m) == IF m = SleepTalk THEN SleepTalkCalls ELSE {m}

-----------------------------------------------------------------------------
(* try_use_move.  Every attempt first calls recharge().                    *)

Acting == phase = "act" /\ alive /\ ~thrown

Act(newLum) ==
  /\ lum' = newLum
  /\ phase' = "acted"
  /\ age' = IF newLum.effect = "Empty" THEN 0 ELSE IF age = 0 THEN 1 ELSE age
  /\ UNCHANGED <<flinched, alive, selected>>

\* Asleep, frozen, held by the foe's Wrap, disabled, loafing, or out of PP,
\* which is checked for a locked-in move too.
CannotAttempt(executed) ==
  /\ Acting
  /\ executed \in PossibleExecuted(selected) \cup {selected}
  /\ Act(UnsuccessfulMove(Recharge(lum), executed))
  /\ UNCHANGED <<pp, herb, thrown>>

\* flinch() has already recorded the failure.
LosesTurnToFlinch ==
  /\ Acting /\ flinched /\ HasPP(selected)
  /\ Act(Recharge(lum))
  /\ UNCHANGED <<pp, herb, thrown>>

\* Fully paralyzed, taunted, under Gravity, or recharging.
CannotExecute(executed) ==
  /\ Acting /\ ~flinched /\ HasPP(selected)
  /\ executed \in PossibleExecuted(selected)
  /\ Act(UnsuccessfulMove(Recharge(lum), executed))
  /\ UNCHANGED <<pp, herb, thrown>>

\* The move is going to be executed: what is left of its PP.
Executes == Acting /\ ~flinched /\ ~IsRecharging(lum) /\ HasPP(selected)

\* Mutation of PayPP: the guard on locked_in is dropped.
MutPayPP ==
  IF selected # Struggle
  THEN \E cost \in {1, 2} :
         pp' = [pp EXCEPT ![selected] = IF @ > cost THEN @ - cost ELSE 0]
  ELSE UNCHANGED pp

PayPP ==
  IF LockedIn(lum) = NoMove /\ selected # Struggle
  THEN \E cost \in {1, 2} :      \* 2 against Pressure
         pp' = [pp EXCEPT ![selected] = IF @ > cost THEN @ - cost ELSE 0]
  ELSE UNCHANGED pp

\* A miss, or move_is_unsuccessful.
Fails(executed) ==
  /\ Executes /\ PayPP
  /\ executed \in PossibleExecuted(selected)
  /\ Act(UnsuccessfulMove(lum, executed))
  /\ UNCHANGED <<herb, thrown>>

\* The foe's Protect stops the move: try_use_move returns without telling
\* LastUsedMove.
BlockedByProtect ==
  /\ Executes /\ PayPP
  /\ Act(lum)
  /\ UNCHANGED <<herb, thrown>>

\* successfully_use_move; `immune` is the Ghost immunity that cancels a
\* recharge.
Succeeds(executed, ends, sun, immune) ==
  /\ Executes /\ PayPP
  /\ executed \in PossibleExecuted(selected)
  /\ ends \in ActionEnds(lum)
  /\ LET after == SuccessfulMove(lum, selected, executed, ends, herb, sun)
     IN  IF SuccessfulMoveThrows(lum, selected, ends)
         THEN /\ Act(lum)
              /\ thrown' = TRUE
              /\ UNCHANGED herb
         ELSE /\ Act(IF immune THEN Recharge(after) ELSE after)
              /\ herb' = (herb /\ ~ConsumesItem(lum, executed, herb, sun))
              /\ UNCHANGED thrown

-----------------------------------------------------------------------------
(* Leaving the field: switch_pokemon and switch_in put another Pokemon     *)
(* here.  Every Pokemon comes in fresh.                                    *)

ComesIn(replacing) ==
  /\ lum' = UseSwitch(lum, replacing)
  /\ pp' = FullPP
  /\ herb' \in BOOLEAN
  /\ flinched' = FALSE
  /\ alive' = TRUE
  /\ selected' = NoMove
  /\ age' = 0
  /\ UNCHANGED thrown

\* Switching is a selection of its own unless a move is locked in.
SwitchSelected ==
  /\ phase = "select" /\ alive /\ ~thrown
  /\ LockedIn(lum) = NoMove
  /\ phase' = "acted"
  /\ ComesIn(FALSE)

\* Phazed by the foe, or the switch of its own U-turn or Baton Pass.
SwitchedMidTurn ==
  /\ phase \in {"act", "acted"} /\ alive /\ ~thrown
  /\ phase' = "acted"
  /\ ComesIn(FALSE)

ReplaceFainted ==
  /\ phase = "select" /\ ~alive /\ ~thrown
  /\ UNCHANGED phase
  /\ ComesIn(TRUE)

-----------------------------------------------------------------------------
(* What the foe does to it *)

FoeFlinchesIt ==
  /\ phase \in {"act", "acted"} /\ alive /\ ~thrown
  /\ flinched' = TRUE
  /\ lum' = Unsuccessful(lum)
  /\ age' = 0
  /\ UNCHANGED <<pp, herb, alive, phase, selected, thrown>>

\* Feint and Shadow Force
FoeBreaksProtect ==
  /\ phase = "acted" /\ alive /\ ~thrown
  /\ IsProtecting(lum)
  /\ lum' = BreakProtect(lum)
  /\ age' = 0
  /\ UNCHANGED <<pp, herb, flinched, alive, phase, selected, thrown>>

\* It is no longer held by a foe that has gone, and holds nobody itself.
FoeSwitches ==
  /\ ~thrown
  /\ lum' = FoeSwitched(lum)
  /\ age' = IF IsImmobilizing(lum) THEN 0 ELSE age
  /\ UNCHANGED <<pp, herb, flinched, alive, phase, selected, thrown>>

Faints ==
  /\ phase \in {"act", "acted"} /\ alive /\ ~thrown
  /\ alive' = FALSE
  /\ phase' = "acted"
  /\ UNCHANGED <<lum, pp, herb, flinched, selected, age, thrown>>

-----------------------------------------------------------------------------
(* end_of_turn: advance_lock_in, unless a fainted Pokemon of generation 3  *)
(* or later is skipped, then reset_end_of_turn.  Up to generation 3 the    *)
(* turn also ends, before this Pokemon acts, when the foe faints.          *)

EndOfTurn(ending) ==
  /\ phase = "acted" \/ (phase = "act" /\ Generation <= 3)
  /\ ~thrown
  /\ ending \in LockInEnds(lum)
  /\ LET advances == alive \/ Generation <= 2
         advanced == IF advances THEN AdvanceLockIn(lum, ending) ELSE lum
         after == ResetEndOfTurn(advanced)
     IN  /\ thrown' = (advances /\ AdvanceLockInThrows(lum, ending))
         /\ lum' = IF thrown' THEN lum ELSE after
         /\ age' = IF lum'.effect = "Empty" THEN 0
                   ELSE IF age < AgeBound THEN age + 1 ELSE AgeBound
  /\ phase' = "select"
  /\ selected' = NoMove
  /\ flinched' = FALSE
  /\ UNCHANGED <<pp, herb, alive>>

-----------------------------------------------------------------------------
UseMove ==
  \/ \E executed \in Move : CannotAttempt(executed)
  \/ LosesTurnToFlinch
  \/ \E executed \in Move : CannotExecute(executed)
  \/ \E executed \in Move : Fails(executed)
  \/ BlockedByProtect
  \/ \E executed \in Move, ends, sun, immune \in BOOLEAN :
       Succeeds(executed, ends, sun, immune)

FoeActs == FoeFlinchesIt \/ FoeBreaksProtect \/ FoeSwitches

LeavesField == SwitchSelected \/ SwitchedMidTurn \/ ReplaceFainted

Next ==
  \/ \E m \in Move : SelectMove(m)
  \/ UseMove
  \/ LeavesField
  \/ FoeActs
  \/ Faints
  \/ \E ending \in BOOLEAN : EndOfTurn(ending)

Spec == Init /\ [][Next]_vars

-----------------------------------------------------------------------------
(* Properties *)

TypeOK ==
  /\ lum \in LastUsed
  /\ pp \in [RegularMoves -> 0..MaxPP]
  /\ herb \in BOOLEAN
  /\ flinched \in BOOLEAN
  /\ alive \in BOOLEAN
  /\ phase \in {"select", "act", "acted"}
  /\ selected \in Move \cup {NoMove}
  /\ age \in 0..AgeBound
  /\ thrown \in BOOLEAN

\* A Pokemon under an effect is locked into a regular move that it knows and
\* last used successfully: what check_valid_lock_in throws on, what
\* vanish_doubles_power and get_legal_selections assert.  Any of the ways a turn
\* can go wrong may break it by clearing one field and not the other.
LockedInIsUsable ==
  lum.effect # "Empty" =>
    LockedIn(lum) \in RegularMoves /\ SuccessfulLastMove(lum, LockedIn(lum))

\* No counter is advanced past its end and no move is used against its own lock:
\* the runtime_errors of successful_move and of the advance_one_turn functions
\* are never raised.  The end flags come from a probability read before the
\* turn's last step changes the counter.
NeverThrows == ~thrown

\* A rampage and a trapping move count every turn they are in force, whatever
\* happened in it, and so end by the turn after their counter is full.
CountersFollowTurns ==
  alive /\ lum.effect \in {"Rampage", "Immobilize"} =>
    /\ age = lum.turns + 1
    /\ age <= MaxTurns(lum.effect) + 1

\* A lock is on one move: it does not pass to another move without being ended
\* first, not even through Sleep Talk.
LockKeepsItsMove ==
  [][lum.effect # "Empty" /\ lum'.effect = lum.effect => lum'.move = lum.move]_vars

\* A move of several turns pays PP for the first, and the turn that recharges
\* pays for nothing.
LockedMoveIsPaidOnce ==
  [][lum.effect # "Empty" /\ phase = "act" /\ alive' /\ selected' # NoMove => pp' = pp]_vars
=============================================================================

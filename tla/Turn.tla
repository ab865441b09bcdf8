-------------------------------- MODULE Turn --------------------------------
(***************************************************************************)
(* A turn of two teams as the search plays it out: the recursion of        *)
(* strategy/expectimax/expectimax_impl.cpp along one of its branches, with *)
(* execute_switch.cpp and score_executed_actions.cpp.  An action of this   *)
(* module is one function of the recursion; the choices it makes are the   *)
(* branches the function averages or maximizes over.                       *)
(*                                                                         *)
(* A team is its active Pokemon's LastUsedMove, whether that Pokemon has   *)
(* HP, and the number of Pokemon left.  HP, speed and move effects are     *)
(* choices; so is which Pokemon of the bench comes in.                     *)
(***************************************************************************)
EXTENDS Integers

CONSTANTS
  Generations,    \* the generations whose turns are played
  Move,           \* the moves
  KindOf,         \* how LastUsedMove classifies each move
  NoMove,         \* tv::none of LastUsedMove
  MaxSuccesses,   \* bound of LastUsedMove's m_consecutive_successes
  MovesOf,        \* by generation and side, the moves its Pokemon know
  PriorityOf,     \* by generation, priority_impl of move/priority.cpp
  MayBeFaster,    \* by generation, the sides `Faster` may put first
  Damaging,       \* the moves that do damage
  SelfDestructing, \* those that take their user along, even when they fail
  Phazing,        \* Roar and Whirlwind
  Blockable,      \* the moves blocked_by_protect holds of: it goes by target, and
                  \* that of Roar is the adjacent Pokemon, as an attack's
  MaxTeamSize     \* bound of the Pokemon a team starts with (6 in the source)

Side == {"ai", "foe"}
Other(s) == IF s = "ai" THEN "foe" ELSE "ai"

Switch == "switch"
Pass == "pass"
Selection == Move \cup {Switch, Pass}

\* tv::none of an optional selection
None == "none"

ASSUME GenerationsAssumption == Generations \in (SUBSET (1..8)) \ {{}}
ASSUME MovesOfAssumption == MovesOf \in [Generations -> [Side -> (SUBSET Move) \ {{}}]]
ASSUME PriorityAssumption == PriorityOf \in [Generations -> [Move -> -6..5]]
ASSUME FasterAssumption == MayBeFaster \in [Generations -> (SUBSET Side) \ {{}}]
ASSUME EffectsAssumption ==
  /\ Damaging \subseteq Move
  /\ SelfDestructing \subseteq Damaging
  /\ Phazing \subseteq Move \ Damaging
  /\ Blockable \subseteq Move
ASSUME SelectionAssumption == Move \cap {Switch, Pass, None} = {} /\ NoMove \notin Move
ASSUME BoundsAssumption == MaxTeamSize \in Nat \ {0} /\ MaxSuccesses \in Nat \ {0}

VARIABLES
  generation,    \* the generation, a template parameter: chosen once
  phase,         \* the function of the recursion that runs next
  team,          \* the State: state.ai and state.foe
  first,         \* the side `selector` selects: the one that moves first
  actor,         \* the side whose selection is executed next
  choice,        \* that selection
  continuation,  \* possible_forced_continuation
  owed           \* history: the sides that still owe an action this turn

vars == <<generation, phase, team, first, actor, choice, continuation, owed>>

INSTANCE LastUsedMove WITH Generation <- generation

\* Bide, whose end is a branch of its own, and Uproar, which never ends, are left
\* to LockIn.
ASSUME KindsAssumption == KindOf \in [Move -> Kinds \ {"bide", "uproar"}]

Executing == {"first", "second", "last"}
Phases == Executing \cup {"start", "after", "eot", "replace", "won", "dropped", "failed"}

Teams == [Side -> [lum : LastUsed, alive : BOOLEAN, size : 1..MaxTeamSize]]

Init ==
  /\ generation \in Generations
  /\ phase = "start"
  /\ team \in [Side -> [lum : {Initial}, alive : {TRUE}, size : 1..MaxTeamSize]]
  /\ first = "ai"
  /\ actor = "ai"
  /\ choice = None
  /\ continuation = None
  /\ owed = {}

-----------------------------------------------------------------------------
(* Questions the functions ask of a State *)

Moved(t, s) == t[s].lum.moved
Fainted(t) == {s \in Side : ~t[s].alive}

\* win: the last Pokemon of a team has no HP.
Lost(t) == {s \in Fainted(t) : t[s].size = 1}

\* is_delayed_switching
DelayedSwitching(t, s) == t[s].size # 1 /\ IsDelayedSwitching(t[s].lum)

\* Mutation of SwitchDecisionRequired: a faint asks for no decision.
MutSwitchDecisionRequired(t, s) == t[s].size # 1 /\ IsDelayedSwitching(t[s].lum)

SwitchDecisionRequired(t, s) ==
  t[s].size # 1 /\ (~t[s].alive \/ IsDelayedSwitching(t[s].lum))

\* get_legal_selections
LegalSelections(t, s) ==
  IF SwitchDecisionRequired(t, s) THEN {Switch}
  ELSE IF SwitchDecisionRequired(t, Other(s)) \/ Moved(t, s) THEN {Pass}
  ELSE IF LockedIn(t[s].lum) # NoMove THEN {LockedIn(t[s].lum)}
  ELSE MovesOf[generation][s] \cup (IF t[s].size > 1 THEN {Switch} ELSE {})

Priority(selection) ==
  IF selection = Switch THEN 6
  ELSE IF selection = Pass THEN 0
  ELSE PriorityOf[generation][selection]

\* Order: the speeds decide between equal priorities.
MayGoFirst(s, selection, other) ==
  \/ Priority(selection) > Priority(other)
  \/ Priority(selection) = Priority(other) /\ s \in MayBeFaster[generation]

ReplacementBeforeEndOfTurn(t) ==
  /\ generation = 2
  /\ \E s \in Side : Moved(t, s)
  /\ Fainted(t) # {}

\* fainting_forces_end_of_turn
FaintingForcesEndOfTurn(t, s) ==
  IF generation <= 3 THEN Fainted(t) # {} ELSE s \in Fainted(t)

-----------------------------------------------------------------------------
(* Effects on a State *)

\* Who comes in may faint to Spikes and the like, from generation 2 on.
HazardsMayFaint == IF generation = 1 THEN {FALSE} ELSE BOOLEAN

\* Mutation of SwitchPokemon: the fainted Pokemon stays in the team.
MutSwitchPokemon(t, s, faints) ==
  [t EXCEPT ![s] = [lum |-> UseSwitch(t[s].lum, ~t[s].alive),
                    alive |-> ~faints,
                    size |-> t[s].size],
            ![Other(s)].lum = FoeSwitched(@)]

\* Team::switch_pokemon
SwitchPokemon(t, s, faints) ==
  [t EXCEPT ![s] = [lum |-> UseSwitch(t[s].lum, ~t[s].alive),
                    alive |-> ~faints,
                    size |-> IF t[s].alive THEN t[s].size ELSE t[s].size - 1],
            ![Other(s)].lum = FoeSwitched(@)]

\* Up to generation 3 a faint takes the action of both.
StillOwed(t, done) ==
  IF generation <= 3 /\ Fainted(t) # {} THEN {} ELSE owed \ (done \cup Fainted(t))

Turns(nextPhase, t, done) ==
  /\ phase' = nextPhase
  /\ team' = t
  /\ owed' = StillOwed(t, done)
  /\ UNCHANGED first

\* finish_end_of_turn, and the assertions of check_is_valid_start_of_turn;
\* `asserted`: those of the caller
Finish(t, asserted) ==
  /\ team' = t
  /\ phase' = IF ~asserted THEN "failed"
              ELSE IF Lost(t) # {} THEN "won"
              ELSE IF Fainted(t) # {} THEN "replace"
              ELSE IF \E s \in Side : Moved(t, s) THEN "failed"
              ELSE "start"
  /\ first' = "ai"
  /\ actor' = "ai"
  /\ choice' = None
  /\ continuation' = None
  /\ owed' = {}

-----------------------------------------------------------------------------
(* start_of_turn_action and order_branch *)

StartOfTurn(selections, s) ==
  /\ phase = "start"
  /\ \A side \in Side : selections[side] \in LegalSelections(team, side)
  /\ MayGoFirst(s, selections[s], selections[Other(s)])
  /\ phase' = "first"
  /\ first' = s
  /\ actor' = s
  /\ choice' = selections[s]
  /\ continuation' = selections[Other(s)]
  /\ owed' = Side
  /\ UNCHANGED team

-----------------------------------------------------------------------------
(* score_executed_actions: execute `choice` of `actor`, and go on to the   *)
(* continuation of the caller.                                             *)

AfterExecution(t) ==
  IF Lost(t) # {} THEN "won" ELSE IF phase = "last" THEN "eot" ELSE "after"

Executed(t, done) ==
  /\ Turns(AfterExecution(t), t, done)
  /\ UNCHANGED <<actor, choice, continuation>>

\* A Pass, or a move whose user has no HP
ExecutesNothing ==
  /\ phase \in Executing
  /\ choice \in Move => ~team[actor].alive
  /\ choice # Switch
  /\ phase' = IF phase = "last" THEN "eot" ELSE "after"
  /\ UNCHANGED <<team, first, actor, choice, continuation, owed>>

ExecutesSwitch(faints) ==
  /\ phase \in Executing
  /\ choice = Switch
  /\ faints \in HazardsMayFaint
  /\ Executed(SwitchPokemon(team, actor, faints), {actor})

UsesMove == phase \in Executing /\ choice \in Move /\ team[actor].alive

\* Mutation of CanAttempt: the foe's trapping move is not looked at.
MutCanAttempt == UsesMove

\* can_attempt_move_execution, as far as LastUsedMove decides it
CanAttempt == UsesMove /\ ~IsImmobilizing(team[Other(actor)].lum)

\* can_execute_move, as far as LastUsedMove decides it
CanExecute == CanAttempt /\ ~IsRecharging(team[actor].lum)

\* Any of the reasons of try_use_move for unsuccessfully_use_move.  A miss takes
\* the user of Explosion along, to be asleep does not.
MoveIsUnsuccessful(faints) ==
  /\ UsesMove
  /\ faints => choice \in SelfDestructing
  /\ Executed([team EXCEPT ![actor].lum = UnsuccessfulMove(Recharge(@), choice),
                           ![actor].alive = ~faints],
              {actor})

\* is_protecting and blocked_by_protect: whatever the move does, attack or not
Blocked == choice \in Blockable /\ IsProtecting(team[Other(actor)].lum)

\* try_use_move returns without a word to LastUsedMove.
BlockedByProtect(faints) ==
  /\ CanExecute
  /\ Blocked
  /\ faints = (choice \in SelfDestructing)
  /\ Executed([team EXCEPT ![actor].alive = ~faints], {actor})

\* try_use_move gets as far as successfully_use_move.
Reaches == CanExecute /\ ~Blocked

\* What damage does besides: recoil and Life Orb faint the user, and the target
\* may flinch.
SuccessfulDamage(userFaints, otherFaints, flinches) ==
  LET o == Other(actor)
      after == SuccessfulMove(team[actor].lum, choice, choice, FALSE, FALSE, FALSE)
  IN  [team EXCEPT
         ![actor].lum = after,
         ![actor].alive = ~userFaints,
         ![o].alive = @ /\ ~otherFaints,
         ![o].lum = IF flinches THEN Unsuccessful(@) ELSE @]

UsesDamagingMove(userFaints, otherFaints, flinches) ==
  /\ Reaches
  /\ choice \in Damaging
  /\ choice \in SelfDestructing => userFaints
  /\ flinches => KindOf[choice] = "other"
  /\ Executed(SuccessfulDamage(userFaints, otherFaints, flinches),
              {actor} \cup IF flinches THEN {Other(actor)} ELSE {})

SuccessfulStatus ==
  [team EXCEPT ![actor].lum = SuccessfulMove(@, choice, choice, FALSE, FALSE, FALSE)]

UsesStatusMove ==
  /\ Reaches
  /\ choice \notin Damaging
  /\ Executed(SuccessfulStatus, {actor})

\* phaze_effect: in generation 2 only a Pokemon that has moved is phazed.
UsesPhazingMove(faints) ==
  /\ Reaches
  /\ choice \in Phazing
  /\ team[Other(actor)].alive
  /\ team[Other(actor)].size > 1
  /\ generation # 1
  /\ generation = 2 => Moved(team, Other(actor))
  /\ Executed(SwitchPokemon(SuccessfulStatus, Other(actor), faints), Side)

-----------------------------------------------------------------------------
(* after_action_branch, in the order of its conditions *)

\* The AI is asked before the foe.
DelayedSwitcher == IF DelayedSwitching(team, "ai") THEN "ai" ELSE "foe"

SomebodyIsDelayed == \E s \in Side : DelayedSwitching(team, s)

\* middle_of_turn_action: the Pokemon that used U-turn or Baton Pass switches.
EndsTurnAfterSwitch(t, s) ==
  \/ Moved(t, Other(s))
  \/ Other(s) \in Fainted(t)
  \/ generation <= 3 /\ s \in Fainted(t)

SwitchesMidTurn == phase = "after" /\ SomebodyIsDelayed

\* execute_switch
AfterDelayedSwitch ==
  {SwitchPokemon(team, DelayedSwitcher, faints) : faints \in HazardsMayFaint}

DelayedSwitchEndsTurn(t) ==
  /\ SwitchesMidTurn
  /\ Lost(t) # {} \/ EndsTurnAfterSwitch(t, DelayedSwitcher)
  /\ Turns(IF Lost(t) # {} THEN "won" ELSE "eot", t, {})
  /\ UNCHANGED <<actor, choice, continuation>>

\* The selections of middle_of_turn_after_switch.  Only the branch of the foe's
\* delayed switch passes the forced continuation on; for the AI's the foe's legal
\* selections are those of the State before the switch.
LastSelections(s) ==
  IF s = "ai" /\ continuation # None THEN {continuation}
  ELSE {selection \in LegalSelections(team, s) :
          MayGoFirst(Other(s), team[Other(s)].lum.move, selection)}

\* The assertions of middle_of_turn_after_switch
ValidLastAction(t, s) == ~Moved(t, s) /\ s \notin Fainted(t) /\ Moved(t, Other(s))

DelayedSwitchThenLastAction(t) ==
  /\ SwitchesMidTurn
  /\ ~(Lost(t) # {} \/ EndsTurnAfterSwitch(t, DelayedSwitcher))
  /\ LET s == Other(DelayedSwitcher)
     IN  /\ choice' \in LastSelections(s)
         /\ actor' = s
         /\ Turns(IF ValidLastAction(t, s) THEN "last" ELSE "failed", t, {})
  /\ continuation' = None

\* legal_selections_after_delayed_switch drops the selections that would have
\* gone first.  With none left, the branch has score 0 and nothing follows.
DelayedSwitchThenNoSelection(t) ==
  /\ SwitchesMidTurn
  /\ ~(Lost(t) # {} \/ EndsTurnAfterSwitch(t, DelayedSwitcher))
  /\ DelayedSwitcher = "foe" => continuation = None
  /\ LET s == Other(DelayedSwitcher)
     IN  \A selection \in LegalSelections(team, s) :
           MayGoFirst(s, selection, team[DelayedSwitcher].lum.move)
  /\ Turns("dropped", t, {})
  /\ UNCHANGED <<actor, choice, continuation>>

\* before_end_of_turn_action: the AI's selection is Pass by construction.
ReplacesBeforeEndOfTurn(selection, faints) ==
  /\ phase = "after"
  /\ ~SomebodyIsDelayed
  /\ ReplacementBeforeEndOfTurn(team)
  /\ selection \in LegalSelections(team, "foe")
  /\ faints \in HazardsMayFaint
  /\ LET t == IF selection = Switch THEN SwitchPokemon(team, "foe", faints) ELSE team
         asserted == "foe" \notin Fainted(team) => selection = Pass
     IN  Turns(IF asserted THEN "eot" ELSE "failed", t, {})
  /\ UNCHANGED <<actor, choice, continuation>>

NoSwitchIsDue ==
  /\ phase = "after"
  /\ ~SomebodyIsDelayed
  /\ ~ReplacementBeforeEndOfTurn(team)

\* Mutation of TurnIsOver: `selection` for `other`.
MutTurnIsOver == Moved(team, first) \/ FaintingForcesEndOfTurn(team, Other(first))

TurnIsOver ==
  Moved(team, Other(first)) \/ FaintingForcesEndOfTurn(team, Other(first))

GoesToEndOfTurn ==
  /\ NoSwitchIsDue
  /\ TurnIsOver
  /\ phase' = "eot"
  /\ UNCHANGED <<team, first, actor, choice, continuation, owed>>

\* Fails the assertion of fainting_forces_end_of_turn, or dereferences an empty
\* optional, when there is no second selection left.
SecondGoesOn ==
  /\ NoSwitchIsDue
  /\ ~TurnIsOver
  /\ phase' = IF Moved(team, first) /\ continuation # None THEN "second" ELSE "failed"
  /\ actor' = Other(first)
  /\ choice' = continuation
  /\ continuation' = None
  /\ UNCHANGED <<team, first, owed>>

-----------------------------------------------------------------------------
(* end_of_turn_flag_branch to finish_end_of_turn *)

\* other_effects skips a Pokemon without HP.  Nothing hurts at the end of a turn
\* in generation 1.
EndOfTurnOf(member, ends, faints) ==
  LET advances == member.alive \/ generation <= 2
  IN  [member EXCEPT
         !.lum = ResetEndOfTurn(IF advances THEN AdvanceLockIn(@, ends) ELSE @),
         !.alive = @ /\ ~faints]

EndOfTurn(ends, faints) ==
  /\ phase = "eot"
  /\ \A s \in Side : ends[s] \in LockInEnds(team[s].lum)
  /\ \A s \in Side : faints[s] => generation # 1
  /\ Finish([s \in Side |-> EndOfTurnOf(team[s], ends[s], faints[s])], TRUE)

\* after_end_of_turn_action and replace_fainted_action: the AI's switch first
ReplacesFainted(selections, faints) ==
  /\ phase = "replace"
  /\ \A s \in Side : selections[s] \in LegalSelections(team, s)
  /\ \A s \in Side : faints[s] \in HazardsMayFaint
  /\ LET replaced(t, s) == IF selections[s] = Switch THEN SwitchPokemon(t, s, faints[s]) ELSE t
     IN  Finish(replaced(replaced(team, "ai"), "foe"),
                \A s \in Side : selections[s] = Switch => s \in Fainted(team))

-----------------------------------------------------------------------------
\* The recursion has returned.
Finished == phase \in {"won", "dropped", "failed"} /\ UNCHANGED <<phase, team, first, actor, choice, continuation, owed>>

Executes ==
  \/ ExecutesNothing
  \/ \E faints \in BOOLEAN :
       \/ ExecutesSwitch(faints)
       \/ MoveIsUnsuccessful(faints)
       \/ BlockedByProtect(faints)
       \/ UsesPhazingMove(faints)
  \/ \E userFaints, otherFaints, flinches \in BOOLEAN :
       UsesDamagingMove(userFaints, otherFaints, flinches)
  \/ UsesStatusMove

AfterAction ==
  \/ \E t \in AfterDelayedSwitch :
       \/ DelayedSwitchEndsTurn(t)
       \/ DelayedSwitchThenLastAction(t)
       \/ DelayedSwitchThenNoSelection(t)
  \/ \E selection \in {Switch, Pass}, faints \in BOOLEAN :
       ReplacesBeforeEndOfTurn(selection, faints)
  \/ GoesToEndOfTurn
  \/ SecondGoesOn

Plays ==
  \/ \E selections \in [Side -> Selection], s \in Side : StartOfTurn(selections, s)
  \/ Executes
  \/ AfterAction
  \/ \E ends, faints \in [Side -> BOOLEAN] : EndOfTurn(ends, faints)
  \/ \E selections \in [Side -> {Switch, Pass}], faints \in [Side -> BOOLEAN] :
       ReplacesFainted(selections, faints)
  \/ Finished

Next == Plays /\ UNCHANGED generation

\* A function of the recursion calls the next one: nothing waits.
Spec == Init /\ [][Next]_vars /\ WF_vars(Next)

-----------------------------------------------------------------------------
(* Properties *)

TypeOK ==
  /\ generation \in Generations
  /\ phase \in Phases
  /\ team \in Teams
  /\ first \in Side
  /\ actor \in Side
  /\ choice \in Selection \cup {None}
  /\ continuation \in Selection \cup {None}
  /\ owed \in SUBSET Side

\* None of the assertions between the functions of the recursion fails, and the
\* optional second selection is there when it is dereferenced: the functions
\* find out who has moved, fainted and still has to switch from LastUsedMove,
\* which moves, phazing, flinching and switching change in different ways.
NothingFails == phase # "failed"

\* A turn does not end before everyone has acted who was not dragged out, made to
\* flinch or knocked out (up to generation 3: unless anyone was knocked out).
EveryoneActs == phase = "eot" => owed = {}

\* Only who still owes an action executes one: nobody acts twice, nor after they
\* were dragged out or made to flinch, also where the Protect of the other left
\* moved_this_turn unset or a delayed switch changed who is there.
OnlyWhoOwesActs == phase \in Executing /\ choice # Pass => actor \in owed

\* A turn ends with a switch due after U-turn or Baton Pass in one case only:
\* middle_of_turn_after_switch goes from the last action, the one behind the delayed
\* switch of the other side, straight to the end of the turn, and a delayed switch
\* that this action asks for is lost.  In every other case who used the move is gone
\* by then, whatever the other did in between.
DelayedSwitchesHappen ==
  [][phase' = "eot" =>
       \A s \in Side : DelayedSwitching(team', s) => phase = "last" /\ s = actor]_vars

\* The two never hold each other with a trapping move: nobody could ever move.
OneImmobilizesAtATime == ~(\A s \in Side : IsImmobilizing(team[s].lum))

\* The recursion implements the protocol of a turn: nobody acts twice, once
\* dragged out or once fainted, a team gets smaller exactly when a fainted Pokemon
\* is replaced, a turn ends when nobody owes an action, the next one starts with
\* two Pokemon standing, and the battle is over exactly when a side has lost.
Stage ==
  CASE phase \in {"start"}                             -> "select"
    [] phase \in Executing \cup {"after", "eot"}       -> "act"
    [] phase = "replace"                               -> "replace"
    [] phase = "won"                                   -> "over"
    [] OTHER                                           -> "broken"

Protocol == INSTANCE TurnProtocol
  WITH stage <- Stage,
       alive <- [s \in Side |-> team[s].alive],
       size <- [s \in Side |-> team[s].size]

ImplementsProtocol == Protocol!Spec

\* Every turn is over after finitely many steps, also when who comes in faints to
\* entry hazards again and again.
TurnsEnd == []<>(phase \in {"start", "won"})
=============================================================================

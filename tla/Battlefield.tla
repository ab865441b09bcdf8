---------------------------- MODULE Battlefield ----------------------------
(***************************************************************************)
(* A battle by the rules of BattleRules: both sides select, their moves    *)
(* and switches are executed by call_move and Team::switch_pokemon, and    *)
(* end_of_turn ends the turn, in the orders in which the search plays a    *)
(* turn out (see Turn, which leaves the rules open).  battle.cpp calls the *)
(* same functions when a client is told of a turn.                         *)
(***************************************************************************)
EXTENDS Integers, FiniteSets

CONSTANTS
  Scenarios,      \* the teams that meet, by name
  MaxHP,          \* the HP every Pokemon starts with
  Move, NoMove, MaxSuccesses,   \* of LastUsedMove
  MoveData        \* what the tables of the code say of each move

\* Damage of a sixteenth is still damage: heal_exactly takes 0 for 1.
ASSUME MaxHPAssumption == MaxHP \in Nat /\ MaxHP >= 16
ASSUME MoveDataAssumption ==
  \A m \in Move : /\ MoveData[m].damage \subseteq Nat
                  /\ MoveData[m].damage # {}
                  /\ MoveData[m].priority \in -7..5
                  /\ MoveData[m].substitute \in {"absorbs", "bypassed", "causes_failure"}
ASSUME StruggleAssumption == "struggle" \in Move
ASSUME NoMoveAssumption == NoMove \notin Move
ASSUME MaxSuccessesAssumption == MaxSuccesses \in Nat \ {0}

VARIABLES
  scenario,    \* the scenario that is played: chosen once
  w,           \* the world: both teams and the weather
  phase,       \* what the turn waits for
  selection,   \* what each side selected: a move, or a member of its team
  toAct,       \* the sides whose selection is still to be executed
  turn         \* bound: the turns played

vars == <<scenario, w, phase, selection, toAct, turn>>

Rules == Scenarios[scenario]

INSTANCE BattleRules

\* What a side selects where it selects nothing
Nothing == "nothing"
ASSUME NothingAssumption == Nothing \notin Move

\* A team has a Pokemon to send out, few enough to count, and moves of the tables;
\* a selection is a move or a member, so that no name is both.
ASSUME ScenariosAssumption ==
  \A name \in DOMAIN Scenarios :
    LET rules == Scenarios[name]
    IN  /\ rules.generation \in 1..8
        /\ rules.turns \in Nat
        /\ \A s \in Side : /\ rules.lead[s] \in DOMAIN rules.types[s]
                          /\ IsFiniteSet(DOMAIN rules.types[s])
                          /\ Nothing \notin DOMAIN rules.types[s]
                          /\ DOMAIN rules.types[s] \cap Move = {}
                          /\ \A m \in DOMAIN rules.types[s] : rules.moves[s][m] \subseteq Move

\* What the entries of SideEffects are made of: the status moves, recoil and healing,
\* stages, counters and hazards.  Pain Split has a target and no effect when it misses it;
\* Endure does no damage.
ASSUME EffectsAssumption ==
  \A m \in Move :
    LET e == MoveData[m].effect
    IN  /\ e[1] \in {"status", "fang", "recoil_status"} =>
             e[2] \in {"burn", "freeze", "paralysis", "poison", "toxic", "sleep"}
        /\ e[1] \notin {"status_and_flinch", "recoil_and_status"}
        /\ e[1] \in {"recoil", "heal"} => e[2] \in Nat \ {0}
        /\ e[1] = "stages" => e[4] \in Int
        /\ e[1] = "confusing_boost" => e[3] \in Int
        /\ e[1] \in {"count_user", "count_other"} =>
             e[2] \in {"embargo", "heal_block", "magnet_rise"}
        /\ e[1] = "hazard" => e[2] \in {"spikes", "toxic_spikes", "rock"}
        /\ e[1] = "pain_split" => Targets(m) = "adjacent" /\ ~HasTrait(m, "explodes")
        /\ e = <<"endure">> => MoveData[m].damage = {0}

\* The Pokemon of a team, without what ends with their stay
Fresh(s, m) == [hp |-> MaxHP, status |-> Clear, item |-> Rules.item[s][m],
                held |-> Rules.item[s][m] # NoItem]

\* A team before its first Pokemon is sent out
InitialSide(s) ==
  [active     |-> Rules.lead[s],
   team       |-> [m \in DOMAIN Rules.types[s] |-> Fresh(s, m)],
   lum        |-> Initial,
   flags      |-> {},
   count      |-> [c \in Counter |-> Inactive],
   disabled   |-> NoMove,
   substitute |-> 0,
   state      |-> 1,
   stages     |-> NoStages,
   stockpile  |-> 0,
   hazards    |-> NoHazards,
   wish       |-> Inactive]

\* The constructor of Battle sends out the AI's Pokemon and then the foe's.
SentOut ==
  LET empty == [ai |-> InitialSide("ai"), foe |-> InitialSide("foe"),
                weather |-> Clear, turns |-> 0, failed |-> FALSE]
      ai == ActivateAbilityOnSwitch(SwitchIn(empty, "ai", TRUE), "ai")
  IN  ActivateAbilityOnSwitch(SwitchIn(ai, "foe", TRUE), "foe")

Init ==
  /\ scenario \in DOMAIN Scenarios
  /\ w = SentOut
  /\ phase = "select"
  /\ selection = [s \in Side |-> Nothing]
  /\ toAct = {}
  /\ turn = 0

-----------------------------------------------------------------------------
Fainted(v) == {s \in Side : HP(v, s) = 0}
Lost(v) == {s \in Fainted(v) : Bench(v, s) = {}}
Moved(v, s) == v[s].lum.moved

\* is_delayed_switching
DelayedSwitching(v, s) == Bench(v, s) # {} /\ IsDelayedSwitching(v[s].lum)

Priority(s) == IF selection[s] \in Members(w, s) THEN 6 ELSE MoveData[selection[s]].priority

\* Who still acts after an action: fainting_forces_end_of_turn, and
\* moved_this_turn of who flinched or was dragged out
StillActs(v, sides) ==
  IF Rules.generation <= 3 /\ Fainted(v) # {} THEN {}
  ELSE {s \in sides : HP(v, s) # 0 /\ ~Moved(v, s)}

Continues(v, sides) ==
  /\ w' = v
  /\ toAct' = StillActs(v, sides)
  /\ phase' = IF Lost(v) # {} THEN "over" ELSE "act"

LegalSelections(s) == LegalMoves(w, s) \cup LegalSwitches(w, s)

Select ==
  /\ phase = "select"
  /\ turn < Rules.turns
  /\ \E ai \in LegalSelections("ai"), foe \in LegalSelections("foe") :
       selection' = [ai |-> ai, foe |-> foe]
  /\ phase' = "act"
  /\ toAct' = Side
  /\ turn' = turn + 1
  /\ UNCHANGED <<scenario, w>>

Acts(s) ==
  /\ phase = "act"
  /\ s \in toAct
  /\ \A x \in Side : ~DelayedSwitching(w, x)
  /\ \A x \in toAct : Priority(s) >= Priority(x)
  /\ UNCHANGED <<scenario, selection, turn>>

\* execute_switch
ExecutesSwitch(s) ==
  /\ Acts(s)
  /\ selection[s] \in Bench(w, s)
  /\ Continues(SwitchPokemon(w, s, selection[s]), toAct \ {s})

\* execute_move: the other is still to use a damaging move.
Threatens(s) ==
  /\ s \in toAct
  /\ selection[s] \in Move
  /\ IsDamaging(selection[s])

ExecutesMove(s) ==
  /\ Acts(s)
  /\ selection[s] \in Move
  /\ \E draw \in Draws(w, s, selection[s]) :
       Continues(CallMove(w, s, selection[s], Threatens(Other(s)), draw), toAct \ {s})

\* middle_of_turn_action: who used Baton Pass or U-turn is replaced at once.
DelayedSwitch(s) ==
  /\ phase = "act"
  /\ DelayedSwitching(w, s)
  /\ s = "foe" => ~DelayedSwitching(w, "ai")
  /\ \E m \in Bench(w, s) : Continues(SwitchPokemon(w, s, m), toAct)
  /\ UNCHANGED <<scenario, selection, turn>>

\* before_end_of_turn_action: in generation 2 the foe is replaced before the turn
\* ends; the AI's selection is Pass by construction.
ReplacesBeforeEndOfTurn ==
  /\ phase = "act"
  /\ toAct = {}
  /\ \A s \in Side : ~DelayedSwitching(w, s)
  /\ Rules.generation = 2
  /\ HP(w, "foe") = 0
  /\ \E m \in Bench(w, "foe") : Continues(SwitchPokemon(w, "foe", m), {})
  /\ UNCHANGED <<scenario, selection, turn>>

\* Shed Skin, and in generation 2 thawing
MayShed(s) == IF Ability(w, s) = "shed_skin" THEN BOOLEAN ELSE {FALSE}
MayThaw(s) == IF Rules.generation = 2 /\ Status(w, s) = "freeze" THEN BOOLEAN ELSE {FALSE}

EndOfTurnFlags(s) ==
  [sheds : MayShed(s), thaws : MayThaw(s), ending : LockInEnds(w[s].lum)]

\* finish_end_of_turn
Finish(v) ==
  /\ w' = v
  /\ phase' = IF Lost(v) # {} THEN "over" ELSE IF Fainted(v) # {} THEN "replace" ELSE "select"
  /\ selection' = [s \in Side |-> Nothing]
  /\ toAct' = {}
  /\ UNCHANGED <<scenario, turn>>

EndsTurn ==
  /\ phase = "act"
  /\ toAct = {}
  /\ \A s \in Side : ~DelayedSwitching(w, s)
  /\ Rules.generation = 2 => HP(w, "foe") # 0
  /\ \E first \in Side, ai \in EndOfTurnFlags("ai"), foe \in EndOfTurnFlags("foe") :
       Finish(EndOfTurn(w, first, [ai |-> ai, foe |-> foe]))

\* after_end_of_turn_action, replace_fainted_action: the AI's Pokemon first
ReplacesFainted ==
  /\ phase = "replace"
  /\ \E ai \in IF HP(w, "ai") = 0 THEN Bench(w, "ai") ELSE {Nothing},
        foe \in IF HP(w, "foe") = 0 THEN Bench(w, "foe") ELSE {Nothing} :
       LET replaced(v, s, m) == IF m = Nothing THEN v ELSE SwitchPokemon(v, s, m)
       IN  Finish(replaced(replaced(w, "ai", ai), "foe", foe))

\* The battle is over, or the bound on turns is reached.
Finished ==
  /\ phase = "over" \/ (phase = "select" /\ turn = Rules.turns)
  /\ UNCHANGED vars

Next ==
  \/ Select
  \/ \E s \in Side : ExecutesSwitch(s) \/ ExecutesMove(s) \/ DelayedSwitch(s)
  \/ ReplacesBeforeEndOfTurn
  \/ EndsTurn
  \/ ReplacesFainted
  \/ Finished

Spec == Init /\ [][Next]_vars

-----------------------------------------------------------------------------
(* Properties *)

TeamsOK(s) ==
  /\ w[s].active \in Members(w, s)
  /\ \A m \in Members(w, s) : /\ w[s].team[m].hp \in 0..MaxHP
                              /\ w[s].team[m].status \in Statuses
                              /\ w[s].team[m].held \in BOOLEAN

TypeOK ==
  /\ phase \in {"select", "act", "replace", "over"}
  /\ toAct \subseteq Side
  /\ turn \in 0..Rules.turns
  /\ w.turns \in -1..8
  /\ \A s \in Side :
       /\ TeamsOK(s)
       /\ w[s].lum \in LastUsed
       /\ \A c \in Counter : w[s].count[c] \in Inactive..Duration[c]
       /\ \A t \in Stat : w[s].stages[t] \in -6..6
       /\ w[s].substitute \in 0..(MaxHP \div 4 + 1)
       /\ w[s].state \in 1..MaxToxic
       /\ w[s].stockpile \in 0..3
       /\ \A f \in w[s].flags : Exists(f)
       /\ \A hazard \in DOMAIN NoHazards : w[s].hazards[hazard] \in 0..MaxLayers(hazard)

\* No assertion of the rules fails: nobody without HP uses a move or is hit by one,
\* a move that the Pokemon is locked in to is the one it uses, and a sleeping
\* Pokemon's part of ActiveStatus is about nightmares.
NothingFails == ~w.failed

\* A move has no damage for more than one Pokemon, who is next to its user.
Single(m) == MoveData[m].damage = {0} \/ Targets(m) = "adjacent"

\* What the tables and the teams have to be like for none to fail.  Nothing ends Uproar,
\* whose turns are counted until the counter throws; later than generation 3, where the
\* turn goes on after somebody has fainted, a move with damage for all that are there
\* also hits who has; and Hyper Beam, whose effect in generation 1 is to end its recharge,
\* has one.
Tabled ==
  /\ \A m \in Move : KindOf[m] # "uproar"
  /\ \A name \in DOMAIN Scenarios : Scenarios[name].generation >= 4 =>
       /\ Single("struggle")
       /\ \A s \in Side : \A n \in DOMAIN Scenarios[name].types[s] :
            \A m \in Scenarios[name].moves[s][n] : Single(m)
  /\ \A m \in Move : MoveData[m].effect[1] = "hyper_beam" =>
       KindOf[m] = "recharge" /\ ~HasTrait(m, "explodes")

\* Sleep Clause and Freeze Clause: whatever puts Pokemon to sleep, and in whatever
\* order, never more than one that is left of a team is asleep, or frozen, by the
\* other side.  Moves ask before they are executed, Yawn when it starts and again
\* a turn later.
SleepClause ==
  \A s \in Side, status \in {"sleep", "freeze"} :
    Cardinality({m \in Members(w, s) : w[s].team[m].hp # 0 /\ w[s].team[m].status = status}) <= 1

\* The Pokemon that hold an item
Holders(item) ==
  UNION {{<<s, m>> : m \in {n \in Members(w, s) : w[s].team[n].held /\ w[s].team[n].item = item}}
           : s \in Side}

\* Who executes Recycle gets back the item that it lost last.
Recycles(s, item) ==
  /\ s \in toAct
  /\ selection[s] \in Move
  /\ MoveData[selection[s]].effect[1] = "recycle"
  /\ Mon(w, s).item = item
  /\ ~Mon(w, s).held

\* No item gets a further holder, however it is stolen, swapped, knocked off, flung or
\* used up: who loses an item keeps it, for Recycle, and only a flag tells.  Recycle
\* brings back one, and the item that a thief still holds as well.
ItemsAreNotCopied ==
  [][\A item \in (UNION {{Rules.item[s][m] : m \in Members(w, s)} : s \in Side}) \ {NoItem} :
       Cardinality(Holders(item)')
         <= Cardinality(Holders(item)) + IF \E s \in Side : Recycles(s, item) THEN 1 ELSE 0]_vars

Left(s) == w'[s].active # w[s].active

\* Nightmare and the counter of Toxic are kept in the same place, told apart by a
\* status that is kept in another: a Pokemon that falls asleep, or comes in
\* asleep, has no nightmares from before, and Toxic starts from its first turn.
StartsAnew(s) ==
  LET starts(statuses) == /\ Status(w', s) \in statuses
                          /\ Left(s) \/ Status(w, s) \notin statuses
  IN  /\ starts(Sleeping) => w'[s].state = NoNightmare
      /\ starts({"toxic"}) => w'[s].state = 1
StatusStateStartsAnew == [][\A s \in Side : StartsAnew(s)]_vars

TurnEnds == phase = "act" /\ selection' # selection

\* Who has heard Perish Song hears it count: nothing but leaving without Baton
\* Pass stops it, it goes on by one at the end of each turn, is handed over by Baton
\* Pass as it is, and the fourth end of a turn is the last for who still hears it.
CountsOn(s) ==
  LET now == w[s].count["perish_song"]
      next == w'[s].count["perish_song"]
  IN  IF now = Inactive THEN next \in {Inactive, 0}
      ELSE IF Left(s) /\ ~BatonPassing(w, s) THEN next = Inactive
      ELSE IF ~TurnEnds THEN next = now
      ELSE IF now = 3 THEN next = Inactive /\ HP(w', s) = 0
      ELSE next = now + 1
PerishSongIsFinal == [][\A s \in Side : CountsOn(s)]_vars

\* The newcomer used its item as it came in.  A Berserk Gene is used and stays.
UsedItem(s) ==
  LET m == w'[s].active
  IN  w[s].team[m].held /\ (w'[s].team[m].held => w[s].team[m].item = "berserk_gene")

\* Nothing that belongs to a Pokemon's stay on the field is there for the one that
\* comes in, dragged out or not, but for what Baton Pass hands over; and nothing
\* that one Pokemon holds another by outlives the leaving of either.
CleanFor(s) ==
  LET passes == BatonPassing(w, s)
      side == w'[s]
  IN  /\ side.flags \subseteq (IF passes THEN Passable ELSE {}) \cup {"damaged", "unburdened"}
      /\ ~UsedItem(s) => \A c \in Counter :
           side.count[c] # Inactive => passes /\ c \in PassableCounter
      /\ ~UsedItem(s) /\ ~passes => \A t \in Stat \ {"atk"} : side.stages[t] = 0
      /\ passes \/ side.substitute = 0
      /\ side.stockpile = 0
      /\ LockedIn(side.lum) = NoMove
FreedBy(s) ==
  LET stays == w'[Other(s)]
      keeps == BatonPassing(w, s) /\ Rules.generation <= 4
  IN  /\ "attracted" \notin stays.flags
      /\ stays.count["partial_trap"] = Inactive
      /\ keeps \/ "fully_trapped" \notin stays.flags
      /\ ~IsImmobilizing(stays.lum)
NothingOutlivesItsStay == [][\A s \in Side : Left(s) => CleanFor(s) /\ FreedBy(s)]_vars

\* Who has fainted stays so: no Wish, berry, weather or Pain Split that comes later in
\* the turn, and no Rest or Wish of a Pokemon of its team, revives it.  Only within its
\* own move may the user be taken down by Destiny Bond and drain HP all the same.
FaintedStaysFainted ==
  [][\A s \in Side : \A m \in Members(w, s) :
       w[s].team[m].hp = 0 => w'[s].team[m].hp = 0]_vars
=============================================================================

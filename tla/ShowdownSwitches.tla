-------------------------- MODULE ShowdownSwitches --------------------------
(* The AI's side of a battle on Pokemon Showdown: the order in which the     *)
(* server numbers the Pokemon, and what BattleMessageHandler keeps of it     *)
(* (battle_message_handler_impl.cpp), namely the slot memory and the team of *)
(* ClientBattle.  The two are updated at different times: the slot memory as *)
(* soon as a switch or phaze message is read (handle_switch_message), the    *)
(* team and the HP of its active Pokemon when the action being built is used *)
(* (use_previous_action), at the next action or at the end of the block.  A  *)
(* choice reads both (ActionRequired, send_selection).                       *)
EXTENDS Naturals, Sequences, SlotMemory

CONSTANTS Pokemon,    \* the species of the AI's team; none appears twice
          Roster,     \* the team in its original order
          NoPokemon

ASSUME RosterAssumption ==
    /\ NoPokemon \notin Pokemon
    /\ Roster \in Seq(Pokemon) /\ Len(Roster) > 0
    /\ \A i, j \in 1 .. Len(Roster) : Roster[i] = Roster[j] => i = j

VARIABLES
    order,     \* server: order[n] is the Pokemon with number n
    fainted,   \* server: the Pokemon that have fainted
    phase,     \* "choosing", "turn", "upkeep" (nobody acts any more) or "over"
    wanted,    \* the Pokemon that the client chose to switch to
    number,    \* the number that it sent for it
    slots,     \* client: m_slot_memory
    team,      \* client: PokemonCollection::m_container
    index,     \* client: PokemonCollection::m_index
    down,      \* client: the active Pokemon has 0 HP (ai_is_fainted)
    building,  \* the action_builder of handle_message
    coming,    \* the team index in that action, or 0
    news,      \* the block says that the AI's active Pokemon fainted
    failed     \* the handler threw or asserted

server == <<order, fainted>>
choice == <<wanted, number>>
battle == <<team, index, down>>
builder == <<building, coming, news>>
vars == <<server, phase, choice, slots, battle, builder, failed>>

Builders == {"nothing", "move", "switches"}
Active == order[1]
Size == Len(Roster)

Init ==
    /\ order = Roster
    /\ fainted = {}
    /\ phase = "choosing"
    /\ wanted = NoPokemon
    /\ number = 0
    /\ slots = Fresh(Size)
    /\ team = Roster
    /\ index = 1
    /\ down = FALSE
    /\ building = "nothing"
    /\ coming = 0
    /\ news = FALSE
    /\ failed = FALSE

-----------------------------------------------------------------------------
(* The team.  switch_pokemon replaces a fainted Pokemon by removing it       *)
(* (remove_active), any other by moving m_index (set_index).                 *)
TeamAfter(to) == IF to # 0 /\ down THEN Erase(team, index) ELSE team

IndexAfter(to) ==
    IF to = 0 THEN index ELSE IF down /\ to > index THEN to - 1 ELSE to

\* Mutant: the Pokemon that comes in is still believed to have fainted.
MutUsesPreviousAction ==
    /\ team' = TeamAfter(coming)
    /\ index' = IndexAfter(coming)
    /\ down' = (news \/ down)

\* use_switch, or use_move with a phaze_index; then try_correct_hp_and_status.
UsesPreviousAction ==
    /\ team' = TeamAfter(coming)
    /\ index' = IndexAfter(coming)
    /\ down' = (news \/ (down /\ coming = 0))

\* ai_has: the position of a Pokemon in the team.
FoundAt(pokemon, t) == CHOOSE i \in 1 .. Len(t) : t[i] = pokemon

\* handle_switch_message: ai_is_fainted decides what becomes of the numbers.
RemembersSwitch(to, ai_is_fainted) ==
    slots' = IF ai_is_fainted THEN ReplaceFainted(slots, to) ELSE SwitchTo(slots, to)

RefusesSwitch(to, ai_is_fainted) == ai_is_fainted /\ ReplaceFaintedThrows(slots, to)

\* The server exchanges the numbers of its active Pokemon and the one at n.
ServerSwitches(n) == order' = [order EXCEPT ![1] = order[n], ![n] = order[1]]

-----------------------------------------------------------------------------
(* A choice.  handle_battle_request copies the slot memory with the state,   *)
(* and send_selection sends the number that it holds for the chosen index.   *)

\* Mutant: the active Pokemon is offered as a switch to itself.
MutChoosesSwitch(i) ==
    /\ phase = "choosing" /\ ~failed
    /\ wanted' = team[i]
    /\ number' = SlotOf(slots, i)
    /\ phase' = "turn"
    /\ UNCHANGED <<server, slots, battle, builder, failed>>

ChoosesSwitch(i) ==
    /\ phase = "choosing" /\ ~failed
    /\ i # index
    /\ wanted' = team[i]
    /\ number' = SlotOf(slots, i)
    /\ phase' = "turn"
    /\ UNCHANGED <<server, slots, battle, builder, failed>>

ChoosesMove ==
    /\ phase = "choosing" /\ ~failed
    /\ ~down
    /\ phase' = "turn"
    /\ UNCHANGED <<server, choice, slots, battle, builder, failed>>

\* The server carries out the AI's choice to switch.  SwitchMessage joins the
\* switches being built, unless one is the AI's already, and uses any other
\* action first.
SwitchMessage ==
    /\ phase = "turn" /\ ~failed
    /\ wanted # NoPokemon
    /\ IF building = "switches" THEN UNCHANGED <<battle, news>>
                                ELSE UsesPreviousAction /\ news' = FALSE
    /\ ServerSwitches(number)
    /\ coming' = FoundAt(order[number], team')
    /\ RemembersSwitch(coming', down')
    /\ failed' = \/ building = "switches" /\ coming # 0
                 \/ RefusesSwitch(coming', down')
    /\ building' = "switches"
    /\ wanted' = NoPokemon
    /\ number' = 0
    /\ UNCHANGED <<fainted, phase>>

\* The foe switches in the same block.
FoeSwitchMessage ==
    /\ phase = "turn" /\ ~failed
    /\ building # "switches"
    /\ UsesPreviousAction
    /\ building' = "switches" /\ coming' = 0 /\ news' = FALSE
    /\ UNCHANGED <<server, phase, choice, slots, failed>>

\* Somebody uses a move: the action before it is used.
MoveMessage ==
    /\ phase = "turn" /\ ~failed
    /\ UsesPreviousAction
    /\ building' = "move" /\ coming' = 0 /\ news' = FALSE
    /\ UNCHANGED <<server, phase, choice, slots, failed>>

\* The foe's move drags out another Pokemon of the AI.  The program learns
\* its position at once and the battle switches when the move is used.
PhazeMessage(n) ==
    /\ phase = "turn" /\ ~failed
    /\ building = "move" /\ coming = 0
    /\ wanted = NoPokemon
    /\ Active \notin fainted
    /\ order[n] \notin fainted
    /\ ServerSwitches(n)
    /\ coming' = FoundAt(order[n], team)
    /\ RemembersSwitch(coming', down)
    /\ failed' = RefusesSwitch(coming', down)
    /\ UNCHANGED <<fainted, phase, choice, battle, building, news>>

\* The AI's active Pokemon faints during an action, be it the foe's move, its
\* own or the hazards that met it as it came in.  A switch it was about to make
\* is off.
ActiveFaints ==
    /\ phase = "turn" /\ ~failed
    /\ building = "move" \/ coming # 0
    /\ Active \notin fainted
    /\ fainted' = fainted \union {Active}
    /\ news' = TRUE
    /\ wanted' = NoPokemon /\ number' = 0
    /\ UNCHANGED <<order, phase, slots, battle, building, coming, failed>>

\* The same at the end of the turn, where EndOfTurnStateBuilder keeps the HP.
UpkeepFaints ==
    /\ phase = "turn" /\ ~failed
    /\ wanted = NoPokemon
    /\ Active \notin fainted
    /\ fainted' = fainted \union {Active}
    /\ news' = TRUE
    /\ phase' = "upkeep"
    /\ UNCHANGED <<order, choice, slots, battle, building, coming, failed>>

\* The end of handle_message, and the server's next request.
BlockEnds ==
    /\ phase \in {"turn", "upkeep"} /\ ~failed
    /\ wanted = NoPokemon
    /\ UsesPreviousAction
    /\ building' = "nothing" /\ coming' = 0 /\ news' = FALSE
    /\ phase' = IF {order[n] : n \in 1 .. Size} \subseteq fainted THEN "over" ELSE "choosing"
    /\ UNCHANGED <<server, choice, slots, failed>>

Next ==
    \/ \E i \in 1 .. Len(team) : ChoosesSwitch(i)
    \/ ChoosesMove
    \/ SwitchMessage
    \/ FoeSwitchMessage
    \/ MoveMessage
    \/ \E n \in 2 .. Size : PhazeMessage(n)
    \/ ActiveFaints
    \/ UpkeepFaints
    \/ BlockEnds

Spec == Init /\ [][Next]_vars

-----------------------------------------------------------------------------
(* The properties.                                                           *)

\* The team and its active position as the action being built will leave them.
Members == TeamAfter(coming)
Leader == IndexAfter(coming)

\* The numbers are the server's, positions are the team's.
TypeOK ==
    /\ order \in [1 .. Size -> Pokemon] /\ fainted \subseteq Pokemon
    /\ phase \in {"choosing", "turn", "upkeep", "over"}
    /\ wanted \in Pokemon \union {NoPokemon} /\ number \in 0 .. Size
    /\ slots \in Seq(1 .. Size)
    /\ team \in Seq(Pokemon) /\ index \in 1 .. Len(team)
    /\ down \in BOOLEAN
    /\ building \in Builders /\ coming \in 0 .. Len(team) /\ news \in BOOLEAN
    /\ failed \in BOOLEAN

\* However the updates of the slot memory and of the team are spread over a
\* block, the slot memory gives for each position of the team, as it will be
\* once the action being built is used, the server's number of that Pokemon,
\* and number 1 for the active one (slot_memory.cpp:58-76, team.cpp:132-160).
SlotsNameTheTeam ==
    /\ Len(slots) = Len(Members)
    /\ \A i \in 1 .. Len(slots) : order[slots[i]] = Members[i]
    /\ slots[Leader] = 1

\* The handler never refuses what the server says: no replacement of a fainted
\* Pokemon by itself (slot_memory.cpp:62-64) and no second switch of the AI in
\* an action (battle_message_handler_impl.cpp:399-401).
NothingIsRefused == ~failed

\* When the AI chooses, its team is the Pokemon that have not fainted and, if
\* it must be replaced, the active one, which it then knows to have fainted.
ChoosesAmongTheLiving ==
    phase = "choosing" =>
        /\ down <=> Active \in fainted
        /\ team[index] = Active
        /\ {team[i] : i \in 1 .. Len(team)} =
               ({order[n] : n \in 1 .. Size} \ fainted) \union {Active}

\* The number that send_selection sends brings in the Pokemon that the strategy
\* selected, one that has not fainted.
ChoiceIsObeyed ==
    [][wanted # NoPokemon /\ order' # order =>
           order'[1] = wanted /\ wanted \notin fainted]_vars

=============================================================================

# Technical Machine in TLA+

Technical Machine is a Pokémon AI: it searches battles with an expectimax, plays them on
Pokémon Showdown, and builds its knowledge of teams from logs of past battles. This
directory holds TLA+ models of the parts where the order of events decides whether the
program is right, TLC configurations that check them on small instances, and proofs for
all instances. Paths are relative to `src/source/tm/`.

## The system

| Component | State | Operations | What makes it correct |
|---|---|---|---|
| Locked-in moves (`pokemon/last_used_move.cpp`, `rampage.cpp`, `immobilize.cpp`, `uproar.cpp`, `blocks_selection_and_execution.cpp`) | last move, successes, moved this turn, one effect with a counter | a move succeeds or fails, flinch, switch, reset at the end of a turn | an effect always leaves a legal, usable action, ends on schedule, and no counter runs over |
| Turn of the search (`strategy/expectimax/expectimax_impl.cpp`) | two teams, who has moved, who must switch | selection, two actions, delayed switches, replacements, end of turn | each side acts once if it still can, and every turn ends |
| Showdown switches (`clients/pokemon_showdown/slot_memory.cpp`, `battle_message_handler_impl.cpp`, `send_selection.cpp`) | slot memory, team, pending action | switch, phaze, faint, replace, choose | the number sent is the Pokémon chosen |
| Battle messages (`battle_message_handler_impl.cpp`, `move_state_builder.cpp`, `event_block.cpp`) | pending action, end-of-turn builder, client battle | one handler for each message | the client's battle follows the server's |
| Battle lifecycle (`battles.cpp`, `battle_manager.cpp`, `client_message_handler.cpp`, `client.cpp`) | the set of battles, the state of each | log in, search and challenge, init, messages, request, refusal, end | one battle per room, each request answered once and by an answer meant for it |
| Pokémon on the field (`pokemon/active_pokemon.cpp`, `pokemon/active_status.cpp`) | HP, status, item, ability and some thirty flags and counters | one for each effect, switch in and out | nothing outlives the stay that it belongs to |
| End of turn, moves, side effects (`end_of_turn.cpp`, `move/`, `entry_hazards.cpp`, `team.cpp`) | two teams, hazards, wish, weather | steps of a battle, in a fixed order | the assertions of each step hold whatever came before it |
| Scoring, evaluation, transposition (`strategy/`, `evaluate/`) | a table shared by the threads of a search | store, look up | a hit is for this battle, at this depth or deeper |
| Parallel reading of logs (`ps_usage_stats/parallel_for_each.cpp`) | one bounded queue and one thread for each worker | push, pop, stop, join | each log is handled exactly once |
| Stats and spreads, EV optimizer (`stat/`, `pokemon/hidden_power.cpp`, `team_predictor/ev_optimizer/`) | a nature, IVs and EVs | work out stats from a spread and a spread from stats, pad, minimize | nothing is lost to rounding, the loop ends, no EV is wasted |
| Usage statistics, team prediction, web server, file readers | tables and files | sequential | arithmetic and formats |

The parts meet as follows. `ClientMessageHandler` receives the messages of a room and hands
blocks of them to that room's `BattleManager`. The manager's `BattleMessageHandler` turns
messages into actions of a `Battle`, whose two `Team`s hold the Pokémon and, for each
active one, a `LastUsedMove`. When the server requests a choice, `determine_selection`
copies both teams into a `State` and searches it: the evaluator plays turns on copies of
the state by the same `Team`, move and end-of-turn code. The selection goes back through
`SendSelection`, which translates a position in the team into the server's number with
`SlotMemory`. There is no shared mutable state between battles; threads appear in the
search (behind a table of locked cells) and in the reader of logs.

Hard behaviours: actions that change who acts next (delayed switches, phazing, flinching,
fainting of hazards), counters that several functions must end in time, client state that
is updated at two different messages, and the shutdown of the worker pool. `PROJECT.json`
lists them one by one with the line where each bites.

## Modules

### LastUsedMove, LockIn: locked-in moves

`LastUsedMove` translates the class of that name into operators on a record
(`move`, `successes`, `moved`, `effect`): one operator for each member function, with the
counter of each effect and the exceptions (`throws`). `LockIn` is the life of two Pokémon
that use them: each turn a Pokémon selects one of its legal moves
(`get_legal_selections.cpp`), executes it or fails to, flinches or switches, and
`reset_end_of_turn` runs. Accuracy, damage and chance are a choice of outcomes.

- `LockedInIsUsable`: an effect always leaves a regular move to go on with.
- `LockedMoveIsPaidOnce`: PP are paid when the move starts and never again.
- `LockKeepsItsMove`: no step keeps an effect and changes the move under it.
- `CountersFollowTurns`: rampages and trapping moves count each turn they are in force.
- `NeverThrows`: no counter is advanced too far.

Run `lock_in` is generation 3 with a rampage, a recharge, a charge, a Bide, a Protect and
Sleep Talk, which may call any of them. Two PP and successes counted up to two are enough:
an effect lasts at most five turns, its counter is the largest number in the model, and
two PP let a move run out while it is locked. Trapping moves, which exist in the first
generation only, are in run `turn` and, for every generation, in `LockInProofs`.
Nobody knows Uproar in the run: nothing in the source ends it, its counter throws at the
sixth turn, and the comment at `pokemon/uproar.cpp:20` wishes for an assertion.

### Turn, TurnProtocol, TurnProofs: one turn of the search

`TurnProtocol` is the abstract turn: the sides act in some order, each at most once,
fainted Pokémon are replaced, the turn ends. `Turn` follows `Evaluator` step by step; its
`phase` is the member function the search is in. `StartOfTurn` picks both selections;
`Executes` is `execute_action` with its outcomes (`ExecutesSwitch`, `BlockedByProtect`,
`UsesDamagingMove`, `UsesPhazingMove`, ...); `AfterAction` is the branch after it
(`DelayedSwitchEndsTurn`, `DelayedSwitchThenLastAction`, `ReplacesBeforeEndOfTurn`,
`GoesToEndOfTurn`, `SecondGoesOn`); then `EndOfTurn` and `ReplacesFainted`.

- `NothingFails`: no assertion or dereference of an empty optional fails.
- `EveryoneActs`: at the end of a turn every Pokémon that could act has acted.
- `OnlyWhoOwesActs`: nobody acts who has acted, flinched, fainted or come in this turn.
- `DelayedSwitchesHappen`: a turn never ends with the switch of a U-turn or Baton Pass still
  to be made, but in one case, which the property names: the last action, the one behind the
  delayed switch of the other side, goes straight to the end of the turn
  (`expectimax_impl.cpp:405`), and the switch that this action asks for is lost.
- `OneImmobilizesAtATime`: two sides never hold each other.
- `ImplementsProtocol`: every step is a step of `TurnProtocol` or a stutter.
- `TurnsEnd`: a turn leads to the next one or to the end of the battle.

`TurnsEnd` assumes weak fairness of `Next` only: the search is one sequential computation.
The generation is a variable that `Init` chooses, because the code branches on it: run
`turn` chooses among 1, 2, 3, 5 and 6. Replacements before the end of the turn exist in the
second, immobilizing moves in the first. Its moves are those whose kinds differ: Tackle, Wrap
and Hyper Beam in the first; Explosion and Spikes against Explosion, Protect, Roar and Baton
Pass in the second; Explosion, Protect and Roar against Explosion and Baton Pass in the third;
Tackle, Roar, Hyper Beam and for the foe U-turn in the fifth; in the sixth Tackle, U-turn and
for the AI Roar, for the foe Hyper Beam. Teams hold at most three (two in the first
generation): a third Pokémon is what tells a replacement that faints of hazards from one
that stays. Two disagreements have runs of their own and are kept out of the passing one:
`turn_protect` (a move stopped by Protect leaves its user "not moved", and the search then
dereferences an empty continuation, `expectimax_impl.cpp:554`) and `turn_ai_pivots` (after
the AI's delayed switch the foe's selected action is dropped, `:182`). Protect blocks by
target (`blocked_by_protect`, `move/call_move_impl.cpp:172`), status moves like Roar as well as
attacks; `Blockable` has the moves that it blocks. In `turn`, where one side knows Protect, the
other therefore knows only Explosion, which is blocked and faints its user, and moves that are
not aimed at the foe, such as Spikes and Baton Pass. The AI pivots in the sixth generation,
where `MayBeFaster` lets the foe alone be the faster one, so that it pivots second: after a
U-turn of the foe its own is the last action, and its switch is the one that is lost.

### ActivePokemon, Team, SideEffects, EndOfTurn, BattleRules, Battlefield, BattlefieldProofs: the rules

These modules follow the code that carries out a turn on a `State`. A world `w` is a value,
and each member function is an operator from worlds to worlds that also records, in
`w.failed`, an assertion that did not hold. `ActivePokemon` has the Pokémon on the field
and what the class remembers of them; `Team` the bench, entry hazards, Wish and switching
(`Team::switch_pokemon`, Baton Pass, `apply_entry_hazards`); `SideEffects` what each move
does besides its damage, one operator for each family of `side_effects_impl.cpp`; `EndOfTurn`
the effects of `end_of_turn.cpp` in the order of the generation; `BattleRules` the execution of
a move (`move/call_move.cpp`, `can_execute_move.cpp`) and the legal selections; `Battlefield` the
battle: phases `select`, `act`, `replace` and `over`, and the actions `Select`,
`ExecutesMove`, `ExecutesSwitch`, `DelayedSwitch`, `ReplacesBeforeEndOfTurn`, `EndsTurn`
and `ReplacesFainted`. Damage is a choice of amounts, a probability a choice of outcomes, and
the order of two actions of the same priority is open (speed is not modelled).

- `NothingFails`: no `BOUNDED_ASSERT` of the rules fails.
- `SleepClause`: no side has two Pokémon put to sleep, or frozen, by its foe.
- `ItemsAreNotCopied`: stealing, swapping, flinging, knocking off and consuming never give an
  item a further holder. Recycle gives it one, the user, and the code lets it bring back an
  item that was stolen: `steal_item` takes by `remove()` (`pokemon/active_pokemon.cpp:785`), which
  leaves the item to be recycled, so thief and victim then both hold it.
- `StatusStateStartsAnew`: what is remembered of a status (Toxic's counter, a Nightmare)
  starts afresh with each new status.
- `PerishSongIsFinal`: its count falls by one each turn, over Baton Pass too, to the end.
- `NothingOutlivesItsStay`: what belongs to a stay on the field is gone when the
  Pokémon has left it, and stays with the team only where the code passes it on.
- `FaintedStaysFainted`: nothing that heals, wakes or revives reaches a Pokémon that fainted
  before. Within its own move a user may be taken down by Destiny Bond (`active_pokemon.cpp:1048`)
  and drain HP after it (`absorb_effect`, `side_effects_impl.cpp:111`), as neither it nor
  `call_move` looks at the HP of the user.

Run `battlefield` plays fourteen battles of two against two. Each is a set of moves, items
and abilities that meet (`MCBattlefield`): perish songs, second actions, sleep, toxic, items,
seeds, first-generation rules, fainting, counters, charges, hazards, guards, clouds and thefts, in
generations 1 to 5 and 8, for 3 to 5 turns. Perish Song needs five (its count reaches the
fourth end of turn), the others as many as their longest effect needs to start,
be passed on or stolen, and end. HP goes to 16, so that a sixteenth, an eighth and a
quarter differ. The 98 moves, 20 items and 30 abilities are those for which the code has
a case of its own in these steps. `battlefield_spread` is generation 5 with a spread move
used against a Pokémon that has fainted of Spikes: the move goes on, and its damage
asserts a living target (`pokemon/active_pokemon.cpp:1034`). In the passing run spread moves
meet the fainted in generations 1 to 3 only. For the findings of `Turn`, only the foe has
Baton Pass and U-turn there, and Protect meets only Feint and moves it does not block.
In `thefts` Recycle brings back what a thief holds; nothing in the repository says whether
it should.

### SlotMemory, ShowdownSwitches: which number is which Pokémon

The server numbers a side's Pokémon by its own order, in which a switch swaps two places.
The client keeps `m_slot_memory` in that order, updates it when the switch message comes,
and its `Team` only when the pending action is performed. `SlotMemory` is the class;
`ShowdownSwitches` the server's order, the memory, the team, the pending action, and one
action for each message (`SwitchMessage`, `FoeSwitchMessage`, `MoveMessage`, `PhazeMessage`,
`ActiveFaints`, `UpkeepFaints`, `BlockEnds`) and each choice.

- `SlotsNameTheTeam`: with nothing pending, each position is mapped to its number.
- `NothingIsRefused`: `replace_fainted` never throws.
- `ChoosesAmongTheLiving`: when the AI chooses, its team is the living and the active one.
- `ChoiceIsObeyed`: the Pokémon that comes in is the one that was chosen.

The run has a team of five: a battle of any length is a path through its 78,720 states
since nothing is counted. Species Clause is assumed (`battle.cpp:194`), and that a request
follows the block it answers. The battle ends when all have fainted, so deadlock is not
checked.

### MoveStateBuilder, ShowdownBattle, ShowdownMatch, ShowdownMatchProofs: following a battle by its messages

The server tells a battle in blocks of messages. `handle_message` collects what it hears of
one action in `action_builder` and performs the action on the client's battle when the next
one begins or the block ends, so that the battle lags behind what has been told.
`MoveStateBuilder` is that class, one operator for each member function, an exception being
the field `threw`. `ShowdownBattle` has the client: `action`, `upkeep`
(`EndOfTurnStateBuilder`), `result`, the client's `battle` as far as it is visible (who is
out, who is left, who has fainted, moved or is switching half way, every status), and one
action for each kind of message (`MoveMessage`, `StatusClearMessage`, `HPMessage`, ...,
`BlockEnds`). HP is up or down: the client believes the HP it is told and verifies the
status. `ShowdownMatch` adds the server, which is not part of the repository: it decides an
event (`Hits`, `Recoils`, `DragsOut`, `Pivots`, `Recovers`, ...), changes `side`, and queues
the event's messages in the order that the handlers and
`clients/pokemon_showdown/test/battle_message_handler.cpp` expect, built as
`event_block.cpp` builds them from lines.

- `NothingThrows`: no message is out of place, and no status is a surprise.
- `BattleFollowsServer`: after each block the client's battle is the server's.
- `EndsEachTurnOnce`: of the blocks of a turn exactly one ends it (`is_end_of_turn`),
  whoever has fainted, pivoted or been replaced.
- `RevealsAreFiledRight`: an ability or item is recorded for the Pokémon that showed it,
  also while its switch is pending.

The runs have two Pokémon a side: one to come in when the other faints, is dragged out or
turns back. `MaxAfflicted` is a side's limit of Pokémon with a status, one, as the sleep and
freeze clauses of the server would have it for these two statuses; sleep, freeze and burn
stand for all, burn also for a paralysis that takes a turn. The end of a turn tells the HP of
those that it reaches, which may be none: what the client believes of HP is not always
corrected. Generations 1 and 5 take the two sides of each branch on the generation, except
the second and the third, whose residual effects come at other moments: for them the server is
not written. The server never lets a Pokémon recover and then flinch or hit itself in the same
action, and nobody binds its target or recharges.

A flinch, a sleep and the like are told as the action of whoever cannot move, and
`Battle::use_move` performs them as the move it is locked in to or as Struggle
(`battle.cpp:269`); `call_move` is to find out again why it cannot be executed. `Struggles`
says when it does not: Struggle is then really used, and `Frail` are the Pokémon that it
leaves without HP. Statuses are known to the client, and so is the flinch of Fake Out
(`Startling`), the one effect of that move: `MakesFlinch`, `Flinches`. Of a move with a chance
to make flinch `get_side_effect` (`to_used_move.cpp:52`) always takes the other branch, so
that the client's Pokémon has not flinched, uses Struggle, and may faint in the client's
battle and stand in the server's. This is an error of the code: with such a move
(`Flinching = {"headbutt"}`) TLC finds `NothingThrows` violated in generation 5, as the next
turn cannot start with a Pokémon without HP. It is listed as a hazard; the runs, and the
theorems by a hypothesis, leave these moves out (`Flinching = {}`).

`showdown_match` leaves out Fire moves that may burn; `showdown_thaw` knows one, and
shows that once it thaws its target the client performs it as a burn and throws
(`to_used_move.cpp:52`). A battle ends when a side has fainted, so deadlock is not checked;
nothing but the turn's end is counted, so the 1.1 million states are battles of any length.

### ShowdownClient, ShowdownSession: battles, requests and refusals

`ShowdownClient` has the handlers of the client: `ClientMessageHandler` (`LogsIn`, a private
message with a challenge in `HandlePM`, the timer, `HandleErrorMessage`), `Battles` and
`BattleManager` (`CreateBattle`, `HandleEvents`, `HandleFinish`, `HandleRequest`), each as an
action that also lists what it sends. `ShowdownSession` puts a server beside
it, which is not part of the repository and is modelled from the messages the handlers expect:
it opens rooms, sends requests and blocks, refuses a choice because the active Pokémon is
trapped or the move disabled by something hidden, times a player out, and reads what the client
sent. Messages in each direction arrive in order; the two directions cross freely. The
client reads one block at a time, as its loop does. The `/utm` that gives the team is sent
with the message before it; formats and the strategy are left out.

- `NothingThrows`: no message is for a room that is unknown, and no request is unexpected.
- `OneGameAtATime`: a client that ladders has at most one game, and looks for one otherwise.
- `ChoicesAreCurrent`: a choice under way is for the request it was worked out for.
- `RequestsAreAnswered`: each request is answered or ends with its battle, however many
  choices are refused.

The run has two rooms and two users (one whose challenges are accepted), three requests in
all, one block and one hidden reason at a time: enough for two battles at once whose
messages interleave, a refusal of each kind, and a time-out that crosses an answer.
`RequestsAreAnswered` assumes weak fairness of the two that read (`Reading`, `HearsClient`):
the client's loop reads whatever has come, and the server reads what it is sent. Nothing is
assumed of when the server starts or ends a battle. The rooms run out in the end, so
deadlock is not checked.

### Stats, HiddenPower, IVsAndEVs, EVOptimizer, Spreads: natures, IVs and EVs

`Stats` has the arithmetic of a stat and its inverse (`initial_stat.cpp`, `hp.cpp`,
`stat_to_ev.cpp`), `HiddenPower` which IVs give which Hidden Power, `IVsAndEVs` the search for a
spread with given stats (`calculate_ivs_and_evs.cpp`), `EVOptimizer` the parts of `ev_optimizer/`.
In `Spreads` two kinds of Pokémon meet them. The client's own is exported to the server
(`Exports`, `to_packed_format_impl.cpp`) and comes back in each request as stats, for which a
spread is made up again (`Receives`, `parsed_team_to_known_team.cpp`). A foe's that was seen gets a
default spread (`Estimates`, `team_predictor_impl.cpp`), and `optimize_evs` then pads and
minimizes it (`Pads`, `Minimizes`) until a round changes nothing.

- `EachGetsASpread`: the loop ends, no assertion fails, and some spread is found for each.
- `RoundTrip`: the spread that is exported and the one made up for the stats that come
  back have the stats and the Hidden Power of the Pokémon.
- `KeepsWhatMatters`: no step of the optimizer makes a Pokémon slower, weaker in an attack
  it uses, or less bulky against hits of either kind.
- `SpendsLeast`: what the optimizer puts together from attacks, defenses and Speed has the
  fewest EVs of all natures and spreads that keep what matters.

The run takes 197 Pokémon at levels 5, 50 and 100, generations 1, 2, 4 and 6, the two sides of
each branch on the generation; rounding differs most at a low level. Their species are at the
extremes: Shedinja with one HP, Blissey, Shuckle, Deoxys, Garchomp, and Tauros and Mewtwo with
combined special. The attacks that a foe has shown are any. Of the IVs that
differ by a multiple of four `WithEVs` keeps the highest, the one that the code's loops meet
first; everything else is searched as the code does. Each Pokémon is on its own, so a larger set would only add more of them. `EachGetsASpread`
assumes that the loop keeps running; it is one sequential computation. A Pokémon that has
its spread is done, so deadlock is not checked.

`HiddenPowerAssumption` keeps out two guesses of the code that fail. A seen Hidden Power is
taken to be the strongest of type Dark, which from the third generation on allows IVs below 30,
and `defensive.cpp:98` asserts that there are none; an own one is taken to have power 70, and a
weaker one may have stats for which no spread with that power is found.

### ForEach, ParallelForEach: the worker pool

`ForEach` promises that a callback is called exactly once for each input. `ParallelForEach`
is `parallel_for_each.cpp`: the caller deals inputs round-robin into bounded queues
and then, in the order of the members' destruction, asks each worker to stop and joins
it; a worker tests its token, takes all that is queued, waits, calls back, and looks at the
queue once more after the stop. `concurrent::blocking_queue` comes from a library and is
modelled from how it is used: `pop_all(token)` returns what is there, or nothing on a stop.

- `DealtInOrder`: a worker handles its inputs in the order they were dealt.
- `CalledOnceForEach`: the specification implements `ForEach`, liveness included.

Fairness is weak, for each thread: the operating system runs every thread that can run, and
a callback returns. The run has 3 threads, 10 inputs and queues of 2 (the code's is 1000):
queues fill, the dealer blocks, and every worker has more than one batch.

## Runs

| Run | Checks | Shows |
|---|---|---|
| `lock_in` | the properties of `LockIn` | the effects of generation 3, called by Sleep Talk too (1.04 million states) |
| `turn` | the properties of `Turn` | the three shapes of a turn, generations 1, 2, 3, 5 and 6 (121,509 states) |
| `turn_protect` | `NothingFails` is violated | Protect and the forced continuation (generation 4) |
| `turn_ai_pivots` | `EveryoneActs` is violated | the AI's delayed switch costs the foe its action (generation 5) |
| `battlefield` | the properties of `Battlefield` | fourteen battles keep the rules' assertions and promises (601,177 states) |
| `battlefield_spread` | `NothingFails` is violated | a spread move damages a Pokémon that has fainted |
| `showdown_switches` | the properties of `ShowdownSwitches` | slots, team and server agree |
| `showdown_match` | the properties of `ShowdownMatch` | the client follows whole battles (1,088,210 states) |
| `showdown_thaw` | `NothingThrows` is violated | a Fire move that thaws is taken for one that burns |
| `showdown_session` | the properties of `ShowdownSession` | battles, requests, refusals and time-outs that cross (928,899 states) |
| `spreads` | the properties of `Spreads` | 197 Pokémon keep their stats over an export and back, or get a minimal spread (929 states) |
| `parallel_for_each` | the properties of `ParallelForEach` | the pool implements a loop |

The types of `LockIn`, `ShowdownSwitches`, `ShowdownSession` and `ParallelForEach` are proved
and not run.

## Proofs

TLAPS proves the following for every value of the constants that satisfies the named
assumptions of each module.

- `LockInProofs`: `TypeCorrectness`, `LockUsability`, `Schedule`, `LockIdentity`,
  `LocksPayOnce` and `NoExceptions`. The invariant adds to the type of a record what each effect says of it:
  a charging, rampaging or trapping Pokémon has a regular move it has used with success,
  its counter is in step with the turn, and before its turn and after it the counter has
  different bounds. Without the last two the counter's bound is not inductive.
  `NoExceptions` assumes that no move is Uproar.
- `TurnProofs`: `TypeCorrectness`, `HoldsOneAtATime`, `ActionsAreOwed`,
  `EveryoneActsWhereTheAIPivotsSecond`, `DelayedSwitchesAreMade`, `NothingFailsWhereNothingIsBlocked`
  and `EveryStepIsOfTheProtocol` (the safety part of `ImplementsProtocol`), for every
  generation, teams of any size and any moves that satisfy the hypotheses. The invariant has
  three layers. `Inv` holds whatever the moves: the arguments of each member function, who
  has moved and who has fainted when it is called, and `Excused`, the reasons for which a
  side owes no action; `Outcome` sums up what executing an action can do. `DelayedSwitchesAreMade`
  needs no more. `SettledInv` adds what is true when the AI, where it knows a move that is
  followed by a switch, uses it after the foe's move (`AIPivotsSecond`), and `UnblockedInv`
  when no move whose user lives on, attack or status move, can meet Protect
  (`NothingIsBlocked`).
  These two hypotheses are what the runs `turn_ai_pivots` and `turn_protect` break; the run
  `turn` satisfies them. The third, `PivotsAreHarmlessAtFirst`, says that U-turn and
  Volt Switch are not there before generation 4.
- `ShowdownSwitchesProofs`: `SlotMemoryAgrees`, `SwitchesAreAccepted`, `ChoiceObeyed`,
  `LivingTeam`, `TypeCorrectness`, for a roster of any size. The invariant says what the
  memory holds while an action is pending: it is the image of the team *after* that
  action (`LivingHavePositions`, `NumbersAreDistinct`), a pending switch names a Pokémon of
  the bench (`ComingIsBenched`), and a faint is known before a switch replaces it
  (`FaintIsKnown`). `SlotsNameTheTeam` alone says nothing between two messages.
- `ParallelForEachProofs`: `TypeCorrectness`, `KeptInOrder` and `CallsOnceEach` (the safety
  part of the refinement), for any number of threads, inputs and queue size. The invariant
  is that what a worker has handled, holds and has queued is, in this order, what was
  dealt to it (`Rounds`), and that a worker that has ended left nothing (`EndsEmpty`).

- `ShowdownSessionProofs`: `TypeCorrectness`, `NeverThrows`, `ChoicesAnswerTheirRequest` and
  `PlaysOneGame`, for any rooms, users and bounds. The invariant speaks of the messages under way in each room:
  their order (`RoomOrder`: nothing before the room's first message, nothing after its last),
  that a battle the client knows has a request to answer when it is told to choose
  (`HasRequest`), and that at most one answer is under way, to the request that the room
  waits for, unless a time-out has already released it (`RoomAnswers`).
  `ChoicesAreCurrent` alone forgets what the client has not read yet. `PlaysOneGame` rests on
  `OnePlays`: the searches, challenges under way and open rooms of a client that looks for
  games are one in number, and a client that reads the end of a battle knows that battle.
- `SpreadsProofs`: `StatToEVAtLeastIsLeast`, `StatToEVFindsOne` and `HPToEVFindsOne`, for any base
  stat, level, nature and IV: the EVs found are enough, the fewest, and found if there are any.
  Rounding a quotient down and rounding it up are adjoint (`QuotientAtLeast`,
  `RoundUpAtMost`), so that each step of `initial_stat` is undone by one of `stat_to_ev`
  (`FourthsAreExact`). `RoundTrips` then holds for any team, given what a Pokémon of a team file
  is (`OwnedAssumption`) and that its Hidden Power has the power that is guessed
  (`HiddenPowerAssumption`): the spread returned is one of those that fit (`FirstIsOne`,
  `CalculateSplitFits`), and up to the second generation the EVs that one special stat takes
  leave the other as it is, because the original made both with the same ones (`SharedEVs`).
  That a spread is found at all, and the optimizer's choice, are model-checked.

- `ShowdownMatchProofs`: `Typed`, `NeverThrows`, `FollowsServer`, `EndsOnce` and `FiledRight`, for
  teams of any size, any `MaxAfflicted` and any generations but the second and the third, if no
  player knows a Fire move that may burn (`Thawing = {}`, which the run `showdown_match`
  satisfies and `showdown_thaw` does not) or a move that makes its target flinch only sometimes
  (`Flinching = {}`, see above). None of the five is inductive: while a block is
  being told, the client's battle is behind by the messages to come and by the pending
  action. The invariant (`MInv`) says so: the messages to come take the client, without an
  error, to a value that is settled with the server (`Runs`, `Settled`): the pending action,
  performed, gives the server's battle, and whose turn is done, who is half way through a
  U-turn and who has fainted agree with whom the server still lets act (`InTurn`), which is
  what `is_end_of_turn` has to find out. A message handled shortens the run; each event of the
  server tells a run that settles the client again.

- `BattlefieldProofs`: `Invariant`, `SleepClauseHolds`, `FaintedStays`, `ItemsStaySingle`,
  `SongIsFinal`, `NothingEverFails` and `TypeCorrect`, for teams of any size, any number of turns
  and any table of moves that satisfies the assumptions of `Battlefield`; `TypeCorrect` assumes in
  addition that no move is Uproar, whose counter nothing ends (`pokemon/uproar.cpp:20`, a hazard),
  and `NothingEverFails` that tables and teams are `Tabled`. Every operator of the five
  modules of rules has a lemma that says what it may do to a Pokémon: `Tame(P, v, x)` says that
  the world `x` is well formed if `v` is, that who is on the field and what is remembered of its
  last move stay, and that nobody is revived, given a limited status, given an item or hurt but
  those that `P` lists; `Goes` is the same where the last move or who is on the field may change.
  The relation is transitive, so a step of the battle is proved along the order of the calls in
  the code. `SleepClause` and `FaintedStaysFainted` are not inductive. A move that was drawn while
  it could put its target to sleep takes effect after berries, recoil and contact abilities:
  `DrawnFair` shows that nobody of the target's team has fallen asleep meanwhile. Within its move
  a user may be down and up again, so that who stood when it began counts as left until it is over
  (`Standing`, `Leads`), and one that drains HP is only known to have been standing because
  `toAct` never names the fainted. A user that has fainted would be kept at one HP if it counted
  as enduring; `InAct` says that who is still to act has done nothing, and that nobody that is
  down endures while someone acts. TLC found this invariant to hold in the fourteen battles of
  `MCBattlefield` before it was proved. `ItemsStaySingle` counts holders. An attack is cut into
  what comes before its effect, the effect, and what follows (`Trades`): before and after, and in
  every other step, nobody gets an item (`Keeps`, which `Tame` gives where `P` lists no one); the
  effect alone may be a theft or an exchange, which replace at most one holder by another
  (`Passes`), or Recycle, which adds its user. Items that are lost stay in the record of who lost
  them, so that this is a fact about the flags and the items of both sides together.
  `SongIsFinal` rests on a clause of `Tame` too: nothing but Perish Song itself and a switch
  touches the song, Perish Song starts it only where it is not heard yet, and a switch drops it
  unless it is Baton Pass. `SongLed` sums this up for the steps in which moves are executed or
  the fainted replaced, `SongsGoOn` says that the end of a turn advances it by one and takes down
  who is at the last count, and `Chosen` (a selection is there exactly while a turn is under way)
  tells the two apart. It assumes that the entries of `SideEffects` that set the counters of
  Embargo, Heal Block and Magnet Rise set no other (`EffectsAssumption`), and that `Nothing` is
  no move (`NothingAssumption`).
  `NothingEverFails` is about every `BOUNDED_ASSERT` of the rules at once, and each needs a fact of
  its own, which `Tidy`, a part of the invariant, collects. Who sleeps keeps nightmares and no
  count of Toxic where the two share their place (`Sound`). An effect of a move goes with the move
  that set it up, with at least one success, and nobody protects itself without having moved
  (`Fit`). Who is still to act selected what it is locked in to, and after whatever has happened
  since is locked in to just that or to nothing any more (`Intends`): nothing but its own move
  changes what a Pokémon is locked in to, except that the effect may end (`Recalls`, `Holds`); a
  selection is a move or a member of the team, and `ScenariosAssumption` says that no name is
  both. Nobody hits a Pokémon that has fainted, because until generation 3 nobody acts any more
  after somebody has fainted (`InAct`), and later on a move with one target is unsuccessful
  against it (`MoveIsUnsuccessful`). Neither holds of a move with damage for all that are there from generation 4 on, and this is the disagreement that the
  run `battlefield_spread` shows: `Tabled` leaves such moves out, and Uproar, and asks of a move
  with Hyper Beam's effect that it has a recharge. `TabledAssumption` in `MCBattlefield` makes TLC
  check that the fourteen battles of the run `battlefield` are of this kind.

Out of the prover's reach and left to TLC: liveness under fairness (`TurnsEnd`, the
liveness of `CalledOnceForEach`, `RequestsAreAnswered`), `ENABLED`, and facts that need
induction over data. Of `Battlefield`, `StatusStateStartsAnew` and `NothingOutlivesItsStay` are
model-checked only so far.

## Not modelled

- Damage formulas, the stats in battle, speed, accuracy and chance: an action chooses among the outcomes.
- Of the rules: items that act when their holder is hit, Truant and Slow Start, PP outside
  `LockIn`, screens, rooms and Gravity, damage remembered by Bide and Counter, Heatproof,
  Trace, Download, Wonder Guard, hitting oneself, Smelling Salts, the counters of
  sleep (waking is a choice), moves that call others (Sleep Talk is in `LockIn`), Binding Band,
  Belly Drum, Clangorous Soul, Haze, Psych Up, the type that Roost changes, the failures of
  healing in the first generation, and the sleep of Effect Spore.
- Scores and the evaluation: floating point, and no event depends on their values except the
  choice of a selection, which is free in the models. The transposition table is a hazard
  without a model: its hits change scores and nothing else that is modelled.
  Two disagreements met while reading it are listed as hazards and not run: its key holds
  neither the species and moves of a Pokémon nor a forced continuation
  (`expectimax_impl.cpp:317`), and the forced wins of the single matchups are counted as
  `max * ai - foe` where their comment derives `max * (ai - foe)` (`:708`).
- Data tables (species, base stats, base powers, types, names), the conversions between
  strings and enumerations, the readers and writers of team files and logs, the web server:
  over half of the source. A model of a table would be the table again, and a conversion is a
  pair of tables; there is no state and no order of events in them.

## Plan

1. `LastUsedMove`, `LockIn`, `LockInProofs` — done.
2. `Turn`, `TurnProtocol`, `TurnProofs` — done.
3. `SlotMemory`, `ShowdownSwitches`, `ShowdownSwitchesProofs` — done.
4. `ForEach`, `ParallelForEach`, `ParallelForEachProofs` — done.
5. `MoveStateBuilder`, `ShowdownBattle`, `ShowdownMatch`, `ShowdownMatchProofs` — done for all
   generations but the second and the third; left: those, Bide, Disable and partial trapping.
6. `ActivePokemon`, `Team`, `SideEffects`, `EndOfTurn`, `BattleRules`, `Battlefield`,
   `BattlefieldProofs` — done for the moves listed above; left: what "Not modelled" says of the
   rules, and theorems for the properties that are only model-checked.
7. `ShowdownClient`, `ShowdownSession`, `ShowdownSessionProofs` — done.
8. `Stats`, `HiddenPower`, `IVsAndEVs`, `EVOptimizer`, `Spreads`, `SpreadsProofs` — done; left:
   theorems about the optimizer's choice.
9. Left: `Transposition` (depth order, threads), Glicko and usage statistics as operators
   checked against reference definitions.

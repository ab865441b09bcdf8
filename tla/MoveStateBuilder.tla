-------------------------- MODULE MoveStateBuilder --------------------------
(***************************************************************************)
(* What the messages of a battle have told so far about one action:        *)
(* clients/pokemon_showdown/move_state_builder.cpp.  Each operator is a    *)
(* member function of the class; an exception is the field `threw`, and    *)
(* the first one stays, since nothing catches it.                          *)
(***************************************************************************)
CONSTANTS Phazing,           \* the moves that drag another Pokemon out
          DamagesSelf,       \* moves whose own damage message names the user
          ClearsTeamStatus,  \* moves that heal the user's team
          UsableAsleep,      \* moves that a sleeping Pokemon may use
          Rest

Parties == {"ai", "foe"}
Other(party) == CHOOSE p \in Parties : p # party

\* An optional HP or status that no message has told.
Untold == "untold"
Told == [hp |-> Untold, status |-> Untold]

NoResult == [result |-> "none"]
Hindrance(reason) == [result |-> reason]
VisibleMove(name, missed) ==
  [result |-> "used", selected |-> name, executed |-> name, miss |-> missed,
   damage |-> Untold, status |-> Untold, phazed |-> Untold, contact |-> Untold,
   flags |-> {}]

MakeBuilder(p) ==
  [party |-> p, move |-> NoResult, user |-> Told, other |-> Told,
   cured |-> FALSE, threw |-> FALSE]

Refuse(b) == [b EXCEPT !.threw = TRUE]
Unless(error, b, next) == IF error THEN Refuse(b) ELSE next

IsUsed(b) == b.move.result = "used"
ExecutedMove(b) == IF IsUsed(b) THEN b.move.executed ELSE Untold
PhazeIndex(b) == IF IsUsed(b) THEN b.move.phazed ELSE Untold
Executes(b, moves) == ExecutedMove(b) \in moves

\* Both overloads of set_expected: a later message replaces an earlier one.
SetExpectedHP(b, p, hp) ==
  IF p = b.party THEN [b EXCEPT !.user.hp = hp] ELSE [b EXCEPT !.other.hp = hp]
SetExpectedStatus(b, p, status) ==
  IF p = b.party THEN [b EXCEPT !.user.status = status]
                 ELSE [b EXCEPT !.other.status = status]
SetExpected(b, p, hp, status) ==
  SetExpectedHP(SetExpectedStatus(b, p, status), p, hp)

SetMoveState(b, state) ==
  Unless(b.move # NoResult, b, [b EXCEPT !.move = state])

\* A move that calls another is told twice: first what was selected.
UseMove(b, name, missed) ==
  CASE b.move.result = "none" -> [b EXCEPT !.move = VisibleMove(name, missed)]
    [] b.move.result = "still asleep" ->
         Unless(name \notin UsableAsleep, b, [b EXCEPT !.move = VisibleMove(name, missed)])
    [] IsUsed(b) ->
         Unless(b.move.executed # b.move.selected, b,
                [b EXCEPT !.move.executed = name, !.move.miss = missed])
    [] OTHER -> Refuse(b)

\* move_damaged_self throws unless the move says the same as the message.
SaysItDamagedSelf(b, damaged) == b.party = damaged
MoveDamagedSelfThrows(b, damaged) ==
  ~IsUsed(b) \/ (Executes(b, DamagesSelf) # SaysItDamagedSelf(b, damaged))

\* damage, damage_substitute, break_substitute: what the move did.
Damage(b, user, amount) ==
  Unless(user # b.party \/ ~IsUsed(b), b, [b EXCEPT !.move.damage = amount])

\* critical_hit, recoil and confuse.
SetUsedFlag(b, user, flag) ==
  Unless(user # b.party \/ ~IsUsed(b) \/ flag \in b.move.flags, b,
         [b EXCEPT !.move.flags = @ \cup {flag}])

\* In the first generation waking up is all that a Pokemon does in a turn.
Awaken(b, generation) ==
  LET woken == IF generation = 1 THEN SetMoveState(b, Hindrance("awakening")) ELSE b
  IN  Unless(b.cured, b, [woken EXCEPT !.user.status = "clear", !.cured = TRUE])
Thaw(b) ==
  Unless(b.cured, b, [b EXCEPT !.user.status = "clear", !.cured = TRUE])
StillAsleep(b) ==
  Unless(b.cured, b, SetMoveState(b, Hindrance("still asleep")))

PhazedIn(b, user, index) ==
  Unless(user # b.party \/ ~Executes(b, Phazing) \/ PhazeIndex(b) # Untold, b,
         [b EXCEPT !.move.phazed = index])

StatusFromMove(b, p, status) ==
  IF ~IsUsed(b) \/ b.move.status # Untold THEN Refuse(b)
  ELSE IF Executes(b, {Rest}) THEN
    Unless(p # b.party, b, SetExpectedStatus(b, p, status))
  ELSE IF Executes(b, Phazing) THEN
    Unless(p = b.party, b, SetExpectedStatus(b, p, status))
  ELSE IF Executes(b, ClearsTeamStatus) THEN
    Unless(p # b.party \/ status # "clear", b, SetExpectedStatus(b, p, status))
  ELSE
    Unless(p = b.party, b, [SetExpectedStatus(b, p, status) EXCEPT !.move.status = status])

\* A contact ability, the only kind of ability modelled, statuses the user.
StatusFromAbility(b, user, status) ==
  Unless(user # b.party \/ ~IsUsed(b) \/ b.move.status # Untold, b,
         [SetExpectedStatus(b, user, status) EXCEPT !.move.contact = status])

\* A builder without a move completes to nothing.
Completes(b) == b.move # NoResult
=============================================================================

---------------------------- MODULE LockInProofs ----------------------------
(***************************************************************************)
(* Theorems about LockIn, for every generation, set of moves and bound:    *)
(* its type, the usability of a lock, the schedule of its counters, and,   *)
(* where nobody knows Uproar, that nothing is ever thrown.                 *)
(***************************************************************************)
EXTENDS LockIn, TLAPS

-----------------------------------------------------------------------------
(* The inductive invariant.  Its first part is the class invariant of      *)
(* LastUsedMove, about a value; its second relates that value to the phase *)
(* of the turn it is in.                                                   *)

LockIsUsable(l) ==
  l.effect # "Empty" => l.move \in RegularMoves /\ l.successes >= 1

\* A counter never passes the value at which it throws.
CounterInRange(l) == l.turns <= MaxTurns(l.effect)

\* Only a move of kind "uproar" starts an uproar.
UproarIsKnown(l) ==
  l.effect = "UproarCounter" => \E m \in Move : KindOf[m] = "uproar"

ClassInv(l) ==
  l \in LastUsed /\ LockIsUsable(l) /\ CounterInRange(l) /\ UproarIsKnown(l)

RestTypeOK ==
  /\ pp \in [RegularMoves -> 0..MaxPP]
  /\ herb \in BOOLEAN
  /\ flinched \in BOOLEAN
  /\ alive \in BOOLEAN
  /\ phase \in {"select", "act", "acted"}
  /\ selected \in Move \cup {NoMove}
  /\ age \in 0..AgeBound
  /\ thrown \in BOOLEAN

\* Whoever is about to act is alive, has selected a move, and under an effect
\* it is the move it is locked in.
SelectionFollowsLock ==
  phase = "act" => /\ alive /\ selected \in Move
                   /\ lum.effect # "Empty" => selected = lum.move

\* An active Protect belongs to a Pokemon that has acted this turn.
ProtectsAfterActing == IsProtecting(lum) => phase = "acted"

\* The history variable counts the turns of the two effects with a schedule.
AgeFollowsTurns ==
  /\ lum.effect = "Empty" => age = 0
  /\ alive /\ lum.effect \in {"Rampage", "Immobilize"} => age = lum.turns + 1

LockInv ==
  /\ ClassInv(lum)
  /\ RestTypeOK
  /\ SelectionFollowsLock
  /\ ProtectsAfterActing
  /\ AgeFollowsTurns

NobodyKnowsUproar == \A m \in Move : KindOf[m] # "uproar"

-----------------------------------------------------------------------------
(* Lemmas on the operators of LastUsedMove *)

\* The limits of the counters are small numbers, and those that an end of turn
\* advances leave room for the first turn.
LEMMA MaxTurnsRange ==
  /\ \A e \in Effects : MaxTurns(e) \in 0..5
  /\ MaxTurns("Rampage") \in 3..4 /\ MaxTurns("Immobilize") = 5
  /\ MaxTurns("UproarCounter") = 5 /\ MaxTurns("Bide") \in 1..2
  BY DEF MaxTurns, Effects

\* A value without an effect satisfies the class invariant.
LEMMA NoEffectIsFine ==
  ASSUME NEW l \in LastUsed, l.effect = "Empty", l.turns = 0
  PROVE  ClassInv(l)
  BY DEF ClassInv, LockIsUsable, CounterInRange, UproarIsKnown, MaxTurns

\* Changing one field within its type keeps the type.
LEMMA OneField ==
  ASSUME NEW l \in LastUsed
  PROVE  /\ \A m \in Move \cup {NoMove} : [l EXCEPT !.move = m] \in LastUsed
         /\ \A b \in BOOLEAN : [l EXCEPT !.moved = b] \in LastUsed
         /\ \A e \in Effects : [l EXCEPT !.effect = e] \in LastUsed
  <1>1. \A m \in Move \cup {NoMove} : [l EXCEPT !.move = m] \in LastUsed
    BY DEF LastUsed
  <1>2. \A b \in BOOLEAN : [l EXCEPT !.moved = b] \in LastUsed
    BY DEF LastUsed
  <1>3. \A e \in Effects : [l EXCEPT !.effect = e] \in LastUsed
    BY DEF LastUsed
  <1> QED BY <1>1, <1>2, <1>3

\* Setting an effect restarts the counter and touches nothing else.
LEMMA WithEffectFields ==
  ASSUME NEW l \in LastUsed, NEW e \in Effects
  PROVE  /\ WithEffect(l, e) \in LastUsed
         /\ WithEffect(l, e).effect = e
         /\ WithEffect(l, e).turns = 0
         /\ WithEffect(l, e).move = l.move
         /\ WithEffect(l, e).successes = l.successes
  <1> DEFINE set == [l EXCEPT !.effect = e]
  <1>1. WithEffect(l, e) = [set EXCEPT !.turns = 0]
    BY DEF WithEffect
  <1>2. set \in LastUsed
    BY OneField
  <1> HIDE DEF set
  <1>3. WithEffect(l, e) \in LastUsed
    BY <1>1, <1>2 DEF LastUsed
  <1>4. /\ WithEffect(l, e).effect = e
        /\ WithEffect(l, e).turns = 0
        /\ WithEffect(l, e).move = l.move
        /\ WithEffect(l, e).successes = l.successes
    BY DEF WithEffect, LastUsed
  <1> QED BY <1>3, <1>4

\* Ending an effect, whichever it is, establishes the class invariant: the
\* common part of recharge, end_immobilize and break_protect.
LEMMA EffectEnds ==
  ASSUME NEW l \in LastUsed
  PROVE  /\ ClassInv(WithEffect(l, "Empty"))
         /\ WithEffect(l, "Empty") \in LastUsed
         /\ WithEffect(l, "Empty").effect = "Empty"
         /\ WithEffect(l, "Empty").turns = 0
         /\ WithEffect(l, "Empty").move = l.move
  <1>1. /\ WithEffect(l, "Empty") \in LastUsed
        /\ WithEffect(l, "Empty").effect = "Empty"
        /\ WithEffect(l, "Empty").turns = 0
        /\ WithEffect(l, "Empty").move = l.move
    BY WithEffectFields DEF Effects
  <1> QED BY <1>1, NoEffectIsFine

\* An unsuccessful move ends every effect.
LEMMA UnsuccessfulEnds ==
  ASSUME NEW l \in LastUsed
  PROVE  /\ ClassInv(Unsuccessful(l))
         /\ Unsuccessful(l) \in LastUsed
         /\ Unsuccessful(l).effect = "Empty"
         /\ Unsuccessful(l).turns = 0
  <1> DEFINE ended == WithEffect(l, "Empty")
             failed == [ended EXCEPT !.successes = 0]
  <1>1. ended \in LastUsed /\ ended.effect = "Empty" /\ ended.turns = 0
    BY EffectEnds
  <1> HIDE DEF ended
  <1>2. failed \in LastUsed
    BY <1>1, SuccessesAssumption DEF LastUsed
  <1>3. Unsuccessful(l) = [failed EXCEPT !.moved = TRUE]
    BY DEF Unsuccessful, ended
  <1> HIDE DEF failed
  <1>4. Unsuccessful(l) \in LastUsed
    BY <1>2, <1>3, OneField
  <1>5. Unsuccessful(l) = [ended EXCEPT !.successes = 0, !.moved = TRUE]
    BY DEF Unsuccessful, ended
  <1>6. Unsuccessful(l).effect = "Empty" /\ Unsuccessful(l).turns = 0
    BY <1>1, <1>5 DEF LastUsed
  <1> QED BY <1>4, <1>6, NoEffectIsFine

\* So does one that names the move.
LEMMA UnsuccessfulMoveEnds ==
  ASSUME NEW l \in LastUsed, NEW m \in Move
  PROVE  /\ ClassInv(UnsuccessfulMove(l, m))
         /\ UnsuccessfulMove(l, m).effect = "Empty"
         /\ UnsuccessfulMove(l, m).turns = 0
  <1> DEFINE failed == Unsuccessful(l)
  <1>1. failed \in LastUsed /\ failed.effect = "Empty" /\ failed.turns = 0
    BY UnsuccessfulEnds
  <1>2. UnsuccessfulMove(l, m) = [failed EXCEPT !.move = m]
    BY DEF UnsuccessfulMove
  <1> HIDE DEF failed
  <1>3. [failed EXCEPT !.move = m] \in LastUsed
    BY <1>1, OneField
  <1>4. [failed EXCEPT !.move = m].effect = "Empty" /\ [failed EXCEPT !.move = m].turns = 0
    BY <1>1 DEF LastUsed
  <1> QED BY <1>2, <1>3, <1>4, NoEffectIsFine

\* A switch leaves no effect behind.
LEMMA UseSwitchEnds ==
  ASSUME NEW l \in LastUsed, NEW replacing \in BOOLEAN
  PROVE  /\ ClassInv(UseSwitch(l, replacing))
         /\ UseSwitch(l, replacing).effect = "Empty"
         /\ UseSwitch(l, replacing).turns = 0
  <1> DEFINE ended == WithEffect(l, "Empty")
             moved == IF replacing THEN l.moved ELSE TRUE
  <1>1. ended \in LastUsed /\ ended.effect = "Empty" /\ ended.turns = 0
    BY EffectEnds
  <1>2. moved \in BOOLEAN
    BY DEF LastUsed
  <1>3. /\ UseSwitch(l, replacing) = [[ended EXCEPT !.move = NoMove] EXCEPT !.moved = moved]
        /\ UseSwitch(l, replacing) = [ended EXCEPT !.move = NoMove, !.moved = moved]
    BY DEF UseSwitch
  <1> HIDE DEF ended, moved
  <1>4. [ended EXCEPT !.move = NoMove] \in LastUsed
    BY <1>1, OneField
  <1>5. UseSwitch(l, replacing) \in LastUsed
    BY <1>2, <1>3, <1>4, OneField
  <1>6. UseSwitch(l, replacing).effect = "Empty" /\ UseSwitch(l, replacing).turns = 0
    BY <1>1, <1>3 DEF LastUsed
  <1> QED BY <1>5, <1>6, NoEffectIsFine

\* recharge() ends a recharge and nothing else.
LEMMA RechargeEnds ==
  ASSUME NEW l, ClassInv(l)
  PROVE  /\ ClassInv(Recharge(l))
         /\ Recharge(l) = l \/ Recharge(l).effect = "Empty"
  BY EffectEnds DEF Recharge, ClassInv

\* break_protect() ends a Protect and nothing else.
LEMMA BreakProtectEnds ==
  ASSUME NEW l, ClassInv(l)
  PROVE  /\ ClassInv(BreakProtect(l))
         /\ ~IsProtecting(BreakProtect(l))
         /\ BreakProtect(l) = l \/ BreakProtect(l).effect = "Empty"
         /\ BreakProtect(l).move = l.move
  BY EffectEnds DEF BreakProtect, ClassInv, IsProtecting

-----------------------------------------------------------------------------
(* successful_move *)

\* A move that is no regular move sets up no effect, and only an uproar an
\* uproar.
LEMMA EffectOfMoveKinds ==
  ASSUME NEW m \in Move, NEW h \in BOOLEAN, NEW sun \in BOOLEAN
  PROVE  /\ EffectOfMove(m, h, sun) \in Effects
         /\ KindOf[m] = "other" => EffectOfMove(m, h, sun) = "Empty"
         /\ EffectOfMove(m, h, sun) = "UproarCounter" => KindOf[m] = "uproar"
  <1> DEFINE kind == KindOf[m]
  <1>1. kind \in Kinds
    BY MoveAssumption
  <1> QED BY <1>1 DEF EffectOfMove, Effects, Kinds

\* What a successful move leaves in place, when it does not throw.
LEMMA AfterEffectFields ==
  ASSUME NEW l, ClassInv(l), NEW first \in Move, NEW last \in Move,
         NEW ends \in BOOLEAN, NEW h \in BOOLEAN, NEW sun \in BOOLEAN,
         ~SuccessfulMoveThrows(l, first, ends)
  PROVE  LET after == AfterEffect(l, last, ends, h, sun)
         IN  /\ after \in LastUsed
             /\ after.turns <= MaxTurns(after.effect)
             /\ after.effect = l.effect \/ after.turns = 0
             /\ l.effect = "Empty" => after.effect = EffectOfMove(last, h, sun)
             /\ l.effect # "Empty" => after.effect \in {l.effect, "Empty"}
             /\ l.effect \in {"Rampage", "Immobilize"} => after = l
  <1> DEFINE after == AfterEffect(l, last, ends, h, sun)
  <1>1. l \in LastUsed /\ l.effect \in Effects /\ l.turns \in 0..5 /\ l.turns <= MaxTurns(l.effect)
    BY DEF ClassInv, CounterInRange, LastUsed
  <1>2. CASE l.effect = "Empty"
    <2>1. after = WithEffect(l, EffectOfMove(last, h, sun))
      BY <1>2 DEF AfterEffect
    <2>2. EffectOfMove(last, h, sun) \in Effects
      BY EffectOfMoveKinds
    <2>3. /\ after \in LastUsed /\ after.turns = 0
          /\ after.effect = EffectOfMove(last, h, sun)
      BY <1>1, <2>1, <2>2, WithEffectFields
    <2> QED BY <1>2, <2>2, <2>3, MaxTurnsRange
  <1>3. CASE l.effect = "Bide" /\ ~ends
    <2>1. after = [l EXCEPT !.turns = l.turns + 1]
      BY <1>3 DEF AfterEffect
    <2>2. l.turns # MaxTurns("Bide")
      BY <1>3 DEF SuccessfulMoveThrows
    <2>3. l.turns + 1 \in 0..5 /\ l.turns + 1 <= MaxTurns("Bide")
      BY <1>1, <1>3, <2>2, MaxTurnsRange
    <2>4. after \in LastUsed
      BY <1>1, <2>1, <2>3 DEF LastUsed
    <2>5. after.turns = l.turns + 1 /\ after.effect = l.effect
      BY <1>1, <2>1 DEF LastUsed
    <2> QED BY <1>3, <2>3, <2>4, <2>5
  <1>4. CASE l.effect \in {"ChargingUp", "Vanishing"} \/ (l.effect = "Bide" /\ ends)
    <2>1. after = WithEffect(l, "Empty")
      BY <1>4 DEF AfterEffect
    <2>2. after \in LastUsed /\ after.effect = "Empty" /\ after.turns = 0
      BY <1>1, <2>1, EffectEnds
    <2> QED BY <1>4, <2>2, MaxTurnsRange DEF Effects
  <1>5. CASE l.effect \notin {"Empty", "Bide", "ChargingUp", "Vanishing"}
    <2>1. after = l
      BY <1>5 DEF AfterEffect
    <2> QED BY <1>1, <1>5, <2>1
  <1> QED BY <1>2, <1>3, <1>4, <1>5

\* Executing a move, or the move it calls, keeps the class invariant if it is
\* the locked-in move; a lock is on the move that was selected, and an effect
\* that was not there starts at 0.
LEMMA SuccessfulMoveKeeps ==
  ASSUME NEW l, ClassInv(l), NEW first \in Move, NEW last \in Move,
         NEW ends \in BOOLEAN, NEW h \in BOOLEAN, NEW sun \in BOOLEAN,
         ~SuccessfulMoveThrows(l, first, ends),
         l.effect # "Empty" => first = l.move,
         first = Struggle => last = Struggle
  PROVE  LET s == SuccessfulMove(l, first, last, ends, h, sun)
         IN  /\ ClassInv(s)
             /\ s.effect \in {"Rampage", "Immobilize"} =>
                  \/ s.effect = l.effect /\ s.turns = l.turns
                  \/ l.effect = "Empty" /\ s.turns = 0
             /\ s.move = first
  <1> DEFINE after == AfterEffect(l, last, ends, h, sun)
             n == IF l.move # first THEN 1
                  ELSE IF l.successes < MaxSuccesses THEN l.successes + 1
                  ELSE MaxSuccesses
             s == [after EXCEPT !.move = first, !.moved = TRUE, !.successes = n]
  <1>1. SuccessfulMove(l, first, last, ends, h, sun) = s
    BY DEF SuccessfulMove
  <1>2. /\ after \in LastUsed
        /\ after.turns <= MaxTurns(after.effect)
        /\ after.effect = l.effect \/ after.turns = 0
        /\ l.effect = "Empty" => after.effect = EffectOfMove(last, h, sun)
        /\ l.effect # "Empty" => after.effect \in {l.effect, "Empty"}
        /\ l.effect \in {"Rampage", "Immobilize"} => after = l
    BY AfterEffectFields
  <1>3. n \in 1..MaxSuccesses
    BY SuccessesAssumption DEF ClassInv, LastUsed
  <1> HIDE DEF after, n
  <1>4. s \in LastUsed
    <2> DEFINE moved == [after EXCEPT !.move = first]
               marked == [moved EXCEPT !.moved = TRUE]
    <2>1. moved \in LastUsed
      BY <1>2, OneField
    <2>2. s = [marked EXCEPT !.successes = n]
      OBVIOUS
    <2> HIDE DEF moved
    <2>3. marked \in LastUsed
      BY <2>1, OneField
    <2> HIDE DEF marked, s
    <2> QED BY <1>3, <2>2, <2>3, SuccessesAssumption DEF LastUsed
  <1>5. s.effect = after.effect /\ s.turns = after.turns /\ s.move = first /\ s.successes = n
    BY <1>2 DEF LastUsed
  <1> HIDE DEF s
  <1>6. LockIsUsable(s)
    <2> SUFFICES ASSUME s.effect # "Empty" PROVE first \in RegularMoves /\ n >= 1
      BY <1>5 DEF LockIsUsable
    <2>1. CASE l.effect = "Empty"
      <3>1. EffectOfMove(last, h, sun) # "Empty"
        BY <1>2, <1>5, <2>1
      <3>2. last # Struggle
        BY <3>1, EffectOfMoveKinds, StruggleAssumption
      <3> QED BY <1>3, <3>2 DEF RegularMoves
    <2>2. CASE l.effect # "Empty"
      BY <1>3, <2>2 DEF ClassInv, LockIsUsable
    <2> QED BY <2>1, <2>2
  <1>7. CounterInRange(s)
    BY <1>2, <1>5 DEF CounterInRange
  <1>8. UproarIsKnown(s)
    BY <1>2, <1>5, EffectOfMoveKinds DEF UproarIsKnown, ClassInv
  <1>9. ClassInv(s)
    BY <1>4, <1>6, <1>7, <1>8 DEF ClassInv
  <1>10. s.effect \in {"Rampage", "Immobilize"} =>
            \/ s.effect = l.effect /\ s.turns = l.turns
            \/ l.effect = "Empty" /\ s.turns = 0
    BY <1>2, <1>5
  <1> QED BY <1>1, <1>5, <1>9, <1>10

-----------------------------------------------------------------------------
(* The end of a turn *)

\* A rampage and a trapping move end before their counter would throw.
LEMMA ScheduledEndsInTime ==
  ASSUME NEW l, ClassInv(l), l.effect \in {"Rampage", "Immobilize"},
         NEW ending \in LockInEnds(l)
  PROVE  ~AdvanceLockInThrows(l, ending)
  <1> SUFFICES ASSUME l.turns = MaxTurns(l.effect) PROVE ending
    BY DEF AdvanceLockInThrows
  <1>1. l.turns \in 0..5
    BY DEF ClassInv, LastUsed
  <1>2. LockInEnds(l) = {TRUE}
    <2>1. CASE l.effect = "Immobilize"
      <3>1. LockInEnds(l) = FlagBranches(l.turns, 2, l.turns)
        BY <2>1 DEF LockInEnds
      <3>2. ~(l.turns < 2) /\ ~(l.turns < l.turns)
        BY <1>1, <2>1, MaxTurnsRange
      <3> QED BY <3>1, <3>2, Zenon DEF FlagBranches
    <2>2. CASE l.effect = "Rampage"
      <3>1. LockInEnds(l) = FlagBranches(l.turns, l.turns - 1, l.turns)
        BY <2>2 DEF LockInEnds
      <3>2. ~(l.turns < l.turns - 1) /\ ~(l.turns < l.turns)
        BY <1>1
      <3> QED BY <3>1, <3>2, Zenon DEF FlagBranches
    <2> QED BY <2>1, <2>2
  <1>3. ending \in {TRUE}
    BY <1>2
  <1> QED BY <1>3

LEMMA EndsAreFlags ==
  ASSUME NEW l
  PROVE  LockInEnds(l) \subseteq BOOLEAN /\ ActionEnds(l) \subseteq BOOLEAN
  BY DEF LockInEnds, ActionEnds, FlagBranches

\* advance_lock_in, when it does not throw, ends the effect or counts the turn.
LEMMA AdvanceKeeps ==
  ASSUME NEW l, ClassInv(l), NEW ending \in BOOLEAN,
         ~AdvanceLockInThrows(l, ending)
  PROVE  LET a == AdvanceLockIn(l, ending)
         IN  /\ ClassInv(a)
             /\ a.effect \in {l.effect, "Empty"}
             /\ a.effect \in {"Rampage", "Immobilize"} => a.turns = l.turns + 1
             /\ a.move = l.move
  <1> DEFINE a == AdvanceLockIn(l, ending)
  <1>1. l \in LastUsed /\ l.turns \in 0..5 /\ l.turns <= MaxTurns(l.effect) /\ l.effect \in Effects
    BY DEF ClassInv, CounterInRange, LastUsed
  <1>2. CASE l.effect \notin CountedAtEndOfTurn
    BY <1>2 DEF AdvanceLockIn, CountedAtEndOfTurn
  <1>3. CASE l.effect \in CountedAtEndOfTurn /\ ending
    BY <1>1, <1>3, EffectEnds DEF AdvanceLockIn
  <1>4. CASE l.effect \in CountedAtEndOfTurn /\ ~ending
    <2>1. a = [l EXCEPT !.turns = l.turns + 1]
      BY <1>4 DEF AdvanceLockIn
    <2>2. l.turns + 1 \in 0..5 /\ l.turns + 1 <= MaxTurns(l.effect)
      BY <1>1, <1>4, MaxTurnsRange DEF AdvanceLockInThrows
    <2>3. a \in LastUsed
      BY <1>1, <2>1, <2>2 DEF LastUsed
    <2>4. /\ a.turns = l.turns + 1 /\ a.effect = l.effect
          /\ a.move = l.move /\ a.successes = l.successes
      BY <1>1, <2>1 DEF LastUsed
    <2> HIDE DEF a
    <2>5. LockIsUsable(a) /\ CounterInRange(a) /\ UproarIsKnown(a)
      BY <2>2, <2>4 DEF LockIsUsable, CounterInRange, UproarIsKnown, ClassInv
    <2>6. ClassInv(a)
      BY <2>3, <2>5 DEF ClassInv
    <2> QED BY <1>4, <2>4, <2>6 DEF a
  <1> QED BY <1>2, <1>3, <1>4

\* reset_end_of_turn ends a Protect and no other effect.
LEMMA ResetKeeps ==
  ASSUME NEW l, ClassInv(l)
  PROVE  LET r == ResetEndOfTurn(l)
         IN  /\ ClassInv(r)
             /\ ~IsProtecting(r)
             /\ r.effect \in {l.effect, "Empty"}
             /\ r.effect \in {"Rampage", "Immobilize"} => r.turns = l.turns
             /\ r.move = l.move
  <1> DEFINE b == BreakProtect(l)
             r == [b EXCEPT !.moved = FALSE]
  <1>1. /\ ClassInv(b) /\ ~IsProtecting(b)
        /\ b = l \/ b.effect = "Empty"
        /\ b.move = l.move
    BY BreakProtectEnds
  <1>2. ResetEndOfTurn(l) = r
    BY DEF ResetEndOfTurn
  <1> HIDE DEF b
  <1>3. b \in LastUsed /\ r \in LastUsed
    BY <1>1, OneField DEF ClassInv
  <1>4. /\ r.effect = b.effect /\ r.turns = b.turns /\ r.move = b.move
        /\ r.successes = b.successes
    BY <1>3 DEF LastUsed
  <1> HIDE DEF r
  <1>5. ClassInv(r) /\ ~IsProtecting(r)
    BY <1>1, <1>3, <1>4
    DEF ClassInv, LockIsUsable, CounterInRange, UproarIsKnown, IsProtecting
  <1> QED BY <1>1, <1>2, <1>4, <1>5

-----------------------------------------------------------------------------
(* The invariant is inductive *)

LEMMA InitHasInv == Init => LockInv
  <1> SUFFICES ASSUME Init PROVE LockInv
    OBVIOUS
  <1>1. lum = Initial
    BY DEF Init
  <1>2. Initial \in LastUsed /\ Initial.effect = "Empty" /\ Initial.turns = 0
    BY SuccessesAssumption DEF Initial, LastUsed, Effects
  <1>3. ClassInv(lum) /\ lum.effect = "Empty"
    BY <1>1, <1>2, NoEffectIsFine
  <1>4. pp \in [RegularMoves -> 0..MaxPP]
    BY PPAssumption DEF Init, FullPP
  <1>5. RestTypeOK
    <2>1. age \in 0..AgeBound
      BY DEF Init, AgeBound
    <2> QED BY <1>4, <2>1, Zenon DEF Init, RestTypeOK
  <1> QED
    BY <1>3, <1>5
    DEF Init, LockInv, SelectionFollowsLock, ProtectsAfterActing, AgeFollowsTurns, IsProtecting

\* A state in which nothing is in force only has to have its type, and a
\* selection if it is to act.
LEMMA FreeOfEffects ==
  ASSUME ClassInv(lum'), lum'.effect = "Empty", RestTypeOK', age' = 0,
         phase' = "act" => alive' /\ selected' \in Move
  PROVE  LockInv'
  BY DEF LockInv, SelectionFollowsLock, ProtectsAfterActing, AgeFollowsTurns, IsProtecting

\* PP stays within its range, whatever a move costs.
LEMMA PayPPType ==
  ASSUME RestTypeOK, PayPP
  PROVE  pp' \in [RegularMoves -> 0..MaxPP]
  <1>1. pp \in [RegularMoves -> 0..MaxPP] /\ \A m \in RegularMoves : pp[m] \in 0..MaxPP
    BY DEF RestTypeOK
  <1>2. CASE UNCHANGED pp
    BY <1>1, <1>2
  <1>3. CASE \E cost \in {1, 2} :
               pp' = [pp EXCEPT ![selected] = IF @ > cost THEN @ - cost ELSE 0]
    <2>1. PICK cost \in {1, 2} :
            pp' = [pp EXCEPT ![selected] = IF @ > cost THEN @ - cost ELSE 0]
      BY <1>3
    <2>2. \A m \in RegularMoves :
            (IF pp[m] > cost THEN pp[m] - cost ELSE 0) \in 0..MaxPP
      BY <1>1, <2>1, PPAssumption
    <2> QED BY <1>1, <2>1, <2>2
  <1> QED BY <1>2, <1>3 DEF PayPP

\* What is left to show of an action of the user once its LastUsedMove is known.
LEMMA ActKeeps ==
  ASSUME LockInv, Acting, NEW new, Act(new), ClassInv(new),
         pp' \in [RegularMoves -> 0..MaxPP], herb' \in BOOLEAN, thrown' \in BOOLEAN,
         new.effect \in {"Rampage", "Immobilize"} =>
           \/ new.effect = lum.effect /\ new.turns = lum.turns
           \/ lum.effect = "Empty" /\ new.turns = 0
  PROVE  LockInv'
  <1>1. lum' = new /\ phase' = "acted" /\ UNCHANGED <<flinched, alive, selected>>
        /\ age' = IF new.effect = "Empty" THEN 0 ELSE IF age = 0 THEN 1 ELSE age
    BY DEF Act
  <1>2. RestTypeOK'
    BY <1>1 DEF LockInv, RestTypeOK, AgeBound
  <1>3. AgeFollowsTurns'
    BY <1>1 DEF LockInv, AgeFollowsTurns, ClassInv, LastUsed, Acting
  <1> QED
    BY <1>1, <1>2, <1>3
    DEF LockInv, SelectionFollowsLock, ProtectsAfterActing

\* The actions in which the user's move fails.
LEMMA FailureKeeps ==
  ASSUME LockInv, Acting, NEW executed \in Move, NEW l, ClassInv(l),
         Act(UnsuccessfulMove(l, executed)),
         pp' \in [RegularMoves -> 0..MaxPP], herb' \in BOOLEAN, thrown' \in BOOLEAN
  PROVE  LockInv'
  <1>1. /\ ClassInv(UnsuccessfulMove(l, executed))
        /\ UnsuccessfulMove(l, executed).effect = "Empty"
    BY UnsuccessfulMoveEnds DEF ClassInv
  <1> QED BY <1>1, ActKeeps

LEMMA ExecutedMoves ==
  ASSUME LockInv, Acting
  PROVE  /\ selected \in Move
         /\ PossibleExecuted(selected) \subseteq Move
         /\ selected = Struggle => PossibleExecuted(selected) = {Struggle}
         /\ lum.effect # "Empty" => selected = lum.move
  BY SleepTalkAssumption
  DEF LockInv, SelectionFollowsLock, Acting, PossibleExecuted

LEMMA SucceedsKeeps ==
  ASSUME LockInv, NEW executed \in Move, NEW ends \in BOOLEAN,
         NEW sun \in BOOLEAN, NEW immune \in BOOLEAN,
         Succeeds(executed, ends, sun, immune)
  PROVE  LockInv'
  <1> DEFINE after == SuccessfulMove(lum, selected, executed, ends, herb, sun)
             new == IF immune THEN Recharge(after) ELSE after
  <1>1. Acting /\ PayPP /\ executed \in PossibleExecuted(selected) /\ RestTypeOK /\ ClassInv(lum)
    BY DEF Succeeds, Executes, LockInv
  <1>2. pp' \in [RegularMoves -> 0..MaxPP]
    BY <1>1, PayPPType
  <1>3. herb \in BOOLEAN /\ thrown \in BOOLEAN
    BY <1>1 DEF RestTypeOK
  <1>4. CASE SuccessfulMoveThrows(lum, selected, ends)
    <2>1. Act(lum) /\ thrown' = TRUE /\ herb' = herb
      BY <1>4 DEF Succeeds
    <2> QED BY <1>1, <1>2, <1>3, <2>1, ActKeeps
  <1>5. CASE ~SuccessfulMoveThrows(lum, selected, ends)
    <2>1. /\ Act(new) /\ thrown' = thrown
          /\ herb' = (herb /\ ~ConsumesItem(lum, executed, herb, sun))
      BY <1>5 DEF Succeeds
    <2>2. /\ ClassInv(after)
          /\ after.effect \in {"Rampage", "Immobilize"} =>
               \/ after.effect = lum.effect /\ after.turns = lum.turns
               \/ lum.effect = "Empty" /\ after.turns = 0
      <3>1. selected \in Move /\ (lum.effect # "Empty" => selected = lum.move)
            /\ (selected = Struggle => executed = Struggle)
        BY <1>1, ExecutedMoves
      <3> QED BY <1>1, <1>3, <1>5, <3>1, SuccessfulMoveKeeps
    <2> HIDE DEF after
    <2>3. /\ ClassInv(new)
          /\ new = after \/ new.effect = "Empty"
      BY <2>2, RechargeEnds
    <2>4. herb' \in BOOLEAN /\ thrown' \in BOOLEAN
      BY <1>3, <2>1
    <2> HIDE DEF new
    <2>5. new.effect \in {"Rampage", "Immobilize"} =>
            \/ new.effect = lum.effect /\ new.turns = lum.turns
            \/ lum.effect = "Empty" /\ new.turns = 0
      BY <2>2, <2>3
    <2> QED BY <1>1, <1>2, <2>1, <2>3, <2>4, <2>5, ActKeeps
  <1> QED BY <1>4, <1>5

\* Another Pokemon comes in with no effect.
LEMMA ComesInKeeps ==
  ASSUME LockInv, NEW replacing \in BOOLEAN, ComesIn(replacing),
         phase' \in {"select", "acted"}
  PROVE  LockInv'
  <1>1. ClassInv(lum') /\ lum'.effect = "Empty"
    BY UseSwitchEnds DEF ComesIn, LockInv, ClassInv
  <1>2. pp' \in [RegularMoves -> 0..MaxPP]
    BY PPAssumption DEF ComesIn, FullPP
  <1>3. /\ age' \in 0..AgeBound /\ age' = 0
        /\ selected' \in Move \cup {NoMove}
        /\ phase' \in {"select", "act", "acted"} /\ phase' # "act"
    BY DEF ComesIn, AgeBound
  <1>4. herb' \in BOOLEAN /\ flinched' \in BOOLEAN /\ alive' \in BOOLEAN /\ thrown' \in BOOLEAN
    BY Zenon DEF ComesIn, LockInv, RestTypeOK
  <1>5. RestTypeOK'
    BY <1>2, <1>3, <1>4 DEF RestTypeOK
  <1> QED BY <1>1, <1>3, <1>5, FreeOfEffects

\* The end of a turn counts it, ends what is due and leaves nothing protected.
LEMMA EndOfTurnKeeps ==
  ASSUME LockInv, NEW ending \in BOOLEAN, EndOfTurn(ending)
  PROVE  LockInv'
  <1> DEFINE advances == alive \/ Generation <= 2
             advanced == IF advances THEN AdvanceLockIn(lum, ending) ELSE lum
             throws == advances /\ AdvanceLockInThrows(lum, ending)
             after == ResetEndOfTurn(advanced)
  <1>1. ClassInv(lum) /\ RestTypeOK
    BY DEF LockInv
  <1>2. /\ ending \in LockInEnds(lum)
        /\ thrown' = throws
        /\ lum' = IF throws THEN lum ELSE after
        /\ age' = IF lum'.effect = "Empty" THEN 0
                  ELSE IF age < AgeBound THEN age + 1 ELSE AgeBound
        /\ phase' = "select" /\ selected' = NoMove /\ flinched' = FALSE
        /\ pp' = pp /\ herb' = herb /\ alive' = alive
    BY DEF EndOfTurn
  <1>3. throws => lum.effect = "UproarCounter"
    <2> SUFFICES ASSUME throws PROVE lum.effect = "UproarCounter"
      OBVIOUS
    <2>1. lum.effect \in CountedAtEndOfTurn /\ AdvanceLockInThrows(lum, ending)
      BY DEF AdvanceLockInThrows
    <2> QED BY <1>1, <1>2, <2>1, ScheduledEndsInTime DEF CountedAtEndOfTurn
  <1>4. ~throws => /\ ClassInv(advanced)
                   /\ advanced.effect \in {lum.effect, "Empty"}
                   /\ alive /\ advanced.effect \in {"Rampage", "Immobilize"}
                        => advanced.turns = lum.turns + 1
    <2> SUFFICES ASSUME ~throws
                 PROVE  /\ ClassInv(advanced)
                        /\ advanced.effect \in {lum.effect, "Empty"}
                        /\ alive /\ advanced.effect \in {"Rampage", "Immobilize"}
                             => advanced.turns = lum.turns + 1
      OBVIOUS
    <2>1. CASE advances
      BY <1>1, <2>1, AdvanceKeeps
    <2>2. CASE ~advances
      BY <1>1, <2>2
    <2> QED BY <2>1, <2>2
  <1> HIDE DEF advanced, throws
  <1>5. ~throws => /\ ClassInv(after)
                   /\ ~IsProtecting(after)
                   /\ after.effect \in {lum.effect, "Empty"}
                   /\ alive /\ after.effect \in {"Rampage", "Immobilize"}
                        => after.turns = lum.turns + 1
    BY <1>4, ResetKeeps
  <1> HIDE DEF after
  <1>6. /\ ClassInv(lum') /\ ~IsProtecting(lum')
        /\ lum'.effect \in {lum.effect, "Empty"}
        /\ alive /\ lum'.effect \in {"Rampage", "Immobilize"} => lum'.turns = lum.turns + 1
    BY <1>1, <1>2, <1>3, <1>5 DEF IsProtecting
  <1>7. thrown' \in BOOLEAN
    BY <1>2 DEF throws
  <1>8. age \in 0..8 /\ age' \in 0..8
    BY <1>1, <1>2 DEF RestTypeOK, AgeBound
  <1>9. RestTypeOK'
    BY <1>1, <1>2, <1>7, <1>8 DEF RestTypeOK, AgeBound
  <1>10. AgeFollowsTurns'
    <2>1. lum'.effect = "Empty" => age' = 0
      BY <1>2
    <2>2. ASSUME alive', lum'.effect \in {"Rampage", "Immobilize"}
          PROVE  age' = lum'.turns + 1
      <3>1. alive /\ lum.effect = lum'.effect /\ lum'.turns = lum.turns + 1
        BY <1>2, <1>6, <2>2
      <3>2. age = lum.turns + 1
        BY <2>2, <3>1 DEF LockInv, AgeFollowsTurns
      <3>3. lum.turns \in 0..5
        BY <1>1 DEF ClassInv, LastUsed
      <3> QED BY <1>2, <2>2, <3>1, <3>2, <3>3 DEF AgeBound
    <2> QED BY <2>1, <2>2 DEF AgeFollowsTurns
  <1> QED
    BY <1>2, <1>6, <1>9, <1>10
    DEF LockInv, SelectionFollowsLock, ProtectsAfterActing

\* What the foe does while it stays, and a switch of its that ends a hold.
FoeEndsEffect == FoeFlinchesIt \/ FoeBreaksProtect \/ (FoeSwitches /\ IsImmobilizing(lum))

\* When the foe ends an effect, nothing is left of it.
LEMMA EndedByFoeKeeps ==
  ASSUME LockInv, FoeEndsEffect
  PROVE  LockInv'
  <1>1. ClassInv(lum) /\ lum \in LastUsed /\ RestTypeOK
    BY DEF LockInv, ClassInv
  <1>2. age' = 0 /\ pp' = pp /\ herb' = herb /\ alive' = alive
        /\ phase' = phase /\ selected' = selected /\ thrown' = thrown
        /\ flinched' \in {TRUE, flinched}
    BY DEF FoeEndsEffect, FoeFlinchesIt, FoeBreaksProtect, FoeSwitches
  <1>3. RestTypeOK'
    <2>1. age' \in 0..AgeBound
      BY <1>2 DEF AgeBound
    <2>2. flinched' \in BOOLEAN
      BY <1>1, <1>2, Zenon DEF RestTypeOK
    <2> QED BY <1>1, <1>2, <2>1, <2>2 DEF RestTypeOK
  <1>4. ClassInv(lum') /\ lum'.effect = "Empty"
    <2>1. CASE FoeFlinchesIt
      BY <1>1, <2>1, UnsuccessfulEnds DEF FoeFlinchesIt
    <2>2. CASE FoeBreaksProtect
      BY <1>1, <2>2, EffectEnds DEF FoeBreaksProtect, BreakProtect
    <2>3. CASE FoeSwitches /\ IsImmobilizing(lum)
      BY <1>1, <2>3, EffectEnds DEF FoeSwitches, FoeSwitched, EndImmobilize
    <2> QED BY <2>1, <2>2, <2>3 DEF FoeEndsEffect
  <1>5. phase' = "act" => alive' /\ selected' \in Move
    BY <1>2 DEF LockInv, SelectionFollowsLock
  <1> QED BY <1>2, <1>3, <1>4, <1>5, FreeOfEffects

\* What the foe does ends an effect or leaves the Pokemon as it is.
LEMMA FoeActsKeeps ==
  ASSUME LockInv, FoeActs
  PROVE  LockInv'
  <1>1. CASE FoeEndsEffect
    BY <1>1, EndedByFoeKeeps
  <1>2. CASE FoeSwitches /\ ~IsImmobilizing(lum)
    BY <1>2
    DEF FoeSwitches, FoeSwitched, EndImmobilize, LockInv, ClassInv, RestTypeOK,
        SelectionFollowsLock, ProtectsAfterActing, AgeFollowsTurns
  <1> QED BY <1>1, <1>2 DEF FoeActs, FoeEndsEffect

LEMMA UseMoveKeeps ==
  ASSUME LockInv, UseMove
  PROVE  LockInv'
  <1>1. /\ ClassInv(lum) /\ RestTypeOK /\ ClassInv(Recharge(lum))
        /\ Recharge(lum) = lum \/ Recharge(lum).effect = "Empty"
    BY RechargeEnds DEF LockInv
  <1>2. /\ pp \in [RegularMoves -> 0..MaxPP]
        /\ UNCHANGED herb => herb' \in BOOLEAN
        /\ UNCHANGED thrown => thrown' \in BOOLEAN
    BY <1>1, Zenon DEF RestTypeOK
  <1>3. ASSUME NEW executed \in Move, CannotAttempt(executed) PROVE LockInv'
    <2>1. /\ Acting /\ Act(UnsuccessfulMove(Recharge(lum), executed))
          /\ UNCHANGED pp /\ UNCHANGED herb /\ UNCHANGED thrown
      BY <1>3 DEF CannotAttempt
    <2> QED BY <1>1, <1>2, <2>1, FailureKeeps
  <1>4. CASE LosesTurnToFlinch
    <2>1. /\ Acting /\ Act(Recharge(lum))
          /\ UNCHANGED pp /\ UNCHANGED herb /\ UNCHANGED thrown
      BY <1>4 DEF LosesTurnToFlinch
    <2> QED BY <1>1, <1>2, <2>1, ActKeeps
  <1>5. ASSUME NEW executed \in Move, CannotExecute(executed) PROVE LockInv'
    <2>1. /\ Acting /\ Act(UnsuccessfulMove(Recharge(lum), executed))
          /\ UNCHANGED pp /\ UNCHANGED herb /\ UNCHANGED thrown
      BY <1>5 DEF CannotExecute
    <2> QED BY <1>1, <1>2, <2>1, FailureKeeps
  <1>6. ASSUME NEW executed \in Move, Fails(executed) PROVE LockInv'
    <2>1. /\ Acting /\ Act(UnsuccessfulMove(lum, executed)) /\ PayPP
          /\ UNCHANGED herb /\ UNCHANGED thrown
      BY <1>6 DEF Fails, Executes
    <2>2. pp' \in [RegularMoves -> 0..MaxPP]
      BY <1>1, <2>1, PayPPType
    <2> QED BY <1>1, <1>2, <2>1, <2>2, FailureKeeps
  <1>7. CASE BlockedByProtect
    <2>1. /\ Acting /\ Act(lum) /\ PayPP
          /\ UNCHANGED herb /\ UNCHANGED thrown
      BY <1>7 DEF BlockedByProtect, Executes
    <2>2. pp' \in [RegularMoves -> 0..MaxPP]
      BY <1>1, <2>1, PayPPType
    <2> QED BY <1>1, <1>2, <2>1, <2>2, ActKeeps
  <1>8. ASSUME NEW executed \in Move, NEW ends \in BOOLEAN, NEW sun \in BOOLEAN,
               NEW immune \in BOOLEAN, Succeeds(executed, ends, sun, immune)
        PROVE  LockInv'
    BY <1>8, SucceedsKeeps
  <1> QED BY <1>3, <1>4, <1>5, <1>6, <1>7, <1>8 DEF UseMove

LEMMA StepKeepsInv == LockInv /\ [Next]_vars => LockInv'
  <1> SUFFICES ASSUME LockInv, [Next]_vars PROVE LockInv'
    OBVIOUS
  <1>1. ASSUME NEW m \in Move, SelectMove(m) PROVE LockInv'
    <2>1. lum' = lum /\ phase' = "act" /\ selected' = m /\ pp' = pp /\ herb' = herb
          /\ flinched' = flinched /\ alive' = alive /\ age' = age /\ thrown' = thrown
          /\ phase = "select" /\ alive /\ m \in LegalMoves
      BY <1>1 DEF SelectMove
    <2>2. lum.effect # "Empty" => m = lum.move
      <3>1. lum.effect # "Empty" => lum.move \in Move /\ NoMove \notin Move
        BY MoveAssumption DEF LockInv, ClassInv, LockIsUsable, RegularMoves
      <3> QED BY <2>1, <3>1 DEF LegalMoves, LockedIn
    <2>3. ~IsProtecting(lum)
      BY <2>1 DEF LockInv, ProtectsAfterActing
    <2> QED
      BY <2>1, <2>2, <2>3
      DEF LockInv, RestTypeOK, SelectionFollowsLock, ProtectsAfterActing, AgeFollowsTurns
  <1>2. CASE UseMove
    BY <1>2, UseMoveKeeps
  <1>3. CASE LeavesField
    BY <1>3, ComesInKeeps
    DEF LeavesField, SwitchSelected, SwitchedMidTurn, ReplaceFainted
  <1>4. CASE FoeActs
    BY <1>4, FoeActsKeeps
  <1>5. CASE Faints
    <2>1. alive' = FALSE /\ phase' = "acted" /\ lum' = lum /\ pp' = pp /\ herb' = herb
          /\ flinched' = flinched /\ selected' = selected /\ age' = age /\ thrown' = thrown
      BY <1>5 DEF Faints
    <2> QED
      BY <2>1
      DEF LockInv, RestTypeOK, SelectionFollowsLock, ProtectsAfterActing, AgeFollowsTurns
  <1>6. ASSUME NEW ending \in BOOLEAN, EndOfTurn(ending) PROVE LockInv'
    BY <1>6, EndOfTurnKeeps
  <1>7. CASE UNCHANGED vars
    BY <1>7
    DEF vars, LockInv, RestTypeOK, SelectionFollowsLock, ProtectsAfterActing, AgeFollowsTurns
  <1> QED BY <1>1, <1>2, <1>3, <1>4, <1>5, <1>6, <1>7 DEF Next

-----------------------------------------------------------------------------
(* Theorems *)

THEOREM Invariance == Spec => []LockInv
  <1>1. Init => LockInv
    BY InitHasInv
  <1>2. LockInv /\ [Next]_vars => LockInv'
    BY StepKeepsInv
  <1> QED BY <1>1, <1>2, PTL DEF Spec

\* Every variable keeps its type, whatever the generation and the moves.
THEOREM TypeCorrectness == Spec => []TypeOK
  <1>1. LockInv => TypeOK
    BY DEF LockInv, ClassInv, RestTypeOK, TypeOK
  <1> QED BY <1>1, Invariance, PTL

\* A lock is always on a regular move that succeeded.
THEOREM LockUsability == Spec => []LockedInIsUsable
  <1>1. LockInv => LockedInIsUsable
    BY DEF LockInv, ClassInv, LockIsUsable, LockedInIsUsable, LockedIn, SuccessfulLastMove
  <1> QED BY <1>1, Invariance, PTL

\* Rampages and trapping moves keep to their schedule.
THEOREM Schedule == Spec => []CountersFollowTurns
  <1>1. LockInv => CountersFollowTurns
    <2> SUFFICES ASSUME LockInv, alive, lum.effect \in {"Rampage", "Immobilize"}
                 PROVE  age = lum.turns + 1 /\ age <= MaxTurns(lum.effect) + 1
      BY DEF CountersFollowTurns
    <2>1. age = lum.turns + 1 /\ lum.turns <= MaxTurns(lum.effect) /\ lum.turns \in 0..5
      BY DEF LockInv, AgeFollowsTurns, ClassInv, CounterInRange, LastUsed
    <2>2. MaxTurns(lum.effect) \in 0..5
      BY MaxTurnsRange
    <2> QED BY <2>1, <2>2
  <1> QED BY <1>1, Invariance, PTL

\* A step that keeps an effect keeps its move.
LEMMA StepKeepsMove ==
  ASSUME LockInv, LockInv', [Next]_vars, lum.effect # "Empty", lum'.effect = lum.effect
  PROVE  lum'.move = lum.move
  <1>1. ClassInv(lum) /\ lum \in LastUsed
    BY DEF LockInv, ClassInv
  <1>2. CASE UNCHANGED lum
    BY <1>2
  <1>3. ASSUME NEW executed \in Move, NEW l \in LastUsed, Act(UnsuccessfulMove(l, executed))
        PROVE  FALSE
    BY <1>3, UnsuccessfulMoveEnds DEF Act
  <1>4. Recharge(lum) \in LastUsed
    BY <1>1, RechargeEnds DEF ClassInv
  <1>5. CASE UseMove
    <2>1. ASSUME NEW executed \in Move, CannotAttempt(executed) PROVE FALSE
      BY <1>3, <1>4, <2>1 DEF CannotAttempt
    <2>2. CASE LosesTurnToFlinch
      <3>1. lum' = Recharge(lum)
        BY <2>2 DEF LosesTurnToFlinch, Act
      <3> QED BY <1>1, <3>1, RechargeEnds
    <2>3. ASSUME NEW executed \in Move, CannotExecute(executed) PROVE FALSE
      BY <1>3, <1>4, <2>3 DEF CannotExecute
    <2>4. ASSUME NEW executed \in Move, Fails(executed) PROVE FALSE
      BY <1>1, <1>3, <2>4 DEF Fails
    <2>5. CASE BlockedByProtect
      BY <2>5 DEF BlockedByProtect, Act
    <2>6. ASSUME NEW executed \in Move, NEW ends \in BOOLEAN, NEW sun \in BOOLEAN,
                 NEW immune \in BOOLEAN, Succeeds(executed, ends, sun, immune)
          PROVE  lum'.move = lum.move
      <3> DEFINE after == SuccessfulMove(lum, selected, executed, ends, herb, sun)
      <3>1. Acting /\ executed \in PossibleExecuted(selected) /\ herb \in BOOLEAN
        BY <2>6 DEF Succeeds, Executes, LockInv, RestTypeOK
      <3>2. /\ selected \in Move /\ selected = lum.move
            /\ selected = Struggle => executed = Struggle
        BY <3>1, ExecutedMoves
      <3>3. CASE SuccessfulMoveThrows(lum, selected, ends)
        BY <2>6, <3>3 DEF Succeeds, Act
      <3>4. CASE ~SuccessfulMoveThrows(lum, selected, ends)
        <4>1. lum' = IF immune THEN Recharge(after) ELSE after
          BY <2>6, <3>4 DEF Succeeds, Act
        <4>2. ClassInv(after) /\ after.move = selected
          BY <1>1, <3>1, <3>2, <3>4, SuccessfulMoveKeeps
        <4> HIDE DEF after
        <4> QED BY <3>2, <4>1, <4>2, RechargeEnds
      <3> QED BY <3>3, <3>4
    <2> QED BY <1>5, <2>1, <2>2, <2>3, <2>4, <2>5, <2>6 DEF UseMove
  <1>6. ASSUME NEW replacing \in BOOLEAN, ComesIn(replacing) PROVE FALSE
    BY <1>1, <1>6, UseSwitchEnds DEF ComesIn
  <1>7. CASE LeavesField
    BY <1>6, <1>7 DEF LeavesField, SwitchSelected, SwitchedMidTurn, ReplaceFainted
  <1>8. CASE FoeActs
    <2>1. CASE FoeFlinchesIt
      BY <1>1, <2>1, UnsuccessfulEnds DEF FoeFlinchesIt
    <2>2. CASE FoeBreaksProtect
      BY <1>1, <2>2, EffectEnds DEF FoeBreaksProtect, BreakProtect
    <2>3. CASE FoeSwitches
      BY <1>1, <2>3, EffectEnds DEF FoeSwitches, FoeSwitched, EndImmobilize
    <2> QED BY <1>8, <2>1, <2>2, <2>3 DEF FoeActs
  <1>9. ASSUME NEW ending \in BOOLEAN, EndOfTurn(ending) PROVE lum'.move = lum.move
    <2> DEFINE advances == alive \/ Generation <= 2
               advanced == IF advances THEN AdvanceLockIn(lum, ending) ELSE lum
               throws == advances /\ AdvanceLockInThrows(lum, ending)
    <2>1. lum' = IF throws THEN lum ELSE ResetEndOfTurn(advanced)
      BY <1>9 DEF EndOfTurn
    <2>2. ~throws => ClassInv(advanced) /\ advanced.move = lum.move
      BY <1>1, AdvanceKeeps
    <2> HIDE DEF advanced, throws
    <2> QED BY <2>1, <2>2, ResetKeeps
  <1> QED
    BY <1>2, <1>5, <1>7, <1>8, <1>9 DEF Next, vars, SelectMove, Faints

\* A lock never passes from one move to another.
THEOREM LockIdentity == Spec => LockKeepsItsMove
  <1>1. LockInv /\ LockInv' /\ [Next]_vars
          => [lum.effect # "Empty" /\ lum'.effect = lum.effect => lum'.move = lum.move]_vars
    BY StepKeepsMove
  <1> QED BY <1>1, Invariance, PTL DEF Spec, LockKeepsItsMove

\* While a lock is in force, nothing that an action of the Pokemon or the foe does
\* takes PP from any of its moves.
LEMMA StepPaysOnce ==
  ASSUME LockInv, [Next]_vars, lum.effect # "Empty", phase = "act", selected' # NoMove
  PROVE  pp' = pp
  <1>1. LockedIn(lum) # NoMove
    BY MoveAssumption DEF LockedIn, LockInv, ClassInv, LockIsUsable, RegularMoves
  <1>2. PayPP => pp' = pp
    BY <1>1 DEF PayPP
  <1>3. CASE UseMove
    BY <1>2, <1>3
    DEF UseMove, CannotAttempt, LosesTurnToFlinch, CannotExecute, Fails, BlockedByProtect,
        Succeeds
  <1>4. ~LeavesField
    BY DEF LeavesField, SwitchSelected, SwitchedMidTurn, ReplaceFainted, ComesIn
  <1> QED
    BY <1>3, <1>4
    DEF Next, vars, SelectMove, FoeActs, FoeFlinchesIt, FoeBreaksProtect, FoeSwitches,
        Faints, EndOfTurn

\* The turns of a charging, thrashing or recharging Pokemon after the first are
\* paid for by the first.
THEOREM LocksPayOnce == Spec => LockedMoveIsPaidOnce
  <1>1. LockInv /\ [Next]_vars
          => [lum.effect # "Empty" /\ phase = "act" /\ alive' /\ selected' # NoMove
                => pp' = pp]_vars
    BY StepPaysOnce
  <1> QED BY <1>1, Invariance, PTL DEF Spec, LockedMoveIsPaidOnce

\* Where nobody knows Uproar, no step makes LastUsedMove throw.
LEMMA StepDoesNotThrow ==
  ASSUME NobodyKnowsUproar, LockInv, ~thrown, [Next]_vars
  PROVE  ~thrown'
  <1>1. ClassInv(lum) /\ lum.effect # "UproarCounter"
    BY DEF LockInv, ClassInv, UproarIsKnown, NobodyKnowsUproar
  <1>2. ASSUME NEW executed \in Move, NEW ends \in BOOLEAN, NEW sun \in BOOLEAN,
               NEW immune \in BOOLEAN, Succeeds(executed, ends, sun, immune)
        PROVE  ~thrown'
    <2>1. /\ Acting /\ phase = "act" /\ ends \in ActionEnds(lum)
          /\ ~SuccessfulMoveThrows(lum, selected, ends) => thrown' = thrown
      BY <1>2 DEF Succeeds, Executes, Acting
    <2>2. ~SuccessfulMoveThrows(lum, selected, ends)
      <3>1. lum.effect # "Protecting"
        BY <2>1 DEF LockInv, ProtectsAfterActing, IsProtecting
      <3>2. lum.effect \in LockEffects => SuccessfulLastMove(lum, selected)
        BY <2>1, ExecutedMoves
        DEF LockEffects, SuccessfulLastMove, LockInv, ClassInv, LockIsUsable
      <3>3. lum.effect = "Bide" /\ lum.turns = MaxTurns("Bide") => ends
        <4> SUFFICES ASSUME lum.effect = "Bide", lum.turns = MaxTurns("Bide") PROVE ends
          OBVIOUS
        <4>1. ActionEnds(lum) = FlagBranches(lum.turns, 1, lum.turns)
          BY DEF ActionEnds
        <4>2. ~(lum.turns < 1) /\ ~(lum.turns < lum.turns)
          BY <1>1, MaxTurnsRange DEF ClassInv, LastUsed
        <4>3. ends \in {TRUE}
          BY <2>1, <4>1, <4>2, Zenon DEF FlagBranches
        <4> QED BY <4>3
      <3> QED BY <1>1, <3>1, <3>2, <3>3 DEF SuccessfulMoveThrows
    <2> QED BY <2>1, <2>2
  <1>3. ASSUME NEW ending \in BOOLEAN, EndOfTurn(ending) PROVE ~thrown'
    <2>1. /\ ending \in LockInEnds(lum)
          /\ thrown' = ((alive \/ Generation <= 2) /\ AdvanceLockInThrows(lum, ending))
      BY <1>3 DEF EndOfTurn
    <2>2. ~AdvanceLockInThrows(lum, ending)
      <3>1. CASE lum.effect \in {"Rampage", "Immobilize"}
        BY <1>1, <2>1, <3>1, ScheduledEndsInTime
      <3>2. CASE lum.effect \notin {"Rampage", "Immobilize"}
        BY <1>1, <3>2 DEF AdvanceLockInThrows, CountedAtEndOfTurn
      <3> QED BY <3>1, <3>2
    <2> QED BY <2>1, <2>2
  <1>4. CASE UNCHANGED thrown
    BY <1>4
  <1> QED
    BY <1>2, <1>3, <1>4
    DEF Next, vars, SelectMove, UseMove, CannotAttempt, LosesTurnToFlinch, CannotExecute,
        Fails, BlockedByProtect, LeavesField, SwitchSelected, SwitchedMidTurn,
        ReplaceFainted, ComesIn, FoeActs, FoeFlinchesIt, FoeBreaksProtect, FoeSwitches, Faints

\* No exception ever leaves LastUsedMove, unless somebody knows Uproar: the one
\* counter that the search never ends.
THEOREM NoExceptions ==
  ASSUME NobodyKnowsUproar
  PROVE  Spec => []NeverThrows
  <1>1. Init => ~thrown
    BY DEF Init
  <1>2. NobodyKnowsUproar /\ LockInv /\ ~thrown /\ [Next]_vars => ~thrown'
    BY StepDoesNotThrow
  <1>3. LockInv /\ ~thrown /\ [Next]_vars => ~thrown'
    BY <1>2
  <1>4. ~thrown <=> NeverThrows
    BY DEF NeverThrows
  <1> QED BY <1>1, <1>3, <1>4, Invariance, PTL DEF Spec

=============================================================================

----------------------------- MODULE TurnProofs -----------------------------
(***************************************************************************)
(* Theorems about Turn, for every choice of generations, moves and sizes   *)
(* of the teams: its type, that a side never acts without owing an action, *)
(* that the two never hold each other, and when a delayed switch can be    *)
(* lost; where the AI never moves first with a move that is followed by a  *)
(* switch, that everyone acts; and where moreover nobody lives on after    *)
(* running into Protect, that no assertion between the functions fails and *)
(* every step is one of TurnProtocol.                                      *)
(***************************************************************************)
EXTENDS Turn, TLAPS

-----------------------------------------------------------------------------
(* What the moves of the teams have to be for the properties to hold.      *)

Pivots == {m \in Move : KindOf[m] \in {"baton", "delayed"}}

\* U-turn and Volt Switch come with generation 4: before, who leaves in the
\* middle of a turn has done no damage, and cannot have fainted by it.
PivotsAreHarmlessAtFirst ==
  \A g \in Generations : g <= 3 =>
    \A s \in Side : MovesOf[g][s] \cap Pivots \cap Damaging = {}

\* The AI, if it has a move that is followed by a switch, uses it after the foe's
\* move: by priority, or because it is never the faster one.
AIPivotsSecond ==
  \A g \in Generations : \A m \in MovesOf[g]["ai"] \cap Pivots, n \in MovesOf[g]["foe"] :
    \/ PriorityOf[g][n] > PriorityOf[g][m]
    \/ PriorityOf[g][n] = PriorityOf[g][m] /\ "ai" \notin MayBeFaster[g]

\* Nobody can protect itself from a move whose user goes on living, whether the
\* move is an attack or one like Roar.
NothingIsBlocked ==
  \A g \in Generations, s \in Side :
    (\E m \in MovesOf[g][s] : KindOf[m] = "protect") =>
      MovesOf[g][Other(s)] \cap Blockable \subseteq SelfDestructing

-----------------------------------------------------------------------------
(* The inductive invariant, in three layers.                               *)

\* A LastUsedMove: its counter is where advance_one_turn does not throw, and a
\* Protect is of this turn.
LumInv(l) ==
  /\ l \in LastUsed
  /\ l.effect \notin {"Bide", "UproarCounter"}
  /\ l.turns <= MaxTurns(l.effect)
  /\ IsProtecting(l) => l.moved

\* A member of a State: nobody remembers a move they do not know.
MemberInv(s, member) ==
  /\ member \in [lum : LastUsed, alive : BOOLEAN, size : 1..MaxTeamSize]
  /\ LumInv(member.lum)
  /\ member.lum.move \in MovesOf[generation][s] \cup {NoMove}

\* A State
TeamInv(t) ==
  /\ t \in Teams
  /\ \A s \in Side : MemberInv(s, t[s])
  /\ ~(\A s \in Side : IsImmobilizing(t[s].lum))

\* The arguments of the functions
ArgumentsInv ==
  /\ generation \in Generations
  /\ phase \in Phases
  /\ first \in Side
  /\ actor \in Side
  /\ choice \in Selection \cup {None}
  /\ continuation \in Selection \cup {None}
  /\ choice \in Move => choice \in MovesOf[generation][actor]
  /\ continuation \in Move => continuation \in MovesOf[generation][Other(first)]
  /\ owed \in SUBSET Side

\* Why a side that has not acted owes nothing: it has moved, by flinching or by
\* being dragged out, or fainted, or somebody fainted and that ends the turn.  A
\* second that ran into Protect owes nothing either, although it has not moved.
Excused(t, s) ==
  \/ Moved(t, s)
  \/ ~t[s].alive
  \/ (generation <= 3 /\ Fainted(t) # {})
  \/ (s = actor /\ s # first /\ IsProtecting(t[Other(s)].lum))

\* What has happened when each function is called
BetweenTurnsInv ==
  phase \in {"start", "replace"} =>
    /\ Lost(team) = {}
    /\ \A s \in Side : ~Moved(team, s)
    /\ phase = "start" <=> Fainted(team) = {}

ExecutingInv ==
  phase \in Executing =>
    /\ Lost(team) = {}
    /\ team[actor].alive
    /\ \A s \in Side : ~DelayedSwitching(team, s)
    /\ phase = "first" => /\ actor = first
                          /\ owed = Side
                          /\ Fainted(team) = {}
                          /\ \A s \in Side : ~Moved(team, s)
    /\ phase = "second" => /\ actor = Other(first)
                           /\ actor \in owed
                           /\ Moved(team, first)
                           /\ continuation = None
    /\ phase = "last" /\ PivotsAreHarmlessAtFirst => actor \in owed \/ choice = Pass

AfterInv ==
  phase = "after" =>
    /\ Lost(team) = {}
    /\ actor # first => continuation = None /\ Moved(team, first)
    /\ \A s \in Side \ owed : Excused(team, s)
    /\ ~DelayedSwitching(team, Other(actor))
    /\ DelayedSwitching(team, actor) => choice \in Pivots
    /\ PivotsAreHarmlessAtFirst /\ generation <= 3 /\ DelayedSwitching(team, actor)
         => team[actor].alive

Inv == ArgumentsInv /\ TeamInv(team) /\ BetweenTurnsInv /\ ExecutingInv /\ AfterInv

\* Where the AI only pivots second, both make a selection at the start of a turn and
\* each settles what they owe; only the AI acts after a delayed switch.
SettledInv ==
  /\ continuation # Pass
  /\ phase \in Executing => choice \in Move \cup {Switch}
  /\ phase \in Executing \cup {"after"} =>
       \A s \in Side : Moved(team, s) \/ ~team[s].alive => s \notin owed
  /\ phase = "first" => continuation # None /\ (actor = "ai" => choice \notin Pivots)
  /\ phase = "second" => first \notin owed
  /\ phase = "last" => actor = "ai" /\ "foe" \notin owed
  /\ phase = "after" =>
       /\ actor \notin owed
       /\ IF actor = first THEN continuation # None ELSE owed = {}
       /\ generation <= 3 /\ Fainted(team) # {} => owed = {}
       /\ actor = first /\ first = "ai" => choice \notin Pivots
  /\ phase \in {"eot", "replace"} => owed = {}

\* Protect is what protects.
ProtectsWith(l) == IsProtecting(l) => l.move \in Move /\ KindOf[l.move] = "protect"

\* Where moreover no move is blocked, who has acted has moved, or fainted last.
UnblockedInv ==
  /\ phase # "failed"
  /\ phase = "after" => Moved(team, actor) \/ (actor # first /\ ~team[actor].alive)
  /\ phase \in Executing \cup {"after"} => \A s \in Side : ProtectsWith(team[s].lum)

\* What one execution can do: t is the State after it, and the sides in `done` no
\* longer owe an action.  Nobody gets up, no team gets smaller, and who has acted has
\* moved, except into Protect.
Outcome(t, done) ==
  /\ phase \in Executing
  /\ Executed(t, done)
  /\ TeamInv(t)
  /\ done \in SUBSET Side
  /\ actor \in done
  /\ phase # "last" => \A s \in done : Excused(t, s)
  /\ \A s \in Side : (t[s].alive => team[s].alive) /\ t[s].size = team[s].size
  /\ \A s \in Side : Moved(team, s) => Moved(t, s)
  /\ \A s \in Side : Moved(t, s) => Moved(team, s) \/ s \in done
  /\ ~DelayedSwitching(t, Other(actor))
  /\ DelayedSwitching(t, actor) => choice \in Pivots
  /\ PivotsAreHarmlessAtFirst /\ generation <= 3 /\ DelayedSwitching(t, actor) => t[actor].alive
  /\ \/ Moved(t, actor)
     \/ /\ phase # "first"
        /\ IsProtecting(team[Other(actor)].lum)
        /\ choice \in Blockable
        /\ choice \in SelfDestructing => ~t[actor].alive
  /\ ~IsProtecting(team[actor].lum) /\ ProtectsWith(team[Other(actor)].lum) =>
       \A s \in Side : ProtectsWith(t[s].lum)

\* A turn, or the replacement after it, is over with the State t.
FinishedWith(t) == Finish(t, TRUE) /\ TeamInv(t) /\ \A s \in Side : ~Moved(t, s)


-----------------------------------------------------------------------------
(* Lemmas on the operators of LastUsedMove: what each does to the fields   *)
(* the invariant speaks of.                                                *)

LEMMA MaxTurnsRange ==
  /\ \A e \in Effects : MaxTurns(e) \in 0..5
  /\ MaxTurns("Empty") = 0
  /\ MaxTurns("Immobilize") = 5
  BY DEF MaxTurns, Effects

\* A value of the type is the record of its fields.
LEMMA Fields ==
  ASSUME NEW l \in LastUsed
  PROVE  /\ l = [move |-> l.move, successes |-> l.successes, moved |-> l.moved,
                 effect |-> l.effect, turns |-> l.turns]
         /\ l.move \in Move \cup {NoMove}
         /\ l.successes \in 0..MaxSuccesses
         /\ l.moved \in BOOLEAN
         /\ l.effect \in Effects
         /\ l.turns \in 0..5
  BY DEF LastUsed

LEMMA WithEffectFields ==
  ASSUME NEW l \in LastUsed, NEW e \in Effects
  PROVE  WithEffect(l, e) = [move |-> l.move, successes |-> l.successes,
                             moved |-> l.moved, effect |-> e, turns |-> 0]
  <1> DEFINE set == [l EXCEPT !.effect = e]
  <1>1. set = [move |-> l.move, successes |-> l.successes, moved |-> l.moved,
               effect |-> e, turns |-> l.turns]
    BY DEF LastUsed
  <1>2. WithEffect(l, e) = [set EXCEPT !.turns = 0]
    BY DEF WithEffect
  <1> HIDE DEF set
  <1> QED BY <1>1, <1>2

\* Without an effect there is nothing to count.
LEMMA NoEffect ==
  ASSUME NEW l, l \in LastUsed, l.effect = "Empty", l.turns = 0
  PROVE  LumInv(l) /\ ~IsImmobilizing(l) /\ ~IsProtecting(l)
  BY MaxTurnsRange DEF LumInv, IsProtecting, IsImmobilizing

LEMMA UnsuccessfulFields ==
  ASSUME NEW l \in LastUsed
  PROVE  LET r == Unsuccessful(l)
         IN  /\ LumInv(r) /\ ~IsImmobilizing(r) /\ ~IsProtecting(r)
             /\ r.moved /\ r.successes = 0 /\ r.move = l.move
  <1> DEFINE ended == WithEffect(l, "Empty")
             failed == [ended EXCEPT !.successes = 0]
  <1>1. failed = [move |-> l.move, successes |-> 0, moved |-> l.moved,
                  effect |-> "Empty", turns |-> 0]
    BY WithEffectFields DEF Effects
  <1>2. Unsuccessful(l) = [failed EXCEPT !.moved = TRUE]
    BY DEF Unsuccessful
  <1> HIDE DEF failed
  <1>3. Unsuccessful(l) = [move |-> l.move, successes |-> 0, moved |-> TRUE,
                           effect |-> "Empty", turns |-> 0]
    BY <1>1, <1>2
  <1>4. Unsuccessful(l) \in LastUsed
    BY <1>3, Fields, BoundsAssumption DEF LastUsed, Effects
  <1> QED BY <1>3, <1>4, NoEffect

LEMMA UnsuccessfulMoveFields ==
  ASSUME NEW l \in LastUsed, NEW m \in Move
  PROVE  LET r == UnsuccessfulMove(l, m)
         IN  /\ LumInv(r) /\ ~IsImmobilizing(r) /\ ~IsProtecting(r)
             /\ r.moved /\ r.successes = 0 /\ r.move = m
  <1> DEFINE u == Unsuccessful(l)
  <1>1. u \in LastUsed /\ ~IsImmobilizing(u) /\ ~IsProtecting(u) /\ u.moved
        /\ u.successes = 0 /\ LumInv(u)
    BY UnsuccessfulFields DEF LumInv
  <1>2. UnsuccessfulMove(l, m) = [u EXCEPT !.move = m]
    BY DEF UnsuccessfulMove
  <1> HIDE DEF u
  <1>3. UnsuccessfulMove(l, m) = [move |-> m, successes |-> u.successes, moved |-> u.moved,
                                  effect |-> u.effect, turns |-> u.turns]
    BY <1>1, <1>2 DEF LastUsed
  <1> QED BY <1>1, <1>3, Fields DEF LumInv, LastUsed, IsImmobilizing, IsProtecting

LEMMA UseSwitchFields ==
  ASSUME NEW l \in LastUsed, NEW replacing \in BOOLEAN
  PROVE  LET r == UseSwitch(l, replacing)
         IN  /\ LumInv(r) /\ ~IsImmobilizing(r) /\ ~IsProtecting(r)
             /\ r.moved = IF replacing THEN l.moved ELSE TRUE
             /\ r.move = NoMove
  <1> DEFINE ended == WithEffect(l, "Empty")
             left == [ended EXCEPT !.move = NoMove]
             moved == IF replacing THEN l.moved ELSE TRUE
  <1>1. left = [move |-> NoMove, successes |-> l.successes, moved |-> l.moved,
                effect |-> "Empty", turns |-> 0]
    BY WithEffectFields DEF Effects
  <1>2. UseSwitch(l, replacing) = [left EXCEPT !.moved = moved]
    BY DEF UseSwitch
  <1>3. moved \in BOOLEAN
    BY Fields
  <1> HIDE DEF left, moved
  <1>4. UseSwitch(l, replacing) = [move |-> NoMove, successes |-> l.successes, moved |-> moved,
                                   effect |-> "Empty", turns |-> 0]
    BY <1>1, <1>2
  <1>5. UseSwitch(l, replacing) \in LastUsed
    BY <1>3, <1>4, Fields DEF LastUsed, Effects
  <1> QED BY <1>4, <1>5, NoEffect DEF moved

\* Ending an effect leaves the move and whether it was successful alone.
LEMMA EffectEnds ==
  ASSUME NEW l \in LastUsed
  PROVE  LET r == WithEffect(l, "Empty")
         IN  /\ LumInv(r) /\ ~IsImmobilizing(r) /\ ~IsProtecting(r)
             /\ r.moved = l.moved /\ r.move = l.move /\ r.successes = l.successes
  <1>1. WithEffect(l, "Empty") = [move |-> l.move, successes |-> l.successes,
                                  moved |-> l.moved, effect |-> "Empty", turns |-> 0]
    BY WithEffectFields DEF Effects
  <1>2. WithEffect(l, "Empty") \in LastUsed
    BY <1>1, Fields DEF LastUsed, Effects
  <1> QED BY <1>1, <1>2, NoEffect

LEMMA FoeSwitchedFields ==
  ASSUME NEW l, LumInv(l)
  PROVE  LET r == FoeSwitched(l)
         IN  /\ LumInv(r) /\ ~IsImmobilizing(r) /\ (IsProtecting(r) <=> IsProtecting(l))
             /\ r.moved = l.moved /\ r.move = l.move /\ r.successes = l.successes
  <1>1. l \in LastUsed
    BY DEF LumInv
  <1>2. CASE IsImmobilizing(l)
    BY <1>1, <1>2, EffectEnds DEF FoeSwitched, EndImmobilize, IsImmobilizing, IsProtecting
  <1>3. CASE ~IsImmobilizing(l)
    BY <1>3 DEF FoeSwitched, EndImmobilize
  <1> QED BY <1>2, <1>3

LEMMA RechargeFields ==
  ASSUME NEW l, LumInv(l)
  PROVE  Recharge(l) \in LastUsed
  BY EffectEnds DEF Recharge, LumInv

\* Neither Bide nor Uproar is ever started.
LEMMA SuccessfulMoveFields ==
  ASSUME NEW l, LumInv(l), NEW m \in Move
  PROVE  LET r == SuccessfulMove(l, m, m, FALSE, FALSE, FALSE)
         IN  LumInv(r) /\ r.moved /\ r.move = m /\ (~IsProtecting(l) => ProtectsWith(r))
  <1> DEFINE effect == EffectOfMove(m, FALSE, FALSE)
             after == AfterEffect(l, m, FALSE, FALSE, FALSE)
             n == IF l.move # m THEN 1
                  ELSE IF l.successes < MaxSuccesses THEN l.successes + 1
                  ELSE MaxSuccesses
             r == SuccessfulMove(l, m, m, FALSE, FALSE, FALSE)
  <1>1. l \in LastUsed /\ l.effect \notin {"Bide", "UproarCounter"} /\ l.turns <= MaxTurns(l.effect)
    BY DEF LumInv
  <1>2. effect \in Effects \ {"Bide", "UproarCounter"}
    <2>1. KindOf[m] \in Kinds \ {"bide", "uproar"}
      BY KindsAssumption
    <2> QED BY <2>1 DEF EffectOfMove, Effects, Kinds
  <1>3. /\ after \in LastUsed
        /\ after.effect \notin {"Bide", "UproarCounter"}
        /\ after.turns <= MaxTurns(after.effect)
    <2>1. CASE l.effect = "Empty"
      <3>1. after = WithEffect(l, effect)
        BY <2>1 DEF AfterEffect
      <3>2. after = [move |-> l.move, successes |-> l.successes, moved |-> l.moved,
                     effect |-> effect, turns |-> 0]
        BY <1>1, <1>2, <3>1, WithEffectFields
      <3> HIDE DEF after, effect
      <3>3. MaxTurns(effect) >= 0
        BY <1>2, MaxTurnsRange
      <3> QED BY <1>1, <1>2, <3>2, <3>3, Fields DEF LastUsed
    <2>2. CASE l.effect \in {"ChargingUp", "Vanishing"}
      <3>1. after = WithEffect(l, "Empty")
        BY <2>2 DEF AfterEffect
      <3> QED BY <1>1, <3>1, EffectEnds DEF LumInv
    <2>3. CASE l.effect \notin {"Empty", "ChargingUp", "Vanishing"}
      BY <1>1, <2>3 DEF AfterEffect
    <2> QED BY <2>1, <2>2, <2>3
  <1>4. after.effect = "Protecting" /\ l.effect # "Protecting" => KindOf[m] = "protect"
    <2>1. effect = "Protecting" => KindOf[m] = "protect"
      BY DEF EffectOfMove
    <2> HIDE DEF effect
    <2>2. WithEffect(l, effect).effect = effect /\ WithEffect(l, "Empty").effect = "Empty"
      BY <1>1, <1>2, WithEffectFields DEF Effects
    <2>3. \/ after = WithEffect(l, effect) \/ after = WithEffect(l, "Empty") \/ after = l
      BY <1>1 DEF AfterEffect, effect
    <2> HIDE DEF after
    <2> QED BY <2>1, <2>2, <2>3
  <1>5. n \in 0..MaxSuccesses
    BY <1>1, Fields, BoundsAssumption
  <1>6. r = [[[after EXCEPT !.move = m] EXCEPT !.moved = TRUE] EXCEPT !.successes = n]
    BY DEF SuccessfulMove
  <1> HIDE DEF after, n, r, effect
  <1>7. [after EXCEPT !.move = m] = [move |-> m, successes |-> after.successes, moved |-> after.moved,
                                     effect |-> after.effect, turns |-> after.turns]
    BY <1>3 DEF LastUsed
  <1>8. r = [move |-> m, successes |-> n, moved |-> TRUE,
             effect |-> after.effect, turns |-> after.turns]
    BY <1>6, <1>7
  <1>9. r \in LastUsed
    BY <1>3, <1>5, <1>8, Fields DEF LastUsed
  <1>10. LumInv(r) /\ r.moved /\ r.move = m
    BY <1>3, <1>8, <1>9 DEF LumInv
  <1>11. ~IsProtecting(l) => ProtectsWith(r)
    BY <1>8, <1>4 DEF IsProtecting, ProtectsWith
  <1> QED BY <1>10, <1>11 DEF r

\* A flag that is still open is below the value at which it is certain.
LEMMA OpenFlag ==
  ASSUME NEW turns \in Int, NEW from \in Int, NEW max \in Int, from <= max,
         NEW flag \in FlagBranches(turns, from, max), ~flag
  PROVE  turns < max
  <1> SUFFICES ASSUME turns >= max PROVE FALSE
    OBVIOUS
  <1>0. ~(turns < from) /\ ~(turns < max)
    OBVIOUS
  <1>1. FlagBranches(turns, from, max) = {TRUE}
    BY <1>0, Zenon DEF FlagBranches
  <1>2. flag = TRUE
    BY <1>1, Zenon
  <1> QED BY <1>2

\* A counter that is at its last value is at its end.
LEMMA AdvanceLockInFields ==
  ASSUME NEW l, LumInv(l), NEW ending \in LockInEnds(l)
  PROVE  LET r == AdvanceLockIn(l, ending)
         IN  /\ LumInv(r) /\ r.move = l.move
             /\ IsImmobilizing(r) => IsImmobilizing(l)
  <1>1. l \in LastUsed /\ l.effect \notin {"Bide", "UproarCounter"} /\ l.turns <= MaxTurns(l.effect)
        /\ (IsProtecting(l) => l.moved)
    BY DEF LumInv
  <1>2. CASE l.effect \notin CountedAtEndOfTurn
    BY <1>2 DEF AdvanceLockIn
  <1>3. CASE l.effect \in CountedAtEndOfTurn /\ ending
    BY <1>1, <1>3, EffectEnds DEF AdvanceLockIn
  <1>4. CASE l.effect \in CountedAtEndOfTurn /\ ~ending
    <2>1. l.effect \in {"Immobilize", "Rampage"}
      BY <1>1, <1>4 DEF CountedAtEndOfTurn
    <2>2. l.turns < MaxTurns(l.effect)
      <3>1. CASE l.effect = "Immobilize"
        <4>1. ending \in FlagBranches(l.turns, 2, MaxTurns("Immobilize"))
          BY <3>1 DEF LockInEnds
        <4>2. l.turns \in 0..5
          BY <1>1, Fields
        <4> QED BY <1>4, <3>1, <4>1, <4>2, MaxTurnsRange, OpenFlag
      <3>2. CASE l.effect = "Rampage"
        <4>1. ending \in FlagBranches(l.turns, MaxTurns("Rampage") - 1, MaxTurns("Rampage"))
          BY <3>2 DEF LockInEnds
        <4>2. MaxTurns("Rampage") \in 0..5
          BY MaxTurnsRange DEF Effects
        <4>3. l.turns \in 0..5
          BY <1>1, Fields
        <4> QED BY <1>4, <3>2, <4>1, <4>2, <4>3, OpenFlag
      <3> QED BY <2>1, <3>1, <3>2
    <2>3. AdvanceLockIn(l, ending) = [l EXCEPT !.turns = l.turns + 1]
      BY <1>4 DEF AdvanceLockIn
    <2>4. AdvanceLockIn(l, ending) = [move |-> l.move, successes |-> l.successes, moved |-> l.moved,
                                      effect |-> l.effect, turns |-> l.turns + 1]
      BY <1>1, <2>3 DEF LastUsed
    <2>5. MaxTurns(l.effect) \in 0..5
      BY <1>1, Fields, MaxTurnsRange
    <2>6. l.turns + 1 \in 0..5 /\ l.turns + 1 <= MaxTurns(l.effect)
      BY <1>1, <2>2, <2>5, Fields
    <2>7. AdvanceLockIn(l, ending) \in LastUsed
      BY <1>1, <2>4, <2>6, Fields DEF LastUsed
    <2> QED BY <1>1, <2>4, <2>6, <2>7 DEF LumInv, IsProtecting, IsImmobilizing
  <1> QED BY <1>2, <1>3, <1>4

LEMMA ResetEndOfTurnFields ==
  ASSUME NEW l, LumInv(l)
  PROVE  LET r == ResetEndOfTurn(l)
         IN  /\ LumInv(r) /\ ~r.moved /\ r.move = l.move
             /\ IsImmobilizing(r) => IsImmobilizing(l)
  <1> DEFINE b == BreakProtect(l)
  <1>1. LumInv(b) /\ ~IsProtecting(b) /\ b.move = l.move /\ (IsImmobilizing(b) => IsImmobilizing(l))
    BY EffectEnds DEF BreakProtect, LumInv
  <1>2. ResetEndOfTurn(l) = [b EXCEPT !.moved = FALSE]
    BY DEF ResetEndOfTurn
  <1> HIDE DEF b
  <1>3. ResetEndOfTurn(l) = [move |-> b.move, successes |-> b.successes, moved |-> FALSE,
                             effect |-> b.effect, turns |-> b.turns]
    BY <1>1, <1>2 DEF LumInv, LastUsed
  <1>4. ResetEndOfTurn(l) \in LastUsed
    BY <1>1, <1>3, Fields DEF LumInv, LastUsed
  <1> QED BY <1>1, <1>3, <1>4 DEF LumInv, IsProtecting, IsImmobilizing

-----------------------------------------------------------------------------
(* Lemmas on States                                                        *)

LEMMA TwoSides ==
  ASSUME NEW s \in Side
  PROVE  Other(s) \in Side /\ Other(s) # s /\ Other(Other(s)) = s /\ Side = {s, Other(s)}
  BY DEF Side, Other

\* Nobody who has fainted is the same as everybody being alive.
LEMMA NobodyFainted ==
  ASSUME NEW t, Fainted(t) = {}, NEW s \in Side
  PROVE  t[s].alive
  BY DEF Fainted

\* A State put together of the two members.
LEMMA Pair ==
  ASSUME NEW s \in Side, NEW a, NEW b, NEW t,
         MemberInv(s, a), MemberInv(Other(s), b),
         ~(IsImmobilizing(a.lum) /\ IsImmobilizing(b.lum)),
         t = [x \in Side |-> IF x = s THEN a ELSE b]
  PROVE  TeamInv(t) /\ t[s] = a /\ t[Other(s)] = b
  <1>1. t[s] = a /\ t[Other(s)] = b
    BY TwoSides
  <1>2. t \in Teams
    BY DEF Teams, MemberInv
  <1>3. \A x \in Side : MemberInv(x, t[x])
    BY <1>1, TwoSides
  <1>4. ~(\A x \in Side : IsImmobilizing(t[x].lum))
    BY <1>1, TwoSides
  <1> QED BY <1>1, <1>2, <1>3, <1>4 DEF TeamInv

\* A move that is not known, or no successful move at all, is no reason to switch.
LEMMA NotDelayed ==
  ASSUME NEW l, l.move = NoMove \/ l.successes = 0 \/ ~l.moved
  PROVE  ~IsDelayedSwitching(l)
  BY SelectionAssumption DEF IsDelayedSwitching, IsDelayedSwitch

\* What a member remembers of its move decides whether it has to switch.
LEMMA SameDelay ==
  ASSUME NEW l, NEW m, l.move = m.move, l.moved = m.moved, l.successes = m.successes
  PROVE  IsDelayedSwitching(l) <=> IsDelayedSwitching(m)
  BY DEF IsDelayedSwitching

\* Team::switch_pokemon: who comes in has done nothing, and the other side only
\* loses its hold.
LEMMA SwitchKeeps ==
  ASSUME NEW t, TeamInv(t), NEW s \in Side, NEW faints \in BOOLEAN,
         t[s].alive \/ t[s].size # 1,
         NEW r, r = SwitchPokemon(t, s, faints),
         NEW o, o = Other(s)
  PROVE  /\ TeamInv(r)
         /\ r[s].alive <=> ~faints
         /\ r[s].size = IF t[s].alive THEN t[s].size ELSE t[s].size - 1
         /\ Moved(r, s) <=> t[s].alive \/ Moved(t, s)
         /\ ~IsProtecting(r[s].lum) /\ ~IsDelayedSwitching(r[s].lum)
         /\ r[o].alive <=> t[o].alive
         /\ r[o].size = t[o].size /\ r[o].lum.move = t[o].lum.move
         /\ Moved(r, o) <=> Moved(t, o)
         /\ IsProtecting(r[o].lum) <=> IsProtecting(t[o].lum)
         /\ IsDelayedSwitching(r[o].lum) <=> IsDelayedSwitching(t[o].lum)
  <1> DEFINE in == UseSwitch(t[s].lum, ~t[s].alive)
             left == IF t[s].alive THEN t[s].size ELSE t[s].size - 1
             held == FoeSwitched(t[o].lum)
             a == [lum |-> in, alive |-> ~faints, size |-> left]
             b == [t[o] EXCEPT !.lum = held]
             members == [x \in Side |-> IF x = s THEN a ELSE b]
  <1>1. /\ t[s] \in [lum : LastUsed, alive : BOOLEAN, size : 1..MaxTeamSize]
        /\ t[o] \in [lum : LastUsed, alive : BOOLEAN, size : 1..MaxTeamSize]
        /\ LumInv(t[s].lum) /\ LumInv(t[o].lum)
        /\ t[o].lum.move \in MovesOf[generation][o] \cup {NoMove}
        /\ t \in [Side -> [lum : LastUsed, alive : BOOLEAN, size : 1..MaxTeamSize]]
    BY TwoSides DEF TeamInv, MemberInv, Teams
  <1>2. o \in Side /\ o # s /\ Side = {s, o}
    BY TwoSides
  <1>3. /\ LumInv(in) /\ ~IsImmobilizing(in) /\ ~IsProtecting(in)
        /\ in.moved = (IF ~t[s].alive THEN t[s].lum.moved ELSE TRUE)
        /\ in.move = NoMove
    BY <1>1, UseSwitchFields
  <1>4. /\ LumInv(held) /\ ~IsImmobilizing(held) /\ (IsProtecting(held) <=> IsProtecting(t[o].lum))
        /\ held.moved = t[o].lum.moved /\ held.move = t[o].lum.move
        /\ held.successes = t[o].lum.successes
    BY <1>1, FoeSwitchedFields
  <1>5. left \in 1..MaxTeamSize
    BY <1>1, BoundsAssumption
  <1>6. r = members
    <2> HIDE DEF in, held, left
    <2>1. r = [t EXCEPT ![s] = a, ![o].lum = FoeSwitched(@)]
      BY DEF SwitchPokemon, in, left
    <2> HIDE DEF a
    <2>2. r[s] = a
      BY <1>1, <1>2, <2>1
    <2>3. r[o] = [t[o] EXCEPT !.lum = FoeSwitched(t[o].lum)]
      BY <1>1, <1>2, <2>1
    <2>4. r = [x \in Side |-> r[x]]
      BY <1>1, <2>1
    <2>5. r[o] = b
      BY <2>3 DEF held
    <2> QED BY <1>2, <2>2, <2>4, <2>5
  <1> HIDE DEF in, held, left
  <1>7. b = [lum |-> held, alive |-> t[o].alive, size |-> t[o].size]
    BY <1>1
  <1>8. MemberInv(s, a)
    BY <1>3, <1>5 DEF MemberInv, LumInv
  <1>9. MemberInv(o, b)
    BY <1>1, <1>4, <1>7 DEF MemberInv, LumInv
  <1>10. TeamInv(r) /\ r[s] = a /\ r[o] = b
    <2>1. a.lum = in /\ b.lum = held
      BY <1>7
    <2> HIDE DEF a, b
    <2> QED BY <1>3, <1>6, <1>8, <1>9, <2>1, Pair
  <1>11. ~IsDelayedSwitching(in)
    BY <1>3, NotDelayed
  <1>12. IsDelayedSwitching(held) <=> IsDelayedSwitching(t[o].lum)
    BY <1>4, SameDelay
  <1>13. /\ r[s].lum = in /\ r[s].alive = ~faints /\ r[s].size = left
         /\ r[o].lum = held /\ r[o].alive = t[o].alive /\ r[o].size = t[o].size
    BY <1>7, <1>10
  <1> QED BY <1>1, <1>3, <1>4, <1>10, <1>11, <1>12, <1>13 DEF Moved, left

-----------------------------------------------------------------------------
(* Every function of the recursion preserves Inv.                          *)

\* Along a branch the generation is what it was.
LEMMA SameGeneration ==
  ASSUME generation' = generation, TeamInv(team')
  PROVE  TeamInv(team)'
  <1>1. \A l : LumInv(l) => LumInv(l)'
    BY DEF LumInv, MaxTurns
  <1>2. \A s, member : MemberInv(s, member) => MemberInv(s, member)'
    BY <1>1 DEF MemberInv
  <1> QED BY <1>2 DEF TeamInv

\* What is legal to select is among what the arguments may be.
LEMMA LegalIsKnown ==
  ASSUME NEW t, TeamInv(t), NEW s \in Side, generation \in Generations,
         NEW selection \in LegalSelections(t, s)
  PROVE  /\ selection \in Selection
         /\ selection \in Move => selection \in MovesOf[generation][s]
         /\ selection = Switch => t[s].size > 1
  <1>1. /\ t[s].lum \in LastUsed /\ t[s].lum.move \in MovesOf[generation][s] \cup {NoMove}
        /\ t[s].size \in 1..MaxTeamSize
    BY DEF TeamInv, MemberInv
  <1>2. MovesOf[generation][s] \subseteq Move
    BY MovesOfAssumption
  <1>3. CASE SwitchDecisionRequired(t, s)
    BY <1>1, <1>3, SelectionAssumption, BoundsAssumption
      DEF LegalSelections, SwitchDecisionRequired, Selection
  <1>4. CASE ~SwitchDecisionRequired(t, s) /\ selection = Pass
    BY <1>4, SelectionAssumption DEF Selection, Pass, Switch
  <1>5. CASE ~SwitchDecisionRequired(t, s) /\ selection # Pass
    <2>1. CASE LockedIn(t[s].lum) # NoMove
      <3>1. selection = LockedIn(t[s].lum)
        BY <1>5, <2>1 DEF LegalSelections
      <3>2. selection \in MovesOf[generation][s]
        BY <1>1, <2>1, <3>1 DEF LockedIn
      <3> QED BY <1>2, <3>2, SelectionAssumption DEF Selection
    <2>2. CASE LockedIn(t[s].lum) = NoMove
      <3>1. selection \in MovesOf[generation][s] \cup (IF t[s].size > 1 THEN {Switch} ELSE {})
        BY <1>5, <2>2 DEF LegalSelections
      <3> QED BY <1>2, <3>1, SelectionAssumption DEF Selection
    <2> QED BY <2>1, <2>2
  <1> QED BY <1>3, <1>4, <1>5

\* The first State: nobody has used a move.
LEMMA InitInv == Init => Inv
  <1> SUFFICES ASSUME Init PROVE Inv
    OBVIOUS
  <1>1. Initial \in LastUsed /\ Initial.effect = "Empty" /\ Initial.turns = 0
        /\ Initial.move = NoMove /\ ~Initial.moved
    BY BoundsAssumption DEF Initial, LastUsed, Effects
  <1>2. LumInv(Initial) /\ ~IsImmobilizing(Initial)
    BY <1>1, NoEffect
  <1>3. \A s \in Side : team[s].lum = Initial /\ team[s].alive
    BY DEF Init
  <1>4. TeamInv(team)
    <2>1. team \in [Side -> [lum : LastUsed, alive : BOOLEAN, size : 1..MaxTeamSize]]
      BY <1>1 DEF Init
    <2>2. \A s \in Side : MemberInv(s, team[s])
      BY <1>1, <1>2, <1>3, <2>1 DEF MemberInv
    <2> QED BY <1>2, <1>3, <2>1, <2>2 DEF TeamInv, Teams, Side
  <1>5. ArgumentsInv
    BY SelectionAssumption DEF Init, ArgumentsInv, Phases, Side, Selection, Executing
  <1>6. BetweenTurnsInv
    BY <1>1, <1>3 DEF Init, BetweenTurnsInv, Lost, Fainted, Moved
  <1>7. ExecutingInv /\ AfterInv
    BY DEF Init, ExecutingInv, AfterInv, Executing
  <1> QED BY <1>4, <1>5, <1>6, <1>7 DEF Inv

\* Every outcome of an execution keeps Inv.
LEMMA OutcomeKeepsInv ==
  ASSUME Inv, generation' = generation, NEW t, NEW done, Outcome(t, done)
  PROVE  Inv'
  <1>0. /\ phase \in Executing /\ Executed(t, done) /\ TeamInv(t)
        /\ phase # "last" => \A s \in done : Excused(t, s)
        /\ \A s \in Side : Moved(team, s) => Moved(t, s)
        /\ ~DelayedSwitching(t, Other(actor))
        /\ DelayedSwitching(t, actor) => choice \in Pivots
        /\ PivotsAreHarmlessAtFirst /\ generation <= 3 /\ DelayedSwitching(t, actor)
             => t[actor].alive
    BY DEF Outcome
  <1>1. /\ phase' = AfterExecution(t) /\ team' = t /\ owed' = StillOwed(t, done)
        /\ UNCHANGED <<generation, first, actor, choice, continuation>>
    BY <1>0 DEF Executed, Turns
  <1>2. phase' \in {"won", "eot", "after"} /\ (phase' = "after" => Lost(t) = {} /\ phase # "last")
    BY <1>1 DEF AfterExecution
  <1>3. ArgumentsInv'
    BY <1>1, <1>2 DEF Inv, ArgumentsInv, Phases, StillOwed
  <1>4. TeamInv(team)'
    BY <1>0, <1>1, SameGeneration
  <1>5. BetweenTurnsInv' /\ ExecutingInv'
    BY <1>2 DEF BetweenTurnsInv, ExecutingInv, Executing
  <1>6. ASSUME phase' = "after", NEW s \in Side \ owed' PROVE Excused(t, s)
    <2>1. CASE generation <= 3 /\ Fainted(t) # {}
      BY <2>1 DEF Excused
    <2>2. CASE ~(generation <= 3 /\ Fainted(t) # {})
      <3>1. s \notin owed \/ s \in done \/ s \in Fainted(t)
        BY <1>1, <1>6, <2>2 DEF StillOwed
      <3>2. CASE s \notin owed
        <4>1. phase = "second"
          BY <1>0, <1>2, <1>6, <3>2 DEF Inv, ExecutingInv, Executing
        <4>2. s = first /\ Moved(team, first)
          BY <3>2, <4>1, TwoSides DEF Inv, ExecutingInv, Executing, ArgumentsInv
        <4> QED BY <1>0, <4>2 DEF Excused
      <3>3. CASE s \in done
        BY <1>0, <1>2, <1>6, <3>3
      <3>4. CASE s \in Fainted(t)
        BY <3>4 DEF Fainted, Excused
      <3> QED BY <3>1, <3>2, <3>3, <3>4
    <2> QED BY <2>1, <2>2
  <1>7. phase' = "after" => (actor # first => continuation = None /\ Moved(t, first))
    BY <1>0, <1>2 DEF Inv, ArgumentsInv, ExecutingInv, Executing
  <1>8. AfterInv'
    <2> SUFFICES ASSUME phase' = "after"
                 PROVE  /\ Lost(t) = {}
                        /\ actor # first => continuation = None /\ Moved(t, first)
                        /\ \A s \in Side \ owed' : Excused(t, s)
                        /\ ~DelayedSwitching(t, Other(actor))
                        /\ DelayedSwitching(t, actor) => choice \in Pivots
                        /\ PivotsAreHarmlessAtFirst /\ generation <= 3 /\ DelayedSwitching(t, actor)
                             => t[actor].alive
      BY <1>1 DEF AfterInv, Excused, Moved, Lost, Fainted, DelayedSwitching
    <2> QED BY <1>0, <1>2, <1>6, <1>7
  <1> QED BY <1>3, <1>4, <1>5, <1>8 DEF Inv

\* What holds of the actor and of the other one when a selection is executed.
LEMMA ExecutingFacts ==
  ASSUME Inv, phase \in Executing
  PROVE  /\ actor \in Side /\ generation \in Generations /\ TeamInv(team)
         /\ team[actor].alive
         /\ team \in [Side -> [lum : LastUsed, alive : BOOLEAN, size : 1..MaxTeamSize]]
         /\ \A s \in Side : MemberInv(s, team[s]) /\ LumInv(team[s].lum)
         /\ \A s \in Side : ~DelayedSwitching(team, s)
         /\ choice \in Move => choice \in MovesOf[generation][actor]
         /\ phase = "first" => actor = first /\ \A s \in Side : ~Moved(team, s)
         /\ phase = "second" => actor # first
  BY TwoSides DEF Inv, ArgumentsInv, ExecutingInv, TeamInv, Teams, MemberInv, Executing

LEMMA ExecutesNothingKeepsInv ==
  ASSUME Inv, generation' = generation, ExecutesNothing
  PROVE  Inv'
  <1>1. /\ phase \in Executing
        /\ phase' = (IF phase = "last" THEN "eot" ELSE "after")
        /\ UNCHANGED <<generation, team, first, actor, choice, continuation, owed>>
    BY DEF ExecutesNothing
  <1>2. ArgumentsInv' /\ BetweenTurnsInv' /\ ExecutingInv'
    BY <1>1 DEF Inv, ArgumentsInv, BetweenTurnsInv, ExecutingInv, Phases, Executing
  <1>3. TeamInv(team)'
    BY <1>1, SameGeneration DEF Inv
  <1>4. ASSUME phase' = "after"
        PROVE  /\ Lost(team) = {}
               /\ actor # first => continuation = None /\ Moved(team, first)
               /\ \A s \in Side \ owed : Excused(team, s)
               /\ \A s \in Side : ~DelayedSwitching(team, s)
    <2>1. CASE phase = "first"
      BY <1>1, <2>1 DEF Inv, ExecutingInv
    <2>2. CASE phase = "second"
      <3>1. /\ actor = Other(first) /\ actor \in owed /\ Moved(team, first) /\ continuation = None
            /\ Lost(team) = {} /\ \A s \in Side : ~DelayedSwitching(team, s)
        BY <1>1, <2>2 DEF Inv, ExecutingInv
      <3>2. \A s \in Side \ owed : s = first
        BY <3>1, TwoSides DEF Inv, ArgumentsInv
      <3> QED BY <3>1, <3>2 DEF Excused
    <2> QED BY <1>1, <1>4, <2>1, <2>2 DEF Executing
  <1>5. AfterInv'
    <2>1. actor \in Side /\ Other(actor) \in Side
      BY TwoSides DEF Inv, ArgumentsInv
    <2>2. phase' = "after" => /\ ~DelayedSwitching(team, Other(actor))
                              /\ ~DelayedSwitching(team, actor)
      BY <1>4, <2>1
    <2> QED BY <1>1, <1>4, <2>2 DEF AfterInv, Excused, Moved, Lost, Fainted, DelayedSwitching
  <1> QED BY <1>2, <1>3, <1>5 DEF Inv

LEMMA ExecutesSwitchOutcome ==
  ASSUME Inv, NEW faints \in BOOLEAN, ExecutesSwitch(faints)
  PROVE  \E t, done : Outcome(t, done)
  <1> DEFINE t == SwitchPokemon(team, actor, faints)
             o == Other(actor)
  <1>1. phase \in Executing /\ Executed(t, {actor})
    BY DEF ExecutesSwitch
  <1>2. /\ actor \in Side /\ TeamInv(team) /\ team[actor].alive
        /\ \A s \in Side : ~DelayedSwitching(team, s)
    BY <1>1, ExecutingFacts
  <1>3. o \in Side /\ Side = {actor, o}
    BY <1>2, TwoSides
  <1>4. /\ TeamInv(t) /\ Moved(t, actor) /\ ~IsDelayedSwitching(t[actor].lum)
        /\ (Moved(t, o) <=> Moved(team, o)) /\ t[o].size = team[o].size
        /\ (IsDelayedSwitching(t[o].lum) <=> IsDelayedSwitching(team[o].lum))
        /\ (IsProtecting(t[o].lum) <=> IsProtecting(team[o].lum))
        /\ t[o].lum.move = team[o].lum.move /\ ~IsProtecting(t[actor].lum)
        /\ t[actor].size = team[actor].size /\ (t[o].alive <=> team[o].alive)
    <2>1. t = SwitchPokemon(team, actor, faints) /\ o = Other(actor)
      OBVIOUS
    <2> HIDE DEF t, o
    <2> QED BY <1>2, <2>1, SwitchKeeps
  <1> HIDE DEF t
  <1>5. ~DelayedSwitching(t, o) /\ ~DelayedSwitching(t, actor)
    BY <1>2, <1>3, <1>4 DEF DelayedSwitching
  <1>6. \A s \in {actor} : Excused(t, s)
    BY <1>4 DEF Excused
  <1>7. \A s \in Side : /\ Moved(team, s) => Moved(t, s)
                        /\ Moved(t, s) => Moved(team, s) \/ s \in {actor}
                        /\ t[s].alive => team[s].alive
                        /\ t[s].size = team[s].size
    BY <1>2, <1>3, <1>4
  <1>8. ProtectsWith(team[o].lum) => \A s \in Side : ProtectsWith(t[s].lum)
    BY <1>3, <1>4 DEF ProtectsWith
  <1>9. Outcome(t, {actor})
    BY <1>1, <1>2, <1>4, <1>5, <1>6, <1>7, <1>8 DEF Outcome
  <1> QED BY <1>9

\* A State in which the actor and the other one have become a and b.
LEMMA PairOutcome ==
  ASSUME Inv, phase \in Executing,
         NEW a, NEW b, NEW t, NEW done \in SUBSET Side, Executed(t, done), actor \in done,
         t = [x \in Side |-> IF x = actor THEN a ELSE b],
         MemberInv(actor, a), MemberInv(Other(actor), b),
         ~(IsImmobilizing(a.lum) /\ IsImmobilizing(b.lum)),
         team[actor].lum.moved => a.lum.moved,
         team[Other(actor)].lum.moved => b.lum.moved,
         b.lum.moved => team[Other(actor)].lum.moved \/ Other(actor) \in done,
         ~(b.size # 1 /\ IsDelayedSwitching(b.lum)),
         phase # "last" => \A s \in done : Excused(t, s),
         a.size # 1 /\ IsDelayedSwitching(a.lum) => choice \in Pivots,
         PivotsAreHarmlessAtFirst /\ generation <= 3 /\ a.size # 1 /\ IsDelayedSwitching(a.lum)
           => a.alive,
         \/ a.lum.moved
         \/ /\ phase # "first" /\ IsProtecting(team[Other(actor)].lum)
            /\ choice \in Blockable /\ (choice \in SelfDestructing => ~a.alive),
         a.size = team[actor].size,
         b.alive => team[Other(actor)].alive, b.size = team[Other(actor)].size,
         ~IsProtecting(team[actor].lum) => ProtectsWith(a.lum),
         ProtectsWith(team[Other(actor)].lum) => ProtectsWith(b.lum)
  PROVE  Outcome(t, done)
  <1>1. actor \in Side /\ Side = {actor, Other(actor)}
    BY ExecutingFacts, TwoSides
  <1>2. TeamInv(t) /\ t[actor] = a /\ t[Other(actor)] = b
    BY <1>1, Pair
  <1>3. \A s \in Side : /\ Moved(team, s) => Moved(t, s)
                        /\ Moved(t, s) => Moved(team, s) \/ s \in done
                        /\ t[s].alive => team[s].alive
                        /\ t[s].size = team[s].size
    BY <1>1, <1>2, ExecutingFacts DEF Moved
  <1>4. ~DelayedSwitching(t, Other(actor))
    BY <1>2 DEF DelayedSwitching
  <1>5. /\ DelayedSwitching(t, actor) => choice \in Pivots
        /\ PivotsAreHarmlessAtFirst /\ generation <= 3 /\ DelayedSwitching(t, actor)
             => t[actor].alive
    BY <1>2 DEF DelayedSwitching
  <1>6. ~IsProtecting(team[actor].lum) /\ ProtectsWith(team[Other(actor)].lum) =>
          \A s \in Side : ProtectsWith(t[s].lum)
    BY <1>1, <1>2
  <1> QED BY <1>2, <1>3, <1>4, <1>5, <1>6 DEF Outcome, Moved

LEMMA MoveIsUnsuccessfulOutcome ==
  ASSUME Inv, NEW faints \in BOOLEAN, MoveIsUnsuccessful(faints)
  PROVE  \E t, done : Outcome(t, done)
  <1> DEFINE o == Other(actor)
             failed == UnsuccessfulMove(Recharge(team[actor].lum), choice)
             a == [lum |-> failed, alive |-> ~faints, size |-> team[actor].size]
             t == [team EXCEPT ![actor].lum = UnsuccessfulMove(Recharge(@), choice),
                               ![actor].alive = ~faints]
  <1>1. phase \in Executing /\ choice \in Move /\ Executed(t, {actor})
    BY DEF MoveIsUnsuccessful, UsesMove
  <1>2. /\ actor \in Side /\ TeamInv(team)
        /\ team \in [Side -> [lum : LastUsed, alive : BOOLEAN, size : 1..MaxTeamSize]]
        /\ \A s \in Side : MemberInv(s, team[s]) /\ LumInv(team[s].lum)
        /\ \A s \in Side : ~DelayedSwitching(team, s)
        /\ choice \in MovesOf[generation][actor]
    BY <1>1, ExecutingFacts
  <1>3. o \in Side /\ Side = {actor, o} /\ o # actor
    BY <1>2, TwoSides
  <1>4. /\ LumInv(failed) /\ ~IsImmobilizing(failed) /\ ~IsProtecting(failed)
        /\ failed.moved /\ failed.successes = 0 /\ failed.move = choice
    <2>1. Recharge(team[actor].lum) \in LastUsed
      BY <1>2, RechargeFields
    <2> QED BY <1>1, <2>1, UnsuccessfulMoveFields
  <1>5. t = [x \in Side |-> IF x = actor THEN a ELSE team[o]]
    <2>1. t[actor] = a
      BY <1>2
    <2>2. t[o] = team[o]
      BY <1>2, <1>3
    <2>3. t = [x \in Side |-> t[x]]
      BY <1>2
    <2> QED BY <1>3, <2>1, <2>2, <2>3
  <1> HIDE DEF failed, t
  <1>6. MemberInv(actor, a)
    BY <1>2, <1>4 DEF MemberInv, LumInv
  <1>7. /\ ~IsDelayedSwitching(a.lum) /\ ~IsImmobilizing(a.lum) /\ a.lum.moved
        /\ ProtectsWith(a.lum) /\ a.size = team[actor].size
    BY <1>4, NotDelayed DEF ProtectsWith
  <1> HIDE DEF a, o
  <1>8. \A s \in {actor} : Excused(t, s)
    BY <1>2, <1>5, <1>7 DEF Excused, Moved
  <1>9. ~(team[o].size # 1 /\ IsDelayedSwitching(team[o].lum))
    BY <1>2, <1>3 DEF DelayedSwitching
  <1>10. MemberInv(o, team[o])
    BY <1>2, <1>3
  <1>11. Outcome(t, {actor})
    BY <1>1, <1>2, <1>5, <1>6, <1>7, <1>8, <1>9, <1>10, PairOutcome DEF o
  <1> QED BY <1>11

\* In its own turn a Pokemon only runs into Protect after the other has moved.
LEMMA BlockedByProtectOutcome ==
  ASSUME Inv, NEW faints \in BOOLEAN, BlockedByProtect(faints)
  PROVE  \E t, done : Outcome(t, done)
  <1> DEFINE o == Other(actor)
             a == [team[actor] EXCEPT !.alive = ~faints]
             t == [team EXCEPT ![actor].alive = ~faints]
  <1>1. /\ phase \in Executing /\ IsProtecting(team[o].lum) /\ Executed(t, {actor})
        /\ choice \in Blockable /\ faints = (choice \in SelfDestructing)
    BY DEF BlockedByProtect, Blocked, CanExecute, CanAttempt, UsesMove
  <1>2. /\ actor \in Side /\ TeamInv(team)
        /\ team \in [Side -> [lum : LastUsed, alive : BOOLEAN, size : 1..MaxTeamSize]]
        /\ \A s \in Side : MemberInv(s, team[s]) /\ LumInv(team[s].lum)
        /\ \A s \in Side : ~DelayedSwitching(team, s)
        /\ phase = "first" => actor = first /\ \A s \in Side : ~Moved(team, s)
        /\ phase = "second" => actor # first
    BY <1>1, ExecutingFacts
  <1>3. o \in Side /\ Side = {actor, o} /\ o # actor
    BY <1>2, TwoSides
  <1>4. t = [x \in Side |-> IF x = actor THEN a ELSE team[o]]
    BY <1>2, <1>3
  <1>5. a.lum = team[actor].lum /\ a.size = team[actor].size /\ a.alive = ~faints
        /\ a \in [lum : LastUsed, alive : BOOLEAN, size : 1..MaxTeamSize]
    BY <1>2
  <1>6. phase # "first"
    BY <1>1, <1>2, <1>3 DEF LumInv, Moved
  <1> HIDE DEF a, t
  <1>7. MemberInv(actor, a)
    BY <1>2, <1>5 DEF MemberInv
  <1>8. phase # "last" => \A s \in {actor} : Excused(t, s)
    BY <1>1, <1>2, <1>3, <1>4, <1>6 DEF Excused, Executing
  <1>9. ~(IsImmobilizing(a.lum) /\ IsImmobilizing(team[o].lum))
    BY <1>2, <1>3, <1>5 DEF TeamInv
  <1>10. ~(team[o].size # 1 /\ IsDelayedSwitching(team[o].lum))
    BY <1>2, <1>3 DEF DelayedSwitching
  <1>11. ~(a.size # 1 /\ IsDelayedSwitching(a.lum))
    BY <1>2, <1>5 DEF DelayedSwitching
  <1>12. MemberInv(o, team[o])
    BY <1>2, <1>3
  <1>13. choice \in SelfDestructing => ~a.alive
    BY <1>1, <1>5
  <1>14. ~IsProtecting(team[actor].lum) => ProtectsWith(a.lum)
    BY <1>5 DEF ProtectsWith
  <1> HIDE DEF o
  <1>15. Outcome(t, {actor})
    BY <1>1, <1>2, <1>4, <1>5, <1>6, <1>7, <1>8, <1>9, <1>10, <1>11, <1>12, <1>13, <1>14,
       PairOutcome DEF o
  <1> QED BY <1>15

\* Until generation 3 no attack is followed by a switch, so that a Pokemon that
\* has to switch has not fainted from its own move.
LEMMA UsesDamagingMoveOutcome ==
  ASSUME Inv,
         NEW userFaints \in BOOLEAN, NEW otherFaints \in BOOLEAN, NEW flinches \in BOOLEAN,
         UsesDamagingMove(userFaints, otherFaints, flinches)
  PROVE  \E t, done : Outcome(t, done)
  <1> DEFINE o == Other(actor)
             after == SuccessfulMove(team[actor].lum, choice, choice, FALSE, FALSE, FALSE)
             hit == IF flinches THEN Unsuccessful(team[o].lum) ELSE team[o].lum
             a == [lum |-> after, alive |-> ~userFaints, size |-> team[actor].size]
             b == [lum |-> hit, alive |-> team[o].alive /\ ~otherFaints, size |-> team[o].size]
             t == SuccessfulDamage(userFaints, otherFaints, flinches)
             done == {actor} \cup IF flinches THEN {o} ELSE {}
  <1>1. /\ phase \in Executing /\ choice \in Move /\ choice \in Damaging
        /\ ~IsImmobilizing(team[o].lum) /\ Executed(t, done)
    BY DEF UsesDamagingMove, Reaches, CanExecute, CanAttempt, UsesMove
  <1>2. /\ actor \in Side /\ generation \in Generations /\ TeamInv(team)
        /\ team \in [Side -> [lum : LastUsed, alive : BOOLEAN, size : 1..MaxTeamSize]]
        /\ \A s \in Side : MemberInv(s, team[s]) /\ LumInv(team[s].lum)
        /\ \A s \in Side : ~DelayedSwitching(team, s)
        /\ choice \in MovesOf[generation][actor]
    BY <1>1, ExecutingFacts
  <1>3. o \in Side /\ Side = {actor, o} /\ o # actor /\ Other(o) = actor
    BY <1>2, TwoSides
  <1>4. LumInv(after) /\ after.moved /\ after.move = choice
        /\ (~IsProtecting(team[actor].lum) => ProtectsWith(after))
    BY <1>1, <1>2, SuccessfulMoveFields
  <1>5. /\ LumInv(hit) /\ ~IsImmobilizing(hit) /\ hit.move = team[o].lum.move
        /\ (flinches => hit.moved /\ hit.successes = 0 /\ ~IsProtecting(hit))
        /\ (~flinches => hit = team[o].lum)
    <2>1. team[o].lum \in LastUsed /\ LumInv(team[o].lum)
      BY <1>2, <1>3
    <2>2. CASE flinches
      BY <2>1, <2>2, UnsuccessfulFields
    <2>3. CASE ~flinches
      BY <1>1, <2>1, <2>3
    <2> QED BY <2>2, <2>3
  <1>6. t = [x \in Side |-> IF x = actor THEN a ELSE b]
    <2>1. t = [team EXCEPT ![actor].lum = after, ![actor].alive = ~userFaints,
                           ![o].alive = @ /\ ~otherFaints,
                           ![o].lum = IF flinches THEN Unsuccessful(@) ELSE @]
      BY DEF SuccessfulDamage
    <2> HIDE DEF t, after
    <2>2. t[actor] = a
      BY <1>2, <1>3, <2>1
    <2>3. t[o] = b
      BY <1>2, <1>3, <2>1
    <2>4. t = [x \in Side |-> t[x]]
      BY <1>2, <2>1
    <2> QED BY <1>3, <2>2, <2>3, <2>4
  <1> HIDE DEF after, hit, t
  <1>7. MemberInv(actor, a)
    BY <1>2, <1>4 DEF MemberInv, LumInv
  <1>8. MemberInv(o, b)
    BY <1>2, <1>3, <1>5 DEF MemberInv, LumInv
  <1>9. ~(b.size # 1 /\ IsDelayedSwitching(b.lum))
    BY <1>2, <1>3, <1>5, NotDelayed DEF DelayedSwitching
  <1>10. phase # "last" => \A s \in done : Excused(t, s)
    BY <1>2, <1>3, <1>4, <1>5, <1>6 DEF Excused, Moved
  <1>11. /\ a.size # 1 /\ IsDelayedSwitching(a.lum) => choice \in Pivots
         /\ PivotsAreHarmlessAtFirst /\ generation <= 3 /\ a.size # 1 /\ IsDelayedSwitching(a.lum)
              => a.alive
    <2>1. IsDelayedSwitching(after) => choice \in Pivots
      BY <1>1, <1>4 DEF Pivots, IsDelayedSwitching, IsDelayedSwitch
    <2>2. ~(PivotsAreHarmlessAtFirst /\ generation <= 3 /\ IsDelayedSwitching(after))
      BY <1>1, <1>2, <2>1 DEF PivotsAreHarmlessAtFirst
    <2> QED BY <2>1, <2>2
  <1>12. ~(IsImmobilizing(a.lum) /\ IsImmobilizing(b.lum))
    BY <1>5
  <1>13. /\ a.lum.moved /\ (team[o].lum.moved => b.lum.moved)
         /\ (b.lum.moved => team[o].lum.moved \/ o \in done) /\ actor \in done
         /\ (b.alive => team[o].alive) /\ a.size = team[actor].size /\ b.size = team[o].size
    BY <1>4, <1>5
  <1>14. done \in SUBSET Side
    BY <1>2, <1>3
  <1>15. /\ ~IsProtecting(team[actor].lum) => ProtectsWith(a.lum)
         /\ ProtectsWith(team[o].lum) => ProtectsWith(b.lum)
    BY <1>4, <1>5 DEF ProtectsWith
  <1> HIDE DEF a, b, done, o
  <1>16. Outcome(t, done)
    BY <1>1, <1>6, <1>7, <1>8, <1>9, <1>10, <1>11, <1>12, <1>13, <1>14, <1>15, PairOutcome DEF o
  <1> QED BY <1>16

\* What a status move leaves behind
LEMMA SuccessfulStatusFields ==
  ASSUME Inv, CanExecute, NEW o, o = Other(actor)
  PROVE  \E a :
           /\ SuccessfulStatus = [x \in Side |-> IF x = actor THEN a ELSE team[o]]
           /\ MemberInv(actor, a) /\ MemberInv(o, team[o])
           /\ ~(IsImmobilizing(a.lum) /\ IsImmobilizing(team[o].lum))
           /\ a.lum.moved /\ a.alive /\ a.size = team[actor].size
           /\ IsDelayedSwitching(a.lum) => choice \in Pivots
           /\ ~(team[o].size # 1 /\ IsDelayedSwitching(team[o].lum))
           /\ ~IsProtecting(team[actor].lum) => ProtectsWith(a.lum)
  <1> DEFINE after == SuccessfulMove(team[actor].lum, choice, choice, FALSE, FALSE, FALSE)
             a == [lum |-> after, alive |-> TRUE, size |-> team[actor].size]
  <1>1. /\ phase \in Executing /\ choice \in Move /\ ~IsImmobilizing(team[o].lum)
    BY DEF CanExecute, CanAttempt, UsesMove
  <1>2. /\ actor \in Side /\ generation \in Generations /\ TeamInv(team) /\ team[actor].alive
        /\ team \in [Side -> [lum : LastUsed, alive : BOOLEAN, size : 1..MaxTeamSize]]
        /\ \A s \in Side : MemberInv(s, team[s]) /\ LumInv(team[s].lum)
        /\ \A s \in Side : ~DelayedSwitching(team, s)
        /\ choice \in MovesOf[generation][actor]
    BY <1>1, ExecutingFacts
  <1>3. o \in Side /\ Side = {actor, o} /\ o # actor
    BY <1>2, TwoSides
  <1>4. LumInv(after) /\ after.moved /\ after.move = choice
        /\ (~IsProtecting(team[actor].lum) => ProtectsWith(after))
    BY <1>1, <1>2, SuccessfulMoveFields
  <1>5. SuccessfulStatus = [x \in Side |-> IF x = actor THEN a ELSE team[o]]
    <2>1. SuccessfulStatus = [team EXCEPT ![actor].lum = after]
      BY DEF SuccessfulStatus
    <2> HIDE DEF after
    <2>2. SuccessfulStatus[actor] = a
      BY <1>2, <2>1
    <2>3. SuccessfulStatus[o] = team[o]
      BY <1>2, <1>3, <2>1
    <2>4. SuccessfulStatus = [x \in Side |-> SuccessfulStatus[x]]
      BY <1>2, <2>1
    <2> QED BY <1>3, <2>2, <2>3, <2>4
  <1> HIDE DEF after
  <1>6. MemberInv(actor, a)
    BY <1>2, <1>4 DEF MemberInv, LumInv
  <1>7. ~(team[o].size # 1 /\ IsDelayedSwitching(team[o].lum))
    BY <1>2, <1>3 DEF DelayedSwitching
  <1>8. a.lum = after /\ a.alive /\ a.size = team[actor].size /\ MemberInv(o, team[o])
    BY <1>2, <1>3
  <1>9. IsDelayedSwitching(after) => choice \in Pivots
    BY <1>1, <1>4 DEF Pivots, IsDelayedSwitching, IsDelayedSwitch
  <1> HIDE DEF a
  <1> QED BY <1>1, <1>4, <1>5, <1>6, <1>7, <1>8, <1>9

LEMMA UsesStatusMoveOutcome ==
  ASSUME Inv, UsesStatusMove
  PROVE  \E t, done : Outcome(t, done)
  <1> DEFINE o == Other(actor)
             t == SuccessfulStatus
  <1>1. CanExecute /\ phase \in Executing /\ Executed(t, {actor})
    BY DEF UsesStatusMove, Reaches, CanExecute, CanAttempt, UsesMove
  <1>2. actor \in Side /\ o \in Side
    BY <1>1, ExecutingFacts, TwoSides
  <1> HIDE DEF o, t
  <1>3. PICK a :
        /\ t = [x \in Side |-> IF x = actor THEN a ELSE team[o]]
        /\ MemberInv(actor, a) /\ MemberInv(o, team[o])
        /\ ~(IsImmobilizing(a.lum) /\ IsImmobilizing(team[o].lum))
        /\ a.lum.moved /\ a.alive /\ a.size = team[actor].size
        /\ (IsDelayedSwitching(a.lum) => choice \in Pivots)
        /\ ~(team[o].size # 1 /\ IsDelayedSwitching(team[o].lum))
        /\ (~IsProtecting(team[actor].lum) => ProtectsWith(a.lum))
    BY <1>1, SuccessfulStatusFields DEF o, t
  <1>4. \A s \in {actor} : Excused(t, s)
    BY <1>2, <1>3 DEF Excused, Moved
  <1>5. Outcome(t, {actor})
    BY <1>1, <1>2, <1>3, <1>4, PairOutcome DEF o
  <1> QED BY <1>5

\* Who is dragged in counts as having moved.
LEMMA UsesPhazingMoveOutcome ==
  ASSUME Inv, NEW faints \in BOOLEAN, UsesPhazingMove(faints)
  PROVE  \E t, done : Outcome(t, done)
  <1> DEFINE o == Other(actor)
             used == SuccessfulStatus
             t == SwitchPokemon(used, o, faints)
  <1>1. /\ CanExecute /\ phase \in Executing /\ Executed(t, Side)
        /\ team[o].alive
    BY DEF UsesPhazingMove, Reaches, CanExecute, CanAttempt, UsesMove
  <1>2. actor \in Side /\ o \in Side /\ Other(o) = actor /\ Side = {actor, o} /\ o # actor
    BY <1>1, ExecutingFacts, TwoSides
  <1>3. t = SwitchPokemon(used, o, faints)
    OBVIOUS
  <1> HIDE DEF o, t, used
  <1>4. PICK a :
        /\ used = [x \in Side |-> IF x = actor THEN a ELSE team[o]]
        /\ MemberInv(actor, a) /\ MemberInv(o, team[o])
        /\ ~(IsImmobilizing(a.lum) /\ IsImmobilizing(team[o].lum))
        /\ a.lum.moved /\ a.alive /\ a.size = team[actor].size
        /\ (IsDelayedSwitching(a.lum) => choice \in Pivots)
        /\ (~IsProtecting(team[actor].lum) => ProtectsWith(a.lum))
    BY <1>1, SuccessfulStatusFields DEF o, used
  <1>5. TeamInv(used) /\ used[actor] = a /\ used[o] = team[o]
    BY <1>2, <1>4, Pair DEF o
  <1>6. /\ TeamInv(t) /\ Moved(t, o) /\ ~IsDelayedSwitching(t[o].lum)
        /\ (Moved(t, actor) <=> Moved(used, actor)) /\ (t[actor].alive <=> used[actor].alive)
        /\ ~IsProtecting(t[o].lum) /\ (IsProtecting(t[actor].lum) <=> IsProtecting(used[actor].lum))
        /\ t[actor].lum.move = used[actor].lum.move
        /\ (IsDelayedSwitching(t[actor].lum) <=> IsDelayedSwitching(used[actor].lum))
        /\ t[actor].size = used[actor].size /\ t[o].size = used[o].size
    BY <1>1, <1>2, <1>3, <1>5, SwitchKeeps
  <1>7. Moved(t, actor) /\ t[actor].alive
    BY <1>4, <1>5, <1>6 DEF Moved
  <1>8. \A s \in Side : Moved(t, s) /\ Excused(t, s)
    BY <1>2, <1>6, <1>7 DEF Excused
  <1>9. ~DelayedSwitching(t, o) /\ (DelayedSwitching(t, actor) => choice \in Pivots)
    BY <1>4, <1>5, <1>6 DEF DelayedSwitching
  <1>10. \A s \in Side : (t[s].alive => team[s].alive) /\ t[s].size = team[s].size
    BY <1>1, <1>2, <1>4, <1>5, <1>6, ExecutingFacts
  <1>11. ~IsProtecting(team[actor].lum) => \A s \in Side : ProtectsWith(t[s].lum)
    BY <1>2, <1>4, <1>5, <1>6 DEF ProtectsWith
  <1>12. Outcome(t, Side)
    BY <1>1, <1>2, <1>6, <1>7, <1>8, <1>9, <1>11, <1>10 DEF Outcome, o
  <1> QED BY <1>12

\* An execution with an effect has an outcome.
LEMMA ExecutesOutcome ==
  ASSUME Inv, Executes, ~ExecutesNothing
  PROVE  \E t, done : Outcome(t, done)
  <1>1. ASSUME NEW faints \in BOOLEAN,
               \/ ExecutesSwitch(faints) \/ MoveIsUnsuccessful(faints)
               \/ BlockedByProtect(faints) \/ UsesPhazingMove(faints)
        PROVE  \E t, done : Outcome(t, done)
    BY <1>1, ExecutesSwitchOutcome, MoveIsUnsuccessfulOutcome, BlockedByProtectOutcome,
       UsesPhazingMoveOutcome
  <1>2. CASE \E userFaints, otherFaints, flinches \in BOOLEAN :
               UsesDamagingMove(userFaints, otherFaints, flinches)
    BY <1>2, UsesDamagingMoveOutcome
  <1>3. CASE UsesStatusMove
    BY <1>3, UsesStatusMoveOutcome
  <1> QED BY <1>1, <1>2, <1>3 DEF Executes

\* order_branch: nobody has fainted or moved when a turn starts.
LEMMA StartOfTurnKeepsInv ==
  ASSUME Inv, generation' = generation,
         NEW selections \in [Side -> Selection], NEW s \in Side, StartOfTurn(selections, s)
  PROVE  Inv'
  <1> DEFINE o == Other(s)
  <1>1. /\ phase = "start" /\ phase' = "first" /\ first' = s /\ actor' = s
        /\ choice' = selections[s] /\ continuation' = selections[o] /\ owed' = Side
        /\ UNCHANGED <<generation, team>>
        /\ \A side \in Side : selections[side] \in LegalSelections(team, side)
    BY DEF StartOfTurn
  <1>2. /\ TeamInv(team) /\ generation \in Generations /\ Lost(team) = {} /\ Fainted(team) = {}
        /\ \A x \in Side : ~Moved(team, x)
    BY <1>1 DEF Inv, ArgumentsInv, BetweenTurnsInv
  <1>3. o \in Side
    BY TwoSides
  <1>4. \A x \in Side : /\ selections[x] \in Selection
                        /\ selections[x] \in Move => selections[x] \in MovesOf[generation][x]
    BY <1>1, <1>2, LegalIsKnown
  <1>5. ArgumentsInv'
    BY <1>1, <1>2, <1>3, <1>4 DEF ArgumentsInv, Phases, Executing
  <1>6. TeamInv(team)'
    BY <1>1, <1>2, SameGeneration
  <1>7. \A x \in Side : ~DelayedSwitching(team, x) /\ team[x].alive
    BY <1>2, NotDelayed, NobodyFainted DEF DelayedSwitching, Moved
  <1>8. ExecutingInv'
    BY <1>1, <1>2, <1>7
      DEF ExecutingInv, Executing, Lost, Fainted, Moved, DelayedSwitching
  <1>9. BetweenTurnsInv' /\ AfterInv'
    BY <1>1 DEF BetweenTurnsInv, AfterInv
  <1> QED BY <1>5, <1>6, <1>8, <1>9 DEF Inv

\* Where the recursion neither executes nor asks, the State only has to be one.
LEMMA OutsideKeepsInv ==
  ASSUME Inv, generation' = generation, NEW t, TeamInv(t), team' = t,
         phase' \in {"eot", "won", "dropped", "failed"},
         UNCHANGED <<first, actor, choice, continuation>>, owed' \in SUBSET Side
  PROVE  Inv'
  <1>1. ArgumentsInv'
    BY DEF Inv, ArgumentsInv, Phases, Executing
  <1>2. TeamInv(team)'
    BY SameGeneration
  <1>3. BetweenTurnsInv' /\ ExecutingInv' /\ AfterInv'
    BY DEF BetweenTurnsInv, ExecutingInv, Executing, AfterInv
  <1> QED BY <1>1, <1>2, <1>3 DEF Inv

\* Only the Pokemon that has just acted may have to switch.
LEMMA DelayedSwitcherActed ==
  ASSUME Inv, SwitchesMidTurn
  PROVE  /\ DelayedSwitcher = actor /\ actor \in Side /\ DelayedSwitching(team, actor)
         /\ TeamInv(team) /\ generation \in Generations
         /\ ~DelayedSwitching(team, Other(actor))
         /\ choice \in Pivots /\ first \in Side /\ (actor # first => Moved(team, first))
  <1>1. phase = "after" /\ SomebodyIsDelayed
    BY DEF SwitchesMidTurn
  <1>2. actor \in Side /\ TeamInv(team) /\ generation \in Generations
        /\ ~DelayedSwitching(team, Other(actor))
    BY <1>1 DEF Inv, ArgumentsInv, AfterInv
  <1>3. DelayedSwitching(team, actor)
    BY <1>1, <1>2, TwoSides DEF SomebodyIsDelayed
  <1>4. DelayedSwitcher = actor
    BY <1>2, <1>3 DEF DelayedSwitcher, Side, Other
  <1>5. choice \in Pivots /\ first \in Side /\ (actor # first => Moved(team, first))
    BY <1>1, <1>3 DEF Inv, ArgumentsInv, AfterInv
  <1> QED BY <1>2, <1>3, <1>4, <1>5

\* The State after the delayed switch
LEMMA AfterDelayedSwitchFields ==
  ASSUME Inv, SwitchesMidTurn, NEW t \in AfterDelayedSwitch, NEW o, o = Other(actor)
  PROVE  /\ TeamInv(t) /\ \A s \in Side : ~DelayedSwitching(t, s)
         /\ (t[o].alive <=> team[o].alive) /\ (Moved(t, o) <=> Moved(team, o))
         /\ Moved(t, actor)
         /\ t[actor].size = (IF team[actor].alive THEN team[actor].size ELSE team[actor].size - 1)
         /\ t[o].size = team[o].size
         /\ \A s \in Side : ProtectsWith(team[s].lum) => ProtectsWith(t[s].lum)
  <1>1. /\ DelayedSwitcher = actor /\ actor \in Side /\ DelayedSwitching(team, actor)
        /\ TeamInv(team) /\ ~DelayedSwitching(team, o)
    BY DelayedSwitcherActed
  <1>2. PICK faints \in HazardsMayFaint : t = SwitchPokemon(team, actor, faints)
    BY <1>1 DEF AfterDelayedSwitch
  <1>3. faints \in BOOLEAN
    BY DEF HazardsMayFaint
  <1>4. team[actor].size # 1
    BY <1>1 DEF DelayedSwitching
  <1>5. /\ TeamInv(t) /\ ~IsDelayedSwitching(t[actor].lum)
        /\ (t[o].alive <=> team[o].alive) /\ (Moved(t, o) <=> Moved(team, o))
        /\ t[o].size = team[o].size
        /\ (IsDelayedSwitching(t[o].lum) <=> IsDelayedSwitching(team[o].lum))
        /\ (Moved(t, actor) <=> team[actor].alive \/ Moved(team, actor))
        /\ t[actor].size = (IF team[actor].alive THEN team[actor].size ELSE team[actor].size - 1)
        /\ ~IsProtecting(t[actor].lum) /\ t[o].lum.move = team[o].lum.move
        /\ (IsProtecting(t[o].lum) <=> IsProtecting(team[o].lum))
    BY <1>1, <1>2, <1>3, <1>4, SwitchKeeps
  <1>6. ~DelayedSwitching(t, actor) /\ ~DelayedSwitching(t, o)
    BY <1>1, <1>5 DEF DelayedSwitching
  <1>7. Side = {actor, o}
    BY <1>1, TwoSides
  <1>8. Moved(team, actor)
    BY <1>1 DEF DelayedSwitching, IsDelayedSwitching, Moved
  <1>9. \A s \in Side : ProtectsWith(team[s].lum) => ProtectsWith(t[s].lum)
    BY <1>5, <1>7 DEF ProtectsWith
  <1> QED BY <1>5, <1>6, <1>7, <1>8, <1>9

\* The branch is over: nothing executes after it.
LEMMA DelayedSwitchEndsKeepsInv ==
  ASSUME Inv, generation' = generation, NEW t \in AfterDelayedSwitch,
         DelayedSwitchEndsTurn(t) \/ DelayedSwitchThenNoSelection(t)
  PROVE  Inv'
  <1>1. /\ SwitchesMidTurn /\ phase' \in {"eot", "won", "dropped"} /\ team' = t
        /\ owed' = StillOwed(t, {}) /\ UNCHANGED <<first, actor, choice, continuation>>
    BY DEF DelayedSwitchEndsTurn, DelayedSwitchThenNoSelection, Turns
  <1>2. TeamInv(t)
    BY <1>1, AfterDelayedSwitchFields
  <1>3. owed' \in SUBSET Side
    BY <1>1 DEF StillOwed, Inv, ArgumentsInv
  <1> QED BY <1>1, <1>2, <1>3, OutsideKeepsInv

\* Who acts last has neither moved nor fainted, and so still owes an action.
LEMMA DelayedSwitchThenLastActionKeepsInv ==
  ASSUME Inv, generation' = generation, NEW t \in AfterDelayedSwitch,
         DelayedSwitchThenLastAction(t)
  PROVE  Inv'
  <1> DEFINE o == Other(actor)
  <1>1. SwitchesMidTurn /\ phase = "after"
    BY DEF DelayedSwitchThenLastAction, SwitchesMidTurn
  <1>2. /\ DelayedSwitcher = actor /\ actor \in Side /\ DelayedSwitching(team, actor)
        /\ TeamInv(team) /\ generation \in Generations
    BY <1>1, DelayedSwitcherActed
  <1>3. o \in Side /\ o # actor /\ Other(o) = actor /\ Side = {actor, o}
    BY <1>2, TwoSides
  <1>4. /\ TeamInv(t) /\ \A s \in Side : ~DelayedSwitching(t, s)
        /\ (t[o].alive <=> team[o].alive) /\ (Moved(t, o) <=> Moved(team, o))
    BY <1>1, AfterDelayedSwitchFields
  <1>5. /\ choice' \in LastSelections(o) /\ actor' = o /\ continuation' = None
        /\ phase' = IF ValidLastAction(t, o) THEN "last" ELSE "failed"
        /\ team' = t /\ owed' = StillOwed(t, {}) /\ first' = first
        /\ Lost(t) = {} /\ ~EndsTurnAfterSwitch(t, actor)
    BY <1>2 DEF DelayedSwitchThenLastAction, Turns
  <1>6. /\ ~Moved(t, o) /\ o \notin Fainted(t)
        /\ ~(generation <= 3 /\ actor \in Fainted(t))
    BY <1>5 DEF EndsTurnAfterSwitch
  <1>7. choice' \in Selection /\ (choice' \in Move => choice' \in MovesOf[generation][o])
    <2>1. CASE o = "ai" /\ continuation # None
      <3>1. choice' = continuation
        BY <1>5, <2>1 DEF LastSelections
      <3>2. actor = first
        BY <1>1, <2>1 DEF Inv, AfterInv
      <3> QED BY <2>1, <3>1, <3>2 DEF Inv, ArgumentsInv
    <2>2. CASE ~(o = "ai" /\ continuation # None)
      <3>1. choice' \in LegalSelections(team, o)
        BY <1>5, <2>2 DEF LastSelections
      <3> QED BY <1>2, <1>3, <3>1, LegalIsKnown
    <2> QED BY <2>1, <2>2
  <1>8. ArgumentsInv'
    <2>1. continuation' \notin Move
      BY <1>5, SelectionAssumption
    <2>2. phase' \in Phases
      BY <1>5 DEF Phases, Executing
    <2>3. owed' \in SUBSET Side
      BY <1>5 DEF StillOwed, Inv, ArgumentsInv
    <2> QED BY <1>2, <1>3, <1>5, <1>7, <2>1, <2>2, <2>3 DEF Inv, ArgumentsInv
  <1>9. PivotsAreHarmlessAtFirst => o \in owed'
    <2> SUFFICES ASSUME PivotsAreHarmlessAtFirst PROVE o \in owed'
      OBVIOUS
    <2>1. t[o].alive /\ team[o].alive /\ ~Moved(team, o)
      BY <1>3, <1>4, <1>6 DEF Fainted
    <2>2. generation <= 3 => team[actor].alive
      BY <1>1, <1>2 DEF Inv, AfterInv
    <2>3. generation <= 3 => Fainted(team) = {} /\ Fainted(t) = {}
      BY <1>3, <1>6, <2>1, <2>2 DEF Fainted
    <2>4. ~Excused(team, o)
      BY <1>3, <2>1, <2>3 DEF Excused
    <2>5. o \in owed
      BY <1>1, <1>3, <2>4 DEF Inv, AfterInv
    <2> QED BY <1>5, <1>6, <2>3, <2>5 DEF StillOwed
  <1>10. ExecutingInv'
    <2>1. t[o].alive
      BY <1>3, <1>6 DEF Fainted
    <2> QED BY <1>4, <1>5, <1>9, <2>1
      DEF ExecutingInv, Executing, Lost, Fainted, DelayedSwitching, PivotsAreHarmlessAtFirst
  <1>11. BetweenTurnsInv' /\ AfterInv'
    BY <1>5 DEF BetweenTurnsInv, AfterInv
  <1>12. TeamInv(team)'
    BY <1>4, <1>5, SameGeneration
  <1> QED BY <1>8, <1>10, <1>11, <1>12 DEF Inv

LEMMA ReplacesBeforeEndOfTurnKeepsInv ==
  ASSUME Inv, generation' = generation, NEW selection \in {Switch, Pass}, NEW faints \in BOOLEAN,
         ReplacesBeforeEndOfTurn(selection, faints)
  PROVE  Inv'
  <1> DEFINE t == IF selection = Switch THEN SwitchPokemon(team, "foe", faints) ELSE team
  <1>1. /\ selection \in LegalSelections(team, "foe") /\ team' = t
        /\ phase' \in {"eot", "failed"} /\ owed' = StillOwed(t, {})
        /\ UNCHANGED <<first, actor, choice, continuation>>
    BY DEF ReplacesBeforeEndOfTurn, Turns
  <1>2. TeamInv(team) /\ generation \in Generations /\ "foe" \in Side
    BY DEF Inv, ArgumentsInv, Side
  <1>3. TeamInv(t)
    <2>1. CASE selection = Switch
      <3>1. team["foe"].size # 1
        BY <1>1, <1>2, <2>1, LegalIsKnown DEF TeamInv, MemberInv
      <3> QED BY <1>2, <2>1, <3>1, SwitchKeeps
    <2>2. CASE selection # Switch
      BY <1>2, <2>2
    <2> QED BY <2>1, <2>2
  <1>4. owed' \in SUBSET Side
    BY <1>1 DEF StillOwed, Inv, ArgumentsInv
  <1> HIDE DEF t
  <1> QED BY <1>1, <1>3, <1>4, OutsideKeepsInv

LEMMA GoesToEndOfTurnKeepsInv ==
  ASSUME Inv, generation' = generation, GoesToEndOfTurn
  PROVE  Inv'
  <1>1. phase' = "eot" /\ UNCHANGED <<team, first, actor, choice, continuation, owed>>
    BY DEF GoesToEndOfTurn
  <1>2. TeamInv(team) /\ owed \in SUBSET Side
    BY DEF Inv, ArgumentsInv
  <1> QED BY <1>1, <1>2, OutsideKeepsInv

\* The second one has neither moved nor fainted nor run into Protect.
LEMMA SecondGoesOnKeepsInv ==
  ASSUME Inv, generation' = generation, SecondGoesOn
  PROVE  Inv'
  <1> DEFINE o == Other(first)
  <1>1. /\ phase = "after" /\ ~SomebodyIsDelayed /\ ~TurnIsOver
        /\ phase' = (IF Moved(team, first) /\ continuation # None THEN "second" ELSE "failed")
        /\ actor' = o /\ choice' = continuation /\ continuation' = None
        /\ UNCHANGED <<generation, team, first, owed>>
    BY DEF SecondGoesOn, NoSwitchIsDue
  <1>2. /\ first \in Side /\ actor \in Side /\ TeamInv(team) /\ Lost(team) = {}
        /\ (actor # first => continuation = None)
        /\ \A s \in Side \ owed : Excused(team, s)
    BY <1>1 DEF Inv, ArgumentsInv, AfterInv
  <1>3. o \in Side /\ o # first
    BY <1>2, TwoSides
  <1>4. /\ ~Moved(team, o) /\ team[o].alive /\ (generation <= 3 => Fainted(team) = {})
    BY <1>1, <1>3 DEF TurnIsOver, FaintingForcesEndOfTurn, Fainted
  <1>5. ArgumentsInv'
    <2>1. continuation' \notin Move
      BY <1>1, SelectionAssumption
    <2> QED BY <1>1, <1>3, <2>1 DEF Inv, ArgumentsInv, Phases, Executing
  <1>6. ASSUME phase' = "second" PROVE o \in owed
    <2>1. actor = first
      BY <1>1, <1>2, <1>6
    <2>2. ~Excused(team, o)
      BY <1>3, <1>4, <2>1 DEF Excused
    <2> QED BY <1>2, <1>3, <2>2
  <1>7. ExecutingInv'
    BY <1>1, <1>2, <1>3, <1>4, <1>6
      DEF ExecutingInv, Executing, Lost, Fainted, Moved, DelayedSwitching, SomebodyIsDelayed
  <1>8. BetweenTurnsInv' /\ AfterInv'
    BY <1>1 DEF BetweenTurnsInv, AfterInv
  <1>9. TeamInv(team)'
    BY <1>1, <1>2, SameGeneration
  <1> QED BY <1>5, <1>7, <1>8, <1>9 DEF Inv

\* What finish_end_of_turn hands over
LEMMA FinishedKeepsInv ==
  ASSUME Inv, generation' = generation, NEW t, FinishedWith(t)
  PROVE  Inv' /\ phase' # "failed"
  <1>1. /\ team' = t /\ first' = "ai" /\ actor' = "ai" /\ choice' = None
        /\ continuation' = None /\ owed' = {}
        /\ phase' \in {"won", "replace", "start"} /\ TeamInv(t) /\ \A s \in Side : ~Moved(t, s)
        /\ phase' \in {"replace", "start"} => Lost(t) = {}
        /\ phase' \in {"replace", "start"} => (phase' = "start" <=> Fainted(t) = {})
    BY DEF FinishedWith, Finish
  <1>2. ArgumentsInv'
    BY <1>1, SelectionAssumption DEF Inv, ArgumentsInv, Phases, Executing, Side
  <1>3. TeamInv(team)'
    BY <1>1, SameGeneration
  <1>4. BetweenTurnsInv'
    BY <1>1 DEF BetweenTurnsInv, Lost, Fainted, Moved
  <1>5. ExecutingInv' /\ AfterInv'
    BY <1>1 DEF ExecutingInv, Executing, AfterInv
  <1> QED BY <1>1, <1>2, <1>3, <1>4, <1>5 DEF Inv

\* A member of a State at the end of a turn
LEMMA EndOfTurnOfFields ==
  ASSUME NEW s \in Side, NEW member, MemberInv(s, member), NEW faints \in BOOLEAN,
         NEW ending \in LockInEnds(member.lum)
  PROVE  LET r == EndOfTurnOf(member, ending, faints)
         IN  /\ MemberInv(s, r) /\ ~r.lum.moved
             /\ (r.alive => member.alive) /\ r.size = member.size
             /\ IsImmobilizing(r.lum) => IsImmobilizing(member.lum)
  <1> DEFINE advances == member.alive \/ generation <= 2
             advanced == IF advances THEN AdvanceLockIn(member.lum, ending) ELSE member.lum
             lum == ResetEndOfTurn(advanced)
             standing == member.alive /\ ~faints
             r == [lum |-> lum, alive |-> standing, size |-> member.size]
  <1>1. /\ member \in [lum : LastUsed, alive : BOOLEAN, size : 1..MaxTeamSize]
        /\ LumInv(member.lum) /\ member.lum.move \in MovesOf[generation][s] \cup {NoMove}
    BY DEF MemberInv
  <1>2. /\ LumInv(advanced) /\ advanced.move = member.lum.move
        /\ IsImmobilizing(advanced) => IsImmobilizing(member.lum)
    <2>1. CASE advances
      BY <1>1, <2>1, AdvanceLockInFields
    <2>2. CASE ~advances
      BY <1>1, <2>2
    <2> QED BY <2>1, <2>2
  <1> HIDE DEF advanced
  <1>3. /\ LumInv(lum) /\ ~lum.moved /\ lum.move = member.lum.move
        /\ IsImmobilizing(lum) => IsImmobilizing(member.lum)
    BY <1>2, ResetEndOfTurnFields
  <1>4. EndOfTurnOf(member, ending, faints) = r
    <2> HIDE DEF lum
    <2>1. EndOfTurnOf(member, ending, faints)
            = [member EXCEPT !.lum = lum, !.alive = member.alive /\ ~faints]
      BY DEF EndOfTurnOf, lum, advanced
    <2> QED BY <1>1, <2>1
  <1> HIDE DEF lum, standing
  <1>5. standing \in BOOLEAN
    BY <1>1 DEF standing
  <1>6. MemberInv(s, r) /\ r.lum = lum /\ r.size = member.size
    BY <1>1, <1>3, <1>5 DEF MemberInv, LumInv
  <1>7. r.alive => member.alive
    BY DEF standing
  <1> QED BY <1>3, <1>4, <1>6, <1>7

LEMMA EndOfTurnOutcome ==
  ASSUME Inv,
         NEW ends \in [Side -> BOOLEAN], NEW faints \in [Side -> BOOLEAN],
         EndOfTurn(ends, faints)
  PROVE  \E t : /\ FinishedWith(t)
                /\ \A s \in Side : (t[s].alive => team[s].alive) /\ t[s].size = team[s].size
  <1> DEFINE r(s) == EndOfTurnOf(team[s], ends[s], faints[s])
             t == [s \in Side |-> r(s)]
  <1>1. /\ \A s \in Side : ends[s] \in LockInEnds(team[s].lum)
        /\ Finish(t, TRUE)
    BY DEF EndOfTurn
  <1>2. /\ \A s \in Side : MemberInv(s, team[s])
        /\ ~(\A s \in Side : IsImmobilizing(team[s].lum))
    BY DEF Inv, TeamInv
  <1>3. \A s \in Side : /\ MemberInv(s, r(s)) /\ ~r(s).lum.moved
                        /\ (r(s).alive => team[s].alive) /\ r(s).size = team[s].size
                        /\ IsImmobilizing(r(s).lum) => IsImmobilizing(team[s].lum)
    BY <1>1, <1>2, EndOfTurnOfFields
  <1> HIDE DEF r
  <1>4. \A s \in Side : t[s] = r(s)
    OBVIOUS
  <1>5. t \in Teams
    BY <1>3 DEF MemberInv, Teams
  <1> HIDE DEF t
  <1>6. TeamInv(t)
    BY <1>2, <1>3, <1>4, <1>5 DEF TeamInv
  <1>7. \A s \in Side : ~Moved(t, s)
    BY <1>3, <1>4 DEF Moved
  <1>8. \A s \in Side : (t[s].alive => team[s].alive) /\ t[s].size = team[s].size
    BY <1>3, <1>4
  <1> QED BY <1>1, <1>6, <1>7, <1>8 DEF FinishedWith

\* Nobody has moved between two turns: only who has fainted is replaced, and who
\* replaces them has not moved either.
LEMMA ReplacesFaintedOutcome ==
  ASSUME Inv,
         NEW selections \in [Side -> {Switch, Pass}], NEW faints \in [Side -> BOOLEAN],
         ReplacesFainted(selections, faints)
  PROVE  \E t :
           /\ FinishedWith(t)
           /\ \A s \in Side : IF s \in Fainted(team) THEN t[s].size = team[s].size - 1
                             ELSE t[s].size = team[s].size /\ t[s].alive
  <1> DEFINE replaced(t, s) == IF selections[s] = Switch THEN SwitchPokemon(t, s, faints[s]) ELSE t
             once == replaced(team, "ai")
             twice == replaced(once, "foe")
             asserted == \A s \in Side : selections[s] = Switch => s \in Fainted(team)
  <1>1. /\ phase = "replace"
        /\ \A s \in Side : selections[s] \in LegalSelections(team, s)
        /\ Finish(twice, asserted)
    BY DEF ReplacesFainted
  <1>2. /\ TeamInv(team) /\ generation \in Generations /\ Lost(team) = {}
        /\ \A s \in Side : ~Moved(team, s)
    BY <1>1 DEF Inv, ArgumentsInv, BetweenTurnsInv
  <1>3. "ai" \in Side /\ "foe" \in Side /\ Other("ai") = "foe" /\ Other("foe") = "ai"
        /\ Side = {"ai", "foe"}
    BY DEF Side, Other
  <1>4. \A s \in Side : selections[s] = Switch => team[s].size # 1
    BY <1>1, <1>2, LegalIsKnown DEF TeamInv, MemberInv
  <1>5. /\ TeamInv(once) /\ once["foe"].size = team["foe"].size
        /\ (Moved(once, "ai") => selections["ai"] = Switch /\ team["ai"].alive)
        /\ ~Moved(once, "foe") /\ (once["foe"].alive <=> team["foe"].alive)
        /\ once["ai"].size = (IF selections["ai"] = Switch /\ ~team["ai"].alive
                              THEN team["ai"].size - 1 ELSE team["ai"].size)
        /\ (selections["ai"] # Switch => (once["ai"].alive <=> team["ai"].alive))
    <2>1. CASE selections["ai"] = Switch
      <3>1. once = SwitchPokemon(team, "ai", faints["ai"])
        BY <2>1
      <3> HIDE DEF once
      <3>2. /\ TeamInv(once) /\ once["foe"].size = team["foe"].size
            /\ (Moved(once, "ai") <=> team["ai"].alive \/ Moved(team, "ai"))
            /\ (Moved(once, "foe") <=> Moved(team, "foe"))
            /\ (once["foe"].alive <=> team["foe"].alive)
            /\ once["ai"].size = (IF team["ai"].alive THEN team["ai"].size ELSE team["ai"].size - 1)
        BY <1>2, <1>3, <1>4, <2>1, <3>1, SwitchKeeps
      <3> QED BY <1>2, <1>3, <2>1, <3>2
    <2>2. CASE selections["ai"] # Switch
      BY <1>2, <1>3, <2>2
    <2> QED BY <2>1, <2>2
  <1> HIDE DEF once
  <1>6. /\ TeamInv(twice) /\ (Moved(twice, "ai") <=> Moved(once, "ai"))
        /\ (Moved(twice, "foe") => selections["foe"] = Switch /\ team["foe"].alive)
        /\ twice["foe"].size = (IF selections["foe"] = Switch /\ ~team["foe"].alive
                                THEN team["foe"].size - 1 ELSE team["foe"].size)
        /\ (selections["foe"] # Switch => (twice["foe"].alive <=> team["foe"].alive))
        /\ twice["ai"].size = once["ai"].size /\ (twice["ai"].alive <=> once["ai"].alive)
    <2>1. CASE selections["foe"] = Switch
      <3>1. twice = SwitchPokemon(once, "foe", faints["foe"])
        BY <2>1
      <3> HIDE DEF twice
      <3>2. /\ TeamInv(twice) /\ (Moved(twice, "ai") <=> Moved(once, "ai"))
            /\ (Moved(twice, "foe") <=> once["foe"].alive \/ Moved(once, "foe"))
            /\ twice["foe"].size = (IF once["foe"].alive THEN once["foe"].size
                                    ELSE once["foe"].size - 1)
            /\ twice["ai"].size = once["ai"].size /\ (twice["ai"].alive <=> once["ai"].alive)
        BY <1>3, <1>4, <1>5, <2>1, <3>1, SwitchKeeps
      <3> QED BY <1>5, <2>1, <3>2
    <2>2. CASE selections["foe"] # Switch
      BY <1>5, <2>2
    <2> QED BY <2>1, <2>2
  <1> HIDE DEF twice
  <1>7. ASSUME NEW s \in Side, selections[s] = Switch PROVE s \in Fainted(team)
    <2> SUFFICES ASSUME team[s].alive PROVE FALSE
      BY DEF Fainted
    <2>1. PICK x \in Fainted(team) : x \in Side
      BY <1>1, <1>2 DEF Inv, BetweenTurnsInv, Fainted
    <2>2. x = Other(s)
      BY <2>1, TwoSides DEF Fainted
    <2>3. SwitchDecisionRequired(team, Other(s))
      BY <1>2, <2>1, <2>2 DEF SwitchDecisionRequired, Lost, Fainted
    <2>4. ~SwitchDecisionRequired(team, s)
      BY <1>2, NotDelayed DEF SwitchDecisionRequired, Moved
    <2>5. selections[s] \in {Pass}
      BY <1>1, <2>3, <2>4 DEF LegalSelections
    <2> QED BY <1>7, <2>5 DEF Switch, Pass
  <1>8. asserted
    BY <1>7
  <1>9. \A s \in Side : ~Moved(twice, s)
    BY <1>3, <1>5, <1>6, <1>8 DEF Fainted
  <1>10. Finish(twice, TRUE)
    BY <1>1, <1>8 DEF Finish
  <1>11. ASSUME NEW s \in Fainted(team) PROVE selections[s] = Switch
    BY <1>1, <1>2 DEF LegalSelections, SwitchDecisionRequired, Lost, Fainted
  <1>12. ASSUME NEW s \in Side
         PROVE  IF s \in Fainted(team) THEN twice[s].size = team[s].size - 1
                ELSE twice[s].size = team[s].size /\ twice[s].alive
    BY <1>3, <1>5, <1>6, <1>7, <1>11 DEF Fainted
  <1> QED BY <1>6, <1>9, <1>10, <1>12 DEF FinishedWith

LEMMA NextKeepsInv == Inv /\ [Next]_vars => Inv'
  <1> SUFFICES ASSUME Inv, [Next]_vars PROVE Inv'
    OBVIOUS
  <1>1. CASE UNCHANGED vars
    <2>1. ArgumentsInv' /\ BetweenTurnsInv' /\ ExecutingInv' /\ AfterInv'
      BY <1>1 DEF vars, Inv, ArgumentsInv, BetweenTurnsInv, ExecutingInv, AfterInv,
                  Excused, Moved, Lost, Fainted, DelayedSwitching
    <2>2. TeamInv(team)'
      BY <1>1, SameGeneration DEF vars, Inv
    <2> QED BY <2>1, <2>2 DEF Inv
  <1>2. CASE Next
    <2>0. generation' = generation /\ Plays
      BY <1>2 DEF Next
    <2>1. CASE \E selections \in [Side -> Selection], s \in Side : StartOfTurn(selections, s)
      BY <2>0, <2>1, StartOfTurnKeepsInv
    <2>2. CASE Executes
      <3>1. CASE ExecutesNothing
        BY <2>0, <3>1, ExecutesNothingKeepsInv
      <3>2. CASE ~ExecutesNothing
        BY <2>0, <2>2, <3>2, ExecutesOutcome, OutcomeKeepsInv
      <3> QED BY <3>1, <3>2
    <2>3. CASE AfterAction
      <3>1. ASSUME NEW t \in AfterDelayedSwitch,
                   \/ DelayedSwitchEndsTurn(t)
                   \/ DelayedSwitchThenLastAction(t)
                   \/ DelayedSwitchThenNoSelection(t)
            PROVE  Inv'
        BY <2>0, <3>1, DelayedSwitchEndsKeepsInv, DelayedSwitchThenLastActionKeepsInv
      <3>2. CASE \E selection \in {Switch, Pass}, faints \in BOOLEAN :
                   ReplacesBeforeEndOfTurn(selection, faints)
        BY <2>0, <3>2, ReplacesBeforeEndOfTurnKeepsInv
      <3>3. CASE GoesToEndOfTurn \/ SecondGoesOn
        BY <2>0, <3>3, GoesToEndOfTurnKeepsInv, SecondGoesOnKeepsInv
      <3> QED BY <2>3, <3>1, <3>2, <3>3 DEF AfterAction
    <2>4. CASE \E ends, faints \in [Side -> BOOLEAN] : EndOfTurn(ends, faints)
      BY <2>0, <2>4, EndOfTurnOutcome, FinishedKeepsInv
    <2>5. CASE \E selections \in [Side -> {Switch, Pass}], faints \in [Side -> BOOLEAN] :
                 ReplacesFainted(selections, faints)
      BY <2>0, <2>5, ReplacesFaintedOutcome, FinishedKeepsInv
    <2>6. CASE Finished
      <3>1. phase' \in {"won", "dropped", "failed"} /\ team' = team /\ owed' = owed
            /\ UNCHANGED <<first, actor, choice, continuation>>
        BY <2>6 DEF Finished
      <3>2. TeamInv(team) /\ owed \in SUBSET Side
        BY DEF Inv, ArgumentsInv
      <3> QED BY <2>0, <3>1, <3>2, OutsideKeepsInv
    <2> QED BY <2>0, <2>1, <2>2, <2>3, <2>4, <2>5, <2>6 DEF Plays
  <1> QED BY <1>1, <1>2

-----------------------------------------------------------------------------
(* What holds of every turn of every two teams                             *)

\* Inv is inductive, whatever the moves are.
LEMMA InvHolds == Spec => []Inv
  BY InitInv, NextKeepsInv, PTL DEF Spec

\* Every function of the recursion is called with a State and selections of the
\* types its parameters have.
THEOREM TypeCorrectness == Spec => []TypeOK
  <1>1. Inv => TypeOK
    BY DEF Inv, ArgumentsInv, TeamInv, TypeOK
  <1> QED BY <1>1, InvHolds, PTL

\* The two never hold each other with the trapping moves of the first generation:
\* only a Pokemon that is not held uses a move, and switching lets go.
THEOREM HoldsOneAtATime == Spec => []OneImmobilizesAtATime
  <1>1. Inv => OneImmobilizesAtATime
    BY DEF Inv, TeamInv, OneImmobilizesAtATime
  <1> QED BY <1>1, InvHolds, PTL

\* Whoever executes a selection still owes an action: nobody acts twice, nor after
\* they were dragged out or made to flinch, as long as Baton Pass is the only move
\* before generation 4 that its user leaves with.
THEOREM ActionsAreOwed ==
  ASSUME PivotsAreHarmlessAtFirst
  PROVE  Spec => []OnlyWhoOwesActs
  <1>1. Inv => OnlyWhoOwesActs
    BY TwoSides DEF Inv, ArgumentsInv, ExecutingInv, Executing, OnlyWhoOwesActs
  <1> QED BY <1>1, InvHolds, PTL

\* Before the end of a turn of the second generation only who has fainted switches,
\* and nobody has to.
LEMMA ReplacesBeforeEndOfTurnFields ==
  ASSUME Inv, NEW selection \in {Switch, Pass}, NEW faints \in BOOLEAN,
         ReplacesBeforeEndOfTurn(selection, faints)
  PROVE  /\ phase = "after" /\ generation = 2 /\ Fainted(team) # {} /\ phase' = "eot"
         /\ owed' = StillOwed(team', {}) /\ continuation' = continuation
         /\ \A s \in Side : ~DelayedSwitching(team', s)
  <1> DEFINE t == IF selection = Switch THEN SwitchPokemon(team, "foe", faints) ELSE team
             asserted == "foe" \notin Fainted(team) => selection = Pass
  <1>1. /\ phase = "after" /\ ~SomebodyIsDelayed /\ generation = 2 /\ Fainted(team) # {}
        /\ selection \in LegalSelections(team, "foe") /\ team' = t
        /\ phase' = (IF asserted THEN "eot" ELSE "failed") /\ owed' = StillOwed(t, {})
        /\ continuation' = continuation
    BY DEF ReplacesBeforeEndOfTurn, ReplacementBeforeEndOfTurn, Turns
  <1>2. TeamInv(team) /\ generation \in Generations /\ Lost(team) = {}
    BY <1>1 DEF Inv, ArgumentsInv, AfterInv
  <1>3. "ai" \in Side /\ "foe" \in Side /\ Side = {"ai", "foe"} /\ Other("foe") = "ai"
    BY DEF Side, Other
  <1>4. asserted
    <2> SUFFICES ASSUME "foe" \notin Fainted(team) PROVE selection = Pass
      OBVIOUS
    <2>1. "ai" \in Fainted(team)
      BY <1>1, <1>3 DEF Fainted
    <2>2. SwitchDecisionRequired(team, "ai")
      BY <1>2, <2>1 DEF SwitchDecisionRequired, Lost, Fainted
    <2>3. ~SwitchDecisionRequired(team, "foe")
      BY <1>1, <1>3 DEF SwitchDecisionRequired, SomebodyIsDelayed, DelayedSwitching, Fainted
    <2> QED BY <1>1, <1>3, <2>2, <2>3 DEF LegalSelections
  <1>5. \A s \in Side : ~DelayedSwitching(t, s)
    <2>1. CASE selection = Switch
      <3>1. team["foe"].size # 1
        BY <1>1, <1>2, <1>3, <2>1, LegalIsKnown DEF TeamInv, MemberInv
      <3>2. t = SwitchPokemon(team, "foe", faints)
        BY <2>1
      <3> HIDE DEF t
      <3>3. /\ ~IsDelayedSwitching(t["foe"].lum) /\ t["ai"].size = team["ai"].size
            /\ (IsDelayedSwitching(t["ai"].lum) <=> IsDelayedSwitching(team["ai"].lum))
        BY <1>2, <1>3, <3>1, <3>2, SwitchKeeps
      <3> QED BY <1>1, <1>3, <3>3 DEF SomebodyIsDelayed, DelayedSwitching
    <2>2. CASE selection # Switch
      BY <1>1, <2>2 DEF SomebodyIsDelayed
    <2> QED BY <2>1, <2>2
  <1> HIDE DEF t
  <1> QED BY <1>1, <1>4, <1>5

\* A switch that is due after U-turn or Baton Pass is made by the end of the turn,
\* whatever the moves of the two are, unless it is that of the last action, behind
\* the delayed switch of the other side: middle_of_turn_after_switch goes straight
\* to the end of the turn from there.
THEOREM DelayedSwitchesAreMade == Spec => DelayedSwitchesHappen
  <1>1. Inv /\ [Next]_vars =>
          [phase' = "eot" =>
             \A s \in Side : DelayedSwitching(team', s) => phase = "last" /\ s = actor]_vars
    <2> SUFFICES ASSUME Inv, Next, phase' = "eot", NEW s \in Side, DelayedSwitching(team', s)
                 PROVE  phase = "last" /\ s = actor
      BY DEF vars
    <2>0. generation' = generation /\ Plays
      BY DEF Next
    <2>1. ~(\E selections \in [Side -> Selection], x \in Side : StartOfTurn(selections, x))
      BY DEF StartOfTurn
    <2>2. CASE ExecutesNothing
      <3>1. phase \in Executing /\ team' = team
        BY <2>2 DEF ExecutesNothing
      <3> QED BY <3>1, ExecutingFacts
    <2>3. CASE Executes /\ ~ExecutesNothing
      <3>1. PICK t, done : Outcome(t, done)
        BY <2>3, ExecutesOutcome
      <3>2. /\ phase' = AfterExecution(t) /\ team' = t /\ phase \in Executing
            /\ ~DelayedSwitching(t, Other(actor))
        BY <3>1 DEF Outcome, Executed, Turns
      <3>3. phase = "last"
        BY <3>2 DEF AfterExecution
      <3>4. actor \in Side
        BY DEF Inv, ArgumentsInv
      <3> QED BY <3>2, <3>3, <3>4, TwoSides
    <2>4. CASE AfterAction
      <3>1. ASSUME NEW t \in AfterDelayedSwitch,
                   \/ DelayedSwitchEndsTurn(t)
                   \/ DelayedSwitchThenLastAction(t)
                   \/ DelayedSwitchThenNoSelection(t)
            PROVE  FALSE
        <4>1. SwitchesMidTurn /\ team' = t
          BY <3>1 DEF DelayedSwitchEndsTurn, DelayedSwitchThenLastAction,
                      DelayedSwitchThenNoSelection, SwitchesMidTurn, Turns
        <4> QED BY <4>1, AfterDelayedSwitchFields
      <3>2. ~(\E selection \in {Switch, Pass}, faints \in BOOLEAN :
                ReplacesBeforeEndOfTurn(selection, faints))
        BY ReplacesBeforeEndOfTurnFields
      <3>3. CASE GoesToEndOfTurn \/ SecondGoesOn
        BY <3>3 DEF GoesToEndOfTurn, SecondGoesOn, NoSwitchIsDue, SomebodyIsDelayed
      <3> QED BY <2>4, <3>1, <3>2, <3>3 DEF AfterAction
    <2>5. ~(\/ \E ends, faints \in [Side -> BOOLEAN] : EndOfTurn(ends, faints)
            \/ \E selections \in [Side -> {Switch, Pass}], faints \in [Side -> BOOLEAN] :
                 ReplacesFainted(selections, faints))
      BY DEF EndOfTurn, ReplacesFainted, Finish
    <2>6. ~Finished
      BY DEF Finished
    <2> QED BY <2>0, <2>1, <2>2, <2>3, <2>4, <2>5, <2>6 DEF Plays
  <1> QED BY <1>1, InvHolds, PTL DEF Spec, DelayedSwitchesHappen

-----------------------------------------------------------------------------
(* Where the AI pivots second                                              *)

\* Whoever executes a selection owes it, and so has not moved.
LEMMA ExecutesWhatIsOwed ==
  ASSUME PivotsAreHarmlessAtFirst, Inv, SettledInv, phase \in Executing
  PROVE  /\ actor \in owed /\ ~Moved(team, actor) /\ ~IsProtecting(team[actor].lum)
         /\ ~ExecutesNothing
         /\ phase \in {"second", "last"} => owed = {actor}
         /\ phase = "first" => actor = first
  <1>1. actor \in Side /\ first \in Side /\ owed \in SUBSET Side /\ team[actor].alive
        /\ LumInv(team[actor].lum)
    BY ExecutingFacts DEF Inv, ArgumentsInv
  <1>2. choice \in Move \cup {Switch}
    BY DEF SettledInv
  <1>3. choice # Pass
    BY <1>2, SelectionAssumption DEF Switch, Pass
  <1>4. actor \in owed
    BY <1>1, <1>3 DEF Inv, ExecutingInv, Executing
  <1>5. ~Moved(team, actor)
    BY <1>1, <1>4 DEF SettledInv
  <1>6. ~ExecutesNothing
    BY <1>1, <1>2 DEF ExecutesNothing
  <1>7. phase = "second" => actor = Other(first) /\ first \notin owed
    BY DEF Inv, ExecutingInv, Executing, SettledInv
  <1>8. phase = "last" => actor = "ai" /\ "foe" \notin owed
    BY DEF SettledInv
  <1>9. phase \in {"second", "last"} => owed = {actor}
    BY <1>1, <1>4, <1>7, <1>8 DEF Side, Other
  <1> QED BY <1>1, <1>4, <1>5, <1>6, <1>9 DEF LumInv, Moved, Inv, ExecutingInv, Executing

LEMMA OutcomeSettles ==
  ASSUME PivotsAreHarmlessAtFirst, Inv, SettledInv, generation' = generation,
         NEW t, NEW done, Outcome(t, done)
  PROVE  SettledInv'
  <1>1. /\ phase \in Executing /\ TeamInv(t) /\ actor \in done
        /\ \A s \in Side : Moved(t, s) => Moved(team, s) \/ s \in done
        /\ phase' = AfterExecution(t) /\ team' = t /\ owed' = StillOwed(t, done)
        /\ UNCHANGED <<generation, first, actor, choice, continuation>>
    BY DEF Outcome, Executed, Turns
  <1>2. /\ actor \in owed /\ (phase \in {"second", "last"} => owed = {actor})
        /\ (phase = "first" => actor = first) /\ owed \in SUBSET Side
        /\ generation \in Generations
    BY <1>1, ExecutesWhatIsOwed DEF Inv, ArgumentsInv
  <1>3. /\ phase' \in {"won", "eot", "after"}
        /\ phase' = "eot" => phase = "last"
        /\ phase' = "after" => phase \in {"first", "second"}
    BY <1>1 DEF AfterExecution, Executing
  <1>4. actor \notin owed' /\ owed' \subseteq owed
    BY <1>1 DEF StillOwed
  <1>5. phase \in {"second", "last"} => owed' = {}
    BY <1>2, <1>4
  <1>6. \A s \in Side : Moved(t, s) \/ ~t[s].alive => s \notin owed'
    <2> SUFFICES ASSUME NEW s \in Side, Moved(t, s) \/ ~t[s].alive, s \in owed' PROVE FALSE
      OBVIOUS
    <2>1. s \in owed /\ s \notin done /\ s \notin Fainted(t)
      BY <1>1 DEF StillOwed
    <2>2. Moved(team, s)
      BY <1>1, <2>1 DEF Fainted
    <2> QED BY <1>1, <2>1, <2>2 DEF SettledInv
  <1>7. generation <= 3 /\ Fainted(t) # {} => owed' = {}
    BY <1>1 DEF StillOwed
  <1>8. phase = "first" => continuation # None /\ (actor = "ai" => choice \notin Pivots)
    BY DEF SettledInv
  <1>9. phase = "second" => actor # first
    BY <1>1, ExecutingFacts
  <1>10. phase' = "after" =>
           /\ actor \notin owed'
           /\ IF actor = first THEN continuation # None ELSE owed' = {}
           /\ actor = first /\ first = "ai" => choice \notin Pivots
    BY <1>2, <1>3, <1>4, <1>5, <1>8, <1>9
  <1>11. phase' = "eot" => owed' = {}
    BY <1>3, <1>5
  <1>12. continuation # Pass
    BY DEF SettledInv
  <1> QED BY <1>1, <1>3, <1>6, <1>7, <1>10, <1>11, <1>12 DEF SettledInv, Executing, Moved, Fainted

LEMMA StartOfTurnSettles ==
  ASSUME AIPivotsSecond, Inv, SettledInv, generation' = generation,
         NEW selections \in [Side -> Selection], NEW s \in Side, StartOfTurn(selections, s)
  PROVE  SettledInv'
  <1>1. /\ phase = "start" /\ phase' = "first" /\ actor' = s
        /\ MayGoFirst(s, selections[s], selections[Other(s)])
        /\ choice' = selections[s] /\ continuation' = selections[Other(s)]
        /\ UNCHANGED team
        /\ \A side \in Side : selections[side] \in LegalSelections(team, side)
    BY DEF StartOfTurn
  <1>2. /\ TeamInv(team) /\ generation \in Generations /\ Fainted(team) = {}
        /\ \A x \in Side : ~Moved(team, x)
    BY <1>1 DEF Inv, ArgumentsInv, BetweenTurnsInv
  <1>3. Other(s) \in Side
    BY TwoSides
  <1>4. \A x \in Side : team[x].alive /\ ~SwitchDecisionRequired(team, x)
    BY <1>2, NotDelayed, NobodyFainted DEF SwitchDecisionRequired, Moved
  <1>5. ASSUME NEW x \in Side
        PROVE  selections[x] \in MovesOf[generation][x] \cup {Switch} /\ MovesOf[generation][x] \subseteq Move
    <2>1. Other(x) \in Side
      BY TwoSides
    <2>2. /\ MovesOf[generation][x] \subseteq Move
          /\ team[x].lum.move \in MovesOf[generation][x] \cup {NoMove}
      BY <1>2, MovesOfAssumption DEF TeamInv, MemberInv
    <2>3. \/ selections[x] = LockedIn(team[x].lum) /\ LockedIn(team[x].lum) # NoMove
          \/ selections[x] \in MovesOf[generation][x] \cup {Switch}
      BY <1>1, <1>2, <1>4, <2>1 DEF LegalSelections
    <2> QED BY <2>2, <2>3 DEF LockedIn
  <1>6. /\ choice' \in Move \cup {Switch} /\ continuation' \in Move \cup {Switch}
    BY <1>1, <1>3, <1>5
  <1>7. continuation' # Pass /\ continuation' # None
    BY <1>6, SelectionAssumption DEF Switch, Pass, None
  <1>8. \A x \in Side : ~(Moved(team, x) \/ ~team[x].alive)
    BY <1>2, <1>4
  <1>9. ASSUME s = "ai" PROVE selections[s] \notin Pivots
    <2> DEFINE m == selections[s]
               n == selections[Other(s)]
    <2> SUFFICES ASSUME m \in Pivots PROVE FALSE
      OBVIOUS
    <2>1. Other(s) = "foe" /\ m \in Move /\ m # Switch /\ m # Pass
      BY <1>9, SelectionAssumption DEF Other, Pivots
    <2>2. m \in MovesOf[generation]["ai"] \cap Pivots
      BY <1>5, <1>9, <2>1
    <2>3. PriorityOf[generation][m] \in -6..5
      BY <1>2, <2>1, PriorityAssumption
    <2>4. Priority(m) = PriorityOf[generation][m]
      BY <2>1 DEF Priority
    <2>5. CASE n = Switch
      <3>1. Priority(n) = 6
        BY <2>5 DEF Priority
      <3> QED BY <1>1, <2>3, <2>4, <3>1 DEF MayGoFirst
    <2>6. CASE n # Switch
      <3>1. n \in MovesOf[generation]["foe"] /\ n \in Move
        BY <1>3, <1>5, <2>1, <2>6
      <3>2. n # Pass
        BY <3>1, SelectionAssumption
      <3>3. Priority(n) = PriorityOf[generation][n] /\ PriorityOf[generation][n] \in -6..5
        BY <1>2, <2>6, <3>1, <3>2, PriorityAssumption DEF Priority
      <3>4. \/ PriorityOf[generation][n] > PriorityOf[generation][m]
            \/ PriorityOf[generation][n] = PriorityOf[generation][m]
               /\ "ai" \notin MayBeFaster[generation]
        BY <1>2, <2>2, <3>1 DEF AIPivotsSecond
      <3> HIDE DEF m, n
      <3>5. MayGoFirst("ai", m, n)
        BY <1>1, <1>9 DEF m, n
      <3> QED BY <2>3, <2>4, <3>3, <3>4, <3>5 DEF MayGoFirst
    <2> QED BY <2>5, <2>6
  <1> QED BY <1>1, <1>6, <1>7, <1>8, <1>9 DEF SettledInv, Executing, Moved

\* The AI pivots second: after its delayed switch the foe, which has moved, has
\* nothing left to do.
LEMMA AIsDelayedSwitchSettles ==
  ASSUME Inv, SettledInv, generation' = generation, actor = "ai",
         NEW t \in AfterDelayedSwitch,
         \/ DelayedSwitchEndsTurn(t)
         \/ DelayedSwitchThenLastAction(t)
         \/ DelayedSwitchThenNoSelection(t)
  PROVE  SettledInv' /\ phase' \in {"won", "eot", "last"}
  <1>1. SwitchesMidTurn /\ phase = "after"
    BY DEF DelayedSwitchEndsTurn, DelayedSwitchThenLastAction, DelayedSwitchThenNoSelection,
           SwitchesMidTurn
  <1>2. /\ DelayedSwitcher = actor /\ actor \in Side /\ first \in Side
        /\ choice \in Pivots /\ (actor # first => Moved(team, first))
    BY <1>1, DelayedSwitcherActed
  <1>3. first = Other(actor) /\ actor # first /\ owed = {} /\ continuation # Pass
    BY <1>1, <1>2, TwoSides DEF SettledInv
  <1>4. Moved(t, first)
    BY <1>1, <1>2, <1>3, AfterDelayedSwitchFields
  <1>5. DelayedSwitchEndsTurn(t)
    BY <1>2, <1>3, <1>4
      DEF EndsTurnAfterSwitch, DelayedSwitchThenLastAction, DelayedSwitchThenNoSelection
  <1>6. phase' \in {"won", "eot"} /\ owed' = StillOwed(t, {}) /\ continuation' = continuation
    BY <1>5 DEF DelayedSwitchEndsTurn, Turns
  <1>7. owed' = {}
    BY <1>3, <1>6 DEF StillOwed
  <1> QED BY <1>3, <1>6, <1>7 DEF SettledInv, Executing

\* After the foe's delayed switch the AI still has to act only if the foe went
\* first: then it is the selection the AI made at the start of the turn.
LEMMA FoesDelayedSwitchSettles ==
  ASSUME PivotsAreHarmlessAtFirst, Inv, SettledInv, generation' = generation, actor = "foe",
         NEW t \in AfterDelayedSwitch,
         \/ DelayedSwitchEndsTurn(t)
         \/ DelayedSwitchThenLastAction(t)
         \/ DelayedSwitchThenNoSelection(t)
  PROVE  SettledInv' /\ phase' \in {"won", "eot", "last"}
  <1>1. SwitchesMidTurn /\ phase = "after"
    BY DEF DelayedSwitchEndsTurn, DelayedSwitchThenLastAction, DelayedSwitchThenNoSelection,
           SwitchesMidTurn
  <1>2. /\ DelayedSwitcher = actor /\ DelayedSwitching(team, actor) /\ actor \in Side
        /\ TeamInv(team) /\ generation \in Generations
    BY <1>1, DelayedSwitcherActed
  <1>3. actor = "foe" /\ Other(actor) = "ai" /\ Side = {"ai", "foe"}
    BY DEF Side, Other
  <1>4. /\ \A s \in Side : ~DelayedSwitching(t, s)
        /\ (t["ai"].alive <=> team["ai"].alive) /\ (Moved(t, "ai") <=> Moved(team, "ai"))
        /\ Moved(t, "foe")
    BY <1>1, <1>3, AfterDelayedSwitchFields
  <1>5. /\ "foe" \notin owed /\ owed \in SUBSET Side /\ continuation # Pass
        /\ (IF actor = first THEN continuation # None ELSE owed = {})
        /\ \A s \in Side : Moved(team, s) \/ ~team[s].alive => s \notin owed
    BY <1>1, <1>3 DEF Inv, ArgumentsInv, SettledInv
  <1>6. CASE DelayedSwitchEndsTurn(t)
    <2>1. /\ phase' = (IF Lost(t) # {} THEN "won" ELSE "eot") /\ team' = t
          /\ owed' = StillOwed(t, {}) /\ continuation' = continuation
          /\ Lost(t) # {} \/ EndsTurnAfterSwitch(t, "foe")
      BY <1>2, <1>3, <1>6 DEF DelayedSwitchEndsTurn, Turns
    <2>2. phase' = "eot" => owed' = {}
      <3> SUFFICES ASSUME EndsTurnAfterSwitch(t, "foe") PROVE owed' = {}
        BY <2>1
      <3>1. CASE generation <= 3 /\ "foe" \in Fainted(t)
        BY <2>1, <3>1 DEF StillOwed
      <3>2. CASE Moved(t, "ai") \/ "ai" \in Fainted(t)
        <4>1. "ai" \notin owed
          BY <1>3, <1>4, <1>5, <3>2 DEF Fainted
        <4>2. owed = {}
          BY <1>3, <1>5, <4>1
        <4> QED BY <2>1, <4>2 DEF StillOwed
      <3> QED BY <1>3, <3>1, <3>2 DEF EndsTurnAfterSwitch
    <2> QED BY <1>5, <2>1, <2>2 DEF SettledInv, Executing
  <1>7. CASE ~DelayedSwitchEndsTurn(t)
    <2>1. ~EndsTurnAfterSwitch(t, "foe")
      BY <1>2, <1>3, <1>7 DEF DelayedSwitchThenLastAction, DelayedSwitchThenNoSelection
    <2>2. /\ ~Moved(t, "ai") /\ "ai" \notin Fainted(t) /\ ~Moved(team, "ai")
          /\ t["ai"].alive /\ team["ai"].alive /\ (generation <= 3 => "foe" \notin Fainted(t))
      BY <1>3, <1>4, <2>1 DEF EndsTurnAfterSwitch, Fainted
    <2>3. "ai" \in owed
      <3>1. generation <= 3 => team["foe"].alive
        BY <1>1, <1>2, <1>3 DEF Inv, AfterInv
      <3>2. generation <= 3 => Fainted(team) = {}
        BY <1>3, <2>2, <3>1 DEF Fainted
      <3>3. ~Excused(team, "ai")
        BY <1>3, <2>2, <3>2 DEF Excused
      <3> QED BY <1>1, <1>3, <3>3 DEF Inv, AfterInv
    <2>4. actor = first /\ continuation # None
      BY <1>5, <2>3
    <2>5. DelayedSwitchThenLastAction(t)
      BY <1>2, <1>3, <1>7, <2>4 DEF DelayedSwitchThenNoSelection
    <2>6. /\ choice' \in LastSelections("ai") /\ actor' = "ai" /\ continuation' = None
          /\ phase' = (IF ValidLastAction(t, "ai") THEN "last" ELSE "failed")
          /\ team' = t /\ owed' = StillOwed(t, {})
      BY <1>2, <1>3, <2>5 DEF DelayedSwitchThenLastAction, Turns
    <2>7. phase' = "last"
      BY <1>3, <1>4, <2>2, <2>6 DEF ValidLastAction, Other
    <2>8. choice' \in Move \cup {Switch}
      <3>1. choice' = continuation
        BY <2>4, <2>6 DEF LastSelections
      <3>2. continuation \in Selection
        BY <2>4 DEF Inv, ArgumentsInv
      <3> QED BY <1>5, <3>1, <3>2 DEF Selection
    <2>9. owed' \subseteq owed
      BY <2>6 DEF StillOwed
    <2>10. \A s \in Side : Moved(t, s) \/ ~t[s].alive => s \notin owed'
      BY <1>3, <1>5, <2>2, <2>9
    <2>11. continuation' # Pass
      BY <2>6 DEF None, Pass
    <2> QED BY <1>5, <2>6, <2>7, <2>8, <2>9, <2>10, <2>11 DEF SettledInv, Executing, Moved
  <1> QED BY <1>6, <1>7

LEMMA AfterDelayedSwitchSettles ==
  ASSUME PivotsAreHarmlessAtFirst, Inv, SettledInv, generation' = generation,
         NEW t \in AfterDelayedSwitch,
         \/ DelayedSwitchEndsTurn(t)
         \/ DelayedSwitchThenLastAction(t)
         \/ DelayedSwitchThenNoSelection(t)
  PROVE  SettledInv' /\ phase' \in {"won", "eot", "last"}
  <1>1. actor \in Side
    BY DEF Inv, ArgumentsInv
  <1> QED BY <1>1, AIsDelayedSwitchSettles, FoesDelayedSwitchSettles DEF Side

LEMMA ReplacesBeforeEndOfTurnSettles ==
  ASSUME Inv, SettledInv, NEW selection \in {Switch, Pass}, NEW faints \in BOOLEAN,
         ReplacesBeforeEndOfTurn(selection, faints)
  PROVE  SettledInv' /\ phase' = "eot"
  <1>1. /\ phase = "after" /\ generation = 2 /\ Fainted(team) # {} /\ phase' = "eot"
        /\ owed' = StillOwed(team', {}) /\ continuation' = continuation
    BY ReplacesBeforeEndOfTurnFields
  <1>2. owed = {} /\ continuation # Pass
    BY <1>1 DEF SettledInv
  <1>3. owed' = {}
    BY <1>1, <1>2 DEF StillOwed
  <1> QED BY <1>1, <1>2, <1>3 DEF SettledInv, Executing

\* The turn is over when the second one has acted, can no longer or need not.
LEMMA GoesToEndOfTurnSettles ==
  ASSUME Inv, SettledInv, generation' = generation, GoesToEndOfTurn
  PROVE  SettledInv'
  <1>1. /\ phase = "after" /\ ~SomebodyIsDelayed /\ TurnIsOver /\ phase' = "eot"
        /\ UNCHANGED <<team, continuation, owed>>
    BY DEF GoesToEndOfTurn, NoSwitchIsDue
  <1>2. /\ first \in Side /\ actor \in Side /\ owed \in SUBSET Side /\ continuation # Pass
        /\ actor \notin owed /\ (actor # first => owed = {})
        /\ (generation <= 3 /\ Fainted(team) # {} => owed = {})
        /\ \A s \in Side : Moved(team, s) \/ ~team[s].alive => s \notin owed
    BY <1>1 DEF Inv, ArgumentsInv, SettledInv
  <1>3. Side = {first, Other(first)}
    BY <1>2, TwoSides
  <1>4. \/ generation <= 3 /\ Fainted(team) # {}
        \/ Moved(team, Other(first)) \/ ~team[Other(first)].alive
    BY <1>1 DEF TurnIsOver, FaintingForcesEndOfTurn, Fainted
  <1>5. owed = {}
    BY <1>2, <1>3, <1>4
  <1> QED BY <1>1, <1>2, <1>5 DEF SettledInv, Executing

LEMMA SecondGoesOnSettles ==
  ASSUME Inv, SettledInv, generation' = generation, SecondGoesOn
  PROVE  SettledInv'
  <1>1. /\ phase = "after" /\ phase' \in {"second", "failed"}
        /\ phase' = "second" => continuation # None
        /\ choice' = continuation /\ continuation' = None
        /\ UNCHANGED <<team, first, owed>>
    BY DEF SecondGoesOn, NoSwitchIsDue
  <1>2. /\ actor # first => continuation = None
        /\ continuation \in Selection \cup {None} /\ continuation # Pass
        /\ actor \notin owed
        /\ \A s \in Side : Moved(team, s) \/ ~team[s].alive => s \notin owed
    BY <1>1 DEF Inv, ArgumentsInv, AfterInv, SettledInv
  <1>3. phase' = "second" => continuation \in Move \cup {Switch} /\ first \notin owed
    BY <1>1, <1>2 DEF Selection
  <1> QED BY <1>1, <1>2, <1>3 DEF SettledInv, Executing, Moved, None, Pass

\* Between two turns nobody owes anything.
LEMMA FinishedSettles ==
  ASSUME NEW t, FinishedWith(t)
  PROVE  SettledInv'
  <1>1. phase' \in {"failed", "won", "replace", "start"} /\ continuation' = None /\ owed' = {}
    BY DEF FinishedWith, Finish
  <1> QED BY <1>1 DEF SettledInv, Executing, None, Pass

LEMMA NextSettles ==
  ASSUME PivotsAreHarmlessAtFirst, AIPivotsSecond
  PROVE  Inv /\ SettledInv /\ [Next]_vars => SettledInv'
  <1> SUFFICES ASSUME Inv, SettledInv, [Next]_vars PROVE SettledInv'
    OBVIOUS
  <1>1. CASE UNCHANGED vars
    BY <1>1 DEF vars, SettledInv, Moved, Fainted
  <1>2. CASE Next
    <2>0. generation' = generation /\ Plays
      BY <1>2 DEF Next
    <2>1. CASE \E selections \in [Side -> Selection], s \in Side : StartOfTurn(selections, s)
      BY <2>0, <2>1, StartOfTurnSettles
    <2>2. CASE Executes
      <3>1. phase \in Executing
        BY <2>2 DEF Executes, ExecutesNothing, ExecutesSwitch, MoveIsUnsuccessful,
                    BlockedByProtect, UsesPhazingMove, UsesDamagingMove, UsesStatusMove,
                    Reaches, CanExecute, CanAttempt, UsesMove
      <3>2. ~ExecutesNothing
        BY <3>1, ExecutesWhatIsOwed
      <3> QED BY <2>0, <2>2, <3>2, ExecutesOutcome, OutcomeSettles
    <2>3. CASE AfterAction
      <3>1. ASSUME NEW t \in AfterDelayedSwitch,
                   \/ DelayedSwitchEndsTurn(t)
                   \/ DelayedSwitchThenLastAction(t)
                   \/ DelayedSwitchThenNoSelection(t)
            PROVE  SettledInv'
        BY <2>0, <3>1, AfterDelayedSwitchSettles
      <3>2. CASE \E selection \in {Switch, Pass}, faints \in BOOLEAN :
                   ReplacesBeforeEndOfTurn(selection, faints)
        BY <2>0, <3>2, ReplacesBeforeEndOfTurnSettles
      <3>3. CASE GoesToEndOfTurn \/ SecondGoesOn
        BY <2>0, <3>3, GoesToEndOfTurnSettles, SecondGoesOnSettles
      <3> QED BY <2>3, <3>1, <3>2, <3>3 DEF AfterAction
    <2>4. CASE \/ \E ends, faints \in [Side -> BOOLEAN] : EndOfTurn(ends, faints)
               \/ \E selections \in [Side -> {Switch, Pass}], faints \in [Side -> BOOLEAN] :
                    ReplacesFainted(selections, faints)
      BY <2>4, EndOfTurnOutcome, ReplacesFaintedOutcome, FinishedSettles
    <2>5. CASE Finished
      BY <2>5 DEF Finished, SettledInv, Executing
    <2> QED BY <2>0, <2>1, <2>2, <2>3, <2>4, <2>5 DEF Plays
  <1> QED BY <1>1, <1>2

LEMMA SettledHolds ==
  ASSUME PivotsAreHarmlessAtFirst, AIPivotsSecond
  PROVE  Spec => [](Inv /\ SettledInv)
  <1>1. Init => SettledInv
    BY DEF Init, SettledInv, Executing, None, Pass
  <1>2. Inv /\ SettledInv /\ [Next]_vars => SettledInv'
    BY NextSettles
  <1> QED BY <1>1, <1>2, InvHolds, PTL DEF Spec

\* A turn does not end before everyone has acted who was not dragged out, made to
\* flinch or knocked out, if the AI never moves first with U-turn, Volt Switch or
\* Baton Pass.  When it does the foe, who was to act next, may be left without a
\* selection.
THEOREM EveryoneActsWhereTheAIPivotsSecond ==
  ASSUME PivotsAreHarmlessAtFirst, AIPivotsSecond
  PROVE  Spec => []EveryoneActs
  <1>1. SettledInv => EveryoneActs
    BY DEF SettledInv, EveryoneActs
  <1> QED BY <1>1, SettledHolds, PTL

-----------------------------------------------------------------------------
(* Where moreover no move is blocked                                       *)

\* A move that runs into Protect takes its user along.
LEMMA BlockedFaints ==
  ASSUME NothingIsBlocked, Inv, phase \in Executing,
         choice \in Blockable, NEW o, o = Other(actor),
         IsProtecting(team[o].lum), ProtectsWith(team[o].lum)
  PROVE  choice \in SelfDestructing
  <1>1. /\ actor \in Side /\ generation \in Generations
        /\ \A s \in Side : MemberInv(s, team[s])
        /\ choice \in MovesOf[generation][actor]
    BY ExecutingFacts, EffectsAssumption
  <1>2. o \in Side /\ Other(o) = actor
    BY <1>1, TwoSides
  <1>3. team[o].lum.move \in Move /\ KindOf[team[o].lum.move] = "protect"
    BY DEF ProtectsWith
  <1>4. team[o].lum.move \in MovesOf[generation][o]
    BY <1>1, <1>2, <1>3, SelectionAssumption DEF MemberInv
  <1> QED BY <1>1, <1>2, <1>3, <1>4 DEF NothingIsBlocked

LEMMA OutcomeUnblocked ==
  ASSUME PivotsAreHarmlessAtFirst, NothingIsBlocked, Inv, SettledInv, UnblockedInv,
         NEW t, NEW done, Outcome(t, done)
  PROVE  UnblockedInv'
  <1>1. /\ phase \in Executing /\ phase' = AfterExecution(t) /\ team' = t
        /\ UNCHANGED <<first, actor>>
        /\ (~IsProtecting(team[actor].lum) /\ ProtectsWith(team[Other(actor)].lum) =>
              \A s \in Side : ProtectsWith(t[s].lum))
        /\ \/ Moved(t, actor)
           \/ /\ phase # "first" /\ IsProtecting(team[Other(actor)].lum)
              /\ choice \in Blockable
              /\ choice \in SelfDestructing => ~t[actor].alive
    BY DEF Outcome, Executed, Turns
  <1>2. actor \in Side /\ Other(actor) \in Side
    BY <1>1, ExecutingFacts, TwoSides
  <1>3. ~IsProtecting(team[actor].lum) /\ ProtectsWith(team[Other(actor)].lum)
    BY <1>1, <1>2, ExecutesWhatIsOwed DEF UnblockedInv
  <1>4. \A s \in Side : ProtectsWith(t[s].lum)
    BY <1>1, <1>3
  <1>5. phase' = "after" /\ phase # "first" => actor # first
    BY <1>1, ExecutingFacts DEF AfterExecution, Executing
  <1>6. phase' = "after" => Moved(t, actor) \/ (actor # first /\ ~t[actor].alive)
    BY <1>1, <1>3, <1>5, BlockedFaints
  <1>7. phase' # "failed"
    BY <1>1 DEF AfterExecution
  <1> QED BY <1>1, <1>4, <1>6, <1>7 DEF UnblockedInv, Moved

\* Nobody is protected when a turn starts.
LEMMA StartOfTurnUnblocked ==
  ASSUME Inv, NEW selections \in [Side -> Selection], NEW s \in Side, StartOfTurn(selections, s)
  PROVE  UnblockedInv'
  <1>1. phase = "start" /\ phase' = "first" /\ UNCHANGED team
    BY DEF StartOfTurn
  <1>2. \A x \in Side : ~IsProtecting(team[x].lum)
    BY <1>1 DEF Inv, TeamInv, MemberInv, LumInv, BetweenTurnsInv, Moved
  <1> QED BY <1>1, <1>2 DEF UnblockedInv, ProtectsWith

\* Who is to act next is the second one, after the first has moved.
LEMMA SecondGoesOnUnblocked ==
  ASSUME Inv, SettledInv, UnblockedInv, SecondGoesOn
  PROVE  UnblockedInv'
  <1>1. /\ phase = "after" /\ ~TurnIsOver /\ UNCHANGED team
        /\ phase' = (IF Moved(team, first) /\ continuation # None THEN "second" ELSE "failed")
    BY DEF SecondGoesOn, NoSwitchIsDue
  <1>2. first \in Side /\ actor \in Side
    BY DEF Inv, ArgumentsInv
  <1>3. /\ ~Moved(team, Other(first)) /\ team[Other(first)].alive
    BY <1>1, <1>2, TwoSides DEF TurnIsOver, FaintingForcesEndOfTurn, Fainted
  <1>4. actor = first
    <2> SUFFICES ASSUME actor # first PROVE FALSE
      OBVIOUS
    <2>1. actor = Other(first)
      BY <1>2, TwoSides
    <2> QED BY <1>1, <1>3, <2>1 DEF UnblockedInv
  <1>5. Moved(team, first) /\ continuation # None
    BY <1>1, <1>4 DEF UnblockedInv, SettledInv
  <1> QED BY <1>1, <1>5 DEF UnblockedInv, Executing

LEMMA NextUnblocked ==
  ASSUME PivotsAreHarmlessAtFirst, AIPivotsSecond, NothingIsBlocked
  PROVE  Inv /\ SettledInv /\ UnblockedInv /\ [Next]_vars => UnblockedInv'
  <1> SUFFICES ASSUME Inv, SettledInv, UnblockedInv, [Next]_vars PROVE UnblockedInv'
    OBVIOUS
  <1>1. CASE UNCHANGED vars
    BY <1>1 DEF vars, UnblockedInv, Moved
  <1>2. CASE Next
    <2>0. generation' = generation /\ Plays
      BY <1>2 DEF Next
    <2>1. CASE \E selections \in [Side -> Selection], s \in Side : StartOfTurn(selections, s)
      BY <2>1, StartOfTurnUnblocked
    <2>2. CASE Executes
      <3>1. phase \in Executing
        BY <2>2 DEF Executes, ExecutesNothing, ExecutesSwitch, MoveIsUnsuccessful,
                    BlockedByProtect, UsesPhazingMove, UsesDamagingMove, UsesStatusMove,
                    Reaches, CanExecute, CanAttempt, UsesMove
      <3>2. ~ExecutesNothing
        BY <3>1, ExecutesWhatIsOwed
      <3> QED BY <2>2, <3>2, ExecutesOutcome, OutcomeUnblocked
    <2>3. CASE AfterAction
      <3>1. ASSUME NEW t \in AfterDelayedSwitch,
                   \/ DelayedSwitchEndsTurn(t)
                   \/ DelayedSwitchThenLastAction(t)
                   \/ DelayedSwitchThenNoSelection(t)
            PROVE  UnblockedInv'
        <4>1. /\ SwitchesMidTurn /\ phase = "after" /\ team' = t
          BY <3>1 DEF DelayedSwitchEndsTurn, DelayedSwitchThenLastAction,
                      DelayedSwitchThenNoSelection, SwitchesMidTurn, Turns
        <4>2. phase' \in {"won", "eot", "last"}
          BY <2>0, <3>1, AfterDelayedSwitchSettles
        <4>3. \A s \in Side : ProtectsWith(t[s].lum)
          BY <4>1, AfterDelayedSwitchFields DEF UnblockedInv
        <4> QED BY <4>1, <4>2, <4>3 DEF UnblockedInv
      <3>2. CASE \E selection \in {Switch, Pass}, faints \in BOOLEAN :
                   ReplacesBeforeEndOfTurn(selection, faints)
        <4>1. phase' \in {"eot", "failed"}
          BY <3>2 DEF ReplacesBeforeEndOfTurn, Turns
        <4>2. phase' # "failed"
          BY <2>0, <3>2, ReplacesBeforeEndOfTurnSettles
        <4> QED BY <4>1, <4>2 DEF UnblockedInv, Executing
      <3>3. CASE GoesToEndOfTurn
        BY <3>3 DEF GoesToEndOfTurn, UnblockedInv, Executing
      <3>4. CASE SecondGoesOn
        BY <3>4, SecondGoesOnUnblocked
      <3> QED BY <2>3, <3>1, <3>2, <3>3, <3>4 DEF AfterAction
    <2>4. CASE \/ \E ends, faints \in [Side -> BOOLEAN] : EndOfTurn(ends, faints)
               \/ \E selections \in [Side -> {Switch, Pass}], faints \in [Side -> BOOLEAN] :
                    ReplacesFainted(selections, faints)
      <3>1. PICK t : FinishedWith(t)
        BY <2>4, EndOfTurnOutcome, ReplacesFaintedOutcome
      <3>2. phase' \in {"won", "replace", "start"}
        <4>1. phase' # "failed"
          BY <2>0, <3>1, FinishedKeepsInv
        <4> QED BY <3>1, <4>1 DEF FinishedWith, Finish
      <3> QED BY <3>2 DEF UnblockedInv, Executing
    <2>5. CASE Finished
      BY <2>5 DEF Finished, UnblockedInv, Executing
    <2> QED BY <2>0, <2>1, <2>2, <2>3, <2>4, <2>5 DEF Plays
  <1> QED BY <1>1, <1>2

LEMMA UnblockedHolds ==
  ASSUME PivotsAreHarmlessAtFirst, AIPivotsSecond, NothingIsBlocked
  PROVE  Spec => [](Inv /\ SettledInv /\ UnblockedInv)
  <1>1. Init => UnblockedInv
    BY DEF Init, UnblockedInv, Executing
  <1>2. Inv /\ SettledInv /\ UnblockedInv /\ [Next]_vars => UnblockedInv'
    BY NextUnblocked
  <1> QED BY <1>1, <1>2, SettledHolds, PTL DEF Spec

\* None of the assertions between the functions of the recursion fails, and the
\* optional second selection is there when it is dereferenced, if the AI never moves
\* first with a move that is followed by a switch and nobody can run into Protect,
\* with an attack or with a move like Roar, and live.
THEOREM NothingFailsWhereNothingIsBlocked ==
  ASSUME PivotsAreHarmlessAtFirst, AIPivotsSecond, NothingIsBlocked
  PROVE  Spec => []NothingFails
  <1>1. UnblockedInv => NothingFails
    BY DEF UnblockedInv, NothingFails
  <1> QED BY <1>1, UnblockedHolds, PTL

-----------------------------------------------------------------------------
(* There the recursion implements TurnProtocol.                            *)

\* The stage of the protocol a function of the recursion is called in
LEMMA Stages ==
  /\ phase \in Executing \cup {"after", "eot"} => Stage = "act"
  /\ phase = "start" => Stage = "select"
  /\ phase = "replace" => Stage = "replace"
  /\ phase = "won" => Stage = "over"
  BY DEF Stage, Executing

LEMMA StagesNext ==
  /\ phase' \in Executing \cup {"after", "eot"} => Stage' = "act"
  /\ phase' = "start" => Stage' = "select"
  /\ phase' = "replace" => Stage' = "replace"
  /\ phase' = "won" => Stage' = "over"
  BY DEF Stage, Executing

\* A side is defeated when its last Pokemon has no HP.
LEMMA Defeats ==
  ASSUME NEW t, team' = t
  PROVE  (\E s \in Side : Protocol!Defeated(s)') <=> Lost(t) # {}
  BY DEF Protocol!Defeated, Lost, Fainted

LEMMA StartOfTurnRefines ==
  ASSUME Inv, NEW selections \in [Side -> Selection], NEW s \in Side, StartOfTurn(selections, s)
  PROVE  Protocol!Select
  <1>1. phase = "start" /\ phase' = "first" /\ owed' = Side /\ UNCHANGED team
    BY DEF StartOfTurn
  <1>2. Stage = "select" /\ Stage' = "act"
    BY <1>1, Stages, StagesNext DEF Executing
  <1>3. \A x \in Side : team[x].alive
    BY <1>1, NobodyFainted DEF Inv, BetweenTurnsInv
  <1> QED BY <1>1, <1>2, <1>3 DEF Protocol!Select

LEMMA OutcomeRefines ==
  ASSUME PivotsAreHarmlessAtFirst, Inv, SettledInv, NEW t, NEW done, Outcome(t, done)
  PROVE  actor \in Side /\ Protocol!Act(actor)
  <1>1. /\ phase \in Executing /\ phase' = AfterExecution(t) /\ team' = t
        /\ owed' = StillOwed(t, done) /\ actor \in done /\ TeamInv(t)
        /\ \A s \in Side : (t[s].alive => team[s].alive) /\ t[s].size = team[s].size
    BY DEF Outcome, Executed, Turns
  <1>2. actor \in Side /\ actor \in owed /\ team[actor].alive
    BY <1>1, ExecutingFacts, ExecutesWhatIsOwed
  <1>3. Stage = "act"
    BY <1>1, Stages
  <1>4. Stage' = IF Lost(t) # {} THEN "over" ELSE "act"
    BY <1>1, StagesNext DEF AfterExecution
  <1>5. Protocol!OverIfDefeated("act")
    BY <1>1, <1>4, Defeats DEF Protocol!OverIfDefeated
  <1>6. owed' \in SUBSET (owed \ {actor})
    BY <1>1 DEF StillOwed
  <1>7. [s \in Side |-> t[s].alive] \in [Side -> BOOLEAN]
    BY <1>1 DEF TeamInv, MemberInv
  <1>8. [s \in Side |-> t[s].size] = [s \in Side |-> team[s].size]
    BY <1>1
  <1> QED BY <1>1, <1>2, <1>3, <1>5, <1>6, <1>7, <1>8 DEF Protocol!Act

\* Who leaves in the middle of a turn has acted.
LEMMA AfterDelayedSwitchRefines ==
  ASSUME PivotsAreHarmlessAtFirst, Inv, SettledInv, generation' = generation,
         NEW t \in AfterDelayedSwitch,
         \/ DelayedSwitchEndsTurn(t)
         \/ DelayedSwitchThenLastAction(t)
         \/ DelayedSwitchThenNoSelection(t)
  PROVE  actor \in Side /\ Protocol!Leaves(actor)
  <1> DEFINE o == Other(actor)
  <1>1. /\ SwitchesMidTurn /\ phase = "after" /\ team' = t /\ owed' = StillOwed(t, {})
        /\ phase' = "won" => Lost(t) # {}
    BY DEF DelayedSwitchEndsTurn, DelayedSwitchThenLastAction, DelayedSwitchThenNoSelection,
           SwitchesMidTurn, Turns
  <1>2. phase' \in {"won", "eot", "last"}
    BY AfterDelayedSwitchSettles
  <1>3. /\ actor \in Side /\ TeamInv(team) /\ team[actor].size # 1
        /\ team[actor].size \in 1..MaxTeamSize
    BY <1>1, DelayedSwitcherActed DEF DelayedSwitching, TeamInv, MemberInv
  <1>4. /\ o \in Side /\ o # actor /\ Side = {actor, o}
    BY <1>3, TwoSides
  <1>5. /\ TeamInv(t) /\ (t[o].alive <=> team[o].alive) /\ t[o].size = team[o].size
        /\ t[actor].size = (IF team[actor].alive THEN team[actor].size ELSE team[actor].size - 1)
    BY <1>1, AfterDelayedSwitchFields
  <1>6. actor \notin owed
    BY <1>1 DEF SettledInv
  <1>7. Stage = "act" /\ (Stage' = "act" \/ Protocol!OverIfDefeated("act"))
    <2>1. Stage = "act" /\ (Stage' = "act" \/ (Stage' = "over" /\ Lost(t) # {}))
      BY <1>1, <1>2, Stages, StagesNext DEF Executing
    <2> QED BY <1>1, <2>1, Defeats DEF Protocol!OverIfDefeated
  <1>8. team[actor].alive \/ actor \in Protocol!Replaceable
    BY <1>3 DEF Protocol!Replaceable
  <1>9. \E up \in BOOLEAN : [s \in Side |-> t[s].alive]
                              = [[s \in Side |-> team[s].alive] EXCEPT ![actor] = up]
    <2> DEFINE up == t[actor].alive
    <2>1. up \in BOOLEAN /\ \A s \in Side : t[s].alive \in BOOLEAN /\ team[s].alive \in BOOLEAN
      BY <1>3, <1>5 DEF TeamInv, MemberInv
    <2>2. \A s \in Side : t[s].alive = IF s = actor THEN up ELSE team[s].alive
      BY <1>4, <1>5, <2>1
    <2>3. [s \in Side |-> t[s].alive] = [[s \in Side |-> team[s].alive] EXCEPT ![actor] = up]
      BY <1>3, <2>2
    <2> QED BY <2>1, <2>3
  <1>10. Protocol!Replaced({actor} \cap Protocol!Replaceable)
    <2>1. actor \in Protocol!Replaceable <=> ~team[actor].alive
      BY <1>3 DEF Protocol!Replaceable
    <2>2. \A s \in Side : t[s].size = IF s \in {actor} \cap Protocol!Replaceable
                                      THEN team[s].size - 1 ELSE team[s].size
      BY <1>4, <1>5, <2>1
    <2> QED BY <1>1, <2>2 DEF Protocol!Replaced
  <1>11. owed' \in SUBSET owed
    BY <1>1 DEF StillOwed
  <1> QED BY <1>1, <1>3, <1>6, <1>7, <1>8, <1>9, <1>10, <1>11 DEF Protocol!Leaves

\* Before the end of a turn of the second generation only the fainted leave.
LEMMA ReplacesBeforeEndOfTurnRefines ==
  ASSUME Inv, SettledInv, generation' = generation,
         NEW selection \in {Switch, Pass}, NEW faints \in BOOLEAN,
         ReplacesBeforeEndOfTurn(selection, faints)
  PROVE  Protocol!Leaves("foe") \/ UNCHANGED Protocol!vars
  <1> DEFINE t == SwitchPokemon(team, "foe", faints)
  <1>1. /\ phase = "after" /\ generation = 2 /\ Fainted(team) # {}
        /\ selection \in LegalSelections(team, "foe")
        /\ team' = (IF selection = Switch THEN t ELSE team) /\ owed' = StillOwed(team', {})
        /\ phase' \in {"eot", "failed"}
        /\ phase' = "eot" => ("foe" \notin Fainted(team) => selection = Pass)
    BY DEF ReplacesBeforeEndOfTurn, ReplacementBeforeEndOfTurn, Turns
  <1>2. TeamInv(team) /\ generation \in Generations
    BY DEF Inv, ArgumentsInv
  <1>3. "ai" \in Side /\ "foe" \in Side /\ Side = {"ai", "foe"} /\ Other("foe") = "ai"
    BY DEF Side, Other
  <1>4. phase' = "eot" /\ owed = {} /\ owed' = {}
    <2>1. phase' = "eot"
      BY <1>1, ReplacesBeforeEndOfTurnSettles
    <2>2. owed = {}
      BY <1>1 DEF SettledInv
    <2> QED BY <1>1, <2>1, <2>2 DEF StillOwed
  <1>5. Stage = "act" /\ Stage' = "act"
    BY <1>1, <1>4, Stages, StagesNext
  <1>6. CASE selection = Switch
    <2>1. team["foe"].size \in 1..MaxTeamSize /\ team["foe"].size # 1 /\ ~team["foe"].alive
      BY <1>1, <1>2, <1>3, <1>4, <1>6, LegalIsKnown DEF TeamInv, MemberInv, Fainted, Switch, Pass
    <2>2. t = SwitchPokemon(team, "foe", faints) /\ team' = t
      BY <1>1, <1>6
    <2> HIDE DEF t
    <2>3. /\ TeamInv(t) /\ t["foe"].size = team["foe"].size - 1 /\ t["ai"].size = team["ai"].size
          /\ (t["ai"].alive <=> team["ai"].alive)
      BY <1>2, <1>3, <2>1, <2>2, SwitchKeeps
    <2>4. "foe" \in Protocol!Replaceable
      BY <1>3, <2>1 DEF Protocol!Replaceable
    <2>5. \E up \in BOOLEAN : [s \in Side |-> t[s].alive]
                                = [[s \in Side |-> team[s].alive] EXCEPT !["foe"] = up]
      <3> DEFINE up == t["foe"].alive
      <3>1. up \in BOOLEAN /\ \A s \in Side : t[s].alive \in BOOLEAN /\ team[s].alive \in BOOLEAN
        BY <1>2, <1>3, <2>3 DEF TeamInv, MemberInv
      <3>2. \A s \in Side : t[s].alive = IF s = "foe" THEN up ELSE team[s].alive
        BY <1>3, <2>3, <3>1
      <3>3. [s \in Side |-> t[s].alive] = [[s \in Side |-> team[s].alive] EXCEPT !["foe"] = up]
        BY <1>3, <3>2
      <3> QED BY <3>1, <3>3
    <2>6. Protocol!Replaced({"foe"} \cap Protocol!Replaceable)
      <3>1. \A s \in Side : t[s].size = IF s \in {"foe"} \cap Protocol!Replaceable
                                        THEN team[s].size - 1 ELSE team[s].size
        BY <1>3, <2>3, <2>4
      <3> QED BY <2>2, <3>1 DEF Protocol!Replaced
    <2> QED BY <1>4, <1>5, <2>2, <2>4, <2>5, <2>6 DEF Protocol!Leaves
  <1>7. CASE selection # Switch
    BY <1>1, <1>4, <1>5, <1>7 DEF Protocol!vars
  <1> QED BY <1>6, <1>7

\* What finish_end_of_turn decides
LEMMA FinishedStage ==
  ASSUME NEW t, FinishedWith(t)
  PROVE  /\ team' = t /\ owed' = {}
         /\ Protocol!OverIfDefeated(IF \A s \in Side : t[s].alive THEN "select" ELSE "replace")
  <1>1. /\ team' = t /\ owed' = {}
        /\ phase' = IF Lost(t) # {} THEN "won"
                    ELSE IF Fainted(t) # {} THEN "replace" ELSE "start"
    BY DEF FinishedWith, Finish
  <1>2. Stage' = IF Lost(t) # {} THEN "over" ELSE IF Fainted(t) # {} THEN "replace" ELSE "select"
    BY <1>1, StagesNext
  <1>3. Fainted(t) = {} <=> \A s \in Side : t[s].alive
    BY DEF Fainted
  <1> QED BY <1>1, <1>2, <1>3, Defeats DEF Protocol!OverIfDefeated

LEMMA EndOfTurnRefines ==
  ASSUME Inv, SettledInv, NEW ends \in [Side -> BOOLEAN], NEW faints \in [Side -> BOOLEAN],
         EndOfTurn(ends, faints)
  PROVE  Protocol!EndTurn
  <1>1. phase = "eot"
    BY DEF EndOfTurn
  <1>2. PICK t : /\ FinishedWith(t)
                 /\ \A s \in Side : (t[s].alive => team[s].alive) /\ t[s].size = team[s].size
    BY EndOfTurnOutcome
  <1>3. /\ team' = t /\ owed' = {} /\ owed = {} /\ Stage = "act"
        /\ Protocol!OverIfDefeated(IF \A s \in Side : t[s].alive THEN "select" ELSE "replace")
    BY <1>1, <1>2, FinishedStage, Stages DEF SettledInv
  <1>4. [s \in Side |-> t[s].alive] \in [Side -> BOOLEAN]
    BY <1>2 DEF FinishedWith, TeamInv, MemberInv
  <1>5. [s \in Side |-> t[s].size] = [s \in Side |-> team[s].size]
    BY <1>2
  <1> QED BY <1>2, <1>3, <1>4, <1>5 DEF Protocol!EndTurn

LEMMA ReplacesFaintedRefines ==
  ASSUME Inv, NEW selections \in [Side -> {Switch, Pass}], NEW faints \in [Side -> BOOLEAN],
         ReplacesFainted(selections, faints), owed = {}
  PROVE  Protocol!Replace
  <1>1. phase = "replace"
    BY DEF ReplacesFainted
  <1>2. PICK t : /\ FinishedWith(t)
                 /\ \A s \in Side : IF s \in Fainted(team) THEN t[s].size = team[s].size - 1
                                   ELSE t[s].size = team[s].size /\ t[s].alive
    BY ReplacesFaintedOutcome
  <1>3. /\ team' = t /\ owed' = {} /\ Stage = "replace"
        /\ Protocol!OverIfDefeated(IF \A s \in Side : t[s].alive THEN "select" ELSE "replace")
    BY <1>1, <1>2, FinishedStage, Stages
  <1>4. \A s \in Side : s \in Protocol!Replaceable <=> s \in Fainted(team)
    BY <1>1 DEF Inv, BetweenTurnsInv, TeamInv, MemberInv, Lost, Fainted, Protocol!Replaceable
  <1>5. Protocol!Replaced(Protocol!Replaceable)
    <2>1. \A s \in Side : t[s].size = IF s \in Protocol!Replaceable
                                      THEN team[s].size - 1 ELSE team[s].size
      BY <1>2, <1>4
    <2> QED BY <1>3, <2>1 DEF Protocol!Replaced
  <1>6. \A s \in Side : t[s].alive \in BOOLEAN /\ team[s].alive \in BOOLEAN
    BY <1>2 DEF FinishedWith, Inv, TeamInv, MemberInv
  <1>7. \A s \in Side \ Protocol!Replaceable : t[s].alive = team[s].alive
    BY <1>2, <1>4, <1>6 DEF Fainted
  <1> QED BY <1>3, <1>5, <1>6, <1>7 DEF Protocol!Replace

LEMMA NextRefines ==
  ASSUME PivotsAreHarmlessAtFirst, AIPivotsSecond, NothingIsBlocked
  PROVE  Inv /\ SettledInv /\ UnblockedInv /\ UnblockedInv' /\ [Next]_vars
           => [Protocol!Next]_(Protocol!vars)
  <1> SUFFICES ASSUME Inv, SettledInv, UnblockedInv, UnblockedInv', [Next]_vars
               PROVE  Protocol!Next \/ UNCHANGED Protocol!vars
    OBVIOUS
  <1>1. CASE UNCHANGED vars
    BY <1>1 DEF vars, Protocol!vars, Stage
  <1>2. CASE Next
    <2>0. generation' = generation /\ Plays
      BY <1>2 DEF Next
    <2>1. CASE \E selections \in [Side -> Selection], s \in Side : StartOfTurn(selections, s)
      BY <2>1, StartOfTurnRefines DEF Protocol!Next
    <2>2. CASE Executes
      <3>1. phase \in Executing
        BY <2>2 DEF Executes, ExecutesNothing, ExecutesSwitch, MoveIsUnsuccessful,
                    BlockedByProtect, UsesPhazingMove, UsesDamagingMove, UsesStatusMove,
                    Reaches, CanExecute, CanAttempt, UsesMove
      <3>2. ~ExecutesNothing
        BY <3>1, ExecutesWhatIsOwed
      <3>3. actor \in Side /\ Protocol!Act(actor)
        BY <2>2, <3>2, ExecutesOutcome, OutcomeRefines
      <3>4. PICK s \in Side : s = actor
        BY <3>3
      <3>5. Protocol!Act(s)
        BY <3>3, <3>4 DEF Protocol!Act
      <3> QED BY <3>5 DEF Protocol!Next
    <2>3. CASE AfterAction
      <3>1. ASSUME NEW t \in AfterDelayedSwitch,
                   \/ DelayedSwitchEndsTurn(t)
                   \/ DelayedSwitchThenLastAction(t)
                   \/ DelayedSwitchThenNoSelection(t)
            PROVE  Protocol!Next
        <4>1. actor \in Side /\ Protocol!Leaves(actor)
          BY <2>0, <3>1, AfterDelayedSwitchRefines
        <4>2. PICK s \in Side : s = actor
          BY <4>1
        <4>3. Protocol!Leaves(s)
          BY <4>1, <4>2 DEF Protocol!Leaves, Protocol!Replaced
        <4> QED BY <4>3 DEF Protocol!Next
      <3>2. ASSUME NEW selection \in {Switch, Pass}, NEW faints \in BOOLEAN,
                   ReplacesBeforeEndOfTurn(selection, faints)
            PROVE  Protocol!Next \/ UNCHANGED Protocol!vars
        <4>1. Protocol!Leaves("foe") \/ UNCHANGED Protocol!vars
          BY <2>0, <3>2, ReplacesBeforeEndOfTurnRefines
        <4>2. "foe" \in Side
          BY DEF Side
        <4> QED BY <4>1, <4>2 DEF Protocol!Next
      <3>3. CASE GoesToEndOfTurn \/ SecondGoesOn
        <4>1. /\ phase = "after" /\ phase' \in {"eot", "second", "failed"}
              /\ UNCHANGED <<team, owed>>
          BY <3>3 DEF GoesToEndOfTurn, SecondGoesOn, NoSwitchIsDue
        <4>2. phase' # "failed"
          BY DEF UnblockedInv
        <4>3. Stage = "act" /\ Stage' = "act"
          BY <4>1, <4>2, Stages, StagesNext DEF Executing
        <4> QED BY <4>1, <4>3 DEF Protocol!vars
      <3> QED BY <2>3, <3>1, <3>2, <3>3 DEF AfterAction
    <2>4. CASE \E ends, faints \in [Side -> BOOLEAN] : EndOfTurn(ends, faints)
      BY <2>4, EndOfTurnRefines DEF Protocol!Next
    <2>5. ASSUME NEW selections \in [Side -> {Switch, Pass}], NEW faints \in [Side -> BOOLEAN],
                 ReplacesFainted(selections, faints)
          PROVE  Protocol!Next
      <3>1. owed = {}
        BY <2>5 DEF ReplacesFainted, SettledInv
      <3>2. Protocol!Replace
        BY <2>5, <3>1, ReplacesFaintedRefines
      <3> QED BY <3>2 DEF Protocol!Next
    <2>6. CASE Finished
      BY <2>6 DEF Finished, Protocol!vars, Stage
    <2> QED BY <2>0, <2>1, <2>2, <2>3, <2>4, <2>5, <2>6 DEF Plays
  <1> QED BY <1>1, <1>2

\* Every step of the recursion is one that the protocol of a turn allows, or is
\* none of its business: the safety part of ImplementsProtocol.
THEOREM EveryStepIsOfTheProtocol ==
  ASSUME PivotsAreHarmlessAtFirst, AIPivotsSecond, NothingIsBlocked
  PROVE  Spec => Protocol!Init /\ [][Protocol!Next]_(Protocol!vars)
  <1>1. Init => Protocol!Init
    <2> SUFFICES ASSUME Init PROVE Protocol!Init
      OBVIOUS
    <2>1. Stage = "select" /\ owed = {}
      BY Stages DEF Init
    <2>2. \A s \in Side : team[s].alive = TRUE /\ team[s].size \in 1..MaxTeamSize
      BY DEF Init
    <2> QED BY <2>1, <2>2 DEF Protocol!Init
  <1>2. /\ Inv /\ SettledInv /\ UnblockedInv
        /\ (Inv /\ SettledInv /\ UnblockedInv)'
        /\ [Next]_vars
        => [Protocol!Next]_(Protocol!vars)
    BY NextRefines
  <1> QED BY <1>1, <1>2, UnblockedHolds, PTL DEF Spec
=============================================================================

------------------------- MODULE ShowdownMatchProofs -------------------------
(***************************************************************************)
(* Theorems about ShowdownMatch, for teams of any size, any number of      *)
(* afflicted Pokemon and any set of generations, as long as no player      *)
(* knows a Fire move that may burn or a move that makes its target flinch  *)
(* only sometimes.                                                         *)
(*                                                                         *)
(* Everything the server does is told in messages that come one by one     *)
(* while the server waits.  So the invariant speaks of the future: Runs    *)
(* says that the handlers take the client, without an error, through the   *)
(* messages that are still to come, and Settled relates the battle it then *)
(* has to the server's.  A message handled only shortens the run           *)
(* (HandlingKeeps).  An event of the server begins with no message to come *)
(* and a settled client, and has to be shown to tell a run that settles it *)
(* again (Proceeds): a lemma Played... for each action of a player, and    *)
(* StartsTurnKeeps, EndsTurnProceeds and ReplacesProceeds.                 *)
(*                                                                         *)
(* Those runs are made of steps that Advances describes without primes,    *)
(* from one value of the client to the next (HandlersAdvance shows that    *)
(* the handlers do what it says).  Builders are kept in a normal form      *)
(* (Bld, Used, Hint), and a battle in the two records of its sides         *)
(* (BothSides), of which Hurt, Marked, Flinched, Done, Came and Cleared    *)
(* say what an event does, as Left, With, Acted and Entered do of the      *)
(* server's.                                                               *)
(***************************************************************************)
EXTENDS ShowdownMatch, FiniteSetTheorems, SequenceTheorems, TLAPS

-----------------------------------------------------------------------------
(* The invariant between two events of the server                          *)

SideRecord ==
  [active : Roster, living : SUBSET Roster, owes : BOOLEAN, pivots : BOOLEAN,
   status : [Roster -> Status]]
\* Whoever has been made to flinch has moved.
ClientRecord ==
  {c \in [active : Roster, team : SUBSET Roster, down : BOOLEAN, moved : BOOLEAN,
          pivoting : BOOLEAN, flinched : BOOLEAN, status : [Roster -> Status]] :
     c.flinched => c.moved}
UpkeepRecord == [hp : HP \cup {Untold}, status : Status \cup {Untold}, cured : BOOLEAN]
SwitchRecord == [party : Parties, index : Roster, hp : HP, status : Status]

\* The client in a value: all its variables but the two that only record errors
Cl(a, u, r, b, e) == [action |-> a, upkeep |-> u, result |-> r, battle |-> b, endings |-> e]
Client == Cl(action, upkeep, result, battle, endings)

WellFormed(b) == b \in [Parties -> ClientRecord] /\ \A p \in Parties : b[p].active \in b[p].team

\* What is true of the client after every message
Sound(c) ==
  /\ WellFormed(c.battle)
  /\ c.upkeep \in [Parties -> UpkeepRecord]
  /\ c.action.kind \in {"nothing", "move", "switches", "hits self"}
  /\ c.result \in {"unknown", "turn", "finished"}
  /\ c.endings \in {0, 1}

\* One side of the client's battle is that side of the server's.
Follows(mine, s) ==
  /\ mine.active = s.active
  /\ mine.down = (s.active \notin s.living)
  /\ mine.team = s.living \cup {s.active}
  /\ \A q \in s.living : mine.status[q] = s.status[q]
AllFollow(b, sides) == \A p \in Parties : Follows(b[p], sides[p])

Gone(sides, p) == sides[p].living = {}
Alone(s) == s.living \subseteq {s.active}

\* An action is pending of one who has acted.
MovePending(a, sides) ==
  \/ a.kind = "move" /\ a.builder.party \in Parties /\ ~sides[a.builder.party].owes
  \/ a.kind = "hits self" /\ a.party \in Parties /\ ~sides[a.party].owes
SwitchesPending(a, sides) ==
  /\ a.kind = "switches"
  /\ a = Switches(a.list)
  /\ \/ \E e \in SwitchRecord : a.list = <<e>> /\ ~sides[e.party].owes
     \/ \E e, f \in SwitchRecord :
          a.list = <<e, f>> /\ e.party # f.party /\ \A p \in Parties : ~sides[p].owes

\* Within a turn the client's battle is behind by what is pending.
InTurn(b, a, sides) ==
  LET next == Performed(b, a)
  IN  /\ \A p \in Parties :
           /\ next[p].moved = ~sides[p].owes
           /\ next[p].pivoting => Alone(sides[p]) \/ Gone(sides, Other(p)) \/ sides[p].pivots
           /\ b[p].moved => next[p].moved
           /\ b[p].down => next[p].down
           /\ next[p].down => \E q \in Parties : next[q].moved

Settled(c, sides, phaseNow) ==
  /\ c.upkeep = NoUpkeep
  /\ c.result = "unknown"
  /\ phaseNow # "over" =>
       /\ WellFormed(Performed(c.battle, c.action))
       /\ ~PerformThrows(c.battle, c.action)
       /\ AllFollow(Performed(c.battle, c.action), sides)
  /\ phaseNow \in {"choosing", "replacing", "pivoting", "over"} => c.action = Nothing
  /\ phaseNow \in {"choosing", "replacing"} =>
       /\ c.endings = 1
       /\ \A p \in Parties : ~c.battle[p].moved /\ ~c.battle[p].pivoting
  /\ phaseNow = "choosing" => \A p \in Parties : ~c.battle[p].down
  /\ phaseNow \in {"switching", "moving", "pivoting"} =>
       c.endings = 0 /\ InTurn(c.battle, c.action, sides)
  /\ phaseNow = "switching" => c.action = Nothing \/ SwitchesPending(c.action, sides)
  /\ phaseNow = "moving" =>
       c.action = Nothing \/ MovePending(c.action, sides) \/ SwitchesPending(c.action, sides)
  /\ phaseNow # "pivoting" => \A p \in Parties : ~sides[p].pivots
  /\ phaseNow = "pivoting" =>
       \E p \in Parties :
         /\ sides[p].pivots /\ ~sides[Other(p)].pivots
         /\ ~sides[p].owes /\ ~c.battle[p].down /\ c.battle[p].pivoting
         /\ ~Alone(sides[p]) /\ ~Gone(sides, Other(p))

\* The server's part
Phases == {"choosing", "switching", "moving", "pivoting", "replacing", "over"}
ServerOK(sides, phaseNow) == sides \in [Parties -> SideRecord] /\ phaseNow \in Phases

-----------------------------------------------------------------------------
(* Sides                                                                   *)

LEMMA TwoSides ==
  ASSUME NEW p \in Parties
  PROVE  /\ Other(p) \in Parties /\ Other(p) # p /\ Other(Other(p)) = p
         /\ \A q \in Parties : q = p \/ q = Other(p)
<1>1. Other("ai") = "foe"
  BY DEF Other, Parties
<1>2. Other("foe") = "ai"
  BY DEF Other, Parties
<1> QED BY <1>1, <1>2 DEF Parties

LEMMA BothSidesFacts ==
  ASSUME NEW p \in Parties, NEW mine, NEW others
  PROVE  /\ BothSides(p, mine, others)[p] = mine
         /\ BothSides(p, mine, others)[Other(p)] = others
         /\ DOMAIN BothSides(p, mine, others) = Parties
         /\ \A z : [BothSides(p, mine, others) EXCEPT ![p] = z] = BothSides(p, z, others)
         /\ \A z : [BothSides(p, mine, others) EXCEPT ![Other(p)] = z] = BothSides(p, mine, z)
BY TwoSides DEF BothSides

LEMMA AsBothSides ==
  ASSUME NEW p \in Parties, NEW S, NEW f \in [Parties -> S]
  PROVE  /\ f = BothSides(p, f[p], f[Other(p)])
         /\ \A z : [f EXCEPT ![p] = z] = BothSides(p, z, f[Other(p)])
         /\ \A z : [f EXCEPT ![Other(p)] = z] = BothSides(p, f[p], z)
BY TwoSides DEF BothSides

LEMMA OneSide ==
  ASSUME NEW p \in Parties, NEW b, b = BothSides(p, b[p], b[Other(p)]), NEW z
  PROVE  [b EXCEPT ![p] = z] = BothSides(p, z, b[Other(p)])
BY TwoSides DEF BothSides

\* What the operators of the client's battle do to one side of it
Hurt(s, hp) == IF hp = Untold THEN s ELSE [s EXCEPT !.down = (hp = "down")]
Marked(s, status) == [s EXCEPT !.status[s.active] = status]
Came(s, new) ==
  [s EXCEPT !.active = new,
            !.team = IF s.down THEN @ \ {s.active} ELSE @,
            !.down = FALSE,
            !.moved = @ \/ ~s.down,
            !.pivoting = FALSE,
            !.flinched = FALSE]
Flinched(s) == [s EXCEPT !.flinched = TRUE, !.moved = TRUE, !.pivoting = FALSE]
Done(s, pivots) == [s EXCEPT !.moved = TRUE, !.pivoting = pivots]
Differs(s, told) == told.hp # "down" /\ told.status \notin {Untold, s.status[s.active]}

LEMMA CorrectHPIs ==
  ASSUME NEW p \in Parties, NEW b, b = BothSides(p, b[p], b[Other(p)]), NEW told
  PROVE  CorrectHP(b, p, told) = BothSides(p, Hurt(b[p], told.hp), b[Other(p)])
<1>1. CASE told.hp = Untold
  BY <1>1 DEF CorrectHP, Hurt
<1>2. CASE told.hp # Untold
  <2>1. Hurt(b[p], told.hp) = [b[p] EXCEPT !.down = (told.hp = "down")]
    BY <1>2 DEF Hurt
  <2>2. CorrectHP(b, p, told) = [b EXCEPT ![p] = Hurt(b[p], told.hp)]
    BY <1>2, <2>1 DEF CorrectHP
  <2> HIDE DEF Hurt
  <2> QED BY <2>2, OneSide
<1> QED BY <1>1, <1>2

LEMMA SleepsIs ==
  ASSUME NEW p \in Parties, NEW b, b = BothSides(p, b[p], b[Other(p)]), NEW status
  PROVE  Sleeps(b, p, status) = BothSides(p, Marked(b[p], status), b[Other(p)])
<1>1. Sleeps(b, p, status) = [b EXCEPT ![p] = Marked(b[p], status)]
  BY DEF Sleeps, Marked
<1> QED BY <1>1, OneSide

LEMMA SwitchesToIs ==
  ASSUME NEW p \in Parties, NEW b, b = BothSides(p, b[p], b[Other(p)]), NEW new
  PROVE  SwitchesTo(b, p, new) = BothSides(p, Came(b[p], new), b[Other(p)])
<1>1. SwitchesTo(b, p, new) = [b EXCEPT ![p] = Came(b[p], new)]
  BY DEF SwitchesTo, Came
<1> QED BY <1>1, OneSide

LEMMA FlinchesIs ==
  ASSUME NEW p \in Parties, NEW b, b = BothSides(p, b[p], b[Other(p)])
  PROVE  Flinches(b, p) = BothSides(p, Flinched(b[p]), b[Other(p)])
<1>1. Flinches(b, p) = [b EXCEPT ![p] = Flinched(b[p])]
  BY DEF Flinches, Flinched
<1> QED BY <1>1, OneSide

\* One side of the client's battle is a well-formed image of the server's.
Matches(s, t) ==
  s \in ClientRecord /\ s.active \in s.team /\ t \in SideRecord /\ Follows(s, t)

LEMMA MatchesAll ==
  ASSUME NEW b, NEW sides
  PROVE  WellFormed(b) /\ sides \in [Parties -> SideRecord] /\ AllFollow(b, sides)
           => \A p \in Parties : Matches(b[p], sides[p])
BY DEF WellFormed, AllFollow, Matches

LEMMA MatchesBoth ==
  ASSUME NEW p \in Parties, NEW x, NEW y, NEW s, NEW t, Matches(x, s), Matches(y, t)
  PROVE  /\ WellFormed(BothSides(p, x, y))
         /\ BothSides(p, s, t) \in [Parties -> SideRecord]
         /\ AllFollow(BothSides(p, x, y), BothSides(p, s, t))
BY TwoSides DEF WellFormed, AllFollow, Matches, BothSides

LEMMA HurtMatches ==
  ASSUME NEW s, NEW t, Matches(s, t), ~s.down, NEW hp \in HP
  PROVE  /\ Matches(Hurt(s, hp), Left(t, hp))
         /\ Hurt(s, hp).down = (hp = "down")
         /\ Hurt(s, hp).active = s.active /\ Hurt(s, hp).team = s.team
         /\ Hurt(s, hp).moved = s.moved /\ Hurt(s, hp).pivoting = s.pivoting
         /\ Hurt(s, hp).status = s.status
         /\ Left(t, hp).active = t.active /\ Left(t, hp).owes = t.owes
         /\ Left(t, hp).pivots = t.pivots /\ Left(t, hp).status = t.status
         /\ Left(t, hp).living = IF hp = "up" THEN t.living ELSE t.living \ {t.active}
<1> USE DEF ClientRecord, SideRecord
<1>1. hp # Untold
  BY DEF HP, Untold
<1>2. Hurt(s, hp) = [s EXCEPT !.down = (hp = "down")]
  BY <1>1 DEF Hurt
<1>3. CASE hp = "up"
  BY <1>2, <1>3 DEF Matches, Follows, Left
<1>4. CASE hp = "down"
  BY <1>2, <1>4 DEF Matches, Follows, Left
<1> QED BY <1>3, <1>4 DEF HP

LEMMA MarkedMatches ==
  ASSUME NEW s, NEW t, Matches(s, t), NEW status \in Status
  PROVE  /\ Matches(Marked(s, status), With(t, status))
         /\ Marked(s, status).active = s.active /\ Marked(s, status).team = s.team
         /\ Marked(s, status).down = s.down
         /\ Marked(s, status).moved = s.moved /\ Marked(s, status).pivoting = s.pivoting
         /\ Marked(s, status).status[s.active] = status
         /\ With(t, status).active = t.active /\ With(t, status).living = t.living
         /\ With(t, status).owes = t.owes /\ With(t, status).pivots = t.pivots
         /\ With(t, status).status[t.active] = status
BY DEF ClientRecord, SideRecord, Matches, Follows, Marked, With

LEMMA DoneMatches ==
  ASSUME NEW s, NEW t, Matches(s, t), NEW pivots \in BOOLEAN
  PROVE  /\ Matches(Done(s, pivots), Acted(t))
         /\ Done(s, pivots).active = s.active /\ Done(s, pivots).team = s.team
         /\ Done(s, pivots).down = s.down /\ Done(s, pivots).status = s.status
         /\ Done(s, pivots).moved = TRUE /\ Done(s, pivots).pivoting = pivots
         /\ Acted(t).active = t.active /\ Acted(t).living = t.living
         /\ Acted(t).owes = FALSE /\ Acted(t).pivots = t.pivots /\ Acted(t).status = t.status
BY DEF ClientRecord, SideRecord, Matches, Follows, Done, Acted

LEMMA FlinchedMatches ==
  ASSUME NEW s, NEW t, Matches(s, t)
  PROVE  /\ Matches(Flinched(s), Acted(t))
         /\ Flinched(s).active = s.active /\ Flinched(s).down = s.down
         /\ Flinched(s).status = s.status
         /\ Flinched(s).flinched /\ Flinched(s).moved /\ ~Flinched(s).pivoting
         /\ ~Acted(t).owes /\ Acted(t).pivots = t.pivots
BY DEF ClientRecord, SideRecord, Matches, Follows, Flinched, Acted

OnBench(t, new) == new \in t.living \ {t.active}

LEMMA CameMatches ==
  ASSUME NEW s, NEW t, Matches(s, t), NEW new, OnBench(t, new)
  PROVE  /\ Matches(Came(s, new), Entered(t, new))
         /\ Came(s, new).active = new /\ ~Came(s, new).down
         /\ (s.down => Came(s, new).moved = s.moved) /\ (~s.down => Came(s, new).moved)
         /\ ~Came(s, new).pivoting /\ Came(s, new).status = s.status
         /\ Entered(t, new).active = new /\ Entered(t, new).living = t.living
         /\ ~Entered(t, new).owes /\ Entered(t, new).pivots = t.pivots
         /\ Entered(t, new).status = t.status
         /\ s.status[new] = t.status[new]
<1>1. CASE s.down
  <2>1. /\ s.active = t.active /\ t.active \notin t.living /\ s.team = t.living \cup {t.active}
        /\ \A q \in t.living : s.status[q] = t.status[q]
    BY <1>1 DEF Matches, Follows
  <2>2. Came(s, new) = [s EXCEPT !.active = new, !.team = s.team \ {s.active}, !.down = FALSE,
                                 !.moved = s.moved, !.pivoting = FALSE, !.flinched = FALSE]
    BY <1>1 DEF Came, Matches, ClientRecord
  <2>3. s.team \ {s.active} = t.living
    BY <2>1
  <2>4. /\ s \in ClientRecord /\ t \in SideRecord /\ new \in t.living /\ new \in Roster
        /\ t.living \subseteq Roster
    BY DEF Matches, SideRecord, OnBench
  <2>5. Came(s, new) \in ClientRecord
    BY <2>2, <2>3, <2>4 DEF ClientRecord
  <2>6. /\ Came(s, new).active = new /\ Came(s, new).down = FALSE
        /\ Came(s, new).moved = s.moved
        /\ Came(s, new).pivoting = FALSE /\ Came(s, new).status = s.status
        /\ Came(s, new).team = t.living
    BY <2>2, <2>3, <2>4 DEF ClientRecord
  <2>7. /\ Entered(t, new) \in SideRecord
        /\ Entered(t, new).active = new /\ Entered(t, new).living = t.living
        /\ Entered(t, new).owes = FALSE /\ Entered(t, new).pivots = t.pivots
        /\ Entered(t, new).status = t.status
    BY <2>4 DEF Entered, SideRecord
  <2>8. t.living \cup {new} = t.living
    BY <2>4
  <2>9. Matches(Came(s, new), Entered(t, new))
    BY <2>1, <2>4, <2>5, <2>6, <2>7, <2>8 DEF Matches, Follows
  <2> QED BY <1>1, <2>1, <2>4, <2>6, <2>7, <2>9 DEF ClientRecord
<1>2. CASE ~s.down
  BY <1>2 DEF ClientRecord, SideRecord, Matches, Follows, Came, Entered, OnBench
<1> QED BY <1>1, <1>2

-----------------------------------------------------------------------------
(* What one message does to the client, for the messages of the server     *)

\* The pending action can be performed, and the message goes on from there.
Accepts(c) == ~PerformThrows(c.battle, c.action)
Then(c, a) == Cl(a, c.upkeep, c.result, Performed(c.battle, c.action), c.endings)
Instead(c, a) == Cl(a, c.upkeep, c.result, c.battle, c.endings)

CuredByMove(a, b, p) ==
  /\ a.kind = "move"
  /\ IsUsed(a.builder)
  /\ a.builder.party = p \/ (ActiveStatus(b, p) = "freeze" /\ ExecutedMove(a.builder) \in Thawing)
FiledUnder(a, b, p) ==
  CASE a.kind = "move" /\ PhazeIndex(a.builder) # Untold -> PhazeIndex(a.builder)
    [] a.kind = "switches" /\ FindSwitch(a.list, p) # {} ->
         a.list[CHOOSE i \in FindSwitch(a.list, p) : TRUE].index
    [] OTHER -> b[p].active

BySeparator(m, c, d) == m.kind = "separator" /\ Accepts(c) /\ d = Then(c, Nothing)

Started(m, c, g, next) ==
  \/ /\ m.kind = "cant"
     /\ next = IF m.reason = "still asleep" THEN StillAsleep(MakeBuilder(m.party))
               ELSE SetMoveState(MakeBuilder(m.party), Hindrance(m.reason))
  \/ /\ m.kind = "move" /\ ~(c.action.kind = "move" /\ c.action.builder.party = m.party)
     /\ next = UseMove(MakeBuilder(m.party), m.move, m.miss)
  \/ /\ m.kind = "status clear" /\ m.status \in {"freeze", "sleep"}
     /\ ~IsEndOfTurn(c.battle, g) /\ ~CuredByMove(c.action, c.battle, m.party)
     /\ next = IF m.status = "freeze" THEN Thaw(MakeBuilder(m.party))
               ELSE Awaken(MakeBuilder(m.party), g)
ByStarting(m, c, d, g) ==
  \E next : /\ Started(m, c, g, next) /\ ~next.threw
            /\ Accepts(c) /\ d = Then(c, MoveBuilder(next))

Extended(m, c, sides, g, b, next) ==
  \/ /\ m.kind = "move" /\ b.party = m.party
     /\ next = UseMove(b, m.move, m.miss)
  \/ /\ m.kind = "damage" /\ ~MoveDamagedSelfThrows(b, m.party)
     /\ next = IF SaysItDamagedSelf(b, m.party) THEN b
               ELSE SetExpected(Damage(b, Other(m.party), m.hp), m.party, m.hp, m.status)
  \/ m.kind = "damage substitute" /\ next = Damage(b, Other(m.party), "substitute")
  \/ m.kind = "critical hit" /\ next = SetUsedFlag(b, m.party, "critical_hit")
  \/ m.kind = "start confusion" /\ next = SetUsedFlag(b, Other(m.party), "confuse")
  \/ /\ m.kind = "recoil"
     /\ next = SetExpected(SetUsedFlag(b, m.party, "recoil"), m.party, m.hp, m.status)
  \/ m.kind = "move status" /\ next = StatusFromMove(b, m.party, m.status)
  \/ /\ m.kind = "status clear"
     /\ ~IsEndOfTurn(c.battle, g) /\ CuredByMove(c.action, c.battle, m.party)
     /\ next = StatusFromMove(b, m.party, "clear")
  \/ /\ m.kind = "ability status"
     /\ FiledUnder(c.action, c.battle, m.party) = sides[m.party].active
     /\ next = StatusFromAbility(b, Other(m.party), m.status)
  \/ m.kind = "hp" /\ next = SetExpected(b, m.party, m.hp, m.status)
  \/ /\ m.kind = "phaze"
     /\ next = SetExpected(PhazedIn(b, Other(m.party), m.index), m.party, m.hp, m.status)
ByExtending(m, c, d, sides, g) ==
  \E next : /\ c.action.kind = "move"
            /\ Extended(m, c, sides, g, c.action.builder, next) /\ ~next.threw
            /\ d = Instead(c, MoveBuilder(next))

ByHittingSelf(m, c, d) ==
  /\ m.kind = "hit self" /\ Accepts(c)
  /\ d = Then(c, [kind |-> "hits self", party |-> m.party, hp |-> m.hp, status |-> m.status])

ByRevealing(m, c, d, sides) ==
  /\ m.kind = "reveal" /\ d = c
  /\ FiledUnder(c.action, c.battle, m.party) = sides[m.party].active

Entry(m) == [party |-> m.party, index |-> m.index, hp |-> m.hp, status |-> m.status]
Corrected(list, m) ==
  [i \in DOMAIN list |-> IF i \in FindSwitch(list, m.party)
                         THEN [list[i] EXCEPT !.hp = m.hp, !.status = m.status] ELSE list[i]]
BySwitching(m, c, d) ==
  \/ /\ m.kind = "switch" /\ c.action.kind # "switches" /\ Accepts(c)
     /\ d = Then(c, Switches(<<Entry(m)>>))
  \/ /\ m.kind = "switch" /\ c.action.kind = "switches"
     /\ FindSwitch(c.action.list, m.party) = {}
     /\ d = Instead(c, Switches(Append(c.action.list, Entry(m))))
  \/ /\ m.kind = "hp" /\ c.action.kind = "switches"
     /\ FindSwitch(c.action.list, m.party) # {}
     /\ d = Instead(c, Switches(Corrected(c.action.list, m)))

\* The residual effects, once nothing is pending
Upkept(m, u) ==
  CASE m.kind = "hp" -> [u EXCEPT !.hp = m.hp, !.status = m.status]
    [] m.kind = "shed skin" -> [u EXCEPT !.cured = TRUE, !.status = "clear"]
    [] m.kind = "status clear" ->
         [u EXCEPT !.status = "clear", !.cured = u.cured \/ m.status = "freeze"]
ByUpkeep(m, c, d, g) ==
  /\ c.action = Nothing /\ IsEndOfTurn(c.battle, g)
  /\ \/ /\ m.kind \in {"hp", "shed skin", "status clear"}
        /\ d = Cl(Nothing, [c.upkeep EXCEPT ![m.party] = Upkept(m, c.upkeep[m.party])],
                  c.result, c.battle, c.endings)
     \/ m.kind = "rampage end" /\ d = c

ByTurn(m, c, d) ==
  /\ m.kind = "turn" /\ c.action.kind \in {"nothing", "switches"} /\ Accepts(c)
  /\ d = Cl(Nothing, c.upkeep, "turn", Performed(c.battle, c.action), c.endings)
ByFinishing(m, c, d) ==
  m.kind = "finished" /\ d = Cl(c.action, c.upkeep, "finished", c.battle, c.endings)

Rested(c, b, e) == Cl(Nothing, NoUpkeep, "unknown", b, e)
CanStart(c, b) == c.result = "turn" => \A p \in Parties : ~CannotStartTurn(b, p)
ByEnding(m, c, d, g) ==
  LET b == Performed(c.battle, c.action)
  IN  /\ m.kind = "end"
      /\ \/ c.result = "finished" /\ d = Rested(c, c.battle, c.endings)
         \/ /\ c.result # "finished" /\ Accepts(c) /\ ~IsEndOfTurn(b, g)
            /\ CanStart(c, b) /\ d = Rested(c, b, c.endings)
         \/ /\ c.result # "finished" /\ Accepts(c) /\ IsEndOfTurn(b, g)
            /\ ~EndTurnThrows(b, c.upkeep)
            /\ CanStart(c, EndTurn(b, c.upkeep))
            /\ d = Rested(c, EndTurn(b, c.upkeep), c.endings + 1)

Advances(m, c, d, sides, g) ==
  \/ BySeparator(m, c, d)
  \/ ByStarting(m, c, d, g)
  \/ ByExtending(m, c, d, sides, g)
  \/ ByHittingSelf(m, c, d)
  \/ ByRevealing(m, c, d, sides)
  \/ BySwitching(m, c, d)
  \/ ByUpkeep(m, c, d, g)
  \/ ByTurn(m, c, d)
  \/ ByFinishing(m, c, d)
  \/ ByEnding(m, c, d, g)

LEMMA FiledUnderIs ==
  ASSUME NEW p
  PROVE  PokemonToSetValueOn(p) = FiledUnder(action, battle, p)
BY DEF PokemonToSetValueOn, FiledUnder

LEMMA CuredByMoveIs ==
  ASSUME NEW p
  PROVE  MoveCuredStatus(p) <=> CuredByMove(action, battle, p)
BY DEF MoveCuredStatus, CuredByMove, CuresTargetStatus

LEMMA ClientIs ==
  /\ Client.action = action /\ Client.upkeep = upkeep /\ Client.result = result
  /\ Client.battle = battle /\ Client.endings = endings
BY DEF Client, Cl

LEMMA KindsOfSteps ==
  ASSUME NEW m, NEW c, NEW d, NEW sides, NEW g
  PROVE  /\ BySeparator(m, c, d) => m.kind = "separator"
         /\ ByStarting(m, c, d, g) => m.kind \in {"cant", "move", "status clear"}
         /\ ByExtending(m, c, d, sides, g) =>
              m.kind \in {"move", "damage", "damage substitute", "critical hit",
                          "start confusion", "recoil", "move status", "status clear",
                          "ability status", "hp", "phaze"}
         /\ ByHittingSelf(m, c, d) => m.kind = "hit self"
         /\ ByRevealing(m, c, d, sides) => m.kind = "reveal"
         /\ BySwitching(m, c, d) => m.kind \in {"switch", "hp"}
         /\ ByUpkeep(m, c, d, g) =>
              m.kind \in {"hp", "shed skin", "status clear", "rampage end"}
         /\ ByTurn(m, c, d) => m.kind = "turn"
         /\ ByFinishing(m, c, d) => m.kind = "finished"
         /\ ByEnding(m, c, d, g) => m.kind = "end"
<1>1. BySeparator(m, c, d) => m.kind = "separator"
  BY DEF BySeparator
<1>2. ByStarting(m, c, d, g) => m.kind \in {"cant", "move", "status clear"}
  BY DEF ByStarting, Started
<1>3. ByExtending(m, c, d, sides, g) =>
        m.kind \in {"move", "damage", "damage substitute", "critical hit",
                    "start confusion", "recoil", "move status", "status clear",
                    "ability status", "hp", "phaze"}
  BY DEF ByExtending, Extended
<1>4. ByHittingSelf(m, c, d) => m.kind = "hit self"
  BY DEF ByHittingSelf
<1>5. ByRevealing(m, c, d, sides) => m.kind = "reveal"
  BY DEF ByRevealing
<1>6. BySwitching(m, c, d) => m.kind \in {"switch", "hp"}
  BY DEF BySwitching
<1>7. ByUpkeep(m, c, d, g) => m.kind \in {"hp", "shed skin", "status clear", "rampage end"}
  BY DEF ByUpkeep
<1>8. ByTurn(m, c, d) => m.kind = "turn"
  BY DEF ByTurn
<1>9. ByFinishing(m, c, d) => m.kind = "finished"
  BY DEF ByFinishing
<1>10. ByEnding(m, c, d, g) => m.kind = "end"
  BY DEF ByEnding
<1> QED BY <1>1, <1>2, <1>3, <1>4, <1>5, <1>6, <1>7, <1>8, <1>9, <1>10

\* Every handler does to the client what Advances says of its message.
LEMMA HandlersAdvance ==
  ASSUME NEW d, Handles, ~misfiled, Advances(Message, Client, d, side, generation)
  PROVE  /\ Client' = d /\ ~threw' /\ ~misfiled'
         /\ script # <<>> /\ script' = Tail(script) /\ UNCHANGED server
<1> DEFINE m == Message
           c == Client
           g == generation
<1>0. Client' = Cl(action', upkeep', result', battle', endings')
  BY DEF Client
<1>1. CASE SeparatorMessage
  <2>1. m.kind \in {"separator"}
    BY <1>1 DEF SeparatorMessage, Receives
  <2>2. BySeparator(m, c, d)
    BY <2>1, KindsOfSteps DEF Advances
    <2> QED BY <1>1, <2>1, <2>2, <1>0, ClientIs DEF SeparatorMessage, Receives, Then,
      Instead, Accepts, Cl, rest, BySeparator, UsePreviousAction
<1>2. CASE CantMessage
  <2>1. m.kind \in {"cant"}
    BY <1>2 DEF CantMessage, Receives
  <2>2. ByStarting(m, c, d, g)
    BY <2>1, KindsOfSteps DEF Advances
    <2> QED BY <1>2, <2>1, <2>2, <1>0, ClientIs DEF CantMessage, Receives, Then, Instead,
      Accepts, Cl, rest, ByStarting, Started, BuildsAnew, UsePreviousAction
<1>3. CASE MoveMessage
  <2>1. m.kind \in {"move"}
    BY <1>3 DEF MoveMessage, Receives
  <2>2. ByStarting(m, c, d, g) \/ ByExtending(m, c, d, side, g)
    BY <2>1, KindsOfSteps DEF Advances
  <2>3. CASE ByStarting(m, c, d, g)
    <3>1. ~(action.kind = "move" /\ action.builder.party = m.party)
      BY <2>1, <2>3, ClientIs DEF ByStarting, Started
    <3>2. BuildsAnew(UseMove(MakeBuilder(m.party), m.move, m.miss))
      BY <1>3, <3>1 DEF MoveMessage
    <3> QED
      BY <1>3, <2>1, <2>3, <3>2, <1>0, ClientIs
      DEF MoveMessage, Receives, Then, Accepts, rest, ByStarting, Started, BuildsAnew,
          UsePreviousAction
  <2>4. CASE ByExtending(m, c, d, side, g)
    <3>1. action.kind = "move" /\ action.builder.party = m.party
      BY <2>1, <2>4, ClientIs DEF ByExtending, Extended
    <3>2. Builds(UseMove(action.builder, m.move, m.miss))
      BY <1>3, <3>1 DEF MoveMessage
    <3> QED
      BY <1>3, <2>1, <2>4, <3>1, <3>2, <1>0, ClientIs
      DEF MoveMessage, Receives, Instead, rest, ByExtending, Extended, Builds, BuildsOn,
          NothingIsPerformed
  <2> QED BY <2>2, <2>3, <2>4
<1>4. CASE DamageMessage
  <2>1. m.kind \in {"damage"}
    BY <1>4 DEF DamageMessage, Receives
  <2>2. ByExtending(m, c, d, side, g)
    BY <2>1, KindsOfSteps DEF Advances
    <2> QED BY <1>4, <2>1, <2>2, <1>0, ClientIs DEF DamageMessage, Receives, Then, Instead,
      Accepts, Cl, rest, ByExtending, Extended, Builds, BuildsOn, NothingIsPerformed
<1>5. CASE DamageSubstituteMessage
  <2>1. m.kind \in {"damage substitute"}
    BY <1>5 DEF DamageSubstituteMessage, Receives
  <2>2. ByExtending(m, c, d, side, g)
    BY <2>1, KindsOfSteps DEF Advances
    <2> QED BY <1>5, <2>1, <2>2, <1>0, ClientIs DEF DamageSubstituteMessage, Receives, Then,
      Instead, Accepts, Cl, rest, ByExtending, Extended, Builds, BuildsOn,
      NothingIsPerformed
<1>6. CASE CriticalHitMessage
  <2>1. m.kind \in {"critical hit"}
    BY <1>6 DEF CriticalHitMessage, Receives
  <2>2. ByExtending(m, c, d, side, g)
    BY <2>1, KindsOfSteps DEF Advances
    <2> QED BY <1>6, <2>1, <2>2, <1>0, ClientIs DEF CriticalHitMessage, Receives, Then,
      Instead, Accepts, Cl, rest, ByExtending, Extended, Builds, BuildsOn,
      NothingIsPerformed
<1>7. CASE StartConfusionMessage
  <2>1. m.kind \in {"start confusion"}
    BY <1>7 DEF StartConfusionMessage, Receives
  <2>2. ByExtending(m, c, d, side, g)
    BY <2>1, KindsOfSteps DEF Advances
    <2> QED BY <1>7, <2>1, <2>2, <1>0, ClientIs DEF StartConfusionMessage, Receives, Then,
      Instead, Accepts, Cl, rest, ByExtending, Extended, Builds, BuildsOn,
      NothingIsPerformed
<1>8. CASE RecoilMessage
  <2>1. m.kind \in {"recoil"}
    BY <1>8 DEF RecoilMessage, Receives
  <2>2. ByExtending(m, c, d, side, g)
    BY <2>1, KindsOfSteps DEF Advances
    <2> QED BY <1>8, <2>1, <2>2, <1>0, ClientIs DEF RecoilMessage, Receives, Then, Instead,
      Accepts, Cl, rest, ByExtending, Extended, Builds, BuildsOn, NothingIsPerformed
<1>9. CASE HitSelfMessage
  <2>1. m.kind \in {"hit self"}
    BY <1>9 DEF HitSelfMessage, Receives
  <2>2. ByHittingSelf(m, c, d)
    BY <2>1, KindsOfSteps DEF Advances
    <2> QED BY <1>9, <2>1, <2>2, <1>0, ClientIs DEF HitSelfMessage, Receives, Then, Instead,
      Accepts, Cl, rest, ByHittingSelf, UsePreviousAction
<1>10. CASE MoveStatus
  <2>1. m.kind \in {"move status"}
    BY <1>10 DEF MoveStatus, Receives
  <2>2. ByExtending(m, c, d, side, g)
    BY <2>1, KindsOfSteps DEF Advances
    <2> QED BY <1>10, <2>1, <2>2, <1>0, ClientIs DEF MoveStatus, Receives, Then, Instead,
      Accepts, Cl, rest, ByExtending, Extended, Builds, BuildsOn, NothingIsPerformed
<1>11. CASE StatusClearMessage
  <2>1. m.kind \in {"status clear"}
    BY <1>11 DEF StatusClearMessage, Receives
  <2>2. ByStarting(m, c, d, g) \/ ByExtending(m, c, d, side, g) \/ ByUpkeep(m, c, d, g)
    BY <2>1, KindsOfSteps DEF Advances
  <2>3. CASE ByStarting(m, c, d, g)
    <3>1. ~IsEndOfTurn(battle, g) /\ ~MoveCuredStatus(m.party) /\ m.status \in {"freeze", "sleep"}
      BY <2>1, <2>3, ClientIs, CuredByMoveIs DEF ByStarting, Started
    <3> DEFINE fresh == MakeBuilder(m.party)
               next == IF m.status = "freeze" THEN Thaw(fresh) ELSE Awaken(fresh, g)
    <3>2. BuildsAnew(Unless(m.status \notin {"freeze", "sleep"}, fresh, next))
      BY <1>11, <3>1 DEF StatusClearMessage
    <3>3. Unless(m.status \notin {"freeze", "sleep"}, fresh, next) = next
      BY <3>1 DEF Unless
    <3>4. ~next.threw /\ Accepts(c) /\ d = Then(c, MoveBuilder(next))
      BY <2>1, <2>3 DEF ByStarting, Started
    <3> HIDE DEF next
    <3> QED
      BY <1>11, <3>2, <3>3, <3>4, <1>0, ClientIs
      DEF StatusClearMessage, Receives, Then, Accepts, rest, BuildsAnew, UsePreviousAction
  <2>4. CASE ByExtending(m, c, d, side, g)
    <3>1. ~IsEndOfTurn(battle, g) /\ MoveCuredStatus(m.party)
      BY <2>1, <2>4, ClientIs, CuredByMoveIs DEF ByExtending, Extended
    <3>2. Builds(StatusFromMove(action.builder, m.party, "clear"))
      BY <1>11, <3>1 DEF StatusClearMessage
    <3> QED
      BY <1>11, <2>1, <2>4, <3>2, <1>0, ClientIs
      DEF StatusClearMessage, Receives, Instead, rest, ByExtending, Extended, Builds,
          BuildsOn, NothingIsPerformed
  <2>5. CASE ByUpkeep(m, c, d, g)
    <3>1. action = Nothing /\ IsEndOfTurn(battle, g)
      BY <2>5, ClientIs DEF ByUpkeep
    <3>2. /\ upkeep' = [upkeep EXCEPT ![m.party].status = "clear",
                                      ![m.party].cured = @ \/ m.status = "freeze"]
          /\ NothingIsPerformed(FALSE) /\ UNCHANGED <<action, result, endings, misfiled>>
      BY <1>11, <3>1 DEF StatusClearMessage
    <3>3. upkeep' = [upkeep EXCEPT ![m.party] = Upkept(m, upkeep[m.party])]
      BY <2>1, <3>2 DEF Upkept
    <3> QED
      BY <1>11, <2>1, <2>5, <3>1, <3>2, <3>3, <1>0, ClientIs
      DEF StatusClearMessage, Receives, Cl, ByUpkeep, NothingIsPerformed
  <2> QED BY <2>2, <2>3, <2>4, <2>5
<1>12. CASE RevealMessage
  <2>1. m.kind \in {"reveal"}
    BY <1>12 DEF RevealMessage, Receives
  <2>2. ByRevealing(m, c, d, side)
    BY <2>1, KindsOfSteps DEF Advances
    <2> QED BY <1>12, <2>1, <2>2, <1>0, ClientIs, FiledUnderIs DEF RevealMessage, Receives,
      Client, ByRevealing, SetsValueOnPokemon
<1>13. CASE AbilityStatusMessage
  <2>1. m.kind \in {"ability status"}
    BY <1>13 DEF AbilityStatusMessage, Receives
  <2>2. ByExtending(m, c, d, side, g)
    BY <2>1, KindsOfSteps DEF Advances
    <2> QED BY <1>13, <2>1, <2>2, <1>0, ClientIs, FiledUnderIs DEF AbilityStatusMessage,
      Receives, Then, Instead, Accepts, Cl, rest, ByExtending, Extended, SetsValueOnPokemon,
      BuildsOn, NothingIsPerformed
<1>14. CASE HPMessage
  <2>1. m.kind \in {"hp"}
    BY <1>14 DEF HPMessage, Receives
  <2>2. ByExtending(m, c, d, side, g) \/ BySwitching(m, c, d) \/ ByUpkeep(m, c, d, g)
    BY <2>1, KindsOfSteps DEF Advances
  <2>3. CASE ByExtending(m, c, d, side, g)
    <3>1. action.kind = "move"
      BY <2>3, ClientIs DEF ByExtending
    <3>2. Builds(SetExpected(action.builder, m.party, m.hp, m.status))
      BY <1>14, <3>1 DEF HPMessage
    <3> QED
      BY <1>14, <2>1, <2>3, <3>2, <1>0, ClientIs
      DEF HPMessage, Receives, Instead, rest, ByExtending, Extended, Builds, BuildsOn,
          NothingIsPerformed
  <2>4. CASE BySwitching(m, c, d)
    <3>1. /\ action.kind = "switches" /\ FindSwitch(action.list, m.party) # {}
          /\ d = Instead(c, Switches(Corrected(action.list, m)))
      BY <2>1, <2>4, ClientIs DEF BySwitching
    <3>2. /\ action' = Switches(Corrected(action.list, m))
          /\ NothingIsPerformed(FindSwitch(action.list, m.party) = {})
          /\ UNCHANGED rest
      BY <1>14, <3>1 DEF HPMessage, Corrected
    <3> QED
      BY <1>14, <3>1, <3>2, <1>0, ClientIs
      DEF HPMessage, Receives, Instead, rest, NothingIsPerformed
  <2>5. CASE ByUpkeep(m, c, d, g)
    <3>1. action = Nothing /\ IsEndOfTurn(battle, g)
      BY <2>5, ClientIs DEF ByUpkeep
    <3>2. action.kind = "nothing"
      BY <3>1 DEF Nothing
    <3>3. Performed(battle, action) = battle /\ ~PerformThrows(battle, action)
      BY <3>2 DEF Performed, PerformThrows
    <3>4. upkeep' = [upkeep EXCEPT ![m.party] = Upkept(m, upkeep[m.party])]
      BY <1>14, <2>1, <3>2 DEF HPMessage, Upkept
    <3>5. /\ UsePreviousAction(~IsEndOfTurn(battle, g)) /\ action' = Nothing
          /\ UNCHANGED <<result, endings, misfiled>>
      BY <1>14, <2>1, <3>2, <3>3 DEF HPMessage
    <3> QED
      BY <1>14, <2>1, <2>5, <3>1, <3>3, <3>4, <3>5, <1>0, ClientIs
      DEF HPMessage, Receives, ByUpkeep, UsePreviousAction
  <2> QED BY <2>2, <2>3, <2>4, <2>5
<1>15. CASE SwitchMessage
  <2>1. m.kind \in {"switch"}
    BY <1>15 DEF SwitchMessage, Receives
  <2>2. BySwitching(m, c, d)
    BY <2>1, KindsOfSteps DEF Advances
    <2> QED BY <1>15, <2>1, <2>2, <1>0, ClientIs DEF SwitchMessage, Receives, Then, Instead,
      Accepts, Cl, rest, BySwitching, Entry, Corrected, UsePreviousAction,
      NothingIsPerformed, Switches
<1>16. CASE PhazeMessage
  <2>1. m.kind \in {"phaze"}
    BY <1>16 DEF PhazeMessage, Receives
  <2>2. ByExtending(m, c, d, side, g)
    BY <2>1, KindsOfSteps DEF Advances
    <2> QED BY <1>16, <2>1, <2>2, <1>0, ClientIs DEF PhazeMessage, Receives, Then, Instead,
      Accepts, Cl, rest, ByExtending, Extended, Builds, BuildsOn, NothingIsPerformed
<1>17. CASE UpkeepMessage
  <2>1. m.kind \in {"shed skin", "rampage end", "weather"}
    BY <1>17 DEF UpkeepMessage, Receives
  <2>2. ByUpkeep(m, c, d, g)
    BY <2>1, KindsOfSteps DEF Advances
  <2>3. action = Nothing /\ IsEndOfTurn(battle, g)
    BY <2>2, ClientIs DEF ByUpkeep
  <2>4. ~threw' /\ ~misfiled' /\ battle' = battle
    BY <1>17, <2>3 DEF UpkeepMessage, Receives, NothingIsPerformed
  <2>5. CASE m.kind = "shed skin"
    <3>1. upkeep' = [upkeep EXCEPT ![m.party] = Upkept(m, upkeep[m.party])]
      BY <1>17, <2>5 DEF UpkeepMessage, Upkept
    <3> QED
      BY <1>17, <2>2, <2>3, <2>4, <2>5, <3>1, <1>0, ClientIs
      DEF UpkeepMessage, Receives, Cl, ByUpkeep
  <2>6. CASE m.kind # "shed skin"
    <3>1. d = c
      BY <2>1, <2>2, <2>6 DEF ByUpkeep
    <3> QED
      BY <1>17, <2>4, <2>6, <3>1 DEF UpkeepMessage, Receives, Client
  <2> QED BY <2>5, <2>6
<1>18. CASE TurnMessage
  <2>1. m.kind \in {"turn"}
    BY <1>18 DEF TurnMessage, Receives
  <2>2. ByTurn(m, c, d)
    BY <2>1, KindsOfSteps DEF Advances
    <2> QED BY <1>18, <2>1, <2>2, <1>0, ClientIs DEF TurnMessage, Receives, Then, Instead,
      Accepts, Cl, rest, ByTurn, UsePreviousAction
<1>19. CASE BattleFinishedMessage
  <2>1. m.kind \in {"finished"}
    BY <1>19 DEF BattleFinishedMessage, Receives
  <2>2. ByFinishing(m, c, d)
    BY <2>1, KindsOfSteps DEF Advances
    <2> QED BY <1>19, <2>1, <2>2, <1>0, ClientIs DEF BattleFinishedMessage, Receives, Then,
      Instead, Accepts, Cl, rest, ByFinishing
<1>20. CASE BlockEnds
  <2>1. m.kind \in {"end"}
    BY <1>20 DEF BlockEnds, Receives
  <2>2. ByEnding(m, c, d, g)
    BY <2>1, KindsOfSteps DEF Advances
  <2>3. action' = Nothing /\ upkeep' = NoUpkeep /\ result' = "unknown" /\ ~misfiled'
    BY <1>20 DEF BlockEnds
  <2>4. script # <<>> /\ script' = Tail(script) /\ UNCHANGED server /\ ~threw
    BY <1>20 DEF BlockEnds, Receives
  <2>5. CASE result = "finished"
    BY <1>20, <2>2, <2>3, <2>4, <2>5, <1>0, ClientIs DEF BlockEnds, ByEnding, Rested
  <2> DEFINE b == Performed(battle, action)
             ended == IF IsEndOfTurn(b, g) THEN EndTurn(b, upkeep) ELSE b
             error == \/ IsEndOfTurn(b, g) /\ EndTurnThrows(b, upkeep)
                      \/ result = "turn" /\ \E p \in Parties : CannotStartTurn(ended, p)
  <2>6. CASE result # "finished"
    <3>1. /\ battle' = ended
          /\ endings' = IF IsEndOfTurn(b, g) THEN endings + 1 ELSE endings
          /\ threw' = (threw \/ PerformThrows(battle, action) \/ error)
      BY <1>20, <2>6 DEF BlockEnds
    <3>2. /\ ~PerformThrows(battle, action) /\ CanStart(c, ended)
          /\ ~(IsEndOfTurn(b, g) /\ EndTurnThrows(b, upkeep))
          /\ d = Rested(c, ended, IF IsEndOfTurn(b, g) THEN endings + 1 ELSE endings)
      BY <2>2, <2>6, ClientIs DEF ByEnding, Accepts
    <3>3. ~error
      BY <3>2, ClientIs DEF CanStart
    <3> HIDE DEF b, ended, error
    <3> QED BY <2>3, <2>4, <3>1, <3>2, <3>3, <1>0 DEF Rested
  <2> QED BY <2>5, <2>6
<1> QED BY <1>1, <1>2, <1>3, <1>4, <1>5, <1>6, <1>7, <1>8, <1>9, <1>10, <1>11, <1>12, <1>13,
    <1>14, <1>15, <1>16, <1>17, <1>18, <1>19, <1>20 DEF Handles

-----------------------------------------------------------------------------
(* What the messages that are still to come do to the client               *)

Runs(s, c, d, sides, g) ==
  /\ \E S : s \in Seq(S)
  /\ \E f : /\ f[0] = c /\ f[Len(s)] = d
            /\ \A i \in 0..Len(s) : Sound(f[i])
            /\ \A i \in 1..Len(s) : Advances(s[i], f[i - 1], f[i], sides, g)

LEMMA RunsNone ==
  ASSUME NEW c, NEW sides, NEW g, Sound(c)
  PROVE  Runs(<<>>, c, c, sides, g)
<1> DEFINE f == [i \in 0..0 |-> c]
<1>1. <<>> \in Seq({}) /\ Len(<<>>) = 0
  OBVIOUS
<1>2. f[0] = c
  OBVIOUS
<1>3. \A i \in 0..0 : i = 0
  OBVIOUS
<1>4. \A i \in 1..0 : FALSE
  OBVIOUS
<1> HIDE DEF f
<1> QED BY <1>1, <1>2, <1>3, <1>4 DEF Runs

LEMMA RunsSound ==
  ASSUME NEW s, NEW c, NEW d, NEW sides, NEW g, Runs(s, c, d, sides, g)
  PROVE  Sound(c) /\ Sound(d) /\ (s = <<>> => c = d)
<1>1. PICK S : s \in Seq(S)
  BY DEF Runs
<1>2. PICK f : /\ f[0] = c /\ f[Len(s)] = d
               /\ \A i \in 0..Len(s) : Sound(f[i])
  BY DEF Runs
<1>3. Len(s) \in Nat
  BY <1>1
<1>4. 0 \in 0..Len(s) /\ Len(s) \in 0..Len(s)
  BY <1>3
<1>5. s = <<>> => Len(s) = 0
  OBVIOUS
<1> QED BY <1>2, <1>4, <1>5

LEMMA RunsTail ==
  ASSUME NEW s, NEW c, NEW d, NEW sides, NEW g, Runs(s, c, d, sides, g), s # <<>>
  PROVE  \E e : /\ Advances(Head(s), c, e, sides, g)
                /\ Sound(e)
                /\ Runs(Tail(s), e, d, sides, g)
<1>1. PICK S : s \in Seq(S)
  BY DEF Runs
<1>2. PICK f : /\ f[0] = c /\ f[Len(s)] = d
               /\ \A i \in 0..Len(s) : Sound(f[i])
               /\ \A i \in 1..Len(s) : Advances(s[i], f[i - 1], f[i], sides, g)
  BY DEF Runs
<1>3. /\ Len(s) \in Nat /\ Len(s) > 0 /\ Head(s) = s[1] /\ Tail(s) \in Seq(S)
      /\ Len(Tail(s)) = Len(s) - 1
      /\ \A i \in 1..Len(s) - 1 : Tail(s)[i] = s[i + 1]
  BY <1>1
<1> DEFINE h == [i \in 0..Len(s) - 1 |-> f[i + 1]]
<1>4. Advances(Head(s), c, f[1], sides, g)
  <2>1. 1 \in 1..Len(s) /\ 1 - 1 = 0
    BY <1>3
  <2>2. Advances(s[1], f[1 - 1], f[1], sides, g)
    BY <1>2, <2>1
  <2> QED BY <1>2, <1>3, <2>1, <2>2
<1>5. h[0] = f[1] /\ h[Len(Tail(s))] = d
  <2>1. 0 \in 0..Len(s) - 1 /\ Len(s) - 1 \in 0..Len(s) - 1
    BY <1>3
  <2>2. 0 + 1 = 1 /\ Len(s) - 1 + 1 = Len(s)
    BY <1>3
  <2>3. h[0] = f[0 + 1] /\ h[Len(s) - 1] = f[Len(s) - 1 + 1]
    BY <2>1
  <2> HIDE DEF h
  <2> QED BY <1>2, <1>3, <2>2, <2>3
<1>6. \A i \in 0..Len(Tail(s)) : Sound(h[i])
  <2> SUFFICES ASSUME NEW i \in 0..Len(s) - 1 PROVE Sound(h[i])
    BY <1>3
  <2>1. h[i] = f[i + 1] /\ i + 1 \in 0..Len(s)
    BY <1>3
  <2> HIDE DEF h
  <2> QED BY <1>2, <2>1
<1>7. ASSUME NEW i \in 1..Len(Tail(s))
      PROVE  Advances(Tail(s)[i], h[i - 1], h[i], sides, g)
  <2>1. i \in 1..Len(s) - 1 /\ i + 1 \in 1..Len(s) /\ i \in Int
    BY <1>3
  <2>2. h[i] = f[i + 1] /\ h[i - 1] = f[i - 1 + 1] /\ i - 1 + 1 = i /\ i + 1 - 1 = i
    BY <1>3, <2>1
  <2>3. Tail(s)[i] = s[i + 1]
    BY <1>3, <2>1
  <2>4. Advances(s[i + 1], f[i + 1 - 1], f[i + 1], sides, g)
    BY <1>2, <2>1
  <2> HIDE DEF h
  <2> QED BY <2>2, <2>3, <2>4
<1>8. Sound(f[1])
  <2>1. 1 \in 0..Len(s)
    BY <1>3
  <2> QED BY <1>2, <2>1
<1> HIDE DEF h
<1>9. Runs(Tail(s), f[1], d, sides, g)
  BY <1>3, <1>5, <1>6, <1>7 DEF Runs
<1> QED BY <1>4, <1>8, <1>9

LEMMA RunsOne ==
  ASSUME NEW m, NEW c, NEW d, NEW sides, NEW g,
         Sound(c), Sound(d), Advances(m, c, d, sides, g)
  PROVE  Runs(<<m>>, c, d, sides, g)
<1> DEFINE f == [i \in 0..1 |-> IF i = 0 THEN c ELSE d]
<1>1. <<m>> \in Seq({m}) /\ Len(<<m>>) = 1 /\ <<m>>[1] = m
  OBVIOUS
<1>2. f[0] = c /\ f[1] = d /\ 1 - 1 = 0
  OBVIOUS
<1>3. \A i \in 0..1 : i = 0 \/ i = 1
  OBVIOUS
<1>4. \A i \in 1..1 : i = 1
  OBVIOUS
<1> HIDE DEF f
<1>5. \A i \in 0..1 : Sound(f[i])
  BY <1>2, <1>3
<1>6. \A i \in 1..1 : Advances(<<m>>[i], f[i - 1], f[i], sides, g)
  BY <1>1, <1>2, <1>4
<1> QED BY <1>1, <1>2, <1>5, <1>6 DEF Runs

LEMMA RunsApp ==
  ASSUME NEW s, NEW t, NEW c, NEW d, NEW e, NEW sides, NEW g,
         Runs(s, c, d, sides, g), Runs(t, d, e, sides, g)
  PROVE  Runs(s \o t, c, e, sides, g)
<1>1. PICK S : s \in Seq(S)
  BY DEF Runs
<1>2. PICK T : t \in Seq(T)
  BY DEF Runs
<1>3. PICK f : /\ f[0] = c /\ f[Len(s)] = d
               /\ \A i \in 0..Len(s) : Sound(f[i])
               /\ \A i \in 1..Len(s) : Advances(s[i], f[i - 1], f[i], sides, g)
  BY DEF Runs
<1>4. PICK h : /\ h[0] = d /\ h[Len(t)] = e
               /\ \A i \in 0..Len(t) : Sound(h[i])
               /\ \A i \in 1..Len(t) : Advances(t[i], h[i - 1], h[i], sides, g)
  BY DEF Runs
<1> DEFINE U == S \cup T
           n == Len(s)
           r == Len(t)
<1>5. s \in Seq(U) /\ t \in Seq(U)
  BY <1>1, <1>2
<1>6. /\ s \o t \in Seq(U) /\ n \in Nat /\ r \in Nat /\ Len(s \o t) = n + r
      /\ \A i \in 1..n + r : (s \o t)[i] = IF i <= n THEN s[i] ELSE t[i - n]
  BY <1>5
<1> DEFINE k == [i \in 0..n + r |-> IF i <= n THEN f[i] ELSE h[i - n]]
<1>7. k[0] = c /\ k[Len(s \o t)] = e
  <2>1. 0 \in 0..n + r /\ n + r \in 0..n + r /\ 0 <= n /\ n + r - n = r
    BY <1>6
  <2>2. k[0] = f[0]
    BY <2>1
  <2>3. CASE r = 0
    <3>1. n + r = n
      BY <1>6, <2>3
    <3>2. k[n + r] = f[n]
      BY <1>6, <2>1, <3>1
    <3> HIDE DEF k
    <3> QED BY <1>3, <1>4, <1>6, <2>2, <2>3, <3>2
  <2>4. CASE r # 0
    <3>1. ~(n + r <= n)
      BY <1>6, <2>4
    <3>2. k[n + r] = h[n + r - n]
      BY <2>1, <3>1
    <3> HIDE DEF k
    <3> QED BY <1>3, <1>4, <1>6, <2>1, <2>2, <3>2
  <2> QED BY <2>3, <2>4
<1>8. ASSUME NEW i \in 0..Len(s \o t)
      PROVE  Sound(k[i])
  <2>1. i \in 0..n + r /\ i \in Int
    BY <1>6
  <2>2. CASE i <= n
    <3>1. i \in 0..n /\ k[i] = f[i]
      BY <1>6, <2>1, <2>2
    <3> HIDE DEF k
    <3> QED BY <1>3, <3>1
  <2>3. CASE ~(i <= n)
    <3>1. i - n \in 0..r /\ k[i] = h[i - n]
      BY <1>6, <2>1, <2>3
    <3> HIDE DEF k
    <3> QED BY <1>4, <3>1
  <2> QED BY <2>2, <2>3
<1>9. ASSUME NEW i \in 1..Len(s \o t)
      PROVE  Advances((s \o t)[i], k[i - 1], k[i], sides, g)
  <2>1. i \in 1..n + r /\ i \in Int
    BY <1>6
  <2>2. CASE i <= n
    <3>1. i \in 1..n /\ k[i] = f[i] /\ k[i - 1] = f[i - 1]
      BY <1>6, <2>1, <2>2
    <3>2. (s \o t)[i] = s[i]
      BY <1>6, <2>1, <2>2
    <3> HIDE DEF k
    <3> QED BY <1>3, <3>1, <3>2
  <2>3. CASE ~(i <= n)
    <3>1. i - n \in 1..r /\ k[i] = h[i - n] /\ i - n - 1 = i - 1 - n
      BY <1>6, <2>1, <2>3
    <3>2. (s \o t)[i] = t[i - n]
      BY <1>6, <2>1, <2>3
    <3>3. k[i - 1] = h[i - n - 1]
      <4>1. CASE i - 1 = n
        <5>1. k[i - 1] = f[n] /\ i - n - 1 = 0
          BY <1>6, <2>1, <4>1
        <5> HIDE DEF k
        <5> QED BY <1>3, <1>4, <5>1
      <4>2. CASE i - 1 # n
        <5>1. ~(i - 1 <= n) /\ i - 1 \in 0..n + r
          BY <1>6, <2>1, <2>3, <4>2
        <5>2. k[i - 1] = h[i - 1 - n]
          BY <5>1
        <5> HIDE DEF k
        <5> QED BY <3>1, <5>2
      <4> QED BY <4>1, <4>2
    <3> HIDE DEF k
    <3> QED BY <1>4, <3>1, <3>2, <3>3
  <2> QED BY <2>2, <2>3
<1> HIDE DEF k, U
<1>10. /\ k[0] = c /\ k[Len(s \o t)] = e
       /\ \A i \in 0..Len(s \o t) : Sound(k[i])
       /\ \A i \in 1..Len(s \o t) : Advances((s \o t)[i], k[i - 1], k[i], sides, g)
  BY <1>7, <1>8, <1>9
<1> QED BY <1>6, <1>10 DEF Runs

LEMMA RunsTwo ==
  ASSUME NEW m1, NEW m2, NEW c0, NEW c1, NEW c2, NEW sides, NEW g,
         Sound(c0), Sound(c1), Sound(c2),
         Advances(m1, c0, c1, sides, g), Advances(m2, c1, c2, sides, g)
  PROVE  Runs(<<m1, m2>>, c0, c2, sides, g)
<1>1. <<m1>> \o <<m2>> = <<m1, m2>>
  <2> DEFINE s == <<m1>> \o <<m2>>
             t == <<m1, m2>>
  <2>1. s \in Seq({m1, m2}) /\ Len(s) = 2 /\ s[1] = m1 /\ s[2] = m2
    OBVIOUS
  <2>2. t \in Seq({m1, m2}) /\ Len(t) = 2 /\ t[1] = m1 /\ t[2] = m2
    OBVIOUS
  <2> HIDE DEF s, t
  <2>3. \A i \in 1 .. Len(s) : s[i] = t[i]
    BY <2>1, <2>2
  <2>4. s = t
    BY <2>1, <2>2, <2>3, SeqEqual
  <2> QED BY <2>4 DEF s, t
<1> QED BY <1>1, RunsOne, RunsApp

LEMMA RunsThree ==
  ASSUME NEW m1, NEW m2, NEW m3, NEW c0, NEW c1, NEW c2, NEW c3, NEW sides, NEW g,
         Sound(c0), Sound(c1), Sound(c2), Sound(c3),
         Advances(m1, c0, c1, sides, g), Advances(m2, c1, c2, sides, g),
         Advances(m3, c2, c3, sides, g)
  PROVE  Runs(<<m1, m2, m3>>, c0, c3, sides, g)
<1>1. <<m1, m2>> \o <<m3>> = <<m1, m2, m3>>
  <2> DEFINE s == <<m1, m2>> \o <<m3>>
             t == <<m1, m2, m3>>
  <2>1. s \in Seq({m1, m2, m3}) /\ Len(s) = 3 /\ s[1] = m1 /\ s[2] = m2 /\ s[3] = m3
    OBVIOUS
  <2>2. t \in Seq({m1, m2, m3}) /\ Len(t) = 3 /\ t[1] = m1 /\ t[2] = m2 /\ t[3] = m3
    OBVIOUS
  <2> HIDE DEF s, t
  <2>3. \A i \in 1 .. Len(s) : s[i] = t[i]
    BY <2>1, <2>2
  <2>4. s = t
    BY <2>1, <2>2, <2>3, SeqEqual
  <2> QED BY <2>4 DEF s, t
<1> QED BY <1>1, RunsOne, RunsTwo, RunsApp

LEMMA RunsFour ==
  ASSUME NEW m1, NEW m2, NEW m3, NEW m4,
         NEW c0, NEW c1, NEW c2, NEW c3, NEW c4, NEW sides, NEW g,
         Sound(c0), Sound(c1), Sound(c2), Sound(c3), Sound(c4),
         Advances(m1, c0, c1, sides, g), Advances(m2, c1, c2, sides, g),
         Advances(m3, c2, c3, sides, g), Advances(m4, c3, c4, sides, g)
  PROVE  Runs(<<m1, m2, m3, m4>>, c0, c4, sides, g)
<1>1. <<m1, m2>> \o <<m3, m4>> = <<m1, m2, m3, m4>>
  <2> DEFINE s == <<m1, m2>> \o <<m3, m4>>
             t == <<m1, m2, m3, m4>>
  <2>1. s \in Seq({m1, m2, m3, m4}) /\ Len(s) = 4 /\ s[1] = m1 /\ s[2] = m2 /\ s[3] = m3 /\ s[4] = m4
    OBVIOUS
  <2>2. t \in Seq({m1, m2, m3, m4}) /\ Len(t) = 4 /\ t[1] = m1 /\ t[2] = m2 /\ t[3] = m3 /\ t[4] = m4
    OBVIOUS
  <2> HIDE DEF s, t
  <2>3. \A i \in 1 .. Len(s) : s[i] = t[i]
    BY <2>1, <2>2
  <2>4. s = t
    BY <2>1, <2>2, <2>3, SeqEqual
  <2> QED BY <2>4 DEF s, t
<1> QED BY <1>1, RunsTwo, RunsApp

-----------------------------------------------------------------------------
(* The builder of an action in a normal form                               *)

\* FALSE and TRUE as parts of a record
No == FALSE
Yes == TRUE

Hint(hp, status) == [hp |-> hp, status |-> status]
Bld(p, move, user, other, cured) ==
  [party |-> p, move |-> move, user |-> user, other |-> other, cured |-> cured, threw |-> FALSE]
Used(selected, executed, miss, damage, status, phazed, contact, flags) ==
  [result |-> "used", selected |-> selected, executed |-> executed, miss |-> miss,
   damage |-> damage, status |-> status, phazed |-> phazed, contact |-> contact,
   flags |-> flags]
Fresh(name, missed) == Used(name, name, missed, Untold, Untold, Untold, Untold, {})

LEMMA NoAndYes == No \in BOOLEAN /\ Yes \in BOOLEAN /\ ~No /\ Yes
BY DEF No, Yes

LEMMA HintIs ==
  ASSUME NEW hp, NEW status
  PROVE  /\ Hint(hp, status).hp = hp /\ Hint(hp, status).status = status
         /\ Told = Hint(Untold, Untold)
BY DEF Hint, Told

LEMMA BldIs ==
  ASSUME NEW p, NEW move, NEW user, NEW other, NEW cured
  PROVE  /\ Bld(p, move, user, other, cured).party = p
         /\ Bld(p, move, user, other, cured).move = move
         /\ Bld(p, move, user, other, cured).user = user
         /\ Bld(p, move, user, other, cured).other = other
         /\ Bld(p, move, user, other, cured).cured = cured
         /\ ~Bld(p, move, user, other, cured).threw
         /\ IsUsed(Bld(p, move, user, other, cured)) = (move.result = "used")
         /\ Completes(Bld(p, move, user, other, cured)) = (move # NoResult)
BY DEF Bld, IsUsed, Completes

LEMMA UsedIs ==
  ASSUME NEW selected, NEW executed, NEW miss, NEW damage, NEW status, NEW phazed,
         NEW contact, NEW flags, NEW p, NEW user, NEW other, NEW cured, NEW moves
  PROVE  LET move == Used(selected, executed, miss, damage, status, phazed, contact, flags)
             b == Bld(p, move, user, other, cured)
         IN  /\ move.result = "used" /\ move.selected = selected /\ move.executed = executed
             /\ move.miss = miss /\ move.damage = damage /\ move.status = status
             /\ move.phazed = phazed /\ move.contact = contact /\ move.flags = flags
             /\ move # NoResult
             /\ IsUsed(b) /\ Completes(b) /\ ExecutedMove(b) = executed
             /\ Executes(b, moves) = (executed \in moves)
             /\ PhazeIndex(b) = phazed
<1> DEFINE move == Used(selected, executed, miss, damage, status, phazed, contact, flags)
           b == Bld(p, move, user, other, cured)
<1>1. /\ move.result = "used" /\ move.selected = selected /\ move.executed = executed
      /\ move.miss = miss /\ move.damage = damage /\ move.status = status
      /\ move.phazed = phazed /\ move.contact = contact /\ move.flags = flags
  BY DEF Used
<1>2. NoResult.result = "none"
  BY DEF NoResult
<1>3. move # NoResult
  BY <1>1, <1>2
<1> HIDE DEF move
<1>4. b.move = move
  BY DEF Bld
<1>5. IsUsed(b)
  BY <1>1, <1>4 DEF IsUsed
<1> HIDE DEF b
<1>6. Completes(b) /\ ExecutedMove(b) = executed /\ PhazeIndex(b) = phazed
  BY <1>1, <1>3, <1>4, <1>5 DEF Completes, ExecutedMove, PhazeIndex
<1>7. Executes(b, moves) = (executed \in moves)
  BY <1>6 DEF Executes
<1> QED BY <1>1, <1>3, <1>5, <1>6, <1>7 DEF move, b

LEMMA MakeBuilderIs ==
  ASSUME NEW p
  PROVE  MakeBuilder(p) = Bld(p, NoResult, Hint(Untold, Untold), Hint(Untold, Untold), No)
BY DEF MakeBuilder, Bld, Hint, Told, No

LEMMA SetExpectedIs ==
  ASSUME NEW p \in Parties, NEW move, NEW cured, NEW hp, NEW status,
         NEW u1, NEW u2, NEW o1, NEW o2
  PROVE  LET b == Bld(p, move, Hint(u1, u2), Hint(o1, o2), cured)
         IN  /\ SetExpected(b, p, hp, status)
                  = Bld(p, move, Hint(hp, status), Hint(o1, o2), cured)
             /\ SetExpected(b, Other(p), hp, status)
                  = Bld(p, move, Hint(u1, u2), Hint(hp, status), cured)
             /\ SetExpectedStatus(b, p, status)
                  = Bld(p, move, Hint(u1, status), Hint(o1, o2), cured)
             /\ SetExpectedStatus(b, Other(p), status)
                  = Bld(p, move, Hint(u1, u2), Hint(o1, status), cured)
<1> DEFINE b == Bld(p, move, Hint(u1, u2), Hint(o1, o2), cured)
<1>1. b.party = p /\ Other(p) # p
  BY TwoSides DEF Bld
<1>2. SetExpectedStatus(b, p, status) = Bld(p, move, Hint(u1, status), Hint(o1, o2), cured)
  BY <1>1 DEF SetExpectedStatus, Bld, Hint
<1>3. SetExpectedStatus(b, Other(p), status)
        = Bld(p, move, Hint(u1, u2), Hint(o1, status), cured)
  BY <1>1 DEF SetExpectedStatus, Bld, Hint
<1>4. SetExpectedHP(Bld(p, move, Hint(u1, status), Hint(o1, o2), cured), p, hp)
        = Bld(p, move, Hint(hp, status), Hint(o1, o2), cured)
  BY <1>1 DEF SetExpectedHP, Bld, Hint
<1>5. SetExpectedHP(Bld(p, move, Hint(u1, u2), Hint(o1, status), cured), Other(p), hp)
        = Bld(p, move, Hint(u1, u2), Hint(hp, status), cured)
  BY <1>1 DEF SetExpectedHP, Bld, Hint
<1> HIDE DEF b
<1> QED BY <1>2, <1>3, <1>4, <1>5 DEF SetExpected, b

LEMMA FirstMoveIs ==
  ASSUME NEW p, NEW user, NEW other, NEW cured, NEW name, NEW missed
  PROVE  UseMove(Bld(p, NoResult, user, other, cured), name, missed)
           = Bld(p, Fresh(name, missed), user, other, cured)
<1>1. VisibleMove(name, missed) = Fresh(name, missed)
  BY DEF VisibleMove, Fresh, Used
<1> DEFINE b == Bld(p, NoResult, user, other, cured)
<1>3. ASSUME NEW e, e = [b EXCEPT !.move = Fresh(name, missed)]
      PROVE  e = Bld(p, Fresh(name, missed), user, other, cured)
  BY <1>3 DEF Bld
<1>2. b.move.result = "none"
  BY DEF Bld, NoResult
<1> HIDE DEF b
<1>4. UseMove(b, name, missed) = [b EXCEPT !.move = VisibleMove(name, missed)]
  BY <1>2 DEF UseMove, IsUsed
<1> QED BY <1>1, <1>3, <1>4 DEF b

IsUsableAsleep(name) == name \in UsableAsleep

LEMMA AsleepMoveIs ==
  ASSUME NEW p, NEW user, NEW other, NEW cured, NEW missed, NEW name, IsUsableAsleep(name)
  PROVE  UseMove(Bld(p, Hindrance("still asleep"), user, other, cured), name, missed)
           = Bld(p, Fresh(name, missed), user, other, cured)
<1>1. VisibleMove(name, missed) = Fresh(name, missed)
  BY DEF VisibleMove, Fresh, Used
<1> DEFINE b == Bld(p, Hindrance("still asleep"), user, other, cured)
<1>3. ASSUME NEW e, e = [b EXCEPT !.move = Fresh(name, missed)]
      PROVE  e = Bld(p, Fresh(name, missed), user, other, cured)
  BY <1>3 DEF Bld
<1>2. b.move.result = "still asleep"
  BY DEF Bld, Hindrance
<1> HIDE DEF b
<1>4. UseMove(b, name, missed) = [b EXCEPT !.move = VisibleMove(name, missed)]
  BY <1>2 DEF UseMove, IsUsed, Unless, IsUsableAsleep
<1> QED BY <1>1, <1>3, <1>4 DEF b

LEMMA CallsIs ==
  ASSUME NEW p, NEW user, NEW other, NEW cured, NEW name, NEW missed, NEW first, NEW before
  PROVE  UseMove(Bld(p, Fresh(first, before), user, other, cured), name, missed)
           = Bld(p, Used(first, name, missed, Untold, Untold, Untold, Untold, {}),
                 user, other, cured)
<1> DEFINE b == Bld(p, Fresh(first, before), user, other, cured)
<1>1. b.move.result = "used" /\ b.move.executed = b.move.selected
  BY DEF Bld, Fresh, Used
<1>2. ASSUME NEW e, e = [b EXCEPT !.move.executed = name, !.move.miss = missed]
      PROVE  e = Bld(p, Used(first, name, missed, Untold, Untold, Untold, Untold, {}),
                     user, other, cured)
  BY <1>2 DEF Bld, Fresh, Used
<1> HIDE DEF b
<1>3. UseMove(b, name, missed) = [b EXCEPT !.move.executed = name, !.move.miss = missed]
  BY <1>1 DEF UseMove, IsUsed, Unless
<1> QED BY <1>2, <1>3 DEF b

LEMMA ToldOfMove ==
  ASSUME NEW p \in Parties, NEW cured, NEW user, NEW other,
         NEW sel, NEW exe, NEW miss, NEW dam, NEW st, NEW phz, NEW con, NEW flags
  PROVE  LET b == Bld(p, Used(sel, exe, miss, dam, st, phz, con, flags), user, other, cured)
         IN  /\ \A hp : Damage(b, p, hp)
                   = Bld(p, Used(sel, exe, miss, hp, st, phz, con, flags), user, other, cured)
             /\ \A flag : flag \notin flags => SetUsedFlag(b, p, flag)
                   = Bld(p, Used(sel, exe, miss, dam, st, phz, con, flags \cup {flag}),
                         user, other, cured)
             /\ \A new : exe \in Phazing /\ phz = Untold => PhazedIn(b, p, new)
                   = Bld(p, Used(sel, exe, miss, dam, st, new, con, flags), user, other, cured)
<1> DEFINE b == Bld(p, Used(sel, exe, miss, dam, st, phz, con, flags), user, other, cured)
<1>1. b.party = p /\ b.move.flags = flags
  BY DEF Bld, Used
<1>2. IsUsed(b) /\ PhazeIndex(b) = phz /\ Executes(b, Phazing) = (exe \in Phazing)
  BY UsedIs
<1>3. \A hp : [b EXCEPT !.move.damage = hp]
                = Bld(p, Used(sel, exe, miss, hp, st, phz, con, flags), user, other, cured)
  <2>1. ASSUME NEW hp, NEW e, e = [b EXCEPT !.move.damage = hp]
        PROVE  e = Bld(p, Used(sel, exe, miss, hp, st, phz, con, flags), user, other, cured)
    BY <2>1 DEF Bld, Used
  <2> QED BY <2>1
<1>4. \A flag : [b EXCEPT !.move.flags = b.move.flags \cup {flag}]
         = Bld(p, Used(sel, exe, miss, dam, st, phz, con, flags \cup {flag}), user, other, cured)
  <2>1. ASSUME NEW flag, NEW e, e = [b EXCEPT !.move.flags = b.move.flags \cup {flag}]
        PROVE  e = Bld(p, Used(sel, exe, miss, dam, st, phz, con, flags \cup {flag}), user,
                   other, cured)
    BY <2>1 DEF Bld, Used
  <2> QED BY <2>1
<1>5. \A new : [b EXCEPT !.move.phazed = new]
         = Bld(p, Used(sel, exe, miss, dam, st, new, con, flags), user, other, cured)
  <2>1. ASSUME NEW new, NEW e, e = [b EXCEPT !.move.phazed = new]
        PROVE  e = Bld(p, Used(sel, exe, miss, dam, st, new, con, flags), user, other, cured)
    BY <2>1 DEF Bld, Used
  <2> QED BY <2>1
<1> HIDE DEF b
<1>6. \A hp : Damage(b, p, hp) = [b EXCEPT !.move.damage = hp]
  BY <1>1, <1>2 DEF Damage, Unless
<1>7. \A flag : flag \notin flags =>
         SetUsedFlag(b, p, flag) = [b EXCEPT !.move.flags = b.move.flags \cup {flag}]
  BY <1>1, <1>2 DEF SetUsedFlag, Unless
<1>8. \A new : exe \in Phazing /\ phz = Untold =>
         PhazedIn(b, p, new) = [b EXCEPT !.move.phazed = new]
  BY <1>1, <1>2 DEF PhazedIn, Unless
<1> QED BY <1>3, <1>4, <1>5, <1>6, <1>7, <1>8 DEF b

LEMMA ToldOfStatus ==
  ASSUME NEW p \in Parties, NEW cured, NEW u1, NEW u2, NEW o1, NEW o2, NEW status,
         NEW sel, NEW exe, NEW miss, NEW dam, NEW phz, NEW con, NEW flags
  PROVE  LET B(u, o, st, contact) ==
               Bld(p, Used(sel, exe, miss, dam, st, phz, contact, flags),
                   Hint(u1, u), Hint(o1, o), cured)
         IN  /\ exe \notin Phazing \cup ClearsTeamStatus \cup {Rest} =>
                  StatusFromMove(B(u2, o2, Untold, con), Other(p), status)
                    = B(u2, status, status, con)
             /\ exe = Rest =>
                  StatusFromMove(B(u2, o2, Untold, con), p, status)
                    = B(status, o2, Untold, con)
             /\ exe \in ClearsTeamStatus /\ exe \notin Phazing \cup {Rest} /\ status = "clear" =>
                  StatusFromMove(B(u2, o2, Untold, con), p, status)
                    = B(status, o2, Untold, con)
             /\ StatusFromAbility(B(u2, o2, Untold, con), p, status)
                    = B(status, o2, Untold, status)
<1> DEFINE B(u, o, st, contact) ==
             Bld(p, Used(sel, exe, miss, dam, st, phz, contact, flags),
                 Hint(u1, u), Hint(o1, o), cured)
           b == B(u2, o2, Untold, con)
<1>1. b.party = p /\ b.move.status = Untold /\ Other(p) # p
  BY TwoSides DEF Bld, Used
<1>2. IsUsed(b) /\ \A moves : Executes(b, moves) = (exe \in moves)
  BY UsedIs
<1>3. /\ SetExpectedStatus(b, p, status) = B(status, o2, Untold, con)
      /\ SetExpectedStatus(b, Other(p), status) = B(u2, status, Untold, con)
  BY SetExpectedIs
<1>4. [B(u2, status, Untold, con) EXCEPT !.move.status = status] = B(u2, status, status, con)
  <2>1. ASSUME NEW e, e = [B(u2, status, Untold, con) EXCEPT !.move.status = status]
        PROVE  e = B(u2, status, status, con)
    BY <2>1 DEF Bld, Used
  <2> QED BY <2>1
<1>5. [B(status, o2, Untold, con) EXCEPT !.move.contact = status] = B(status, o2, Untold, status)
  <2>1. ASSUME NEW e, e = [B(status, o2, Untold, con) EXCEPT !.move.contact = status]
        PROVE  e = B(status, o2, Untold, status)
    BY <2>1 DEF Bld, Used
  <2> QED BY <2>1
<1> HIDE DEF B, b
<1>6. exe \notin Phazing \cup ClearsTeamStatus \cup {Rest} =>
        StatusFromMove(b, Other(p), status) = B(u2, status, status, con)
  BY <1>1, <1>2, <1>3, <1>4 DEF StatusFromMove, Unless
<1>7. exe = Rest => StatusFromMove(b, p, status) = B(status, o2, Untold, con)
  BY <1>1, <1>2, <1>3 DEF StatusFromMove, Unless
<1>8. exe \in ClearsTeamStatus /\ exe \notin Phazing \cup {Rest} /\ status = "clear" =>
        StatusFromMove(b, p, status) = B(status, o2, Untold, con)
  BY <1>1, <1>2, <1>3 DEF StatusFromMove, Unless
<1>9. StatusFromAbility(b, p, status) = B(status, o2, Untold, status)
  BY <1>1, <1>2, <1>3, <1>5 DEF StatusFromAbility, Unless
<1> QED BY <1>6, <1>7, <1>8, <1>9 DEF B, b

LEMMA FreshStatus ==
  ASSUME NEW p, NEW g
  PROVE  LET start == MakeBuilder(p)
             told == Hint(Untold, "clear")
             none == Hint(Untold, Untold)
         IN  /\ Thaw(start) = Bld(p, NoResult, told, none, Yes)
             /\ g # 1 => Awaken(start, g) = Bld(p, NoResult, told, none, Yes)
             /\ g = 1 => Awaken(start, g) = Bld(p, Hindrance("awakening"), told, none, Yes)
             /\ StillAsleep(start) = Bld(p, Hindrance("still asleep"), none, none, No)
             /\ \A reason : SetMoveState(start, Hindrance(reason))
                              = Bld(p, Hindrance(reason), none, none, No)
<1> USE DEF No, Yes
<1> DEFINE start == MakeBuilder(p)
           told == Hint(Untold, "clear")
           none == Hint(Untold, Untold)
<1>1. start.move = NoResult /\ ~start.cured
  BY DEF MakeBuilder
<1>2. \A reason : [start EXCEPT !.move = Hindrance(reason)]
                    = Bld(p, Hindrance(reason), none, none, No)
  <2>1. ASSUME NEW reason, NEW e, e = [start EXCEPT !.move = Hindrance(reason)]
        PROVE  e = Bld(p, Hindrance(reason), none, none, No)
    BY <2>1 DEF MakeBuilder, Bld, Told, Hint
  <2> QED BY <2>1
<1>3. [start EXCEPT !.user.status = "clear", !.cured = TRUE] = Bld(p, NoResult, told, none, Yes)
  <2>1. ASSUME NEW e, e = [start EXCEPT !.user.status = "clear", !.cured = TRUE]
        PROVE  e = Bld(p, NoResult, told, none, Yes)
    BY <2>1 DEF MakeBuilder, Bld, Told, Hint
  <2> QED BY <2>1
<1>4. [[start EXCEPT !.move = Hindrance("awakening")] EXCEPT !.user.status = "clear",
          !.cured = TRUE]
        = Bld(p, Hindrance("awakening"), told, none, Yes)
  <2>1. ASSUME NEW e, e = [[start EXCEPT !.move = Hindrance("awakening")] EXCEPT !.user.status = "clear", !.cured = TRUE]
        PROVE  e = Bld(p, Hindrance("awakening"), told, none, Yes)
    BY <2>1 DEF MakeBuilder, Bld, Told, Hint
  <2> QED BY <2>1
<1> HIDE DEF start
<1>5. \A reason : SetMoveState(start, Hindrance(reason))
                    = [start EXCEPT !.move = Hindrance(reason)]
  BY <1>1 DEF SetMoveState, Unless
<1>6. StillAsleep(start) = SetMoveState(start, Hindrance("still asleep"))
  BY <1>1 DEF StillAsleep, Unless
<1>7. Thaw(start) = [start EXCEPT !.user.status = "clear", !.cured = TRUE]
  BY <1>1 DEF Thaw, Unless
<1>8. g # 1 => Awaken(start, g) = [start EXCEPT !.user.status = "clear", !.cured = TRUE]
  BY <1>1 DEF Awaken, Unless
<1>9. g = 1 => Awaken(start, g)
        = [SetMoveState(start, Hindrance("awakening")) EXCEPT !.user.status = "clear",
            !.cured = TRUE]
  BY <1>1 DEF Awaken, Unless
<1> HIDE DEF told, none
<1>10. g = 1 => Awaken(start, g) = Bld(p, Hindrance("awakening"), told, none, Yes)
  BY <1>4, <1>5, <1>9
<1> QED BY <1>2, <1>3, <1>5, <1>6, <1>7, <1>8, <1>10 DEF start, told, none

-----------------------------------------------------------------------------
(* What a completed action does to the two sides of the client's battle    *)

Cleared(s) == [s EXCEPT !.status = [q \in Roster |-> "clear"]]

LEMMA CompletedMove ==
  ASSUME NEW p \in Parties, NEW x, NEW y, NEW move, NEW cured,
         NEW u1, NEW u2, NEW o1, NEW o2, NEW xx, NEW yy,
         Executed(BothSides(p, x, y), Bld(p, move, Hint(u1, u2), Hint(o1, o2), cured))
           = BothSides(p, xx, yy),
         ~x.down,
         PhazeIndex(Bld(p, move, Hint(u1, u2), Hint(o1, o2), cured)) # y.active,
         ~Differs(xx, Hint(u1, u2)), ~Differs(yy, Hint(o1, o2))
  PROVE  LET b == BothSides(p, x, y)
             m == Bld(p, move, Hint(u1, u2), Hint(o1, o2), cured)
         IN  ~UseMoveThrows(b, m) /\ UsesMove(b, m) = BothSides(p, Hurt(xx, u1), Hurt(yy, o1))
<1> DEFINE b == BothSides(p, x, y)
           m == Bld(p, move, Hint(u1, u2), Hint(o1, o2), cured)
           o == Other(p)
           e == BothSides(p, xx, yy)
           e2 == BothSides(p, Hurt(xx, u1), yy)
<1>1. /\ o \in Parties /\ o # p /\ Other(o) = p
      /\ b[p] = x /\ b[o] = y /\ e[p] = xx /\ e[o] = yy /\ e2[p] = Hurt(xx, u1) /\ e2[o] = yy
  BY TwoSides, BothSidesFacts
<1>2. /\ m.party = p /\ m.user = Hint(u1, u2) /\ m.other = Hint(o1, o2)
      /\ m.user.hp = u1 /\ m.other.hp = o1
  BY BldIs, HintIs
<1>3. e2 = BothSides(o, yy, Hurt(xx, u1))
  BY <1>1, TwoSides DEF BothSides
<1>4. BothSides(o, Hurt(yy, o1), Hurt(xx, u1)) = BothSides(p, Hurt(xx, u1), Hurt(yy, o1))
  BY <1>1, TwoSides DEF BothSides
<1>5. Executed(b, m) = e
  OBVIOUS
<1>6. PhazeIndex(m) # y.active /\ ~Differs(xx, m.user) /\ ~Differs(yy, m.other)
  BY <1>2
<1> HIDE DEF b, m, o, e, e2
<1>7. CorrectHP(e, p, m.user) = e2
  BY <1>1, <1>2, CorrectHPIs DEF o, e, e2
<1>8. CorrectHP(e2, o, m.other) = BothSides(o, Hurt(yy, o1), Hurt(xx, u1))
  BY <1>1, <1>2, <1>3, CorrectHPIs
<1>9. UsesMove(b, m) = BothSides(p, Hurt(xx, u1), Hurt(yy, o1))
  BY <1>2, <1>4, <1>5, <1>7, <1>8 DEF UsesMove, o
<1>10. ~OutOfSync(e, p, m.user) /\ ~OutOfSync(e2, o, m.other)
  BY <1>1, <1>6 DEF OutOfSync, Differs, ActiveStatus
<1>11. ~IsFainted(b, p) /\ PhazeIndex(m) \notin {b[o].active}
  BY <1>1, <1>6 DEF IsFainted
<1>12. ~UseMoveThrows(b, m)
  BY <1>2, <1>5, <1>7, <1>10, <1>11 DEF UseMoveThrows, o
<1> QED BY <1>9, <1>12 DEF b, m

\* What a move does, by what was told of it.
Woken(x, cured) == IF cured THEN Marked(x, "clear") ELSE x
Struck(y, miss, dam) == IF ~miss /\ dam \in HP THEN Hurt(y, dam) ELSE y

\* A U-turn that hits is half done.
Turns(exe, miss) == IF ~miss /\ exe \in Pivoting THEN Yes ELSE No

\* What a move does to the other side, and to its user.
OtherAfter(y, exe, miss, st, phz) ==
  IF miss THEN y
  ELSE IF phz # Untold THEN Came(y, phz)
  ELSE IF st # Untold THEN Marked(y, st)
  ELSE IF exe \in Startling \ ({Rest} \cup ClearsTeamStatus) THEN Flinched(y) ELSE y
Recovered(x, exe, miss, st, phz) ==
  IF miss \/ phz # Untold \/ st # Untold THEN x
  ELSE IF exe = Rest THEN Marked(x, "sleep")
  ELSE IF exe \in ClearsTeamStatus THEN Cleared(x) ELSE x
UserAfter(x, exe, miss, dam, st, phz, con) ==
  IF ~miss /\ dam \in HP /\ con # Untold THEN Marked(Recovered(x, exe, miss, st, phz), con)
  ELSE Recovered(x, exe, miss, st, phz)

LEMMA ExecutedIs ==
  ASSUME NEW p \in Parties, NEW x, NEW y, NEW cured \in BOOLEAN, NEW miss \in BOOLEAN,
         NEW user, NEW other, NEW sel, NEW exe, exe \notin Thawing,
         NEW dam, NEW st, NEW phz, NEW con, NEW flags, ~x.flinched
  PROVE  Executed(BothSides(p, x, y),
                  Bld(p, Used(sel, exe, miss, dam, st, phz, con, flags), user, other, cured))
           = BothSides(p, Done(UserAfter(Woken(x, cured), exe, miss, dam, st, phz, con),
                               Turns(exe, miss)),
                       OtherAfter(Struck(y, miss, dam), exe, miss, st, phz))
<1> DEFINE m == Bld(p, Used(sel, exe, miss, dam, st, phz, con, flags), user, other, cured)
           b == BothSides(p, x, y)
           o == Other(p)
           x1 == Woken(x, cured)
           y1 == Struck(y, miss, dam)
           turns == Turns(exe, miss)
           acts == IsUsed(m) /\ ~m.move.miss /\ ~b[p].flinched
           hurts == acts /\ m.move.damage \in HP
           woken == IF m.cured THEN Sleeps(b, p, "clear") ELSE b
           hit == IF hurts THEN CorrectHP(woken, o, [hp |-> m.move.damage]) ELSE woken
           affected ==
             IF ~acts THEN hit
             ELSE IF PhazeIndex(m) # Untold THEN SwitchesTo(hit, o, PhazeIndex(m))
             ELSE IF m.move.status # Untold THEN Sleeps(hit, o, SideEffect(m.move))
             ELSE IF Executes(m, {Rest}) THEN Sleeps(hit, p, "sleep")
             ELSE IF Executes(m, ClearsTeamStatus) THEN
               [hit EXCEPT ![p].status = [q \in Roster |-> "clear"]]
             ELSE IF Executes(m, Startling) THEN Flinches(hit, o)
             ELSE hit
           answered == IF hurts /\ m.move.contact # Untold
                       THEN Sleeps(affected, p, m.move.contact) ELSE affected
           last == [answered EXCEPT ![p].moved = TRUE,
                                    ![p].pivoting = acts /\ Executes(m, Pivoting)]
<1>1. /\ m.party = p /\ m.cured = cured /\ m.move.miss = miss /\ m.move.damage = dam
      /\ m.move.status = st /\ m.move.contact = con /\ m.move.executed = exe
      /\ IsUsed(m) /\ PhazeIndex(m) = phz
      /\ Executes(m, {Rest}) = (exe \in {Rest})
      /\ Executes(m, ClearsTeamStatus) = (exe \in ClearsTeamStatus)
      /\ Executes(m, Pivoting) = (exe \in Pivoting)
      /\ Executes(m, Startling) = (exe \in Startling)
  BY UsedIs, BldIs
<1>2. Executed(b, m) = last
  <2>1. ~Struggles(b, woken, m)
    BY <1>1 DEF Struggles
  <2> QED BY <1>1, <2>1 DEF Executed
<1>3. o \in Parties /\ o # p /\ Other(o) = p
  BY TwoSides
<1> HIDE DEF m
<1>4. acts = ~miss /\ hurts = (~miss /\ dam \in HP)
  <2>1. ~b[p].flinched
    BY BothSidesFacts
  <2> HIDE DEF b
  <2> QED BY <1>1, <2>1
<1>5. woken = BothSides(p, x1, y)
  <2>1. b[p] = x /\ b[o] = y
    BY BothSidesFacts
  <2>2. Sleeps(b, p, "clear") = BothSides(p, Marked(x, "clear"), y)
    BY <2>1, SleepsIs
  <2> HIDE DEF b
  <2> QED BY <1>1, <2>2 DEF Woken, b
<1>6. ASSUME NEW v, NEW w
      PROVE  /\ \A told : CorrectHP(BothSides(p, v, w), o, told) = BothSides(p, v, Hurt(w,
                 told.hp))
             /\ \A q : SwitchesTo(BothSides(p, v, w), o, q) = BothSides(p, v, Came(w, q))
             /\ Flinches(BothSides(p, v, w), o) = BothSides(p, v, Flinched(w))
             /\ \A q : Sleeps(BothSides(p, v, w), o, q) = BothSides(p, v, Marked(w, q))
             /\ \A q : Sleeps(BothSides(p, v, w), p, q) = BothSides(p, Marked(v, q), w)
  <2> DEFINE f == BothSides(p, v, w)
  <2>1. f[p] = v /\ f[o] = w
    BY BothSidesFacts
  <2>2. \A z : BothSides(p, v, z) = BothSides(o, z, v)
    BY <1>3, TwoSides DEF BothSides
  <2>3. f = BothSides(o, f[o], f[p]) /\ f = BothSides(p, f[p], f[o])
    BY <2>1, <2>2
  <2> HIDE DEF f
  <2>4. \A told : CorrectHP(f, o, told) = BothSides(o, Hurt(w, told.hp), v)
    BY <1>3, <2>1, <2>3, CorrectHPIs
  <2>5. \A q : SwitchesTo(f, o, q) = BothSides(o, Came(w, q), v)
    BY <1>3, <2>1, <2>3, SwitchesToIs
  <2>6. \A q : Sleeps(f, o, q) = BothSides(o, Marked(w, q), v)
    BY <1>3, <2>1, <2>3, SleepsIs
  <2>7. \A q : Sleeps(f, p, q) = BothSides(p, Marked(v, q), w)
    BY <1>3, <2>1, <2>3, SleepsIs
  <2>8. Flinches(f, o) = BothSides(o, Flinched(w), v)
    BY <1>3, <2>1, <2>3, FlinchesIs
  <2> QED BY <2>2, <2>4, <2>5, <2>6, <2>7, <2>8 DEF f
<1>7. hit = BothSides(p, x1, y1)
  <2>1. [hp |-> m.move.damage].hp = dam
    BY <1>1
  <2> HIDE DEF woken
  <2>2. CASE hurts
    <3>1. y1 = Hurt(y, dam)
      BY <1>4, <2>2 DEF Struck
    <3>2. hit = CorrectHP(woken, o, [hp |-> m.move.damage])
      BY <2>2
    <3> HIDE DEF hurts, y1, x1
    <3> QED BY <1>5, <1>6, <2>1, <3>1, <3>2
  <2>3. CASE ~hurts
    BY <1>4, <1>5, <2>3 DEF Struck
  <2> QED BY <2>2, <2>3
<1>8. SideEffect(m.move) = st
  BY <1>1 DEF SideEffect
<1>9. [BothSides(p, x1, y1) EXCEPT ![p].status = [q \in Roster |-> "clear"]]
        = BothSides(p, Cleared(x1), y1)
  BY BothSidesFacts DEF Cleared
<1>10. ASSUME NEW v, NEW w
       PROVE  [BothSides(p, v, w) EXCEPT ![p].moved = TRUE,
                                         ![p].pivoting = acts /\ Executes(m, Pivoting)]
                = BothSides(p, Done(v, turns), w)
  <2> DEFINE f == BothSides(p, v, w)
             z == acts /\ Executes(m, Pivoting)
  <2>1. f[p] = v /\ p \in DOMAIN f /\ \A r : [f EXCEPT ![p] = r] = BothSides(p, r, w)
    BY BothSidesFacts
  <2>2. z = turns
    BY <1>1, <1>4 DEF Turns, No, Yes
  <2> HIDE DEF f, z, turns
  <2>3. [f EXCEPT ![p].moved = TRUE, ![p].pivoting = z]
          = [f EXCEPT ![p] = [f[p] EXCEPT !.moved = TRUE, !.pivoting = z]]
    BY <2>1
  <2> QED BY <2>1, <2>2, <2>3 DEF Done, f, z
<1> HIDE DEF x1, y1
<1>20. /\ SwitchesTo(BothSides(p, x1, y1), o, phz) = BothSides(p, x1, Came(y1, phz))
       /\ Sleeps(BothSides(p, x1, y1), o, st) = BothSides(p, x1, Marked(y1, st))
       /\ Sleeps(BothSides(p, x1, y1), p, "sleep") = BothSides(p, Marked(x1, "sleep"), y1)
       /\ Sleeps(BothSides(p, x1, y1), p, con) = BothSides(p, Marked(x1, con), y1)
       /\ Flinches(BothSides(p, x1, y1), o) = BothSides(p, x1, Flinched(y1))
  BY <1>6
<1> DEFINE xa == Recovered(x1, exe, miss, st, phz)
           ya == OtherAfter(y1, exe, miss, st, phz)
<1>11. hurts /\ con # Untold => answered = Sleeps(affected, p, con)
  BY <1>1
<1>12. ~(hurts /\ con # Untold) => answered = affected
  BY <1>1
<1>13. ASSUME NEW v, NEW w, answered = BothSides(p, v, w)
       PROVE  Executed(b, m) = BothSides(p, Done(v, turns), w)
  <2> HIDE DEF answered
  <2> QED BY <1>2, <1>10, <1>13
<1> HIDE DEF answered
<1>14. affected = BothSides(p, xa, ya)
  <2>1. CASE miss
    <3>1. xa = x1 /\ ya = y1
      BY <2>1 DEF Recovered, OtherAfter
    <3> HIDE DEF xa, ya
    <3> QED BY <1>1, <1>4, <1>7, <2>1, <3>1
  <2>2. CASE ~miss /\ phz # Untold
    <3>1. xa = x1 /\ ya = Came(y1, phz)
      BY <2>2 DEF Recovered, OtherAfter
    <3> HIDE DEF xa, ya
    <3> QED BY <1>1, <1>4, <1>7, <1>20, <2>2, <3>1
  <2>3. CASE ~miss /\ phz = Untold /\ st # Untold
    <3>1. xa = x1 /\ ya = Marked(y1, st)
      BY <2>3 DEF Recovered, OtherAfter
    <3> HIDE DEF xa, ya
    <3> QED BY <1>1, <1>4, <1>7, <1>8, <1>20, <2>3, <3>1
  <2>4. CASE ~miss /\ phz = Untold /\ st = Untold /\ exe = Rest
    <3>1. xa = Marked(x1, "sleep") /\ ya = y1
      BY <2>4 DEF Recovered, OtherAfter
    <3> HIDE DEF xa, ya
    <3> QED BY <1>1, <1>4, <1>7, <1>20, <2>4, <3>1
  <2>5. CASE ~miss /\ phz = Untold /\ st = Untold /\ exe # Rest /\ exe \in ClearsTeamStatus
    <3>1. xa = Cleared(x1) /\ ya = y1
      BY <2>5 DEF Recovered, OtherAfter
    <3> HIDE DEF xa, ya
    <3> QED BY <1>1, <1>4, <1>7, <1>9, <2>5, <3>1
  <2>6. CASE /\ ~miss /\ phz = Untold /\ st = Untold /\ exe # Rest /\ exe \notin ClearsTeamStatus
             /\ exe \in Startling
    <3>1. xa = x1 /\ ya = Flinched(y1)
      BY <2>6 DEF Recovered, OtherAfter
    <3> HIDE DEF xa, ya
    <3> QED BY <1>1, <1>4, <1>7, <1>20, <2>6, <3>1
  <2>7. CASE /\ ~miss /\ phz = Untold /\ st = Untold /\ exe # Rest /\ exe \notin ClearsTeamStatus
             /\ exe \notin Startling
    <3>1. xa = x1 /\ ya = y1
      BY <2>7 DEF Recovered, OtherAfter
    <3> HIDE DEF xa, ya
    <3> QED BY <1>1, <1>4, <1>7, <2>7, <3>1
  <2> QED BY <2>1, <2>2, <2>3, <2>4, <2>5, <2>6, <2>7
<1> HIDE DEF affected, ya
<1> DEFINE xz == UserAfter(x1, exe, miss, dam, st, phz, con)
<1>15. answered = BothSides(p, xz, ya)
  <2>1. CASE ~miss /\ dam \in HP /\ con # Untold
    <3>1. xz = Marked(xa, con)
      BY <2>1 DEF UserAfter
    <3> HIDE DEF xa, xz
    <3>2. Sleeps(BothSides(p, xa, ya), p, con) = BothSides(p, Marked(xa, con), ya)
      BY <1>6
    <3> QED BY <1>4, <1>11, <1>14, <2>1, <3>1, <3>2
  <2>2. CASE ~(~miss /\ dam \in HP /\ con # Untold)
    <3>1. xz = xa
      BY <2>2 DEF UserAfter
    <3> HIDE DEF xa, xz
    <3> QED BY <1>4, <1>12, <1>14, <2>2, <3>1
  <2> QED BY <2>1, <2>2
<1> HIDE DEF xz
<1> QED BY <1>13, <1>15 DEF m, b, x1, y1, turns, xz, ya

\* Struggle does not happen in the client's battle.
Stopped(x, cured, reason) ==
  \/ reason = "fully paralyzed"
  \/ reason = "awakening" /\ x.status[x.active] = "sleep"
  \/ Woken(x, cured).status[Woken(x, cured).active] \in {"sleep", "freeze"}
  \/ x.flinched

LEMMA HinderedIs ==
  ASSUME NEW p \in Parties, NEW x, NEW y, NEW cured \in BOOLEAN, NEW user, NEW other,
         NEW reason, reason # "used", Stopped(x, cured, reason)
  PROVE  LET m == Bld(p, Hindrance(reason), user, other, cured)
         IN  /\ Executed(BothSides(p, x, y), m) = BothSides(p, Done(Woken(x, cured), No), y)
             /\ PhazeIndex(m) = Untold
             /\ reason # "none" => Completes(m)
<1> USE DEF No
<1> DEFINE m == Bld(p, Hindrance(reason), user, other, cured)
           b == BothSides(p, x, y)
           x1 == Woken(x, cured)
           woken == IF m.cured THEN Sleeps(b, p, "clear") ELSE b
<1>1. m.party = p /\ m.cured = cured /\ m.move.result = reason
  BY BldIs DEF Hindrance
<1>2. ~IsUsed(m) /\ PhazeIndex(m) = Untold
  BY <1>1 DEF IsUsed, PhazeIndex
<1>3. reason # "none" => Completes(m)
  BY <1>1 DEF Completes, NoResult
<1> HIDE DEF m
<1>4. woken = BothSides(p, x1, y)
  <2>1. b[p] = x /\ b[Other(p)] = y
    BY BothSidesFacts
  <2>2. Sleeps(b, p, "clear") = BothSides(p, Marked(x, "clear"), y)
    BY <2>1, SleepsIs
  <2> HIDE DEF b
  <2> QED BY <1>1, <2>2 DEF Woken, b
<1>5. Executed(b, m) = [woken EXCEPT ![p].moved = TRUE, ![p].pivoting = FALSE]
  <2>1. b[p] = x /\ woken[p] = x1
    <3> HIDE DEF woken, x1
    <3> QED BY <1>4, BothSidesFacts DEF b
  <2>2. ~Struggles(b, woken, m)
    <3> HIDE DEF b, woken
    <3> QED BY <1>1, <2>1 DEF Struggles, Stopped, ActiveStatus
  <2> HIDE DEF b
  <2> QED BY <1>1, <1>2, <2>2 DEF Executed
<1>6. [BothSides(p, x1, y) EXCEPT ![p].moved = TRUE, ![p].pivoting = FALSE]
        = BothSides(p, Done(x1, No), y)
  <2> DEFINE f == BothSides(p, x1, y)
  <2>1. f[p] = x1 /\ p \in DOMAIN f /\ \A r : [f EXCEPT ![p] = r] = BothSides(p, r, y)
    BY BothSidesFacts
  <2> HIDE DEF f, x1
  <2>2. [f EXCEPT ![p].moved = TRUE, ![p].pivoting = FALSE]
          = [f EXCEPT ![p] = [f[p] EXCEPT !.moved = TRUE, !.pivoting = FALSE]]
    BY <2>1
  <2> QED BY <2>1, <2>2 DEF Done, f
<1> HIDE DEF woken, x1, b
<1>7. Executed(b, m) = BothSides(p, Done(x1, No), y)
  BY <1>4, <1>5, <1>6
<1> QED BY <1>2, <1>3, <1>7 DEF m, b, x1

LEMMA HitsSelfIs ==
  ASSUME NEW p \in Parties, NEW x, NEW y, NEW told
  PROVE  LET b == BothSides(p, x, y)
         IN  /\ HitsSelf(b, p, told) = BothSides(p, Hurt(Done(x, No), told.hp), y)
             /\ OutOfSync(HitsSelf(b, p, told), p, told)
                  => Differs(Hurt(Done(x, No), told.hp), told)
<1> USE DEF No
<1> DEFINE f == BothSides(p, x, y)
           h == BothSides(p, Done(x, No), y)
<1>1. f[p] = x /\ p \in DOMAIN f
  BY BothSidesFacts
<1>10. \A r : [f EXCEPT ![p] = r] = BothSides(p, r, y)
  BY TwoSides DEF BothSides
<1>2. h[p] = Done(x, No) /\ h[Other(p)] = y
  BY TwoSides DEF BothSides
<1> HIDE DEF f, h
<1>3. [f EXCEPT ![p].moved = TRUE, ![p].pivoting = FALSE]
        = [f EXCEPT ![p] = [f[p] EXCEPT !.moved = TRUE, !.pivoting = FALSE]]
  BY <1>1
<1>4. [f EXCEPT ![p].moved = TRUE, ![p].pivoting = FALSE] = h
  BY <1>1, <1>3, <1>10 DEF Done, h
<1>5. CorrectHP(h, p, told) = BothSides(p, Hurt(Done(x, No), told.hp), y)
  BY <1>2, CorrectHPIs DEF h
<1>6. HitsSelf(f, p, told) = BothSides(p, Hurt(Done(x, No), told.hp), y)
  BY <1>4, <1>5 DEF HitsSelf
<1> DEFINE z == Hurt(Done(x, No), told.hp)
<1> HIDE DEF z
<1>9. BothSides(p, z, y)[p] = z
  BY BothSidesFacts
<1>7. HitsSelf(f, p, told)[p] = z
  BY <1>6, <1>9 DEF z
<1>8. OutOfSync(HitsSelf(f, p, told), p, told) => Differs(z, told)
  BY <1>7 DEF OutOfSync, Differs, ActiveStatus
<1> QED BY <1>6, <1>8 DEF f, z

LEMMA UsesSwitchIs ==
  ASSUME NEW p \in Parties, NEW x, NEW y, NEW e, e.party = p
  PROVE  LET b == BothSides(p, x, y)
         IN  /\ UsesSwitch(b, e) = BothSides(p, Hurt(Came(x, e.index), e.hp), y)
             /\ UseSwitchThrows(b, e) <=> Differs(Came(x, e.index), e)
<1> DEFINE b == BothSides(p, x, y)
           h == BothSides(p, Came(x, e.index), y)
<1>1. b[p] = x /\ b[Other(p)] = y /\ h[p] = Came(x, e.index) /\ h[Other(p)] = y
  BY BothSidesFacts
<1>2. SwitchesTo(b, p, e.index) = h
  BY <1>1, SwitchesToIs
<1>3. CorrectHP(h, p, e) = BothSides(p, Hurt(Came(x, e.index), e.hp), y)
  BY <1>1, CorrectHPIs
<1> HIDE DEF b, h
<1>4. UsesSwitch(b, e) = BothSides(p, Hurt(Came(x, e.index), e.hp), y)
  BY <1>2, <1>3 DEF UsesSwitch
<1>5. UseSwitchThrows(b, e) <=> Differs(Came(x, e.index), e)
  BY <1>1, <1>2 DEF UseSwitchThrows, OutOfSync, Differs, ActiveStatus
<1> QED BY <1>4, <1>5 DEF b

-----------------------------------------------------------------------------
(* The messages of a move, one by one, for a builder in normal form        *)

K(builder, b) == Cl(MoveBuilder(builder), NoUpkeep, "unknown", b, 0)

LEMMA KIs ==
  ASSUME NEW nb, NEW b
  PROVE  /\ K(nb, b).action = MoveBuilder(nb) /\ K(nb, b).action.kind = "move"
         /\ K(nb, b).action.builder = nb /\ K(nb, b).battle = b
         /\ \A next : K(next, b) = Instead(K(nb, b), MoveBuilder(next))
BY DEF K, Cl, MoveBuilder, Instead

LEMMA NoUpkeepIs ==
  /\ NoUpkeep \in [Parties -> UpkeepRecord]
  /\ \A p \in Parties : NoUpkeep[p].hp = Untold /\ NoUpkeep[p].status = Untold
                        /\ ~NoUpkeep[p].cured
BY DEF NoUpkeep, UpkeepRecord

LEMMA SoundCl ==
  ASSUME NEW a, NEW u \in [Parties -> UpkeepRecord], NEW r \in {"unknown", "turn", "finished"},
         NEW b, WellFormed(b), NEW e \in {0, 1},
         a.kind \in {"nothing", "move", "switches", "hits self"}
  PROVE  Sound(Cl(a, u, r, b, e))
<1> DEFINE c == Cl(a, u, r, b, e)
<1>1. c.action = a /\ c.upkeep = u /\ c.result = r /\ c.battle = b /\ c.endings = e
  BY DEF Cl
<1> HIDE DEF c
<1> QED BY <1>1 DEF Sound, c

LEMMA SoundK ==
  ASSUME NEW nb, NEW b, WellFormed(b)
  PROVE  Sound(K(nb, b))
<1>1. MoveBuilder(nb).kind = "move"
  BY DEF MoveBuilder
<1> QED BY <1>1, SoundCl, NoUpkeepIs DEF K

LEMMA Lines ==
  ASSUME NEW p, NEW hp, NEW status
  PROVE  /\ DamageLine("main effect", p, hp, status) = Told3("damage", p, hp, status)
         /\ DamageLine("confusion", p, hp, status) = Told3("hit self", p, hp, status)
         /\ DamageLine("recoil", p, hp, status) = Told3("recoil", p, hp, status)
         /\ DamageLine("hazards", p, hp, status) = Told3("hp", p, hp, status)
         /\ DamageLine("miscellaneous", p, hp, status) = Told3("hp", p, hp, status)
BY DEF DamageLine, Told3

LEMMA StepBuilder ==
  ASSUME NEW m, NEW bb, NEW nb, NEW b, NEW sides, NEW g,
         Extended(m, K(bb, b), sides, g, bb, nb), ~nb.threw
  PROVE  Advances(m, K(bb, b), K(nb, b), sides, g)
<1>1. ByExtending(m, K(bb, b), K(nb, b), sides, g)
  BY KIs DEF ByExtending
<1> QED BY <1>1 DEF Advances

LEMMA StepMove ==
  ASSUME NEW p, NEW user, NEW other, NEW cured, NEW name, NEW missed, NEW b, NEW sides, NEW g,
         NEW move, NEW next,
         UseMove(Bld(p, move, user, other, cured), name, missed) = Bld(p, next, user, other,
             cured)
  PROVE  Advances(MoveLine(p, name, missed), K(Bld(p, move, user, other, cured), b),
                  K(Bld(p, next, user, other, cured), b), sides, g)
<1> DEFINE m == MoveLine(p, name, missed)
           bb == Bld(p, move, user, other, cured)
           nb == Bld(p, next, user, other, cured)
<1>1. m.kind = "move" /\ m.party = p /\ m.move = name /\ m.miss = missed
  BY DEF MoveLine
<1> HIDE DEF m
<1>2. bb.party = p /\ ~nb.threw
  BY BldIs
<1>3. Extended(m, K(bb, b), sides, g, bb, nb)
  BY <1>1, <1>2 DEF Extended
<1> QED BY <1>2, <1>3, StepBuilder DEF m

LEMMA StepDamage ==
  ASSUME NEW p \in Parties, NEW cured, NEW u1, NEW u2, NEW o1, NEW o2, NEW hp, NEW status,
         NEW sel, NEW exe, NEW miss, NEW dam, NEW st, NEW phz, NEW con, NEW flags,
         NEW b, NEW sides, NEW g
  PROVE  LET B(d, o) == Bld(p, Used(sel, exe, miss, d, st, phz, con, flags), Hint(u1, u2), o,
             cured)
             first == B(dam, Hint(o1, o2))
         IN  /\ exe \notin DamagesSelf =>
                  Advances(Told3("damage", Other(p), hp, status), K(first, b),
                           K(B(hp, Hint(hp, status)), b), sides, g)
             /\ exe \in DamagesSelf =>
                  Advances(Told3("damage", p, hp, status), K(first, b), K(first, b), sides, g)
             /\ Advances(Said("damage substitute", Other(p)), K(first, b),
                         K(B("substitute", Hint(o1, o2)), b), sides, g)
<1> DEFINE B(d, o) == Bld(p, Used(sel, exe, miss, d, st, phz, con, flags), Hint(u1, u2), o, cured)
           bb == B(dam, Hint(o1, o2))
<1>1. Other(p) # p /\ Other(Other(p)) = p
  BY TwoSides
<1>2. bb.party = p /\ ~bb.threw /\ \A d, o : ~B(d, o).threw
  BY BldIs
<1>3. IsUsed(bb) /\ Executes(bb, DamagesSelf) = (exe \in DamagesSelf)
  BY UsedIs
<1>4. \A d : Damage(bb, p, d) = B(d, Hint(o1, o2))
  BY ToldOfMove
<1>5. SetExpected(B(hp, Hint(o1, o2)), Other(p), hp, status) = B(hp, Hint(hp, status))
  BY SetExpectedIs
<1> HIDE DEF B, bb
<1>6. ASSUME exe \notin DamagesSelf
      PROVE  Advances(Told3("damage", Other(p), hp, status), K(bb, b),
                      K(B(hp, Hint(hp, status)), b), sides, g)
  <2> DEFINE m == Told3("damage", Other(p), hp, status)
  <2>1. m.kind = "damage" /\ m.party = Other(p) /\ m.hp = hp /\ m.status = status
    BY DEF Told3
  <2> HIDE DEF m
  <2>2. ~MoveDamagedSelfThrows(bb, m.party) /\ ~SaysItDamagedSelf(bb, m.party)
    BY <1>1, <1>2, <1>3, <1>6, <2>1 DEF MoveDamagedSelfThrows, SaysItDamagedSelf
  <2>3. Extended(m, K(bb, b), sides, g, bb, B(hp, Hint(hp, status)))
    BY <1>1, <1>4, <1>5, <2>1, <2>2 DEF Extended
  <2> QED BY <1>2, <2>3, StepBuilder DEF m
<1>7. ASSUME exe \in DamagesSelf
      PROVE  Advances(Told3("damage", p, hp, status), K(bb, b), K(bb, b), sides, g)
  <2> DEFINE m == Told3("damage", p, hp, status)
  <2>1. m.kind = "damage" /\ m.party = p
    BY DEF Told3
  <2> HIDE DEF m
  <2>2. ~MoveDamagedSelfThrows(bb, m.party) /\ SaysItDamagedSelf(bb, m.party)
    BY <1>1, <1>2, <1>3, <1>7, <2>1 DEF MoveDamagedSelfThrows, SaysItDamagedSelf
  <2>3. Extended(m, K(bb, b), sides, g, bb, bb)
    BY <2>1, <2>2 DEF Extended
  <2> QED BY <1>2, <2>3, StepBuilder DEF m
<1>8. Advances(Said("damage substitute", Other(p)), K(bb, b),
               K(B("substitute", Hint(o1, o2)), b), sides, g)
  <2> DEFINE m == Said("damage substitute", Other(p))
  <2>1. m.kind = "damage substitute" /\ m.party = Other(p)
    BY DEF Said
  <2> HIDE DEF m
  <2>2. Extended(m, K(bb, b), sides, g, bb, B("substitute", Hint(o1, o2)))
    BY <1>1, <1>4, <2>1 DEF Extended
  <2> QED BY <1>2, <2>2, StepBuilder DEF m
<1> QED BY <1>6, <1>7, <1>8 DEF B, bb

LEMMA StepFlag ==
  ASSUME NEW p \in Parties, NEW cured, NEW u1, NEW u2, NEW o1, NEW o2, NEW hp, NEW status,
         NEW sel, NEW exe, NEW miss, NEW dam, NEW st, NEW phz, NEW con, NEW flags,
         NEW b, NEW sides, NEW g
  PROVE  LET B(u, f) == Bld(p, Used(sel, exe, miss, dam, st, phz, con, f), u, Hint(o1, o2), cured)
             first == B(Hint(u1, u2), flags)
         IN  /\ "critical_hit" \notin flags =>
                  Advances(Said("critical hit", p), K(first, b),
                           K(B(Hint(u1, u2), flags \cup {"critical_hit"}), b), sides, g)
             /\ "confuse" \notin flags =>
                  Advances(Said("start confusion", Other(p)), K(first, b),
                           K(B(Hint(u1, u2), flags \cup {"confuse"}), b), sides, g)
             /\ "recoil" \notin flags =>
                  Advances(Told3("recoil", p, hp, status), K(first, b),
                           K(B(Hint(hp, status), flags \cup {"recoil"}), b), sides, g)
<1> DEFINE B(u, f) == Bld(p, Used(sel, exe, miss, dam, st, phz, con, f), u, Hint(o1, o2), cured)
           bb == B(Hint(u1, u2), flags)
<1>1. Other(p) # p /\ Other(Other(p)) = p
  BY TwoSides
<1>2. bb.party = p /\ \A u, f : ~B(u, f).threw
  BY BldIs
<1>3. \A f : f \notin flags => SetUsedFlag(bb, p, f) = B(Hint(u1, u2), flags \cup {f})
  BY ToldOfMove
<1>4. \A f : SetExpected(B(Hint(u1, u2), f), p, hp, status) = B(Hint(hp, status), f)
  BY SetExpectedIs
<1> HIDE DEF B, bb
<1>5. ASSUME "critical_hit" \notin flags
      PROVE  Advances(Said("critical hit", p), K(bb, b),
                      K(B(Hint(u1, u2), flags \cup {"critical_hit"}), b), sides, g)
  <2> DEFINE m == Said("critical hit", p)
  <2>1. m.kind = "critical hit" /\ m.party = p
    BY DEF Said
  <2> HIDE DEF m
  <2>2. Extended(m, K(bb, b), sides, g, bb, B(Hint(u1, u2), flags \cup {"critical_hit"}))
    BY <1>3, <1>5, <2>1 DEF Extended
  <2> QED BY <1>2, <2>2, StepBuilder DEF m
<1>6. ASSUME "confuse" \notin flags
      PROVE  Advances(Said("start confusion", Other(p)), K(bb, b),
                      K(B(Hint(u1, u2), flags \cup {"confuse"}), b), sides, g)
  <2> DEFINE m == Said("start confusion", Other(p))
  <2>1. m.kind = "start confusion" /\ m.party = Other(p)
    BY DEF Said
  <2> HIDE DEF m
  <2>2. Extended(m, K(bb, b), sides, g, bb, B(Hint(u1, u2), flags \cup {"confuse"}))
    BY <1>1, <1>3, <1>6, <2>1 DEF Extended
  <2> QED BY <1>2, <2>2, StepBuilder DEF m
<1>7. ASSUME "recoil" \notin flags
      PROVE  Advances(Told3("recoil", p, hp, status), K(bb, b),
                      K(B(Hint(hp, status), flags \cup {"recoil"}), b), sides, g)
  <2> DEFINE m == Told3("recoil", p, hp, status)
  <2>1. m.kind = "recoil" /\ m.party = p /\ m.hp = hp /\ m.status = status
    BY DEF Told3
  <2> HIDE DEF m
  <2>2. Extended(m, K(bb, b), sides, g, bb, B(Hint(hp, status), flags \cup {"recoil"}))
    BY <1>3, <1>4, <1>7, <2>1 DEF Extended
  <2> QED BY <1>2, <2>2, StepBuilder DEF m
<1> QED BY <1>5, <1>6, <1>7 DEF B, bb

LEMMA StepStatus ==
  ASSUME NEW p \in Parties, NEW cured, NEW u1, NEW u2, NEW o1, NEW o2, NEW status,
         NEW sel, NEW exe, NEW miss, NEW dam, NEW phz, NEW con, NEW flags,
         NEW b, NEW sides, NEW g
  PROVE  LET B(u, o, st, contact) ==
               Bld(p, Used(sel, exe, miss, dam, st, phz, contact, flags),
                   Hint(u1, u), Hint(o1, o), cured)
             first == B(u2, o2, Untold, con)
         IN  /\ exe \notin Phazing \cup ClearsTeamStatus \cup {Rest} =>
                  Advances(StatusLine("main effect", Other(p), status), K(first, b),
                           K(B(u2, status, status, con), b), sides, g)
             /\ exe = Rest =>
                  Advances(StatusLine("move", p, status), K(first, b),
                           K(B(status, o2, Untold, con), b), sides, g)
             /\ phz = Untold /\ b[Other(p)].active = sides[Other(p)].active =>
                  Advances(StatusLine("ability", p, status), K(first, b),
                           K(B(status, o2, Untold, status), b), sides, g)
             /\ exe \in ClearsTeamStatus /\ exe \notin Phazing \cup {Rest}
                /\ ~IsEndOfTurn(b, g) /\ status = "clear" =>
                  \A m : m.kind = "status clear" /\ m.party = p =>
                    Advances(m, K(first, b), K(B(status, o2, Untold, con), b), sides, g)
<1> DEFINE B(u, o, st, contact) ==
             Bld(p, Used(sel, exe, miss, dam, st, phz, contact, flags),
                 Hint(u1, u), Hint(o1, o), cured)
           bb == B(u2, o2, Untold, con)
<1>1. Other(p) # p /\ Other(Other(p)) = p
  BY TwoSides
<1>2. bb.party = p /\ \A u, o, s, f : ~B(u, o, s, f).threw
  BY BldIs
<1>3. IsUsed(bb) /\ PhazeIndex(bb) = phz
  BY DEF Bld, Used, IsUsed, PhazeIndex
<1>4. /\ exe \notin Phazing \cup ClearsTeamStatus \cup {Rest} =>
           StatusFromMove(bb, Other(p), status) = B(u2, status, status, con)
      /\ exe = Rest => StatusFromMove(bb, p, status) = B(status, o2, Untold, con)
      /\ exe \in ClearsTeamStatus /\ exe \notin Phazing \cup {Rest} /\ status = "clear" =>
           StatusFromMove(bb, p, status) = B(status, o2, Untold, con)
      /\ StatusFromAbility(bb, p, status) = B(status, o2, Untold, status)
  BY ToldOfStatus
<1> HIDE DEF B, bb
<1>6. ASSUME exe \notin Phazing \cup ClearsTeamStatus \cup {Rest}
      PROVE  Advances(StatusLine("main effect", Other(p), status), K(bb, b),
                      K(B(u2, status, status, con), b), sides, g)
  <2> DEFINE m == StatusLine("main effect", Other(p), status)
  <2>1. m.kind = "move status" /\ m.party = Other(p) /\ m.status = status
    BY DEF StatusLine
  <2> HIDE DEF m
  <2>2. Extended(m, K(bb, b), sides, g, bb, B(u2, status, status, con))
    BY <1>4, <1>6, <2>1 DEF Extended
  <2> QED BY <1>2, <2>2, StepBuilder DEF m
<1>7. ASSUME exe = Rest
      PROVE  Advances(StatusLine("move", p, status), K(bb, b),
                      K(B(status, o2, Untold, con), b), sides, g)
  <2> DEFINE m == StatusLine("move", p, status)
  <2>1. m.kind = "move status" /\ m.party = p /\ m.status = status
    BY DEF StatusLine
  <2> HIDE DEF m
  <2>2. Extended(m, K(bb, b), sides, g, bb, B(status, o2, Untold, con))
    BY <1>4, <1>7, <2>1 DEF Extended
  <2> QED BY <1>2, <2>2, StepBuilder DEF m
<1>8. ASSUME phz = Untold, b[Other(p)].active = sides[Other(p)].active
      PROVE  Advances(StatusLine("ability", p, status), K(bb, b),
                      K(B(status, o2, Untold, status), b), sides, g)
  <2> DEFINE m == StatusLine("ability", p, status)
  <2>1. m.kind = "ability status" /\ m.party = Other(p) /\ m.status = status
    BY DEF StatusLine
  <2> HIDE DEF m
  <2>2. FiledUnder(K(bb, b).action, K(bb, b).battle, Other(p)) = b[Other(p)].active
    BY <1>3, <1>8, KIs DEF FiledUnder
  <2>3. Extended(m, K(bb, b), sides, g, bb, B(status, o2, Untold, status))
    BY <1>1, <1>4, <1>8, <2>1, <2>2 DEF Extended
  <2> QED BY <1>2, <2>3, StepBuilder DEF m
<1>9. ASSUME exe \in ClearsTeamStatus, exe \notin Phazing \cup {Rest}, ~IsEndOfTurn(b, g),
             status = "clear", NEW m, m.kind = "status clear", m.party = p
      PROVE  Advances(m, K(bb, b), K(B(status, o2, Untold, con), b), sides, g)
  <2>1. CuredByMove(K(bb, b).action, K(bb, b).battle, p)
    BY <1>2, <1>3, KIs DEF CuredByMove
  <2>2. Extended(m, K(bb, b), sides, g, bb, B(status, o2, Untold, con))
    <3>1. K(bb, b).battle = b
      BY KIs
    <3> QED BY <1>4, <1>9, <2>1, <3>1 DEF Extended
  <2> QED BY <1>2, <2>2, StepBuilder
<1> QED BY <1>6, <1>7, <1>8, <1>9 DEF B, bb

LEMMA StepHP ==
  ASSUME NEW p \in Parties, NEW move, NEW cured, NEW u1, NEW u2, NEW o1, NEW o2,
         NEW hp, NEW status, NEW b, NEW sides, NEW g
  PROVE  LET B(u, o) == Bld(p, move, u, o, cured)
             first == B(Hint(u1, u2), Hint(o1, o2))
         IN  /\ Advances(Told3("hp", p, hp, status), K(first, b),
                         K(B(Hint(hp, status), Hint(o1, o2)), b), sides, g)
             /\ Advances(Told3("hp", Other(p), hp, status), K(first, b),
                         K(B(Hint(u1, u2), Hint(hp, status)), b), sides, g)
<1> DEFINE B(u, o) == Bld(p, move, u, o, cured)
           bb == B(Hint(u1, u2), Hint(o1, o2))
<1>1. \A u, o : ~B(u, o).threw
  BY BldIs
<1>2. /\ SetExpected(bb, p, hp, status) = B(Hint(hp, status), Hint(o1, o2))
      /\ SetExpected(bb, Other(p), hp, status) = B(Hint(u1, u2), Hint(hp, status))
  BY SetExpectedIs
<1> HIDE DEF B, bb
<1>3. \A q : /\ Told3("hp", q, hp, status).kind = "hp" /\ Told3("hp", q, hp, status).party = q
             /\ Told3("hp", q, hp, status).hp = hp /\ Told3("hp", q, hp, status).status = status
  BY DEF Told3
<1>4. Extended(Told3("hp", p, hp, status), K(bb, b), sides, g, bb,
               B(Hint(hp, status), Hint(o1, o2)))
  BY <1>2, <1>3 DEF Extended
<1>5. Extended(Told3("hp", Other(p), hp, status), K(bb, b), sides, g, bb,
               B(Hint(u1, u2), Hint(hp, status)))
  BY <1>2, <1>3 DEF Extended
<1> QED BY <1>1, <1>4, <1>5, StepBuilder DEF B, bb

LEMMA StepPhaze ==
  ASSUME NEW p \in Parties, NEW cured, NEW u1, NEW u2, NEW o1, NEW o2,
         NEW sel, NEW exe \in Phazing, NEW miss, NEW dam, NEW st, NEW con, NEW flags,
         NEW b, NEW sides, NEW g, NEW m, m.kind = "phaze", m.party = Other(p)
  PROVE  LET B(o, phz) == Bld(p, Used(sel, exe, miss, dam, st, phz, con, flags),
                              Hint(u1, u2), o, cured)
         IN  Advances(m, K(B(Hint(o1, o2), Untold), b), K(B(Hint(m.hp, m.status), m.index), b),
                      sides, g)
<1> DEFINE B(o, phz) == Bld(p, Used(sel, exe, miss, dam, st, phz, con, flags),
                            Hint(u1, u2), o, cured)
           bb == B(Hint(o1, o2), Untold)
<1>1. Other(Other(p)) = p
  BY TwoSides
<1>2. \A o, phz : ~B(o, phz).threw
  BY BldIs
<1>3. PhazedIn(bb, p, m.index) = B(Hint(o1, o2), m.index)
  BY ToldOfMove
<1>4. SetExpected(B(Hint(o1, o2), m.index), Other(p), m.hp, m.status)
        = B(Hint(m.hp, m.status), m.index)
  BY SetExpectedIs
<1> HIDE DEF B, bb
<1>5. Extended(m, K(bb, b), sides, g, bb, B(Hint(m.hp, m.status), m.index))
  BY <1>1, <1>3, <1>4 DEF Extended
<1> QED BY <1>2, <1>5, StepBuilder DEF B, bb

LEMMA StepReveal ==
  ASSUME NEW q, NEW bb, NEW b, NEW sides, NEW g,
         sides[q].active = IF PhazeIndex(bb) # Untold THEN PhazeIndex(bb) ELSE b[q].active
  PROVE  Advances(Said("reveal", q), K(bb, b), K(bb, b), sides, g)
<1> DEFINE m == Said("reveal", q)
<1>1. m.kind = "reveal" /\ m.party = q
  BY DEF Said
<1> HIDE DEF m
<1>2. FiledUnder(K(bb, b).action, K(bb, b).battle, q) = sides[q].active
  BY KIs DEF FiledUnder
<1>3. ByRevealing(m, K(bb, b), K(bb, b), sides)
  BY <1>1, <1>2 DEF ByRevealing
<1> QED BY <1>3 DEF Advances, m

-----------------------------------------------------------------------------
(* The same, one message at a time                                         *)

LEMMA PhazeIs ==
  ASSUME NEW selected, NEW executed, NEW miss, NEW damage, NEW status, NEW phazed,
         NEW contact, NEW flags, NEW p, NEW user, NEW other, NEW cured
  PROVE  /\ PhazeIndex(Bld(p, Used(selected, executed, miss, damage, status, phazed, contact,
             flags),
                           user, other, cured)) = phazed
         /\ Used(selected, executed, miss, damage, status, phazed, contact, flags) # NoResult
BY UsedIs

LEMMA StepDamaged ==
  ASSUME NEW p \in Parties, NEW cured, NEW u1, NEW u2, NEW o1, NEW o2, NEW hp, NEW status,
         NEW sel, NEW exe, exe \notin DamagesSelf,
         NEW miss, NEW dam, NEW st, NEW phz, NEW con, NEW flags, NEW b, NEW sides, NEW g
  PROVE  Advances(DamageLine("main effect", Other(p), hp, status),
                  K(Bld(p, Used(sel, exe, miss, dam, st, phz, con, flags),
                        Hint(u1, u2), Hint(o1, o2), cured), b),
                  K(Bld(p, Used(sel, exe, miss, hp, st, phz, con, flags),
                        Hint(u1, u2), Hint(hp, status), cured), b), sides, g)
<1>1. DamageLine("main effect", Other(p), hp, status) = Told3("damage", Other(p), hp, status)
  BY Lines
<1> QED BY <1>1, StepDamage

LEMMA StepSelfDamage ==
  ASSUME NEW p \in Parties, NEW cured, NEW u1, NEW u2, NEW o1, NEW o2, NEW hp, NEW status,
         NEW sel, NEW exe \in DamagesSelf,
         NEW miss, NEW dam, NEW st, NEW phz, NEW con, NEW flags, NEW b, NEW sides, NEW g
  PROVE  LET first == Bld(p, Used(sel, exe, miss, dam, st, phz, con, flags),
                          Hint(u1, u2), Hint(o1, o2), cured)
         IN  Advances(DamageLine("main effect", p, hp, status), K(first, b), K(first, b),
             sides, g)
<1>1. DamageLine("main effect", p, hp, status) = Told3("damage", p, hp, status)
  BY Lines
<1> QED BY <1>1, StepDamage

LEMMA StepSubstitute ==
  ASSUME NEW p \in Parties, NEW cured, NEW u1, NEW u2, NEW o1, NEW o2,
         NEW sel, NEW exe, NEW miss, NEW dam, NEW st, NEW phz, NEW con, NEW flags,
         NEW b, NEW sides, NEW g
  PROVE  Advances(Said("damage substitute", Other(p)),
                  K(Bld(p, Used(sel, exe, miss, dam, st, phz, con, flags),
                        Hint(u1, u2), Hint(o1, o2), cured), b),
                  K(Bld(p, Used(sel, exe, miss, "substitute", st, phz, con, flags),
                        Hint(u1, u2), Hint(o1, o2), cured), b), sides, g)
BY StepDamage

LEMMA StepConfused ==
  ASSUME NEW p \in Parties, NEW cured, NEW u1, NEW u2, NEW o1, NEW o2,
         NEW sel, NEW exe, NEW miss, NEW dam, NEW st, NEW phz, NEW con, NEW flags,
         "confuse" \notin flags, NEW b, NEW sides, NEW g
  PROVE  Advances(Said("start confusion", Other(p)),
                  K(Bld(p, Used(sel, exe, miss, dam, st, phz, con, flags),
                        Hint(u1, u2), Hint(o1, o2), cured), b),
                  K(Bld(p, Used(sel, exe, miss, dam, st, phz, con, flags \cup {"confuse"}),
                        Hint(u1, u2), Hint(o1, o2), cured), b), sides, g)
BY StepFlag

LEMMA StepRecoil ==
  ASSUME NEW p \in Parties, NEW cured, NEW u1, NEW u2, NEW o1, NEW o2, NEW hp, NEW status,
         NEW sel, NEW exe, NEW miss, NEW dam, NEW st, NEW phz, NEW con, NEW flags,
         "recoil" \notin flags, NEW b, NEW sides, NEW g
  PROVE  Advances(DamageLine("recoil", p, hp, status),
                  K(Bld(p, Used(sel, exe, miss, dam, st, phz, con, flags),
                        Hint(u1, u2), Hint(o1, o2), cured), b),
                  K(Bld(p, Used(sel, exe, miss, dam, st, phz, con, flags \cup {"recoil"}),
                        Hint(hp, status), Hint(o1, o2), cured), b), sides, g)
<1>1. DamageLine("recoil", p, hp, status) = Told3("recoil", p, hp, status)
  BY Lines
<1> QED BY <1>1, StepFlag

LEMMA StepOtherStatus ==
  ASSUME NEW p \in Parties, NEW cured, NEW u1, NEW u2, NEW o1, NEW o2, NEW status,
         NEW sel, NEW exe, exe \notin Phazing \cup ClearsTeamStatus \cup {Rest},
         NEW miss, NEW dam, NEW phz, NEW con, NEW flags, NEW b, NEW sides, NEW g
  PROVE  Advances(StatusLine("main effect", Other(p), status),
                  K(Bld(p, Used(sel, exe, miss, dam, Untold, phz, con, flags),
                        Hint(u1, u2), Hint(o1, o2), cured), b),
                  K(Bld(p, Used(sel, exe, miss, dam, status, phz, con, flags),
                        Hint(u1, u2), Hint(o1, status), cured), b), sides, g)
BY StepStatus

LEMMA StepRested ==
  ASSUME NEW p \in Parties, NEW cured, NEW u1, NEW u2, NEW o1, NEW o2, NEW status,
         NEW sel, NEW exe, exe = Rest,
         NEW miss, NEW dam, NEW phz, NEW con, NEW flags, NEW b, NEW sides, NEW g
  PROVE  Advances(StatusLine("move", p, status),
                  K(Bld(p, Used(sel, exe, miss, dam, Untold, phz, con, flags),
                        Hint(u1, u2), Hint(o1, o2), cured), b),
                  K(Bld(p, Used(sel, exe, miss, dam, Untold, phz, con, flags),
                        Hint(u1, status), Hint(o1, o2), cured), b), sides, g)
BY StepStatus

LEMMA StepTouched ==
  ASSUME NEW p \in Parties, NEW cured, NEW u1, NEW u2, NEW o1, NEW o2, NEW status,
         NEW sel, NEW exe, NEW miss, NEW dam, NEW con, NEW flags, NEW b, NEW sides, NEW g,
         b[Other(p)].active = sides[Other(p)].active
  PROVE  Advances(StatusLine("ability", p, status),
                  K(Bld(p, Used(sel, exe, miss, dam, Untold, Untold, con, flags),
                        Hint(u1, u2), Hint(o1, o2), cured), b),
                  K(Bld(p, Used(sel, exe, miss, dam, Untold, Untold, status, flags),
                        Hint(u1, status), Hint(o1, o2), cured), b), sides, g)
BY StepStatus

LEMMA StepHealed ==
  ASSUME NEW p \in Parties, NEW cured, NEW u1, NEW u2, NEW o1, NEW o2, NEW status,
             status = "clear",
         NEW sel, NEW exe \in ClearsTeamStatus, exe \notin Phazing \cup {Rest},
         NEW miss, NEW dam, NEW phz, NEW con, NEW flags, NEW b, NEW sides, NEW g,
         ~IsEndOfTurn(b, g), NEW m, m.kind = "status clear", m.party = p
  PROVE  Advances(m, K(Bld(p, Used(sel, exe, miss, dam, Untold, phz, con, flags),
                           Hint(u1, u2), Hint(o1, o2), cured), b),
                  K(Bld(p, Used(sel, exe, miss, dam, Untold, phz, con, flags),
                        Hint(u1, status), Hint(o1, o2), cured), b), sides, g)
BY StepStatus

LEMMA StepUserHP ==
  ASSUME NEW p \in Parties, NEW move, NEW cured, NEW u1, NEW u2, NEW o1, NEW o2,
         NEW hp, NEW status, NEW b, NEW sides, NEW g
  PROVE  Advances(DamageLine("miscellaneous", p, hp, status),
                  K(Bld(p, move, Hint(u1, u2), Hint(o1, o2), cured), b),
                  K(Bld(p, move, Hint(hp, status), Hint(o1, o2), cured), b), sides, g)
<1>1. DamageLine("miscellaneous", p, hp, status) = Told3("hp", p, hp, status)
  BY Lines
<1> QED BY <1>1, StepHP

LEMMA StepOtherHP ==
  ASSUME NEW p \in Parties, NEW move, NEW cured, NEW u1, NEW u2, NEW o1, NEW o2,
         NEW hp, NEW status, NEW b, NEW sides, NEW g
  PROVE  Advances(DamageLine("hazards", Other(p), hp, status),
                  K(Bld(p, move, Hint(u1, u2), Hint(o1, o2), cured), b),
                  K(Bld(p, move, Hint(u1, u2), Hint(hp, status), cured), b), sides, g)
<1>1. DamageLine("hazards", Other(p), hp, status) = Told3("hp", Other(p), hp, status)
  BY Lines
<1> QED BY <1>1, StepHP

-----------------------------------------------------------------------------
(* A Pokemon that may act                                                  *)

MInv ==
  /\ ServerOK(side, phase) /\ generation \in Generations
  /\ ~threw /\ ~misfiled
  /\ \E d : Runs(script, Client, d, side, generation) /\ Settled(d, side, phase)

CanAct(p, c, x, y, sides, g) ==
  /\ c = Cl(c.action, NoUpkeep, "unknown", c.battle, 0) /\ Sound(c) /\ Accepts(c)
  /\ Performed(c.battle, c.action) = BothSides(p, x, y)
  /\ sides = BothSides(p, sides[p], sides[Other(p)])
  /\ Matches(x, sides[p]) /\ Matches(y, sides[Other(p)])
  /\ ~x.down /\ ~x.moved /\ sides[p].owes
  /\ y.moved = ~sides[Other(p)].owes
  /\ y.pivoting => Alone(sides[Other(p)])
  /\ ~sides[p].pivots /\ ~sides[Other(p)].pivots
  /\ ~(c.action.kind = "move" /\ c.action.builder.party = p)
  /\ ~IsEndOfTurn(c.battle, g) /\ ~IsEndOfTurn(BothSides(p, x, y), g)
  /\ ~CuredByMove(c.action, c.battle, p)

LEMMA NotEnd ==
  ASSUME NEW p \in Parties, NEW b, NEW g \in Generations,
         ~IsDoneMoving(b, p), ~b[p].down, g = 1 => ~b[Other(p)].down
  PROVE  ~IsEndOfTurn(b, g)
<1> DEFINE ai == IsDoneMoving(b, "ai")
           foe == IsDoneMoving(b, "foe")
           aiDown == b["ai"].down
           foeDown == b["foe"].down
<1>1. g # 2 /\ g # 3
  BY GenerationsAssumption
<1>2. p = "ai" \/ p = "foe"
  BY DEF Parties
<1>3. Other("ai") = "foe" /\ Other("foe") = "ai"
  BY DEF Other, Parties
<1>4. CASE g = 1
  <2>1. IsEndOfTurn(b, g) => \/ ai /\ (foe \/ foeDown \/ aiDown)
                             \/ foe /\ (aiDown \/ foeDown)
    BY <1>1, <1>4 DEF IsEndOfTurn, IsFainted
  <2> HIDE DEF ai, foe, aiDown, foeDown
  <2>2. ~aiDown /\ ~foeDown
    BY <1>2, <1>3, <1>4 DEF aiDown, foeDown
  <2>3. ~ai \/ ~foe
    BY <1>2 DEF ai, foe
  <2> QED BY <2>1, <2>2, <2>3
<1>5. CASE g # 1
  <2>1. IsEndOfTurn(b, g) => (ai /\ (foe \/ foeDown)) \/ (foe /\ aiDown)
    BY <1>1, <1>5 DEF IsEndOfTurn, IsFainted
  <2>2. CASE p = "ai"
    BY <2>1, <2>2
  <2>3. CASE p = "foe"
    BY <2>1, <2>3
  <2> QED BY <1>2, <2>2, <2>3
<1> QED BY <1>4, <1>5

LEMMA AtRestSettled ==
  ASSUME MInv, script = <<>>
  PROVE  /\ Settled(Client, side, phase) /\ Sound(Client)
         /\ side \in [Parties -> SideRecord] /\ phase \in Phases
<1>1. PICK d : Runs(script, Client, d, side, generation) /\ Settled(d, side, phase)
  BY DEF MInv
<1>2. Client = d /\ Sound(Client)
  BY <1>1, RunsSound
<1> QED BY <1>1, <1>2 DEF MInv, ServerOK

LEMMA Acting ==
  ASSUME MInv, script = <<>>, phase \in {"switching", "moving"}, Thawing = {},
         NEW p \in Parties, MayAct(p)
  PROVE  \E x, y : CanAct(p, Client, x, y, side, generation)
<1> DEFINE o == Other(p)
           g == generation
           next == Performed(battle, action)
           x == next[p]
           y == next[o]
<1>1. o \in Parties /\ o # p
  BY TwoSides
<1>2. /\ Settled(Client, side, phase) /\ Sound(Client)
      /\ side \in [Parties -> SideRecord] /\ g \in Generations
  BY AtRestSettled DEF MInv
<1>3. /\ side[p].owes /\ side[p].active \in side[p].living
      /\ g = 1 => side[o].active \in side[o].living
  BY <1>1 DEF MayAct, Lives, Active
<1>4. phase # "over" /\ phase # "pivoting"
  OBVIOUS
<1>5. /\ upkeep = NoUpkeep /\ result = "unknown" /\ endings = 0
      /\ WellFormed(next) /\ ~PerformThrows(battle, action) /\ AllFollow(next, side)
      /\ InTurn(battle, action, side)
      /\ \A q \in Parties : ~side[q].pivots
      /\ action = Nothing \/ MovePending(action, side) \/ SwitchesPending(action, side)
  BY <1>2, <1>4, ClientIs DEF Settled
<1>6. Client = Cl(Client.action, NoUpkeep, "unknown", Client.battle, 0)
  BY <1>5, ClientIs DEF Client
<1>7. Accepts(Client)
  BY <1>5, ClientIs DEF Accepts
<1>8. next = BothSides(p, x, y) /\ side = BothSides(p, side[p], side[o])
  <2>1. next \in [Parties -> ClientRecord]
    BY <1>5 DEF WellFormed
  <2> HIDE DEF next
  <2> QED BY <1>2, <2>1, AsBothSides
<1>9. Matches(x, side[p]) /\ Matches(y, side[o])
  <2> HIDE DEF next
  <2> QED BY <1>1, <1>2, <1>5, MatchesAll
<1>10. /\ x.moved = ~side[p].owes /\ y.moved = ~side[o].owes
       /\ y.pivoting => Alone(side[o]) \/ Gone(side, p) \/ side[o].pivots
       /\ battle[p].moved => x.moved
       /\ battle[p].down => x.down
       /\ battle[o].down => y.down
  BY <1>1, <1>5, TwoSides DEF InTurn
<1> HIDE DEF next, x, y
<1>11. ~x.down /\ (g = 1 => ~y.down)
  BY <1>3, <1>9 DEF Matches, Follows
<1>12. ~x.moved /\ (y.pivoting => Alone(side[o]))
  BY <1>1, <1>3, <1>5, <1>10 DEF Gone
<1>13. ~(action.kind = "move" /\ action.builder.party = p)
  <2>1. CASE action = Nothing
    BY <2>1 DEF Nothing
  <2>2. CASE MovePending(action, side)
    BY <1>3, <2>2 DEF MovePending
  <2>3. CASE SwitchesPending(action, side)
    BY <2>3 DEF SwitchesPending
  <2> QED BY <1>5, <2>1, <2>2, <2>3
<1>14. ~CuredByMove(action, battle, p)
  BY <1>13 DEF CuredByMove
<1>15. ~IsEndOfTurn(battle, g)
  <2>1. ~IsDoneMoving(battle, p) /\ ~battle[p].down /\ (g = 1 => ~battle[o].down)
    BY <1>10, <1>11, <1>12 DEF IsDoneMoving
  <2> QED BY <1>2, <2>1, NotEnd
<1>16. ~IsEndOfTurn(BothSides(p, x, y), g)
  <2> DEFINE b == BothSides(p, x, y)
  <2>1. b[p] = x /\ b[o] = y
    BY BothSidesFacts
  <2> HIDE DEF b
  <2>2. ~IsDoneMoving(b, p) /\ ~b[p].down /\ (g = 1 => ~b[o].down)
    BY <1>11, <1>12, <2>1 DEF IsDoneMoving
  <2> QED BY <1>2, <2>2, NotEnd DEF b
<1>17. Performed(Client.battle, Client.action) = BothSides(p, x, y)
  BY <1>8, ClientIs DEF next
<1>18. CanAct(p, Client, x, y, side, g)
  BY <1>1, <1>2, <1>3, <1>5, <1>6, <1>7, <1>8, <1>9, <1>10, <1>11, <1>12, <1>13, <1>14,
     <1>15, <1>16, <1>17, ClientIs DEF CanAct
<1> QED BY <1>18

\* Within a turn, what has to hold for the client to be settled
LEMMA TurnSettles ==
  ASSUME NEW p \in Parties, NEW a, NEW b, WellFormed(b),
         NEW xx, NEW yy, NEW s, NEW t, NEW now \in {"switching", "moving"},
         Performed(b, a) = BothSides(p, xx, yy), ~PerformThrows(b, a),
         Matches(xx, s), Matches(yy, t),
         xx.moved = ~s.owes, yy.moved = ~t.owes,
         xx.pivoting => Alone(s) \/ t.living = {}, yy.pivoting => Alone(t),
         b[p].moved => xx.moved, b[Other(p)].moved => yy.moved,
         b[p].down => xx.down, b[Other(p)].down => yy.down,
         xx.moved \/ yy.moved,
         ~s.pivots, ~t.pivots,
         \/ SwitchesPending(a, BothSides(p, s, t))
         \/ now = "moving" /\ MovePending(a, BothSides(p, s, t))
  PROVE  /\ Settled(Cl(a, NoUpkeep, "unknown", b, 0), BothSides(p, s, t), now)
         /\ Sound(Cl(a, NoUpkeep, "unknown", b, 0))
         /\ ServerOK(BothSides(p, s, t), now)
<1> DEFINE o == Other(p)
           sides == BothSides(p, s, t)
           next == BothSides(p, xx, yy)
           c == Cl(a, NoUpkeep, "unknown", b, 0)
<1>1. /\ o \in Parties /\ o # p /\ Other(o) = p /\ \A q \in Parties : q = p \/ q = o
      /\ sides[p] = s /\ sides[o] = t /\ next[p] = xx /\ next[o] = yy
  BY TwoSides, BothSidesFacts
<1>2. WellFormed(next) /\ sides \in [Parties -> SideRecord] /\ AllFollow(next, sides)
  BY MatchesBoth
<1>3. c.action = a /\ c.upkeep = NoUpkeep /\ c.result = "unknown" /\ c.battle = b /\ c.endings = 0
  BY DEF Cl
<1> HIDE DEF o, sides, next, c
<1>4. Performed(b, a) = next
  BY DEF next
<1>5. InTurn(b, a, sides)
  <2>1. ASSUME NEW q \in Parties
        PROVE  /\ next[q].moved = ~sides[q].owes
               /\ next[q].pivoting => Alone(sides[q]) \/ Gone(sides, Other(q)) \/ sides[q].pivots
               /\ b[q].moved => next[q].moved
               /\ b[q].down => next[q].down
               /\ next[q].down => \E r \in Parties : next[r].moved
    <3>1. CASE q = p
      BY <1>1, <3>1 DEF Gone, o
    <3>2. CASE q = o
      BY <1>1, <3>2 DEF Gone, o
    <3> QED BY <1>1, <3>1, <3>2
  <2> QED BY <1>4, <2>1 DEF InTurn
<1>6. \A q \in Parties : ~sides[q].pivots
  BY <1>1
<1>7. SwitchesPending(a, sides) \/ (now = "moving" /\ MovePending(a, sides))
  BY DEF sides
<1>8. Settled(c, sides, now)
  BY <1>2, <1>3, <1>4, <1>5, <1>6, <1>7 DEF Settled
<1>9. a.kind \in {"nothing", "move", "switches", "hits self"}
  BY <1>7 DEF SwitchesPending, MovePending
<1>10. Sound(c)
  BY <1>9, SoundCl, NoUpkeepIs DEF c
<1> QED BY <1>2, <1>8, <1>10 DEF ServerOK, Phases, c, sides

-----------------------------------------------------------------------------
(* The sides after a move: the client's and the server's                   *)

FitsUser(X, S, T) ==
  /\ Matches(X, S)
  /\ X.moved /\ ~S.owes /\ ~S.pivots
  /\ X.pivoting => Alone(S) \/ T.living = {}
FitsOther(y, Y, T) ==
  /\ Matches(Y, T)
  /\ Y.moved = ~T.owes /\ ~T.pivots
  /\ y.moved => Y.moved
  /\ y.down => Y.down
  /\ Y.pivoting => Alone(T)

LEMMA Consts ==
  /\ Untold \notin HP /\ Untold \notin Status /\ Untold \notin Roster
  /\ "up" \in HP /\ "down" \in HP /\ "up" # "down"
  /\ {"clear", "sleep", "freeze", "burn"} = Status
BY RosterAssumption DEF HP, Status, Untold

LEMMA HurtUntold ==
  ASSUME NEW s
  PROVE  Hurt(s, Untold) = s
BY DEF Hurt

LEMMA HurtAgain ==
  ASSUME NEW s \in ClientRecord, NEW hp \in HP
  PROVE  Hurt(Hurt(s, hp), hp) = Hurt(s, hp)
<1> DEFINE v == (hp = "down")
<1>1. v \in BOOLEAN /\ hp # Untold
  BY Consts
<1>2. \A r : Hurt(r, hp) = [r EXCEPT !.down = v]
  BY <1>1 DEF Hurt
<1> HIDE DEF v
<1>3. ASSUME NEW e, e = [[s EXCEPT !.down = v] EXCEPT !.down = v]
      PROVE  e = [s EXCEPT !.down = v]
  BY <1>1, <1>3 DEF ClientRecord
<1> QED BY <1>2, <1>3

LEMMA ServerCommutes ==
  ASSUME NEW s \in SideRecord
  PROVE  /\ \A hp : Left(Acted(s), hp) = Acted(Left(s, hp))
         /\ \A status : With(Acted(s), status) = Acted(With(s, status))
         /\ \A hp : hp = "up" => Left(s, hp) = s
<1>1. ASSUME NEW hp
      PROVE  Left(Acted(s), hp) = Acted(Left(s, hp))
  <2>1. CASE hp = "up"
    BY <2>1 DEF Left
  <2>2. CASE hp # "up"
    <3>1. /\ Left(Acted(s), hp) = [Acted(s) EXCEPT !.living = Acted(s).living \ {Acted(s).active}]
          /\ Left(s, hp) = [s EXCEPT !.living = s.living \ {s.active}]
      BY <2>2 DEF Left
    <3>2. Acted(s).living = s.living /\ Acted(s).active = s.active
      BY DEF Acted, SideRecord
    <3> DEFINE v == s.living \ {s.active}
    <3>3. Left(Acted(s), hp) = [Acted(s) EXCEPT !.living = v] /\ Left(s,
              hp) = [s EXCEPT !.living = v]
      BY <3>1, <3>2
    <3> HIDE DEF v
    <3>4. ASSUME NEW e, e = [[s EXCEPT !.owes = FALSE] EXCEPT !.living = v]
          PROVE  e = [[s EXCEPT !.living = v] EXCEPT !.owes = FALSE]
      BY <3>4 DEF SideRecord
    <3> QED BY <3>3, <3>4 DEF Acted
  <2> QED BY <2>1, <2>2
<1>2. ASSUME NEW status
      PROVE  With(Acted(s), status) = Acted(With(s, status))
  <2> DEFINE v == [s.status EXCEPT ![s.active] = status]
  <2>1. With(s, status) = [s EXCEPT !.status = v]
    BY DEF With
  <2>2. Acted(s).active = s.active /\ Acted(s).status = s.status
    BY DEF Acted, SideRecord
  <2>3. With(Acted(s), status) = [Acted(s) EXCEPT !.status = v]
    BY <2>2 DEF With
  <2> HIDE DEF v
  <2>4. ASSUME NEW e, e = [[s EXCEPT !.owes = FALSE] EXCEPT !.status = v]
        PROVE  e = [[s EXCEPT !.status = v] EXCEPT !.owes = FALSE]
    BY <2>4 DEF SideRecord
  <2> QED BY <2>1, <2>3, <2>4 DEF Acted
<1> QED BY <1>1, <1>2 DEF Left

LEMMA HurtKeeps ==
  ASSUME NEW s, NEW t, Matches(s, t), ~s.down, NEW hp \in HP
  PROVE  /\ Matches(Hurt(s, hp), Left(t, hp))
         /\ Hurt(s, hp).moved = s.moved /\ Hurt(s, hp).pivoting = s.pivoting
         /\ Left(t, hp).owes = t.owes /\ Left(t, hp).pivots = t.pivots
<1>1. hp # Untold
  BY Consts
<1>2. Hurt(s, hp) = [s EXCEPT !.down = (hp = "down")]
  BY <1>1 DEF Hurt
<1>3. CASE hp = "up"
  BY <1>2, <1>3 DEF Matches, Follows, Left, ClientRecord, SideRecord
<1>4. CASE hp = "down"
  BY <1>2, <1>4 DEF Matches, Follows, Left, ClientRecord, SideRecord
<1> QED BY <1>3, <1>4 DEF HP

LEMMA AloneIsKept ==
  ASSUME NEW t \in SideRecord, Alone(t)
  PROVE  (\A hp : Alone(Left(t, hp))) /\ (\A status : Alone(With(t, status)))
BY DEF Alone, Left, With, SideRecord

LEMMA ClearedMatches ==
  ASSUME NEW s, NEW t, Matches(s, t)
  PROVE  /\ Matches(Cleared(s), [t EXCEPT !.status = [q \in Roster |-> "clear"]])
         /\ Cleared(s).active = s.active /\ Cleared(s).down = s.down
         /\ Cleared(s).moved = s.moved /\ Cleared(s).pivoting = s.pivoting
         /\ Cleared(s).status[s.active] = "clear"
<1> DEFINE v == [q \in Roster |-> "clear"]
           z == [t EXCEPT !.status = v]
<1>1. v \in [Roster -> Status] /\ \A q \in Roster : v[q] = "clear"
  BY Consts
<1>2. s \in ClientRecord /\ t \in SideRecord /\ s.active \in Roster /\ t.living \subseteq Roster
  BY DEF Matches, ClientRecord, SideRecord
<1>3. Cleared(s) = [s EXCEPT !.status = v]
  BY DEF Cleared
<1> HIDE DEF v
<1>4. /\ z \in SideRecord /\ z.active = t.active /\ z.living = t.living /\ z.status = v
  BY <1>1, <1>2 DEF SideRecord
<1>5. /\ Cleared(s) \in ClientRecord /\ Cleared(s).active = s.active /\ Cleared(s).down = s.down
      /\ Cleared(s).moved = s.moved /\ Cleared(s).pivoting = s.pivoting
      /\ Cleared(s).team = s.team /\ Cleared(s).status = v
  BY <1>1, <1>2, <1>3 DEF ClientRecord
<1> HIDE DEF z
<1>6. Matches(Cleared(s), z)
  BY <1>1, <1>2, <1>4, <1>5 DEF Matches, Follows
<1> QED BY <1>1, <1>2, <1>5, <1>6 DEF v, z

\* The user: it has moved, and may have been hurt or statused by that.
LEMMA UserFits ==
  ASSUME NEW x, NEW s, Matches(x, s), ~x.down, ~s.pivots, NEW T
  PROVE  /\ FitsUser(Done(x, No), Acted(s), T)
         /\ \A hp \in HP : FitsUser(Hurt(Done(x, No), hp), Left(Acted(s), hp), T)
         /\ \A status \in Status :
              /\ FitsUser(Done(Marked(x, status), No), With(Acted(s), status), T)
              /\ FitsUser(Hurt(Done(Marked(x, status), No), "up"), With(Acted(s), status), T)
<1>1. s \in SideRecord /\ x \in ClientRecord
  BY DEF Matches
<1>2. /\ Matches(Done(x, No), Acted(s)) /\ ~Done(x, No).down
      /\ Done(x, No).moved /\ ~Done(x, No).pivoting
      /\ ~Acted(s).owes /\ ~Acted(s).pivots
  BY DoneMatches, NoAndYes
<1>3. FitsUser(Done(x, No), Acted(s), T)
  BY <1>2 DEF FitsUser
<1>4. ASSUME NEW hp \in HP
      PROVE  FitsUser(Hurt(Done(x, No), hp), Left(Acted(s), hp), T)
  <2> DEFINE z == Done(x, No)
             u == Acted(s)
  <2> HIDE DEF z, u
  <2>1. Matches(z, u) /\ ~z.down /\ z.moved /\ ~z.pivoting /\ ~u.owes /\ ~u.pivots
    BY <1>2 DEF z, u
  <2>2. /\ Matches(Hurt(z, hp), Left(u, hp)) /\ Hurt(z, hp).moved = z.moved
        /\ Hurt(z, hp).pivoting = z.pivoting
        /\ Left(u, hp).owes = u.owes /\ Left(u, hp).pivots = u.pivots
    BY <2>1, HurtKeeps
  <2> QED BY <2>1, <2>2 DEF FitsUser, z, u
<1>5. ASSUME NEW status \in Status
      PROVE  /\ FitsUser(Done(Marked(x, status), No), With(Acted(s), status), T)
             /\ FitsUser(Hurt(Done(Marked(x, status), No), "up"), With(Acted(s), status), T)
  <2> DEFINE z == Marked(x, status)
             u == With(s, status)
  <2>1. Matches(z, u) /\ z.down = x.down /\ u.pivots = s.pivots
    BY MarkedMatches
  <2>2. With(Acted(s), status) = Acted(u)
    BY <1>1, ServerCommutes
  <2> HIDE DEF z, u
  <2>3. /\ Matches(Done(z, No), Acted(u)) /\ ~Done(z, No).down
        /\ Done(z, No).moved /\ ~Done(z, No).pivoting
        /\ ~Acted(u).owes /\ ~Acted(u).pivots
    BY <2>1, DoneMatches, NoAndYes
  <2> DEFINE z1 == Done(z, No)
             u1 == Acted(u)
  <2>4. u1 \in SideRecord
    BY <2>3 DEF Matches
  <2> HIDE DEF z1, u1
  <2>5. /\ Matches(z1, u1) /\ ~z1.down /\ z1.moved /\ ~z1.pivoting /\ ~u1.owes /\ ~u1.pivots
    BY <2>3 DEF z1, u1
  <2>6. Left(u1, "up") = u1
    BY DEF Left
  <2>7. /\ Matches(Hurt(z1, "up"), Left(u1, "up")) /\ Hurt(z1, "up").moved = z1.moved
        /\ Hurt(z1, "up").pivoting = z1.pivoting
    BY <2>5, Consts, HurtMatches
  <2>8. FitsUser(z1, u1, T) /\ FitsUser(Hurt(z1, "up"), u1, T)
    BY <2>5, <2>6, <2>7 DEF FitsUser
  <2> QED BY <2>2, <2>8 DEF z, u, z1, u1
<1> QED BY <1>3, <1>4, <1>5

\* The other side: it is hit, put to sleep or frozen.
LEMMA OtherFits ==
  ASSUME NEW y, NEW t, FitsOther(y, y, t)
  PROVE  /\ ~y.down => \A hp \in HP : /\ FitsOther(y, Hurt(y, hp), Left(t, hp))
                                      /\ FitsOther(y, Hurt(Hurt(y, hp), hp), Left(t, hp))
         /\ \A status \in Status : FitsOther(y, Marked(y, status), With(t, status))
<1>1. /\ Matches(y, t) /\ y \in ClientRecord /\ t \in SideRecord
      /\ y.moved = ~t.owes /\ ~t.pivots /\ (y.pivoting => Alone(t))
  BY DEF FitsOther, Matches
<1>2. ASSUME ~y.down, NEW hp \in HP
      PROVE  FitsOther(y, Hurt(y, hp), Left(t, hp)) /\ FitsOther(y, Hurt(Hurt(y, hp), hp),
                 Left(t, hp))
  <2>1. /\ Matches(Hurt(y, hp), Left(t, hp)) /\ Hurt(y, hp).moved = y.moved
        /\ Hurt(y, hp).pivoting = y.pivoting
        /\ Left(t, hp).owes = t.owes /\ Left(t, hp).pivots = t.pivots
    BY <1>1, <1>2, HurtKeeps
  <2>2. FitsOther(y, Hurt(y, hp), Left(t, hp))
    BY <1>1, <1>2, <2>1, AloneIsKept DEF FitsOther
  <2> QED BY <1>1, <2>2, HurtAgain
<1>3. ASSUME NEW status \in Status
      PROVE  FitsOther(y, Marked(y, status), With(t, status))
  <2>1. /\ Matches(Marked(y, status), With(t, status)) /\ Marked(y, status).moved = y.moved
        /\ Marked(y, status).down = y.down /\ Marked(y, status).pivoting = y.pivoting
        /\ With(t, status).owes = t.owes /\ With(t, status).pivots = t.pivots
    BY <1>1, MarkedMatches
  <2> QED BY <1>1, <2>1, AloneIsKept DEF FitsOther
<1> QED BY <1>2, <1>3

\* What is told of a Pokemon is what has become of it.
LEMMA ToldRightly ==
  ASSUME NEW z, NEW hp, NEW status,
         \/ status = Untold
         \/ status = z.status[z.active]
         \/ hp = "down"
  PROVE  ~Differs(z, Hint(hp, status))
BY HintIs DEF Differs

LEMMA CanActFacts ==
  ASSUME NEW p \in Parties, NEW c, NEW x, NEW y, NEW sides, NEW g,
         CanAct(p, c, x, y, sides, g)
  PROVE  LET s == sides[p]
             t == sides[Other(p)]
             b == BothSides(p, x, y)
         IN  /\ Sound(c) /\ Accepts(c) /\ WellFormed(b) /\ \A nb : Sound(K(nb, b))
             /\ c.upkeep = NoUpkeep /\ c.result = "unknown" /\ c.endings = 0
             /\ Performed(c.battle, c.action) = b
             /\ b[p] = x /\ b[Other(p)] = y
             /\ Matches(x, s) /\ Matches(y, t) /\ ~x.down /\ ~x.flinched /\ ~s.pivots
             /\ s \in SideRecord /\ t \in SideRecord /\ x \in ClientRecord /\ y \in ClientRecord
             /\ x.active = s.active /\ y.active = t.active /\ y.active # Untold
             /\ x.status[x.active] = s.status[s.active]
             /\ s.status[s.active] \in Status /\ t.status[t.active] \in Status
             /\ t.active \in t.living => ~y.down /\ y.status[y.active] = t.status[t.active]
             /\ FitsOther(y, y, t)
<1> DEFINE s == sides[p]
           t == sides[Other(p)]
           b == BothSides(p, x, y)
<1>1. /\ Sound(c) /\ Accepts(c) /\ c = Cl(c.action, NoUpkeep, "unknown", c.battle, 0)
      /\ Performed(c.battle, c.action) = b /\ Matches(x, s) /\ Matches(y, t)
      /\ ~x.down /\ ~s.pivots /\ ~t.pivots /\ y.moved = ~t.owes /\ (y.pivoting => Alone(t))
  BY DEF CanAct
<1>2. b[p] = x /\ b[Other(p)] = y
  BY BothSidesFacts
<1> HIDE DEF s, t
<1>3. WellFormed(b)
  BY <1>1, MatchesBoth
<1> HIDE DEF b
<1>4. \A nb : Sound(K(nb, b))
  BY <1>3, SoundK
<1>5. c.upkeep = NoUpkeep /\ c.result = "unknown" /\ c.endings = 0
  <2> DEFINE a == c.action
             w == c.battle
  <2> HIDE DEF a, w
  <2>1. c = Cl(a, NoUpkeep, "unknown", w, 0)
    BY <1>1 DEF a, w
  <2> QED BY <2>1 DEF Cl
<1>6. /\ x \in ClientRecord /\ y \in ClientRecord /\ s \in SideRecord /\ t \in SideRecord
      /\ Follows(x, s) /\ Follows(y, t)
  BY <1>1 DEF Matches
<1>11. ~x.flinched
  BY <1>6 DEF ClientRecord, CanAct
<1>7. /\ x.active = s.active /\ y.active = t.active /\ s.active \in s.living
      /\ x.status[x.active] = s.status[s.active]
      /\ t.active \in t.living => ~y.down /\ y.status[y.active] = t.status[t.active]
  <2>1. x.active = s.active /\ \A q \in s.living : x.status[q] = s.status[q]
    BY <1>6 DEF Follows
  <2>2. y.active = t.active /\ \A q \in t.living : y.status[q] = t.status[q]
    BY <1>6 DEF Follows
  <2>3. s.active \in s.living /\ (t.active \in t.living => ~y.down)
    BY <1>1, <1>6 DEF Follows
  <2> QED BY <2>1, <2>2, <2>3
<1>8. y.active # Untold
  BY <1>6, Consts DEF ClientRecord
<1>9. s.status[s.active] \in Status /\ t.status[t.active] \in Status
  BY <1>6 DEF SideRecord
<1>10. FitsOther(y, y, t)
  BY <1>1 DEF FitsOther
<1> QED BY <1>1, <1>2, <1>3, <1>4, <1>5, <1>6, <1>7, <1>8, <1>9, <1>10, <1>11 DEF s, t, b

Proceeds(lines, c, sides, now, g) ==
  \E d : Runs(lines, c, d, sides, g) /\ Settled(d, sides, now) /\ ServerOK(sides, now)

\* A completed move settles the client, however its messages came.
LEMMA MoveProceeds ==
  ASSUME NEW p \in Parties, NEW c, NEW x, NEW y, NEW sides, NEW g,
         CanAct(p, c, x, y, sides, g),
         NEW move, NEW cured, NEW u1, NEW u2, NEW o1, NEW o2, move # NoResult,
         NEW xx, NEW yy,
         Executed(BothSides(p, x, y), Bld(p, move, Hint(u1, u2), Hint(o1, o2), cured))
           = BothSides(p, xx, yy),
         PhazeIndex(Bld(p, move, Hint(u1, u2), Hint(o1, o2), cured)) # y.active,
         ~Differs(xx, Hint(u1, u2)), ~Differs(yy, Hint(o1, o2)),
         NEW S, NEW T, FitsUser(Hurt(xx, u1), S, T), FitsOther(y, Hurt(yy, o1), T),
         NEW lines,
         Runs(lines, c, K(Bld(p, move, Hint(u1, u2), Hint(o1, o2), cured), BothSides(p, x, y)),
              BothSides(p, S, T), g)
  PROVE  Proceeds(lines, c, BothSides(p, S, T), "moving", g)
<1> DEFINE m == Bld(p, move, Hint(u1, u2), Hint(o1, o2), cured)
           b == BothSides(p, x, y)
           a == MoveBuilder(m)
           X == Hurt(xx, u1)
           Y == Hurt(yy, o1)
           after == BothSides(p, S, T)
<1>1. ~UseMoveThrows(b, m) /\ UsesMove(b, m) = BothSides(p, X, Y)
  BY CompletedMove, CanActFacts
<1>2. Completes(m) /\ m.party = p
  BY DEF Bld, Completes
<1>3. WellFormed(b) /\ b[p] = x /\ b[Other(p)] = y /\ ~x.down /\ ~x.moved
  BY CanActFacts DEF CanAct
<1>4. after[p] = S
  BY BothSidesFacts
<1>5. a.kind = "move" /\ a.builder = m
  BY DEF MoveBuilder
<1>6. K(m, b) = Cl(a, NoUpkeep, "unknown", b, 0)
  BY DEF K
<1>9. Runs(lines, c, K(m, b), after, g)
  OBVIOUS
<1> HIDE DEF m, b, a, X, Y
<1>7. Performed(b, a) = BothSides(p, X, Y) /\ ~PerformThrows(b, a)
  BY <1>1, <1>2, <1>5 DEF Performed, PerformThrows
<1>8. FitsUser(X, S, T) /\ FitsOther(y, Y, T)
  BY DEF X, Y
<1> HIDE DEF after
<1>10. MovePending(a, after)
  BY <1>2, <1>4, <1>5, <1>8 DEF MovePending, FitsUser
<1>11. /\ Settled(Cl(a, NoUpkeep, "unknown", b, 0), after, "moving")
       /\ ServerOK(after, "moving")
  BY <1>3, <1>7, <1>8, <1>10, TurnSettles DEF FitsUser, FitsOther, after
<1> QED BY <1>6, <1>9, <1>11 DEF Proceeds, after, b, m

-----------------------------------------------------------------------------
(* How an action begins, and what becomes of the two sides                 *)

None == Hint(Untold, Untold)

LEMMA Begins ==
  ASSUME NEW p \in Parties, NEW c, NEW x, NEW y, NEW sides, NEW g,
         CanAct(p, c, x, y, sides, g),
         NEW m, NEW next, Started(m, c, g, next), ~next.threw, NEW after
  PROVE  Advances(m, c, K(next, BothSides(p, x, y)), after, g)
<1>1. Then(c, MoveBuilder(next)) = K(next, BothSides(p, x, y))
  BY CanActFacts DEF Then, K
<1>2. Accepts(c)
  BY CanActFacts
<1>3. ByStarting(m, c, K(next, BothSides(p, x, y)), g)
  BY <1>1, <1>2 DEF ByStarting
<1> QED BY <1>3 DEF Advances

LEMMA BeginsMove ==
  ASSUME NEW p \in Parties, NEW c, NEW x, NEW y, NEW sides, NEW g,
         CanAct(p, c, x, y, sides, g), NEW name, NEW missed, NEW after
  PROVE  Advances(MoveLine(p, name, missed), c,
                  K(Bld(p, Fresh(name, missed), None, None, No), BothSides(p, x, y)), after, g)
<1> DEFINE next == Bld(p, Fresh(name, missed), None, None, No)
           m == MoveLine(p, name, missed)
<1>1. next = UseMove(MakeBuilder(p), name, missed)
  <2>1. MakeBuilder(p) = Bld(p, NoResult, None, None, No)
    BY MakeBuilderIs DEF None
  <2> QED BY <2>1, FirstMoveIs
<1>2. m.kind = "move" /\ m.party = p /\ m.move = name /\ m.miss = missed
  BY DEF MoveLine
<1>3. ~next.threw
  BY BldIs
<1>4. ~(c.action.kind = "move" /\ c.action.builder.party = p)
  BY DEF CanAct
<1> HIDE DEF next, m
<1>5. Started(m, c, g, next)
  BY <1>1, <1>2, <1>4 DEF Started
<1> QED BY <1>3, <1>5, Begins DEF next, m

LEMMA BeginsCant ==
  ASSUME NEW p \in Parties, NEW c, NEW x, NEW y, NEW sides, NEW g,
         CanAct(p, c, x, y, sides, g), NEW reason, NEW after
  PROVE  Advances(CantLine(p, reason), c,
                  K(Bld(p, Hindrance(reason), None, None, No), BothSides(p, x, y)), after, g)
<1> DEFINE next == Bld(p, Hindrance(reason), None, None, No)
           m == CantLine(p, reason)
<1>1. /\ reason = "still asleep" => StillAsleep(MakeBuilder(p)) = next
      /\ SetMoveState(MakeBuilder(p), Hindrance(reason)) = next
  BY FreshStatus DEF None
<1>2. m.kind = "cant" /\ m.party = p /\ m.reason = reason
  BY DEF CantLine
<1>3. ~next.threw
  BY BldIs
<1> HIDE DEF next, m
<1>5. Started(m, c, g, next)
  BY <1>1, <1>2 DEF Started
<1> QED BY <1>3, <1>5, Begins DEF next, m

LEMMA BeginsCure ==
  ASSUME NEW p \in Parties, NEW c, NEW x, NEW y, NEW sides, NEW g,
         CanAct(p, c, x, y, sides, g), NEW after,
         NEW m, m.kind = "status clear", m.party = p, m.status \in {"freeze", "sleep"}
  PROVE  LET b == BothSides(p, x, y)
             told == Hint(Untold, "clear")
         IN  IF m.status = "sleep" /\ g = 1
             THEN Advances(m, c, K(Bld(p, Hindrance("awakening"), told, None, Yes), b), after, g)
             ELSE Advances(m, c, K(Bld(p, NoResult, told, None, Yes), b), after, g)
<1> DEFINE told == Hint(Untold, "clear")
           n1 == Bld(p, Hindrance("awakening"), told, None, Yes)
           n2 == Bld(p, NoResult, told, None, Yes)
<1>1. /\ Thaw(MakeBuilder(p)) = n2
      /\ g # 1 => Awaken(MakeBuilder(p), g) = n2
      /\ g = 1 => Awaken(MakeBuilder(p), g) = n1
  BY FreshStatus DEF None
<1>2. ~n1.threw /\ ~n2.threw
  BY BldIs
<1>3. ~IsEndOfTurn(c.battle, g) /\ ~CuredByMove(c.action, c.battle, p)
  BY DEF CanAct
<1> HIDE DEF n1, n2
<1>4. m.status = "sleep" /\ g = 1 => Started(m, c, g, n1)
  BY <1>1, <1>3 DEF Started
<1>5. ~(m.status = "sleep" /\ g = 1) => Started(m, c, g, n2)
  BY <1>1, <1>3 DEF Started
<1>6. CASE m.status = "sleep" /\ g = 1
  BY <1>2, <1>4, <1>6, Begins DEF n1
<1>7. CASE ~(m.status = "sleep" /\ g = 1)
  BY <1>2, <1>5, <1>7, Begins DEF n2
<1> QED BY <1>6, <1>7

LEMMA UserRight ==
  ASSUME NEW x, NEW s, Matches(x, s), ~x.down, ~s.pivots, NEW T
  PROVE  /\ ~Differs(Done(x, No), None)
         /\ FitsUser(Hurt(Done(x, No), Untold), Acted(s), T)
<1>1. ~Differs(Done(x, No), None)
  BY ToldRightly DEF None
<1> QED BY <1>1, HurtUntold, UserFits

LEMMA OtherRight ==
  ASSUME NEW y, NEW t, FitsOther(y, y, t)
  PROVE  ~Differs(y, None) /\ FitsOther(y, Hurt(y, Untold), t)
<1>1. ~Differs(y, None)
  BY ToldRightly DEF None
<1> QED BY <1>1, HurtUntold

LEMMA StruckRight ==
  ASSUME NEW y, NEW t, FitsOther(y, y, t), ~y.down, NEW hp \in HP,
         NEW status, status = y.status[y.active]
  PROVE  /\ ~Differs(Hurt(y, hp), Hint(hp, status))
         /\ FitsOther(y, Hurt(Hurt(y, hp), hp), Left(t, hp))
<1>1. y \in ClientRecord
  BY DEF FitsOther, Matches
<1>2. Hurt(y, hp).status = y.status /\ Hurt(y, hp).active = y.active
  BY <1>1 DEF Hurt, ClientRecord
<1>3. ~Differs(Hurt(y, hp), Hint(hp, status))
  BY <1>2, ToldRightly
<1> QED BY <1>3, OtherFits

LEMMA StatusRight ==
  ASSUME NEW z, NEW t, Matches(z, t), NEW status \in Status, NEW hp
  PROVE  /\ ~Differs(Marked(z, status), Hint(hp, status))
         /\ ~Differs(Done(Marked(z, status), No), Hint(hp, status))
<1>1. Marked(z, status).status[Marked(z, status).active] = status
  BY MarkedMatches DEF Matches
<1>2. Matches(Marked(z, status), With(t, status))
  BY MarkedMatches
<1> DEFINE w == Marked(z, status)
<1> HIDE DEF w
<1>3. Matches(w, With(t, status))
  BY <1>2 DEF w
<1>4. Done(w, No).status = w.status /\ Done(w, No).active = w.active
  BY <1>3, DoneMatches, NoAndYes
<1>5. w.status[w.active] = status
  BY <1>1 DEF w
<1> QED BY <1>4, <1>5, ToldRightly DEF w

LEMMA MoveFacts ==
  /\ "hit" \notin Phazing \cup DamagesSelf \cup ClearsTeamStatus \cup Pivoting
              \cup Thawing \cup Startling \cup {Rest}
  /\ "ice" \notin Phazing \cup DamagesSelf \cup ClearsTeamStatus \cup Pivoting
              \cup Thawing \cup Startling \cup {Rest}
  /\ "spore" \notin Phazing \cup DamagesSelf \cup ClearsTeamStatus \cup Pivoting
                \cup Thawing \cup Startling \cup {Rest}
  /\ "confuse" \notin Phazing \cup DamagesSelf \cup ClearsTeamStatus \cup Pivoting
                  \cup Thawing \cup Startling \cup {Rest}
  /\ "rest" \notin Phazing \cup DamagesSelf \cup ClearsTeamStatus \cup Pivoting
               \cup Thawing \cup Startling /\ "rest" = Rest
  /\ "heal_bell" \notin Phazing \cup DamagesSelf \cup Pivoting \cup Thawing
                    \cup Startling \cup {Rest}
  /\ "heal_bell" \in ClearsTeamStatus
  /\ "substitute" \notin Phazing \cup ClearsTeamStatus \cup Pivoting \cup Thawing
                     \cup Startling \cup {Rest}
  /\ "substitute" \in DamagesSelf
  /\ "roar" \notin DamagesSelf \cup ClearsTeamStatus \cup Pivoting \cup Thawing
               \cup Startling \cup {Rest} /\ "roar" \in Phazing
  /\ "u_turn" \notin Phazing \cup DamagesSelf \cup ClearsTeamStatus \cup Thawing
                 \cup Startling \cup {Rest}
  /\ "u_turn" \in Pivoting
  /\ "sleep_talk" \in UsableAsleep
  /\ "fake_out" \notin Phazing \cup DamagesSelf \cup ClearsTeamStatus
                   \cup Pivoting \cup Thawing \cup {Rest}
  /\ "fake_out" \in Startling
BY MovesAssumption DEF Moves, Pivoting, Startling

-----------------------------------------------------------------------------
(* The events of a turn                                                    *)

LEMMA HurtUp ==
  ASSUME NEW y \in ClientRecord, ~y.down
  PROVE  Hurt(y, "up") = y
<1> DEFINE v == ("up" = "down")
<1>1. v \in BOOLEAN /\ ~v
  OBVIOUS
<1>2. Hurt(y, "up") = [y EXCEPT !.down = v]
  BY Consts DEF Hurt
<1> HIDE DEF v
<1>3. ASSUME NEW e, e = [y EXCEPT !.down = v]
      PROVE  e = y
  <2>1. y.down = v
    BY <1>1 DEF ClientRecord
  <2> QED BY <1>3, <2>1 DEF ClientRecord
<1> QED BY <1>2, <1>3

LEMMA NoPivot ==
  ASSUME NEW move, move \notin Pivoting, NEW missed
  PROVE  Turns(move, missed) = No
BY DEF Turns

LEMMA NotHurt ==
  ASSUME NEW y, NEW missed, NEW dam, dam \notin HP
  PROVE  Struck(y, missed, dam) = y
BY DEF Struck

LEMMA IsHurt ==
  ASSUME NEW y, NEW dam \in HP
  PROVE  Struck(y, No, dam) = Hurt(y, dam)
BY DEF Struck, No

LEMMA WokenIs ==
  ASSUME NEW x
  PROVE  Woken(x, No) = x /\ Woken(x, Yes) = Marked(x, "clear")
BY DEF Woken, No, Yes

LEMMA PlainMoveIs ==
  ASSUME NEW p \in Parties, NEW x, NEW y, ~x.flinched,
         NEW cured \in BOOLEAN, NEW miss \in BOOLEAN,
         NEW user, NEW other, NEW sel, NEW exe, NEW dam, NEW flags,
         exe \notin {Rest} \cup ClearsTeamStatus \cup Pivoting, exe \notin Thawing \cup Startling
  PROVE  Executed(BothSides(p, x, y),
                  Bld(p, Used(sel, exe, miss, dam, Untold, Untold, Untold, flags), user, other,
                      cured))
           = BothSides(p, Done(Woken(x, cured), No), Struck(y, miss, dam))
<1>1. Turns(exe, miss) = No
  BY NoPivot
<1>2. UserAfter(Woken(x, cured), exe, miss, dam, Untold, Untold, Untold) = Woken(x, cured)
  BY DEF UserAfter, Recovered
<1>3. OtherAfter(Struck(y, miss, dam), exe, miss, Untold, Untold) = Struck(y, miss, dam)
  BY DEF OtherAfter
<1> QED BY <1>1, <1>2, <1>3, ExecutedIs

LEMMA StatusMoveIs ==
  ASSUME NEW p \in Parties, NEW x, NEW y, ~x.flinched,
         NEW cured \in BOOLEAN, NEW miss \in BOOLEAN, ~miss,
         NEW user, NEW other, NEW sel, NEW exe, NEW dam, NEW st, NEW flags,
         exe \notin Pivoting, st # Untold, exe \notin Thawing \cup Startling
  PROVE  Executed(BothSides(p, x, y),
                  Bld(p, Used(sel, exe, miss, dam, st, Untold, Untold, flags), user, other,
                      cured))
           = BothSides(p, Done(Woken(x, cured), No), Marked(Struck(y, miss, dam), st))
<1>1. Turns(exe, miss) = No
  BY NoPivot
<1>2. UserAfter(Woken(x, cured), exe, miss, dam, st, Untold, Untold) = Woken(x, cured)
  BY DEF UserAfter, Recovered
<1>3. OtherAfter(Struck(y, miss, dam), exe, miss, st, Untold) = Marked(Struck(y, miss, dam), st)
  BY DEF OtherAfter
<1> QED BY <1>1, <1>2, <1>3, ExecutedIs

LEMMA PhazingMoveIs ==
  ASSUME NEW p \in Parties, NEW x, NEW y, ~x.flinched,
         NEW cured \in BOOLEAN, NEW miss \in BOOLEAN, ~miss,
         NEW user, NEW other, NEW sel, NEW exe, NEW dam, NEW st, NEW phz, NEW flags,
         exe \notin Pivoting, exe \notin Thawing \cup Startling, phz # Untold
  PROVE  Executed(BothSides(p, x, y),
                  Bld(p, Used(sel, exe, miss, dam, st, phz, Untold, flags), user, other, cured))
           = BothSides(p, Done(Woken(x, cured), No), Came(Struck(y, miss, dam), phz))
<1>1. Turns(exe, miss) = No
  BY NoPivot
<1>2. UserAfter(Woken(x, cured), exe, miss, dam, st, phz, Untold) = Woken(x, cured)
  BY DEF UserAfter, Recovered
<1>3. OtherAfter(Struck(y, miss, dam), exe, miss, st, phz) = Came(Struck(y, miss, dam), phz)
  BY DEF OtherAfter
<1> QED BY <1>1, <1>2, <1>3, ExecutedIs

LEMMA RestingMoveIs ==
  ASSUME NEW p \in Parties, NEW x, NEW y, ~x.flinched,
         NEW cured \in BOOLEAN, NEW miss \in BOOLEAN, ~miss,
         NEW user, NEW other, NEW sel, NEW exe, NEW dam, NEW flags,
         exe \notin Pivoting, exe \notin Thawing \cup Startling, exe = Rest
  PROVE  Executed(BothSides(p, x, y),
                  Bld(p, Used(sel, exe, miss, dam, Untold, Untold, Untold, flags), user, other,
                      cured))
           = BothSides(p, Done(Marked(Woken(x, cured), "sleep"), No), Struck(y, miss, dam))
<1>1. Turns(exe, miss) = No
  BY NoPivot
<1>2. UserAfter(Woken(x, cured), exe, miss, dam, Untold, Untold, Untold) = Marked(Woken(x,
          cured), "sleep")
  BY DEF UserAfter, Recovered
<1>3. OtherAfter(Struck(y, miss, dam), exe, miss, Untold, Untold) = Struck(y, miss, dam)
  BY DEF OtherAfter
<1> QED BY <1>1, <1>2, <1>3, ExecutedIs

LEMMA HealingMoveIs ==
  ASSUME NEW p \in Parties, NEW x, NEW y, ~x.flinched,
         NEW cured \in BOOLEAN, NEW miss \in BOOLEAN, ~miss,
         NEW user, NEW other, NEW sel, NEW exe, NEW dam, NEW flags,
         exe \notin Pivoting, exe \notin Thawing \cup Startling, exe \in ClearsTeamStatus, exe # Rest
  PROVE  Executed(BothSides(p, x, y),
                  Bld(p, Used(sel, exe, miss, dam, Untold, Untold, Untold, flags), user, other,
                      cured))
           = BothSides(p, Done(Cleared(Woken(x, cured)), No), Struck(y, miss, dam))
<1>1. Turns(exe, miss) = No
  BY NoPivot
<1>2. UserAfter(Woken(x, cured), exe, miss, dam, Untold, Untold, Untold) = Cleared(Woken(x,
          cured))
  BY DEF UserAfter, Recovered
<1>3. OtherAfter(Struck(y, miss, dam), exe, miss, Untold, Untold) = Struck(y, miss, dam)
  BY DEF OtherAfter
<1> QED BY <1>1, <1>2, <1>3, ExecutedIs

LEMMA TouchedMoveIs ==
  ASSUME NEW p \in Parties, NEW x, NEW y, ~x.flinched,
         NEW cured \in BOOLEAN, NEW miss \in BOOLEAN, ~miss,
         NEW user, NEW other, NEW sel, NEW exe, NEW dam, NEW con, NEW flags,
         exe \notin Pivoting, exe \notin Thawing \cup Startling, con # Untold,
         dam \in HP, exe \notin {Rest} \cup ClearsTeamStatus
  PROVE  Executed(BothSides(p, x, y),
                  Bld(p, Used(sel, exe, miss, dam, Untold, Untold, con, flags), user, other,
                      cured))
           = BothSides(p, Done(Marked(Woken(x, cured), con), No), Struck(y, miss, dam))
<1>1. Turns(exe, miss) = No
  BY NoPivot
<1>2. UserAfter(Woken(x, cured), exe, miss, dam, Untold, Untold, con) = Marked(Woken(x, cured),
          con)
  BY DEF UserAfter, Recovered
<1>3. OtherAfter(Struck(y, miss, dam), exe, miss, Untold, Untold) = Struck(y, miss, dam)
  BY DEF OtherAfter
<1> QED BY <1>1, <1>2, <1>3, ExecutedIs

\* A move hits and hurts; the ability of the struck one shows.
LEMMA HitsProceeds ==
  ASSUME NEW p \in Parties, NEW c, NEW x, NEW y, NEW sides, NEW g, NEW s, NEW t,
         CanAct(p, c, x, y, sides, g), s = sides[p], t = sides[Other(p)],
         t.active \in t.living,
         NEW hp \in HP
  PROVE  Proceeds(<<MoveLine(p, "hit", No),
                    Said("critical hit", p),
                    DamageLine("main effect", Other(p), hp, t.status[t.active]),
                    Said("reveal", Other(p))>>,
                  c, BothSides(p, Acted(s), Left(t, hp)), "moving", g)
<1> DEFINE o == Other(p)
           b == BothSides(p, x, y)
           S == Acted(s)
           T == Left(t, hp)
           after == BothSides(p, S, T)
           f == {} \cup {"critical_hit"}
           b1 == Bld(p, Fresh("hit", No), None, None, No)
           b2 == Bld(p, Used("hit", "hit", No, Untold, Untold, Untold, Untold, f), None, None, No)
           b3 == Bld(p, Used("hit", "hit", No, hp, Untold, Untold, Untold, f), None, Hint(hp,
               t.status[t.active]), No)
           move == Used("hit", "hit", No, hp, Untold, Untold, Untold, f)
<1>1. /\ Sound(c) /\ (\A nb : Sound(K(nb, b))) /\ b[o] = y /\ y \in ClientRecord
      /\ Matches(x, s) /\ ~x.down /\ ~x.flinched /\ ~s.pivots
      /\ y.active = t.active /\ y.active # Untold
      /\ s \in SideRecord /\ t \in SideRecord /\ x.status[x.active] = s.status[s.active]
      /\ FitsOther(y, y, t) /\ Matches(y, t)
      /\ ~y.down /\ y.status[y.active] = t.status[t.active]
  BY CanActFacts
<1>2. Advances(MoveLine(p, "hit", No), c, K(b1, b), after, g)
  BY BeginsMove
<1>3. Advances(Said("critical hit", p), K(b1, b), K(b2, b), after, g)
  BY StepFlag DEF Fresh, None
<1>4. Advances(DamageLine("main effect", o, hp, t.status[t.active]), K(b2, b), K(b3, b), after, g)
  BY StepDamaged, MoveFacts DEF None
<1>5. Advances(Said("reveal", o), K(b3, b), K(b3, b), after, g)
  <2>1. after[o] = T
    BY BothSidesFacts
  <2>2. T.active = t.active
    BY <1>1 DEF Left, SideRecord
  <2>3. PhazeIndex(b3) = Untold
    BY PhazeIs
  <2> HIDE DEF after, T, b3, b
  <2> QED BY <1>1, <2>1, <2>2, <2>3, StepReveal
<1>6. Runs(<<MoveLine(p, "hit", No), Said("critical hit", p), DamageLine("main effect", o, hp,
          t.status[t.active]), Said("reveal", o)>>, c, K(b3, b), after, g)
  <2> HIDE DEF after, b, b1, b2, b3
  <2> QED BY <1>1, <1>2, <1>3, <1>4, <1>5, RunsFour
<1>7. Executed(b, b3) = BothSides(p, Done(x, No), Hurt(y, hp))
  <2>1. Woken(x, No) = x
    BY WokenIs
  <2>2. Struck(y, No, hp) = Hurt(y, hp)
    BY IsHurt
  <2>3. Executed(b, b3) = BothSides(p, Done(Woken(x, No), No), Struck(y, No, hp))
    BY <1>1, PlainMoveIs, MoveFacts, NoAndYes
  <2> QED BY <2>1, <2>2, <2>3
<1>8. PhazeIndex(b3) # y.active
  BY <1>1, PhazeIs
<1>9. FitsUser(Hurt(Done(x, No), Untold), S, T) /\ ~Differs(Done(x, No), Hint(Untold, Untold))
  BY <1>1, UserRight DEF None
<1>10. FitsOther(y, Hurt(Hurt(y, hp), hp), T) /\ ~Differs(Hurt(y, hp), Hint(hp,
           t.status[t.active]))
  BY <1>1, StruckRight
<1>11. move # NoResult /\ b3 = Bld(p, move, Hint(Untold, Untold), Hint(hp, t.status[t.active]),
           No)
  BY PhazeIs DEF None
<1> HIDE DEF move, b3
<1> QED BY <1>6, <1>7, <1>8, <1>9, <1>10, <1>11, NoAndYes, MoveProceeds

\* A move that misses, or that finds nobody.
LEMMA MovesAlone ==
  ASSUME NEW p \in Parties, NEW c, NEW x, NEW y, NEW sides, NEW g, NEW s, NEW t,
         CanAct(p, c, x, y, sides, g), s = sides[p], t = sides[Other(p)],
         NEW missed \in BOOLEAN
  PROVE  Proceeds(<<MoveLine(p, "hit", missed)>>,
                  c, BothSides(p, Acted(s), t), "moving", g)
<1> DEFINE o == Other(p)
           b == BothSides(p, x, y)
           S == Acted(s)
           T == t
           after == BothSides(p, S, T)
           b1 == Bld(p, Fresh("hit", missed), None, None, No)
           move == Fresh("hit", missed)
<1>1. /\ Sound(c) /\ (\A nb : Sound(K(nb, b))) /\ b[o] = y /\ y \in ClientRecord
      /\ Matches(x, s) /\ ~x.down /\ ~x.flinched /\ ~s.pivots
      /\ y.active = t.active /\ y.active # Untold
      /\ s \in SideRecord /\ t \in SideRecord /\ x.status[x.active] = s.status[s.active]
      /\ FitsOther(y, y, t) /\ Matches(y, t)
  BY CanActFacts
<1>2. Advances(MoveLine(p, "hit", missed), c, K(b1, b), after, g)
  BY BeginsMove
<1>3. Runs(<<MoveLine(p, "hit", missed)>>, c, K(b1, b), after, g)
  <2> HIDE DEF after, b, b1
  <2> QED BY <1>1, <1>2, RunsOne
<1>4. Executed(b, b1) = BothSides(p, Done(x, No), y)
  <2>1. Woken(x, No) = x
    BY WokenIs
  <2>2. Struck(y, missed, Untold) = y
    BY NotHurt, Consts
  <2>3. Executed(b, b1) = BothSides(p, Done(Woken(x, No), No), Struck(y, missed, Untold))
    BY <1>1, PlainMoveIs, MoveFacts, NoAndYes DEF Fresh
  <2> QED BY <2>1, <2>2, <2>3
<1>5. PhazeIndex(b1) # y.active
  BY <1>1, PhazeIs DEF Fresh
<1>6. FitsUser(Hurt(Done(x, No), Untold), S, T) /\ ~Differs(Done(x, No), Hint(Untold, Untold))
  BY <1>1, UserRight DEF None
<1>7. FitsOther(y, Hurt(y, Untold), T) /\ ~Differs(y, Hint(Untold, Untold))
  BY <1>1, OtherRight DEF None
<1>8. move # NoResult /\ b1 = Bld(p, move, Hint(Untold, Untold), Hint(Untold, Untold), No)
  BY PhazeIs DEF None, Fresh
<1> HIDE DEF move, b1
<1> QED BY <1>3, <1>4, <1>5, <1>6, <1>7, <1>8, NoAndYes, MoveProceeds

\* A move hits a substitute.
LEMMA HitsSubstituteProceeds ==
  ASSUME NEW p \in Parties, NEW c, NEW x, NEW y, NEW sides, NEW g, NEW s, NEW t,
         CanAct(p, c, x, y, sides, g), s = sides[p], t = sides[Other(p)],
         t.active \in t.living
  PROVE  Proceeds(<<MoveLine(p, "hit", No),
                    Said("damage substitute", Other(p))>>,
                  c, BothSides(p, Acted(s), t), "moving", g)
<1> DEFINE o == Other(p)
           b == BothSides(p, x, y)
           S == Acted(s)
           T == t
           after == BothSides(p, S, T)
           b1 == Bld(p, Fresh("hit", No), None, None, No)
           b2 == Bld(p, Used("hit", "hit", No, "substitute", Untold, Untold, Untold, {}), None,
               None, No)
           move == Used("hit", "hit", No, "substitute", Untold, Untold, Untold, {})
<1>1. /\ Sound(c) /\ (\A nb : Sound(K(nb, b))) /\ b[o] = y /\ y \in ClientRecord
      /\ Matches(x, s) /\ ~x.down /\ ~x.flinched /\ ~s.pivots
      /\ y.active = t.active /\ y.active # Untold
      /\ s \in SideRecord /\ t \in SideRecord /\ x.status[x.active] = s.status[s.active]
      /\ FitsOther(y, y, t) /\ Matches(y, t)
      /\ ~y.down /\ y.status[y.active] = t.status[t.active]
  BY CanActFacts
<1>2. Advances(MoveLine(p, "hit", No), c, K(b1, b), after, g)
  BY BeginsMove
<1>3. Advances(Said("damage substitute", o), K(b1, b), K(b2, b), after, g)
  BY StepSubstitute DEF Fresh, None
<1>4. Runs(<<MoveLine(p, "hit", No), Said("damage substitute", o)>>, c, K(b2, b), after, g)
  <2> HIDE DEF after, b, b1, b2
  <2> QED BY <1>1, <1>2, <1>3, RunsTwo
<1>5. Executed(b, b2) = BothSides(p, Done(x, No), y)
  <2>1. Woken(x, No) = x
    BY WokenIs
  <2>2. Struck(y, No, "substitute") = y
    BY NotHurt, Consts DEF HP
  <2>3. Executed(b, b2) = BothSides(p, Done(Woken(x, No), No), Struck(y, No, "substitute"))
    BY <1>1, PlainMoveIs, MoveFacts, NoAndYes
  <2> QED BY <2>1, <2>2, <2>3
<1>6. PhazeIndex(b2) # y.active
  BY <1>1, PhazeIs
<1>7. FitsUser(Hurt(Done(x, No), Untold), S, T) /\ ~Differs(Done(x, No), Hint(Untold, Untold))
  BY <1>1, UserRight DEF None
<1>8. FitsOther(y, Hurt(y, Untold), T) /\ ~Differs(y, Hint(Untold, Untold))
  BY <1>1, OtherRight DEF None
<1>9. move # NoResult /\ b2 = Bld(p, move, Hint(Untold, Untold), Hint(Untold, Untold), No)
  BY PhazeIs DEF None
<1> HIDE DEF move, b2
<1> QED BY <1>4, <1>5, <1>6, <1>7, <1>8, <1>9, NoAndYes, MoveProceeds

\* What the statuses told and the damage told together leave
LEMMA FrozenRight ==
  ASSUME NEW y, NEW t, FitsOther(y, y, t), ~y.down, NEW status \in Status
  PROVE  /\ Hurt(Marked(y, status), "up") = Marked(y, status)
         /\ Hurt(y, "up") = y
         /\ FitsOther(y, Hurt(Marked(y, status), "up"), With(t, status))
         /\ FitsOther(y, Hurt(Marked(y, status), Untold), With(t, status))
         /\ \A hp : ~Differs(Marked(y, status), Hint(hp, status))
<1>1. Matches(y, t) /\ y \in ClientRecord
  BY DEF FitsOther, Matches
<1>2. Matches(Marked(y, status), With(t, status)) /\ Marked(y, status).down = y.down
  BY <1>1, MarkedMatches
<1> DEFINE z == Marked(y, status)
<1>3. \A hp : ~Differs(z, Hint(hp, status))
  BY <1>1, StatusRight
<1>4. FitsOther(y, z, With(t, status))
  BY OtherFits
<1> HIDE DEF z
<1>5. z \in ClientRecord /\ ~z.down
  BY <1>2 DEF Matches, z
<1>6. Hurt(z, "up") = z /\ Hurt(y, "up") = y /\ Hurt(z, Untold) = z
  BY <1>1, <1>5, HurtUp, HurtUntold
<1> QED BY <1>3, <1>4, <1>6 DEF z

LEMMA UserMarked ==
  ASSUME NEW x, NEW s, Matches(x, s), ~x.down, ~s.pivots, NEW status \in Status, NEW T
  PROVE  /\ FitsUser(Hurt(Done(Marked(x, status), No), Untold), With(Acted(s), status), T)
         /\ FitsUser(Hurt(Done(Marked(x, status), No), "up"), With(Acted(s), status), T)
         /\ \A hp : ~Differs(Done(Marked(x, status), No), Hint(hp, status))
BY UserFits, HurtUntold, StatusRight

\* An ice move hits and freezes.
LEMMA FreezesProceeds ==
  ASSUME NEW p \in Parties, NEW c, NEW x, NEW y, NEW sides, NEW g, NEW s, NEW t,
         CanAct(p, c, x, y, sides, g), s = sides[p], t = sides[Other(p)],
         t.active \in t.living,
         NEW fr \in Status,
         fr # Untold
  PROVE  Proceeds(<<MoveLine(p, "ice", No),
                    DamageLine("main effect", Other(p), "up", "clear"),
                    StatusLine("main effect", Other(p), fr)>>,
                  c, BothSides(p, Acted(s), With(t, fr)), "moving", g)
<1> DEFINE o == Other(p)
           b == BothSides(p, x, y)
           S == Acted(s)
           T == With(t, fr)
           after == BothSides(p, S, T)
           b1 == Bld(p, Fresh("ice", No), None, None, No)
           b2 == Bld(p, Used("ice", "ice", No, "up", Untold, Untold, Untold, {}), None,
               Hint("up", "clear"), No)
           b3 == Bld(p, Used("ice", "ice", No, "up", fr, Untold, Untold, {}), None, Hint("up",
               fr), No)
           move == Used("ice", "ice", No, "up", fr, Untold, Untold, {})
<1>1. /\ Sound(c) /\ (\A nb : Sound(K(nb, b))) /\ b[o] = y /\ y \in ClientRecord
      /\ Matches(x, s) /\ ~x.down /\ ~x.flinched /\ ~s.pivots
      /\ y.active = t.active /\ y.active # Untold
      /\ s \in SideRecord /\ t \in SideRecord /\ x.status[x.active] = s.status[s.active]
      /\ FitsOther(y, y, t) /\ Matches(y, t)
      /\ ~y.down /\ y.status[y.active] = t.status[t.active]
  BY CanActFacts
<1>2. Advances(MoveLine(p, "ice", No), c, K(b1, b), after, g)
  BY BeginsMove
<1>3. Advances(DamageLine("main effect", o, "up", "clear"), K(b1, b), K(b2, b), after, g)
  BY StepDamaged, MoveFacts DEF Fresh, None
<1>4. Advances(StatusLine("main effect", o, fr), K(b2, b), K(b3, b), after, g)
  BY StepOtherStatus, MoveFacts DEF None
<1>5. Runs(<<MoveLine(p, "ice", No), DamageLine("main effect", o, "up", "clear"),
          StatusLine("main effect", o, fr)>>, c, K(b3, b), after, g)
  <2> HIDE DEF after, b, b1, b2, b3
  <2> QED BY <1>1, <1>2, <1>3, <1>4, RunsThree
<1>6. Executed(b, b3) = BothSides(p, Done(x, No), Marked(y, fr))
  <2>1. Woken(x, No) = x
    BY WokenIs
  <2>2. Struck(y, No, "up") = y
    BY <1>1, IsHurt, HurtUp, Consts
  <2>6. Executed(b, b3) = BothSides(p, Done(Woken(x, No), No), Marked(Struck(y, No, "up"), fr))
    BY <1>1, StatusMoveIs, MoveFacts, NoAndYes
  <2> QED BY <2>1, <2>2, <2>6
<1>7. PhazeIndex(b3) # y.active
  BY <1>1, PhazeIs
<1>8. FitsUser(Hurt(Done(x, No), Untold), S, T) /\ ~Differs(Done(x, No), Hint(Untold, Untold))
  BY <1>1, UserRight DEF None
<1>9. FitsOther(y, Hurt(Marked(y, fr), "up"), T) /\ ~Differs(Marked(y, fr), Hint("up", fr))
  BY <1>1, FrozenRight
<1>10. move # NoResult /\ b3 = Bld(p, move, Hint(Untold, Untold), Hint("up", fr), No)
  BY PhazeIs DEF None
<1> HIDE DEF move, b3
<1> QED BY <1>5, <1>6, <1>7, <1>8, <1>9, <1>10, NoAndYes, MoveProceeds

\* A move puts to sleep.
LEMMA PutsToSleepProceeds ==
  ASSUME NEW p \in Parties, NEW c, NEW x, NEW y, NEW sides, NEW g, NEW s, NEW t,
         CanAct(p, c, x, y, sides, g), s = sides[p], t = sides[Other(p)],
         t.active \in t.living,
         NEW sl \in Status,
         sl # Untold
  PROVE  Proceeds(<<MoveLine(p, "spore", No),
                    StatusLine("main effect", Other(p), sl)>>,
                  c, BothSides(p, Acted(s), With(t, sl)), "moving", g)
<1> DEFINE o == Other(p)
           b == BothSides(p, x, y)
           S == Acted(s)
           T == With(t, sl)
           after == BothSides(p, S, T)
           b1 == Bld(p, Fresh("spore", No), None, None, No)
           b2 == Bld(p, Used("spore", "spore", No, Untold, sl, Untold, Untold, {}), None,
               Hint(Untold, sl), No)
           move == Used("spore", "spore", No, Untold, sl, Untold, Untold, {})
<1>1. /\ Sound(c) /\ (\A nb : Sound(K(nb, b))) /\ b[o] = y /\ y \in ClientRecord
      /\ Matches(x, s) /\ ~x.down /\ ~x.flinched /\ ~s.pivots
      /\ y.active = t.active /\ y.active # Untold
      /\ s \in SideRecord /\ t \in SideRecord /\ x.status[x.active] = s.status[s.active]
      /\ FitsOther(y, y, t) /\ Matches(y, t)
      /\ ~y.down /\ y.status[y.active] = t.status[t.active]
  BY CanActFacts
<1>2. Advances(MoveLine(p, "spore", No), c, K(b1, b), after, g)
  BY BeginsMove
<1>3. Advances(StatusLine("main effect", o, sl), K(b1, b), K(b2, b), after, g)
  BY StepOtherStatus, MoveFacts DEF Fresh, None
<1>4. Runs(<<MoveLine(p, "spore", No), StatusLine("main effect", o, sl)>>, c, K(b2, b), after, g)
  <2> HIDE DEF after, b, b1, b2
  <2> QED BY <1>1, <1>2, <1>3, RunsTwo
<1>5. Executed(b, b2) = BothSides(p, Done(x, No), Marked(y, sl))
  <2>1. Woken(x, No) = x
    BY WokenIs
  <2>2. Struck(y, No, Untold) = y
    BY <1>1, NotHurt, Consts
  <2>6. Executed(b, b2) = BothSides(p, Done(Woken(x, No), No), Marked(Struck(y, No, Untold), sl))
    BY <1>1, StatusMoveIs, MoveFacts, NoAndYes
  <2> QED BY <2>1, <2>2, <2>6
<1>6. PhazeIndex(b2) # y.active
  BY <1>1, PhazeIs
<1>7. FitsUser(Hurt(Done(x, No), Untold), S, T) /\ ~Differs(Done(x, No), Hint(Untold, Untold))
  BY <1>1, UserRight DEF None
<1>8. FitsOther(y, Hurt(Marked(y, sl), Untold), T) /\ ~Differs(Marked(y, sl), Hint(Untold, sl))
  BY <1>1, FrozenRight
<1>9. move # NoResult /\ b2 = Bld(p, move, Hint(Untold, Untold), Hint(Untold, sl), No)
  BY PhazeIs DEF None
<1> HIDE DEF move, b2
<1> QED BY <1>4, <1>5, <1>6, <1>7, <1>8, <1>9, NoAndYes, MoveProceeds

\* The ability of the struck one burns the user.
LEMMA BurnedByTouchingProceeds ==
  ASSUME NEW p \in Parties, NEW c, NEW x, NEW y, NEW sides, NEW g, NEW s, NEW t,
         CanAct(p, c, x, y, sides, g), s = sides[p], t = sides[Other(p)],
         t.active \in t.living,
         NEW hp \in HP,
         NEW burn \in Status,
         burn # Untold
  PROVE  Proceeds(<<MoveLine(p, "hit", No),
                    DamageLine("main effect", Other(p), hp, t.status[t.active]),
                    StatusLine("ability", p, burn)>>,
                  c, BothSides(p, With(Acted(s), burn), Left(t, hp)), "moving", g)
<1> DEFINE o == Other(p)
           b == BothSides(p, x, y)
           S == With(Acted(s), burn)
           T == Left(t, hp)
           after == BothSides(p, S, T)
           b1 == Bld(p, Fresh("hit", No), None, None, No)
           b2 == Bld(p, Used("hit", "hit", No, hp, Untold, Untold, Untold, {}), None, Hint(hp,
               t.status[t.active]), No)
           b3 == Bld(p, Used("hit", "hit", No, hp, Untold, Untold, burn, {}), Hint(Untold,
               burn), Hint(hp, t.status[t.active]), No)
           move == Used("hit", "hit", No, hp, Untold, Untold, burn, {})
<1>1. /\ Sound(c) /\ (\A nb : Sound(K(nb, b))) /\ b[o] = y /\ y \in ClientRecord
      /\ Matches(x, s) /\ ~x.down /\ ~x.flinched /\ ~s.pivots
      /\ y.active = t.active /\ y.active # Untold
      /\ s \in SideRecord /\ t \in SideRecord /\ x.status[x.active] = s.status[s.active]
      /\ FitsOther(y, y, t) /\ Matches(y, t)
      /\ ~y.down /\ y.status[y.active] = t.status[t.active]
  BY CanActFacts
<1>2. Advances(MoveLine(p, "hit", No), c, K(b1, b), after, g)
  BY BeginsMove
<1>3. Advances(DamageLine("main effect", o, hp, t.status[t.active]), K(b1, b), K(b2, b), after, g)
  BY StepDamaged, MoveFacts DEF Fresh, None
<1>4. Advances(StatusLine("ability", p, burn), K(b2, b), K(b3, b), after, g)
  <2>1. b[o].active = after[o].active
    <3>1. after[o] = T
      BY BothSidesFacts
    <3>2. T.active = t.active
      BY <1>1 DEF Left, SideRecord
    <3> HIDE DEF after, T, b
    <3> QED BY <1>1, <3>1, <3>2
  <2> HIDE DEF after, b
  <2> QED BY <2>1, StepTouched DEF None
<1>5. Runs(<<MoveLine(p, "hit", No), DamageLine("main effect", o, hp, t.status[t.active]),
          StatusLine("ability", p, burn)>>, c, K(b3, b), after, g)
  <2> HIDE DEF after, b, b1, b2, b3
  <2> QED BY <1>1, <1>2, <1>3, <1>4, RunsThree
<1>6. Executed(b, b3) = BothSides(p, Done(Marked(x, burn), No), Hurt(y, hp))
  <2>1. Woken(x, No) = x
    BY WokenIs
  <2>2. Struck(y, No, hp) = Hurt(y, hp)
    BY IsHurt
  <2>6. Executed(b, b3) = BothSides(p, Done(Marked(Woken(x, No), burn), No),
                                    Struck(y, No, hp))
    BY <1>1, TouchedMoveIs, MoveFacts, NoAndYes
  <2> QED BY <2>1, <2>2, <2>6
<1>7. PhazeIndex(b3) # y.active
  BY <1>1, PhazeIs
<1>8. FitsUser(Hurt(Done(Marked(x, burn), No), Untold), S, T) /\ ~Differs(Done(Marked(x, burn),
          No), Hint(Untold, burn))
  BY <1>1, UserMarked
<1>9. FitsOther(y, Hurt(Hurt(y, hp), hp), T) /\ ~Differs(Hurt(y, hp), Hint(hp,
          t.status[t.active]))
  BY <1>1, StruckRight
<1>10. move # NoResult /\ b3 = Bld(p, move, Hint(Untold, burn), Hint(hp, t.status[t.active]), No)
  BY PhazeIs DEF None
<1> HIDE DEF move, b3
<1> QED BY <1>5, <1>6, <1>7, <1>8, <1>9, <1>10, NoAndYes, MoveProceeds

\* A move hurts its user too.
LEMMA RecoilsProceeds ==
  ASSUME NEW p \in Parties, NEW c, NEW x, NEW y, NEW sides, NEW g, NEW s, NEW t,
         CanAct(p, c, x, y, sides, g), s = sides[p], t = sides[Other(p)],
         t.active \in t.living,
         NEW hp \in HP,
         NEW mine \in HP
  PROVE  Proceeds(<<MoveLine(p, "hit", No),
                    DamageLine("main effect", Other(p), hp, t.status[t.active]),
                    DamageLine("recoil", p, mine, s.status[s.active])>>,
                  c, BothSides(p, Left(Acted(s), mine), Left(t, hp)), "moving", g)
<1> DEFINE o == Other(p)
           b == BothSides(p, x, y)
           S == Left(Acted(s), mine)
           T == Left(t, hp)
           after == BothSides(p, S, T)
           f == {} \cup {"recoil"}
           b1 == Bld(p, Fresh("hit", No), None, None, No)
           b2 == Bld(p, Used("hit", "hit", No, hp, Untold, Untold, Untold, {}), None, Hint(hp,
               t.status[t.active]), No)
           b3 == Bld(p, Used("hit", "hit", No, hp, Untold, Untold, Untold, f), Hint(mine,
               s.status[s.active]), Hint(hp, t.status[t.active]), No)
           move == Used("hit", "hit", No, hp, Untold, Untold, Untold, f)
<1>1. /\ Sound(c) /\ (\A nb : Sound(K(nb, b))) /\ b[o] = y /\ y \in ClientRecord
      /\ Matches(x, s) /\ ~x.down /\ ~x.flinched /\ ~s.pivots
      /\ y.active = t.active /\ y.active # Untold
      /\ s \in SideRecord /\ t \in SideRecord /\ x.status[x.active] = s.status[s.active]
      /\ FitsOther(y, y, t) /\ Matches(y, t)
      /\ ~y.down /\ y.status[y.active] = t.status[t.active]
  BY CanActFacts
<1>2. Advances(MoveLine(p, "hit", No), c, K(b1, b), after, g)
  BY BeginsMove
<1>3. Advances(DamageLine("main effect", o, hp, t.status[t.active]), K(b1, b), K(b2, b), after, g)
  BY StepDamaged, MoveFacts DEF Fresh, None
<1>4. Advances(DamageLine("recoil", p, mine, s.status[s.active]), K(b2, b), K(b3, b), after, g)
  BY StepRecoil DEF None
<1>5. Runs(<<MoveLine(p, "hit", No), DamageLine("main effect", o, hp, t.status[t.active]),
          DamageLine("recoil", p, mine, s.status[s.active])>>, c, K(b3, b), after, g)
  <2> HIDE DEF after, b, b1, b2, b3
  <2> QED BY <1>1, <1>2, <1>3, <1>4, RunsThree
<1>6. Executed(b, b3) = BothSides(p, Done(x, No), Hurt(y, hp))
  <2>1. Woken(x, No) = x
    BY WokenIs
  <2>2. Struck(y, No, hp) = Hurt(y, hp)
    BY IsHurt
  <2>3. Executed(b, b3) = BothSides(p, Done(Woken(x, No), No), Struck(y, No, hp))
    BY <1>1, PlainMoveIs, MoveFacts, NoAndYes
  <2> QED BY <2>1, <2>2, <2>3
<1>7. PhazeIndex(b3) # y.active
  BY <1>1, PhazeIs
<1>8. FitsUser(Hurt(Done(x, No), mine), S, T) /\ ~Differs(Done(x, No), Hint(mine,
          s.status[s.active]))
  <2>1. FitsUser(Hurt(Done(x, No), mine), S, T)
    BY <1>1, UserFits
  <2>2. Done(x, No).status = x.status /\ Done(x, No).active = x.active
    BY <1>1, DoneMatches, NoAndYes
  <2>3. ~Differs(Done(x, No), Hint(mine, s.status[s.active]))
    BY <1>1, <2>2, ToldRightly
  <2> QED BY <2>1, <2>3
<1>9. FitsOther(y, Hurt(Hurt(y, hp), hp), T) /\ ~Differs(Hurt(y, hp), Hint(hp,
          t.status[t.active]))
  BY <1>1, StruckRight
<1>10. move # NoResult /\ b3 = Bld(p, move, Hint(mine, s.status[s.active]), Hint(hp,
           t.status[t.active]), No)
  BY PhazeIs DEF None
<1> HIDE DEF move, b3
<1> QED BY <1>5, <1>6, <1>7, <1>8, <1>9, <1>10, NoAndYes, MoveProceeds

\* A Pokemon rests.
LEMMA RestsProceeds ==
  ASSUME NEW p \in Parties, NEW c, NEW x, NEW y, NEW sides, NEW g, NEW s, NEW t,
         CanAct(p, c, x, y, sides, g), s = sides[p], t = sides[Other(p)],
         NEW sl,
         sl = "sleep"
  PROVE  Proceeds(<<MoveLine(p, "rest", No),
                    StatusLine("move", p, sl),
                    DamageLine("miscellaneous", p, "up", sl)>>,
                  c, BothSides(p, With(Acted(s), sl), t), "moving", g)
<1> DEFINE o == Other(p)
           b == BothSides(p, x, y)
           S == With(Acted(s), sl)
           T == t
           after == BothSides(p, S, T)
           b1 == Bld(p, Fresh("rest", No), None, None, No)
           b2 == Bld(p, Used("rest", "rest", No, Untold, Untold, Untold, Untold, {}),
               Hint(Untold, sl), None, No)
           b3 == Bld(p, Used("rest", "rest", No, Untold, Untold, Untold, Untold, {}),
               Hint("up", sl), None, No)
           move == Used("rest", "rest", No, Untold, Untold, Untold, Untold, {})
<1>1. /\ Sound(c) /\ (\A nb : Sound(K(nb, b))) /\ b[o] = y /\ y \in ClientRecord
      /\ Matches(x, s) /\ ~x.down /\ ~x.flinched /\ ~s.pivots
      /\ y.active = t.active /\ y.active # Untold
      /\ s \in SideRecord /\ t \in SideRecord /\ x.status[x.active] = s.status[s.active]
      /\ FitsOther(y, y, t) /\ Matches(y, t)
  BY CanActFacts
<1>2. Advances(MoveLine(p, "rest", No), c, K(b1, b), after, g)
  BY BeginsMove
<1>3. Advances(StatusLine("move", p, sl), K(b1, b), K(b2, b), after, g)
  BY StepRested, MoveFacts DEF None, Fresh
<1>4. Advances(DamageLine("miscellaneous", p, "up", sl), K(b2, b), K(b3, b), after, g)
  BY StepUserHP DEF None
<1>5. Runs(<<MoveLine(p, "rest", No), StatusLine("move", p, sl), DamageLine("miscellaneous", p,
          "up", sl)>>, c, K(b3, b), after, g)
  <2> HIDE DEF after, b, b1, b2, b3
  <2> QED BY <1>1, <1>2, <1>3, <1>4, RunsThree
<1>6. Executed(b, b3) = BothSides(p, Done(Marked(x, sl), No), y)
  <2>1. Woken(x, No) = x
    BY WokenIs
  <2>2. Struck(y, No, Untold) = y
    BY NotHurt, Consts
  <2>3. Executed(b, b3) = BothSides(p, Done(Marked(Woken(x, No), "sleep"), No), Struck(y, No,
            Untold))
    BY <1>1, RestingMoveIs, MoveFacts, NoAndYes
  <2> QED BY <2>1, <2>2, <2>3
<1>7. PhazeIndex(b3) # y.active
  BY <1>1, PhazeIs
<1>8. FitsUser(Hurt(Done(Marked(x, sl), No), "up"), S, T) /\ ~Differs(Done(Marked(x, sl), No),
          Hint("up", sl))
  <2>1. sl \in Status
    BY Consts
  <2> QED BY <1>1, <2>1, UserMarked
<1>9. FitsOther(y, Hurt(y, Untold), T) /\ ~Differs(y, Hint(Untold, Untold))
  BY <1>1, OtherRight DEF None
<1>10. move # NoResult /\ b3 = Bld(p, move, Hint("up", sl), Hint(Untold, Untold), No)
  BY PhazeIs DEF None
<1> HIDE DEF move, b3
<1> QED BY <1>5, <1>6, <1>7, <1>8, <1>9, <1>10, NoAndYes, MoveProceeds

WakesUp(m, p) == m.kind = "status clear" /\ m.party = p /\ m.status = "sleep"
CuresFirst(m, p, g) ==
  /\ m.kind = "status clear" /\ m.party = p /\ m.status \in {"freeze", "sleep"}
  /\ ~(m.status = "sleep" /\ g = 1)
IsCure(m, p) == m.kind = "status clear" /\ m.party = p
Healed(s) == [s EXCEPT !.status = [q \in Roster |-> "clear"]]

LEMMA HealedFits ==
  ASSUME NEW x, NEW s, Matches(x, s), ~x.down, ~s.pivots, NEW T
  PROVE  /\ FitsUser(Hurt(Done(Cleared(x), No), Untold), Healed(Acted(s)), T)
         /\ \A hp : ~Differs(Done(Cleared(x), No), Hint(hp, "clear"))
<1> DEFINE z == Cleared(x)
           u == Healed(s)
<1>1. /\ Matches(z, u) /\ z.down = x.down /\ z.status[z.active] = "clear"
  BY ClearedMatches DEF Healed
<1>2. s \in SideRecord
  BY DEF Matches
<1>3. u.pivots = s.pivots /\ u \in SideRecord
  BY <1>1, <1>2 DEF Healed, SideRecord, Matches
<1>4. Healed(Acted(s)) = Acted(u)
  <2> DEFINE v == [q \in Roster |-> "clear"]
  <2>1. Healed(s) = [s EXCEPT !.status = v] /\ Healed(Acted(s)) = [Acted(s) EXCEPT !.status = v]
    BY DEF Healed
  <2> HIDE DEF v
  <2>2. ASSUME NEW e, e = [[s EXCEPT !.owes = FALSE] EXCEPT !.status = v]
        PROVE  e = [[s EXCEPT !.status = v] EXCEPT !.owes = FALSE]
    BY <1>2, <2>2 DEF SideRecord
  <2> QED BY <2>1, <2>2 DEF Acted
<1> HIDE DEF z, u
<1>5. FitsUser(Done(z, No), Acted(u), T)
  BY <1>1, <1>3, UserFits
<1>6. Done(z, No).status = z.status /\ Done(z, No).active = z.active
  BY <1>1, DoneMatches, NoAndYes
<1>7. \A hp : ~Differs(Done(z, No), Hint(hp, "clear"))
  BY <1>1, <1>6, ToldRightly
<1> QED BY <1>4, <1>5, <1>7, HurtUntold DEF z

\* A move heals the statuses of the team.
LEMMA HealsTheTeamProceeds ==
  ASSUME NEW p \in Parties, NEW c, NEW x, NEW y, NEW sides, NEW g, NEW s, NEW t,
         CanAct(p, c, x, y, sides, g), s = sides[p], t = sides[Other(p)],
         NEW m,
         IsCure(m, p),
         NEW cl,
         cl = "clear"
  PROVE  Proceeds(<<MoveLine(p, "heal_bell", No),
                    m>>,
                  c, BothSides(p, Healed(Acted(s)), t), "moving", g)
<1> DEFINE o == Other(p)
           b == BothSides(p, x, y)
           S == Healed(Acted(s))
           T == t
           after == BothSides(p, S, T)
           b1 == Bld(p, Fresh("heal_bell", No), None, None, No)
           b2 == Bld(p, Used("heal_bell", "heal_bell", No, Untold, Untold, Untold, Untold, {}),
               Hint(Untold, cl), None, No)
           move == Used("heal_bell", "heal_bell", No, Untold, Untold, Untold, Untold, {})
<1>1. /\ Sound(c) /\ (\A nb : Sound(K(nb, b))) /\ b[o] = y /\ y \in ClientRecord
      /\ Matches(x, s) /\ ~x.down /\ ~x.flinched /\ ~s.pivots
      /\ y.active = t.active /\ y.active # Untold
      /\ s \in SideRecord /\ t \in SideRecord /\ x.status[x.active] = s.status[s.active]
      /\ FitsOther(y, y, t) /\ Matches(y, t)
  BY CanActFacts
<1>2. Advances(MoveLine(p, "heal_bell", No), c, K(b1, b), after, g)
  BY BeginsMove
<1>3. Advances(m, K(b1, b), K(b2, b), after, g)
  <2>1. ~IsEndOfTurn(b, g)
    BY DEF CanAct
  <2> HIDE DEF b, after
  <2> QED BY <2>1, StepHealed, MoveFacts DEF Fresh, None, IsCure
<1>4. Runs(<<MoveLine(p, "heal_bell", No), m>>, c, K(b2, b), after, g)
  <2> HIDE DEF after, b, b1, b2
  <2> QED BY <1>1, <1>2, <1>3, RunsTwo
<1>5. Executed(b, b2) = BothSides(p, Done(Cleared(x), No), y)
  <2>1. Woken(x, No) = x
    BY WokenIs
  <2>2. Struck(y, No, Untold) = y
    BY NotHurt, Consts
  <2>3. Executed(b, b2) = BothSides(p, Done(Cleared(Woken(x, No)), No), Struck(y, No, Untold))
    BY <1>1, HealingMoveIs, MoveFacts, NoAndYes
  <2> QED BY <2>1, <2>2, <2>3
<1>6. PhazeIndex(b2) # y.active
  BY <1>1, PhazeIs
<1>7. FitsUser(Hurt(Done(Cleared(x), No), Untold), S, T) /\ ~Differs(Done(Cleared(x), No),
          Hint(Untold, cl))
  BY <1>1, HealedFits
<1>8. FitsOther(y, Hurt(y, Untold), T) /\ ~Differs(y, Hint(Untold, Untold))
  BY <1>1, OtherRight DEF None
<1>9. move # NoResult /\ b2 = Bld(p, move, Hint(Untold, cl), Hint(Untold, Untold), No)
  BY PhazeIs DEF None
<1> HIDE DEF move, b2
<1> QED BY <1>4, <1>5, <1>6, <1>7, <1>8, <1>9, NoAndYes, MoveProceeds

\* A Pokemon makes a substitute.
LEMMA MakesSubstituteProceeds ==
  ASSUME NEW p \in Parties, NEW c, NEW x, NEW y, NEW sides, NEW g, NEW s, NEW t,
         CanAct(p, c, x, y, sides, g), s = sides[p], t = sides[Other(p)]
  PROVE  Proceeds(<<MoveLine(p, "substitute", No),
                    DamageLine("main effect", p, "up", s.status[s.active])>>,
                  c, BothSides(p, Acted(s), t), "moving", g)
<1> DEFINE o == Other(p)
           b == BothSides(p, x, y)
           S == Acted(s)
           T == t
           after == BothSides(p, S, T)
           b1 == Bld(p, Used("substitute", "substitute", No, Untold, Untold, Untold, Untold,
               {}), None, None, No)
           move == Used("substitute", "substitute", No, Untold, Untold, Untold, Untold, {})
<1>1. /\ Sound(c) /\ (\A nb : Sound(K(nb, b))) /\ b[o] = y /\ y \in ClientRecord
      /\ Matches(x, s) /\ ~x.down /\ ~x.flinched /\ ~s.pivots
      /\ y.active = t.active /\ y.active # Untold
      /\ s \in SideRecord /\ t \in SideRecord /\ x.status[x.active] = s.status[s.active]
      /\ FitsOther(y, y, t) /\ Matches(y, t)
  BY CanActFacts
<1>2. Advances(MoveLine(p, "substitute", No), c, K(b1, b), after, g)
  BY BeginsMove DEF Fresh
<1>3. Advances(DamageLine("main effect", p, "up", s.status[s.active]), K(b1, b), K(b1, b),
          after, g)
  BY StepSelfDamage, MoveFacts DEF None
<1>4. Runs(<<MoveLine(p, "substitute", No), DamageLine("main effect", p, "up",
          s.status[s.active])>>, c, K(b1, b), after, g)
  <2> HIDE DEF after, b, b1
  <2> QED BY <1>1, <1>2, <1>3, RunsTwo
<1>5. Executed(b, b1) = BothSides(p, Done(x, No), y)
  <2>1. Woken(x, No) = x
    BY WokenIs
  <2>2. Struck(y, No, Untold) = y
    BY NotHurt, Consts
  <2>3. Executed(b, b1) = BothSides(p, Done(Woken(x, No), No), Struck(y, No, Untold))
    BY <1>1, PlainMoveIs, MoveFacts, NoAndYes
  <2> QED BY <2>1, <2>2, <2>3
<1>6. PhazeIndex(b1) # y.active
  BY <1>1, PhazeIs
<1>7. FitsUser(Hurt(Done(x, No), Untold), S, T) /\ ~Differs(Done(x, No), Hint(Untold, Untold))
  BY <1>1, UserRight DEF None
<1>8. FitsOther(y, Hurt(y, Untold), T) /\ ~Differs(y, Hint(Untold, Untold))
  BY <1>1, OtherRight DEF None
<1>9. move # NoResult /\ b1 = Bld(p, move, Hint(Untold, Untold), Hint(Untold, Untold), No)
  BY PhazeIs DEF None
<1> HIDE DEF move, b1
<1> QED BY <1>4, <1>5, <1>6, <1>7, <1>8, <1>9, NoAndYes, MoveProceeds

\* A move confuses.
LEMMA ConfusesProceeds ==
  ASSUME NEW p \in Parties, NEW c, NEW x, NEW y, NEW sides, NEW g, NEW s, NEW t,
         CanAct(p, c, x, y, sides, g), s = sides[p], t = sides[Other(p)],
         t.active \in t.living
  PROVE  Proceeds(<<MoveLine(p, "confuse", No),
                    Said("start confusion", Other(p))>>,
                  c, BothSides(p, Acted(s), t), "moving", g)
<1> DEFINE o == Other(p)
           b == BothSides(p, x, y)
           S == Acted(s)
           T == t
           after == BothSides(p, S, T)
           f == {} \cup {"confuse"}
           b1 == Bld(p, Fresh("confuse", No), None, None, No)
           b2 == Bld(p, Used("confuse", "confuse", No, Untold, Untold, Untold, Untold, f),
               None, None, No)
           move == Used("confuse", "confuse", No, Untold, Untold, Untold, Untold, f)
<1>1. /\ Sound(c) /\ (\A nb : Sound(K(nb, b))) /\ b[o] = y /\ y \in ClientRecord
      /\ Matches(x, s) /\ ~x.down /\ ~x.flinched /\ ~s.pivots
      /\ y.active = t.active /\ y.active # Untold
      /\ s \in SideRecord /\ t \in SideRecord /\ x.status[x.active] = s.status[s.active]
      /\ FitsOther(y, y, t) /\ Matches(y, t)
      /\ ~y.down /\ y.status[y.active] = t.status[t.active]
  BY CanActFacts
<1>2. Advances(MoveLine(p, "confuse", No), c, K(b1, b), after, g)
  BY BeginsMove
<1>3. Advances(Said("start confusion", o), K(b1, b), K(b2, b), after, g)
  BY StepConfused DEF Fresh, None
<1>4. Runs(<<MoveLine(p, "confuse", No), Said("start confusion", o)>>, c, K(b2, b), after, g)
  <2> HIDE DEF after, b, b1, b2
  <2> QED BY <1>1, <1>2, <1>3, RunsTwo
<1>5. Executed(b, b2) = BothSides(p, Done(x, No), y)
  <2>1. Woken(x, No) = x
    BY WokenIs
  <2>2. Struck(y, No, Untold) = y
    BY NotHurt, Consts
  <2>3. Executed(b, b2) = BothSides(p, Done(Woken(x, No), No), Struck(y, No, Untold))
    BY <1>1, PlainMoveIs, MoveFacts, NoAndYes
  <2> QED BY <2>1, <2>2, <2>3
<1>6. PhazeIndex(b2) # y.active
  BY <1>1, PhazeIs
<1>7. FitsUser(Hurt(Done(x, No), Untold), S, T) /\ ~Differs(Done(x, No), Hint(Untold, Untold))
  BY <1>1, UserRight DEF None
<1>8. FitsOther(y, Hurt(y, Untold), T) /\ ~Differs(y, Hint(Untold, Untold))
  BY <1>1, OtherRight DEF None
<1>9. move # NoResult /\ b2 = Bld(p, move, Hint(Untold, Untold), Hint(Untold, Untold), No)
  BY PhazeIs DEF None
<1> HIDE DEF move, b2
<1> QED BY <1>4, <1>5, <1>6, <1>7, <1>8, <1>9, NoAndYes, MoveProceeds

IsPhaze(m, p, new, hp, status) ==
  /\ m.kind = "phaze" /\ m.party = p /\ m.index = new /\ m.hp = hp /\ m.status = status

LEMMA PhazeMessageIs ==
  ASSUME NEW p \in Parties, NEW m, NEW new, NEW hp, NEW status, IsPhaze(m, Other(p), new, hp,
             status),
         NEW cured, NEW o1, NEW o2, NEW u1, NEW u2,
         NEW sel, NEW exe \in Phazing, NEW miss, NEW dam, NEW st, NEW con, NEW flags,
         NEW b, NEW sides, NEW g
  PROVE  Advances(m, K(Bld(p, Used(sel, exe, miss, dam, st, Untold, con, flags),
                           Hint(u1, u2), Hint(o1, o2), cured), b),
                  K(Bld(p, Used(sel, exe, miss, dam, st, new, con, flags),
                        Hint(u1, u2), Hint(hp, status), cured), b), sides, g)
<1>1. /\ m.kind = "phaze" /\ m.party = Other(p) /\ m.index = new /\ m.hp = hp
      /\ m.status = status
  BY DEF IsPhaze
<1>2. Advances(m, K(Bld(p, Used(sel, exe, miss, dam, st, Untold, con, flags),
                           Hint(u1, u2), Hint(o1, o2), cured), b),
                  K(Bld(p, Used(sel, exe, miss, dam, st, m.index, con, flags),
                        Hint(u1, u2), Hint(m.hp, m.status), cured), b), sides, g)
  BY <1>1, StepPhaze
<1> QED BY <1>1, <1>2

LEMMA DraggedFits ==
  ASSUME NEW y, NEW t, FitsOther(y, y, t), ~y.down, NEW new, OnBench(t, new),
         NEW hp \in HP
  PROVE  /\ FitsOther(y, Hurt(Came(y, new), hp), Left(Entered(t, new), hp))
         /\ ~Differs(Came(y, new), Hint(hp, t.status[new]))
         /\ Left(Entered(t, new), hp).active = new
         /\ new # Untold /\ new # y.active
<1> DEFINE z == Came(y, new)
           u == Entered(t, new)
<1>1. Matches(y, t) /\ ~t.pivots /\ y.active = t.active /\ t \in SideRecord
  BY DEF FitsOther, Matches, Follows
<1>2. /\ Matches(z, u) /\ ~z.down /\ z.moved /\ ~z.pivoting
      /\ z.active = new /\ z.status = y.status /\ y.status[new] = t.status[new]
      /\ ~u.owes /\ u.pivots = t.pivots /\ u.active = new
  BY <1>1, CameMatches
<1> HIDE DEF z, u
<1>3. /\ Matches(Hurt(z, hp), Left(u, hp)) /\ Hurt(z, hp).moved = z.moved
      /\ Hurt(z, hp).pivoting = z.pivoting
      /\ Left(u, hp).owes = u.owes /\ Left(u, hp).pivots = u.pivots
  BY <1>2, HurtKeeps
<1>4. FitsOther(y, Hurt(z, hp), Left(u, hp))
  BY <1>1, <1>2, <1>3 DEF FitsOther
<1>5. ~Differs(z, Hint(hp, t.status[new]))
  BY <1>2, ToldRightly
<1>6. Left(u, hp).active = new
  <2>1. u \in SideRecord
    BY <1>2 DEF Matches
  <2> QED BY <1>2, <2>1 DEF Left, SideRecord
<1>7. new # Untold /\ new # y.active
  BY <1>1, Consts DEF SideRecord, OnBench
<1> QED BY <1>4, <1>5, <1>6, <1>7 DEF z, u

\* A move drags another Pokemon out.
LEMMA DragsOutProceeds ==
  ASSUME NEW p \in Parties, NEW c, NEW x, NEW y, NEW sides, NEW g, NEW s, NEW t,
         CanAct(p, c, x, y, sides, g), s = sides[p], t = sides[Other(p)],
         t.active \in t.living,
         NEW new,
         OnBench(t, new),
         NEW hp \in HP,
         NEW m,
         IsPhaze(m, Other(p), new, "up", t.status[new])
  PROVE  Proceeds(<<MoveLine(p, "roar", No),
                    m,
                    Said("reveal", Other(p)),
                    DamageLine("hazards", Other(p), hp, t.status[new])>>,
                  c, BothSides(p, Acted(s), Left(Entered(t, new), hp)), "moving", g)
<1> DEFINE o == Other(p)
           b == BothSides(p, x, y)
           S == Acted(s)
           T == Left(Entered(t, new), hp)
           after == BothSides(p, S, T)
           b1 == Bld(p, Fresh("roar", No), None, None, No)
           b2 == Bld(p, Used("roar", "roar", No, Untold, Untold, new, Untold, {}), None,
               Hint("up", t.status[new]), No)
           b3 == Bld(p, Used("roar", "roar", No, Untold, Untold, new, Untold, {}), None,
               Hint(hp, t.status[new]), No)
           move == Used("roar", "roar", No, Untold, Untold, new, Untold, {})
<1>1. /\ Sound(c) /\ (\A nb : Sound(K(nb, b))) /\ b[o] = y /\ y \in ClientRecord
      /\ Matches(x, s) /\ ~x.down /\ ~x.flinched /\ ~s.pivots
      /\ y.active = t.active /\ y.active # Untold
      /\ s \in SideRecord /\ t \in SideRecord /\ x.status[x.active] = s.status[s.active]
      /\ FitsOther(y, y, t) /\ Matches(y, t)
      /\ ~y.down /\ y.status[y.active] = t.status[t.active]
  BY CanActFacts
<1>2. Advances(MoveLine(p, "roar", No), c, K(b1, b), after, g)
  BY BeginsMove
<1>3. Advances(m, K(b1, b), K(b2, b), after, g)
  BY PhazeMessageIs, MoveFacts DEF None, Fresh
<1>4. Advances(Said("reveal", o), K(b2, b), K(b2, b), after, g)
  <2>1. after[o] = T
    BY BothSidesFacts
  <2>2. T.active = new /\ new # Untold
    BY <1>1, DraggedFits
  <2>3. PhazeIndex(b2) = new
    BY PhazeIs
  <2> HIDE DEF after, T, b2, b
  <2> QED BY <1>1, <2>1, <2>2, <2>3, StepReveal
<1>5. Advances(DamageLine("hazards", o, hp, t.status[new]), K(b2, b), K(b3, b), after, g)
  BY StepOtherHP DEF None
<1>6. Runs(<<MoveLine(p, "roar", No), m, Said("reveal", o), DamageLine("hazards", o, hp,
          t.status[new])>>, c, K(b3, b), after, g)
  <2> HIDE DEF after, b, b1, b2, b3
  <2> QED BY <1>1, <1>2, <1>3, <1>4, <1>5, RunsFour
<1>7. Executed(b, b3) = BothSides(p, Done(x, No), Came(y, new))
  <2>1. Woken(x, No) = x
    BY WokenIs
  <2>2. Struck(y, No, Untold) = y
    BY NotHurt, Consts
  <2>4. new # Untold
    BY <1>1, DraggedFits
  <2>3. Executed(b, b3) = BothSides(p, Done(Woken(x, No), No), Came(Struck(y, No, Untold), new))
    BY <1>1, <2>4, PhazingMoveIs, MoveFacts, NoAndYes
  <2> QED BY <2>1, <2>2, <2>3
<1>8. PhazeIndex(b3) # y.active
  <2>1. new # y.active
    BY <1>1, DraggedFits
  <2> QED BY <2>1, PhazeIs
<1>9. FitsUser(Hurt(Done(x, No), Untold), S, T) /\ ~Differs(Done(x, No), Hint(Untold, Untold))
  BY <1>1, UserRight DEF None
<1>10. FitsOther(y, Hurt(Came(y, new), hp), T) /\ ~Differs(Came(y, new), Hint(hp, t.status[new]))
  BY <1>1, DraggedFits
<1>11. move # NoResult /\ b3 = Bld(p, move, Hint(Untold, Untold), Hint(hp, t.status[new]), No)
  BY PhazeIs DEF None
<1> HIDE DEF move, b3
<1> QED BY <1>6, <1>7, <1>8, <1>9, <1>10, <1>11, NoAndYes, MoveProceeds

\* A Pokemon wakes up or thaws, and moves.
LEMMA RecoversProceeds ==
  ASSUME NEW p \in Parties, NEW c, NEW x, NEW y, NEW sides, NEW g, NEW s, NEW t,
         CanAct(p, c, x, y, sides, g), s = sides[p], t = sides[Other(p)],
         t.active \in t.living,
         NEW hp \in HP,
         NEW m,
         CuresFirst(m, p, g),
         NEW cl,
         cl = "clear"
  PROVE  Proceeds(<<m,
                    MoveLine(p, "hit", No),
                    DamageLine("main effect", Other(p), hp, t.status[t.active])>>,
                  c, BothSides(p, With(Acted(s), cl), Left(t, hp)), "moving", g)
<1> DEFINE o == Other(p)
           b == BothSides(p, x, y)
           S == With(Acted(s), cl)
           T == Left(t, hp)
           after == BothSides(p, S, T)
           b1 == Bld(p, NoResult, Hint(Untold, cl), None, Yes)
           b2 == Bld(p, Fresh("hit", No), Hint(Untold, cl), None, Yes)
           b3 == Bld(p, Used("hit", "hit", No, hp, Untold, Untold, Untold, {}), Hint(Untold,
               cl), Hint(hp, t.status[t.active]), Yes)
           move == Used("hit", "hit", No, hp, Untold, Untold, Untold, {})
<1>1. /\ Sound(c) /\ (\A nb : Sound(K(nb, b))) /\ b[o] = y /\ y \in ClientRecord
      /\ Matches(x, s) /\ ~x.down /\ ~x.flinched /\ ~s.pivots
      /\ y.active = t.active /\ y.active # Untold
      /\ s \in SideRecord /\ t \in SideRecord /\ x.status[x.active] = s.status[s.active]
      /\ FitsOther(y, y, t) /\ Matches(y, t)
      /\ ~y.down /\ y.status[y.active] = t.status[t.active]
  BY CanActFacts
<1>2. Advances(m, c, K(b1, b), after, g)
  BY BeginsCure DEF CuresFirst
<1>3. Advances(MoveLine(p, "hit", No), K(b1, b), K(b2, b), after, g)
  BY StepMove, FirstMoveIs
<1>4. Advances(DamageLine("main effect", o, hp, t.status[t.active]), K(b2, b), K(b3, b), after, g)
  BY StepDamaged, MoveFacts DEF Fresh, None
<1>5. Runs(<<m, MoveLine(p, "hit", No), DamageLine("main effect", o, hp, t.status[t.active])>>,
          c, K(b3, b), after, g)
  <2> HIDE DEF after, b, b1, b2, b3
  <2> QED BY <1>1, <1>2, <1>3, <1>4, RunsThree
<1>6. Executed(b, b3) = BothSides(p, Done(Marked(x, cl), No), Hurt(y, hp))
  <2>1. Woken(x, Yes) = Marked(x, cl)
    BY WokenIs
  <2>2. Struck(y, No, hp) = Hurt(y, hp)
    BY IsHurt
  <2>3. Executed(b, b3) = BothSides(p, Done(Woken(x, Yes), No), Struck(y, No, hp))
    <3> DEFINE user == Hint(Untold, cl)
               other == Hint(hp, t.status[t.active])
    <3>1. "hit" \notin {Rest} \cup ClearsTeamStatus \cup Pivoting
          /\ "hit" \notin Thawing \cup Startling
      BY MoveFacts
    <3>2. Yes \in BOOLEAN /\ No \in BOOLEAN
      BY NoAndYes
    <3> HIDE DEF user, other
    <3>3. Executed(BothSides(p, x, y),
                   Bld(p, Used("hit", "hit", No, hp, Untold, Untold, Untold, {}), user, other,
                       Yes))
            = BothSides(p, Done(Woken(x, Yes), No), Struck(y, No, hp))
      BY <1>1, <3>1, <3>2, PlainMoveIs
    <3> QED BY <3>3 DEF user, other
  <2> QED BY <2>1, <2>2, <2>3
<1>7. PhazeIndex(b3) # y.active
  BY <1>1, PhazeIs
<1>8. FitsUser(Hurt(Done(Marked(x, cl), No), Untold), S, T) /\ ~Differs(Done(Marked(x, cl),
          No), Hint(Untold, cl))
  <2>1. cl \in Status
    BY Consts
  <2> QED BY <1>1, <2>1, UserMarked
<1>9. FitsOther(y, Hurt(Hurt(y, hp), hp), T) /\ ~Differs(Hurt(y, hp), Hint(hp,
          t.status[t.active]))
  BY <1>1, StruckRight
<1>10. move # NoResult /\ b3 = Bld(p, move, Hint(Untold, cl), Hint(hp, t.status[t.active]), Yes)
  BY PhazeIs DEF None
<1> HIDE DEF move, b3
<1> QED BY <1>5, <1>6, <1>7, <1>8, <1>9, <1>10, NoAndYes, MoveProceeds

\* A sleeping Pokemon calls a move.
LEMMA TalksProceeds ==
  ASSUME NEW p \in Parties, NEW c, NEW x, NEW y, NEW sides, NEW g, NEW s, NEW t,
         CanAct(p, c, x, y, sides, g), s = sides[p], t = sides[Other(p)],
         t.active \in t.living,
         NEW hp \in HP
  PROVE  Proceeds(<<CantLine(p, "still asleep"),
                    MoveLine(p, "sleep_talk", No),
                    MoveLine(p, "hit", No),
                    DamageLine("main effect", Other(p), hp, t.status[t.active])>>,
                  c, BothSides(p, Acted(s), Left(t, hp)), "moving", g)
<1> DEFINE o == Other(p)
           b == BothSides(p, x, y)
           S == Acted(s)
           T == Left(t, hp)
           after == BothSides(p, S, T)
           b1 == Bld(p, Hindrance("still asleep"), None, None, No)
           b2 == Bld(p, Fresh("sleep_talk", No), None, None, No)
           b3 == Bld(p, Used("sleep_talk", "hit", No, Untold, Untold, Untold, Untold, {}),
               None, None, No)
           b4 == Bld(p, Used("sleep_talk", "hit", No, hp, Untold, Untold, Untold, {}), None,
               Hint(hp, t.status[t.active]), No)
           move == Used("sleep_talk", "hit", No, hp, Untold, Untold, Untold, {})
<1>1. /\ Sound(c) /\ (\A nb : Sound(K(nb, b))) /\ b[o] = y /\ y \in ClientRecord
      /\ Matches(x, s) /\ ~x.down /\ ~x.flinched /\ ~s.pivots
      /\ y.active = t.active /\ y.active # Untold
      /\ s \in SideRecord /\ t \in SideRecord /\ x.status[x.active] = s.status[s.active]
      /\ FitsOther(y, y, t) /\ Matches(y, t)
      /\ ~y.down /\ y.status[y.active] = t.status[t.active]
  BY CanActFacts
<1>2. Advances(CantLine(p, "still asleep"), c, K(b1, b), after, g)
  BY BeginsCant
<1>3. Advances(MoveLine(p, "sleep_talk", No), K(b1, b), K(b2, b), after, g)
  <2>1. UseMove(Bld(p, Hindrance("still asleep"), None, None, No), "sleep_talk", No)
          = Bld(p, Fresh("sleep_talk", No), None, None, No)
    <3> DEFINE name == "sleep_talk"
    <3>1. IsUsableAsleep(name)
      BY MoveFacts DEF IsUsableAsleep
    <3> HIDE DEF name
    <3>2. UseMove(Bld(p, Hindrance("still asleep"), None, None, No), name, No)
            = Bld(p, Fresh(name, No), None, None, No)
      BY <3>1, AsleepMoveIs, ZenonT(40)
    <3> QED BY <3>2 DEF name
  <2> QED BY <2>1, StepMove
<1>4. Advances(MoveLine(p, "hit", No), K(b2, b), K(b3, b), after, g)
  BY StepMove, CallsIs
<1>5. Advances(DamageLine("main effect", o, hp, t.status[t.active]), K(b3, b), K(b4, b), after, g)
  BY StepDamaged, MoveFacts DEF None
<1>6. Runs(<<CantLine(p, "still asleep"), MoveLine(p, "sleep_talk", No), MoveLine(p, "hit",
          No), DamageLine("main effect", o, hp, t.status[t.active])>>, c, K(b4, b), after, g)
  <2> HIDE DEF after, b, b1, b2, b3, b4
  <2> QED BY <1>1, <1>2, <1>3, <1>4, <1>5, RunsFour
<1>7. Executed(b, b4) = BothSides(p, Done(x, No), Hurt(y, hp))
  <2>1. Woken(x, No) = x
    BY WokenIs
  <2>2. Struck(y, No, hp) = Hurt(y, hp)
    BY IsHurt
  <2>3. Executed(b, b4) = BothSides(p, Done(Woken(x, No), No), Struck(y, No, hp))
    BY <1>1, PlainMoveIs, MoveFacts, NoAndYes
  <2> QED BY <2>1, <2>2, <2>3
<1>8. PhazeIndex(b4) # y.active
  BY <1>1, PhazeIs
<1>9. FitsUser(Hurt(Done(x, No), Untold), S, T) /\ ~Differs(Done(x, No), Hint(Untold, Untold))
  BY <1>1, UserRight DEF None
<1>10. FitsOther(y, Hurt(Hurt(y, hp), hp), T) /\ ~Differs(Hurt(y, hp), Hint(hp,
           t.status[t.active]))
  BY <1>1, StruckRight
<1>11. move # NoResult /\ b4 = Bld(p, move, Hint(Untold, Untold), Hint(hp, t.status[t.active]),
           No)
  BY PhazeIs DEF None
<1> HIDE DEF move, b4
<1> QED BY <1>6, <1>7, <1>8, <1>9, <1>10, <1>11, NoAndYes, MoveProceeds

IsAwakening(reason) == reason = "awakening"
IsHindrance(reason) == reason \notin {"none", "used"}

LEMMA HindranceIs ==
  ASSUME NEW reason, IsHindrance(reason)
  PROVE  Hindrance(reason) # NoResult
BY DEF Hindrance, NoResult, IsHindrance

LEMMA HinderedMove ==
  ASSUME NEW p \in Parties, NEW x, NEW y, NEW cured \in BOOLEAN, NEW user, NEW other,
         NEW reason, IsHindrance(reason), Stopped(x, cured, reason)
  PROVE  LET m == Bld(p, Hindrance(reason), user, other, cured)
         IN  /\ Executed(BothSides(p, x, y), m) = BothSides(p, Done(Woken(x, cured), No), y)
             /\ PhazeIndex(m) = Untold
<1>1. reason # "used"
  BY DEF IsHindrance
<1> QED BY <1>1, HinderedIs

\* The client's battle has what keeps this Pokemon from moving.
Hinders(s, reason) ==
  reason = "fully paralyzed" \/ s.status[s.active] \in {"sleep", "freeze"}

\* A Pokemon cannot move.
LEMMA IsHinderedProceeds ==
  ASSUME NEW p \in Parties, NEW c, NEW x, NEW y, NEW sides, NEW g, NEW s, NEW t,
         CanAct(p, c, x, y, sides, g), s = sides[p], t = sides[Other(p)],
         NEW reason,
         IsHindrance(reason), Hinders(s, reason)
  PROVE  Proceeds(<<CantLine(p, reason)>>,
                  c, BothSides(p, Acted(s), t), "moving", g)
<1> DEFINE o == Other(p)
           b == BothSides(p, x, y)
           S == Acted(s)
           T == t
           after == BothSides(p, S, T)
           b1 == Bld(p, Hindrance(reason), None, None, No)
           move == Hindrance(reason)
<1>1. /\ Sound(c) /\ (\A nb : Sound(K(nb, b))) /\ b[o] = y /\ y \in ClientRecord
      /\ Matches(x, s) /\ ~x.down /\ ~x.flinched /\ ~s.pivots
      /\ y.active = t.active /\ y.active # Untold
      /\ s \in SideRecord /\ t \in SideRecord /\ x.status[x.active] = s.status[s.active]
      /\ FitsOther(y, y, t) /\ Matches(y, t)
  BY CanActFacts
<1>10. Stopped(x, No, reason)
  <2>1. Woken(x, No) = x
    BY WokenIs
  <2> QED BY <1>1, <2>1 DEF Stopped, Hinders
<1>2. Advances(CantLine(p, reason), c, K(b1, b), after, g)
  BY BeginsCant
<1>3. Runs(<<CantLine(p, reason)>>, c, K(b1, b), after, g)
  <2> HIDE DEF after, b, b1
  <2> QED BY <1>1, <1>2, RunsOne
<1>4. Executed(b, b1) = BothSides(p, Done(x, No), y)
  <2>1. Woken(x, No) = x
    BY WokenIs
  <2>2. Executed(b, b1) = BothSides(p, Done(Woken(x, No), No), y)
    BY <1>10, HinderedMove, NoAndYes
  <2> QED BY <2>1, <2>2
<1>5. PhazeIndex(b1) # y.active
  <2>1. PhazeIndex(b1) = Untold
    BY <1>10, HinderedMove, NoAndYes
  <2> QED BY <1>1, <2>1
<1>6. FitsUser(Hurt(Done(x, No), Untold), S, T) /\ ~Differs(Done(x, No), Hint(Untold, Untold))
  BY <1>1, UserRight DEF None
<1>7. FitsOther(y, Hurt(y, Untold), T) /\ ~Differs(y, Hint(Untold, Untold))
  BY <1>1, OtherRight DEF None
<1>8. move # NoResult /\ b1 = Bld(p, move, Hint(Untold, Untold), Hint(Untold, Untold), No)
  BY HindranceIs DEF None
<1> HIDE DEF move, b1
<1> QED BY <1>3, <1>4, <1>5, <1>6, <1>7, <1>8, NoAndYes, MoveProceeds

Asleep(s) == s.status[s.active] = "sleep"

\* In the first generation waking up takes the turn.
LEMMA WakesUpProceeds ==
  ASSUME NEW p \in Parties, NEW c, NEW x, NEW y, NEW sides, NEW g, NEW s, NEW t,
         CanAct(p, c, x, y, sides, g), s = sides[p], t = sides[Other(p)],
         NEW m,
         WakesUp(m, p), Asleep(s),
         g = 1,
         NEW cl,
         cl = "clear",
         NEW reason,
         IsAwakening(reason)
  PROVE  Proceeds(<<m>>,
                  c, BothSides(p, With(Acted(s), cl), t), "moving", g)
<1> DEFINE o == Other(p)
           b == BothSides(p, x, y)
           S == With(Acted(s), cl)
           T == t
           after == BothSides(p, S, T)
           b1 == Bld(p, Hindrance(reason), Hint(Untold, cl), None, Yes)
           move == Hindrance(reason)
<1>1. /\ Sound(c) /\ (\A nb : Sound(K(nb, b))) /\ b[o] = y /\ y \in ClientRecord
      /\ Matches(x, s) /\ ~x.down /\ ~x.flinched /\ ~s.pivots
      /\ y.active = t.active /\ y.active # Untold
      /\ s \in SideRecord /\ t \in SideRecord /\ x.status[x.active] = s.status[s.active]
      /\ FitsOther(y, y, t) /\ Matches(y, t)
  BY CanActFacts
<1>9. Stopped(x, Yes, reason)
  BY <1>1 DEF Stopped, Asleep, IsAwakening
<1>2. Advances(m, c, K(b1, b), after, g)
  BY BeginsCure DEF WakesUp, IsAwakening
<1>3. Runs(<<m>>, c, K(b1, b), after, g)
  <2> HIDE DEF after, b, b1
  <2> QED BY <1>1, <1>2, RunsOne
<1>4. Executed(b, b1) = BothSides(p, Done(Marked(x, cl), No), y)
  <2>1. Woken(x, Yes) = Marked(x, cl)
    BY WokenIs
  <2>2. Executed(b, b1) = BothSides(p, Done(Woken(x, Yes), No), y)
    <3>1. IsHindrance(reason)
      BY DEF IsHindrance, IsAwakening
    <3>2. Yes \in BOOLEAN
      BY NoAndYes
    <3> DEFINE user == Hint(Untold, cl)
    <3> HIDE DEF user
    <3>3. Executed(BothSides(p, x, y), Bld(p, Hindrance(reason), user, None, Yes))
            = BothSides(p, Done(Woken(x, Yes), No), y)
      BY <1>9, <3>1, <3>2, HinderedMove
    <3> QED BY <3>3 DEF user
  <2> QED BY <2>1, <2>2
<1>5. PhazeIndex(b1) # y.active
  <2>2. IsHindrance(reason)
    BY DEF IsHindrance, IsAwakening
  <2>1. PhazeIndex(b1) = Untold
    BY <1>9, <2>2, HinderedMove, NoAndYes
  <2> QED BY <1>1, <2>1
<1>6. FitsUser(Hurt(Done(Marked(x, cl), No), Untold), S, T) /\ ~Differs(Done(Marked(x, cl),
          No), Hint(Untold, cl))
  <2>1. cl \in Status
    BY Consts
  <2> QED BY <1>1, <2>1, UserMarked
<1>7. FitsOther(y, Hurt(y, Untold), T) /\ ~Differs(y, Hint(Untold, Untold))
  BY <1>1, OtherRight DEF None
<1>8. move # NoResult /\ b1 = Bld(p, move, Hint(Untold, cl), Hint(Untold, Untold), Yes)
  BY HindranceIs DEF None, IsHindrance, IsAwakening
<1> HIDE DEF move, b1
<1> QED BY <1>3, <1>4, <1>5, <1>6, <1>7, <1>8, NoAndYes, MoveProceeds

LEMMA UTurnIs ==
  ASSUME NEW p \in Parties, NEW x, NEW y, ~x.flinched,
         NEW user, NEW other, NEW dam \in HP, NEW flags
  PROVE  Executed(BothSides(p, x, y),
                  Bld(p, Used("u_turn", "u_turn", No, dam, Untold, Untold, Untold, flags),
                      user, other, No))
           = BothSides(p, Done(x, Yes), Hurt(y, dam))
<1> DEFINE exe == "u_turn"
<1>1. exe \in Pivoting /\ exe \notin Thawing \cup Startling \cup ClearsTeamStatus \cup {Rest}
  BY MoveFacts
<1> HIDE DEF exe
<1>2. UserAfter(x, exe, No, dam, Untold, Untold, Untold) = x
  BY <1>1 DEF UserAfter, Recovered
<1>3. OtherAfter(Hurt(y, dam), exe, No, Untold, Untold) = Hurt(y, dam)
  BY <1>1 DEF OtherAfter, No
<1>4. Turns(exe, No) = Yes
  BY <1>1 DEF Turns, No
<1>5. Woken(x, No) = x /\ Struck(y, No, dam) = Hurt(y, dam)
  BY WokenIs, IsHurt
<1>6. Executed(BothSides(p, x, y),
               Bld(p, Used(exe, exe, No, dam, Untold, Untold, Untold, flags), user, other, No))
        = BothSides(p, Done(UserAfter(Woken(x, No), exe, No, dam, Untold, Untold, Untold),
            Turns(exe, No)),
                    OtherAfter(Struck(y, No, dam), exe, No, Untold, Untold))
  BY <1>1, NoAndYes, ExecutedIs
<1> QED BY <1>2, <1>3, <1>4, <1>5, <1>6 DEF exe

LEMMA UserTurns ==
  ASSUME NEW x, NEW s, Matches(x, s), ~x.down, ~s.pivots, NEW T, Alone(s) \/ T.living = {}
  PROVE  /\ ~Differs(Done(x, Yes), None)
         /\ FitsUser(Hurt(Done(x, Yes), Untold), Acted(s), T)
<1>1. /\ Matches(Done(x, Yes), Acted(s)) /\ Done(x, Yes).moved
      /\ Acted(s).active = s.active /\ Acted(s).living = s.living
      /\ ~Acted(s).owes /\ ~Acted(s).pivots
  BY DoneMatches, NoAndYes
<1>2. FitsUser(Done(x, Yes), Acted(s), T)
  BY <1>1 DEF FitsUser, Alone
<1>3. ~Differs(Done(x, Yes), None)
  BY ToldRightly DEF None
<1> QED BY <1>2, <1>3, HurtUntold

\* A U-turn with nobody to come in, or that wins.
LEMMA TurnsBackProceeds ==
  ASSUME NEW p \in Parties, NEW c, NEW x, NEW y, NEW sides, NEW g, NEW s, NEW t,
         CanAct(p, c, x, y, sides, g), s = sides[p], t = sides[Other(p)],
         t.active \in t.living,
         NEW hp \in HP,
         Alone(s) \/ Left(t, hp).living = {}
  PROVE  Proceeds(<<MoveLine(p, "u_turn", No),
                    DamageLine("main effect", Other(p), hp, t.status[t.active])>>,
                  c, BothSides(p, Acted(s), Left(t, hp)), "moving", g)
<1> DEFINE o == Other(p)
           b == BothSides(p, x, y)
           S == Acted(s)
           T == Left(t, hp)
           after == BothSides(p, S, T)
           b1 == Bld(p, Fresh("u_turn", No), None, None, No)
           b2 == Bld(p, Used("u_turn", "u_turn", No, hp, Untold, Untold, Untold, {}), None,
               Hint(hp, t.status[t.active]), No)
           move == Used("u_turn", "u_turn", No, hp, Untold, Untold, Untold, {})
<1>1. /\ Sound(c) /\ (\A nb : Sound(K(nb, b))) /\ b[o] = y /\ y \in ClientRecord
      /\ Matches(x, s) /\ ~x.down /\ ~x.flinched /\ ~s.pivots
      /\ y.active = t.active /\ y.active # Untold
      /\ s \in SideRecord /\ t \in SideRecord /\ x.status[x.active] = s.status[s.active]
      /\ FitsOther(y, y, t) /\ Matches(y, t)
      /\ ~y.down /\ y.status[y.active] = t.status[t.active]
  BY CanActFacts
<1>2. Advances(MoveLine(p, "u_turn", No), c, K(b1, b), after, g)
  BY BeginsMove
<1>3. Advances(DamageLine("main effect", o, hp, t.status[t.active]), K(b1, b), K(b2, b), after, g)
  BY StepDamaged, MoveFacts DEF None, Fresh
<1>4. Runs(<<MoveLine(p, "u_turn", No), DamageLine("main effect", o, hp, t.status[t.active])>>,
          c, K(b2, b), after, g)
  <2> HIDE DEF after, b, b1, b2
  <2> QED BY <1>1, <1>2, <1>3, RunsTwo
<1>5. Executed(b, b2) = BothSides(p, Done(x, Yes), Hurt(y, hp))
  BY <1>1, UTurnIs
<1>6. PhazeIndex(b2) # y.active
  BY <1>1, PhazeIs
<1>7. FitsUser(Hurt(Done(x, Yes), Untold), S, T) /\ ~Differs(Done(x, Yes), Hint(Untold, Untold))
  BY <1>1, UserTurns DEF None
<1>8. FitsOther(y, Hurt(Hurt(y, hp), hp), T) /\ ~Differs(Hurt(y, hp), Hint(hp,
          t.status[t.active]))
  BY <1>1, StruckRight
<1>9. move # NoResult /\ b2 = Bld(p, move, Hint(Untold, Untold), Hint(hp, t.status[t.active]), No)
  BY PhazeIs DEF None
<1> HIDE DEF move, b2
<1> QED BY <1>4, <1>5, <1>6, <1>7, <1>8, <1>9, NoAndYes, MoveProceeds

-----------------------------------------------------------------------------
(* A block that ends within a turn                                         *)

LEMMA ClKeeps ==
  ASSUME NEW a, NEW u, NEW r, NEW b, NEW e
  PROVE  /\ Cl(a, u, r, b, e).action = a /\ Cl(a, u, r, b, e).upkeep = u
         /\ Cl(a, u, r, b, e).result = r /\ Cl(a, u, r, b, e).battle = b
         /\ Cl(a, u, r, b, e).endings = e
BY DEF Cl

LEMMA EndsBlock ==
  ASSUME NEW a, NEW b, NEW next, NEW e, NEW sides, NEW g,
         Performed(b, a) = next, ~PerformThrows(b, a), ~IsEndOfTurn(next, g)
  PROVE  Advances(End, Cl(a, NoUpkeep, "unknown", b, e), Cl(Nothing, NoUpkeep, "unknown", next,
             e),
                  sides, g)
<1> DEFINE c == Cl(a, NoUpkeep, "unknown", b, e)
           d == Cl(Nothing, NoUpkeep, "unknown", next, e)
<1>1. c.action = a /\ c.result = "unknown" /\ c.battle = b /\ c.endings = e
  BY ClKeeps
<1>2. d = Rested(c, next, e)
  BY DEF Rested
<1>3. End.kind = "end"
  BY DEF End
<1> HIDE DEF c, d
<1>4. Accepts(c) /\ CanStart(c, next)
  BY <1>1 DEF Accepts, CanStart
<1>5. ByEnding(End, c, d, g)
  BY <1>1, <1>2, <1>3, <1>4 DEF ByEnding
<1> QED BY <1>5 DEF Advances, c, d

LEMMA MovePerformed ==
  ASSUME NEW p \in Parties, NEW c, NEW x, NEW y, NEW sides, NEW g,
         CanAct(p, c, x, y, sides, g),
         NEW move, NEW cured, NEW u1, NEW u2, NEW o1, NEW o2, move # NoResult,
         NEW xx, NEW yy,
         Executed(BothSides(p, x, y), Bld(p, move, Hint(u1, u2), Hint(o1, o2), cured))
           = BothSides(p, xx, yy),
         PhazeIndex(Bld(p, move, Hint(u1, u2), Hint(o1, o2), cured)) # y.active,
         ~Differs(xx, Hint(u1, u2)), ~Differs(yy, Hint(o1, o2))
  PROVE  LET a == MoveBuilder(Bld(p, move, Hint(u1, u2), Hint(o1, o2), cured))
         IN  /\ Performed(BothSides(p, x, y), a) = BothSides(p, Hurt(xx, u1), Hurt(yy, o1))
             /\ ~PerformThrows(BothSides(p, x, y), a)
<1> DEFINE m == Bld(p, move, Hint(u1, u2), Hint(o1, o2), cured)
           b == BothSides(p, x, y)
           a == MoveBuilder(m)
           X == Hurt(xx, u1)
           Y == Hurt(yy, o1)
<1>1. ~UseMoveThrows(b, m) /\ UsesMove(b, m) = BothSides(p, X, Y)
  BY CompletedMove, CanActFacts
<1>2. Completes(m)
  BY DEF Bld, Completes
<1>3. a.kind = "move" /\ a.builder = m
  BY DEF MoveBuilder
<1> HIDE DEF m, b, a, X, Y
<1>4. Performed(b, a) = BothSides(p, X, Y) /\ ~PerformThrows(b, a)
  BY <1>1, <1>2, <1>3 DEF Performed, PerformThrows
<1> QED BY <1>4 DEF m, b, a, X, Y

LEMMA TwoInTeam ==
  ASSUME NEW s, NEW t, Matches(s, t), ~s.down, ~Alone(t)
  PROVE  Cardinality(s.team) # 1
<1>1. s.team \subseteq Roster /\ s.team = t.living \cup {t.active}
  BY DEF Matches, Follows, ClientRecord
<1>2. IsFiniteSet(s.team)
  BY <1>1, RosterAssumption, FS_Subset
<1>3. PICK q \in t.living : q # t.active
  BY DEF Alone
<1>4. SUFFICES ASSUME Cardinality(s.team) = 1 PROVE FALSE
  OBVIOUS
<1>5. PICK z : s.team = {z}
  BY <1>2, <1>4, FS_Singleton
<1> QED BY <1>1, <1>3, <1>5

LEMMA TurnedMatches ==
  ASSUME NEW x, NEW s, Matches(x, s), ~x.down
  PROVE  /\ Matches(Done(x, Yes), Acted(s))
         /\ ~Done(x, Yes).down /\ Done(x, Yes).moved /\ Done(x, Yes).pivoting
         /\ Acted(s).active = s.active /\ Acted(s).living = s.living /\ Acted(s) \in SideRecord
BY DEF Matches, Follows, Done, Acted, Yes, ClientRecord, SideRecord

\* A U-turn that ends the block, for its player to choose who comes in.
LEMMA PivotsProceeds ==
  ASSUME NEW p \in Parties, NEW c, NEW x, NEW y, NEW sides, NEW g \in Generations,
         NEW s, NEW t,
         CanAct(p, c, x, y, sides, g), s = sides[p], t = sides[Other(p)],
         t.active \in t.living, NEW hp \in HP, g # 1,
         ~Alone(s), Left(t, hp).living # {}
  PROVE  Proceeds(<<MoveLine(p, "u_turn", No),
                    DamageLine("main effect", Other(p), hp, t.status[t.active]), End>>,
                  c, BothSides(p, [Acted(s) EXCEPT !.pivots = TRUE], Left(t, hp)), "pivoting", g)
<1> DEFINE o == Other(p)
           b == BothSides(p, x, y)
           S == [Acted(s) EXCEPT !.pivots = TRUE]
           T == Left(t, hp)
           after == BothSides(p, S, T)
           st == t.status[t.active]
           move == Used("u_turn", "u_turn", No, hp, Untold, Untold, Untold, {})
           b1 == Bld(p, Fresh("u_turn", No), None, None, No)
           b2 == Bld(p, move, None, Hint(hp, st), No)
           X == Done(x, Yes)
           Y == Hurt(y, hp)
           next == BothSides(p, X, Y)
           d == Cl(Nothing, NoUpkeep, "unknown", next, 0)
<1>1. /\ Sound(c) /\ (\A nb : Sound(K(nb, b))) /\ b[o] = y /\ y \in ClientRecord
      /\ Matches(x, s) /\ ~x.down /\ ~x.flinched /\ ~s.pivots
      /\ y.active = t.active /\ y.active # Untold
      /\ s \in SideRecord /\ t \in SideRecord
      /\ FitsOther(y, y, t) /\ Matches(y, t)
      /\ ~y.down /\ y.status[y.active] = t.status[t.active]
  BY CanActFacts
<1>2. Advances(MoveLine(p, "u_turn", No), c, K(b1, b), after, g)
  BY BeginsMove
<1>3. Advances(DamageLine("main effect", o, hp, st), K(b1, b), K(b2, b), after, g)
  BY StepDamaged, MoveFacts DEF None, Fresh
<1>4. Executed(b, b2) = BothSides(p, X, Y)
  BY <1>1, UTurnIs
<1>5. PhazeIndex(b2) # y.active /\ move # NoResult
  BY <1>1, PhazeIs
<1>6. ~Differs(X, None)
  BY ToldRightly DEF None
<1>7. FitsOther(y, Hurt(Hurt(y, hp), hp), T) /\ ~Differs(Y, Hint(hp, st))
  BY <1>1, StruckRight
<1>8. Hurt(X, Untold) = X /\ Hurt(Y, hp) = Y
  BY <1>1, HurtUntold, HurtAgain
<1>9. Performed(b, MoveBuilder(b2)) = next /\ ~PerformThrows(b, MoveBuilder(b2))
  <2> HIDE DEF move, X, Y, st
  <2>1. LET a == MoveBuilder(Bld(p, move, Hint(Untold, Untold), Hint(hp, st), No))
        IN  /\ Performed(BothSides(p, x, y), a) = BothSides(p, Hurt(X, Untold), Hurt(Y, hp))
            /\ ~PerformThrows(BothSides(p, x, y), a)
    BY <1>4, <1>5, <1>6, <1>7, MovePerformed DEF None
  <2> QED BY <1>8, <2>1 DEF None
<1>10. /\ Matches(X, Acted(s)) /\ ~X.down /\ X.moved /\ X.pivoting
       /\ Acted(s).active = s.active /\ Acted(s).living = s.living /\ Acted(s) \in SideRecord
  BY <1>1, TurnedMatches
<1>11. /\ S.pivots /\ ~S.owes /\ S.active = s.active /\ S.living = s.living /\ Matches(X, S)
  <2>1. /\ S \in SideRecord /\ S.pivots /\ ~S.owes /\ S.active = s.active /\ S.living = s.living
        /\ S.status = Acted(s).status
    BY <1>1, <1>10 DEF SideRecord, Acted
  <2> HIDE DEF S, X
  <2> QED BY <1>10, <2>1 DEF Matches, Follows
<1>12. /\ Matches(Y, T) /\ Y.moved = ~T.owes /\ ~T.pivots /\ (Y.pivoting => Alone(T))
  BY <1>7, <1>8 DEF FitsOther
<1> HIDE DEF S, T, X, Y
<1>13. /\ next[p] = X /\ next[o] = Y /\ after[p] = S /\ after[o] = T
       /\ o \in Parties /\ o # p /\ Other(o) = p /\ \A q \in Parties : q = p \/ q = o
  BY TwoSides, BothSidesFacts
<1>14. WellFormed(next) /\ after \in [Parties -> SideRecord] /\ AllFollow(next, after)
  BY <1>11, <1>12, MatchesBoth
<1> HIDE DEF next, after, o
<1>15. ~IsEndOfTurn(next, g)
  <2>1. ~Alone(S)
    BY <1>11 DEF Alone
  <2>2. Cardinality(X.team) # 1
    BY <1>10, <1>11, <2>1, TwoInTeam
  <2>3. ~IsDoneMoving(next, p) /\ ~next[p].down
    BY <1>10, <1>13, <2>2 DEF IsDoneMoving, Size
  <2> QED BY <2>3, NotEnd
<1>16. Advances(End, K(b2, b), d, after, g)
  <2> HIDE DEF b2, b
  <2> QED BY <1>9, <1>15, EndsBlock DEF K
<1>17. Sound(d) /\ Performed(next, Nothing) = next /\ ~PerformThrows(next, Nothing)
  BY <1>14, SoundCl, NoUpkeepIs DEF Nothing, Performed, PerformThrows
<1>18. Runs(<<MoveLine(p, "u_turn", No), DamageLine("main effect", o, hp, st), End>>, c, d,
           after, g)
  <2> HIDE DEF b, b1, b2, d
  <2> QED BY <1>1, <1>2, <1>3, <1>16, <1>17, RunsThree
<1>19. InTurn(next, Nothing, after)
  <2>1. ASSUME NEW q \in Parties
        PROVE  /\ next[q].moved = ~after[q].owes
               /\ next[q].pivoting => Alone(after[q]) \/ Gone(after, Other(q)) \/ after[q].pivots
               /\ next[q].down => \E r \in Parties : next[r].moved
    <3>1. CASE q = p
      BY <1>10, <1>11, <1>13, <3>1
    <3>2. CASE q = o
      BY <1>10, <1>12, <1>13, <3>2
    <3> QED BY <1>13, <3>1, <3>2
  <2> QED BY <1>17, <2>1 DEF InTurn
<1>20. /\ after[p].pivots /\ ~after[Other(p)].pivots /\ ~after[p].owes
       /\ ~next[p].down /\ next[p].pivoting /\ ~Alone(after[p]) /\ ~Gone(after, Other(p))
  BY <1>10, <1>11, <1>12, <1>13 DEF Alone, Gone, o, T
<1>21. d.action = Nothing /\ d.upkeep = NoUpkeep /\ d.result = "unknown" /\ d.battle = next
       /\ d.endings = 0
  BY ClKeeps
<1> HIDE DEF d
<1>22. Settled(d, after, "pivoting")
  BY <1>14, <1>17, <1>19, <1>20, <1>21 DEF Settled
<1>23. ServerOK(after, "pivoting")
  BY <1>14 DEF ServerOK, Phases
<1> QED BY <1>18, <1>22, <1>23 DEF Proceeds, after, o, S, T

-----------------------------------------------------------------------------
(* A move that makes the target flinch                                     *)

LEMMA HurtAlready ==
  ASSUME NEW z \in ClientRecord, NEW hp \in HP, z.down = (hp = "down")
  PROVE  Hurt(z, hp) = z
<1> DEFINE v == (hp = "down")
<1>1. v \in BOOLEAN /\ hp # Untold /\ z.down = v
  BY Consts
<1>2. Hurt(z, hp) = [z EXCEPT !.down = v]
  BY <1>1 DEF Hurt
<1> HIDE DEF v
<1>3. ASSUME NEW e, e = [z EXCEPT !.down = v]
      PROVE  e = z
  BY <1>1, <1>3 DEF ClientRecord
<1> QED BY <1>2, <1>3

\* Whoever is hurt and flinches
LEMMA FlinchedFits ==
  ASSUME NEW y, NEW t, FitsOther(y, y, t), ~y.down, NEW hp \in HP
  PROVE  LET Y == Flinched(Hurt(y, hp))
             T == Acted(Left(t, hp))
         IN  /\ FitsOther(y, Y, T) /\ Hurt(Y, hp) = Y
             /\ ~Y.pivoting /\ Y.flinched /\ Y.moved /\ Y.down = (hp = "down")
             /\ Y.active = y.active /\ Y.status = y.status
<1>1. Matches(y, t) /\ ~t.pivots
  BY DEF FitsOther
<1>0. /\ Matches(Hurt(y, hp), Left(t, hp))
      /\ Hurt(y, hp).down = (hp = "down")
      /\ Hurt(y, hp).active = y.active /\ Hurt(y, hp).status = y.status
      /\ Left(t, hp).pivots = t.pivots
  <2>1. Matches(Hurt(y, hp), Left(t, hp))
    BY <1>1, HurtMatches
  <2>2. Left(t, hp).pivots = t.pivots
    BY <1>1 DEF Left, Matches, SideRecord
  <2>3. Hurt(y, hp) = [y EXCEPT !.down = (hp = "down")] /\ y \in ClientRecord
    BY <1>1, Consts DEF Hurt, Matches
  <2>4. /\ Hurt(y, hp).down = (hp = "down")
        /\ Hurt(y, hp).active = y.active /\ Hurt(y, hp).status = y.status
    BY <2>3 DEF ClientRecord
  <2> QED BY <2>1, <2>2, <2>4
<1> DEFINE h == Hurt(y, hp)
           l == Left(t, hp)
           Y == Flinched(h)
           T == Acted(l)
<1>2. /\ Matches(h, l) /\ h.down = (hp = "down") /\ h.active = y.active /\ h.status = y.status
      /\ ~l.pivots
  <2>1. /\ Matches(h, l) /\ h.down = (hp = "down") /\ h.active = y.active
        /\ h.status = y.status /\ l.pivots = t.pivots
    BY <1>0
  <2> HIDE DEF h, l
  <2> QED BY <1>1, <2>1
<1> HIDE DEF h, l
<1>3. /\ Matches(Y, T) /\ Y.active = h.active /\ Y.down = h.down /\ Y.status = h.status
      /\ Y.flinched /\ Y.moved /\ ~Y.pivoting /\ ~T.owes /\ T.pivots = l.pivots
  BY <1>2, FlinchedMatches
<1> HIDE DEF Y, T
<1>4. FitsOther(y, Y, T)
  BY <1>2, <1>3 DEF FitsOther
<1>5. Hurt(Y, hp) = Y
  BY <1>2, <1>3, HurtAlready DEF Matches
<1> QED BY <1>2, <1>3, <1>4, <1>5 DEF Y, T, h, l

LEMMA StartlingMoveIs ==
  ASSUME NEW p \in Parties, NEW x, NEW y, ~x.flinched, NEW user, NEW other, NEW dam \in HP,
         NEW flags
  PROVE  Executed(BothSides(p, x, y),
                  Bld(p, Used("fake_out", "fake_out", No, dam, Untold, Untold, Untold, flags),
                      user, other, No))
           = BothSides(p, Done(x, No), Flinched(Hurt(y, dam)))
<1> DEFINE exe == "fake_out"
<1>1. exe \in Startling /\ exe \notin Pivoting \cup Thawing \cup ClearsTeamStatus \cup {Rest}
  BY MoveFacts
<1> HIDE DEF exe
<1>2. UserAfter(x, exe, No, dam, Untold, Untold, Untold) = x
  BY <1>1 DEF UserAfter, Recovered
<1>3. OtherAfter(Hurt(y, dam), exe, No, Untold, Untold) = Flinched(Hurt(y, dam))
  BY <1>1 DEF OtherAfter, No
<1>4. Turns(exe, No) = No
  BY <1>1, NoPivot
<1>5. Woken(x, No) = x /\ Struck(y, No, dam) = Hurt(y, dam)
  BY WokenIs, IsHurt
<1>6. Executed(BothSides(p, x, y),
               Bld(p, Used(exe, exe, No, dam, Untold, Untold, Untold, flags), user, other, No))
        = BothSides(p, Done(UserAfter(Woken(x, No), exe, No, dam, Untold, Untold, Untold),
            Turns(exe, No)),
                    OtherAfter(Struck(y, No, dam), exe, No, Untold, Untold))
  BY <1>1, NoAndYes, ExecutedIs
<1> QED BY <1>2, <1>3, <1>4, <1>5, <1>6 DEF exe

\* The messages of the move itself, and what the client makes of them
Startles(p, x, y, hp, status) ==
  K(Bld(p, Used("fake_out", "fake_out", No, hp, Untold, Untold, Untold, {}),
        None, Hint(hp, status), No), BothSides(p, x, y))

LEMMA StartlingRuns ==
  ASSUME NEW p \in Parties, NEW c, NEW x, NEW y, NEW sides, NEW g, NEW t,
         CanAct(p, c, x, y, sides, g), t = sides[Other(p)], t.active \in t.living,
         NEW hp \in HP, NEW after
  PROVE  Runs(<<MoveLine(p, "fake_out", No),
                DamageLine("main effect", Other(p), hp, t.status[t.active])>>,
              c, Startles(p, x, y, hp, t.status[t.active]), after, g)
<1> DEFINE o == Other(p)
           b == BothSides(p, x, y)
           b1 == Bld(p, Fresh("fake_out", No), None, None, No)
           d == Startles(p, x, y, hp, t.status[t.active])
<1>1. Sound(c) /\ (\A nb : Sound(K(nb, b)))
  BY CanActFacts
<1>2. Advances(MoveLine(p, "fake_out", No), c, K(b1, b), after, g)
  BY BeginsMove
<1>3. Advances(DamageLine("main effect", o, hp, t.status[t.active]), K(b1, b), d, after, g)
  BY StepDamaged, MoveFacts DEF None, Fresh, Startles
<1>4. Sound(d)
  BY <1>1 DEF Startles
<1> HIDE DEF b, b1, d
<1> QED BY <1>1, <1>2, <1>3, <1>4, RunsTwo DEF d

\* What the client's battle becomes by it
LEMMA StartlingPerformed ==
  ASSUME NEW p \in Parties, NEW c, NEW x, NEW y, NEW sides, NEW g, NEW s, NEW t,
         CanAct(p, c, x, y, sides, g), s = sides[p], t = sides[Other(p)],
         t.active \in t.living, NEW hp \in HP
  PROVE  LET move == Used("fake_out", "fake_out", No, hp, Untold, Untold, Untold, {})
             m == Bld(p, move, None, Hint(hp, t.status[t.active]), No)
             X == Done(x, No)
             Y == Flinched(Hurt(y, hp))
         IN  /\ Executed(BothSides(p, x, y), m) = BothSides(p, X, Y)
             /\ PhazeIndex(m) # y.active /\ move # NoResult
             /\ ~Differs(X, None) /\ ~Differs(Y, Hint(hp, t.status[t.active]))
             /\ FitsUser(X, Acted(s), Acted(Left(t, hp))) /\ Hurt(X, Untold) = X
             /\ FitsOther(y, Y, Acted(Left(t, hp))) /\ Hurt(Y, hp) = Y
             /\ Y.flinched /\ Y.moved /\ ~Y.pivoting /\ Y.down = (hp = "down")
<1> DEFINE T == Acted(Left(t, hp))
           Y == Flinched(Hurt(y, hp))
<1>1. /\ Matches(x, s) /\ ~x.down /\ ~x.flinched /\ ~s.pivots /\ y.active # Untold
      /\ FitsOther(y, y, t) /\ ~y.down /\ y.status[y.active] = t.status[t.active]
  BY CanActFacts
<1>2. /\ FitsOther(y, Y, T) /\ Hurt(Y, hp) = Y /\ Y.flinched /\ Y.moved /\ ~Y.pivoting
      /\ Y.down = (hp = "down")
      /\ Y.active = y.active /\ Y.status = y.status
  BY <1>1, FlinchedFits
<1>3. ~Differs(Y, Hint(hp, t.status[t.active]))
  <2> HIDE DEF Y
  <2>1. t.status[t.active] = Y.status[Y.active]
    BY <1>1, <1>2
  <2> QED BY <2>1, ToldRightly
<1> HIDE DEF Y, T
<1>4. ~Differs(Done(x, No), None) /\ FitsUser(Done(x, No), Acted(s), T)
  BY <1>1, UserRight, UserFits
<1>5. Executed(BothSides(p, x, y),
               Bld(p, Used("fake_out", "fake_out", No, hp, Untold, Untold, Untold, {}), None,
                   Hint(hp, t.status[t.active]), No)) = BothSides(p, Done(x, No), Y)
  BY <1>1, StartlingMoveIs DEF Y
<1> QED BY <1>1, <1>2, <1>3, <1>4, <1>5, PhazeIs, HurtUntold DEF Y, T

\* It had moved, or has fainted: nothing more is told.
LEMMA StartlesProceeds ==
  ASSUME NEW p \in Parties, NEW c, NEW x, NEW y, NEW sides, NEW g, NEW s, NEW t,
         CanAct(p, c, x, y, sides, g), s = sides[p], t = sides[Other(p)],
         t.active \in t.living, NEW hp \in HP
  PROVE  Proceeds(<<MoveLine(p, "fake_out", No),
                    DamageLine("main effect", Other(p), hp, t.status[t.active])>>,
                  c, BothSides(p, Acted(s), Acted(Left(t, hp))), "moving", g)
<1> DEFINE st == t.status[t.active]
           move == Used("fake_out", "fake_out", No, hp, Untold, Untold, Untold, {})
           m == Bld(p, move, None, Hint(hp, st), No)
           X == Done(x, No)
           Y == Flinched(Hurt(y, hp))
           S == Acted(s)
           T == Acted(Left(t, hp))
           b == BothSides(p, x, y)
           lines == <<MoveLine(p, "fake_out", No), DamageLine("main effect", Other(p), hp, st)>>
<1>1. /\ Executed(b, m) = BothSides(p, X, Y)
      /\ PhazeIndex(m) # y.active /\ move # NoResult
      /\ ~Differs(X, None) /\ ~Differs(Y, Hint(hp, st))
      /\ FitsUser(X, S, T) /\ Hurt(X, Untold) = X
      /\ FitsOther(y, Y, T) /\ Hurt(Y, hp) = Y
  BY StartlingPerformed
<1>2. Runs(lines, c, K(m, b), BothSides(p, S, T), g)
  BY StartlingRuns DEF Startles
<1>3. m = Bld(p, move, Hint(Untold, Untold), Hint(hp, st), No) /\ None = Hint(Untold, Untold)
  BY DEF None
<1> HIDE DEF move, m, X, Y, S, T, lines, st
<1>4. Proceeds(lines, c, BothSides(p, S, T), "moving", g)
  <2>1. FitsUser(Hurt(X, Untold), S, T) /\ FitsOther(y, Hurt(Y, hp), T)
    BY <1>1
  <2> QED BY <1>1, <1>2, <1>3, <2>1, MoveProceeds DEF b
<1> QED BY <1>4 DEF lines, S, T, st

IsFlinch(reason) == reason \notin {"none", "used", "still asleep"}

\* It has yet to move: the message that it flinched performs the move, and is
\* stopped in the client's battle too.
LEMMA FlinchesProceeds ==
  ASSUME NEW p \in Parties, NEW c, NEW x, NEW y, NEW sides, NEW g, NEW s, NEW t,
         CanAct(p, c, x, y, sides, g), s = sides[p], t = sides[Other(p)],
         t.active \in t.living, NEW hp \in HP, hp = "up", NEW reason, IsFlinch(reason)
  PROVE  Proceeds(<<MoveLine(p, "fake_out", No),
                    DamageLine("main effect", Other(p), hp, t.status[t.active])>>
                    \o <<CantLine(Other(p), reason)>>,
                  c, BothSides(p, Acted(s), Acted(Left(t, hp))), "moving", g)
<1> DEFINE o == Other(p)
           st == t.status[t.active]
           move == Used("fake_out", "fake_out", No, hp, Untold, Untold, Untold, {})
           m == Bld(p, move, None, Hint(hp, st), No)
           a == MoveBuilder(m)
           m2 == Bld(o, Hindrance(reason), None, None, No)
           a2 == MoveBuilder(m2)
           X == Done(x, No)
           Y == Flinched(Hurt(y, hp))
           Z == Done(Y, No)
           S == Acted(s)
           T == Acted(Left(t, hp))
           after == BothSides(p, S, T)
           b == BothSides(p, x, y)
           b2 == BothSides(p, X, Y)
           lines == <<MoveLine(p, "fake_out", No), DamageLine("main effect", Other(p), hp, st)>>
           line == CantLine(o, reason)
           c1 == K(m, b)
           c2 == K(m2, b2)
<1>1. /\ Executed(b, m) = BothSides(p, X, Y)
      /\ PhazeIndex(m) # y.active /\ move # NoResult
      /\ ~Differs(X, None) /\ ~Differs(Y, Hint(hp, st))
      /\ FitsUser(X, S, T) /\ Hurt(X, Untold) = X
      /\ FitsOther(y, Y, T) /\ Hurt(Y, hp) = Y
      /\ Y.flinched /\ Y.moved /\ ~Y.pivoting /\ ~Y.down
  <2>1. /\ Executed(b, m) = BothSides(p, X, Y)
        /\ PhazeIndex(m) # y.active /\ move # NoResult
        /\ ~Differs(X, None) /\ ~Differs(Y, Hint(hp, st))
        /\ FitsUser(X, S, T) /\ Hurt(X, Untold) = X
        /\ FitsOther(y, Y, T) /\ Hurt(Y, hp) = Y
        /\ Y.flinched /\ Y.moved /\ ~Y.pivoting /\ Y.down = (hp = "down")
    BY StartlingPerformed
  <2>2. hp # "down"
    OBVIOUS
  <2> HIDE DEF X, Y, S, T, b, m, move, st
  <2> QED BY <2>1, <2>2
<1>2. Runs(lines, c, c1, after, g)
  BY StartlingRuns DEF Startles
<1>3. o \in Parties /\ Other(o) = p
  BY TwoSides
<1>4. None = Hint(Untold, Untold)
  BY DEF None
<1>5. Performed(b, a) = b2 /\ ~PerformThrows(b, a)
  <2> HIDE DEF move, X, Y, b, st
  <2>1. /\ Performed(b, MoveBuilder(Bld(p, move, Hint(Untold, Untold), Hint(hp, st), No)))
             = BothSides(p, Hurt(X, Untold), Hurt(Y, hp))
        /\ ~PerformThrows(b, MoveBuilder(Bld(p, move, Hint(Untold, Untold), Hint(hp, st), No)))
    BY <1>1, <1>4, MovePerformed DEF b
  <2> QED BY <1>1, <1>4, <2>1
<1>6. /\ Matches(X, S) /\ X.moved /\ ~X.pivoting /\ ~X.down /\ Matches(Y, T) /\ Y.moved
      /\ ~S.owes /\ ~S.pivots /\ ~T.owes /\ ~T.pivots
  <2>1. Matches(x, s) /\ ~x.down
    BY CanActFacts
  <2>2. X.down = x.down /\ X.pivoting = No
    BY <2>1, DoneMatches, NoAndYes
  <2> HIDE DEF X, Y, S, T
  <2> QED BY <1>1, <2>1, <2>2, NoAndYes DEF FitsUser, FitsOther
<1>7. WellFormed(b2)
  <2> HIDE DEF X, Y, S, T
  <2> QED BY <1>6, MatchesBoth
<1>8. b2 = BothSides(o, Y, X) /\ after = BothSides(o, T, S)
      /\ BothSides(p, X, Z) = BothSides(o, Z, X)
  <2> HIDE DEF X, Y, Z, S, T
  <2> QED BY <1>3, TwoSides DEF BothSides
<1>9. Advances(line, c1, c2, after, g)
  <2>1. c1.action = a /\ c1.battle = b
    BY KIs
  <2>2. c2 = Then(c1, a2)
    BY <1>5, <2>1 DEF Then, K, Cl
  <2>3. Accepts(c1)
    BY <1>5, <2>1 DEF Accepts
  <2>4. Started(line, c1, g, m2) /\ ~m2.threw
    <3>1. SetMoveState(MakeBuilder(o), Hindrance(reason)) = m2
      BY FreshStatus DEF None
    <3>2. line.kind = "cant" /\ line.party = o /\ line.reason = reason
      BY DEF CantLine
    <3>3. reason # "still asleep"
      BY DEF IsFlinch
    <3>4. ~m2.threw
      BY BldIs
    <3> HIDE DEF m2, line, c1
    <3> QED BY <3>1, <3>2, <3>3, <3>4 DEF Started
  <2> HIDE DEF line, c1, c2, m2, after
  <2>5. ByStarting(line, c1, c2, g)
    BY <2>2, <2>3, <2>4 DEF ByStarting
  <2> QED BY <2>5 DEF Advances
<1>10. Sound(c1) /\ Sound(c2)
  <2>1. \A nb : Sound(K(nb, b))
    BY CanActFacts
  <2> HIDE DEF b2, m2, m, b
  <2> QED BY <1>7, <2>1, SoundK
<1>11. Runs(lines \o <<line>>, c, c2, after, g)
  <2> HIDE DEF lines, line, c1, c2, after
  <2>1. Runs(<<line>>, c1, c2, after, g)
    BY <1>9, <1>10, RunsOne
  <2> QED BY <1>2, <2>1, RunsApp
<1>12. Performed(b2, a2) = BothSides(o, Z, X) /\ ~PerformThrows(b2, a2)
  <2>1. Executed(BothSides(o, Y, X), m2) = BothSides(o, Z, X) /\ PhazeIndex(m2) = Untold
    <3>1. IsHindrance(reason) /\ Stopped(Y, No, reason)
      <4> HIDE DEF Y
      <4> QED BY <1>1 DEF IsFlinch, IsHindrance, Stopped
    <3>2. Woken(Y, No) = Y
      BY WokenIs
    <3> HIDE DEF X, Y
    <3> QED BY <1>3, <3>1, <3>2, HinderedMove, NoAndYes DEF Z
  <2>2. Completes(m2) /\ m2.party = o
    BY HindranceIs DEF Bld, Completes, IsHindrance, IsFlinch
  <2>3. a2.kind = "move" /\ a2.builder = m2
    BY DEF MoveBuilder
  <2>4. ~Differs(Z, None) /\ ~Differs(X, None)
    BY ToldRightly DEF None
  <2>5. X.active # Untold
    <3> HIDE DEF X
    <3> QED BY <1>6, Consts DEF Matches, ClientRecord
  <2>6. ~UseMoveThrows(b2, m2) /\ UsesMove(b2, m2) = BothSides(o, Z, X)
    <3>1. m2 = Bld(o, Hindrance(reason), Hint(Untold, Untold), Hint(Untold, Untold), No)
      BY <1>4
    <3> DEFINE res == Hindrance(reason)
    <3> HIDE DEF X, Y, Z, b2, m2, res
    <3>2. m2 = Bld(o, res, Hint(Untold, Untold), Hint(Untold, Untold), No)
      BY <3>1 DEF res
    <3>3. LET bb == BothSides(o, Y, X)
          IN  /\ ~UseMoveThrows(bb, m2)
              /\ UsesMove(bb, m2) = BothSides(o, Hurt(Z, Untold), Hurt(X, Untold))
      BY <1>1, <1>3, <1>4, <2>1, <2>4, <2>5, <3>2, CompletedMove
    <3> QED BY <1>8, <3>3, HurtUntold
  <2> HIDE DEF a2, m2, b2, Z, X
  <2> QED BY <2>2, <2>3, <2>6 DEF Performed, PerformThrows
<1>13. Matches(Z, T) /\ Z.moved /\ ~Z.pivoting /\ Z.down = Y.down
  <2> HIDE DEF Y, T
  <2>1. Matches(Z, Acted(T)) /\ Z.moved = TRUE /\ Z.pivoting = No /\ Z.down = Y.down
    BY <1>6, DoneMatches, NoAndYes
  <2>2. Acted(T) = T
    <3>1. T \in SideRecord /\ ~T.owes
      BY <1>6 DEF Matches
    <3> QED BY <3>1 DEF Acted, SideRecord
  <2> QED BY <2>1, <2>2, NoAndYes
<1>14. MovePending(a2, after)
  <2>1. a2.kind = "move" /\ a2.builder = m2 /\ m2.party = o
    BY DEF MoveBuilder, Bld
  <2>2. after[o] = T
    BY BothSidesFacts
  <2> HIDE DEF a2, m2, after, T
  <2> QED BY <1>3, <1>6, <2>1, <2>2 DEF MovePending
<1>15. b2[o] = Y /\ b2[Other(o)] = X
  BY <1>3, BothSidesFacts
<1>16. /\ Settled(Cl(a2, NoUpkeep, "unknown", b2, 0), after, "moving")
       /\ ServerOK(after, "moving")
  <2> HIDE DEF a2, b2, X, Y, Z, S, T, after
  <2>1. MovePending(a2, BothSides(o, T, S))
    BY <1>8, <1>14
  <2>2. /\ Settled(Cl(a2, NoUpkeep, "unknown", b2, 0), BothSides(o, T, S), "moving")
        /\ ServerOK(BothSides(o, T, S), "moving")
    BY <1>1, <1>3, <1>6, <1>7, <1>12, <1>13, <1>15, <2>1, TurnSettles
  <2> QED BY <1>8, <2>2
<1>17. c2 = Cl(a2, NoUpkeep, "unknown", b2, 0)
  BY DEF K
<1> HIDE DEF lines, line, c2, after, a2, b2
<1>18. Proceeds(lines \o <<line>>, c, after, "moving", g)
  BY <1>11, <1>16, <1>17 DEF Proceeds
<1> QED BY <1>18 DEF lines, line, after, o, st, S, T

-----------------------------------------------------------------------------
(* Confusion                                                               *)

SelfHit(p, hp, status) == [kind |-> "hits self", party |-> p, hp |-> hp, status |-> status]

LEMMA HitsItselfProceeds ==
  ASSUME NEW p \in Parties, NEW c, NEW x, NEW y, NEW sides, NEW g, NEW s, NEW t,
         CanAct(p, c, x, y, sides, g), s = sides[p], t = sides[Other(p)],
         NEW hp \in HP
  PROVE  Proceeds(<<DamageLine("confusion", p, hp, s.status[s.active])>>,
                  c, BothSides(p, Left(Acted(s), hp), t), "moving", g)
<1> DEFINE b == BothSides(p, x, y)
           m == DamageLine("confusion", p, hp, s.status[s.active])
           a == SelfHit(p, hp, s.status[s.active])
           S == Left(Acted(s), hp)
           X == Hurt(Done(x, No), hp)
           after == BothSides(p, S, t)
           d == Cl(a, NoUpkeep, "unknown", b, 0)
<1>1. /\ Sound(c) /\ Accepts(c) /\ WellFormed(b) /\ b[p] = x /\ b[Other(p)] = y
      /\ c.upkeep = NoUpkeep /\ c.result = "unknown" /\ c.endings = 0
      /\ Performed(c.battle, c.action) = b
      /\ Matches(x, s) /\ ~x.down /\ ~s.pivots /\ x \in ClientRecord
      /\ x.status[x.active] = s.status[s.active] /\ FitsOther(y, y, t)
  BY CanActFacts
<1>2. FitsUser(X, S, t)
  BY <1>1, UserFits
<1>3. a.kind = "hits self" /\ a.party = p /\ a.hp = hp /\ a.status = s.status[s.active]
  BY DEF SelfHit
<1>4. ~Differs(X, a)
  <2>1. X.status = x.status /\ X.active = x.active
    BY <1>1 DEF Hurt, Done, ClientRecord
  <2> HIDE DEF X, a
  <2> QED BY <1>1, <1>3, <2>1 DEF Differs
<1>5. HitsSelf(b, p, a) = BothSides(p, X, y) /\ ~OutOfSync(HitsSelf(b, p, a), p, a)
  <2> HIDE DEF a, m
  <2> QED BY <1>3, <1>4, HitsSelfIs, ZenonT(40)
<1>6. /\ m.kind = "hit self" /\ m.party = p /\ m.hp = hp /\ m.status = s.status[s.active]
  <2>1. m = Told3("hit self", p, hp, s.status[s.active])
    BY Lines
  <2> HIDE DEF m
  <2> QED BY <2>1 DEF Told3
<1> HIDE DEF b, S, X
<1>7. d = Then(c, [kind |-> "hits self", party |-> m.party, hp |-> m.hp, status |-> m.status])
  BY <1>1, <1>6 DEF Then, SelfHit
<1>8. Advances(m, c, d, after, g)
  <2> HIDE DEF m, d, after
  <2>1. ByHittingSelf(m, c, d)
    BY <1>1, <1>6, <1>7 DEF ByHittingSelf
  <2> QED BY <2>1 DEF Advances
<1> HIDE DEF m, a
<1>9. Performed(b, a) = BothSides(p, X, y) /\ ~PerformThrows(b, a)
  BY <1>3, <1>5 DEF Performed, PerformThrows
<1>10. MovePending(a, after)
  <2>1. after[p] = S
    BY BothSidesFacts
  <2> HIDE DEF after
  <2> QED BY <1>2, <1>3, <2>1 DEF MovePending, FitsUser
<1>11. /\ Settled(d, after, "moving") /\ Sound(d) /\ ServerOK(after, "moving")
  <2>1. ~x.moved
    BY DEF CanAct
  <2> QED BY <1>1, <1>2, <1>9, <1>10, <2>1, TurnSettles, ZenonT(40)
         DEF FitsUser, FitsOther
<1>12. Runs(<<m>>, c, d, after, g)
  <2> HIDE DEF d, after
  <2> QED BY <1>1, <1>8, <1>11, RunsOne
<1> QED BY <1>11, <1>12 DEF Proceeds, S, m

-----------------------------------------------------------------------------
(* Switches: the pending list, and what it does                            *)

Comes(p, new, hp, status) == [party |-> p, index |-> new, hp |-> hp, status |-> status]

Fixed(e, m) == [e EXCEPT !.hp = m.hp, !.status = m.status]

LEMMA ComesIs ==
  ASSUME NEW p, NEW new, NEW hp, NEW status
  PROVE  /\ Comes(p, new, hp, status).party = p /\ Comes(p, new, hp, status).index = new
         /\ Comes(p, new, hp, status).hp = hp /\ Comes(p, new, hp, status).status = status
         /\ p \in Parties /\ new \in Roster /\ hp \in HP /\ status \in Status
              => Comes(p, new, hp, status) \in SwitchRecord
BY DEF Comes, SwitchRecord

LEMMA FixedIs ==
  ASSUME NEW p, NEW new, NEW hp, NEW status, NEW m
  PROVE  Fixed(Comes(p, new, hp, status), m) = Comes(p, new, m.hp, m.status)
<1> DEFINE h == m.hp
           st == m.status
<1>1. Fixed(Comes(p, new, hp, status), m) = [Comes(p, new, hp, status) EXCEPT !.hp = h,
          !.status = st]
  BY DEF Fixed
<1> HIDE DEF h, st
<1>2. ASSUME NEW e, e = [Comes(p, new, hp, status) EXCEPT !.hp = h, !.status = st]
      PROVE  e = Comes(p, new, h, st)
  BY <1>2 DEF Comes
<1> QED BY <1>1, <1>2 DEF h, st

LEMMA Found ==
  ASSUME NEW e
  PROVE  /\ FindSwitch(<<e>>, e.party) = {1}
         /\ \A q : q # e.party => FindSwitch(<<e>>, q) = {}
<1>1. DOMAIN <<e>> = {1} /\ <<e>>[1] = e
  OBVIOUS
<1> QED BY <1>1 DEF FindSwitch

LEMMA FoundOfTwo ==
  ASSUME NEW e, NEW f, e.party # f.party
  PROVE  /\ FindSwitch(<<e, f>>, e.party) = {1}
         /\ FindSwitch(<<e, f>>, f.party) = {2}
<1>1. DOMAIN <<e, f>> = {1, 2} /\ <<e, f>>[1] = e /\ <<e, f>>[2] = f
  OBVIOUS
<1> QED BY <1>1 DEF FindSwitch

LEMMA CorrectedOne ==
  ASSUME NEW e, NEW m, m.party = e.party
  PROVE  Corrected(<<e>>, m) = <<Fixed(e, m)>>
<1> DEFINE l == <<e>>
           F == FindSwitch(l, m.party)
           z == Fixed(e, m)
<1>1. F = {1}
  BY Found
<1>2. DOMAIN l = {1} /\ l[1] = e
  OBVIOUS
<1>3. Corrected(l, m) = [i \in DOMAIN l |-> IF i \in F THEN Fixed(l[i], m) ELSE l[i]]
  BY DEF Corrected, Fixed
<1> HIDE DEF l, F
<1>4. Corrected(l, m) = [i \in {1} |-> z]
  BY <1>1, <1>2, <1>3
<1> HIDE DEF z
<1> QED BY <1>4 DEF l, z

LEMMA CorrectedFirst ==
  ASSUME NEW e, NEW f, e.party # f.party, NEW m, m.party = e.party
  PROVE  Corrected(<<e, f>>, m) = <<Fixed(e, m), f>>
<1> DEFINE l == <<e, f>>
           F == FindSwitch(l, m.party)
           z == Fixed(e, m)
<1>1. F = {1}
  BY FoundOfTwo
<1>2. DOMAIN l = {1, 2} /\ l[1] = e /\ l[2] = f
  OBVIOUS
<1>3. Corrected(l, m) = [i \in DOMAIN l |-> IF i \in F THEN Fixed(l[i], m) ELSE l[i]]
  BY DEF Corrected, Fixed
<1> HIDE DEF l, F
<1>4. Corrected(l, m) = [i \in {1, 2} |-> IF i = 1 THEN z ELSE f]
  BY <1>1, <1>2, <1>3
<1> HIDE DEF z
<1> QED BY <1>4 DEF l, z

LEMMA CorrectedSecond ==
  ASSUME NEW e, NEW f, e.party # f.party, NEW m, m.party = f.party
  PROVE  Corrected(<<e, f>>, m) = <<e, Fixed(f, m)>>
<1> DEFINE l == <<e, f>>
           F == FindSwitch(l, m.party)
           z == Fixed(f, m)
<1>1. F = {2}
  BY FoundOfTwo
<1>2. DOMAIN l = {1, 2} /\ l[1] = e /\ l[2] = f
  OBVIOUS
<1>3. Corrected(l, m) = [i \in DOMAIN l |-> IF i \in F THEN Fixed(l[i], m) ELSE l[i]]
  BY DEF Corrected, Fixed
<1> HIDE DEF l, F
<1>4. Corrected(l, m) = [i \in {1, 2} |-> IF i = 1 THEN e ELSE z]
  BY <1>1, <1>2, <1>3
<1> HIDE DEF z
<1> QED BY <1>4 DEF l, z

\* Between two messages, with nothing told of the end of the turn yet
Pending(a, b, e) == Cl(a, NoUpkeep, "unknown", b, e)
Listed(list, b, e) == Pending(Switches(list), b, e)

LEMMA PendingIs ==
  ASSUME NEW a, NEW b, NEW e
  PROVE  /\ Pending(a, b, e).action = a /\ Pending(a, b, e).battle = b
         /\ Pending(a, b, e).endings = e /\ Pending(a, b, e).upkeep = NoUpkeep
         /\ Pending(a, b, e).result = "unknown"
BY DEF Pending, Cl

LEMMA ListedIs ==
  ASSUME NEW list, NEW b, NEW e
  PROVE  /\ Listed(list, b, e).action = Switches(list) /\ Listed(list, b, e).battle = b
         /\ Switches(list).kind = "switches" /\ Switches(list).list = list
         /\ \A next : Listed(next, b, e) = Instead(Listed(list, b, e), Switches(next))
<1>1. Switches(list).kind = "switches" /\ Switches(list).list = list
  BY DEF Switches
<1>2. Listed(list, b, e).action = Switches(list) /\ Listed(list, b, e).battle = b
  BY PendingIs DEF Listed
<1>3. ASSUME NEW next PROVE Listed(next, b, e) = Instead(Listed(list, b, e), Switches(next))
  <2>1. /\ Listed(list, b, e).upkeep = NoUpkeep /\ Listed(list, b, e).result = "unknown"
        /\ Listed(list, b, e).endings = e
    BY PendingIs DEF Listed
  <2> QED BY <1>2, <2>1 DEF Listed, Pending, Instead
<1> QED BY <1>1, <1>2, <1>3

LEMMA SoundPending ==
  ASSUME NEW b, WellFormed(b), NEW e \in {0, 1}
  PROVE  Sound(Pending(Nothing, b, e)) /\ \A list : Sound(Listed(list, b, e))
<1>1. Nothing.kind = "nothing"
  BY DEF Nothing
<1>2. ASSUME NEW list PROVE Sound(Listed(list, b, e))
  <2> DEFINE a == Switches(list)
  <2>1. a.kind = "switches"
    BY DEF Switches
  <2> HIDE DEF a
  <2> QED BY <2>1, SoundCl, NoUpkeepIs DEF Listed, Pending, a
<1>3. Sound(Pending(Nothing, b, e))
  BY <1>1, SoundCl, NoUpkeepIs DEF Pending
<1> QED BY <1>2, <1>3

\* Said of a Pokemon that comes in
IsSwitch(m, p, new, hp, status) ==
  /\ m.kind = "switch" /\ m.party = p /\ m.index = new /\ m.hp = hp /\ m.status = status
IsReveal(m, p) == m.kind = "reveal" /\ m.party = p
IsHP(m, p, hp, status) ==
  m.kind = "hp" /\ m.party = p /\ m.hp = hp /\ m.status = status

LEMMA EntryIs ==
  ASSUME NEW m, NEW p, NEW new, NEW hp, NEW status, IsSwitch(m, p, new, hp, status)
  PROVE  Entry(m) = Comes(p, new, hp, status)
BY DEF IsSwitch, Entry, Comes

LEMMA ComesFirst ==
  ASSUME NEW m, NEW p, NEW new, NEW hp, NEW status, IsSwitch(m, p, new, hp, status),
         NEW c, c.action.kind # "switches", Accepts(c), NEW b, NEW e,
         c.upkeep = NoUpkeep, c.result = "unknown", c.endings = e,
         Performed(c.battle, c.action) = b, NEW after, NEW g
  PROVE  Advances(m, c, Listed(<<Comes(p, new, hp, status)>>, b, e), after, g)
<1>1. m.kind = "switch" /\ Entry(m) = Comes(p, new, hp, status)
  BY EntryIs DEF IsSwitch
<1>2. Then(c, Switches(<<Entry(m)>>)) = Listed(<<Entry(m)>>, b, e)
  BY DEF Then, Listed, Pending
<1>3. BySwitching(m, c, Listed(<<Entry(m)>>, b, e))
  BY <1>1, <1>2 DEF BySwitching
<1> QED BY <1>1, <1>3 DEF Advances

LEMMA ComesSecond ==
  ASSUME NEW m, NEW p, NEW new, NEW hp, NEW status, IsSwitch(m, p, new, hp, status),
         NEW f, f.party # p, NEW b, NEW e, NEW after, NEW g
  PROVE  Advances(m, Listed(<<f>>, b, e), Listed(<<f, Comes(p, new, hp, status)>>, b, e),
             after, g)
<1> DEFINE c == Listed(<<f>>, b, e)
           z == Comes(p, new, hp, status)
<1>1. m.kind = "switch" /\ m.party = p /\ Entry(m) = z
  BY EntryIs DEF IsSwitch
<1>2. /\ c.action.kind = "switches" /\ c.action.list = <<f>>
      /\ \A next : Listed(next, b, e) = Instead(c, Switches(next))
  BY ListedIs
<1>3. FindSwitch(<<f>>, p) = {}
  BY Found
<1> HIDE DEF c, z
<1>4. Append(<<f>>, z) = <<f, z>>
  <2> DEFINE u == Append(<<f>>, z)
             v == <<f, z>>
  <2>1. u \in Seq({f, z}) /\ Len(u) = 2 /\ u[1] = f /\ u[2] = z
    OBVIOUS
  <2>2. v \in Seq({f, z}) /\ Len(v) = 2 /\ v[1] = f /\ v[2] = z
    OBVIOUS
  <2> HIDE DEF u, v
  <2>3. \A i \in 1 .. Len(u) : u[i] = v[i]
    BY <2>1, <2>2
  <2>4. u = v
    BY <2>1, <2>2, <2>3, SeqEqual
  <2> QED BY <2>4 DEF u, v
<1>5. BySwitching(m, c, Listed(<<f, z>>, b, e))
  BY <1>1, <1>2, <1>3, <1>4 DEF BySwitching
<1> QED BY <1>5 DEF Advances, c, z

LEMMA RevealsListed ==
  ASSUME NEW m, NEW p, IsReveal(m, p), NEW list, NEW i, FindSwitch(list, p) = {i},
         NEW b, NEW e, NEW after, after[p].active = list[i].index, NEW g
  PROVE  Advances(m, Listed(list, b, e), Listed(list, b, e), after, g)
<1> DEFINE c == Listed(list, b, e)
<1>1. c.action.kind = "switches" /\ c.action.list = list
  BY ListedIs
<1>2. m.kind = "reveal" /\ m.party = p
  BY DEF IsReveal
<1> HIDE DEF c
<1>3. (CHOOSE j \in FindSwitch(list, p) : TRUE) = i
  OBVIOUS
<1>4. FiledUnder(c.action, c.battle, p) = list[i].index
  BY <1>1, <1>3 DEF FiledUnder
<1>5. ByRevealing(m, c, c, after)
  BY <1>2, <1>4 DEF ByRevealing
<1> QED BY <1>5 DEF Advances, c

LEMMA CorrectsListed ==
  ASSUME NEW m, NEW p, NEW hp, NEW status, IsHP(m, p, hp, status),
         NEW list, FindSwitch(list, p) # {}, NEW b, NEW e, NEW after, NEW g
  PROVE  Advances(m, Listed(list, b, e), Listed(Corrected(list, m), b, e), after, g)
<1> DEFINE c == Listed(list, b, e)
<1>1. /\ c.action.kind = "switches" /\ c.action.list = list
      /\ \A next : Listed(next, b, e) = Instead(c, Switches(next))
  BY ListedIs
<1>2. m.kind = "hp" /\ m.party = p
  BY DEF IsHP
<1> HIDE DEF c
<1>3. BySwitching(m, c, Listed(Corrected(list, m), b, e))
  BY <1>1, <1>2 DEF BySwitching
<1> QED BY <1>3 DEF Advances, c

LEMMA OneSwitch ==
  ASSUME NEW p \in Parties, NEW x, NEW y, NEW e, e.party = p
  PROVE  LET b == BothSides(p, x, y)
         IN  /\ Performed(b, Switches(<<e>>)) = BothSides(p, Hurt(Came(x, e.index), e.hp), y)
             /\ PerformThrows(b, Switches(<<e>>)) <=> Differs(Came(x, e.index), e)
<1> DEFINE b == BothSides(p, x, y)
           l == <<e>>
           a == Switches(l)
<1>1. a.kind = "switches" /\ a.list = l
  BY DEF Switches
<1>2. DOMAIN l = {1} /\ l[1] = e /\ Len(l) = 1
  OBVIOUS
<1>3. /\ UsesSwitch(b, e) = BothSides(p, Hurt(Came(x, e.index), e.hp), y)
      /\ UseSwitchThrows(b, e) <=> Differs(Came(x, e.index), e)
  BY UsesSwitchIs
<1> HIDE DEF a, b, l
<1>4. Performed(b, a) = UsesSwitches(b, l)
  BY <1>1 DEF Performed
<1>5. UsesSwitches(b, l) = UsesSwitch(b, e)
  BY <1>2 DEF UsesSwitches
<1>6. PerformThrows(b, a) <=> \E i \in DOMAIN l : UseSwitchThrows(b, l[i])
  BY <1>1 DEF PerformThrows
<1>7. PerformThrows(b, a) <=> UseSwitchThrows(b, e)
  BY <1>2, <1>6
<1> QED BY <1>3, <1>4, <1>5, <1>7 DEF a, b, l

LEMMA TwoSwitches ==
  ASSUME NEW p \in Parties, NEW x, NEW y, NEW e, e.party = p, NEW f, f.party = Other(p)
  PROVE  LET b == BothSides(p, x, y)
         IN  /\ Performed(b, Switches(<<f, e>>))
                  = BothSides(p, Hurt(Came(x, e.index), e.hp), Hurt(Came(y, f.index), f.hp))
             /\ PerformThrows(b, Switches(<<f, e>>))
                  <=> Differs(Came(x, e.index), e) \/ Differs(Came(y, f.index), f)
<1> DEFINE b == BothSides(p, x, y)
           l == <<f, e>>
           a == Switches(l)
           o == Other(p)
           X == Hurt(Came(x, e.index), e.hp)
           Y == Hurt(Came(y, f.index), f.hp)
<1>1. a.kind = "switches" /\ a.list = l
  BY DEF Switches
<1>2. DOMAIN l = {1, 2} /\ l[1] = f /\ l[2] = e /\ Len(l) = 2
  OBVIOUS
<1>3. /\ UsesSwitch(b, e) = BothSides(p, X, y)
      /\ UseSwitchThrows(b, e) <=> Differs(Came(x, e.index), e)
  BY UsesSwitchIs
<1>4. /\ o \in Parties /\ f.party = o
      /\ \A v, w : BothSides(p, v, w) = BothSides(o, w, v)
  BY TwoSides DEF BothSides
<1> HIDE DEF o, X
<1>5. /\ UsesSwitch(BothSides(o, y, X), f) = BothSides(o, Y, X)
      /\ UseSwitchThrows(BothSides(o, y, x), f) <=> Differs(Came(y, f.index), f)
  BY <1>4, UsesSwitchIs
<1> HIDE DEF Y
<1>6. UsesSwitch(BothSides(p, X, y), f) = BothSides(p, X, Y)
  BY <1>4, <1>5
<1>7. UseSwitchThrows(b, f) <=> Differs(Came(y, f.index), f)
  BY <1>4, <1>5
<1> HIDE DEF a, b, l
<1>8. Performed(b, a) = UsesSwitches(b, l)
  BY <1>1 DEF Performed
<1>9. UsesSwitches(b, l) = UsesSwitch(UsesSwitch(b, e), f)
  BY <1>2 DEF UsesSwitches
<1>10. PerformThrows(b, a) <=> \E i \in DOMAIN l : UseSwitchThrows(b, l[i])
  BY <1>1 DEF PerformThrows
<1>11. PerformThrows(b, a) <=> UseSwitchThrows(b, e) \/ UseSwitchThrows(b, f)
  BY <1>2, <1>10
<1> QED BY <1>3, <1>6, <1>7, <1>8, <1>9, <1>11 DEF a, b, l, X, Y

LEMMA SwitchedOrder ==
  ASSUME NEW p \in Parties, NEW x, NEW y, NEW e, e.party = p, NEW f, f.party = Other(p)
  PROVE  LET b == BothSides(p, x, y)
         IN  /\ Performed(b, Switches(<<e, f>>))
                  = BothSides(p, Hurt(Came(x, e.index), e.hp), Hurt(Came(y, f.index), f.hp))
             /\ PerformThrows(b, Switches(<<e, f>>))
                  <=> Differs(Came(x, e.index), e) \/ Differs(Came(y, f.index), f)
<1> DEFINE o == Other(p)
<1>1. /\ o \in Parties /\ f.party = o /\ e.party = Other(o)
      /\ \A v, w : BothSides(p, v, w) = BothSides(o, w, v)
  BY TwoSides DEF BothSides
<1> HIDE DEF o
<1>2. LET b == BothSides(o, y, x)
      IN  /\ Performed(b, Switches(<<e, f>>))
               = BothSides(o, Hurt(Came(y, f.index), f.hp), Hurt(Came(x, e.index), e.hp))
          /\ PerformThrows(b, Switches(<<e, f>>))
               <=> Differs(Came(y, f.index), f) \/ Differs(Came(x, e.index), e)
  BY <1>1, TwoSwitches
<1> QED BY <1>1, <1>2

LEMMA ComesRight ==
  ASSUME NEW x, NEW s, Matches(x, s), NEW new, OnBench(s, new), NEW hp \in HP, NEW p
  PROVE  LET X == Hurt(Came(x, new), hp)
             S == Left(Entered(s, new), hp)
         IN  /\ Matches(X, S) /\ (X.moved <=> x.moved \/ ~x.down) /\ ~X.pivoting
             /\ (X.down <=> hp = "down") /\ X.active = new
             /\ S.active = new /\ ~S.owes /\ S.pivots = s.pivots
             /\ ~Differs(Came(x, new), Comes(p, new, hp, s.status[new]))
<1> DEFINE z == Came(x, new)
           u == Entered(s, new)
           e == Comes(p, new, hp, s.status[new])
<1>1. /\ Matches(z, u) /\ ~z.down /\ (z.moved <=> x.moved \/ ~x.down) /\ ~z.pivoting
      /\ z.active = new /\ z.status = x.status /\ x.status[new] = s.status[new]
      /\ ~u.owes /\ u.pivots = s.pivots /\ u.active = new
  <2>1. Matches(z, u)
    BY CameMatches
  <2>2. /\ ~z.down /\ ~z.pivoting
        /\ z.active = new /\ z.status = x.status /\ x.status[new] = s.status[new]
        /\ ~u.owes /\ u.pivots = s.pivots /\ u.active = new
    BY CameMatches
  <2>3. (x.down => z.moved = x.moved) /\ (~x.down => z.moved)
    BY CameMatches
  <2>4. (x.down => ~x.moved \/ z.moved) /\ x \in ClientRecord
    BY <2>3 DEF Matches
  <2> HIDE DEF z, u
  <2>5. z.moved <=> x.moved \/ ~x.down
    BY <2>3, <2>4
  <2> QED BY <2>1, <2>2, <2>5
<1>2. e.hp = hp /\ e.status = s.status[new]
  BY ComesIs
<1> HIDE DEF z, u, e
<1>3. ~Differs(z, e)
  BY <1>1, <1>2 DEF Differs
<1>4. /\ Matches(Hurt(z, hp), Left(u, hp)) /\ Hurt(z, hp).moved = z.moved
      /\ Hurt(z, hp).pivoting = z.pivoting
      /\ Left(u, hp).owes = u.owes /\ Left(u, hp).pivots = u.pivots
  BY <1>1, HurtKeeps
<1>5. Hurt(z, hp).active = z.active /\ Left(u, hp).active = u.active
  BY <1>1 DEF Hurt, Left, Matches, ClientRecord, SideRecord
<1>6. Hurt(z, hp).down <=> hp = "down"
  <2> DEFINE v == (hp = "down")
  <2>1. hp # Untold
    BY Consts
  <2>2. Hurt(z, hp) = [z EXCEPT !.down = v]
    BY <2>1 DEF Hurt
  <2> HIDE DEF v
  <2>3. [z EXCEPT !.down = v].down = v
    BY <1>1 DEF Matches, ClientRecord
  <2> QED BY <2>2, <2>3 DEF v
<1> QED BY <1>1, <1>3, <1>4, <1>5, <1>6 DEF z, u, e

-----------------------------------------------------------------------------
(* A player's switch, alone or after the other's                           *)

LEMMA FirstIn ==
  ASSUME NEW p \in Parties, NEW new, NEW hp, NEW status,
         NEW m1, IsSwitch(m1, p, new, "up", status), NEW m2, IsReveal(m2, p),
         NEW m3, IsHP(m3, p, hp, status),
         NEW c, c.action.kind # "switches", Accepts(c), Sound(c), NEW b, NEW e \in {0, 1},
         c.upkeep = NoUpkeep, c.result = "unknown", c.endings = e,
         Performed(c.battle, c.action) = b, WellFormed(b),
         NEW after, after[p].active = new, NEW g
  PROVE  /\ Runs(<<m1, m2>>, c, Listed(<<Comes(p, new, "up", status)>>, b, e), after, g)
         /\ Runs(<<m1, m2, m3>>, c, Listed(<<Comes(p, new, hp, status)>>, b, e), after, g)
<1> DEFINE z == Comes(p, new, "up", status)
           w == Comes(p, new, hp, status)
           d == Listed(<<z>>, b, e)
           d2 == Listed(<<w>>, b, e)
<1>1. Advances(m1, c, d, after, g)
  BY ComesFirst
<1>2. z.party = p /\ z.index = new
  BY ComesIs
<1>3. Fixed(z, m3) = w /\ m3.party = p
  BY FixedIs DEF IsHP
<1> HIDE DEF z, w
<1>4. FindSwitch(<<z>>, p) = {1} /\ <<z>>[1] = z
  BY <1>2, Found
<1>5. Advances(m2, d, d, after, g)
  BY <1>2, <1>4, RevealsListed
<1>6. Corrected(<<z>>, m3) = <<w>>
  BY <1>2, <1>3, CorrectedOne
<1>7. Advances(m3, d, d2, after, g)
  <2>1. Advances(m3, Listed(<<z>>, b, e), Listed(Corrected(<<z>>, m3), b, e), after, g)
    BY <1>4, CorrectsListed
  <2> QED BY <1>6, <2>1
<1>8. Sound(d) /\ Sound(d2)
  BY SoundPending
<1> HIDE DEF d, d2
<1>9. Runs(<<m1, m2>>, c, d, after, g)
  BY <1>1, <1>5, <1>8, RunsTwo
<1>10. Runs(<<m1, m2, m3>>, c, d2, after, g)
  BY <1>1, <1>5, <1>7, <1>8, RunsThree
<1> QED BY <1>9, <1>10 DEF z, w, d, d2

LEMMA SecondIn ==
  ASSUME NEW p \in Parties, NEW new, NEW hp, NEW status,
         NEW m1, IsSwitch(m1, p, new, "up", status), NEW m2, IsReveal(m2, p),
         NEW m3, IsHP(m3, p, hp, status),
         NEW f, f.party = Other(p), NEW b, WellFormed(b), NEW e \in {0, 1},
         NEW after, after[p].active = new, NEW g
  PROVE  /\ Runs(<<m1, m2>>, Listed(<<f>>, b, e),
                 Listed(<<f, Comes(p, new, "up", status)>>, b, e), after, g)
         /\ Runs(<<m1, m2, m3>>, Listed(<<f>>, b, e),
                 Listed(<<f, Comes(p, new, hp, status)>>, b, e), after, g)
<1> DEFINE z == Comes(p, new, "up", status)
           w == Comes(p, new, hp, status)
           c == Listed(<<f>>, b, e)
           d == Listed(<<f, z>>, b, e)
           d2 == Listed(<<f, w>>, b, e)
<1>1. f.party # p
  BY TwoSides
<1>2. Advances(m1, c, d, after, g)
  BY <1>1, ComesSecond
<1>3. z.party = p /\ z.index = new
  BY ComesIs
<1>4. Fixed(z, m3) = w /\ m3.party = p
  BY FixedIs DEF IsHP
<1> HIDE DEF z, w
<1>5. FindSwitch(<<f, z>>, p) = {2} /\ <<f, z>>[2] = z
  BY <1>1, <1>3, FoundOfTwo
<1>6. Advances(m2, d, d, after, g)
  BY <1>3, <1>5, RevealsListed
<1>7. Corrected(<<f, z>>, m3) = <<f, w>>
  BY <1>1, <1>3, <1>4, CorrectedSecond
<1>8. Advances(m3, d, d2, after, g)
  <2>1. Advances(m3, Listed(<<f, z>>, b, e), Listed(Corrected(<<f, z>>, m3), b, e), after, g)
    BY <1>5, CorrectsListed
  <2> QED BY <1>7, <2>1
<1>9. Sound(c) /\ Sound(d) /\ Sound(d2)
  BY SoundPending
<1> HIDE DEF c, d, d2
<1>10. Runs(<<m1, m2>>, c, d, after, g)
  BY <1>2, <1>6, <1>9, RunsTwo
<1>11. Runs(<<m1, m2, m3>>, c, d2, after, g)
  BY <1>2, <1>6, <1>8, <1>9, RunsThree
<1> QED BY <1>10, <1>11 DEF z, w, c, d, d2

\* What the first of the two has left
LEMMA SwitchIsPending ==
  ASSUME NEW p \in Parties, NEW a, NEW sides, sides[p].owes, SwitchesPending(a, sides)
  PROVE  \E f \in SwitchRecord : f.party = Other(p) /\ a = Switches(<<f>>)
                                 /\ ~sides[Other(p)].owes
<1>1. ~(\E e, f \in SwitchRecord :
          a.list = <<e, f>> /\ e.party # f.party /\ \A q \in Parties : ~sides[q].owes)
  OBVIOUS
<1>2. PICK f \in SwitchRecord : a.list = <<f>> /\ ~sides[f.party].owes
  BY <1>1 DEF SwitchesPending
<1>3. f.party \in Parties /\ a = Switches(<<f>>)
  BY <1>2 DEF SwitchesPending, SwitchRecord
<1>4. f.party = Other(p)
  BY <1>2, <1>3, TwoSides
<1> QED BY <1>2, <1>3, <1>4

LEMMA PendingSwitchIs ==
  ASSUME NEW p \in Parties, NEW f, f.party = Other(p), NEW b, WellFormed(b),
         NEW x, NEW y, Performed(b, Switches(<<f>>)) = BothSides(p, x, y),
         ~PerformThrows(b, Switches(<<f>>))
  PROVE  /\ b = BothSides(p, x, b[Other(p)]) /\ b[p] = x
         /\ y = Hurt(Came(b[Other(p)], f.index), f.hp)
         /\ ~Differs(Came(b[Other(p)], f.index), f)
<1> DEFINE o == Other(p)
           v == b[p]
           w == b[o]
           Y == Hurt(Came(w, f.index), f.hp)
<1>1. b = BothSides(p, v, w)
  <2>1. b \in [Parties -> ClientRecord]
    BY DEF WellFormed
  <2> QED BY <2>1, AsBothSides
<1>2. o \in Parties /\ \A k, l : BothSides(p, k, l) = BothSides(o, l, k)
  BY TwoSides DEF BothSides
<1> HIDE DEF o, v, w
<1>3. /\ Performed(BothSides(o, w, v), Switches(<<f>>)) = BothSides(o, Y, v)
      /\ PerformThrows(BothSides(o, w, v), Switches(<<f>>)) <=> Differs(Came(w, f.index), f)
  BY <1>2, OneSwitch DEF o
<1> HIDE DEF Y
<1>4. /\ Performed(b, Switches(<<f>>)) = BothSides(p, v, Y)
      /\ ~Differs(Came(w, f.index), f)
  BY <1>1, <1>2, <1>3
<1>5. BothSides(p, v, Y) = BothSides(p, x, y)
  BY <1>4
<1>6. v = x /\ Y = y
  BY <1>5, BothSidesFacts
<1> QED BY <1>1, <1>4, <1>6 DEF o, v, w, Y

LEMMA ChoosesToSwitchProceeds ==
  ASSUME NEW p \in Parties, NEW c, NEW x, NEW y, NEW sides, NEW g, NEW s, NEW t,
         CanAct(p, c, x, y, sides, g), s = sides[p], t = sides[Other(p)],
         InTurn(c.battle, c.action, sides),
         c.action = Nothing \/ SwitchesPending(c.action, sides),
         NEW new, OnBench(s, new), NEW hp \in HP, NEW status, status = s.status[new],
         NEW m1, IsSwitch(m1, p, new, "up", status), NEW m2, IsReveal(m2, p),
         NEW m3, IsHP(m3, p, hp, status)
  PROVE  LET after == BothSides(p, Left(Entered(s, new), hp), t)
         IN  /\ hp = "up" => Proceeds(<<m1, m2>>, c, after, "switching", g)
             /\ Proceeds(<<m1, m2, m3>>, c, after, "switching", g)
<1> DEFINE o == Other(p)
           b == BothSides(p, x, y)
           S == Left(Entered(s, new), hp)
           X == Hurt(Came(x, new), hp)
           after == BothSides(p, S, t)
           e == Comes(p, new, hp, status)
<1>1. /\ Sound(c) /\ Accepts(c) /\ WellFormed(b) /\ b[p] = x /\ b[o] = y
      /\ c.upkeep = NoUpkeep /\ c.result = "unknown" /\ c.endings = 0
      /\ Performed(c.battle, c.action) = b
      /\ Matches(x, s) /\ ~x.down /\ ~s.pivots /\ s \in SideRecord /\ FitsOther(y, y, t)
  BY CanActFacts
<1>2. ~x.moved /\ s.owes
  BY DEF CanAct
<1>3. /\ Matches(X, S) /\ X.moved /\ ~X.pivoting /\ S.active = new /\ ~S.owes /\ ~S.pivots
      /\ ~Differs(Came(x, new), e)
  <2>1. /\ Matches(X, S) /\ (X.moved <=> x.moved \/ ~x.down) /\ ~X.pivoting /\ S.active = new
        /\ ~S.owes /\ S.pivots = s.pivots /\ ~Differs(Came(x, new), e)
    BY <1>1, ComesRight
  <2> QED BY <1>1, <2>1
<1>4. o \in Parties /\ o # p
  BY TwoSides
<1>5. /\ (c.battle[p].moved => b[p].moved) /\ (c.battle[o].moved => b[o].moved)
      /\ (c.battle[o].down => b[o].down)
  BY <1>1, <1>4 DEF InTurn
<1>6. e \in SwitchRecord /\ e.party = p /\ e.index = new /\ e.hp = hp
  <2>1. new \in Roster /\ status \in Status
    BY <1>1 DEF OnBench, SideRecord
  <2> QED BY <2>1, ComesIs
<1>7. after[p] = S /\ after[o] = t
  BY BothSidesFacts
<1> HIDE DEF b, S, X, e, after, o
<1>8. y.moved = ~t.owes /\ ~t.pivots /\ (y.pivoting => Alone(t)) /\ Matches(y, t)
  BY <1>1 DEF FitsOther
<1>9. CASE c.action = Nothing
  <2> DEFINE a == Switches(<<e>>)
             d == Listed(<<e>>, b, 0)
  <2>1. c.action.kind # "switches" /\ c.battle = b
    BY <1>1, <1>9 DEF Nothing, Performed
  <2>2. /\ Runs(<<m1, m2>>, c, Listed(<<Comes(p, new, "up", status)>>, b, 0), after, g)
        /\ Runs(<<m1, m2, m3>>, c, d, after, g)
    BY <1>1, <1>3, <1>7, <2>1, FirstIn DEF e
  <2>3. /\ Performed(b, a) = BothSides(p, X, y) /\ ~PerformThrows(b, a)
    BY <1>3, <1>6, OneSwitch DEF b, X
  <2>4. SwitchesPending(a, after)
    <3>1. a.kind = "switches" /\ a.list = <<e>>
      BY DEF Switches
    <3> QED BY <1>3, <1>6, <1>7, <3>1 DEF SwitchesPending
  <2>5. Settled(d, after, "switching") /\ ServerOK(after, "switching")
    <3>1. /\ (b[p].moved => X.moved) /\ (b[o].moved => y.moved)
          /\ (b[p].down => X.down) /\ (b[o].down => y.down)
      BY <1>1, <1>3
    <3> HIDE DEF a
    <3>2. /\ Settled(Cl(a, NoUpkeep, "unknown", b, 0), BothSides(p, S, t), "switching")
          /\ ServerOK(BothSides(p, S, t), "switching")
      BY <1>1, <1>3, <1>8, <2>3, <2>4, <3>1, TurnSettles DEF after, o
    <3> QED BY <3>2 DEF after, a, Listed, Pending
  <2> HIDE DEF d
  <2>6. hp = "up" => Runs(<<m1, m2>>, c, d, after, g)
    BY <2>2 DEF d, e
  <2> QED BY <2>2, <2>5, <2>6 DEF Proceeds, after, S
<1>10. CASE SwitchesPending(c.action, sides)
  <2>1. PICK f \in SwitchRecord : f.party = o /\ c.action = Switches(<<f>>) /\ ~t.owes
    BY <1>2, <1>10, SwitchIsPending DEF o
  <2> DEFINE v == c.battle
             w == v[o]
             a == Switches(<<f, e>>)
             d == Listed(<<f, e>>, v, 0)
  <2>2. WellFormed(v) /\ c = Listed(<<f>>, v, 0)
    <3>1. c = Cl(c.action, NoUpkeep, "unknown", c.battle, 0)
      BY DEF CanAct
    <3> QED BY <1>1, <2>1, <3>1 DEF Sound, Listed, Pending
  <2>3. /\ v = BothSides(p, x, w) /\ v[p] = x
        /\ y = Hurt(Came(w, f.index), f.hp) /\ ~Differs(Came(w, f.index), f)
    <3>1. Performed(v, Switches(<<f>>)) = BothSides(p, x, y) /\ ~PerformThrows(v, Switches(<<f>>))
      BY <1>1, <2>1 DEF b, Accepts
    <3> QED BY <2>1, <2>2, <3>1, PendingSwitchIs DEF o
  <2>4. /\ Runs(<<m1, m2>>, c, Listed(<<f, Comes(p, new, "up", status)>>, v, 0), after, g)
        /\ Runs(<<m1, m2, m3>>, c, d, after, g)
    BY <1>3, <1>7, <2>1, <2>2, SecondIn DEF e, o
  <2> HIDE DEF v, w
  <2>5. /\ Performed(v, a) = BothSides(p, X, y) /\ ~PerformThrows(v, a)
    <3>1. LET q == BothSides(p, x, w)
          IN  /\ Performed(q, a) = BothSides(p, Hurt(Came(x, e.index), e.hp),
                                                 Hurt(Came(w, f.index), f.hp))
              /\ PerformThrows(q, a) <=> Differs(Came(x, e.index), e)
                                         \/ Differs(Came(w, f.index), f)
      BY <1>6, <2>1, TwoSwitches DEF o
    <3> QED BY <1>3, <1>6, <2>3, <3>1 DEF X
  <2>6. SwitchesPending(a, after)
    <3>1. a.kind = "switches" /\ a.list = <<f, e>>
      BY DEF Switches
    <3>2. \A q \in Parties : ~after[q].owes
      BY <1>3, <1>7, <2>1, TwoSides DEF o
    <3> QED BY <1>4, <1>6, <2>1, <3>1, <3>2 DEF SwitchesPending
  <2>7. Settled(d, after, "switching") /\ ServerOK(after, "switching")
    <3>1. /\ (v[p].moved => X.moved) /\ (v[o].moved => y.moved)
          /\ (v[p].down => X.down) /\ (v[o].down => y.down)
      BY <1>1, <1>3, <1>5, <2>3 DEF v
    <3> HIDE DEF a
    <3>2. /\ Settled(Cl(a, NoUpkeep, "unknown", v, 0), BothSides(p, S, t), "switching")
          /\ ServerOK(BothSides(p, S, t), "switching")
      BY <1>3, <1>8, <2>2, <2>5, <2>6, <3>1, TurnSettles DEF after, o
    <3> QED BY <3>2 DEF after, a, Listed, Pending
  <2> HIDE DEF d
  <2>8. hp = "up" => Runs(<<m1, m2>>, c, d, after, g)
    BY <2>4 DEF d, e
  <2> QED BY <2>4, <2>7, <2>8 DEF Proceeds, after, S
<1> QED BY <1>9, <1>10

\* Whoever turned back with a U-turn is replaced.
LEMMA ComesBackProceeds ==
  ASSUME MInv, script = <<>>, phase = "pivoting", NEW p \in Parties, side[p].pivots,
         NEW s, s = side[p], NEW t, t = side[Other(p)],
         NEW new, OnBench(s, new), NEW status, status = s.status[new],
         NEW m1, IsSwitch(m1, p, new, "up", status), NEW m2, IsReveal(m2, p)
  PROVE  Proceeds(<<Separator, m1, m2>>, Client,
                  BothSides(p, [Entered(s, new) EXCEPT !.pivots = FALSE], t),
                  "moving", generation)
<1> DEFINE o == Other(p)
           b == battle
           x == b[p]
           y == b[o]
           g == generation
           S == [Entered(s, new) EXCEPT !.pivots = FALSE]
           X == Hurt(Came(x, new), "up")
           after == BothSides(p, S, t)
           e == Comes(p, new, "up", status)
           a == Switches(<<e>>)
           c == Pending(Nothing, b, 0)
           d == Listed(<<e>>, b, 0)
<1>1. /\ Settled(Client, side, phase) /\ Sound(Client)
      /\ side \in [Parties -> SideRecord] /\ g \in Generations
  BY AtRestSettled DEF MInv
<1>2. o \in Parties /\ o # p /\ Other(o) = p /\ \A q \in Parties : q = p \/ q = o
  BY TwoSides
<1>3. /\ upkeep = NoUpkeep /\ result = "unknown" /\ endings = 0 /\ action = Nothing
      /\ AllFollow(Performed(battle, action), side) /\ InTurn(battle, action, side)
      /\ \E q \in Parties : side[q].pivots /\ ~side[Other(q)].pivots /\ ~side[q].owes
                            /\ ~battle[q].down /\ ~Gone(side, Other(q))
  BY <1>1, ClientIs DEF Settled
<1>4. Client = c
  BY <1>3 DEF Client, Pending
<1>5. WellFormed(b)
  BY <1>1, ClientIs DEF Sound
<1>6. Performed(b, Nothing) = b /\ ~PerformThrows(b, Nothing)
  BY DEF Nothing, Performed, PerformThrows
<1>7. Matches(x, s) /\ Matches(y, t)
  BY <1>1, <1>2, <1>3, <1>5, <1>6, MatchesAll
<1>8. ~t.pivots /\ ~s.owes /\ ~x.down /\ s.living # {}
  <2>1. PICK q \in Parties : side[q].pivots /\ ~side[Other(q)].pivots /\ ~side[q].owes
                             /\ ~battle[q].down
    BY <1>3
  <2>2. q = p
    BY <1>2, <2>1
  <2> QED BY <2>1, <2>2 DEF OnBench
<1>9. /\ x.moved = ~s.owes /\ y.moved = ~t.owes
      /\ y.pivoting => Alone(t) \/ Gone(side, p) \/ t.pivots
  BY <1>2, <1>3, <1>6 DEF InTurn
<1>10. y.pivoting => Alone(t)
  BY <1>8, <1>9 DEF Gone
<1> HIDE DEF x, y
<1>11. b = BothSides(p, x, y) /\ b[p] = x /\ b[o] = y
  BY <1>5, AsBothSides DEF WellFormed, x, y
<1>12. Left(Entered(s, new), "up") = Entered(s, new)
  BY DEF Left
<1>13. /\ Matches(X, Entered(s, new)) /\ X.moved /\ ~X.pivoting
       /\ Entered(s, new).active = new /\ ~Entered(s, new).owes
       /\ ~Differs(Came(x, new), e)
  <2>1. /\ Matches(X, Entered(s, new)) /\ (X.moved <=> x.moved \/ ~x.down) /\ ~X.pivoting
        /\ Entered(s, new).active = new /\ ~Entered(s, new).owes
        /\ ~Differs(Came(x, new), e)
    BY <1>7, <1>12, ComesRight, Consts
  <2> QED BY <1>8, <2>1
<1> HIDE DEF X, b
<1>14. Matches(X, S) /\ S.active = new /\ ~S.owes /\ ~S.pivots
  <2> DEFINE u == Entered(s, new)
  <2> HIDE DEF u
  <2>1. Matches(X, u) /\ u.active = new /\ ~u.owes
    BY <1>13 DEF u
  <2>2. u \in SideRecord
    BY <2>1 DEF Matches
  <2> DEFINE w == [u EXCEPT !.pivots = FALSE]
  <2>3. w \in SideRecord /\ w.active = u.active /\ w.living = u.living /\ ~w.owes /\ ~w.pivots
        /\ w.status = u.status
    BY <2>1, <2>2 DEF SideRecord
  <2>4. w = S
    BY DEF u
  <2> HIDE DEF w
  <2>5. Matches(X, w)
    BY <2>1, <2>3 DEF Matches, Follows
  <2> QED BY <2>1, <2>3, <2>4, <2>5
<1>15. e \in SwitchRecord /\ e.party = p /\ e.index = new /\ e.hp = "up"
  <2>1. new \in Roster /\ status \in Status
    BY <1>7 DEF OnBench, SideRecord, Matches
  <2> QED BY <2>1, ComesIs, Consts
<1>16. after[p] = S /\ after[o] = t
  BY BothSidesFacts
<1> HIDE DEF S, after
<1>17. Runs(<<m1, m2>>, c, d, after, g)
  <2> HIDE DEF d
  <2>1. /\ c.action = Nothing /\ c.battle = b /\ c.upkeep = NoUpkeep /\ c.result = "unknown"
        /\ c.endings = 0
    BY PendingIs
  <2>2. Sound(c)
    BY <1>5, SoundPending
  <2> HIDE DEF c
  <2>3. c.action.kind # "switches" /\ Accepts(c) /\ Performed(c.battle, c.action) = b
    BY <1>6, <2>1 DEF Nothing, Accepts
  <2> DEFINE m3 == [kind |-> "hp", party |-> p, hp |-> "up", status |-> status]
  <2>4. IsHP(m3, p, "up", status)
    BY DEF IsHP
  <2> HIDE DEF m3
  <2> QED BY <1>5, <1>14, <1>16, <2>1, <2>2, <2>3, <2>4, FirstIn, ZenonT(40) DEF d, e
<1>18. Runs(<<Separator>>, c, c, after, g)
  <2>1. c.action = Nothing /\ c.battle = b
    BY PendingIs
  <2>2. c = Then(c, Nothing)
    BY <1>6, PendingIs DEF Then, Pending
  <2>3. Sound(c)
    BY <1>5, SoundPending
  <2> HIDE DEF c
  <2>4. Advances(Separator, c, c, after, g)
    BY <1>6, <2>1, <2>2 DEF Separator, Advances, BySeparator, Accepts
  <2> QED BY <2>3, <2>4, RunsOne
<1>19. Runs(<<Separator>> \o <<m1, m2>>, c, d, after, g)
  <2> HIDE DEF c, d
  <2> QED BY <1>17, <1>18, RunsApp
<1>20. <<Separator>> \o <<m1, m2>> = <<Separator, m1, m2>>
  <2> DEFINE u == <<Separator>> \o <<m1, m2>>
             v == <<Separator, m1, m2>>
  <2>1. /\ u \in Seq({Separator, m1, m2}) /\ Len(u) = 3
        /\ u[1] = Separator /\ u[2] = m1 /\ u[3] = m2
    OBVIOUS
  <2>2. /\ v \in Seq({Separator, m1, m2}) /\ Len(v) = 3
        /\ v[1] = Separator /\ v[2] = m1 /\ v[3] = m2
    OBVIOUS
  <2> HIDE DEF u, v
  <2>3. \A i \in 1 .. Len(u) : u[i] = v[i]
    BY <2>1, <2>2
  <2>4. u = v
    BY <2>1, <2>2, <2>3, SeqEqual
  <2> QED BY <2>4 DEF u, v
<1>21. Performed(b, a) = BothSides(p, X, y) /\ ~PerformThrows(b, a)
  BY <1>11, <1>13, <1>15, OneSwitch DEF X
<1>22. SwitchesPending(a, after)
  <2>1. a.kind = "switches" /\ a.list = <<e>>
    BY DEF Switches
  <2> QED BY <1>14, <1>15, <1>16, <2>1 DEF SwitchesPending
<1>23. Settled(d, after, "moving") /\ ServerOK(after, "moving")
  <2> HIDE DEF a
  <2>1. /\ (b[p].moved => X.moved) /\ (b[o].moved => y.moved)
        /\ (b[p].down => X.down) /\ (b[o].down => y.down)
    BY <1>8, <1>11, <1>13
  <2>2. /\ Settled(Cl(a, NoUpkeep, "unknown", b, 0), BothSides(p, S, t), "moving")
        /\ ServerOK(BothSides(p, S, t), "moving")
    BY <1>5, <1>7, <1>8, <1>9, <1>10, <1>13, <1>14, <1>21, <1>22, <2>1, TurnSettles DEF after
  <2> QED BY <2>2 DEF after, a, Listed, Pending
<1>24. Runs(<<Separator, m1, m2>>, Client, d, after, g)
  BY <1>4, <1>19, <1>20
<1> HIDE DEF d
<1> QED BY <1>23, <1>24 DEF Proceeds, after, S

-----------------------------------------------------------------------------
(* The end of a turn                                                       *)

LEMMA AloneInTeam ==
  ASSUME NEW x, NEW s, Matches(x, s), Alone(s)
  PROVE  Cardinality(x.team) = 1
<1>1. x.team = {s.active}
  BY DEF Matches, Follows, Alone
<1> QED BY <1>1, FS_Singleton

LEMMA TeamIsNotEmpty ==
  ASSUME NEW b, WellFormed(b), NEW p \in Parties
  PROVE  Size(b, p) # 0
<1>1. b[p].team \subseteq Roster /\ b[p].active \in b[p].team
  BY DEF WellFormed, ClientRecord
<1>2. IsFiniteSet(b[p].team)
  BY <1>1, RosterAssumption, FS_Subset
<1> QED BY <1>1, <1>2, FS_EmptySet DEF Size

\* Nobody may act, so the client sees the end of the turn.
LEMMA TurnIsOver ==
  ASSUME NEW b, NEW sides, WellFormed(b), sides \in [Parties -> SideRecord], AllFollow(b, sides),
         \A p \in Parties : /\ b[p].moved = ~sides[p].owes
                            /\ b[p].pivoting => Alone(sides[p])
                            /\ b[p].down => \E q \in Parties : b[q].moved,
         NEW g \in Generations,
         \A p \in Parties : ~(/\ sides[p].owes /\ sides[p].active \in sides[p].living
                              /\ g = 1 => \A q \in Parties : sides[q].active \in sides[q].living)
  PROVE  IsEndOfTurn(b, g)
<1> DEFINE ai == IsDoneMoving(b, "ai")
           foe == IsDoneMoving(b, "foe")
           aiDown == b["ai"].down
           foeDown == b["foe"].down
<1>1. g # 2 /\ g # 3
  BY GenerationsAssumption
<1>2. "ai" \in Parties /\ "foe" \in Parties /\ \A p \in Parties : p = "ai" \/ p = "foe"
  BY DEF Parties
<1>3. ASSUME NEW p \in Parties
      PROVE  /\ IsDoneMoving(b, p) <=> ~sides[p].owes
             /\ b[p].down <=> sides[p].active \notin sides[p].living
  <2>1. Matches(b[p], sides[p])
    BY MatchesAll
  <2>2. b[p].pivoting => Size(b, p) = 1
    BY <2>1, AloneInTeam DEF Size
  <2>3. b[p].down <=> sides[p].active \notin sides[p].living
    BY <2>1 DEF Matches, Follows
  <2>4. b[p].moved <=> ~sides[p].owes
    OBVIOUS
  <2> QED BY <2>2, <2>3, <2>4 DEF IsDoneMoving
<1>4. aiDown \/ foeDown => ai \/ foe
  <2>1. ASSUME NEW p \in Parties, b[p].down PROVE ai \/ foe
    <3>1. PICK q \in Parties : b[q].moved
      BY <2>1
    <3>2. ~sides[q].owes
      BY <3>1
    <3>3. IsDoneMoving(b, q)
      BY <1>3, <3>2
    <3> QED BY <1>2, <3>3
  <2> QED BY <1>2, <2>1
<1>5. CASE g = 1
  <2>1. \/ ai /\ (foe \/ foeDown \/ aiDown)
        \/ foe /\ (aiDown \/ foeDown)
        => IsEndOfTurn(b, g)
    BY <1>1, <1>5 DEF IsEndOfTurn, IsFainted
  <2>2. (ai /\ foe) \/ aiDown \/ foeDown
    <3>1. SUFFICES ASSUME ~aiDown, ~foeDown PROVE ai /\ foe
      OBVIOUS
    <3>2. \A q \in Parties : sides[q].active \in sides[q].living
      BY <1>2, <1>3, <3>1
    <3>3. \A p \in Parties : ~sides[p].owes
      BY <1>5, <3>2
    <3> QED BY <1>2, <1>3, <3>3
  <2> HIDE DEF ai, foe, aiDown, foeDown
  <2> QED BY <1>4, <2>1, <2>2
<1>6. CASE g # 1
  <2>1. (ai /\ (foe \/ foeDown)) \/ (foe /\ aiDown) => IsEndOfTurn(b, g)
    BY <1>1, <1>6 DEF IsEndOfTurn, IsFainted
  <2>2. \A p \in Parties : ~sides[p].owes \/ sides[p].active \notin sides[p].living
    BY <1>6
  <2>3. (ai \/ aiDown) /\ (foe \/ foeDown)
    BY <1>2, <1>3, <2>2
  <2> HIDE DEF ai, foe, aiDown, foeDown
  <2> QED BY <1>4, <2>1, <2>3
<1> QED BY <1>5, <1>6

\* What the end of the turn makes of a side, and of what was told of it
WokenBy(x, u) == IF u.cured THEN Marked(x, "clear") ELSE x
Over(x, u) ==
  [Hurt(WokenBy(x, u), u.hp) EXCEPT !.moved = FALSE, !.pivoting = FALSE, !.flinched = FALSE]
Ends(x, u, S) ==
  /\ Matches(Over(x, u), S) /\ ~Over(x, u).moved /\ ~Over(x, u).pivoting
  /\ ~Differs(WokenBy(x, u), u)

LEMMA EndTurnIs ==
  ASSUME NEW b, WellFormed(b), NEW eot
  PROVE  /\ \A p \in Parties : EndTurn(b, eot)[p] = Over(b[p], eot[p])
         /\ DOMAIN EndTurn(b, eot) = Parties
         /\ EndTurnThrows(b, eot) => \E p \in Parties : Differs(WokenBy(b[p], eot[p]), eot[p])
<1>1. ASSUME NEW p \in Parties
      PROVE  LET cured == IF eot[p].cured THEN Sleeps(b, p, "clear") ELSE b
             IN  /\ CorrectHP(cured, p, eot[p])[p] = Hurt(WokenBy(b[p], eot[p]), eot[p].hp)
                 /\ OutOfSync(cured, p, eot[p]) <=> Differs(WokenBy(b[p], eot[p]), eot[p])
  <2> DEFINE x == b[p]
             y == b[Other(p)]
             u == eot[p]
             cured == IF u.cured THEN Sleeps(b, p, "clear") ELSE b
             z == WokenBy(x, u)
  <2>1. b = BothSides(p, x, y)
    BY AsBothSides DEF WellFormed
  <2>2. Sleeps(b, p, "clear") = BothSides(p, Marked(x, "clear"), y)
    BY <2>1, SleepsIs
  <2> HIDE DEF x, y
  <2>3. cured = BothSides(p, z, y)
    BY <2>1, <2>2 DEF WokenBy
  <2>4. cured[p] = z /\ cured[Other(p)] = y
    <3> HIDE DEF z, cured
    <3> QED BY <2>3, BothSidesFacts
  <2> HIDE DEF z, cured
  <2>5. CorrectHP(cured, p, u) = BothSides(p, Hurt(z, u.hp), y)
    BY <2>3, <2>4, CorrectHPIs
  <2>6. CorrectHP(cured, p, u)[p] = Hurt(z, u.hp)
    BY <2>5, BothSidesFacts
  <2>7. OutOfSync(cured, p, u) <=> Differs(z, u)
    BY <2>4 DEF OutOfSync, Differs, ActiveStatus
  <2> QED BY <2>6, <2>7 DEF x, y, z, cured
<1>2. ASSUME NEW p \in Parties PROVE EndTurn(b, eot)[p] = Over(b[p], eot[p])
  BY <1>1 DEF EndTurn, Over
<1>3. DOMAIN EndTurn(b, eot) = Parties
  BY DEF EndTurn
<1>4. EndTurnThrows(b, eot) => \E p \in Parties : Differs(WokenBy(b[p], eot[p]), eot[p])
  <2>1. SUFFICES ASSUME EndTurnThrows(b, eot)
                 PROVE  \E p \in Parties : Differs(WokenBy(b[p], eot[p]), eot[p])
    OBVIOUS
  <2>2. PICK p \in Parties :
          OutOfSync(IF eot[p].cured THEN Sleeps(b, p, "clear") ELSE b, p, eot[p])
    BY <2>1 DEF EndTurnThrows
  <2> QED BY <1>1, <2>2
<1> QED BY <1>2, <1>3, <1>4

Report(hp, status, cured) == [hp |-> hp, status |-> status, cured |-> cured]

LEMMA ReportIs ==
  ASSUME NEW hp, NEW status, NEW cured
  PROVE  /\ Report(hp, status, cured).hp = hp /\ Report(hp, status, cured).status = status
         /\ Report(hp, status, cured).cured = cured
BY DEF Report

LEMMA OverMatches ==
  ASSUME NEW z, NEW S, Matches(z, S)
  PROVE  LET w == [z EXCEPT !.moved = FALSE, !.pivoting = FALSE, !.flinched = FALSE]
         IN  Matches(w, S) /\ ~w.moved /\ ~w.pivoting
<1> DEFINE w == [z EXCEPT !.moved = FALSE, !.pivoting = FALSE, !.flinched = FALSE]
<1>1. z \in ClientRecord
  BY DEF Matches
<1>2. /\ w \in ClientRecord /\ ~w.moved /\ ~w.pivoting
      /\ w.active = z.active /\ w.team = z.team /\ w.down = z.down /\ w.status = z.status
  BY <1>1 DEF ClientRecord
<1> HIDE DEF w
<1>3. Matches(w, S)
  BY <1>2 DEF Matches, Follows
<1> QED BY <1>2, <1>3 DEF w

LEMMA EndsQuietly ==
  ASSUME NEW x, NEW s, Matches(x, s), NEW u, u.hp = Untold, u.status = Untold, ~u.cured
  PROVE  Ends(x, u, s)
<1>1. WokenBy(x, u) = x
  BY DEF WokenBy
<1>2. Hurt(x, u.hp) = x
  BY DEF Hurt
<1>3. ~Differs(x, u)
  BY DEF Differs
<1> QED BY <1>1, <1>2, <1>3, OverMatches DEF Ends, Over

LEMMA EndsHurt ==
  ASSUME NEW x, NEW s, Matches(x, s), ~x.down, NEW hp \in HP, NEW u,
         u.hp = hp, u.status = s.status[s.active], ~u.cured
  PROVE  Ends(x, u, Left(s, hp))
<1>1. WokenBy(x, u) = x
  BY DEF WokenBy
<1>2. Matches(Hurt(x, hp), Left(s, hp))
  BY HurtMatches
<1>3. x.status[x.active] = s.status[s.active]
  BY DEF Matches, Follows, SideRecord
<1>4. ~Differs(x, u)
  BY <1>3 DEF Differs
<1> QED BY <1>1, <1>2, <1>4, OverMatches DEF Ends, Over

LEMMA EndsCured ==
  ASSUME NEW x, NEW s, Matches(x, s), ~x.down, NEW hp, hp = "up", NEW cl, cl = "clear", NEW u,
         u.hp = hp, u.status = cl, u.cured
  PROVE  Ends(x, u, With(s, cl))
<1> DEFINE z == Marked(x, cl)
           S == With(s, cl)
<1>1. WokenBy(x, u) = z
  BY DEF WokenBy
<1>2. Matches(z, S) /\ ~z.down /\ z.status[z.active] = cl
  <2>1. cl \in Status
    BY Consts
  <2>2. /\ Matches(z, S) /\ z.down = x.down /\ z.status[x.active] = cl /\ z.active = x.active
    BY <2>1, MarkedMatches
  <2> QED BY <2>2
<1> HIDE DEF z, S
<1>3. Left(S, hp) = S
  BY DEF Left
<1>4. Matches(Hurt(z, hp), S)
  <2>1. hp \in HP
    BY Consts
  <2> QED BY <1>2, <1>3, <2>1, HurtKeeps
<1>5. ~Differs(z, u)
  BY <1>2 DEF Differs
<1> QED BY <1>1, <1>4, <1>5, OverMatches DEF Ends, Over, S

-----------------------------------------------------------------------------
(* What is told of the end of a turn                                       *)

Filed(w, p, u) == [w EXCEPT ![p] = u]
Upkeeping(w, b) == Cl(Nothing, w, "unknown", b, 0)

LEMMA FiledIs ==
  ASSUME NEW w \in [Parties -> UpkeepRecord], NEW p \in Parties, NEW u \in UpkeepRecord
  PROVE  /\ Filed(w, p, u) \in [Parties -> UpkeepRecord] /\ Filed(w, p, u)[p] = u
         /\ \A q \in Parties : q # p => Filed(w, p, u)[q] = w[q]
         /\ \A v : Filed(Filed(w, p, u), p, v) = Filed(w, p, v)
BY DEF Filed

LEMMA UpkeepingIs ==
  ASSUME NEW w, NEW b
  PROVE  /\ Upkeeping(w, b).action = Nothing /\ Upkeeping(w, b).upkeep = w
         /\ Upkeeping(w, b).result = "unknown" /\ Upkeeping(w, b).battle = b
         /\ Upkeeping(w, b).endings = 0
BY DEF Upkeeping, Cl

LEMMA SoundUpkeeping ==
  ASSUME NEW w \in [Parties -> UpkeepRecord], NEW b, WellFormed(b)
  PROVE  Sound(Upkeeping(w, b))
<1>1. Nothing.kind = "nothing"
  BY DEF Nothing
<1> QED BY <1>1, SoundCl DEF Upkeeping

IsUpkeep(m, p) == m.party = p /\ m.kind \in {"hp", "shed skin", "status clear"}
IsShed(m, p) == m.party = p /\ m.kind = "shed skin"

LEMMA StepUpkeep ==
  ASSUME NEW w, NEW b, NEW g, IsEndOfTurn(b, g), NEW m, NEW p, IsUpkeep(m, p), NEW u,
         u = Upkept(m, w[p]), NEW after
  PROVE  Advances(m, Upkeeping(w, b), Upkeeping(Filed(w, p, u), b), after, g)
<1> DEFINE c == Upkeeping(w, b)
           d == Upkeeping(Filed(w, p, u), b)
<1>1. /\ c.action = Nothing /\ c.upkeep = w /\ c.result = "unknown" /\ c.battle = b
      /\ c.endings = 0
  BY UpkeepingIs
<1>2. d = Cl(Nothing, [w EXCEPT ![p] = u], "unknown", b, 0)
  BY DEF Upkeeping, Filed
<1> HIDE DEF c, d
<1>3. ByUpkeep(m, c, d, g)
  BY <1>1, <1>2 DEF ByUpkeep, IsUpkeep
<1> QED BY <1>3 DEF Advances, c, d

LEMMA StepRampage ==
  ASSUME NEW w, NEW b, NEW g, IsEndOfTurn(b, g), NEW m, m.kind = "rampage end", NEW after
  PROVE  Advances(m, Upkeeping(w, b), Upkeeping(w, b), after, g)
<1> DEFINE c == Upkeeping(w, b)
<1>1. c.action = Nothing /\ c.battle = b
  BY DEF Upkeeping, Cl
<1> HIDE DEF c
<1>2. ByUpkeep(m, c, c, g)
  BY <1>1 DEF ByUpkeep
<1> QED BY <1>2 DEF Advances, c

Cure(hp) == Report(hp, "clear", Yes)

LEMMA UpkeptHP ==
  ASSUME NEW m, NEW p, NEW hp, NEW status, IsHP(m, p, hp, status),
         NEW h, NEW st, NEW cured
  PROVE  Upkept(m, Report(h, st, cured)) = Report(hp, status, cured)
<1> DEFINE u == Report(h, st, cured)
<1>1. Upkept(m, u) = [u EXCEPT !.hp = m.hp, !.status = m.status]
  BY DEF Upkept, IsHP
<1>2. m.hp = hp /\ m.status = status
  BY DEF IsHP
<1>3. ASSUME NEW e, e = [u EXCEPT !.hp = hp, !.status = status] PROVE e = Report(hp, status,
          cured)
  BY <1>3 DEF Report
<1> HIDE DEF u
<1> QED BY <1>1, <1>2, <1>3 DEF u

LEMMA UpkeptShed ==
  ASSUME NEW m, NEW p, IsShed(m, p), NEW hp, NEW st, NEW cured
  PROVE  Upkept(m, Report(hp, st, cured)) = Cure(hp)
<1> DEFINE u == Report(hp, st, cured)
<1>1. Upkept(m, u) = [u EXCEPT !.cured = TRUE, !.status = "clear"]
  BY DEF Upkept, IsShed
<1>2. ASSUME NEW e, e = [u EXCEPT !.cured = TRUE, !.status = "clear"] PROVE e = Cure(hp)
  BY <1>2 DEF Report, Cure, Yes
<1> HIDE DEF u
<1> QED BY <1>1, <1>2 DEF u

LEMMA UpkeptClear ==
  ASSUME NEW m, NEW p, IsCure(m, p), NEW hp
  PROVE  Upkept(m, Cure(hp)) = Cure(hp)
<1> DEFINE u == Cure(hp)
           v == u.cured \/ m.status = "freeze"
<1>1. Upkept(m, u) = [u EXCEPT !.status = "clear", !.cured = v]
  BY DEF Upkept, IsCure
<1>2. v = TRUE
  BY DEF Cure, Report, Yes
<1> HIDE DEF v
<1>3. ASSUME NEW e, e = [u EXCEPT !.status = "clear", !.cured = v] PROVE e = Cure(hp)
  BY <1>2, <1>3 DEF Report, Cure, Yes
<1> HIDE DEF u
<1> QED BY <1>1, <1>3 DEF u

\* The residual effects of one side are told, and the builder holds them.
LEMMA ResidualRuns ==
  ASSUME NEW p \in Parties, side \in [Parties -> SideRecord], NEW reaches \in BOOLEAN,
         NEW hp \in HP, NEW sheds \in BOOLEAN, sheds => hp = "up",
         reaches => Lives(p), ~reaches => hp = "up" /\ ~sheds,
         NEW b, WellFormed(b), NEW g, IsEndOfTurn(b, g), NEW after,
         NEW w \in [Parties -> UpkeepRecord], w[p] = Report(Untold, Untold, No)
  PROVE  \E u \in UpkeepRecord :
           /\ Runs(Residual(p, reaches, hp, sheds), Upkeeping(w, b), Upkeeping(Filed(w, p, u), b),
                  after, g)
           /\ \A x : Matches(x, side[p]) => Ends(x, u, Survivor(p, hp, sheds))
<1> DEFINE s == side[p]
           st == s.status[s.active]
           u0 == Report(Untold, Untold, No)
           u1 == Report(hp, st, No)
           u2 == Cure(hp)
           c == Upkeeping(w, b)
           c1 == Upkeeping(Filed(w, p, u1), b)
           c2 == Upkeeping(Filed(w, p, u2), b)
           m1 == DamageLine("miscellaneous", p, hp, st)
<1>1. s \in SideRecord /\ st \in Status /\ StatusOf(p) = st /\ (Lives(p) <=> s.active \in s.living)
  BY DEF SideRecord, StatusOf, Lives, Active
<1>2. u0 \in UpkeepRecord /\ u1 \in UpkeepRecord /\ u2 \in UpkeepRecord
  BY <1>1, Consts DEF Report, Cure, UpkeepRecord, No, Yes
<1>3. Sound(c) /\ Sound(c1) /\ Sound(c2)
  BY <1>2, SoundUpkeeping, FiledIs
<1>4. IsHP(m1, p, hp, st)
  <2>1. m1 = Told3("hp", p, hp, st)
    BY Lines
  <2> HIDE DEF m1
  <2> QED BY <2>1 DEF Told3, IsHP
<1>5. Advances(m1, c, c1, after, g)
  <2>1. u1 = Upkept(m1, w[p])
    <3> HIDE DEF m1
    <3> QED BY <1>4, UpkeptHP
  <2>2. IsUpkeep(m1, p)
    BY <1>4 DEF IsHP, IsUpkeep
  <2> HIDE DEF m1, u1
  <2> QED BY <2>1, <2>2, StepUpkeep
<1>6. CASE ~reaches
  <2>1. Residual(p, reaches, hp, sheds) = <<>> /\ Survivor(p, hp, sheds) = s
    BY <1>6 DEF Residual, Survivor, Left
  <2>2. Filed(w, p, u0) = w
    BY DEF Filed
  <2>3. Runs(<<>>, c, c, after, g)
    BY <1>3, RunsNone
  <2>4. \A x : Matches(x, s) => Ends(x, u0, s)
    <3>1. u0.hp = Untold /\ u0.status = Untold /\ ~u0.cured
      BY ReportIs, NoAndYes
    <3> HIDE DEF u0, s
    <3> QED BY <3>1, EndsQuietly
  <2> HIDE DEF u0, s
  <2>5. Runs(Residual(p, reaches, hp, sheds), c, Upkeeping(Filed(w, p, u0), b), after, g)
    BY <2>1, <2>2, <2>3
  <2> QED BY <1>2, <2>1, <2>4, <2>5 DEF s
<1>7. CASE reaches /\ sheds
  <2> DEFINE m2 == Said("shed skin", p)
             m3 == CureStatusLine(p)
  <2>1. /\ IsShed(m2, p) /\ IsUpkeep(m2, p)
        /\ IsCure(m3, p) /\ IsUpkeep(m3, p)
    BY DEF Said, CureStatusLine, IsShed, IsCure, IsUpkeep
  <2>2. Residual(p, reaches, hp, sheds) = <<m1>> \o <<m2, m3>>
    BY <1>1, <1>7 DEF Residual
  <2>3. Survivor(p, hp, sheds) = With(s, "clear")
    BY <1>7 DEF Survivor
  <2> HIDE DEF m1, m2, m3
  <2>4. Advances(m2, c1, c2, after, g)
    <3>1. u2 = Upkept(m2, u1)
      BY <2>1, UpkeptShed
    <3> HIDE DEF u1, u2
    <3>2. Filed(w, p, u1)[p] = u1 /\ Filed(Filed(w, p, u1), p, u2) = Filed(w, p, u2)
      BY DEF Filed
    <3> QED BY <2>1, <3>1, <3>2, StepUpkeep
  <2>5. Advances(m3, c2, c2, after, g)
    <3>1. u2 = Upkept(m3, u2)
      BY <2>1, UpkeptClear
    <3> HIDE DEF u2
    <3>2. Filed(w, p, u2)[p] = u2 /\ Filed(Filed(w, p, u2), p, u2) = Filed(w, p, u2)
      BY <1>2, FiledIs
    <3> QED BY <2>1, <3>1, <3>2, StepUpkeep
  <2>6. Runs(<<m1>> \o <<m2, m3>>, c, c2, after, g)
    <3> HIDE DEF c, c1, c2
    <3>1. Runs(<<m1>>, c, c1, after, g)
      BY <1>3, <1>5, RunsOne DEF m1
    <3>2. Runs(<<m2, m3>>, c1, c2, after, g)
      BY <1>3, <2>4, <2>5, RunsTwo
    <3> QED BY <3>1, <3>2, RunsApp
  <2>7. \A x : Matches(x, s) => Ends(x, u2, With(s, "clear"))
    <3> DEFINE cl == "clear"
    <3>1. u2.hp = hp /\ u2.status = cl /\ u2.cured /\ hp = "up"
      BY <1>7 DEF Cure, Report, Yes
    <3> HIDE DEF u2, s
    <3>2. ASSUME NEW x, Matches(x, s) PROVE ~x.down
      BY <1>1, <1>7, <3>2 DEF Matches, Follows
    <3>3. cl = "clear"
      OBVIOUS
    <3> HIDE DEF cl
    <3>4. \A x : Matches(x, s) => Ends(x, u2, With(s, cl))
      BY <3>1, <3>2, <3>3, EndsCured
    <3> QED BY <3>3, <3>4
  <2> HIDE DEF u2, s
  <2>8. Runs(Residual(p, reaches, hp, sheds), c, Upkeeping(Filed(w, p, u2), b), after, g)
    BY <2>2, <2>6
  <2> QED BY <1>2, <2>3, <2>7, <2>8 DEF s
<1>8. CASE reaches /\ ~sheds
  <2> DEFINE m2 == Said("rampage end", p)
  <2>1. Residual(p, reaches, hp, sheds) = <<m1>> \o IF hp = "up" THEN <<m2>> ELSE <<>>
    BY <1>1, <1>8 DEF Residual
  <2>2. Survivor(p, hp, sheds) = Left(s, hp)
    BY <1>8 DEF Survivor
  <2>3. Advances(m2, c1, c1, after, g)
    <3>1. m2.kind = "rampage end"
      BY DEF Said
    <3> HIDE DEF m2
    <3> QED BY <3>1, StepRampage
  <2> HIDE DEF m1, m2
  <2>4. Runs(<<m1>> \o IF hp = "up" THEN <<m2>> ELSE <<>>, c, c1, after, g)
    <3> HIDE DEF c, c1
    <3>1. Runs(<<m1>>, c, c1, after, g)
      BY <1>3, <1>5, RunsOne DEF m1
    <3>2. Runs(<<m2>>, c1, c1, after, g) /\ Runs(<<>>, c1, c1, after, g)
      BY <1>3, <2>3, RunsOne, RunsNone
    <3>3. Runs(<<m1>> \o <<m2>>, c, c1, after, g) /\ Runs(<<m1>> \o <<>>, c, c1, after, g)
      BY <3>1, <3>2, RunsApp
    <3> QED BY <3>3
  <2>5. \A x : Matches(x, s) => Ends(x, u1, Left(s, hp))
    <3>1. u1.hp = hp /\ u1.status = st /\ ~u1.cured
      BY ReportIs, NoAndYes
    <3> HIDE DEF u1, s
    <3>2. ASSUME NEW x, Matches(x, s) PROVE ~x.down
      BY <1>1, <1>8, <3>2 DEF Matches, Follows
    <3> QED BY <3>1, <3>2, EndsHurt
  <2> HIDE DEF u1, s
  <2>6. Runs(Residual(p, reaches, hp, sheds), c, Upkeeping(Filed(w, p, u1), b), after, g)
    BY <2>1, <2>4
  <2> QED BY <1>2, <2>2, <2>5, <2>6 DEF s
<1> QED BY <1>6, <1>7, <1>8

-----------------------------------------------------------------------------
(* How a block ends, when nobody is to choose a switch                     *)

\* The end of a block, with all that was pending performed
Concludes(b, w, g, final, e, after) ==
  \/ /\ IsEndOfTurn(b, g) /\ ~EndTurnThrows(b, w) /\ final = EndTurn(b, w) /\ after = e + 1
  \/ ~IsEndOfTurn(b, g) /\ final = b /\ after = e

AtEnd(b, e) == Pending(Nothing, b, e)

LEMMA ThenWins ==
  ASSUME NEW s, NEW c0, NEW c, NEW sides, NEW g, Runs(s, c0, c, sides, g)
  PROVE  Runs((s \o <<WinLine>>) \o <<End>>, c0, AtEnd(c.battle, c.endings), sides, g)
<1> DEFINE c1 == Cl(c.action, c.upkeep, "finished", c.battle, c.endings)
           d == AtEnd(c.battle, c.endings)
<1>1. Sound(c)
  BY RunsSound
<1>2. /\ c1.action = c.action /\ c1.upkeep = c.upkeep /\ c1.result = "finished"
      /\ c1.battle = c.battle /\ c1.endings = c.endings
  BY DEF Cl
<1>3. WinLine.kind = "finished" /\ End.kind = "end"
  BY DEF WinLine, End
<1> HIDE DEF c1
<1>4. Sound(c1)
  BY <1>1, <1>2 DEF Sound
<1>5. Sound(d)
  BY <1>1, SoundPending DEF Sound, AtEnd
<1>6. Advances(WinLine, c, c1, sides, g)
  BY <1>3 DEF Advances, ByFinishing, c1
<1>7. d = Rested(c1, c1.battle, c1.endings)
  BY <1>2 DEF Rested, AtEnd, Pending
<1> HIDE DEF d
<1>8. ByEnding(End, c1, d, g)
  BY <1>2, <1>3, <1>7 DEF ByEnding
<1>9. Advances(End, c1, d, sides, g)
  BY <1>8 DEF Advances
<1>10. Runs(<<WinLine>>, c, c1, sides, g) /\ Runs(<<End>>, c1, d, sides, g)
  BY <1>1, <1>4, <1>5, <1>6, <1>9, RunsOne
<1>11. Runs(s \o <<WinLine>>, c0, c1, sides, g)
  BY <1>10, RunsApp
<1> QED BY <1>10, <1>11, RunsApp DEF d

LEMMA LastLine ==
  ASSUME NEW c, c.result # "finished", Accepts(c), Sound(c), NEW b, b = Performed(c.battle,
             c.action),
         NEW g, NEW final, NEW e \in {0, 1}, Concludes(b, c.upkeep, g, final, c.endings, e),
         WellFormed(final), CanStart(c, final), NEW sides
  PROVE  Runs(<<End>>, c, AtEnd(final, e), sides, g)
<1> DEFINE d == AtEnd(final, e)
<1>1. End.kind = "end"
  BY DEF End
<1>2. d = Rested(c, final, e)
  BY DEF Rested, AtEnd, Pending
<1>3. Sound(d)
  BY SoundPending DEF AtEnd
<1> HIDE DEF d
<1>4. ByEnding(End, c, d, g)
  BY <1>1, <1>2 DEF ByEnding, Concludes
<1>5. Advances(End, c, d, sides, g)
  BY <1>4 DEF Advances
<1> QED BY <1>3, <1>5, RunsOne DEF d

LEMMA ThenEnds ==
  ASSUME NEW s, NEW c0, NEW c, NEW sides, NEW g, Runs(s, c0, c, sides, g),
         c.result = "unknown", Accepts(c), NEW b, b = Performed(c.battle, c.action),
         NEW final, NEW e \in {0, 1}, Concludes(b, c.upkeep, g, final, c.endings, e),
         WellFormed(final)
  PROVE  Runs((s \o <<>>) \o <<End>>, c0, AtEnd(final, e), sides, g)
<1>1. Sound(c)
  BY RunsSound
<1>2. CanStart(c, final)
  BY DEF CanStart
<1>3. Runs(<<End>>, c, AtEnd(final, e), sides, g)
  BY <1>1, <1>2, LastLine
<1>4. Runs(<<>>, c, c, sides, g)
  BY <1>1, RunsNone
<1>5. Runs(s \o <<>>, c0, c, sides, g)
  BY <1>4, RunsApp
<1> QED BY <1>3, <1>5, RunsApp

LEMMA ThenTurns ==
  ASSUME NEW s, NEW c0, NEW c, NEW sides, NEW g, Runs(s, c0, c, sides, g),
         c.result = "unknown", Accepts(c), NEW b, b = Performed(c.battle, c.action),
             WellFormed(b),
         c.action.kind \in {"nothing", "switches"},
         NEW final, NEW e \in {0, 1}, Concludes(b, c.upkeep, g, final, c.endings, e),
         WellFormed(final), \A p \in Parties : ~final[p].down /\ ~final[p].moved
  PROVE  Runs((s \o <<TurnLine>>) \o <<End>>, c0, AtEnd(final, e), sides, g)
<1> DEFINE c1 == Cl(Nothing, c.upkeep, "turn", b, c.endings)
<1>1. Sound(c)
  BY RunsSound
<1>2. /\ c1.action = Nothing /\ c1.upkeep = c.upkeep /\ c1.result = "turn"
      /\ c1.battle = b /\ c1.endings = c.endings
  BY DEF Cl
<1>3. TurnLine.kind = "turn"
  BY DEF TurnLine
<1>4. Advances(TurnLine, c, c1, sides, g)
  <2>1. ByTurn(TurnLine, c, c1)
    BY <1>3 DEF ByTurn
  <2> QED BY <2>1 DEF Advances
<1> HIDE DEF c1
<1>5. Sound(c1)
  <2>1. Nothing.kind = "nothing"
    BY DEF Nothing
  <2> QED BY <1>1, <1>2, <2>1 DEF Sound
<1>6. Performed(b, Nothing) = b /\ ~PerformThrows(b, Nothing)
  BY DEF Nothing, Performed, PerformThrows
<1>7. Accepts(c1) /\ b = Performed(c1.battle, c1.action)
  BY <1>2, <1>6 DEF Accepts
<1>8. CanStart(c1, final)
  <2>1. \A p \in Parties : ~CannotStartTurn(final, p)
    BY TeamIsNotEmpty DEF CannotStartTurn, IsFainted
  <2> QED BY <2>1 DEF CanStart
<1>9. c1.result # "finished" /\ Concludes(b, c1.upkeep, g, final, c1.endings, e)
  BY <1>2
<1>10. Runs(<<End>>, c1, AtEnd(final, e), sides, g)
  BY <1>5, <1>7, <1>8, <1>9, LastLine
<1>11. Runs(<<TurnLine>>, c, c1, sides, g)
  BY <1>1, <1>4, <1>5, RunsOne
<1>12. Runs(s \o <<TurnLine>>, c0, c1, sides, g)
  BY <1>11, RunsApp
<1> QED BY <1>10, <1>12, RunsApp

LEMMA SettledAtEnd ==
  ASSUME NEW b, WellFormed(b), NEW sides \in [Parties -> SideRecord], AllFollow(b, sides),
         \A p \in Parties : ~b[p].moved /\ ~b[p].pivoting /\ ~sides[p].pivots,
         NEW now \in {"choosing", "replacing"}, now = "choosing" => \A p \in Parties : ~b[p].down
  PROVE  Settled(AtEnd(b, 1), sides, now) /\ ServerOK(sides, now)
<1> DEFINE c == AtEnd(b, 1)
<1>1. /\ c.action = Nothing /\ c.upkeep = NoUpkeep /\ c.result = "unknown" /\ c.battle = b
      /\ c.endings = 1
  BY PendingIs DEF AtEnd
<1>2. Performed(b, Nothing) = b /\ ~PerformThrows(b, Nothing)
  BY DEF Nothing, Performed, PerformThrows
<1> HIDE DEF c
<1>3. Settled(c, sides, now)
  BY <1>1, <1>2 DEF Settled
<1> QED BY <1>3 DEF ServerOK, Phases, c

LEMMA SettledOver ==
  ASSUME NEW b, NEW e, NEW sides \in [Parties -> SideRecord], \A p \in Parties : ~sides[p].pivots,
         NEW now, now = "over"
  PROVE  Settled(AtEnd(b, e), sides, now) /\ ServerOK(sides, now)
<1> DEFINE c == AtEnd(b, e)
<1>1. c.action = Nothing /\ c.upkeep = NoUpkeep /\ c.result = "unknown"
  BY PendingIs DEF AtEnd
<1> HIDE DEF c
<1>2. Settled(c, sides, now)
  BY <1>1 DEF Settled
<1> QED BY <1>2 DEF ServerOK, Phases, c

-----------------------------------------------------------------------------
(* The server ends the turn                                                *)

IsOver(sides) == \E p \in Parties : sides[p].living = {}
HasFainted(sides) == \E p \in Parties : sides[p].active \notin sides[p].living
Closing(sides, line, now) ==
  \/ IsOver(sides) /\ line = <<WinLine>> /\ now = "over"
  \/ ~IsOver(sides) /\ HasFainted(sides) /\ line = <<>> /\ now = "replacing"
  \/ ~IsOver(sides) /\ ~HasFainted(sides) /\ line = <<TurnLine>> /\ now = "choosing"

LEMMA ClosesOver ==
  ASSUME NEW s, NEW c0, NEW c, NEW sides \in [Parties -> SideRecord], NEW g,
         Runs(s, c0, c, sides, g), \A p \in Parties : ~sides[p].pivots,
         NEW line, NEW now, Closing(sides, line, now), IsOver(sides)
  PROVE  Proceeds((s \o line) \o <<End>>, c0, sides, now, g)
<1>1. line = <<WinLine>> /\ now = "over"
  BY DEF Closing
<1> DEFINE d == AtEnd(c.battle, c.endings)
<1>2. Runs((s \o <<WinLine>>) \o <<End>>, c0, d, sides, g)
  BY ThenWins
<1>3. Settled(d, sides, now) /\ ServerOK(sides, now)
  BY <1>1, SettledOver
<1> HIDE DEF d
<1> QED BY <1>1, <1>2, <1>3 DEF Proceeds

LEMMA Closes ==
  ASSUME NEW s, NEW c0, NEW c, NEW sides \in [Parties -> SideRecord], NEW g,
         Runs(s, c0, c, sides, g), \A p \in Parties : ~sides[p].pivots,
         NEW line, NEW now, Closing(sides, line, now),
         c.result = "unknown", Accepts(c), NEW b, b = Performed(c.battle, c.action),
             WellFormed(b),
         HasFainted(sides) \/ c.action.kind \in {"nothing", "switches"},
         NEW final, Concludes(b, c.upkeep, g, final, c.endings, 1),
         WellFormed(final), AllFollow(final, sides),
         \A p \in Parties : ~final[p].moved /\ ~final[p].pivoting
  PROVE  Proceeds((s \o line) \o <<End>>, c0, sides, now, g)
<1> DEFINE d == AtEnd(final, 1)
<1>1. CASE IsOver(sides)
  BY <1>1, ClosesOver
<1>2. CASE ~IsOver(sides) /\ HasFainted(sides)
  <2>1. line = <<>> /\ now = "replacing"
    BY <1>2 DEF Closing
  <2>2. Runs((s \o <<>>) \o <<End>>, c0, d, sides, g)
    BY ThenEnds
  <2>3. now \in {"choosing", "replacing"} /\ now # "choosing"
    BY <2>1
  <2>4. Settled(d, sides, now) /\ ServerOK(sides, now)
    BY <2>3, SettledAtEnd
  <2> HIDE DEF d
  <2> QED BY <2>1, <2>2, <2>4 DEF Proceeds
<1>3. CASE ~IsOver(sides) /\ ~HasFainted(sides)
  <2>1. line = <<TurnLine>> /\ now = "choosing"
    BY <1>3 DEF Closing
  <2>2. \A p \in Parties : ~final[p].down
    BY <1>3 DEF HasFainted, AllFollow, Follows
  <2>3. Runs((s \o <<TurnLine>>) \o <<End>>, c0, d, sides, g)
    BY <1>3, <2>2, ThenTurns
  <2>4. now \in {"choosing", "replacing"}
    BY <2>1
  <2>5. Settled(d, sides, now) /\ ServerOK(sides, now)
    BY <2>2, <2>4, SettledAtEnd
  <2> HIDE DEF d
  <2> QED BY <2>1, <2>3, <2>5 DEF Proceeds
<1> QED BY <1>1, <1>2, <1>3

\* The client between two actions of a turn
LEMMA WithinTurn ==
  ASSUME MInv, script = <<>>, phase \in {"switching", "moving"}
  PROVE  LET next == Performed(battle, action)
         IN  /\ side \in [Parties -> SideRecord] /\ generation \in Generations
             /\ Sound(Client) /\ Accepts(Client)
             /\ upkeep = NoUpkeep /\ result = "unknown" /\ endings = 0
             /\ WellFormed(next) /\ AllFollow(next, side)
             /\ InTurn(battle, action, side)
             /\ \A q \in Parties : ~side[q].pivots
<1>1. phase # "over" /\ phase # "pivoting" /\ phase \in {"switching", "moving", "pivoting"}
  OBVIOUS
<1>2. /\ Settled(Client, side, phase) /\ Sound(Client)
      /\ side \in [Parties -> SideRecord] /\ generation \in Generations
  BY AtRestSettled DEF MInv
<1>3. Accepts(Client)
  BY <1>1, <1>2, ClientIs DEF Settled, Accepts
<1> QED BY <1>1, <1>2, <1>3, ClientIs DEF Settled

LEMMA SeesTheEnd ==
  ASSUME MInv, script = <<>>, phase \in {"switching", "moving"},
         \A p \in Parties : ~MayAct(p) /\ ~HasLost(p)
  PROVE  IsEndOfTurn(Performed(battle, action), generation)
<1> DEFINE next == Performed(battle, action)
<1>1. /\ side \in [Parties -> SideRecord] /\ generation \in Generations
      /\ WellFormed(next) /\ AllFollow(next, side)
      /\ \A q \in Parties : ~side[q].pivots
  BY WithinTurn
<1>2. \A p \in Parties : /\ next[p].moved = ~side[p].owes
                         /\ next[p].pivoting => Alone(side[p])
                         /\ next[p].down => \E q \in Parties : next[q].moved
  <2>1. InTurn(battle, action, side)
    BY WithinTurn
  <2>2. \A p \in Parties : ~Gone(side, Other(p))
    BY TwoSides DEF Gone, HasLost
  <2> QED BY <1>1, <2>1, <2>2 DEF InTurn
<1>3. \A p \in Parties :
        ~(/\ side[p].owes /\ side[p].active \in side[p].living
          /\ generation = 1 => \A q \in Parties : side[q].active \in side[q].living)
  BY DEF MayAct, Lives, Active
<1> HIDE DEF next
<1> QED BY <1>1, <1>2, <1>3, TurnIsOver DEF next

\* What the client's battle becomes, when the sides end as was told
LEMMA EndsAsTold ==
  ASSUME NEW b, WellFormed(b), NEW g, IsEndOfTurn(b, g), NEW w,
         NEW sides, DOMAIN sides = Parties, sides = [p \in Parties |-> sides[p]],
         \A p \in Parties : Ends(b[p], w[p], sides[p])
  PROVE  LET final == EndTurn(b, w)
         IN  /\ Concludes(b, w, g, final, 0, 1)
             /\ WellFormed(final) /\ AllFollow(final, sides)
             /\ \A p \in Parties : ~final[p].moved /\ ~final[p].pivoting
<1> DEFINE final == EndTurn(b, w)
<1>1. /\ \A p \in Parties : final[p] = Over(b[p], w[p])
      /\ DOMAIN final = Parties
      /\ EndTurnThrows(b, w) => \E p \in Parties : Differs(WokenBy(b[p], w[p]), w[p])
  BY EndTurnIs
<1>2. ~EndTurnThrows(b, w)
  BY <1>1 DEF Ends
<1>3. \A p \in Parties : /\ Matches(final[p], sides[p])
                         /\ ~final[p].moved /\ ~final[p].pivoting
  BY <1>1 DEF Ends
<1>4. final = [p \in Parties |-> final[p]]
  BY DEF EndTurn
<1> HIDE DEF final
<1>5. WellFormed(final) /\ AllFollow(final, sides)
  BY <1>3, <1>4 DEF WellFormed, AllFollow, Matches
<1>6. Concludes(b, w, g, final, 0, 1)
  BY <1>2 DEF Concludes, final
<1> QED BY <1>3, <1>5, <1>6 DEF final

LEMMA SurvivorIs ==
  ASSUME NEW p \in Parties, side \in [Parties -> SideRecord], NEW hp \in HP, NEW sheds \in BOOLEAN
  PROVE  /\ Survivor(p, hp, sheds) \in SideRecord
         /\ Survivor(p, hp, sheds).pivots = side[p].pivots
<1>1. \A s \in SideRecord : /\ Left(s, hp) \in SideRecord /\ Left(s, hp).pivots = s.pivots
                            /\ With(s, "clear") \in SideRecord /\ With(s,
                                   "clear").pivots = s.pivots
  BY Consts DEF SideRecord, Left, With
<1>2. side[p] \in SideRecord
  OBVIOUS
<1> QED BY <1>1, <1>2 DEF Survivor

\* The separator performs what is pending.
LEMMA SeparatorRuns ==
  ASSUME MInv, script = <<>>, phase \in {"switching", "moving"}, NEW sides
  PROVE  Runs(<<Separator>>, Client, Upkeeping(NoUpkeep, Performed(battle, action)),
              sides, generation)
<1> DEFINE c == Client
           d == Upkeeping(NoUpkeep, Performed(battle, action))
<1>1. Sound(c) /\ Accepts(c) /\ upkeep = NoUpkeep /\ result = "unknown" /\ endings = 0
  BY WithinTurn
<1>2. Sound(d)
  BY WithinTurn, NoUpkeepIs, SoundUpkeeping
<1>3. Separator.kind = "separator"
  BY DEF Separator
<1>4. d = Then(c, Nothing)
  BY <1>1, ClientIs DEF Then, Upkeeping
<1> HIDE DEF c, d
<1>5. BySeparator(Separator, c, d)
  BY <1>1, <1>3, <1>4 DEF BySeparator, c
<1> QED BY <1>1, <1>2, <1>5, RunsOne DEF Advances, c, d

LEMMA EndsTurnProceeds ==
  ASSUME MInv, EndsTurn
  PROVE  Proceeds(script', Client, side', phase', generation)
<1> DEFINE next == Performed(battle, action)
           c == Client
           g == generation
<1>1. /\ script = <<>> /\ phase \in {"switching", "moving"} /\ \A p \in Parties : ~MayAct(p)
  BY DEF EndsTurn, Says
<1>0. PICK hp \in [Parties -> HP], reached \in SUBSET {p \in Parties : Lives(p)} :
      \E sheds \in SUBSET reached :
        LET residual == generation # 1 /\ \A p \in Parties : ~HasLost(p)
            after == [p \in Parties |-> Survivor(p, hp[p], p \in sheds)]
            over == \E p \in Parties : after[p].living = {}
            faint == \E p \in Parties : after[p].active \notin after[p].living
        IN  /\ ~residual => reached = {}
            /\ \A p \in sheds : StatusOf(p) # "clear" /\ hp[p] = "up"
            /\ \A p \in Parties \ reached : hp[p] = "up"
            /\ Says((IF residual \/ ~faint THEN <<Separator>> ELSE <<>>)
                    \o (Residual("ai", "ai" \in reached, hp["ai"], "ai" \in sheds)
                        \o Residual("foe", "foe" \in reached, hp["foe"], "foe" \in sheds))
                    \o (CASE over -> <<WinLine>> [] ~over /\ faint -> <<>>
                          [] OTHER -> <<TurnLine>>)
                    \o <<End>>)
            /\ side' = after
            /\ phase' = CASE over -> "over" [] ~over /\ faint -> "replacing"
                          [] OTHER -> "choosing"
  BY DEF EndsTurn
<1>2. PICK sheds \in SUBSET reached :
        LET residual == generation # 1 /\ \A p \in Parties : ~HasLost(p)
            after == [p \in Parties |-> Survivor(p, hp[p], p \in sheds)]
            over == \E p \in Parties : after[p].living = {}
            faint == \E p \in Parties : after[p].active \notin after[p].living
        IN  /\ ~residual => reached = {}
            /\ \A p \in sheds : StatusOf(p) # "clear" /\ hp[p] = "up"
            /\ \A p \in Parties \ reached : hp[p] = "up"
            /\ Says((IF residual \/ ~faint THEN <<Separator>> ELSE <<>>)
                    \o (Residual("ai", "ai" \in reached, hp["ai"], "ai" \in sheds)
                        \o Residual("foe", "foe" \in reached, hp["foe"], "foe" \in sheds))
                    \o (CASE over -> <<WinLine>> [] ~over /\ faint -> <<>>
                          [] OTHER -> <<TurnLine>>)
                    \o <<End>>)
            /\ side' = after
            /\ phase' = CASE over -> "over" [] ~over /\ faint -> "replacing"
                          [] OTHER -> "choosing"
  BY <1>0
<1> DEFINE residual == generation # 1 /\ \A p \in Parties : ~HasLost(p)
           after == [p \in Parties |-> Survivor(p, hp[p], p \in sheds)]
           over == \E p \in Parties : after[p].living = {}
           faint == \E p \in Parties : after[p].active \notin after[p].living
           line == CASE over -> <<WinLine>> [] ~over /\ faint -> <<>> [] OTHER -> <<TurnLine>>
           now == CASE over -> "over" [] ~over /\ faint -> "replacing" [] OTHER -> "choosing"
           first == IF residual \/ ~faint THEN <<Separator>> ELSE <<>>
           a == Residual("ai", "ai" \in reached, hp["ai"], "ai" \in sheds)
           f == Residual("foe", "foe" \in reached, hp["foe"], "foe" \in sheds)
           told == a \o f
<1>3. script' = ((first \o told) \o line) \o <<End>> /\ side' = after /\ phase' = now
  BY <1>2 DEF Says
<1>4. Closing(after, line, now)
  <2>1. (IsOver(after) <=> over) /\ (HasFainted(after) <=> faint)
    BY DEF IsOver, HasFainted
  <2> HIDE DEF over, faint, after
  <2> QED BY <2>1 DEF Closing
<1>5. /\ side \in [Parties -> SideRecord] /\ g \in Generations
      /\ Sound(c) /\ Accepts(c)
      /\ upkeep = NoUpkeep /\ result = "unknown" /\ endings = 0
      /\ WellFormed(next) /\ AllFollow(next, side)
      /\ \A q \in Parties : ~side[q].pivots
  BY <1>1, WithinTurn
<1>6. "ai" \in Parties /\ "foe" \in Parties /\ "ai" # "foe" /\ \A p \in Parties : p = "ai" \/ p = "foe"
  BY DEF Parties
<1>7. /\ \A p \in Parties : hp[p] \in HP
      /\ \A p \in Parties : p \in sheds => hp[p] = "up"
      /\ \A p \in Parties : p \in reached => Lives(p)
      /\ \A p \in Parties : p \notin reached => hp[p] = "up" /\ p \notin sheds
  BY <1>2
<1>8. after \in [Parties -> SideRecord] /\ \A p \in Parties : ~after[p].pivots
  <2>1. \A p \in Parties : /\ Survivor(p, hp[p], p \in sheds) \in SideRecord
                           /\ ~Survivor(p, hp[p], p \in sheds).pivots
    <3>1. ASSUME NEW p \in Parties
          PROVE  /\ Survivor(p, hp[p], p \in sheds) \in SideRecord
                 /\ ~Survivor(p, hp[p], p \in sheds).pivots
      <4> DEFINE sh == p \in sheds
      <4>1. sh \in BOOLEAN
        OBVIOUS
      <4> HIDE DEF sh
      <4>2. Survivor(p, hp[p], sh) \in SideRecord /\ Survivor(p, hp[p],
                sh).pivots = side[p].pivots
        BY <1>5, <4>1, SurvivorIs
      <4> QED BY <1>5, <4>2 DEF sh
    <3> QED BY <3>1
  <2> QED BY <1>5, <2>1
<1>9. Runs(<<Separator>>, c, Upkeeping(NoUpkeep, next), after, g)
  BY <1>1, SeparatorRuns
<1>10. IsOver(after) <=> over
  BY DEF IsOver
<1>11. HasFainted(after) <=> faint
  BY DEF HasFainted
<1>12. Performed(next, Nothing) = next /\ ~PerformThrows(next,
           Nothing) /\ Nothing.kind = "nothing"
  BY DEF Nothing, Performed, PerformThrows
<1>13. CASE residual
  <2>1. IsEndOfTurn(next, g)
    BY <1>1, <1>13, SeesTheEnd
  <2>2. NoUpkeep["ai"] = Report(Untold, Untold, No) /\ NoUpkeep["foe"] = Report(Untold, Untold,
            No)
    BY <1>6 DEF NoUpkeep, Report, No
  <2>3. PICK u1 \in UpkeepRecord :
          /\ Runs(a, Upkeeping(NoUpkeep, next), Upkeeping(Filed(NoUpkeep, "ai", u1), next),
                 after, g)
          /\ \A x : Matches(x, side["ai"]) => Ends(x, u1, Survivor("ai", hp["ai"],
                 "ai" \in sheds))
    <3> DEFINE p == "ai"
               sh == p \in sheds
               re == p \in reached
               h == hp[p]
    <3>1. p \in Parties /\ sh \in BOOLEAN /\ re \in BOOLEAN /\ h \in HP /\ (sh => h = "up")
          /\ (re => Lives(p)) /\ (~re => h = "up" /\ ~sh)
          /\ NoUpkeep[p] = Report(Untold, Untold, No)
      BY <1>6, <1>7, <2>2
    <3> HIDE DEF p, sh, re, h, next, after, c
    <3>2. \E u \in UpkeepRecord :
            /\ Runs(Residual(p, re, h, sh), Upkeeping(NoUpkeep, next),
                    Upkeeping(Filed(NoUpkeep, p, u), next), after, g)
            /\ \A x : Matches(x, side[p]) => Ends(x, u, Survivor(p, h, sh))
      BY <1>5, <2>1, <3>1, NoUpkeepIs, ResidualRuns
    <3> QED BY <3>2 DEF p, sh, re, h
  <2> DEFINE w1 == Filed(NoUpkeep, "ai", u1)
  <2>4. w1 \in [Parties -> UpkeepRecord] /\ w1["ai"] = u1 /\ w1["foe"] = NoUpkeep["foe"]
    BY <1>6, NoUpkeepIs DEF Filed
  <2> HIDE DEF w1
  <2>5. PICK u2 \in UpkeepRecord :
          /\ Runs(f, Upkeeping(w1, next), Upkeeping(Filed(w1, "foe", u2), next), after, g)
          /\ \A x : Matches(x, side["foe"]) => Ends(x, u2, Survivor("foe", hp["foe"],
                 "foe" \in sheds))
    <3> DEFINE p == "foe"
               sh == p \in sheds
               re == p \in reached
               h == hp[p]
    <3>1. p \in Parties /\ sh \in BOOLEAN /\ re \in BOOLEAN /\ h \in HP /\ (sh => h = "up")
          /\ (re => Lives(p)) /\ (~re => h = "up" /\ ~sh)
          /\ w1[p] = Report(Untold, Untold, No)
      BY <1>6, <1>7, <2>2, <2>4
    <3> HIDE DEF p, sh, re, h, next, after, c
    <3>2. \E u \in UpkeepRecord :
            /\ Runs(Residual(p, re, h, sh), Upkeeping(w1, next),
                    Upkeeping(Filed(w1, p, u), next), after, g)
            /\ \A x : Matches(x, side[p]) => Ends(x, u, Survivor(p, h, sh))
      BY <1>5, <2>1, <2>4, <3>1, ResidualRuns
    <3> QED BY <3>2 DEF p, sh, re, h
  <2> DEFINE w2 == Filed(w1, "foe", u2)
             d == Upkeeping(w2, next)
             final == EndTurn(next, w2)
  <2>6. w2 \in [Parties -> UpkeepRecord] /\ w2["ai"] = u1 /\ w2["foe"] = u2
    BY <1>6, <2>4 DEF Filed
  <2> HIDE DEF w2
  <2>7. Runs(<<Separator>> \o (a \o f), c, d, after, g)
    <3>1. Runs(a \o f, Upkeeping(NoUpkeep, next), d, after, g)
      BY <2>3, <2>5, RunsApp DEF w1, w2
    <3> HIDE DEF d, c, next, after, a, f
    <3> QED BY <1>9, <3>1, RunsApp
  <2>8. \A p \in Parties : Ends(next[p], w2[p], after[p])
    <3>1. \A p \in Parties : Matches(next[p], side[p])
      <4> HIDE DEF next
      <4> QED BY <1>5, MatchesAll
    <3>2. after["ai"] = Survivor("ai", hp["ai"], "ai" \in sheds)
          /\ after["foe"] = Survivor("foe", hp["foe"], "foe" \in sheds)
      BY <1>6, <1>13
    <3> HIDE DEF next, after
    <3> QED BY <1>6, <2>3, <2>5, <2>6, <3>1, <3>2
  <2>9. /\ d.action = Nothing /\ d.upkeep = w2 /\ d.result = "unknown" /\ d.battle = next
        /\ d.endings = 0
    BY UpkeepingIs
  <2> HIDE DEF next, after, d, final, line, now, a, f, c
  <2>10. /\ Concludes(next, w2, g, final, 0, 1)
         /\ WellFormed(final) /\ AllFollow(final, after)
         /\ \A p \in Parties : ~final[p].moved /\ ~final[p].pivoting
    <3>1. DOMAIN after = Parties /\ after = [p \in Parties |-> after[p]]
      BY <1>8
    <3> QED BY <1>5, <2>1, <2>8, <3>1, EndsAsTold DEF final
  <2>11. Accepts(d) /\ next = Performed(d.battle, d.action)
    BY <1>12, <2>9 DEF Accepts
  <2>12. Proceeds(((<<Separator>> \o (a \o f)) \o line) \o <<End>>, c, after, now, g)
    <3>1. d.action.kind \in {"nothing", "switches"}
      BY <1>12, <2>9
    <3> QED BY <1>4, <1>5, <1>8, <2>7, <2>9, <2>10, <2>11, <3>1, Closes
  <2>13. script' = ((<<Separator>> \o (a \o f)) \o line) \o <<End>>
    BY <1>3, <1>13
  <2> QED BY <1>3, <2>12, <2>13 DEF c
<1>14. CASE ~residual
  <2>1. after = side /\ told = <<>>
    <3>1. \A p \in Parties : p \notin reached /\ p \notin sheds /\ hp[p] = "up"
      BY <1>2, <1>14
    <3>2. \A p \in Parties : Survivor(p, hp[p], p \in sheds) = side[p]
      BY <3>1 DEF Survivor, Left
    <3>3. after = side
      BY <1>5, <3>2
    <3>4. a = <<>> /\ f = <<>>
      BY <1>6, <3>1 DEF Residual
    <3> HIDE DEF a, f, after
    <3>5. told = <<>> \o <<>> /\ <<>> \o <<>> = <<>>
      BY <3>4
    <3> QED BY <3>3, <3>5
  <2>2. over => faint
    OBVIOUS
  <2> HIDE DEF after, line, now, next, c, over, faint
  <2>3. Runs(<<>>, c, c, after, g) /\ Runs(<<>> \o <<>>, c, c, after, g)
    BY <1>5, RunsNone, RunsApp
  <2>4. CASE over
    <3>1. script' = ((<<>> \o <<>>) \o line) \o <<End>>
      BY <1>3, <1>14, <2>1, <2>2, <2>4
    <3>2. Proceeds(((<<>> \o <<>>) \o line) \o <<End>>, c, after, now, g)
      BY <1>4, <1>8, <1>10, <2>3, <2>4, ClosesOver
    <3> QED BY <1>3, <3>1, <3>2 DEF c
  <2>5. CASE ~over
    <3>1. \A p \in Parties : ~HasLost(p)
      BY <2>1, <2>5 DEF HasLost, over
    <3>2. IsEndOfTurn(next, g)
      BY <1>1, <3>1, SeesTheEnd DEF next
    <3> DEFINE final == EndTurn(next, NoUpkeep)
    <3>3. \A p \in Parties : Ends(next[p], NoUpkeep[p], after[p])
      <4>1. \A p \in Parties : Matches(next[p], side[p])
        BY <1>5, MatchesAll
      <4> QED BY <2>1, <4>1, NoUpkeepIs, EndsQuietly
    <3> HIDE DEF final
    <3>4. /\ Concludes(next, NoUpkeep, g, final, 0, 1)
          /\ WellFormed(final) /\ AllFollow(final, after)
          /\ \A p \in Parties : ~final[p].moved /\ ~final[p].pivoting
      <4>1. DOMAIN after = Parties /\ after = [p \in Parties |-> after[p]]
        BY <1>8
      <4> QED BY <1>5, <3>2, <3>3, <4>1, EndsAsTold DEF final
    <3>5. CASE faint
      <4>1. script' = ((<<>> \o <<>>) \o line) \o <<End>>
        BY <1>3, <1>14, <2>1, <3>5
      <4>2. /\ c.action = action /\ c.upkeep = NoUpkeep /\ c.result = "unknown"
            /\ c.battle = battle /\ c.endings = 0
        BY <1>5, ClientIs DEF c
      <4>3. next = Performed(c.battle, c.action) /\ HasFainted(after)
        BY <1>11, <3>5, <4>2 DEF next
      <4>4. Proceeds(((<<>> \o <<>>) \o line) \o <<End>>, c, after, now, g)
        BY <1>4, <1>5, <1>8, <2>3, <3>4, <4>2, <4>3, Closes
      <4> QED BY <1>3, <4>1, <4>4 DEF c
    <3>6. CASE ~faint
      <4> DEFINE d == Upkeeping(NoUpkeep, next)
      <4>1. script' = ((<<Separator>> \o <<>>) \o line) \o <<End>>
        BY <1>3, <1>14, <2>1, <3>6
      <4>2. /\ d.action = Nothing /\ d.upkeep = NoUpkeep /\ d.result = "unknown"
            /\ d.battle = next /\ d.endings = 0
        BY UpkeepingIs
      <4> HIDE DEF d
      <4>3. Accepts(d) /\ next = Performed(d.battle, d.action)
            /\ d.action.kind \in {"nothing", "switches"}
        BY <1>12, <4>2 DEF Accepts
      <4>4. Runs(<<Separator>> \o <<>>, c, d, after, g)
        <5>1. Sound(d)
          BY <1>9, RunsSound DEF d
        <5>2. Runs(<<>>, d, d, after, g)
          BY <5>1, RunsNone
        <5> QED BY <1>9, <5>2, RunsApp DEF d
      <4>5. Proceeds(((<<Separator>> \o <<>>) \o line) \o <<End>>, c, after, now, g)
        BY <1>4, <1>5, <1>8, <3>4, <4>2, <4>3, <4>4, Closes
      <4> QED BY <1>3, <4>1, <4>5 DEF c
    <3> QED BY <3>5, <3>6
  <2> QED BY <2>4, <2>5
<1> QED BY <1>13, <1>14

-----------------------------------------------------------------------------
(* The server replaces whoever has fainted                                 *)

Replaced(d, sides) ==
  LET nb == Performed(d.battle, d.action)
  IN  /\ d.result = "unknown" /\ d.endings = 1 /\ Accepts(d)
      /\ d.action.kind \in {"nothing", "switches"}
      /\ WellFormed(nb) /\ AllFollow(nb, sides)
      /\ \A q \in Parties : ~nb[q].moved /\ ~nb[q].pivoting

LEMMA ClosesReplaced ==
  ASSUME NEW s, NEW c0, NEW d, NEW sides \in [Parties -> SideRecord], NEW g,
         Runs(s, c0, d, sides, g), Replaced(d, sides), \A p \in Parties : ~sides[p].pivots,
         NEW line, NEW now, Closing(sides, line, now)
  PROVE  Proceeds((s \o line) \o <<End>>, c0, sides, now, g)
<1> DEFINE nb == Performed(d.battle, d.action)
<1>1. /\ d.result = "unknown" /\ d.endings = 1 /\ Accepts(d)
      /\ d.action.kind \in {"nothing", "switches"}
      /\ WellFormed(nb) /\ AllFollow(nb, sides)
      /\ \A q \in Parties : ~nb[q].moved /\ ~nb[q].pivoting
  BY DEF Replaced
<1>2. ~IsEndOfTurn(nb, g)
  <2>1. ~IsDoneMoving(nb, "ai") /\ ~IsDoneMoving(nb, "foe")
    BY <1>1 DEF IsDoneMoving, Parties
  <2> DEFINE ai == IsDoneMoving(nb, "ai")
             foe == IsDoneMoving(nb, "foe")
  <2>2. IsEndOfTurn(nb, g) => ai \/ foe
    BY DEF IsEndOfTurn
  <2> HIDE DEF nb
  <2> QED BY <2>1, <2>2
<1>3. Concludes(nb, d.upkeep, g, nb, d.endings, 1)
  BY <1>1, <1>2 DEF Concludes
<1> HIDE DEF nb
<1>4. nb = Performed(d.battle, d.action)
  BY DEF nb
<1> QED BY <1>1, <1>3, <1>4, Closes

LEMMA HazardAlone ==
  ASSUME NEW p, NEW new, NEW hp, NEW status, NEW m, IsHP(m, p, hp, status),
         NEW g, g = 1 => hp = "up", NEW b, WellFormed(b), NEW after
  PROVE  Runs(IF g = 1 THEN <<>> ELSE <<m>>,
              Listed(<<Comes(p, new, "up", status)>>, b, 1),
              Listed(<<Comes(p, new, hp, status)>>, b, 1), after, g)
<1> DEFINE z == Comes(p, new, "up", status)
           w == Comes(p, new, hp, status)
           c == Listed(<<z>>, b, 1)
           d == Listed(<<w>>, b, 1)
<1>1. z.party = p /\ Fixed(z, m) = w /\ m.party = p
  BY ComesIs, FixedIs DEF IsHP
<1>2. g = 1 => w = z
  OBVIOUS
<1>3. Sound(c) /\ Sound(d)
  BY SoundPending
<1> HIDE DEF z, w
<1>4. FindSwitch(<<z>>, p) # {} /\ Corrected(<<z>>, m) = <<w>>
  <2>1. FindSwitch(<<z>>, p) = {1}
    BY <1>1, Found
  <2> QED BY <1>1, <2>1, CorrectedOne
<1>5. Advances(m, c, d, after, g)
  <2>1. Advances(m, Listed(<<z>>, b, 1), Listed(Corrected(<<z>>, m), b, 1), after, g)
    BY <1>4, CorrectsListed
  <2> QED BY <1>4, <2>1
<1>6. g = 1 => d = c
  BY <1>2
<1> HIDE DEF c, d
<1>7. CASE g = 1
  BY <1>3, <1>6, <1>7, RunsNone DEF c, d, z, w
<1>8. CASE g # 1
  BY <1>3, <1>5, <1>8, RunsOne DEF c, d, z, w
<1> QED BY <1>7, <1>8

LEMMA HazardFirst ==
  ASSUME NEW p, NEW new, NEW hp, NEW status, NEW m, IsHP(m, p, hp, status),
         NEW f, f.party # p,
         NEW g, g = 1 => hp = "up", NEW b, WellFormed(b), NEW after
  PROVE  Runs(IF g = 1 THEN <<>> ELSE <<m>>,
              Listed(<<Comes(p, new, "up", status), f>>, b, 1),
              Listed(<<Comes(p, new, hp, status), f>>, b, 1), after, g)
<1> DEFINE z == Comes(p, new, "up", status)
           w == Comes(p, new, hp, status)
           c == Listed(<<z, f>>, b, 1)
           d == Listed(<<w, f>>, b, 1)
<1>1. z.party = p /\ Fixed(z, m) = w /\ m.party = p
  BY ComesIs, FixedIs DEF IsHP
<1>2. g = 1 => w = z
  OBVIOUS
<1>3. Sound(c) /\ Sound(d)
  BY SoundPending
<1> HIDE DEF z, w
<1>4. FindSwitch(<<z, f>>, p) # {} /\ Corrected(<<z, f>>, m) = <<w, f>>
  <2>1. FindSwitch(<<z, f>>, p) = {1}
    BY <1>1, FoundOfTwo
  <2> QED BY <1>1, <2>1, CorrectedFirst
<1>5. Advances(m, c, d, after, g)
  <2>1. Advances(m, Listed(<<z, f>>, b, 1), Listed(Corrected(<<z, f>>, m), b, 1), after, g)
    BY <1>4, CorrectsListed
  <2> QED BY <1>4, <2>1
<1>6. g = 1 => d = c
  BY <1>2
<1> HIDE DEF c, d
<1>7. CASE g = 1
  BY <1>3, <1>6, <1>7, RunsNone DEF c, d, z, w
<1>8. CASE g # 1
  BY <1>3, <1>5, <1>8, RunsOne DEF c, d, z, w
<1> QED BY <1>7, <1>8

LEMMA HazardSecond ==
  ASSUME NEW p, NEW new, NEW hp, NEW status, NEW m, IsHP(m, p, hp, status),
         NEW f, f.party # p,
         NEW g, g = 1 => hp = "up", NEW b, WellFormed(b), NEW after
  PROVE  Runs(IF g = 1 THEN <<>> ELSE <<m>>,
              Listed(<<f, Comes(p, new, "up", status)>>, b, 1),
              Listed(<<f, Comes(p, new, hp, status)>>, b, 1), after, g)
<1> DEFINE z == Comes(p, new, "up", status)
           w == Comes(p, new, hp, status)
           c == Listed(<<f, z>>, b, 1)
           d == Listed(<<f, w>>, b, 1)
<1>1. z.party = p /\ Fixed(z, m) = w /\ m.party = p
  BY ComesIs, FixedIs DEF IsHP
<1>2. g = 1 => w = z
  OBVIOUS
<1>3. Sound(c) /\ Sound(d)
  BY SoundPending
<1> HIDE DEF z, w
<1>4. FindSwitch(<<f, z>>, p) # {} /\ Corrected(<<f, z>>, m) = <<f, w>>
  <2>1. FindSwitch(<<f, z>>, p) = {2}
    BY <1>1, FoundOfTwo
  <2> QED BY <1>1, <2>1, CorrectedSecond
<1>5. Advances(m, c, d, after, g)
  <2>1. Advances(m, Listed(<<f, z>>, b, 1), Listed(Corrected(<<f, z>>, m), b, 1), after, g)
    BY <1>4, CorrectsListed
  <2> QED BY <1>4, <2>1
<1>6. g = 1 => d = c
  BY <1>2
<1> HIDE DEF c, d
<1>7. CASE g = 1
  BY <1>3, <1>6, <1>7, RunsNone DEF c, d, z, w
<1>8. CASE g # 1
  BY <1>3, <1>5, <1>8, RunsOne DEF c, d, z, w
<1> QED BY <1>7, <1>8

LEMMA ListedSound ==
  ASSUME NEW list, NEW b, NEW sides, ~PerformThrows(b, Switches(list)),
         WellFormed(Performed(b, Switches(list))),
         AllFollow(Performed(b, Switches(list)), sides),
         \A q \in Parties : /\ ~Performed(b, Switches(list))[q].moved
                            /\ ~Performed(b, Switches(list))[q].pivoting
  PROVE  Replaced(Listed(list, b, 1), sides)
<1> DEFINE d == Listed(list, b, 1)
           a == Switches(list)
<1>1. d.action = a /\ d.battle = b /\ a.kind = "switches"
  BY ListedIs
<1>2. d.result = "unknown" /\ d.endings = 1
  BY PendingIs DEF Listed
<1> HIDE DEF d, a
<1> QED BY <1>1, <1>2 DEF Replaced, Accepts, d, a

\* A side that nobody has moved on, and one that was down and comes back
Waits(x, s) == Matches(x, s) /\ ~x.moved /\ ~x.pivoting
ComesUp(x, s, new, hp, status) ==
  /\ Waits(x, s) /\ x.down /\ OnBench(s, new) /\ hp \in HP /\ status = s.status[new]

LEMMA ComesUpRight ==
  ASSUME NEW x, NEW s, NEW new, NEW hp, NEW status, ComesUp(x, s, new, hp, status), NEW p
  PROVE  /\ Waits(Hurt(Came(x, new), hp), Left(Entered(s, new), hp))
         /\ Left(Entered(s, new), hp).active = new
         /\ ~Differs(Came(x, new), Comes(p, new, hp, status))
<1> DEFINE X == Hurt(Came(x, new), hp)
           S == Left(Entered(s, new), hp)
<1>1. /\ Matches(X, S) /\ (X.moved <=> x.moved \/ ~x.down) /\ ~X.pivoting
      /\ S.active = new /\ ~Differs(Came(x, new), Comes(p, new, hp, s.status[new]))
  BY ComesRight DEF ComesUp, Waits
<1> HIDE DEF X, S
<1> QED BY <1>1 DEF ComesUp, Waits, X, S

LEMMA WaitBoth ==
  ASSUME NEW p \in Parties, NEW x, NEW y, NEW s, NEW t, Waits(x, s), Waits(y, t)
  PROVE  /\ WellFormed(BothSides(p, x, y)) /\ AllFollow(BothSides(p, x, y), BothSides(p, s, t))
         /\ \A q \in Parties : ~BothSides(p, x, y)[q].moved /\ ~BothSides(p, x, y)[q].pivoting
<1>1. WellFormed(BothSides(p, x, y)) /\ AllFollow(BothSides(p, x, y), BothSides(p, s, t))
  BY MatchesBoth DEF Waits
<1>2. \A q \in Parties : ~BothSides(p, x, y)[q].moved /\ ~BothSides(p, x, y)[q].pivoting
  BY TwoSides DEF BothSides, Waits
<1> QED BY <1>1, <1>2

\* What is said of the one who comes in, before and after the others have
Enters(p, new, hp, status, m1, m2, m, g) ==
  /\ IsSwitch(m1, p, new, "up", status) /\ IsReveal(m2, p)
  /\ g = 1 => hp = "up"
  /\ \E m3 : IsHP(m3, p, hp, status) /\ m = IF g = 1 THEN <<>> ELSE <<m3>>

LEMMA OneComes ==
  ASSUME NEW p \in Parties, NEW new, NEW hp, NEW status, NEW m1, NEW m2, NEW m, NEW g,
         Enters(p, new, hp, status, m1, m2, m, g),
         NEW x, NEW y, NEW s, NEW t, ComesUp(x, s, new, hp, status), Waits(y, t),
         NEW b, b = BothSides(p, x, y),
         NEW after, after = BothSides(p, Left(Entered(s, new), hp), t)
  PROVE  \E c, d : /\ Runs(<<m1, m2>>, Pending(Nothing, b, 1), c, after, g)
                   /\ Runs(m, c, d, after, g)
                   /\ Replaced(d, after)
<1>0. PICK m3 : IsHP(m3, p, hp, status) /\ m = IF g = 1 THEN <<>> ELSE <<m3>>
  BY DEF Enters
<1>00. IsSwitch(m1, p, new, "up", status) /\ IsReveal(m2, p) /\ (g = 1 => hp = "up")
  BY DEF Enters
<1> DEFINE X == Hurt(Came(x, new), hp)
           S == Left(Entered(s, new), hp)
           e == Comes(p, new, hp, status)
           c0 == Pending(Nothing, b, 1)
           c == Listed(<<Comes(p, new, "up", status)>>, b, 1)
           d == Listed(<<e>>, b, 1)
<1>1. Waits(X, S) /\ S.active = new /\ ~Differs(Came(x, new), e)
  BY ComesUpRight
<1>2. WellFormed(b)
  BY WaitBoth DEF ComesUp
<1>3. e.party = p /\ e.index = new /\ e.hp = hp
  BY ComesIs
<1>4. after[p] = S
  BY BothSidesFacts
<1> HIDE DEF X, S
<1>5. Performed(b, Switches(<<e>>)) = BothSides(p, X, y) /\ ~PerformThrows(b, Switches(<<e>>))
  <2> HIDE DEF e
  <2> QED BY <1>1, <1>3, OneSwitch DEF X
<1>6. Replaced(d, after)
  <2>1. after = BothSides(p, S, t)
    BY DEF S
  <2> HIDE DEF e
  <2> QED BY <1>1, <1>5, <2>1, WaitBoth, ListedSound
<1>7. Runs(<<m1, m2>>, c0, c, after, g)
  <2>1. /\ c0.action = Nothing /\ c0.battle = b /\ c0.endings = 1 /\ c0.upkeep = NoUpkeep
        /\ c0.result = "unknown"
    BY PendingIs
  <2>2. Performed(b, Nothing) = b /\ ~PerformThrows(b, Nothing) /\ Nothing.kind # "switches"
    BY DEF Nothing, Performed, PerformThrows
  <2>3. Sound(c0)
    BY <1>2, SoundPending
  <2> HIDE DEF c0
  <2> QED BY <1>0, <1>00, <1>1, <1>2, <1>4, <2>1, <2>2, <2>3, FirstIn DEF Accepts
<1>8. Runs(m, c, d, after, g)
  BY <1>0, <1>00, <1>2, HazardAlone
<1> HIDE DEF c0, c, d
<1> QED BY <1>6, <1>7, <1>8 DEF c0

LEMMA SecondIsIn ==
  ASSUME NEW p \in Parties, NEW new, NEW status, NEW up, up = "up",
         NEW m1, IsSwitch(m1, p, new, up, status), NEW m2, IsReveal(m2, p),
         NEW f, f.party = Other(p), NEW b, WellFormed(b),
         NEW after, after[p].active = new, NEW g
  PROVE  Runs(<<m1, m2>>, Listed(<<f>>, b, 1), Listed(<<f, Comes(p, new, up, status)>>, b, 1),
              after, g)
<1> DEFINE m3 == Told3("hp", p, up, status)
<1>1. IsHP(m3, p, up, status)
  BY DEF Told3, IsHP
<1> HIDE DEF m3
<1> QED BY <1>1, SecondIn

LEMMA TwoCome ==
  ASSUME NEW p \in Parties, NEW o, o = Other(p), NEW g,
         NEW n, NEW h, NEW u, NEW m1, NEW m2, NEW m, Enters(p, n, h, u, m1, m2, m, g),
         NEW k, NEW l, NEW v, NEW r1, NEW r2, NEW r, Enters(o, k, l, v, r1, r2, r, g),
         NEW x, NEW y, NEW s, NEW t, ComesUp(x, s, n, h, u), ComesUp(y, t, k, l, v),
         NEW b, b = BothSides(p, x, y),
         NEW after, after = BothSides(p, Left(Entered(s, n), h), Left(Entered(t, k), l))
  PROVE  \E c1, c2, c3, d :
           /\ Runs(<<m1, m2>>, Pending(Nothing, b, 1), c1, after, g)
           /\ Runs(<<r1, r2>>, c1, c2, after, g)
           /\ Runs(m, c2, c3, after, g)
           /\ Runs(r, c3, d, after, g)
           /\ Replaced(d, after)
<1>0. PICK m3, r3 : /\ IsHP(m3, p, h, u) /\ m = IF g = 1 THEN <<>> ELSE <<m3>>
                    /\ IsHP(r3, o, l, v) /\ r = IF g = 1 THEN <<>> ELSE <<r3>>
  BY DEF Enters
<1>00. /\ IsSwitch(m1, p, n, "up", u) /\ IsReveal(m2, p) /\ (g = 1 => h = "up")
       /\ IsSwitch(r1, o, k, "up", v) /\ IsReveal(r2, o) /\ (g = 1 => l = "up")
  BY DEF Enters
<1> DEFINE X == Hurt(Came(x, n), h)
           S == Left(Entered(s, n), h)
           Y == Hurt(Came(y, k), l)
           T == Left(Entered(t, k), l)
           e1 == Comes(p, n, "up", u)
           e == Comes(p, n, h, u)
           f1 == Comes(o, k, "up", v)
           f == Comes(o, k, l, v)
           c0 == Pending(Nothing, b, 1)
           c1 == Listed(<<e1>>, b, 1)
           c2 == Listed(<<e1, f1>>, b, 1)
           c3 == Listed(<<e, f1>>, b, 1)
           d == Listed(<<e, f>>, b, 1)
<1>1. Waits(X, S) /\ S.active = n /\ ~Differs(Came(x, n), e)
  BY ComesUpRight
<1>2. Waits(Y, T) /\ T.active = k /\ ~Differs(Came(y, k), f)
  BY ComesUpRight
<1>3. WellFormed(b)
  BY WaitBoth DEF ComesUp
<1>4. /\ e.party = p /\ e.index = n /\ e.hp = h /\ f.party = o /\ f.index = k /\ f.hp = l
      /\ e1.party = p /\ f1.party = o
  BY ComesIs
<1>5. o \in Parties /\ o # p /\ p = Other(o)
  BY TwoSides
<1>6. after[p] = S /\ after[o] = T
  BY BothSidesFacts
<1> HIDE DEF X, S, Y, T
<1>7. /\ Performed(b, Switches(<<e, f>>)) = BothSides(p, X, Y)
      /\ ~PerformThrows(b, Switches(<<e, f>>))
  <2> HIDE DEF e, f
  <2>1. LET z == BothSides(p, x, y)
        IN  /\ Performed(z, Switches(<<e, f>>))
                 = BothSides(p, Hurt(Came(x, e.index), e.hp), Hurt(Came(y, f.index), f.hp))
            /\ PerformThrows(z, Switches(<<e, f>>))
                 <=> Differs(Came(x, e.index), e) \/ Differs(Came(y, f.index), f)
    BY <1>4, SwitchedOrder
  <2> QED BY <1>1, <1>2, <1>4, <2>1 DEF X, Y
<1>8. Replaced(d, after)
  <2>1. after = BothSides(p, S, T)
    BY DEF S, T
  <2> HIDE DEF e, f
  <2> QED BY <1>1, <1>2, <1>7, <2>1, WaitBoth, ListedSound
<1>9. Runs(<<m1, m2>>, c0, c1, after, g)
  <2>1. /\ c0.action = Nothing /\ c0.battle = b /\ c0.endings = 1 /\ c0.upkeep = NoUpkeep
        /\ c0.result = "unknown"
    BY PendingIs
  <2>2. Performed(b, Nothing) = b /\ ~PerformThrows(b, Nothing) /\ Nothing.kind # "switches"
    BY DEF Nothing, Performed, PerformThrows
  <2>3. Sound(c0)
    BY <1>3, SoundPending
  <2> HIDE DEF c0
  <2> QED BY <1>0, <1>00, <1>1, <1>3, <1>6, <2>1, <2>2, <2>3, FirstIn DEF Accepts
<1>10. Runs(<<r1, r2>>, c1, c2, after, g)
  <2>1. e1.party = Other(o) /\ after[o].active = k
    BY <1>2, <1>4, <1>5, <1>6
  <2> HIDE DEF e1, c1, f1
  <2>2. Runs(<<r1, r2>>, Listed(<<e1>>, b, 1), Listed(<<e1, Comes(o, k, "up", v)>>, b, 1),
            after, g)
    <3> DEFINE up == "up"
    <3>1. up = "up" /\ IsSwitch(r1, o, k, up, v)
      BY <1>00
    <3> HIDE DEF up
    <3>2. Runs(<<r1, r2>>, Listed(<<e1>>, b, 1), Listed(<<e1, Comes(o, k, up, v)>>, b, 1),
              after, g)
      BY <1>00, <1>3, <1>5, <2>1, <3>1, SecondIsIn
    <3> QED BY <3>2 DEF up
  <2> QED BY <2>2 DEF c1, f1
<1>11. Runs(m, c2, c3, after, g)
  <2>1. f1.party # p /\ (g = 1 => h = "up")
    BY <1>00, <1>4, <1>5
  <2> HIDE DEF f1
  <2> QED BY <1>0, <1>00, <1>3, <2>1, HazardFirst
<1>12. Runs(r, c3, d, after, g)
  <2> HIDE DEF e
  <2> QED BY <1>0, <1>00, <1>3, <1>4, <1>5, HazardSecond
<1> HIDE DEF c0, c1, c2, c3, d
<1> QED BY <1>8, <1>9, <1>10, <1>11, <1>12 DEF c0

LEMMA ComingLines ==
  ASSUME NEW q, NEW n, NEW h
  PROVE  /\ IsSwitch(SwitchLine("switch", q, n, "up"), q, n, "up", side[q].status[n])
         /\ IsReveal(Said("reveal", q), q)
         /\ IsHP(DamageLine("hazards", q, h, side[q].status[n]), q, h, side[q].status[n])
<1>1. IsSwitch(SwitchLine("switch", q, n, "up"), q, n, "up", side[q].status[n])
  BY DEF SwitchLine, IsSwitch
<1>2. IsReveal(Said("reveal", q), q)
  BY DEF Said, IsReveal
<1>3. IsHP(DamageLine("hazards", q, h, side[q].status[n]), q, h, side[q].status[n])
  <2> DEFINE st == side[q].status[n]
             m == DamageLine("hazards", q, h, st)
  <2>1. m = Told3("hp", q, h, st)
    BY Lines
  <2> HIDE DEF m, st
  <2>2. IsHP(m, q, h, st)
    BY <2>1 DEF Told3, IsHP
  <2> QED BY <2>2 DEF m, st
<1> QED BY <1>1, <1>2, <1>3

LEMMA WhileReplacing ==
  ASSUME MInv, script = <<>>, phase = "replacing"
  PROVE  /\ side \in [Parties -> SideRecord]
         /\ Client = Pending(Nothing, battle, 1) /\ Sound(Client)
         /\ battle \in [Parties -> ClientRecord]
         /\ \A p \in Parties : /\ Waits(battle[p], side[p]) /\ ~side[p].pivots
                               /\ battle[p].down <=> ~Lives(p)
<1>1. /\ Settled(Client, side, phase) /\ Sound(Client) /\ side \in [Parties -> SideRecord]
  BY AtRestSettled
<1>2. phase # "over" /\ phase # "pivoting"
  OBVIOUS
<1>3. /\ upkeep = NoUpkeep /\ result = "unknown" /\ endings = 1 /\ action = Nothing
      /\ WellFormed(Performed(battle, action)) /\ AllFollow(Performed(battle, action), side)
      /\ \A p \in Parties : ~battle[p].moved /\ ~battle[p].pivoting
      /\ \A p \in Parties : ~side[p].pivots
  BY <1>1, <1>2, ClientIs DEF Settled
<1>4. Performed(battle, action) = battle
  BY <1>3 DEF Nothing, Performed
<1>5. Client = Pending(Nothing, battle, 1)
  BY <1>3 DEF Client, Pending
<1>6. \A p \in Parties : Matches(battle[p], side[p])
  BY <1>1, <1>3, <1>4, MatchesAll
<1>7. \A p \in Parties : Waits(battle[p], side[p]) /\ (battle[p].down <=> ~Lives(p))
  BY <1>3, <1>6 DEF Waits, Matches, Follows, Lives, Active
<1> QED BY <1>1, <1>3, <1>4, <1>5, <1>7 DEF WellFormed

LEMMA ReplacesProceeds ==
  ASSUME MInv, Replaces
  PROVE  Proceeds(script', Client, side', phase', generation)
<1> DEFINE fainted == {p \in Parties : ~Lives(p)}
           g == generation
           b == battle
           c0 == Client
<1>1. script = <<>> /\ phase = "replacing"
  BY DEF Replaces, Says
<1>2. PICK new \in [fainted -> Roster], hp \in [fainted -> HP] :
        LET Coming(p) ==
              IF p \notin fainted THEN <<>>
              ELSE <<SwitchLine("switch", p, new[p], "up"), Said("reveal", p)>>
            Hazards(p) ==
              IF p \notin fainted \/ generation = 1 THEN <<>>
              ELSE <<DamageLine("hazards", p, hp[p], side[p].status[new[p]])>>
            after == [p \in Parties |-> IF p \in fainted
                        THEN Left(Entered(side[p], new[p]), hp[p]) ELSE side[p]]
            over == \E p \in Parties : after[p].living = {}
            stand == \A p \in fainted : hp[p] = "up"
        IN  /\ \A p \in fainted : new[p] \in Bench(p) /\ (generation = 1 => hp[p] = "up")
            /\ Says(<<Separator>> \o Coming("ai") \o Coming("foe")
                    \o Hazards("ai") \o Hazards("foe")
                    \o (CASE over -> <<WinLine>> [] ~over /\ ~stand -> <<>>
                          [] OTHER -> <<TurnLine>>)
                    \o <<End>>)
            /\ side' = after
            /\ phase' = CASE over -> "over" [] ~over /\ ~stand -> "replacing"
                          [] OTHER -> "choosing"
  BY DEF Replaces
<1> DEFINE Coming(p) ==
             IF p \notin fainted THEN <<>>
             ELSE <<SwitchLine("switch", p, new[p], "up"), Said("reveal", p)>>
           Hazards(p) ==
             IF p \notin fainted \/ generation = 1 THEN <<>>
             ELSE <<DamageLine("hazards", p, hp[p], side[p].status[new[p]])>>
           after == [p \in Parties |-> IF p \in fainted
                       THEN Left(Entered(side[p], new[p]), hp[p]) ELSE side[p]]
           over == \E p \in Parties : after[p].living = {}
           stand == \A p \in fainted : hp[p] = "up"
           line == CASE over -> <<WinLine>> [] ~over /\ ~stand -> <<>> [] OTHER -> <<TurnLine>>
           now == CASE over -> "over" [] ~over /\ ~stand -> "replacing" [] OTHER -> "choosing"
           ca == Coming("ai")
           cf == Coming("foe")
           ha == Hazards("ai")
           hf == Hazards("foe")
           s == (((<<Separator>> \o ca) \o cf) \o ha) \o hf
<1>3. /\ script' = (s \o line) \o <<End>> /\ side' = after /\ phase' = now
      /\ \A p \in fainted : new[p] \in Bench(p) /\ (generation = 1 => hp[p] = "up")
  BY <1>2 DEF Says
<1>4. /\ side \in [Parties -> SideRecord] /\ c0 = Pending(Nothing, b, 1) /\ Sound(c0)
      /\ b \in [Parties -> ClientRecord]
      /\ \A p \in Parties : /\ Waits(b[p], side[p]) /\ ~side[p].pivots
                            /\ b[p].down <=> ~Lives(p)
  BY <1>1, WhileReplacing
<1>5. ASSUME NEW p \in fainted
      PROVE  ComesUp(b[p], side[p], new[p], hp[p], side[p].status[new[p]])
  <2>1. b[p].down /\ Waits(b[p], side[p])
    BY <1>4
  <2>2. OnBench(side[p], new[p]) /\ hp[p] \in HP
    BY <1>3 DEF Bench, Active, OnBench
  <2> QED BY <2>1, <2>2 DEF ComesUp
<1>6. ASSUME NEW p \in Parties
      PROVE  /\ after[p] \in SideRecord /\ ~after[p].pivots
             /\ after[p].active \notin after[p].living <=> p \in fainted /\ hp[p] # "up"
  <2>1. CASE p \in fainted
    <3> DEFINE n == new[p]
               h == hp[p]
               S == Left(Entered(side[p], n), h)
               X == Hurt(Came(b[p], n), h)
    <3>1. Matches(b[p], side[p]) /\ OnBench(side[p], n) /\ h \in HP
      BY <1>5, <2>1 DEF ComesUp, Waits
    <3> HIDE DEF n, h
    <3>2. Matches(X, S) /\ (X.down <=> h = "down") /\ S.pivots = side[p].pivots
      BY <3>1, ComesRight
    <3> HIDE DEF S, X
    <3>3. S \in SideRecord /\ (S.active \notin S.living <=> h # "up")
      BY <3>1, <3>2 DEF Matches, Follows, HP
    <3>4. after[p] = S
      BY <2>1 DEF S, n, h
    <3> HIDE DEF after
    <3> QED BY <1>4, <2>1, <3>2, <3>3, <3>4 DEF h
  <2>2. CASE p \notin fainted
    <3>1. after[p] = side[p] /\ Lives(p)
      BY <2>2
    <3> HIDE DEF after
    <3> QED BY <1>4, <2>2, <3>1 DEF Lives, Active
  <2> QED BY <2>1, <2>2
<1>7. after \in [Parties -> SideRecord] /\ (\A p \in Parties : ~after[p].pivots)
  <2>1. after = [p \in Parties |-> after[p]]
    OBVIOUS
  <2> HIDE DEF after
  <2> QED BY <1>6, <2>1
<1>8. Closing(after, line, now)
  <2>1. IsOver(after) <=> over
    BY DEF IsOver
  <2>2. HasFainted(after) <=> ~stand
    <3> HIDE DEF after
    <3> QED BY <1>6 DEF HasFainted
  <2> HIDE DEF over, stand, after
  <2> QED BY <2>1, <2>2 DEF Closing
<1>9. Runs(<<Separator>>, c0, c0, after, g)
  <2>1. /\ c0.action = Nothing /\ c0.battle = b /\ c0.upkeep = NoUpkeep
        /\ c0.result = "unknown" /\ c0.endings = 1
    BY <1>4, PendingIs
  <2>2. Performed(b, Nothing) = b /\ ~PerformThrows(b, Nothing)
    BY DEF Nothing, Performed, PerformThrows
  <2>3. Separator.kind = "separator"
    BY DEF Separator
  <2> HIDE DEF c0, after
  <2>4. Then(c0, Nothing) = c0
    BY <1>4, <2>1, <2>2 DEF Then, Pending
  <2>5. BySeparator(Separator, c0, c0)
    BY <2>1, <2>2, <2>3, <2>4 DEF BySeparator, Accepts
  <2> QED BY <1>4, <2>5, RunsOne DEF Advances
<1>10. \E d : Runs(s, c0, d, after, g) /\ Replaced(d, after)
  <2> DEFINE p == "ai"
             o == "foe"
  <2>1. p \in Parties /\ o = Other(p) /\ o \in Parties /\ p = Other(o)
    BY DEF Parties, Other
  <2>2. /\ ca = Coming(p) /\ cf = Coming(o) /\ ha = Hazards(p) /\ hf = Hazards(o)
        /\ b = BothSides(p, b[p], b[o]) /\ b = BothSides(o, b[o], b[p])
    <3>1. b = BothSides(p, b[p], b[o]) /\ b = BothSides(o, b[o], b[p])
      <4> HIDE DEF b, p, o
      <4> QED BY <1>4, <2>1, AsBothSides
    <3> QED BY <3>1
  <2>3. after = BothSides(p, after[p], after[o]) /\ after = BothSides(o, after[o], after[p])
    <3> HIDE DEF after, p, o
    <3> QED BY <1>7, <2>1, AsBothSides
  <2>4. \A q \in Parties : after[q] = IF q \in fainted
                             THEN Left(Entered(side[q], new[q]), hp[q]) ELSE side[q]
    OBVIOUS
  <2> DEFINE m1(q) == SwitchLine("switch", q, new[q], "up")
             m2(q) == Said("reveal", q)
             m3(q) == DamageLine("hazards", q, hp[q], side[q].status[new[q]])
             st(q) == side[q].status[new[q]]
  <2>5. \A q : /\ IsSwitch(m1(q), q, new[q], "up", st(q)) /\ IsReveal(m2(q), q)
               /\ IsHP(m3(q), q, hp[q], st(q))
    BY ComingLines
  <2>6. \A q : /\ q \in fainted => Coming(q) = <<m1(q), m2(q)>>
               /\ q \in fainted => Hazards(q) = IF g = 1 THEN <<>> ELSE <<m3(q)>>
               /\ q \notin fainted => Coming(q) = <<>> /\ Hazards(q) = <<>>
    OBVIOUS
  <2> HIDE DEF after, p, o, ca, cf, ha, hf, Coming, Hazards, m1, m2, m3, b, c0
  <2>7. CASE p \in fainted /\ o \in fainted
    <3> DEFINE n == new[p]
               k == new[o]
               h == hp[p]
               l == hp[o]
               u == st(p)
               v == st(o)
               A1 == m1(p)
               A2 == m2(p)
               B1 == m1(o)
               B2 == m2(o)
               x == b[p]
               y == b[o]
               S == side[p]
               T == side[o]
    <3>1. ComesUp(x, S, n, h, u) /\ ComesUp(y, T, k, l, v)
      BY <1>5, <2>7
    <3>2. Enters(p, n, h, u, A1, A2, ha, g) /\ Enters(o, k, l, v, B1, B2, hf, g)
      BY <1>3, <2>2, <2>5, <2>6, <2>7 DEF Enters
    <3>4. after = BothSides(p, Left(Entered(S, n), h), Left(Entered(T, k), l))
      BY <2>1, <2>3, <2>4, <2>7
    <3>5. b = BothSides(p, x, y)
      BY <2>2
    <3>6. ca = <<A1, A2>> /\ cf = <<B1, B2>>
      BY <2>2, <2>6, <2>7
    <3> HIDE DEF n, k, h, l, u, v, A1, A2, B1, B2, x, y, S, T
    <3>7. \E c1, c2, c3, d :
           /\ Runs(<<A1, A2>>, Pending(Nothing, b, 1), c1, after, g)
           /\ Runs(<<B1, B2>>, c1, c2, after, g)
           /\ Runs(ha, c2, c3, after, g)
           /\ Runs(hf, c3, d, after, g)
           /\ Replaced(d, after)
      BY <2>1, <3>1, <3>2, <3>4, <3>5, TwoCome
    <3>8. PICK c1, c2, c3, d :
            /\ Runs(ca, c0, c1, after, g) /\ Runs(cf, c1, c2, after, g)
            /\ Runs(ha, c2, c3, after, g) /\ Runs(hf, c3, d, after, g)
            /\ Replaced(d, after)
      BY <1>4, <3>6, <3>7
    <3>9. Runs(<<Separator>> \o ca, c0, c1, after, g)
      BY <1>9, <3>8, RunsApp
    <3>10. Runs((<<Separator>> \o ca) \o cf, c0, c2, after, g)
      BY <3>8, <3>9, RunsApp
    <3>11. Runs(((<<Separator>> \o ca) \o cf) \o ha, c0, c3, after, g)
      BY <3>8, <3>10, RunsApp
    <3>12. Runs(s, c0, d, after, g)
      BY <3>8, <3>11, RunsApp
    <3> QED BY <3>8, <3>12
  <2>8. CASE p \in fainted /\ o \notin fainted
    <3> DEFINE n == new[p]
               h == hp[p]
               u == st(p)
               A1 == m1(p)
               A2 == m2(p)
               x == b[p]
               y == b[o]
               S == side[p]
               T == side[o]
    <3>1. ComesUp(x, S, n, h, u) /\ Waits(y, T)
      BY <1>4, <1>5, <2>1, <2>8
    <3>2. Enters(p, n, h, u, A1, A2, ha, g)
      BY <1>3, <2>2, <2>5, <2>6, <2>8 DEF Enters
    <3>4. after = BothSides(p, Left(Entered(S, n), h), T)
      BY <2>1, <2>3, <2>4, <2>8
    <3>5. b = BothSides(p, x, y)
      BY <2>2
    <3>6. ca = <<A1, A2>> /\ cf = <<>> /\ hf = <<>>
      BY <2>2, <2>6, <2>8
    <3> HIDE DEF n, h, u, A1, A2, x, y, S, T
    <3>7. \E c, d : /\ Runs(<<A1, A2>>, Pending(Nothing, b, 1), c, after, g)
                    /\ Runs(ha, c, d, after, g)
                    /\ Replaced(d, after)
      BY <2>1, <3>1, <3>2, <3>4, <3>5, OneComes
    <3>8. PICK c, d : /\ Runs(ca, c0, c, after, g) /\ Runs(ha, c, d, after, g)
                      /\ Replaced(d, after)
      BY <1>4, <3>6, <3>7
    <3>9. Runs(cf, c, c, after, g) /\ Runs(hf, d, d, after, g)
      BY <3>6, <3>8, RunsSound, RunsNone
    <3>10. Runs((<<Separator>> \o ca) \o cf, c0, c, after, g)
      BY <1>9, <3>8, <3>9, RunsApp
    <3>11. Runs(((<<Separator>> \o ca) \o cf) \o ha, c0, d, after, g)
      BY <3>8, <3>10, RunsApp
    <3>12. Runs(s, c0, d, after, g)
      BY <3>9, <3>11, RunsApp
    <3> QED BY <3>8, <3>12
  <2>9. CASE p \notin fainted /\ o \in fainted
    <3> DEFINE k == new[o]
               l == hp[o]
               v == st(o)
               B1 == m1(o)
               B2 == m2(o)
               x == b[p]
               y == b[o]
               S == side[p]
               T == side[o]
    <3>1. ComesUp(y, T, k, l, v) /\ Waits(x, S)
      BY <1>4, <1>5, <2>1, <2>9
    <3>2. Enters(o, k, l, v, B1, B2, hf, g)
      BY <1>3, <2>2, <2>5, <2>6, <2>9 DEF Enters
    <3>4. after = BothSides(o, Left(Entered(T, k), l), S)
      BY <2>1, <2>3, <2>4, <2>9
    <3>5. b = BothSides(o, y, x)
      BY <2>2
    <3>6. ca = <<>> /\ ha = <<>> /\ cf = <<B1, B2>>
      BY <2>2, <2>6, <2>9
    <3> HIDE DEF k, l, v, B1, B2, x, y, S, T
    <3>7. \E c, d : /\ Runs(<<B1, B2>>, Pending(Nothing, b, 1), c, after, g)
                    /\ Runs(hf, c, d, after, g)
                    /\ Replaced(d, after)
      <4>1. o \in Parties
        BY <2>1
      <4> QED BY <4>1, <3>1, <3>2, <3>4, <3>5, OneComes
    <3>8. PICK c, d : /\ Runs(cf, c0, c, after, g) /\ Runs(hf, c, d, after, g)
                      /\ Replaced(d, after)
      BY <1>4, <3>6, <3>7
    <3>9. Runs(ca, c0, c0, after, g) /\ Runs(ha, c, c, after, g)
      BY <3>6, <3>8, RunsSound, RunsNone
    <3>10. Runs((<<Separator>> \o ca) \o cf, c0, c, after, g)
      BY <1>9, <3>8, <3>9, RunsApp
    <3>11. Runs(((<<Separator>> \o ca) \o cf) \o ha, c0, c, after, g)
      BY <3>9, <3>10, RunsApp
    <3>12. Runs(s, c0, d, after, g)
      BY <3>8, <3>11, RunsApp
    <3> QED BY <3>8, <3>12
  <2>10. CASE p \notin fainted /\ o \notin fainted
    <3>1. ca = <<>> /\ ha = <<>> /\ cf = <<>> /\ hf = <<>>
      BY <2>2, <2>6, <2>10
    <3>2. Runs(<<>>, c0, c0, after, g)
      BY <1>4, RunsNone
    <3>3. Runs((<<Separator>> \o ca) \o cf, c0, c0, after, g)
      BY <1>9, <3>1, <3>2, RunsApp
    <3>4. Runs(s, c0, c0, after, g)
      BY <3>1, <3>2, <3>3, RunsApp
    <3>5. WellFormed(b) /\ AllFollow(b, after) /\ \A q \in Parties : ~b[q].moved /\ ~b[q].pivoting
      <4>1. after = BothSides(p, side[p], side[o])
        BY <2>1, <2>3, <2>4, <2>10
      <4> QED BY <1>4, <2>1, <2>2, <4>1, WaitBoth
    <3>6. /\ c0.action = Nothing /\ c0.battle = b /\ c0.result = "unknown" /\ c0.endings = 1
      BY <1>4, PendingIs
    <3>7. /\ Performed(b, Nothing) = b /\ ~PerformThrows(b, Nothing)
          /\ Nothing.kind \in {"nothing", "switches"}
      BY DEF Nothing, Performed, PerformThrows
    <3>8. Replaced(c0, after)
      BY <3>5, <3>6, <3>7 DEF Replaced, Accepts
    <3> QED BY <3>4, <3>8
  <2> QED BY <2>7, <2>8, <2>9, <2>10
<1> HIDE DEF after, line, now, s
<1>11. PICK d : Runs(s, c0, d, after, g) /\ Replaced(d, after)
  BY <1>10
<1>12. Proceeds((s \o line) \o <<End>>, c0, after, now, g)
  <2> HIDE DEF c0
  <2> QED BY <1>7, <1>8, <1>11, ClosesReplaced
<1> QED BY <1>3, <1>12

-----------------------------------------------------------------------------
(* What a player's Pokemon does, by the actions of the server              *)

LEMMA Glued ==
  ASSUME NEW m1, NEW m2, NEW m3, NEW m4
  PROVE  /\ <<m1>> \o <<>> = <<m1>>
         /\ <<m1, m2>> \o <<>> = <<m1, m2>>
         /\ <<m1, m2>> \o <<m3>> = <<m1, m2, m3>>
         /\ <<m1>> \o <<m2, m3>> = <<m1, m2, m3>>
         /\ <<m1, m2, m3>> \o <<m4>> = <<m1, m2, m3, m4>>
<1>1. ASSUME NEW u, NEW v, u = <<m1, m2>> \o <<m3>>, v = <<m1, m2, m3>>
      PROVE  u = v
  <2>1. u \in Seq({m1, m2, m3}) /\ v \in Seq({m1, m2, m3}) /\ Len(u) = Len(v)
    BY <1>1
  <2>2. \A i \in 1..Len(u) : u[i] = v[i]
    BY <1>1
  <2> QED BY <2>1, <2>2, SeqEqual
<1>2. ASSUME NEW u, NEW v, u = <<m1>> \o <<m2, m3>>, v = <<m1, m2, m3>>
      PROVE  u = v
  <2>1. u \in Seq({m1, m2, m3}) /\ v \in Seq({m1, m2, m3}) /\ Len(u) = Len(v)
    BY <1>2
  <2>2. \A i \in 1..Len(u) : u[i] = v[i]
    BY <1>2
  <2> QED BY <2>1, <2>2, SeqEqual
<1>3. ASSUME NEW u, NEW v, u = <<m1, m2, m3>> \o <<m4>>, v = <<m1, m2, m3, m4>>
      PROVE  u = v
  <2>1. u \in Seq({m1, m2, m3, m4}) /\ v \in Seq({m1, m2, m3, m4}) /\ Len(u) = Len(v)
    BY <1>3
  <2>2. \A i \in 1..Len(u) : u[i] = v[i]
    BY <1>3
  <2> QED BY <2>1, <2>2, SeqEqual
<1>4. ASSUME NEW u, NEW v, u = <<m1, m2>> \o <<>>, v = <<m1, m2>>
      PROVE  u = v
  <2>1. u \in Seq({m1, m2}) /\ v \in Seq({m1, m2}) /\ Len(u) = Len(v)
    BY <1>4
  <2>2. \A i \in 1..Len(u) : u[i] = v[i]
    BY <1>4
  <2> QED BY <2>1, <2>2, SeqEqual
<1>5. ASSUME NEW u, NEW v, u = <<m1>> \o <<>>, v = <<m1>>
      PROVE  u = v
  <2>1. u \in Seq({m1}) /\ v \in Seq({m1}) /\ Len(u) = Len(v)
    BY <1>5
  <2>2. \A i \in 1..Len(u) : u[i] = v[i]
    BY <1>5
  <2> QED BY <2>1, <2>2, SeqEqual
<1> QED BY <1>1, <1>2, <1>3, <1>4, <1>5

\* The server is about to let p act.
ActsNow(p) ==
  MInv /\ script = <<>> /\ phase \in {"switching", "moving"} /\ MayAct(p) /\ Thawing = {}

LEMMA ActsNowFacts ==
  ASSUME NEW p \in Parties, ActsNow(p)
  PROVE  /\ \E x, y : CanAct(p, Client, x, y, side, generation)
         /\ StatusOf(p) = side[p].status[side[p].active]
         /\ StatusOf(Other(p)) = side[Other(p)].status[side[Other(p)].active]
         /\ Lives(Other(p)) <=> side[Other(p)].active \in side[Other(p)].living
         /\ \A z : [side EXCEPT ![p] = z] = BothSides(p, z, side[Other(p)])
         /\ generation \in Generations
<1>1. \E x, y : CanAct(p, Client, x, y, side, generation)
  BY Acting DEF ActsNow
<1>2. side \in [Parties -> SideRecord] /\ generation \in Generations
  BY DEF ActsNow, MInv, ServerOK
<1>3. \A z : [side EXCEPT ![p] = z] = BothSides(p, z, side[Other(p)])
  BY <1>2, AsBothSides
<1>4. /\ StatusOf(p) = side[p].status[side[p].active]
      /\ StatusOf(Other(p)) = side[Other(p)].status[side[Other(p)].active]
      /\ Lives(Other(p)) <=> side[Other(p)].active \in side[Other(p)].living
  BY DEF StatusOf, Active, Lives
<1> QED BY <1>1, <1>2, <1>3, <1>4

LEMMA PlayedHits ==
  ASSUME MInv, Thawing = {}, NEW p \in Parties, Hits(p)
  PROVE  Proceeds(script', Client, side', phase', generation)
<1> DEFINE o == Other(p)
           s == side[p]
           t == side[o]
<1>1. ActsNow(p) /\ phase' = "moving" /\ Lives(o)
  BY DEF Hits, Acts, Says, ActsNow
<1>2. PICK x, y : CanAct(p, Client, x, y, side, generation)
  BY <1>1, ActsNowFacts
<1>3. StatusOf(o) = t.status[t.active] /\ t.active \in t.living
  BY <1>1, ActsNowFacts
<1>4. PICK hp \in HP :
        /\ script' = <<MoveLine(p, "hit", No), Said("critical hit", p),
                       DamageLine("main effect", o, hp,
                           t.status[t.active])>> \o <<Said("reveal", o)>>
        /\ side' = BothSides(p, Acted(s), Left(t, hp))
  BY <1>3 DEF Hits, Says, No
<1> DEFINE lines == <<MoveLine(p, "hit", No), Said("critical hit", p),
                      DamageLine("main effect", o, hp, t.status[t.active]), Said("reveal", o)>>
<1>5. script' = lines
  BY <1>4, Glued
<1> HIDE DEF s, t
<1>6. s = side[p] /\ t = side[Other(p)]
  BY DEF s, t
<1>7. Proceeds(lines, Client, BothSides(p, Acted(s), Left(t, hp)), "moving", generation)
  BY <1>2, <1>3, <1>6, HitsProceeds
<1> QED BY <1>1, <1>4, <1>5, <1>7

LEMMA PlayedFindsNobody ==
  ASSUME MInv, Thawing = {}, NEW p \in Parties, FindsNobody(p)
  PROVE  Proceeds(script', Client, side', phase', generation)
<1> DEFINE o == Other(p)
           s == side[p]
           t == side[o]
<1>1. ActsNow(p) /\ phase' = "moving"
  BY DEF FindsNobody, Acts, Says, ActsNow
<1>2. PICK x, y : CanAct(p, Client, x, y, side, generation)
  BY <1>1, ActsNowFacts
<1>3. /\ StatusOf(p) = s.status[s.active] /\ StatusOf(o) = t.status[t.active]
      /\ Lives(o) <=> t.active \in t.living
      /\ \A z : [side EXCEPT ![p] = z] = BothSides(p, z, t)
  BY <1>1, ActsNowFacts
<1>4. /\ script' = <<MoveLine(p, "hit", No)>>
      /\ side' = BothSides(p, Acted(s), t)
  BY <1>3 DEF FindsNobody, Says, No
<1> DEFINE lines == <<MoveLine(p, "hit", No)>>
<1> HIDE DEF s, t
<1>5. s = side[p] /\ t = side[Other(p)]
  BY DEF s, t
<1>6. Proceeds(lines, Client, BothSides(p, Acted(s), t), "moving", generation)
  BY <1>1, <1>2, <1>3, <1>5, NoAndYes, MovesAlone
<1> QED BY <1>1, <1>4, <1>6

LEMMA PlayedMisses ==
  ASSUME MInv, Thawing = {}, NEW p \in Parties, Misses(p)
  PROVE  Proceeds(script', Client, side', phase', generation)
<1> DEFINE o == Other(p)
           s == side[p]
           t == side[o]
<1>1. ActsNow(p) /\ phase' = "moving" /\ Lives(o)
  BY DEF Misses, Acts, Says, ActsNow
<1>2. PICK x, y : CanAct(p, Client, x, y, side, generation)
  BY <1>1, ActsNowFacts
<1>3. /\ StatusOf(p) = s.status[s.active] /\ StatusOf(o) = t.status[t.active]
      /\ Lives(o) <=> t.active \in t.living
      /\ \A z : [side EXCEPT ![p] = z] = BothSides(p, z, t)
  BY <1>1, ActsNowFacts
<1>4. /\ script' = <<MoveLine(p, "hit", Yes)>>
      /\ side' = BothSides(p, Acted(s), t)
  BY <1>3 DEF Misses, Says, No, Yes
<1> DEFINE lines == <<MoveLine(p, "hit", Yes)>>
<1> HIDE DEF s, t
<1>5. s = side[p] /\ t = side[Other(p)]
  BY DEF s, t
<1>6. Proceeds(lines, Client, BothSides(p, Acted(s), t), "moving", generation)
  BY <1>1, <1>2, <1>3, <1>5, NoAndYes, MovesAlone
<1> QED BY <1>1, <1>4, <1>6

LEMMA PlayedHitsSubstitute ==
  ASSUME MInv, Thawing = {}, NEW p \in Parties, HitsSubstitute(p)
  PROVE  Proceeds(script', Client, side', phase', generation)
<1> DEFINE o == Other(p)
           s == side[p]
           t == side[o]
<1>1. ActsNow(p) /\ phase' = "moving" /\ Lives(o)
  BY DEF HitsSubstitute, Acts, Says, ActsNow
<1>2. PICK x, y : CanAct(p, Client, x, y, side, generation)
  BY <1>1, ActsNowFacts
<1>3. /\ StatusOf(p) = s.status[s.active] /\ StatusOf(o) = t.status[t.active]
      /\ Lives(o) <=> t.active \in t.living
      /\ \A z : [side EXCEPT ![p] = z] = BothSides(p, z, t)
  BY <1>1, ActsNowFacts
<1>4. /\ script' = <<MoveLine(p, "hit", No),
                    Said("damage substitute", o)>>
      /\ side' = BothSides(p, Acted(s), t)
  BY <1>3 DEF HitsSubstitute, Says, No
<1> DEFINE lines == <<MoveLine(p, "hit", No),
                      Said("damage substitute", o)>>
<1> HIDE DEF s, t
<1>5. s = side[p] /\ t = side[Other(p)]
  BY DEF s, t
<1>6. Proceeds(lines, Client, BothSides(p, Acted(s), t), "moving", generation)
  BY <1>1, <1>2, <1>3, <1>5, HitsSubstituteProceeds
<1> QED BY <1>1, <1>4, <1>6

LEMMA PlayedIsBurnedByTouching ==
  ASSUME MInv, Thawing = {}, NEW p \in Parties, IsBurnedByTouching(p)
  PROVE  Proceeds(script', Client, side', phase', generation)
<1> DEFINE o == Other(p)
           s == side[p]
           t == side[o]
           st == "burn"
<1>1. ActsNow(p) /\ phase' = "moving" /\ Lives(o)
  BY DEF IsBurnedByTouching, Acts, Says, ActsNow
<1>2. PICK x, y : CanAct(p, Client, x, y, side, generation)
  BY <1>1, ActsNowFacts
<1>3. /\ StatusOf(p) = s.status[s.active] /\ StatusOf(o) = t.status[t.active]
      /\ Lives(o) <=> t.active \in t.living
      /\ \A z : [side EXCEPT ![p] = z] = BothSides(p, z, t)
  BY <1>1, ActsNowFacts
<1>4. PICK hp \in HP :
        /\ script' = <<MoveLine(p, "hit", No),
                      DamageLine("main effect", o, hp, t.status[t.active]),
                      StatusLine("ability", p, st)>>
        /\ side' = BothSides(p, With(Acted(s), st), Left(t, hp))
  BY <1>3 DEF IsBurnedByTouching, Says, No
<1> DEFINE lines == <<MoveLine(p, "hit", No),
                      DamageLine("main effect", o, hp, t.status[t.active]),
                      StatusLine("ability", p, st)>>
<1>8. st \in Status /\ st # Untold /\ st = "burn"
  BY DEF Status, Untold
<1> HIDE DEF s, t, st
<1>5. s = side[p] /\ t = side[Other(p)]
  BY DEF s, t
<1>6. Proceeds(lines, Client, BothSides(p, With(Acted(s), st), Left(t, hp)), "moving", generation)
  BY <1>1, <1>2, <1>3, <1>5, <1>8, BurnedByTouchingProceeds
<1> QED BY <1>1, <1>4, <1>6

LEMMA PlayedFreezes ==
  ASSUME MInv, Thawing = {}, NEW p \in Parties, Freezes(p)
  PROVE  Proceeds(script', Client, side', phase', generation)
<1> DEFINE o == Other(p)
           s == side[p]
           t == side[o]
           st == "freeze"
<1>1. ActsNow(p) /\ phase' = "moving" /\ Lives(o)
  BY DEF Freezes, Acts, Says, ActsNow
<1>2. PICK x, y : CanAct(p, Client, x, y, side, generation)
  BY <1>1, ActsNowFacts
<1>3. /\ StatusOf(p) = s.status[s.active] /\ StatusOf(o) = t.status[t.active]
      /\ Lives(o) <=> t.active \in t.living
      /\ \A z : [side EXCEPT ![p] = z] = BothSides(p, z, t)
  BY <1>1, ActsNowFacts
<1>4. /\ script' = <<MoveLine(p, "ice", No),
                    DamageLine("main effect", o, "up", "clear"),
                    StatusLine("main effect", o, st)>>
      /\ side' = BothSides(p, Acted(s), With(t, st))
  BY <1>3 DEF Freezes, Says, No
<1> DEFINE lines == <<MoveLine(p, "ice", No),
                      DamageLine("main effect", o, "up", "clear"),
                      StatusLine("main effect", o, st)>>
<1>8. st \in Status /\ st # Untold /\ st = "freeze"
  BY DEF Status, Untold
<1> HIDE DEF s, t, st
<1>5. s = side[p] /\ t = side[Other(p)]
  BY DEF s, t
<1>6. Proceeds(lines, Client, BothSides(p, Acted(s), With(t, st)), "moving", generation)
  BY <1>1, <1>2, <1>3, <1>5, <1>8, FreezesProceeds
<1> QED BY <1>1, <1>4, <1>6

LEMMA PlayedPutsToSleep ==
  ASSUME MInv, Thawing = {}, NEW p \in Parties, PutsToSleep(p)
  PROVE  Proceeds(script', Client, side', phase', generation)
<1> DEFINE o == Other(p)
           s == side[p]
           t == side[o]
           st == "sleep"
<1>1. ActsNow(p) /\ phase' = "moving" /\ Lives(o)
  BY DEF PutsToSleep, Acts, Says, ActsNow
<1>2. PICK x, y : CanAct(p, Client, x, y, side, generation)
  BY <1>1, ActsNowFacts
<1>3. /\ StatusOf(p) = s.status[s.active] /\ StatusOf(o) = t.status[t.active]
      /\ Lives(o) <=> t.active \in t.living
      /\ \A z : [side EXCEPT ![p] = z] = BothSides(p, z, t)
  BY <1>1, ActsNowFacts
<1>4. /\ script' = <<MoveLine(p, "spore", No),
                    StatusLine("main effect", o, st)>>
      /\ side' = BothSides(p, Acted(s), With(t, st))
  BY <1>3 DEF PutsToSleep, Says, No
<1> DEFINE lines == <<MoveLine(p, "spore", No),
                      StatusLine("main effect", o, st)>>
<1>8. st \in Status /\ st # Untold /\ st = "sleep"
  BY DEF Status, Untold
<1> HIDE DEF s, t, st
<1>5. s = side[p] /\ t = side[Other(p)]
  BY DEF s, t
<1>6. Proceeds(lines, Client, BothSides(p, Acted(s), With(t, st)), "moving", generation)
  BY <1>1, <1>2, <1>3, <1>5, <1>8, PutsToSleepProceeds
<1> QED BY <1>1, <1>4, <1>6

LEMMA PlayedRecoils ==
  ASSUME MInv, Thawing = {}, NEW p \in Parties, Recoils(p)
  PROVE  Proceeds(script', Client, side', phase', generation)
<1> DEFINE o == Other(p)
           s == side[p]
           t == side[o]
<1>1. ActsNow(p) /\ phase' = "moving" /\ Lives(o)
  BY DEF Recoils, Acts, Says, ActsNow
<1>2. PICK x, y : CanAct(p, Client, x, y, side, generation)
  BY <1>1, ActsNowFacts
<1>3. /\ StatusOf(p) = s.status[s.active] /\ StatusOf(o) = t.status[t.active]
      /\ Lives(o) <=> t.active \in t.living
      /\ \A z : [side EXCEPT ![p] = z] = BothSides(p, z, t)
  BY <1>1, ActsNowFacts
<1>4. PICK hp \in HP, mine \in HP :
        /\ script' = <<MoveLine(p, "hit", No),
                      DamageLine("main effect", o, hp, t.status[t.active]),
                      DamageLine("recoil", p, mine, s.status[s.active])>>
        /\ side' = BothSides(p, Left(Acted(s), mine), Left(t, hp))
  BY <1>3 DEF Recoils, Says, No
<1> DEFINE lines == <<MoveLine(p, "hit", No),
                      DamageLine("main effect", o, hp, t.status[t.active]),
                      DamageLine("recoil", p, mine, s.status[s.active])>>
<1> HIDE DEF s, t
<1>5. s = side[p] /\ t = side[Other(p)]
  BY DEF s, t
<1>6. Proceeds(lines, Client, BothSides(p, Left(Acted(s), mine), Left(t, hp)), "moving",
          generation)
  BY <1>1, <1>2, <1>3, <1>5, RecoilsProceeds
<1> QED BY <1>1, <1>4, <1>6

LEMMA PlayedRests ==
  ASSUME MInv, Thawing = {}, NEW p \in Parties, Rests(p)
  PROVE  Proceeds(script', Client, side', phase', generation)
<1> DEFINE o == Other(p)
           s == side[p]
           t == side[o]
<1>1. ActsNow(p) /\ phase' = "moving"
  BY DEF Rests, Acts, Says, ActsNow
<1>2. PICK x, y : CanAct(p, Client, x, y, side, generation)
  BY <1>1, ActsNowFacts
<1>3. /\ StatusOf(p) = s.status[s.active] /\ StatusOf(o) = t.status[t.active]
      /\ Lives(o) <=> t.active \in t.living
      /\ \A z : [side EXCEPT ![p] = z] = BothSides(p, z, t)
  BY <1>1, ActsNowFacts
<1>4. /\ script' = <<MoveLine(p, "rest", No),
                    StatusLine("move", p, "sleep"),
                    DamageLine("miscellaneous", p, "up", "sleep")>>
      /\ side' = BothSides(p, With(Acted(s), "sleep"), t)
  BY <1>3 DEF Rests, Says, No
<1> DEFINE lines == <<MoveLine(p, "rest", No),
                      StatusLine("move", p, "sleep"),
                      DamageLine("miscellaneous", p, "up", "sleep")>>
<1> HIDE DEF s, t
<1>5. s = side[p] /\ t = side[Other(p)]
  BY DEF s, t
<1>6. Proceeds(lines, Client, BothSides(p, With(Acted(s), "sleep"), t), "moving", generation)
  BY <1>1, <1>2, <1>3, <1>5, RestsProceeds
<1> QED BY <1>1, <1>4, <1>6

LEMMA PlayedMakesSubstitute ==
  ASSUME MInv, Thawing = {}, NEW p \in Parties, MakesSubstitute(p)
  PROVE  Proceeds(script', Client, side', phase', generation)
<1> DEFINE o == Other(p)
           s == side[p]
           t == side[o]
<1>1. ActsNow(p) /\ phase' = "moving"
  BY DEF MakesSubstitute, Acts, Says, ActsNow
<1>2. PICK x, y : CanAct(p, Client, x, y, side, generation)
  BY <1>1, ActsNowFacts
<1>3. /\ StatusOf(p) = s.status[s.active] /\ StatusOf(o) = t.status[t.active]
      /\ Lives(o) <=> t.active \in t.living
      /\ \A z : [side EXCEPT ![p] = z] = BothSides(p, z, t)
  BY <1>1, ActsNowFacts
<1>4. /\ script' = <<MoveLine(p, "substitute", No),
                    DamageLine("main effect", p, "up", s.status[s.active])>>
      /\ side' = BothSides(p, Acted(s), t)
  BY <1>3 DEF MakesSubstitute, Says, No
<1> DEFINE lines == <<MoveLine(p, "substitute", No),
                      DamageLine("main effect", p, "up", s.status[s.active])>>
<1> HIDE DEF s, t
<1>5. s = side[p] /\ t = side[Other(p)]
  BY DEF s, t
<1>6. Proceeds(lines, Client, BothSides(p, Acted(s), t), "moving", generation)
  BY <1>1, <1>2, <1>3, <1>5, MakesSubstituteProceeds
<1> QED BY <1>1, <1>4, <1>6

LEMMA PlayedConfuses ==
  ASSUME MInv, Thawing = {}, NEW p \in Parties, Confuses(p)
  PROVE  Proceeds(script', Client, side', phase', generation)
<1> DEFINE o == Other(p)
           s == side[p]
           t == side[o]
<1>1. ActsNow(p) /\ phase' = "moving" /\ Lives(o)
  BY DEF Confuses, Acts, Says, ActsNow
<1>2. PICK x, y : CanAct(p, Client, x, y, side, generation)
  BY <1>1, ActsNowFacts
<1>3. /\ StatusOf(p) = s.status[s.active] /\ StatusOf(o) = t.status[t.active]
      /\ Lives(o) <=> t.active \in t.living
      /\ \A z : [side EXCEPT ![p] = z] = BothSides(p, z, t)
  BY <1>1, ActsNowFacts
<1>4. /\ script' = <<MoveLine(p, "confuse", No),
                    Said("start confusion", o)>>
      /\ side' = BothSides(p, Acted(s), t)
  BY <1>3 DEF Confuses, Says, No
<1> DEFINE lines == <<MoveLine(p, "confuse", No),
                      Said("start confusion", o)>>
<1> HIDE DEF s, t
<1>5. s = side[p] /\ t = side[Other(p)]
  BY DEF s, t
<1>6. Proceeds(lines, Client, BothSides(p, Acted(s), t), "moving", generation)
  BY <1>1, <1>2, <1>3, <1>5, ConfusesProceeds
<1> QED BY <1>1, <1>4, <1>6

LEMMA PlayedHitsItself ==
  ASSUME MInv, Thawing = {}, NEW p \in Parties, HitsItself(p)
  PROVE  Proceeds(script', Client, side', phase', generation)
<1> DEFINE o == Other(p)
           s == side[p]
           t == side[o]
<1>1. ActsNow(p) /\ phase' = "moving"
  BY DEF HitsItself, Acts, Says, ActsNow
<1>2. PICK x, y : CanAct(p, Client, x, y, side, generation)
  BY <1>1, ActsNowFacts
<1>3. /\ StatusOf(p) = s.status[s.active] /\ StatusOf(o) = t.status[t.active]
      /\ Lives(o) <=> t.active \in t.living
      /\ \A z : [side EXCEPT ![p] = z] = BothSides(p, z, t)
  BY <1>1, ActsNowFacts
<1>4. PICK hp \in HP :
        /\ script' = <<DamageLine("confusion", p, hp, s.status[s.active])>>
        /\ side' = BothSides(p, Left(Acted(s), hp), t)
  BY <1>3 DEF HitsItself, Says, No
<1> DEFINE lines == <<DamageLine("confusion", p, hp, s.status[s.active])>>
<1> HIDE DEF s, t
<1>5. s = side[p] /\ t = side[Other(p)]
  BY DEF s, t
<1>6. Proceeds(lines, Client, BothSides(p, Left(Acted(s), hp), t), "moving", generation)
  BY <1>1, <1>2, <1>3, <1>5, HitsItselfProceeds
<1> QED BY <1>1, <1>4, <1>6

LEMMA PlayedTalksInItsSleep ==
  ASSUME MInv, Thawing = {}, NEW p \in Parties, TalksInItsSleep(p)
  PROVE  Proceeds(script', Client, side', phase', generation)
<1> DEFINE o == Other(p)
           s == side[p]
           t == side[o]
<1>1. ActsNow(p) /\ phase' = "moving" /\ Lives(o)
  BY DEF TalksInItsSleep, Acts, Says, ActsNow
<1>2. PICK x, y : CanAct(p, Client, x, y, side, generation)
  BY <1>1, ActsNowFacts
<1>3. /\ StatusOf(p) = s.status[s.active] /\ StatusOf(o) = t.status[t.active]
      /\ Lives(o) <=> t.active \in t.living
      /\ \A z : [side EXCEPT ![p] = z] = BothSides(p, z, t)
  BY <1>1, ActsNowFacts
<1>4. PICK hp \in HP :
        /\ script' = <<CantLine(p, "still asleep"),
                      MoveLine(p, "sleep_talk", No),
                      MoveLine(p, "hit", No),
                      DamageLine("main effect", o, hp, t.status[t.active])>>
        /\ side' = BothSides(p, Acted(s), Left(t, hp))
  BY <1>3 DEF TalksInItsSleep, Says, No
<1> DEFINE lines == <<CantLine(p, "still asleep"),
                      MoveLine(p, "sleep_talk", No),
                      MoveLine(p, "hit", No),
                      DamageLine("main effect", o, hp, t.status[t.active])>>
<1> HIDE DEF s, t
<1>5. s = side[p] /\ t = side[Other(p)]
  BY DEF s, t
<1>6. Proceeds(lines, Client, BothSides(p, Acted(s), Left(t, hp)), "moving", generation)
  BY <1>1, <1>2, <1>3, <1>5, TalksProceeds
<1> QED BY <1>1, <1>4, <1>6

LEMMA PlayedHealsTheTeam ==
  ASSUME MInv, Thawing = {}, NEW p \in Parties, HealsTheTeam(p)
  PROVE  Proceeds(script', Client, side', phase', generation)
<1> DEFINE o == Other(p)
           s == side[p]
           t == side[o]
           st == "clear"
           m == CureStatusLine(p)
<1>1. ActsNow(p) /\ phase' = "moving"
  BY DEF HealsTheTeam, Acts, Says, ActsNow
<1>2. PICK x, y : CanAct(p, Client, x, y, side, generation)
  BY <1>1, ActsNowFacts
<1>3. /\ StatusOf(p) = s.status[s.active] /\ StatusOf(o) = t.status[t.active]
      /\ Lives(o) <=> t.active \in t.living
      /\ \A z : [side EXCEPT ![p] = z] = BothSides(p, z, t)
  BY <1>1, ActsNowFacts
<1>4. /\ script' = <<MoveLine(p, "heal_bell", No),
                    m>>
      /\ side' = BothSides(p, Healed(Acted(s)), t)
  BY <1>3 DEF HealsTheTeam, Says, No, Healed
<1> DEFINE lines == <<MoveLine(p, "heal_bell", No),
                      m>>
<1>7. IsCure(m, p)
  BY DEF IsCure, CureStatusLine
<1>8. st \in Status /\ st # Untold /\ st = "clear"
  BY DEF Status, Untold
<1> HIDE DEF s, t, st, m
<1>5. s = side[p] /\ t = side[Other(p)]
  BY DEF s, t
<1>6. Proceeds(lines, Client, BothSides(p, Healed(Acted(s)), t), "moving", generation)
  BY <1>1, <1>2, <1>3, <1>5, <1>7, <1>8, HealsTheTeamProceeds
<1> QED BY <1>1, <1>4, <1>6

LEMMA PlayedIsHindered ==
  ASSUME MInv, Thawing = {}, NEW p \in Parties, IsHindered(p)
  PROVE  Proceeds(script', Client, side', phase', generation)
<1> DEFINE s == side[p]
           t == side[Other(p)]
<1>1. ActsNow(p) /\ phase' = "moving"
  BY DEF IsHindered, Acts, Says, ActsNow
<1>2. PICK x, y : CanAct(p, Client, x, y, side, generation)
  BY <1>1, ActsNowFacts
<1>3. \A z : [side EXCEPT ![p] = z] = BothSides(p, z, t)
  BY <1>1, ActsNowFacts
<1> DEFINE reason == Hindrances[StatusOf(p)]
<1>4. script' = <<CantLine(p, reason)>> /\ StatusOf(p) # "clear"
  BY DEF IsHindered, Says
<1>5. side' = BothSides(p, Acted(s), t)
  BY <1>3 DEF IsHindered
<1>6. IsHindrance(reason) /\ Hinders(s, reason)
  <2>1. StatusOf(p) = s.status[s.active]
    BY <1>1, ActsNowFacts
  <2>2. StatusOf(p) \in {"sleep", "freeze", "burn"}
    <3>1. s \in SideRecord
      BY DEF MInv, ServerOK
    <3>2. StatusOf(p) \in Status
      BY <2>1, <3>1 DEF SideRecord
    <3> QED BY <1>4, <3>2 DEF Status
  <2> HIDE DEF s
  <2>3. CASE StatusOf(p) = "sleep"
    <3>1. reason = "still asleep"
      BY <2>3 DEF Hindrances
    <3> QED BY <2>1, <2>3, <3>1 DEF IsHindrance, Hinders
  <2>5. CASE StatusOf(p) = "freeze"
    <3>1. reason = "frozen solid"
      BY <2>5 DEF Hindrances
    <3> QED BY <2>1, <2>5, <3>1 DEF IsHindrance, Hinders
  <2>4. CASE StatusOf(p) = "burn"
    <3>1. reason = "fully paralyzed"
      BY <2>4 DEF Hindrances
    <3> QED BY <3>1 DEF IsHindrance, Hinders
  <2> QED BY <2>2, <2>3, <2>4, <2>5
<1> HIDE DEF s, t, reason
<1>7. s = side[p] /\ t = side[Other(p)]
  BY DEF s, t
<1>8. Proceeds(<<CantLine(p, reason)>>, Client, BothSides(p, Acted(s), t), "moving", generation)
  BY <1>2, <1>6, <1>7, IsHinderedProceeds
<1> QED BY <1>1, <1>4, <1>5, <1>8

LEMMA PlayedMakesFlinch ==
  ASSUME MInv, Thawing = {}, Flinching = {}, NEW p \in Parties, MakesFlinch(p)
  PROVE  Proceeds(script', Client, side', phase', generation)
<1> DEFINE o == Other(p)
           s == side[p]
           t == side[o]
           flinched == "flinched"
<1>1. ActsNow(p) /\ phase' = "moving" /\ Lives(o)
  BY DEF MakesFlinch, Acts, Says, ActsNow
<1>2. PICK x, y : CanAct(p, Client, x, y, side, generation)
  BY <1>1, ActsNowFacts
<1>3. StatusOf(o) = t.status[t.active] /\ t.active \in t.living
  BY <1>1, ActsNowFacts
<1> DEFINE lines(hp) == <<MoveLine(p, "fake_out", No),
                          DamageLine("main effect", o, hp, t.status[t.active])>>
<1>4. PICK hp \in HP :
        /\ script' = lines(hp) \o IF hp = "up" /\ t.owes THEN <<CantLine(o, flinched)>> ELSE <<>>
        /\ side' = BothSides(p, Acted(s), Acted(Left(t, hp)))
  BY <1>3 DEF MakesFlinch, Says, No, Startling
<1>5. IsFlinch(flinched)
  BY DEF IsFlinch
<1> HIDE DEF s, t, flinched
<1>6. s = side[p] /\ t = side[Other(p)]
  BY DEF s, t
<1>7. CASE hp = "up" /\ t.owes
  <2>1. Proceeds(lines(hp) \o <<CantLine(o, flinched)>>, Client,
                 BothSides(p, Acted(s), Acted(Left(t, hp))), "moving", generation)
    BY <1>2, <1>3, <1>5, <1>6, <1>7, FlinchesProceeds
  <2> QED BY <1>1, <1>4, <1>7, <2>1
<1>8. CASE ~(hp = "up" /\ t.owes)
  <2>1. Proceeds(lines(hp), Client, BothSides(p, Acted(s), Acted(Left(t, hp))), "moving",
                 generation)
    BY <1>2, <1>3, <1>6, StartlesProceeds
  <2>2. script' = lines(hp)
    BY <1>4, <1>8, Glued
  <2> QED BY <1>1, <1>4, <2>1, <2>2
<1> QED BY <1>7, <1>8

LEMMA PlayedDragsOut ==
  ASSUME MInv, Thawing = {}, NEW p \in Parties, DragsOut(p)
  PROVE  Proceeds(script', Client, side', phase', generation)
<1> DEFINE o == Other(p)
           s == side[p]
           t == side[o]
<1>1. ActsNow(p) /\ phase' = "moving" /\ Lives(o)
  BY DEF DragsOut, Acts, Says, ActsNow
<1>2. PICK x, y : CanAct(p, Client, x, y, side, generation)
  BY <1>1, ActsNowFacts
<1>3. t.active \in t.living
  BY <1>1, ActsNowFacts
<1>4. PICK new \in Bench(o), hp \in HP :
        /\ script' = <<MoveLine(p, "roar", No), SwitchLine("phaze", o, new, "up"),
                       Said("reveal", o), DamageLine("hazards", o, hp, t.status[new])>>
        /\ side' = BothSides(p, Acted(s), Left(Entered(t, new), hp))
  BY DEF DragsOut, Says, No
<1> DEFINE m == SwitchLine("phaze", o, new, "up")
           lines == <<MoveLine(p, "roar", No), m, Said("reveal", o),
                      DamageLine("hazards", o, hp, t.status[new])>>
<1>5. OnBench(t, new)
  BY DEF Bench, Active, OnBench
<1>6. IsPhaze(m, o, new, "up", t.status[new])
  BY DEF SwitchLine, IsPhaze
<1> HIDE DEF s, t, m
<1>7. s = side[p] /\ t = side[Other(p)]
  BY DEF s, t
<1>8. Proceeds(lines, Client, BothSides(p, Acted(s), Left(Entered(t, new), hp)), "moving",
          generation)
  BY <1>2, <1>3, <1>5, <1>6, <1>7, DragsOutProceeds
<1>9. script' = lines
  BY <1>4 DEF m
<1> QED BY <1>1, <1>4, <1>8, <1>9

LEMMA PlayedRecovers ==
  ASSUME MInv, Thawing = {}, NEW p \in Parties, Recovers(p)
  PROVE  Proceeds(script', Client, side', phase', generation)
<1> DEFINE o == Other(p)
           s == side[p]
           t == side[o]
           m == CureStatusLine(p)
           cl == "clear"
           awakening == "awakening"
           still == generation = 1 /\ StatusOf(p) = "sleep"
<1>1. ActsNow(p) /\ phase' = "moving" /\ ~Free(p) /\ Lives(o)
  BY DEF Recovers, Acts, Says, ActsNow
<1>2. PICK x, y : CanAct(p, Client, x, y, side, generation)
  BY <1>1, ActsNowFacts
<1>3. t.active \in t.living /\ StatusOf(o) = t.status[t.active]
  BY <1>1, ActsNowFacts
<1>4. PICK hp \in HP :
        /\ still => hp = "up"
        /\ script' = <<m>> \o IF still THEN <<>>
                     ELSE <<MoveLine(p, "hit", No),
                            DamageLine("main effect", o, hp, t.status[t.active])>>
        /\ side' = BothSides(p, With(Acted(s), "clear"), Left(t, hp))
  BY <1>3 DEF Recovers, Says, No
<1>5. StatusOf(p) \in {"freeze", "sleep"}
  <2>1. side[p] \in SideRecord
    BY DEF MInv, ServerOK
  <2>2. StatusOf(p) \in Status
    BY <2>1 DEF SideRecord, StatusOf, Active
  <2> QED BY <1>1, <2>2 DEF Free, Status
<1>6. m.kind = "status clear" /\ m.party = p /\ m.status = StatusOf(p)
  BY DEF CureStatusLine
<1>7. cl = "clear" /\ IsAwakening(awakening)
  BY DEF IsAwakening
<1>8. CASE still
  <2>1. WakesUp(m, p) /\ generation = 1 /\ Asleep(s)
    <3>1. StatusOf(p) = s.status[s.active]
      BY <1>1, ActsNowFacts
    <3> QED BY <1>6, <1>8, <3>1 DEF WakesUp, Asleep
  <2>2. script' = <<m>>
    BY <1>4, <1>8, Glued
  <2>3. side' = BothSides(p, With(Acted(s), cl), t)
    BY <1>4, <1>8 DEF Left
  <2> HIDE DEF s, t, m, cl, awakening
  <2>4. s = side[p] /\ t = side[Other(p)]
    BY DEF s, t
  <2>5. Proceeds(<<m>>, Client, BothSides(p, With(Acted(s), cl), t), "moving", generation)
    BY <1>2, <1>7, <2>1, <2>4, WakesUpProceeds
  <2> QED BY <1>1, <2>2, <2>3, <2>5
<1>9. CASE ~still
  <2>1. CuresFirst(m, p, generation)
    BY <1>5, <1>6, <1>9 DEF CuresFirst
  <2> DEFINE lines == <<m, MoveLine(p, "hit", No),
                        DamageLine("main effect", o, hp, t.status[t.active])>>
  <2>2. script' = lines
    BY <1>4, <1>9, Glued
  <2>3. side' = BothSides(p, With(Acted(s), cl), Left(t, hp))
    BY <1>4
  <2> HIDE DEF s, t, m, cl
  <2>4. s = side[p] /\ t = side[Other(p)]
    BY DEF s, t
  <2>5. Proceeds(lines, Client, BothSides(p, With(Acted(s), cl), Left(t, hp)), "moving",
            generation)
    BY <1>2, <1>3, <1>7, <2>1, <2>4, RecoversProceeds
  <2> QED BY <1>1, <2>2, <2>3, <2>5
<1> QED BY <1>8, <1>9

LEMMA PlayedPivots ==
  ASSUME MInv, Thawing = {}, NEW p \in Parties, Pivots(p)
  PROVE  Proceeds(script', Client, side', phase', generation)
<1> DEFINE o == Other(p)
           g == generation
           s == side[p]
           t == side[o]
<1>1. ActsNow(p) /\ Lives(o) /\ g # 1
  BY DEF Pivots, Says, ActsNow
<1>2. PICK x, y : CanAct(p, Client, x, y, side, g)
  BY <1>1, ActsNowFacts
<1>3. t.active \in t.living /\ StatusOf(o) = t.status[t.active] /\ g \in Generations
  BY <1>1, ActsNowFacts
<1>4. PICK hp \in HP :
        LET wins == hp = "down" /\ Bench(o) = {}
            asked == Bench(p) # {} /\ ~wins
        IN  /\ script' = <<MoveLine(p, "u_turn", No),
                           DamageLine("main effect", o, hp, t.status[t.active])>>
                         \o IF asked THEN <<End>> ELSE <<>>
            /\ side' = BothSides(p, [Acted(s) EXCEPT !.pivots = asked], Left(t, hp))
            /\ phase' = IF asked THEN "pivoting" ELSE "moving"
  BY <1>3 DEF Pivots, Says, No
<1> DEFINE asked == Bench(p) # {} /\ ~(hp = "down" /\ Bench(o) = {})
           told == DamageLine("main effect", o, hp, t.status[t.active])
           uturn == MoveLine(p, "u_turn", No)
           after == BothSides(p, [Acted(s) EXCEPT !.pivots = asked], Left(t, hp))
<1>5. /\ script' = <<uturn, told>> \o IF asked THEN <<End>> ELSE <<>>
      /\ side' = after /\ phase' = IF asked THEN "pivoting" ELSE "moving"
  BY <1>4
<1>6. Alone(s) <=> Bench(p) = {}
  BY DEF Alone, Bench, Active
<1>7. Left(t, hp).living = {} <=> hp = "down" /\ Bench(o) = {}
  <2>1. t \in SideRecord
    BY TwoSides DEF MInv, ServerOK
  <2>2. Bench(o) = t.living \ {t.active}
    BY DEF Bench, Active
  <2> HIDE DEF t
  <2>3. CASE hp = "up"
    BY <1>3, <2>3 DEF Left
  <2>4. CASE hp = "down"
    BY <1>3, <2>1, <2>2, <2>4 DEF Left, SideRecord
  <2> QED BY <2>3, <2>4 DEF HP
<1>8. s = side[p] /\ t = side[Other(p)] /\ ~s.pivots /\ s \in SideRecord
  <2>1. s \in SideRecord
    BY DEF MInv, ServerOK
  <2>2. ~s.pivots
    BY <1>2 DEF CanAct
  <2> QED BY <2>1, <2>2
<1>9. CASE asked
  <2>1. ~Alone(s) /\ Left(t, hp).living # {}
    BY <1>6, <1>7, <1>9
  <2>2. script' = <<uturn, told, End>>
    <3> HIDE DEF asked, uturn, told
    <3> QED BY <1>5, <1>9, Glued
  <2>3. after = BothSides(p, [Acted(s) EXCEPT !.pivots = TRUE], Left(t, hp))
    BY <1>9
  <2>4. phase' = "pivoting"
    BY <1>5, <1>9
  <2> HIDE DEF s, t, after, asked
  <2>5. Proceeds(<<uturn, told, End>>, Client,
                 BothSides(p, [Acted(s) EXCEPT !.pivots = TRUE], Left(t, hp)), "pivoting", g)
    BY <1>1, <1>2, <1>3, <1>8, <2>1, PivotsProceeds
  <2> QED BY <1>5, <2>2, <2>3, <2>4, <2>5
<1>10. CASE ~asked
  <2>1. Alone(s) \/ Left(t, hp).living = {}
    BY <1>6, <1>7, <1>10
  <2>2. script' = <<uturn, told>>
    <3> HIDE DEF asked, uturn, told
    <3> QED BY <1>5, <1>10, Glued
  <2>3. [Acted(s) EXCEPT !.pivots = asked] = Acted(s)
    <3>1. asked = FALSE
      BY <1>10
    <3> HIDE DEF s, asked
    <3>2. Acted(s) \in SideRecord /\ Acted(s).pivots = FALSE
      BY <1>8 DEF Acted, SideRecord
    <3>3. ASSUME NEW r \in SideRecord, r.pivots = FALSE
          PROVE  [r EXCEPT !.pivots = FALSE] = r
      BY <3>3 DEF SideRecord
    <3> QED BY <3>1, <3>2, <3>3
  <2>4. after = BothSides(p, Acted(s), Left(t, hp)) /\ phase' = "moving"
    BY <1>5, <1>10, <2>3
  <2> HIDE DEF s, t, after, asked
  <2>5. Proceeds(<<uturn, told>>, Client, BothSides(p, Acted(s), Left(t, hp)), "moving", g)
    BY <1>2, <1>3, <1>8, <2>1, TurnsBackProceeds
  <2> QED BY <1>5, <2>2, <2>4, <2>5
<1> QED BY <1>9, <1>10

LEMMA PlayedChoosesToSwitch ==
  ASSUME MInv, Thawing = {}, NEW p \in Parties, ChoosesToSwitch(p)
  PROVE  Proceeds(script', Client, side', phase', generation)
<1> DEFINE g == generation
           s == side[p]
           t == side[Other(p)]
<1>1. ActsNow(p) /\ script = <<>> /\ phase = "switching" /\ phase' = "switching"
  BY DEF ChoosesToSwitch, Says, ActsNow
<1>2. PICK x, y : CanAct(p, Client, x, y, side, g)
  BY <1>1, ActsNowFacts
<1>3. \A z : [side EXCEPT ![p] = z] = BothSides(p, z, t)
  BY <1>1, ActsNowFacts
<1>4. PICK new \in Bench(p), hp \in HP :
        /\ g = 1 => hp = "up"
        /\ script' = <<SwitchLine("switch", p, new, "up"), Said("reveal", p)>>
                     \o IF g = 1 THEN <<>> ELSE <<DamageLine("hazards", p, hp, s.status[new])>>
        /\ side' = BothSides(p, Left(Entered(s, new), hp), t)
  BY <1>3 DEF ChoosesToSwitch, Says
<1> DEFINE m1 == SwitchLine("switch", p, new, "up")
           m2 == Said("reveal", p)
           m3 == DamageLine("hazards", p, hp, s.status[new])
           status == s.status[new]
           after == BothSides(p, Left(Entered(s, new), hp), t)
<1>5. /\ IsSwitch(m1, p, new, "up", status) /\ IsReveal(m2, p) /\ IsHP(m3, p, hp, status)
  BY ComingLines
<1>6. script' = <<m1, m2>> \o (IF g = 1 THEN <<>> ELSE <<m3>>) /\ side' = after
  BY <1>4
<1>7. OnBench(s, new)
  BY DEF Bench, Active, OnBench
<1>8. InTurn(Client.battle, Client.action, side)
  BY <1>1, WithinTurn, ClientIs
<1>9. Client.action = Nothing \/ SwitchesPending(Client.action, side)
  BY <1>1, AtRestSettled DEF Settled
<1> HIDE DEF s, t, m1, m2, m3, status, after
<1>10. s = side[p] /\ t = side[Other(p)] /\ status = s.status[new]
  BY DEF s, t, status
<1>11. /\ hp = "up" => Proceeds(<<m1, m2>>, Client, after, "switching", g)
       /\ Proceeds(<<m1, m2, m3>>, Client, after, "switching", g)
  BY <1>2, <1>5, <1>7, <1>8, <1>9, <1>10, ChoosesToSwitchProceeds DEF after
<1>12. CASE g = 1
  BY <1>1, <1>4, <1>6, <1>11, <1>12, Glued
<1>13. CASE g # 1
  BY <1>1, <1>6, <1>11, <1>13, Glued
<1> QED BY <1>12, <1>13

LEMMA PlayedComesBack ==
  ASSUME MInv, NEW p \in Parties, ComesBack(p)
  PROVE  Proceeds(script', Client, side', phase', generation)
<1> DEFINE s == side[p]
           t == side[Other(p)]
<1>1. script = <<>> /\ phase = "pivoting" /\ side[p].pivots /\ phase' = "moving"
  BY DEF ComesBack, Says
<1>2. PICK new \in Bench(p) :
        /\ script' = <<Separator, SwitchLine("switch", p, new, "up"), Said("reveal", p)>>
        /\ side' = [side EXCEPT ![p] = [Entered(s, new) EXCEPT !.pivots = FALSE]]
  BY DEF ComesBack, Says
<1> DEFINE m1 == SwitchLine("switch", p, new, "up")
           m2 == Said("reveal", p)
           status == s.status[new]
           after == BothSides(p, [Entered(s, new) EXCEPT !.pivots = FALSE], t)
<1>3. IsSwitch(m1, p, new, "up", status) /\ IsReveal(m2, p)
  BY ComingLines
<1>4. side \in [Parties -> SideRecord]
  BY DEF MInv, ServerOK
<1>5. side' = after
  BY <1>2, <1>4, AsBothSides
<1>6. OnBench(s, new)
  BY DEF Bench, Active, OnBench
<1>7. script' = <<Separator, m1, m2>>
  BY <1>2
<1> HIDE DEF s, t, m1, m2, status, after
<1>8. s = side[p] /\ t = side[Other(p)] /\ status = s.status[new]
  BY DEF s, t, status
<1>9. Proceeds(<<Separator, m1, m2>>, Client, after, "moving", generation)
  BY <1>1, <1>3, <1>6, <1>8, ComesBackProceeds DEF after
<1> QED BY <1>1, <1>5, <1>7, <1>9

LEMMA StartsTurnKeeps ==
  ASSUME MInv, StartsTurn
  PROVE  MInv'
<1> DEFINE b == battle
           after == [p \in Parties |-> [side[p] EXCEPT !.owes = TRUE]]
           d == Pending(Nothing, b, 0)
           g == generation
<1>1. /\ phase = "choosing" /\ script = <<>> /\ phase' = "switching" /\ side' = after
      /\ script' = <<Separator>> /\ endings' = 0
      /\ UNCHANGED <<generation, action, upkeep, result, battle, misfiled, threw>>
  BY DEF StartsTurn
<1>2. Settled(Client, side, phase) /\ Sound(Client) /\ side \in [Parties -> SideRecord]
  BY <1>1, AtRestSettled
<1>3. phase # "over" /\ phase # "pivoting"
  BY <1>1
<1>4. /\ upkeep = NoUpkeep /\ result = "unknown" /\ action = Nothing
      /\ WellFormed(Performed(b, action)) /\ AllFollow(Performed(b, action), side)
      /\ \A p \in Parties : ~b[p].moved /\ ~b[p].pivoting /\ ~b[p].down /\ ~side[p].pivots
  BY <1>1, <1>2, <1>3, ClientIs DEF Settled
<1>5. Performed(b, Nothing) = b /\ ~PerformThrows(b, Nothing)
  BY DEF Nothing, Performed, PerformThrows
<1>6. WellFormed(b) /\ AllFollow(b, side)
  BY <1>4, <1>5
<1>7. Client' = d
  BY <1>1, <1>4 DEF Client, Pending
<1>8. /\ after \in [Parties -> SideRecord]
      /\ \A p \in Parties : /\ after[p].owes = TRUE /\ ~after[p].pivots
                            /\ after[p].active = side[p].active
                            /\ after[p].living = side[p].living
                            /\ after[p].status = side[p].status
  BY <1>2, <1>4 DEF SideRecord
<1> HIDE DEF after, d, b
<1>9. AllFollow(b, after)
  BY <1>6, <1>8 DEF AllFollow, Follows
<1>10. /\ d.action = Nothing /\ d.battle = b /\ d.endings = 0 /\ d.upkeep = NoUpkeep
       /\ d.result = "unknown" /\ Sound(d)
  BY <1>6, PendingIs, SoundPending DEF d
<1>11. \A p \in Parties : b[p].moved = FALSE
  BY <1>4, <1>6 DEF WellFormed, ClientRecord
<1>12. InTurn(b, Nothing, after)
  BY <1>4, <1>5, <1>8, <1>11 DEF InTurn
<1>13. Settled(d, after, "switching")
  BY <1>5, <1>6, <1>8, <1>9, <1>10, <1>12 DEF Settled
<1>14. Runs(<<Separator>>, d, d, after, g)
  <2>1. Separator.kind = "separator"
    BY DEF Separator
  <2>2. d = Then(d, Nothing) /\ Accepts(d)
    BY <1>5, <1>10 DEF Then, Accepts, d, Pending
  <2>3. BySeparator(Separator, d, d)
    BY <2>1, <2>2 DEF BySeparator
  <2> QED BY <1>10, <2>3, RunsOne DEF Advances
<1>15. ServerOK(after, "switching")
  BY <1>8 DEF ServerOK, Phases
<1>16. g \in Generations /\ ~threw /\ ~misfiled
  BY DEF MInv
<1>17. ServerOK(side', phase') /\ generation' \in Generations /\ ~threw' /\ ~misfiled'
  BY <1>1, <1>15, <1>16
<1>18. Runs(script', Client', d, side', generation') /\ Settled(d, side', phase')
  BY <1>1, <1>7, <1>13, <1>14
<1> QED BY <1>17, <1>18 DEF MInv

LEMMA ProceedingKeeps ==
  ASSUME MInv, Proceeds(script', Client, side', phase', generation), UNCHANGED <<generation,
             client>>
  PROVE  MInv'
<1>1. Client' = Client /\ threw' = threw /\ misfiled' = misfiled /\ generation' = generation
  BY DEF Client, client
<1>2. generation \in Generations /\ ~threw /\ ~misfiled
  BY DEF MInv
<1>3. PICK d : /\ Runs(script', Client, d, side', generation) /\ Settled(d, side', phase')
               /\ ServerOK(side', phase')
  BY DEF Proceeds
<1>4. Runs(script', Client', d, side', generation')
  BY <1>1, <1>3
<1> QED BY <1>1, <1>2, <1>3, <1>4 DEF MInv

LEMMA HandlingKeeps ==
  ASSUME MInv, Handles
  PROVE  MInv'
<1>1. PICK d : Runs(script, Client, d, side, generation) /\ Settled(d, side, phase)
  BY DEF MInv
<1>2. script # <<>>
  BY DEF Handles, Receives, SeparatorMessage, CantMessage, MoveMessage, DamageMessage,
     DamageSubstituteMessage, CriticalHitMessage, StartConfusionMessage, RecoilMessage,
     HitSelfMessage, MoveStatus, StatusClearMessage, RevealMessage, AbilityStatusMessage,
     HPMessage, SwitchMessage, PhazeMessage, UpkeepMessage, TurnMessage,
     BattleFinishedMessage, BlockEnds
<1>3. PICK e : /\ Advances(Head(script), Client, e, side, generation)
               /\ Runs(Tail(script), e, d, side, generation)
  BY <1>1, <1>2, RunsTail
<1>4. ServerOK(side, phase) /\ generation \in Generations /\ ~misfiled
  BY DEF MInv
<1>5. /\ Client' = e /\ ~threw' /\ ~misfiled' /\ script' = Tail(script) /\ UNCHANGED server
  BY <1>3, <1>4, HandlersAdvance DEF Message
<1>6. generation' = generation /\ side' = side /\ phase' = phase
  BY <1>5 DEF server
<1>7. Runs(script', Client', d, side', generation')
  BY <1>3, <1>5, <1>6
<1> QED BY <1>1, <1>4, <1>5, <1>6, <1>7 DEF MInv

LEMMA PlayingIsServer ==
  ASSUME NEW p \in Parties, Plays(p)
  PROVE  UNCHANGED <<generation, client>>
BY DEF Plays, Says, ChoosesToSwitch, Hits, FindsNobody, Misses, HitsSubstitute, Freezes,
   IsBurnedByTouching, Recoils, PutsToSleep, Rests, HealsTheTeam, MakesSubstitute, Confuses,
   DragsOut, Pivots, ComesBack, IsHindered, MakesFlinch, HitsItself, Recovers, TalksInItsSleep

LEMMA PlayingKeeps ==
  ASSUME MInv, Thawing = {}, Flinching = {}, NEW p \in Parties, Plays(p)
  PROVE  MInv'
<1>1. UNCHANGED <<generation, client>>
  BY PlayingIsServer
<1>2. Proceeds(script', Client, side', phase', generation)
  BY PlayedChoosesToSwitch, PlayedHits, PlayedFindsNobody, PlayedMisses, PlayedHitsSubstitute,
     PlayedFreezes, PlayedIsBurnedByTouching, PlayedRecoils, PlayedPutsToSleep, PlayedRests,
     PlayedHealsTheTeam, PlayedMakesSubstitute, PlayedConfuses, PlayedDragsOut, PlayedPivots,
     PlayedComesBack, PlayedIsHindered, PlayedMakesFlinch, PlayedHitsItself, PlayedRecovers,
     PlayedTalksInItsSleep
     DEF Plays
<1> QED BY <1>1, <1>2, ProceedingKeeps

LEMMA NextKeeps ==
  ASSUME MInv, Thawing = {}, Flinching = {}, [Next]_vars
  PROVE  MInv'
<1>1. CASE StartsTurn
  BY <1>1, StartsTurnKeeps
<1>2. ASSUME NEW p \in Parties, Plays(p)
      PROVE  MInv'
  BY <1>2, PlayingKeeps
<1>3. CASE EndsTurn
  <2>1. UNCHANGED <<generation, client>>
    BY <1>3 DEF EndsTurn, Says
  <2> QED BY <1>3, <2>1, EndsTurnProceeds, ProceedingKeeps
<1>4. CASE Replaces
  <2>1. UNCHANGED <<generation, client>>
    BY <1>4 DEF Replaces, Says
  <2> QED BY <1>4, <2>1, ReplacesProceeds, ProceedingKeeps
<1>5. CASE Handles
  BY <1>5, HandlingKeeps
<1>6. CASE UNCHANGED vars
  <2>1. Client' = Client /\ UNCHANGED <<generation, side, phase, script, misfiled, threw>>
    BY <1>6 DEF vars, server, client, Client
  <2> QED BY <2>1 DEF MInv
<1> QED BY <1>1, <1>2, <1>3, <1>4, <1>5, <1>6 DEF Next, Server

LEMMA InitOK ==
  ASSUME Init
  PROVE  MInv
<1> DEFINE c == Pending(Nothing, battle, 1)
<1>1. PICK first \in Roster :
        /\ side = [p \in Parties |->
                    [active |-> first, living |-> Roster, owes |-> FALSE, pivots |-> FALSE,
                     status |-> [q \in Roster |-> "clear"]]]
        /\ battle = [p \in Parties |->
                      [active |-> first, team |-> Roster, down |-> FALSE, moved |-> FALSE,
                       pivoting |-> FALSE, flinched |-> FALSE, status |-> [q \in Roster |-> "clear"]]]
  BY DEF Init
<1>2. side \in [Parties -> SideRecord]
  BY <1>1 DEF SideRecord, Status
<1>3. WellFormed(battle)
  BY <1>1 DEF WellFormed, ClientRecord, Status
<1>4. AllFollow(battle, side)
  BY <1>1 DEF AllFollow, Follows
<1>5. \A p \in Parties : ~battle[p].moved /\ ~battle[p].pivoting /\ ~battle[p].down /\ ~side[p].pivots
  BY <1>1
<1>6. /\ Client = c /\ script = <<>> /\ phase = "choosing" /\ ~threw /\ ~misfiled
      /\ generation \in Generations
  BY DEF Init, Client, Pending
<1> HIDE DEF c
<1>7. Settled(c, side, phase) /\ ServerOK(side, phase)
  BY <1>2, <1>3, <1>4, <1>5, <1>6, SettledAtEnd DEF AtEnd, c
<1>8. Sound(c)
  BY <1>3, SoundPending DEF c
<1>9. Runs(script, Client, c, side, generation)
  BY <1>6, <1>8, RunsNone
<1> QED BY <1>6, <1>7, <1>9 DEF MInv

-----------------------------------------------------------------------------
(* What the invariant says                                                 *)

Flags == misfiled \in BOOLEAN /\ threw \in BOOLEAN

LEMMA FlagsStay ==
  ASSUME Flags, [Next]_vars
  PROVE  Flags'
<1>1. CASE Handles
  BY <1>1 DEF Flags, rest, Builds, BuildsOn, BuildsAnew, UsePreviousAction, NothingIsPerformed,
     SetsValueOnPokemon, Handles, SeparatorMessage, CantMessage, MoveMessage, DamageMessage,
     DamageSubstituteMessage, CriticalHitMessage, StartConfusionMessage, RecoilMessage,
     HitSelfMessage, MoveStatus, StatusClearMessage, RevealMessage, AbilityStatusMessage,
     HPMessage, SwitchMessage, PhazeMessage, UpkeepMessage, TurnMessage,
     BattleFinishedMessage, BlockEnds
<1>2. CASE Server
  <2>1. UNCHANGED <<misfiled, threw>>
    BY <1>2, PlayingIsServer DEF Server, StartsTurn, EndsTurn, Replaces, Says, client
  <2> QED BY <2>1 DEF Flags
<1>3. CASE UNCHANGED vars
  BY <1>3 DEF Flags, vars, client
<1> QED BY <1>1, <1>2, <1>3 DEF Next

LEMMA ServerIsTyped ==
  ASSUME MInv
  PROVE  /\ generation \in Generations /\ phase \in Phases
         /\ \A p \in Parties : /\ side[p].active \in Roster /\ side[p].living \subseteq Roster
                               /\ \A q \in Roster : side[p].status[q] \in Status
BY DEF MInv, ServerOK, SideRecord

LEMMA ClientIsTyped ==
  ASSUME MInv
  PROVE  /\ \A p \in Parties :
              /\ battle[p].active \in battle[p].team /\ battle[p].team \subseteq Roster
              /\ \A q \in Roster : battle[p].status[q] \in Status
              /\ upkeep[p].status \in Status \cup {Untold} /\ upkeep[p].hp \in HP \cup {Untold}
         /\ action.kind \in {"nothing", "move", "switches", "hits self"}
         /\ result \in {"unknown", "turn", "finished"}
         /\ endings \in {0, 1}
<1>1. Sound(Client)
  BY RunsSound DEF MInv
<1>2. /\ WellFormed(battle) /\ upkeep \in [Parties -> UpkeepRecord]
      /\ action.kind \in {"nothing", "move", "switches", "hits self"}
      /\ result \in {"unknown", "turn", "finished"}
      /\ endings \in {0, 1}
  BY <1>1, ClientIs DEF Sound
<1>3. ASSUME NEW p \in Parties
      PROVE  /\ battle[p].active \in battle[p].team /\ battle[p].team \subseteq Roster
             /\ \A q \in Roster : battle[p].status[q] \in Status
  BY <1>2 DEF WellFormed, ClientRecord
<1>4. ASSUME NEW p \in Parties
      PROVE  upkeep[p].status \in Status \cup {Untold} /\ upkeep[p].hp \in HP \cup {Untold}
  BY <1>2 DEF UpkeepRecord
<1> QED BY <1>2, <1>3, <1>4

LEMMA TypedStates ==
  ASSUME MInv, Flags
  PROVE  TypeOK
<1>1. \A p \in Parties : {side[p].status[q] : q \in Roster} \subseteq Status
  BY ServerIsTyped
<1>2. \A p \in Parties : {battle[p].status[q] : q \in Roster} \subseteq Status
  BY ClientIsTyped
<1>3. endings \in 0..2
  <2>1. endings = 0 \/ endings = 1
    BY ClientIsTyped
  <2> QED BY <2>1
<1>4. {misfiled, threw} \subseteq BOOLEAN
  BY DEF Flags
<1>5. generation \in Generations /\ phase \in Phases
  BY ServerIsTyped
<1>6. \A p \in Parties : side[p].active \in Roster /\ side[p].living \subseteq Roster
  BY ServerIsTyped
<1>7. \A p \in Parties :
        /\ battle[p].active \in battle[p].team /\ battle[p].team \subseteq Roster
        /\ upkeep[p].status \in Status \cup {Untold} /\ upkeep[p].hp \in HP \cup {Untold}
  BY ClientIsTyped
<1>8. /\ action.kind \in {"nothing", "move", "switches", "hits self"}
      /\ result \in {"unknown", "turn", "finished"}
  BY ClientIsTyped
<1> QED BY <1>1, <1>2, <1>3, <1>4, <1>5, <1>6, <1>7, <1>8 DEF TypeOK, Phases

LEMMA FollowingStates ==
  ASSUME MInv
  PROVE  BattleFollowsServer
<1> SUFFICES ASSUME AtRest
             PROVE  action = Nothing /\ \A p \in Parties : Agrees(p)
  BY DEF BattleFollowsServer
<1>1. script = <<>> /\ phase \in {"choosing", "pivoting", "replacing"}
  BY DEF AtRest
<1>2. Settled(Client, side, phase)
  BY <1>1, AtRestSettled
<1>3. action = Nothing /\ AllFollow(Performed(battle, action), side)
  <2>1. phase # "over"
    BY <1>1
  <2> QED BY <1>1, <1>2, <2>1, ClientIs DEF Settled
<1>4. Performed(battle, action) = battle
  BY <1>3 DEF Performed, Nothing
<1>5. \A p \in Parties : Agrees(p)
  BY <1>3, <1>4 DEF AllFollow, Follows, Agrees, Active, Lives
<1> QED BY <1>3, <1>5

LEMMA OnceEndedStates ==
  ASSUME MInv
  PROVE  EndsEachTurnOnce
<1>1. endings <= 1
  <2>1. endings = 0 \/ endings = 1
    BY ClientIsTyped
  <2> QED BY <2>1
<1>2. ASSUME AtRest
      PROVE  endings = IF phase = "pivoting" THEN 0 ELSE 1
  <2>1. script = <<>> /\ phase \in {"choosing", "pivoting", "replacing"}
    BY <1>2 DEF AtRest
  <2>2. Settled(Client, side, phase)
    BY <2>1, AtRestSettled
  <2> QED BY <2>1, <2>2, ClientIs DEF Settled
<1> QED BY <1>1, <1>2 DEF EndsEachTurnOnce

-----------------------------------------------------------------------------
(* The theorems                                                            *)

\* The invariant behind the theorems below: the messages still to come take the
\* client, without an error, to a battle that is settled with the server's.  No
\* player knows a Fire move that may burn: with one, an invariant fails
\* (ShowdownThaw).  Nor a move that makes its target flinch only sometimes: the
\* client knows nothing of that, and has a Pokemon that flinches use Struggle.
THEOREM Invariance == Thawing = {} /\ Flinching = {} => (Spec => [](MInv /\ Flags))
<1> SUFFICES ASSUME Thawing = {}, Flinching = {}
             PROVE  Spec => [](MInv /\ Flags)
  OBVIOUS
<1>1. Init => MInv /\ Flags
  BY InitOK DEF Init, Flags
<1>2. (MInv /\ Flags) /\ [Next]_vars => (MInv /\ Flags)'
  BY NextKeeps, FlagsStay
<1> QED BY <1>1, <1>2, PTL DEF Spec

\* Every variable of the server and of the client keeps its type.
THEOREM Typed == Thawing = {} /\ Flinching = {} => (Spec => []TypeOK)
<1>1. MInv /\ Flags => TypeOK
  BY TypedStates
<1> QED BY <1>1, Invariance, PTL

\* No order in which the server tells what happens, in any generation that is
\* played and for teams of any size, makes a handler of battle_message_handler_impl.cpp
\* throw: no message finds the wrong builder, no result is set twice, and no
\* status that is verified differs.
THEOREM NeverThrows == Thawing = {} /\ Flinching = {} => (Spec => []NothingThrows)
<1>1. MInv /\ Flags => NothingThrows
  BY DEF MInv, NothingThrows
<1> QED BY <1>1, Invariance, PTL

\* Whenever a block has been handled, m_client_battle has the Pokemon out, the
\* fainted and the statuses of the server's battle, and no action is pending.
THEOREM FollowsServer == Thawing = {} /\ Flinching = {} => (Spec => []BattleFollowsServer)
<1>1. MInv /\ Flags => BattleFollowsServer
  BY FollowingStates
<1> QED BY <1>1, Invariance, PTL

\* is_end_of_turn says yes at the end of exactly one of the blocks of a turn, so
\* that the client ends each turn once.
THEOREM EndsOnce == Thawing = {} /\ Flinching = {} => (Spec => []EndsEachTurnOnce)
<1>1. MInv /\ Flags => EndsEachTurnOnce
  BY OnceEndedStates
<1> QED BY <1>1, Invariance, PTL

\* pokemon_to_set_value_on finds the Pokemon that has shown its ability or item,
\* though the switch that brought it in may not have been performed.
THEOREM FiledRight == Thawing = {} /\ Flinching = {} => (Spec => []RevealsAreFiledRight)
<1>1. MInv /\ Flags => RevealsAreFiledRight
  BY DEF MInv, RevealsAreFiledRight
<1> QED BY <1>1, Invariance, PTL
=============================================================================

-------------------------- MODULE BattlefieldProofs --------------------------
(***************************************************************************)
(* What is proved of Battlefield, for any moves and any teams.             *)
(***************************************************************************)
EXTENDS Battlefield, FiniteSetTheorems, TLAPS

-----------------------------------------------------------------------------
(* The worlds *)

Mons(s) == DOMAIN Rules.types[s]

\* What may be held
ItemName == (UNION {{Rules.item[s][m] : m \in Mons(s)} : s \in Side}) \cup {NoItem}

OneMon == [hp : 0..MaxHP, status : Statuses, item : ItemName, held : BOOLEAN]

\* The flags, those included that moves set, and weather
FlagName ==
  {"attracted", "cursed", "damaged", "defense_curled", "flash_fire", "flinched", "fully_trapped",
   "minimized", "power_trick", "tormented", "unburdened"} \cup
    {MoveData[m].effect[2] : m \in {n \in Move : MoveData[n].effect[1] \in {"set_user", "set_other"}}}
Flag == {f \in FlagName : Exists(f)}

WeatherName ==
  {Clear, "rain", "sun", "sand", "hail"} \cup
    {MoveData[m].effect[2] : m \in {n \in Move : MoveData[n].effect[1] = "weather"}}

Counts ==
  {g \in [Counter -> Int] :
     \A c \in Counter : /\ Inactive <= g[c] /\ g[c] <= Duration[c]
                        /\ ~Exists(c) => g[c] = Inactive}

HazardName == {"spikes", "toxic_spikes", "rock"}
Layers == {g \in [HazardName -> Int] : \A h \in HazardName : 0 <= g[h] /\ g[h] <= MaxLayers(h)}

\* What is remembered of the last move.  Uproar's turns have no end.
LumRecord == [move : Move \cup {NoMove}, successes : 0..MaxSuccesses, moved : BOOLEAN,
              effect : Effects, turns : Nat]

InTurns(effect, turns) ==
  IF effect = "UproarCounter" THEN \E m \in Move : KindOf[m] = "uproar"
  ELSE turns <= MaxTurns(effect)

Used == {l \in LumRecord : InTurns(l.effect, l.turns)}

OneSide(s) ==
  [active : Mons(s), team : [Mons(s) -> OneMon], lum : Used, flags : SUBSET Flag, count : Counts,
   disabled : Move \cup {NoMove}, substitute : 0..(MaxHP \div 4 + 1), state : 1..MaxToxic,
   stages : [Stat -> -6..6], stockpile : 0..3, hazards : Layers, wish : -1..1]

\* The worlds of a game that exists
World ==
  {v \in [ai : OneSide("ai"), foe : OneSide("foe"), weather : WeatherName, turns : -1..8,
          failed : BOOLEAN] : Rules.generation \in 1..8}

LEMMA DurationNat == DOMAIN Duration = Counter /\ \A c \in Counter : Duration[c] \in 1..8
BY DEF Duration, Counter

LEMMA CounterNames ==
  Counter = {"confusion", "disable", "embargo", "encore", "heal_block", "magnet_rise",
             "partial_trap", "perish_song", "taunt", "yawn"}
BY DEF Duration, Counter

-----------------------------------------------------------------------------
(* Worlds that differ by what does no harm.  The properties are about what  *)
(* few operators do: to revive, to put to sleep or freeze, and to give an   *)
(* item.  P says who may: P[1] the Pokemon that may be revived, who are     *)
(* those left when the move began, P[2] the Pokemon that may get a status,  *)
(* with the status, P[3] the Pokemon that may get an item, P[4] those that  *)
(* may be hurt, and P[5] what else may happen to a side.                    *)

Tamed(P, s, m, a, b) ==
  /\ a.hp = 0 /\ <<s, m>> \notin P[1] => b.hp = 0
  /\ b.status \in {"sleep", "freeze"} => a.status = b.status \/ <<s, m, b.status>> \in P[2]
  /\ b.item # NoItem /\ <<s, m>> \notin P[3] => a.item = b.item /\ (b.held => a.held)
  /\ b.hp < a.hp => <<s, m>> \in P[4]

May(P, s, word) == <<s, word>> \in P[5]

\* Perish Song starts where it may be sung, and is else left as it is.
Hears(P, s, a, b) ==
  \/ b.count["perish_song"] = a.count["perish_song"]
  \/ May(P, s, "sings") /\ a.count["perish_song"] = Inactive /\ b.count["perish_song"] = 0
  \/ May(P, s, "counts")

\* Assertions may fail.
MayFail(P) == May(P, "all", "fails")

\* Who sleeps has the part of ActiveStatus that is about nightmares.
Sound(a) == a.team[a.active].status \in Sleeping => a.state \in {Nightmare, NoNightmare}

\* By the rules of this battle nobody that has fainted is damaged by it.
Meant(m) == Rules.generation >= 4 => Single(m)

\* An effect is of the move that set it up, which is kept with it.
Fit(l) ==
  /\ l.effect # "Empty" => /\ l.move \in Move
                           /\ Meant(l.move)
                           /\ l.successes >= 1
                           /\ KindOf[l.move] = "recharge" => l.effect = "Recharging"
  /\ l.effect = "Protecting" => l.moved

\* Who is to act by m uses what it is locked in to.
Carries(l, m) ==
  Tabled => Fit(l) /\ ~l.moved /\ Meant(m) /\ (l.effect # "Empty" => l.move = m)

\* An effect may end.  Who uses a move, and the end of a turn, may change it.
Recalls(P, s, k, l) ==
  \/ l = k
  \/ l.effect = "Empty"
  \/ May(P, s, "uses") /\ (Fit(k) => Fit(l))
  \/ MayFail(P)

Follows(P, s, a, b) == (Sound(a) => Sound(b)) /\ Recalls(P, s, a.lum, b.lum)

\* No assertion is about to fail, or one may.
Steady(P, v) == MayFail(P) \/ (Tabled /\ \A s \in Side : Sound(v[s]))

TeamsTame(P, v, x) ==
  /\ x.failed => v.failed \/ MayFail(P)
  /\ \A s \in Side : /\ \A m \in Mons(s) : Tamed(P, s, m, v[s].team[m], x[s].team[m])
                     /\ Hears(P, s, v[s], x[s])
                     /\ Follows(P, s, v[s], x[s])

\* Where the sides of A keep who is on the field, and the sides of L what is
\* remembered of the last move
Goes(P, A, L, v, x) ==
  v \in World =>
    /\ x \in World
    /\ TeamsTame(P, v, x)
    /\ \A s \in A : x[s].active = v[s].active
    /\ \A s \in L : x[s].lum = v[s].lum

\* Where both do
Tame(P, v, x) ==
  v \in World =>
    /\ x \in World
    /\ TeamsTame(P, v, x)
    /\ \A s \in Side : x[s].active = v[s].active /\ x[s].lum = v[s].lum

\* The Pokemon on the field may gain HP, may be hurt, may get a status, may get an item.
Livable(P, v, s) == HP(v, s) # 0 \/ <<s, v[s].active>> \in P[1]
Hurtable(P, v, s) == <<s, v[s].active>> \in P[4]
Takes(P, v, s, status) ==
  \/ status \notin {"sleep", "freeze"}
  \/ status = Status(v, s)
  \/ <<s, v[s].active, status>> \in P[2]
Gets(P, v, s) == <<s, v[s].active>> \in P[3]

\* Every Pokemon may be hurt.
Harsh(P) == \A s \in Side : \A m \in Mons(s) : <<s, m>> \in P[4]

LEMMA Sides == "ai" \in Side /\ "foe" \in Side /\ \A s \in Side : Other(s) \in Side /\ Other(s) # s
BY DEF Side, Other

LEMMA TwoSides == \A s, q \in Side : q = s \/ q = Other(s)
BY DEF Side, Other

LEMMA SideOf ==
  ASSUME NEW v \in World, NEW s \in Side
  PROVE  v[s] \in OneSide(s)
BY DEF World, Side

LEMMA MonOf ==
  ASSUME NEW v \in World, NEW s \in Side
  PROVE  /\ Mon(v, s) \in OneMon
         /\ v[s].active \in Mons(s)
         /\ HP(v, s) \in 0..MaxHP
         /\ Status(v, s) \in Statuses
BY SideOf DEF OneSide, Mon, HP, OneMon, Status

LEMMA MemberOf ==
  ASSUME NEW v \in World, NEW s \in Side, NEW m \in Mons(s)
  PROVE  v[s].team[m] \in OneMon /\ v[s].team[m].hp \in 0..MaxHP
BY SideOf DEF OneSide, OneMon

LEMMA PutSide ==
  ASSUME NEW v \in World, NEW s \in Side, NEW r \in OneSide(s), NEW x, x = [v EXCEPT ![s] = r]
  PROVE  x \in World
<1> USE DEF World, Side, Other
<1> HIDE DEF OneSide
<1>1. CASE s = "ai"   BY <1>1
<1>2. CASE s = "foe"  BY <1>2
<1> QED BY <1>1, <1>2

LEMMA PutSideThere ==
  ASSUME NEW v \in World, NEW s \in Side, NEW r, NEW x, x = [v EXCEPT ![s] = r]
  PROVE  x[s] = r /\ \A q \in Side \ {s} : x[q] = v[q]
BY DEF World, Side

LEMMA TamedRefl ==
  ASSUME NEW P, NEW s, NEW m, NEW a \in OneMon
  PROVE  Tamed(P, s, m, a, a)
BY DEF Tamed, OneMon

LEMMA TamedTrans ==
  ASSUME NEW P, NEW s, NEW m, NEW a \in OneMon, NEW b \in OneMon, NEW c \in OneMon,
         Tamed(P, s, m, a, b), Tamed(P, s, m, b, c)
  PROVE  Tamed(P, s, m, a, c)
<1>1. a.hp \in Int /\ b.hp \in Int /\ c.hp \in Int
  BY DEF OneMon
<1>2. a.hp = 0 /\ <<s, m>> \notin P[1] => c.hp = 0
  BY DEF Tamed
<1>3. c.status \in {"sleep", "freeze"} => a.status = c.status \/ <<s, m, c.status>> \in P[2]
  BY DEF Tamed
<1>4. c.item # NoItem /\ <<s, m>> \notin P[3] => a.item = c.item /\ (c.held => a.held)
  BY DEF Tamed
<1>5. c.hp < a.hp => <<s, m>> \in P[4]
  BY <1>1 DEF Tamed
<1> QED BY <1>2, <1>3, <1>4, <1>5 DEF Tamed

LEMMA HearsSame ==
  ASSUME NEW P, NEW s, NEW a, NEW b, b.count = a.count
  PROVE  Hears(P, s, a, b)
BY DEF Hears

LEMMA HearsTrans ==
  ASSUME NEW P, NEW s, NEW a, NEW b, NEW c, Hears(P, s, a, b), Hears(P, s, b, c)
  PROVE  Hears(P, s, a, c)
BY DEF Hears, Inactive

LEMMA FollowsSame ==
  ASSUME NEW P, NEW s, NEW a, NEW b, b.lum = a.lum,
         (b.active = a.active /\ b.team = a.team /\ b.state = a.state) \/ Sound(b)
  PROVE  Follows(P, s, a, b)
BY DEF Follows, Recalls, Sound

LEMMA RecallsTrans ==
  ASSUME NEW P, NEW s, NEW j, NEW k, NEW l, Recalls(P, s, j, k), Recalls(P, s, k, l)
  PROVE  Recalls(P, s, j, l)
<1>1. k.effect = "Empty" => Fit(k)
  BY DEF Fit
<1> QED BY <1>1 DEF Recalls

LEMMA FollowsTrans ==
  ASSUME NEW P, NEW s, NEW a, NEW b, NEW c, Follows(P, s, a, b), Follows(P, s, b, c)
  PROVE  Follows(P, s, a, c)
BY RecallsTrans DEF Follows

LEMMA TeamsTameRefl ==
  ASSUME NEW P, NEW v \in World
  PROVE  TeamsTame(P, v, v)
BY MemberOf, TamedRefl, HearsSame, FollowsSame DEF TeamsTame

\* Worlds whose sides are the same
LEMMA TeamsTameSame ==
  ASSUME NEW P, NEW v \in World, NEW x, \A q \in Side : x[q] = v[q],
         x.failed => v.failed \/ MayFail(P)
  PROVE  TeamsTame(P, v, x)
BY MemberOf, TamedRefl, HearsSame, FollowsSame DEF TeamsTame

LEMMA TeamsTameTrans ==
  ASSUME NEW P, NEW u \in World, NEW v \in World, NEW x \in World,
         TeamsTame(P, u, v), TeamsTame(P, v, x)
  PROVE  TeamsTame(P, u, x)
<1>0. \A s \in Side : Hears(P, s, u[s], x[s]) /\ Follows(P, s, u[s], x[s])
  BY HearsTrans, FollowsTrans DEF TeamsTame
<1>3. x.failed => u.failed \/ MayFail(P)
  BY DEF TeamsTame
<1> SUFFICES ASSUME NEW s \in Side, NEW m \in Mons(s)
             PROVE  Tamed(P, s, m, u[s].team[m], x[s].team[m])
  BY <1>0, <1>3 DEF TeamsTame
<1>1. u[s].team[m] \in OneMon /\ v[s].team[m] \in OneMon /\ x[s].team[m] \in OneMon
  BY MemberOf
<1>2. Tamed(P, s, m, u[s].team[m], v[s].team[m]) /\ Tamed(P, s, m, v[s].team[m], x[s].team[m])
  BY DEF TeamsTame
<1> QED BY <1>1, <1>2, TamedTrans

\* More may happen.
Wider(P, Q) ==
  P[1] \subseteq Q[1] /\ P[2] \subseteq Q[2] /\ P[3] \subseteq Q[3] /\ P[4] \subseteq Q[4]
  /\ P[5] \subseteq Q[5]

LEMMA TamedWider ==
  ASSUME NEW P, NEW Q, Wider(P, Q), NEW s, NEW m, NEW a, NEW b, Tamed(P, s, m, a, b)
  PROVE  Tamed(Q, s, m, a, b)
BY DEF Wider, Tamed

LEMMA HearsWider ==
  ASSUME NEW P, NEW Q, Wider(P, Q), NEW s, NEW a, NEW b, Hears(P, s, a, b)
  PROVE  Hears(Q, s, a, b)
BY DEF Wider, Hears, May

LEMMA FollowsWider ==
  ASSUME NEW P, NEW Q, Wider(P, Q), NEW s, NEW a, NEW b, Follows(P, s, a, b)
  PROVE  Follows(Q, s, a, b)
BY DEF Wider, Follows, Recalls, May, MayFail

LEMMA TeamsTameWider ==
  ASSUME NEW P, NEW Q, Wider(P, Q), NEW v, NEW x, TeamsTame(P, v, x)
  PROVE  TeamsTame(Q, v, x)
<1>1. MayFail(P) => MayFail(Q)
  BY DEF Wider, May, MayFail
<1> QED BY <1>1, TamedWider, HearsWider, FollowsWider DEF TeamsTame

LEMMA GoesWider ==
  ASSUME NEW P, NEW Q, Wider(P, Q), NEW A, NEW L, NEW v, NEW x, Goes(P, A, L, v, x)
  PROVE  Goes(Q, A, L, v, x)
BY TeamsTameWider DEF Goes

LEMMA TameRefl ==
  ASSUME NEW P, NEW v
  PROVE  Tame(P, v, v)
BY TeamsTameRefl DEF Tame

LEMMA TameTrans ==
  ASSUME NEW P, NEW u, NEW v, NEW x, Tame(P, u, v), Tame(P, v, x)
  PROVE  Tame(P, u, x)
BY TeamsTameTrans DEF Tame

LEMMA GoesTrans ==
  ASSUME NEW P, NEW A, NEW L, NEW u, NEW v, NEW x, Goes(P, A, L, u, v), Goes(P, A, L, v, x)
  PROVE  Goes(P, A, L, u, x)
BY TeamsTameTrans DEF Goes

LEMMA GoesSteady ==
  ASSUME NEW P, NEW A, NEW L, NEW v \in World, NEW x, Goes(P, A, L, v, x), Steady(P, v)
  PROVE  x \in World /\ Steady(P, x)
BY DEF Goes, TeamsTame, Follows, Steady

LEMMA TameSteady ==
  ASSUME NEW P, NEW v \in World, NEW x, Tame(P, v, x), Steady(P, v)
  PROVE  x \in World /\ Steady(P, x)
BY DEF Tame, TeamsTame, Follows, Steady

LEMMA TameGoes ==
  ASSUME NEW P, NEW A \in SUBSET Side, NEW L \in SUBSET Side, NEW v, NEW x, Tame(P, v, x)
  PROVE  Goes(P, A, L, v, x)
BY DEF Tame, Goes

\* What does not depend on who is hurt
LEMMA TameHP ==
  ASSUME NEW P, NEW v \in World, NEW x, Tame(P, v, x), NEW s \in Side
  PROVE  /\ x \in World
         /\ x[s].active = v[s].active
         /\ x[s].lum = v[s].lum
         /\ HP(v, s) = 0 /\ ~Livable(P, v, s) => HP(x, s) = 0
         /\ ~Hurtable(P, v, s) => HP(x, s) >= HP(v, s)
<1>1. x \in World /\ x[s].active = v[s].active /\ x[s].lum = v[s].lum
  BY DEF Tame
<1>2. Tamed(P, s, v[s].active, v[s].team[v[s].active], x[s].team[v[s].active])
  BY MonOf DEF Tame, TeamsTame
<1>3. HP(v, s) \in Int /\ HP(x, s) \in Int
  BY <1>1, MonOf
<1>4. HP(v, s) = 0 /\ ~Livable(P, v, s) => HP(x, s) = 0
  BY <1>1, <1>2 DEF Tamed, Livable, HP, Mon
<1>5. ~Hurtable(P, v, s) => HP(x, s) >= HP(v, s)
  BY <1>1, <1>2, <1>3 DEF Tamed, Hurtable, HP, Mon
<1> QED BY <1>1, <1>4, <1>5

\* What is not about the Pokemon of the team is put.
LEMMA PutTame ==
  ASSUME NEW P, NEW v \in World, NEW s \in Side, NEW r \in OneSide(s),
         r.active = v[s].active, r.lum = v[s].lum, r.team = v[s].team, Hears(P, s, v[s], r),
         r.state = v[s].state \/ Sound(r),
         NEW x, x = [v EXCEPT ![s] = r]
  PROVE  Tame(P, v, x)
<1>1. x \in World
  BY PutSide
<1>2. x[s] = r /\ \A q \in Side \ {s} : x[q] = v[q]
  BY DEF World, Side
<1>3. \A q \in Side : x[q].active = v[q].active /\ x[q].lum = v[q].lum /\ x[q].team = v[q].team
  BY <1>2
<1>5. \A q \in Side : Hears(P, q, v[q], x[q]) /\ Follows(P, q, v[q], x[q])
  BY <1>2, HearsSame, FollowsSame
<1>6. x.failed = v.failed
  BY DEF World, Side
<1>4. TeamsTame(P, v, x)
  BY <1>3, <1>5, <1>6, MemberOf, TamedRefl DEF TeamsTame
<1> QED BY <1>1, <1>3, <1>4 DEF Tame

\* So is what is remembered of the last move.
LEMMA PutGoes ==
  ASSUME NEW P, NEW v \in World, NEW s \in Side, NEW r \in OneSide(s), r.team = v[s].team,
         r.count = v[s].count, NEW A \in SUBSET Side, s \in A => r.active = v[s].active,
         NEW L \in SUBSET Side, s \notin L,
         (r.active = v[s].active /\ r.state = v[s].state) \/ Sound(r),
         Recalls(P, s, v[s].lum, r.lum),
         NEW x, x = [v EXCEPT ![s] = r]
  PROVE  Goes(P, A, L, v, x)
<1>1. x \in World
  BY PutSide
<1>2. x[s] = r /\ \A q \in Side \ {s} : x[q] = v[q]
  BY DEF World, Side
<1>3. (\A q \in A : x[q].active = v[q].active) /\ \A q \in L : x[q].lum = v[q].lum
  BY <1>2
<1>5. \A q \in Side : x[q].team = v[q].team
  BY <1>2
<1>7. Follows(P, s, v[s], r)
  BY DEF Follows, Sound
<1>6. \A q \in Side : Hears(P, q, v[q], x[q]) /\ Follows(P, q, v[q], x[q])
  BY <1>2, <1>7, HearsSame, FollowsSame
<1>8. x.failed = v.failed
  BY DEF World, Side
<1>4. TeamsTame(P, v, x)
  BY <1>5, <1>6, <1>8, MemberOf, TamedRefl DEF TeamsTame
<1> QED BY <1>1, <1>3, <1>4 DEF Goes

LEMMA PutLum ==
  ASSUME NEW P, NEW v, NEW s \in Side, NEW l,
         v \in World => l \in Used /\ Recalls(P, s, v[s].lum, l),
         NEW L \in SUBSET Side, s \notin L, NEW A \in SUBSET Side
  PROVE  /\ Goes(P, A, L, v, [v EXCEPT ![s].lum = l])
         /\ v \in World => [v EXCEPT ![s].lum = l][s].lum = l
<1> SUFFICES ASSUME v \in World
             PROVE  /\ Goes(P, A, L, v, [v EXCEPT ![s].lum = l])
                    /\ [v EXCEPT ![s].lum = l][s].lum = l
  BY DEF Goes
<1> DEFINE r == [v[s] EXCEPT !.lum = l]
           x == [v EXCEPT ![s].lum = l]
<1>1. r \in OneSide(s) /\ r.active = v[s].active /\ r.lum = l /\ r.team = v[s].team
      /\ r.count = v[s].count /\ r.state = v[s].state
  BY SideOf DEF OneSide
<1>2. x = [v EXCEPT ![s] = r]
  BY SideOf
<1> HIDE DEF r, x
<1>3. Goes(P, A, L, v, x)
  BY <1>1, <1>2, PutGoes
<1>4. x[s].lum = l
  <2>1. x[s] = r
    BY <1>2 DEF World, Side
  <2> QED BY <2>1, <1>1
<1> QED BY <1>3, <1>4 DEF x

-----------------------------------------------------------------------------
(* Flags, counters and stages *)

LEMMA TameAsserted ==
  ASSUME NEW P, NEW v, NEW holds, v \in World => holds \/ MayFail(P)
  PROVE  Tame(P, v, Asserted(v, holds))
<1> SUFFICES ASSUME v \in World  PROVE Tame(P, v, Asserted(v, holds))
  BY DEF Tame
<1>1. Asserted(v, holds) \in World
  BY DEF Asserted, World
<1>2. \A q \in Side : Asserted(v, holds)[q] = v[q]
  BY DEF Asserted, World, Side
<1>4. Asserted(v, holds).failed => v.failed \/ MayFail(P)
  BY DEF Asserted
<1>3. TeamsTame(P, v, Asserted(v, holds))
  BY <1>2, <1>4, TeamsTameSame
<1> QED BY <1>1, <1>2, <1>3 DEF Tame

LEMMA TameSetFlag ==
  ASSUME NEW P, NEW v, NEW s \in Side, NEW f \in FlagName
  PROVE  Tame(P, v, SetFlag(v, s, f))
<1> SUFFICES ASSUME v \in World  PROVE Tame(P, v, SetFlag(v, s, f))
  BY DEF Tame
<1>1. CASE Exists(f)
  <2> DEFINE r == [v[s] EXCEPT !.flags = @ \cup {f}]
  <2>1. r \in OneSide(s) /\ r.active = v[s].active /\ r.lum = v[s].lum /\ r.team = v[s].team
      /\ r.count = v[s].count /\ r.state = v[s].state
    BY <1>1, SideOf DEF OneSide, Flag
  <2>2. SetFlag(v, s, f) = [v EXCEPT ![s] = r]
    BY <1>1, SideOf DEF SetFlag
  <2> HIDE DEF r
  <2> QED BY <2>1, <2>2, PutTame, HearsSame
<1>2. CASE ~Exists(f)
  BY <1>2, TameRefl DEF SetFlag
<1> QED BY <1>1, <1>2

LEMMA TameClearFlags ==
  ASSUME NEW P, NEW v, NEW s \in Side, NEW fs
  PROVE  Tame(P, v, ClearFlags(v, s, fs))
<1> SUFFICES ASSUME v \in World  PROVE Tame(P, v, ClearFlags(v, s, fs))
  BY DEF Tame
<1> DEFINE r == [v[s] EXCEPT !.flags = @ \ fs]
<1>1. r \in OneSide(s) /\ r.active = v[s].active /\ r.lum = v[s].lum /\ r.team = v[s].team
      /\ r.count = v[s].count /\ r.state = v[s].state
  BY SideOf DEF OneSide
<1>2. ClearFlags(v, s, fs) = [v EXCEPT ![s] = r]
  BY SideOf DEF ClearFlags
<1> HIDE DEF r
<1> QED BY <1>1, <1>2, PutTame, HearsSame

LEMMA TameStopCounters ==
  ASSUME NEW P, NEW v, NEW s \in Side, NEW cs, "perish_song" \notin cs \/ May(P, s, "counts")
  PROVE  Tame(P, v, StopCounters(v, s, cs))
<1> SUFFICES ASSUME v \in World  PROVE Tame(P, v, StopCounters(v, s, cs))
  BY DEF Tame
<1> DEFINE g == [c \in Counter |-> IF c \in cs THEN Inactive ELSE v[s].count[c]]
           d == IF "disable" \in cs THEN NoMove ELSE v[s].disabled
           r == [v[s] EXCEPT !.count = g, !.disabled = d]
<1>1. g \in Counts
  BY SideOf, DurationNat DEF OneSide, Counts, Inactive
<1>2. d \in Move \cup {NoMove}
  BY SideOf DEF OneSide
<1>5. "perish_song" \in Counter
  BY CounterNames
<1>6. "perish_song" \in cs \/ g["perish_song"] = v[s].count["perish_song"]
  BY <1>5
<1> HIDE DEF g, d
<1>3. r \in OneSide(s) /\ r.active = v[s].active /\ r.lum = v[s].lum /\ r.team = v[s].team
      /\ r.count = g /\ r.state = v[s].state
  BY <1>1, <1>2, SideOf DEF OneSide
<1>4. StopCounters(v, s, cs) = [v EXCEPT ![s] = r]
  BY SideOf DEF StopCounters, g, d
<1> HIDE DEF r
<1>7. Hears(P, s, v[s], r)
  BY <1>3, <1>6 DEF Hears
<1> QED BY <1>3, <1>4, <1>7, PutTame

LEMMA TamePutCount ==
  ASSUME NEW P, NEW v, NEW s \in Side, NEW c \in Counter, NEW n \in Int,
         Inactive <= n, n <= Duration[c], n = Inactive \/ Exists(c),
         c = "perish_song" =>
           May(P, s, "counts") \/ (May(P, s, "sings") /\ v[s].count[c] = Inactive /\ n = 0),
         NEW x, x = [v EXCEPT ![s].count[c] = n]
  PROVE  Tame(P, v, x)
<1> SUFFICES ASSUME v \in World  PROVE Tame(P, v, x)
  BY DEF Tame
<1> DEFINE g == [v[s].count EXCEPT ![c] = n]
           r == [v[s] EXCEPT !.count = g]
<1>1. g \in Counts
  BY SideOf, DurationNat DEF OneSide, Counts, Inactive
<1>2. x = [v EXCEPT ![s] = r]
  BY SideOf
<1>4. IF c = "perish_song" THEN g[c] = n ELSE g["perish_song"] = v[s].count["perish_song"]
  BY SideOf DEF OneSide, Counts
<1> HIDE DEF g
<1>3. r \in OneSide(s) /\ r.active = v[s].active /\ r.lum = v[s].lum /\ r.team = v[s].team
      /\ r.count = g /\ r.state = v[s].state
  BY <1>1, SideOf DEF OneSide
<1> HIDE DEF r
<1>5. Hears(P, s, v[s], r)
  BY <1>3, <1>4 DEF Hears
<1> QED BY <1>2, <1>3, <1>5, PutTame

LEMMA TameRestart ==
  ASSUME NEW P, NEW v, NEW s \in Side, NEW c \in Counter,
         c = "perish_song" => (May(P, s, "sings") /\ ~Active(v, s, c)) \/ May(P, s, "counts")
  PROVE  Tame(P, v, Restart(v, s, c))
<1> DEFINE x == [v EXCEPT ![s].count[c] = 0]
<1>1. Restart(v, s, c) = v \/ (Exists(c) /\ Restart(v, s, c) = x)
  BY DEF Restart
<1>2. Inactive <= 0 /\ 0 <= Duration[c]
  BY DurationNat DEF Inactive
<1>4. c = "perish_song" =>
        May(P, s, "counts") \/ (May(P, s, "sings") /\ v[s].count[c] = Inactive)
  BY DEF Active
<1>3. Exists(c) => Tame(P, v, x)
  <2> DEFINE n == 0
  <2>1. n \in Int /\ n = 0 /\ Inactive <= n /\ n <= Duration[c] /\ x = [v EXCEPT ![s].count[c] = n]
    BY <1>2
  <2> HIDE DEF n, x
  <2> QED BY <2>1, <1>4, TamePutCount
<1> HIDE DEF x
<1> QED BY <1>1, <1>3, TameRefl

LEMMA TameStart ==
  ASSUME NEW P, NEW v, NEW s \in Side, NEW c \in Counter,
         c = "perish_song" => May(P, s, "sings") \/ May(P, s, "counts")
  PROVE  Tame(P, v, Start(v, s, c))
<1>1. Start(v, s, c) = v \/ (~Active(v, s, c) /\ Start(v, s, c) = Restart(v, s, c))
  BY DEF Start
<1> QED BY <1>1, TameRestart, TameRefl

LEMMA TameAdvance ==
  ASSUME NEW P, NEW v, NEW s \in Side, NEW c \in Counter,
         c = "perish_song" => May(P, s, "counts")
  PROVE  Tame(P, v, Advance(v, s, c))
<1> SUFFICES ASSUME v \in World  PROVE Tame(P, v, Advance(v, s, c))
  BY DEF Tame
<1> DEFINE n == v[s].count[c]
           x == [v EXCEPT ![s].count[c] = n + 1]
<1>0. n \in Int /\ Inactive <= n /\ n <= Duration[c] /\ Duration[c] \in Int
  BY SideOf, DurationNat DEF OneSide, Counts, Inactive
<1>4. n # Inactive => Exists(c)
  BY SideOf DEF OneSide, Counts
<1>1. CASE ~Active(v, s, c)
  BY <1>1, TameRefl DEF Advance
<1>2. CASE Active(v, s, c) /\ n = Duration[c]
  <2>1. Advance(v, s, c) = StopCounters(v, s, {c})
    BY <1>2 DEF Advance
  <2>2. c \in Counter \ {"perish_song"} \/ May(P, s, "counts")
    OBVIOUS
  <2>3. "perish_song" \notin {c} \/ May(P, s, "counts")
    BY <2>2
  <2> QED BY <2>1, <2>3, TameStopCounters
<1>3. CASE Active(v, s, c) /\ n # Duration[c]
  <2>1. n + 1 \in Int /\ Inactive <= n + 1 /\ n + 1 <= Duration[c]
    BY <1>0, <1>3 DEF Inactive
  <2>2. Advance(v, s, c) = x
    BY <1>3 DEF Advance
  <2>3. Tame(P, v, x)
    <3> DEFINE k == n + 1
    <3>1. k \in Int /\ Inactive <= k /\ k <= Duration[c]
      BY <2>1
    <3>2. x = [v EXCEPT ![s].count[c] = k]
      OBVIOUS
    <3>3. Exists(c)
      BY <1>3, <1>4 DEF Active
    <3> HIDE DEF k, x, n
    <3> QED BY <3>1, <3>2, <3>3, TamePutCount
  <2> QED BY <2>2, <2>3
<1> QED BY <1>1, <1>2, <1>3

LEMMA ClampedIn ==
  ASSUME NEW n \in Int, NEW low \in Int, NEW high \in Int, low <= high
  PROVE  Clamped(n, low, high) \in low..high
BY DEF Clamped

LEMMA TamePutStages ==
  ASSUME NEW P, NEW v, NEW s \in Side, NEW g \in [Stat -> -6..6],
         NEW x, x = [v EXCEPT ![s].stages = g]
  PROVE  Tame(P, v, x)
<1> SUFFICES ASSUME v \in World  PROVE Tame(P, v, x)
  BY DEF Tame
<1> DEFINE r == [v[s] EXCEPT !.stages = g]
<1>1. r \in OneSide(s) /\ r.active = v[s].active /\ r.lum = v[s].lum /\ r.team = v[s].team
      /\ r.count = v[s].count /\ r.state = v[s].state
  BY SideOf DEF OneSide
<1>2. x = [v EXCEPT ![s] = r]
  BY SideOf
<1> HIDE DEF r
<1> QED BY <1>1, <1>2, PutTame, HearsSame

LEMMA TameBoost ==
  ASSUME NEW P, NEW v, NEW s \in Side, NEW stats, NEW n \in Int
  PROVE  Tame(P, v, Boost(v, s, stats, n))
<1> SUFFICES ASSUME v \in World  PROVE Tame(P, v, Boost(v, s, stats, n))
  BY DEF Tame
<1> DEFINE g == [t \in Stat |-> IF t \in stats THEN Clamped(v[s].stages[t] + n, -6, 6)
                                ELSE v[s].stages[t]]
           x == Boost(v, s, stats, n)
<1>1. v[s].stages \in [Stat -> -6..6]
  BY SideOf DEF OneSide
<1>2. \A t \in Stat : Clamped(v[s].stages[t] + n, -6, 6) \in -6..6
  BY <1>1 DEF Clamped
<1>3. g \in [Stat -> -6..6]
  BY <1>1, <1>2
<1>4. x = [v EXCEPT ![s].stages = g]
  BY DEF Boost
<1> HIDE DEF g, x
<1>5. Tame(P, v, x)
  BY <1>3, <1>4, TamePutStages
<1> QED BY <1>5 DEF x

-----------------------------------------------------------------------------
(* The Pokemon on the field: its item, HP and status *)

LEMMA PutMonThere ==
  ASSUME NEW v \in World, NEW s \in Side, NEW b, NEW x, x = [v EXCEPT ![s].team[v[s].active] = b]
  PROVE  x = [v EXCEPT ![s] = [v[s] EXCEPT !.team = [v[s].team EXCEPT ![v[s].active] = b]]]
BY SideOf

LEMMA PutMonIs ==
  ASSUME NEW v \in World, NEW s \in Side, NEW b
  PROVE  Mon([v EXCEPT ![s].team[v[s].active] = b], s) = b
<1> DEFINE x == [v EXCEPT ![s].team[v[s].active] = b]
           t == [v[s].team EXCEPT ![v[s].active] = b]
           r == [v[s] EXCEPT !.team = t]
<1>1. v[s].active \in Mons(s) /\ v[s].team \in [Mons(s) -> OneMon]
  BY SideOf DEF OneSide
<1>2. t[v[s].active] = b
  BY <1>1
<1>3. x = [v EXCEPT ![s] = r]
  BY SideOf
<1>4. x[s] = r
  BY <1>3 DEF World, Side
<1>5. r.active = v[s].active /\ r.team = t
  BY SideOf DEF OneSide
<1> QED BY <1>2, <1>4, <1>5 DEF Mon

\* The Pokemon on the field is changed, with the state of its status.
LEMMA TamePutActive ==
  ASSUME NEW P, NEW v \in World, NEW s \in Side, NEW b \in OneMon,
         Tamed(P, s, v[s].active, Mon(v, s), b),
         NEW k \in 1..MaxToxic,
         \/ k = v[s].state /\ (b.status = Mon(v, s).status \/ b.status \notin Sleeping)
         \/ b.status \in Sleeping => k \in {Nightmare, NoNightmare},
         NEW t, t = [v[s].team EXCEPT ![v[s].active] = b],
         NEW x, x = [v EXCEPT ![s] = [v[s] EXCEPT !.team = t, !.state = k]]
  PROVE  Tame(P, v, x)
<1> DEFINE r == [v[s] EXCEPT !.team = t, !.state = k]
<1>1. v[s] \in OneSide(s) /\ v[s].active \in Mons(s) /\ v[s].team \in [Mons(s) -> OneMon]
  BY SideOf DEF OneSide
<1>2. t \in [Mons(s) -> OneMon]
  BY <1>1
<1>3. x = [v EXCEPT ![s] = r]
  OBVIOUS
<1>4. r \in OneSide(s) /\ r.active = v[s].active /\ r.lum = v[s].lum /\ r.team = t
      /\ r.count = v[s].count /\ r.state = k
  BY <1>1, <1>2 DEF OneSide
<1> HIDE DEF r
<1>5. x \in World
  BY ONLY <1>3, <1>4, v \in World, s \in Side, PutSide, Zenon
<1>6. x[s] = r /\ \A q \in Side \ {s} : x[q] = v[q]
  BY <1>3 DEF World, Side
<1>7. \A m \in Mons(s) : Tamed(P, s, m, v[s].team[m], x[s].team[m])
  <2> TAKE m \in Mons(s)
  <2>1. CASE m = v[s].active
    BY <2>1, <1>1, <1>4, <1>6 DEF Mon
  <2>2. CASE m # v[s].active
    <3>1. x[s].team[m] = v[s].team[m]
      BY <2>2, <1>1, <1>4, <1>6
    <3> QED BY <3>1, MemberOf, TamedRefl
  <2> QED BY <2>1, <2>2
<1>8. \A q \in Side \ {s} : \A m \in Mons(q) : Tamed(P, q, m, v[q].team[m], x[q].team[m])
  BY <1>6, MemberOf, TamedRefl
<1>12. Follows(P, s, v[s], r)
  <2>1. r.team[r.active] = b
    BY <1>1, <1>4
  <2>2. Sound(v[s]) => Sound(r)
    BY <1>4, <2>1 DEF Sound, Mon
  <2> QED BY <1>4, <2>2 DEF Follows, Recalls
<1>11. \A q \in Side : Hears(P, q, v[q], x[q]) /\ Follows(P, q, v[q], x[q])
  BY <1>4, <1>6, <1>12, HearsSame, FollowsSame
<1>13. x.failed = v.failed
  BY <1>3 DEF World, Side
<1>9. TeamsTame(P, v, x)
  BY <1>7, <1>8, <1>11, <1>13 DEF TeamsTame
<1>10. \A q \in Side : x[q].active = v[q].active /\ x[q].lum = v[q].lum
  BY <1>4, <1>6
<1> QED BY <1>5, <1>9, <1>10 DEF Tame

\* The Pokemon on the field is changed.
LEMMA TamePutMon ==
  ASSUME NEW P, NEW v, NEW s \in Side, NEW b,
         v \in World => /\ b \in OneMon /\ Tamed(P, s, v[s].active, Mon(v, s), b)
                        /\ b.status = Mon(v, s).status \/ b.status \notin Sleeping,
         NEW x, x = [v EXCEPT ![s].team[v[s].active] = b]
  PROVE  Tame(P, v, x)
<1> SUFFICES ASSUME v \in World  PROVE Tame(P, v, x)
  BY DEF Tame
<1> DEFINE t == [v[s].team EXCEPT ![v[s].active] = b]
           k == v[s].state
<1>1. k \in 1..MaxToxic
  BY SideOf DEF OneSide
<1>2. x = [v EXCEPT ![s] = [v[s] EXCEPT !.team = t, !.state = k]]
  <2>1. x = [v EXCEPT ![s] = [v[s] EXCEPT !.team = t]]
    BY PutMonThere
  <2> HIDE DEF t
  <2>2. [v[s] EXCEPT !.team = t] = [v[s] EXCEPT !.team = t, !.state = v[s].state]
    BY SideOf DEF OneSide
  <2> QED BY <2>1, <2>2
<1>3. b \in OneMon /\ Tamed(P, s, v[s].active, Mon(v, s), b)
      /\ (b.status = Mon(v, s).status \/ b.status \notin Sleeping)
  BY Zenon
<1>4. t = [v[s].team EXCEPT ![v[s].active] = b] /\ k = v[s].state
  OBVIOUS
<1> HIDE DEF t, k
<1>5. \/ k = v[s].state /\ (b.status = Mon(v, s).status \/ b.status \notin Sleeping)
      \/ b.status \in Sleeping => k \in {Nightmare, NoNightmare}
  BY <1>3, <1>4
<1> QED BY ONLY <1>1, <1>2, <1>3, <1>4, <1>5, v \in World, s \in Side, TamePutActive, Zenon

LEMMA WithHP ==
  ASSUME NEW a \in OneMon, NEW n \in 0..MaxHP, NEW b, b = [a EXCEPT !.hp = n]
  PROVE  /\ b \in OneMon
         /\ b.hp = n
         /\ b.status = a.status
         /\ b.item = a.item
         /\ b.held = a.held
BY DEF OneMon

LEMMA WithStatus ==
  ASSUME NEW a \in OneMon, NEW st \in Statuses, NEW b, b = [a EXCEPT !.status = st]
  PROVE  /\ b \in OneMon
         /\ b.hp = a.hp
         /\ b.status = st
         /\ b.item = a.item
         /\ b.held = a.held
BY DEF OneMon

LEMMA WithItem ==
  ASSUME NEW a \in OneMon, NEW item \in ItemName, NEW b, b = [a EXCEPT !.item = item]
  PROVE  /\ b \in OneMon
         /\ b.hp = a.hp
         /\ b.status = a.status
         /\ b.item = item
         /\ b.held = a.held
BY DEF OneMon

LEMMA WithHeld ==
  ASSUME NEW a \in OneMon, NEW h \in BOOLEAN, NEW b, b = [a EXCEPT !.held = h]
  PROVE  /\ b \in OneMon
         /\ b.hp = a.hp
         /\ b.status = a.status
         /\ b.item = a.item
         /\ b.held = h
BY DEF OneMon

LEMMA NoItemName == NoItem \in ItemName
<1> DEFINE S == UNION {{Rules.item[s][m] : m \in Mons(s)} : s \in Side}
<1>1. ItemName = S \cup {NoItem}
  BY DEF ItemName
<1> HIDE DEF S
<1> QED BY <1>1

LEMMA HPInt == \A a \in OneMon : a.hp \in Int
BY DEF OneMon

LEMMA TameRemoveItem ==
  ASSUME NEW P, NEW v, NEW s \in Side
  PROVE  Tame(P, v, RemoveItem(v, s))
<1> DEFINE b == [Mon(v, s) EXCEPT !.held = FALSE]
           x == [v EXCEPT ![s].team[v[s].active].held = FALSE]
           f == "unburdened"
<1>1. v \in World => b \in OneMon /\ Tamed(P, s, v[s].active, Mon(v, s), b)
                    /\ b.status = Mon(v, s).status
  <2> SUFFICES ASSUME v \in World
               PROVE  /\ b \in OneMon /\ Tamed(P, s, v[s].active, Mon(v, s), b)
                      /\ b.status = Mon(v, s).status
    OBVIOUS
  <2> DEFINE h == FALSE
  <2>1. Mon(v, s) \in OneMon /\ h \in BOOLEAN /\ b = [Mon(v, s) EXCEPT !.held = h] /\ ~h
    BY MonOf
  <2> HIDE DEF b, h
  <2>2. b \in OneMon /\ b.hp = Mon(v, s).hp /\ b.status = Mon(v, s).status /\ b.held = h
    BY <2>1, WithHeld
  <2> QED BY <2>1, <2>2, HPInt DEF Tamed
<1>2. x = [v EXCEPT ![s].team[v[s].active] = b]
  BY DEF Mon
<1>3. RemoveItem(v, s) \in {v, SetFlag(x, s, f)}
  BY DEF RemoveItem
<1>4. f \in FlagName
  BY DEF FlagName
<1> HIDE DEF b, x, f
<1>5. Tame(P, v, x)
  BY <1>1, <1>2, TamePutMon
<1>6. Tame(P, x, SetFlag(x, s, f))
  BY <1>4, TameSetFlag
<1> QED BY <1>3, <1>5, <1>6, TameRefl, TameTrans

LEMMA TameDestroyItem ==
  ASSUME NEW P, NEW v, NEW s \in Side
  PROVE  Tame(P, v, DestroyItem(v, s))
<1> DEFINE b == [Mon(v, s) EXCEPT !.item = NoItem]
           x == [v EXCEPT ![s].team[v[s].active].item = NoItem]
           f == "unburdened"
<1>1. v \in World => b \in OneMon /\ Tamed(P, s, v[s].active, Mon(v, s), b)
                    /\ b.status = Mon(v, s).status
  <2> SUFFICES ASSUME v \in World
               PROVE  /\ b \in OneMon /\ Tamed(P, s, v[s].active, Mon(v, s), b)
                      /\ b.status = Mon(v, s).status
    OBVIOUS
  <2>1. Mon(v, s) \in OneMon /\ NoItem \in ItemName
    BY MonOf, NoItemName
  <2> HIDE DEF b
  <2>2. b \in OneMon /\ b.hp = Mon(v, s).hp /\ b.status = Mon(v, s).status /\ b.item = NoItem
    BY <2>1, WithItem DEF b
  <2> QED BY <2>1, <2>2, HPInt DEF Tamed
<1>2. x = [v EXCEPT ![s].team[v[s].active] = b]
  BY DEF Mon
<1>3. DestroyItem(v, s) \in {v, SetFlag(x, s, f)}
  BY DEF DestroyItem
<1>4. f \in FlagName
  BY DEF FlagName
<1> HIDE DEF b, x, f
<1>5. Tame(P, v, x)
  BY <1>1, <1>2, TamePutMon
<1>6. Tame(P, x, SetFlag(x, s, f))
  BY <1>4, TameSetFlag
<1> QED BY <1>3, <1>5, <1>6, TameRefl, TameTrans

LEMMA TameRecycleItem ==
  ASSUME NEW P, NEW v, NEW s \in Side, Gets(P, v, s)
  PROVE  Tame(P, v, RecycleItem(v, s))
<1> DEFINE b == [Mon(v, s) EXCEPT !.held = TRUE]
           x == [v EXCEPT ![s].team[v[s].active].held = TRUE]
<1>1. v \in World => b \in OneMon /\ Tamed(P, s, v[s].active, Mon(v, s), b)
                    /\ b.status = Mon(v, s).status
  <2> SUFFICES ASSUME v \in World
               PROVE  /\ b \in OneMon /\ Tamed(P, s, v[s].active, Mon(v, s), b)
                      /\ b.status = Mon(v, s).status
    OBVIOUS
  <2> DEFINE h == TRUE
  <2>1. Mon(v, s) \in OneMon /\ h \in BOOLEAN /\ b = [Mon(v, s) EXCEPT !.held = h]
    BY MonOf
  <2> HIDE DEF b, h
  <2>2. b \in OneMon /\ b.hp = Mon(v, s).hp /\ b.status = Mon(v, s).status
    BY <2>1, WithHeld
  <2> QED BY <2>1, <2>2, HPInt DEF Tamed, Gets
<1>2. x = [v EXCEPT ![s].team[v[s].active] = b]
  BY DEF Mon
<1>3. RecycleItem(v, s) = x
  BY DEF RecycleItem
<1> HIDE DEF b, x
<1> QED BY <1>1, <1>2, <1>3, TamePutMon

LEMMA TameSetItem ==
  ASSUME NEW P, NEW v, NEW s \in Side, Gets(P, v, s), NEW item, v \in World => item \in ItemName
  PROVE  Tame(P, v, SetItem(v, s, item))
<1> SUFFICES ASSUME v \in World  PROVE Tame(P, v, SetItem(v, s, item))
  BY DEF Tame
<1> DEFINE a == v[s].active
           b == [Mon(v, s) EXCEPT !.item = item]
           c == [v EXCEPT ![s].team[v[s].active].item = item]
<1>1. b \in OneMon /\ Tamed(P, s, v[s].active, Mon(v, s), b) /\ b.status = Mon(v, s).status
  <2>1. Mon(v, s) \in OneMon
    BY MonOf
  <2> HIDE DEF b
  <2>2. b \in OneMon /\ b.hp = Mon(v, s).hp /\ b.status = Mon(v, s).status
    BY <2>1, WithItem DEF b
  <2> QED BY <2>1, <2>2, HPInt DEF Tamed, Gets
<1>2. c = [v EXCEPT ![s].team[v[s].active] = b]
  BY DEF Mon
<1>3. SetItem(v, s, item) = [c EXCEPT ![s].team[a].held = TRUE]
  BY DEF SetItem
<1> HIDE DEF b, c
<1>4. Tame(P, v, c)
  BY <1>1, <1>2, TamePutMon
<1>5. c[s].active = a /\ Gets(P, c, s)
  BY <1>4 DEF Tame, Gets
<1> HIDE DEF a
<1>6. SetItem(v, s, item) = RecycleItem(c, s)
  BY <1>3, <1>5 DEF RecycleItem
<1>7. Tame(P, c, RecycleItem(c, s))
  BY <1>5, TameRecycleItem
<1> QED BY <1>4, <1>6, <1>7, TameTrans

LEMMA HeldIn ==
  ASSUME NEW v \in World, NEW s \in Side
  PROVE  Held(v, s) \in ItemName
<1>1. Mon(v, s) \in OneMon
  BY MonOf
<1>2. Mon(v, s).item \in ItemName /\ NoItem \in ItemName
  BY <1>1, NoItemName DEF OneMon
<1> QED BY <1>2 DEF Held

LEMMA TameStealItem ==
  ASSUME NEW P, NEW v, NEW s \in Side, Gets(P, v, s)
  PROVE  Tame(P, v, StealItem(v, s))
<1> SUFFICES ASSUME v \in World  PROVE Tame(P, v, StealItem(v, s))
  BY DEF Tame
<1> DEFINE a == RemoveItem(v, Other(s))
           item == Held(v, Other(s))
           b == SetItem(a, s, item)
<1>1. StealItem(v, s) \in {v, b}
  BY DEF StealItem
<1>2. Tame(P, v, a)
  BY Sides, TameRemoveItem
<1>3. item \in ItemName
  BY Sides, HeldIn
<1> HIDE DEF a, item
<1>4. Gets(P, a, s)
  BY <1>2 DEF Tame, Gets
<1>5. Tame(P, a, b)
  BY <1>3, <1>4, TameSetItem
<1> HIDE DEF b
<1> QED BY <1>1, <1>2, <1>5, TameRefl, TameTrans

LEMMA TameSwapItems ==
  ASSUME NEW P, NEW v, NEW s \in Side, Gets(P, v, s), Gets(P, v, Other(s))
  PROVE  Tame(P, v, SwapItems(v, s))
<1> SUFFICES ASSUME v \in World  PROVE Tame(P, v, SwapItems(v, s))
  BY DEF Tame
<1> DEFINE mine == Held(v, s)
           theirs == Held(v, Other(s))
           a == SetItem(v, s, theirs)
           b == SetItem(a, Other(s), mine)
<1>1. SwapItems(v, s) \in {v, b}
  BY DEF SwapItems
<1>2. mine \in ItemName /\ theirs \in ItemName
  BY Sides, HeldIn
<1> HIDE DEF mine, theirs
<1>3. Tame(P, v, a)
  BY <1>2, TameSetItem
<1> HIDE DEF a
<1>4. Gets(P, a, Other(s))
  BY <1>3, Sides DEF Tame, Gets
<1>5. Tame(P, a, b)
  BY <1>2, <1>4, Sides, TameSetItem
<1> HIDE DEF b
<1> QED BY <1>1, <1>3, <1>5, TameRefl, TameTrans

LEMMA TameMentalHerbCures ==
  ASSUME NEW P, NEW v, NEW s \in Side
  PROVE  Tame(P, v, MentalHerbCures(v, s))
<1> DEFINE a == ClearFlags(v, s, {"attracted"})
           b == ClearFlags(a, s, {"tormented"})
           c == StopCounters(b, s, {"disable", "encore", "taunt"})
<1>1. MentalHerbCures(v, s) \in {a, c}
  BY DEF MentalHerbCures
<1>2. Tame(P, v, a) /\ Tame(P, a, b)
  BY TameClearFlags
<1>3. Tame(P, b, c)
  BY TameStopCounters
<1> HIDE DEF a, b, c
<1> QED BY <1>1, <1>2, <1>3, TameTrans

LEMMA TameApplyOwnMentalHerb ==
  ASSUME NEW P, NEW v, NEW s \in Side
  PROVE  Tame(P, v, ApplyOwnMentalHerb(v, s))
<1> DEFINE a == MentalHerbCures(v, s)
           b == RemoveItem(a, s)
<1>1. ApplyOwnMentalHerb(v, s) \in {v, b}
  BY DEF ApplyOwnMentalHerb
<1>2. Tame(P, v, a)
  BY TameMentalHerbCures
<1>3. Tame(P, a, b)
  BY TameRemoveItem
<1> HIDE DEF a, b
<1> QED BY <1>1, <1>2, <1>3, TameTrans, TameRefl

LEMMA TameConfuse ==
  ASSUME NEW P, NEW v, NEW s \in Side
  PROVE  Tame(P, v, Confuse(v, s))
<1> DEFINE c == "confusion"
<1>1. c \in Counter /\ c # "perish_song"
  BY CounterNames
<1>2. Confuse(v, s) \in {v, RemoveItem(v, s), Start(v, s, c)}
  BY DEF Confuse
<1> HIDE DEF c
<1>3. Tame(P, v, RemoveItem(v, s)) /\ Tame(P, v, Start(v, s, c)) /\ Tame(P, v, v)
  BY <1>1, TameRemoveItem, TameStart, TameRefl
<1> QED BY <1>2, <1>3

LEMMA TameBeAttracted ==
  ASSUME NEW P, NEW v, NEW s \in Side
  PROVE  Tame(P, v, BeAttracted(v, s))
<1> DEFINE f == "attracted"
           a == SetFlag(v, s, f)
           h == CASE Item(v, s) = "mental_herb"  -> ApplyOwnMentalHerb(a, s)
                  [] Item(v, s) = "destiny_knot" -> RemoveItem(a, s)
                  [] OTHER                       -> a
           c == ClearFlags(h, s, {"attracted"})
<1>1. BeAttracted(v, s) \in {h, v, c}
  BY DEF BeAttracted
<1>2. h = ApplyOwnMentalHerb(a, s) \/ h = RemoveItem(a, s) \/ h = a
  <2> HIDE DEF a
  <2> QED OBVIOUS
<1>3. f \in FlagName
  BY DEF FlagName
<1> HIDE DEF h, c, f
<1>4. Tame(P, v, a)
  BY <1>3, TameSetFlag
<1> HIDE DEF a
<1>5. Tame(P, a, h)
  BY <1>2, TameApplyOwnMentalHerb, TameRemoveItem, TameRefl
<1>6. Tame(P, h, c)
  BY TameClearFlags DEF c
<1> QED BY <1>1, <1>4, <1>5, <1>6, TameTrans, TameRefl

LEMMA TameAttract ==
  ASSUME NEW P, NEW v, NEW s \in Side
  PROVE  Tame(P, v, Attract(v, s))
<1> DEFINE a == BeAttracted(v, s)
           b == BeAttracted(a, Other(s))
           c == BeAttracted(b, s)
<1>1. Attract(v, s) \in {a, b, c}
  BY DEF Attract
<1>2. Tame(P, v, a) /\ Tame(P, b, c)
  BY TameBeAttracted
<1>3. Tame(P, a, b)
  BY Sides, TameBeAttracted
<1> HIDE DEF a, b, c
<1> QED BY <1>1, <1>2, <1>3, TameTrans

LEMMA TamePutHP ==
  ASSUME NEW P, NEW v, NEW s \in Side, NEW n,
         v \in World => /\ n \in 0..MaxHP
                        /\ n = 0 \/ Livable(P, v, s)
                        /\ Hurtable(P, v, s) \/ n >= HP(v, s)
  PROVE  Tame(P, v, PutHP(v, s, n))
<1> DEFINE b == [Mon(v, s) EXCEPT !.hp = n]
           x == PutHP(v, s, n)
<1>1. v \in World => b \in OneMon /\ Tamed(P, s, v[s].active, Mon(v, s), b)
                    /\ b.status = Mon(v, s).status
  <2> SUFFICES ASSUME v \in World
               PROVE  /\ b \in OneMon /\ Tamed(P, s, v[s].active, Mon(v, s), b)
                      /\ b.status = Mon(v, s).status
    OBVIOUS
  <2>1. Mon(v, s) \in OneMon /\ n \in 0..MaxHP /\ HP(v, s) = Mon(v, s).hp
    BY MonOf DEF HP
  <2> HIDE DEF b
  <2>2. b \in OneMon /\ b.hp = n /\ b.status = Mon(v, s).status
    BY <2>1, WithHP DEF b
  <2>3. b.item = Mon(v, s).item /\ b.held = Mon(v, s).held
    BY <2>1, WithHP DEF b
  <2>4. n = 0 \/ HP(v, s) # 0 \/ <<s, v[s].active>> \in P[1]
    BY DEF Livable
  <2>5. b.hp < Mon(v, s).hp => <<s, v[s].active>> \in P[4]
    BY <2>1, <2>2, HPInt DEF Hurtable
  <2> QED BY <2>1, <2>2, <2>3, <2>4, <2>5 DEF Tamed
<1>2. x = [v EXCEPT ![s].team[v[s].active] = b]
  BY DEF Mon, PutHP
<1> HIDE DEF b, x
<1>3. Tame(P, v, x)
  BY <1>1, <1>2, TamePutMon
<1> QED BY <1>3 DEF x

LEMMA PutHPThere ==
  ASSUME NEW v \in World, NEW s \in Side, NEW n
  PROVE  HP(PutHP(v, s, n), s) = n
<1> DEFINE b == [Mon(v, s) EXCEPT !.hp = n]
           x == PutHP(v, s, n)
<1>1. b.hp = n
  BY MonOf DEF OneMon
<1>2. x = [v EXCEPT ![s].team[v[s].active] = b]
  BY DEF Mon, PutHP
<1> HIDE DEF b
<1>3. Mon([v EXCEPT ![s].team[v[s].active] = b], s) = b
  BY PutMonIs
<1>4. Mon(x, s) = b
  <2> HIDE DEF x
  <2> QED BY <1>2, <1>3
<1> QED BY <1>1, <1>4 DEF HP

LEMMA HPConstants ==
  /\ MaxHP \in Nat /\ MaxHP >= 16
  /\ MaxHP \div 2 \in Nat /\ MaxHP \div 4 \in Nat /\ MaxHP \div 8 \in Nat /\ MaxHP \div 16 \in Nat
BY MaxHPAssumption

LEMMA PinchItemHealsNat ==
  ASSUME NEW item
  PROVE  PinchItemHeals(item) \in Nat
BY HPConstants DEF PinchItemHeals

LEMMA TameUsePinchItem ==
  ASSUME NEW P, NEW v, NEW s \in Side, NEW item, v \in World => Livable(P, v, s)
  PROVE  Tame(P, v, UsePinchItem(v, s, item))
<1> DEFINE n == Clamped(HP(v, s) + PinchItemHeals(item), 0, MaxHP)
           stats == IF item = "liechi_berry" THEN {"atk"} ELSE {}
           a == PutHP(v, s, n)
           b == Boost(a, s, stats, 1)
           c == RemoveItem(b, s)
           d == Confuse(c, s)
<1>1. UsePinchItem(v, s, item) \in {c, d}
  BY DEF UsePinchItem, ConfusedBy
<1>2. v \in World => n \in 0..MaxHP /\ n >= HP(v, s)
  BY MonOf, HPConstants, PinchItemHealsNat DEF Clamped
<1> HIDE DEF n, stats, a, b, c, d
<1>3. Tame(P, v, a)
  BY <1>2, TamePutHP DEF a
<1>4. Tame(P, a, b)
  BY TameBoost DEF b
<1>5. Tame(P, b, c)
  BY TameRemoveItem DEF c
<1>6. Tame(P, c, d)
  BY TameConfuse DEF d
<1> QED BY <1>1, <1>3, <1>4, <1>5, <1>6, TameTrans

LEMMA TameSetHP ==
  ASSUME NEW P, NEW v, NEW s \in Side, NEW n,
         v \in World => /\ n \in 0..MaxHP
                        /\ n = 0 \/ Livable(P, v, s)
                        /\ Hurtable(P, v, s) \/ n >= HP(v, s)
  PROVE  Tame(P, v, SetHP(v, s, n))
<1> SUFFICES ASSUME v \in World  PROVE Tame(P, v, SetHP(v, s, n))
  BY DEF Tame
<1> DEFINE a == PutHP(v, s, n)
           item == Item(a, s)
           b == UsePinchItem(a, s, item)
<1>1. SetHP(v, s, n) \in {a, b} /\ (n = 0 => SetHP(v, s, n) = a)
  BY DEF SetHP, ActivatePinchItem
<1>2. Tame(P, v, a)
  BY TamePutHP
<1>3. HP(a, s) = n
  BY PutHPThere
<1> HIDE DEF a, item, b
<1>4. n # 0 => Tame(P, a, b)
  BY <1>3, TameUsePinchItem DEF b, Livable
<1> QED BY <1>1, <1>2, <1>4, TameTrans

LEMMA TameChangeHP ==
  ASSUME NEW P, NEW v, NEW s \in Side, NEW change \in Int,
         v \in World => /\ change <= 0 \/ Livable(P, v, s)
                        /\ change >= 0 \/ Hurtable(P, v, s)
  PROVE  Tame(P, v, ChangeHP(v, s, change))
<1> SUFFICES ASSUME v \in World  PROVE Tame(P, v, ChangeHP(v, s, change))
  BY DEF Tame
<1> DEFINE n == Clamped(HP(v, s) + change, 0, MaxHP)
<1>1. HP(v, s) \in 0..MaxHP /\ MaxHP \in Nat
  BY MonOf, HPConstants
<1>2. n \in 0..MaxHP
  BY <1>1 DEF Clamped
<1>3. change >= 0 => n >= HP(v, s)
  BY <1>1 DEF Clamped
<1>4. change <= 0 /\ HP(v, s) = 0 => n = 0
  BY <1>1 DEF Clamped
<1>5. n = 0 \/ Livable(P, v, s)
  BY <1>4 DEF Livable
<1> HIDE DEF n
<1>6. Hurtable(P, v, s) \/ n >= HP(v, s)
  BY <1>3
<1> QED BY <1>2, <1>5, <1>6, TameSetHP DEF ChangeHP, n

LEMMA TameFaint ==
  ASSUME NEW P, NEW v, NEW s \in Side, v \in World => Hurtable(P, v, s)
  PROVE  Tame(P, v, Faint(v, s))
<1>1. 0 \in 0..MaxHP
  BY HPConstants
<1> QED BY <1>1, TameSetHP DEF Faint

LEMMA FaintsHP ==
  ASSUME NEW v \in World, NEW s \in Side
  PROVE  HP(Faint(v, s), s) = 0
<1>1. Faint(v, s) = PutHP(v, s, 0)
  BY DEF Faint, SetHP, ActivatePinchItem
<1> QED BY <1>1, HPConstants, PutHPThere

LEMMA TameHealExactly ==
  ASSUME NEW P, NEW v, NEW s \in Side, NEW n \in Int,
         v \in World => n > 0 \/ Hurtable(P, v, s)
  PROVE  Tame(P, v, HealExactly(v, s, n))
<1> DEFINE change == HealChange(n)
<1>1. change \in Int /\ (n > 0 => change >= 0)
  BY HPConstants DEF HealChange, Clamped
<1>2. HealExactly(v, s, n) = v \/ (HP(v, s) # 0 /\ HealExactly(v, s, n) = ChangeHP(v, s, change))
  BY DEF HealExactly
<1> HIDE DEF change
<1>3. HP(v, s) # 0 => Tame(P, v, ChangeHP(v, s, change))
  BY <1>1, TameChangeHP DEF Livable
<1> QED BY <1>2, <1>3, TameRefl

LEMMA TimesInt == \A a \in Int, b \in Int : a * b \in Int
OBVIOUS

LEMMA DivInt == \A a \in Int, b \in Nat \ {0} : a \div b \in Int
OBVIOUS

\* What is healed is a share of the maximum; a negative one hurts.
LEMMA TameHeal ==
  ASSUME NEW P, NEW v, NEW s \in Side, NEW numerator \in Int, NEW denominator \in Nat \ {0},
         v \in World => Hurtable(P, v, s)
  PROVE  Tame(P, v, Heal(v, s, numerator, denominator))
<1> DEFINE p == MaxHP * numerator
           q == MaxHP * (-numerator)
           n == IF numerator >= 0 THEN p \div denominator ELSE -(q \div denominator)
<1>1. p \in Int /\ q \in Int
  BY HPConstants, TimesInt
<1>2. Heal(v, s, numerator, denominator) = HealExactly(v, s, n)
  BY DEF Heal
<1>3. n \in Int
  <2> HIDE DEF p, q
  <2>1. p \div denominator \in Int /\ q \div denominator \in Int
    BY <1>1, DivInt
  <2> QED BY <2>1
<1> HIDE DEF n
<1> QED BY <1>2, <1>3, TameHealExactly

LEMMA TameIndirectDamage ==
  ASSUME NEW P, NEW v, NEW s \in Side, NEW damage \in Nat, v \in World => Hurtable(P, v, s)
  PROVE  Tame(P, v, IndirectDamage(v, s, damage))
<1> DEFINE change == -damage
           a == ChangeHP(v, s, change)
           f == "damaged"
<1>1. Tame(P, v, a)
  <2>1. change \in Int /\ change <= 0
    OBVIOUS
  <2> HIDE DEF change
  <2> QED BY <2>1, TameChangeHP
<1>2. IndirectDamage(v, s, damage) = SetFlag(a, s, f) /\ f \in FlagName
  BY DEF IndirectDamage, FlagName
<1> HIDE DEF a, f
<1>3. Tame(P, a, SetFlag(a, s, f))
  BY <1>2, TameSetFlag
<1> QED BY <1>1, <1>2, <1>3, TameTrans

-----------------------------------------------------------------------------
(* What changes HP leaves every status.                                    *)

SameStatus(v, x) ==
  v \in World => x \in World /\ \A q \in Side : Status(x, q) = Status(v, q)

LEMMA SameStatusTrans ==
  ASSUME NEW u, NEW v, NEW x, SameStatus(u, v), SameStatus(v, x)
  PROVE  SameStatus(u, x)
BY DEF SameStatus

\* The Pokemon of both teams are left alone.
LEMMA TeamsStatus ==
  ASSUME NEW v \in World, NEW x \in World,
         \A q \in Side : x[q].active = v[q].active /\ x[q].team = v[q].team
  PROVE  SameStatus(v, x)
BY DEF SameStatus, Status, Mon

LEMMA MonStatus ==
  ASSUME NEW v, NEW s \in Side, NEW b, v \in World => b.status = Status(v, s),
         NEW x, x = [v EXCEPT ![s].team[v[s].active] = b], v \in World => x \in World
  PROVE  SameStatus(v, x)
<1> SUFFICES ASSUME v \in World  PROVE SameStatus(v, x)
  BY DEF SameStatus
<1>1. Mon(x, s) = b
  BY PutMonIs
<1>2. \A q \in Side \ {s} : x[q] = v[q]
  <2> DEFINE r == [v[s] EXCEPT !.team = [v[s].team EXCEPT ![v[s].active] = b]]
  <2>1. x = [v EXCEPT ![s] = r]
    BY PutMonThere
  <2> HIDE DEF r
  <2> QED BY <2>1 DEF World, Side
<1> QED BY <1>1, <1>2 DEF SameStatus, Status, Mon

\* Everybody may gain and lose HP.
AnyMon == UNION {{<<s, m>> : m \in Mons(s)} : s \in Side}
Frail == <<AnyMon, {}, {}, AnyMon, {}>>

LEMMA FrailMay ==
  ASSUME NEW v \in World, NEW s \in Side
  PROVE  Livable(Frail, v, s) /\ Hurtable(Frail, v, s)
<1>1. <<s, v[s].active>> \in AnyMon
  BY MonOf DEF AnyMon
<1> QED BY <1>1 DEF Livable, Hurtable, Frail

LEMMA SetFlagStatus ==
  ASSUME NEW v, NEW s \in Side, NEW f \in FlagName
  PROVE  SameStatus(v, SetFlag(v, s, f))
<1> SUFFICES ASSUME v \in World  PROVE SameStatus(v, SetFlag(v, s, f))
  BY DEF SameStatus
<1>1. SetFlag(v, s, f) \in World
  BY TameSetFlag DEF Tame
<1>2. \A q \in Side : /\ SetFlag(v, s, f)[q].active = v[q].active
                      /\ SetFlag(v, s, f)[q].team = v[q].team
  BY DEF SetFlag, World, OneSide, Side
<1> QED BY <1>1, <1>2, TeamsStatus

LEMMA BoostStatus ==
  ASSUME NEW v, NEW s \in Side, NEW stats, NEW n \in Int
  PROVE  SameStatus(v, Boost(v, s, stats, n))
<1> SUFFICES ASSUME v \in World  PROVE SameStatus(v, Boost(v, s, stats, n))
  BY DEF SameStatus
<1> DEFINE x == Boost(v, s, stats, n)
<1>1. x \in World
  BY TameBoost DEF Tame
<1>2. \A q \in Side : x[q].active = v[q].active /\ x[q].team = v[q].team
  BY DEF Boost, World, OneSide, Side
<1> HIDE DEF x
<1>3. SameStatus(v, x)
  BY <1>1, <1>2, TeamsStatus
<1> QED BY <1>3 DEF x

LEMMA RemoveItemStatus ==
  ASSUME NEW v, NEW s \in Side
  PROVE  SameStatus(v, RemoveItem(v, s))
<1> DEFINE b == [Mon(v, s) EXCEPT !.held = FALSE]
           x == [v EXCEPT ![s].team[v[s].active].held = FALSE]
           f == "unburdened"
<1>1. v \in World => b \in OneMon /\ b.status = Status(v, s)
  BY MonOf DEF OneMon, Status
<1>2. x = [v EXCEPT ![s].team[v[s].active] = b]
  BY DEF Mon
<1>3. RemoveItem(v, s) \in {v, SetFlag(x, s, f)}
  BY DEF RemoveItem
<1>4. f \in FlagName
  BY DEF FlagName
<1>5. v \in World => x \in World
  <2> SUFFICES ASSUME v \in World  PROVE x \in World
    OBVIOUS
  <2> DEFINE k == [v[s].team EXCEPT ![v[s].active] = b]
             r == [v[s] EXCEPT !.team = k]
  <2>1. x = [v EXCEPT ![s] = r]
    <3> HIDE DEF b, x
    <3> QED BY <1>2, PutMonThere
  <2>2. k \in [Mons(s) -> OneMon]
    <3> HIDE DEF b
    <3> QED BY <1>1, SideOf DEF OneSide
  <2>3. r \in OneSide(s)
    <3> HIDE DEF k
    <3> QED BY <2>2, SideOf DEF OneSide
  <2> HIDE DEF r, x
  <2> QED BY <2>1, <2>3, PutSide
<1> HIDE DEF b, x, f
<1>6. SameStatus(v, x)
  BY <1>1, <1>2, <1>5, MonStatus
<1>7. SameStatus(x, SetFlag(x, s, f))
  BY <1>4, SetFlagStatus
<1>8. SameStatus(v, v)
  BY DEF SameStatus
<1> QED BY <1>3, <1>6, <1>7, <1>8, SameStatusTrans

LEMMA ConfuseStatus ==
  ASSUME NEW v, NEW s \in Side
  PROVE  SameStatus(v, Confuse(v, s))
<1> SUFFICES ASSUME v \in World  PROVE SameStatus(v, Confuse(v, s))
  BY DEF SameStatus
<1> DEFINE x == Confuse(v, s)
           y == [v EXCEPT ![s].count["confusion"] = 0]
<1>1. x \in {v, RemoveItem(v, s), y}
  BY DEF Confuse, Start, Restart
<1>2. x \in World
  BY TameConfuse DEF Tame
<1>3. \A q \in Side : y[q].active = v[q].active /\ y[q].team = v[q].team
  BY DEF World, OneSide, Side
<1> HIDE DEF x, y
<1>4. x = y => SameStatus(v, x)
  BY <1>2, <1>3, TeamsStatus
<1>5. SameStatus(v, v)
  BY DEF SameStatus
<1> QED BY <1>1, <1>4, <1>5, RemoveItemStatus DEF x

LEMMA PutHPStatus ==
  ASSUME NEW v, NEW s \in Side, NEW n, v \in World => n \in 0..MaxHP
  PROVE  SameStatus(v, PutHP(v, s, n))
<1> DEFINE b == [Mon(v, s) EXCEPT !.hp = n]
           x == PutHP(v, s, n)
<1>1. v \in World => b.status = Status(v, s)
  BY MonOf DEF OneMon, Status
<1>2. x = [v EXCEPT ![s].team[v[s].active] = b]
  BY DEF Mon, PutHP
<1>3. v \in World => x \in World
  BY FrailMay, TamePutHP DEF Tame
<1> HIDE DEF b, x
<1>4. SameStatus(v, x)
  BY <1>1, <1>2, <1>3, MonStatus
<1> QED BY <1>4 DEF x

LEMMA UsePinchItemStatus ==
  ASSUME NEW v, NEW s \in Side, NEW item
  PROVE  SameStatus(v, UsePinchItem(v, s, item))
<1> DEFINE n == Clamped(HP(v, s) + PinchItemHeals(item), 0, MaxHP)
           stats == IF item = "liechi_berry" THEN {"atk"} ELSE {}
           a == PutHP(v, s, n)
           b == Boost(a, s, stats, 1)
           c == RemoveItem(b, s)
           d == Confuse(c, s)
<1>1. UsePinchItem(v, s, item) \in {c, d}
  BY DEF UsePinchItem, ConfusedBy
<1>2. v \in World => n \in 0..MaxHP
  BY MonOf, HPConstants, PinchItemHealsNat DEF Clamped
<1> HIDE DEF n, stats, a, b, c, d
<1>3. SameStatus(v, a)
  BY <1>2, PutHPStatus DEF a
<1>4. SameStatus(a, b)
  BY BoostStatus DEF b
<1>5. SameStatus(b, c)
  BY RemoveItemStatus DEF c
<1>6. SameStatus(c, d)
  BY ConfuseStatus DEF d
<1> QED BY <1>1, <1>3, <1>4, <1>5, <1>6, SameStatusTrans

LEMMA ChangeHPStatus ==
  ASSUME NEW v, NEW s \in Side, NEW change \in Int
  PROVE  SameStatus(v, ChangeHP(v, s, change))
<1> DEFINE n == Clamped(HP(v, s) + change, 0, MaxHP)
           a == PutHP(v, s, n)
           item == Item(a, s)
           b == UsePinchItem(a, s, item)
<1>1. ChangeHP(v, s, change) \in {a, b}
  BY DEF ChangeHP, SetHP, ActivatePinchItem
<1>2. v \in World => n \in 0..MaxHP
  BY MonOf, HPConstants DEF Clamped
<1> HIDE DEF n, item
<1>3. SameStatus(v, a)
  BY <1>2, PutHPStatus
<1> HIDE DEF a
<1>4. SameStatus(a, b)
  BY UsePinchItemStatus
<1> HIDE DEF b
<1> QED BY <1>1, <1>3, <1>4, SameStatusTrans

LEMMA HealExactlyStatus ==
  ASSUME NEW v, NEW s \in Side, NEW n \in Int
  PROVE  SameStatus(v, HealExactly(v, s, n))
<1> DEFINE change == HealChange(n)
<1>1. change \in Int
  BY HPConstants DEF HealChange, Clamped
<1>2. HealExactly(v, s, n) \in {v, ChangeHP(v, s, change)}
  BY DEF HealExactly
<1> HIDE DEF change
<1>3. SameStatus(v, ChangeHP(v, s, change)) /\ SameStatus(v, v)
  BY <1>1, ChangeHPStatus DEF SameStatus
<1> QED BY <1>2, <1>3

-----------------------------------------------------------------------------
(* Status *)

LEMMA HarshHurts ==
  ASSUME NEW P, Harsh(P), NEW v \in World, NEW s \in Side
  PROVE  Hurtable(P, v, s)
BY MonOf DEF Harsh, Hurtable

LEMMA TamePutState ==
  ASSUME NEW P, NEW v, NEW s \in Side, NEW k,
         v \in World => /\ k \in 1..MaxToxic
                        /\ Status(v, s) \in Sleeping => k \in {Nightmare, NoNightmare},
         NEW x, x = [v EXCEPT ![s].state = k]
  PROVE  Tame(P, v, x)
<1> SUFFICES ASSUME v \in World  PROVE Tame(P, v, x)
  BY DEF Tame
<1> DEFINE r == [v[s] EXCEPT !.state = k]
<1>1. r \in OneSide(s) /\ r.active = v[s].active /\ r.lum = v[s].lum /\ r.team = v[s].team
      /\ r.count = v[s].count
  BY SideOf DEF OneSide
<1>3. r.state = k
  BY SideOf DEF OneSide
<1>2. x = [v EXCEPT ![s] = r]
  BY SideOf
<1> HIDE DEF r
<1>4. Sound(r)
  BY <1>1, <1>3 DEF Sound, Status, Mon
<1> QED BY <1>1, <1>2, <1>4, PutTame, HearsSame

LEMMA StateOf ==
  ASSUME NEW v \in World, NEW s \in Side
  PROVE  v[s].state \in 1..MaxToxic
BY SideOf DEF OneSide

LEMMA TamePutStatus ==
  ASSUME NEW P, NEW v, NEW s \in Side, NEW st \in Statuses, Takes(P, v, s, st)
  PROVE  Tame(P, v, PutStatus(v, s, st))
<1> SUFFICES ASSUME v \in World  PROVE Tame(P, v, PutStatus(v, s, st))
  BY DEF Tame
<1> DEFINE b == [Mon(v, s) EXCEPT !.status = st]
           c == [v EXCEPT ![s].team[v[s].active].status = st]
           t == [v[s].team EXCEPT ![v[s].active] = b]
           k == ActiveStatusSet(v[s].state, st)
           x == PutStatus(v, s, st)
<1>1. b \in OneMon /\ Tamed(P, s, v[s].active, Mon(v, s), b)
  <2>1. Mon(v, s) \in OneMon
    BY MonOf
  <2> HIDE DEF b
  <2>2. b \in OneMon /\ b.hp = Mon(v, s).hp /\ b.status = st
    BY <2>1, WithStatus DEF b
  <2>3. b.item = Mon(v, s).item /\ b.held = Mon(v, s).held
    BY <2>1, WithStatus DEF b
  <2> QED BY <2>1, <2>2, <2>3, HPInt DEF Tamed, Takes, Status
<1>2. x = [v EXCEPT ![s] = [v[s] EXCEPT !.team = t, !.state = k]]
  <2>1. c = [v EXCEPT ![s].team[v[s].active] = b]
    BY DEF Mon
  <2> HIDE DEF c
  <2>2. c = [v EXCEPT ![s] = [v[s] EXCEPT !.team = t]]
    BY <2>1, PutMonThere
  <2>3. x = [c EXCEPT ![s].state = ActiveStatusSet(c[s].state, st)]
    BY DEF PutStatus, c
  <2>4. c[s] = [v[s] EXCEPT !.team = t]
    BY <2>2 DEF World, Side
  <2>5. c[s].state = v[s].state
    BY <2>4, SideOf DEF OneSide
  <2> HIDE DEF x, t, b
  <2>6. x = [c EXCEPT ![s].state = k]
    BY <2>3, <2>5
  <2> HIDE DEF k
  <2> QED BY <2>2, <2>4, <2>6 DEF World, Side
<1>3. k \in 1..MaxToxic
  BY StateOf DEF ActiveStatusSet, MaxToxic, NoNightmare
<1>4. b.status \in Sleeping => k \in {Nightmare, NoNightmare}
  <2>1. b.status = st
    BY MonOf DEF OneMon
  <2> QED BY <2>1 DEF ActiveStatusSet
<1>5. t = [v[s].team EXCEPT ![v[s].active] = b]
  OBVIOUS
<1> HIDE DEF b, c, t, k
<1>6. Tame(P, v, x)
  BY <1>1, <1>2, <1>3, <1>4, <1>5, TamePutActive
<1> QED BY <1>6 DEF x

LEMMA PutStatusSound ==
  ASSUME NEW v \in World, NEW s \in Side, NEW st \in Statuses
  PROVE  Sound(PutStatus(v, s, st)[s])
<1> DEFINE x == PutStatus(v, s, st)
           k == ActiveStatusSet(v[s].state, st)
           c == [v EXCEPT ![s].team[v[s].active].status = st]
<1>1. x[s].team[x[s].active].status = st
  BY SideOf DEF PutStatus, World, Side, OneSide, OneMon
<1>2. x[s].state = k
  BY SideOf DEF PutStatus, World, Side, OneSide
<1> HIDE DEF x
<1> QED BY <1>1, <1>2 DEF Sound, ActiveStatusSet, x

LEMMA TameClearStatus ==
  ASSUME NEW P, NEW v, NEW s \in Side
  PROVE  Tame(P, v, ClearStatus(v, s))
<1>1. Clear \in Statuses /\ Takes(P, v, s, Clear)
  BY DEF Statuses, Takes, Clear
<1> QED BY <1>1, TamePutStatus DEF ClearStatus

LEMMA TameSetStatus ==
  ASSUME NEW P, NEW v, NEW s \in Side, NEW st \in Statuses, Takes(P, v, s, st)
  PROVE  Tame(P, v, SetStatus(v, s, st))
<1> DEFINE a == ClearStatus(v, s)
           b == RemoveItem(a, s)
           c == PutStatus(v, s, st)
<1>1. SetStatus(v, s, st) \in {b, c}
  BY DEF SetStatus
<1>2. Tame(P, v, a) /\ Tame(P, v, c)
  BY TameClearStatus, TamePutStatus
<1>3. Tame(P, a, b)
  BY TameRemoveItem
<1> HIDE DEF a, b, c
<1> QED BY <1>1, <1>2, <1>3, TameTrans

LEMMA TameGiveNightmares ==
  ASSUME NEW P, NEW v, NEW s \in Side
  PROVE  Tame(P, v, GiveNightmares(v, s))
<1> DEFINE x == [v EXCEPT ![s].state = Nightmare]
<1>1. GiveNightmares(v, s) \in {v, x} /\ Nightmare \in 1..MaxToxic
  BY DEF GiveNightmares, Nightmare, MaxToxic
<1> DEFINE k == Nightmare
<1>2. k \in 1..MaxToxic /\ k \in {Nightmare, NoNightmare} /\ x = [v EXCEPT ![s].state = k]
  BY <1>1
<1> HIDE DEF x, k
<1>3. Tame(P, v, x)
  BY <1>2, TamePutState
<1> QED BY <1>1, <1>3, TameRefl

LEMMA TameRest ==
  ASSUME NEW P, NEW v, NEW s \in Side, v \in World => Livable(P, v, s)
  PROVE  Tame(P, v, Rest(v, s))
<1> DEFINE a == PutHP(v, s, MaxHP)
           st == "rest"
           b == SetStatus(a, s, st)
<1>1. Rest(v, s) \in {v, b}
  BY DEF Rest
<1>2. v \in World => MaxHP \in 0..MaxHP /\ MaxHP >= HP(v, s)
  BY MonOf, HPConstants
<1>3. Tame(P, v, a)
  BY <1>2, TamePutHP
<1>4. st \in Statuses /\ Takes(P, a, s, st)
  BY DEF Statuses, Sleeping, Takes
<1> HIDE DEF a, b, st
<1>5. Tame(P, a, b)
  BY <1>4, TameSetStatus DEF b
<1> QED BY <1>1, <1>3, <1>5, TameRefl, TameTrans

LEMMA TameLeechDrains ==
  ASSUME NEW P, Harsh(P), NEW v, NEW s \in Side, NEW drained \in Int, NEW oozes
  PROVE  Tame(P, v, LeechDrains(v, s, drained, oozes))
<1> SUFFICES ASSUME v \in World  PROVE Tame(P, v, LeechDrains(v, s, drained, oozes))
  BY DEF Tame
<1> DEFINE change == IF Item(v, s) = "big_root" THEN (drained * 13) \div 10 ELSE drained
           c == IF oozes THEN -change ELSE change
           t == Other(s)
<1>1. change \in Int
  OBVIOUS
<1> HIDE DEF change
<1>2. c \in Int
  BY <1>1
<1>3. LeechDrains(v, s, drained, oozes) = v
        \/ (HP(v, t) # 0 /\ LeechDrains(v, s, drained, oozes) = ChangeHP(v, t, c))
  BY DEF LeechDrains, change
<1>4. t \in Side
  BY Sides
<1> HIDE DEF c, t
<1>5. HP(v, t) # 0 => Tame(P, v, ChangeHP(v, t, c))
  BY <1>2, <1>4, HarshHurts, TameChangeHP DEF Livable
<1> QED BY <1>3, <1>5, TameRefl

LEMMA TameLeechSeed ==
  ASSUME NEW P, Harsh(P), NEW v, NEW s \in Side
  PROVE  Tame(P, v, LeechSeed(v, s))
<1> SUFFICES ASSUME v \in World  PROVE Tame(P, v, LeechSeed(v, s))
  BY DEF Tame
<1> DEFINE a == Heal(v, s, -1, 8)
           drained == HP(v, s) - HP(a, s)
           oozes == Ability(v, s) = "liquid_ooze"
           b == LeechDrains(a, s, drained, oozes)
<1>1. LeechSeed(v, s) \in {v, b}
  BY DEF LeechSeed, LeechFrom
<1>2. Tame(P, v, a)
  BY HarshHurts, TameHeal
<1> HIDE DEF a
<1>3. drained \in Int
  BY <1>2, MonOf DEF Tame
<1> HIDE DEF drained, oozes
<1>4. Tame(P, a, b)
  BY <1>3, TameLeechDrains
<1> HIDE DEF b
<1> QED BY <1>1, <1>2, <1>4, TameRefl, TameTrans

LEMMA TameBurn ==
  ASSUME NEW P, Harsh(P), NEW v, NEW s \in Side
  PROVE  Tame(P, v, Burn(v, s))
<1> DEFINE n == IF Rules.generation = 1 \/ Rules.generation >= 7 THEN -1 ELSE -2
<1>1. n \in Int /\ 16 \in Nat \ {0}
  OBVIOUS
<1>2. Burn(v, s) = Heal(v, s, n, 16)
  BY DEF Burn
<1> HIDE DEF n
<1> QED BY <1>1, <1>2, HarshHurts, TameHeal

LEMMA TamePoison ==
  ASSUME NEW P, Harsh(P), NEW v, NEW s \in Side
  PROVE  Tame(P, v, Poison(v, s))
<1> DEFINE n == IF Ability(v, s) = "poison_heal" THEN 1 ELSE -1
<1>1. n \in Int /\ -1 \in Int /\ 8 \in Nat \ {0} /\ 16 \in Nat \ {0}
  OBVIOUS
<1>2. Poison(v, s) \in {Heal(v, s, n, 8), Heal(v, s, -1, 16)}
  BY DEF Poison
<1> HIDE DEF n
<1>3. Tame(P, v, Heal(v, s, n, 8)) /\ Tame(P, v, Heal(v, s, -1, 16))
  BY <1>1, HarshHurts, TameHeal
<1> QED BY <1>2, <1>3

LEMMA LeechSeedStatus ==
  ASSUME NEW v, NEW s \in Side
  PROVE  SameStatus(v, LeechSeed(v, s))
<1> SUFFICES ASSUME v \in World  PROVE SameStatus(v, LeechSeed(v, s))
  BY DEF SameStatus
<1> DEFINE p == MaxHP * 1
           n == -(p \div 8)
           a == Heal(v, s, -1, 8)
           t == Other(s)
           drained == HP(v, s) - HP(a, s)
           change == IF Item(a, s) = "big_root" THEN (drained * 13) \div 10 ELSE drained
           c == IF Ability(v, s) = "liquid_ooze" THEN -change ELSE change
           b == ChangeHP(a, t, c)
<1>1. LeechSeed(v, s) \in {v, a, b}
  BY DEF LeechSeed, LeechFrom, LeechDrains
<1>2. a = HealExactly(v, s, n)
  BY DEF Heal
<1>3. n \in Int
  BY HPConstants
<1> HIDE DEF a, n
<1>4. SameStatus(v, a)
  BY <1>2, <1>3, HealExactlyStatus
<1>5. drained \in Int
  BY <1>4, MonOf DEF SameStatus
<1> HIDE DEF drained
<1>6. change \in Int
  BY <1>5
<1> HIDE DEF change
<1>7. c \in Int /\ t \in Side
  BY <1>6, Sides
<1> HIDE DEF c, t
<1>8. SameStatus(a, b)
  BY <1>7, ChangeHPStatus
<1> HIDE DEF b
<1>9. SameStatus(v, v)
  BY DEF SameStatus
<1> QED BY <1>1, <1>4, <1>8, <1>9, SameStatusTrans

LEMMA TameToxic ==
  ASSUME NEW P, Harsh(P), NEW v, NEW s \in Side, v \in World => Status(v, s) \notin Sleeping
  PROVE  Tame(P, v, Toxic(v, s))
<1> SUFFICES ASSUME v \in World  PROVE Tame(P, v, Toxic(v, s))
  BY DEF Tame
<1> DEFINE damage == v[s].state * (MaxHP \div 16)
           n == IF Ability(v, s) = "poison_heal" THEN MaxHP \div 8 ELSE -damage
           a == HealExactly(v, s, n)
           k == Clamped(a[s].state + 1, 1, MaxToxic)
           x == [a EXCEPT ![s].state = k]
<1>1. Toxic(v, s) = x
  BY DEF Toxic
<1>2. n \in Int
  <2>1. v[s].state \in Int /\ MaxHP \div 16 \in Int /\ MaxHP \div 8 \in Int
    BY StateOf, HPConstants
  <2>2. damage \in Int
    BY <2>1, TimesInt
  <2> HIDE DEF damage
  <2> QED BY <2>1, <2>2
<1> HIDE DEF n
<1>3. Tame(P, v, a)
  BY <1>2, HarshHurts, TameHealExactly
<1>7. SameStatus(v, a)
  BY <1>2, HealExactlyStatus
<1> HIDE DEF a
<1>4. a \in World => k \in 1..MaxToxic
  BY StateOf DEF Clamped, MaxToxic
<1>6. a \in World => Status(a, s) \notin Sleeping
  BY <1>7 DEF SameStatus
<1> HIDE DEF a, k
<1>5. Tame(P, a, x)
  BY <1>4, <1>6, TamePutState
<1> HIDE DEF x
<1> QED BY <1>1, <1>3, <1>5, TameTrans

LEMMA TameSleep ==
  ASSUME NEW P, Harsh(P), NEW v, NEW s \in Side, NEW uproar,
         v \in World => v[s].state \in {Nightmare, NoNightmare} \/ MayFail(P)
  PROVE  Tame(P, v, Sleep(v, s, uproar))
<1> DEFINE holds == v[s].state \in {Nightmare, NoNightmare}
           a == Asserted(v, holds)
           b == ClearStatus(a, s)
           c == NightmareHurts(a, s)
           d == BadDreams(c, s)
<1>1. Dreams(v, s) = a /\ Sleep(v, s, uproar) \in {b, d}
  BY DEF Sleep, Dreams
<1>8. v \in World => holds \/ MayFail(P)
  OBVIOUS
<1> HIDE DEF holds
<1>2. Tame(P, v, a) /\ Tame(P, a, b)
  BY <1>8, TameAsserted, TameClearStatus
<1>3. c \in {a, Heal(a, s, -1, 4)}
  BY DEF NightmareHurts
<1> HIDE DEF a
<1>9. a \in World => Hurtable(P, a, s)
  BY HarshHurts
<1>4. Tame(P, a, Heal(a, s, -1, 4))
  BY <1>9, TameHeal
<1>5. Tame(P, a, c)
  BY <1>3, <1>4, TameRefl
<1> HIDE DEF b, c
<1>6. d \in {c, Heal(c, s, -1, 8)}
  BY DEF BadDreams
<1>10. c \in World => Hurtable(P, c, s)
  BY HarshHurts
<1>7. Tame(P, c, Heal(c, s, -1, 8))
  <2>1. -1 \in Int /\ 8 \in Nat \ {0}
    OBVIOUS
  <2> QED BY ONLY <1>10, <2>1, s \in Side, TameHeal, Zenon
<1> HIDE DEF d
<1> QED BY <1>1, <1>2, <1>5, <1>6, <1>7, TameTrans

LEMMA TameStatusEffect ==
  ASSUME NEW P, Harsh(P), NEW v, NEW s \in Side, NEW st, NEW uproar,
         v \in World => st = Status(v, s) /\ Steady(P, v)
  PROVE  Tame(P, v, StatusEffect(v, s, st, uproar))
<1>1. \/ StatusEffect(v, s, st, uproar) \in {Burn(v, s), Poison(v, s), v}
      \/ st \notin Sleeping /\ StatusEffect(v, s, st, uproar) = Toxic(v, s)
      \/ st \in Sleeping /\ StatusEffect(v, s, st, uproar) = Sleep(v, s, uproar)
  BY DEF StatusEffect, Sleeping
<1>2. st \notin Sleeping => Tame(P, v, Toxic(v, s))
  BY TameToxic
<1>3. st \in Sleeping => Tame(P, v, Sleep(v, s, uproar))
  BY TameSleep DEF Steady, Sound, Status, Mon
<1> QED BY <1>1, <1>2, <1>3, TameBurn, TamePoison, TameRefl

LEMMA TameStatusAndLeechSeedEffects ==
  ASSUME NEW P, Harsh(P), NEW v, NEW s \in Side, NEW uproar,
         v \in World => Steady(P, v)
  PROVE  Tame(P, v, StatusAndLeechSeedEffects(v, s, uproar))
<1> DEFINE st == Status(v, s)
           loud == Rules.generation >= 3 /\ uproar
           quiet == FALSE
           a == LeechSeed(v, s)
           b == StatusEffect(a, s, st, loud)
           c == StatusEffect(v, s, st, quiet)
           d == LeechSeed(c, s)
<1>1. StatusAndLeechSeedEffects(v, s, uproar) \in {b, d}
  BY DEF StatusAndLeechSeedEffects, SeedThenStatus
<1>2. Tame(P, v, a) /\ Tame(P, c, d)
  BY TameLeechSeed
<1>4. SameStatus(v, a)
  BY LeechSeedStatus
<1> HIDE DEF a
<1>5. v \in World => /\ a \in World
                     /\ st = Status(a, s)
                     /\ Steady(P, a)
  BY <1>2, <1>4, TameSteady DEF SameStatus
<1>6. st = Status(v, s)
  OBVIOUS
<1> HIDE DEF st, loud, quiet
<1>3. v \in World => Tame(P, a, b) /\ Tame(P, v, c)
  BY <1>5, <1>6, TameStatusEffect
<1> HIDE DEF a, b, c, d
<1>7. v \in World => Tame(P, v, StatusAndLeechSeedEffects(v, s, uproar))
  BY <1>1, <1>2, <1>3, TameTrans
<1> QED BY <1>7 DEF Tame

LEMMA TameHandleCurse ==
  ASSUME NEW P, Harsh(P), NEW v, NEW s \in Side
  PROVE  Tame(P, v, HandleCurse(v, s))
<1>1. HandleCurse(v, s) \in {v, Heal(v, s, -1, 4)}
  BY DEF HandleCurse
<1>2. v \in World => Hurtable(P, v, s)
  BY HarshHurts
<1>3. -1 \in Int /\ 4 \in Nat \ {0}
  OBVIOUS
<1>4. Tame(P, v, Heal(v, s, -1, 4))
  BY <1>2, <1>3, TameHeal
<1> QED BY <1>1, <1>4, TameRefl

LEMMA TameEndOfAttack ==
  ASSUME NEW P, Harsh(P), NEW v, NEW s \in Side, v \in World => Steady(P, v)
  PROVE  Tame(P, v, EndOfAttack(v, s))
<1> DEFINE quiet == FALSE
           a == StatusAndLeechSeedEffects(v, s, quiet)
           b == HandleCurse(a, s)
<1>1. EndOfAttack(v, s) \in {v, b}
  BY DEF EndOfAttack
<1> HIDE DEF quiet
<1>2. Tame(P, v, a)
  BY TameStatusAndLeechSeedEffects
<1>3. Tame(P, a, b)
  BY TameHandleCurse
<1> HIDE DEF a, b
<1> QED BY <1>1, <1>2, <1>3, TameRefl, TameTrans

-----------------------------------------------------------------------------
(* Damage by a move, and Substitute *)

LEMMA TamePutSubstitute ==
  ASSUME NEW P, NEW v, NEW s \in Side, NEW k, v \in World => k \in 0..(MaxHP \div 4 + 1),
         NEW x, x = [v EXCEPT ![s].substitute = k]
  PROVE  Tame(P, v, x)
<1> SUFFICES ASSUME v \in World  PROVE Tame(P, v, x)
  BY DEF Tame
<1> DEFINE r == [v[s] EXCEPT !.substitute = k]
<1>1. r \in OneSide(s) /\ r.active = v[s].active /\ r.lum = v[s].lum /\ r.team = v[s].team
      /\ r.count = v[s].count /\ r.state = v[s].state
  BY SideOf DEF OneSide
<1>2. x = [v EXCEPT ![s] = r]
  BY SideOf
<1> HIDE DEF r
<1> QED BY <1>1, <1>2, PutTame, HearsSame

LEMMA TameUseSubstitute ==
  ASSUME NEW P, Harsh(P), NEW v, NEW s \in Side
  PROVE  Tame(P, v, UseSubstitute(v, s))
<1> DEFINE quarter == MaxHP \div 4
           bonus == IF Rules.generation = 1 THEN 1 ELSE 0
           k == quarter + bonus
           a == [v EXCEPT ![s].substitute = k]
           b == IndirectDamage(a, s, quarter)
<1>1. UseSubstitute(v, s) \in {v, b}
  BY DEF UseSubstitute
<1>2. quarter \in Nat /\ k \in 0..(MaxHP \div 4 + 1)
  BY HPConstants
<1> HIDE DEF quarter, bonus, k
<1>3. Tame(P, v, a)
  BY <1>2, TamePutSubstitute
<1> HIDE DEF a
<1>4. a \in World => Hurtable(P, a, s)
  BY HarshHurts
<1>5. Tame(P, a, b)
  BY <1>2, <1>4, TameIndirectDamage
<1> HIDE DEF b
<1> QED BY <1>1, <1>3, <1>5, TameRefl, TameTrans

\* Nobody without HP survives a hit, for who has fainted does not endure.
LEMMA AppliedDamageNat ==
  ASSUME NEW v \in World, NEW s \in Side, NEW damage \in Nat,
         HP(v, s) = 0 => ~IsEnduring(v[s].lum)
  PROVE  AppliedDamage(v, s, damage).damage \in Nat
<1> DEFINE full == HP(v, s) = MaxHP
           endures == \/ IsEnduring(v[s].lum)
                      \/ full /\ Rules.generation >= 5 /\ Ability(v, s) = "sturdy"
           sash == ~endures /\ full /\ Item(v, s) = "focus_sash"
           survives == HP(v, s) <= damage /\ (endures \/ sash)
<1>1. AppliedDamage(v, s, damage).damage
        = IF survives THEN HP(v, s) - 1 ELSE Clamped(damage, 0, HP(v, s))
  BY DEF AppliedDamage
<1>2. HP(v, s) \in 0..MaxHP /\ MaxHP \in Nat /\ MaxHP # 0
  BY MonOf, HPConstants
<1>3. survives => HP(v, s) # 0
  BY <1>2
<1>4. Clamped(damage, 0, HP(v, s)) \in Nat
  BY <1>2 DEF Clamped
<1> HIDE DEF survives
<1> QED BY <1>1, <1>2, <1>3, <1>4

LEMMA TameDirectDamage ==
  ASSUME NEW P, Harsh(P), NEW v \in World, NEW s \in Side, NEW m, NEW damage \in Nat,
         HP(v, s) = 0 => ~IsEnduring(v[s].lum)
  PROVE  /\ Tame(P, v, DirectDamage(v, s, m, damage).world)
         /\ DirectDamage(v, s, m, damage).done \in Nat
<1> DEFINE applied == AppliedDamage(v, s, damage)
           d == applied.damage
           hurt == IndirectDamage(v, s, d)
           lost == RemoveItem(hurt, s)
           used == IF applied.consumes THEN lost ELSE hurt
           both == Faint(used, Other(s))
           left == v[s].substitute
           k == Clamped(damage, 0, left)
           j == Clamped(left - damage, 0, left)
           shed == [v EXCEPT ![s].substitute = j]
           x == DirectDamage(v, s, m, damage)
<1>1. \/ x.world = shed /\ x.done = k
      \/ x.world \in {both, used} /\ x.done = d
  BY DEF DirectDamage
<1>2. left \in 0..(MaxHP \div 4 + 1)
  BY SideOf DEF OneSide
<1>3. j \in 0..(MaxHP \div 4 + 1) /\ k \in Nat
  <2> HIDE DEF left
  <2>1. left \in Nat /\ left <= MaxHP \div 4 + 1 /\ MaxHP \div 4 + 1 \in Nat
    BY <1>2, HPConstants
  <2>2. Clamped(left - damage, 0, left) \in 0..left /\ Clamped(damage, 0, left) \in 0..left
    BY <2>1 DEF Clamped
  <2> QED BY <2>1, <2>2
<1>4. d \in Nat
  BY AppliedDamageNat
<1> HIDE DEF x, j, k, d, left
<1>5. Tame(P, v, shed)
  BY <1>3, TamePutSubstitute
<1>6. Tame(P, v, hurt)
  BY <1>4, HarshHurts, TameIndirectDamage
<1> HIDE DEF hurt, shed, applied
<1>7. Tame(P, hurt, lost)
  BY TameRemoveItem
<1> HIDE DEF lost
<1>8. Tame(P, v, used)
  BY <1>6, <1>7, TameTrans
<1> HIDE DEF used
<1>9. used \in World => Hurtable(P, used, Other(s))
  BY HarshHurts, Sides
<1>10. Tame(P, used, both)
  BY <1>9, Sides, TameFaint
<1> HIDE DEF both
<1>11. Tame(P, v, both)
  BY <1>8, <1>10, TameTrans
<1> QED BY <1>1, <1>3, <1>4, <1>5, <1>8, <1>11 DEF x

-----------------------------------------------------------------------------
(* What moves and turns do to the Pokemon *)

LEMMA TameMinimize ==
  ASSUME NEW P, NEW v, NEW s \in Side
  PROVE  Tame(P, v, Minimize(v, s))
<1> DEFINE f == "minimized"
           a == SetFlag(v, s, f)
           n == IF Rules.generation <= 4 THEN 1 ELSE 2
           b == Boost(a, s, {"eva"}, n)
<1>1. Minimize(v, s) = b /\ f \in FlagName /\ n \in Int
  BY DEF Minimize, FlagName
<1> HIDE DEF f, n
<1>2. Tame(P, v, a)
  BY <1>1, TameSetFlag
<1>3. Tame(P, a, b)
  BY <1>1, TameBoost
<1> HIDE DEF a, b
<1> QED BY <1>1, <1>2, <1>3, TameTrans

LEMMA TameDisable ==
  ASSUME NEW P, NEW v, NEW s \in Side, NEW m \in Move
  PROVE  Tame(P, v, Disable(v, s, m))
<1> DEFINE r == [v[s] EXCEPT !.disabled = m]
           a == [v EXCEPT ![s].disabled = m]
           c == "disable"
           b == Start(a, s, c)
           d == ApplyOwnMentalHerb(b, s)
<1>1. Tame(P, v, a)
  <2> SUFFICES ASSUME v \in World  PROVE Tame(P, v, a)
    BY DEF Tame
  <2>1. r \in OneSide(s) /\ r.active = v[s].active /\ r.lum = v[s].lum /\ r.team = v[s].team
      /\ r.count = v[s].count /\ r.state = v[s].state
    BY SideOf DEF OneSide
  <2>2. a = [v EXCEPT ![s] = r]
    BY SideOf
  <2> HIDE DEF r, a
  <2> QED BY <2>1, <2>2, PutTame, HearsSame
<1>2. Disable(v, s, m) = d /\ c \in Counter /\ c # "perish_song"
  BY CounterNames DEF Disable
<1> HIDE DEF a, c
<1>3. Tame(P, a, b)
  BY <1>2, TameStart
<1> HIDE DEF b
<1>4. Tame(P, b, d)
  BY TameApplyOwnMentalHerb
<1> HIDE DEF d
<1> QED BY <1>1, <1>2, <1>3, <1>4, TameTrans

LEMMA TamePutStockpile ==
  ASSUME NEW P, NEW v, NEW s \in Side, NEW k, v \in World => k \in 0..3,
         NEW x, x = [v EXCEPT ![s].stockpile = k]
  PROVE  Tame(P, v, x)
<1> SUFFICES ASSUME v \in World  PROVE Tame(P, v, x)
  BY DEF Tame
<1> DEFINE r == [v[s] EXCEPT !.stockpile = k]
<1>1. r \in OneSide(s) /\ r.active = v[s].active /\ r.lum = v[s].lum /\ r.team = v[s].team
      /\ r.count = v[s].count /\ r.state = v[s].state
  BY SideOf DEF OneSide
<1>2. x = [v EXCEPT ![s] = r]
  BY SideOf
<1> HIDE DEF r
<1> QED BY <1>1, <1>2, PutTame, HearsSame

LEMMA StockpileOf ==
  ASSUME NEW v \in World, NEW s \in Side
  PROVE  v[s].stockpile \in 0..3
BY SideOf DEF OneSide

LEMMA TameIncrementStockpile ==
  ASSUME NEW P, NEW v, NEW s \in Side
  PROVE  Tame(P, v, IncrementStockpile(v, s))
<1> SUFFICES ASSUME v \in World  PROVE Tame(P, v, IncrementStockpile(v, s))
  BY DEF Tame
<1> DEFINE k == v[s].stockpile + 1
           x == [v EXCEPT ![s].stockpile = k]
           a == Boost(v, s, {"def", "spd"}, 1)
<1>1. \/ IncrementStockpile(v, s) \in {v, a}
      \/ IncrementStockpile(v, s) = x /\ v[s].stockpile # 3
  BY DEF IncrementStockpile
<1>2. v[s].stockpile # 3 => k \in 0..3
  BY StockpileOf
<1> HIDE DEF k
<1>3. v[s].stockpile # 3 => Tame(P, v, x)
  BY <1>2, TamePutStockpile
<1>4. Tame(P, v, a)
  BY TameBoost
<1> HIDE DEF a, x
<1> QED BY <1>1, <1>3, <1>4, TameRefl

LEMMA TameReleaseStockpile ==
  ASSUME NEW P, NEW v, NEW s \in Side
  PROVE  Tame(P, v, ReleaseStockpile(v, s))
<1> SUFFICES ASSUME v \in World  PROVE Tame(P, v, ReleaseStockpile(v, s))
  BY DEF Tame
<1> DEFINE n == -v[s].stockpile
           a == Boost(v, s, {"def", "spd"}, n)
           k == 0
           x == [a EXCEPT ![s].stockpile = k]
<1>1. ReleaseStockpile(v, s) = x
  BY DEF ReleaseStockpile
<1>2. n \in Int /\ k \in 0..3
  BY StockpileOf
<1> HIDE DEF n, k
<1>3. Tame(P, v, a)
  BY <1>2, TameBoost
<1> HIDE DEF a
<1>4. Tame(P, a, x)
  BY <1>2, TamePutStockpile
<1> HIDE DEF x
<1> QED BY <1>1, <1>3, <1>4, TameTrans

LEMMA TameBerserkGene ==
  ASSUME NEW P, NEW v, NEW s \in Side
  PROVE  Tame(P, v, BerserkGene(v, s))
<1> DEFINE a == Boost(v, s, {"atk"}, 2)
           b == Confuse(a, s)
           c == RemoveItem(b, s)
<1>1. Tame(P, v, a)
  BY TameBoost
<1>2. Tame(P, a, b)
  BY TameConfuse
<1>3. Tame(P, b, c) /\ BerserkGene(v, s) = c
  BY TameRemoveItem DEF BerserkGene
<1> HIDE DEF a, b, c
<1> QED BY <1>1, <1>2, <1>3, TameTrans

LEMMA TamePartialTrapDamage ==
  ASSUME NEW P, Harsh(P), NEW v, NEW s \in Side
  PROVE  Tame(P, v, PartialTrapDamage(v, s))
<1> DEFINE d == IF Rules.generation <= 5 THEN 16 ELSE 8
           c == "partial_trap"
           a == Heal(v, s, -1, d)
           b == Advance(a, s, c)
<1>1. PartialTrapDamage(v, s) \in {v, b}
  BY DEF PartialTrapDamage
<1>2. d \in Nat \ {0} /\ -1 \in Int /\ c \in Counter /\ c # "perish_song"
  BY CounterNames
<1> HIDE DEF d, c
<1>3. v \in World => Hurtable(P, v, s)
  BY HarshHurts
<1>4. Tame(P, v, a)
  BY <1>2, <1>3, TameHeal
<1>5. Tame(P, a, b)
  BY <1>2, TameAdvance
<1> HIDE DEF a, b
<1> QED BY <1>1, <1>4, <1>5, TameRefl, TameTrans

LEMMA TamePerishSongTurn ==
  ASSUME NEW P, Harsh(P), NEW v, NEW s \in Side, May(P, s, "counts")
  PROVE  Tame(P, v, PerishSongTurn(v, s))
<1> DEFINE c == "perish_song"
           a == Advance(v, s, c)
           b == Faint(a, s)
<1>1. PerishSongTurn(v, s) \in {a, b}
  BY DEF PerishSongTurn
<1>2. c \in Counter
  BY CounterNames
<1> HIDE DEF c
<1>3. Tame(P, v, a)
  BY <1>2, TameAdvance
<1> HIDE DEF a
<1>4. a \in World => Hurtable(P, a, s)
  BY HarshHurts
<1>5. Tame(P, a, b)
  BY <1>4, TameFaint
<1> HIDE DEF b
<1> QED BY <1>1, <1>3, <1>5, TameTrans

LEMMA TameClearField ==
  ASSUME NEW P, NEW v, NEW s \in Side
  PROVE  Tame(P, v, ClearField(v, s))
<1> DEFINE a == ClearFlags(v, s, {"leech_seeded"})
           b == StopCounters(a, s, {"partial_trap"})
<1>1. Tame(P, v, a)
  BY TameClearFlags
<1>2. Tame(P, a, b) /\ ClearField(v, s) = b
  BY TameStopCounters DEF ClearField
<1> HIDE DEF a, b
<1> QED BY <1>1, <1>2, TameTrans

-----------------------------------------------------------------------------
(* What is remembered of the last move *)

LEMMA MaxTurnsNat == ASSUME NEW e PROVE MaxTurns(e) \in 0..5 /\ MaxTurns("Bide") >= 1
BY DEF MaxTurns

LEMMA LumOf ==
  ASSUME NEW v \in World, NEW s \in Side
  PROVE  v[s].lum \in Used
BY SideOf DEF OneSide

LEMMA LumWithEffect ==
  ASSUME NEW l \in Used, NEW e \in Effects,
         e = "UproarCounter" => \E m \in Move : KindOf[m] = "uproar"
  PROVE  /\ WithEffect(l, e) \in Used
         /\ WithEffect(l, e).effect = e
         /\ WithEffect(l, e).move = l.move
         /\ WithEffect(l, e).successes = l.successes
         /\ WithEffect(l, e).moved = l.moved
         /\ WithEffect(l, e).turns = 0
<1> DEFINE k == WithEffect(l, e)
<1>1. l \in LumRecord
  BY DEF Used
<1>2. k = [l EXCEPT !.effect = e, !.turns = 0]
  BY DEF WithEffect
<1> HIDE DEF k
<1>3. k \in LumRecord
  BY <1>1, <1>2 DEF LumRecord
<1>4. /\ k.effect = e
      /\ k.turns = 0
      /\ k.move = l.move
      /\ k.successes = l.successes
      /\ k.moved = l.moved
  BY <1>1, <1>2 DEF LumRecord
<1>5. InTurns(k.effect, k.turns)
  BY <1>4, MaxTurnsNat DEF InTurns
<1>6. k \in Used
  BY <1>3, <1>5 DEF Used
<1> QED BY <1>4, <1>6 DEF k

LEMMA EmptyEffect == "Empty" \in Effects /\ "Empty" # "UproarCounter"
BY DEF Effects

LEMMA LumEmpty ==
  ASSUME NEW l \in Used
  PROVE  /\ WithEffect(l, "Empty") \in Used
         /\ WithEffect(l, "Empty").move = l.move
         /\ WithEffect(l, "Empty").successes = l.successes
         /\ WithEffect(l, "Empty").moved = l.moved
         /\ WithEffect(l, "Empty").effect = "Empty"
<1> DEFINE e == "Empty"
<1>1. e \in Effects /\ e # "UproarCounter"
  BY EmptyEffect
<1> HIDE DEF e
<1>2. /\ WithEffect(l, e) \in Used
      /\ WithEffect(l, e).move = l.move
      /\ WithEffect(l, e).successes = l.successes
      /\ WithEffect(l, e).moved = l.moved
      /\ WithEffect(l, e).effect = e
  BY <1>1, LumWithEffect
<1> QED BY <1>2 DEF e

\* What sets an effect back leaves what Endure goes by.
LEMMA LumSetBack ==
  ASSUME NEW l \in Used, NEW k, k \in {l, WithEffect(l, "Empty")}
  PROVE  /\ k \in Used
         /\ k.moved = l.moved
         /\ IsEnduring(k) <=> IsEnduring(l)
<1> DEFINE e == WithEffect(l, "Empty")
<1>1. e \in Used /\ e.move = l.move /\ e.successes = l.successes /\ e.moved = l.moved
  BY LumEmpty
<1> HIDE DEF e
<1>2. k = l \/ k = e
  BY DEF e
<1> QED BY <1>1, <1>2 DEF IsEnduring, UsedWithEffect

LEMMA LumRecharge ==
  ASSUME NEW l \in Used
  PROVE  /\ Recharge(l) \in Used
         /\ Recharge(l).moved = l.moved
         /\ IsEnduring(Recharge(l)) <=> IsEnduring(l)
<1>1. Recharge(l) \in {l, WithEffect(l, "Empty")}
  BY DEF Recharge
<1> QED BY <1>1, LumSetBack

LEMMA LumBreakProtect ==
  ASSUME NEW l \in Used
  PROVE  /\ BreakProtect(l) \in Used
         /\ BreakProtect(l).moved = l.moved
         /\ IsEnduring(BreakProtect(l)) <=> IsEnduring(l)
<1>1. BreakProtect(l) \in {l, WithEffect(l, "Empty")}
  BY DEF BreakProtect
<1> QED BY <1>1, LumSetBack

LEMMA LumFoeSwitched ==
  ASSUME NEW l \in Used
  PROVE  /\ FoeSwitched(l) \in Used
         /\ FoeSwitched(l).moved = l.moved
         /\ IsEnduring(FoeSwitched(l)) <=> IsEnduring(l)
<1>1. FoeSwitched(l) \in {l, WithEffect(l, "Empty")}
  BY DEF FoeSwitched, EndImmobilize
<1> QED BY <1>1, LumSetBack

LEMMA LumResetEndOfTurn ==
  ASSUME NEW l \in Used
  PROVE  ResetEndOfTurn(l) \in Used /\ ~ResetEndOfTurn(l).moved
<1> DEFINE k == BreakProtect(l)
<1>1. k \in Used
  BY LumBreakProtect
<1>2. ResetEndOfTurn(l) = [k EXCEPT !.moved = FALSE]
  BY DEF ResetEndOfTurn
<1> HIDE DEF k
<1>3. k \in LumRecord
  BY <1>1 DEF Used
<1>4. [k EXCEPT !.moved = FALSE] \in LumRecord /\ ~[k EXCEPT !.moved = FALSE].moved
  BY <1>3 DEF LumRecord
<1>5. [k EXCEPT !.moved = FALSE].effect = k.effect /\ [k EXCEPT !.moved = FALSE].turns = k.turns
  BY <1>3 DEF LumRecord
<1> QED BY <1>1, <1>2, <1>4, <1>5 DEF Used

LEMMA LumUnsuccessful ==
  ASSUME NEW l \in Used
  PROVE  /\ Unsuccessful(l) \in Used
         /\ Unsuccessful(l).moved
         /\ ~IsEnduring(Unsuccessful(l))
<1> DEFINE e == WithEffect(l, "Empty")
           k == Unsuccessful(l)
           z == 0
           h == TRUE
<1>1. e \in Used
  BY LumEmpty
<1>2. k = [e EXCEPT !.successes = z, !.moved = h]
  BY DEF Unsuccessful
<1>6. z \in 0..MaxSuccesses /\ h \in BOOLEAN
  BY MaxSuccessesAssumption
<1> HIDE DEF e, k, z, h
<1>7. k \in LumRecord /\ k.moved = h /\ k.successes = z
  BY <1>1, <1>2, <1>6 DEF Used, LumRecord
<1>3. k.moved /\ k.successes = 0
  BY <1>7 DEF z, h
<1>4. k.effect = e.effect /\ k.turns = e.turns
  BY <1>1, <1>2 DEF Used, LumRecord
<1>5. k \in Used
  BY <1>1, <1>7, <1>4 DEF Used
<1> QED BY <1>3, <1>5 DEF k, IsEnduring, UsedWithEffect

LEMMA LumUnsuccessfulMove ==
  ASSUME NEW l \in Used, NEW m \in Move
  PROVE  /\ UnsuccessfulMove(l, m) \in Used
         /\ UnsuccessfulMove(l, m).moved
         /\ ~IsEnduring(UnsuccessfulMove(l, m))
<1> DEFINE e == WithEffect(l, "Empty")
           k == UnsuccessfulMove(l, m)
           z == 0
           h == TRUE
<1>1. e \in Used
  BY LumEmpty
<1>2. k = [e EXCEPT !.successes = z, !.moved = h, !.move = m]
  BY DEF UnsuccessfulMove, Unsuccessful
<1>6. z \in 0..MaxSuccesses /\ h \in BOOLEAN
  BY MaxSuccessesAssumption
<1> HIDE DEF e, k, z, h
<1>7. k \in LumRecord /\ k.moved = h /\ k.successes = z
  BY <1>1, <1>2, <1>6 DEF Used, LumRecord
<1>3. k.moved /\ k.successes = 0
  BY <1>7 DEF z, h
<1>4. k.effect = e.effect /\ k.turns = e.turns
  BY <1>1, <1>2 DEF Used, LumRecord
<1>5. k \in Used
  BY <1>1, <1>7, <1>4 DEF Used
<1> QED BY <1>3, <1>5 DEF k, IsEnduring, UsedWithEffect

LEMMA LumUseSwitch ==
  ASSUME NEW l \in Used, NEW replacing
  PROVE  /\ UseSwitch(l, replacing) \in Used
         /\ replacing => UseSwitch(l, replacing).moved = l.moved
         /\ ~IsEnduring(UseSwitch(l, replacing))
<1> DEFINE e == WithEffect(l, "Empty")
           h == IF replacing THEN l.moved ELSE TRUE
           k == UseSwitch(l, replacing)
<1>1. e \in Used
  BY LumEmpty
<1>2. k = [e EXCEPT !.move = NoMove, !.moved = h]
  BY DEF UseSwitch
<1>3. h \in BOOLEAN
  BY DEF Used, LumRecord
<1> HIDE DEF e, k, h
<1>6. k \in LumRecord /\ k.moved = h /\ k.move = NoMove
  BY <1>1, <1>2, <1>3 DEF Used, LumRecord
<1>7. k.effect = e.effect /\ k.turns = e.turns
  BY <1>1, <1>2 DEF Used, LumRecord
<1>4. k \in Used /\ k.moved = h /\ k.move = NoMove
  BY <1>1, <1>6, <1>7 DEF Used
<1>5. ~IsEnduring(k)
  BY <1>4, NoMoveAssumption DEF IsEnduring, UsedWithEffect
<1> QED BY <1>4, <1>5 DEF k, h

\* What draws at an action: Bide ends before its last turn is over.
LEMMA BideGoesOn ==
  ASSUME NEW l \in Used, NEW ends \in ActionEnds(l), l.effect = "Bide", ~ends
  PROVE  l.turns + 1 <= MaxTurns("Bide")
<1>1. l.turns \in Nat /\ MaxTurns("Bide") \in 1..5
  BY MaxTurnsNat DEF Used, LumRecord
<1>2. ends \in FlagBranches(l.turns, 1, MaxTurns("Bide"))
  BY DEF ActionEnds
<1>3. l.turns < 1 \/ l.turns < MaxTurns("Bide")
  BY <1>2 DEF FlagBranches
<1> QED BY <1>1, <1>3

\* What ends an effect
LEMMA RecallsEmpty ==
  ASSUME NEW P, NEW s, NEW k, NEW l, l \in {k, WithEffect(k, "Empty")}, k \in Used
  PROVE  Recalls(P, s, k, l)
BY LumEmpty DEF Recalls

LEMMA EndingTurnFits ==
  ASSUME NEW l \in Used, Fit(l)
  PROVE  Fit(ResetEndOfTurn(l)) /\ \A ending : Fit(AdvanceLockIn(l, ending))
<1> DEFINE e == WithEffect(l, "Empty")
           b == BreakProtect(l)
<1>1. e.effect = "Empty"
  BY LumEmpty
<1>2. b \in Used /\ b \in {l, e} /\ b.effect # "Protecting"
  <2>1. b \in {l, e} /\ (l.effect = "Protecting" => b = e)
    BY DEF BreakProtect, IsProtecting
  <2> HIDE DEF b, e
  <2> QED BY <1>1, <2>1, LumBreakProtect DEF b
<1>3. ResetEndOfTurn(l) = [b EXCEPT !.moved = FALSE]
  BY DEF ResetEndOfTurn
<1> HIDE DEF b
<1>4. Fit(b)
  BY <1>1, <1>2 DEF Fit
<1>5. Fit(ResetEndOfTurn(l))
  <2>1. b \in LumRecord
    BY <1>2 DEF Used
  <2> DEFINE c == [b EXCEPT !.moved = FALSE]
  <2>2. c.effect = b.effect /\ c.move = b.move /\ c.successes = b.successes
    BY <2>1 DEF LumRecord
  <2> HIDE DEF c
  <2>3. Fit(c)
    BY <2>2, <1>2, <1>4 DEF Fit
  <2> QED BY <2>3, <1>3 DEF c
<1>6. ASSUME NEW ending  PROVE Fit(AdvanceLockIn(l, ending))
  <2> DEFINE c == [l EXCEPT !.turns = l.turns + 1]
  <2>1. AdvanceLockIn(l, ending) \in {l, e, c}
    BY DEF AdvanceLockIn
  <2>2. c.effect = l.effect /\ c.move = l.move /\ c.successes = l.successes /\ c.moved = l.moved
    BY DEF Used, LumRecord
  <2> HIDE DEF c, e
  <2>3. Fit(c) /\ Fit(e)
    BY <1>1, <2>2 DEF Fit
  <2> QED BY <2>1, <2>3
<1> QED BY <1>5, <1>6

\* The end is certain before the counter is at its last value.
LEMMA LockInEndsInTime ==
  ASSUME NEW l \in Used, Tabled, NEW ending \in LockInEnds(l)
  PROVE  ~AdvanceLockInThrows(l, ending)
<1>1. l.effect # "UproarCounter"
  BY DEF Used, InTurns, Tabled
<1>4. ASSUME NEW from \in Nat, NEW max \in Nat, from <= max
      PROVE  FlagBranches(max, from, max) = {TRUE}
  <2>1. ~(max < from) /\ ~(max < max)
    BY <1>4
  <2> QED BY <2>1, Zenon DEF FlagBranches
<1>2. CASE l.effect = "Immobilize"
  <2> DEFINE max == MaxTurns("Immobilize")
             two == 2
  <2>1. max = 5
    BY DEF MaxTurns
  <2>2. LockInEnds(l) = FlagBranches(l.turns, two, max)
    BY <1>2 DEF LockInEnds
  <2>3. two \in Nat /\ max \in Nat /\ two <= max
    BY <2>1
  <2> HIDE DEF max, two
  <2>4. l.turns = max => ending = TRUE
    BY <1>4, <2>2, <2>3
  <2> QED BY <1>2, <2>4 DEF AdvanceLockInThrows, max
<1>3. CASE l.effect = "Rampage"
  <2> DEFINE max == MaxTurns("Rampage")
             from == max - 1
  <2>1. max \in {3, 4}
    BY DEF MaxTurns
  <2>2. LockInEnds(l) = FlagBranches(l.turns, from, max)
    BY <1>3 DEF LockInEnds
  <2>3. from \in Nat /\ max \in Nat /\ from <= max
    BY <2>1
  <2> HIDE DEF max, from
  <2>4. l.turns = max => ending = TRUE
    BY <1>4, <2>2, <2>3
  <2> QED BY <1>3, <2>4 DEF AdvanceLockInThrows, max
<1> QED BY <1>1, <1>2, <1>3 DEF AdvanceLockInThrows, CountedAtEndOfTurn

LEMMA LumAfterEffect ==
  ASSUME NEW l \in Used, NEW m \in Move, NEW ends \in ActionEnds(l), NEW herb, NEW sun
  PROVE  AfterEffect(l, m, ends, herb, sun) \in Used
<1> DEFINE e == EffectOfMove(m, herb, sun)
           a == WithEffect(l, e)
           b == [l EXCEPT !.turns = l.turns + 1]
           c == WithEffect(l, "Empty")
           x == AfterEffect(l, m, ends, herb, sun)
<1>1. \/ x \in {a, c, l}
      \/ l.effect = "Bide" /\ ~ends /\ x = b
  BY DEF AfterEffect
<1>2. a \in Used
  <2>1. e \in Effects
    BY DEF EffectOfMove, Effects
  <2>2. e = "UproarCounter" => KindOf[m] = "uproar"
    BY DEF EffectOfMove
  <2> HIDE DEF e
  <2> QED BY <2>1, <2>2, LumWithEffect
<1>3. c \in Used
  BY LumEmpty
<1>4. l.effect = "Bide" /\ ~ends => b \in Used
  <2> SUFFICES ASSUME l.effect = "Bide", ~ends  PROVE b \in Used
    OBVIOUS
  <2>1. l.turns + 1 <= MaxTurns("Bide")
    BY BideGoesOn
  <2>2. l \in LumRecord /\ l.turns + 1 \in Nat
    BY DEF Used, LumRecord
  <2> DEFINE k == l.turns + 1
  <2>3. b \in LumRecord /\ b.effect = "Bide" /\ b.turns = k
    <3>1. k \in Nat /\ b = [l EXCEPT !.turns = k]
      BY <2>2
    <3> HIDE DEF k, b
    <3> QED BY <2>2, <3>1 DEF LumRecord
  <2>4. InTurns(b.effect, b.turns)
    BY <2>1, <2>3 DEF InTurns
  <2> HIDE DEF b
  <2> QED BY <2>3, <2>4 DEF Used
<1> HIDE DEF a, b, c, x
<1> QED BY <1>1, <1>2, <1>3, <1>4 DEF x

\* Who has used a move endures by that move.
LEMMA LumSuccessfulMove ==
  ASSUME NEW l \in Used, NEW m \in Move, NEW ends \in ActionEnds(l), NEW herb, NEW sun
  PROVE  /\ SuccessfulMove(l, m, m, ends, herb, sun) \in Used
         /\ SuccessfulMove(l, m, m, ends, herb, sun).moved
         /\ IsEnduring(SuccessfulMove(l, m, m, ends, herb, sun)) => MoveData[m].effect = <<"endure">>
<1> DEFINE a == AfterEffect(l, m, ends, herb, sun)
           n == IF l.move # m THEN 1 ELSE IF l.successes < MaxSuccesses THEN l.successes + 1
                ELSE MaxSuccesses
           h == TRUE
           k == SuccessfulMove(l, m, m, ends, herb, sun)
<1>1. a \in Used
  BY LumAfterEffect
<1>2. n \in 0..MaxSuccesses /\ h \in BOOLEAN
  BY MaxSuccessesAssumption DEF Used, LumRecord
<1>3. k = [a EXCEPT !.move = m, !.moved = h, !.successes = n]
  BY DEF SuccessfulMove
<1> HIDE DEF a, n, h, k
<1>4. k \in LumRecord /\ k.move = m /\ k.moved = h
  BY <1>1, <1>2, <1>3 DEF Used, LumRecord
<1>5. k.effect = a.effect /\ k.turns = a.turns
  BY <1>1, <1>3 DEF Used, LumRecord
<1>6. k \in Used
  BY <1>1, <1>4, <1>5 DEF Used
<1>7. k.moved
  BY <1>4 DEF h
<1>8. IsEnduring(k) => MoveData[m].effect = <<"endure">>
  BY <1>4 DEF IsEnduring, UsedWithEffect
<1> QED BY <1>6, <1>7, <1>8 DEF k

\* Who goes on with what it is locked in to
LEMMA LumCarriesOn ==
  ASSUME Tabled, NEW l \in Used, NEW m \in Move, Carries(l, m), NEW ends \in ActionEnds(l),
         NEW herb, NEW sun
  PROVE  /\ ~SuccessfulMoveThrows(l, m, ends)
         /\ Fit(SuccessfulMove(l, m, m, ends, herb, sun))
         /\ KindOf[m] = "recharge" => IsRecharging(SuccessfulMove(l, m, m, ends, herb, sun))
<1> DEFINE a == AfterEffect(l, m, ends, herb, sun)
           n == IF l.move # m THEN 1 ELSE IF l.successes < MaxSuccesses THEN l.successes + 1
                ELSE MaxSuccesses
           h == TRUE
           k == SuccessfulMove(l, m, m, ends, herb, sun)
<1>1. /\ Fit(l) /\ ~l.moved /\ Meant(m) /\ (l.effect # "Empty" => l.move = m)
      /\ l.effect # "UproarCounter" /\ l.successes \in 0..MaxSuccesses
      /\ l \in LumRecord /\ l.effect \in Effects
  BY DEF Carries, Used, InTurns, Tabled, LumRecord
<1>2. l.effect # "Protecting"
  BY <1>1 DEF Fit
<1>3. ~SuccessfulMoveThrows(l, m, ends)
  <2>1. l.effect # "Empty" => SuccessfulLastMove(l, m)
    BY <1>1 DEF Fit, SuccessfulLastMove
  <2>2. l.effect = "Bide" => ends \/ l.turns # MaxTurns("Bide")
    <3>1. l.turns \in Nat /\ MaxTurns("Bide") \in 1..5
      BY MaxTurnsNat DEF Used, LumRecord
    <3>2. l.effect = "Bide" /\ ~ends => l.turns + 1 <= MaxTurns("Bide")
      BY BideGoesOn
    <3> QED BY <3>1, <3>2
  <2> QED BY <1>1, <1>2, <2>1, <2>2 DEF SuccessfulMoveThrows, LockEffects
<1>4. n \in 1..MaxSuccesses
  BY <1>1, MaxSuccessesAssumption
<1>5. a \in Used
  BY LumAfterEffect
<1>6. k = [a EXCEPT !.move = m, !.moved = h, !.successes = n]
  BY DEF SuccessfulMove
<1>7. KindOf[m] = "recharge" => a.effect = "Recharging"
  <2> SUFFICES ASSUME KindOf[m] = "recharge"  PROVE a.effect = "Recharging"
    OBVIOUS
  <2>1. CASE l.effect = "Empty"
    <3> DEFINE e == EffectOfMove(m, herb, sun)
    <3>1. e = "Recharging"
      BY DEF EffectOfMove
    <3>2. a = WithEffect(l, e)
      BY <2>1 DEF AfterEffect
    <3> HIDE DEF e, a
    <3>3. a.effect = e
      <4>1. e \in Effects /\ e # "UproarCounter"
        BY <3>1 DEF Effects
      <4> QED BY <3>2, <4>1, LumWithEffect
    <3> QED BY <3>1, <3>3
  <2>2. CASE l.effect # "Empty"
    <3>1. l.effect = "Recharging"
      BY <1>1, <2>2 DEF Fit
    <3>2. a = l
      BY <3>1 DEF AfterEffect
    <3> QED BY <3>1, <3>2
  <2> QED BY <2>1, <2>2
<1> HIDE DEF a, n, h, k
<1>8. k.effect = a.effect /\ k.move = m /\ k.moved = h /\ k.successes = n
  BY <1>5, <1>6 DEF Used, LumRecord
<1>9. Fit(k)
  BY <1>1, <1>4, <1>7, <1>8 DEF Fit, h
<1>10. KindOf[m] = "recharge" => IsRecharging(k)
  BY <1>7, <1>8 DEF IsRecharging
<1> QED BY <1>3, <1>9, <1>10 DEF k

LEMMA NotCertain ==
  ASSUME NEW turns \in Nat, NEW from \in Int, NEW max \in Int, from <= max,
         NEW ends \in FlagBranches(turns, from, max), ~ends
  PROVE  turns < max
<1> SUFFICES ASSUME ~(turns < max)  PROVE FALSE
  OBVIOUS
<1>1. ~(turns < from)
  OBVIOUS
<1>2. FlagBranches(turns, from, max) = {TRUE}
  BY <1>1 DEF FlagBranches
<1>3. ends \in {TRUE}
  BY <1>2
<1> QED BY <1>3

LEMMA LumAdvanceLockIn ==
  ASSUME NEW l \in Used, NEW ending \in LockInEnds(l)
  PROVE  AdvanceLockIn(l, ending) \in Used
<1> DEFINE b == [l EXCEPT !.turns = l.turns + 1]
           c == WithEffect(l, "Empty")
           x == AdvanceLockIn(l, ending)
<1>1. x \in {l, c} \/ (x = b /\ l.effect \in CountedAtEndOfTurn /\ ~ending)
  BY DEF AdvanceLockIn
<1>2. c \in Used
  BY LumEmpty
<1>3. l.effect \in CountedAtEndOfTurn /\ ~ending => b \in Used
  <2> SUFFICES ASSUME l.effect \in CountedAtEndOfTurn, ~ending  PROVE b \in Used
    OBVIOUS
  <2> DEFINE k == l.turns + 1
  <2>1. l \in LumRecord /\ k \in Nat /\ l.turns \in Nat /\ InTurns(l.effect, l.turns)
    BY DEF Used, LumRecord
  <2>2. b \in LumRecord /\ b.effect = l.effect /\ b.turns = k
    <3>1. b = [l EXCEPT !.turns = k]
      OBVIOUS
    <3> HIDE DEF k, b
    <3> QED BY <2>1, <3>1 DEF LumRecord
  <2>3. InTurns(l.effect, k)
    <3>1. CASE l.effect = "UproarCounter"
      BY <2>1, <3>1 DEF InTurns
    <3>2. CASE l.effect = "Immobilize"
      <4>1. MaxTurns(l.effect) = 5
        BY <3>2 DEF MaxTurns
      <4>2. ending \in FlagBranches(l.turns, 2, 5)
        BY <3>2, <4>1 DEF LockInEnds
      <4>3. l.turns < 5
        <5>1. 2 \in Int /\ 5 \in Int /\ 2 <= 5
          OBVIOUS
        <5> HIDE DEF k
        <5> QED BY <4>2, <2>1, <5>1, NotCertain
      <4> QED BY <3>2, <4>1, <4>3, <2>1 DEF InTurns
    <3>3. CASE l.effect = "Rampage"
      <4> DEFINE max == MaxTurns("Rampage")
      <4>1. max \in 3..4
        BY DEF MaxTurns
      <4>2. ending \in FlagBranches(l.turns, max - 1, max)
        BY <3>3 DEF LockInEnds
      <4> HIDE DEF max
      <4>3. l.turns < max
        <5> DEFINE from == max - 1
        <5>1. max \in Int /\ from \in Int /\ from <= max
          BY <4>1
        <5>2. ending \in FlagBranches(l.turns, from, max)
          BY <4>2
        <5> HIDE DEF k, from
        <5> QED BY <5>1, <5>2, <2>1, NotCertain
      <4> QED BY <3>3, <4>1, <4>3, <2>1 DEF InTurns, max
    <3> QED BY <3>1, <3>2, <3>3 DEF CountedAtEndOfTurn
  <2> HIDE DEF k, b
  <2> QED BY <2>2, <2>3 DEF Used
<1> HIDE DEF b, c, x
<1> QED BY <1>1, <1>2, <1>3 DEF x

LEMMA WorldRules == \A v \in World : Rules.generation \in 1..8
BY DEF World

LEMMA FlinchGoes ==
  ASSUME NEW P, NEW A \in SUBSET Side, NEW L \in SUBSET Side, NEW v, NEW s \in Side, s \notin L
  PROVE  Goes(P, A, L, v, Flinch(v, s))
<1> SUFFICES ASSUME v \in World  PROVE Goes(P, A, L, v, Flinch(v, s))
  BY DEF Goes
<1> DEFINE f == "flinched"
           a == SetFlag(v, s, f)
           l == Unsuccessful(a[s].lum)
           x == [a EXCEPT ![s].lum = l]
<1>1. Flinch(v, s) = x
  <2>1. Exists(f)
    BY WorldRules DEF Exists, Since
  <2> QED BY <2>1 DEF Flinch, SetFlag
<1>2. f \in FlagName
  BY DEF FlagName
<1> HIDE DEF f
<1>3. Tame(P, v, a)
  BY <1>2, TameSetFlag
<1>4. a \in World
  BY <1>3 DEF Tame
<1> HIDE DEF a
<1>5. l \in Used
  BY <1>4, LumOf, LumUnsuccessful
<1>7. Recalls(P, s, a[s].lum, l)
  <2>1. l.effect = "Empty"
    BY <1>4, LumOf, LumEmpty DEF Unsuccessful, Used, LumRecord
  <2> QED BY <2>1 DEF Recalls
<1> HIDE DEF l
<1>6. Goes(P, A, L, a, x)
  BY <1>5, <1>7, PutLum
<1> HIDE DEF x
<1> QED BY <1>1, <1>3, <1>6, TameGoes, GoesTrans

LEMMA TameTryToActivateYawn ==
  ASSUME NEW P, NEW v, NEW s \in Side, NEW uproar, NEW claused,
         v \in World => claused \/ <<s, v[s].active, "sleep">> \in P[2]
  PROVE  Tame(P, v, TryToActivateYawn(v, s, uproar, claused))
<1> SUFFICES ASSUME v \in World  PROVE Tame(P, v, TryToActivateYawn(v, s, uproar, claused))
  BY DEF Tame
<1> DEFINE c == "yawn"
           a == Advance(v, s, c)
           st == "sleep"
           b == SetStatus(a, s, st)
<1>1. \/ TryToActivateYawn(v, s, uproar, claused) = a
      \/ TryToActivateYawn(v, s, uproar, claused) = b /\ ~claused
  BY DEF TryToActivateYawn
<1>2. c \in Counter /\ c # "perish_song" /\ st \in Statuses
  BY CounterNames DEF Statuses, Sleeping
<1>3. claused \/ <<s, v[s].active, st>> \in P[2]
  OBVIOUS
<1> HIDE DEF c
<1>4. Tame(P, v, a)
  BY <1>2, TameAdvance
<1>5. claused \/ Takes(P, a, s, st)
  BY <1>3, <1>4 DEF Tame, Takes
<1> HIDE DEF a, st
<1>6. claused \/ Tame(P, a, b)
  BY <1>2, <1>5, TameSetStatus
<1> HIDE DEF b
<1> QED BY <1>1, <1>4, <1>6, TameTrans

LEMMA AdvancedLockInGoes ==
  ASSUME NEW P, NEW A \in SUBSET Side, NEW L \in SUBSET Side, NEW v, NEW s \in Side, s \notin L,
         NEW ending, v \in World => ending \in LockInEnds(v[s].lum),
         Tabled \/ MayFail(P), May(P, s, "uses")
  PROVE  Goes(P, A, L, v, AdvancedLockIn(v, s, ending))
<1> SUFFICES ASSUME v \in World  PROVE Goes(P, A, L, v, AdvancedLockIn(v, s, ending))
  BY DEF Goes
<1> DEFINE holds == ~AdvanceLockInThrows(v[s].lum, ending)
           a == Asserted(v, holds)
           l == AdvanceLockIn(a[s].lum, ending)
           b == [a EXCEPT ![s].lum = l]
           c == Confuse(b, s)
<1>1. AdvancedLockIn(v, s, ending) \in {b, c}
  BY DEF AdvancedLockIn
<1>8. holds \/ MayFail(P)
  BY LumOf, LockInEndsInTime
<1> HIDE DEF holds
<1>2. Tame(P, v, a)
  BY <1>8, TameAsserted
<1>3. a \in World /\ a[s].lum = v[s].lum
  BY <1>2 DEF Tame
<1> HIDE DEF a
<1>4. l \in Used
  BY <1>3, LumOf, LumAdvanceLockIn
<1>9. Recalls(P, s, a[s].lum, l)
  BY <1>3, LumOf, EndingTurnFits DEF Recalls
<1> HIDE DEF l
<1>5. Goes(P, A, L, a, b)
  BY <1>4, <1>9, PutLum
<1> HIDE DEF b
<1>6. Tame(P, b, c)
  BY TameConfuse
<1> HIDE DEF c
<1>7. Goes(P, A, L, v, b) /\ Goes(P, A, L, v, c)
  BY <1>2, <1>5, <1>6, TameGoes, GoesTrans
<1> QED BY <1>1, <1>7

LEMMA EndTurnGoes ==
  ASSUME NEW P, NEW A \in SUBSET Side, NEW L \in SUBSET Side, NEW v, NEW s \in Side, s \notin L,
         May(P, s, "uses")
  PROVE  /\ Goes(P, A, L, v, EndTurn(v, s))
         /\ v \in World => ~EndTurn(v, s)[s].lum.moved
<1> SUFFICES ASSUME v \in World
             PROVE  Goes(P, A, L, v, EndTurn(v, s)) /\ ~EndTurn(v, s)[s].lum.moved
  BY DEF Goes
<1> DEFINE l == ResetEndOfTurn(v[s].lum)
           a == [v EXCEPT ![s].lum = l]
           b == ClearFlags(a, s, {"damaged", "flinched"})
<1>1. EndTurn(v, s) = b
  BY DEF EndTurn
<1>2. l \in Used /\ ~l.moved
  BY LumOf, LumResetEndOfTurn
<1>9. Recalls(P, s, v[s].lum, l)
  BY LumOf, EndingTurnFits DEF Recalls
<1> HIDE DEF l
<1>3. Goes(P, A, L, v, a)
  BY <1>2, <1>9, PutLum
<1>4. a[s].lum = l
  BY <1>2, <1>9, PutLum
<1>5. Tame(P, a, b)
  BY TameClearFlags
<1> HIDE DEF a, b
<1>6. a \in World
  BY <1>3 DEF Goes
<1>7. b[s].lum = l
  BY <1>4, <1>5, <1>6 DEF Tame
<1>8. Goes(P, A, L, v, b)
  BY <1>3, <1>5, TameGoes, GoesTrans
<1> QED BY <1>1, <1>2, <1>7, <1>8

-----------------------------------------------------------------------------
(* Switches *)

LEMMA SwitchInGoes ==
  ASSUME NEW P, NEW A \in SUBSET Side, NEW L \in SUBSET Side, NEW v, NEW s \in Side, s \notin L,
         NEW replacing
  PROVE  /\ Goes(P, A, L, v, SwitchIn(v, s, replacing))
         /\ v \in World => /\ SwitchIn(v, s, replacing)[s].lum = UseSwitch(v[s].lum, replacing)
                           /\ Sound(SwitchIn(v, s, replacing)[s])
<1> SUFFICES ASSUME v \in World
             PROVE  /\ Goes(P, A, L, v, SwitchIn(v, s, replacing))
                    /\ SwitchIn(v, s, replacing)[s].lum = UseSwitch(v[s].lum, replacing)
                    /\ Sound(SwitchIn(v, s, replacing)[s])
  BY DEF Goes
<1> DEFINE st == IF Rules.generation <= 2 /\ Status(v, s) = "toxic" THEN "poison" ELSE Status(v, s)
           a == PutStatus(v, s, st)
           l == UseSwitch(a[s].lum, replacing)
           b == [a EXCEPT ![s].lum = l]
           c == BerserkGene(b, s)
           x == SwitchIn(v, s, replacing)
<1>1. x \in {b, c}
  BY DEF SwitchIn
<1>2. st \in Statuses /\ Takes(P, v, s, st)
  BY MonOf DEF Takes, Statuses
<1> HIDE DEF st
<1>3. Tame(P, v, a)
  BY <1>2, TamePutStatus
<1>4. a \in World /\ a[s].lum = v[s].lum
  BY <1>3 DEF Tame
<1>16. Sound(a[s])
  BY <1>2, PutStatusSound
<1> HIDE DEF a
<1>5. l \in Used
  BY <1>4, LumOf, LumUseSwitch
<1>15. Recalls(P, s, a[s].lum, l)
  <2>1. l.effect = "Empty"
    BY <1>4, LumOf, LumEmpty DEF UseSwitch, Used, LumRecord
  <2> QED BY <2>1 DEF Recalls
<1>6. l = UseSwitch(v[s].lum, replacing)
  BY <1>4
<1> HIDE DEF l
<1>7. Goes(P, A, L, a, b)
  BY <1>5, <1>15, PutLum
<1>8. b[s].lum = l
  BY <1>4, SideOf DEF World, Side, OneSide
<1> HIDE DEF b
<1>9. Tame(P, b, c)
  BY TameBerserkGene
<1> HIDE DEF c, x
<1>10. b \in World
  BY <1>4, <1>7 DEF Goes
<1>11. c[s].lum = l
  BY <1>8, <1>9, <1>10 DEF Tame
<1>12. Goes(P, A, L, v, b) /\ Goes(P, A, L, v, c)
  BY <1>3, <1>7, <1>9, TameGoes, GoesTrans
<1>13. Goes(P, A, L, v, x)
  BY <1>1, <1>12
<1>14. x[s].lum = UseSwitch(v[s].lum, replacing)
  BY <1>1, <1>6, <1>8, <1>11
<1>17. Sound(b[s]) /\ Sound(c[s])
  BY <1>4, <1>7, <1>9, <1>10, <1>16 DEF Goes, Tame, TeamsTame, Follows
<1>18. Sound(x[s])
  BY <1>1, <1>17
<1> QED BY <1>13, <1>14, <1>18 DEF x

LEMMA TameSwitchOut ==
  ASSUME NEW P, NEW v, NEW s \in Side, May(P, s, "counts")
  PROVE  Tame(P, v, SwitchOut(v, s))
<1> DEFINE a == ClearStatus(v, s)
           cured == IF Ability(v, s) = "natural_cure" THEN a ELSE v
           b == ClearFlags(cured, s, Personal)
           own == StopCounters(b, s, Counter \ PassableCounter)
           k == 0
           kept == [own EXCEPT ![s].stockpile = k]
           c == ClearFlags(kept, s, Passable)
           d == StopCounters(c, s, Counter)
           e == [d EXCEPT ![s].stages = NoStages]
           x == [e EXCEPT ![s].substitute = k]
<1>1. SwitchOut(v, s) \in {kept, x}
  BY DEF SwitchOut
<1>2. Tame(P, v, a) /\ Tame(P, v, v)
  BY TameClearStatus, TameRefl
<1> HIDE DEF a
<1>3. Tame(P, v, cured)
  BY <1>2
<1> HIDE DEF cured
<1>4. Tame(P, cured, b)
  BY TameClearFlags
<1> HIDE DEF b
<1>5. Tame(P, b, own)
  <2> DEFINE cs == Counter \ PassableCounter
  <2>1. "perish_song" \notin cs
    BY DEF PassableCounter
  <2> HIDE DEF cs
  <2> QED BY <2>1, TameStopCounters
<1>6. k \in 0..3 /\ k \in 0..(MaxHP \div 4 + 1) /\ NoStages \in [Stat -> -6..6]
  BY HPConstants DEF NoStages
<1> HIDE DEF own, k
<1>7. Tame(P, own, kept)
  BY <1>6, TamePutStockpile
<1> HIDE DEF kept
<1>8. Tame(P, kept, c)
  BY TameClearFlags
<1> HIDE DEF c
<1>9. Tame(P, c, d)
  BY TameStopCounters
<1> HIDE DEF d
<1>10. Tame(P, d, e)
  BY <1>6, TamePutStages
<1> HIDE DEF e
<1>11. Tame(P, e, x)
  BY <1>6, TamePutSubstitute
<1> HIDE DEF x
<1>12. Tame(P, v, kept)
  BY <1>3, <1>4, <1>5, <1>7, TameTrans
<1>13. Tame(P, kept, x)
  BY <1>8, <1>9, <1>10, <1>11, TameTrans
<1> QED BY <1>1, <1>12, <1>13, TameTrans

LEMMA FoeHasSwitchedGoes ==
  ASSUME NEW P, NEW A \in SUBSET Side, NEW L \in SUBSET Side, NEW v, NEW s \in Side, s \notin L,
         NEW passes
  PROVE  /\ Goes(P, A, L, v, FoeHasSwitched(v, s, passes))
         /\ v \in World => FoeHasSwitched(v, s, passes)[s].lum = FoeSwitched(v[s].lum)
<1> SUFFICES ASSUME v \in World
             PROVE  /\ Goes(P, A, L, v, FoeHasSwitched(v, s, passes))
                    /\ FoeHasSwitched(v, s, passes)[s].lum = FoeSwitched(v[s].lum)
  BY DEF Goes
<1> DEFINE trapped == IF Rules.generation <= 4 /\ passes THEN {} ELSE {"fully_trapped"}
           a == ClearFlags(v, s, trapped \cup {"attracted"})
           b == StopCounters(a, s, {"partial_trap"})
           l == FoeSwitched(b[s].lum)
           x == [b EXCEPT ![s].lum = l]
<1>1. FoeHasSwitched(v, s, passes) = x
  BY DEF FoeHasSwitched
<1> HIDE DEF trapped
<1>2. Tame(P, v, a)
  BY TameClearFlags
<1>3. Tame(P, a, b)
  BY TameStopCounters
<1> HIDE DEF a, b
<1>4. Tame(P, v, b)
  BY <1>2, <1>3, TameTrans
<1>5. b \in World /\ b[s].lum = v[s].lum
  BY <1>4 DEF Tame
<1>6. l \in Used
  BY <1>5, LumOf, LumFoeSwitched
<1>11. Recalls(P, s, b[s].lum, l)
  BY <1>5, LumOf, RecallsEmpty DEF FoeSwitched, EndImmobilize
<1>7. l = FoeSwitched(v[s].lum)
  BY <1>5
<1> HIDE DEF l
<1>8. Goes(P, A, L, b, x)
  BY <1>6, <1>11, PutLum
<1>9. x[s].lum = l
  BY <1>5, SideOf DEF World, Side, OneSide
<1> HIDE DEF x
<1>10. Goes(P, A, L, v, x)
  BY <1>4, <1>8, TameGoes, GoesTrans
<1> QED BY <1>1, <1>7, <1>9, <1>10

-----------------------------------------------------------------------------
(* Entry hazards and weather *)

LEMMA TamePutHazards ==
  ASSUME NEW P, NEW v, NEW s \in Side, NEW g, v \in World => g \in Layers,
         NEW x, x = [v EXCEPT ![s].hazards = g]
  PROVE  Tame(P, v, x)
<1> SUFFICES ASSUME v \in World  PROVE Tame(P, v, x)
  BY DEF Tame
<1> DEFINE r == [v[s] EXCEPT !.hazards = g]
<1>1. r \in OneSide(s) /\ r.active = v[s].active /\ r.lum = v[s].lum /\ r.team = v[s].team
      /\ r.count = v[s].count /\ r.state = v[s].state
  BY SideOf DEF OneSide
<1>2. x = [v EXCEPT ![s] = r]
  BY SideOf
<1> HIDE DEF r
<1> QED BY <1>1, <1>2, PutTame, HearsSame

LEMMA LayersOf ==
  ASSUME NEW v \in World, NEW s \in Side, NEW h \in HazardName
  PROVE  v[s].hazards[h] \in Int /\ 0 <= v[s].hazards[h] /\ v[s].hazards[h] <= MaxLayers(h)
<1>1. v[s].hazards \in Layers
  BY SideOf DEF OneSide
<1> QED BY <1>1 DEF Layers

LEMMA MaxLayersNat ==
  ASSUME NEW h
  PROVE  MaxLayers(h) \in 0..3
BY DEF MaxLayers

\* One hazard is put.
LEMMA TamePutHazard ==
  ASSUME NEW P, NEW v, NEW s \in Side, NEW h \in HazardName, NEW n \in Int,
         0 <= n, n <= MaxLayers(h), NEW x, x = [v EXCEPT ![s].hazards[h] = n]
  PROVE  Tame(P, v, x)
<1> SUFFICES ASSUME v \in World  PROVE Tame(P, v, x)
  BY DEF Tame
<1> DEFINE g == [v[s].hazards EXCEPT ![h] = n]
<1>1. v[s].hazards \in Layers
  BY SideOf DEF OneSide
<1>2. g \in Layers
  BY <1>1 DEF Layers
<1>3. x = [v EXCEPT ![s].hazards = g]
  BY SideOf
<1> HIDE DEF g
<1> QED BY <1>2, <1>3, TamePutHazards

LEMMA TameAddHazard ==
  ASSUME NEW P, NEW v, NEW s \in Side, NEW h \in HazardName
  PROVE  Tame(P, v, AddHazard(v, s, h))
<1> SUFFICES ASSUME v \in World  PROVE Tame(P, v, AddHazard(v, s, h))
  BY DEF Tame
<1> DEFINE n == v[s].hazards[h] + 1
           x == [v EXCEPT ![s].hazards[h] = n]
<1>1. AddHazard(v, s, h) = v \/ (AddHazard(v, s, h) = x /\ v[s].hazards[h] # MaxLayers(h))
  BY DEF AddHazard
<1>2. v[s].hazards[h] # MaxLayers(h) => n \in Int /\ 0 <= n /\ n <= MaxLayers(h)
  BY LayersOf, MaxLayersNat
<1> HIDE DEF n
<1>3. v[s].hazards[h] # MaxLayers(h) => Tame(P, v, x)
  BY <1>2, TamePutHazard
<1> QED BY <1>1, <1>3, TameRefl

LEMMA TameToxicSpikes ==
  ASSUME NEW P, NEW v, NEW s \in Side
  PROVE  Tame(P, v, ToxicSpikes(v, s))
<1> DEFINE layers == v[s].hazards["toxic_spikes"]
           st == IF layers = 1 THEN "poison" ELSE "toxic"
           h == "toxic_spikes"
           n == 0
           a == [v EXCEPT ![s].hazards[h] = n]
           b == SetStatus(v, s, st)
<1>1. ToxicSpikes(v, s) \in {v, a, b}
  BY DEF ToxicSpikes
<1>2. h \in HazardName /\ n \in Int /\ 0 <= n
  BY DEF HazardName
<1>3. n <= MaxLayers(h)
  BY MaxLayersNat
<1>4. st \in Statuses /\ Takes(P, v, s, st)
  BY DEF Statuses, Takes
<1> HIDE DEF h, n, st
<1>5. Tame(P, v, a)
  BY <1>2, <1>3, TamePutHazard
<1>6. Tame(P, v, b)
  BY <1>4, TameSetStatus
<1> QED BY <1>1, <1>5, <1>6, TameRefl

LEMMA TameSpikes ==
  ASSUME NEW P, Harsh(P), NEW v, NEW s \in Side
  PROVE  Tame(P, v, Spikes(v, s))
<1> SUFFICES ASSUME v \in World  PROVE Tame(P, v, Spikes(v, s))
  BY DEF Tame
<1> DEFINE h == "spikes"
           d == 10 - 2 * v[s].hazards[h]
           n == -1
<1>1. Spikes(v, s) \in {v, Heal(v, s, n, d)}
  BY DEF Spikes
<1>2. h \in HazardName
  BY DEF HazardName
<1>3. v[s].hazards[h] \in 0..3
  BY <1>2, LayersOf, MaxLayersNat
<1>4. d \in Nat \ {0} /\ n \in Int
  BY <1>3
<1> HIDE DEF d, n
<1>5. Tame(P, v, Heal(v, s, n, d))
  BY <1>4, HarshHurts, TameHeal
<1> QED BY <1>1, <1>5, TameRefl

LEMMA DoubledNat ==
  ASSUME NEW types, IsFiniteSet(types), Cardinality(types) <= 4
  PROVE  Doubled(types) \in Nat \ {0}
<1>1. Cardinality(types) \in Nat
  BY FS_CardinalityType
<1>2. 1 + Cardinality(types) \in 1..5
  BY <1>1
<1> DEFINE k == 1 + Cardinality(types)
<1> HIDE DEF k
<1>3. k \in 1..5 /\ Doubled(types) = <<1, 2, 4, 8, 16>>[k]
  BY <1>2 DEF k, Doubled
<1> QED BY <1>3

LEMMA AmongFour ==
  ASSUME NEW A, NEW S, IsFiniteSet(S), Cardinality(S) <= 4
  PROVE  IsFiniteSet(A \cap S) /\ Cardinality(A \cap S) <= 4
<1>1. IsFiniteSet(A \cap S) /\ Cardinality(A \cap S) <= Cardinality(S)
  BY FS_Subset
<1> QED BY <1>1, FS_CardinalityType

LEMMA OneMore ==
  ASSUME NEW S, NEW e, NEW T, T = S \cup {e}, NEW n \in Nat, NEW k, k = n + 1,
         IsFiniteSet(S) /\ Cardinality(S) <= n
  PROVE  IsFiniteSet(T) /\ Cardinality(T) <= k
<1>1. IsFiniteSet(S \cup {e})
      /\ Cardinality(S \cup {e}) = IF e \in S THEN Cardinality(S) ELSE Cardinality(S) + 1
  BY FS_AddElement
<1>2. Cardinality(S) \in Nat
  BY FS_CardinalityType
<1> QED BY <1>1, <1>2

LEMMA RockTypes ==
  /\ IsFiniteSet(WeakToRock) /\ Cardinality(WeakToRock) <= 4
  /\ IsFiniteSet(ResistsRock) /\ Cardinality(ResistsRock) <= 4
<1>1. IsFiniteSet({}) /\ Cardinality({}) = 0
  BY FS_EmptySet
<1> DEFINE a1 == {} \cup {"fire"}  a2 == a1 \cup {"ice"}  a3 == a2 \cup {"flying"}
           a4 == a3 \cup {"bug"}
           b1 == {} \cup {"fighting"}  b2 == b1 \cup {"ground"}  b3 == b2 \cup {"steel"}
<1>3. WeakToRock = a4 /\ ResistsRock = b3
  BY DEF WeakToRock, ResistsRock
<1> DEFINE n0 == 0  n1 == n0 + 1  n2 == n1 + 1  n3 == n2 + 1  n4 == n3 + 1
<1>4. n0 \in Nat /\ n1 \in Nat /\ n2 \in Nat /\ n3 \in Nat /\ n4 = 4 /\ n3 <= 4
  OBVIOUS
<1>5. n1 = n0 + 1 /\ n2 = n1 + 1 /\ n3 = n2 + 1 /\ n4 = n3 + 1
  OBVIOUS
<1> DEFINE z == {}
<1>6. /\ a1 = z \cup {"fire"} /\ a2 = a1 \cup {"ice"} /\ a3 = a2 \cup {"flying"} /\ a4 = a3 \cup {"bug"}
      /\ b1 = z \cup {"fighting"} /\ b2 = b1 \cup {"ground"} /\ b3 = b2 \cup {"steel"}
  OBVIOUS
<1>7. IsFiniteSet(z) /\ Cardinality(z) <= n0
  BY <1>1
<1> HIDE DEF n0, n1, n2, n3, n4, z, a1, a2, a3, a4, b1, b2, b3
<1>8. IsFiniteSet(a1) /\ Cardinality(a1) <= n1
  BY <1>4, <1>5, <1>6, <1>7, OneMore
<1>9. IsFiniteSet(a2) /\ Cardinality(a2) <= n2
  BY <1>4, <1>5, <1>6, <1>8, OneMore
<1>10. IsFiniteSet(a3) /\ Cardinality(a3) <= n3
  <2>1. a3 = a2 \cup {"flying"}
    BY <1>6
  <2>2. n3 = n2 + 1 /\ n2 \in Nat
    BY <1>4, <1>5
  <2> QED BY <2>1, <2>2, <1>9, OneMore
<1>11. IsFiniteSet(a4) /\ Cardinality(a4) <= n4
  BY <1>4, <1>5, <1>6, <1>10, OneMore
<1>12. IsFiniteSet(b1) /\ Cardinality(b1) <= n1
  BY <1>4, <1>5, <1>6, <1>7, OneMore
<1>13. IsFiniteSet(b2) /\ Cardinality(b2) <= n2
  BY <1>4, <1>5, <1>6, <1>12, OneMore
<1>14. IsFiniteSet(b3) /\ Cardinality(b3) <= n3
  <2>1. b3 = b2 \cup {"steel"}
    BY <1>6
  <2>2. n3 = n2 + 1 /\ n2 \in Nat
    BY <1>4, <1>5
  <2> QED BY <2>1, <2>2, <1>13, OneMore
<1>15. Cardinality(b3) <= 4
  BY <1>4, <1>14, FS_CardinalityType
<1> QED BY <1>3, <1>4, <1>11, <1>14, <1>15

LEMMA TameStealthRock ==
  ASSUME NEW P, Harsh(P), NEW v, NEW s \in Side
  PROVE  Tame(P, v, StealthRock(v, s))
<1> DEFINE types == Rules.types[s][v[s].active]
           n == -Doubled(types \cap WeakToRock)
           d == 8 * Doubled(types \cap ResistsRock)
<1>1. StealthRock(v, s) \in {v, Heal(v, s, n, d)}
  BY DEF StealthRock
<1>2. Doubled(types \cap WeakToRock) \in Nat \ {0} /\ Doubled(types \cap ResistsRock) \in Nat \ {0}
  <2> HIDE DEF types
  <2> QED BY RockTypes, AmongFour, DoubledNat
<1>3. n \in Int /\ d \in Nat \ {0}
  BY <1>2
<1> HIDE DEF n, d
<1>4. v \in World => Hurtable(P, v, s)
  BY HarshHurts
<1>5. Tame(P, v, Heal(v, s, n, d))
  BY <1>3, <1>4, TameHeal
<1> QED BY <1>1, <1>5, TameRefl

LEMMA TameApplyHazards ==
  ASSUME NEW P, Harsh(P), NEW v, NEW s \in Side
  PROVE  Tame(P, v, ApplyHazards(v, s))
<1> DEFINE a == ToxicSpikes(v, s)
           b == Spikes(a, s)
           c == IF Grounded(v, s) THEN b ELSE v
           d == StealthRock(c, s)
<1>1. ApplyHazards(v, s) \in {v, d}
  BY DEF ApplyHazards
<1>2. Tame(P, v, a)
  BY TameToxicSpikes
<1> HIDE DEF a
<1>3. Tame(P, a, b)
  BY TameSpikes
<1> HIDE DEF b
<1>4. Tame(P, v, c)
  BY <1>2, <1>3, TameTrans, TameRefl
<1> HIDE DEF c
<1>5. Tame(P, c, d)
  BY TameStealthRock
<1> HIDE DEF d
<1> QED BY <1>1, <1>4, <1>5, TameTrans, TameRefl

LEMMA TamePutWeather ==
  ASSUME NEW P, NEW v, NEW weather \in WeatherName, NEW turns, v \in World => turns \in -1..8,
         NEW x, x = [v EXCEPT !.weather = weather, !.turns = turns]
  PROVE  Tame(P, v, x)
<1> SUFFICES ASSUME v \in World  PROVE Tame(P, v, x)
  BY DEF Tame
<1>1. x \in World
  BY DEF World
<1>2. \A q \in Side : x[q] = v[q]
  BY DEF World, Side
<1>4. x.failed = v.failed
  BY DEF World
<1>3. TeamsTame(P, v, x)
  BY <1>2, <1>4, TeamsTameSame
<1> QED BY <1>1, <1>2, <1>3 DEF Tame

LEMMA TameActivateWeather ==
  ASSUME NEW P, NEW v, NEW weather \in WeatherName, NEW turns \in -1..8
  PROVE  Tame(P, v, ActivateWeather(v, weather, turns))
<1> DEFINE x == [v EXCEPT !.weather = weather, !.turns = turns]
<1>1. ActivateWeather(v, weather, turns) \in {v, x}
  BY DEF ActivateWeather
<1>2. Tame(P, v, x)
  BY TamePutWeather
<1> QED BY <1>1, <1>2, TameRefl

LEMMA WeatherTurnsIn ==
  ASSUME NEW v, NEW s, NEW weather
  PROVE  WeatherTurns(v, s, weather) \in -1..8
BY DEF WeatherTurns

LEMMA TameIntimidate ==
  ASSUME NEW P, NEW v, NEW s \in Side
  PROVE  Tame(P, v, Intimidate(v, s))
<1> DEFINE n == -1
           a == Boost(v, s, {"atk"}, n)
           k == 1
           b == Boost(a, s, {"spe"}, k)
           c == RemoveItem(b, s)
<1>1. Intimidate(v, s) \in {v, a, c}
  BY DEF Intimidate
<1>2. n \in Int /\ k \in Int
  OBVIOUS
<1> HIDE DEF n, k
<1>3. Tame(P, v, a)
  BY <1>2, TameBoost
<1> HIDE DEF a
<1>4. Tame(P, a, b)
  BY <1>2, TameBoost
<1> HIDE DEF b
<1>5. Tame(P, b, c)
  BY TameRemoveItem
<1> HIDE DEF c
<1> QED BY <1>1, <1>3, <1>4, <1>5, TameTrans, TameRefl

LEMMA TameActivateAbilityOnSwitch ==
  ASSUME NEW P, NEW v, NEW s \in Side
  PROVE  Tame(P, v, ActivateAbilityOnSwitch(v, s))
<1> DEFINE ability == Ability(v, s)
           weather == WeatherOf[ability]
           turns == IF Rules.generation <= 5 THEN -1 ELSE WeatherTurns(v, s, weather)
           a == Intimidate(v, Other(s))
           b == ActivateWeather(v, weather, turns)
           x == ActivateAbilityOnSwitch(v, s)
<1>1. x \in {v, a} \/ (ability \in DOMAIN WeatherOf /\ x = b)
  BY DEF ActivateAbilityOnSwitch
<1>2. ability \in DOMAIN WeatherOf => weather \in WeatherName
  BY DEF WeatherOf, WeatherName
<1>3. turns \in -1..8
  BY WeatherTurnsIn
<1>4. Tame(P, v, a)
  BY Sides, TameIntimidate
<1> HIDE DEF ability, weather, turns, a, x
<1>5. ability \in DOMAIN WeatherOf => Tame(P, v, b)
  BY <1>2, <1>3, TameActivateWeather
<1> HIDE DEF b
<1>6. Tame(P, v, x)
  BY <1>1, <1>4, <1>5, TameRefl
<1> QED BY <1>6 DEF x

LEMMA TameArrives ==
  ASSUME NEW P, NEW v, NEW s \in Side
  PROVE  Tame(P, v, Arrives(v, s))
BY TameActivateAbilityOnSwitch, TameRefl DEF Arrives

\* x is v but for who of s is on the field.
PutIn(s, v, x) ==
  /\ \A q \in Side : x[q].team = v[q].team /\ x[q].lum = v[q].lum /\ x[q].count = v[q].count
  /\ x[Other(s)] = v[Other(s)]
  /\ x.failed = v.failed

LEMMA PutActive ==
  ASSUME NEW v \in World, NEW s \in Side, NEW m \in Mons(s), NEW x, x = [v EXCEPT ![s].active = m]
  PROVE  x \in World /\ PutIn(s, v, x)
<1> DEFINE r == [v[s] EXCEPT !.active = m]
<1>1. r \in OneSide(s) /\ r.lum = v[s].lum /\ r.team = v[s].team
      /\ r.count = v[s].count
  BY SideOf DEF OneSide
<1>2. x = [v EXCEPT ![s] = r]
  BY SideOf
<1> HIDE DEF r
<1>3. x \in World
  BY <1>1, <1>2, PutSide
<1>4. x[s] = r /\ \A q \in Side \ {s} : x[q] = v[q]
  BY <1>2, PutSideThere
<1>5. x.failed = v.failed
  BY <1>2 DEF World, Side
<1> QED BY <1>1, <1>3, <1>4, <1>5, Sides DEF PutIn

\* Where the state of who comes in is set as it comes in
LEMMA PutInTame ==
  ASSUME NEW P, NEW v \in World, NEW s \in Side, NEW a \in World, PutIn(s, v, a),
         NEW b \in World, TeamsTame(P, a, b), Sound(b[s])
  PROVE  TeamsTame(P, v, b)
<1>1. \A q \in Side : \A m \in Mons(q) : Tamed(P, q, m, v[q].team[m], b[q].team[m])
  BY DEF PutIn, TeamsTame
<1>2. \A q \in Side : Hears(P, q, v[q], b[q])
  BY DEF PutIn, TeamsTame, Hears
<1>3. b.failed => v.failed \/ MayFail(P)
  BY DEF PutIn, TeamsTame
<1>4. Follows(P, s, v[s], b[s])
  BY DEF PutIn, TeamsTame, Follows
<1>5. Follows(P, Other(s), v[Other(s)], b[Other(s)])
  BY Sides DEF PutIn, TeamsTame
<1> QED BY <1>1, <1>2, <1>3, <1>4, <1>5, TwoSides DEF TeamsTame

\* Fewer sides are known to keep what they have.
LEMMA GoesLess ==
  ASSUME NEW P, NEW A, NEW L, NEW B \in SUBSET A, NEW K \in SUBSET L, NEW v, NEW x,
         Goes(P, A, L, v, x)
  PROVE  Goes(P, B, K, v, x)
BY DEF Goes

LEMMA EntersGoes ==
  ASSUME NEW P, Harsh(P), NEW v, NEW s \in Side, NEW m, v \in World => m \in Mons(s), NEW replacing
  PROVE  /\ Goes(P, {Other(s)}, {Other(s)}, v, Enters(v, s, m, replacing))
         /\ v \in World => Enters(v, s, m, replacing)[s].lum = UseSwitch(v[s].lum, replacing)
<1> SUFFICES ASSUME v \in World
             PROVE  /\ Goes(P, {Other(s)}, {Other(s)}, v, Enters(v, s, m, replacing))
                    /\ Enters(v, s, m, replacing)[s].lum = UseSwitch(v[s].lum, replacing)
  BY DEF Goes
<1> DEFINE t == Other(s)
           T == {t}
           a == [v EXCEPT ![s].active = m]
           b == SwitchIn(a, s, replacing)
           c == ApplyHazards(b, s)
           x == Arrives(c, s)
<1>1. Enters(v, s, m, replacing) = x
  BY DEF Enters
<1>2. t \in Side /\ T \in SUBSET Side /\ s \notin T
  BY Sides
<1>3. a \in World /\ PutIn(s, v, a)
  BY PutActive
<1> HIDE DEF a
<1>4. a \in World /\ a[s].lum = v[s].lum /\ a[t] = v[t]
  BY <1>3 DEF PutIn
<1> HIDE DEF t
<1> HIDE DEF T
<1>6. Goes(P, T, T, a, b) /\ (a \in World => b[s].lum = UseSwitch(a[s].lum, replacing)
                                              /\ Sound(b[s]))
  BY <1>2, SwitchInGoes
<1> HIDE DEF b
<1>15. b \in World /\ TeamsTame(P, a, b) /\ Sound(b[s])
       /\ \A q \in T : b[q].active = a[q].active /\ b[q].lum = a[q].lum
  BY <1>4, <1>6 DEF Goes
<1>16. TeamsTame(P, v, b)
  BY <1>3, <1>15, PutInTame
<1>5. Goes(P, T, T, v, b)
  BY <1>4, <1>15, <1>16 DEF Goes, T
<1>7. b[s].lum = UseSwitch(v[s].lum, replacing)
  BY <1>4, <1>6
<1>8. b \in World
  BY <1>4, <1>6 DEF Goes
<1>9. Tame(P, b, c)
  BY TameApplyHazards
<1> HIDE DEF c
<1>10. Tame(P, c, x)
  BY TameArrives
<1> HIDE DEF x
<1>11. Tame(P, b, x)
  BY <1>9, <1>10, TameTrans
<1>12. x[s].lum = UseSwitch(v[s].lum, replacing)
  BY <1>7, <1>8, <1>11 DEF Tame
<1>13. Goes(P, T, T, b, x)
  BY <1>2, <1>11, TameGoes
<1>14. Goes(P, T, T, v, x)
  BY <1>5, <1>13, GoesTrans
<1> QED BY <1>1, <1>12, <1>14 DEF T, t

LEMMA LeavesGoes ==
  ASSUME NEW P, NEW v, NEW s \in Side, May(P, s, "counts")
  PROVE  /\ Goes(P, Side, {s}, v, Leaves(v, s))
         /\ v \in World => Leaves(v, s)[Other(s)].lum = FoeSwitched(v[Other(s)].lum)
<1> SUFFICES ASSUME v \in World
             PROVE  /\ Goes(P, Side, {s}, v, Leaves(v, s))
                    /\ Leaves(v, s)[Other(s)].lum = FoeSwitched(v[Other(s)].lum)
  BY DEF Goes
<1> DEFINE t == Other(s)
           L == {s}
           A == Side
           a == SwitchOut(v, s)
           p == BatonPassing(v, s)
           x == FoeHasSwitched(a, t, p)
<1>1. Leaves(v, s) = x
  BY DEF Leaves
<1>2. t \in Side /\ L \in SUBSET Side /\ t \notin L /\ A \in SUBSET Side
  BY Sides
<1> HIDE DEF t, L, A, p
<1>3. Tame(P, v, a)
  BY TameSwitchOut
<1> HIDE DEF a
<1>4. a \in World /\ a[t].lum = v[t].lum
  BY <1>2, <1>3 DEF Tame
<1>5. Goes(P, A, L, a, x) /\ (a \in World => x[t].lum = FoeSwitched(a[t].lum))
  BY <1>2, FoeHasSwitchedGoes
<1> HIDE DEF x
<1>6. x[t].lum = FoeSwitched(v[t].lum)
  BY <1>4, <1>5
<1>7. Goes(P, A, L, v, x)
  BY <1>2, <1>3, <1>5, TameGoes, GoesTrans
<1> QED BY <1>1, <1>6, <1>7 DEF A, L, t

\* Who is sent out is new, and the other side stays.
LEMMA SwitchPokemonGoes ==
  ASSUME NEW P, Harsh(P), NEW v, NEW s \in Side, May(P, s, "counts"), NEW m, v \in World => m \in Mons(s),
         v \in World => Steady(P, v)
  PROVE  /\ Goes(P, {Other(s)}, {}, v, SwitchPokemon(v, s, m))
         /\ v \in World =>
              /\ SwitchPokemon(v, s, m)[s].lum = UseSwitch(v[s].lum, HP(v, s) = 0)
              /\ SwitchPokemon(v, s, m)[Other(s)].lum = FoeSwitched(v[Other(s)].lum)
<1> SUFFICES ASSUME v \in World
             PROVE  /\ Goes(P, {Other(s)}, {}, v, SwitchPokemon(v, s, m))
                    /\ SwitchPokemon(v, s, m)[s].lum = UseSwitch(v[s].lum, HP(v, s) = 0)
                    /\ SwitchPokemon(v, s, m)[Other(s)].lum = FoeSwitched(v[Other(s)].lum)
  BY DEF Goes
<1> DEFINE t == Other(s)
           T == {t}
           S == {s}
           N == {}
           replacing == HP(v, s) = 0
           a == Leaves(v, s)
           b == Enters(a, s, m, replacing)
           c == EndOfAttack(b, s)
           x == SwitchPokemon(v, s, m)
<1>1. x \in {b, c}
  BY DEF SwitchPokemon, EndOfSwitch
<1>2. t \in Side /\ T \in SUBSET Side /\ S \in SUBSET Side /\ N \in SUBSET T /\ N \in SUBSET S
      /\ N \in SUBSET Side /\ t \in T /\ s \in S
  BY Sides
<1>3. Goes(P, Side, S, v, a) /\ a[t].lum = FoeSwitched(v[t].lum)
  BY LeavesGoes
<1> HIDE DEF replacing
<1> HIDE DEF a
<1>4. a \in World /\ a[s].lum = v[s].lum
  BY <1>2, <1>3 DEF Goes
<1>17. Steady(P, a)
  BY <1>3, GoesSteady
<1>5. Goes(P, T, T, a, b) /\ b[s].lum = UseSwitch(a[s].lum, replacing)
  <2>1. Goes(P, T, T, a, b) /\ (a \in World => b[s].lum = UseSwitch(a[s].lum, replacing))
    BY EntersGoes
  <2> HIDE DEF b
  <2> QED BY <2>1, <1>4
<1> HIDE DEF b
<1>18. b \in World => Steady(P, b)
  BY <1>4, <1>5, <1>17, GoesSteady
<1> HIDE DEF T, S, N, t
<1>6. b \in World /\ b[t].lum = FoeSwitched(v[t].lum)
  BY <1>2, <1>3, <1>4, <1>5 DEF Goes
<1>7. b[s].lum = UseSwitch(v[s].lum, replacing)
  BY <1>4, <1>5
<1>8. Tame(P, b, c)
  BY <1>18, TameEndOfAttack
<1> HIDE DEF c
<1>9. c[s].lum = b[s].lum /\ c[t].lum = b[t].lum
  BY <1>2, <1>6, <1>8 DEF Tame
<1>10. Goes(P, T, N, v, a)
  BY <1>2, <1>3, GoesLess
<1>11. Goes(P, T, N, a, b)
  BY <1>2, <1>5, GoesLess
<1>12. Goes(P, T, N, b, c)
  BY <1>2, <1>8, TameGoes
<1>13. Goes(P, T, N, v, b) /\ Goes(P, T, N, v, c)
  BY <1>10, <1>11, <1>12, GoesTrans
<1> HIDE DEF x
<1>14. Goes(P, T, N, v, x)
  BY <1>1, <1>13
<1>15. x[s].lum = UseSwitch(v[s].lum, replacing)
  BY <1>1, <1>7, <1>9
<1>16. x[t].lum = FoeSwitched(v[t].lum)
  BY <1>1, <1>6, <1>9
<1> QED BY <1>14, <1>15, <1>16 DEF x, T, N, t, replacing

LEMMA NoLayers == NoHazards \in Layers
<1>1. DOMAIN NoHazards = HazardName /\ \A h \in HazardName : NoHazards[h] = 0
  BY DEF NoHazards, HazardName
<1>2. NoHazards \in [HazardName -> Int]
  BY DEF NoHazards, HazardName
<1> QED BY <1>1, <1>2, MaxLayersNat DEF Layers

LEMMA TameClearTeamField ==
  ASSUME NEW P, NEW v, NEW s \in Side
  PROVE  Tame(P, v, ClearTeamField(v, s))
<1> DEFINE a == ClearField(v, s)
           x == [a EXCEPT ![s].hazards = NoHazards]
<1>1. ClearTeamField(v, s) = x
  BY DEF ClearTeamField
<1>2. Tame(P, v, a)
  BY TameClearField
<1> HIDE DEF a
<1>3. Tame(P, a, x)
  BY NoLayers, TamePutHazards
<1> HIDE DEF x
<1> QED BY <1>1, <1>2, <1>3, TameTrans
-----------------------------------------------------------------------------
(* The end of a turn.  Nobody is revived by it and nobody gets an item; who  *)
(* falls asleep is the only one of its team.                                *)

AnyStatus == UNION {{<<s, m, st>> : m \in Mons(s), st \in {"sleep", "freeze"}} : s \in Side}

\* Without such tables an assertion may fail.
Chance == IF Tabled THEN {} ELSE {<<"all", "fails">>}
Turning == Chance \cup {<<s, "uses">> : s \in Side}

Calm == <<{}, {}, {}, AnyMon, Turning>>
Ending == <<{}, AnyStatus, {}, AnyMon, Turning>>

\* No Perish Song begins or is counted.
Mute(P) == \A s \in Side : ~May(P, s, "sings") /\ ~May(P, s, "counts")

\* With such tables the part of who sleeps is about nightmares.
Ready(v) == Tabled => \A s \in Side : Sound(v[s])
Risky(P) == Tabled \/ MayFail(P)

\* A Pokemon that is left, or counts as if it were, has a status that the clauses limit.
Afflicted(R, v, s, m, st) ==
  /\ v[s].team[m].hp # 0 \/ <<s, m>> \in R
  /\ v[s].team[m].status = st

One(R, v) ==
  \A s \in Side : \A st \in {"sleep", "freeze"} : \A m \in Mons(s) : \A n \in Mons(s) :
    Afflicted(R, v, s, m, st) /\ Afflicted(R, v, s, n, st) => m = n

\* A step of the end of a turn that leaves what the sides of L have done last
Ends(L, v, x) ==
  /\ Goes(Ending, Side, L, v, x)
  /\ v \in World /\ One({}, v) => One({}, x)

LEMMA HarshAny ==
  /\ Harsh(Calm) /\ Harsh(Ending)
  /\ Calm[1] = {} /\ Calm[2] = {} /\ Calm[3] = {}
  /\ Ending[1] = {} /\ Ending[3] = {}
BY DEF Harsh, Calm, Ending, AnyMon

LEMMA CalmMay ==
  /\ Mute(Calm) /\ Mute(Ending)
  /\ Risky(Calm) /\ Risky(Ending)
  /\ \A s \in Side : May(Calm, s, "uses") /\ May(Ending, s, "uses")
  /\ Tabled => ~MayFail(Calm) /\ ~MayFail(Ending)
BY DEF Calm, Ending, Mute, Risky, MayFail, May, Turning, Chance, Side

LEMMA ReadySteady ==
  ASSUME NEW P, Risky(P), NEW v, Ready(v)
  PROVE  Steady(P, v)
BY DEF Risky, Ready, Steady

LEMMA TamesReady ==
  ASSUME NEW P, NEW v, NEW x, TeamsTame(P, v, x), Ready(v)
  PROVE  Ready(x)
BY DEF TeamsTame, Follows, Ready

LEMMA TameReady ==
  ASSUME NEW P, NEW v, NEW x, Tame(P, v, x), v \in World, Ready(v)
  PROVE  x \in World /\ Ready(x)
BY TamesReady DEF Tame

LEMMA OneKept ==
  ASSUME NEW P, P[2] = {}, NEW v \in World, NEW x \in World, TeamsTame(P, v, x), One(P[1], v)
  PROVE  One(P[1], x)
<1> SUFFICES ASSUME NEW s \in Side, NEW st \in {"sleep", "freeze"}, NEW m \in Mons(s), NEW n \in Mons(s),
                    Afflicted(P[1], x, s, m, st), Afflicted(P[1], x, s, n, st)
             PROVE  m = n
  BY DEF One
<1>1. ASSUME NEW k \in Mons(s), Afflicted(P[1], x, s, k, st)
      PROVE  Afflicted(P[1], v, s, k, st)
  <2>1. Tamed(P, s, k, v[s].team[k], x[s].team[k])
    BY DEF TeamsTame
  <2> QED BY <1>1, <2>1 DEF Tamed, Afflicted
<1>2. Afflicted(P[1], v, s, m, st) /\ Afflicted(P[1], v, s, n, st)
  BY <1>1
<1> QED BY <1>2 DEF One

LEMMA CalmEnds ==
  ASSUME NEW L, NEW v, NEW x, Goes(Calm, Side, L, v, x)
  PROVE  Ends(L, v, x)
<1>1. Wider(Calm, Ending)
  BY DEF Wider, Calm, Ending
<1>2. v \in World /\ One({}, v) => One({}, x)
  BY HarshAny, OneKept DEF Goes
<1>3. Goes(Ending, Side, L, v, x)
  BY <1>1, GoesWider
<1> QED BY <1>2, <1>3 DEF Ends

LEMMA TameEnds ==
  ASSUME NEW L \in SUBSET Side, NEW v, NEW x, Tame(Calm, v, x)
  PROVE  Ends(L, v, x)
<1>1. Side \in SUBSET Side
  OBVIOUS
<1> QED BY <1>1, TameGoes, CalmEnds

LEMMA EndsTrans ==
  ASSUME NEW L, NEW u, NEW v, NEW x, Ends(L, u, v), Ends(L, v, x)
  PROVE  Ends(L, u, x)
<1>1. Goes(Ending, Side, L, u, x)
  BY GoesTrans DEF Ends
<1>2. u \in World => v \in World
  BY DEF Ends, Goes
<1> QED BY <1>1, <1>2 DEF Ends

LEMMA EndsRefl ==
  ASSUME NEW L \in SUBSET Side, NEW v
  PROVE  Ends(L, v, v)
BY TameRefl, TameEnds

LEMMA EndsReady ==
  ASSUME NEW L, NEW v, NEW x, Ends(L, v, x), v \in World, Ready(v)
  PROVE  x \in World /\ Ready(x)
BY TamesReady DEF Ends, Goes

LEMMA EndsLess ==
  ASSUME NEW L, NEW K \in SUBSET L, NEW v, NEW x, Ends(L, v, x)
  PROVE  Ends(K, v, x)
BY DEF Ends, Goes

\* Yawn asks again whether another of the team sleeps.
LEMMA YawnedEnds ==
  ASSUME NEW L \in SUBSET Side, NEW v, NEW s \in Side, NEW uproar
  PROVE  Ends(L, v, Yawned(v, s, uproar))
<1> DEFINE claused == TeamHasStatus(v, s, "sleep")
           x == TryToActivateYawn(v, s, uproar, claused)
<1>1. Yawned(v, s, uproar) = x
  BY DEF Yawned
<1>2. CASE claused
  <2> HIDE DEF claused
  <2>1. Tame(Calm, v, x)
    BY <1>2, TameTryToActivateYawn
  <2> HIDE DEF x
  <2> QED BY <1>1, <2>1, TameEnds
<1>3. CASE ~claused
  <2> DEFINE P == <<{}, {<<s, v[s].active, "sleep">>}, {}, AnyMon, {}>>
  <2>1. <<s, v[s].active, "sleep">> \in P[2] /\ P[1] = {} /\ P[3] = {} /\ P[4] = AnyMon
    OBVIOUS
  <2>2. v \in World => claused \/ <<s, v[s].active, "sleep">> \in P[2]
    BY <2>1
  <2> HIDE DEF P
  <2>3. Tame(P, v, x)
    <3> HIDE DEF claused
    <3> QED BY <2>2, TameTryToActivateYawn
  <2> HIDE DEF x
  <2>4. v \in World => TeamsTame(Ending, v, x)
    <3>1. v \in World => <<s, v[s].active, "sleep">> \in AnyStatus
      BY MonOf DEF AnyStatus
    <3>2. v \in World => Wider(P, Ending)
      BY <3>1 DEF Wider, P, Ending
    <3> QED BY <2>3, <3>2, TeamsTameWider DEF Tame
  <2>5. ASSUME v \in World, One({}, v)
        PROVE  One({}, x)
    <3> SUFFICES ASSUME NEW q \in Side, NEW st \in {"sleep", "freeze"},
                        NEW m \in Mons(q), NEW n \in Mons(q),
                        Afflicted({}, x, q, m, st), Afflicted({}, x, q, n, st)
                 PROVE  m = n
      BY DEF One
    <3>1. ASSUME NEW k \in Mons(q), Afflicted({}, x, q, k, st)
          PROVE  Afflicted({}, v, q, k, st) \/ (q = s /\ k = v[s].active /\ st = "sleep")
      <4>1. Tamed(P, q, k, v[q].team[k], x[q].team[k])
        BY <2>3, <2>5 DEF Tame, TeamsTame
      <4>2. <<q, k, st>> \in P[2] => q = s /\ k = v[s].active /\ st = "sleep"
        BY DEF P
      <4> QED BY <2>1, <3>1, <4>1, <4>2 DEF Tamed, Afflicted
    <3>2. DOMAIN v[s].team = Mons(s)
      BY <2>5, SideOf DEF OneSide
    <3>3. \A k \in Mons(s) : ~Afflicted({}, v, s, k, "sleep")
      BY <1>3, <3>2 DEF TeamHasStatus, Afflicted
    <3>4. CASE q = s /\ st = "sleep"
      BY <3>1, <3>3, <3>4
    <3>5. CASE ~(q = s /\ st = "sleep")
      BY <2>5, <3>1, <3>5 DEF One
    <3> QED BY <3>4, <3>5
  <2>6. Goes(Ending, Side, L, v, x)
    BY <2>3, <2>4 DEF Tame, Goes
  <2> QED BY <1>1, <2>5, <2>6 DEF Ends
<1> QED BY <1>2, <1>3

LEMMA TameAdvanceEnvironment ==
  ASSUME NEW P, NEW v
  PROVE  Tame(P, v, AdvanceEnvironment(v))
<1> SUFFICES ASSUME v \in World  PROVE Tame(P, v, AdvanceEnvironment(v))
  BY DEF Tame
<1> DEFINE turns == IF v.turns > 0 THEN v.turns - 1 ELSE v.turns
           weather == IF turns = 0 THEN Clear ELSE v.weather
           x == [v EXCEPT !.weather = weather, !.turns = turns]
<1>1. AdvanceEnvironment(v) = x
  BY DEF AdvanceEnvironment, World
<1>2. v.turns \in -1..8 /\ v.weather \in WeatherName
  BY DEF World
<1>3. turns \in -1..8
  BY <1>2
<1>4. weather \in WeatherName
  BY <1>2 DEF WeatherName
<1> HIDE DEF turns, weather
<1>5. Tame(P, v, x)
  BY <1>3, <1>4, TamePutWeather
<1> QED BY <1>1, <1>5

LEMMA TameWeatherEffect ==
  ASSUME NEW P, Harsh(P), NEW v, NEW s \in Side
  PROVE  Tame(P, v, WeatherEffect(v, s))
<1> DEFINE n == WeatherHeals(v, s)
           d == 16
           a == ClearStatus(v, s)
           b == Heal(v, s, n, d)
<1>1. WeatherEffect(v, s) \in {v, a, b}
  BY DEF WeatherEffect
<1>2. n \in Int /\ d \in Nat \ {0}
  BY DEF WeatherHeals
<1>3. v \in World => Hurtable(P, v, s)
  BY HarshHurts
<1> HIDE DEF n, d
<1>4. Tame(P, v, a) /\ Tame(P, v, b)
  BY <1>2, <1>3, TameClearStatus, TameHeal
<1> QED BY <1>1, <1>4, TameRefl

LEMMA TamePutWish ==
  ASSUME NEW P, NEW v, NEW s \in Side, NEW n, v \in World => n \in -1..1,
         NEW x, x = [v EXCEPT ![s].wish = n]
  PROVE  Tame(P, v, x)
<1> SUFFICES ASSUME v \in World  PROVE Tame(P, v, x)
  BY DEF Tame
<1> DEFINE r == [v[s] EXCEPT !.wish = n]
<1>1. r \in OneSide(s) /\ r.active = v[s].active /\ r.lum = v[s].lum /\ r.team = v[s].team
      /\ r.count = v[s].count /\ r.state = v[s].state
  BY SideOf DEF OneSide
<1>2. x = [v EXCEPT ![s] = r]
  BY SideOf
<1> HIDE DEF r
<1> QED BY <1>1, <1>2, PutTame, HearsSame

LEMMA TameDecrementWish ==
  ASSUME NEW P, Harsh(P), NEW v, NEW s \in Side
  PROVE  Tame(P, v, DecrementWish(v, s))
<1> SUFFICES ASSUME v \in World  PROVE Tame(P, v, DecrementWish(v, s))
  BY DEF Tame
<1> DEFINE k == Inactive
           a == [v EXCEPT ![s].wish = k]
           one == 1
           two == 2
           b == Heal(a, s, one, two)
           n == v[s].wish - 1
           c == [v EXCEPT ![s].wish = n]
           x == DecrementWish(v, s)
<1>1. x \in {v, b} \/ (v[s].wish # Inactive /\ v[s].wish # 0 /\ x = c)
  BY DEF DecrementWish
<1>2. v[s].wish \in -1..1
  BY SideOf DEF OneSide
<1>3. k \in -1..1 /\ one \in Int /\ two \in Nat \ {0}
  BY DEF Inactive
<1>4. v[s].wish # Inactive /\ v[s].wish # 0 => n \in -1..1
  BY <1>2 DEF Inactive
<1> HIDE DEF k, one, two, n, x
<1>5. Tame(P, v, a)
  BY <1>3, TamePutWish
<1>6. v[s].wish # Inactive /\ v[s].wish # 0 => Tame(P, v, c)
  BY <1>4, TamePutWish
<1> HIDE DEF a, c
<1>7. a \in World => Hurtable(P, a, s)
  BY HarshHurts
<1>8. Tame(P, a, b)
  BY <1>3, <1>7, TameHeal
<1> HIDE DEF b
<1>9. Tame(P, v, x)
  BY <1>1, <1>5, <1>6, <1>8, TameTrans, TameRefl
<1> QED BY <1>9 DEF x

LEMMA TameRootOrRing ==
  ASSUME NEW P, Harsh(P), NEW v, NEW s \in Side, NEW flag
  PROVE  Tame(P, v, RootOrRing(v, s, flag))
<1> DEFINE n13 == 13  n160 == 160  n1 == 1  n16 == 16
           a == Heal(v, s, n13, n160)
           b == Heal(v, s, n1, n16)
<1>1. RootOrRing(v, s, flag) \in {v, a, b}
  BY DEF RootOrRing
<1>2. n13 \in Int /\ n160 \in Nat \ {0} /\ n1 \in Int /\ n16 \in Nat \ {0}
  OBVIOUS
<1>3. v \in World => Hurtable(P, v, s)
  BY HarshHurts
<1> HIDE DEF n13, n160, n1, n16
<1>4. Tame(P, v, a) /\ Tame(P, v, b)
  BY <1>2, <1>3, TameHeal
<1> QED BY <1>1, <1>4, TameRefl

LEMMA TameSpeedBoostOrShedSkin ==
  ASSUME NEW P, NEW v, NEW s \in Side, NEW sheds
  PROVE  Tame(P, v, SpeedBoostOrShedSkin(v, s, sheds))
<1> DEFINE n == 1
           a == Boost(v, s, {"spe"}, n)
           b == ClearStatus(v, s)
<1>1. SpeedBoostOrShedSkin(v, s, sheds) \in {v, a, b} /\ n \in Int
  BY DEF SpeedBoostOrShedSkin
<1> HIDE DEF n
<1>2. Tame(P, v, a) /\ Tame(P, v, b)
  BY <1>1, TameBoost, TameClearStatus
<1> QED BY <1>1, <1>2, TameRefl

\* A sixteenth, or minus an eighth
LEMMA TameFraction ==
  ASSUME NEW P, Harsh(P), NEW v, NEW s \in Side
  PROVE  Tame(P, v, Heal(v, s, 1, 16)) /\ Tame(P, v, Heal(v, s, -1, 8))
<1> DEFINE n1 == 1  n16 == 16  m1 == -1  n8 == 8
<1>1. n1 \in Int /\ n16 \in Nat \ {0} /\ m1 \in Int /\ n8 \in Nat \ {0}
  OBVIOUS
<1>2. v \in World => Hurtable(P, v, s)
  BY HarshHurts
<1> HIDE DEF n1, n16, m1, n8
<1>3. Tame(P, v, Heal(v, s, n1, n16)) /\ Tame(P, v, Heal(v, s, m1, n8))
  BY <1>1, <1>2, TameHeal
<1> QED BY <1>3 DEF n1, n16, m1, n8

LEMMA TameHealingItem ==
  ASSUME NEW P, Harsh(P), NEW v, NEW s \in Side
  PROVE  /\ Tame(P, v, HealingItem(v, s))
         /\ Tame(P, v, StickyBarb(v, s))
         /\ Tame(P, v, Sandstorm(v, s))
         /\ Tame(P, v, Leftovers(v, s))
<1>1. /\ HealingItem(v, s) \in {v, Heal(v, s, 1, 16), Heal(v, s, -1, 8)}
      /\ StickyBarb(v, s) \in {v, Heal(v, s, -1, 8)}
      /\ Sandstorm(v, s) \in {v, Heal(v, s, -1, 8)}
      /\ Leftovers(v, s) \in {v, Heal(v, s, 1, 16)}
  BY DEF HealingItem, StickyBarb, Sandstorm, Leftovers
<1>2. Tame(P, v, v) /\ Tame(P, v, Heal(v, s, 1, 16)) /\ Tame(P, v, Heal(v, s, -1, 8))
  BY TameFraction, TameRefl
<1> QED BY <1>1, <1>2

LEMMA TameStatusOrb ==
  ASSUME NEW P, NEW v, NEW s \in Side
  PROVE  Tame(P, v, StatusOrb(v, s))
<1> DEFINE burn == "burn"  toxic == "toxic"
           a == SetStatus(v, s, burn)
           b == SetStatus(v, s, toxic)
<1>1. StatusOrb(v, s) \in {v, a, b}
  BY DEF StatusOrb
<1>2. burn \in Statuses /\ Takes(P, v, s, burn) /\ toxic \in Statuses /\ Takes(P, v, s, toxic)
  BY DEF Statuses, Takes
<1> HIDE DEF burn, toxic
<1>3. Tame(P, v, a) /\ Tame(P, v, b)
  BY <1>2, TameSetStatus
<1> QED BY <1>1, <1>3, TameRefl

LEMMA TameAdvanceCounters ==
  ASSUME NEW P, NEW v, NEW s \in Side
  PROVE  Tame(P, v, AdvanceCounters(v, s))
<1> DEFINE c1 == "disable"  c2 == "encore"  c3 == "taunt"  c4 == "magnet_rise"
           c5 == "heal_block"  c6 == "embargo"
           a1 == Advance(v, s, c1)
           a2 == Advance(a1, s, c2)
           a3 == Advance(a2, s, c3)
           a4 == Advance(a3, s, c4)
           a5 == Advance(a4, s, c5)
           a6 == Advance(a5, s, c6)
<1>1. AdvanceCounters(v, s) = a6
  BY DEF AdvanceCounters
<1>2. /\ c1 \in Counter /\ c2 \in Counter /\ c3 \in Counter
      /\ c4 \in Counter /\ c5 \in Counter /\ c6 \in Counter
  BY CounterNames
<1>9. "perish_song" \notin {c1, c2, c3, c4, c5, c6}
  OBVIOUS
<1> HIDE DEF c1, c2, c3, c4, c5, c6, a1, a2, a3, a4, a5, a6
<1>3. Tame(P, v, a1)
  BY <1>2, <1>9, TameAdvance DEF a1
<1>4. Tame(P, a1, a2)
  BY <1>2, <1>9, TameAdvance DEF a2
<1>5. Tame(P, a2, a3)
  BY <1>2, <1>9, TameAdvance DEF a3
<1>6. Tame(P, a3, a4)
  BY <1>2, <1>9, TameAdvance DEF a4
<1>7. Tame(P, a4, a5)
  BY <1>2, <1>9, TameAdvance DEF a5
<1>8. Tame(P, a5, a6)
  BY <1>2, <1>9, TameAdvance DEF a6
<1> QED BY <1>1, <1>3, <1>4, <1>5, <1>6, <1>7, <1>8, TameTrans

LEMMA TameHealedInTurn ==
  ASSUME NEW P, Harsh(P), NEW v, NEW s \in Side, NEW flags
  PROVE  Tame(P, v, HealedInTurn(v, s, flags))
<1> DEFINE f1 == "ingrained"  f2 == "aqua_ring"  sheds == flags.sheds
           a == RootOrRing(v, s, f1)
           b == RootOrRing(a, s, f2)
           c == SpeedBoostOrShedSkin(b, s, sheds)
           d == HealingItem(c, s)
<1>1. HealedInTurn(v, s, flags) = d
  BY DEF HealedInTurn
<1> HIDE DEF f1, f2, sheds, a, b, c, d
<1>2. Tame(P, v, a)
  BY TameRootOrRing DEF a
<1>3. Tame(P, a, b)
  BY TameRootOrRing DEF b
<1>4. Tame(P, b, c)
  BY TameSpeedBoostOrShedSkin DEF c
<1>5. Tame(P, c, d)
  BY TameHealingItem DEF d
<1> QED BY <1>1, <1>2, <1>3, <1>4, <1>5, TameTrans

LEMMA TameHurtInTurn ==
  ASSUME NEW P, Harsh(P), NEW v, NEW s \in Side, NEW uproar,
         v \in World => Steady(P, v)
  PROVE  Tame(P, v, HurtInTurn(v, s, uproar))
<1> DEFINE a == StatusAndLeechSeedEffects(v, s, uproar)
           b == StatusOrb(a, s)
           c == HandleCurse(b, s)
           d == PartialTrapDamage(c, s)
<1>1. HurtInTurn(v, s, uproar) = d
  BY DEF HurtInTurn
<1> HIDE DEF a, b, c, d
<1>2. Tame(P, v, a)
  BY TameStatusAndLeechSeedEffects DEF a
<1>3. Tame(P, a, b)
  BY TameStatusOrb DEF b
<1>4. Tame(P, b, c)
  BY TameHandleCurse DEF c
<1>5. Tame(P, c, d)
  BY TamePartialTrapDamage DEF d
<1> QED BY <1>1, <1>2, <1>3, <1>4, <1>5, TameTrans

-----------------------------------------------------------------------------
(* Perish Song over the end of a turn *)

Song(v, s) == v[s].count["perish_song"]

\* The songs are left alone, and who is down stays down.
SongsStay(v, x) == \A s \in Side : Song(x, s) = Song(v, s) /\ (HP(v, s) = 0 => HP(x, s) = 0)

\* The song goes on by one, and the fourth end of a turn is the last.
SongAdvances(v, x, s) ==
  IF Song(v, s) = Inactive THEN Song(x, s) = Inactive
  ELSE IF Song(v, s) = 3 THEN Song(x, s) = Inactive /\ HP(x, s) = 0
  ELSE Song(x, s) = Song(v, s) + 1
SongsGoOn(v, x) == \A s \in Side : SongAdvances(v, x, s)

LEMMA QuietSongs ==
  ASSUME NEW P, P[1] = {}, Mute(P), NEW v \in World, NEW x, TeamsTame(P, v, x),
         \A s \in Side : x[s].active = v[s].active
  PROVE  SongsStay(v, x)
<1> SUFFICES ASSUME NEW s \in Side
             PROVE  Song(x, s) = Song(v, s) /\ (HP(v, s) = 0 => HP(x, s) = 0)
  BY DEF SongsStay
<1> DEFINE m == v[s].active
<1>1. m \in Mons(s)
  BY MonOf
<1>2. Hears(P, s, v[s], x[s]) /\ Tamed(P, s, m, v[s].team[m], x[s].team[m])
  BY <1>1 DEF TeamsTame
<1>3. Song(x, s) = Song(v, s)
  BY <1>2 DEF Hears, Mute, Song
<1>4. HP(v, s) = 0 => HP(x, s) = 0
  BY <1>2 DEF Tamed, HP, Mon
<1> QED BY <1>3, <1>4

LEMMA SongsStayTrans ==
  ASSUME NEW u, NEW v, NEW x, SongsStay(u, v), SongsStay(v, x)
  PROVE  SongsStay(u, x)
BY DEF SongsStay

LEMMA SongsGoOnWithin ==
  ASSUME NEW u, NEW v, NEW y, NEW x, SongsStay(u, v), SongsGoOn(v, y), SongsStay(y, x)
  PROVE  SongsGoOn(u, x)
BY DEF SongsStay, SongsGoOn, SongAdvances

LEMMA TameSongs ==
  ASSUME NEW v \in World, NEW x, Tame(Calm, v, x)
  PROVE  SongsStay(v, x)
<1> QED BY HarshAny, CalmMay, QuietSongs DEF Tame

LEMMA EndsSongs ==
  ASSUME NEW L, NEW v \in World, NEW x, Ends(L, v, x)
  PROVE  SongsStay(v, x)
<1> QED BY HarshAny, CalmMay, QuietSongs DEF Ends, Goes

AnySong == Turning \cup UNION {{<<s, "sings">>, <<s, "counts">>} : s \in Side}

\* The song may be counted, and may begin.
Loud == <<{}, {}, {}, AnyMon, AnySong>>
Closing == <<{}, AnyStatus, {}, AnyMon, AnySong>>

LEMMA LoudMay ==
  /\ Harsh(Loud) /\ Loud[1] = {} /\ Loud[2] = {} /\ Loud[3] = {}
  /\ Closing[1] = {} /\ Closing[3] = {}
  /\ Wider(Loud, Closing) /\ Wider(Calm, Loud) /\ Wider(Ending, Closing)
  /\ \A s \in Side : May(Loud, s, "counts") /\ May(Loud, s, "sings")
  /\ Risky(Loud) /\ (Tabled => ~MayFail(Loud) /\ ~MayFail(Closing))
BY DEF Harsh, Loud, Closing, Calm, Ending, AnyMon, AnySong, Wider, May, Risky, MayFail, Turning,
       Chance, Side

\* One side's song
LEMMA SongTurn ==
  ASSUME NEW v \in World, NEW s \in Side, NEW x, x = PerishSongTurn(v, s)
  PROVE  /\ x \in World /\ SongAdvances(v, x, s)
         /\ Song(x, Other(s)) = Song(v, Other(s))
         /\ \A q \in Side : HP(v, q) = 0 => HP(x, q) = 0
<1> DEFINE t == Other(s)
           c == "perish_song"
           P == <<{}, {}, {}, AnyMon, {<<s, "counts">>}>>
           a == Advance(v, s, c)
           b == Faint(a, s)
<1>1. t \in Side /\ t # s /\ c \in Counter
  BY Sides, CounterNames
<1>2. Harsh(P) /\ May(P, s, "counts") /\ P[1] = {} /\ P[5] = {<<s, "counts">>}
  BY DEF Harsh, AnyMon, May
<1> HIDE DEF P, t
<1>3. Tame(P, v, x)
  BY <1>2, TamePerishSongTurn
<1>4. x \in World
  BY <1>3 DEF Tame
<1>5. \A q \in Side : HP(v, q) = 0 => HP(x, q) = 0
  <2> SUFFICES ASSUME NEW q \in Side, HP(v, q) = 0  PROVE HP(x, q) = 0
    OBVIOUS
  <2>1. v[q].active \in Mons(q)
    BY MonOf
  <2>2. Tamed(P, q, v[q].active, v[q].team[v[q].active], x[q].team[v[q].active])
        /\ x[q].active = v[q].active
    BY <1>3, <2>1 DEF Tame, TeamsTame
  <2> QED BY <1>2, <2>2 DEF Tamed, HP, Mon
<1>6. Song(x, t) = Song(v, t)
  <2>1. Hears(P, t, v[t], x[t])
    BY <1>1, <1>3 DEF Tame, TeamsTame
  <2> QED BY <1>1, <1>2, <2>1 DEF Hears, May, Song
<1>7. Song(v, s) \in -1..3 /\ Duration[c] = 3
  <2>1. Duration[c] = 3
    BY DEF Duration
  <2> QED BY <1>1, <2>1, SideOf DEF OneSide, Counts, Inactive, Song
<1>8. x = IF Active(v, s, c) /\ ~Active(a, s, c) THEN b ELSE a
  BY DEF PerishSongTurn
<1>9. CASE Song(v, s) = Inactive
  <2>1. a = v
    BY <1>9 DEF Advance, Active, Song
  <2>2. x = v
    BY <1>8, <1>9, <2>1 DEF Active, Song
  <2> QED BY <1>4, <1>5, <1>6, <1>9, <2>2 DEF SongAdvances, t
<1>10. CASE Song(v, s) = 3
  <2>1. a = StopCounters(v, s, {c})
    BY <1>7, <1>10 DEF Advance, Active, Song, Inactive
  <2>2. Song(a, s) = Inactive
    <3>1. a[s].count = [k \in Counter |-> IF k \in {c} THEN Inactive ELSE v[s].count[k]]
      BY <2>1, SideOf DEF StopCounters, World, Side, OneSide
    <3> HIDE DEF a
    <3> QED BY <3>1, <1>1 DEF Song
  <2>3. x = b
    BY <1>8, <1>10, <2>2 DEF Active, Song, Inactive
  <2>4. a \in World
    <3>1. Tame(P, v, a)
      BY <1>1, <1>2, TameAdvance
    <3> QED BY <3>1 DEF Tame
  <2> HIDE DEF a
  <2>5. Hurtable(Calm, a, s)
    BY <2>4, HarshAny, HarshHurts
  <2>6. Tame(Calm, a, b)
    BY <2>5, TameFaint
  <2>7. Song(b, s) = Inactive
    BY <2>2, <2>4, <2>6, TameSongs DEF SongsStay
  <2>8. HP(b, s) = 0
    BY <2>4, FaintsHP
  <2> QED BY <1>4, <1>5, <1>6, <1>10, <2>3, <2>7, <2>8 DEF SongAdvances, t, Inactive
<1>11. CASE Song(v, s) \notin {Inactive, 3}
  <2>1. a = [v EXCEPT ![s].count[c] = @ + 1]
    BY <1>7, <1>11 DEF Advance, Active, Song
  <2>2. Song(a, s) = Song(v, s) + 1
    BY <2>1, <1>1, SideOf DEF Song, World, Side, OneSide, Counts
  <2>3. x = a
    BY <1>7, <1>8, <1>11, <2>2 DEF Active, Song, Inactive
  <2> QED BY <1>4, <1>5, <1>6, <1>11, <2>2, <2>3 DEF SongAdvances, t
<1> QED BY <1>9, <1>10, <1>11

\* Both sides' songs
LEMMA SongTurns ==
  ASSUME NEW v \in World, NEW s \in Side, NEW x,
         x = PerishSongTurn(PerishSongTurn(v, s), Other(s))
  PROVE  SongsGoOn(v, x) /\ Tame(Loud, v, x)
<1> DEFINE t == Other(s)
           a == PerishSongTurn(v, s)
<1>1. t \in Side /\ Other(t) = s
  BY DEF Side, Other
<1>2. x = PerishSongTurn(a, t)
  OBVIOUS
<1> HIDE DEF t
<1>3. Tame(Loud, v, a) /\ Tame(Loud, a, x)
  BY <1>1, <1>2, LoudMay, TamePerishSongTurn
<1>4. a \in World /\ SongAdvances(v, a, s) /\ Song(a, t) = Song(v, t)
  BY SongTurn DEF t
<1> HIDE DEF a
<1>5. /\ SongAdvances(a, x, t) /\ Song(x, s) = Song(a, s)
      /\ \A q \in Side : HP(a, q) = 0 => HP(x, q) = 0
  BY <1>1, <1>2, <1>4, SongTurn
<1>6. SongAdvances(v, x, s) /\ SongAdvances(v, x, t)
  BY <1>4, <1>5 DEF SongAdvances
<1>7. SongsGoOn(v, x)
  BY <1>6, TwoSides DEF SongsGoOn, t
<1> QED BY <1>3, <1>7, TameTrans

\* The end of a turn, the songs of both sides within it
Sounds(v, x) ==
  /\ Goes(Closing, Side, {}, v, x)
  /\ v \in World /\ One({}, v) => One({}, x)

LEMMA EndsSounds ==
  ASSUME NEW L, NEW v, NEW x, Ends(L, v, x)
  PROVE  Sounds(v, x)
<1>1. Goes(Closing, Side, L, v, x)
  BY LoudMay, GoesWider DEF Ends
<1> QED BY <1>1 DEF Ends, Sounds, Goes

LEMMA LoudSounds ==
  ASSUME NEW v, NEW x, Tame(Loud, v, x)
  PROVE  Sounds(v, x)
<1> DEFINE N == {}  A == Side
<1>1. N \in SUBSET Side /\ A \in SUBSET Side
  OBVIOUS
<1> HIDE DEF N, A
<1>2. Goes(Closing, A, N, v, x)
  BY <1>1, LoudMay, TameGoes, GoesWider
<1>3. v \in World /\ One({}, v) => One({}, x)
  BY LoudMay, OneKept DEF Tame
<1> QED BY <1>2, <1>3 DEF Sounds, N, A

LEMMA SoundsTrans ==
  ASSUME NEW u, NEW v, NEW x, Sounds(u, v), Sounds(v, x)
  PROVE  Sounds(u, x)
<1>1. Goes(Closing, Side, {}, u, x)
  BY GoesTrans DEF Sounds
<1>2. u \in World => v \in World
  BY DEF Sounds, Goes
<1> QED BY <1>1, <1>2 DEF Sounds

\* What is drawn for the end of a turn fits what each has done last.
Fits(v, flags) == \A s \in Side : flags[s].ending \in LockInEnds(v[s].lum)

LEMMA FitsKept ==
  ASSUME NEW L, NEW v \in World, NEW x, Ends(L, v, x)
  PROVE  x \in World /\ \A s \in L : x[s].lum = v[s].lum
BY DEF Ends, Goes

LEMMA AdvancedLockInEnds ==
  ASSUME NEW L \in SUBSET Side, NEW v, NEW s \in Side, s \notin L, NEW ending,
         v \in World => ending \in LockInEnds(v[s].lum)
  PROVE  Ends(L, v, AdvancedLockIn(v, s, ending))
<1> DEFINE A == Side
<1>1. A \in SUBSET Side
  OBVIOUS
<1> HIDE DEF A
<1>2. Goes(Calm, A, L, v, AdvancedLockIn(v, s, ending))
  <2>1. (Tabled \/ MayFail(Calm)) /\ May(Calm, s, "uses")
    BY CalmMay DEF Risky
  <2> QED BY <1>1, <2>1, AdvancedLockInGoes
<1> QED BY <1>2, CalmEnds DEF A

LEMMA OtherEffectsEnds ==
  ASSUME NEW L \in SUBSET Side, NEW v \in World, NEW s \in Side, s \notin L, NEW flags,
         flags.ending \in LockInEnds(v[s].lum), Ready(v)
  PROVE  Ends(L, v, OtherEffects(v, s, flags))
<1> DEFINE uproar == EitherUproars(v, s)
           ending == flags.ending
           a == HealedInTurn(v, s, flags)
           b == HurtInTurn(a, s, uproar)
           c == AdvancedLockIn(b, s, ending)
           d == AdvanceCounters(c, s)
           e == Yawned(d, s, uproar)
           f == StickyBarb(e, s)
<1>1. OtherEffects(v, s, flags) \in {v, f}
  BY DEF OtherEffects
<1>2. ending \in LockInEnds(v[s].lum)
  OBVIOUS
<1> HIDE DEF uproar, ending, a, b, c, d, e, f
<1>3. Tame(Calm, v, a)
  BY HarshAny, TameHealedInTurn DEF a
<1>4. Tame(Calm, a, b)
  <2>1. a \in World => Steady(Calm, a)
    BY <1>3, CalmMay, TameReady, ReadySteady
  <2> QED BY <2>1, HarshAny, TameHurtInTurn DEF b
<1>5. Tame(Calm, v, b)
  BY <1>3, <1>4, TameTrans
<1>6. b[s].lum = v[s].lum
  BY <1>5 DEF Tame
<1>7. Ends(L, b, c)
  BY <1>2, <1>6, AdvancedLockInEnds DEF c
<1>8. Tame(Calm, c, d)
  BY TameAdvanceCounters DEF d
<1>9. Ends(L, d, e)
  BY YawnedEnds DEF e
<1>10. Tame(Calm, e, f)
  BY HarshAny, TameHealingItem DEF f
<1>11. Ends(L, v, b) /\ Ends(L, c, d) /\ Ends(L, e, f)
  BY <1>5, <1>8, <1>10, TameEnds
<1>12. Ends(L, v, c)
  BY <1>7, <1>11, EndsTrans
<1>13. Ends(L, v, d)
  BY <1>11, <1>12, EndsTrans
<1>14. Ends(L, v, e)
  BY <1>9, <1>13, EndsTrans
<1>15. Ends(L, v, f)
  BY <1>11, <1>14, EndsTrans
<1> QED BY <1>1, <1>15, EndsRefl

\* Each of the two in turn advances what it is locked in to.
LEMMA Generation1EndOfTurnEnds ==
  ASSUME NEW v \in World, NEW first \in Side, NEW flags, Fits(v, flags)
  PROVE  Ends({}, v, Generation1EndOfTurn(v, first, flags))
<1> DEFINE last == Other(first)
           L == {last}
           N == {}
           e1 == flags[first].ending
           e2 == flags[last].ending
           a == AdvancedLockIn(v, first, e1)
           x == AdvancedLockIn(a, last, e2)
<1>1. Generation1EndOfTurn(v, first, flags) = x
  BY DEF Generation1EndOfTurn
<1>2. last \in Side /\ L \in SUBSET Side /\ first \notin L /\ last \in L /\ N \in SUBSET L
      /\ N \in SUBSET Side /\ last \notin N
  BY Sides
<1>3. e1 \in LockInEnds(v[first].lum) /\ e2 \in LockInEnds(v[last].lum)
  BY <1>2 DEF Fits
<1> HIDE DEF last, L, N, e1, e2, a, x
<1>4. Ends(L, v, a)
  BY <1>2, <1>3, AdvancedLockInEnds DEF a
<1>5. e2 \in LockInEnds(a[last].lum)
  BY <1>2, <1>3, <1>4, FitsKept
<1>6. Ends(N, a, x)
  BY <1>2, <1>5, AdvancedLockInEnds DEF x
<1>7. Ends(N, v, a)
  BY <1>2, <1>4, EndsLess
<1>8. Ends(N, v, x)
  BY <1>6, <1>7, EndsTrans
<1> QED BY <1>1, <1>8 DEF N

LEMMA FitsThere ==
  ASSUME NEW P, NEW v \in World, NEW x, Tame(P, v, x), NEW flags, Fits(v, flags)
  PROVE  x \in World /\ Fits(x, flags)
BY DEF Tame, Fits

LEMMA TameSand ==
  ASSUME NEW P, Harsh(P), NEW v, NEW s \in Side, NEW t \in Side
  PROVE  /\ Tame(P, v, Sandstorm(Sandstorm(v, s), t))
         /\ Tame(P, v, Leftovers(Leftovers(v, s), t))
         /\ Tame(P, v, WeatherEffect(WeatherEffect(v, s), t))
         /\ Tame(P, v, DecrementWish(DecrementWish(v, s), t))
<1>1. \A a, q : q \in Side => /\ Tame(P, a, Sandstorm(a, q))
                              /\ Tame(P, a, Leftovers(a, q))
                              /\ Tame(P, a, WeatherEffect(a, q))
                              /\ Tame(P, a, DecrementWish(a, q))
  BY TameHealingItem, TameWeatherEffect, TameDecrementWish
<1>2. Tame(P, v, Sandstorm(Sandstorm(v, s), t))
  BY <1>1, TameTrans
<1>3. Tame(P, v, Leftovers(Leftovers(v, s), t))
  BY <1>1, TameTrans
<1>4. Tame(P, v, WeatherEffect(WeatherEffect(v, s), t))
  BY <1>1, TameTrans
<1>5. Tame(P, v, DecrementWish(DecrementWish(v, s), t))
  BY <1>1, TameTrans
<1> QED BY <1>2, <1>3, <1>4, <1>5

LEMMA TameThaw ==
  ASSUME NEW P, NEW v, NEW s \in Side, NEW thaws
  PROVE  Tame(P, v, Thaw(v, s, thaws))
BY TameClearStatus, TameRefl DEF Thaw

LEMMA Generation2EndOfTurnEnds ==
  ASSUME NEW v \in World, NEW first \in Side, NEW flags, Fits(v, flags)
  PROVE  /\ Sounds(v, Generation2EndOfTurn(v, first, flags))
         /\ SongsGoOn(v, Generation2EndOfTurn(v, first, flags))
<1> DEFINE last == Other(first)
           N == {}
           t1 == flags[first].thaws
           t2 == flags[last].thaws
           c == "encore"
           a == AdvanceEnvironment(v)
           b1 == Sandstorm(a, first)
           b == Sandstorm(b1, last)
           d1 == PerishSongTurn(b, first)
           d == PerishSongTurn(d1, last)
           e1 == Leftovers(d, first)
           e == Leftovers(e1, last)
           f1 == Thaw(e, first, t1)
           f == Thaw(f1, last, t2)
           g1 == Advance(f, first, c)
           g == Advance(g1, last, c)
           x == Generation1EndOfTurn(g, first, flags)
<1>1. Generation2EndOfTurn(v, first, flags) = x
  BY DEF Generation2EndOfTurn
<1>2. last \in Side /\ c \in Counter /\ c # "perish_song" /\ N \in SUBSET Side
  BY Sides, CounterNames
<1> HIDE DEF last, N, t1, t2, c, a, g, x
<1>3. Tame(Calm, v, a)
  BY TameAdvanceEnvironment DEF a
<1>4. Tame(Calm, a, b)
  BY <1>2, HarshAny, TameSand
<1> HIDE DEF b1, b
<1>5. b \in World => SongsGoOn(b, d) /\ Tame(Loud, b, d)
  BY SongTurns DEF last
<1> HIDE DEF d1, d
<1>6. Tame(Calm, d, e)
  BY <1>2, HarshAny, TameSand
<1> HIDE DEF e1, e
<1>7. Tame(Calm, e, f1)
  BY TameThaw
<1> HIDE DEF f1
<1>8. Tame(Calm, f1, f)
  BY <1>2, TameThaw
<1> HIDE DEF f
<1>9. Tame(Calm, f, g1)
  BY <1>2, TameAdvance
<1> HIDE DEF g1
<1>10. Tame(Calm, g1, g)
  BY <1>2, TameAdvance DEF g
<1>11. Tame(Calm, v, b)
  BY <1>3, <1>4, TameTrans
<1>12. Tame(Calm, d, g)
  BY <1>6, <1>7, <1>8, <1>9, <1>10, TameTrans
<1>13. b \in World /\ Fits(b, flags)
  BY <1>11, FitsThere
<1>14. d \in World /\ Fits(d, flags) /\ SongsGoOn(b, d) /\ Tame(Loud, b, d)
  BY <1>5, <1>13, FitsThere
<1>15. g \in World /\ Fits(g, flags)
  BY <1>12, <1>14, FitsThere
<1>16. Ends(N, g, x)
  BY <1>15, Generation1EndOfTurnEnds DEF x, N
<1>17. SongsStay(v, b) /\ SongsStay(d, g) /\ SongsStay(g, x)
  BY <1>11, <1>12, <1>14, <1>15, <1>16, TameSongs, EndsSongs
<1>18. SongsGoOn(v, x)
  BY <1>14, <1>17, SongsStayTrans, SongsGoOnWithin
<1>19. Ends(N, v, b) /\ Ends(N, d, g)
  BY <1>2, <1>11, <1>12, TameEnds
<1>20. Sounds(v, b) /\ Sounds(b, d) /\ Sounds(d, g) /\ Sounds(g, x)
  BY <1>14, <1>16, <1>19, EndsSounds, LoudSounds
<1>21. Sounds(v, x)
  BY <1>20, SoundsTrans
<1> QED BY <1>1, <1>18, <1>21

LEMMA Generation3EndOfTurnEnds ==
  ASSUME NEW v \in World, NEW first \in Side, NEW flags, Fits(v, flags), Ready(v)
  PROVE  /\ Sounds(v, Generation3EndOfTurn(v, first, flags))
         /\ SongsGoOn(v, Generation3EndOfTurn(v, first, flags))
<1> DEFINE last == Other(first)
           L == {last}
           N == {}
           fl1 == flags[first]
           fl2 == flags[last]
           a1 == DecrementWish(v, first)
           a == DecrementWish(a1, last)
           b == AdvanceEnvironment(a)
           c1 == WeatherEffect(b, first)
           c == WeatherEffect(c1, last)
           d == OtherEffects(c, first, fl1)
           e == OtherEffects(d, last, fl2)
           f1 == PerishSongTurn(e, first)
           x == PerishSongTurn(f1, last)
<1>1. Generation3EndOfTurn(v, first, flags) = x
  BY DEF Generation3EndOfTurn, EnvironmentEffects
<1>2. last \in Side /\ L \in SUBSET Side /\ first \notin L /\ last \in L /\ N \in SUBSET L
      /\ N \in SUBSET Side /\ last \notin N
  BY Sides
<1> HIDE DEF last, L, N, b, d, e
<1>3. Tame(Calm, v, a)
  BY <1>2, HarshAny, TameSand
<1> HIDE DEF a1, a
<1>4. Tame(Calm, a, b)
  BY TameAdvanceEnvironment DEF b
<1>5. Tame(Calm, b, c)
  BY <1>2, HarshAny, TameSand
<1> HIDE DEF c1, c
<1>6. Tame(Calm, v, c)
  BY <1>3, <1>4, <1>5, TameTrans
<1>7. c \in World /\ Fits(c, flags) /\ Ready(c)
  BY <1>6, FitsThere, TameReady
<1>8. fl1.ending \in LockInEnds(c[first].lum) /\ fl2.ending \in LockInEnds(c[last].lum)
  BY <1>2, <1>7 DEF Fits
<1> HIDE DEF fl1, fl2
<1>9. Ends(L, c, d)
  BY <1>2, <1>7, <1>8, OtherEffectsEnds DEF d
<1>10. d \in World /\ d[last].lum = c[last].lum /\ Ready(d)
  BY <1>2, <1>7, <1>9, FitsKept, EndsReady
<1>11. Ends(N, d, e)
  BY <1>2, <1>8, <1>10, OtherEffectsEnds DEF e
<1>12. Ends(N, v, c) /\ Ends(N, c, d)
  BY <1>2, <1>6, <1>9, TameEnds, EndsLess
<1>13. Ends(N, v, d)
  BY <1>12, EndsTrans
<1>14. Ends(N, v, e)
  BY <1>11, <1>13, EndsTrans
<1>15. e \in World
  BY <1>14 DEF Ends, Goes
<1>16. SongsGoOn(e, x) /\ Tame(Loud, e, x)
  BY <1>15, SongTurns DEF last
<1> HIDE DEF f1, x
<1>17. SongsStay(v, e) /\ x \in World
  BY <1>14, <1>15, <1>16, EndsSongs DEF Tame
<1>18. SongsStay(x, x)
  BY DEF SongsStay
<1>19. SongsGoOn(v, x)
  BY <1>16, <1>17, <1>18, SongsGoOnWithin
<1>20. Sounds(v, x)
  BY <1>14, <1>16, EndsSounds, LoudSounds, SoundsTrans
<1> QED BY <1>1, <1>19, <1>20

LEMMA EndTurnEnds ==
  ASSUME NEW L \in SUBSET Side, NEW v, NEW s \in Side, s \notin L
  PROVE  Ends(L, v, EndTurn(v, s)) /\ (v \in World => ~EndTurn(v, s)[s].lum.moved)
<1> DEFINE A == Side
<1>1. A \in SUBSET Side
  OBVIOUS
<1> HIDE DEF A
<1>2. Goes(Calm, A, L, v, EndTurn(v, s)) /\ (v \in World => ~EndTurn(v, s)[s].lum.moved)
  <2>1. May(Calm, s, "uses")
    BY CalmMay
  <2> QED BY <1>1, <2>1, EndTurnGoes
<1> QED BY <1>2, CalmEnds DEF A

\* After the end of a turn nobody has moved.
LEMMA BothEndTurnEnds ==
  ASSUME NEW v
  PROVE  /\ Ends({}, v, BothEndTurn(v))
         /\ v \in World => \A s \in Side : ~BothEndTurn(v)[s].lum.moved
<1> DEFINE ai == "ai"  foe == "foe"
           L == {ai}
           N == {}
           a == EndTurn(v, ai)
           x == EndTurn(a, foe)
<1>1. BothEndTurn(v) = x
  BY DEF BothEndTurn
<1>2. ai \in Side /\ foe \in Side /\ L \in SUBSET Side /\ foe \notin L /\ ai \in L
      /\ N \in SUBSET Side /\ ai \notin N /\ N \in SUBSET L /\ \A s \in Side : s \in {ai, foe}
  BY DEF Side
<1> HIDE DEF ai, foe, L, N
<1>3. Ends(N, v, a) /\ (v \in World => ~a[ai].lum.moved)
  BY <1>2, EndTurnEnds
<1> HIDE DEF a
<1>4. Ends(L, a, x) /\ (a \in World => ~x[foe].lum.moved)
  BY <1>2, EndTurnEnds
<1> HIDE DEF x
<1>5. Ends(N, a, x)
  BY <1>2, <1>4, EndsLess
<1>6. Ends(N, v, x)
  BY <1>3, <1>5, EndsTrans
<1>7. v \in World => a \in World
  BY <1>3 DEF Ends, Goes
<1>8. v \in World => \A s \in Side : ~x[s].lum.moved
  BY <1>2, <1>3, <1>4, <1>7 DEF Ends, Goes
<1> QED BY <1>1, <1>6, <1>8 DEF N

LEMMA EndOfTurnEnds ==
  ASSUME NEW v \in World, NEW first \in Side, NEW flags, Fits(v, flags), Ready(v)
  PROVE  /\ Sounds(v, EndOfTurn(v, first, flags))
         /\ SongsGoOn(v, EndOfTurn(v, first, flags))
         /\ \A s \in Side : ~EndOfTurn(v, first, flags)[s].lum.moved
<1> DEFINE a == Generation1EndOfTurn(v, first, flags)
           b == Generation2EndOfTurn(v, first, flags)
           c == Generation3EndOfTurn(v, first, flags)
           e == IF Rules.generation = 1 THEN a ELSE IF Rules.generation = 2 THEN b ELSE c
           N == {}
           x == BothEndTurn(e)
<1>1. EndOfTurn(v, first, flags) = x
  BY DEF EndOfTurn
<1>2. Ends(N, v, a) /\ Sounds(v, b) /\ SongsGoOn(v, b) /\ Sounds(v, c) /\ SongsGoOn(v, c)
  BY Generation1EndOfTurnEnds, Generation2EndOfTurnEnds, Generation3EndOfTurnEnds
<1>3. Sounds(v, a)
  BY <1>2, EndsSounds
<1>4. Rules.generation = 1 => SongsGoOn(v, a)
  <2> HIDE DEF a, N
  <2>1. SongsStay(v, a)
    BY <1>2, EndsSongs
  <2>2. Rules.generation = 1 => \A s \in Side : Song(v, s) = Inactive
    <3>1. Rules.generation = 1 => ~Exists("perish_song")
      BY DEF Exists, Since
    <3> QED BY <3>1, SideOf, CounterNames DEF OneSide, Counts, Song
  <2> QED BY <2>1, <2>2 DEF SongsStay, SongsGoOn, SongAdvances
<1> HIDE DEF a, b, c
<1>5. Sounds(v, e) /\ SongsGoOn(v, e)
  BY <1>2, <1>3, <1>4
<1> HIDE DEF e
<1>6. e \in World
  BY <1>5 DEF Sounds, Goes
<1>7. Ends(N, e, x) /\ \A s \in Side : ~x[s].lum.moved
  BY <1>6, BothEndTurnEnds
<1> HIDE DEF N, x
<1>8. SongsStay(e, x) /\ SongsStay(v, v)
  BY <1>6, <1>7, EndsSongs DEF SongsStay
<1>9. SongsGoOn(v, x)
  BY <1>5, <1>8, SongsGoOnWithin
<1>10. Sounds(v, x)
  BY <1>5, <1>7, EndsSounds, SoundsTrans
<1> QED BY <1>1, <1>7, <1>9, <1>10
-----------------------------------------------------------------------------
(* The effects of moves.  What one does keeps its user on the field, and the *)
(* other where it may not leave, and makes nobody endure.                  *)

Settled(P, u) == {s \in Side : s = u \/ ~May(P, s, "counts")}
Affects(P, u, v, x) ==
  /\ Goes(P, Settled(P, u), {}, v, x)
  /\ v \in World /\ ~IsEnduring(v[u].lum) => ~IsEnduring(x[u].lum)

LEMMA TameAffects ==
  ASSUME NEW P, NEW u \in Side, NEW v, NEW x, Tame(P, v, x)
  PROVE  Affects(P, u, v, x)
BY DEF Tame, Goes, Affects, Settled

LEMMA AffectsIs ==
  ASSUME NEW P, NEW u \in Side, NEW v \in World, NEW x, Affects(P, u, v, x)
  PROVE  /\ x \in World
         /\ TeamsTame(P, v, x)
         /\ x[u].active = v[u].active
         /\ \A s \in Side : ~May(P, s, "counts") => x[s].active = v[s].active
         /\ ~IsEnduring(v[u].lum) => ~IsEnduring(x[u].lum)
<1>1. u \in Settled(P, u) /\ \A s \in Side : ~May(P, s, "counts") => s \in Settled(P, u)
  BY DEF Settled
<1> QED BY <1>1 DEF Affects, Goes

LEMMA GoesAffects ==
  ASSUME NEW P, NEW u \in Side, NEW v, NEW x, Goes(P, Side, {u}, v, x)
  PROVE  Affects(P, u, v, x)
BY DEF Goes, Affects, Settled

LEMMA AffectsTrans ==
  ASSUME NEW P, NEW u, NEW v, NEW x, NEW y, Affects(P, u, v, x), Affects(P, u, x, y)
  PROVE  Affects(P, u, v, y)
<1>1. Goes(P, Settled(P, u), {}, v, y)
  BY GoesTrans DEF Affects
<1>2. v \in World => x \in World
  BY DEF Affects, Goes
<1> QED BY <1>1, <1>2 DEF Affects

LEMMA AtLeastOneNat ==
  ASSUME NEW n \in Int
  PROVE  AtLeastOne(n) \in Nat \ {0}
BY DEF AtLeastOne

\* The user loses HP that it need not have.
LEMMA TameLoses ==
  ASSUME NEW P, Harsh(P), NEW v, NEW s \in Side, NEW n \in Nat
  PROVE  Tame(P, v, ChangeHP(v, s, -n))
<1> DEFINE change == -n
<1>1. change \in Int /\ change <= 0
  OBVIOUS
<1> HIDE DEF change
<1>2. v \in World => Hurtable(P, v, s)
  BY HarshHurts
<1>3. Tame(P, v, ChangeHP(v, s, change))
  BY <1>1, <1>2, TameChangeHP
<1> QED BY <1>3 DEF change

LEMMA TameGains ==
  ASSUME NEW P, NEW v, NEW s \in Side, NEW n \in Nat, v \in World => Livable(P, v, s)
  PROVE  Tame(P, v, ChangeHP(v, s, n))
<1>1. n \in Int /\ n >= 0
  OBVIOUS
<1> QED BY <1>1, TameChangeHP

LEMMA TameRecoil ==
  ASSUME NEW P, Harsh(P), NEW v, NEW s \in Side, NEW denominator \in Nat \ {0}, NEW damage \in Nat
  PROVE  Tame(P, v, Recoil(v, s, denominator, damage))
<1> DEFINE n == AtLeastOne(damage \div denominator)
           a == ChangeHP(v, s, -n)
<1>1. Recoil(v, s, denominator, damage) \in {v, a}
  BY DEF Recoil
<1>2. n \in Nat
  BY DivInt, AtLeastOneNat
<1> HIDE DEF n
<1>3. Tame(P, v, a)
  BY <1>2, TameLoses
<1> QED BY <1>1, <1>3, TameRefl

LEMMA TameAbsorb ==
  ASSUME NEW P, Harsh(P), NEW v, NEW s \in Side, NEW damage \in Nat, v \in World => Livable(P, v, s)
  PROVE  Tame(P, v, Absorb(v, s, damage))
<1> DEFINE half == damage \div 2
           more == (half * 13) \div 10
           n == AtLeastOne(IF Item(v, s) = "big_root" THEN more ELSE half)
           a == ChangeHP(v, s, -n)
           b == ChangeHP(v, s, n)
<1>1. Absorb(v, s, damage) \in {a, b}
  BY DEF Absorb
<1>2. half \in Int
  OBVIOUS
<1> HIDE DEF half
<1>3. more \in Int
  <2>1. half * 13 \in Int
    BY <1>2
  <2> QED BY <2>1
<1> HIDE DEF more
<1>4. n \in Nat
  BY <1>2, <1>3, AtLeastOneNat
<1> HIDE DEF n
<1>5. Tame(P, v, a) /\ Tame(P, v, b)
  BY <1>4, TameLoses, TameGains
<1> QED BY <1>1, <1>5

LEMMA TameStruggle ==
  ASSUME NEW P, Harsh(P), NEW v, NEW s \in Side, NEW damage \in Nat
  PROVE  Tame(P, v, Struggle(v, s, damage))
<1> DEFINE k == CASE Rules.generation = 1       -> damage \div 2
                  [] Rules.generation \in {2, 3} -> damage \div 4
                  [] OTHER                      -> MaxHP \div 4
           n == AtLeastOne(k)
<1>1. Struggle(v, s, damage) = ChangeHP(v, s, -n)
  BY DEF Struggle
<1>2. k \in Int
  BY HPConstants
<1> HIDE DEF k
<1>3. n \in Nat
  BY <1>2, AtLeastOneNat
<1> HIDE DEF n
<1> QED BY <1>1, <1>3, TameLoses

\* Healing by a part of the HP, whatever the part
LEMMA TameHeals ==
  ASSUME NEW P, Harsh(P), NEW v, NEW s \in Side, NEW n \in Int, NEW d \in Nat \ {0}
  PROVE  Tame(P, v, Heal(v, s, n, d))
<1>1. v \in World => Hurtable(P, v, s)
  BY HarshHurts
<1> QED BY <1>1, TameHeal

LEMMA TameSunHeal ==
  ASSUME NEW P, Harsh(P), NEW v, NEW s \in Side
  PROVE  Tame(P, v, SunHeal(v, s)) /\ Tame(P, v, SandHeal(v, s))
<1> DEFINE n == CASE Weather(v) = Clear -> 6
                  [] Weather(v) = "sun" -> IF Rules.generation <= 2 THEN 12 ELSE 8
                  [] OTHER              -> 3
           k == IF Weather(v) = "sand" THEN 4 ELSE 3
           n12 == 12
           n6 == 6
<1>1. SunHeal(v, s) = Heal(v, s, n, n12) /\ SandHeal(v, s) = Heal(v, s, k, n6)
  BY DEF SunHeal, SandHeal
<1>2. n \in Int /\ k \in Int /\ n12 \in Nat \ {0} /\ n6 \in Nat \ {0}
  OBVIOUS
<1> HIDE DEF n, k, n12, n6
<1> QED BY <1>1, <1>2, TameHeals

LEMMA TameSwallow ==
  ASSUME NEW P, Harsh(P), NEW v, NEW s \in Side
  PROVE  Tame(P, v, Swallow(v, s))
<1> SUFFICES ASSUME v \in World  PROVE Tame(P, v, Swallow(v, s))
  BY DEF Tame
<1> DEFINE n == IF v[s].stockpile = 3 THEN 4 ELSE v[s].stockpile
           n4 == 4
           a == ReleaseStockpile(v, s)
           b == Heal(a, s, n, n4)
<1>1. Swallow(v, s) \in {v, b}
  BY DEF Swallow
<1>2. n \in Int /\ n4 \in Nat \ {0}
  BY StockpileOf
<1>3. Tame(P, v, a)
  BY TameReleaseStockpile
<1> HIDE DEF n, n4, a
<1>4. Tame(P, a, b)
  BY <1>2, TameHeals
<1> HIDE DEF b
<1> QED BY <1>1, <1>3, <1>4, TameTrans, TameRefl

LEMMA LivableThere ==
  ASSUME NEW P, NEW v \in World, NEW x, Tame(P, v, x), NEW s \in Side,
         <<s, v[s].active>> \in P[1]
  PROVE  x \in World /\ Livable(P, x, s)
BY DEF Tame, Livable

\* Both are at the average: either may be without HP by now.
LEMMA TamePainSplit ==
  ASSUME NEW P, Harsh(P), NEW v, NEW u \in Side,
         v \in World => \A s \in Side : <<s, v[s].active>> \in P[1]
  PROVE  Tame(P, v, PainSplit(v, u))
<1> SUFFICES ASSUME v \in World  PROVE Tame(P, v, PainSplit(v, u))
  BY DEF Tame
<1> DEFINE t == Other(u)
           n == (HP(v, u) + HP(v, t)) \div 2
           a == SetHP(v, u, n)
           b == SetHP(a, t, n)
<1>1. PainSplit(v, u) = b
  BY DEF PainSplit
<1>2. t \in Side
  BY Sides
<1> HIDE DEF t
<1>3. n \in 0..MaxHP
  <2>1. HP(v, u) \in 0..MaxHP /\ HP(v, t) \in 0..MaxHP /\ MaxHP \in Nat
    BY <1>2, MonOf, HPConstants
  <2> QED BY <2>1
<1> HIDE DEF n, a, b
<1>4. Livable(P, v, u) /\ Hurtable(P, v, u)
  BY HarshHurts DEF Livable
<1>5. Tame(P, v, a)
  BY <1>3, <1>4, TameSetHP DEF a
<1>6. a \in World /\ Livable(P, a, t) /\ Hurtable(P, a, t)
  BY <1>2, <1>5, LivableThere, HarshHurts
<1>7. Tame(P, a, b)
  BY <1>2, <1>3, <1>6, TameSetHP DEF b
<1> QED BY <1>1, <1>5, <1>7, TameTrans

LEMMA TameCurse ==
  ASSUME NEW P, Harsh(P), NEW v, NEW u \in Side
  PROVE  Tame(P, v, Curse(v, u))
<1> DEFINE half == MaxHP \div 2
           one == 1
           less == -1
           f == "cursed"
           a == IndirectDamage(v, u, half)
           b == SetFlag(a, Other(u), f)
           c == Boost(v, u, {"atk", "def"}, one)
           d == Boost(c, u, {"spe"}, less)
<1>1. Curse(v, u) \in {v, b, d}
  BY DEF Curse
<1>2. half \in Nat /\ one \in Int /\ less \in Int /\ f \in FlagName /\ Other(u) \in Side
  BY HPConstants, Sides DEF FlagName
<1>3. v \in World => Hurtable(P, v, u)
  BY HarshHurts
<1> HIDE DEF half, one, less, f
<1>4. Tame(P, v, a) /\ Tame(P, v, c)
  BY <1>2, <1>3, TameIndirectDamage, TameBoost
<1> HIDE DEF a, c
<1>5. Tame(P, a, b) /\ Tame(P, c, d)
  BY <1>2, TameSetFlag, TameBoost
<1> HIDE DEF b, d
<1> QED BY <1>1, <1>4, <1>5, TameTrans, TameRefl

LEMMA TameMemento ==
  ASSUME NEW P, Harsh(P), NEW v, NEW u \in Side
  PROVE  Tame(P, v, Faint(Boost(v, Other(u), {"atk", "spa"}, -2), u)) /\ Tame(P, v, Faint(v, u))
<1> DEFINE n == -2
           a == Boost(v, Other(u), {"atk", "spa"}, n)
<1>1. n \in Int /\ Other(u) \in Side
  BY Sides
<1> HIDE DEF n
<1>2. Tame(P, v, a)
  BY <1>1, TameBoost
<1> HIDE DEF a
<1>3. \A y : y \in World => Hurtable(P, y, u)
  BY HarshHurts
<1>4. Tame(P, a, Faint(a, u)) /\ Tame(P, v, Faint(v, u))
  BY <1>3, TameFaint
<1>5. Tame(P, v, Faint(a, u))
  BY <1>2, <1>4, TameTrans
<1> QED BY <1>4, <1>5 DEF a, n

LEMMA TameStartWish ==
  ASSUME NEW P, NEW v, NEW u \in Side
  PROVE  Tame(P, v, IF Rules.generation >= 3 /\ v[u].wish = Inactive
                    THEN [v EXCEPT ![u].wish = 1] ELSE v)
<1> DEFINE n == 1
           a == [v EXCEPT ![u].wish = n]
<1>1. n \in -1..1
  OBVIOUS
<1> HIDE DEF n
<1>2. Tame(P, v, a)
  BY <1>1, TamePutWish
<1>3. Tame(P, v, v)
  BY TameRefl
<1> QED BY <1>2, <1>3 DEF a, n

LEMMA TameHPEffect ==
  ASSUME NEW P, Harsh(P), NEW v, NEW u \in Side, NEW f, f[1] \in HPEffects, NEW damage \in Nat,
         v \in World => <<u, v[u].active>> \in P[1],
         f[1] \in {"recoil", "heal"} => f[2] \in Nat \ {0},
         f[1] = "pain_split" => (v \in World => <<Other(u), v[Other(u)].active>> \in P[1])
  PROVE  Tame(P, v, ApplyHPEffect(v, u, f, damage))
<1> DEFINE x == ApplyHPEffect(v, u, f, damage)
<1>1. CASE f[1] = "absorb"
  <2>1. x = Absorb(v, u, damage)
    BY <1>1 DEF ApplyHPEffect
  <2>2. v \in World => Livable(P, v, u)
    BY DEF Livable
  <2> QED BY <2>1, <2>2, TameAbsorb
<1>2. CASE f[1] = "recoil"
  <2>1. x = Recoil(v, u, f[2], damage)
    BY <1>2 DEF ApplyHPEffect
  <2>2. f[2] \in Nat \ {0}
    BY <1>2
  <2> DEFINE n == f[2]
  <2> HIDE DEF n
  <2>3. Tame(P, v, Recoil(v, u, n, damage))
    BY <2>2, TameRecoil DEF n
  <2> QED BY <2>1, <2>3 DEF n
<1>3. CASE f[1] = "struggle"
  <2>1. x = Struggle(v, u, damage)
    BY <1>3 DEF ApplyHPEffect
  <2> QED BY <2>1, TameStruggle
<1>4. CASE f[1] = "heal"
  <2> DEFINE one == 1  n == f[2]
  <2>1. x = Heal(v, u, one, n)
    BY <1>4 DEF ApplyHPEffect
  <2>2. n \in Nat \ {0} /\ one \in Int
    BY <1>4
  <2> HIDE DEF one, n
  <2> QED BY <2>1, <2>2, TameHeals
<1>5. CASE f[1] \in {"sun_heal", "sand_heal"}
  <2>1. x \in {SunHeal(v, u), SandHeal(v, u)}
    BY <1>5 DEF ApplyHPEffect
  <2> QED BY <2>1, TameSunHeal
<1>6. CASE f[1] \in {"swallow", "spit_up", "stockpile"}
  <2>1. x \in {Swallow(v, u), ReleaseStockpile(v, u), IncrementStockpile(v, u)}
    BY <1>6 DEF ApplyHPEffect
  <2> QED BY <2>1, TameSwallow, TameReleaseStockpile, TameIncrementStockpile
<1>7. CASE f[1] = "wish"
  <2>1. x = IF Rules.generation >= 3 /\ v[u].wish = Inactive THEN [v EXCEPT ![u].wish = 1] ELSE v
    BY <1>7 DEF ApplyHPEffect
  <2> QED BY <2>1, TameStartWish
<1>8. CASE f[1] = "pain_split"
  <2>1. x = PainSplit(v, u)
    BY <1>8 DEF ApplyHPEffect
  <2>2. v \in World => \A s \in Side : <<s, v[s].active>> \in P[1]
    BY <1>8, TwoSides
  <2> QED BY <2>1, <2>2, TamePainSplit
<1>9. CASE f[1] = "substitute"
  <2>1. x = UseSubstitute(v, u)
    BY <1>9 DEF ApplyHPEffect
  <2> QED BY <2>1, TameUseSubstitute
<1>10. CASE f[1] \in {"faint", "faint_at_substitute", "memento"}
  <2>1. x \in {v, Faint(v, u), Faint(Boost(v, Other(u), {"atk", "spa"}, -2), u)}
    BY <1>10 DEF ApplyHPEffect
  <2> QED BY <2>1, TameMemento, TameRefl
<1>11. CASE f[1] = "curse"
  <2>1. x = Curse(v, u)
    BY <1>11 DEF ApplyHPEffect
  <2> QED BY <2>1, TameCurse
<1> QED BY <1>1, <1>2, <1>3, <1>4, <1>5, <1>6, <1>7, <1>8, <1>9, <1>10, <1>11 DEF HPEffects

-----------------------------------------------------------------------------
(* Effects that give or cure a status *)

\* Where nobody of the other team has it, the clauses let the Pokemon on the field have it.
Claused(P, v, u) ==
  \A st \in {"sleep", "freeze"} :
    TeamHasStatus(v, Other(u), st) \/ <<Other(u), v[Other(u)].active, st>> \in P[2]

LEMMA ReflectedIn ==
  ASSUME NEW st
  PROVE  Reflected(st) \in Statuses /\ \A P, v, s : Takes(P, v, s, Reflected(st))
BY DEF Reflected, Statuses, Takes, Clear

LEMMA TameApplyStatus ==
  ASSUME NEW P, NEW v, NEW u \in Side, NEW st \in Statuses, Takes(P, v, Other(u), st)
  PROVE  Tame(P, v, ApplyStatus(v, u, st))
<1> DEFINE a == SetStatus(v, Other(u), st)
           r == Reflected(st)
           b == SetStatus(a, u, r)
<1>1. ApplyStatus(v, u, st) \in {a, b}
  BY DEF ApplyStatus
<1>2. Other(u) \in Side
  BY Sides
<1>3. Tame(P, v, a)
  BY <1>2, TameSetStatus
<1> HIDE DEF a
<1>4. r \in Statuses /\ Takes(P, a, u, r)
  BY ReflectedIn
<1> HIDE DEF r
<1>5. Tame(P, a, b)
  BY <1>4, TameSetStatus
<1> HIDE DEF b
<1> QED BY <1>1, <1>3, <1>5, TameTrans

LEMMA TameTryApplyStatus ==
  ASSUME NEW P, NEW v, NEW u \in Side, NEW st \in Statuses, NEW immune, Claused(P, v, u)
  PROVE  Tame(P, v, TryApplyStatus(v, u, st, immune))
<1>1. CASE StatusCanApply(v, u, st, immune)
  <2>1. Takes(P, v, Other(u), st)
    BY <1>1 DEF StatusCanApply, CanHaveStatus, Takes, Claused
  <2>2. TryApplyStatus(v, u, st, immune) = ApplyStatus(v, u, st)
    BY <1>1 DEF TryApplyStatus
  <2> QED BY <2>1, <2>2, TameApplyStatus
<1>2. CASE ~StatusCanApply(v, u, st, immune)
  BY <1>2, TameRefl DEF TryApplyStatus
<1> QED BY <1>1, <1>2

LEMMA TamePsychoShift ==
  ASSUME NEW P, NEW v, NEW u \in Side, Claused(P, v, u)
  PROVE  Tame(P, v, PsychoShift(v, u))
<1> SUFFICES ASSUME v \in World  PROVE Tame(P, v, PsychoShift(v, u))
  BY DEF Tame
<1> DEFINE st == IF Status(v, u) = "rest" THEN "sleep" ELSE Status(v, u)
           immune == IF st = "paralysis" THEN {} ELSE TypesBlocking(st)
           a == TryApplyStatus(v, u, st, immune)
           shifted == IF st \in {Clear, "freeze"} THEN v ELSE a
           x == ClearStatus(shifted, u)
<1>1. PsychoShift(v, u) \in {v, x}
  BY DEF PsychoShift
<1>2. st \in Statuses
  BY MonOf DEF Statuses, Sleeping
<1> HIDE DEF st, immune
<1>3. Tame(P, v, a)
  BY <1>2, TameTryApplyStatus
<1> HIDE DEF a
<1>4. Tame(P, v, shifted)
  BY <1>3, TameRefl
<1> HIDE DEF shifted
<1>5. Tame(P, shifted, x)
  BY TameClearStatus
<1> HIDE DEF x
<1> QED BY <1>1, <1>4, <1>5, TameTrans, TameRefl

\* The whole team is cured.
LEMMA TameCureTeam ==
  ASSUME NEW P, NEW v, NEW u \in Side, NEW silent
  PROVE  Tame(P, v, CureTeam(v, u, silent))
<1> SUFFICES ASSUME v \in World  PROVE Tame(P, v, CureTeam(v, u, silent))
  BY DEF Tame
<1> DEFINE deaf(m) == Rules.ability[u][m] = "soundproof"
                      /\ (Rules.generation \in {3, 4} \/ (Rules.generation \in {6, 7} /\ m = v[u].active))
           cured(m) == (m = v[u].active \/ v[u].team[m].hp # 0) /\ ~(silent /\ deaf(m))
           clear(m) == [v[u].team[m] EXCEPT !.status = Clear]
           g == [m \in Mons(u) |-> IF cured(m) THEN clear(m) ELSE v[u].team[m]]
           r == [v[u] EXCEPT !.team = g]
           x == CureTeam(v, u, silent)
<1>1. v[u] \in OneSide(u) /\ v[u].team \in [Mons(u) -> OneMon]
  BY SideOf DEF OneSide
<1>2. x = [v EXCEPT ![u] = r]
  BY <1>1 DEF CureTeam
<1>3. ASSUME NEW m \in Mons(u)
      PROVE  g[m] \in OneMon /\ Tamed(P, u, m, v[u].team[m], g[m])
  <2> HIDE DEF cured, clear
  <2>1. g[m] \in {v[u].team[m], clear(m)} /\ v[u].team[m] \in OneMon
    BY <1>1
  <2>2. /\ clear(m) \in OneMon
        /\ clear(m).hp = v[u].team[m].hp
        /\ clear(m).status = Clear
        /\ clear(m).item = v[u].team[m].item
        /\ clear(m).held = v[u].team[m].held
    <3>1. Clear \in Statuses
      BY DEF Statuses
    <3> QED BY <2>1, <3>1, WithStatus DEF clear
  <2>3. Tamed(P, u, m, v[u].team[m], clear(m))
    BY <2>1, <2>2, HPInt DEF Tamed, Clear
  <2> QED BY <2>1, <2>2, <2>3, TamedRefl
<1>10. \A m \in Mons(u) : g[m].status \in {v[u].team[m].status, Clear}
  <2> TAKE m \in Mons(u)
  <2> HIDE DEF cured
  <2>1. g[m] \in {v[u].team[m], clear(m)} /\ v[u].team[m] \in OneMon
    BY <1>1
  <2>2. clear(m).status = Clear
    BY <2>1 DEF OneMon
  <2> HIDE DEF clear
  <2> QED BY <2>1, <2>2
<1>4. g \in [Mons(u) -> OneMon]
  BY <1>3
<1> HIDE DEF g, x
<1>5. r \in OneSide(u) /\ r.active = v[u].active /\ r.lum = v[u].lum /\ r.team = g
      /\ r.count = v[u].count /\ r.state = v[u].state
  BY <1>1, <1>4 DEF OneSide
<1> HIDE DEF r
<1>6. x \in World
  BY <1>2, <1>5, PutSide
<1>7. x[u] = r /\ \A q \in Side \ {u} : x[q] = v[q]
  BY <1>2, PutSideThere
<1>8. TeamsTame(P, v, x)
  <2>1. \A m \in Mons(u) : Tamed(P, u, m, v[u].team[m], x[u].team[m])
    BY <1>3, <1>5, <1>7
  <2>2. \A q \in Side \ {u} : \A m \in Mons(q) : Tamed(P, q, m, v[q].team[m], x[q].team[m])
    BY <1>7, MemberOf, TamedRefl
  <2>3. \A q \in Side : Hears(P, q, v[q], x[q])
    BY <1>5, <1>7, HearsSame
  <2>4. \A q \in Side : Follows(P, q, v[q], x[q])
    <3>1. Follows(P, u, v[u], r)
      <4>1. g[v[u].active].status \in {v[u].team[v[u].active].status, Clear}
        BY <1>3, <1>10, SideOf DEF OneSide
      <4>2. Sound(v[u]) => Sound(r)
        BY <1>5, <4>1 DEF Sound, Sleeping, Clear
      <4> QED BY <1>5, <4>2 DEF Follows, Recalls
    <3> QED BY <1>7, <3>1, FollowsSame
  <2>5. x.failed = v.failed
    BY <1>2 DEF World, Side
  <2> QED BY <2>1, <2>2, <2>3, <2>4, <2>5 DEF TeamsTame
<1>9. \A q \in Side : x[q].active = v[q].active /\ x[q].lum = v[q].lum
  BY <1>5, <1>7
<1> QED BY <1>6, <1>8, <1>9 DEF Tame, x

\* What an effect that gives a status may give
Statusable(P, v, u, f) ==
  f[1] \in {"status", "status_and_flinch", "recoil_and_status"} =>
    f[2] \in Statuses /\ Takes(P, v, Other(u), f[2])

LEMMA GoesThenFlinch ==
  ASSUME NEW P, NEW v, NEW x, Tame(P, v, x), NEW u \in Side
  PROVE  Affects(P, u, v, Flinch(x, Other(u)))
<1> DEFINE A == Side
           L == {u}
           y == Flinch(x, Other(u))
<1>1. A \in SUBSET Side /\ L \in SUBSET Side /\ Other(u) \in Side /\ Other(u) \notin L
  BY Sides
<1> HIDE DEF A, L
<1>2. Goes(P, A, L, v, x)
  BY <1>1, TameGoes
<1>3. Goes(P, A, L, x, y)
  BY <1>1, FlinchGoes
<1> HIDE DEF y
<1>4. Goes(P, A, L, v, y)
  BY <1>2, <1>3, GoesTrans
<1> QED BY <1>4, GoesAffects DEF A, L, y

LEMMA StatusEffectAffects ==
  ASSUME NEW P, Harsh(P), NEW v, NEW u \in Side, NEW f, f[1] \in StatusEffects, NEW damage \in Nat,
         v \in World => Livable(P, v, u), Claused(P, v, u), Statusable(P, v, u, f)
  PROVE  Affects(P, u, v, ApplyStatusEffect(v, u, f, damage))
<1> DEFINE x == ApplyStatusEffect(v, u, f, damage)
           st == f[2]
           a == ApplyStatus(v, u, st)
<1>0. Other(u) \in Side
  BY Sides
<1>1. ASSUME f[1] \in {"status", "status_and_flinch", "recoil_and_status"}
      PROVE  Tame(P, v, a)
  <2>1. st \in Statuses /\ Takes(P, v, Other(u), st)
    BY <1>1 DEF Statusable
  <2> HIDE DEF st
  <2> QED BY <2>1, TameApplyStatus
<1>2. CASE f[1] = "status"
  <2>1. x = a
    BY <1>2 DEF ApplyStatusEffect
  <2> QED BY <2>1, <1>1, <1>2, TameAffects
<1>3. CASE f[1] = "status_and_flinch"
  <2>1. x = Flinch(a, Other(u))
    BY <1>3 DEF ApplyStatusEffect
  <2> HIDE DEF a
  <2> QED BY <2>1, <1>1, <1>3, GoesThenFlinch
<1>4. CASE f[1] = "recoil_and_status"
  <2> DEFINE k == 3
  <2>1. x = Recoil(a, u, k, damage) /\ k \in Nat \ {0}
    BY <1>4 DEF ApplyStatusEffect
  <2> HIDE DEF a, k
  <2>2. Tame(P, a, Recoil(a, u, k, damage))
    BY <2>1, TameRecoil
  <2> QED BY <2>1, <2>2, <1>1, <1>4, TameTrans, TameAffects
<1>5. CASE f[1] = "rest"
  <2>1. x = Rest(v, u)
    BY <1>5 DEF ApplyStatusEffect
  <2> QED BY <2>1, TameRest, TameAffects
<1>6. CASE f[1] \in {"heal_bell", "aromatherapy"}
  <2>1. x \in {CureTeam(v, u, TRUE), CureTeam(v, u, FALSE)}
    BY <1>6 DEF ApplyStatusEffect
  <2>2. \A silent : Tame(P, v, CureTeam(v, u, silent))
    BY TameCureTeam
  <2>3. Tame(P, v, x)
    BY <2>1, <2>2
  <2> QED BY <2>3, TameAffects
<1>7. CASE f[1] = "psycho_shift"
  <2>1. x = PsychoShift(v, u)
    BY <1>7 DEF ApplyStatusEffect
  <2> QED BY <2>1, TamePsychoShift, TameAffects
<1>8. CASE f[1] \in {"cure", "refresh", "wake_up"}
  <2>1. x \in {ClearStatus(v, Other(u)), ClearStatus(v, u), v}
    BY <1>8 DEF ApplyStatusEffect
  <2>2. Tame(P, v, x)
    BY <2>1, <1>0, TameClearStatus, TameRefl
  <2> QED BY <2>2, TameAffects
<1>9. CASE f[1] = "heal_and_cure"
  <2> DEFINE n == 1
             d == 4
             b == Heal(v, u, n, d)
  <2>1. x = ClearStatus(b, u) /\ n \in Int /\ d \in Nat \ {0}
    BY <1>9 DEF ApplyStatusEffect
  <2> HIDE DEF n, d
  <2>2. Tame(P, v, b)
    BY <2>1, TameHeals
  <2> HIDE DEF b
  <2>3. Tame(P, b, ClearStatus(b, u))
    BY TameClearStatus
  <2> QED BY <2>1, <2>2, <2>3, TameTrans, TameAffects
<1>10. CASE f[1] = "yawn"
  <2> DEFINE c == "yawn"
  <2>1. x = Start(v, Other(u), c) /\ c \in Counter /\ c # "perish_song"
    BY <1>10, CounterNames DEF ApplyStatusEffect
  <2> HIDE DEF c
  <2> QED BY <2>1, <1>0, TameStart, TameAffects
<1>11. CASE f[1] = "nightmare"
  <2>1. x = GiveNightmares(v, Other(u))
    BY <1>11 DEF ApplyStatusEffect
  <2> QED BY <2>1, <1>0, TameGiveNightmares, TameAffects
<1> QED BY <1>2, <1>3, <1>4, <1>5, <1>6, <1>7, <1>8, <1>9, <1>10, <1>11 DEF StatusEffects

-----------------------------------------------------------------------------
(* Effects on stages, flags, counters and items *)

LEMMA StagesOf ==
  ASSUME NEW v \in World, NEW s \in Side
  PROVE  v[s].stages \in [Stat -> -6..6]
BY SideOf DEF OneSide

\* Guard Swap and Heart Swap
Swapped(v, u, stats) ==
  [v EXCEPT ![u].stages = [k \in Stat |-> IF k \in stats THEN v[Other(u)].stages[k] ELSE @[k]],
            ![Other(u)].stages = [k \in Stat |-> IF k \in stats THEN v[u].stages[k] ELSE @[k]]]

LEMMA TameSwapped ==
  ASSUME NEW P, NEW v, NEW u \in Side, NEW stats, NEW x, x = Swapped(v, u, stats)
  PROVE  Tame(P, v, x)
<1> SUFFICES ASSUME v \in World  PROVE Tame(P, v, x)
  BY DEF Tame
<1> DEFINE t == Other(u)
           g == [k \in Stat |-> IF k \in stats THEN v[t].stages[k] ELSE v[u].stages[k]]
           h == [k \in Stat |-> IF k \in stats THEN v[u].stages[k] ELSE v[t].stages[k]]
           a == [v EXCEPT ![u].stages = g]
           b == [a EXCEPT ![t].stages = h]
<1>1. t \in Side /\ t # u
  BY Sides
<1>2. x = b
  BY <1>1 DEF World, Swapped
<1>3. v[u].stages \in [Stat -> -6..6] /\ v[t].stages \in [Stat -> -6..6]
  BY <1>1, StagesOf
<1>4. g \in [Stat -> -6..6] /\ h \in [Stat -> -6..6]
  BY <1>3
<1> HIDE DEF g, h, t
<1>5. Tame(P, v, a)
  BY <1>4, TamePutStages
<1> HIDE DEF a
<1>6. Tame(P, a, b)
  BY <1>1, <1>4, TamePutStages
<1> HIDE DEF b
<1> QED BY <1>2, <1>5, <1>6, TameTrans

LEMMA TameStageEffect ==
  ASSUME NEW P, NEW v, NEW u \in Side, NEW f, f[1] \in StageEffects,
         f[1] = "stages" => f[4] \in Int, f[1] = "confusing_boost" => f[3] \in Int
  PROVE  Tame(P, v, ApplyStageEffect(v, u, f))
<1> DEFINE x == ApplyStageEffect(v, u, f)
           t == Other(u)
           one == 1
           less == -1
<1>0. t \in Side /\ one \in Int /\ less \in Int
  BY Sides
<1>1. CASE f[1] = "stages"
  <2> DEFINE n == f[4]
             stats == f[3]
  <2>1. x \in {Boost(v, u, stats, n), Boost(v, t, stats, n)} /\ n \in Int
    BY <1>1 DEF ApplyStageEffect
  <2> HIDE DEF n, stats, t
  <2>2. Tame(P, v, Boost(v, u, stats, n)) /\ Tame(P, v, Boost(v, t, stats, n))
    BY <1>0, <2>1, TameBoost
  <2> QED BY <2>1, <2>2
<1>2. CASE f[1] = "defense_curl"
  <2> DEFINE stats == {"def"}
             a == Boost(v, u, stats, one)
             c == "defense_curled"
  <2>1. x = SetFlag(a, u, c) /\ c \in FlagName
    BY <1>2 DEF ApplyStageEffect, FlagName
  <2> HIDE DEF stats, one, c
  <2>2. Tame(P, v, a)
    BY <1>0, TameBoost
  <2> HIDE DEF a
  <2>3. Tame(P, a, SetFlag(a, u, c))
    BY <2>1, TameSetFlag
  <2> QED BY <2>1, <2>2, <2>3, TameTrans
<1>3. CASE f[1] = "confusing_boost"
  <2> DEFINE stats == {f[2]}
             n == f[3]
             a == Boost(v, t, stats, n)
  <2>1. x \in {v, Confuse(a, t)} /\ n \in Int
    BY <1>3 DEF ApplyStageEffect
  <2> HIDE DEF stats, n, t
  <2>2. Tame(P, v, a)
    BY <1>0, <2>1, TameBoost
  <2> HIDE DEF a
  <2>3. Tame(P, a, Confuse(a, t))
    BY <1>0, TameConfuse
  <2>4. Tame(P, v, Confuse(a, t))
    BY <2>2, <2>3, TameTrans
  <2> QED BY <2>1, <2>4, TameRefl
<1>4. CASE f[1] = "guard_swap"
  <2> DEFINE stats == {"def", "spd"}
  <2>1. x = Swapped(v, u, stats)
    BY <1>4 DEF ApplyStageEffect, Swapped
  <2> HIDE DEF stats, x
  <2> QED BY <2>1, TameSwapped DEF x
<1>5. CASE f[1] = "heart_swap"
  <2> DEFINE stats == Stat
  <2>1. x = Swapped(v, u, stats)
    BY <1>5 DEF ApplyStageEffect, Swapped
  <2> HIDE DEF stats, x
  <2> QED BY <2>1, TameSwapped DEF x
<1>6. CASE f[1] = "minimize"
  <2>1. x = Minimize(v, u)
    BY <1>6 DEF ApplyStageEffect
  <2> QED BY <2>1, TameMinimize
<1>7. CASE f[1] = "no_retreat"
  <2> DEFINE c == "fully_trapped"
             stats == Stat \ {"acc", "eva"}
             a == SetFlag(v, u, c)
  <2>1. x = Boost(a, u, stats, one) /\ c \in FlagName
    BY <1>7 DEF ApplyStageEffect, FlagName
  <2> HIDE DEF stats, one, c
  <2>2. Tame(P, v, a)
    BY <2>1, TameSetFlag
  <2> HIDE DEF a
  <2>3. Tame(P, a, Boost(a, u, stats, one))
    BY <1>0, TameBoost
  <2> QED BY <2>1, <2>2, <2>3, TameTrans
<1>8. CASE f[1] = "defog"
  <2> DEFINE stats == {"eva"}
  <2>1. x = Boost(v, t, stats, less)
    BY <1>8 DEF ApplyStageEffect
  <2> HIDE DEF stats, less, t
  <2> QED BY <1>0, <2>1, TameBoost
<1> QED BY <1>1, <1>2, <1>3, <1>4, <1>5, <1>6, <1>7, <1>8 DEF StageEffects

LEMMA TameThawed ==
  ASSUME NEW P, NEW v, NEW s \in Side
  PROVE  Tame(P, v, Thawed(v, s))
BY TameClearStatus, TameRefl DEF Thawed

LEMMA TamePerishSong ==
  ASSUME NEW P, NEW v, NEW u \in Side, \A s \in Side : May(P, s, "sings")
  PROVE  Tame(P, v, PerishSong(v, u))
<1> DEFINE c == "perish_song"
           t == Other(u)
           hears(y, s) == IF Ability(y, s) = "soundproof" THEN y ELSE Start(y, s, c)
           a == Start(v, u, c)
           sung == IF Rules.generation >= 8 THEN a ELSE hears(v, u)
<1>1. PerishSong(v, u) = hears(sung, t)
  BY DEF PerishSong
<1>2. c \in Counter /\ t \in Side
  BY Sides, CounterNames
<1> HIDE DEF c, t
<1>3. \A y, s : s \in Side => Tame(P, y, hears(y, s))
  BY <1>2, TameStart, TameRefl
<1>4. Tame(P, v, a)
  BY <1>2, TameStart
<1> HIDE DEF hears, a
<1>5. Tame(P, v, sung)
  BY <1>3, <1>4
<1> HIDE DEF sung
<1> QED BY <1>1, <1>2, <1>3, <1>5, TameTrans

LEMMA TameMoveDisabled ==
  ASSUME NEW P, NEW v, NEW s \in Side
  PROVE  Tame(P, v, IF v[s].lum.move \in {NoMove, "struggle"} THEN v ELSE Disable(v, s, v[s].lum.move))
<1> SUFFICES ASSUME v \in World, v[s].lum.move \notin {NoMove, "struggle"}
             PROVE  Tame(P, v, Disable(v, s, v[s].lum.move))
  BY TameRefl DEF Tame
<1>1. v[s].lum.move \in Move
  BY LumOf DEF Used, LumRecord
<1> QED BY <1>1, TameDisable

LEMMA VolatileEffectAffects ==
  ASSUME NEW P, NEW v, NEW u \in Side, NEW f, f[1] \in VolatileEffects,
         f[1] \in {"set_user", "set_other"} => f[2] \in FlagName,
         f[1] \in {"count_user", "count_other"} => f[2] \in Counter \ {"perish_song"},
         f[1] = "perish_song" => \A s \in Side : May(P, s, "sings")
  PROVE  Affects(P, u, v, ApplyVolatileEffect(v, u, f))
<1> DEFINE x == ApplyVolatileEffect(v, u, f)
           t == Other(u)
           c == f[2]
           trap == "partial_trap"
           full == "fully_trapped"
           trick == "power_trick"
           torment == "tormented"
<1>0. t \in Side
  BY Sides
<1>a. trap \in Counter /\ trap # "perish_song" /\ {"encore", "taunt"} \subseteq Counter
  BY CounterNames
<1>b. full \in FlagName /\ trick \in FlagName /\ torment \in FlagName
  BY DEF FlagName
<1>1. CASE f[1] = "flinch"
  <2>1. x = Flinch(v, t)
    BY <1>1 DEF ApplyVolatileEffect
  <2> QED BY <2>1, TameRefl, GoesThenFlinch
<1>2. CASE f[1] \in {"confuse", "disable", "attract", "perish_song"}
  <2>1. \/ x \in {Confuse(v, t), Attract(v, t),
                  IF v[t].lum.move \in {NoMove, "struggle"} THEN v ELSE Disable(v, t, v[t].lum.move)}
        \/ f[1] = "perish_song" /\ x = PerishSong(v, u)
    BY <1>2 DEF ApplyVolatileEffect
  <2>2. /\ Tame(P, v, Confuse(v, t)) /\ Tame(P, v, Attract(v, t))
        /\ f[1] = "perish_song" => Tame(P, v, PerishSong(v, u))
        /\ Tame(P, v, IF v[t].lum.move \in {NoMove, "struggle"} THEN v ELSE Disable(v, t, v[t].lum.move))
    <3> HIDE DEF t
    <3> QED BY <1>0, TameConfuse, TameAttract, TamePerishSong, TameMoveDisabled
  <2>3. Tame(P, v, x)
    <3> HIDE DEF x
    <3> QED BY <2>1, <2>2
  <2> QED BY <2>3, TameAffects
<1>3. CASE f[1] \in {"set_user", "set_other"}
  <2>1. x \in {SetFlag(v, u, c), SetFlag(v, t, c)} /\ c \in FlagName
    BY <1>3 DEF ApplyVolatileEffect
  <2> HIDE DEF c, t
  <2>2. Tame(P, v, SetFlag(v, u, c)) /\ Tame(P, v, SetFlag(v, t, c))
    BY <1>0, <2>1, TameSetFlag
  <2>3. Tame(P, v, x)
    BY <2>1, <2>2
  <2> QED BY <2>3, TameAffects
<1>4. CASE f[1] \in {"count_user", "count_other"}
  <2>1. x \in {Restart(v, u, c), Restart(v, t, c)} /\ c \in Counter /\ c # "perish_song"
    BY <1>4 DEF ApplyVolatileEffect
  <2> HIDE DEF c, t
  <2>2. Tame(P, v, Restart(v, u, c)) /\ Tame(P, v, Restart(v, t, c))
    BY <1>0, <2>1, TameRestart
  <2>3. Tame(P, v, x)
    BY <2>1, <2>2
  <2> QED BY <2>3, TameAffects
<1>5. CASE f[1] \in {"encore", "taunt"}
  <2> DEFINE k == f[1]
             a == Restart(v, t, k)
  <2>1. x = ApplyOwnMentalHerb(a, t) /\ k \in Counter /\ k # "perish_song"
    BY <1>5, <1>a DEF ApplyVolatileEffect
  <2> HIDE DEF k, t
  <2>2. Tame(P, v, a)
    BY <1>0, <2>1, TameRestart
  <2> HIDE DEF a
  <2>3. Tame(P, a, ApplyOwnMentalHerb(a, t))
    BY <1>0, TameApplyOwnMentalHerb
  <2> QED BY <2>1, <2>2, <2>3, TameTrans, TameAffects
<1>6. CASE f[1] = "torment"
  <2> DEFINE a == SetFlag(v, t, torment)
  <2>1. x = ApplyOwnMentalHerb(a, t)
    BY <1>6 DEF ApplyVolatileEffect
  <2> HIDE DEF torment, t
  <2>2. Tame(P, v, a)
    BY <1>0, <1>b, TameSetFlag
  <2> HIDE DEF a
  <2>3. Tame(P, a, ApplyOwnMentalHerb(a, t))
    BY <1>0, TameApplyOwnMentalHerb
  <2> QED BY <2>1, <2>2, <2>3, TameTrans, TameAffects
<1>7. CASE f[1] \in {"trap", "thaw_and_trap"}
  <2> DEFINE a == Thawed(v, t)
  <2>1. x \in {Start(v, t, trap), Start(a, t, trap)}
    BY <1>7 DEF ApplyVolatileEffect
  <2> HIDE DEF trap, t, x
  <2>2. Tame(P, v, Start(v, t, trap))
    BY <1>0, <1>a, TameStart
  <2>3. Tame(P, v, a)
    BY <1>0, TameThawed
  <2> HIDE DEF a
  <2>4. Tame(P, a, Start(a, t, trap))
    BY <1>0, <1>a, TameStart
  <2>5. Tame(P, v, Start(a, t, trap))
    BY <2>3, <2>4, TameTrans
  <2>6. Tame(P, v, x)
    BY <2>1, <2>2, <2>5
  <2> QED BY <2>6, TameAffects DEF x
<1>8. CASE f[1] = "jaw_lock"
  <2> DEFINE a == SetFlag(v, u, full)
  <2>1. x = SetFlag(a, t, full)
    BY <1>8 DEF ApplyVolatileEffect
  <2> HIDE DEF full, t
  <2>2. Tame(P, v, a)
    BY <1>b, TameSetFlag
  <2> HIDE DEF a
  <2>3. Tame(P, a, SetFlag(a, t, full))
    BY <1>0, <1>b, TameSetFlag
  <2> QED BY <2>1, <2>2, <2>3, TameTrans, TameAffects
<1>9. CASE f[1] = "power_trick"
  <2>1. x \in {ClearFlags(v, u, {"power_trick"}), SetFlag(v, u, trick)}
    BY <1>9 DEF ApplyVolatileEffect
  <2> HIDE DEF trick
  <2>2. Tame(P, v, ClearFlags(v, u, {"power_trick"})) /\ Tame(P, v, SetFlag(v, u, trick))
    BY <1>b, TameSetFlag, TameClearFlags
  <2>3. Tame(P, v, x)
    BY <2>1, <2>2
  <2> QED BY <2>3, TameAffects
<1> QED BY <1>1, <1>2, <1>3, <1>4, <1>5, <1>6, <1>7, <1>8, <1>9 DEF VolatileEffects

LEMMA TameApplyWhiteHerb ==
  ASSUME NEW P, NEW v, NEW s \in Side
  PROVE  Tame(P, v, ApplyWhiteHerb(v, s))
<1> SUFFICES ASSUME v \in World  PROVE Tame(P, v, ApplyWhiteHerb(v, s))
  BY DEF Tame
<1> DEFINE low == 0
           high == 6
           g == [k \in Stat |-> Clamped(v[s].stages[k], low, high)]
           x == [v EXCEPT ![s].stages = g]
<1>1. ApplyWhiteHerb(v, s) = x
  BY DEF ApplyWhiteHerb
<1>2. g \in [Stat -> -6..6]
  <2>1. v[s].stages \in [Stat -> -6..6]
    BY StagesOf
  <2>2. low \in Int /\ high \in Int /\ low <= high /\ low..high \subseteq -6..6
    OBVIOUS
  <2> HIDE DEF low, high
  <2>3. ASSUME NEW k \in Stat PROVE Clamped(v[s].stages[k], low, high) \in -6..6
    <3> DEFINE n == v[s].stages[k]
    <3>1. n \in Int
      BY <2>1
    <3> HIDE DEF n
    <3>2. Clamped(n, low, high) \in low..high
      BY <3>1, <2>2, ClampedIn
    <3> QED BY <3>2, <2>2 DEF n
  <2> QED BY <2>3
<1> HIDE DEF g
<1>3. Tame(P, v, x)
  BY <1>2, TamePutStages
<1> QED BY <1>1, <1>3

\* What is flung may make the target flinch, and is lost.
LEMMA FlingAffects ==
  ASSUME NEW P, NEW v, NEW u \in Side, Claused(P, v, u)
  PROVE  Affects(P, u, v, Fling(v, u))
<1> DEFINE item == Item(v, u)
           t == Other(u)
           st == FlungStatus(item)
           immune == TypesBlocking(st)
           a == FlungAt(v, u, item)
           b == TryApplyStatus(v, u, st, immune)
<1>1. Fling(v, u) = RemoveItem(a, u)
  BY DEF Fling
<1>2. a \in {b, Flinch(v, t), MentalHerbCures(v, t), ApplyWhiteHerb(v, t), v}
  BY DEF FlungAt
<1>3. st \in Statuses /\ t \in Side
  BY Sides DEF FlungStatus, Statuses, Clear
<1>4. Tame(P, v, b) /\ Tame(P, v, MentalHerbCures(v, t)) /\ Tame(P, v, ApplyWhiteHerb(v, t)) /\ Tame(P, v, v)
  <2> HIDE DEF st, immune, t
  <2> QED BY <1>3, TameTryApplyStatus, TameMentalHerbCures, TameApplyWhiteHerb, TameRefl
<1>5. Affects(P, u, v, Flinch(v, t))
  BY TameRefl, GoesThenFlinch
<1>6. Affects(P, u, v, a)
  <2> HIDE DEF a, b, t
  <2> QED BY <1>2, <1>4, <1>5, TameAffects
<1> HIDE DEF a
<1>7. Tame(P, a, RemoveItem(a, u))
  BY TameRemoveItem
<1>8. Affects(P, u, a, RemoveItem(a, u))
  BY <1>7, TameAffects
<1> QED BY <1>1, <1>6, <1>8, AffectsTrans

\* Anyone may get an item.
Free(P) == \A s \in Side : \A m \in Mons(s) : <<s, m>> \in P[3]

\* The effects by which someone gets an item
Giving == {"steal", "swap_items", "recycle"}

LEMMA FreeGets ==
  ASSUME NEW P, Free(P), NEW v \in World, NEW s \in Side
  PROVE  Gets(P, v, s)
BY MonOf DEF Free, Gets

LEMMA ItemEffectAffects ==
  ASSUME NEW P, NEW v, NEW u \in Side, NEW f, f[1] \in ItemEffects, Claused(P, v, u),
         f[1] \in Giving => Free(P)
  PROVE  Affects(P, u, v, ApplyItemEffect(v, u, f))
<1> DEFINE x == ApplyItemEffect(v, u, f)
           t == Other(u)
<1>0. t \in Side
  BY Sides
<1>1. CASE f[1] = "fling"
  <2>1. x = Fling(v, u)
    BY <1>1 DEF ApplyItemEffect
  <2> QED BY <2>1, FlingAffects
<1>2. CASE f[1] \in Giving
  <2> SUFFICES ASSUME v \in World  PROVE Tame(P, v, x)
    BY TameAffects DEF Tame
  <2>1. x \in {v, StealItem(v, u), SwapItems(v, u), RecycleItem(v, u)}
    BY <1>2 DEF ApplyItemEffect, Giving
  <2>2. Gets(P, v, u) /\ Gets(P, v, t)
    BY <1>0, <1>2, FreeGets
  <2>3. Tame(P, v, StealItem(v, u)) /\ Tame(P, v, SwapItems(v, u)) /\ Tame(P, v, RecycleItem(v, u))
    BY <2>2, TameStealItem, TameSwapItems, TameRecycleItem
  <2> HIDE DEF x
  <2> QED BY <2>1, <2>3, TameRefl
<1>3. CASE f[1] \in {"knock_off", "incinerate"}
  <2>1. x \in {v, RemoveItem(v, t), DestroyItem(v, t)}
    BY <1>3 DEF ApplyItemEffect
  <2>2. Tame(P, v, RemoveItem(v, t)) /\ Tame(P, v, DestroyItem(v, t)) /\ Tame(P, v, v)
    <3> HIDE DEF t
    <3> QED BY <1>0, TameRemoveItem, TameDestroyItem, TameRefl
  <2> HIDE DEF x
  <2>3. Tame(P, v, x)
    BY <2>1, <2>2
  <2> QED BY <2>3, TameAffects DEF x
<1> QED BY <1>1, <1>2, <1>3 DEF ItemEffects, Giving

-----------------------------------------------------------------------------
(* Effects on the field and on the other team *)

LEMMA TameRapidSpin ==
  ASSUME NEW P, NEW v, NEW u \in Side
  PROVE  Tame(P, v, RapidSpin(v, u))
<1> DEFINE one == 1
           stats == {"spe"}
           a == ClearTeamField(v, u)
           b == Boost(a, u, stats, one)
<1>1. RapidSpin(v, u) \in {a, b}
  BY DEF RapidSpin
<1>2. one \in Int
  OBVIOUS
<1> HIDE DEF one, stats
<1>3. Tame(P, v, a)
  BY TameClearTeamField
<1> HIDE DEF a
<1>4. Tame(P, a, b)
  BY <1>2, TameBoost
<1> HIDE DEF b
<1> QED BY <1>1, <1>3, <1>4, TameTrans

LEMMA PhazeAffects ==
  ASSUME NEW P, Harsh(P), NEW v, NEW u \in Side, NEW m, v \in World => m \in Mons(Other(u)),
         May(P, Other(u), "counts"), v \in World => Steady(P, v)
  PROVE  Affects(P, u, v, SwitchPokemon(v, Other(u), m))
<1> SUFFICES ASSUME v \in World  PROVE Affects(P, u, v, SwitchPokemon(v, Other(u), m))
  BY DEF Affects, Goes
<1> DEFINE t == Other(u)
           x == SwitchPokemon(v, t, m)
<1>1. t \in Side /\ Other(t) = u
  BY DEF Side, Other
<1>2. v \in World => m \in Mons(t)
  OBVIOUS
<1>0. May(P, t, "counts")
  OBVIOUS
<1> HIDE DEF t
<1>3. /\ Goes(P, {Other(t)}, {}, v, x)
      /\ v \in World => /\ x[t].lum = UseSwitch(v[t].lum, HP(v, t) = 0)
                        /\ x[Other(t)].lum = FoeSwitched(v[Other(t)].lum)
  <2>1. t \in Side
    BY <1>1
  <2>3. Harsh(P) /\ v \in World /\ m \in Mons(t) /\ Steady(P, v)
    BY <1>2
  <2> HIDE DEF x
  <2>2. /\ Goes(P, {Other(t)}, {}, v, SwitchPokemon(v, t, m))
        /\ SwitchPokemon(v, t, m)[t].lum = UseSwitch(v[t].lum, HP(v, t) = 0)
        /\ SwitchPokemon(v, t, m)[Other(t)].lum = FoeSwitched(v[Other(t)].lum)
    BY ONLY <1>0, <2>1, <2>3, SwitchPokemonGoes
  <2> QED BY <2>2 DEF x
<1> HIDE DEF x
<1>4. v \in World => x[u].lum = FoeSwitched(v[u].lum)
  BY <1>1, <1>3
<1>5. Goes(P, Settled(P, u), {}, v, x)
  <2>1. Settled(P, u) \subseteq {u}
    BY TwoSides DEF Settled
  <2>2. Goes(P, {u}, {}, v, x)
    BY <1>1, <1>3
  <2> QED BY <2>1, <2>2 DEF Goes
<1>6. v \in World => (IsEnduring(x[u].lum) <=> IsEnduring(v[u].lum))
  BY <1>4, LumOf, LumFoeSwitched
<1> QED BY <1>5, <1>6 DEF Affects, x, t

LEMMA PutLumThere ==
  ASSUME NEW v \in World, NEW s \in Side, NEW l
  PROVE  [v EXCEPT ![s].lum = l][s].lum = l
BY SideOf DEF World, Side, OneSide

\* The last move of the other, or its own, is set back.
LEMMA PutLumAffects ==
  ASSUME NEW P, NEW v, NEW u \in Side, NEW s \in Side, NEW l,
         v \in World => /\ l \in Used
                        /\ IsEnduring(l) <=> IsEnduring(v[s].lum)
                        /\ Recalls(P, s, v[s].lum, l),
         NEW x, x = [v EXCEPT ![s].lum = l]
  PROVE  Affects(P, u, v, x)
<1> DEFINE A == Side
           L == {}
<1>1. A \in SUBSET Side /\ L \in SUBSET Side /\ s \notin L
  OBVIOUS
<1> HIDE DEF A, L
<1>0. Goes(P, A, L, v, x)
  BY <1>1, PutLum
<1>2. Goes(P, Settled(P, u), {}, v, x)
  BY <1>0 DEF Goes, A, L, Settled
<1>3. v \in World => IsEnduring(x[u].lum) <=> IsEnduring(v[u].lum)
  <2> SUFFICES ASSUME v \in World  PROVE IsEnduring(x[u].lum) <=> IsEnduring(v[u].lum)
    OBVIOUS
  <2>1. CASE s = u
    <3>1. x[s].lum = l
      BY <1>1, PutLumThere
    <3> QED BY <2>1, <3>1
  <2>2. CASE s # u
    <3>1. x[u] = v[u]
      BY <2>2 DEF World, Side
    <3> QED BY <3>1
  <2> QED BY <2>1, <2>2
<1> QED BY <1>2, <1>3 DEF Affects

LEMMA FieldEffectAffects ==
  ASSUME NEW P, Harsh(P), NEW v, NEW u \in Side, NEW f, f[1] \in FieldEffects,
         f[1] = "weather" => f[2] \in WeatherName,
         f[1] = "hazard" => f[2] \in HazardName,
         f[1] = "phaze" => /\ May(P, Other(u), "counts")
                           /\ v \in World => f[2] \in Mons(Other(u)) /\ Steady(P, v),
         f[1] = "hyper_beam" => (v \in World => IsRecharging(v[u].lum) \/ MayFail(P))
  PROVE  Affects(P, u, v, ApplyFieldEffect(v, u, f))
<1> DEFINE x == ApplyFieldEffect(v, u, f)
           t == Other(u)
           k == f[2]
<1>0. t \in Side
  BY Sides
<1>1. CASE f[1] = "weather"
  <2> DEFINE turns == WeatherTurns(v, u, k)
  <2>1. x = ActivateWeather(v, k, turns) /\ k \in WeatherName /\ turns \in -1..8
    BY <1>1, WeatherTurnsIn DEF ApplyFieldEffect
  <2> HIDE DEF k, turns
  <2> QED BY <2>1, TameActivateWeather, TameAffects
<1>2. CASE f[1] = "hazard"
  <2>1. x = AddHazard(v, t, k) /\ k \in HazardName
    BY <1>2 DEF ApplyFieldEffect
  <2> HIDE DEF k, t
  <2> QED BY <2>1, <1>0, TameAddHazard, TameAffects
<1>3. CASE f[1] = "rapid_spin"
  <2>1. x = RapidSpin(v, u)
    BY <1>3 DEF ApplyFieldEffect
  <2> QED BY <2>1, TameRapidSpin, TameAffects
<1>4. CASE f[1] = "phaze"
  <2>1. /\ x = SwitchPokemon(v, Other(u), k) /\ (v \in World => k \in Mons(Other(u)))
        /\ May(P, Other(u), "counts") /\ (v \in World => Steady(P, v))
    BY <1>4 DEF ApplyFieldEffect
  <2> HIDE DEF k
  <2> QED BY <2>1, PhazeAffects
<1>5. CASE f[1] = "break_protect"
  <2> DEFINE l == BreakProtect(v[t].lum)
  <2>1. x = [v EXCEPT ![t].lum = l]
    BY <1>5 DEF ApplyFieldEffect
  <2>2. v \in World => /\ l \in Used
                       /\ IsEnduring(l) <=> IsEnduring(v[t].lum)
                       /\ Recalls(P, t, v[t].lum, l)
    <3>1. l \in {v[t].lum, WithEffect(v[t].lum, "Empty")}
      BY DEF BreakProtect
    <3> QED BY <3>1, <1>0, LumOf, LumBreakProtect, RecallsEmpty
  <2> HIDE DEF l, t, x
  <2>3. Affects(P, u, v, x)
    BY <2>1, <2>2, <1>0, PutLumAffects
  <2> QED BY <2>3 DEF x
<1>6. CASE f[1] = "hyper_beam"
  <2> DEFINE a == Asserted(v, IsRecharging(v[u].lum))
             l == Recharge(a[u].lum)
             b == [a EXCEPT ![u].lum = l]
  <2>1. x \in {v, b}
    BY <1>6 DEF ApplyFieldEffect, HyperBeam
  <2>2. Tame(P, v, a)
    BY <1>6, TameAsserted
  <2> HIDE DEF a
  <2>3. a \in World => /\ l \in Used
                       /\ IsEnduring(l) <=> IsEnduring(a[u].lum)
                       /\ Recalls(P, u, a[u].lum, l)
    <3>1. l \in {a[u].lum, WithEffect(a[u].lum, "Empty")}
      BY DEF Recharge
    <3> QED BY <3>1, LumOf, LumRecharge, RecallsEmpty
  <2> HIDE DEF l
  <2>4. Affects(P, u, a, b)
    BY <2>3, PutLumAffects
  <2>5. Affects(P, u, v, b)
    <3> HIDE DEF b
    <3> QED BY <2>2, <2>4, TameAffects, AffectsTrans
  <2>6. Affects(P, u, v, v)
    BY TameRefl, TameAffects
  <2> QED BY <2>1, <2>5, <2>6
<1> QED BY <1>1, <1>2, <1>3, <1>4, <1>5, <1>6 DEF FieldEffects

-----------------------------------------------------------------------------
(* What is drawn for a move can be applied. *)
Fair(P, v, u, f) ==
  /\ Statusable(P, v, u, f)
  /\ f[1] \in {"recoil", "heal"} => f[2] \in Nat \ {0}
  /\ f[1] = "pain_split" => <<Other(u), v[Other(u)].active>> \in P[1]
  /\ f[1] = "stages" => f[4] \in Int
  /\ f[1] = "confusing_boost" => f[3] \in Int
  /\ f[1] \in {"set_user", "set_other"} => f[2] \in FlagName
  /\ f[1] \in {"count_user", "count_other"} => f[2] \in Counter \ {"perish_song"}
  /\ f[1] = "perish_song" => \A s \in Side : May(P, s, "sings")
  /\ f[1] = "weather" => f[2] \in WeatherName
  /\ f[1] = "hazard" => f[2] \in HazardName
  /\ f[1] = "phaze" => f[2] \in Mons(Other(u)) /\ May(P, Other(u), "counts") /\ Steady(P, v)
  /\ f[1] = "hyper_beam" => IsRecharging(v[u].lum) \/ MayFail(P)

LEMMA EffectAffects ==
  ASSUME NEW P, Harsh(P), NEW v \in World, NEW u \in Side, NEW f, NEW damage \in Nat,
         f[1] \in Giving => Free(P), <<u, v[u].active>> \in P[1], Claused(P, v, u), Fair(P, v, u, f)
  PROVE  Affects(P, u, v, ApplyEffect(v, u, f, damage))
<1> DEFINE x == ApplyEffect(v, u, f, damage)
<1>1. CASE f[1] \in StatusEffects
  <2>1. x = ApplyStatusEffect(v, u, f, damage)
    BY <1>1 DEF ApplyEffect, FieldEffects, ItemEffects, VolatileEffects, StageEffects, HPEffects, StatusEffects
  <2>2. Livable(P, v, u) /\ Statusable(P, v, u, f)
    BY DEF Livable, Fair
  <2> QED BY <1>1, <2>1, <2>2, StatusEffectAffects
<1>2. CASE f[1] \in HPEffects
  <2>1. x = ApplyHPEffect(v, u, f, damage)
    BY <1>2 DEF ApplyEffect, FieldEffects, ItemEffects, VolatileEffects, StageEffects, HPEffects, StatusEffects
  <2>2. /\ f[1] \in {"recoil", "heal"} => f[2] \in Nat \ {0}
        /\ f[1] = "pain_split" => <<Other(u), v[Other(u)].active>> \in P[1]
    BY DEF Fair
  <2> QED BY <1>2, <2>1, <2>2, TameHPEffect, TameAffects
<1>3. CASE f[1] \in StageEffects
  <2>1. x = ApplyStageEffect(v, u, f)
    BY <1>3 DEF ApplyEffect, FieldEffects, ItemEffects, VolatileEffects, StageEffects, HPEffects, StatusEffects
  <2>2. (f[1] = "stages" => f[4] \in Int) /\ (f[1] = "confusing_boost" => f[3] \in Int)
    BY DEF Fair
  <2> QED BY <1>3, <2>1, <2>2, TameStageEffect, TameAffects
<1>4. CASE f[1] \in VolatileEffects
  <2>1. x = ApplyVolatileEffect(v, u, f)
    BY <1>4 DEF ApplyEffect, FieldEffects, ItemEffects, VolatileEffects, StageEffects, HPEffects, StatusEffects
  <2>2. /\ f[1] \in {"set_user", "set_other"} => f[2] \in FlagName
        /\ f[1] \in {"count_user", "count_other"} => f[2] \in Counter \ {"perish_song"}
        /\ f[1] = "perish_song" => \A s \in Side : May(P, s, "sings")
    BY DEF Fair
  <2> QED BY <1>4, <2>1, <2>2, VolatileEffectAffects
<1>5. CASE f[1] \in ItemEffects
  <2>1. x = ApplyItemEffect(v, u, f)
    BY <1>5 DEF ApplyEffect, FieldEffects, ItemEffects, VolatileEffects, StageEffects, HPEffects, StatusEffects
  <2> QED BY <1>5, <2>1, ItemEffectAffects
<1>6. CASE f[1] \in FieldEffects
  <2>1. x = ApplyFieldEffect(v, u, f)
    BY <1>6 DEF ApplyEffect, FieldEffects, ItemEffects, VolatileEffects, StageEffects, HPEffects, StatusEffects
  <2>2. /\ f[1] = "weather" => f[2] \in WeatherName
        /\ f[1] = "hazard" => f[2] \in HazardName
        /\ f[1] = "phaze" => /\ May(P, Other(u), "counts")
                             /\ v \in World => f[2] \in Mons(Other(u)) /\ Steady(P, v)
        /\ f[1] = "hyper_beam" => (v \in World => IsRecharging(v[u].lum) \/ MayFail(P))
    BY DEF Fair
  <2> QED BY <1>6, <2>1, <2>2, FieldEffectAffects
<1>7. CASE f[1] \notin StatusEffects \cup HPEffects \cup StageEffects \cup VolatileEffects
                       \cup ItemEffects \cup FieldEffects
  <2>1. x = v
    BY <1>7 DEF ApplyEffect, FieldEffects, ItemEffects, VolatileEffects, StageEffects, HPEffects, StatusEffects
  <2> QED BY <2>1, TameRefl, TameAffects
<1> QED BY <1>1, <1>2, <1>3, <1>4, <1>5, <1>6, <1>7

LEMMA StatusNames ==
  {"burn", "freeze", "paralysis", "poison", "toxic", "sleep"} \subseteq Statuses
BY DEF Statuses, Sleeping

\* A status that may be drawn
MayGet(v, u, st) ==
  st \in Statuses /\ (st \in {"sleep", "freeze"} => ~TeamHasStatus(v, Other(u), st))

LEMMA CanApplyMayGet ==
  ASSUME NEW v, NEW u, NEW st \in {"burn", "freeze", "paralysis", "poison", "toxic", "sleep"},
         NEW immune, StatusCanApply(v, u, st, immune)
  PROVE  MayGet(v, u, st)
BY StatusNames DEF MayGet, StatusCanApply, CanHaveStatus

StatusDrawn(v, u, f) ==
  \/ f \in {NoEffect, <<"cure">>, <<"flinch">>, <<"recoil", 3>>}
  \/ \E st : /\ MayGet(v, u, st)
             /\ f \in {<<"status", st>>, <<"status_and_flinch", st>>, <<"recoil_and_status", st>>}

LEMMA DrawnTri ==
  ASSUME NEW v, NEW u, NEW e, e[1] = "tri", NEW f \in PossibleStatusEffects(v, u, e)
  PROVE  StatusDrawn(v, u, f)
<1> DEFINE t == Other(u)
           imm(st) == IF st # "paralysis" THEN TypesBlocking(st)
                      ELSE IF Rules.generation <= 5 THEN {} ELSE {"electric"}
           tri == {st \in {"burn", "freeze", "paralysis"} : StatusCanApply(v, u, st, imm(st))}
           two == {"burn", "paralysis"} \cup (IF TeamHasStatus(v, t, "freeze") THEN {} ELSE {"freeze"})
<1>1. \/ f = NoEffect
      \/ \E st \in tri : f = <<"status", st>>
      \/ f \in {<<"cure">>, <<"status", "burn">>}
      \/ \E st \in two : f = <<"status", st>>
  BY DEF PossibleStatusEffects
<1>2. \A st \in tri : MayGet(v, u, st)
  <2> TAKE st \in tri
  <2>1. StatusCanApply(v, u, st, imm(st)) /\ st \in {"burn", "freeze", "paralysis"}
    OBVIOUS
  <2> HIDE DEF imm, tri
  <2> QED BY <2>1, CanApplyMayGet
<1>3. \A st \in two \cup {"burn"} : MayGet(v, u, st)
  BY StatusNames DEF MayGet
<1> HIDE DEF tri, two
<1> QED BY <1>1, <1>2, <1>3 DEF StatusDrawn

LEMMA DrawnStatus ==
  ASSUME NEW v, NEW u, NEW e,
         e[1] \in {"status", "thaw_burn", "fang", "recoil_status", "tri"},
         e[1] \in {"status", "fang", "recoil_status"} =>
           e[2] \in {"burn", "freeze", "paralysis", "poison", "toxic", "sleep"},
         NEW f \in PossibleStatusEffects(v, u, e)
  PROVE  StatusDrawn(v, u, f)
<1> DEFINE st == e[2]
<1>1. CASE e[1] = "status"
  <2>1. f = NoEffect \/ (StatusCanApply(v, u, st, e[3]) /\ f = <<"status", st>>)
    BY <1>1 DEF PossibleStatusEffects, Maybe
  <2>2. StatusCanApply(v, u, st, e[3]) => MayGet(v, u, st)
    BY <1>1, CanApplyMayGet
  <2> HIDE DEF st
  <2> QED BY <2>1, <2>2 DEF StatusDrawn
<1>2. CASE e[1] = "thaw_burn"
  <2>1. f \in {NoEffect, <<"cure">>, <<"status", "burn">>}
    BY <1>2 DEF PossibleStatusEffects
  <2>2. MayGet(v, u, "burn")
    BY StatusNames DEF MayGet
  <2> QED BY <2>1, <2>2 DEF StatusDrawn
<1>3. CASE e[1] = "fang"
  <2>1. \/ f \in {NoEffect, <<"flinch">>}
        \/ StatusCanApply(v, u, st, e[3]) /\ f \in {<<"status", st>>, <<"status_and_flinch", st>>}
    BY <1>3 DEF PossibleStatusEffects
  <2>2. StatusCanApply(v, u, st, e[3]) => MayGet(v, u, st)
    BY <1>3, CanApplyMayGet
  <2> HIDE DEF st
  <2> QED BY <2>1, <2>2 DEF StatusDrawn
<1>4. CASE e[1] = "recoil_status"
  <2>1. \/ f = <<"recoil", 3>>
        \/ StatusCanApply(v, u, st, e[3]) /\ f = <<"recoil_and_status", st>>
    BY <1>4 DEF PossibleStatusEffects
  <2>2. StatusCanApply(v, u, st, e[3]) => MayGet(v, u, st)
    BY <1>4, CanApplyMayGet
  <2> HIDE DEF st
  <2> QED BY <2>1, <2>2 DEF StatusDrawn
<1>5. CASE e[1] = "tri"
  BY <1>5, DrawnTri
<1> QED BY <1>1, <1>2, <1>3, <1>4, <1>5

\* What is drawn of the effects that depend on the battle is one of these.
ConditionalDrawn(v, u, e, f) ==
  \/ f \in {NoEffect, <<"flinch">>, <<"confuse">>, <<"absorb">>, <<"attract">>, <<"break_protect">>,
            <<"faint_at_substitute">>}
  \/ e[1] \in {"jaw_lock", "faint"} /\ f = e
  \/ e[1] = "stages" /\ f = <<"stages", e[2], e[3], e[4]>>
  \/ \E stats, n : n \in Int /\ f = <<"stages", "user", stats, n>>
  \/ f = <<"status", "paralysis">>
  \/ \E m2 \in Bench(v, Other(u)) : f = <<"phaze", m2>>

LEMMA DrawnConditional ==
  ASSUME NEW v, NEW u, NEW m, NEW e, e[1] \in Conditional,
         NEW f \in PossibleConditionalEffects(v, u, m, e)
  PROVE  ConditionalDrawn(v, u, e, f)
<1>1. CASE e[1] = "stages"
  BY <1>1 DEF PossibleConditionalEffects, Maybe, ConditionalDrawn
<1>2. CASE e[1] \in {"flinch", "confuse"}
  BY <1>2 DEF PossibleConditionalEffects, Maybe, ConditionalDrawn
<1>3. CASE e[1] \in {"dream_eater", "attract", "shadow_force", "sky_attack"}
  BY <1>3 DEF PossibleConditionalEffects, ConditionalDrawn
<1>4. CASE e[1] = "acupressure"
  <2>1. f = NoEffect \/ \E k \in Stat : f = <<"stages", "user", {k}, 2>>
    BY <1>4 DEF PossibleConditionalEffects
  <2> QED BY <2>1 DEF ConditionalDrawn
<1>5. CASE e[1] \in {"meteor_beam", "skull_bash"}
  <2>1. f = NoEffect \/ \E stats : f = <<"stages", "user", stats, 1>>
    BY <1>5 DEF PossibleConditionalEffects
  <2> QED BY <2>1 DEF ConditionalDrawn
<1>6. CASE e[1] = "bounce"
  BY <1>6 DEF PossibleConditionalEffects, ConditionalDrawn
<1>7. CASE e[1] \in {"jaw_lock", "faint"}
  BY <1>7 DEF PossibleConditionalEffects, ConditionalDrawn
<1>8. CASE e[1] = "phaze"
  BY <1>8 DEF PossibleConditionalEffects, ConditionalDrawn
<1> QED BY <1>1, <1>2, <1>3, <1>4, <1>5, <1>6, <1>7, <1>8 DEF Conditional

\* What holds of an effect that may be drawn, in the battle before the move
Drawn(v, u, m, f) ==
  /\ f[1] \in {"status", "status_and_flinch", "recoil_and_status"} => MayGet(v, u, f[2])
  /\ f[1] \in {"recoil", "heal"} => f[2] \in Nat \ {0}
  /\ f[1] = "pain_split" => Targets(m) = "adjacent" /\ ~HasTrait(m, "explodes")
  /\ f[1] = "stages" => f[4] \in Int
  /\ f[1] = "confusing_boost" => f[3] \in Int
  /\ f[1] \in {"set_user", "set_other"} => f[2] \in FlagName
  /\ f[1] \in {"count_user", "count_other"} => f[2] \in Counter \ {"perish_song"}
  /\ f[1] = "weather" => f[2] \in WeatherName
  /\ f[1] = "hazard" => f[2] \in HazardName
  /\ f[1] = "phaze" => f[2] \in Bench(v, Other(u))
  /\ f[1] = "recycle" => MoveData[m].effect[1] = "recycle"
  /\ f[1] = "hyper_beam" => MoveData[m].effect[1] = "hyper_beam"

LEMMA EffectOf ==
  ASSUME NEW m \in Move, NEW e, e = MoveData[m].effect
  PROVE  /\ e[1] \in {"status", "fang", "recoil_status"} =>
              e[2] \in {"burn", "freeze", "paralysis", "poison", "toxic", "sleep"}
         /\ e[1] \notin {"status_and_flinch", "recoil_and_status"}
         /\ e[1] \in {"recoil", "heal"} => e[2] \in Nat \ {0}
         /\ e[1] = "stages" => e[4] \in Int
         /\ e[1] = "confusing_boost" => e[3] \in Int
         /\ e[1] \in {"count_user", "count_other"} => e[2] \in Counter \ {"perish_song"}
         /\ e[1] = "hazard" => e[2] \in HazardName
         /\ e[1] = "pain_split" => Targets(m) = "adjacent" /\ ~HasTrait(m, "explodes")
         /\ e[1] \in {"set_user", "set_other"} => e[2] \in FlagName
         /\ e[1] = "weather" => e[2] \in WeatherName
<1>1. /\ e[1] \in {"set_user", "set_other"} => e[2] \in FlagName
      /\ e[1] = "weather" => e[2] \in WeatherName
  BY DEF FlagName, WeatherName
<1>2. HazardName = {"spikes", "toxic_spikes", "rock"}
  BY DEF HazardName
<1> QED BY <1>1, <1>2, EffectsAssumption, CounterNames

LEMMA BenchIn ==
  ASSUME NEW v \in World, NEW s \in Side
  PROVE  Bench(v, s) \subseteq Mons(s)
BY SideOf DEF Bench, Members, OneSide

LEMMA PossibleDrawn ==
  ASSUME NEW v \in World, NEW u \in Side, NEW m \in Move, NEW f \in PossibleEffects(v, u, m)
  PROVE  Drawn(v, u, m, f)
<1> DEFINE e == MoveData[m].effect
<1> HIDE DEF e
<1>1. CASE e[1] \in {"status", "thaw_burn", "fang", "recoil_status", "tri"}
  <2>1. f \in PossibleStatusEffects(v, u, e)
    BY <1>1 DEF PossibleEffects, e
  <2>2. e[1] \in {"status", "fang", "recoil_status"} =>
          e[2] \in {"burn", "freeze", "paralysis", "poison", "toxic", "sleep"}
    BY EffectOf DEF e
  <2>3. StatusDrawn(v, u, f)
    BY <1>1, <2>1, <2>2, DrawnStatus
  <2>4. CASE f \in {NoEffect, <<"cure">>, <<"flinch">>, <<"recoil", 3>>}
    BY <2>4 DEF Drawn, NoEffect
  <2>5. ASSUME NEW st, MayGet(v, u, st),
               f \in {<<"status", st>>, <<"status_and_flinch", st>>, <<"recoil_and_status", st>>}
        PROVE  Drawn(v, u, m, f)
    BY <2>5 DEF Drawn
  <2> QED BY <2>3, <2>4, <2>5 DEF StatusDrawn
<1>2. CASE e[1] \in Conditional /\ e[1] \notin {"status", "thaw_burn", "fang", "recoil_status", "tri"}
  <2>1. f \in PossibleConditionalEffects(v, u, m, e)
    BY <1>2 DEF PossibleEffects, e
  <2>2. ConditionalDrawn(v, u, e, f)
    BY <1>2, <2>1, DrawnConditional
  <2>3. CASE f \in {NoEffect, <<"flinch">>, <<"confuse">>, <<"absorb">>, <<"attract">>,
                    <<"break_protect">>, <<"faint_at_substitute">>}
    BY <2>3 DEF Drawn, NoEffect
  <2>4. CASE e[1] \in {"jaw_lock", "faint"} /\ f = e
    BY <2>4 DEF Drawn
  <2>5. CASE e[1] = "stages" /\ f = <<"stages", e[2], e[3], e[4]>>
    <3>1. e[4] \in Int
      BY <2>5, EffectOf DEF e
    <3> QED BY <2>5, <3>1 DEF Drawn
  <2>6. ASSUME NEW stats, NEW n \in Int, f = <<"stages", "user", stats, n>>
        PROVE  Drawn(v, u, m, f)
    BY <2>6 DEF Drawn
  <2>7. CASE f = <<"status", "paralysis">>
    <3>1. MayGet(v, u, "paralysis")
      BY StatusNames DEF MayGet
    <3> QED BY <2>7, <3>1 DEF Drawn
  <2>8. ASSUME NEW m2 \in Bench(v, Other(u)), f = <<"phaze", m2>>
        PROVE  Drawn(v, u, m, f)
    BY <2>8 DEF Drawn
  <2> QED BY <2>2, <2>3, <2>4, <2>5, <2>6, <2>7, <2>8 DEF ConditionalDrawn
<1>3. CASE e[1] \notin Conditional \cup {"status", "thaw_burn", "fang", "recoil_status", "tri"}
  <2>1. f = e
    BY <1>3 DEF PossibleEffects, e
  <2>2. /\ e[1] \notin {"status_and_flinch", "recoil_and_status"}
        /\ e[1] \in {"recoil", "heal"} => e[2] \in Nat \ {0}
        /\ e[1] = "stages" => e[4] \in Int
        /\ e[1] = "confusing_boost" => e[3] \in Int
        /\ e[1] \in {"count_user", "count_other"} => e[2] \in Counter \ {"perish_song"}
        /\ e[1] = "hazard" => e[2] \in HazardName
        /\ e[1] = "pain_split" => Targets(m) = "adjacent" /\ ~HasTrait(m, "explodes")
        /\ e[1] \in {"set_user", "set_other"} => e[2] \in FlagName
        /\ e[1] = "weather" => e[2] \in WeatherName
    BY EffectOf DEF e
  <2>3. e[1] \notin {"status", "phaze"}
    BY <1>3 DEF Conditional
  <2> QED BY <2>1, <2>2, <2>3 DEF Drawn, e
<1> QED BY <1>1, <1>2, <1>3

-----------------------------------------------------------------------------
(* The execution of a move up to its effect *)

\* Where nothing that P is about happens
Quiet == <<{}, {}, {}, {}, {}>>

\* So does what happens to what u has done last; tables of another kind may have assertions
\* fail.
Acting(u) == Chance \cup {<<u, "uses">>}
Hush(u) == <<{}, {}, {}, {}, Acting(u)>>

LEMMA ActingMay ==
  ASSUME NEW u \in Side, NEW P, Acting(u) \subseteq P[5]
  PROVE  May(P, u, "uses") /\ Risky(P) /\ Wider(Hush(u), P)
BY DEF Acting, Hush, Chance, May, MayFail, Risky, Wider

LEMMA HushIs ==
  ASSUME NEW u \in Side
  PROVE  /\ Acting(u) \subseteq Hush(u)[5]
         /\ Mute(Hush(u))
         /\ Tabled => ~MayFail(Hush(u))
         /\ \A s \in Side : May(Hush(u), s, "uses") => s = u
BY DEF Acting, Hush, Chance, May, MayFail, Mute, Side

LEMMA QuietTame ==
  ASSUME NEW P, NEW v, NEW x, TeamsTame(Quiet, v, x)
  PROVE  TeamsTame(P, v, x)
<1>1. Wider(Quiet, P)
  BY DEF Wider, Quiet
<1> QED BY <1>1, TeamsTameWider

\* What u does by m, up to the effect of m: who opposes it keeps what it has done, and u
\* endures by Endure.
Uses(P, u, m, v, x) ==
  /\ Goes(P, Side, {Other(u)}, v, x)
  /\ v \in World /\ IsEnduring(x[u].lum) => IsEnduring(v[u].lum) \/ MoveData[m].effect = <<"endure">>

LEMMA HushUses ==
  ASSUME NEW u \in Side, NEW P, Acting(u) \subseteq P[5], NEW m, NEW v, NEW x, Uses(Hush(u), u, m, v, x)
  PROVE  Uses(P, u, m, v, x)
BY ActingMay, TeamsTameWider DEF Uses, Goes

LEMMA UsesTrans ==
  ASSUME NEW P, NEW u \in Side, NEW m, NEW v, NEW x, NEW y, Uses(P, u, m, v, x), Uses(P, u, m, x, y)
  PROVE  Uses(P, u, m, v, y)
<1> DEFINE L == {Other(u)}
<1>1. Goes(P, Side, L, v, x) /\ Goes(P, Side, L, x, y)
  BY DEF Uses
<1> HIDE DEF L
<1>2. Goes(P, Side, L, v, y)
  BY <1>1, GoesTrans
<1>3. v \in World => x \in World
  BY <1>1 DEF Goes
<1> QED BY <1>2, <1>3 DEF Uses, L

LEMMA TameUses ==
  ASSUME NEW P, NEW u \in Side, NEW m, NEW v, NEW x, Tame(P, v, x)
  PROVE  Uses(P, u, m, v, x)
<1> DEFINE L == {Other(u)}
<1>1. L \in SUBSET Side
  BY Sides
<1> HIDE DEF L
<1>2. Goes(P, Side, L, v, x)
  BY <1>1, TameGoes
<1>3. v \in World => x[u].lum = v[u].lum
  BY DEF Tame
<1> QED BY <1>2, <1>3 DEF Uses, L

\* The user's last move is put.
LEMMA PutLumUses ==
  ASSUME NEW P, NEW u \in Side, NEW m, NEW v, NEW l,
         v \in World => /\ l \in Used
                        /\ Recalls(P, u, v[u].lum, l)
                        /\ IsEnduring(l) => IsEnduring(v[u].lum) \/ MoveData[m].effect = <<"endure">>,
         NEW x, x = [v EXCEPT ![u].lum = l]
  PROVE  Uses(P, u, m, v, x)
<1> DEFINE L == {Other(u)}
           A == Side
<1>1. L \in SUBSET Side /\ u \notin L /\ A \in SUBSET Side
  BY Sides
<1> HIDE DEF L, A
<1>2. Goes(P, A, L, v, x) /\ (v \in World => x[u].lum = l)
  BY <1>1, PutLum
<1> QED BY <1>2 DEF Uses, L, A

LEMMA TameAdvanceStatus ==
  ASSUME NEW P, NEW v, NEW u \in Side, NEW clears
  PROVE  Tame(P, v, AdvanceStatus(v, u, clears))
<1> SUFFICES ASSUME v \in World  PROVE Tame(P, v, AdvanceStatus(v, u, clears))
  BY DEF Tame
<1> DEFINE b == [Mon(v, u) EXCEPT !.status = Clear]
           x == [v EXCEPT ![u].team[v[u].active].status = Clear]
<1>1. AdvanceStatus(v, u, clears) \in {v, x}
  BY DEF AdvanceStatus
<1>2. b \in OneMon /\ Tamed(P, u, v[u].active, Mon(v, u), b)
  <2>1. Mon(v, u) \in OneMon /\ Clear \in Statuses
    BY MonOf DEF Statuses
  <2> HIDE DEF b
  <2>2. b \in OneMon /\ b.hp = Mon(v, u).hp /\ b.status = Clear
    BY <2>1, WithStatus DEF b
  <2>3. b.item = Mon(v, u).item /\ b.held = Mon(v, u).held
    BY <2>1, WithStatus DEF b
  <2> QED BY <2>1, <2>2, <2>3, HPInt DEF Tamed, Clear
<1>3. x = [v EXCEPT ![u].team[v[u].active] = b]
  BY DEF Mon
<1>5. b.status \notin Sleeping
  <2>1. Mon(v, u) \in OneMon
    BY MonOf
  <2>2. b.status = Clear
    BY <2>1 DEF OneMon
  <2> QED BY <2>2 DEF Sleeping, Clear
<1> HIDE DEF b, x
<1>4. Tame(P, v, x)
  BY <1>2, <1>3, <1>5, TamePutMon
<1> QED BY <1>1, <1>4, TameRefl

LEMMA LumUnsuccessfulEmpty ==
  ASSUME NEW l \in Used, NEW m \in Move
  PROVE  UnsuccessfulMove(l, m).effect = "Empty"
<1> DEFINE e == WithEffect(l, "Empty")
<1>1. e \in LumRecord /\ e.effect = "Empty"
  BY LumEmpty DEF Used
<1>2. UnsuccessfulMove(l, m) = [e EXCEPT !.successes = 0, !.moved = TRUE, !.move = m]
  BY DEF UnsuccessfulMove, Unsuccessful
<1> HIDE DEF e
<1> QED BY <1>1, <1>2 DEF LumRecord

LEMMA UseUnsuccessfullyUses ==
  ASSUME NEW P, NEW v, NEW u \in Side, NEW m \in Move
  PROVE  Uses(P, u, m, v, UseUnsuccessfully(v, u, m))
<1> DEFINE l == UnsuccessfulMove(v[u].lum, m)
           x == [v EXCEPT ![u].lum = l]
<1>1. UseUnsuccessfully(v, u, m) = x
  BY DEF UseUnsuccessfully
<1>2. v \in World => l \in Used /\ ~IsEnduring(l)
  BY LumOf, LumUnsuccessfulMove
<1>4. v \in World => Recalls(P, u, v[u].lum, l)
  BY LumOf, LumUnsuccessfulEmpty DEF Recalls
<1> HIDE DEF l
<1>3. Uses(P, u, m, v, x)
  BY <1>2, <1>4, PutLumUses
<1> QED BY <1>1, <1>3

LEMMA TameHurriedByMiss ==
  ASSUME NEW P, NEW v, NEW u \in Side
  PROVE  Tame(P, v, HurriedByMiss(v, u))
<1> DEFINE two == 2
           stats == {"spe"}
           a == Boost(v, u, stats, two)
           b == RemoveItem(a, u)
<1>1. HurriedByMiss(v, u) \in {v, b} /\ two \in Int
  BY DEF HurriedByMiss
<1> HIDE DEF two, stats
<1>2. Tame(P, v, a)
  BY <1>1, TameBoost
<1> HIDE DEF a
<1>3. Tame(P, a, b)
  BY TameRemoveItem
<1> HIDE DEF b
<1> QED BY <1>1, <1>2, <1>3, TameTrans, TameRefl

\* Who has used a move that has a recharge is to recharge.
Charged(v, u, m) == Tabled /\ KindOf[m] = "recharge" => IsRecharging(v[u].lum)

LEMMA TameCharged ==
  ASSUME NEW P, NEW v \in World, NEW x, Tame(P, v, x), NEW u \in Side, NEW m, Charged(v, u, m)
  PROVE  Charged(x, u, m)
BY DEF Tame, Charged

LEMMA UseSuccessfullyUses ==
  ASSUME NEW v \in World, NEW u \in Side, NEW P, Acting(u) \subseteq P[5], NEW m \in Move,
         NEW ends \in ActionEnds(v[u].lum), Carries(v[u].lum, m)
  PROVE  /\ Uses(P, u, m, v, UseSuccessfully(v, u, m, ends))
         /\ Charged(UseSuccessfully(v, u, m, ends), u, m)
<1> DEFINE herb == Item(v, u) = "power_herb"
           sun == Weather(v) = "sun"
           a == Asserted(v, ~SuccessfulMoveThrows(v[u].lum, m, ends))
           l == SuccessfulMove(a[u].lum, m, m, ends, herb, sun)
           b == [a EXCEPT ![u].lum = l]
           c == RemoveItem(b, u)
<1>1. UseSuccessfully(v, u, m, ends) \in {b, c}
  BY DEF UseSuccessfully
<1>0. May(P, u, "uses") /\ Risky(P) /\ v[u].lum \in Used
  BY ActingMay, LumOf
<1>2. Tame(P, v, a)
  <2> DEFINE holds == ~SuccessfulMoveThrows(v[u].lum, m, ends)
  <2>1. holds \/ MayFail(P)
    <3> HIDE DEF a, l
    <3> QED BY <1>0, LumCarriesOn DEF Risky
  <2> HIDE DEF holds
  <2>2. Tame(P, v, Asserted(v, holds))
    BY <2>1, TameAsserted
  <2> QED BY <2>2 DEF holds
<1>3. a \in World /\ a[u].lum = v[u].lum
  BY <1>2 DEF Tame
<1> HIDE DEF a
<1>4. /\ l \in Used /\ (IsEnduring(l) => MoveData[m].effect = <<"endure">>)
      /\ Recalls(P, u, a[u].lum, l)
      /\ Tabled /\ KindOf[m] = "recharge" => IsRecharging(l)
  <2> DEFINE k == a[u].lum
  <2>1. k \in Used /\ ends \in ActionEnds(k) /\ Carries(k, m)
    BY <1>3, LumOf
  <2> HIDE DEF k, herb, sun
  <2>2. l \in Used /\ (IsEnduring(l) => MoveData[m].effect = <<"endure">>)
    BY <2>1, LumSuccessfulMove DEF k
  <2>3. Tabled => Fit(l) /\ (KindOf[m] = "recharge" => IsRecharging(l))
    BY <2>1, LumCarriesOn DEF k
  <2>4. Recalls(P, u, k, l)
    BY <1>0, <2>3 DEF Recalls, Risky
  <2> QED BY <2>2, <2>3, <2>4 DEF k
<1> HIDE DEF l
<1>5. Uses(P, u, m, a, b)
  BY <1>4, PutLumUses
<1>6. b[u].lum = l
  BY <1>3, SideOf DEF World, Side, OneSide
<1>7. Charged(b, u, m) /\ b \in World
  BY <1>4, <1>5, <1>6, <1>3 DEF Charged, Uses, Goes
<1> HIDE DEF b
<1>8. Tame(P, b, c)
  BY TameRemoveItem
<1>9. Charged(c, u, m)
  BY <1>7, <1>8, TameCharged
<1> HIDE DEF c
<1>10. Uses(P, u, m, v, a) /\ Uses(P, u, m, b, c)
  BY <1>2, <1>8, TameUses
<1>11. Uses(P, u, m, v, b)
  BY <1>5, <1>10, UsesTrans
<1>12. Uses(P, u, m, v, c)
  BY <1>10, <1>11, UsesTrans
<1> QED BY <1>1, <1>7, <1>9, <1>11, <1>12

LEMMA AffectsNobodyUses ==
  ASSUME NEW P, NEW v, NEW u \in Side, NEW m
  PROVE  Uses(P, u, m, v, AffectsNobody(v, u))
<1> DEFINE l == Recharge(v[u].lum)
           x == [v EXCEPT ![u].lum = l]
<1>1. AffectsNobody(v, u) \in {v, x}
  BY DEF AffectsNobody
<1>2. v \in World => l \in Used /\ (IsEnduring(l) => IsEnduring(v[u].lum))
  BY LumOf, LumRecharge
<1>4. v \in World => Recalls(P, u, v[u].lum, l)
  <2>1. l \in {v[u].lum, WithEffect(v[u].lum, "Empty")}
    BY DEF Recharge
  <2> QED BY <2>1, LumOf, RecallsEmpty
<1> HIDE DEF l
<1>3. Uses(P, u, m, v, x)
  BY <1>2, <1>4, PutLumUses
<1> HIDE DEF x
<1> QED BY <1>1, <1>3, TameRefl, TameUses

\* Who has fainted does not endure.
Spent(v, s) == HP(v, s) = 0 => ~IsEnduring(v[s].lum)

\* Nothing has happened to the foe.
LEMMA HushKeeps ==
  ASSUME NEW u \in Side, NEW m, NEW v \in World, NEW x, Uses(Hush(u), u, m, v, x)
  PROVE  /\ x \in World
         /\ HP(x, Other(u)) = 0 <=> HP(v, Other(u)) = 0
         /\ Spent(v, Other(u)) => Spent(x, Other(u))
<1> DEFINE t == Other(u)
<1>1. /\ x \in World
      /\ t \in Side
      /\ x[t].active = v[t].active
      /\ x[t].lum = v[t].lum
      /\ TeamsTame(Hush(u), v, x)
  BY Sides DEF Uses, Goes
<1> HIDE DEF t
<1>2. v[t].active \in Mons(t) /\ HP(v, t) \in 0..MaxHP /\ HP(x, t) \in 0..MaxHP
  BY <1>1, MonOf
<1>3. Tamed(Hush(u), t, v[t].active, v[t].team[v[t].active], x[t].team[v[t].active])
  BY <1>1, <1>2 DEF TeamsTame
<1>4. HP(v, t) = v[t].team[v[t].active].hp /\ HP(x, t) = x[t].team[v[t].active].hp
  BY <1>1 DEF HP, Mon
<1>5. HP(x, t) = 0 <=> HP(v, t) = 0
  BY <1>2, <1>3, <1>4 DEF Tamed, Hush
<1> QED BY <1>1, <1>5 DEF Spent, t

\* Who may be hurt by u: the team that opposes it, and all where there is damage
Strikes(P, u, damage) ==
  /\ \A m \in Mons(Other(u)) : <<Other(u), m>> \in P[4]
  /\ damage = 0 \/ Harsh(P)
  /\ Acting(u) \subseteq P[5]

LEMMA StrikesFoe ==
  ASSUME NEW P, NEW u \in Side, NEW damage, Strikes(P, u, damage), NEW v
  PROVE  v \in World => Hurtable(P, v, Other(u))
BY Sides, MonOf DEF Strikes, Hurtable

\* What an attempt comes to
Tries(P, u, m, v, damage, r) ==
  /\ Uses(P, u, m, v, r.world)
  /\ v \in World => r.done \in Nat
  /\ damage = 0 => r.done = 0
  /\ r.affects => r.reached \/ HasTrait(m, "explodes")
  /\ v \in World /\ r.reached => Charged(r.world, u, m)

LEMMA FailsTries ==
  ASSUME NEW P, NEW u, NEW m, NEW v, NEW damage, NEW x, Uses(P, u, m, v, x)
  PROVE  Tries(P, u, m, v, damage, Fails(x))
BY DEF Tries, Fails

LEMMA AttemptTries ==
  ASSUME NEW P, NEW u, NEW m, NEW v, NEW damage, NEW x, Uses(P, u, m, v, x), NEW reached, NEW done,
         v \in World => done \in Nat, damage = 0 => done = 0,
         v \in World /\ reached => Charged(x, u, m)
  PROVE  Tries(P, u, m, v, damage, Attempt(x, m, reached, done))
BY DEF Tries, Attempt

\* After a quiet step
LEMMA TriesTrans ==
  ASSUME NEW P, NEW u \in Side, NEW m, NEW v, NEW x, Uses(P, u, m, v, x), NEW damage, NEW r,
         Tries(P, u, m, x, damage, r)
  PROVE  Tries(P, u, m, v, damage, r)
<1>1. v \in World => x \in World
  BY DEF Uses, Goes
<1>2. Uses(P, u, m, v, r.world)
  BY UsesTrans DEF Tries
<1> QED BY <1>1, <1>2 DEF Tries

\* Somebody is there to be hurt.
Meets(v, u, damage) == Tabled /\ damage # 0 => HP(v, Other(u)) # 0

LEMMA DamagesUses ==
  ASSUME NEW P, NEW v \in World, NEW u \in Side, NEW m, NEW damage \in Nat, Strikes(P, u, damage),
         Spent(v, Other(u)), Meets(v, u, damage), Charged(v, u, m),
         ~(HasSubstitute(v, Other(u)) /\ MoveData[m].substitute = "causes_failure")
  PROVE  /\ Uses(P, u, m, v, Damages(v, u, m, damage).world)
         /\ Damages(v, u, m, damage).done \in Nat
         /\ damage = 0 => Damages(v, u, m, damage).done = 0
         /\ Charged(Damages(v, u, m, damage).world, u, m)
<1> DEFINE t == Other(u)
           a == Asserted(v, DirectDamageAsserted(v, t, m))
           r == Damages(v, u, m, damage)
<1>1. CASE damage = 0 \/ IsCharging(v[u].lum)
  <2>1. r.world = v /\ r.done = 0
    BY <1>1 DEF Damages
  <2> QED BY <2>1, TameRefl, TameUses
<1>2. CASE ~(damage = 0 \/ IsCharging(v[u].lum))
  <2>1. r = DirectDamage(a, t, m, damage)
    BY <1>2 DEF Damages
  <2>2. Harsh(P) /\ t \in Side
    BY <1>2, Sides DEF Strikes
  <2>9. Tame(Hush(u), v, a)
    <3> DEFINE holds == DirectDamageAsserted(v, t, m)
    <3>1. Tabled => holds
      BY <1>2 DEF Meets, DirectDamageAsserted
    <3>2. holds \/ MayFail(Hush(u))
      BY <3>1, HushIs, ActingMay DEF Risky
    <3> HIDE DEF holds
    <3> QED BY <3>2, TameAsserted DEF holds
  <2>3. Uses(Hush(u), u, m, v, a) /\ Charged(a, u, m)
    BY <2>9, TameUses, TameCharged
  <2> HIDE DEF a, r
  <2>4. a \in World /\ Spent(a, t)
    BY <2>3, HushKeeps
  <2> HIDE DEF t
  <2>5. Tame(P, a, DirectDamage(a, t, m, damage).world) /\ DirectDamage(a, t, m, damage).done \in Nat
    <3>1. HP(a, t) = 0 => ~IsEnduring(a[t].lum)
      BY <2>4 DEF Spent
    <3> QED BY <2>2, <2>4, <3>1, TameDirectDamage
  <2>6. Uses(P, u, m, v, a)
    BY <2>3, HushUses DEF Strikes
  <2>7. Uses(P, u, m, a, r.world) /\ Charged(r.world, u, m)
    BY <2>1, <2>3, <2>4, <2>5, TameUses, TameCharged
  <2>8. Uses(P, u, m, v, r.world)
    BY <2>6, <2>7, UsesTrans
  <2> QED BY <2>1, <2>5, <2>7, <2>8, <1>2 DEF r
<1> QED BY <1>1, <1>2

LEMMA HitsTargetTries ==
  ASSUME NEW P, NEW v \in World, NEW u \in Side, NEW m, NEW damage \in Nat, Strikes(P, u, damage),
         Spent(v, Other(u)), Meets(v, u, damage), Charged(v, u, m)
  PROVE  Tries(P, u, m, v, damage, HitsTarget(v, u, m, damage))
<1> DEFINE hit == Damages(v, u, m, damage)
           interaction == IF HasSubstitute(v, Other(u)) THEN MoveData[m].substitute ELSE "bypassed"
           reached == ~(interaction = "absorbs")
           fails == HasSubstitute(v, Other(u)) /\ MoveData[m].substitute = "causes_failure"
<1>1. HitsTarget(v, u, m, damage) = IF fails THEN Fails(v) ELSE Attempt(hit.world, m, reached, hit.done)
  BY DEF HitsTarget, Reaches
<1>2. Uses(P, u, m, v, v)
  BY TameRefl, TameUses
<1>3. ~fails => /\ Uses(P, u, m, v, hit.world) /\ hit.done \in Nat /\ (damage = 0 => hit.done = 0)
                /\ Charged(hit.world, u, m)
  BY DamagesUses
<1> HIDE DEF hit, reached, fails
<1>4. Tries(P, u, m, v, damage, Fails(v))
  BY <1>2, FailsTries
<1>5. ~fails => Tries(P, u, m, v, damage, Attempt(hit.world, m, reached, hit.done))
  BY <1>3, AttemptTries
<1> QED BY <1>1, <1>4, <1>5

LEMMA TameHandleAbilityBlocksMove ==
  ASSUME NEW P, NEW v, NEW s \in Side, v \in World => Hurtable(P, v, s)
  PROVE  Tame(P, v, HandleAbilityBlocksMove(v, s))
<1> DEFINE one == 1
           four == 4
           stats == {"spe"}
           f == "flash_fire"
<1>1. HandleAbilityBlocksMove(v, s) \in {SetFlag(v, s, f), Boost(v, s, stats, one), Heal(v, s, one, four)}
  BY DEF HandleAbilityBlocksMove
<1>2. one \in Int /\ four \in Nat \ {0} /\ f \in FlagName
  BY DEF FlagName
<1> HIDE DEF one, four, stats, f
<1>3. /\ Tame(P, v, SetFlag(v, s, f))
      /\ Tame(P, v, Boost(v, s, stats, one))
      /\ Tame(P, v, Heal(v, s, one, four))
  BY <1>2, TameSetFlag, TameBoost, TameHeal
<1> QED BY <1>1, <1>3

LEMMA AfterUseTries ==
  ASSUME NEW P, NEW v \in World, NEW u \in Side, NEW m, NEW damage \in Nat, Strikes(P, u, damage),
         Spent(v, Other(u)), Meets(v, u, damage), Charged(v, u, m)
  PROVE  Tries(P, u, m, v, damage, AfterUse(v, u, m, damage))
<1> DEFINE ready == IF HasTrait(m, "thaws_user") THEN Thawed(v, u) ELSE v
           a == HandleAbilityBlocksMove(v, Other(u))
           b == AffectsNobody(ready, u)
<1>1. AfterUse(v, u, m, damage) \in {Fails(a), Fails(b), HitsTarget(ready, u, m, damage)}
  BY DEF AfterUse
<1>2. Tries(P, u, m, v, damage, Fails(a))
  <2>1. Other(u) \in Side /\ (v \in World => Hurtable(P, v, Other(u)))
    BY Sides, StrikesFoe
  <2>2. Tame(P, v, a)
    BY <2>1, TameHandleAbilityBlocksMove
  <2> HIDE DEF a
  <2> QED BY <2>2, TameUses, FailsTries
<1>3. Tame(Hush(u), v, ready) /\ Tame(P, v, ready)
  BY TameThawed, TameRefl
<1> HIDE DEF ready
<1>4. Uses(Hush(u), u, m, v, ready) /\ Uses(P, u, m, v, ready)
  BY <1>3, TameUses
<1>5. /\ ready \in World /\ Spent(ready, Other(u))
      /\ Meets(ready, u, damage) /\ Charged(ready, u, m)
  BY <1>3, <1>4, HushKeeps, TameCharged DEF Meets
<1>6. Tries(P, u, m, v, damage, Fails(b))
  <2>1. Uses(P, u, m, ready, b)
    BY AffectsNobodyUses
  <2> HIDE DEF b
  <2>2. Uses(P, u, m, v, b)
    BY <1>4, <2>1, UsesTrans
  <2> QED BY <2>2, FailsTries
<1>7. Tries(P, u, m, v, damage, HitsTarget(ready, u, m, damage))
  BY <1>4, <1>5, HitsTargetTries, TriesTrans
<1> HIDE DEF a, b
<1> QED BY <1>1, <1>2, <1>6, <1>7

\* Damage is for somebody, or for who is next to the user.
Faces(v, u, m, damage) ==
  Tabled /\ damage # 0 => HP(v, Other(u)) # 0 \/ Targets(m) = "adjacent"

\* Nothing reaches a target that has fainted.
LEMMA ExecutesTries ==
  ASSUME NEW P, NEW v \in World, NEW u \in Side, NEW m \in Move, NEW threatens, NEW draw,
         draw.damage \in Nat, Strikes(P, u, draw.damage), Spent(v, Other(u)),
         draw.ends \in ActionEnds(v[u].lum), Carries(v[u].lum, m), Faces(v, u, m, draw.damage)
  PROVE  /\ Tries(P, u, m, v, draw.damage, Executes(v, u, m, threatens, draw))
         /\ Executes(v, u, m, threatens, draw).reached =>
              ~(HP(v, Other(u)) = 0 /\ Targets(m) = "adjacent")
<1> DEFINE r == Executes(v, u, m, threatens, draw)
           a == UseUnsuccessfully(v, u, m)
           b == HurriedByMiss(a, u)
           c == UseSuccessfully(v, u, m, draw.ends)
           no == FALSE
           none == 0
<1>1. CASE draw.misses
  <2>1. r = Attempt(b, m, no, none) /\ none \in Nat /\ none = 0
    BY <1>1 DEF Executes
  <2>2. ~r.reached
    BY <2>1 DEF Attempt
  <2>7. ~no
    OBVIOUS
  <2> HIDE DEF no, none, r
  <2>3. Uses(P, u, m, v, a)
    BY UseUnsuccessfullyUses
  <2> HIDE DEF a
  <2>4. Uses(P, u, m, a, b)
    BY TameHurriedByMiss, TameUses
  <2> HIDE DEF b
  <2>5. Uses(P, u, m, v, b)
    BY <2>3, <2>4, UsesTrans
  <2>6. Tries(P, u, m, v, draw.damage, r)
    BY <2>1, <2>5, <2>7, AttemptTries
  <2> QED BY <2>2, <2>6 DEF r
<1>2. CASE ~draw.misses /\ MoveIsUnsuccessful(v, u, m, threatens)
  <2>1. r = Fails(a) /\ ~r.reached
    BY <1>2 DEF Executes, Fails
  <2>2. Uses(P, u, m, v, a)
    BY UseUnsuccessfullyUses
  <2> HIDE DEF a, r
  <2>3. Tries(P, u, m, v, draw.damage, r)
    BY <2>1, <2>2, FailsTries
  <2> QED BY <2>1, <2>3 DEF r
<1>3. CASE /\ ~draw.misses /\ ~MoveIsUnsuccessful(v, u, m, threatens)
           /\ IsProtecting(v[Other(u)].lum) /\ BlockedByProtect(m)
  <2>1. r = Attempt(v, m, no, none) /\ none \in Nat /\ none = 0
    BY <1>3 DEF Executes
  <2>2. ~r.reached
    BY <2>1 DEF Attempt
  <2>5. ~no
    OBVIOUS
  <2> HIDE DEF no, none, r
  <2>3. Uses(P, u, m, v, v)
    BY TameRefl, TameUses
  <2>4. Tries(P, u, m, v, draw.damage, r)
    BY <2>1, <2>3, <2>5, AttemptTries
  <2> QED BY <2>2, <2>4 DEF r
<1>4. CASE /\ ~draw.misses /\ ~MoveIsUnsuccessful(v, u, m, threatens)
           /\ ~(IsProtecting(v[Other(u)].lum) /\ BlockedByProtect(m))
  <2>1. r = AfterUse(c, u, m, draw.damage)
    BY <1>4 DEF Executes
  <2>2. ~(HP(v, Other(u)) = 0 /\ Targets(m) = "adjacent")
    BY <1>4 DEF MoveIsUnsuccessful
  <2> DEFINE ends == draw.ends
  <2>3. Uses(Hush(u), u, m, v, c) /\ Uses(P, u, m, v, c) /\ Charged(c, u, m)
    <3>1. ends \in ActionEnds(v[u].lum) /\ c = UseSuccessfully(v, u, m, ends)
      OBVIOUS
    <3>2. Acting(u) \subseteq Hush(u)[5] /\ Acting(u) \subseteq P[5]
      BY HushIs DEF Strikes
    <3> HIDE DEF ends, c
    <3> QED BY <3>1, <3>2, UseSuccessfullyUses
  <2> HIDE DEF c, r
  <2>4. c \in World /\ Spent(c, Other(u)) /\ Meets(c, u, draw.damage)
    BY <2>2, <2>3, HushKeeps DEF Meets, Faces
  <2>5. Tries(P, u, m, c, draw.damage, r)
    BY <2>1, <2>3, <2>4, AfterUseTries
  <2>6. Tries(P, u, m, v, draw.damage, r)
    BY <2>3, <2>5, TriesTrans
  <2> QED BY <2>2, <2>6 DEF r
<1> QED BY <1>1, <1>2, <1>3, <1>4

LEMMA AttemptsTries ==
  ASSUME NEW P, NEW v \in World, NEW u \in Side, NEW m \in Move, NEW threatens, NEW draw,
         draw.damage \in Nat, Strikes(P, u, draw.damage), Spent(v, Other(u)),
         draw.ends \in ActionEnds(v[u].lum), Carries(v[u].lum, m), Faces(v, u, m, draw.damage),
         NEW wasAsleep, NEW recharging
  PROVE  /\ Tries(P, u, m, v, draw.damage, Attempts(v, u, m, threatens, draw, wasAsleep, recharging))
         /\ Attempts(v, u, m, threatens, draw, wasAsleep, recharging).reached =>
              ~(HP(v, Other(u)) = 0 /\ Targets(m) = "adjacent")
<1> DEFINE r == Attempts(v, u, m, threatens, draw, wasAsleep, recharging)
           a == UseUnsuccessfully(v, u, m)
           one == 1
           stats == {"spe"}
           b == Boost(v, u, stats, one)
           con == "confusion"
           c == Advance(v, u, con)
           d == IF Ability(v, u) = "steadfast" THEN b ELSE v
<1>1. r \in {Fails(a), Fails(d), Executes(c, u, m, threatens, draw)}
  BY DEF Attempts
<1>2. Tries(P, u, m, v, draw.damage, Fails(a))
  BY UseUnsuccessfullyUses, FailsTries
<1>3. Tries(P, u, m, v, draw.damage, Fails(d))
  <2>1. one \in Int
    OBVIOUS
  <2> HIDE DEF one, stats
  <2>2. Tame(P, v, d)
    BY <2>1, TameBoost, TameRefl
  <2> HIDE DEF d
  <2> QED BY <2>2, TameUses, FailsTries
<1>4. Tame(Hush(u), v, c)
  <2>1. con \in Counter /\ con # "perish_song"
    BY CounterNames
  <2> HIDE DEF con
  <2> QED BY <2>1, TameAdvance
<1>5. c[u].lum = v[u].lum
  BY <1>4 DEF Tame
<1> HIDE DEF c
<1>6. Uses(Hush(u), u, m, v, c)
  BY <1>4, TameUses
<1>7. c \in World /\ Spent(c, Other(u)) /\ (HP(c, Other(u)) = 0 <=> HP(v, Other(u)) = 0)
  BY <1>6, HushKeeps
<1>8. draw.ends \in ActionEnds(c[u].lum) /\ Carries(c[u].lum, m) /\ Faces(c, u, m, draw.damage)
  BY <1>5, <1>7 DEF Faces
<1>9. /\ Tries(P, u, m, c, draw.damage, Executes(c, u, m, threatens, draw))
      /\ Executes(c, u, m, threatens, draw).reached => ~(HP(c, Other(u)) = 0 /\ Targets(m) = "adjacent")
  BY <1>7, <1>8, ExecutesTries
<1>10. Uses(P, u, m, v, c)
  BY <1>6, HushUses DEF Strikes
<1>11. Tries(P, u, m, v, draw.damage, Executes(c, u, m, threatens, draw))
  BY <1>9, <1>10, TriesTrans
<1>12. ~Fails(a).reached /\ ~Fails(d).reached
  BY DEF Fails
<1> HIDE DEF r, a, d
<1>13. Tries(P, u, m, v, draw.damage, r)
  BY <1>1, <1>2, <1>3, <1>11
<1>14. r.reached => ~(HP(v, Other(u)) = 0 /\ Targets(m) = "adjacent")
  BY <1>1, <1>7, <1>9, <1>12
<1> QED BY <1>13, <1>14 DEF r

-----------------------------------------------------------------------------
(* A move, with its effect *)

\* The Pokemon on the field that are left: during a move they may be down and up again.
Standing(v) == {<<s, v[s].active>> : s \in {q \in Side : HP(v, q) # 0}}

LEMMA StandingIs ==
  ASSUME NEW v, NEW s \in Side, NEW m
  PROVE  <<s, m>> \in Standing(v) <=> m = v[s].active /\ HP(v, s) # 0
BY DEF Standing

LEMMA StandingOne ==
  ASSUME NEW v \in World, One({}, v)
  PROVE  One(Standing(v), v)
<1> DEFINE R == Standing(v)
<1>1. \A s \in Side : \A m : <<s, m>> \in R => v[s].team[m].hp # 0
  BY StandingIs DEF HP, Mon
<1> HIDE DEF R
<1>2. \A s \in Side : \A st, m : Afflicted(R, v, s, m, st) => Afflicted({}, v, s, m, st)
  BY <1>1 DEF Afflicted
<1>3. One(R, v)
  BY <1>2 DEF One
<1> QED BY <1>3 DEF R

\* Who gets a status from the effect f of a move of u, and who may be dragged out
EffectP(R, v, u, f) ==
  <<R,
    {<<Other(u), v[Other(u)].active, st>> :
       st \in {k \in {"sleep", "freeze"} : ~TeamHasStatus(v, Other(u), k)}},
    AnyMon, AnyMon,
    Acting(u) \cup {<<s, "sings">> : s \in Side} \cup
      (IF f[1] = "phaze" THEN {<<Other(u), "counts">>} ELSE {})>>

\* What u has done last may change, and assertions may fail by tables of another kind only.
Mild(P, u) ==
  /\ Risky(P) /\ (Tabled => ~MayFail(P))
  /\ \A s \in Side : May(P, s, "uses") <=> s = u

Permits(P, R, v, u, f) ==
  /\ Harsh(P) /\ Free(P) /\ Claused(P, v, u)
  /\ P[1] = R
  /\ \A s, m, st : <<s, m, st>> \in P[2] <=>
       /\ s = Other(u) /\ m = v[Other(u)].active
       /\ st \in {"sleep", "freeze"} /\ ~TeamHasStatus(v, Other(u), st)
  /\ \A s \in Side : May(P, s, "sings") /\ (May(P, s, "counts") <=> s # u /\ f[1] = "phaze")
  /\ Mild(P, u)

LEMMA EffectPIs ==
  ASSUME NEW R, NEW v, NEW u \in Side, NEW f, NEW P, P = EffectP(R, v, u, f)
  PROVE  Permits(P, R, v, u, f)
<1>1. P[1] = R /\ P[3] = AnyMon /\ P[4] = AnyMon
  BY DEF EffectP
<1>2. \A s, m, st : <<s, m, st>> \in P[2] <=>
              /\ s = Other(u) /\ m = v[Other(u)].active
              /\ st \in {"sleep", "freeze"} /\ ~TeamHasStatus(v, Other(u), st)
  BY DEF EffectP
<1>3. Harsh(P) /\ Free(P)
  BY <1>1 DEF Harsh, Free, AnyMon
<1>4. Claused(P, v, u)
  BY <1>2 DEF Claused
<1>5. P[5] = Acting(u) \cup {<<s, "sings">> : s \in Side} \cup
                   (IF f[1] = "phaze" THEN {<<Other(u), "counts">>} ELSE {})
  BY DEF EffectP
<1>6. \A s \in Side : May(P, s, "sings") /\ (May(P, s, "counts") <=> s # u /\ f[1] = "phaze")
  <2> SUFFICES ASSUME NEW s \in Side
               PROVE  May(P, s, "sings") /\ (May(P, s, "counts") <=> s # u /\ f[1] = "phaze")
    OBVIOUS
  <2>1. s = Other(u) <=> s # u
    BY Sides, TwoSides
  <2> QED BY <1>5, <2>1 DEF May, Acting, Chance
<1>7. Mild(P, u)
  BY <1>5 DEF Mild, Risky, MayFail, May, Acting, Chance, Side
<1> QED BY <1>1, <1>2, <1>3, <1>4, <1>6, <1>7 DEF Permits

\* The clauses hold when the effect is over.
LEMMA EffectOne ==
  ASSUME NEW R, NEW v \in World, NEW u \in Side, One(R, v),
         \A s \in Side : \A m : <<s, m>> \in R => m = v[s].active,
         NEW f, NEW x \in World, TeamsTame(EffectP(R, v, u, f), v, x)
  PROVE  One(R, x)
<1> DEFINE P == EffectP(R, v, u, f)
<1>1. /\ P[1] = R
      /\ \A s, m, st : <<s, m, st>> \in P[2] <=>
           /\ s = Other(u) /\ m = v[Other(u)].active
           /\ st \in {"sleep", "freeze"} /\ ~TeamHasStatus(v, Other(u), st)
  <2>1. P = EffectP(R, v, u, f)
    OBVIOUS
  <2> HIDE DEF P
  <2>2. Permits(P, R, v, u, f)
    BY <2>1, EffectPIs
  <2> QED BY <2>2 DEF Permits
<1>2. TeamsTame(P, v, x)
  OBVIOUS
<1> HIDE DEF P
<1> SUFFICES ASSUME NEW s \in Side, NEW st \in {"sleep", "freeze"}, NEW m \in Mons(s), NEW n \in Mons(s),
                    Afflicted(R, x, s, m, st), Afflicted(R, x, s, n, st)
             PROVE  m = n
  BY DEF One
<1>3. ASSUME NEW k \in Mons(s), Afflicted(R, x, s, k, st)
      PROVE  /\ v[s].team[k].hp # 0 \/ <<s, k>> \in R
             /\ v[s].team[k].status = st \/ (s = Other(u) /\ k = v[s].active /\ ~TeamHasStatus(v, s, st))
  <2>1. Tamed(P, s, k, v[s].team[k], x[s].team[k])
    BY <1>2 DEF TeamsTame
  <2>2. x[s].team[k].status = st /\ (x[s].team[k].hp # 0 \/ <<s, k>> \in R)
    BY <1>3 DEF Afflicted
  <2>3. v[s].team[k].hp # 0 \/ <<s, k>> \in R
    BY <2>1, <2>2, <1>1 DEF Tamed
  <2>4. v[s].team[k].status = st \/ <<s, k, st>> \in P[2]
    BY <2>1, <2>2 DEF Tamed
  <2> QED BY <2>3, <2>4, <1>1
<1>4. ASSUME NEW k \in Mons(s), Afflicted(R, x, s, k, st), v[s].team[k].status = st
      PROVE  TeamHasStatus(v, s, st)
  <2>1. v[s].team[k].hp # 0 \/ k = v[s].active
    BY <1>3, <1>4
  <2>2. k \in DOMAIN v[s].team
    BY SideOf DEF OneSide
  <2> QED BY <1>4, <2>1, <2>2 DEF TeamHasStatus
<1>5. CASE TeamHasStatus(v, s, st)
  <2>1. Afflicted(R, v, s, m, st) /\ Afflicted(R, v, s, n, st)
    BY <1>3, <1>5 DEF Afflicted
  <2> QED BY <2>1 DEF One
<1>6. CASE ~TeamHasStatus(v, s, st)
  BY <1>3, <1>4, <1>6
<1> QED BY <1>5, <1>6

\* After the effect: the user's item, and the ability of who it touched
LEMMA AfterDamageAffects ==
  ASSUME NEW P, Harsh(P), NEW v, NEW u \in Side, NEW done, v \in World => done \in Nat,
         v \in World => Livable(P, v, u),
         NEW contact \in {"nothing", "burn", "paralysis", "poison", "infatuation"}
  PROVE  Tame(P, v, AfterDamage(v, u, done, contact))
<1> SUFFICES ASSUME v \in World  PROVE Tame(P, v, AfterDamage(v, u, done, contact))
  BY DEF Tame
<1> DEFINE less == -1
           ten == 10
           gain == AtLeastOne(done \div 8)
           a == Heal(v, u, less, ten)
           b == ChangeHP(v, u, gain)
           c == CASE Item(v, u) = "life_orb" -> a [] Item(v, u) = "shell_bell" -> b [] OTHER -> v
           d == ActivateTargetAbility(c, u, contact)
<1>1. AfterDamage(v, u, done, contact) \in {v, d}
  BY DEF AfterDamage
<1>2. less \in Int /\ ten \in Nat \ {0} /\ gain \in Nat
  <2>1. done \div 8 \in Int
    BY DivInt
  <2> QED BY <2>1, AtLeastOneNat
<1> HIDE DEF less, ten, gain
<1>3. Tame(P, v, a) /\ Tame(P, v, b)
  BY <1>2, TameHeals, TameGains
<1> HIDE DEF a, b
<1>4. Tame(P, v, c)
  <2>1. c \in {a, b, v}
    OBVIOUS
  <2> HIDE DEF c
  <2> QED BY <2>1, <1>3, TameRefl
<1> HIDE DEF c
<1>5. Tame(P, c, d)
  <2>1. CASE contact = "nothing"
    BY <2>1, TameRefl DEF ActivateTargetAbility
  <2>2. CASE contact = "infatuation"
    BY <2>2, TameAttract DEF ActivateTargetAbility
  <2>3. CASE contact \in {"burn", "paralysis", "poison"}
    <3>1. d = SetStatus(c, u, contact)
      BY <2>3 DEF ActivateTargetAbility
    <3>2. contact \in Statuses /\ Takes(P, c, u, contact)
      BY <2>3 DEF Statuses, Takes
    <3> QED BY <3>1, <3>2, TameSetStatus
  <2> QED BY <2>1, <2>2, <2>3
<1> HIDE DEF d
<1> QED BY <1>1, <1>4, <1>5, TameTrans, TameRefl

-----------------------------------------------------------------------------
(* Who gets items.  Nobody does but by a theft, an exchange or Recycle; these *)
(* change what a move leads to once, between steps by which nobody does.     *)

\* Nobody gets an item: who has one has had it, and held it if it does now.
Keeps(v, x) ==
  \A s \in Side : \A m \in Mons(s) :
    x[s].team[m].item # NoItem =>
      /\ v[s].team[m].item = x[s].team[m].item
      /\ x[s].team[m].held => v[s].team[m].held

LEMMA TameKeeps ==
  ASSUME NEW P, P[3] = {}, NEW v, NEW x, TeamsTame(P, v, x)
  PROVE  Keeps(v, x)
BY DEF TeamsTame, Tamed, Keeps

LEMMA KeepsTrans ==
  ASSUME NEW u, NEW v, NEW x, Keeps(u, v), Keeps(v, x)
  PROVE  Keeps(u, x)
BY DEF Keeps

LEMMA KeepsRefl ==
  ASSUME NEW v
  PROVE  Keeps(v, v)
BY DEF Keeps

\* What the effect f of a move of u does to items, whatever comes before and after it
Trades(u, f, v, x) ==
  \E y \in World, a \in World :
    /\ Keeps(v, y) /\ y[u].active = v[u].active
    /\ \/ Keeps(y, a)
       \/ a \in {StealItem(y, u), SwapItems(y, u)}
       \/ f[1] = "recycle" /\ a = RecycleItem(y, u)
    /\ Keeps(a, x)

LEMMA TradesKeeps ==
  ASSUME NEW u, NEW f, NEW v, NEW x, NEW z, Trades(u, f, v, x), Keeps(x, z)
  PROVE  Trades(u, f, v, z)
BY KeepsTrans DEF Trades

\* All but to get an item is allowed.
Open == <<AnyMon, AnyStatus, {}, AnyMon, AnySong \cup {<<"all", "fails">>}>>

LEMMA OpenIs ==
  /\ Harsh(Open) /\ Open[3] = {}
  /\ \A s \in Side : \A m \in Mons(s) : <<s, m>> \in Open[1]
  /\ \A s \in Side : \A m \in Mons(s) : \A st \in {"sleep", "freeze"} : <<s, m, st>> \in Open[2]
  /\ \A s \in Side : May(Open, s, "sings") /\ May(Open, s, "counts")
  /\ MayFail(Open)
BY DEF Open, Harsh, AnyMon, AnyStatus, AnySong, May, MayFail

\* So is this, but that nobody's song is changed.
Still == <<AnyMon, AnyStatus, {}, AnyMon, {<<"all", "fails">>}>>

LEMMA StillIs ==
  /\ Harsh(Still) /\ Still[3] = {} /\ Mute(Still) /\ MayFail(Still)
  /\ \A s \in Side : \A m \in Mons(s) : <<s, m>> \in Still[1]
BY DEF Still, Harsh, AnyMon, Mute, May, MayFail, Side

LEMMA DrawnOpen ==
  ASSUME NEW v \in World, NEW y \in World, NEW u \in Side, NEW m, NEW f, Drawn(v, u, m, f)
  PROVE  Fair(Open, y, u, f) /\ Claused(Open, y, u) /\ <<u, y[u].active>> \in Open[1]
<1> DEFINE t == Other(u)
<1>1. t \in Side /\ y[t].active \in Mons(t) /\ y[u].active \in Mons(u)
  BY Sides, MonOf
<1>2. <<u, y[u].active>> \in Open[1] /\ <<t, y[t].active>> \in Open[1]
  BY <1>1, OpenIs
<1>3. \A st \in {"sleep", "freeze"} : <<t, y[t].active, st>> \in Open[2]
  BY <1>1, OpenIs
<1>4. Statusable(Open, y, u, f)
  <2>1. f[1] \in {"status", "status_and_flinch", "recoil_and_status"} => f[2] \in Statuses
    BY DEF Drawn, MayGet
  <2>2. \A st : Takes(Open, y, t, st)
    BY <1>3 DEF Takes
  <2> QED BY <2>1, <2>2 DEF Statusable
<1>5. Claused(Open, y, u)
  BY <1>3 DEF Claused
<1>6. Fair(Open, y, u, f)
  <2>1. f[1] = "phaze" => f[2] \in Mons(t)
    BY <1>1, BenchIn DEF Drawn
  <2>2. (\A s \in Side : May(Open, s, "sings")) /\ May(Open, t, "counts")
    BY <1>1, OpenIs
  <2>3. Steady(Open, y) /\ MayFail(Open)
    BY OpenIs DEF Steady
  <2> QED BY <1>2, <1>4, <2>1, <2>2, <2>3 DEF Fair, Drawn
<1> QED BY <1>2, <1>5, <1>6

\* The effect that was drawn
LEMMA EffectTrades ==
  ASSUME NEW v \in World, NEW y \in World, NEW u \in Side, NEW m, NEW f, Drawn(v, u, m, f), NEW damage \in Nat,
         NEW a, a = ApplyEffect(y, u, f, damage)
  PROVE  \/ Keeps(y, a)
         \/ a \in {StealItem(y, u), SwapItems(y, u)}
         \/ f[1] = "recycle" /\ a = RecycleItem(y, u)
<1>1. CASE f[1] \in Giving
  <2>1. a = ApplyItemEffect(y, u, f)
    BY <1>1 DEF ApplyEffect, FieldEffects, ItemEffects, VolatileEffects, StageEffects, HPEffects,
                StatusEffects, Giving
  <2>2. CASE f[1] \in {"steal", "swap_items"}
    <3>1. a \in {y, StealItem(y, u), SwapItems(y, u)}
      BY <2>1, <2>2 DEF ApplyItemEffect
    <3> QED BY <3>1, KeepsRefl
  <2>3. CASE f[1] = "recycle"
    BY <2>1, <2>3 DEF ApplyItemEffect
  <2> QED BY <1>1, <2>2, <2>3 DEF Giving
<1>2. CASE f[1] \notin Giving
  <2>1. Affects(Open, u, y, a)
    BY <1>2, OpenIs, DrawnOpen, EffectAffects
  <2>2. TeamsTame(Open, y, a)
    BY <2>1 DEF Affects, Goes
  <2> QED BY <2>2, OpenIs, TameKeeps
<1> QED BY <1>1, <1>2

-----------------------------------------------------------------------------
(* Perish Song over an action *)

LEMMA SongsHeard ==
  ASSUME NEW P, Mute(P), NEW v, NEW x, TeamsTame(P, v, x), NEW s \in Side
  PROVE  Song(x, s) = Song(v, s)
BY DEF TeamsTame, Hears, Mute, Song

\* Who leaves keeps the song to hand it over by Baton Pass.
LEMMA SwitchOutSong ==
  ASSUME NEW v \in World, NEW s \in Side, NEW x, x = SwitchOut(v, s)
  PROVE  /\ x \in World
         /\ \A q \in Side : x[q].active = v[q].active
         /\ Song(x, Other(s)) = Song(v, Other(s))
         /\ Song(x, s) = IF BatonPassing(v, s) THEN Song(v, s) ELSE Inactive
         /\ Ready(v) => Ready(x)
<1> DEFINE t == Other(s)
           a == ClearStatus(v, s)
           cured == IF Ability(v, s) = "natural_cure" THEN a ELSE v
           b == ClearFlags(cured, s, Personal)
           cs == Counter \ PassableCounter
           own == StopCounters(b, s, cs)
           k == 0
           kept == [own EXCEPT ![s].stockpile = k]
           c == ClearFlags(kept, s, Passable)
           d == StopCounters(c, s, Counter)
           e == [d EXCEPT ![s].stages = NoStages]
           y == [e EXCEPT ![s].substitute = k]
<1>0. t \in Side /\ t # s /\ Mute(Calm)
  BY Sides, CalmMay
<1>1. x = IF BatonPassing(v, s) THEN kept ELSE y
  BY DEF SwitchOut
<1>2. Tame(Calm, v, a) /\ Tame(Calm, v, v)
  BY TameClearStatus, TameRefl
<1> HIDE DEF t, a
<1>3. Tame(Calm, v, cured)
  BY <1>2
<1> HIDE DEF cured
<1>4. Tame(Calm, cured, b)
  BY TameClearFlags
<1> HIDE DEF b
<1>5. Tame(Calm, b, own)
  <2>1. "perish_song" \notin cs
    BY DEF PassableCounter
  <2> HIDE DEF cs
  <2> QED BY <2>1, TameStopCounters
<1>6. k \in 0..3 /\ k \in 0..(MaxHP \div 4 + 1) /\ NoStages \in [Stat -> -6..6]
  BY HPConstants DEF NoStages
<1> HIDE DEF own, k, cs
<1>7. Tame(Calm, own, kept)
  BY <1>6, TamePutStockpile
<1> HIDE DEF kept
<1>8. Tame(Calm, kept, c)
  BY TameClearFlags
<1> HIDE DEF c
<1>9. Tame(Calm, v, kept) /\ Tame(Calm, v, c)
  BY <1>3, <1>4, <1>5, <1>7, <1>8, TameTrans
<1>10. kept \in World /\ c \in World
  BY <1>9 DEF Tame
<1>11. /\ d \in World
       /\ Song(d, s) = Inactive /\ Song(d, t) = Song(c, t)
       /\ \A q \in Side : d[q].active = c[q].active
       /\ Ready(c) => Ready(d)
  <2>2. /\ d[s].count = [j \in Counter |-> IF j \in Counter THEN Inactive ELSE c[s].count[j]]
        /\ d[t] = c[t]
    BY <1>0, <1>10, SideOf DEF StopCounters, World, Side, OneSide
  <2>3. "perish_song" \in Counter
    BY CounterNames
  <2> DEFINE P == <<{}, {}, {}, AnyMon, AnySong>>
             all == Counter
  <2>4. May(P, s, "counts")
    BY DEF May, AnySong
  <2>5. d = StopCounters(c, s, all)
    OBVIOUS
  <2> HIDE DEF P, all, d
  <2>6. Tame(P, c, d)
    BY <2>4, <2>5, TameStopCounters
  <2>7. Ready(c) => Ready(d)
    BY <1>10, <2>6, TameReady
  <2> QED BY <1>10, <2>2, <2>3, <2>6, <2>7 DEF Tame, Song
<1> HIDE DEF d
<1>12. Tame(Calm, d, e)
  BY <1>6, TamePutStages
<1> HIDE DEF e
<1>13. Tame(Calm, e, y)
  BY <1>6, TamePutSubstitute
<1> HIDE DEF y
<1>14. Tame(Calm, d, y)
  BY <1>12, <1>13, TameTrans
<1>15. CASE BatonPassing(v, s)
  <2>1. x = kept
    BY <1>1, <1>15
  <2>2. TeamsTame(Calm, v, kept) /\ \A q \in Side : kept[q].active = v[q].active
    BY <1>9 DEF Tame
  <2>3. Song(kept, s) = Song(v, s) /\ Song(kept, t) = Song(v, t)
    BY <1>0, <2>2, SongsHeard
  <2>4. Ready(v) => Ready(kept)
    BY <2>2, TamesReady
  <2> QED BY <1>10, <1>15, <2>1, <2>2, <2>3, <2>4 DEF t
<1>16. CASE ~BatonPassing(v, s)
  <2>1. x = y
    BY <1>1, <1>16
  <2>2. /\ TeamsTame(Calm, v, c) /\ \A q \in Side : c[q].active = v[q].active
        /\ TeamsTame(Calm, d, y) /\ \A q \in Side : y[q].active = d[q].active
        /\ y \in World
    BY <1>9, <1>11, <1>14 DEF Tame
  <2>3. Song(c, t) = Song(v, t) /\ Song(y, t) = Song(d, t) /\ Song(y, s) = Song(d, s)
    BY <1>0, <2>2, SongsHeard
  <2>4. (Ready(v) => Ready(c)) /\ (Ready(d) => Ready(y))
    BY <2>2, TamesReady
  <2> QED BY <1>11, <1>16, <2>1, <2>2, <2>3, <2>4 DEF t
<1> QED BY <1>15, <1>16

\* m is sent out by s, and hears what Baton Pass hands over.
Switched(v, x, s, m) ==
  /\ x[s].active = m
  /\ x[Other(s)].active = v[Other(s)].active
  /\ Song(x, Other(s)) = Song(v, Other(s))
  /\ Song(x, s) = IF BatonPassing(v, s) THEN Song(v, s) ELSE Inactive

LEMMA EntersSong ==
  ASSUME NEW v \in World, NEW s \in Side, NEW m \in Mons(s), NEW replacing,
         NEW x, x = Enters(v, s, m, replacing)
  PROVE  /\ x \in World
         /\ x[s].active = m /\ x[Other(s)].active = v[Other(s)].active
         /\ \A q \in Side : Song(x, q) = Song(v, q)
         /\ Ready(v) => Ready(x)
<1> DEFINE t == Other(s)
           T == {t}
           A == Side
           N == {}
           a == [v EXCEPT ![s].active = m]
           b == SwitchIn(a, s, replacing)
           c == ApplyHazards(b, s)
<1>1. x = Arrives(c, s)
  BY DEF Enters
<1>2. t \in Side /\ t # s /\ A \in SUBSET Side /\ N \in SUBSET Side /\ s \notin N /\ Mute(Calm)
  BY Sides, CalmMay
<1>3. a[s].active = m /\ a[t] = v[t]
  BY <1>2, SideOf DEF World, Side, OneSide
<1>4. a \in World /\ PutIn(s, v, a)
  BY PutActive
<1> HIDE DEF t, T, A, N, a
<1>5. Goes(Calm, A, N, a, b) /\ Sound(b[s])
  BY <1>2, <1>4, SwitchInGoes
<1> HIDE DEF b
<1>6. Tame(Calm, b, c)
  BY HarshAny, TameApplyHazards
<1> HIDE DEF c
<1>7. Tame(Calm, c, x)
  BY <1>1, TameArrives
<1>8. Tame(Calm, b, x)
  BY <1>6, <1>7, TameTrans
<1>12. b \in World /\ TeamsTame(Calm, a, b)
  BY <1>4, <1>5 DEF Goes
<1>13. TeamsTame(Calm, v, b)
  BY <1>4, <1>5, <1>12, PutInTame
<1>9. TeamsTame(Calm, b, x) /\ x \in World
  BY <1>8, <1>12 DEF Tame
<1>10. \A q \in Side : Song(x, q) = Song(v, q)
  BY <1>2, <1>9, <1>13, SongsHeard
<1>11. \A q \in Side : x[q].active = a[q].active
  BY <1>4, <1>5, <1>8 DEF Goes, Tame, A
<1>14. Ready(v) => Ready(x)
  BY <1>9, <1>13, TamesReady
<1> QED BY <1>2, <1>3, <1>9, <1>10, <1>11, <1>14 DEF t

LEMMA SwitchSong ==
  ASSUME NEW v \in World, Ready(v), NEW s \in Side, NEW m \in Mons(s), NEW x, x = SwitchPokemon(v, s, m)
  PROVE  Switched(v, x, s, m)
<1> DEFINE t == Other(s)
           A == Side
           N == {}
           p == BatonPassing(v, s)
           a == SwitchOut(v, s)
           b == FoeHasSwitched(a, t, p)
           c == Enters(b, s, m, HP(v, s) = 0)
           d == EndOfAttack(c, s)
<1>1. x \in {c, d}
  BY DEF SwitchPokemon, EndOfSwitch, Leaves
<1>2. t \in Side /\ t # s /\ A \in SUBSET Side /\ N \in SUBSET Side /\ t \notin N /\ Mute(Calm)
  BY Sides, CalmMay
<1>3. /\ a \in World
      /\ \A q \in Side : a[q].active = v[q].active
      /\ Song(a, t) = Song(v, t)
      /\ Song(a, s) = IF BatonPassing(v, s) THEN Song(v, s) ELSE Inactive
      /\ Ready(a)
  BY SwitchOutSong
<1> HIDE DEF t, A, N, p, a
<1>4. Goes(Calm, A, N, a, b)
  BY <1>2, FoeHasSwitchedGoes
<1> HIDE DEF b
<1>5. b \in World /\ TeamsTame(Calm, a, b) /\ \A q \in Side : b[q].active = a[q].active
  BY <1>3, <1>4 DEF Goes, A
<1>6. \A q \in Side : Song(b, q) = Song(a, q)
  BY <1>2, <1>5, SongsHeard
<1>7. /\ c \in World
      /\ c[s].active = m /\ c[t].active = b[t].active
      /\ \A q \in Side : Song(c, q) = Song(b, q)
      /\ Ready(c)
  <2> DEFINE replacing == HP(v, s) = 0
  <2>1. c = Enters(b, s, m, replacing)
    OBVIOUS
  <2>2. Ready(b)
    BY <1>3, <1>5, TamesReady
  <2> HIDE DEF c, replacing
  <2> QED BY <1>5, <2>1, <2>2, EntersSong DEF t
<1> HIDE DEF c
<1>8. Tame(Calm, c, d)
  <2>1. Steady(Calm, c)
    BY <1>7, CalmMay, ReadySteady
  <2> QED BY <2>1, HarshAny, TameEndOfAttack
<1> HIDE DEF d
<1>9. TeamsTame(Calm, c, d) /\ \A q \in Side : d[q].active = c[q].active
  BY <1>7, <1>8 DEF Tame
<1>10. \A q \in Side : Song(d, q) = Song(c, q)
  BY <1>2, <1>9, SongsHeard
<1>11. \A q \in Side : Song(x, q) = Song(a, q) /\ x[q].active = c[q].active
  BY <1>1, <1>6, <1>7, <1>9, <1>10
<1>12. x[s].active = m /\ x[t].active = v[t].active
  BY <1>2, <1>3, <1>5, <1>7, <1>11
<1> QED BY <1>2, <1>3, <1>11, <1>12 DEF Switched, t

\* What an action does to the songs: who stays may begin to hear it, and who comes in
\* hears what was handed over.
SongLed(v, x) ==
  \A s \in Side :
    IF x[s].active = v[s].active
    THEN Song(x, s) = Song(v, s) \/ (Song(v, s) = Inactive /\ Song(x, s) = 0)
    ELSE Song(x, s) = IF BatonPassing(v, s) THEN Song(v, s) ELSE Inactive

\* The songs are left alone, and who is on the field.
Silent(v, x) == \A s \in Side : Song(x, s) = Song(v, s) /\ x[s].active = v[s].active

LEMMA TameSilent ==
  ASSUME NEW P, Mute(P), NEW v \in World, NEW x, Tame(P, v, x)
  PROVE  Silent(v, x)
BY SongsHeard DEF Tame, Silent

LEMMA SilentLed ==
  ASSUME NEW v, NEW x, Silent(v, x)
  PROVE  SongLed(v, x)
BY DEF Silent, SongLed

LEMMA SwitchedLed ==
  ASSUME NEW v, NEW s \in Side, NEW m, m # v[s].active, NEW x, Switched(v, x, s, m)
  PROVE  SongLed(v, x)
<1> SUFFICES ASSUME NEW q \in Side
             PROVE  IF x[q].active = v[q].active
                    THEN Song(x, q) = Song(v, q) \/ (Song(v, q) = Inactive /\ Song(x, q) = 0)
                    ELSE Song(x, q) = IF BatonPassing(v, q) THEN Song(v, q) ELSE Inactive
  BY DEF SongLed
<1> QED BY TwoSides DEF Switched

\* Around what leads on, by steps that leave the songs alone, and the last moves of who
\* is not on the field when they are over
LEMMA SilentThenLed ==
  ASSUME NEW v, NEW y, NEW x, Silent(v, y), SongLed(y, x),
         \A s \in Side : x[s].active # y[s].active => (BatonPassing(y, s) <=> BatonPassing(v, s))
  PROVE  SongLed(v, x)
BY DEF Silent, SongLed

LEMMA LedThenSilent ==
  ASSUME NEW v, NEW y, NEW x, SongLed(v, y), Silent(y, x)
  PROVE  SongLed(v, x)
BY DEF Silent, SongLed

\* Where a move leads from v: R may be revived by it.
Leads(R, v, x) ==
  /\ x \in World
  /\ \A s \in Side : \A m \in Mons(s) :
       v[s].team[m].hp = 0 /\ <<s, m>> \notin R => x[s].team[m].hp = 0
  /\ One(R, v) => One(R, x)

LEMMA LeadsTrans ==
  ASSUME NEW R, NEW v, NEW x, NEW y, Leads(R, v, x), Leads(R, x, y)
  PROVE  Leads(R, v, y)
BY DEF Leads

LEMMA TameLeads ==
  ASSUME NEW P, P[2] = {}, NEW v \in World, NEW x \in World, TeamsTame(P, v, x)
  PROVE  Leads(P[1], v, x)
<1>1. One(P[1], v) => One(P[1], x)
  BY OneKept
<1>2. \A s \in Side : \A m \in Mons(s) :
        v[s].team[m].hp = 0 /\ <<s, m>> \notin P[1] => x[s].team[m].hp = 0
  BY DEF TeamsTame, Tamed
<1> QED BY <1>1, <1>2 DEF Leads

\* What a move of u, or its leaving, leads to with such tables: nothing has failed, who
\* sleeps has no more than nightmares, what u has done fits, and who opposes it goes on
\* with what it is locked in to, or is not locked in any more.
Holds(u, v, x) ==
  Tabled =>
    /\ x.failed => v.failed
    /\ \A s \in Side : Sound(v[s]) => Sound(x[s])
    /\ Fit(v[u].lum) => Fit(x[u].lum)
    /\ \A s \in Side : s # u => x[s].lum = v[s].lum \/ x[s].lum.effect = "Empty"

LEMMA HoldsTrans ==
  ASSUME NEW u, NEW v, NEW x, NEW y, Holds(u, v, x), Holds(u, x, y)
  PROVE  Holds(u, v, y)
BY DEF Holds

LEMMA MildHolds ==
  ASSUME NEW u \in Side, NEW P, Mild(P, u), NEW v, NEW x, TeamsTame(P, v, x)
  PROVE  Holds(u, v, x)
<1> SUFFICES ASSUME Tabled  PROVE Holds(u, v, x)
  BY DEF Holds
<1>1. (x.failed => v.failed) /\ \A s \in Side : Sound(v[s]) => Sound(x[s])
  BY DEF TeamsTame, Follows, Mild
<1>2. \A s \in Side : Recalls(P, s, v[s].lum, x[s].lum) /\ ~MayFail(P)
  BY DEF TeamsTame, Follows, Mild
<1>3. Fit(v[u].lum) => Fit(x[u].lum)
  <2>1. x[u].lum.effect = "Empty" => Fit(x[u].lum)
    BY DEF Fit
  <2> QED BY <1>2, <2>1 DEF Recalls
<1>4. \A s \in Side : s # u => x[s].lum = v[s].lum \/ x[s].lum.effect = "Empty"
  BY <1>2 DEF Recalls, Mild
<1> QED BY <1>1, <1>3, <1>4 DEF Holds

\* What was drawn before the move is fair when it takes effect.
LEMMA DrawnFair ==
  ASSUME NEW v \in World, NEW x \in World, NEW u \in Side, NEW m \in Move, NEW f, Drawn(v, u, m, f),
         x[Other(u)].active = v[Other(u)].active,
         NEW Q, Q[1] = Standing(v), Q[2] = {}, TeamsTame(Q, v, x),
         f[1] = "pain_split" => HP(v, Other(u)) # 0,
         Ready(x), f[1] = "hyper_beam" => (Tabled => IsRecharging(x[u].lum)),
         NEW P, P = EffectP(Standing(v), x, u, f)
  PROVE  Fair(P, x, u, f)
<1> DEFINE t == Other(u)
<1>0. /\ P[1] = Standing(v)
      /\ \A s, k, st : <<s, k, st>> \in P[2] <=>
           /\ s = Other(u) /\ k = x[Other(u)].active
           /\ st \in {"sleep", "freeze"} /\ ~TeamHasStatus(x, Other(u), st)
      /\ \A s \in Side : May(P, s, "sings") /\ (May(P, s, "counts") <=> s # u /\ f[1] = "phaze")
      /\ Mild(P, u)
  <2> DEFINE R == Standing(v)
  <2>1. P = EffectP(R, x, u, f)
    OBVIOUS
  <2> HIDE DEF R
  <2>2. Permits(P, R, x, u, f)
    BY <2>1, EffectPIs
  <2> QED BY <2>2 DEF Permits, R
<1>1. t \in Side /\ t # u /\ P[1] = Standing(v)
  BY <1>0, Sides
<1>2. \A st \in {"sleep", "freeze"} : ~TeamHasStatus(x, t, st) => <<t, x[t].active, st>> \in P[2]
  BY <1>0
<1>3. ASSUME NEW st \in {"sleep", "freeze"}, TeamHasStatus(x, t, st)
      PROVE  TeamHasStatus(v, t, st)
  <2>1. DOMAIN x[t].team = Mons(t) /\ DOMAIN v[t].team = Mons(t)
    BY <1>1, SideOf DEF OneSide
  <2>2. PICK k \in Mons(t) : (k = x[t].active \/ x[t].team[k].hp # 0) /\ x[t].team[k].status = st
    BY <1>3, <2>1 DEF TeamHasStatus
  <2>3. Tamed(Q, t, k, v[t].team[k], x[t].team[k])
    BY <1>1 DEF TeamsTame
  <2>4. v[t].team[k].status = st
    BY <2>2, <2>3 DEF Tamed
  <2>5. k = v[t].active \/ v[t].team[k].hp # 0
    BY <1>1, <2>2, <2>3, StandingIs DEF Tamed
  <2> QED BY <2>1, <2>4, <2>5 DEF TeamHasStatus
<1>4. Statusable(P, x, u, f)
  <2> SUFFICES ASSUME f[1] \in {"status", "status_and_flinch", "recoil_and_status"}
               PROVE  f[2] \in Statuses /\ Takes(P, x, t, f[2])
    BY DEF Statusable
  <2>1. f[2] \in Statuses /\ (f[2] \in {"sleep", "freeze"} => ~TeamHasStatus(v, t, f[2]))
    BY DEF Drawn, MayGet
  <2> QED BY <2>1, <1>2, <1>3 DEF Takes
<1>5. f[1] = "pain_split" => <<t, x[t].active>> \in P[1]
  BY <1>1, StandingIs
<1>6. f[1] = "phaze" => f[2] \in Mons(t) /\ May(P, t, "counts")
  BY <1>0, <1>1, BenchIn DEF Drawn
<1>7. \A s \in Side : May(P, s, "sings")
  BY <1>0
<1>8. Risky(P) /\ Steady(P, x)
  BY <1>0, ReadySteady DEF Mild
<1>9. f[1] = "hyper_beam" => IsRecharging(x[u].lum) \/ MayFail(P)
  BY <1>8 DEF Risky
<1> QED BY <1>4, <1>5, <1>6, <1>7, <1>8, <1>9 DEF Fair, Drawn

\* What the effect does to the songs: it is heard by who does not hear it yet, and who is
\* dragged out is replaced by another.
LEMMA EffectLed ==
  ASSUME NEW v \in World, NEW y \in World, NEW u \in Side, NEW m, NEW f, Drawn(v, u, m, f),
         y[Other(u)].active = v[Other(u)].active, Ready(y),
         NEW P, NEW R, Permits(P, R, y, u, f),
         NEW damage, NEW a, a = ApplyEffect(y, u, f, damage), Affects(P, u, y, a)
  PROVE  SongLed(y, a)
<1> DEFINE t == Other(u)
<1>1. t \in Side /\ t # u
  BY Sides
<1>2. CASE f[1] = "phaze"
  <2> DEFINE n == f[2]
  <2>1. n \in Mons(t) /\ n # v[t].active
    BY <1>1, <1>2, BenchIn DEF Drawn, Bench
  <2>2. a = SwitchPokemon(y, t, n)
    BY <1>2 DEF ApplyEffect, ApplyFieldEffect, FieldEffects, ItemEffects, VolatileEffects, StageEffects,
                HPEffects, StatusEffects
  <2>3. n # y[t].active
    BY <2>1
  <2> HIDE DEF t, n
  <2>4. Switched(y, a, t, n)
    BY <1>1, <2>1, <2>2, SwitchSong
  <2> QED BY <1>1, <2>3, <2>4, SwitchedLed
<1>3. CASE f[1] # "phaze"
  <2>1. \A s \in Side : ~May(P, s, "counts")
    BY <1>3 DEF Permits
  <2>2. /\ a \in World
        /\ TeamsTame(P, y, a)
        /\ a[u].active = y[u].active
        /\ \A s \in Side : ~May(P, s, "counts") => a[s].active = y[s].active
        /\ ~IsEnduring(y[u].lum) => ~IsEnduring(a[u].lum)
    <3>1. u \in Settled(P, u) /\ \A s \in Side : ~May(P, s, "counts") => s \in Settled(P, u)
      BY DEF Settled
    <3> QED BY <3>1 DEF Affects, Goes
  <2>3. \A s \in Side : a[s].active = y[s].active /\ Hears(P, s, y[s], a[s])
    BY <2>1, <2>2 DEF TeamsTame
  <2> QED BY <2>1, <2>3 DEF SongLed, Hears, Song
<1> QED BY <1>2, <1>3

\* The effect of a move, and what follows damage
LEMMA TakesEffectLeads ==
  ASSUME NEW v \in World, Ready(v), NEW u \in Side, HP(v, u) # 0, NEW m \in Move,
         NEW Q, Q[1] = Standing(v), Q[2] = {}, Q[3] = {}, Mute(Q), Mild(Q, u),
         NEW damage, NEW r, Tries(Q, u, m, v, damage, r),
         r.reached => ~(HP(v, Other(u)) = 0 /\ Targets(m) = "adjacent"),
         NEW draw, Drawn(v, u, m, draw.effect),
         draw.contact \in {"nothing", "burn", "paralysis", "poison", "infatuation"},
         NEW x, x = TakesEffect(r, u, draw)
  PROVE  /\ Leads(Standing(v), v, x)
         /\ Trades(u, draw.effect, v, x)
         /\ SongLed(v, x)
         /\ Holds(u, v, x)
         /\ x[u].active = v[u].active
         /\ IsEnduring(x[u].lum) =>
              IsEnduring(v[u].lum) \/ MoveData[m].effect = <<"endure">>
<1> DEFINE y == r.world
           R == Standing(v)
           t == Other(u)
           f == draw.effect
           P == EffectP(R, y, u, f)
           a == ApplyEffect(y, u, f, r.done)
           done == IF r.reached THEN r.done ELSE 0
<1>1. /\ t \in Side
      /\ y \in World /\ r.done \in Nat
      /\ TeamsTame(Q, v, y)
      /\ y[u].active = v[u].active /\ y[t].active = v[t].active
      /\ IsEnduring(y[u].lum) => IsEnduring(v[u].lum) \/ MoveData[m].effect = <<"endure">>
  BY Sides DEF Tries, Uses, Goes
<1>2. Leads(R, v, y)
  BY <1>1, TameLeads
<1>3. <<u, y[u].active>> \in R
  BY <1>1, StandingIs
<1>4. Keeps(v, y)
  BY <1>1, TameKeeps
<1>7. Silent(v, y) /\ y[t].lum = v[t].lum
  <2>1. \A s \in Side : y[s].active = v[s].active
    BY <1>1, TwoSides
  <2>2. \A s \in Side : Song(y, s) = Song(v, s)
    BY <1>1, SongsHeard
  <2>3. y[t].lum = v[t].lum
    BY DEF Tries, Uses, Goes
  <2> QED BY <2>1, <2>2, <2>3 DEF Silent
<1>8. Holds(u, v, y) /\ Ready(y)
  BY <1>1, MildHolds, TamesReady
<1>5. CASE ~r.affects
  <2>1. x = y
    BY <1>5 DEF TakesEffect
  <2>2. Trades(u, f, v, x)
    BY <2>1, <1>1, <1>4, KeepsRefl DEF Trades
  <2>3. SongLed(v, x)
    BY <1>7, <2>1, SilentLed
  <2> QED BY <2>1, <2>2, <2>3, <1>1, <1>2, <1>8
<1>6. CASE r.affects
  <2>1. x = AfterDamage(a, u, done, draw.contact)
    BY <1>6 DEF TakesEffect
  <2>2. f[1] = "pain_split" => HP(v, t) # 0
    BY <1>6 DEF Drawn, Tries
  <2>22. f[1] = "hyper_beam" => (Tabled => IsRecharging(y[u].lum))
    <3> SUFFICES ASSUME f[1] = "hyper_beam", Tabled  PROVE IsRecharging(y[u].lum)
      OBVIOUS
    <3>1. KindOf[m] = "recharge" /\ ~HasTrait(m, "explodes")
      BY DEF Drawn, Tabled
    <3>2. r.reached
      BY <1>6, <3>1 DEF Tries
    <3>3. Charged(y, u, m)
      BY <3>2 DEF Tries
    <3> QED BY <3>1, <3>3 DEF Charged
  <2> HIDE DEF y, f
  <2>3. Fair(P, y, u, f)
    BY <1>1, <1>8, <2>2, <2>22, DrawnFair DEF f
  <2>4. Harsh(P) /\ Free(P) /\ Claused(P, y, u) /\ P[1] = R
        /\ Permits(P, R, y, u, f)
    <3>1. P = EffectP(R, y, u, f)
      OBVIOUS
    <3> HIDE DEF P, R
    <3>2. Permits(P, R, y, u, f)
      BY <3>1, EffectPIs
    <3> QED BY <3>2 DEF Permits
  <2> HIDE DEF P, R
  <2>5. Affects(P, u, y, a)
    BY <1>1, <1>3, <2>3, <2>4, EffectAffects, Zenon
  <2>6. \/ Keeps(y, a)
        \/ a \in {StealItem(y, u), SwapItems(y, u)}
        \/ f[1] = "recycle" /\ a = RecycleItem(y, u)
    <3> DEFINE n == r.done
    <3>1. n \in Nat /\ Drawn(v, u, m, f) /\ a = ApplyEffect(y, u, f, n)
      BY <1>1 DEF f
    <3> HIDE DEF n, a
    <3> QED BY <1>1, <3>1, EffectTrades
  <2> HIDE DEF a
  <2>7. done \in Nat
    BY <1>1
  <2> HIDE DEF done
  <2>8. a \in World => Livable(P, a, u)
    <3>1. /\ a \in World
          /\ TeamsTame(P, y, a)
          /\ a[u].active = y[u].active
          /\ \A s \in Side : ~May(P, s, "counts") => a[s].active = y[s].active
          /\ ~IsEnduring(y[u].lum) => ~IsEnduring(a[u].lum)
      BY <1>1, <2>5, AffectsIs
    <3> QED BY <1>1, <1>3, <2>4, <3>1 DEF Livable
  <2>9. Tame(P, a, x) /\ Tame(Still, a, x)
    <3> DEFINE contact == draw.contact
    <3>1. contact \in {"nothing", "burn", "paralysis", "poison", "infatuation"}
      OBVIOUS
    <3>2. a \in World => Livable(Still, a, u)
      BY StillIs, MonOf DEF Livable
    <3> HIDE DEF contact
    <3>3. Tame(P, a, AfterDamage(a, u, done, contact))
      BY <2>4, <2>7, <2>8, <3>1, AfterDamageAffects
    <3>4. Tame(Still, a, AfterDamage(a, u, done, contact))
      BY <2>7, <3>1, <3>2, StillIs, AfterDamageAffects
    <3> QED BY <2>1, <3>3, <3>4 DEF contact
  <2>19. SongLed(y, a) /\ a[u].active = y[u].active
    <3> DEFINE n == r.done
    <3>1. Drawn(v, u, m, f) /\ ApplyEffect(y, u, f, n) = a
      BY DEF f, a
    <3> HIDE DEF n, a
    <3>2. SongLed(y, a)
      BY <1>1, <1>8, <2>4, <2>5, <3>1, EffectLed
    <3>3. /\ a \in World
          /\ TeamsTame(P, y, a)
          /\ a[u].active = y[u].active
          /\ \A s \in Side : ~May(P, s, "counts") => a[s].active = y[s].active
          /\ ~IsEnduring(y[u].lum) => ~IsEnduring(a[u].lum)
      BY <1>1, <2>5, AffectsIs
    <3> QED BY <3>2, <3>3
  <2>20. SongLed(v, a)
    <3>1. BatonPassing(y, t) <=> BatonPassing(v, t)
      BY <1>7 DEF BatonPassing, y
    <3>2. \A s \in Side : a[s].active # y[s].active => s = t
      BY <2>19, TwoSides
    <3>3. Silent(v, y)
      BY <1>7
    <3> QED BY <2>19, <3>1, <3>2, <3>3, SilentThenLed
  <2>10. a \in World
    BY <1>1, <2>5, AffectsIs
  <2>11. Trades(u, f, v, x)
    <3>1. Keeps(a, x)
      BY <2>10, <2>9, StillIs, TameKeeps DEF Tame
    <3> QED BY <1>1, <1>4, <2>6, <2>10, <3>1 DEF Trades
  <2>12. Affects(P, u, y, x)
    BY <2>5, <2>9, TameAffects, AffectsTrans
  <2>13. /\ x \in World
         /\ TeamsTame(P, y, x)
         /\ x[u].active = y[u].active
         /\ \A s \in Side : ~May(P, s, "counts") => x[s].active = y[s].active
         /\ IsEnduring(x[u].lum) => IsEnduring(y[u].lum)
    <3>1. u \in Settled(P, u) /\ \A s \in Side : ~May(P, s, "counts") => s \in Settled(P, u)
      BY DEF Settled
    <3> QED BY <1>1, <2>12, <3>1 DEF Affects, Goes
  <2>14. \A s \in Side : \A k : <<s, k>> \in R => k = y[s].active
    BY <1>1, StandingIs, TwoSides DEF R
  <2>15. One(R, y) => One(R, x)
    BY <1>1, <2>13, <2>14, EffectOne DEF P
  <2>16. \A s \in Side : \A k \in Mons(s) :
           y[s].team[k].hp = 0 /\ <<s, k>> \notin R => x[s].team[k].hp = 0
    BY <2>4, <2>13 DEF TeamsTame, Tamed
  <2>17. Leads(R, y, x)
    BY <2>13, <2>15, <2>16 DEF Leads
  <2>18. Leads(R, v, x)
    BY <1>2, <2>17, LeadsTrans DEF R, y
  <2>21. SongLed(v, x)
    <3>1. Silent(a, x)
      BY <2>9, <2>10, StillIs, TameSilent
    <3> QED BY <2>20, <3>1, LedThenSilent
  <2>23. Holds(u, v, x)
    <3>1. Mild(P, u)
      BY <2>4 DEF Permits
    <3>2. Holds(u, y, x)
      BY <2>13, <3>1, MildHolds
    <3> QED BY <1>8, <3>2, HoldsTrans
  <2> QED BY <1>1, <2>13, <2>18, <2>11, <2>21, <2>23 DEF R, f
<1> QED BY <1>5, <1>6

\* What is drawn for a move
LEMMA DrawsAre ==
  ASSUME NEW v \in World, NEW u \in Side, NEW m \in Move, NEW draw \in Draws(v, u, m)
  PROVE  /\ Drawn(v, u, m, draw.effect)
         /\ draw.damage \in Nat
         /\ draw.ends \in ActionEnds(v[u].lum)
         /\ draw.contact \in {"nothing", "burn", "paralysis", "poison", "infatuation"}
         /\ MoveData[m].effect = <<"endure">> => draw.damage = 0 /\ draw.effect = <<"endure">>
<1>1. /\ draw.ends \in ActionEnds(v[u].lum)
      /\ draw.effect \in PossibleEffects(v, u, m)
      /\ draw.damage \in PossibleDamage(v, u, m)
      /\ draw.contact \in PossibleContact(v, u, m)
  BY DEF Draws
<1>2. draw.damage \in Nat
  <2>1. draw.damage \in MoveData[m].damage \cup {0}
    BY <1>1 DEF PossibleDamage
  <2> QED BY <2>1, MoveDataAssumption
<1>3. draw.contact \in {"nothing", "burn", "paralysis", "poison", "infatuation"}
  BY <1>1 DEF PossibleContact, ContactEffect
<1>4. Drawn(v, u, m, draw.effect)
  BY <1>1, PossibleDrawn
<1>5. ASSUME MoveData[m].effect = <<"endure">>
      PROVE  draw.damage = 0 /\ draw.effect = <<"endure">>
  <2>1. MoveData[m].damage = {0}
    BY <1>5, EffectsAssumption
  <2>2. draw.damage \in MoveData[m].damage \cup {0}
    BY <1>1 DEF PossibleDamage
  <2>3. draw.effect = <<"endure">>
    BY <1>1, <1>5 DEF PossibleEffects, Conditional
  <2> QED BY <2>1, <2>2, <2>3
<1> QED BY <1>1, <1>2, <1>3, <1>4, <1>5

\* Who is hurt before the effect: the foe and, where there is damage, the user
AttackP(v, u, damage) ==
  <<Standing(v), {}, {}, IF damage = 0 THEN {<<Other(u), k>> : k \in Mons(Other(u))} ELSE AnyMon, Acting(u)>>

LEMMA AttackPIs ==
  ASSUME NEW v, NEW u \in Side, NEW damage, NEW Q, Q = AttackP(v, u, damage)
  PROVE  /\ Q[1] = Standing(v) /\ Q[2] = {} /\ Q[3] = {}
         /\ Mute(Q) /\ Mild(Q, u)
         /\ Strikes(Q, u, damage)
         /\ damage = 0 => \A k : <<u, k>> \notin Q[4]
<1>1. Q[1] = Standing(v) /\ Q[2] = {} /\ Q[3] = {} /\ Q[5] = Acting(u)
  BY DEF AttackP
<1>2. Q[4] = IF damage = 0 THEN {<<Other(u), k>> : k \in Mons(Other(u))} ELSE AnyMon
  BY DEF AttackP
<1>3. Other(u) \in Side /\ Other(u) # u
  BY Sides
<1>4. \A m \in Mons(Other(u)) : <<Other(u), m>> \in Q[4]
  BY <1>2, <1>3 DEF AnyMon
<1>5. damage = 0 \/ Harsh(Q)
  BY <1>2 DEF AnyMon, Harsh
<1>6. damage = 0 => \A k : <<u, k>> \notin Q[4]
  BY <1>2, <1>3
<1>7. Mute(Q) /\ Mild(Q, u)
  BY <1>1 DEF Mute, Mild, Risky, MayFail, May, Acting, Chance, Side
<1> QED BY <1>1, <1>4, <1>5, <1>6, <1>7 DEF Strikes

LEMMA NoDamageAfter ==
  ASSUME NEW v, NEW u, NEW done, done = 0, NEW contact
  PROVE  AfterDamage(v, u, done, contact) = v
BY DEF AfterDamage

\* Until generation 3 nobody acts once somebody has fainted.
Opposed(v, u) == Rules.generation <= 3 => HP(v, Other(u)) # 0

LEMMA DrawFaces ==
  ASSUME NEW v \in World, NEW u \in Side, NEW m \in Move, Carries(v[u].lum, m), Opposed(v, u),
         NEW draw \in Draws(v, u, m)
  PROVE  Faces(v, u, m, draw.damage)
<1> SUFFICES ASSUME Tabled, draw.damage # 0
             PROVE  HP(v, Other(u)) # 0 \/ Targets(m) = "adjacent"
  BY DEF Faces
<1>1. Meant(m)
  BY DEF Carries
<1>2. draw.damage \in MoveData[m].damage \cup {0}
  BY DEF Draws, PossibleDamage
<1>3. Rules.generation >= 4 => Targets(m) = "adjacent"
  BY <1>1, <1>2 DEF Meant, Single
<1>4. Rules.generation \in 1..8
  BY WorldRules
<1> QED BY <1>3, <1>4 DEF Opposed

\* After the recharge
LEMMA CarriesRecharged ==
  ASSUME NEW l \in Used, NEW m, Carries(l, m)
  PROVE  Carries(Recharge(l), m)
<1>1. CASE IsRecharging(l)
  <2> DEFINE k == WithEffect(l, "Empty")
  <2>1. Recharge(l) = k
    BY <1>1 DEF Recharge
  <2>2. k.effect = "Empty" /\ k.moved = l.moved
    BY DEF WithEffect, Used, LumRecord
  <2>3. Fit(k)
    BY <2>2 DEF Fit
  <2> QED BY <2>1, <2>2, <2>3 DEF Carries
<1> QED BY <1>1 DEF Recharge

LEMMA TryUseMoveLeads ==
  ASSUME NEW v \in World, NEW u \in Side, NEW m \in Move, HP(v, u) # 0, Spent(v, Other(u)),
         Ready(v), Opposed(v, u), Carries(v[u].lum, m),
         NEW threatens, NEW draw \in Draws(v, u, m), NEW x, x = TryUseMove(v, u, m, threatens, draw)
  PROVE  /\ Leads(Standing(v), v, x)
         /\ Trades(u, draw.effect, v, x)
         /\ SongLed(v, x)
         /\ Holds(u, v, x)
         /\ x[u].active = v[u].active
         /\ IsEnduring(x[u].lum) => IsEnduring(v[u].lum) \/ HP(x, u) # 0
<1> DEFINE a == AdvanceStatus(v, u, draw.clears)
           l == Recharge(a[u].lum)
           b == [a EXCEPT ![u].lum = l]
           asleep == Status(v, u) \in Sleeping
           recharging == IsRecharging(v[u].lum)
           r == Attempts(b, u, m, threatens, draw, asleep, recharging)
           Q == AttackP(v, u, draw.damage)
<1>1. x = TakesEffect(r, u, draw)
  BY DEF TryUseMove
<1>2. /\ Drawn(v, u, m, draw.effect)
      /\ draw.damage \in Nat
      /\ draw.ends \in ActionEnds(v[u].lum)
      /\ draw.contact \in {"nothing", "burn", "paralysis", "poison", "infatuation"}
      /\ MoveData[m].effect = <<"endure">> => draw.damage = 0 /\ draw.effect = <<"endure">>
  BY DrawsAre
<1>3. Tame(Hush(u), v, a)
  BY TameAdvanceStatus
<1>4. a \in World /\ a[u].lum = v[u].lum
  BY <1>3 DEF Tame
<1> HIDE DEF a
<1>5. /\ l \in Used /\ (IsEnduring(l) <=> IsEnduring(v[u].lum)) /\ draw.ends \in ActionEnds(l)
      /\ Carries(l, m)
  <2> DEFINE k == v[u].lum
  <2>1. k \in Used /\ l = Recharge(k) /\ draw.ends \in ActionEnds(k)
    BY <1>2, <1>4, LumOf
  <2> HIDE DEF k, l
  <2>2. l \in Used /\ (IsEnduring(l) <=> IsEnduring(k))
    BY <2>1, LumRecharge
  <2>3. draw.ends \in ActionEnds(l)
    <3>1. CASE IsRecharging(k)
      <4>1. l.effect = "Empty" /\ k.effect = "Recharging"
        BY <2>1, <3>1, LumEmpty DEF Recharge, IsRecharging
      <4> QED BY <2>1, <4>1 DEF ActionEnds
    <3>2. CASE ~IsRecharging(k)
      BY <2>1, <3>2 DEF Recharge
    <3> QED BY <3>1, <3>2
  <2>4. Carries(l, m)
    BY <2>1, CarriesRecharged DEF k
  <2> QED BY <2>2, <2>3, <2>4 DEF k
<1>15. Recalls(Hush(u), u, a[u].lum, l)
  <2> DEFINE P == Hush(u)
             k == a[u].lum
  <2>1. k \in Used /\ l \in {k, WithEffect(k, "Empty")}
    BY <1>4, LumOf DEF Recharge
  <2> HIDE DEF P, k, l
  <2>2. Recalls(P, u, k, l)
    BY <2>1, RecallsEmpty
  <2> QED BY <2>2 DEF P, k
<1> HIDE DEF l
<1>6. Uses(Hush(u), u, m, v, b)
  <2>1. Uses(Hush(u), u, m, v, a)
    BY <1>3, TameUses
  <2>2. a \in World => /\ l \in Used
                       /\ Recalls(Hush(u), u, a[u].lum, l)
                       /\ IsEnduring(l) => IsEnduring(a[u].lum) \/ MoveData[m].effect = <<"endure">>
    BY <1>4, <1>5, <1>15
  <2>3. Uses(Hush(u), u, m, a, b)
    BY <2>2, PutLumUses
  <2> HIDE DEF b
  <2> QED BY <2>1, <2>3, UsesTrans
<1>7. b[u].lum = l
  BY <1>4 DEF World, Side, OneSide
<1>8. b \in World /\ Spent(b, Other(u)) /\ (HP(b, Other(u)) = 0 <=> HP(v, Other(u)) = 0)
  BY <1>6, HushKeeps
<1> HIDE DEF b, asleep, recharging
<1>9. /\ Q[1] = Standing(v) /\ Q[2] = {} /\ Q[3] = {} /\ Mute(Q) /\ Mild(Q, u)
      /\ Strikes(Q, u, draw.damage)
      /\ draw.damage = 0 => \A k : <<u, k>> \notin Q[4]
  <2> DEFINE damage == draw.damage
  <2>1. Q = AttackP(v, u, damage)
    OBVIOUS
  <2> HIDE DEF Q, damage
  <2>2. /\ Q[1] = Standing(v) /\ Q[2] = {} /\ Q[3] = {} /\ Mute(Q) /\ Mild(Q, u)
        /\ Strikes(Q, u, damage)
        /\ damage = 0 => \A k : <<u, k>> \notin Q[4]
    BY <2>1, AttackPIs
  <2> QED BY <2>2 DEF damage
<1> HIDE DEF Q
<1>10. draw.ends \in ActionEnds(b[u].lum) /\ Carries(b[u].lum, m) /\ Faces(b, u, m, draw.damage)
  <2>1. Faces(v, u, m, draw.damage)
    BY DrawFaces
  <2> QED BY <1>5, <1>7, <1>8, <2>1 DEF Faces
<1>11. /\ Tries(Q, u, m, b, draw.damage, r)
       /\ r.reached => ~(HP(b, Other(u)) = 0 /\ Targets(m) = "adjacent")
  BY <1>2, <1>8, <1>9, <1>10, AttemptsTries
<1> HIDE DEF r
<1>12. Tries(Q, u, m, v, draw.damage, r)
  <2>1. Acting(u) \subseteq Q[5]
    BY <1>9 DEF Strikes
  <2>2. Uses(Q, u, m, v, b)
    BY <1>6, <2>1, HushUses
  <2> QED BY <1>11, <2>2, TriesTrans
<1>13. /\ Leads(Standing(v), v, x)
       /\ Trades(u, draw.effect, v, x)
       /\ SongLed(v, x)
       /\ Holds(u, v, x)
       /\ x[u].active = v[u].active
       /\ IsEnduring(x[u].lum) => IsEnduring(v[u].lum) \/ MoveData[m].effect = <<"endure">>
  <2>1. r.reached => ~(HP(v, Other(u)) = 0 /\ Targets(m) = "adjacent")
    BY <1>8, <1>11
  <2> QED BY <1>1, <1>2, <1>9, <1>12, <2>1, TakesEffectLeads
<1>14. ASSUME MoveData[m].effect = <<"endure">>
       PROVE  HP(x, u) # 0
  <2> DEFINE f == draw.effect
             y == r.world
  <2>1. draw.damage = 0 /\ f = <<"endure">>
    BY <1>2, <1>14
  <2>2. r.done = 0
    BY <2>1, <1>12 DEF Tries
  <2>3. ApplyEffect(y, u, f, r.done) = y
    BY <2>1 DEF ApplyEffect, StatusEffects, HPEffects, StageEffects, VolatileEffects, ItemEffects, FieldEffects
  <2>4. (IF r.reached THEN r.done ELSE 0) = 0
    BY <2>2
  <2>5. x = y
    <3> DEFINE done == IF r.reached THEN r.done ELSE 0
    <3>1. AfterDamage(y, u, done, draw.contact) = y
      BY <2>4, NoDamageAfter
    <3>2. x \in {y, AfterDamage(ApplyEffect(y, u, f, r.done), u, done, draw.contact)}
      BY <1>1 DEF TakesEffect
    <3> QED BY <2>3, <3>1, <3>2
  <2>6. y \in World /\ TeamsTame(Q, v, y) /\ y[u].active = v[u].active
    BY <1>12 DEF Tries, Uses, Goes
  <2> HIDE DEF y
  <2>7. v[u].active \in Mons(u) /\ HP(v, u) \in 0..MaxHP /\ HP(y, u) \in 0..MaxHP
    BY <2>6, MonOf
  <2>8. Tamed(Q, u, v[u].active, v[u].team[v[u].active], y[u].team[v[u].active])
    BY <2>6, <2>7 DEF TeamsTame
  <2>9. ~(HP(y, u) < HP(v, u))
    BY <1>9, <2>1, <2>6, <2>8 DEF Tamed, HP, Mon
  <2> QED BY <2>5, <2>7, <2>9
<1> QED BY <1>13, <1>14

LEMMA CallMoveLeads ==
  ASSUME NEW v \in World, NEW u \in Side, NEW m \in Move, HP(v, u) # 0, Spent(v, Other(u)),
         Ready(v), Opposed(v, u), Carries(v[u].lum, m), NEW threatens, NEW draw \in Draws(v, u, m), NEW x, x = CallMove(v, u, m, threatens, draw)
  PROVE  /\ Leads(Standing(v), v, x)
         /\ Trades(u, draw.effect, v, x)
         /\ SongLed(v, x)
         /\ Holds(u, v, x)
         /\ Rules.generation >= 3 => (IsEnduring(x[u].lum) => IsEnduring(v[u].lum) \/ HP(x, u) # 0)
<1> DEFINE y == TryUseMove(v, u, m, threatens, draw)
           P == <<Standing(v), {}, {}, AnyMon, Acting(u)>>
<1>1. Asserted(v, HP(v, u) # 0) = v
  BY DEF Asserted
<1>2. x = EndOfAttack(y, u)
  BY <1>1 DEF CallMove
<1>3. /\ Leads(Standing(v), v, y)
      /\ Trades(u, draw.effect, v, y)
      /\ SongLed(v, y)
      /\ Holds(u, v, y)
      /\ IsEnduring(y[u].lum) => IsEnduring(v[u].lum) \/ HP(y, u) # 0
  BY TryUseMoveLeads
<1> HIDE DEF y
<1>4. Harsh(P) /\ P[1] = Standing(v) /\ P[2] = {} /\ P[3] = {} /\ Mute(P) /\ Mild(P, u)
  BY DEF Harsh, AnyMon, Mute, Mild, Risky, MayFail, May, Acting, Chance, Side
<1> HIDE DEF P
<1>5. Tame(P, y, x)
  <2>1. Ready(y)
    BY <1>3 DEF Holds, Ready
  <2>2. Steady(P, y)
    BY <1>4, <2>1, ReadySteady DEF Mild
  <2> QED BY <1>2, <1>4, <2>2, TameEndOfAttack
<1>6. y \in World
  BY <1>3 DEF Leads
<1>7. Leads(Standing(v), y, x)
  BY <1>4, <1>5, <1>6, TameLeads DEF Tame
<1>8. Trades(u, draw.effect, v, x)
  <2>1. Keeps(y, x)
    BY <1>4, <1>5, <1>6, TameKeeps DEF Tame
  <2> DEFINE f == draw.effect
  <2>2. Trades(u, f, v, y)
    BY <1>3
  <2> HIDE DEF f
  <2>3. Trades(u, f, v, x)
    BY <2>1, <2>2, TradesKeeps
  <2> QED BY <2>3 DEF f
<1>9. ASSUME Rules.generation >= 3  PROVE x = y
  <2>1. Rules.generation \in 1..8
    BY WorldRules
  <2>2. ~(Rules.generation <= 2)
    BY <1>9, <2>1
  <2> QED BY <1>2, <2>2 DEF EndOfAttack
<1>10. SongLed(v, x)
  <2>1. Silent(y, x)
    BY <1>4, <1>5, <1>6, TameSilent
  <2> QED BY <1>3, <2>1, LedThenSilent
<1>11. Holds(u, v, x)
  <2>1. Holds(u, y, x)
    BY <1>4, <1>5, <1>6, MildHolds DEF Tame
  <2> QED BY <1>3, <2>1, HoldsTrans
<1> QED BY <1>3, <1>7, <1>9, <1>8, <1>10, <1>11, LeadsTrans

-----------------------------------------------------------------------------
(* The inductive invariant: the clauses hold; who is to act is left and has  *)
(* done nothing yet, so that Endure keeps nobody that has fainted; nobody is *)
(* down where both select, and nobody has moved before they do; and where   *)
(* the tables are Tabled, nothing has failed and nothing is about to.       *)

InAct(v, acting) ==
  /\ \A s \in acting : HP(v, s) # 0 /\ ~v[s].lum.moved
  /\ acting # {} => \A s \in Side : Spent(v, s)
  /\ Rules.generation <= 3 /\ acting # {} => \A s \in Side : HP(v, s) # 0

Between(v, waits) ==
  /\ waits \in {"select", "replace"} => \A s \in Side : ~v[s].lum.moved
  /\ waits = "select" => \A s \in Side : HP(v, s) # 0

WorldOK(v, waits, acting) ==
  /\ v \in World
  /\ One({}, v)
  /\ waits = "act" => InAct(v, acting)
  /\ Between(v, waits)

\* With such tables nothing has failed, who sleeps has no more than nightmares, and what
\* each has done fits.
Fine(v) == Tabled => ~v.failed /\ \A s \in Side : Sound(v[s]) /\ Fit(v[s].lum)

\* Who is to act by m uses what it is locked in to.
Intends(l, m) == m \in Move => Meant(m) /\ (l.effect # "Empty" => l.move = m)

Tidy(v, waits, acting, chosen) ==
  /\ Fine(v)
  /\ Tabled /\ waits = "act" => \A s \in acting : Intends(v[s].lum, chosen[s])

Inv ==
  /\ scenario \in DOMAIN Scenarios
  /\ phase \in {"select", "act", "replace", "over"}
  /\ toAct \in SUBSET Side
  /\ turn \in 0..Rules.turns
  /\ WorldOK(w, phase, toAct)
  /\ Tidy(w, phase, toAct, selection)

\* Nobody of a team is revived.
Stays(v, x) == \A s \in Side : \A m \in Mons(s) : v[s].team[m].hp = 0 => x[s].team[m].hp = 0

LEMMA Unmoved ==
  ASSUME NEW l, ~l.moved
  PROVE  ~IsEnduring(l)
BY DEF IsEnduring

\* Nor is anybody given an item.
Uneventful(v, x) == Stays(v, x) /\ Keeps(v, x)

LEMMA UneventfulTrans ==
  ASSUME NEW u, NEW v, NEW x, Uneventful(u, v), Uneventful(v, x)
  PROVE  Uneventful(u, x)
BY DEF Uneventful, Stays, Keeps

LEMMA UneventfulRefl ==
  ASSUME NEW v
  PROVE  Uneventful(v, v)
BY DEF Uneventful, Stays, Keeps

LEMMA TameUneventful ==
  ASSUME NEW P, P[1] = {}, P[3] = {}, NEW v, NEW x, TeamsTame(P, v, x)
  PROVE  Uneventful(v, x)
BY DEF Uneventful, Stays, Keeps, TeamsTame, Tamed

LEMMA FineReady ==
  ASSUME NEW v, Fine(v)
  PROVE  Ready(v)
BY DEF Fine, Ready

LEMMA FitEmpty ==
  ASSUME NEW l, l.effect = "Empty"
  PROVE  Fit(l)
BY DEF Fit

LEMMA FineTame ==
  ASSUME NEW P, Tabled => ~MayFail(P), NEW v, NEW x, TeamsTame(P, v, x), Fine(v)
  PROVE  Fine(x)
<1> SUFFICES ASSUME Tabled  PROVE ~x.failed /\ \A s \in Side : Sound(x[s]) /\ Fit(x[s].lum)
  BY DEF Fine
<1>1. ~x.failed
  BY DEF TeamsTame, Fine
<1>2. ASSUME NEW s \in Side
      PROVE  Sound(x[s]) /\ Fit(x[s].lum)
  <2>1. Sound(v[s]) /\ Fit(v[s].lum)
    BY DEF Fine
  <2>2. (Sound(v[s]) => Sound(x[s])) /\ Recalls(P, s, v[s].lum, x[s].lum)
    BY DEF TeamsTame, Follows
  <2>3. x[s].lum.effect = "Empty" => Fit(x[s].lum)
    BY FitEmpty
  <2> QED BY <2>1, <2>2, <2>3 DEF Recalls
<1> QED BY <1>1, <1>2

LEMMA HoldsFine ==
  ASSUME NEW u \in Side, NEW v, NEW x, Holds(u, v, x), Fine(v)
  PROVE  Fine(x)
<1> SUFFICES ASSUME Tabled  PROVE ~x.failed /\ \A s \in Side : Sound(x[s]) /\ Fit(x[s].lum)
  BY DEF Fine
<1>1. ~v.failed /\ \A s \in Side : Sound(v[s]) /\ Fit(v[s].lum)
  BY DEF Fine
<1> QED BY <1>1, FitEmpty DEF Holds

\* A replacement or a switch
LEMMA SwitchIs ==
  ASSUME NEW v \in World, One({}, v), Ready(v), NEW s \in Side, NEW m \in Mons(s),
         NEW x, x = SwitchPokemon(v, s, m)
  PROVE  /\ x \in World /\ One({}, x) /\ Uneventful(v, x)
         /\ HP(v, Other(s)) = 0 => HP(x, Other(s)) = 0
         /\ ~IsEnduring(x[s].lum)
         /\ HP(v, s) = 0 => x[s].lum.moved = v[s].lum.moved
         /\ HP(v, s) # 0 => x[s].lum.moved
         /\ x[Other(s)].lum.moved = v[Other(s)].lum.moved
         /\ Holds(s, v, x)
<1> DEFINE t == Other(s)
           A == {t}
           L == {}
           replacing == HP(v, s) = 0
<1>1. t \in Side /\ t # s /\ t \in A
  BY Sides
<1>11. Steady(Loud, v) /\ (Tabled => ~MayFail(Loud))
  BY LoudMay, ReadySteady
<1>2. /\ Goes(Loud, A, L, v, x)
      /\ x[s].lum = UseSwitch(v[s].lum, replacing)
      /\ x[t].lum = FoeSwitched(v[t].lum)
  BY <1>11, LoudMay, SwitchPokemonGoes
<1>3. v[s].lum \in Used /\ v[t].lum \in Used
  BY <1>1, LumOf
<1>4. UseSwitch(v[s].lum, replacing).moved = IF replacing THEN v[s].lum.moved ELSE TRUE
  <2> DEFINE l == v[s].lum  k == WithEffect(l, "Empty")
  <2>1. k \in LumRecord
    BY <1>3, LumEmpty DEF Used
  <2> HIDE DEF k
  <2>2. UseSwitch(l, replacing) = [k EXCEPT !.move = NoMove, !.moved = IF replacing THEN l.moved ELSE TRUE]
    BY DEF UseSwitch, k
  <2> HIDE DEF l, replacing
  <2>3. UseSwitch(l, replacing).moved = IF replacing THEN l.moved ELSE TRUE
    BY <2>1, <2>2 DEF LumRecord
  <2> QED BY <2>3 DEF l
<1>5. ~IsEnduring(UseSwitch(v[s].lum, replacing))
  BY <1>3, LumUseSwitch
<1>6. FoeSwitched(v[t].lum).moved = v[t].lum.moved
  BY <1>3, LumFoeSwitched
<1>12. x[s].lum.effect = "Empty" /\ (x[t].lum = v[t].lum \/ x[t].lum.effect = "Empty")
  <2> DEFINE l == v[s].lum  k == WithEffect(l, "Empty")  h == IF replacing THEN l.moved ELSE TRUE
  <2>1. k \in LumRecord /\ k.effect = "Empty"
    BY <1>3, LumEmpty DEF Used
  <2>2. UseSwitch(l, replacing) = [k EXCEPT !.move = NoMove, !.moved = h]
    BY DEF UseSwitch
  <2> HIDE DEF k, h
  <2>3. UseSwitch(l, replacing).effect = "Empty"
    BY <2>1, <2>2 DEF LumRecord
  <2>4. FoeSwitched(v[t].lum) = v[t].lum \/ FoeSwitched(v[t].lum).effect = "Empty"
    BY <1>3, LumEmpty DEF FoeSwitched, EndImmobilize
  <2> QED BY <1>2, <2>3, <2>4 DEF l
<1> HIDE DEF t, A, L
<1>7. x \in World /\ TeamsTame(Loud, v, x) /\ x[t].active = v[t].active
  BY <1>1, <1>2 DEF Goes
<1>8. One({}, x)
  BY <1>7, LoudMay, OneKept
<1>9. Uneventful(v, x)
  BY <1>7, LoudMay, TameUneventful
<1>10. HP(v, t) = 0 => HP(x, t) = 0
  <2>1. v[t].active \in Mons(t)
    BY <1>1, MonOf
  <2> QED BY <1>1, <1>7, <1>9, <2>1 DEF Uneventful, Stays, HP, Mon
<1>13. Holds(s, v, x)
  <2> SUFFICES ASSUME Tabled  PROVE Holds(s, v, x)
    BY DEF Holds
  <2>1. (x.failed => v.failed) /\ \A q \in Side : Sound(v[q]) => Sound(x[q])
    BY <1>7, <1>11 DEF TeamsTame, Follows
  <2>2. Fit(x[s].lum)
    BY <1>12, FitEmpty
  <2>3. \A q \in Side : q # s => x[q].lum = v[q].lum \/ x[q].lum.effect = "Empty"
    BY <1>12, TwoSides DEF t
  <2> QED BY <2>1, <2>2, <2>3 DEF Holds
<1> QED BY <1>2, <1>4, <1>5, <1>6, <1>7, <1>8, <1>9, <1>10, <1>13 DEF t

-----------------------------------------------------------------------------
(* What depends on the game stays as long as the game. *)

LEMMA SameGame ==
  ASSUME Rules' = Rules
  PROVE  World' = World
<1>1. ItemName' = ItemName
  BY DEF ItemName, Mons
<1>2. OneMon' = OneMon
  BY <1>1 DEF OneMon
<1>3. Flag' = Flag
  BY DEF Flag, FlagName, Exists
<1>4. Counts' = Counts
  <2>1. Duration' = Duration
    BY DEF Duration
  <2> QED BY <2>1 DEF Counts, Counter, Exists
<1>5. Layers' = Layers
  BY DEF Layers, MaxLayers
<1>6. Used' = Used
  BY DEF Used, InTurns, MaxTurns
<1>7. OneSide("ai")' = OneSide("ai")
  BY <1>2, <1>3, <1>4, <1>5, <1>6 DEF OneSide, Mons
<1>8. OneSide("foe")' = OneSide("foe")
  BY <1>2, <1>3, <1>4, <1>5, <1>6 DEF OneSide, Mons
<1> QED BY <1>7, <1>8 DEF World

LEMMA InvNext ==
  ASSUME Inv, scenario' = scenario, phase' \in {"select", "act", "replace", "over"},
         toAct' \in SUBSET Side, turn' \in 0..Rules.turns,
         WorldOK(w, phase, toAct)', Tidy(w, phase, toAct, selection)'
  PROVE  Inv'
<1>1. Rules' = Rules
  BY DEF Rules
<1> QED BY <1>1 DEF Inv

LEMMA WorldNext ==
  ASSUME scenario' = scenario,
         NEW v, w' = v, NEW waits, phase' = waits, NEW acting, toAct' = acting,
         WorldOK(v, waits, acting)
  PROVE  WorldOK(w, phase, toAct)'
<1>1. Rules' = Rules
  BY DEF Rules
<1>2. w' \in World'
  BY <1>1, SameGame DEF WorldOK
<1>3. One({}, w)'
  BY <1>1 DEF WorldOK, One, Mons, Afflicted
<1>4. (phase = "act" => InAct(w, toAct))'
  BY <1>1 DEF WorldOK, InAct, Spent, HP, Mon, IsEnduring, UsedWithEffect
<1>5. Between(w, phase)'
  BY DEF WorldOK, Between, HP, Mon
<1> QED BY <1>2, <1>3, <1>4, <1>5 DEF WorldOK

LEMMA TidyNext ==
  ASSUME scenario' = scenario,
         NEW v, w' = v, NEW waits, phase' = waits, NEW acting, toAct' = acting,
         NEW chosen, selection' = chosen, Tidy(v, waits, acting, chosen)
  PROVE  Tidy(w, phase, toAct, selection)'
<1>1. Rules' = Rules
  BY DEF Rules
<1>2. \A m : Meant(m)' <=> Meant(m)
  BY <1>1 DEF Meant
<1>3. Fine(w)'
  BY <1>2 DEF Tidy, Fine, Fit, Sound
<1>4. (Tabled /\ phase = "act" => \A s \in toAct : Intends(w[s].lum, selection[s]))'
  BY <1>2 DEF Tidy, Intends
<1> QED BY <1>3, <1>4 DEF Tidy

-----------------------------------------------------------------------------
(* The steps *)

\* What follows an action: who still acts has done nothing yet.
LEMMA ContinuesInv ==
  ASSUME Inv, phase = "act", NEW v \in World, One({}, v), NEW u \in Side, Holds(u, w, v),
         NEW sides \in SUBSET toAct, u \notin StillActs(v, sides), Continues(v, sides),
         UNCHANGED <<scenario, selection, turn>>,
         StillActs(v, sides) # {} => \A s \in Side : Spent(v, s)
  PROVE  Inv'
<1> DEFINE waits == IF Lost(v) # {} THEN "over" ELSE "act"
           acting == StillActs(v, sides)
<1>1. w' = v /\ phase' = waits /\ toAct' = acting
  BY DEF Continues
<1>2. /\ acting \in SUBSET Side /\ \A s \in acting : HP(v, s) # 0 /\ ~v[s].lum.moved
      /\ Rules.generation <= 3 /\ acting # {} => \A s \in Side : HP(v, s) # 0
  BY DEF Inv, StillActs, Moved, Fainted
<1>3. waits \in {"over", "act"}
  OBVIOUS
<1>7. acting \subseteq toAct /\ u \notin acting
  BY DEF StillActs
<1> HIDE DEF waits, acting
<1>4. WorldOK(v, waits, acting)
  BY <1>2, <1>3 DEF WorldOK, InAct, Between, acting
<1>5. WorldOK(w, phase, toAct)'
  BY <1>1, <1>4, WorldNext
<1>6. turn' \in 0..Rules.turns
  BY DEF Inv
<1>8. Tidy(v, waits, acting, selection)
  <2>1. Tidy(w, phase, toAct, selection)
    BY DEF Inv
  <2>2. Fine(v)
    BY <2>1, HoldsFine DEF Tidy
  <2> SUFFICES ASSUME Tabled, NEW s \in acting
               PROVE  Intends(v[s].lum, selection[s])
    BY <2>2 DEF Tidy
  <2>3. Intends(w[s].lum, selection[s])
    BY <1>7, <2>1 DEF Tidy
  <2>4. v[s].lum = w[s].lum \/ v[s].lum.effect = "Empty"
    BY <1>2, <1>7 DEF Holds
  <2> QED BY <2>3, <2>4 DEF Intends
<1>9. Tidy(w, phase, toAct, selection)'
  BY <1>1, <1>8, TidyNext
<1> QED BY <1>1, <1>2, <1>3, <1>5, <1>6, <1>9, InvNext

\* Who selects a move intends it: what it is locked in to, or what it knows.
LEMMA SelectedIntends ==
  ASSUME Inv, NEW s \in Side, NEW m \in LegalSelections(s), Tabled
  PROVE  Intends(w[s].lum, m)
<1> DEFINE l == w[s].lum
           rules == Scenarios[scenario]
<1>1. w \in World /\ scenario \in DOMAIN Scenarios /\ w[s].active \in Mons(s) /\ Fit(l) /\ rules = Rules
  BY MonOf DEF Inv, WorldOK, Tidy, Fine, Rules
<1>2. \A k \in MovesOf(s, w[s].active) \cup {"struggle"} : Meant(k)
  BY <1>1 DEF Tabled, Meant, MovesOf, Mons
<1>3. \A k \in DOMAIN rules.types[s] : k \notin Move
  BY <1>1, ScenariosAssumption
<1> SUFFICES ASSUME m \in Move  PROVE Meant(m) /\ (l.effect # "Empty" => l.move = m)
  BY DEF Intends
<1>4. m \notin Mons(s)
  BY <1>1, <1>3 DEF Mons
<1> HIDE DEF rules
<1>5. LegalSwitches(w, s) \subseteq Mons(s)
  BY <1>1, BenchIn DEF LegalSwitches
<1>6. m \in LegalMoves(w, s)
  BY <1>4, <1>5 DEF LegalSelections
<1>7. CASE LockedIn(l) # NoMove
  <2>1. l.effect # "Empty" /\ LockedIn(l) = l.move
    BY <1>7 DEF LockedIn
  <2>2. m = l.move
    BY <1>6, <1>7, <2>1 DEF LegalMoves, l
  <2> QED BY <1>1, <2>1, <2>2 DEF Fit
<1>8. CASE LockedIn(l) = NoMove
  <2>1. l.effect = "Empty"
    BY <1>1, <1>8, NoMoveAssumption DEF LockedIn, Fit
  <2>2. m \in MovesOf(s, w[s].active) \cup {"struggle"}
    BY <1>6, <1>8 DEF LegalMoves, l
  <2> QED BY <1>2, <2>1, <2>2
<1> QED BY <1>7, <1>8

LEMMA SelectInv ==
  ASSUME Inv, Select
  PROVE  Inv' /\ Uneventful(w, w')
<1> DEFINE acting == Side  waits == "act"
<1>9. PICK ai \in LegalSelections("ai"), foe \in LegalSelections("foe") :
        selection' = [ai |-> ai, foe |-> foe]
  BY DEF Select
<1> DEFINE chosen == [ai |-> ai, foe |-> foe]
<1>10. \A s \in Side : chosen[s] \in LegalSelections(s)
  BY DEF Side
<1> HIDE DEF chosen
<1>11. Tidy(w, waits, acting, chosen)
  BY <1>10, SelectedIntends DEF Inv, Tidy
<1>1. \A s \in Side : HP(w, s) # 0 /\ ~w[s].lum.moved
  BY DEF Inv, WorldOK, Between, Select
<1>2. \A s \in Side : Spent(w, s)
  BY <1>1 DEF Spent
<1>3. WorldOK(w, waits, acting)
  BY <1>1, <1>2 DEF Inv, WorldOK, InAct, Between
<1>4. w' = w /\ scenario' = scenario /\ phase' = waits /\ toAct' = acting /\ selection' = chosen
  BY <1>9 DEF Select, chosen
<1>5. acting \in SUBSET Side /\ waits \in {"select", "act", "replace", "over"}
  OBVIOUS
<1> HIDE DEF acting, waits
<1>6. WorldOK(w, phase, toAct)'
  BY <1>3, <1>4, WorldNext
<1>7. turn' \in 0..Rules.turns
  <2>1. Rules.turns \in Nat /\ turn \in 0..Rules.turns
    BY ScenariosAssumption DEF Inv, Rules
  <2> QED BY <2>1 DEF Select
<1>12. Tidy(w, phase, toAct, selection)'
  BY <1>4, <1>11, TidyNext
<1>8. Inv'
  BY <1>4, <1>5, <1>6, <1>7, <1>12, InvNext
<1> QED BY <1>4, <1>8, UneventfulRefl

\* Who is left of those to act is the other.
LEMMA OtherActs ==
  ASSUME NEW v, NEW s \in Side, NEW q \in StillActs(v, toAct \ {s}), toAct \in SUBSET Side
  PROVE  /\ q = Other(s)
         /\ HP(v, q) # 0
         /\ Rules.generation <= 3 => Fainted(v) = {}
BY TwoSides DEF StillActs

LEMMA ExecutesSwitchInv ==
  ASSUME Inv, NEW s \in Side, ExecutesSwitch(s)
  PROVE  Inv' /\ Uneventful(w, w')
<1> DEFINE m == selection[s]
           x == SwitchPokemon(w, s, m)
           rest == toAct \ {s}
<1>1. w \in World /\ One({}, w) /\ Ready(w) /\ toAct \in SUBSET Side /\ m \in Mons(s)
  BY BenchIn, FineReady DEF Inv, WorldOK, Tidy, ExecutesSwitch
<1>2. Continues(x, rest) /\ phase = "act" /\ UNCHANGED <<scenario, selection, turn>>
  BY DEF ExecutesSwitch, Acts
<1> HIDE DEF m
<1>3. /\ x \in World /\ One({}, x) /\ Uneventful(w, x)
      /\ HP(w, Other(s)) = 0 => HP(x, Other(s)) = 0
      /\ ~IsEnduring(x[s].lum)
      /\ HP(w, s) = 0 => x[s].lum.moved = w[s].lum.moved
      /\ HP(w, s) # 0 => x[s].lum.moved
      /\ x[Other(s)].lum.moved = w[Other(s)].lum.moved
      /\ Holds(s, w, x)
  BY <1>1, SwitchIs
<1> HIDE DEF x
<1>4. ASSUME StillActs(x, rest) # {}
      PROVE  \A q \in Side : Spent(x, q)
  BY <1>1, <1>3, <1>4, OtherActs, TwoSides DEF Spent
<1>5. rest \in SUBSET toAct /\ s \notin StillActs(x, rest)
  BY DEF StillActs
<1> HIDE DEF rest
<1>6. Inv'
  BY <1>2, <1>3, <1>4, <1>5, ContinuesInv
<1> QED BY <1>2, <1>3, <1>6 DEF Continues

LEMMA DelayedSwitchInv ==
  ASSUME Inv, NEW s \in Side, DelayedSwitch(s)
  PROVE  Inv' /\ Uneventful(w, w')
<1>1. PICK m \in Bench(w, s) : Continues(SwitchPokemon(w, s, m), toAct)
  BY DEF DelayedSwitch
<1> DEFINE x == SwitchPokemon(w, s, m)
<1>2. w \in World /\ One({}, w) /\ Ready(w) /\ toAct \in SUBSET Side /\ m \in Mons(s)
  BY BenchIn, FineReady DEF Inv, WorldOK, Tidy
<1>3. UNCHANGED <<scenario, selection, turn>> /\ phase = "act" /\ w[s].lum.moved
  BY DEF DelayedSwitch, DelayedSwitching, IsDelayedSwitching
<1>4. /\ x \in World /\ One({}, x) /\ Uneventful(w, x)
      /\ HP(w, Other(s)) = 0 => HP(x, Other(s)) = 0
      /\ ~IsEnduring(x[s].lum)
      /\ HP(w, s) = 0 => x[s].lum.moved = w[s].lum.moved
      /\ HP(w, s) # 0 => x[s].lum.moved
      /\ x[Other(s)].lum.moved = w[Other(s)].lum.moved
      /\ Holds(s, w, x)
  BY <1>2, SwitchIs
<1>5. Continues(x, toAct)
  BY <1>1
<1> HIDE DEF x
<1>6. ASSUME NEW k \in StillActs(x, toAct)
      PROVE  \A q \in Side : Spent(x, q)
  <2>1. k \in Side /\ HP(x, k) # 0 /\ ~x[k].lum.moved
    BY <1>2 DEF StillActs, Moved
  <2>2. k = Other(s)
    BY <1>3, <1>4, <2>1, TwoSides
  <2> QED BY <1>4, <2>1, <2>2, TwoSides DEF Spent
<1>8. s \notin StillActs(x, toAct)
  BY <1>3, <1>4 DEF StillActs, Moved
<1>7. Inv'
  BY <1>2, <1>3, <1>4, <1>5, <1>6, <1>8, ContinuesInv
<1> QED BY <1>4, <1>5, <1>7 DEF Continues

LEMMA ReplacesBeforeEndOfTurnInv ==
  ASSUME Inv, ReplacesBeforeEndOfTurn
  PROVE  Inv' /\ Uneventful(w, w')
<1> DEFINE foe == "foe"  none == {}
<1>1. PICK m \in Bench(w, foe) : Continues(SwitchPokemon(w, foe, m), none)
  BY DEF ReplacesBeforeEndOfTurn
<1> DEFINE x == SwitchPokemon(w, foe, m)
<1>2. foe \in Side /\ none \in SUBSET toAct
  BY Sides
<1>3. StillActs(x, none) = {}
  BY DEF StillActs
<1> HIDE DEF foe, none
<1>4. /\ w \in World /\ One({}, w) /\ Ready(w) /\ m \in Mons(foe) /\ phase = "act"
      /\ UNCHANGED <<scenario, selection, turn>>
  BY <1>2, BenchIn, FineReady DEF Inv, WorldOK, Tidy, ReplacesBeforeEndOfTurn
<1>5. /\ x \in World /\ One({}, x) /\ Uneventful(w, x)
      /\ HP(w, Other(foe)) = 0 => HP(x, Other(foe)) = 0
      /\ ~IsEnduring(x[foe].lum)
      /\ HP(w, foe) = 0 => x[foe].lum.moved = w[foe].lum.moved
      /\ HP(w, foe) # 0 => x[foe].lum.moved
      /\ x[Other(foe)].lum.moved = w[Other(foe)].lum.moved
      /\ Holds(foe, w, x)
  BY <1>2, <1>4, SwitchIs
<1>6. Continues(x, none)
  BY <1>1
<1> HIDE DEF x
<1>7. Inv'
  BY <1>2, <1>3, <1>4, <1>5, <1>6, ContinuesInv
<1> QED BY <1>5, <1>6, <1>7 DEF Continues

\* Who uses a move may be taken down by Destiny Bond and drain HP within it; when it is
\* over, who had fainted before is still down.
LEMMA LeadsStays ==
  ASSUME NEW v \in World, NEW x, Leads(Standing(v), v, x), One({}, v)
  PROVE  x \in World /\ One({}, x) /\ Stays(v, x)
<1> DEFINE R == Standing(v)
<1>1. \A s \in Side : \A m : <<s, m>> \in R => v[s].team[m].hp # 0
  BY StandingIs DEF HP, Mon
<1>2. One(R, v)
  BY StandingOne
<1> HIDE DEF R
<1>3. x \in World /\ One(R, x)
  BY <1>2 DEF Leads, R
<1>4. One({}, x)
  BY <1>3 DEF One, Afflicted
<1>5. Stays(v, x)
  BY <1>1 DEF Leads, Stays, R
<1> QED BY <1>3, <1>4, <1>5

\* Who is to act is ready to.
LEMMA ActReady ==
  ASSUME Inv, phase = "act", NEW s \in toAct, NEW m \in Move, m = selection[s]
  PROVE  Ready(w) /\ Opposed(w, s) /\ Carries(w[s].lum, m)
<1>1. s \in Side /\ InAct(w, toAct) /\ Tidy(w, phase, toAct, selection)
  BY DEF Inv, WorldOK
<1>2. Other(s) \in Side
  BY <1>1, Sides
<1>3. Fine(w)
  BY <1>1 DEF Tidy
<1>4. Opposed(w, s)
  BY <1>1, <1>2 DEF InAct, Opposed
<1>5. Carries(w[s].lum, m)
  <2> SUFFICES ASSUME Tabled
               PROVE  Fit(w[s].lum) /\ ~w[s].lum.moved /\ Meant(m) /\ (w[s].lum.effect # "Empty" => w[s].lum.move = m)
    BY DEF Carries
  <2>1. Intends(w[s].lum, m)
    BY <1>1 DEF Tidy
  <2> QED BY <1>1, <1>3, <2>1 DEF Fine, InAct, Intends
<1> QED BY <1>3, <1>4, <1>5, FineReady

LEMMA ExecutesMoveInv ==
  ASSUME Inv, NEW s \in Side, ExecutesMove(s)
  PROVE  /\ Inv' /\ Stays(w, w')
         /\ \E draw \in Draws(w, s, selection[s]) : Trades(s, draw.effect, w, w')
<1> DEFINE m == selection[s]
           threatens == Threatens(Other(s))
           rest == toAct \ {s}
<1>1. PICK draw \in Draws(w, s, m) : Continues(CallMove(w, s, m, threatens, draw), rest)
  BY DEF ExecutesMove
<1> DEFINE x == CallMove(w, s, m, threatens, draw)
<1>2. /\ w \in World /\ One({}, w) /\ toAct \in SUBSET Side /\ m \in Move
      /\ s \in toAct /\ InAct(w, toAct) /\ phase = "act"
      /\ UNCHANGED <<scenario, selection, turn>>
  BY DEF Inv, WorldOK, ExecutesMove, Acts
<1>3. HP(w, s) # 0 /\ ~w[s].lum.moved /\ Spent(w, Other(s))
  BY <1>2, Sides DEF InAct
<1>12. Ready(w) /\ Opposed(w, s) /\ Carries(w[s].lum, m)
  BY <1>2, ActReady
<1> HIDE DEF m, threatens
<1>4. /\ Leads(Standing(w), w, x)
      /\ Trades(s, draw.effect, w, x)
      /\ SongLed(w, x)
      /\ Holds(s, w, x)
      /\ Rules.generation >= 3 => (IsEnduring(x[s].lum) => IsEnduring(w[s].lum) \/ HP(x, s) # 0)
  BY <1>2, <1>3, <1>12, CallMoveLeads
<1>5. Continues(x, rest)
  BY <1>1
<1> HIDE DEF x
<1>6. x \in World /\ One({}, x) /\ Stays(w, x)
  BY <1>2, <1>4, LeadsStays
<1>7. ASSUME NEW k \in StillActs(x, rest)
      PROVE  \A q \in Side : Spent(x, q)
  <2>1. k = Other(s) /\ HP(x, k) # 0 /\ (Rules.generation <= 3 => Fainted(x) = {})
    BY <1>2, OtherActs
  <2>2. Spent(x, Other(s))
    BY <2>1 DEF Spent
  <2>3. ASSUME HP(x, s) = 0
        PROVE  ~IsEnduring(x[s].lum)
    <3>1. Fainted(x) # {}
      BY <2>3 DEF Fainted
    <3>2. Rules.generation >= 3
      BY <1>2, <2>1, <3>1, WorldRules
    <3> QED BY <1>3, <1>4, <2>3, <3>2, Unmoved
  <2> QED BY <2>2, <2>3, TwoSides DEF Spent
<1>8. rest \in SUBSET toAct /\ s \notin StillActs(x, rest)
  BY DEF StillActs
<1> HIDE DEF rest
<1>9. Inv'
  BY <1>2, <1>4, <1>5, <1>6, <1>7, <1>8, ContinuesInv
<1>10. w' = x
  BY <1>5 DEF Continues
<1>11. \E d \in Draws(w, s, selection[s]) : Trades(s, d.effect, w, w')
  BY <1>4, <1>10 DEF m
<1> QED BY <1>6, <1>9, <1>10, <1>11

-----------------------------------------------------------------------------
(* The end of the turn, and the replacements after it *)

LEMMA FinishInv ==
  ASSUME Inv, NEW v \in World, One({}, v), Fine(v), \A s \in Side : ~v[s].lum.moved,
         Finish(v)
  PROVE  Inv'
<1> DEFINE waits == IF Lost(v) # {} THEN "over" ELSE IF Fainted(v) # {} THEN "replace" ELSE "select"
           acting == {}
           chosen == [s \in Side |-> Nothing]
<1>1. w' = v /\ phase' = waits /\ toAct' = acting /\ selection' = chosen /\ UNCHANGED <<scenario, turn>>
  BY DEF Finish
<1>2. waits \in {"over", "replace", "select"} /\ (waits = "select" => Fainted(v) = {})
  OBVIOUS
<1>3. acting \in SUBSET Side
  OBVIOUS
<1>8. Tidy(v, waits, acting, chosen)
  BY DEF Tidy
<1> HIDE DEF waits, acting, chosen
<1>4. waits = "select" => \A s \in Side : HP(v, s) # 0
  BY <1>2 DEF Fainted
<1>5. WorldOK(v, waits, acting)
  BY <1>2, <1>4 DEF WorldOK, Between
<1>6. WorldOK(w, phase, toAct)'
  BY <1>1, <1>5, WorldNext
<1>9. Tidy(w, phase, toAct, selection)'
  BY <1>1, <1>8, TidyNext
<1>7. turn' \in 0..Rules.turns
  BY <1>1 DEF Inv
<1> QED BY <1>1, <1>2, <1>3, <1>6, <1>7, <1>9, InvNext

LEMMA EndsTurnInv ==
  ASSUME Inv, EndsTurn
  PROVE  Inv' /\ Uneventful(w, w')
<1>1. PICK first \in Side, ai \in EndOfTurnFlags("ai"), foe \in EndOfTurnFlags("foe") :
        Finish(EndOfTurn(w, first, [ai |-> ai, foe |-> foe]))
  BY DEF EndsTurn
<1> DEFINE flags == [ai |-> ai, foe |-> foe]
           x == EndOfTurn(w, first, flags)
<1>2. w \in World /\ One({}, w) /\ Fine(w) /\ Ready(w)
  BY FineReady DEF Inv, WorldOK, Tidy
<1>3. Fits(w, flags)
  <2>1. ai.ending \in LockInEnds(w["ai"].lum) /\ foe.ending \in LockInEnds(w["foe"].lum)
    BY DEF EndOfTurnFlags
  <2>2. flags["ai"] = ai /\ flags["foe"] = foe
    OBVIOUS
  <2> HIDE DEF flags
  <2> QED BY <2>1, <2>2 DEF Fits, Side
<1> HIDE DEF flags
<1>4. Finish(x)
  BY <1>1 DEF flags
<1>5. Sounds(w, x) /\ SongsGoOn(w, x) /\ \A s \in Side : ~x[s].lum.moved
  BY <1>2, <1>3, EndOfTurnEnds
<1> HIDE DEF x
<1>6. x \in World /\ One({}, x) /\ TeamsTame(Closing, w, x)
  BY <1>2, <1>5 DEF Sounds, Goes
<1>7. Uneventful(w, x)
  BY <1>6, LoudMay, TameUneventful
<1>9. Fine(x)
  BY <1>2, <1>6, LoudMay, FineTame
<1>8. Inv'
  BY <1>4, <1>5, <1>6, <1>9, FinishInv
<1> QED BY <1>4, <1>7, <1>8 DEF Finish

\* Who is replaced, if anyone: a side with nobody on the field
LEMMA ReplacedIs ==
  ASSUME NEW v \in World, One({}, v), Fine(v), NEW s \in Side, NEW m, m # Nothing => m \in Mons(s) /\ HP(v, s) = 0,
         \A q \in Side : ~v[q].lum.moved,
         NEW x, x = IF m = Nothing THEN v ELSE SwitchPokemon(v, s, m)
  PROVE  /\ x \in World /\ One({}, x) /\ Fine(x) /\ Uneventful(v, x)
         /\ \A q \in Side : ~x[q].lum.moved
         /\ HP(v, Other(s)) = 0 => HP(x, Other(s)) = 0
<1>1. CASE m = Nothing
  BY <1>1, UneventfulRefl
<1>2. CASE m # Nothing
  <2>1. x = SwitchPokemon(v, s, m) /\ m \in Mons(s) /\ HP(v, s) = 0
    BY <1>2
  <2>2. /\ x \in World /\ One({}, x) /\ Uneventful(v, x)
        /\ HP(v, Other(s)) = 0 => HP(x, Other(s)) = 0
        /\ ~IsEnduring(x[s].lum)
        /\ HP(v, s) = 0 => x[s].lum.moved = v[s].lum.moved
        /\ HP(v, s) # 0 => x[s].lum.moved
        /\ x[Other(s)].lum.moved = v[Other(s)].lum.moved
        /\ Holds(s, v, x)
    BY <2>1, FineReady, SwitchIs
  <2>3. \A q \in Side : ~x[q].lum.moved
    BY <2>1, <2>2, Sides, TwoSides
  <2> QED BY <2>2, <2>3, HoldsFine
<1> QED BY <1>1, <1>2

LEMMA ReplacesFaintedInv ==
  ASSUME Inv, ReplacesFainted
  PROVE  Inv' /\ Uneventful(w, w')
<1> DEFINE a == "ai"  f == "foe"
<1>1. PICK ai \in IF HP(w, a) = 0 THEN Bench(w, a) ELSE {Nothing},
           foe \in IF HP(w, f) = 0 THEN Bench(w, f) ELSE {Nothing} :
        LET replaced(v, s, m) == IF m = Nothing THEN v ELSE SwitchPokemon(v, s, m)
        IN  Finish(replaced(replaced(w, a, ai), f, foe))
  BY DEF ReplacesFainted
<1> DEFINE v == IF ai = Nothing THEN w ELSE SwitchPokemon(w, a, ai)
           x == IF foe = Nothing THEN v ELSE SwitchPokemon(v, f, foe)
<1>2. Finish(x)
  BY <1>1
<1>3. w \in World /\ One({}, w) /\ Fine(w) /\ \A q \in Side : ~w[q].lum.moved
  BY DEF Inv, WorldOK, Tidy, Between, ReplacesFainted
<1>4. a \in Side /\ f \in Side /\ f = Other(a)
  BY DEF Side, Other
<1> HIDE DEF a, f
<1>5. ai # Nothing => ai \in Mons(a) /\ HP(w, a) = 0
  BY <1>1, <1>3, <1>4, BenchIn
<1>6. foe # Nothing => foe \in Mons(f) /\ HP(w, f) = 0
  BY <1>1, <1>3, <1>4, BenchIn
<1>7. /\ v \in World /\ One({}, v) /\ Fine(v) /\ Uneventful(w, v)
      /\ \A q \in Side : ~v[q].lum.moved
      /\ HP(w, f) = 0 => HP(v, f) = 0
  BY <1>3, <1>4, <1>5, ReplacedIs
<1> HIDE DEF v
<1>8. /\ x \in World /\ One({}, x) /\ Fine(x) /\ Uneventful(v, x)
      /\ \A q \in Side : ~x[q].lum.moved
      /\ HP(v, Other(f)) = 0 => HP(x, Other(f)) = 0
  BY <1>4, <1>6, <1>7, ReplacedIs
<1> HIDE DEF x
<1>9. Inv'
  BY <1>2, <1>8, FinishInv
<1> QED BY <1>2, <1>7, <1>8, <1>9, UneventfulTrans DEF Finish

-----------------------------------------------------------------------------
(* The first Pokemon of both teams come in. *)

\* Nobody is hurt, and nobody has a status that the clauses limit.
Whole(v) ==
  \A s \in Side : \A m \in Mons(s) :
    v[s].team[m].hp = MaxHP /\ v[s].team[m].status \notin {"sleep", "freeze"}

LEMMA InitialUsed == Initial \in Used /\ ~Initial.moved /\ Initial.effect = "Empty"
<1>1. Initial \in LumRecord
  BY EmptyEffect, MaxSuccessesAssumption DEF Initial, LumRecord
<1>2. MaxTurns("Empty") \in 0..5
  BY MaxTurnsNat
<1>3. InTurns("Empty", 0)
  BY <1>2 DEF InTurns
<1> QED BY <1>1, <1>3 DEF Used, Initial

LEMMA InitialSideIn ==
  ASSUME scenario \in DOMAIN Scenarios, NEW s \in Side
  PROVE  /\ InitialSide(s) \in OneSide(s)
         /\ InitialSide(s).lum = Initial
         /\ \A m \in Mons(s) : InitialSide(s).team[m].hp = MaxHP /\ InitialSide(s).team[m].status = Clear
<1> DEFINE team == [m \in DOMAIN Rules.types[s] |-> Fresh(s, m)]
           count == [c \in Counter |-> Inactive]
           lead == Rules.lead[s]
<1>1. lead \in Mons(s)
  BY ScenariosAssumption DEF Mons, Rules
<1>2. \A m \in Mons(s) : Fresh(s, m) \in OneMon /\ Fresh(s, m).hp = MaxHP /\ Fresh(s, m).status = Clear
  <2> SUFFICES ASSUME NEW m \in Mons(s)
               PROVE  Fresh(s, m) \in OneMon /\ Fresh(s, m).hp = MaxHP /\ Fresh(s, m).status = Clear
    OBVIOUS
  <2> DEFINE item == Rules.item[s][m]  held == item # NoItem
  <2>1. item \in ItemName /\ MaxHP \in 0..MaxHP /\ Clear \in Statuses /\ held \in BOOLEAN
    BY MaxHPAssumption DEF ItemName, Statuses
  <2>2. Fresh(s, m) = [hp |-> MaxHP, status |-> Clear, item |-> item, held |-> held]
    BY DEF Fresh
  <2> HIDE DEF item, held
  <2> QED BY <2>1, <2>2 DEF OneMon
<1>3. team \in [Mons(s) -> OneMon]
  BY <1>2 DEF Mons
<1>4. \A m \in Mons(s) : team[m] = Fresh(s, m)
  BY DEF Mons
<1>5. count \in Counts
  <2>1. \A c \in Counter : Inactive <= Inactive /\ Inactive <= Duration[c]
    BY DurationNat DEF Inactive
  <2>2. count \in [Counter -> Int]
    BY DEF Inactive
  <2> QED BY <2>1, <2>2 DEF Counts
<1>6. NoStages \in [Stat -> -6..6]
  BY DEF NoStages
<1>7. 0 \in 0..(MaxHP \div 4 + 1)
  BY MaxHPAssumption
<1>8. Inactive \in -1..1 /\ 1 \in 1..MaxToxic
  BY DEF Inactive, MaxToxic
<1>9. InitialSide(s) =
        [active |-> lead, team |-> team, lum |-> Initial, flags |-> {}, count |-> count,
         disabled |-> NoMove, substitute |-> 0, state |-> 1, stages |-> NoStages, stockpile |-> 0,
         hazards |-> NoHazards, wish |-> Inactive]
  BY DEF InitialSide
<1> HIDE DEF team, count, lead
<1>10. InitialSide(s) \in OneSide(s)
  BY <1>1, <1>3, <1>5, <1>6, <1>7, <1>8, <1>9, InitialUsed, NoLayers DEF OneSide
<1>11. InitialSide(s).lum = Initial /\ InitialSide(s).team = team
  BY <1>9
<1> QED BY <1>2, <1>4, <1>10, <1>11

LEMMA QuietMay == ~MayFail(Quiet)
BY DEF Quiet, MayFail, May

\* One comes in.
LEMMA SentIn ==
  ASSUME NEW v \in World, Whole(v), Fine(v), \A q \in Side : ~v[q].lum.moved, NEW s \in Side,
         NEW x, x = ActivateAbilityOnSwitch(SwitchIn(v, s, TRUE), s)
  PROVE  x \in World /\ Whole(x) /\ Fine(x) /\ \A q \in Side : ~x[q].lum.moved
<1> DEFINE A == Side
           L == {Other(s)}
           yes == TRUE
           a == SwitchIn(v, s, yes)
<1>1. A \in SUBSET Side /\ L \in SUBSET Side /\ s \notin L /\ Other(s) \in L
  BY Sides
<1>2. x = ActivateAbilityOnSwitch(a, s)
  OBVIOUS
<1> HIDE DEF A, L, yes
<1>3. Goes(Quiet, A, L, v, a) /\ a[s].lum = UseSwitch(v[s].lum, yes)
  <2>1. Goes(Quiet, A, L, v, a) /\ (v \in World => a[s].lum = UseSwitch(v[s].lum, yes))
    BY <1>1, SwitchInGoes
  <2> QED BY <2>1
<1> HIDE DEF a
<1>4. a \in World /\ TeamsTame(Quiet, v, a) /\ a[Other(s)].lum = v[Other(s)].lum
  BY <1>1, <1>3 DEF Goes
<1>5. Tame(Quiet, a, x)
  BY <1>2, TameActivateAbilityOnSwitch
<1>6. x \in World /\ TeamsTame(Quiet, a, x) /\ \A q \in Side : x[q].lum = a[q].lum
  BY <1>4, <1>5 DEF Tame
<1>7. TeamsTame(Quiet, v, x)
  BY <1>4, <1>6, TeamsTameTrans
<1>8. ~a[s].lum.moved
  <2>1. v[s].lum \in Used /\ ~v[s].lum.moved
    BY LumOf
  <2>2. yes => UseSwitch(v[s].lum, yes).moved = v[s].lum.moved
    BY <2>1, LumUseSwitch
  <2> QED BY <1>3, <2>1, <2>2 DEF yes
<1>9. \A q \in Side : ~x[q].lum.moved
  BY <1>4, <1>6, <1>8, Sides, TwoSides
<1>10. Whole(x)
  <2> SUFFICES ASSUME NEW q \in Side, NEW m \in Mons(q)
               PROVE  x[q].team[m].hp = MaxHP /\ x[q].team[m].status \notin {"sleep", "freeze"}
    BY DEF Whole
  <2>1. Tamed(Quiet, q, m, v[q].team[m], x[q].team[m])
    BY <1>7 DEF TeamsTame
  <2>2. v[q].team[m].hp = MaxHP /\ v[q].team[m].status \notin {"sleep", "freeze"}
    BY DEF Whole
  <2>3. x[q].team[m].hp \in 0..MaxHP
    BY <1>6, MemberOf
  <2>4. ~(x[q].team[m].hp < MaxHP)
    BY <2>1, <2>2 DEF Tamed, Quiet
  <2>5. x[q].team[m].status \notin {"sleep", "freeze"}
    BY <2>1, <2>2 DEF Tamed, Quiet
  <2> DEFINE h == x[q].team[m].hp
  <2>6. h \in 0..MaxHP /\ ~(h < MaxHP) /\ MaxHP \in Nat
    BY <2>3, <2>4, MaxHPAssumption
  <2> HIDE DEF h
  <2>7. h = MaxHP
    BY <2>6
  <2> QED BY <2>5, <2>7 DEF h
<1>11. Fine(x)
  BY <1>7, QuietMay, FineTame
<1> QED BY <1>6, <1>9, <1>10, <1>11

LEMMA InitInv ==
  ASSUME Init
  PROVE  Inv
<1> DEFINE ai == "ai"  foe == "foe"
           e == [ai |-> InitialSide(ai), foe |-> InitialSide(foe),
                 weather |-> Clear, turns |-> 0, failed |-> FALSE]
           yes == TRUE
           a == ActivateAbilityOnSwitch(SwitchIn(e, ai, yes), ai)
           x == ActivateAbilityOnSwitch(SwitchIn(a, foe, yes), foe)
<1>1. w = x
  BY DEF Init, SentOut
<1>2. /\ scenario \in DOMAIN Scenarios /\ phase = "select" /\ toAct = {} /\ turn = 0
      /\ Rules.generation \in 1..8 /\ Rules.turns \in Nat
  BY ScenariosAssumption DEF Init, Rules
<1>3. ai \in Side /\ foe \in Side /\ Clear \in WeatherName
  BY DEF Side, WeatherName
<1>4. e["ai"] = InitialSide(ai) /\ e["foe"] = InitialSide(foe)
  OBVIOUS
<1>5. \A s \in Side : e[s] = InitialSide(s)
  BY <1>4 DEF Side
<1>6. e \in World
  <2>1. InitialSide("ai") \in OneSide("ai") /\ InitialSide("foe") \in OneSide("foe")
    BY <1>2, <1>3, InitialSideIn
  <2> QED BY <1>2, <1>3, <2>1 DEF World
<1> HIDE DEF ai, foe, e
<1>7. Whole(e) /\ \A q \in Side : ~e[q].lum.moved
  <2>1. Clear \notin {"sleep", "freeze"}
    BY DEF Clear
  <2> QED BY <1>2, <1>5, <2>1, InitialSideIn, InitialUsed DEF Whole
<1>14. Fine(e)
  <2>1. ~e.failed
    BY DEF e
  <2> SUFFICES ASSUME NEW s \in Side  PROVE Sound(e[s]) /\ Fit(e[s].lum)
    BY <2>1 DEF Fine
  <2>2. e[s].lum.effect = "Empty"
    BY <1>2, <1>5, InitialSideIn, InitialUsed
  <2>3. e[s].active \in Mons(s)
    BY <1>6, MonOf
  <2>4. e[s].team[e[s].active].status = Clear
    BY <1>2, <1>5, <2>3, InitialSideIn
  <2>5. Clear \notin Sleeping
    BY DEF Clear, Sleeping
  <2> QED BY <2>2, <2>4, <2>5, FitEmpty DEF Sound
<1>8. a \in World /\ Whole(a) /\ Fine(a) /\ \A q \in Side : ~a[q].lum.moved
  BY <1>3, <1>6, <1>7, <1>14, SentIn
<1> HIDE DEF a
<1>9. x \in World /\ Whole(x) /\ Fine(x) /\ \A q \in Side : ~x[q].lum.moved
  BY <1>3, <1>8, SentIn
<1> HIDE DEF x
<1>10. One({}, w)
  BY <1>1, <1>9 DEF One, Afflicted, Whole
<1>11. \A s \in Side : HP(w, s) # 0
  <2> SUFFICES ASSUME NEW s \in Side
               PROVE  HP(w, s) # 0
    OBVIOUS
  <2>1. w[s].active \in Mons(s)
    BY <1>1, <1>9, MonOf
  <2>2. HP(w, s) = MaxHP
    BY <1>1, <1>9, <2>1 DEF Whole, HP, Mon
  <2> QED BY <2>2, MaxHPAssumption
<1>12. WorldOK(w, phase, toAct)
  BY <1>1, <1>2, <1>9, <1>10, <1>11 DEF WorldOK, Between
<1>13. turn \in 0..Rules.turns
  BY <1>2
<1>15. Tidy(w, phase, toAct, selection)
  BY <1>1, <1>2, <1>9 DEF Tidy
<1> QED BY <1>2, <1>12, <1>13, <1>15 DEF Inv

-----------------------------------------------------------------------------
(* The theorems *)

LEMMA StepInv ==
  ASSUME Inv, [Next]_vars
  PROVE  /\ Inv' /\ Stays(w, w')
         /\ \/ Keeps(w, w')
            \/ \E s \in Side : /\ ExecutesMove(s)
                               /\ \E draw \in Draws(w, s, selection[s]) : Trades(s, draw.effect, w, w')
<1>1. CASE Select
  BY <1>1, SelectInv DEF Uneventful
<1>2. ASSUME NEW s \in Side, ExecutesSwitch(s)
      PROVE  Inv' /\ Stays(w, w') /\ Keeps(w, w')
  BY <1>2, ExecutesSwitchInv DEF Uneventful
<1>3. ASSUME NEW s \in Side, ExecutesMove(s)
      PROVE  /\ Inv' /\ Stays(w, w')
             /\ \E draw \in Draws(w, s, selection[s]) : Trades(s, draw.effect, w, w')
  BY <1>3, ExecutesMoveInv
<1>4. ASSUME NEW s \in Side, DelayedSwitch(s)
      PROVE  Inv' /\ Stays(w, w') /\ Keeps(w, w')
  BY <1>4, DelayedSwitchInv DEF Uneventful
<1>5. CASE ReplacesBeforeEndOfTurn
  BY <1>5, ReplacesBeforeEndOfTurnInv DEF Uneventful
<1>6. CASE EndsTurn
  BY <1>6, EndsTurnInv DEF Uneventful
<1>7. CASE ReplacesFainted
  BY <1>7, ReplacesFaintedInv DEF Uneventful
<1>8. CASE UNCHANGED vars
  <2>1. w' = w /\ phase' = phase /\ toAct' = toAct /\ turn' = turn /\ scenario' = scenario
      /\ selection' = selection
    BY <1>8 DEF vars
  <2>2. WorldOK(w, phase, toAct) /\ Tidy(w, phase, toAct, selection)
    BY DEF Inv
  <2>3. WorldOK(w, phase, toAct)'
    BY <2>1, <2>2, WorldNext
  <2>5. Tidy(w, phase, toAct, selection)'
    BY <2>1, <2>2, TidyNext
  <2>4. Inv'
    BY <2>1, <2>3, <2>5, InvNext DEF Inv
  <2> QED BY <2>1, <2>4, KeepsRefl DEF Stays
<1> QED BY <1>1, <1>2, <1>3, <1>4, <1>5, <1>6, <1>7, <1>8 DEF Next, Finished

\* The inductive invariant holds: of the battle, nothing is ever out of its range but
\* Uproar's turns; who is to act has done nothing yet; and the clauses hold.
THEOREM Invariant == Spec => []Inv
<1>1. Init => Inv
  BY InitInv
<1>2. Inv /\ [Next]_vars => Inv'
  BY StepInv
<1> QED BY <1>1, <1>2, PTL DEF Spec

LEMMA AtMostOne ==
  ASSUME NEW S, IsFiniteSet(S), \A m \in S : \A n \in S : m = n
  PROVE  Cardinality(S) <= 1
<1>1. CASE S = {}
  BY <1>1, FS_EmptySet
<1>2. ASSUME NEW m \in S
      PROVE  Cardinality(S) <= 1
  <2>1. S = {m}
    OBVIOUS
  <2> QED BY <2>1, FS_Singleton
<1> QED BY <1>1, <1>2

\* Sleep Clause and Freeze Clause hold in every battle, of any teams and with any
\* table of moves: move_is_unsuccessful and Yawn ask whether the team already has a
\* Pokemon asleep that is left, at the moment they put one to sleep, so that no order of
\* moves, Yawn, Rest and switches gets past them.
THEOREM SleepClauseHolds == Spec => []SleepClause
<1>1. Inv => SleepClause
  <2> SUFFICES ASSUME Inv, NEW s \in Side, NEW status \in {"sleep", "freeze"}
               PROVE  Cardinality({m \in Members(w, s) : w[s].team[m].hp # 0
                                                          /\ w[s].team[m].status = status}) <= 1
    BY DEF SleepClause
  <2> DEFINE S == {m \in Members(w, s) : w[s].team[m].hp # 0 /\ w[s].team[m].status = status}
  <2>1. w \in World /\ One({}, w) /\ scenario \in DOMAIN Scenarios
    BY DEF Inv, WorldOK
  <2>2. Members(w, s) = Mons(s)
    BY <2>1, SideOf DEF Members, OneSide
  <2>3. IsFiniteSet(Mons(s))
    BY <2>1, ScenariosAssumption DEF Mons, Rules
  <2>4. S \subseteq Mons(s)
    BY <2>2
  <2>5. \A m \in S : \A n \in S : m = n
    BY <2>1, <2>2 DEF One, Afflicted
  <2> HIDE DEF S
  <2>6. IsFiniteSet(S)
    BY <2>3, <2>4, FS_Subset
  <2>7. Cardinality(S) <= 1
    BY <2>5, <2>6, AtMostOne
  <2> QED BY <2>7 DEF S
<1> QED BY <1>1, Invariant, PTL

\* Nobody who has fainted is revived by a step of a battle, whatever the moves, items,
\* abilities and weather do: heal, Rest and Wish ask for HP, Pain Split and the draining
\* moves for a user or a target that is left, and no replacement heals.
THEOREM FaintedStays == Spec => FaintedStaysFainted
<1>1. Inv /\ [Next]_vars =>
        [\A s \in Side : \A m \in Members(w, s) :
           w[s].team[m].hp = 0 => w'[s].team[m].hp = 0]_vars
  <2> SUFFICES ASSUME Inv, [Next]_vars, NEW s \in Side, NEW m \in Members(w, s),
                      w[s].team[m].hp = 0
               PROVE  w'[s].team[m].hp = 0
    OBVIOUS
  <2>1. Members(w, s) = Mons(s)
    BY SideOf DEF Inv, WorldOK, Members, OneSide
  <2>2. Stays(w, w')
    BY StepInv
  <2> QED BY <2>1, <2>2 DEF Stays
<1> QED BY <1>1, Invariant, PTL DEF Spec, FaintedStaysFainted

LEMMA LastUsedOf ==
  ASSUME \A m \in Move : KindOf[m] # "uproar", NEW l \in Used
  PROVE  l \in LastUsed
<1>1. l \in LumRecord /\ l.turns \in Nat /\ l.turns <= MaxTurns(l.effect)
  BY DEF Used, InTurns, LumRecord
<1>2. l.turns \in 0..5
  BY <1>1, MaxTurnsNat
<1> QED BY <1>1, <1>2 DEF LumRecord, LastUsed

LEMMA SideTyped ==
  ASSUME \A m \in Move : KindOf[m] # "uproar", w \in World, NEW s \in Side
  PROVE  /\ TeamsOK(s)
         /\ w[s].lum \in LastUsed
         /\ \A c \in Counter : w[s].count[c] \in Inactive..Duration[c]
         /\ \A t \in Stat : w[s].stages[t] \in -6..6
         /\ w[s].substitute \in 0..(MaxHP \div 4 + 1)
         /\ w[s].state \in 1..MaxToxic
         /\ w[s].stockpile \in 0..3
         /\ \A f \in w[s].flags : Exists(f)
         /\ \A hazard \in DOMAIN NoHazards : w[s].hazards[hazard] \in 0..MaxLayers(hazard)
<1> DEFINE r == w[s]
<1>1. r \in OneSide(s)
  BY SideOf
<1> HIDE DEF r
<1>2. TeamsOK(s)
  <2>1. Members(w, s) = Mons(s) /\ r.active \in Mons(s)
    BY <1>1 DEF Members, OneSide, r
  <2>2. \A m \in Mons(s) : r.team[m] \in OneMon
    BY <1>1 DEF OneSide
  <2>3. \A m \in Mons(s) : /\ r.team[m].hp \in 0..MaxHP /\ r.team[m].status \in Statuses
                           /\ r.team[m].held \in BOOLEAN
    BY <2>2 DEF OneMon
  <2> QED BY <2>1, <2>3 DEF TeamsOK, r
<1>3. r.lum \in LastUsed
  BY <1>1, LastUsedOf DEF OneSide
<1>4. \A c \in Counter : r.count[c] \in Inactive..Duration[c]
  <2>1. r.count \in Counts
    BY <1>1 DEF OneSide
  <2>2. Inactive \in Int
    BY DEF Inactive
  <2> QED BY <2>1, <2>2, DurationNat DEF Counts
<1>5. /\ \A t \in Stat : r.stages[t] \in -6..6
      /\ r.substitute \in 0..(MaxHP \div 4 + 1)
      /\ r.state \in 1..MaxToxic
      /\ r.stockpile \in 0..3
  BY <1>1 DEF OneSide
<1>6. \A f \in r.flags : Exists(f)
  BY <1>1 DEF OneSide, Flag
<1>7. \A hazard \in DOMAIN NoHazards : r.hazards[hazard] \in 0..MaxLayers(hazard)
  <2>1. r.hazards \in Layers /\ DOMAIN NoHazards = HazardName
    BY <1>1 DEF OneSide, NoHazards, HazardName
  <2> QED BY <2>1, MaxLayersNat DEF Layers
<1> QED BY <1>2, <1>3, <1>4, <1>5, <1>6, <1>7 DEF r

\* Type correctness, where no move is Uproar, whose counter nothing ends (see the README):
\* counters are bounded by their durations, stages by six either way, HP by the maximum,
\* the layers of hazards by their number, and no field is used that its generation does
\* not have, however long the battle.
THEOREM TypeCorrect == (\A m \in Move : KindOf[m] # "uproar") => (Spec => []TypeOK)
<1> SUFFICES ASSUME \A m \in Move : KindOf[m] # "uproar"
             PROVE  Spec => []TypeOK
  OBVIOUS
<1>1. Inv => TypeOK
  <2> SUFFICES ASSUME Inv
               PROVE  TypeOK
    OBVIOUS
  <2>1. w \in World /\ w.turns \in -1..8
    BY DEF Inv, WorldOK, World
  <2>2. phase \in {"select", "act", "replace", "over"} /\ toAct \subseteq Side /\ turn \in 0..Rules.turns
    BY DEF Inv
  <2> QED BY <2>1, <2>2, SideTyped DEF TypeOK
<1> QED BY <1>1, Invariant, PTL

-----------------------------------------------------------------------------
(* Who holds an item.  Holders are counted: a step lets some go, or passes the *)
(* item from one to another; only Recycle adds one.                           *)

HeldBy(v, item) ==
  UNION {{<<s, m>> : m \in {n \in Mons(s) : v[s].team[n].held /\ v[s].team[n].item = item}} : s \in Side}

Passes(A, B) ==
  \/ B \subseteq A
  \/ \E p \in A : \E q : B \subseteq (A \ {p}) \cup {q}

LEMMA HeldByIs ==
  ASSUME NEW v, NEW item
  PROVE  /\ \A s \in Side : \A m \in Mons(s) :
              <<s, m>> \in HeldBy(v, item) <=> v[s].team[m].held /\ v[s].team[m].item = item
         /\ \A p \in HeldBy(v, item) : \E s \in Side : \E m \in Mons(s) : p = <<s, m>>
BY DEF HeldBy

LEMMA PassesFewer ==
  ASSUME NEW A, IsFiniteSet(A), NEW B, Passes(A, B)
  PROVE  IsFiniteSet(B) /\ Cardinality(B) <= Cardinality(A)
<1>1. CASE B \subseteq A
  BY <1>1, FS_Subset
<1>2. ASSUME NEW p \in A, NEW q, B \subseteq (A \ {p}) \cup {q}
      PROVE  IsFiniteSet(B) /\ Cardinality(B) <= Cardinality(A)
  <2> DEFINE C == A \ {p}
             D == C \cup {q}
  <2>1. IsFiniteSet(C) /\ Cardinality(C) = Cardinality(A) - 1
    BY FS_RemoveElement
  <2>2. B \subseteq D
    BY <1>2
  <2> HIDE DEF C
  <2>3. IsFiniteSet(D) /\ Cardinality(D) = IF q \in C THEN Cardinality(C) ELSE Cardinality(C) + 1
    BY <2>1, FS_AddElement
  <2> HIDE DEF D
  <2>4. IsFiniteSet(B) /\ Cardinality(B) <= Cardinality(D)
    BY <2>2, <2>3, FS_Subset
  <2>5. Cardinality(A) \in Nat /\ Cardinality(B) \in Nat
    BY <2>4, FS_CardinalityType
  <2> QED BY <2>1, <2>3, <2>4, <2>5
<1> QED BY <1>1, <1>2 DEF Passes

LEMMA KeepsHeld ==
  ASSUME NEW v, NEW x, Keeps(v, x), NEW item, item # NoItem
  PROVE  HeldBy(x, item) \subseteq HeldBy(v, item)
<1> SUFFICES ASSUME NEW p \in HeldBy(x, item)  PROVE p \in HeldBy(v, item)
  OBVIOUS
<1>1. PICK s \in Side : \E m \in Mons(s) : p = <<s, m>>
  BY HeldByIs
<1>2. PICK m \in Mons(s) : p = <<s, m>>
  BY <1>1
<1>3. x[s].team[m].held /\ x[s].team[m].item = item
  BY <1>2, HeldByIs
<1>4. v[s].team[m].held /\ v[s].team[m].item = item
  BY <1>3 DEF Keeps
<1> QED BY <1>2, <1>4, HeldByIs

\* The rest of both teams is left alone.
AllBut(v, x, s) ==
  \A q \in Side : \A m \in Mons(q) : q # s \/ m # v[s].active => x[q].team[m] = v[q].team[m]

Becomes(v, x, s, b) == AllBut(v, x, s) /\ x[s].team[v[s].active] = b

LEMMA PutMonAt ==
  ASSUME NEW v \in World, NEW s \in Side, NEW b, NEW x, x = [v EXCEPT ![s].team[v[s].active] = b]
  PROVE  Becomes(v, x, s, b)
<1> DEFINE t == [v[s].team EXCEPT ![v[s].active] = b]
           r == [v[s] EXCEPT !.team = t]
<1>1. v[s].active \in Mons(s) /\ v[s].team \in [Mons(s) -> OneMon]
  BY SideOf DEF OneSide
<1>2. t[v[s].active] = b /\ \A m \in Mons(s) : m # v[s].active => t[m] = v[s].team[m]
  BY <1>1
<1>3. x = [v EXCEPT ![s] = r]
  BY PutMonThere
<1>4. r.team = t
  BY SideOf DEF OneSide
<1> HIDE DEF r, t
<1>5. x[s] = r /\ \A q \in Side : q # s => x[q] = v[q]
  BY <1>3 DEF World, Side
<1> QED BY <1>2, <1>4, <1>5 DEF AllBut, Becomes

LEMMA RecycleItemGives ==
  ASSUME NEW v \in World, NEW s \in Side, NEW x, x = RecycleItem(v, s)
  PROVE  /\ AllBut(v, x, s)
         /\ x[s].team[v[s].active].held
         /\ x[s].team[v[s].active].item = v[s].team[v[s].active].item
<1> DEFINE b == [Mon(v, s) EXCEPT !.held = TRUE]
<1>1. x = [v EXCEPT ![s].team[v[s].active] = b]
  BY DEF RecycleItem, Mon
<1>2. b.held /\ b.item = Mon(v, s).item
  BY MonOf DEF OneMon
<1> HIDE DEF b
<1>3. Becomes(v, x, s, b)
  BY <1>1, PutMonAt
<1> QED BY <1>2, <1>3 DEF Becomes, Mon

LEMMA SetItemGives ==
  ASSUME NEW v \in World, NEW s \in Side, NEW item \in ItemName, NEW x, x = SetItem(v, s, item)
  PROVE  /\ x \in World
         /\ \A q \in Side : x[q].active = v[q].active
         /\ AllBut(v, x, s)
         /\ x[s].team[v[s].active].held
         /\ x[s].team[v[s].active].item = item
<1> DEFINE P == <<{}, {}, AnyMon, {}, {}>>
           a == v[s].active
           b == [Mon(v, s) EXCEPT !.item = item]
           c == [v EXCEPT ![s].team[v[s].active].item = item]
<1>1. Mon(v, s) \in OneMon /\ a \in Mons(s)
  BY MonOf
<1>2. b \in OneMon /\ b.item = item /\ b.hp = Mon(v, s).hp /\ b.status = Mon(v, s).status
  BY <1>1, WithItem
<1>3. c = [v EXCEPT ![s].team[v[s].active] = b]
  BY DEF Mon
<1>4. SetItem(v, s, item) = [c EXCEPT ![s].team[a].held = TRUE]
  BY DEF SetItem
<1> HIDE DEF b, c
<1>5. Becomes(v, c, s, b)
  BY <1>3, PutMonAt
<1>6. P[3] = AnyMon /\ P[4] = {}
  OBVIOUS
<1>7. \A q \in Side : \A m \in Mons(q) : <<q, m>> \in P[3]
  BY <1>6 DEF AnyMon
<1> HIDE DEF P
<1>8. Tamed(P, s, v[s].active, Mon(v, s), b)
  BY <1>1, <1>2, <1>7, HPInt DEF Tamed
<1>9. Tame(P, v, c)
  BY <1>2, <1>3, <1>8, TamePutMon
<1>10. c \in World /\ c[s].active = a
  BY <1>9 DEF Tame
<1> HIDE DEF a
<1>11. x = RecycleItem(c, s)
  BY <1>4, <1>10 DEF RecycleItem
<1>12. AllBut(c, x, s) /\ x[s].team[a].held /\ x[s].team[a].item = b.item
  BY <1>5, <1>10, <1>11, RecycleItemGives DEF Becomes, a
<1>13. AllBut(v, x, s)
  BY <1>5, <1>10, <1>12 DEF Becomes, AllBut, a
<1>14. Gets(P, v, s)
  BY <1>1, <1>7 DEF Gets, a
<1>15. Tame(P, v, x)
  BY <1>14, TameSetItem
<1>16. x \in World /\ \A q \in Side : x[q].active = v[q].active
  BY <1>15 DEF Tame
<1> QED BY <1>2, <1>12, <1>13, <1>16 DEF a

LEMMA SetFlagTeams ==
  ASSUME NEW v \in World, NEW s \in Side, NEW f
  PROVE  \A q \in Side : SetFlag(v, s, f)[q].team = v[q].team
<1> DEFINE r == [v[s] EXCEPT !.flags = @ \cup {f}]
           x == [v EXCEPT ![s] = r]
<1>1. SetFlag(v, s, f) \in {v, x}
  BY SideOf DEF SetFlag
<1>2. r.team = v[s].team
  BY SideOf DEF OneSide
<1> HIDE DEF r
<1>3. x[s] = r /\ \A q \in Side : q # s => x[q] = v[q]
  BY DEF World, Side
<1> QED BY <1>1, <1>2, <1>3

LEMMA RemoveItemTakes ==
  ASSUME NEW v \in World, NEW s \in Side, Held(v, s) \notin CannotBeLost, NEW x, x = RemoveItem(v, s)
  PROVE  /\ x \in World
         /\ \A q \in Side : x[q].active = v[q].active
         /\ AllBut(v, x, s)
         /\ ~x[s].team[v[s].active].held
<1> DEFINE b == [Mon(v, s) EXCEPT !.held = FALSE]
           y == [v EXCEPT ![s].team[v[s].active].held = FALSE]
           f == "unburdened"
<1>1. x = SetFlag(y, s, f)
  BY DEF RemoveItem
<1> HIDE DEF f
<1>2. Tame(Open, v, x)
  BY TameRemoveItem
<1>3. y = [v EXCEPT ![s].team[v[s].active] = b]
  BY DEF Mon
<1> DEFINE h == FALSE
<1>4. h \in BOOLEAN /\ ~h /\ b = [Mon(v, s) EXCEPT !.held = h]
  OBVIOUS
<1> HIDE DEF b, y, h
<1>5. Mon(v, s) \in OneMon
  BY MonOf
<1>6. b \in OneMon /\ b.hp = Mon(v, s).hp /\ b.status = Mon(v, s).status /\ b.held = h
     /\ b.item = Mon(v, s).item
  BY <1>4, <1>5, WithHeld DEF OneMon
<1>7. Becomes(v, y, s, b)
  BY <1>3, PutMonAt
<1>8. Tamed(Open, s, v[s].active, Mon(v, s), b)
  <2>1. v[s].active \in Mons(s)
    BY MonOf
  <2>2. Open[1] = AnyMon /\ <<s, v[s].active>> \in Open[1] /\ <<s, v[s].active>> \in Open[4]
    BY <2>1 DEF Open, AnyMon
  <2> QED BY <1>4, <1>5, <1>6, <2>2, HPInt DEF Tamed
<1>9. Tame(Open, v, y)
  BY <1>3, <1>6, <1>8, TamePutMon
<1>10. y \in World
  BY <1>9 DEF Tame
<1>11. \A q \in Side : x[q].team = y[q].team
  BY <1>1, <1>10, SetFlagTeams
<1>12. AllBut(v, x, s) /\ ~x[s].team[v[s].active].held
  BY <1>4, <1>6, <1>7, <1>11 DEF Becomes, AllBut
<1> QED BY <1>2, <1>12 DEF Tame

LEMMA HeldIs ==
  ASSUME NEW v \in World, NEW s \in Side, Held(v, s) # NoItem
  PROVE  /\ v[s].active \in Mons(s)
         /\ v[s].team[v[s].active].held
         /\ v[s].team[v[s].active].item = Held(v, s)
         /\ <<s, v[s].active>> \in HeldBy(v, Held(v, s))
<1>1. v[s].active \in Mons(s)
  BY MonOf
<1>2. v[s].team[v[s].active].held /\ v[s].team[v[s].active].item = Held(v, s)
  BY DEF Held, Mon
<1> QED BY <1>1, <1>2, HeldByIs

\* Who holds an item, but for the Pokemon on the field of s, has held it.
LEMMA HeldElsewhere ==
  ASSUME NEW v, NEW x, NEW s \in Side, AllBut(v, x, s), NEW item
  PROVE  \A p \in HeldBy(x, item) : p = <<s, v[s].active>> \/ p \in HeldBy(v, item)
<1> TAKE p \in HeldBy(x, item)
<1>1. PICK q \in Side : \E m \in Mons(q) : p = <<q, m>>
  BY HeldByIs
<1>2. PICK m \in Mons(q) : p = <<q, m>>
  BY <1>1
<1>3. x[q].team[m].held /\ x[q].team[m].item = item
  BY <1>2, HeldByIs
<1>4. CASE q = s /\ m = v[s].active
  BY <1>2, <1>4
<1>5. CASE q # s \/ m # v[s].active
  <2>1. v[q].team[m].held /\ v[q].team[m].item = item
    BY <1>3, <1>5 DEF AllBut
  <2> QED BY <1>2, <2>1, HeldByIs
<1> QED BY <1>4, <1>5

LEMMA RecycleItemAdds ==
  ASSUME NEW v \in World, NEW s \in Side, NEW x, x = RecycleItem(v, s), NEW item
  PROVE  HeldBy(x, item) \subseteq
           HeldBy(v, item) \cup (IF Mon(v, s).item = item THEN {<<s, v[s].active>>} ELSE {})
<1>1. AllBut(v, x, s) /\ x[s].team[v[s].active].item = v[s].team[v[s].active].item
  BY RecycleItemGives
<1>2. v[s].active \in Mons(s)
  BY MonOf
<1>3. \A p \in HeldBy(x, item) : p = <<s, v[s].active>> \/ p \in HeldBy(v, item)
  BY <1>1, HeldElsewhere
<1>4. <<s, v[s].active>> \in HeldBy(x, item) => Mon(v, s).item = item
  BY <1>1, <1>2, HeldByIs DEF Mon
<1> QED BY <1>3, <1>4

LEMMA StealItemPasses ==
  ASSUME NEW v \in World, NEW s \in Side, NEW x, x = StealItem(v, s), NEW item
  PROVE  Passes(HeldBy(v, item), HeldBy(x, item))
<1> DEFINE t == Other(s)
           loot == Held(v, t)
           y == RemoveItem(v, t)
           p == <<t, v[t].active>>
           q == <<s, v[s].active>>
<1>1. CASE Held(v, s) # NoItem \/ loot \in CannotBeLost
  BY <1>1 DEF StealItem, Passes
<1>2. CASE ~(Held(v, s) # NoItem \/ loot \in CannotBeLost)
  <2>1. x = SetItem(y, s, loot)
    BY <1>2 DEF StealItem
  <2>2. t \in Side /\ t # s /\ loot \in ItemName
    BY Sides, HeldIn
  <2>3. loot \notin CannotBeLost /\ loot # NoItem
    BY <1>2 DEF CannotBeLost
  <2>4. p \in HeldBy(v, loot)
    BY <2>2, <2>3, HeldIs
  <2>5. v[t].active \in Mons(t) /\ v[s].active \in Mons(s)
    BY <2>2, MonOf
  <2> HIDE DEF y, t
  <2>6. /\ y \in World
        /\ y[s].active = v[s].active
        /\ AllBut(v, y, t)
        /\ ~y[t].team[v[t].active].held
    BY <2>2, <2>3, RemoveItemTakes DEF y
  <2> HIDE DEF loot
  <2>7. /\ AllBut(y, x, s)
        /\ x[s].team[v[s].active].item = loot
    BY <2>1, <2>2, <2>6, SetItemGives
  <2>8. \A k \in HeldBy(x, item) : k = q \/ k \in HeldBy(y, item)
    BY <2>6, <2>7, HeldElsewhere
  <2>9. \A k \in HeldBy(y, item) : k \in HeldBy(v, item) /\ k # p
    <3> TAKE k \in HeldBy(y, item)
    <3>1. k = p \/ k \in HeldBy(v, item)
      BY <2>2, <2>6, HeldElsewhere
    <3>2. p \notin HeldBy(y, item)
      BY <2>2, <2>5, <2>6, HeldByIs
    <3> QED BY <3>1, <3>2
  <2>10. q \in HeldBy(x, item) => item = loot
    BY <2>5, <2>7, HeldByIs
  <2> HIDE DEF p, q
  <2>11. CASE item = loot
    <3>1. HeldBy(x, item) \subseteq (HeldBy(v, item) \ {p}) \cup {q}
      BY <2>8, <2>9
    <3> QED BY <2>4, <2>11, <3>1 DEF Passes
  <2>12. CASE item # loot
    BY <2>8, <2>9, <2>10, <2>12 DEF Passes
  <2> QED BY <2>11, <2>12
<1> QED BY <1>1, <1>2

LEMMA SwapItemsPasses ==
  ASSUME NEW v \in World, NEW s \in Side, NEW x, x = SwapItems(v, s), NEW item
  PROVE  Passes(HeldBy(v, item), HeldBy(x, item))
<1> DEFINE t == Other(s)
           mine == Held(v, s)
           theirs == Held(v, t)
           y == SetItem(v, s, theirs)
           p == <<t, v[t].active>>
           q == <<s, v[s].active>>
<1>1. CASE {mine, theirs} \cap CannotBeLost # {}
  BY <1>1 DEF SwapItems, Passes
<1>2. CASE {mine, theirs} \cap CannotBeLost = {}
  <2>1. x = SetItem(y, t, mine)
    BY <1>2 DEF SwapItems
  <2>2. t \in Side /\ t # s /\ mine \in ItemName /\ theirs \in ItemName
    BY Sides, HeldIn
  <2>3. mine # NoItem /\ theirs # NoItem
    BY <1>2 DEF CannotBeLost
  <2>4. p \in HeldBy(v, theirs) /\ q \in HeldBy(v, mine)
    BY <2>2, <2>3, HeldIs
  <2>5. v[t].active \in Mons(t) /\ v[s].active \in Mons(s)
    BY <2>2, MonOf
  <2> HIDE DEF t, mine, theirs
  <2>6. /\ y \in World
        /\ y[t].active = v[t].active
        /\ AllBut(v, y, s)
        /\ y[s].team[v[s].active].item = theirs
    BY <2>2, SetItemGives
  <2> HIDE DEF y
  <2>7. /\ AllBut(y, x, t)
        /\ x[t].team[v[t].active].item = mine
    BY <2>1, <2>2, <2>6, SetItemGives
  <2>8. \A k \in HeldBy(x, item) : k = p \/ k \in HeldBy(y, item)
    BY <2>2, <2>6, <2>7, HeldElsewhere
  <2>9. \A k \in HeldBy(y, item) : k = q \/ k \in HeldBy(v, item)
    BY <2>6, HeldElsewhere
  <2>10. p \in HeldBy(x, item) => item = mine
    BY <2>2, <2>5, <2>7, HeldByIs
  <2>11. q \in HeldBy(x, item) => item = theirs
    <3>1. x[s].team[v[s].active].item = theirs
      BY <2>2, <2>5, <2>6, <2>7 DEF AllBut
    <3> QED BY <2>5, <3>1, HeldByIs
  <2> HIDE DEF p, q
  <2>12. \A k \in HeldBy(x, item) : k \in HeldBy(v, item) \/ (k = p /\ item = mine) \/ (k = q /\ item = theirs)
    BY <2>8, <2>9, <2>10, <2>11
  <2>13. CASE mine = theirs \/ item \notin {mine, theirs}
    BY <2>4, <2>12, <2>13 DEF Passes
  <2>14. CASE mine # theirs /\ item = mine
    <3>1. q \notin HeldBy(x, item)
      BY <2>11, <2>14
    <3>2. HeldBy(x, item) \subseteq (HeldBy(v, item) \ {q}) \cup {p}
      BY <2>12, <2>14, <3>1
    <3> QED BY <2>4, <2>14, <3>2 DEF Passes
  <2>15. CASE mine # theirs /\ item = theirs
    <3>1. p \notin HeldBy(x, item)
      BY <2>10, <2>15
    <3>2. HeldBy(x, item) \subseteq (HeldBy(v, item) \ {p}) \cup {q}
      BY <2>12, <2>15, <3>1
    <3> QED BY <2>4, <2>15, <3>2 DEF Passes
  <2> QED BY <2>13, <2>14, <2>15
<1> QED BY <1>1, <1>2

LEMMA TeamFinite ==
  ASSUME Inv, NEW v, NEW item
  PROVE  IsFiniteSet(HeldBy(v, item))
<1> DEFINE a == "ai"  f == "foe"
           S(s) == {n \in Mons(s) : v[s].team[n].held /\ v[s].team[n].item = item}
           A == {<<a, m>> : m \in S(a)}
           F == {<<f, m>> : m \in S(f)}
<1>1. a \in Side /\ f \in Side
  BY Sides
<1>2. ASSUME NEW s \in Side
      PROVE  IsFiniteSet({<<s, m>> : m \in S(s)})
  <2> DEFINE T == S(s)
             pair(m) == <<s, m>>
  <2>1. IsFiniteSet(Mons(s))
    BY ScenariosAssumption DEF Inv, Mons, Rules
  <2>2. T \subseteq Mons(s)
    OBVIOUS
  <2>3. IsFiniteSet(T)
    BY <2>1, <2>2, FS_Subset
  <2> HIDE DEF T
  <2>4. IsFiniteSet({<<s, m>> : m \in T})
    <3> DEFINE U == {<<s, m>> : m \in T}
               g == [m \in T |-> <<s, m>>]
    <3>1. g \in Surjection(T, U)
      BY DEF Surjection
    <3> HIDE DEF U, g
    <3>2. IsFiniteSet(U)
      BY <2>3, <3>1, FS_Surjection
    <3> QED BY <3>2 DEF U
  <2> QED BY <2>4 DEF T
<1>3. HeldBy(v, item) = A \cup F
  BY DEF HeldBy, Side
<1>4. IsFiniteSet(A) /\ IsFiniteSet(F)
  BY <1>1, <1>2
<1> HIDE DEF A, F
<1> QED BY <1>3, <1>4, FS_Union

LEMMA SameScenario ==
  ASSUME [Next]_vars
  PROVE  scenario' = scenario
<1>1. CASE Select
  BY <1>1 DEF Select
<1>2. CASE \E s \in Side : ExecutesSwitch(s) \/ ExecutesMove(s) \/ DelayedSwitch(s)
  BY <1>2 DEF ExecutesSwitch, ExecutesMove, DelayedSwitch, Acts
<1>3. CASE ReplacesBeforeEndOfTurn \/ EndsTurn \/ ReplacesFainted
  BY <1>3 DEF ReplacesBeforeEndOfTurn, EndsTurn, ReplacesFainted, Finish
<1>4. CASE Finished \/ UNCHANGED vars
  BY <1>4 DEF Finished, vars
<1> QED BY <1>1, <1>2, <1>3, <1>4 DEF Next

LEMMA TradesPasses ==
  ASSUME NEW v \in World, NEW u \in Side, NEW f, NEW x, Trades(u, f, v, x), NEW item, item # NoItem
  PROVE  \/ Passes(HeldBy(v, item), HeldBy(x, item))
         \/ /\ f[1] = "recycle"
            /\ Mon(v, u).item = item /\ ~Mon(v, u).held
            /\ HeldBy(x, item) \subseteq HeldBy(v, item) \cup {<<u, v[u].active>>}
<1> DEFINE V == HeldBy(v, item)
           X == HeldBy(x, item)
           p == <<u, v[u].active>>
<1>1. PICK y \in World, a \in World :
        /\ Keeps(v, y) /\ y[u].active = v[u].active
        /\ \/ Keeps(y, a)
           \/ a \in {StealItem(y, u), SwapItems(y, u)}
           \/ f[1] = "recycle" /\ a = RecycleItem(y, u)
        /\ Keeps(a, x)
  BY DEF Trades
<1> DEFINE Y == HeldBy(y, item)
           A == HeldBy(a, item)
<1>2. Y \subseteq V /\ X \subseteq A
  BY <1>1, KeepsHeld
<1>3. ASSUME Passes(Y, A)
      PROVE  Passes(V, X)
  <2> HIDE DEF V, X, Y, A
  <2> QED BY <1>2, <1>3 DEF Passes
<1>4. CASE Keeps(y, a)
  <2>1. A \subseteq Y
    BY <1>4, KeepsHeld
  <2> QED BY <1>3, <2>1 DEF Passes
<1>5. CASE a \in {StealItem(y, u), SwapItems(y, u)}
  <2>1. Passes(Y, A)
    BY <1>5, StealItemPasses, SwapItemsPasses
  <2> QED BY <1>3, <2>1
<1>6. CASE f[1] = "recycle" /\ a = RecycleItem(y, u)
  <2>1. A \subseteq Y \cup (IF Mon(y, u).item = item THEN {p} ELSE {})
    BY <1>1, <1>6, RecycleItemAdds
  <2>2. v[u].active \in Mons(u)
    BY MonOf
  <2>3. Mon(y, u).item = item => Mon(v, u).item = item
    BY <1>1, <2>2 DEF Keeps, Mon
  <2>4. Mon(v, u).item = item /\ Mon(v, u).held => p \in V
    BY <2>2, HeldByIs DEF Mon
  <2> HIDE DEF V, X, Y, A, p
  <2>5. X \subseteq V \cup (IF Mon(v, u).item = item THEN {p} ELSE {})
    BY <1>2, <2>1, <2>3
  <2>6. CASE Mon(v, u).item = item /\ ~Mon(v, u).held
    BY <1>6, <2>5, <2>6 DEF V, X, p
  <2>7. CASE ~(Mon(v, u).item = item /\ ~Mon(v, u).held)
    <3>1. X \subseteq V
      BY <2>4, <2>5, <2>7
    <3>2. Passes(V, X)
      BY <3>1 DEF Passes
    <3> QED BY <3>2 DEF V, X
  <2> QED BY <2>6, <2>7
<1> QED BY <1>1, <1>4, <1>5, <1>6

\* No item gets a further holder, of any teams and with any table of moves: thieves and
\* exchanges (steal_item, swap_items) pass an item on, and whatever else happens in a
\* turn gives nobody one, but for Recycle, which brings back the item of who executes it
\* and lost it, and so adds at most one holder.
THEOREM ItemsStaySingle == Spec => ItemsAreNotCopied
<1>1. Inv /\ [Next]_vars =>
        [\A item \in (UNION {{Rules.item[s][m] : m \in Members(w, s)} : s \in Side}) \ {NoItem} :
           Cardinality(Holders(item)')
             <= Cardinality(Holders(item)) + IF \E s \in Side : Recycles(s, item) THEN 1 ELSE 0]_vars
  <2> SUFFICES ASSUME Inv, [Next]_vars, NEW item, item # NoItem
               PROVE  Cardinality(Holders(item)')
                        <= Cardinality(Holders(item))
                             + IF \E s \in Side : Recycles(s, item) THEN 1 ELSE 0
    OBVIOUS
  <2> DEFINE A == HeldBy(w, item)
             B == HeldBy(w', item)
             recycled == \E s \in Side : Recycles(s, item)
  <2>1. Inv' /\ (\/ Keeps(w, w')
                 \/ \E s \in Side : /\ ExecutesMove(s)
                                    /\ \E draw \in Draws(w, s, selection[s]) :
                                         Trades(s, draw.effect, w, w'))
    BY StepInv
  <2>2. Holders(item) = A
    <3>1. \A s \in Side : Members(w, s) = Mons(s)
      BY SideOf DEF Inv, WorldOK, Members, OneSide
    <3> QED BY <3>1 DEF Holders, HeldBy
  <2>3. Holders(item)' = B
    <3>1. Rules' = Rules
      BY SameScenario DEF Rules
    <3>2. w' \in World
      BY <2>1, <3>1, SameGame DEF Inv, WorldOK
    <3>3. \A s \in Side : Members(w', s) = Mons(s)
      BY <3>2, SideOf DEF Members, OneSide
    <3> QED BY <3>3 DEF Holders, HeldBy, Members
  <2>4. IsFiniteSet(A) /\ Cardinality(A) \in Nat
    BY TeamFinite, FS_CardinalityType
  <2>5. ASSUME Passes(A, B)
        PROVE  Cardinality(B) \in Nat /\ Cardinality(B) <= Cardinality(A)
    <3> HIDE DEF A, B
    <3> QED BY <2>4, <2>5, PassesFewer, FS_CardinalityType
  <2>6. CASE Keeps(w, w')
    <3>1. Passes(A, B)
      BY <2>6, KeepsHeld DEF Passes
    <3> HIDE DEF A, B
    <3> QED BY <2>2, <2>3, <2>4, <2>5, <3>1
  <2>7. ASSUME NEW s \in Side, ExecutesMove(s), NEW draw \in Draws(w, s, selection[s]),
               Trades(s, draw.effect, w, w')
        PROVE  Cardinality(B) <= Cardinality(A) + IF recycled THEN 1 ELSE 0
    <3> DEFINE f == draw.effect
               m == selection[s]
               p == <<s, w[s].active>>
    <3>1. w \in World /\ s \in toAct /\ m \in Move /\ Trades(s, f, w, w')
      BY <2>7 DEF Inv, WorldOK, ExecutesMove, Acts
    <3>2. draw \in Draws(w, s, m) => Drawn(w, s, m, f)
      BY <3>1, DrawsAre
    <3>3. f[1] = "recycle" => MoveData[m].effect[1] = "recycle"
      BY <2>7, <3>2 DEF Drawn
    <3> HIDE DEF f
    <3>4. \/ Passes(A, B)
          \/ /\ f[1] = "recycle"
             /\ Mon(w, s).item = item /\ ~Mon(w, s).held
             /\ B \subseteq A \cup {p}
      BY <3>1, TradesPasses
    <3>5. CASE Passes(A, B)
      <4> HIDE DEF A, B, recycled
      <4> QED BY <2>4, <2>5, <3>5
    <3>6. CASE /\ f[1] = "recycle"
               /\ Mon(w, s).item = item /\ ~Mon(w, s).held
               /\ B \subseteq A \cup {p}
      <4>1. recycled
        BY <3>1, <3>3, <3>6 DEF Recycles
      <4> DEFINE C == A \cup {p}
      <4> HIDE DEF A, B, recycled, p
      <4>2. IsFiniteSet(C) /\ Cardinality(C) = IF p \in A THEN Cardinality(A) ELSE Cardinality(A) + 1
        BY <2>4, FS_AddElement
      <4>3. B \subseteq C
        BY <3>6
      <4> HIDE DEF C
      <4>4. Cardinality(B) <= Cardinality(C) /\ Cardinality(B) \in Nat
        BY <4>2, <4>3, FS_Subset, FS_CardinalityType
      <4> QED BY <2>4, <4>1, <4>2, <4>4
    <3> QED BY <3>4, <3>5, <3>6
  <2> HIDE DEF A, B, recycled
  <2> QED BY <2>1, <2>2, <2>3, <2>6, <2>7 DEF recycled
<1> QED BY <1>1, Invariant, PTL DEF Spec, ItemsAreNotCopied

-----------------------------------------------------------------------------
(* Perish Song over the steps of a battle.  That a turn ends is told by what *)
(* is selected: in a turn each side has selected something.                 *)

Chosen == phase = "act" => selection["ai"] # Nothing

LEMMA SelectChosen ==
  ASSUME Inv, Select
  PROVE  Chosen'
<1> DEFINE a == "ai"
<1>1. a \in Side
  BY DEF Side
<1>2. PICK ai \in LegalSelections(a), foe \in LegalSelections("foe") :
        selection' = [ai |-> ai, foe |-> foe]
  BY DEF Select
<1>3. selection'["ai"] = ai
  BY <1>2
<1> HIDE DEF a
<1>4. /\ w \in World
      /\ scenario \in DOMAIN Scenarios
      /\ w[a].active \in Mons(a)
      /\ w[a].lum.move \in Move \cup {NoMove}
  BY <1>1, MonOf, LumOf DEF Inv, WorldOK, Used, LumRecord
<1>5. MovesOf(a, w[a].active) \subseteq Move /\ Nothing \notin Mons(a)
  <2> DEFINE rules == Scenarios[scenario]
  <2>1. /\ Nothing \notin DOMAIN rules.types[a]
        /\ \A m \in DOMAIN rules.types[a] : rules.moves[a][m] \subseteq Move
    BY <1>1, <1>4, ScenariosAssumption
  <2>2. rules = Rules
    BY DEF Rules
  <2> HIDE DEF rules
  <2> QED BY <1>4, <2>1, <2>2 DEF MovesOf, Mons
<1>6. LegalMoves(w, a) \subseteq Move
  <2>1. LegalMoves(w, a) \subseteq {"struggle"} \cup MovesOf(a, w[a].active) \cup
                                   (IF LockedIn(w[a].lum) # NoMove THEN {LockedIn(w[a].lum)} ELSE {})
    BY DEF LegalMoves
  <2>2. LockedIn(w[a].lum) # NoMove => LockedIn(w[a].lum) \in Move
    BY <1>4 DEF LockedIn
  <2> QED BY <1>5, <2>1, <2>2, StruggleAssumption
<1>7. LegalSwitches(w, a) \subseteq Mons(a)
  BY <1>1, <1>4, BenchIn DEF LegalSwitches
<1>8. ai # Nothing
  BY <1>5, <1>6, <1>7, NothingAssumption DEF LegalSelections
<1> QED BY <1>3, <1>8 DEF Chosen

LEMMA StepChosen ==
  ASSUME Inv, Chosen, [Next]_vars
  PROVE  Chosen'
<1>1. CASE Select
  BY <1>1, SelectChosen
<1>2. ASSUME NEW s \in Side, ExecutesSwitch(s) \/ ExecutesMove(s) \/ DelayedSwitch(s)
      PROVE  Chosen'
  BY <1>2 DEF ExecutesSwitch, ExecutesMove, DelayedSwitch, Acts, Chosen
<1>3. CASE ReplacesBeforeEndOfTurn
  BY <1>3 DEF ReplacesBeforeEndOfTurn, Chosen
<1>4. CASE EndsTurn \/ ReplacesFainted
  <2>1. \E v : Finish(v)
    BY <1>4 DEF EndsTurn, ReplacesFainted
  <2>2. phase' # "act"
    BY <2>1 DEF Finish
  <2> QED BY <2>2 DEF Chosen
<1>5. CASE UNCHANGED vars
  BY <1>5 DEF vars, Chosen
<1> QED BY <1>1, <1>2, <1>3, <1>4, <1>5 DEF Next, Finished

\* Who comes in hears what Baton Pass handed over, and else nothing; who stays hears what
\* it heard, or the song begins.
LEMMA LedCounts ==
  ASSUME SongLed(w, w'), ~TurnEnds, NEW s \in Side
  PROVE  CountsOn(s)
<1>1. IF w'[s].active = w[s].active
      THEN Song(w', s) = Song(w, s) \/ (Song(w, s) = Inactive /\ Song(w', s) = 0)
      ELSE Song(w', s) = IF BatonPassing(w, s) THEN Song(w, s) ELSE Inactive
  BY DEF SongLed
<1> QED BY <1>1 DEF CountsOn, Left, Song

LEMMA BenchSwitchLed ==
  ASSUME NEW v \in World, Ready(v), NEW s \in Side, NEW m \in Bench(v, s), NEW x, x = SwitchPokemon(v, s, m)
  PROVE  SongLed(v, x)
<1>1. m \in Mons(s) /\ m # v[s].active
  BY BenchIn DEF Bench
<1>2. Switched(v, x, s, m)
  BY <1>1, SwitchSong
<1> QED BY <1>1, <1>2, SwitchedLed

\* Nobody has moved when the fainted are replaced, so that nothing is handed over.
LEMMA ReplacedSong ==
  ASSUME NEW v \in World, Ready(v), NEW s \in Side, ~v[s].lum.moved,
         NEW m, m # Nothing => m \in Mons(s) /\ m # v[s].active,
         NEW x, x = IF m = Nothing THEN v ELSE SwitchPokemon(v, s, m)
  PROVE  /\ x[Other(s)].active = v[Other(s)].active /\ Song(x, Other(s)) = Song(v, Other(s))
         /\ IF x[s].active = v[s].active THEN Song(x, s) = Song(v, s) ELSE Song(x, s) = Inactive
         /\ m # Nothing => x[s].active # v[s].active
<1>1. CASE m = Nothing
  BY <1>1
<1>2. CASE m # Nothing
  <2>1. m \in Mons(s) /\ m # v[s].active
    BY <1>2
  <2>2. Switched(v, x, s, m)
    BY <1>2, <2>1, SwitchSong
  <2>3. ~BatonPassing(v, s)
    BY DEF BatonPassing, IsBatonPassing
  <2> QED BY <2>1, <2>2, <2>3 DEF Switched
<1> QED BY <1>1, <1>2

LEMMA ReplacesFaintedLed ==
  ASSUME Inv, ReplacesFainted
  PROVE  SongLed(w, w')
<1> DEFINE a == "ai"  f == "foe"
<1>1. PICK ai \in IF HP(w, a) = 0 THEN Bench(w, a) ELSE {Nothing},
           foe \in IF HP(w, f) = 0 THEN Bench(w, f) ELSE {Nothing} :
        LET replaced(v, s, m) == IF m = Nothing THEN v ELSE SwitchPokemon(v, s, m)
        IN  Finish(replaced(replaced(w, a, ai), f, foe))
  BY DEF ReplacesFainted
<1> DEFINE v == IF ai = Nothing THEN w ELSE SwitchPokemon(w, a, ai)
           x == IF foe = Nothing THEN v ELSE SwitchPokemon(v, f, foe)
<1>2. w' = x
  BY <1>1 DEF Finish
<1>3. w \in World /\ One({}, w) /\ Fine(w) /\ Ready(w) /\ \A q \in Side : ~w[q].lum.moved
  BY FineReady DEF Inv, WorldOK, Tidy, Between, ReplacesFainted
<1>4. a \in Side /\ f \in Side /\ f = Other(a) /\ a = Other(f) /\ \A q \in Side : q = a \/ q = f
  BY DEF Side, Other
<1> HIDE DEF a, f
<1>5. ai # Nothing => ai \in Mons(a) /\ ai # w[a].active /\ HP(w, a) = 0
  BY <1>1, <1>3, <1>4, BenchIn DEF Bench
<1>6. foe # Nothing => foe \in Mons(f) /\ foe # w[f].active
  BY <1>1, <1>3, <1>4, BenchIn DEF Bench
<1>7. /\ v \in World /\ One({}, v) /\ Fine(v) /\ Uneventful(w, v)
      /\ \A q \in Side : ~v[q].lum.moved
      /\ HP(w, f) = 0 => HP(v, f) = 0
  BY <1>3, <1>4, <1>5, ReplacedIs
<1>8. /\ v[f].active = w[f].active /\ Song(v, f) = Song(w, f)
      /\ IF v[a].active = w[a].active THEN Song(v, a) = Song(w, a) ELSE Song(v, a) = Inactive
      /\ ai # Nothing => v[a].active # w[a].active
  BY <1>3, <1>4, <1>5, ReplacedSong
<1>9. foe # Nothing => foe \in Mons(f) /\ foe # v[f].active
  BY <1>6, <1>8
<1> HIDE DEF v
<1>10. /\ x[a].active = v[a].active /\ Song(x, a) = Song(v, a)
       /\ IF x[f].active = v[f].active THEN Song(x, f) = Song(v, f) ELSE Song(x, f) = Inactive
       /\ foe # Nothing => x[f].active # v[f].active
  BY <1>4, <1>7, <1>9, FineReady, ReplacedSong
<1> HIDE DEF x
<1>11. \A q \in Side : ~BatonPassing(w, q)
  BY <1>3 DEF BatonPassing, IsBatonPassing
<1> QED BY <1>2, <1>4, <1>8, <1>10, <1>11 DEF SongLed

\* Every step but the end of the turn leads to what an action leads to.
LEMMA ActsLed ==
  ASSUME Inv, [Next]_vars, ~EndsTurn
  PROVE  SongLed(w, w') /\ ~TurnEnds
<1>0. w \in World /\ One({}, w) /\ Ready(w) /\ toAct \in SUBSET Side
  BY FineReady DEF Inv, WorldOK, Tidy
<1>1. CASE Select \/ UNCHANGED vars
  <2>1. w' = w /\ (phase # "act" \/ selection' = selection)
    BY <1>1 DEF Select, vars
  <2> QED BY <2>1 DEF SongLed, TurnEnds
<1>2. ASSUME NEW s \in Side, ExecutesSwitch(s)
      PROVE  SongLed(w, w') /\ ~TurnEnds
  <2> DEFINE m == selection[s]
             x == SwitchPokemon(w, s, m)
  <2>1. m \in Bench(w, s) /\ w' = x /\ selection' = selection
    BY <1>2 DEF ExecutesSwitch, Acts, Continues
  <2> HIDE DEF m
  <2>2. SongLed(w, x)
    BY <1>0, <2>1, BenchSwitchLed
  <2> QED BY <2>1, <2>2 DEF TurnEnds
<1>3. ASSUME NEW s \in Side, DelayedSwitch(s)
      PROVE  SongLed(w, w') /\ ~TurnEnds
  <2>1. PICK m \in Bench(w, s) : w' = SwitchPokemon(w, s, m)
    BY <1>3 DEF DelayedSwitch, Continues
  <2>2. selection' = selection
    BY <1>3 DEF DelayedSwitch
  <2>3. SongLed(w, w')
    BY <1>0, <2>1, BenchSwitchLed
  <2> QED BY <2>2, <2>3 DEF TurnEnds
<1>4. CASE ReplacesBeforeEndOfTurn
  <2> DEFINE foe == "foe"
  <2>1. PICK m \in Bench(w, foe) : w' = SwitchPokemon(w, foe, m)
    BY <1>4 DEF ReplacesBeforeEndOfTurn, Continues
  <2>2. selection' = selection /\ foe \in Side
    BY <1>4, Sides DEF ReplacesBeforeEndOfTurn
  <2> HIDE DEF foe
  <2>3. SongLed(w, w')
    BY <1>0, <2>1, <2>2, BenchSwitchLed
  <2> QED BY <2>2, <2>3 DEF TurnEnds
<1>5. ASSUME NEW s \in Side, ExecutesMove(s)
      PROVE  SongLed(w, w') /\ ~TurnEnds
  <2> DEFINE m == selection[s]
             threatens == Threatens(Other(s))
  <2>1. PICK draw \in Draws(w, s, m) : w' = CallMove(w, s, m, threatens, draw)
    BY <1>5 DEF ExecutesMove, Continues
  <2>2. m \in Move /\ selection' = selection /\ s \in toAct /\ InAct(w, toAct) /\ phase = "act"
    BY <1>5 DEF Inv, WorldOK, ExecutesMove, Acts
  <2>3. HP(w, s) # 0 /\ Spent(w, Other(s))
    BY <2>2, Sides DEF InAct
  <2>5. Ready(w) /\ Opposed(w, s) /\ Carries(w[s].lum, m)
    BY <2>2, ActReady
  <2> DEFINE x == CallMove(w, s, m, threatens, draw)
  <2> HIDE DEF m, threatens
  <2>4. /\ Leads(Standing(w), w, x)
        /\ Trades(s, draw.effect, w, x)
        /\ SongLed(w, x)
        /\ Holds(s, w, x)
        /\ Rules.generation >= 3 => (IsEnduring(x[s].lum) => IsEnduring(w[s].lum) \/ HP(x, s) # 0)
    BY <1>0, <2>2, <2>3, <2>5, CallMoveLeads
  <2> QED BY <2>1, <2>2, <2>4 DEF TurnEnds
<1>6. CASE ReplacesFainted
  BY <1>6, ReplacesFaintedLed DEF ReplacesFainted, TurnEnds
<1> QED BY <1>1, <1>2, <1>3, <1>4, <1>5, <1>6 DEF Next, Finished

\* The turn ends: the song goes on by one, for who is on the field.
LEMMA EndsTurnCounts ==
  ASSUME Inv, Chosen, EndsTurn, NEW s \in Side
  PROVE  CountsOn(s)
<1>1. PICK first \in Side, ai \in EndOfTurnFlags("ai"), foe \in EndOfTurnFlags("foe") :
        Finish(EndOfTurn(w, first, [ai |-> ai, foe |-> foe]))
  BY DEF EndsTurn
<1> DEFINE flags == [ai |-> ai, foe |-> foe]
           x == EndOfTurn(w, first, flags)
<1>2. w \in World /\ Ready(w)
  BY FineReady DEF Inv, WorldOK, Tidy
<1>3. Fits(w, flags)
  <2>1. ai.ending \in LockInEnds(w["ai"].lum) /\ foe.ending \in LockInEnds(w["foe"].lum)
    BY DEF EndOfTurnFlags
  <2>2. flags["ai"] = ai /\ flags["foe"] = foe
    OBVIOUS
  <2> HIDE DEF flags
  <2> QED BY <2>1, <2>2 DEF Fits, Side
<1> HIDE DEF flags
<1>4. Finish(x)
  BY <1>1 DEF flags
<1>5. SongsGoOn(w, x) /\ Sounds(w, x) /\ \A q \in Side : ~x[q].lum.moved
  BY <1>2, <1>3, EndOfTurnEnds
<1> HIDE DEF x
<1>6. SongAdvances(w, x, s) /\ x[s].active = w[s].active
  BY <1>2, <1>5 DEF SongsGoOn, Sounds, Goes
<1>7. w' = x /\ selection'["ai"] = Nothing
  BY <1>4 DEF Finish, Side
<1>8. TurnEnds
  BY <1>7 DEF TurnEnds, Chosen, EndsTurn
<1> QED BY <1>6, <1>7, <1>8 DEF SongAdvances, CountsOn, Left, Song, Inactive

\* Who has heard Perish Song hears it out, in every battle, whatever moves and items there
\* are: it goes on by one at the end of each turn, Baton Pass hands it over as it is, leaving
\* otherwise ends it, and nothing else stops it, delays it or starts it again, no move,
\* dragging out or replacement; who still hears it at the fourth end of a turn faints.
THEOREM SongIsFinal == Spec => PerishSongIsFinal
<1>1. Init => Chosen
  BY DEF Init, Chosen
<1>2. Inv /\ Chosen /\ [Next]_vars => Chosen'
  BY StepChosen
<1>3. Inv /\ Chosen /\ [Next]_vars => [\A s \in Side : CountsOn(s)]_vars
  <2> SUFFICES ASSUME Inv, Chosen, [Next]_vars, NEW s \in Side
               PROVE  CountsOn(s)
    OBVIOUS
  <2>1. CASE EndsTurn
    BY <2>1, EndsTurnCounts
  <2>2. CASE ~EndsTurn
    BY <2>2, ActsLed, LedCounts
  <2> QED BY <2>1, <2>2
<1> QED BY <1>1, <1>2, <1>3, Invariant, PTL DEF Spec, PerishSongIsFinal

-----------------------------------------------------------------------------
(* Assertions *)

\* No assertion of the rules fails in any battle, of any teams and tables that are Tabled,
\* by any order of moves, switches, replacements and ends of turns: nobody without HP uses
\* a move or is hit by one, what a Pokemon is locked in to is what it selects and uses,
\* whatever was dragged out, woken up or let go of before it acts, and nobody asleep has a
\* count of Toxic where its nightmares are kept.  What is not Tabled is what assertions
\* do fail for: damage for all that are there, later than generation 3, as the run
\* battlefield_spread shows, and Uproar.
THEOREM NothingEverFails == Tabled => (Spec => []NothingFails)
<1>1. Tabled /\ Inv => NothingFails
  BY DEF Inv, Tidy, Fine, NothingFails
<1>2. Tabled => [](Inv => NothingFails)
  <2> SUFFICES ASSUME Tabled  PROVE [](Inv => NothingFails)
    OBVIOUS
  <2>1. Inv => NothingFails
    BY <1>1
  <2> QED BY <2>1, PTL
<1> QED BY <1>2, Invariant, PTL
=============================================================================

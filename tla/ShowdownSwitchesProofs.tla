----------------------- MODULE ShowdownSwitchesProofs -----------------------
(* Theorems about ShowdownSwitches for a roster of any size.  SlotsNameTheTeam *)
(* is not inductive by itself.  The invariant below adds that numbers are    *)
(* never shared, that exactly the fainted Pokemon other than the active one  *)
(* have no position any more, and that the client has been told, or is about *)
(* to learn, that its active Pokemon fainted.                                *)
EXTENDS ShowdownSwitches, TLAPS, SequenceTheorems

\* No number is given to two Pokemon, and no Pokemon has two positions.
NumbersAreDistinct ==
    /\ \A m, n \in 1 .. Size : order[m] = order[n] => m = n
    /\ \A i, j \in 1 .. Len(slots) : slots[i] = slots[j] => i = j

\* A Pokemon has a position if and only if it is active or has not fainted.
LivingHavePositions ==
    /\ \A n \in 1 .. Size :
           n = 1 \/ order[n] \notin fainted => \E i \in 1 .. Len(slots) : slots[i] = n
    /\ \A i \in 1 .. Len(slots) : slots[i] = 1 \/ order[slots[i]] \notin fainted

\* The client knows that its active Pokemon fainted, or will when it uses the
\* action that it is building.
FaintIsKnown == Active \in fainted <=> news \/ (down /\ coming = 0)

\* A position that is coming in is not the active one.
ComingIsBenched == coming # 0 => coming # index

\* Nothing is being built while the client chooses.
ChoosingIsQuiet == phase = "choosing" => coming = 0 /\ ~news /\ wanted = NoPokemon

\* What was sent is the server's number of the Pokemon that was chosen.
NumberIsWanted ==
    wanted # NoPokemon =>
        /\ coming = 0 /\ ~news
        /\ number \in 2 .. Size
        /\ order[number] = wanted
        /\ wanted \notin fainted

Inv ==
    /\ TypeOK
    /\ SlotsNameTheTeam
    /\ NumbersAreDistinct
    /\ LivingHavePositions
    /\ FaintIsKnown
    /\ ComingIsBenched
    /\ ChoosingIsQuiet
    /\ NumberIsWanted
    /\ NothingIsRefused

-----------------------------------------------------------------------------
(* Sequences.                                                                *)

\* A function on 1 .. n is a sequence of length n.
LEMMA FunctionIsSequence ==
    ASSUME NEW S, NEW n \in Nat, NEW f \in [1 .. n -> S]
    PROVE  f \in Seq(S) /\ Len(f) = n
<1>1. f \in Seq(S)
  BY SeqDef
<1>2. Len(f) \in Nat /\ DOMAIN f = 1 .. Len(f)
  BY <1>1, LenProperties
<1>3. 1 .. Len(f) = 1 .. n
  BY <1>2
<1>4. Len(f) = n
  <2>1. CASE n = 0
    BY <1>2, <1>3, <2>1
  <2>2. CASE n > 0
    <3>1. n \in 1 .. Len(f)
      BY <1>3, <2>2
    <3>2. Len(f) \in 1 .. Len(f)
      BY <1>2, <3>1
    <3>3. Len(f) \in 1 .. n
      BY <1>3, <3>2
    <3> QED BY <1>2, <3>1, <3>3
  <2> QED BY <2>1, <2>2
<1> QED BY <1>1, <1>4

\* A sequence is a function on 1 .. Len.
LEMMA SequenceIsFunction ==
    ASSUME NEW S, NEW s \in Seq(S)
    PROVE  /\ Len(s) \in Nat /\ s \in [1 .. Len(s) -> S]
           /\ \A i \in 1 .. Len(s) : s[i] \in S
  BY LenProperties, ElementOfSeq

\* Erasing a position shortens a sequence by one and keeps the rest in order.
LEMMA EraseProperties ==
    ASSUME NEW S, NEW s \in Seq(S), NEW at \in 1 .. Len(s)
    PROVE  /\ Erase(s, at) \in Seq(S)
           /\ Len(Erase(s, at)) = Len(s) - 1
           /\ \A i \in 1 .. (Len(s) - 1) :
                  Erase(s, at)[i] = IF i < at THEN s[i] ELSE s[i + 1]
<1>1. Len(s) \in Nat /\ \A i \in 1 .. Len(s) : s[i] \in S
  BY SequenceIsFunction
<1>2. Len(s) - 1 \in Nat
  BY <1>1
<1>3. \A i \in 1 .. (Len(s) - 1) : (IF i < at THEN s[i] ELSE s[i + 1]) \in S
  BY <1>1
<1>4. Erase(s, at) \in [1 .. (Len(s) - 1) -> S]
  BY <1>3 DEF Erase
<1>5. Erase(s, at) \in Seq(S) /\ Len(Erase(s, at)) = Len(s) - 1
  BY <1>2, <1>4, FunctionIsSequence
<1>6. \A i \in 1 .. (Len(s) - 1) :
          Erase(s, at)[i] = IF i < at THEN s[i] ELSE s[i + 1]
  BY DEF Erase
<1> QED BY <1>5, <1>6

-----------------------------------------------------------------------------
(* A switch, whether it is chosen or forced.                                 *)

\* The exchange of two numbers, before anything is erased.
LEMMA Exchange ==
    ASSUME Inv, coming = 0, NEW n \in 2 .. Size, order[n] \notin fainted,
           NEW to, to = FoundAt(order[n], team), ServerSwitches(n)
    PROVE  /\ to \in 1 .. Len(team) /\ to # index /\ slots[to] = n
           /\ Len(slots) = Len(team) /\ ActivePosition(slots) = index
           /\ order' \in [1 .. Size -> Pokemon]
           /\ SwapToFront(slots, to) \in Seq(1 .. Size)
           /\ Len(SwapToFront(slots, to)) = Len(team)
           /\ \A i \in 1 .. Len(team) :
                  SwapToFront(slots, to)[i] = IF i = to THEN 1 ELSE
                                              IF i = index THEN n ELSE slots[i]
           /\ \A m \in 1 .. Size :
                  order'[m] = IF m = n THEN order[1] ELSE
                              IF m = 1 THEN order[n] ELSE order[m]
<1> DEFINE swapped == SwapToFront(slots, to)
<1>1. /\ Size \in Nat /\ 1 \in 1 .. Size /\ n \in 1 .. Size /\ n # 1
      /\ Len(slots) \in Nat /\ slots \in [1 .. Len(slots) -> 1 .. Size]
      /\ Len(team) \in Nat /\ team \in [1 .. Len(team) -> Pokemon]
      /\ order \in [1 .. Size -> Pokemon]
  BY SequenceIsFunction, RosterAssumption DEF Inv, TypeOK, Size
<1>2. /\ Len(slots) = Len(team) /\ index \in 1 .. Len(team)
      /\ \A i \in 1 .. Len(team) : order[slots[i]] = team[i]
      /\ slots[index] = 1
  BY DEF Inv, TypeOK, SlotsNameTheTeam, Members, Leader, TeamAfter, IndexAfter
<1>3. PICK i \in 1 .. Len(team) : slots[i] = n
  BY <1>1, <1>2 DEF Inv, LivingHavePositions
<1>4. team[i] = order[n]
  BY <1>2, <1>3
<1>5. to \in 1 .. Len(team) /\ team[to] = order[n]
  BY <1>4 DEF FoundAt
<1>6. slots[to] = n
  <2>1. slots[to] \in 1 .. Size /\ order[slots[to]] = order[n]
    BY <1>1, <1>2, <1>5
  <2> QED BY <1>1, <2>1 DEF Inv, NumbersAreDistinct
<1>7. to # index
  BY <1>1, <1>2, <1>6
<1>8. ActivePosition(slots) = index
  <2>1. \A j \in 1 .. Len(slots) : slots[j] = 1 => j = index
    BY <1>2 DEF Inv, NumbersAreDistinct
  <2> QED BY <1>2, <2>1 DEF ActivePosition
<1>9. swapped = [slots EXCEPT ![index] = n, ![to] = 1]
  BY <1>6, <1>8 DEF SwapToFront
<1>10. swapped \in [1 .. Len(team) -> 1 .. Size]
  BY <1>1, <1>2, <1>9
<1>11. \A j \in 1 .. Len(team) :
           swapped[j] = IF j = to THEN 1 ELSE IF j = index THEN n ELSE slots[j]
  BY <1>1, <1>2, <1>7, <1>9
<1>12. swapped \in Seq(1 .. Size) /\ Len(swapped) = Len(team)
  BY <1>1, <1>10, FunctionIsSequence
<1>13. order' \in [1 .. Size -> Pokemon]
  BY <1>1 DEF ServerSwitches
<1>14. \A m \in 1 .. Size :
           order'[m] = IF m = n THEN order[1] ELSE
                       IF m = 1 THEN order[n] ELSE order[m]
  BY <1>1 DEF ServerSwitches
<1> QED BY <1>2, <1>5, <1>6, <1>7, <1>8, <1>11, <1>12, <1>13, <1>14

\* What handle_switch_message leaves: every part of the invariant that speaks
\* of numbers and positions.
LEMMA Switching ==
    ASSUME Inv, coming = 0, ~news, NEW n \in 2 .. Size, order[n] \notin fainted,
           ServerSwitches(n), UNCHANGED <<battle, news, fainted>>,
           coming' = FoundAt(order[n], team), RemembersSwitch(coming', down)
    PROVE  /\ order' \in [1 .. Size -> Pokemon]
           /\ slots' \in Seq(1 .. Size)
           /\ coming' \in 1 .. Len(team) /\ coming' # index
           /\ ~RefusesSwitch(coming', down)
           /\ SlotsNameTheTeam' /\ NumbersAreDistinct'
           /\ LivingHavePositions' /\ FaintIsKnown'
<1> DEFINE to == coming'
           swapped == SwapToFront(slots, to)
<1>1. /\ to \in 1 .. Len(team) /\ to # index /\ slots[to] = n
      /\ Len(slots) = Len(team) /\ ActivePosition(slots) = index
      /\ order' \in [1 .. Size -> Pokemon]
      /\ swapped \in Seq(1 .. Size) /\ Len(swapped) = Len(team)
      /\ \A i \in 1 .. Len(team) :
             swapped[i] = IF i = to THEN 1 ELSE IF i = index THEN n ELSE slots[i]
      /\ \A m \in 1 .. Size :
             order'[m] = IF m = n THEN order[1] ELSE
                         IF m = 1 THEN order[n] ELSE order[m]
  BY Exchange
<1>2. /\ Size \in Nat /\ 1 \in 1 .. Size /\ n \in 1 .. Size /\ n # 1
      /\ Len(team) \in Nat /\ index \in 1 .. Len(team)
      /\ \A i \in 1 .. Len(team) : slots[i] \in 1 .. Size
      /\ down \in BOOLEAN /\ fainted' = fainted /\ news' = news
      /\ team' = team /\ index' = index /\ down' = down
  BY <1>1, SequenceIsFunction, RosterAssumption DEF Inv, TypeOK, Size, battle
<1>3. /\ \A i \in 1 .. Len(team) : order[slots[i]] = team[i]
      /\ slots[index] = 1
  BY <1>1 DEF Inv, SlotsNameTheTeam, Members, Leader, TeamAfter, IndexAfter
<1>4. /\ \A i, j \in 1 .. Len(team) : slots[i] = slots[j] => i = j
      /\ \A m, k \in 1 .. Size : order[m] = order[k] => m = k
  BY <1>1 DEF Inv, NumbersAreDistinct
<1>5. /\ \A m \in 1 .. Size : m = 1 \/ order[m] \notin fainted =>
             \E i \in 1 .. Len(team) : slots[i] = m
      /\ \A i \in 1 .. Len(team) : slots[i] = 1 \/ order[slots[i]] \notin fainted
  BY <1>1 DEF Inv, LivingHavePositions
<1>6. order[1] \in fainted <=> down
  BY <1>2, Zenon DEF Inv, FaintIsKnown, Active
<1>7. \A i \in 1 .. Len(team) : order'[swapped[i]] = team[i]
  <2> SUFFICES ASSUME NEW i \in 1 .. Len(team)
               PROVE  order'[swapped[i]] = team[i]
    OBVIOUS
  <2> HIDE DEF swapped, to
  <2>1. CASE i = to
    BY <1>1, <1>2, <1>3, <2>1
  <2>2. CASE i = index
    BY <1>1, <1>2, <1>3, <2>2
  <2>3. CASE i # to /\ i # index
    <3>1. slots[i] # 1 /\ slots[i] # n
      BY <1>1, <1>2, <1>3, <1>4, <2>3
    <3> QED BY <1>1, <1>2, <1>3, <2>3, <3>1
  <2> QED BY <2>1, <2>2, <2>3
<1>8. \A i, j \in 1 .. Len(team) : swapped[i] = swapped[j] => i = j
  <2> SUFFICES ASSUME NEW i \in 1 .. Len(team), NEW j \in 1 .. Len(team),
                      swapped[i] = swapped[j]
               PROVE  i = j
    OBVIOUS
  <2> HIDE DEF swapped, to
  <2>1. /\ i # to /\ i # index => slots[i] # 1 /\ slots[i] # n
        /\ j # to /\ j # index => slots[j] # 1 /\ slots[j] # n
    BY <1>1, <1>2, <1>3, <1>4
  <2>2. swapped[i] = swapped[j] => slots[i] = slots[j]
    BY <1>1, <1>2, <1>3, <2>1
  <2> QED BY <1>4, <2>2
<1>9. \A m, k \in 1 .. Size : order'[m] = order'[k] => m = k
  <2> SUFFICES ASSUME NEW m \in 1 .. Size, NEW k \in 1 .. Size, order'[m] = order'[k]
               PROVE  m = k
    OBVIOUS
  <2> DEFINE was(l) == IF l = n THEN 1 ELSE IF l = 1 THEN n ELSE l
  <2>1. /\ was(m) \in 1 .. Size /\ order'[m] = order[was(m)]
        /\ was(k) \in 1 .. Size /\ order'[k] = order[was(k)]
    BY <1>1, <1>2
  <2>2. was(m) = was(k)
    BY <1>4, <2>1
  <2> QED BY <1>2, <2>2
<1>10. \A m \in 1 .. Size : \A i \in 1 .. Len(team) :
           slots[i] = m /\ m # 1 /\ m # n => swapped[i] = m /\ i # index
  BY <1>1, <1>2, <1>3
<1>11. ~RefusesSwitch(to, down)
  BY <1>1, <1>2 DEF RefusesSwitch, ReplaceFaintedThrows
<1>12. FaintIsKnown'
  BY <1>1, <1>2 DEF FaintIsKnown, Active
<1> HIDE DEF swapped, to
<1>13. CASE ~down
  <2>1. slots' = swapped
    BY <1>13 DEF RemembersSwitch, SwitchTo, swapped, to
  <2>2. Members' = team /\ Leader' = to
    BY <1>1, <1>2, <1>13 DEF Members, Leader, TeamAfter, IndexAfter, to
  <2>3. SlotsNameTheTeam'
    BY <1>1, <1>2, <1>7, <2>1, <2>2 DEF SlotsNameTheTeam
  <2>4. NumbersAreDistinct'
    BY <1>1, <1>8, <1>9, <2>1 DEF NumbersAreDistinct, Size
  <2>5. \A m \in 1 .. Size :
            m = 1 \/ order'[m] \notin fainted => \E i \in 1 .. Len(team) : swapped[i] = m
    <3> SUFFICES ASSUME NEW m \in 1 .. Size, m = 1 \/ order'[m] \notin fainted
                 PROVE  \E i \in 1 .. Len(team) : swapped[i] = m
      OBVIOUS
    <3>1. CASE m = 1
      BY <1>1, <3>1
    <3>2. CASE m = n
      BY <1>1, <1>2, <3>2
    <3>3. CASE m # 1 /\ m # n
      BY <1>1, <1>2, <1>5, <1>10, <3>3
    <3> QED BY <3>1, <3>2, <3>3
  <2>6. \A i \in 1 .. Len(team) : swapped[i] = 1 \/ order'[swapped[i]] \notin fainted
    BY <1>1, <1>2, <1>3, <1>5, <1>6, <1>7, <1>13
  <2>7. LivingHavePositions'
    BY <1>1, <1>2, <2>1, <2>5, <2>6 DEF LivingHavePositions, Size
  <2> QED BY <1>1, <1>11, <1>12, <2>1, <2>3, <2>4, <2>7 DEF to
<1>14. CASE down
  <2> DEFINE erased == Erase(swapped, index)
             stay == Erase(team, index)
  <2>1. /\ slots' = erased
        /\ Members' = stay
        /\ Leader' = IF to > index THEN to - 1 ELSE to
    BY <1>1, <1>2, <1>14 DEF RemembersSwitch, ReplaceFainted, Members, Leader,
                             TeamAfter, IndexAfter, swapped, to
  <2>2. /\ erased \in Seq(1 .. Size) /\ Len(erased) = Len(team) - 1
        /\ \A i \in 1 .. (Len(team) - 1) :
               erased[i] = IF i < index THEN swapped[i] ELSE swapped[i + 1]
    <3>1. index \in 1 .. Len(swapped)
      BY <1>1, <1>2
    <3>2. /\ erased \in Seq(1 .. Size) /\ Len(erased) = Len(swapped) - 1
          /\ \A i \in 1 .. (Len(swapped) - 1) :
                 erased[i] = IF i < index THEN swapped[i] ELSE swapped[i + 1]
      BY <1>1, <3>1, EraseProperties, Zenon
    <3> QED BY <1>1, <3>2
  <2>3. /\ Len(stay) = Len(team) - 1
        /\ \A i \in 1 .. (Len(team) - 1) :
               stay[i] = IF i < index THEN team[i] ELSE team[i + 1]
    BY <1>2, EraseProperties, Zenon DEF Inv, TypeOK
  <2> HIDE DEF erased, stay
  <2>4. SlotsNameTheTeam'
    <3>1. \A i \in 1 .. (Len(team) - 1) : order'[erased[i]] = stay[i]
      BY <1>2, <1>7, <2>2, <2>3
    <3>2. erased[IF to > index THEN to - 1 ELSE to] = 1
      <4>1. CASE to > index
        <5>1. to - 1 \in 1 .. (Len(team) - 1) /\ ~(to - 1 < index) /\ (to - 1) + 1 = to
          BY <1>1, <1>2, <4>1
        <5>2. erased[to - 1] = swapped[to]
          BY <2>2, <5>1
        <5> QED BY <1>1, <4>1, <5>2
      <4>2. CASE ~(to > index)
        <5>1. to \in 1 .. (Len(team) - 1) /\ to < index
          BY <1>1, <1>2, <4>2
        <5>2. erased[to] = swapped[to]
          BY <2>2, <5>1
        <5> QED BY <1>1, <4>2, <5>2
      <4> QED BY <4>1, <4>2
    <3> QED BY <2>1, <2>2, <2>3, <3>1, <3>2 DEF SlotsNameTheTeam
  <2>5. NumbersAreDistinct'
    <3>1. \A i, j \in 1 .. (Len(team) - 1) : erased[i] = erased[j] => i = j
      BY <1>2, <1>8, <2>2
    <3> QED BY <1>9, <2>1, <2>2, <3>1 DEF NumbersAreDistinct, Size
  <2>6. \A i \in 1 .. Len(team) : i # index =>
            \E j \in 1 .. (Len(team) - 1) : erased[j] = swapped[i]
    <3> SUFFICES ASSUME NEW i \in 1 .. Len(team), i # index
                 PROVE  \E j \in 1 .. (Len(team) - 1) : erased[j] = swapped[i]
      OBVIOUS
    <3>1. CASE i < index
      <4>1. i \in 1 .. (Len(team) - 1) /\ erased[i] = swapped[i]
        BY <1>2, <2>2, <3>1
      <4> QED BY <4>1
    <3>2. CASE i > index
      <4>1. i - 1 \in 1 .. (Len(team) - 1) /\ erased[i - 1] = swapped[i]
        BY <1>2, <2>2, <3>2
      <4> QED BY <4>1
    <3> QED BY <1>2, <3>1, <3>2
  <2>7. \A m \in 1 .. Size :
            m = 1 \/ order'[m] \notin fainted =>
            \E j \in 1 .. (Len(team) - 1) : erased[j] = m
    <3> SUFFICES ASSUME NEW m \in 1 .. Size, m = 1 \/ order'[m] \notin fainted
                 PROVE  \E j \in 1 .. (Len(team) - 1) : erased[j] = m
      OBVIOUS
    <3>1. m # n
      BY <1>1, <1>2, <1>6, <1>14
    <3>2. \E i \in 1 .. Len(team) : i # index /\ swapped[i] = m
      <4>1. CASE m = 1
        BY <1>1, <4>1
      <4>2. CASE m # 1
        BY <1>1, <1>2, <1>5, <1>10, <3>1, <4>2
      <4> QED BY <4>1, <4>2
    <3> QED BY <2>6, <3>2
  <2>8. \A i \in 1 .. Len(team) :
            i # index => swapped[i] = 1 \/ order'[swapped[i]] \notin fainted
    BY <1>1, <1>2, <1>3, <1>4, <1>5, <1>7
  <2>9. \A i \in 1 .. (Len(team) - 1) :
            erased[i] = 1 \/ order'[erased[i]] \notin fainted
    <3> SUFFICES ASSUME NEW i \in 1 .. (Len(team) - 1)
                 PROVE  erased[i] = 1 \/ order'[erased[i]] \notin fainted
      OBVIOUS
    <3> DEFINE j == IF i < index THEN i ELSE i + 1
    <3>1. j \in 1 .. Len(team) /\ j # index
      BY <1>2
    <3>2. erased[i] = swapped[j]
      BY <2>2
    <3> HIDE DEF j
    <3>3. swapped[j] = 1 \/ order'[swapped[j]] \notin fainted
      BY <2>8, <3>1
    <3> QED BY <3>2, <3>3
  <2>10. LivingHavePositions'
    BY <1>2, <2>1, <2>2, <2>7, <2>9 DEF LivingHavePositions, Size
  <2> QED BY <1>1, <1>11, <1>12, <2>1, <2>2, <2>4, <2>5, <2>10 DEF to
<1> QED BY <1>2, <1>13, <1>14

-----------------------------------------------------------------------------
(* Using the action that is being built makes its outcome the team.          *)

LEMMA Using ==
    ASSUME Inv, UsesPreviousAction, coming' = 0, news' = FALSE,
           UNCHANGED <<server, slots>>
    PROVE  /\ team' \in Seq(Pokemon) /\ index' \in 1 .. Len(team')
           /\ down' \in BOOLEAN
           /\ SlotsNameTheTeam' /\ NumbersAreDistinct'
           /\ LivingHavePositions' /\ FaintIsKnown'
<1>1. /\ Len(team) \in Nat /\ team \in Seq(Pokemon) /\ index \in 1 .. Len(team)
      /\ coming \in 0 .. Len(team) /\ down \in BOOLEAN /\ news \in BOOLEAN
  BY SequenceIsFunction DEF Inv, TypeOK
<1>2. /\ team' = Members /\ index' = Leader /\ down' = (news \/ (down /\ coming = 0))
      /\ order' = order /\ fainted' = fainted /\ slots' = slots
  BY DEF UsesPreviousAction, Members, Leader, server
<1>3. Members \in Seq(Pokemon) /\ Leader \in 1 .. Len(Members)
  <2>1. CASE coming # 0 /\ down
    <3>1. Members = Erase(team, index) /\ coming # index
      BY <2>1 DEF Members, TeamAfter, Inv, ComingIsBenched
    <3>2. Members \in Seq(Pokemon) /\ Len(Members) = Len(team) - 1
      BY <1>1, <3>1, EraseProperties, Zenon
    <3> QED BY <1>1, <2>1, <3>1, <3>2 DEF Leader, IndexAfter
  <2>2. CASE ~(coming # 0 /\ down)
    BY <1>1, <2>2 DEF Members, Leader, TeamAfter, IndexAfter
  <2> QED BY <2>1, <2>2
<1>4. Members' = team' /\ Leader' = index'
  BY DEF Members, Leader, TeamAfter, IndexAfter
<1>5. SlotsNameTheTeam'
  BY <1>2, <1>4 DEF Inv, SlotsNameTheTeam
<1>6. NumbersAreDistinct' /\ LivingHavePositions'
  BY <1>2 DEF Inv, NumbersAreDistinct, LivingHavePositions
<1>7. FaintIsKnown'
  <2>1. order[1] \in fainted <=> down'
    BY <1>2, Zenon DEF Inv, FaintIsKnown, Active
  <2>2. order'[1] \in fainted' <=> down'
    BY <1>2, <2>1
  <2>3. down' <=> news' \/ (down' /\ coming' = 0)
    BY <1>1, <1>2
  <2> QED BY <2>2, <2>3 DEF FaintIsKnown, Active
<1> QED BY <1>1, <1>2, <1>3, <1>5, <1>6, <1>7

-----------------------------------------------------------------------------
(* The invariant.                                                            *)

LEMMA InitInv == Init => Inv
<1> SUFFICES ASSUME Init PROVE Inv
  OBVIOUS
<1>1. /\ Size \in Nat /\ Size > 0 /\ Roster \in [1 .. Size -> Pokemon]
      /\ Roster \in Seq(Pokemon)
  BY RosterAssumption, SequenceIsFunction DEF Size
<1>2. /\ order = Roster /\ team = Roster /\ slots = Fresh(Size) /\ fainted = {}
      /\ index = 1 /\ coming = 0 /\ down = FALSE /\ news = FALSE
      /\ wanted = NoPokemon /\ number = 0 /\ failed = FALSE
      /\ phase = "choosing" /\ building = "nothing"
  BY DEF Init
<1>3. Fresh(Size) \in [1 .. Size -> 1 .. Size] /\ \A i \in 1 .. Size : Fresh(Size)[i] = i
  BY DEF Fresh
<1>4. slots \in Seq(1 .. Size) /\ Len(slots) = Size
  BY <1>1, <1>2, <1>3, FunctionIsSequence
<1>5. TypeOK
  <2>1. Len(team) = Size /\ 1 \in 1 .. Size /\ 0 \in 0 .. Size
    BY <1>1, <1>2 DEF Size
  <2> QED BY <1>1, <1>2, <1>4, <2>1 DEF TypeOK, Builders
<1>6. SlotsNameTheTeam
  BY <1>1, <1>2, <1>3, <1>4 DEF SlotsNameTheTeam, Members, Leader, TeamAfter, IndexAfter, Size
<1>7. NumbersAreDistinct
  BY <1>1, <1>2, <1>3, <1>4, RosterAssumption DEF NumbersAreDistinct, Size
<1>8. LivingHavePositions
  BY <1>1, <1>2, <1>3, <1>4 DEF LivingHavePositions
<1>9. FaintIsKnown /\ ComingIsBenched /\ ChoosingIsQuiet /\ NumberIsWanted /\ NothingIsRefused
  BY <1>2 DEF FaintIsKnown, ComingIsBenched, ChoosingIsQuiet, NumberIsWanted, NothingIsRefused
<1> QED BY <1>5, <1>6, <1>7, <1>8, <1>9 DEF Inv

\* The active Pokemon faints: it keeps its position until it is replaced.
LEMMA Fainting ==
    ASSUME Inv, Active \notin fainted, fainted' = fainted \union {Active}, news' = TRUE,
           UNCHANGED <<order, slots, battle, building, coming>>,
           wanted' = NoPokemon, failed' = failed,
           number' \in 0 .. Size, phase' \in {"turn", "upkeep"}
    PROVE  Inv'
<1>1. /\ Size \in Nat /\ 1 \in 1 .. Size /\ order \in [1 .. Size -> Pokemon]
      /\ \A i \in 1 .. Len(slots) : slots[i] \in 1 .. Size
  BY SequenceIsFunction, RosterAssumption DEF Inv, TypeOK, Size
<1>2. TypeOK'
  BY <1>1, RosterAssumption DEF Inv, TypeOK, battle, Active
<1>3. SlotsNameTheTeam'
  BY DEF Inv, SlotsNameTheTeam, Members, Leader, TeamAfter, IndexAfter, battle
<1>4. NumbersAreDistinct'
  BY DEF Inv, NumbersAreDistinct
<1>5. LivingHavePositions'
  <2>1. \A n \in 1 .. Size : n = 1 \/ order[n] \notin fainted' =>
            \E i \in 1 .. Len(slots) : slots[i] = n
    BY DEF Inv, LivingHavePositions
  <2>2. \A i \in 1 .. Len(slots) : slots[i] = 1 \/ order[slots[i]] \notin fainted'
    <3> SUFFICES ASSUME NEW i \in 1 .. Len(slots), slots[i] # 1
                 PROVE  order[slots[i]] \notin fainted'
      OBVIOUS
    <3>1. order[slots[i]] \notin fainted
      BY DEF Inv, LivingHavePositions
    <3>2. order[slots[i]] # order[1]
      BY <1>1 DEF Inv, NumbersAreDistinct
    <3> QED BY <3>1, <3>2 DEF Active
  <2> QED BY <2>1, <2>2 DEF LivingHavePositions, Size
<1>6. FaintIsKnown'
  BY DEF FaintIsKnown, Active
<1>7. /\ ComingIsBenched' /\ ChoosingIsQuiet' /\ NumberIsWanted'
      /\ NothingIsRefused'
  BY DEF Inv, ComingIsBenched, ChoosingIsQuiet, NumberIsWanted, NothingIsRefused, battle
<1> QED BY <1>2, <1>3, <1>4, <1>5, <1>6, <1>7 DEF Inv

LEMMA NextInv == Inv /\ [Next]_vars => Inv'
<1> SUFFICES ASSUME Inv, [Next]_vars PROVE Inv'
  OBVIOUS
<1> USE DEF NothingIsRefused
<1>1. /\ Size \in Nat /\ 1 \in 1 .. Size
      /\ Len(team) \in Nat /\ index \in 1 .. Len(team)
      /\ \A i \in 1 .. Len(team) : team[i] \in Pokemon
      /\ \A i \in 1 .. Len(slots) : slots[i] \in 1 .. Size
  BY SequenceIsFunction, RosterAssumption DEF Inv, TypeOK, Size
<1>2. ASSUME NEW i \in 1 .. Len(team), ChoosesSwitch(i)
      PROVE  Inv'
  <2>1. coming = 0 /\ ~news /\ i # index
    BY <1>2 DEF ChoosesSwitch, Inv, ChoosingIsQuiet
  <2>2. /\ Len(slots) = Len(team) /\ slots[index] = 1
        /\ order[slots[i]] = team[i]
    BY <2>1 DEF Inv, SlotsNameTheTeam, Members, Leader, TeamAfter, IndexAfter
  <2>3. slots[i] # 1
    BY <1>1, <2>1, <2>2 DEF Inv, NumbersAreDistinct
  <2>4. slots[i] \in 2 .. Size /\ team[i] \notin fainted
    BY <1>1, <2>2, <2>3 DEF Inv, LivingHavePositions
  <2>5. TypeOK'
    BY <1>1, <1>2, <2>4 DEF Inv, TypeOK, ChoosesSwitch, SlotOf, server, battle, builder
  <2>6. /\ SlotsNameTheTeam' /\ NumbersAreDistinct' /\ LivingHavePositions'
        /\ FaintIsKnown' /\ ComingIsBenched'
    BY <1>2 DEF Inv, ChoosesSwitch, server, battle, builder, SlotsNameTheTeam, Members, Leader,
                TeamAfter, IndexAfter, NumbersAreDistinct, LivingHavePositions,
                FaintIsKnown, Active, ComingIsBenched
  <2>7. ChoosingIsQuiet' /\ NumberIsWanted' /\ NothingIsRefused'
    BY <1>2, <2>1, <2>2, <2>4 DEF Inv, ChoosesSwitch, SlotOf, server, builder,
                ChoosingIsQuiet, NumberIsWanted
  <2> QED BY <2>5, <2>6, <2>7 DEF Inv
<1>3. CASE ChoosesMove
  <2>1. TypeOK'
    BY <1>3 DEF Inv, TypeOK, ChoosesMove, server, choice, battle, builder
  <2>2. /\ SlotsNameTheTeam' /\ NumbersAreDistinct' /\ LivingHavePositions'
        /\ FaintIsKnown' /\ ComingIsBenched'
    BY <1>3 DEF Inv, ChoosesMove, server, battle, builder, SlotsNameTheTeam, Members, Leader,
                TeamAfter, IndexAfter, NumbersAreDistinct, LivingHavePositions,
                FaintIsKnown, Active, ComingIsBenched
  <2>3. ChoosingIsQuiet' /\ NumberIsWanted' /\ NothingIsRefused'
    BY <1>3 DEF Inv, ChoosesMove, server, choice, builder, ChoosingIsQuiet, NumberIsWanted
  <2> QED BY <2>1, <2>2, <2>3 DEF Inv
<1>4. CASE SwitchMessage
  <2>1. /\ coming = 0 /\ ~news /\ number \in 2 .. Size /\ order[number] \notin fainted
    BY <1>4 DEF SwitchMessage, Inv, NumberIsWanted
  <2>2. UNCHANGED <<battle, news, fainted>>
    <3>1. down' = down /\ news' = news
      <4>1. news = FALSE /\ down \in BOOLEAN
        BY <2>1 DEF Inv, TypeOK
      <4>2. CASE building = "switches"
        BY <1>4, <4>2 DEF SwitchMessage, battle
      <4>3. CASE building # "switches"
        BY <1>4, <2>1, <4>1, <4>3, Zenon DEF SwitchMessage, UsesPreviousAction
      <4> QED BY <4>2, <4>3
    <3>2. team' = team /\ index' = index /\ fainted' = fainted
      BY <1>4, <2>1 DEF SwitchMessage, UsesPreviousAction, TeamAfter, IndexAfter, battle
    <3> QED BY <3>1, <3>2 DEF battle
  <2>3. /\ ServerSwitches(number) /\ coming' = FoundAt(order[number], team)
        /\ RemembersSwitch(coming', down)
        /\ failed' = ((building = "switches" /\ coming # 0) \/ RefusesSwitch(coming', down))
        /\ building' = "switches" /\ wanted' = NoPokemon /\ number' = 0 /\ phase' = phase
        /\ phase = "turn"
    BY <1>4, <2>2 DEF SwitchMessage, battle
  <2>4. /\ order' \in [1 .. Size -> Pokemon]
        /\ slots' \in Seq(1 .. Size)
        /\ coming' \in 1 .. Len(team) /\ coming' # index
        /\ ~RefusesSwitch(coming', down)
        /\ SlotsNameTheTeam' /\ NumbersAreDistinct'
        /\ LivingHavePositions' /\ FaintIsKnown'
    BY <2>1, <2>2, <2>3, Switching
  <2>5. failed' = FALSE
    BY <2>1, <2>3, <2>4
  <2>6. TypeOK'
    BY <1>1, <2>2, <2>3, <2>4, <2>5 DEF Inv, TypeOK, battle, Builders
  <2>7. ComingIsBenched' /\ ChoosingIsQuiet' /\ NumberIsWanted' /\ NothingIsRefused'
    BY <2>2, <2>3, <2>4, <2>5 DEF ComingIsBenched, ChoosingIsQuiet, NumberIsWanted, battle
  <2> QED BY <2>4, <2>6, <2>7 DEF Inv
<1>5. ASSUME UsesPreviousAction, coming' = 0, news' = FALSE, UNCHANGED <<server, slots, choice, failed>>,
             building' \in Builders, phase' \in {"choosing", "turn", "over"},
             phase' = "choosing" => wanted = NoPokemon
      PROVE  Inv'
  <2>1. /\ team' \in Seq(Pokemon) /\ index' \in 1 .. Len(team')
        /\ down' \in BOOLEAN
        /\ SlotsNameTheTeam' /\ NumbersAreDistinct'
        /\ LivingHavePositions' /\ FaintIsKnown'
    BY <1>5, Using
  <2>2. Len(team') \in Nat
    BY <2>1, SequenceIsFunction
  <2>3. TypeOK'
    <3>1. /\ order' = order /\ fainted' = fainted /\ slots' = slots
          /\ wanted' = wanted /\ number' = number /\ failed' = failed
      BY <1>5 DEF server, choice
    <3>2. coming' \in 0 .. Len(team') /\ news' \in BOOLEAN
      <4>1. coming' = 0 /\ news' = FALSE
        BY <1>5
      <4>2. coming' \in 0 .. Len(team')
        BY <2>2, <4>1
      <4>3. news' \in BOOLEAN
        BY <4>1
      <4> QED BY <4>2, <4>3
    <3>3. phase' \in {"choosing", "turn", "upkeep", "over"} /\ building' \in Builders
      BY <1>5
    <3>4. (order \in [1 .. Size -> Pokemon] /\ fainted \subseteq Pokemon)'
      BY <2>1, <3>1, <3>3 DEF Inv, TypeOK, Builders, Size
    <3>5. (wanted \in Pokemon \union {NoPokemon} /\ number \in 0 .. Size)'
      BY <2>1, <3>1, <3>3 DEF Inv, TypeOK, Builders, Size
    <3>6. (slots \in Seq(1 .. Size) /\ team \in Seq(Pokemon) /\ index \in 1 .. Len(team))'
      BY <2>1, <3>1, <3>3 DEF Inv, TypeOK, Builders, Size
    <3>7. (down \in BOOLEAN /\ building \in Builders
           /\ phase \in {"choosing", "turn", "upkeep", "over"} /\ failed \in BOOLEAN)'
      BY <2>1, <3>1, <3>3 DEF Inv, TypeOK, Builders, Size
    <3> QED BY <3>2, <3>4, <3>5, <3>6, <3>7 DEF TypeOK
  <2>4. ComingIsBenched' /\ ChoosingIsQuiet' /\ NumberIsWanted' /\ NothingIsRefused'
    BY <1>5 DEF Inv, ComingIsBenched, ChoosingIsQuiet, NumberIsWanted, server, choice
  <2> QED BY <2>1, <2>3, <2>4 DEF Inv
<1>6. CASE FoeSwitchMessage
  BY <1>5, <1>6 DEF FoeSwitchMessage, server, choice, Builders
<1>7. CASE MoveMessage
  BY <1>5, <1>7 DEF MoveMessage, server, choice, Builders
<1>8. CASE BlockEnds
  BY <1>5, <1>8 DEF BlockEnds, server, choice, Builders
<1>9. ASSUME NEW n \in 2 .. Size, PhazeMessage(n)
      PROVE  Inv'
  <2>1. /\ coming = 0 /\ order[n] \notin fainted /\ ServerSwitches(n)
        /\ UNCHANGED <<battle, news, fainted>>
        /\ coming' = FoundAt(order[n], team) /\ RemembersSwitch(coming', down)
        /\ failed' = RefusesSwitch(coming', down) /\ building' = building
        /\ wanted = NoPokemon /\ wanted' = wanted /\ number' = number
        /\ phase = "turn" /\ phase' = phase
    BY <1>9 DEF PhazeMessage, choice
  <2>2. ~news
    BY <1>9 DEF PhazeMessage, Inv, FaintIsKnown
  <2>3. /\ order' \in [1 .. Size -> Pokemon]
        /\ slots' \in Seq(1 .. Size)
        /\ coming' \in 1 .. Len(team) /\ coming' # index
        /\ ~RefusesSwitch(coming', down)
        /\ SlotsNameTheTeam' /\ NumbersAreDistinct'
        /\ LivingHavePositions' /\ FaintIsKnown'
    BY <2>1, <2>2, Switching
  <2>4. failed' = FALSE
    BY <2>1, <2>3
  <2>5. TypeOK'
    <3>1. /\ team' = team /\ index' = index /\ down' = down /\ news' = news
          /\ fainted' = fainted /\ wanted' = wanted /\ number' = number /\ phase' = phase
          /\ building' = building
      BY <2>1 DEF battle
    <3>2. coming' \in 0 .. Len(team') /\ failed' \in BOOLEAN
      <4>1. coming' \in 1 .. Len(team) /\ Len(team) \in Nat /\ Len(team') = Len(team)
        BY <1>1, <2>3, <3>1
      <4>2. coming' \in 0 .. Len(team')
        BY <4>1
      <4> QED BY <2>4, <4>2
    <3>3. (order \in [1 .. Size -> Pokemon] /\ fainted \subseteq Pokemon)'
      BY <2>3, <3>1, <3>2 DEF Inv, TypeOK, Builders, Size
    <3>4. (wanted \in Pokemon \union {NoPokemon} /\ number \in 0 .. Size)'
      BY <2>3, <3>1, <3>2 DEF Inv, TypeOK, Builders, Size
    <3>5. (slots \in Seq(1 .. Size) /\ team \in Seq(Pokemon) /\ index \in 1 .. Len(team))'
      BY <2>3, <3>1, <3>2 DEF Inv, TypeOK, Builders, Size
    <3>6. (down \in BOOLEAN /\ news \in BOOLEAN /\ building \in Builders
           /\ phase \in {"choosing", "turn", "upkeep", "over"} /\ failed \in BOOLEAN)'
      BY <2>3, <3>1, <3>2 DEF Inv, TypeOK, Builders, Size
    <3> QED BY <3>2, <3>3, <3>4, <3>5, <3>6 DEF TypeOK
  <2>6. ComingIsBenched' /\ ChoosingIsQuiet' /\ NumberIsWanted' /\ NothingIsRefused'
    BY <2>1, <2>3, <2>4 DEF ComingIsBenched, ChoosingIsQuiet, NumberIsWanted, battle
  <2> QED BY <2>3, <2>5, <2>6 DEF Inv
<1>10. CASE ActiveFaints
  BY <1>1, <1>10, Fainting DEF ActiveFaints, battle
<1>11. CASE UpkeepFaints
  BY <1>1, <1>11, Fainting DEF UpkeepFaints, battle, choice, Inv, TypeOK
<1>12. CASE UNCHANGED vars
  <2>1. TypeOK' /\ FaintIsKnown' /\ ComingIsBenched' /\ ChoosingIsQuiet' /\ NumberIsWanted'
        /\ NothingIsRefused'
    BY <1>12 DEF vars, server, choice, battle, builder, Inv, TypeOK, FaintIsKnown, Active,
                 ComingIsBenched, ChoosingIsQuiet, NumberIsWanted
  <2>2. SlotsNameTheTeam' /\ NumbersAreDistinct' /\ LivingHavePositions'
    BY <1>12 DEF vars, server, choice, battle, builder, Inv, SlotsNameTheTeam, Members, Leader,
                 TeamAfter, IndexAfter, NumbersAreDistinct, LivingHavePositions
  <2> QED BY <2>1, <2>2 DEF Inv
<1> QED BY <1>2, <1>3, <1>4, <1>6, <1>7, <1>8, <1>9, <1>10, <1>11, <1>12 DEF Next

-----------------------------------------------------------------------------
(* The theorems.                                                             *)

\* Inv holds in every reachable state.
THEOREM Invariance == Spec => []Inv
  BY InitInv, NextInv, PTL DEF Spec

\* In every battle, for a roster of any size, the slot memory gives each
\* position of the team the server's number of the Pokemon that is there.
THEOREM SlotMemoryAgrees == Spec => []SlotsNameTheTeam
<1>1. Inv => SlotsNameTheTeam
  BY DEF Inv
<1> QED BY <1>1, Invariance, PTL

\* Nothing that the server says makes the handler throw about a switch.
THEOREM SwitchesAreAccepted == Spec => []NothingIsRefused
<1>1. Inv => NothingIsRefused
  BY DEF Inv
<1> QED BY <1>1, Invariance, PTL

\* A choice to switch brings in the Pokemon that was chosen, and it can fight.
THEOREM ChoiceObeyed == Spec => ChoiceIsObeyed
<1>1. Inv /\ [Next]_vars => [wanted # NoPokemon /\ order' # order =>
                                 order'[1] = wanted /\ wanted \notin fainted]_vars
  <2> SUFFICES ASSUME Inv, Next, wanted # NoPokemon, order' # order
               PROVE  order'[1] = wanted /\ wanted \notin fainted
    BY DEF ChoiceIsObeyed
  <2>1. SwitchMessage
    BY DEF Next, ChoosesSwitch, ChoosesMove, FoeSwitchMessage, MoveMessage, PhazeMessage,
           ActiveFaints, UpkeepFaints, BlockEnds, server
  <2>2. number \in 2 .. Size /\ order[number] = wanted /\ wanted \notin fainted
    BY DEF Inv, NumberIsWanted
  <2>3. Size \in Nat /\ order \in [1 .. Size -> Pokemon]
    BY RosterAssumption DEF Size, Inv, TypeOK
  <2>4. order'[1] = order[number]
    BY <2>1, <2>2, <2>3 DEF SwitchMessage, ServerSwitches
  <2> QED BY <2>2, <2>4
<1> QED BY <1>1, Invariance, PTL DEF Spec, ChoiceIsObeyed

\* Every variable keeps its type.
THEOREM TypeCorrectness == Spec => []TypeOK
<1>1. Inv => TypeOK
  BY DEF Inv
<1> QED BY <1>1, Invariance, PTL

\* Whenever the AI chooses, its team is what is left of the roster.
THEOREM LivingTeam == Spec => []ChoosesAmongTheLiving
<1>1. Inv => ChoosesAmongTheLiving
  <2> SUFFICES ASSUME Inv, phase = "choosing"
               PROVE  /\ down <=> Active \in fainted
                      /\ team[index] = Active
                      /\ {team[i] : i \in 1 .. Len(team)} =
                             ({order[n] : n \in 1 .. Size} \ fainted) \union {Active}
    BY DEF ChoosesAmongTheLiving
  <2>1. coming = 0 /\ ~news
    BY DEF Inv, ChoosingIsQuiet
  <2>2. down <=> Active \in fainted
    BY <2>1, Zenon DEF Inv, FaintIsKnown
  <2>3. /\ Len(slots) = Len(team) /\ index \in 1 .. Len(team) /\ slots[index] = 1
        /\ \A i \in 1 .. Len(team) : team[i] = order[slots[i]]
        /\ \A i \in 1 .. Len(team) : slots[i] \in 1 .. Size
    BY <2>1, SequenceIsFunction DEF Inv, TypeOK, SlotsNameTheTeam, Members, Leader,
                                    TeamAfter, IndexAfter
  <2>4. team[index] = Active
    BY <2>3 DEF Active
  <2>5. ASSUME NEW i \in 1 .. Len(team)
        PROVE  team[i] \in ({order[n] : n \in 1 .. Size} \ fainted) \union {Active}
    BY <2>3 DEF Inv, LivingHavePositions, Active
  <2>6. ASSUME NEW n \in 1 .. Size, n = 1 \/ order[n] \notin fainted
        PROVE  \E i \in 1 .. Len(team) : team[i] = order[n]
    BY <2>3, <2>6 DEF Inv, LivingHavePositions
  <2>7. \E i \in 1 .. Len(team) : team[i] = Active
    BY <2>3, <2>4
  <2> QED BY <2>2, <2>4, <2>5, <2>6, <2>7
<1> QED BY <1>1, Invariance, PTL

=============================================================================

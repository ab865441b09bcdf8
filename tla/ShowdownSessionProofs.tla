------------------------ MODULE ShowdownSessionProofs ------------------------
(***************************************************************************)
(* Theorems about ShowdownSession for any number of rooms, users, requests *)
(* and unread messages.  NothingThrows rests on the order in which the     *)
(* messages of a room wait to be read (RoomOrder), ChoicesAreCurrent on    *)
(* the fact that there is one answer at most under way to the request that *)
(* a room waits for (RoomAnswers).  Both are stated for one room and for    *)
(* the values of its variables, so that each kind of step is one lemma.    *)
(* OneGameAtATime counts messages and rooms: it rests on RoomOrder, and on *)
(* the fact that the client has the battle whose end it reads              *)
(* (EndHasBattle), so that it looks for the next one exactly once.         *)
(***************************************************************************)
EXTENDS ShowdownSession, TLAPS, SequenceTheorems, FiniteSetTheorems

-----------------------------------------------------------------------------
(* Sequences. *)

LEMMA AppendFacts ==
    ASSUME NEW S, NEW q \in Seq(S), NEW m \in S
    PROVE  /\ Append(q, m) \in Seq(S)
           /\ Len(q) \in Nat
           /\ Len(Append(q, m)) = Len(q) + 1
           /\ \A i \in 1 .. Len(q) : Append(q, m)[i] = q[i]
           /\ Append(q, m)[Len(q) + 1] = m
  OBVIOUS

LEMMA TailFacts ==
    ASSUME NEW S, NEW q \in Seq(S), q # << >>
    PROVE  /\ Tail(q) \in Seq(S)
           /\ Len(q) \in Nat /\ Len(q) >= 1
           /\ Len(Tail(q)) = Len(q) - 1
           /\ \A i \in 1 .. (Len(q) - 1) : Tail(q)[i] = q[i + 1]
           /\ Head(q) = q[1] /\ Head(q) \in S
  OBVIOUS

\* Everything in a longer sequence was there before, or is the end of it.
LEMMA OldOrLast ==
    ASSUME NEW S, NEW q \in Seq(S), NEW m \in S, NEW i \in 1 .. Len(Append(q, m))
    PROVE  i = Len(Append(q, m)) \/ (i \in 1 .. Len(q) /\ Append(q, m)[i] = q[i])
<1> DEFINE t == Append(q, m)
<1>1. Len(q) \in Nat /\ Len(t) = Len(q) + 1
  BY AppendFacts
<1>2. \A j \in 1 .. Len(q) : t[j] = q[j]
  BY AppendFacts
<1>3. i \in 1 .. Len(t)
  OBVIOUS
<1> HIDE DEF t
<1>4. i = Len(t) \/ (i \in 1 .. Len(q) /\ t[i] = q[i])
  BY <1>1, <1>2, <1>3
<1> QED BY <1>4 DEF t

LEMMA OldOrLastTwo ==
    ASSUME NEW S, NEW q \in Seq(S), NEW m \in S, NEW n \in S,
           NEW i \in 1 .. Len(Append(Append(q, m), n))
    PROVE  \/ i = Len(Append(Append(q, m), n))
           \/ Append(Append(q, m), n)[i] = m
           \/ i \in 1 .. Len(q) /\ Append(Append(q, m), n)[i] = q[i]
<1> DEFINE t == Append(q, m)
           u == Append(t, n)
<1>1. t \in Seq(S) /\ Len(t) = Len(q) + 1 /\ t[Len(q) + 1] = m
  BY AppendFacts
<1>2. \A j \in 1 .. Len(t) : j = Len(t) \/ (j \in 1 .. Len(q) /\ t[j] = q[j])
  BY OldOrLast
<1>3. i \in 1 .. Len(u) => i = Len(u) \/ (i \in 1 .. Len(t) /\ u[i] = t[i])
  BY <1>1, OldOrLast
<1>4. i \in 1 .. Len(u)
  OBVIOUS
<1> HIDE DEF t, u
<1>5. i = Len(u) \/ u[i] = m \/ (i \in 1 .. Len(q) /\ u[i] = q[i])
  BY <1>1, <1>2, <1>3, <1>4
<1> QED BY <1>5 DEF t, u

LEMMA LastOfTwo ==
    ASSUME NEW S, NEW q \in Seq(S), NEW m \in S, NEW n \in S
    PROVE  /\ Len(Append(Append(q, m), n)) \in Nat
           /\ Append(Append(q, m), n)[Len(Append(Append(q, m), n))] = n
<1> DEFINE t == Append(q, m)
           u == Append(t, n)
<1>1. t \in Seq(S)
  BY AppendFacts
<1>2. Len(t) \in Nat /\ Len(u) = Len(t) + 1 /\ u[Len(t) + 1] = n
  BY <1>1, AppendFacts
<1> HIDE DEF t, u
<1>3. Len(u) \in Nat /\ u[Len(u)] = n
  BY <1>2
<1> QED BY <1>3 DEF t, u

LEMMA ConcatOne ==
    ASSUME NEW S, NEW q \in Seq(S), NEW m \in S
    PROVE  q \o <<m>> = Append(q, m)
  OBVIOUS

LEMMA ConcatTwo ==
    ASSUME NEW S, NEW q \in Seq(S), NEW m \in S, NEW n \in S
    PROVE  q \o <<m, n>> = Append(Append(q, m), n)
  OBVIOUS

LEMMA ConcatAgain ==
    ASSUME NEW S, NEW q \in Seq(S), NEW s \in Seq(S), NEW t \in Seq(S)
    PROVE  q \o (s \o t) = (q \o s) \o t
  BY ConcatAssociative

LEMMA One ==
    ASSUME NEW S, NEW m \in S
    PROVE  <<m>> \in Seq(S)
  OBVIOUS

LEMMA Two ==
    ASSUME NEW S, NEW m \in S, NEW n \in S
    PROVE  <<m, n>> \in Seq(S)
  OBVIOUS

LEMMA ConcatNone ==
    ASSUME NEW S, NEW q \in Seq(S)
    PROVE  q \o << >> = q
  OBVIOUS

-----------------------------------------------------------------------------
(* The order of a room's messages.  b is the client's battle there, q the    *)
(* messages that it has not read, p the phase of the room.                   *)

Speaks(m, kind, r) == m.kind = kind /\ m.room = r

OfBattle(m, r) == \E kind \in {"init", "request", "events", "win"} : Speaks(m, kind, r)

\* Of the messages up to n: once they are read, there is a handler, or the
\* battle is over.
Settled(b, q, r, n) ==
    \/ b = "handler"
    \/ \E i \in 1 .. n : Speaks(q[i], "request", r)
    \/ b = "absent" /\ \A i \in 1 .. Len(q) : ~Speaks(q[i], "init", r)

RoomOrder(b, q, p, r) ==
    /\ p = "unused" => b = "absent" /\ \A i \in 1 .. Len(q) : ~OfBattle(q[i], r)
    /\ \A i \in 1 .. Len(q) : Speaks(q[i], "init", r) =>
           b = "absent" /\ \A j \in 1 .. Len(q) : Speaks(q[j], "init", r) => j = i
    /\ \A i \in 1 .. Len(q) : Speaks(q[i], "request", r) =>
           b # "absent" \/ \E j \in 1 .. (i - 1) : Speaks(q[j], "init", r)
    /\ \A i \in 1 .. Len(q) : Speaks(q[i], "events", r) \/ Speaks(q[i], "win", r) =>
           Settled(b, q, r, i - 1)
    /\ \A i \in 1 .. Len(q) : Speaks(q[i], "win", r) =>
           /\ p \notin {"unused", "on"}
           /\ \A j \in (i + 1) .. Len(q) : OfBattle(q[j], r) => Speaks(q[j], "events", r)
    /\ p = "on" => b = "handler" \/ \E i \in 1 .. Len(q) : Speaks(q[i], "request", r)
    /\ p \notin {"unused", "on"} => Settled(b, q, r, Len(q))

\* What is told of something else leaves the room's messages in order.
LEMMA TellsOther ==
    ASSUME NEW S, NEW q \in Seq(S), NEW m \in S, NEW b, NEW p, NEW r,
           RoomOrder(b, q, p, r), ~OfBattle(m, r)
    PROVE  RoomOrder(b, Append(q, m), p, r)
  BY AppendFacts DEF RoomOrder, Settled, OfBattle, Speaks

LEMMA TellsEvents ==
    ASSUME NEW S, NEW q \in Seq(S), NEW m \in S, NEW b, NEW p, NEW r,
           RoomOrder(b, q, p, r), Speaks(m, "events", r), p # "unused"
    PROVE  RoomOrder(b, Append(q, m), p, r)
  BY AppendFacts DEF RoomOrder, Settled, OfBattle, Speaks

LEMMA TellsRequest ==
    ASSUME NEW S, NEW q \in Seq(S), NEW m \in S, NEW b, NEW r,
           RoomOrder(b, q, "on", r), Speaks(m, "request", r)
    PROVE  RoomOrder(b, Append(q, m), "on", r)
  BY AppendFacts DEF RoomOrder, Settled, OfBattle, Speaks

\* The first blocks of a battle.
LEMMA TellsBeginning ==
    ASSUME NEW S, NEW q \in Seq(S), NEW m \in S, NEW n \in S, NEW b, NEW r,
           RoomOrder(b, q, "unused", r), Speaks(m, "init", r), Speaks(n, "request", r)
    PROVE  RoomOrder(b, Append(Append(q, m), n), "on", r)
<1> DEFINE all == Append(Append(q, m), n)
<1>1. b = "absent" /\ \A i \in 1 .. Len(q) : ~OfBattle(q[i], r)
  BY DEF RoomOrder
<1>2. /\ Len(q) \in Nat /\ Len(all) = Len(q) + 2
      /\ \A i \in 1 .. Len(q) : all[i] = q[i]
      /\ all[Len(q) + 1] = m /\ all[Len(q) + 2] = n
  BY AppendFacts
<1>3. \A i \in 1 .. Len(all) : OfBattle(all[i], r) =>
          \/ i = Len(q) + 1 /\ all[i] = m
          \/ i = Len(q) + 2 /\ all[i] = n
  BY <1>1, <1>2
<1> HIDE DEF all
<1>4. QED
  BY <1>1, <1>2, <1>3 DEF RoomOrder, Settled, OfBattle, Speaks

LEMMA TellsWin ==
    ASSUME NEW S, NEW q \in Seq(S), NEW m \in S, NEW b, NEW r,
           RoomOrder(b, q, "on", r), Speaks(m, "win", r)
    PROVE  RoomOrder(b, Append(q, m), "over", r)
<1>1. \A i \in 1 .. Len(q) : ~Speaks(q[i], "win", r)
  BY DEF RoomOrder
<1>2. Settled(b, q, r, Len(q)) /\ (b = "handler" \/ \E i \in 1 .. Len(q) : Speaks(q[i], "request", r))
  BY DEF RoomOrder, Settled
<1>3. ~Speaks(m, "init", r) /\ ~Speaks(m, "request", r) /\ ~Speaks(m, "events", r)
  BY DEF Speaks
<1>4. QED
  BY <1>1, <1>2, <1>3, AppendFacts DEF RoomOrder, Settled, OfBattle

\* Reading what is not of this room, or only events: the battle stays as it is.
LEMMA ReadsOther ==
    ASSUME NEW S, NEW q \in Seq(S), q # << >>, NEW b, NEW p, NEW r,
           RoomOrder(b, q, p, r),
           ~Speaks(Head(q), "init", r), ~Speaks(Head(q), "request", r)
    PROVE  RoomOrder(b, Tail(q), p, r)
<1> DEFINE t == Tail(q)
<1>1. /\ Len(q) \in Nat /\ 1 \in 1 .. Len(q) /\ Len(t) = Len(q) - 1
      /\ \A i \in 1 .. Len(t) : t[i] = q[i + 1] /\ i + 1 \in 1 .. Len(q)
      /\ ~Speaks(q[1], "init", r) /\ ~Speaks(q[1], "request", r)
  BY TailFacts
<1> HIDE DEF t
<1>2. ASSUME NEW n \in 0 .. Len(t), NEW kind \in {"init", "request"},
             NEW j \in 1 .. (n + 1), Speaks(q[j], kind, r)
      PROVE  \E i \in 1 .. n : Speaks(t[i], kind, r)
  <2>1. j - 1 \in 1 .. n /\ j - 1 \in 1 .. Len(t)
    BY <1>1, <1>2
  <2>2. t[j - 1] = q[j]
    BY <1>1, <2>1
  <2> QED BY <1>2, <2>1, <2>2
<1>3. ASSUME NEW n \in 0 .. Len(t), Settled(b, q, r, n + 1)
      PROVE  Settled(b, t, r, n)
  BY <1>1, <1>2, <1>3 DEF Settled
<1>4. p = "unused" => b = "absent" /\ \A i \in 1 .. Len(t) : ~OfBattle(t[i], r)
  BY <1>1 DEF RoomOrder
<1>5. \A i \in 1 .. Len(t) : Speaks(t[i], "init", r) =>
          b = "absent" /\ \A j \in 1 .. Len(t) : Speaks(t[j], "init", r) => j = i
  BY <1>1 DEF RoomOrder
<1>6. \A i \in 1 .. Len(t) : Speaks(t[i], "request", r) =>
          b # "absent" \/ \E j \in 1 .. (i - 1) : Speaks(t[j], "init", r)
  <2>1. SUFFICES ASSUME NEW i \in 1 .. Len(t), Speaks(t[i], "request", r), b = "absent"
                 PROVE  \E j \in 1 .. (i - 1) : Speaks(t[j], "init", r)
    OBVIOUS
  <2>2. PICK j \in 1 .. i : Speaks(q[j], "init", r)
    BY <1>1, <2>1 DEF RoomOrder
  <2>3. i - 1 \in 0 .. Len(t) /\ j \in 1 .. ((i - 1) + 1)
    BY <1>1, <2>2
  <2> QED BY <1>2, <2>2, <2>3
<1>7. \A i \in 1 .. Len(t) : Speaks(t[i], "events", r) \/ Speaks(t[i], "win", r) =>
          Settled(b, t, r, i - 1)
  BY <1>1, <1>3 DEF RoomOrder
<1>8. \A i \in 1 .. Len(t) : Speaks(t[i], "win", r) =>
          /\ p \notin {"unused", "on"}
          /\ \A j \in (i + 1) .. Len(t) : OfBattle(t[j], r) => Speaks(t[j], "events", r)
  BY <1>1 DEF RoomOrder
<1>9. p = "on" => b = "handler" \/ \E i \in 1 .. Len(t) : Speaks(t[i], "request", r)
  BY <1>1, <1>2 DEF RoomOrder
<1>10. p \notin {"unused", "on"} => Settled(b, t, r, Len(t))
  BY <1>1, <1>3 DEF RoomOrder
<1>11. RoomOrder(b, t, p, r)
  BY <1>4, <1>5, <1>6, <1>7, <1>8, <1>9, <1>10 DEF RoomOrder
<1> QED BY <1>11 DEF t

\* The first lines come when there is no battle yet.
LEMMA ReadsInit ==
    ASSUME NEW S, NEW q \in Seq(S), q # << >>, NEW b, NEW p, NEW r,
           RoomOrder(b, q, p, r), Speaks(Head(q), "init", r)
    PROVE  b = "absent" /\ RoomOrder("init", Tail(q), p, r)
<1> DEFINE t == Tail(q)
<1>1. /\ Len(q) \in Nat /\ 1 \in 1 .. Len(q) /\ Len(t) = Len(q) - 1
      /\ \A i \in 1 .. Len(t) : t[i] = q[i + 1] /\ i + 1 \in 1 .. Len(q)
      /\ Speaks(q[1], "init", r)
  BY TailFacts
<1> HIDE DEF t
<1>2. b = "absent" /\ \A i \in 1 .. Len(t) : ~Speaks(t[i], "init", r)
  BY <1>1 DEF RoomOrder
<1>3. p # "unused"
  BY <1>1 DEF RoomOrder, OfBattle
<1>4. ~Speaks(q[1], "request", r) /\ ~Speaks(q[1], "events", r) /\ ~Speaks(q[1], "win", r)
  BY <1>1 DEF Speaks
<1>5. ASSUME NEW n \in 0 .. Len(t), Settled(b, q, r, n + 1)
      PROVE  Settled("init", t, r, n)
  <2>1. PICK i \in 1 .. (n + 1) : Speaks(q[i], "request", r)
    BY <1>1, <1>2, <1>5 DEF Settled
  <2>2. i - 1 \in 1 .. n /\ i - 1 \in 1 .. Len(t)
    BY <1>1, <1>4, <2>1
  <2>3. t[i - 1] = q[i]
    BY <1>1, <2>2
  <2> QED BY <2>1, <2>2, <2>3 DEF Settled
<1>6. \A i \in 1 .. Len(t) : Speaks(t[i], "events", r) \/ Speaks(t[i], "win", r) =>
          Settled("init", t, r, i - 1)
  BY <1>1, <1>5 DEF RoomOrder
<1>7. \A i \in 1 .. Len(t) : Speaks(t[i], "win", r) =>
          /\ p \notin {"unused", "on"}
          /\ \A j \in (i + 1) .. Len(t) : OfBattle(t[j], r) => Speaks(t[j], "events", r)
  BY <1>1 DEF RoomOrder
<1>8. p = "on" => \E i \in 1 .. Len(t) : Speaks(t[i], "request", r)
  <2>1. HAVE p = "on"
  <2>2. PICK i \in 1 .. Len(q) : Speaks(q[i], "request", r)
    BY <1>2, <2>1 DEF RoomOrder
  <2>3. i - 1 \in 1 .. Len(t)
    BY <1>1, <1>4, <2>2
  <2>4. t[i - 1] = q[i]
    BY <1>1, <2>3
  <2> QED BY <2>2, <2>3, <2>4
<1>9. p \notin {"unused", "on"} => Settled("init", t, r, Len(t))
  BY <1>1, <1>5 DEF RoomOrder
<1>10. RoomOrder("init", t, p, r)
  BY <1>2, <1>3, <1>6, <1>7, <1>8, <1>9 DEF RoomOrder
<1> QED BY <1>2, <1>10 DEF t

\* A request comes when there is one.
LEMMA ReadsRequest ==
    ASSUME NEW S, NEW q \in Seq(S), q # << >>, NEW b, NEW p, NEW r,
           RoomOrder(b, q, p, r), Speaks(Head(q), "request", r)
    PROVE  b # "absent" /\ RoomOrder("handler", Tail(q), p, r)
<1> DEFINE t == Tail(q)
<1>1. /\ Len(q) \in Nat /\ 1 \in 1 .. Len(q) /\ Len(t) = Len(q) - 1
      /\ \A i \in 1 .. Len(t) : t[i] = q[i + 1] /\ i + 1 \in 1 .. Len(q)
      /\ Speaks(q[1], "request", r)
  BY TailFacts
<1> HIDE DEF t
<1>2. b # "absent" /\ \A i \in 1 .. Len(t) : ~Speaks(t[i], "init", r)
  BY <1>1 DEF RoomOrder
<1>3. p # "unused"
  BY <1>1 DEF RoomOrder, OfBattle
<1>4. QED
  BY <1>1, <1>2, <1>3 DEF RoomOrder, Settled, OfBattle

\* Events come when there is a handler, or when the battle is over.
LEMMA ReadsEvents ==
    ASSUME NEW S, NEW q \in Seq(S), q # << >>, NEW b, NEW p, NEW r,
           RoomOrder(b, q, p, r),
           Speaks(Head(q), "events", r) \/ Speaks(Head(q), "win", r)
    PROVE  b # "init"
  BY TailFacts DEF RoomOrder, Settled, OfBattle, Speaks

\* When the end is read nothing but events can follow.
LEMMA ReadsWin ==
    ASSUME NEW S, NEW q \in Seq(S), q # << >>, NEW b, NEW p, NEW r,
           RoomOrder(b, q, p, r), Speaks(Head(q), "win", r)
    PROVE  RoomOrder("absent", Tail(q), p, r)
  BY TailFacts DEF RoomOrder, Settled, OfBattle, Speaks
-----------------------------------------------------------------------------
(* Types. *)

\* What a handler finds in the message that it reads.
LEMMA MessageFields ==
    ASSUME NEW m \in MessageToClient
    PROVE  /\ m.kind \in {"init", "events", "win", "request", "error"} => m.room \in Rooms
           /\ m.kind = "request" => m.id \in 1 .. MaxRequests /\ m.wait \in BOOLEAN
           /\ m.kind = "pm" => m.from \in Users \cup {Me}
  BY DEF MessageToClient, RoomMessage

LEMMA SaidFields ==
    ASSUME NEW m \in MessageToServer
    PROVE  /\ m.kind \in {"timer", "choose", "choose default"} => m.room \in Rooms
           /\ m.kind = "choose" => m.id \in 1 .. MaxRequests
           /\ m.kind \in {"accept", "reject"} => m.user \in Users
  BY DEF MessageToServer

\* What the server says, and what the client says.
LEMMA ServerMessages ==
    ASSUME NEW r \in Rooms, NEW u \in Users \cup {Me}, NEW id \in 1 .. MaxRequests,
           NEW yes \in BOOLEAN
    PROVE  /\ PM(u, yes) \in MessageToClient
           /\ BattleInit(r) \in MessageToClient
           /\ Request(r, id, yes) \in MessageToClient
           /\ Events(r) \in MessageToClient
           /\ Win(r) \in MessageToClient
           /\ Error(r, yes) \in MessageToClient
  BY DEF MessageToClient, RoomMessage, PM, BattleInit, Request, Events, Win, Error

LEMMA PlainMessages == Junk \in MessageToClient /\ Challstr \in MessageToClient
  BY DEF MessageToClient, Junk, Challstr

LEMMA ClientMessages ==
    ASSUME NEW r \in Rooms, NEW u \in Users, NEW id \in 1 .. MaxRequests
    PROVE  /\ Search \in MessageToServer /\ Challenge \in MessageToServer
           /\ Accepts(u) \in MessageToServer /\ Rejects(u) \in MessageToServer
           /\ Leave(r) \in MessageToServer /\ TimerOn(r) \in MessageToServer
           /\ Choose(r, id) \in MessageToServer /\ ChooseDefault(r) \in MessageToServer
  BY DEF MessageToServer, Search, Challenge, Accepts, Rejects, Leave, TimerOn, Choose,
         ChooseDefault

LEMMA SearchMessages == Search \in MessageToServer /\ Challenge \in MessageToServer
  BY DEF MessageToServer, Search, Challenge

LEMMA SendChallengeType ==
    ASSUME style \in {"Ladder", "Challenge", "Accept"}
    PROVE  SendChallenge \in Seq(MessageToServer)
  BY SearchMessages DEF SendChallenge

LEMMA ConcatType ==
    ASSUME NEW S, NEW q \in Seq(S), NEW s \in Seq(S)
    PROVE  q \o s \in Seq(S)
  OBVIOUS

LEMMA ReadingKeepsTypes ==
    ASSUME TypeOK, Reading
    PROVE  TypeOK'
<1> USE DEF TypeOK, Reading, server, rooms
<1>1. ASSUME NEW kind, Reads(kind)
      PROVE  /\ toClient' \in Seq(MessageToClient)
             /\ message \in MessageToClient /\ message.kind = kind
  BY <1>1, TailFacts DEF Reads, message
<1>2. ASSUME NEW s \in Seq(MessageToServer), Sends(s)
      PROVE  toServer' \in Seq(MessageToServer)
  BY <1>2, ConcatType DEF Sends
<1>3. ASSUME NEW m \in MessageToServer
      PROVE  <<m>> \in Seq(MessageToServer)
  BY <1>3
<1>4. CASE LogsIn
  BY <1>1, <1>2, <1>4, SendChallengeType DEF LogsIn, client
<1>5. CASE HandlePM
  <2>1. toClient' \in Seq(MessageToClient) /\ message \in MessageToClient /\ message.kind = "pm"
    BY <1>1, <1>5 DEF HandlePM
  <2>2. message.from # Me => <<Accepts(message.from)>> \in Seq(MessageToServer)
                             /\ <<Rejects(message.from)>> \in Seq(MessageToServer)
    <3>1. HAVE message.from # Me
    <3>2. message.from \in Users
      BY <2>1, <3>1, MessageFields
    <3>3. Accepts(message.from) \in MessageToServer /\ Rejects(message.from) \in MessageToServer
      BY <3>2 DEF Accepts, Rejects, MessageToServer
    <3> QED BY <1>3, <3>3
  <2>3. toServer' \in Seq(MessageToServer)
    BY <1>2, <1>5, <2>2, ConcatNone DEF HandlePM, Sends
  <2> QED BY <1>5, <2>1, <2>3 DEF HandlePM, client
<1>6. CASE IgnoresJunk
  BY <1>1, <1>6 DEF IgnoresJunk, client
<1>7. CASE CreateBattle
  <2>1. toClient' \in Seq(MessageToClient) /\ message.room \in Rooms
    BY <1>1, <1>7, MessageFields DEF CreateBattle
  <2> QED BY <1>7, <2>1 DEF CreateBattle, Throws
<1>8. CASE HandleEvents
  BY <1>1, <1>8 DEF HandleEvents, Throws, client
<1>9. CASE HandleFinish
  <2>1. toClient' \in Seq(MessageToClient) /\ message.room \in Rooms
    BY <1>1, <1>9, MessageFields DEF HandleFinish
  <2>2. <<Leave(message.room)>> \o SendChallenge \in Seq(MessageToServer)
    <3>1. Leave(message.room) \in MessageToServer
      BY <2>1 DEF Leave, MessageToServer
    <3> QED BY <1>3, <3>1, SendChallengeType, ConcatType
  <2>3. CASE battles[message.room] = "init"
    BY <1>9, <2>1, <2>3 DEF HandleFinish, Throws
  <2>4. CASE battles[message.room] = "absent"
    BY <1>9, <2>1, <2>4 DEF HandleFinish, client
  <2>5. CASE battles[message.room] \notin {"init", "absent"}
    BY <1>2, <1>9, <2>1, <2>2, <2>5 DEF HandleFinish
  <2> QED BY <2>3, <2>4, <2>5
<1>10. CASE HandleRequest
  <2>1. /\ toClient' \in Seq(MessageToClient) /\ message.room \in Rooms
        /\ message.id \in 1 .. MaxRequests /\ message.wait \in BOOLEAN
    BY <1>1, <1>10, MessageFields DEF HandleRequest
  <2>2. <<Choose(message.room, message.id)>> \in Seq(MessageToServer)
        /\ <<TimerOn(message.room)>> \in Seq(MessageToServer)
    <3>1. Choose(message.room, message.id) \in MessageToServer
          /\ TimerOn(message.room) \in MessageToServer
      BY <2>1 DEF Choose, TimerOn, MessageToServer
    <3> QED BY <1>3, <3>1
  <2>3. SendSelection \in Seq(MessageToServer)
    BY <2>1, <2>2 DEF SendSelection
  <2> DEFINE timerOn == IF shouldStartTimer THEN <<TimerOn(message.room)>> ELSE << >>
  <2>6. SendSelection \o timerOn \in Seq(MessageToServer)
    BY <2>2, <2>3, ConcatType
  <2>4. CASE battles[message.room] = "absent"
    BY <1>10, <2>1, <2>4 DEF HandleRequest, Throws
  <2>5. CASE battles[message.room] # "absent"
    BY <1>2, <1>10, <2>1, <2>5, <2>6 DEF HandleRequest
  <2> QED BY <2>4, <2>5
<1>11. CASE HandleErrorMessage
  <2>1. toClient' \in Seq(MessageToClient) /\ message.room \in Rooms
    BY <1>1, <1>11, MessageFields DEF HandleErrorMessage
  <2>2. ChooseDefault(message.room) \in MessageToServer
    BY <2>1 DEF ChooseDefault, MessageToServer
  <2>3. toServer' \in Seq(MessageToServer)
    BY <1>2, <1>3, <1>11, <2>2, ConcatNone DEF HandleErrorMessage, Sends
  <2> QED BY <1>11, <2>1, <2>3 DEF HandleErrorMessage, client
<1> QED BY <1>4, <1>5, <1>6, <1>7, <1>8, <1>9, <1>10, <1>11 DEF HandleMessages

LEMMA TellingKeepsTypes ==
    ASSUME toClient \in Seq(MessageToClient), NEW s \in Seq(MessageToClient), Tells(s)
    PROVE  toClient' \in Seq(MessageToClient)
  BY ConcatType DEF Tells

LEMMA HearingKeepsTypes ==
    ASSUME toServer \in Seq(MessageToServer), NEW kind, Hears(kind)
    PROVE  /\ toServer' \in Seq(MessageToServer)
           /\ said \in MessageToServer /\ said.kind = kind
  BY TailFacts DEF Hears, said

LEMMA BeginningKeepsTypes ==
    ASSUME TypeOK, NEW r \in Rooms, Begins(r)
    PROVE  /\ phase' \in [Rooms -> {"unused", "on", "over", "quiet"}]
           /\ request' \in [Rooms -> 0 .. MaxRequests]
           /\ timer' \in [Rooms -> BOOLEAN]
           /\ FirstBlocks(r) \in Seq(MessageToClient)
<1>1. 1 \in 1 .. MaxRequests
  BY BoundsAssumption
<1>2. BattleInit(r) \in MessageToClient /\ Request(r, 1, FALSE) \in MessageToClient
  BY <1>1, ServerMessages
<1>3. FirstBlocks(r) \in Seq(MessageToClient)
  BY <1>2, Two DEF FirstBlocks
<1>4. phase' \in [Rooms -> {"unused", "on", "over", "quiet"}]
  BY DEF Begins, TypeOK
<1>5. request' \in [Rooms -> 0 .. MaxRequests]
  BY <1>1 DEF Begins, TypeOK
<1>6. timer' \in [Rooms -> BOOLEAN]
  BY DEF Begins, TypeOK
<1> QED BY <1>3, <1>4, <1>5, <1>6

\* A battle that is on has had a request.
HasRequest == \A r \in Rooms : phase[r] = "on" => request[r] # 0

LEMMA HearingClientKeepsTypes ==
    ASSUME TypeOK, HasRequest, HearsClient
    PROVE  TypeOK'
<1> USE DEF TypeOK, client, server, rooms
<1>1. CASE HearsLeave
  BY <1>1, HearingKeepsTypes DEF HearsLeave
<1>2. CASE HearsSearch
  BY <1>2, HearingKeepsTypes DEF HearsSearch
<1>3. CASE HearsChallenge
  <2>1. <<PM(Me, TRUE)>> \in Seq(MessageToClient)
    <3>1. PM(Me, TRUE) \in MessageToClient
      BY DEF PM, MessageToClient
    <3> QED BY <3>1, One
  <2>2. toClient' \in Seq(MessageToClient)
    BY <1>3, <2>1, TellingKeepsTypes DEF HearsChallenge
  <2>3. toServer' \in Seq(MessageToServer)
    BY <1>3, HearingKeepsTypes DEF HearsChallenge
  <2> QED BY <1>3, <2>2, <2>3 DEF HearsChallenge
<1>4. CASE HearsAccept
  <2>1. toServer' \in Seq(MessageToServer) /\ said.user \in Users
    BY <1>4, HearingKeepsTypes, SaidFields DEF HearsAccept
  <2>2. CASE ~(said.user \in challengers /\ RoomLeft)
    BY <1>4, <2>1, <2>2 DEF HearsAccept
  <2>3. CASE said.user \in challengers /\ RoomLeft
    <3>1. PICK r \in Rooms : /\ Begins(r)
                             /\ challengers' = challengers \ {said.user}
                             /\ Tells(<<PM(said.user, FALSE)>> \o FirstBlocks(r))
                             /\ UNCHANGED <<client, seeking, declined>>
      BY <1>4, <2>3 DEF HearsAccept
    <3>2. <<PM(said.user, FALSE)>> \in Seq(MessageToClient)
      <4>1. PM(said.user, FALSE) \in MessageToClient
        BY <2>1 DEF PM, MessageToClient
      <4> QED BY <4>1, One
    <3>3. toClient' \in Seq(MessageToClient)
      BY <3>1, <3>2, ConcatType, BeginningKeepsTypes, TellingKeepsTypes
    <3>4. /\ phase' \in [Rooms -> {"unused", "on", "over", "quiet"}]
          /\ request' \in [Rooms -> 0 .. MaxRequests]
          /\ timer' \in [Rooms -> BOOLEAN]
      BY <3>1, BeginningKeepsTypes
    <3>5. UNCHANGED <<client, seeking, declined, waits, answered, hidden, late, stale>>
      BY <3>1 DEF Begins
    <3>6. challengers' \subseteq Users
      BY <3>1
    <3> QED BY <2>1, <3>3, <3>4, <3>5, <3>6
  <2> QED BY <2>2, <2>3
<1>5. CASE HearsReject
  BY <1>5, HearingKeepsTypes DEF HearsReject
<1>6. CASE HearsTimer
  BY <1>6, HearingKeepsTypes DEF HearsTimer
<1>7. CASE TakesChoice
  BY <1>7, HearingKeepsTypes DEF TakesChoice
<1>8. CASE TakesDefault
  BY <1>8, HearingKeepsTypes DEF TakesDefault
<1>9. CASE RefusesChoice
  <2>1. toServer' \in Seq(MessageToServer) /\ said.room \in Rooms
    BY <1>9, HearingKeepsTypes, SaidFields DEF RefusesChoice
  <2>2. <<Error(said.room, FALSE)>> \in Seq(MessageToClient)
    <3>1. Error(said.room, FALSE) \in MessageToClient
      BY <2>1 DEF Error, MessageToClient, RoomMessage
    <3> QED BY <3>1, One
  <2> QED BY <1>9, <2>1, <2>2, TellingKeepsTypes DEF RefusesChoice
<1>10. CASE RefusesForHiddenReason
  <2>1. /\ toServer' \in Seq(MessageToServer) /\ said.room \in Rooms
        /\ said.kind = "choose"
    BY <1>10, HearingKeepsTypes, SaidFields DEF RefusesForHiddenReason
  <2>2. hidden' \in 0 .. MaxHidden
    BY <1>10, BoundsAssumption DEF RefusesForHiddenReason
  <2>3. request[said.room] \in 1 .. MaxRequests
    BY <1>10, <2>1, BoundsAssumption DEF RefusesForHiddenReason, Asked, HasRequest
  <2>4. /\ Error(said.room, FALSE) \in MessageToClient
        /\ Request(said.room, request[said.room], FALSE) \in MessageToClient
    BY <2>1, <2>3 DEF Error, Request, MessageToClient, RoomMessage
  <2>5. toClient' \in Seq(MessageToClient)
    BY <1>10, <2>4, Two, TellingKeepsTypes DEF RefusesForHiddenReason
  <2> QED BY <1>10, <2>1, <2>2, <2>5 DEF RefusesForHiddenReason
<1>11. CASE NothingToChoose
  <2>1. toServer' \in Seq(MessageToServer) /\ said.room \in Rooms
    BY <1>11, HearingKeepsTypes, SaidFields DEF NothingToChoose
  <2>2. <<Error(said.room, TRUE)>> \in Seq(MessageToClient)
    <3>1. Error(said.room, TRUE) \in MessageToClient
      BY <2>1 DEF Error, MessageToClient, RoomMessage
    <3> QED BY <3>1, One
  <2> QED BY <1>11, <2>1, <2>2, TellingKeepsTypes DEF NothingToChoose
<1> QED BY <1>1, <1>2, <1>3, <1>4, <1>5, <1>6, <1>7, <1>8, <1>9, <1>10, <1>11 DEF HearsClient

LEMMA ActingKeepsTypes ==
    ASSUME TypeOK, ServerActs
    PROVE  TypeOK'
<1> USE DEF TypeOK, client, clientVars, server, rooms
<1>1. CASE Declines
  BY <1>1 DEF Declines
<1>2. ASSUME NEW u \in Users, IsChallenged(u) \/ Withdraws(u)
      PROVE  TypeOK'
  <2>1. <<PM(u, TRUE)>> \in Seq(MessageToClient) /\ <<PM(u, FALSE)>> \in Seq(MessageToClient)
    <3>1. PM(u, TRUE) \in MessageToClient /\ PM(u, FALSE) \in MessageToClient
      BY DEF PM, MessageToClient
    <3> QED BY <3>1, One
  <2>2. toClient' \in Seq(MessageToClient)
    BY <1>2, <2>1, TellingKeepsTypes DEF IsChallenged, Withdraws
  <2> QED BY <1>2, <2>2 DEF IsChallenged, Withdraws
<1>3. ASSUME NEW r \in Rooms, FindsOpponent(r)
      PROVE  TypeOK'
  <2>1. toClient' \in Seq(MessageToClient)
    BY <1>3, BeginningKeepsTypes, TellingKeepsTypes DEF FindsOpponent
  <2>2. seeking' \in Nat
    BY <1>3 DEF FindsOpponent
  <2> QED BY <1>3, <2>1, <2>2, BeginningKeepsTypes DEF FindsOpponent, Begins
<1>4. ASSUME NEW r \in Rooms, TimesOut(r)
      PROVE  TypeOK'
  BY <1>4 DEF TimesOut
<1>5. ASSUME NEW r \in Rooms, Proceeds(r)
      PROVE  TypeOK'
  <2>1. PICK wait \in BOOLEAN :
          /\ request' = [request EXCEPT ![r] = @ + 1]
          /\ waits' = [waits EXCEPT ![r] = wait]
          /\ answered' = [answered EXCEPT ![r] = FALSE]
          /\ Tells(<<Events(r), Request(r, request[r] + 1, wait)>>)
    BY <1>5 DEF Proceeds
  <2>2. request[r] + 1 \in 1 .. MaxRequests
    BY <1>5, BoundsAssumption DEF Proceeds
  <2>3. Events(r) \in MessageToClient /\ Request(r, request[r] + 1, wait) \in MessageToClient
    BY <2>2, ServerMessages
  <2>4. toClient' \in Seq(MessageToClient)
    BY <2>1, <2>3, Two, TellingKeepsTypes
  <2> QED BY <1>5, <2>1, <2>2, <2>4 DEF Proceeds
<1>6. ASSUME NEW r \in Rooms, Ends(r)
      PROVE  TypeOK'
  <2>1. Win(r) \in MessageToClient
    BY DEF Win, MessageToClient, RoomMessage
  <2>2. toClient' \in Seq(MessageToClient)
    BY <1>6, <2>1, One, TellingKeepsTypes DEF Ends
  <2>3. request' \in [Rooms -> 0 .. MaxRequests]
    BY <1>6, BoundsAssumption DEF Ends
  <2> QED BY <1>6, <2>2, <2>3 DEF Ends
<1>7. ASSUME NEW r \in Rooms, SaysMore(r)
      PROVE  TypeOK'
  <2>1. Events(r) \in MessageToClient
    BY DEF Events, MessageToClient, RoomMessage
  <2>2. toClient' \in Seq(MessageToClient)
    BY <1>7, <2>1, One, PlainMessages, TellingKeepsTypes DEF SaysMore
  <2> QED BY <1>7, <2>2 DEF SaysMore
<1> QED BY <1>1, <1>2, <1>3, <1>4, <1>5, <1>6, <1>7 DEF ServerActs

LEMMA StepKeepsTypes ==
    ASSUME TypeOK, HasRequest, [Next]_vars
    PROVE  TypeOK' /\ HasRequest'
<1>1. TypeOK'
  <2>1. CASE UNCHANGED vars
    BY <2>1 DEF TypeOK, vars, clientVars, client, server, rooms
  <2> QED BY <2>1, ReadingKeepsTypes, HearingClientKeepsTypes, ActingKeepsTypes DEF Next
<1>2. ASSUME NEW r \in Rooms, phase'[r] = "on"
      PROVE  request'[r] # 0
  <2>1. CASE UNCHANGED <<phase, request>>
    BY <1>2, <2>1 DEF HasRequest
  <2>2. CASE \E s \in Rooms : Begins(s)
    BY <1>2, <2>2 DEF Begins, HasRequest, TypeOK
  <2>3. CASE \E s \in Rooms : Proceeds(s)
    BY <1>2, <2>3 DEF Proceeds, HasRequest, TypeOK
  <2>4. CASE \E s \in Rooms : Ends(s) \/ SaysMore(s)
    BY <1>2, <2>4 DEF Ends, SaysMore, HasRequest, TypeOK
  <2>5. QED
    <3> USE DEF client, clientVars, server, rooms
    <3>1. CASE UNCHANGED vars
      BY <2>1, <3>1 DEF vars
    <3>2. CASE Reading
      BY <2>1, <3>2 DEF Reading
    <3>3. CASE HearsClient
      BY <2>1, <2>2, <3>3 DEF HearsClient, HearsLeave, HearsSearch, HearsChallenge, HearsAccept,
         HearsReject, HearsTimer, TakesChoice, TakesDefault, RefusesChoice,
         RefusesForHiddenReason, NothingToChoose
    <3>4. CASE ServerActs
      BY <2>1, <2>2, <2>3, <2>4, <3>4 DEF ServerActs, Declines, IsChallenged, Withdraws,
         FindsOpponent, TimesOut
    <3> QED BY <3>1, <3>2, <3>3, <3>4 DEF Next
<1> QED BY <1>1, <1>2 DEF HasRequest

LEMMA InitTypes == Init => TypeOK /\ HasRequest
<1> SUFFICES ASSUME Init PROVE TypeOK /\ HasRequest
  OBVIOUS
<1>1. toClient \in Seq(MessageToClient)
  BY PlainMessages, One DEF Init
<1>2. 0 \in 0 .. MaxRequests /\ 0 \in 0 .. MaxHidden
  BY BoundsAssumption
<1>3. toServer \in Seq(MessageToServer)
  BY DEF Init
<1> QED BY <1>1, <1>2, <1>3 DEF Init, ClientInit, TypeOK, HasRequest

\* Types, for every value of the constants.
THEOREM TypeCorrectness == Spec => []TypeOK
<1>1. TypeOK /\ HasRequest /\ [Next]_vars => (TypeOK /\ HasRequest)'
  BY StepKeepsTypes
<1> QED BY <1>1, InitTypes, PTL DEF Spec

-----------------------------------------------------------------------------
(* Nothing throws. *)

InOrder == \A r \in Rooms : RoomOrder(battles[r], toClient, phase[r], r)

LEMMA ReadingKeepsOrder ==
    ASSUME TypeOK, InOrder, NothingThrows, Reading
    PROVE  InOrder' /\ NothingThrows'
<1> USE DEF InOrder, NothingThrows
<1>1. /\ toClient \in Seq(MessageToClient) /\ toClient # << >> /\ message = Head(toClient)
      /\ toClient' = Tail(toClient) /\ UNCHANGED phase
      /\ message \in MessageToClient
  BY TailFacts DEF Reading, HandleMessages, LogsIn, HandlePM, IgnoresJunk, CreateBattle, HandleEvents,
     HandleFinish, HandleRequest, HandleErrorMessage, Reads, message, TypeOK, server, rooms
<1>2. ASSUME NEW r \in Rooms, ~Speaks(message, "init", r), ~Speaks(message, "request", r)
      PROVE  RoomOrder(battles[r], toClient', phase'[r], r)
  BY <1>1, <1>2, ReadsOther
<1>3. ASSUME message.kind \notin {"init", "request"}, UNCHANGED battles
      PROVE  InOrder'
  BY <1>2, <1>3 DEF Speaks
<1>4. CASE LogsIn \/ HandlePM \/ IgnoresJunk \/ HandleErrorMessage
  BY <1>3, <1>4 DEF LogsIn, HandlePM, IgnoresJunk, HandleErrorMessage, Reads, message, client
<1>5. CASE CreateBattle
  <2> DEFINE here == message.room
  <2>1. message.kind = "init" /\ here \in Rooms /\ Speaks(message, "init", here)
    BY <1>1, <1>5, MessageFields DEF CreateBattle, Reads, message, Speaks
  <2>2. battles[here] = "absent" /\ RoomOrder("init", toClient', phase'[here], here)
    BY <1>1, <2>1, ReadsInit
  <2>3. battles' = [battles EXCEPT ![here] = "init"] /\ UNCHANGED failed
    BY <1>5, <2>2 DEF CreateBattle
  <2>4. ASSUME NEW r \in Rooms
        PROVE  RoomOrder(battles'[r], toClient', phase'[r], r)
    <3>1. CASE r = here
      BY <2>2, <2>3, <3>1 DEF TypeOK
    <3>2. CASE r # here
      BY <1>2, <2>1, <2>3, <3>2 DEF TypeOK, Speaks
    <3> QED BY <3>1, <3>2
  <2> QED BY <2>3, <2>4
<1>6. CASE HandleEvents
  <2> DEFINE here == message.room
  <2>1. message.kind = "events" /\ here \in Rooms /\ Speaks(message, "events", here)
    BY <1>1, <1>6, MessageFields DEF HandleEvents, Reads, message, Speaks
  <2>2. battles[here] # "init"
    BY <1>1, <2>1, ReadsEvents
  <2> QED BY <1>3, <1>6, <2>1, <2>2 DEF HandleEvents, client
<1>7. CASE HandleFinish
  <2> DEFINE here == message.room
  <2>1. message.kind = "win" /\ here \in Rooms /\ Speaks(message, "win", here)
    BY <1>1, <1>7, MessageFields DEF HandleFinish, Reads, message, Speaks
  <2>2. battles[here] # "init" /\ RoomOrder("absent", toClient', phase'[here], here)
    BY <1>1, <2>1, ReadsEvents, ReadsWin
  <2>3. CASE battles[here] = "absent"
    BY <1>3, <1>7, <2>1, <2>3 DEF HandleFinish, client
  <2>4. CASE battles[here] # "absent"
    <3>1. battles' = [battles EXCEPT ![here] = "absent"] /\ UNCHANGED failed
      BY <1>7, <2>2, <2>4 DEF HandleFinish
    <3>2. ASSUME NEW r \in Rooms
          PROVE  RoomOrder(battles'[r], toClient', phase'[r], r)
      <4>1. CASE r = here
        BY <2>2, <3>1, <4>1 DEF TypeOK
      <4>2. CASE r # here
        BY <1>2, <2>1, <3>1, <4>2 DEF TypeOK, Speaks
      <4> QED BY <4>1, <4>2
    <3> QED BY <3>1, <3>2
  <2> QED BY <2>3, <2>4
<1>8. CASE HandleRequest
  <2> DEFINE here == message.room
  <2>1. message.kind = "request" /\ here \in Rooms /\ Speaks(message, "request", here)
    BY <1>1, <1>8, MessageFields DEF HandleRequest, Reads, message, Speaks
  <2>2. battles[here] # "absent" /\ RoomOrder("handler", toClient', phase'[here], here)
    BY <1>1, <2>1, ReadsRequest
  <2>3. battles' = [battles EXCEPT ![here] = "handler"] /\ UNCHANGED failed
    BY <1>8, <2>2 DEF HandleRequest
  <2>4. ASSUME NEW r \in Rooms
        PROVE  RoomOrder(battles'[r], toClient', phase'[r], r)
    <3>1. CASE r = here
      BY <2>2, <2>3, <3>1 DEF TypeOK
    <3>2. CASE r # here
      BY <1>2, <2>1, <2>3, <3>2 DEF TypeOK, Speaks
    <3> QED BY <3>1, <3>2
  <2> QED BY <2>3, <2>4
<1> QED BY <1>4, <1>5, <1>6, <1>7, <1>8 DEF Reading, HandleMessages

\* The messages that are of no battle.
LEMMA OtherKinds ==
    ASSUME NEW r, NEW s, NEW u, NEW yes
    PROVE  /\ ~OfBattle(PM(u, yes), r) /\ ~OfBattle(Error(s, yes), r) /\ ~OfBattle(Junk, r)
  BY DEF OfBattle, Speaks, PM, Error, Junk

\* The messages of a room are not of another.
LEMMA BattleKinds ==
    ASSUME NEW r, NEW s, NEW id, NEW wait
    PROVE  /\ Speaks(BattleInit(r), "init", r) /\ Speaks(Request(r, id, wait), "request", r)
           /\ Speaks(Events(r), "events", r) /\ Speaks(Win(r), "win", r)
           /\ r # s => /\ ~OfBattle(BattleInit(r), s) /\ ~OfBattle(Request(r, id, wait), s)
                       /\ ~OfBattle(Events(r), s) /\ ~OfBattle(Win(r), s)
  BY DEF OfBattle, Speaks, BattleInit, Request, Events, Win

LEMMA TellingOther ==
    ASSUME InOrder, toClient \in Seq(MessageToClient), UNCHANGED <<battles, phase>>,
           NEW m \in MessageToClient, Tells(<<m>>), \A r \in Rooms : ~OfBattle(m, r)
    PROVE  InOrder'
  BY TellsOther, ConcatOne DEF InOrder, Tells

\* A battle begins, with what is told before its first block.
LEMMA BeginningKeepsOrder ==
    ASSUME TypeOK, InOrder, UNCHANGED battles, NEW here \in Rooms, Begins(here),
           NEW q \in Seq(MessageToClient), toClient' = q \o FirstBlocks(here),
           \A r \in Rooms : RoomOrder(battles[r], q, phase[r], r)
    PROVE  InOrder'
<1> DEFINE m == BattleInit(here)
           n == Request(here, 1, FALSE)
<1>1. m \in MessageToClient /\ n \in MessageToClient
  <2>1. 1 \in 1 .. MaxRequests
    BY BoundsAssumption
  <2> QED BY <2>1, ServerMessages
<1>2. toClient' = Append(Append(q, m), n) /\ Append(q, m) \in Seq(MessageToClient)
  <2>1. toClient' = q \o <<m, n>>
    BY DEF FirstBlocks
  <2> HIDE DEF m, n
  <2> QED BY <1>1, <2>1, ConcatTwo, AppendFacts
<1>3. phase[here] = "unused" /\ phase' = [phase EXCEPT ![here] = "on"]
  BY DEF Begins
<1>4. ASSUME NEW r \in Rooms
      PROVE  RoomOrder(battles[r], toClient', phase'[r], r)
  <2>1. CASE r = here
    <3>1. phase'[r] = "on"
      BY <1>3, <2>1 DEF TypeOK
    <3>2. Speaks(m, "init", here) /\ Speaks(n, "request", here)
      BY BattleKinds
    <3>3. RoomOrder(battles[here], q, "unused", here)
      BY <1>3
    <3> HIDE DEF m, n
    <3> QED BY <1>1, <1>2, <2>1, <3>1, <3>2, <3>3, TellsBeginning
  <2>2. CASE r # here
    <3>1. phase'[r] = phase[r] /\ ~OfBattle(m, r) /\ ~OfBattle(n, r)
      BY <1>3, <2>2, BattleKinds DEF TypeOK
    <3> HIDE DEF m, n
    <3> QED BY <1>1, <1>2, <3>1, TellsOther
  <2> QED BY <2>1, <2>2
<1> QED BY <1>4 DEF InOrder

\* A request is told while the battle is on, after something that is no other
\* request or that happened before it.
LEMMA AskingKeepsOrder ==
    ASSUME TypeOK, InOrder, UNCHANGED <<battles, phase>>, NEW here \in Rooms, phase[here] = "on",
           NEW m \in MessageToClient, NEW n \in MessageToClient, Tells(<<m, n>>),
           Speaks(m, "events", here) \/ ~OfBattle(m, here), Speaks(n, "request", here),
           \A r \in Rooms \ {here} : ~OfBattle(m, r) /\ ~OfBattle(n, r)
    PROVE  InOrder'
<1>1. toClient \in Seq(MessageToClient) /\ toClient' = Append(Append(toClient, m), n)
      /\ Append(toClient, m) \in Seq(MessageToClient)
  BY ConcatTwo, AppendFacts DEF TypeOK, Tells
<1>2. ASSUME NEW r \in Rooms
      PROVE  RoomOrder(battles[r], toClient', phase[r], r)
  <2>1. CASE r = here
    <3>1. RoomOrder(battles[here], Append(toClient, m), "on", here)
      BY <1>1, TellsEvents, TellsOther DEF InOrder
    <3> QED BY <1>1, <2>1, <3>1, TellsRequest
  <2>2. CASE r # here
    BY <1>1, <2>2, TellsOther DEF InOrder
  <2> QED BY <2>1, <2>2
<1> QED BY <1>2 DEF InOrder

LEMMA HearingKeepsOrder ==
    ASSUME TypeOK, HasRequest, InOrder, HearsClient
    PROVE  InOrder' /\ UNCHANGED failed
<1> USE DEF client, server, rooms
<1>1. CASE HearsLeave \/ HearsSearch \/ HearsReject \/ HearsTimer \/ TakesChoice \/ TakesDefault
  BY <1>1 DEF HearsLeave, HearsSearch, HearsReject, HearsTimer, TakesChoice, TakesDefault, InOrder
<1>2. CASE HearsChallenge
  <2>1. PM(Me, TRUE) \in MessageToClient
    BY DEF PM, MessageToClient
  <2> QED BY <1>2, <2>1, TellingOther, OtherKinds DEF HearsChallenge, TypeOK
<1>3. CASE HearsAccept
  <2>1. CASE ~(said.user \in challengers /\ RoomLeft)
    BY <1>3, <2>1 DEF HearsAccept, InOrder
  <2>2. CASE said.user \in challengers /\ RoomLeft
    <3> DEFINE pm == PM(said.user, FALSE)
    <3>1. PICK r \in Rooms : /\ Begins(r)
                             /\ Tells(<<pm>> \o FirstBlocks(r))
                             /\ UNCHANGED client
      BY <1>3, <2>2 DEF HearsAccept
    <3>2. pm \in MessageToClient
      BY <2>2 DEF PM, MessageToClient, TypeOK
    <3>3. toClient' = Append(toClient, pm) \o FirstBlocks(r)
          /\ Append(toClient, pm) \in Seq(MessageToClient)
      <4>1. FirstBlocks(r) \in Seq(MessageToClient)
        BY <3>1, BeginningKeepsTypes
      <4>2. toClient' = (toClient \o <<pm>>) \o FirstBlocks(r)
        BY <3>1, <3>2, <4>1, One, ConcatAssociative DEF Tells, TypeOK
      <4> QED BY <3>2, <4>2, ConcatOne, AppendFacts DEF TypeOK
    <3>4. \A s \in Rooms : RoomOrder(battles[s], Append(toClient, pm), phase[s], s)
      BY <3>2, TellsOther, OtherKinds DEF TypeOK, InOrder
    <3> QED BY <3>1, <3>3, <3>4, BeginningKeepsOrder
  <2> QED BY <2>1, <2>2
<1>4. CASE RefusesChoice
  <2>1. Error(said.room, FALSE) \in MessageToClient
    BY <1>4, HearingKeepsTypes, SaidFields DEF RefusesChoice, Error, MessageToClient, RoomMessage, TypeOK
  <2> QED BY <1>4, <2>1, TellingOther, OtherKinds DEF RefusesChoice, TypeOK
<1>5. CASE NothingToChoose
  <2>1. Error(said.room, TRUE) \in MessageToClient
    BY <1>5, HearingKeepsTypes, SaidFields DEF NothingToChoose, Error, MessageToClient, RoomMessage, TypeOK
  <2> QED BY <1>5, <2>1, TellingOther, OtherKinds DEF NothingToChoose, TypeOK
<1>6. CASE RefusesForHiddenReason
  <2> DEFINE here == said.room
  <2>1. here \in Rooms /\ phase[here] = "on" /\ request[here] \in 1 .. MaxRequests
    <3>1. here \in Rooms
      BY <1>6, HearingKeepsTypes, SaidFields DEF RefusesForHiddenReason, TypeOK
    <3>2. phase[here] = "on"
      BY <1>6 DEF RefusesForHiddenReason, Asked
    <3>3. request[here] # 0 /\ request[here] \in 0 .. MaxRequests
      BY <3>1, <3>2 DEF HasRequest, TypeOK
    <3> QED BY <3>1, <3>2, <3>3, BoundsAssumption
  <2>2. /\ Error(here, FALSE) \in MessageToClient
        /\ Request(here, request[here], FALSE) \in MessageToClient
    BY <2>1 DEF Error, Request, MessageToClient, RoomMessage
  <2>3. /\ ~OfBattle(Error(here, FALSE), here)
        /\ Speaks(Request(here, request[here], FALSE), "request", here)
        /\ \A r \in Rooms \ {here} : /\ ~OfBattle(Error(here, FALSE), r)
                                     /\ ~OfBattle(Request(here, request[here], FALSE), r)
    BY OtherKinds, BattleKinds
  <2>4. /\ UNCHANGED <<battles, phase, failed>>
        /\ Tells(<<Error(here, FALSE), Request(here, request[here], FALSE)>>)
    BY <1>6 DEF RefusesForHiddenReason
  <2> QED BY <2>1, <2>2, <2>3, <2>4, AskingKeepsOrder
<1> QED BY <1>1, <1>2, <1>3, <1>4, <1>5, <1>6 DEF HearsClient

LEMMA ActingKeepsOrder ==
    ASSUME TypeOK, InOrder, ServerActs
    PROVE  InOrder' /\ UNCHANGED failed
<1> USE DEF client, clientVars, server, rooms
<1>1. CASE Declines
  BY <1>1 DEF Declines, InOrder
<1>2. ASSUME NEW u \in Users, IsChallenged(u) \/ Withdraws(u)
      PROVE  InOrder' /\ UNCHANGED failed
  <2>1. PM(u, TRUE) \in MessageToClient /\ PM(u, FALSE) \in MessageToClient
    BY DEF PM, MessageToClient
  <2> QED BY <1>2, <2>1, TellingOther, OtherKinds DEF IsChallenged, Withdraws, TypeOK
<1>3. ASSUME NEW r \in Rooms, FindsOpponent(r)
      PROVE  InOrder' /\ UNCHANGED failed
  BY <1>3, BeginningKeepsOrder DEF FindsOpponent, Tells, InOrder, TypeOK
<1>4. ASSUME NEW r \in Rooms, TimesOut(r)
      PROVE  InOrder' /\ UNCHANGED failed
  BY <1>4 DEF TimesOut, InOrder
<1>5. ASSUME NEW here \in Rooms, Proceeds(here)
      PROVE  InOrder' /\ UNCHANGED failed
  <2>1. PICK wait \in BOOLEAN : Tells(<<Events(here), Request(here, request[here] + 1, wait)>>)
    BY <1>5 DEF Proceeds
  <2>2. request[here] + 1 \in 1 .. MaxRequests
    BY <1>5, BoundsAssumption DEF Proceeds, TypeOK
  <2>3. Events(here) \in MessageToClient /\ Request(here, request[here] + 1, wait) \in MessageToClient
    BY <2>2, ServerMessages
  <2> QED BY <1>5, <2>1, <2>3, AskingKeepsOrder, BattleKinds DEF Proceeds
<1>6. ASSUME NEW here \in Rooms, Ends(here)
      PROVE  InOrder' /\ UNCHANGED failed
  <2>1. Win(here) \in MessageToClient
    BY DEF Win, MessageToClient, RoomMessage
  <2>2. toClient \in Seq(MessageToClient) /\ toClient' = Append(toClient, Win(here))
        /\ phase' = [phase EXCEPT ![here] = "over"] /\ UNCHANGED <<battles, failed>>
    BY <1>6, <2>1, ConcatOne DEF Ends, Tells, TypeOK
  <2>3. ASSUME NEW r \in Rooms
        PROVE  RoomOrder(battles[r], toClient', phase'[r], r)
    <3>1. CASE r = here
      <4>1. phase'[r] = "over" /\ RoomOrder(battles[here], toClient, "on", here)
        BY <1>6, <2>2, <3>1 DEF Ends, InOrder, TypeOK
      <4> QED BY <2>1, <2>2, <3>1, <4>1, TellsWin, BattleKinds
    <3>2. CASE r # here
      <4>1. phase'[r] = phase[r] /\ ~OfBattle(Win(here), r)
        BY <2>2, <3>2, BattleKinds DEF TypeOK
      <4> QED BY <2>1, <2>2, <4>1, TellsOther DEF InOrder
    <3> QED BY <3>1, <3>2
  <2> QED BY <2>2, <2>3 DEF InOrder
<1>7. ASSUME NEW here \in Rooms, SaysMore(here)
      PROVE  InOrder' /\ UNCHANGED failed
  <2>1. PICK m \in {Events(here), Junk} : Tells(<<m>>)
    BY <1>7 DEF SaysMore
  <2>2. m \in MessageToClient
    BY <2>1, PlainMessages DEF Events, MessageToClient, RoomMessage
  <2>3. toClient \in Seq(MessageToClient) /\ toClient' = Append(toClient, m)
        /\ phase[here] = "over" /\ phase' = [phase EXCEPT ![here] = "quiet"]
        /\ UNCHANGED <<battles, failed>>
    BY <1>7, <2>1, <2>2, ConcatOne DEF SaysMore, Tells, TypeOK
  <2>4. ASSUME NEW r \in Rooms
        PROVE  RoomOrder(battles[r], toClient', phase'[r], r)
    <3>1. CASE r = here
      <4>1. Speaks(m, "events", here) \/ ~OfBattle(m, here)
        BY <2>1, BattleKinds, OtherKinds
      <4>2. RoomOrder(battles[here], Append(toClient, m), "over", here)
        BY <2>2, <2>3, <4>1, TellsEvents, TellsOther DEF InOrder
      <4>3. RoomOrder(battles[here], Append(toClient, m), "quiet", here)
        BY <4>2 DEF RoomOrder
      <4> QED BY <2>3, <3>1, <4>3 DEF TypeOK
    <3>2. CASE r # here
      <4>1. phase'[r] = phase[r] /\ ~OfBattle(m, r)
        BY <2>1, <2>3, <3>2, BattleKinds, OtherKinds DEF TypeOK
      <4> QED BY <2>2, <2>3, <4>1, TellsOther DEF InOrder
    <3> QED BY <3>1, <3>2
  <2> QED BY <2>3, <2>4 DEF InOrder
<1> QED BY <1>1, <1>2, <1>3, <1>4, <1>5, <1>6, <1>7 DEF ServerActs

LEMMA InitOrder == Init => InOrder /\ NothingThrows
<1> SUFFICES ASSUME Init PROVE InOrder /\ NothingThrows
  OBVIOUS
<1>1. /\ toClient = <<Challstr>> /\ Len(toClient) = 1 /\ toClient[1] = Challstr
      /\ \A r \in Rooms : battles[r] = "absent" /\ phase[r] = "unused"
  BY DEF Init, ClientInit
<1>2. \A r \in Rooms, kind \in {"init", "request", "events", "win"} : ~Speaks(Challstr, kind, r)
  BY DEF Speaks, Challstr
<1>3. ASSUME NEW r \in Rooms
      PROVE  RoomOrder("absent", toClient, "unused", r)
  <2>1. \A i \in 1 .. Len(toClient) : \A kind \in {"init", "request", "events", "win"} :
            ~Speaks(toClient[i], kind, r)
    BY <1>1, <1>2
  <2> QED BY <2>1 DEF RoomOrder, OfBattle
<1> QED BY <1>1, <1>3 DEF Init, ClientInit, NothingThrows, InOrder

\* However the blocks of the rooms mix, the client never throws for a battle
\* that it does not have, has already, or knows too little of.
THEOREM NeverThrows == Spec => []NothingThrows
<1> DEFINE Inv == TypeOK /\ HasRequest /\ InOrder /\ NothingThrows
<1>1. Init => Inv
  BY InitTypes, InitOrder
<1>2. Inv /\ [Next]_vars => Inv'
  <2>1. SUFFICES ASSUME Inv, [Next]_vars PROVE InOrder' /\ NothingThrows'
    BY StepKeepsTypes
  <2>2. CASE UNCHANGED vars
    BY <2>1, <2>2 DEF InOrder, NothingThrows, vars, clientVars, client, server, rooms
  <2> QED BY <2>1, <2>2, ReadingKeepsOrder, HearingKeepsOrder, ActingKeepsOrder DEF Next, NothingThrows
<1>3. Inv => NothingThrows
  OBVIOUS
<1> HIDE DEF Inv
<1> QED BY <1>1, <1>2, <1>3, PTL DEF Spec

-----------------------------------------------------------------------------
(* The answers to a room's requests.  q is what the client has not read, s   *)
(* what the server has not read; p, lt, st, req, wait and done are the phase *)
(* of the room, late, stale, request, waits and answered.                    *)

\* A message that the client will answer with a choice, and such a choice.
Owing(m, r) ==
    \/ Speaks(m, "request", r) /\ ~m.wait
    \/ Speaks(m, "error", r) /\ ~m.nothingToChoose

Choosing(m, r) == Speaks(m, "choose", r) \/ Speaks(m, "choose default", r)

NoAnswer(q, s, r) ==
    /\ \A i \in 1 .. Len(q) : ~Owing(q[i], r)
    /\ \A i \in 1 .. Len(s) : ~Choosing(s[i], r)

\* One answer at most is under way, to the request that the room waits for.
OneAnswer(q, s, req, wait, done, r) ==
    /\ \A i \in 1 .. Len(q) : Speaks(q[i], "request", r) /\ ~q[i].wait => q[i].id = req
    /\ \A i \in 1 .. Len(s) : Speaks(s[i], "choose", r) => s[i].id = req
    /\ \A i \in 1 .. Len(q) : Owing(q[i], r) =>
           /\ ~done /\ ~wait
           /\ \A j \in 1 .. Len(q) : Owing(q[j], r) => j = i
           /\ \A j \in 1 .. Len(s) : ~Choosing(s[j], r)
    /\ \A i \in 1 .. Len(s) : Choosing(s[i], r) =>
           /\ ~done /\ ~wait
           /\ \A j \in 1 .. Len(s) : Choosing(s[j], r) => j = i

RoomAnswers(q, s, p, lt, st, req, wait, done, r) ==
    /\ p = "unused" => NoAnswer(q, s, r) /\ ~wait /\ ~done
    /\ p = "on" /\ ~lt => OneAnswer(q, s, req, wait, done, r)
    /\ st => p = "on" /\ lt

\* What was read or heard is not under way any more.
LEMMA DropsRead ==
    ASSUME NEW S, NEW q \in Seq(S), q # << >>, NEW s, NEW p, NEW lt, NEW st, NEW req,
           NEW wait, NEW done, NEW r, RoomAnswers(q, s, p, lt, st, req, wait, done, r)
    PROVE  RoomAnswers(Tail(q), s, p, lt, st, req, wait, done, r)
<1> DEFINE t == Tail(q)
<1>1. /\ Len(q) \in Nat /\ Len(t) = Len(q) - 1
      /\ \A i \in 1 .. Len(t) : t[i] = q[i + 1] /\ i + 1 \in 1 .. Len(q)
  BY TailFacts
<1> HIDE DEF t
<1>2. NoAnswer(q, s, r) => NoAnswer(t, s, r)
  BY <1>1 DEF NoAnswer
<1>3. ASSUME OneAnswer(q, s, req, wait, done, r)
      PROVE  OneAnswer(t, s, req, wait, done, r)
  BY <1>1, <1>3 DEF OneAnswer
<1>4. RoomAnswers(t, s, p, lt, st, req, wait, done, r)
  BY <1>2, <1>3 DEF RoomAnswers
<1> QED BY <1>4 DEF t

LEMMA DropsHeard ==
    ASSUME NEW S, NEW s \in Seq(S), s # << >>, NEW q, NEW p, NEW lt, NEW st, NEW req,
           NEW wait, NEW done, NEW r, RoomAnswers(q, s, p, lt, st, req, wait, done, r)
    PROVE  RoomAnswers(q, Tail(s), p, lt, st, req, wait, done, r)
<1> DEFINE t == Tail(s)
<1>1. /\ Len(s) \in Nat /\ Len(t) = Len(s) - 1
      /\ \A i \in 1 .. Len(t) : t[i] = s[i + 1] /\ i + 1 \in 1 .. Len(s)
  BY TailFacts
<1> HIDE DEF t
<1>2. NoAnswer(q, s, r) => NoAnswer(q, t, r)
  BY <1>1 DEF NoAnswer
<1>3. ASSUME OneAnswer(q, s, req, wait, done, r)
      PROVE  OneAnswer(q, t, req, wait, done, r)
  <2>1. \A i \in 1 .. Len(t) : Speaks(t[i], "choose", r) => t[i].id = req
    BY <1>1, <1>3 DEF OneAnswer
  <2>2. \A i \in 1 .. Len(q) : Owing(q[i], r) => \A j \in 1 .. Len(t) : ~Choosing(t[j], r)
    BY <1>1, <1>3 DEF OneAnswer
  <2>3. ASSUME NEW i \in 1 .. Len(t), Choosing(t[i], r)
        PROVE  /\ ~done /\ ~wait
               /\ \A j \in 1 .. Len(t) : Choosing(t[j], r) => j = i
    <3>1. Choosing(s[i + 1], r) /\ i + 1 \in 1 .. Len(s)
      BY <1>1, <2>3
    <3>2. ~done /\ ~wait /\ \A j \in 1 .. Len(s) : Choosing(s[j], r) => j = i + 1
      BY <1>3, <3>1 DEF OneAnswer
    <3> QED BY <1>1, <3>2
  <2> QED BY <1>3, <2>1, <2>2, <2>3 DEF OneAnswer
<1>4. RoomAnswers(q, t, p, lt, st, req, wait, done, r)
  BY <1>2, <1>3 DEF RoomAnswers
<1> QED BY <1>4 DEF t

\* What is no choice, and what asks for none, changes nothing.
LEMMA TellsNoQuestion ==
    ASSUME NEW S, NEW q \in Seq(S), NEW m \in S, NEW s, NEW p, NEW lt, NEW st, NEW req,
           NEW wait, NEW done, NEW r, RoomAnswers(q, s, p, lt, st, req, wait, done, r),
           ~Owing(m, r)
    PROVE  RoomAnswers(Append(q, m), s, p, lt, st, req, wait, done, r)
<1>1. NoAnswer(q, s, r) => NoAnswer(Append(q, m), s, r)
  BY AppendFacts DEF NoAnswer
<1>2. ASSUME OneAnswer(q, s, req, wait, done, r)
      PROVE  OneAnswer(Append(q, m), s, req, wait, done, r)
  <2>1. ~(Speaks(m, "request", r) /\ ~m.wait)
    BY DEF Owing
  <2> QED BY <1>2, <2>1, AppendFacts DEF OneAnswer
<1> QED BY <1>1, <1>2 DEF RoomAnswers

LEMMA SendsNoChoice ==
    ASSUME NEW S, NEW s \in Seq(S), NEW m \in S, NEW q, NEW p, NEW lt, NEW st, NEW req,
           NEW wait, NEW done, NEW r, RoomAnswers(q, s, p, lt, st, req, wait, done, r),
           ~Choosing(m, r)
    PROVE  RoomAnswers(q, Append(s, m), p, lt, st, req, wait, done, r)
<1>1. NoAnswer(q, s, r) => NoAnswer(q, Append(s, m), r)
  BY AppendFacts DEF NoAnswer
<1>2. ASSUME OneAnswer(q, s, req, wait, done, r)
      PROVE  OneAnswer(q, Append(s, m), req, wait, done, r)
  <2>1. ~Speaks(m, "choose", r)
    BY DEF Choosing
  <2> QED BY <1>2, <2>1, AppendFacts DEF OneAnswer
<1> QED BY <1>1, <1>2 DEF RoomAnswers

\* Reading what asks for a choice, and answering it.
LEMMA Answers ==
    ASSUME NEW S, NEW q \in Seq(S), q # << >>, NEW S2, NEW s \in Seq(S2), NEW m \in S2,
           NEW p, NEW lt, NEW st, NEW req, NEW wait, NEW done, NEW r,
           RoomAnswers(q, s, p, lt, st, req, wait, done, r),
           Owing(Head(q), r), Choosing(m, r),
           Speaks(m, "choose", r) => Speaks(Head(q), "request", r) /\ m.id = Head(q).id
                                     /\ ~Head(q).wait
    PROVE  RoomAnswers(Tail(q), Append(s, m), p, lt, st, req, wait, done, r)
<1> DEFINE t == Tail(q)
           u == Append(s, m)
<1>1. /\ Len(q) \in Nat /\ 1 \in 1 .. Len(q) /\ Len(t) = Len(q) - 1 /\ Head(q) = q[1]
      /\ \A i \in 1 .. Len(t) : t[i] = q[i + 1] /\ i + 1 \in 1 .. Len(q) /\ i + 1 # 1
  BY TailFacts
<1>2. /\ Len(s) \in Nat /\ Len(u) = Len(s) + 1 /\ u[Len(u)] = m
      /\ \A i \in 1 .. Len(u) : i = Len(u) \/ (i \in 1 .. Len(s) /\ u[i] = s[i])
  BY AppendFacts, OldOrLast
<1> HIDE DEF t, u
<1>3. p # "unused"
  BY <1>1 DEF RoomAnswers, NoAnswer
<1>4. ASSUME OneAnswer(q, s, req, wait, done, r)
      PROVE  OneAnswer(t, u, req, wait, done, r)
  <2>1. /\ \A i \in 1 .. Len(t) : ~Owing(t[i], r)
        /\ \A i \in 1 .. Len(s) : ~Choosing(s[i], r)
        /\ ~done /\ ~wait
    BY <1>1, <1>4 DEF OneAnswer
  <2>2. \A i \in 1 .. Len(u) : Choosing(u[i], r) => i = Len(u)
    BY <1>2, <2>1
  <2>3. Speaks(m, "choose", r) => m.id = req
    BY <1>1, <1>4 DEF OneAnswer
  <2>4. \A i \in 1 .. Len(u) : Speaks(u[i], "choose", r) => u[i].id = req
    BY <1>2, <2>2, <2>3 DEF Choosing
  <2>5. \A i \in 1 .. Len(t) : ~(Speaks(t[i], "request", r) /\ ~t[i].wait)
    BY <2>1 DEF Owing
  <2> QED BY <2>1, <2>2, <2>4, <2>5 DEF OneAnswer
<1>5. RoomAnswers(t, u, p, lt, st, req, wait, done, r)
  BY <1>3, <1>4 DEF RoomAnswers
<1> QED BY <1>5 DEF t, u

\* The server takes a choice: there is no other, and it is for this request.
LEMMA TakesCurrent ==
    ASSUME NEW S, NEW s \in Seq(S), s # << >>, NEW q, NEW st, NEW req,
           NEW wait, NEW done, NEW r, RoomAnswers(q, s, "on", FALSE, st, req, wait, done, r),
           Speaks(Head(s), "choose", r)
    PROVE  Head(s).id = req
<1>1. Len(s) \in Nat /\ 1 \in 1 .. Len(s) /\ Head(s) = s[1]
  BY TailFacts
<1>2. OneAnswer(q, s, req, wait, done, r)
  BY DEF RoomAnswers
<1> QED BY <1>1, <1>2 DEF OneAnswer

LEMMA TakesAnswer ==
    ASSUME NEW S, NEW s \in Seq(S), s # << >>, NEW q, NEW lt, NEW st, NEW req,
           NEW wait, NEW done, NEW r, RoomAnswers(q, s, "on", lt, st, req, wait, done, r),
           Choosing(Head(s), r), NEW more, more => lt
    PROVE  RoomAnswers(q, Tail(s), "on", lt, more, req, wait, TRUE, r)
<1> DEFINE t == Tail(s)
<1>1. /\ Len(s) \in Nat /\ 1 \in 1 .. Len(s) /\ Len(t) = Len(s) - 1 /\ Head(s) = s[1]
      /\ \A i \in 1 .. Len(t) : t[i] = s[i + 1] /\ i + 1 \in 1 .. Len(s) /\ i + 1 # 1
  BY TailFacts
<1> HIDE DEF t
<1>2. ASSUME ~lt
      PROVE  NoAnswer(q, t, r)
  <2>1. OneAnswer(q, s, req, wait, done, r)
    BY <1>2 DEF RoomAnswers
  <2> QED BY <1>1, <2>1 DEF OneAnswer, NoAnswer
<1>3. NoAnswer(q, t, r) => OneAnswer(q, t, req, wait, TRUE, r)
  BY DEF NoAnswer, OneAnswer, Owing, Choosing
<1>4. RoomAnswers(q, t, "on", lt, more, req, wait, TRUE, r)
  BY <1>2, <1>3 DEF RoomAnswers
<1> QED BY <1>4 DEF t

\* The server refuses a choice: the refusal will be answered.
LEMMA Refuses ==
    ASSUME NEW S, NEW s \in Seq(S), s # << >>, NEW S2, NEW q \in Seq(S2), NEW m \in S2,
           NEW lt, NEW st, NEW req,
           NEW wait, NEW done, NEW r, RoomAnswers(q, s, "on", lt, st, req, wait, done, r),
           Choosing(Head(s), r), Speaks(m, "error", r), ~wait
    PROVE  RoomAnswers(Append(q, m), Tail(s), "on", lt, st, req, wait, FALSE, r)
<1> DEFINE t == Tail(s)
           u == Append(q, m)
<1>1. /\ Len(s) \in Nat /\ 1 \in 1 .. Len(s) /\ Len(t) = Len(s) - 1 /\ Head(s) = s[1]
      /\ \A i \in 1 .. Len(t) : t[i] = s[i + 1] /\ i + 1 \in 1 .. Len(s) /\ i + 1 # 1
  BY TailFacts
<1>2. /\ Len(q) \in Nat /\ Len(u) = Len(q) + 1 /\ u[Len(u)] = m
      /\ \A i \in 1 .. Len(u) : i = Len(u) \/ (i \in 1 .. Len(q) /\ u[i] = q[i])
  BY AppendFacts, OldOrLast
<1> HIDE DEF t, u
<1>3. ASSUME OneAnswer(q, s, req, wait, done, r)
      PROVE  OneAnswer(u, t, req, wait, FALSE, r)
  <2>1. NoAnswer(q, t, r)
    BY <1>1, <1>3 DEF OneAnswer, NoAnswer
  <2>2. \A i \in 1 .. Len(u) : Owing(u[i], r) => i = Len(u)
    BY <1>2, <2>1 DEF NoAnswer
  <2>3. ~Speaks(m, "request", r)
    BY DEF Speaks
  <2>4. \A i \in 1 .. Len(u) : ~(Speaks(u[i], "request", r) /\ ~u[i].wait)
    BY <1>2, <2>2, <2>3 DEF Owing
  <2>5. \A i \in 1 .. Len(t) : ~Speaks(t[i], "choose", r)
    BY <2>1 DEF NoAnswer, Choosing
  <2> QED BY <2>1, <2>2, <2>4, <2>5 DEF OneAnswer, NoAnswer
<1>4. RoomAnswers(u, t, "on", lt, st, req, wait, FALSE, r)
  BY <1>3 DEF RoomAnswers
<1> QED BY <1>4 DEF t, u

\* The server asks again when it has the answer, or needs none.
LEMMA AsksNext ==
    ASSUME NEW S, NEW q \in Seq(S), NEW m \in S, NEW n \in S, NEW s, NEW lt, NEW st, NEW req,
           NEW wait, NEW done, NEW r, RoomAnswers(q, s, "on", lt, st, req, wait, done, r),
           wait \/ done, NEW next, NEW waitNext,
           ~Owing(m, r), Speaks(n, "request", r), n.id = next, n.wait = waitNext
    PROVE  RoomAnswers(Append(Append(q, m), n), s, "on", lt, st, next, waitNext, FALSE, r)
<1> DEFINE u == Append(Append(q, m), n)
<1>1. /\ Len(u) \in Nat /\ u[Len(u)] = n
      /\ \A i \in 1 .. Len(u) : i = Len(u) \/ u[i] = m \/ (i \in 1 .. Len(q) /\ u[i] = q[i])
  BY LastOfTwo, OldOrLastTwo
<1> HIDE DEF u
<1>2. ASSUME ~lt
      PROVE  OneAnswer(u, s, next, waitNext, FALSE, r)
  <2>1. NoAnswer(q, s, r)
    BY <1>2 DEF RoomAnswers, OneAnswer, NoAnswer
  <2>2. \A i \in 1 .. Len(u) : Owing(u[i], r) => i = Len(u)
    BY <1>1, <2>1 DEF NoAnswer
  <2>3. Owing(n, r) => ~waitNext
    BY DEF Owing, Speaks
  <2>4. \A i \in 1 .. Len(u) : Speaks(u[i], "request", r) /\ ~u[i].wait => u[i].id = next
    BY <1>1, <2>2 DEF Owing
  <2>5. \A i \in 1 .. Len(s) : ~Speaks(s[i], "choose", r)
    BY <2>1 DEF NoAnswer, Choosing
  <2> QED BY <1>1, <2>1, <2>2, <2>3, <2>4, <2>5 DEF OneAnswer, NoAnswer
<1>3. RoomAnswers(u, s, "on", lt, st, next, waitNext, FALSE, r)
  BY <1>2 DEF RoomAnswers
<1> QED BY <1>3 DEF u

\* The server asks for the first time.
LEMMA AsksFirst ==
    ASSUME NEW S, NEW q \in Seq(S), NEW m \in S, NEW n \in S, NEW s, NEW lt, NEW st, NEW req,
           NEW wait, NEW done, NEW r, RoomAnswers(q, s, "unused", lt, st, req, wait, done, r),
           NEW next, ~Owing(m, r), Speaks(n, "request", r), n.id = next
    PROVE  RoomAnswers(Append(Append(q, m), n), s, "on", lt, st, next, wait, done, r)
<1> DEFINE u == Append(Append(q, m), n)
<1>1. /\ Len(u) \in Nat /\ u[Len(u)] = n
      /\ \A i \in 1 .. Len(u) : i = Len(u) \/ u[i] = m \/ (i \in 1 .. Len(q) /\ u[i] = q[i])
  BY LastOfTwo, OldOrLastTwo
<1> HIDE DEF u
<1>2. NoAnswer(q, s, r) /\ ~wait /\ ~done /\ ~st
  BY DEF RoomAnswers
<1>3. \A i \in 1 .. Len(u) : Owing(u[i], r) => i = Len(u)
  BY <1>1, <1>2 DEF NoAnswer
<1>4. \A i \in 1 .. Len(u) : Speaks(u[i], "request", r) /\ ~u[i].wait => u[i].id = next
  BY <1>1, <1>3 DEF Owing
<1>5. \A i \in 1 .. Len(s) : ~Speaks(s[i], "choose", r)
  BY <1>2 DEF NoAnswer, Choosing
<1>6. OneAnswer(u, s, next, wait, done, r)
  BY <1>1, <1>2, <1>3, <1>4, <1>5 DEF OneAnswer, NoAnswer
<1>7. RoomAnswers(u, s, "on", lt, st, next, wait, done, r)
  BY <1>2, <1>6 DEF RoomAnswers
<1> QED BY <1>7 DEF u

\* Nothing is said of a room where the server answers itself.
LEMMA IsLate ==
    ASSUME NEW q, NEW s, NEW st, NEW req, NEW wait, NEW done, NEW r
    PROVE  RoomAnswers(q, s, "on", TRUE, st, req, wait, done, r)
  BY DEF RoomAnswers

-----------------------------------------------------------------------------
(* Choices are current. *)

Answered ==
    \A r \in Rooms : RoomAnswers(toClient, toServer, phase[r], late[r], stale[r],
                                 request[r], waits[r], answered[r], r)

LEMMA NoChoices ==
    ASSUME NEW r, NEW s, NEW u
    PROVE  /\ ~Choosing(Search, r) /\ ~Choosing(Challenge, r)
           /\ ~Choosing(Accepts(u), r) /\ ~Choosing(Rejects(u), r)
           /\ ~Choosing(Leave(s), r) /\ ~Choosing(TimerOn(s), r)
  BY DEF Choosing, Speaks, Search, Challenge, Accepts, Rejects, Leave, TimerOn

LEMMA NoQuestions ==
    ASSUME NEW r, NEW s, NEW u, NEW yes
    PROVE  /\ ~Owing(PM(u, yes), r) /\ ~Owing(Junk, r) /\ ~Owing(BattleInit(s), r)
           /\ ~Owing(Events(s), r) /\ ~Owing(Error(s, TRUE), r)
  BY DEF Owing, Speaks, PM, Junk, BattleInit, Events, Error

LEMMA ReadingKeepsAnswers ==
    ASSUME TypeOK, Answered, Reading
    PROVE  Answered'
<1> DEFINE All(q, s) ==
        \A r \in Rooms : RoomAnswers(q, s, phase[r], late[r], stale[r],
                                     request[r], waits[r], answered[r], r)
<1>1. /\ toClient \in Seq(MessageToClient) /\ toClient # << >> /\ message = Head(toClient)
      /\ toClient' = Tail(toClient) /\ toServer \in Seq(MessageToServer)
      /\ message \in MessageToClient
  BY TailFacts DEF Reading, HandleMessages, LogsIn, HandlePM, IgnoresJunk, CreateBattle, HandleEvents,
     HandleFinish, HandleRequest, HandleErrorMessage, Reads, message, TypeOK
<1>2. UNCHANGED <<phase, late, stale, request, waits, answered>>
  BY DEF Reading, server, rooms
<1>3. All(toClient', toServer)
  BY <1>1, DropsRead DEF Answered
<1>4. SUFFICES All(toClient', toServer')
  BY <1>2 DEF Answered
<1>5. ASSUME UNCHANGED toServer
      PROVE  All(toClient', toServer')
  BY <1>3, <1>5
<1>6. ASSUME NEW s \in Seq(MessageToServer), All(toClient', s),
             NEW m \in MessageToServer, \A r \in Rooms : ~Choosing(m, r)
      PROVE  All(toClient', Append(s, m))
  BY <1>6, SendsNoChoice
<1>7. CASE LogsIn
  <2>1. toServer' = Append(toServer, Search) \/ toServer' = Append(toServer, Challenge)
        \/ toServer' = toServer
    BY <1>1, <1>7, ConcatOne, ConcatNone, SearchMessages
       DEF LogsIn, Sends, SendChallenge, TypeOK
  <2> QED BY <1>1, <1>3, <1>6, <2>1, SearchMessages, NoChoices
<1>8. CASE HandlePM
  <2>1. CASE message.from = Me \/ ~message.challenges
    <3>1. toServer' = toServer \o << >>
      BY <1>8, <2>1 DEF HandlePM, Sends
    <3>2. UNCHANGED toServer
      BY <1>1, <3>1, ConcatNone
    <3> QED BY <1>5, <3>2
  <2>2. CASE ~(message.from = Me \/ ~message.challenges)
    <3>1. message.from \in Users
      BY <1>1, <1>8, <2>2, MessageFields DEF HandlePM, Reads, message
    <3>2. Accepts(message.from) \in MessageToServer /\ Rejects(message.from) \in MessageToServer
      BY <3>1 DEF Accepts, Rejects, MessageToServer
    <3>3. toServer' = Append(toServer, Accepts(message.from))
          \/ toServer' = Append(toServer, Rejects(message.from))
      BY <1>1, <1>8, <2>2, <3>2, ConcatOne DEF HandlePM, Sends
    <3> QED BY <1>1, <1>3, <1>6, <3>2, <3>3, NoChoices
  <2> QED BY <2>1, <2>2
<1>9. CASE IgnoresJunk \/ CreateBattle \/ HandleEvents
  <2>1. UNCHANGED toServer
    BY <1>9 DEF IgnoresJunk, CreateBattle, HandleEvents, Throws
  <2> QED BY <1>5, <2>1
<1>10. CASE HandleFinish
  <2>1. message.room \in Rooms
    BY <1>1, <1>10, MessageFields DEF HandleFinish, Reads, message
  <2>2. Leave(message.room) \in MessageToServer
    BY <2>1 DEF Leave, MessageToServer
  <2> DEFINE left == Append(toServer, Leave(message.room))
  <2>3. left \in Seq(MessageToServer) /\ All(toClient', left)
    BY <1>1, <1>3, <1>6, <2>2, NoChoices, AppendFacts
  <2>4. \/ UNCHANGED toServer
        \/ toServer' = toServer \o (<<Leave(message.room)>> \o SendChallenge)
    BY <1>10 DEF HandleFinish, Throws, Sends
  <2>5. toServer \o (<<Leave(message.room)>> \o SendChallenge) = left \o SendChallenge
    <3>1. <<Leave(message.room)>> \in Seq(MessageToServer) /\ SendChallenge \in Seq(MessageToServer)
      BY <2>2, One, SendChallengeType DEF TypeOK
    <3>2. toServer \o <<Leave(message.room)>> = left
      BY <1>1, <2>2, ConcatOne
    <3> QED BY <1>1, <3>1, <3>2, ConcatAgain
  <2>6. SendChallenge \in {<<Search>>, <<Challenge>>, << >>}
    BY DEF SendChallenge, TypeOK
  <2>7. left \o SendChallenge \in {Append(left, Search), Append(left, Challenge), left}
    BY <2>3, <2>6, ConcatOne, ConcatNone, SearchMessages
  <2> HIDE DEF left
  <2> QED BY <1>5, <1>6, <2>3, <2>4, <2>5, <2>7, SearchMessages, NoChoices
<1>11. CASE HandleRequest
  <2> DEFINE here == message.room
             choice == Choose(here, message.id)
             chosen == IF message.wait THEN toServer ELSE Append(toServer, choice)
  <2>1. message.kind = "request" /\ here \in Rooms /\ message.id \in 1 .. MaxRequests
        /\ message.wait \in BOOLEAN
    BY <1>1, <1>11, MessageFields DEF HandleRequest, Reads, message
  <2>2. choice \in MessageToServer /\ TimerOn(here) \in MessageToServer
    BY <2>1 DEF Choose, TimerOn, MessageToServer
  <2>3. chosen \in Seq(MessageToServer)
    BY <1>1, <2>2, AppendFacts
  <2>4. All(toClient', chosen)
    <3>1. CASE message.wait
      <4>1. chosen = toServer
        BY <3>1
      <4> HIDE DEF chosen
      <4> QED BY <1>3, <4>1
    <3>2. CASE ~message.wait
      <4>1. /\ \A r \in Rooms \ {here} : ~Choosing(choice, r)
            /\ Choosing(choice, here) /\ choice.id = message.id
        BY DEF Choosing, Speaks, Choose
      <4>2. Owing(message, here) /\ Speaks(message, "request", here)
        BY <2>1, <3>2 DEF Owing, Speaks
      <4> HIDE DEF choice, here
      <4>3. ASSUME NEW r \in Rooms
            PROVE  RoomAnswers(toClient', Append(toServer, choice), phase[r], late[r], stale[r],
                               request[r], waits[r], answered[r], r)
        <5>1. CASE r = here
          BY <1>1, <2>2, <3>2, <4>1, <4>2, <5>1, Answers DEF Answered
        <5>2. CASE r # here
          BY <1>1, <1>3, <2>2, <4>1, <5>2, SendsNoChoice
        <5> QED BY <5>1, <5>2
      <4> QED BY <3>2, <4>3
    <3> QED BY <2>1, <3>1, <3>2
  <2>5. \/ UNCHANGED toServer
        \/ toServer' = toServer \o (SendSelection \o (IF shouldStartTimer THEN <<TimerOn(here)>> ELSE << >>))
    BY <1>11 DEF HandleRequest, Throws, Sends
  <2>6. SendSelection \in Seq(MessageToServer) /\ toServer \o SendSelection = chosen
    BY <1>1, <2>2, One, ConcatOne, ConcatNone DEF SendSelection
  <2>7. <<TimerOn(here)>> \in Seq(MessageToServer) /\ << >> \in Seq(MessageToServer)
    BY <2>2, One
  <2> HIDE DEF chosen, here
  <2>8. ASSUME NEW s \in {<<TimerOn(here)>>, << >>}, toServer' = toServer \o (SendSelection \o s)
        PROVE  toServer' = Append(chosen, TimerOn(here)) \/ toServer' = chosen
    <3>1. toServer' = chosen \o s
      <4>1. s \in Seq(MessageToServer)
        BY <2>7, <2>8
      <4>2. toServer \in Seq(MessageToServer) /\ SendSelection \in Seq(MessageToServer)
        BY <1>1, <2>6
      <4>3. toServer \o (SendSelection \o s) = (toServer \o SendSelection) \o s
        BY <4>1, <4>2, ConcatAgain
      <4> QED BY <2>6, <2>8, <4>3
    <3> QED BY <2>2, <2>3, <2>8, <3>1, ConcatOne, ConcatNone
  <2> QED BY <1>5, <1>6, <2>2, <2>3, <2>4, <2>5, <2>8, NoChoices
<1>12. CASE HandleErrorMessage
  <2> DEFINE here == message.room
             choice == ChooseDefault(here)
  <2>1. message.kind = "error" /\ here \in Rooms
    BY <1>1, <1>12, MessageFields DEF HandleErrorMessage, Reads, message
  <2>2. choice \in MessageToServer
    BY <2>1 DEF ChooseDefault, MessageToServer
  <2>3. CASE message.nothingToChoose
    BY <1>1, <1>5, <1>12, <2>3, ConcatNone DEF HandleErrorMessage, Sends
  <2>4. CASE ~message.nothingToChoose
    <3>1. toServer' = Append(toServer, choice)
      BY <1>1, <1>12, <2>2, <2>4, ConcatOne DEF HandleErrorMessage, Sends
    <3>2. /\ \A r \in Rooms \ {here} : ~Choosing(choice, r)
          /\ Choosing(choice, here) /\ ~Speaks(choice, "choose", here)
      BY DEF Choosing, Speaks, ChooseDefault
    <3>3. Owing(message, here)
      BY <2>1, <2>4 DEF Owing, Speaks
    <3> HIDE DEF choice, here
    <3>4. ASSUME NEW r \in Rooms
          PROVE  RoomAnswers(toClient', Append(toServer, choice), phase[r], late[r], stale[r],
                             request[r], waits[r], answered[r], r)
      <4>1. CASE r = here
        BY <1>1, <2>2, <3>2, <3>3, <4>1, Answers DEF Answered
      <4>2. CASE r # here
        BY <1>1, <1>3, <2>2, <3>2, <4>2, SendsNoChoice
      <4> QED BY <4>1, <4>2
    <3> QED BY <3>1, <3>4
  <2> QED BY <2>3, <2>4
<1> QED BY <1>7, <1>8, <1>9, <1>10, <1>11, <1>12 DEF Reading, HandleMessages

\* A battle begins, with what is told before its first block.
LEMMA BeginningKeepsAnswers ==
    ASSUME TypeOK, NEW here \in Rooms, Begins(here),
           NEW q \in Seq(MessageToClient), toClient' = q \o FirstBlocks(here),
           \A r \in Rooms : RoomAnswers(q, toServer', phase[r], late[r], stale[r],
                                        request[r], waits[r], answered[r], r)
    PROVE  Answered'
<1> DEFINE m == BattleInit(here)
           n == Request(here, 1, FALSE)
           before == Append(q, m)
<1>1. m \in MessageToClient /\ n \in MessageToClient
  <2>1. 1 \in 1 .. MaxRequests
    BY BoundsAssumption
  <2> QED BY <2>1, ServerMessages
<1>2. /\ ~Owing(m, here) /\ Speaks(n, "request", here) /\ n.id = 1
      /\ \A r \in Rooms \ {here} : ~Owing(m, r) /\ ~Owing(n, r)
  BY DEF BattleInit, Request, Owing, Speaks
<1>3. toClient' = q \o <<m, n>>
  BY DEF FirstBlocks
<1>4. /\ phase[here] = "unused" /\ phase' = [phase EXCEPT ![here] = "on"]
      /\ request' = [request EXCEPT ![here] = 1]
      /\ UNCHANGED <<late, stale, waits, answered>>
  BY DEF Begins
<1> HIDE DEF m, n
<1>5. toClient' = Append(before, n) /\ before \in Seq(MessageToClient)
  BY <1>1, <1>3, ConcatTwo, AppendFacts
<1>6. ASSUME NEW r \in Rooms
      PROVE  RoomAnswers(toClient', toServer', phase'[r], late'[r], stale'[r],
                         request'[r], waits'[r], answered'[r], r)
  <2>1. CASE r = here
    <3>1. phase'[here] = "on" /\ request'[here] = 1
      BY <1>4 DEF TypeOK
    <3>2. RoomAnswers(q, toServer', "unused", late[here], stale[here], request[here],
                      waits[here], answered[here], here)
      BY <1>4
    <3>3. RoomAnswers(Append(Append(q, m), n), toServer', "on", late[here], stale[here], 1,
                      waits[here], answered[here], here)
      BY <1>1, <1>2, <3>2, AsksFirst
    <3> QED BY <1>4, <1>5, <2>1, <3>1, <3>3
  <2>2. CASE r # here
    <3>1. phase'[r] = phase[r] /\ request'[r] = request[r]
      BY <1>4, <2>2 DEF TypeOK
    <3>2. RoomAnswers(before, toServer', phase[r], late[r], stale[r],
                      request[r], waits[r], answered[r], r)
      BY <1>1, <1>2, <2>2, TellsNoQuestion
    <3> HIDE DEF before
    <3>3. RoomAnswers(Append(before, n), toServer', phase[r], late[r], stale[r],
                      request[r], waits[r], answered[r], r)
      BY <1>1, <1>2, <1>5, <2>2, <3>2, TellsNoQuestion
    <3> QED BY <1>4, <1>5, <3>1, <3>3
  <2> QED BY <2>1, <2>2
<1> QED BY <1>6 DEF Answered

LEMMA HearingKeepsAnswers ==
    ASSUME TypeOK, HasRequest, Answered, HearsClient
    PROVE  Answered'
<1> DEFINE here == said.room
           rest == Tail(toServer)
<1>1. /\ toServer \in Seq(MessageToServer) /\ toServer # << >> /\ said = Head(toServer)
      /\ toServer' = rest /\ toClient \in Seq(MessageToClient) /\ rest \in Seq(MessageToServer)
      /\ said \in MessageToServer
  BY TailFacts DEF HearsClient, HearsLeave, HearsSearch, HearsChallenge, HearsAccept,
     HearsReject, HearsTimer, TakesChoice, TakesDefault, RefusesChoice, RefusesForHiddenReason,
     NothingToChoose, Hears, said, TypeOK
<1>2. \A r \in Rooms : RoomAnswers(toClient, rest, phase[r], late[r], stale[r],
                                   request[r], waits[r], answered[r], r)
  BY <1>1, DropsHeard DEF Answered
<1> HIDE DEF rest
<1>3. CASE HearsLeave \/ HearsSearch \/ HearsReject \/ HearsTimer
  <2>1. UNCHANGED <<toClient, phase, late, stale, request, waits, answered>>
    BY <1>3 DEF HearsLeave, HearsSearch, HearsReject, HearsTimer, server, rooms
  <2> QED BY <1>1, <1>2, <2>1 DEF Answered
<1>4. ASSUME NEW m \in MessageToClient, Tells(<<m>>), \A r \in Rooms : ~Owing(m, r),
             UNCHANGED <<phase, late, stale, request, waits, answered>>
      PROVE  Answered'
  <2>1. toClient' = Append(toClient, m)
    BY <1>1, <1>4, ConcatOne DEF Tells
  <2> QED BY <1>1, <1>2, <1>4, <2>1, TellsNoQuestion DEF Answered
<1>5. CASE HearsChallenge
  <2>1. PM(Me, TRUE) \in MessageToClient
    BY DEF PM, MessageToClient
  <2>2. Tells(<<PM(Me, TRUE)>>) /\ UNCHANGED <<phase, late, stale, request, waits, answered>>
    BY <1>5 DEF HearsChallenge, rooms
  <2> QED BY <1>4, <2>1, <2>2, NoQuestions
<1>6. CASE NothingToChoose
  <2>1. here \in Rooms
    BY <1>1, <1>6, SaidFields DEF NothingToChoose, Hears, said
  <2>2. Error(here, TRUE) \in MessageToClient
    BY <2>1 DEF Error, MessageToClient, RoomMessage
  <2>3. Tells(<<Error(here, TRUE)>>) /\ UNCHANGED <<phase, late, stale, request, waits, answered>>
    BY <1>6 DEF NothingToChoose, server, rooms
  <2> QED BY <1>4, <2>2, <2>3, NoQuestions
<1>7. CASE HearsAccept
  <2>1. CASE ~(said.user \in challengers /\ RoomLeft)
    <3>1. UNCHANGED <<toClient, phase, late, stale, request, waits, answered>>
      BY <1>7, <2>1 DEF HearsAccept, server, rooms
    <3> QED BY <1>1, <1>2, <3>1 DEF Answered
  <2>2. CASE said.user \in challengers /\ RoomLeft
    <3> DEFINE pm == PM(said.user, FALSE)
               before == Append(toClient, pm)
    <3>1. PICK r \in Rooms : Begins(r) /\ Tells(<<pm>> \o FirstBlocks(r))
      BY <1>7, <2>2 DEF HearsAccept
    <3>2. pm \in MessageToClient
      <4>1. said.user \in Users
        BY <2>2 DEF TypeOK
      <4> QED BY <4>1 DEF PM, MessageToClient
    <3>3. FirstBlocks(r) \in Seq(MessageToClient)
      BY <3>1, BeginningKeepsTypes
    <3>4. before \in Seq(MessageToClient) /\ toClient' = before \o FirstBlocks(r)
      <4>1. toClient' = (toClient \o <<pm>>) \o FirstBlocks(r)
        BY <1>1, <3>1, <3>2, <3>3, One, ConcatAgain DEF Tells
      <4> QED BY <1>1, <3>2, <4>1, ConcatOne, AppendFacts
    <3>5. \A s \in Rooms : RoomAnswers(before, rest, phase[s], late[s], stale[s],
                                       request[s], waits[s], answered[s], s)
      BY <1>1, <1>2, <3>2, TellsNoQuestion, NoQuestions
    <3> HIDE DEF before
    <3> QED BY <1>1, <3>1, <3>4, <3>5, BeginningKeepsAnswers
  <2> QED BY <2>1, <2>2
<1>8. ASSUME NEW r \in Rooms, r # here, UNCHANGED toClient,
             UNCHANGED <<phase[r], late[r], stale[r], request[r], waits[r], answered[r]>>
      PROVE  RoomAnswers(toClient', rest, phase'[r], late'[r], stale'[r],
                         request'[r], waits'[r], answered'[r], r)
  BY <1>2, <1>8
<1>9. CASE TakesChoice \/ TakesDefault
  <2>1. here \in Rooms /\ phase[here] = "on" /\ waits[here] = FALSE /\ Choosing(said, here)
    <3>1. said.kind \in {"choose", "choose default"} /\ Asked(here)
      BY <1>9 DEF TakesChoice, TakesDefault, Hears, said
    <3>2. here \in Rooms
      BY <1>1, <3>1, SaidFields
    <3> QED BY <3>1, <3>2 DEF Asked, Choosing, Speaks, TypeOK
  <2>2. /\ answered' = [answered EXCEPT ![here] = TRUE]
        /\ \A r \in Rooms : r # here => UNCHANGED stale[r]
        /\ stale'[here] => stale[here] \/ (Speaks(said, "choose", here) /\ said.id # request[here])
        /\ UNCHANGED <<toClient, phase, late, request, waits>>
    BY <1>9, <2>1 DEF TakesChoice, TakesDefault, TypeOK, Hears, said, Speaks
  <2>3. RoomAnswers(toClient, toServer, "on", late[here], stale[here],
                    request[here], waits[here], answered[here], here)
    BY <2>1 DEF Answered
  <2>4. stale'[here] => late[here]
    <3>1. stale[here] => late[here]
      BY <2>3 DEF RoomAnswers
    <3>2. ASSUME late[here] = FALSE, Speaks(said, "choose", here)
          PROVE  said.id = request[here]
      <4>1. RoomAnswers(toClient, toServer, "on", FALSE, stale[here],
                        request[here], waits[here], answered[here], here)
        BY <2>3, <3>2
      <4>2. Speaks(Head(toServer), "choose", here)
        BY <1>1, <3>2
      <4>3. Head(toServer).id = request[here]
        BY <1>1, <4>1, <4>2, TakesCurrent
      <4> QED BY <1>1, <4>3
    <3> QED BY <2>1, <2>2, <3>1, <3>2 DEF TypeOK
  <2>5. RoomAnswers(toClient, rest, "on", late[here], stale'[here],
                    request[here], waits[here], TRUE, here)
    BY <1>1, <2>1, <2>3, <2>4, TakesAnswer DEF rest
  <2>6. ASSUME NEW r \in Rooms
        PROVE  RoomAnswers(toClient', rest, phase'[r], late'[r], stale'[r],
                           request'[r], waits'[r], answered'[r], r)
    <3>1. CASE r = here
      <4>1. answered'[here] = TRUE
        BY <2>1, <2>2 DEF TypeOK
      <4> QED BY <2>1, <2>2, <2>5, <3>1, <4>1
    <3>2. CASE r # here
      <4>1. answered'[r] = answered[r]
        BY <2>2, <3>2 DEF TypeOK
      <4> QED BY <1>8, <2>2, <3>2, <4>1
    <3> QED BY <3>1, <3>2
  <2> QED BY <1>1, <2>6 DEF Answered
<1>10. CASE RefusesChoice
  <2> DEFINE m == Error(here, FALSE)
  <2>1. here \in Rooms /\ phase[here] = "on" /\ waits[here] = FALSE /\ Choosing(said, here)
    <3>1. said.kind \in {"choose"} /\ Asked(here)
      BY <1>10 DEF RefusesChoice, Hears, said
    <3>2. here \in Rooms
      BY <1>1, <3>1, SaidFields
    <3> QED BY <3>1, <3>2 DEF Asked, Choosing, Speaks, TypeOK
  <2>2. m \in MessageToClient /\ Speaks(m, "error", here) /\ \A r \in Rooms \ {here} : ~Owing(m, r)
    BY <2>1 DEF Error, MessageToClient, RoomMessage, Speaks, Owing
  <2> HIDE DEF m
  <2>3. /\ answered' = [answered EXCEPT ![here] = FALSE] /\ toClient' = Append(toClient, m)
        /\ UNCHANGED <<phase, late, stale, request, waits>>
    BY <1>1, <1>10, <2>2, ConcatOne DEF RefusesChoice, Tells, m
  <2>4. RoomAnswers(toClient, toServer, "on", late[here], stale[here],
                    request[here], waits[here], answered[here], here)
    BY <2>1 DEF Answered
  <2>5. RoomAnswers(toClient', rest, "on", late[here], stale[here],
                    request[here], waits[here], FALSE, here)
    BY <1>1, <2>1, <2>2, <2>3, <2>4, Refuses DEF rest
  <2>6. ASSUME NEW r \in Rooms
        PROVE  RoomAnswers(toClient', rest, phase'[r], late'[r], stale'[r],
                           request'[r], waits'[r], answered'[r], r)
    <3>1. CASE r = here
      <4>1. answered'[here] = FALSE
        BY <2>1, <2>3 DEF TypeOK
      <4> QED BY <2>1, <2>3, <2>5, <3>1, <4>1
    <3>2. CASE r # here
      <4>1. answered'[r] = answered[r]
        BY <2>3, <3>2 DEF TypeOK
      <4> QED BY <1>1, <1>2, <2>2, <2>3, <3>2, <4>1, TellsNoQuestion
    <3> QED BY <3>1, <3>2
  <2> QED BY <1>1, <2>6 DEF Answered
<1>11. CASE RefusesForHiddenReason
  <2> DEFINE m == Error(here, FALSE)
             n == Request(here, request[here], FALSE)
             before == Append(toClient, m)
  <2>1. here \in Rooms /\ phase[here] = "on"
    BY <1>1, <1>11, SaidFields DEF RefusesForHiddenReason, Hears, said, Asked
  <2>2. /\ \A r \in Rooms \ {here} : ~Owing(m, r) /\ ~Owing(n, r)
        /\ m \in MessageToClient
    BY <2>1 DEF Error, Request, Owing, Speaks, MessageToClient, RoomMessage
  <2>3. n \in MessageToClient
    <3>1. request[here] # 0 /\ request[here] \in 0 .. MaxRequests
      BY <2>1 DEF HasRequest, TypeOK
    <3>2. request[here] \in 1 .. MaxRequests
      BY <3>1, BoundsAssumption
    <3> QED BY <2>1, <3>2 DEF Request, MessageToClient, RoomMessage
  <2>4. /\ answered' = [answered EXCEPT ![here] = FALSE]
        /\ late' = [late EXCEPT ![here] = TRUE]
        /\ toClient' = toClient \o <<m, n>>
        /\ UNCHANGED <<phase, stale, request, waits>>
    BY <1>11 DEF RefusesForHiddenReason, Tells
  <2> HIDE DEF m, n
  <2>5. toClient' = Append(before, n) /\ before \in Seq(MessageToClient)
    BY <1>1, <2>2, <2>3, <2>4, ConcatTwo, AppendFacts
  <2>6. ASSUME NEW r \in Rooms
        PROVE  RoomAnswers(toClient', rest, phase'[r], late'[r], stale'[r],
                           request'[r], waits'[r], answered'[r], r)
    <3>1. CASE r = here
      <4>1. late'[here] = TRUE /\ phase'[here] = "on"
        BY <2>1, <2>4 DEF TypeOK
      <4> QED BY <3>1, <4>1, IsLate
    <3>2. CASE r # here
      <4>1. answered'[r] = answered[r] /\ late'[r] = late[r]
        BY <2>4, <3>2 DEF TypeOK
      <4>2. RoomAnswers(before, rest, phase[r], late[r], stale[r],
                        request[r], waits[r], answered[r], r)
        BY <1>1, <1>2, <2>2, <3>2, TellsNoQuestion
      <4> HIDE DEF before
      <4>3. RoomAnswers(Append(before, n), rest, phase[r], late[r], stale[r],
                        request[r], waits[r], answered[r], r)
        BY <2>2, <2>3, <2>5, <3>2, <4>2, TellsNoQuestion
      <4> QED BY <2>4, <2>5, <4>1, <4>3
    <3> QED BY <3>1, <3>2
  <2> QED BY <1>1, <2>6 DEF Answered
<1> QED BY <1>3, <1>5, <1>6, <1>7, <1>9, <1>10, <1>11 DEF HearsClient

LEMMA ActingKeepsAnswers ==
    ASSUME TypeOK, Answered, ServerActs
    PROVE  Answered'
<1> USE DEF clientVars, client, rooms
<1>1. UNCHANGED toServer /\ toServer \in Seq(MessageToServer)
      /\ toClient \in Seq(MessageToClient)
  BY DEF ServerActs, Declines, IsChallenged, Withdraws, FindsOpponent, TimesOut, Proceeds, Ends,
     SaysMore, TypeOK
<1>2. CASE Declines
  BY <1>2 DEF Declines, Answered
<1>3. ASSUME NEW m \in MessageToClient, toClient' = Append(toClient, m), NEW r \in Rooms,
             ~Owing(m, r)
      PROVE  RoomAnswers(toClient', toServer', phase[r], late[r], stale[r],
                         request[r], waits[r], answered[r], r)
  <2>1. RoomAnswers(toClient, toServer, phase[r], late[r], stale[r],
                    request[r], waits[r], answered[r], r)
    BY DEF Answered
  <2> QED BY <1>1, <1>3, <2>1, TellsNoQuestion
<1>4. ASSUME NEW u \in Users, IsChallenged(u) \/ Withdraws(u)
      PROVE  Answered'
  <2>1. PICK m \in {PM(u, TRUE), PM(u, FALSE)} : Tells(<<m>>)
    BY <1>4 DEF IsChallenged, Withdraws
  <2>2. m \in MessageToClient /\ \A r \in Rooms : ~Owing(m, r)
    <3>1. PM(u, TRUE) \in MessageToClient /\ PM(u, FALSE) \in MessageToClient
      BY DEF PM, MessageToClient
    <3> QED BY <2>1, <3>1, NoQuestions
  <2>3. toClient' = Append(toClient, m)
    BY <1>1, <2>1, <2>2, ConcatOne DEF Tells
  <2>4. UNCHANGED <<phase, late, stale, request, waits, answered>>
    BY <1>4 DEF IsChallenged, Withdraws
  <2> QED BY <1>3, <2>2, <2>3, <2>4 DEF Answered
<1>5. ASSUME NEW r \in Rooms, FindsOpponent(r)
      PROVE  Answered'
  <2>1. Begins(r) /\ toClient' = toClient \o FirstBlocks(r)
    BY <1>5 DEF FindsOpponent, Tells
  <2> QED BY <1>1, <2>1, BeginningKeepsAnswers DEF Answered
<1>6. ASSUME NEW here \in Rooms, TimesOut(here)
      PROVE  Answered'
  <2>1. /\ phase[here] = "on" /\ late' = [late EXCEPT ![here] = TRUE]
        /\ answered' = [answered EXCEPT ![here] = TRUE]
        /\ UNCHANGED <<toClient, phase, stale, request, waits>>
    BY <1>6 DEF TimesOut, Asked
  <2>2. ASSUME NEW r \in Rooms
        PROVE  RoomAnswers(toClient', toServer', phase'[r], late'[r], stale'[r],
                           request'[r], waits'[r], answered'[r], r)
    <3>1. CASE r = here
      <4>1. late'[here] = TRUE /\ phase'[here] = "on"
        BY <2>1 DEF TypeOK
      <4> QED BY <3>1, <4>1, IsLate
    <3>2. CASE r # here
      <4>1. answered'[r] = answered[r] /\ late'[r] = late[r]
        BY <2>1, <3>2 DEF TypeOK
      <4> QED BY <1>1, <2>1, <4>1 DEF Answered
    <3> QED BY <3>1, <3>2
  <2> QED BY <2>2 DEF Answered
<1>7. ASSUME NEW here \in Rooms, Proceeds(here)
      PROVE  Answered'
  <2>1. PICK wait \in BOOLEAN :
          /\ request' = [request EXCEPT ![here] = @ + 1]
          /\ waits' = [waits EXCEPT ![here] = wait]
          /\ answered' = [answered EXCEPT ![here] = FALSE]
          /\ Tells(<<Events(here), Request(here, request[here] + 1, wait)>>)
    BY <1>7 DEF Proceeds
  <2>2. phase[here] = "on" /\ (waits[here] \/ answered[here]) /\ UNCHANGED <<phase, late, stale>>
    BY <1>7 DEF Proceeds
  <2> DEFINE next == request[here] + 1
             m == Events(here)
             n == Request(here, next, wait)
             before == Append(toClient, m)
  <2>3. m \in MessageToClient /\ n \in MessageToClient
    <3>1. next \in 1 .. MaxRequests
      BY <1>7, BoundsAssumption DEF Proceeds, TypeOK
    <3> QED BY <3>1, ServerMessages
  <2>4. /\ ~Owing(m, here) /\ Speaks(n, "request", here) /\ n.id = next /\ n.wait = wait
        /\ \A r \in Rooms \ {here} : ~Owing(m, r) /\ ~Owing(n, r)
    BY DEF Events, Request, Owing, Speaks
  <2>5. toClient' = toClient \o <<m, n>>
    BY <2>1 DEF Tells
  <2>6. request'[here] = next
    BY <2>1 DEF TypeOK
  <2> HIDE DEF m, n, next
  <2>7. toClient' = Append(before, n) /\ before \in Seq(MessageToClient)
    BY <1>1, <2>3, <2>5, ConcatTwo, AppendFacts
  <2>8. ASSUME NEW r \in Rooms
        PROVE  RoomAnswers(toClient', toServer', phase'[r], late'[r], stale'[r],
                           request'[r], waits'[r], answered'[r], r)
    <3>1. CASE r = here
      <4>1. waits'[here] = wait /\ answered'[here] = FALSE
        BY <2>1 DEF TypeOK
      <4>2. RoomAnswers(toClient, toServer, "on", late[here], stale[here],
                        request[here], waits[here], answered[here], here)
        BY <2>2 DEF Answered
      <4>3. RoomAnswers(Append(Append(toClient, m), n), toServer, "on", late[here], stale[here],
                        next, wait, FALSE, here)
        BY <1>1, <2>2, <2>3, <2>4, <4>2, AsksNext
      <4> QED BY <1>1, <2>2, <2>6, <2>7, <3>1, <4>1, <4>3
    <3>2. CASE r # here
      <4>1. request'[r] = request[r] /\ waits'[r] = waits[r] /\ answered'[r] = answered[r]
        BY <2>1, <3>2 DEF TypeOK
      <4>2. RoomAnswers(toClient, toServer, phase[r], late[r], stale[r],
                        request[r], waits[r], answered[r], r)
        BY DEF Answered
      <4>3. RoomAnswers(before, toServer, phase[r], late[r], stale[r],
                        request[r], waits[r], answered[r], r)
        BY <1>1, <2>3, <2>4, <3>2, <4>2, TellsNoQuestion
      <4> HIDE DEF before
      <4>4. RoomAnswers(Append(before, n), toServer, phase[r], late[r], stale[r],
                        request[r], waits[r], answered[r], r)
        BY <2>3, <2>4, <2>7, <3>2, <4>3, TellsNoQuestion
      <4> QED BY <1>1, <2>2, <2>7, <4>1, <4>4
    <3> QED BY <3>1, <3>2
  <2> QED BY <2>8 DEF Answered
<1>8. ASSUME NEW here \in Rooms, Ends(here)
      PROVE  Answered'
  <2>1. Win(here) \in MessageToClient /\ \A r \in Rooms : ~Owing(Win(here), r)
    BY DEF Win, MessageToClient, RoomMessage, Owing, Speaks
  <2>2. toClient' = Append(toClient, Win(here))
    BY <1>1, <1>8, <2>1, ConcatOne DEF Ends, Tells
  <2>3. ASSUME NEW r \in Rooms
        PROVE  RoomAnswers(toClient', toServer', phase'[r], late'[r], stale'[r],
                           request'[r], waits'[r], answered'[r], r)
    <3>1. CASE r = here
      <4>1. phase'[here] = "over" /\ stale'[here] = FALSE
        BY <1>8 DEF Ends, TypeOK
      <4> QED BY <3>1, <4>1 DEF RoomAnswers
    <3>2. CASE r # here
      <4>1. /\ phase'[r] = phase[r] /\ late'[r] = late[r] /\ stale'[r] = stale[r]
            /\ request'[r] = request[r] /\ waits'[r] = waits[r] /\ answered'[r] = answered[r]
        BY <1>8, <3>2 DEF Ends, TypeOK
      <4> QED BY <1>3, <2>1, <2>2, <4>1
    <3> QED BY <3>1, <3>2
  <2> QED BY <2>3 DEF Answered
<1>9. ASSUME NEW here \in Rooms, SaysMore(here)
      PROVE  Answered'
  <2>1. PICK m \in {Events(here), Junk} : Tells(<<m>>)
    BY <1>9 DEF SaysMore
  <2>2. m \in MessageToClient /\ \A r \in Rooms : ~Owing(m, r)
    <3>1. Events(here) \in MessageToClient
      BY DEF Events, MessageToClient, RoomMessage
    <3> QED BY <2>1, <3>1, NoQuestions, PlainMessages
  <2>3. toClient' = Append(toClient, m)
    BY <1>1, <2>1, <2>2, ConcatOne DEF Tells
  <2>4. /\ phase[here] = "over" /\ phase' = [phase EXCEPT ![here] = "quiet"]
        /\ UNCHANGED <<late, stale, request, waits, answered>>
    BY <1>9 DEF SaysMore
  <2>5. ASSUME NEW r \in Rooms
        PROVE  RoomAnswers(toClient', toServer', phase'[r], late'[r], stale'[r],
                           request'[r], waits'[r], answered'[r], r)
    <3>1. CASE r = here
      <4>1. phase'[here] = "quiet" /\ ~stale[here]
        BY <2>4 DEF TypeOK, Answered, RoomAnswers
      <4> QED BY <2>4, <3>1, <4>1 DEF RoomAnswers
    <3>2. CASE r # here
      <4>1. phase'[r] = phase[r]
        BY <2>4, <3>2 DEF TypeOK
      <4> QED BY <1>3, <2>2, <2>3, <2>4, <4>1
    <3> QED BY <3>1, <3>2
  <2> QED BY <2>5 DEF Answered
<1> QED BY <1>2, <1>4, <1>5, <1>6, <1>7, <1>8, <1>9 DEF ServerActs

LEMMA InitAnswers == Init => Answered
<1> SUFFICES ASSUME Init PROVE Answered
  OBVIOUS
<1>1. toClient = <<Challstr>> /\ Len(toClient) = 1 /\ toClient[1] = Challstr /\ Len(toServer) = 0
  BY DEF Init
<1>2. ASSUME NEW r \in Rooms
      PROVE  NoAnswer(toClient, toServer, r)
  <2>1. ~Owing(Challstr, r)
    BY DEF Owing, Speaks, Challstr
  <2> QED BY <1>1, <2>1 DEF NoAnswer
<1>3. \A r \in Rooms : phase[r] = "unused" /\ ~stale[r] /\ ~waits[r] /\ ~answered[r]
  BY DEF Init
<1> QED BY <1>2, <1>3 DEF Answered, RoomAnswers

\* However blocks and answers cross, the server takes a choice for the request
\* that it was worked out for, unless it has answered for the client or has
\* refused a choice and asked again.
THEOREM ChoicesAnswerTheirRequest == Spec => []ChoicesAreCurrent
<1> DEFINE Inv == TypeOK /\ HasRequest /\ Answered
<1>1. Init => Inv
  BY InitTypes, InitAnswers
<1>2. Inv /\ [Next]_vars => Inv'
  <2>1. SUFFICES ASSUME Inv, [Next]_vars PROVE Answered'
    BY StepKeepsTypes
  <2>2. CASE UNCHANGED vars
    BY <2>1, <2>2 DEF Answered, vars, clientVars, client, server, rooms
  <2> QED BY <2>1, <2>2, ReadingKeepsAnswers, HearingKeepsAnswers, ActingKeepsAnswers DEF Next
<1>3. Inv => ChoicesAreCurrent
  BY DEF Answered, RoomAnswers, ChoicesAreCurrent
<1> HIDE DEF Inv
<1> QED BY <1>1, <1>2, <1>3, PTL DEF Spec

-----------------------------------------------------------------------------
(* One game at a time: how many messages of some kinds there are.           *)

LEMMA CountFacts ==
    ASSUME NEW S, NEW q \in Seq(S), NEW kinds
    PROVE  /\ Count(q, kinds) \in Nat
           /\ IsFiniteSet({i \in DOMAIN q : q[i].kind \in kinds})
<1>1. DOMAIN q = 1 .. Len(q) /\ Len(q) \in Nat
  OBVIOUS
<1>2. IsFiniteSet(1 .. Len(q))
  BY <1>1, FS_Interval
<1>3. {i \in DOMAIN q : q[i].kind \in kinds} \subseteq 1 .. Len(q)
  BY <1>1
<1> QED BY <1>2, <1>3, FS_Subset, FS_CardinalityType DEF Count

LEMMA CountAppend ==
    ASSUME NEW S, NEW q \in Seq(S), NEW m \in S, NEW kinds
    PROVE  Count(Append(q, m), kinds)
             = Count(q, kinds) + (IF m.kind \in kinds THEN 1 ELSE 0)
<1> DEFINE all == Append(q, m)
           of(s) == {i \in DOMAIN s : s[i].kind \in kinds}
<1>1. /\ Len(q) \in Nat /\ DOMAIN q = 1 .. Len(q) /\ DOMAIN all = 1 .. (Len(q) + 1)
      /\ \A i \in 1 .. Len(q) : all[i] = q[i]
      /\ all[Len(q) + 1] = m
  BY AppendFacts
<1>2. of(all) = IF m.kind \in kinds THEN of(q) \cup {Len(q) + 1} ELSE of(q)
  <2> HIDE DEF all
  <2> QED BY <1>1
<1>3. Len(q) + 1 \notin of(q)
  BY <1>1
<1>4. IsFiniteSet(of(q)) /\ Cardinality(of(q)) \in Nat
  BY CountFacts, FS_CardinalityType
<1>5. Cardinality(of(q) \cup {Len(q) + 1}) = Cardinality(of(q)) + 1
  <2> HIDE DEF of
  <2> QED BY <1>3, <1>4, FS_AddElement
<1>6. Count(q, kinds) = Cardinality(of(q)) /\ Count(all, kinds) = Cardinality(of(all))
  BY DEF Count
<1> HIDE DEF all, of
<1>7. Count(all, kinds) = Count(q, kinds) + (IF m.kind \in kinds THEN 1 ELSE 0)
  BY <1>2, <1>4, <1>5, <1>6
<1> QED BY <1>7 DEF all

LEMMA CountTail ==
    ASSUME NEW S, NEW q \in Seq(S), q # << >>, NEW kinds
    PROVE  Count(q, kinds)
             = Count(Tail(q), kinds) + (IF Head(q).kind \in kinds THEN 1 ELSE 0)
<1> DEFINE rest == Tail(q)
           of(s) == {i \in DOMAIN s : s[i].kind \in kinds}
           later == of(q) \ {1}
           next == [i \in of(rest) |-> i + 1]
<1>1. /\ Len(q) \in Nat /\ Len(q) >= 1 /\ DOMAIN q = 1 .. Len(q)
      /\ rest \in Seq(S) /\ DOMAIN rest = 1 .. (Len(q) - 1)
      /\ \A i \in 1 .. (Len(q) - 1) : rest[i] = q[i + 1]
      /\ Head(q) = q[1]
  BY TailFacts
<1>2. IsFiniteSet(of(rest)) /\ IsFiniteSet(of(q)) /\ Cardinality(of(q)) \in Nat
  BY <1>1, CountFacts, FS_CardinalityType
<1>3. next \in Bijection(of(rest), later)
  <2> HIDE DEF rest
  <2>1. \A i \in of(rest) : i + 1 \in later
    BY <1>1
  <2>2. \A i, j \in of(rest) : i + 1 = j + 1 => i = j
    BY <1>1
  <2>3. \A j \in later : j - 1 \in of(rest) /\ (j - 1) + 1 = j
    BY <1>1
  <2> HIDE DEF later, of
  <2>4. next \in Injection(of(rest), later)
    BY <2>1, <2>2 DEF Injection, IsInjective
  <2>5. next \in Surjection(of(rest), later)
    BY <2>1, <2>3 DEF Surjection
  <2> QED BY <2>4, <2>5 DEF Bijection
<1>4. Cardinality(later) = Cardinality(of(rest))
  <2> HIDE DEF later, of, next
  <2> QED BY <1>2, <1>3, FS_Bijection DEF ExistsBijection
<1>5. Cardinality(later)
        = IF Head(q).kind \in kinds THEN Cardinality(of(q)) - 1 ELSE Cardinality(of(q))
  <2>1. 1 \in of(q) <=> Head(q).kind \in kinds
    BY <1>1
  <2> HIDE DEF of
  <2> QED BY <1>2, <2>1, FS_RemoveElement
<1>6. Count(q, kinds) = Cardinality(of(q)) /\ Count(rest, kinds) = Cardinality(of(rest))
  BY DEF Count
<1>7. Count(q, kinds) \in Nat
  BY CountFacts
<1> HIDE DEF rest, of, later, next
<1>8. Count(rest, kinds)
        = IF Head(q).kind \in kinds THEN Count(q, kinds) - 1 ELSE Count(q, kinds)
  BY <1>4, <1>5, <1>6
<1>9. Count(q, kinds) = Count(rest, kinds) + (IF Head(q).kind \in kinds THEN 1 ELSE 0)
  BY <1>7, <1>8
<1> QED BY <1>9 DEF rest

LEMMA ConcatFacts ==
    ASSUME NEW S, NEW q \in Seq(S), NEW s \in Seq(S)
    PROVE  /\ q \o s \in Seq(S)
           /\ Len(q) \in Nat /\ Len(s) \in Nat /\ Len(q \o s) = Len(q) + Len(s)
           /\ DOMAIN (q \o s) = 1 .. (Len(q) + Len(s)) /\ DOMAIN q = 1 .. Len(q)
           /\ \A i \in 1 .. Len(q) : (q \o s)[i] = q[i]
           /\ \A i \in (Len(q) + 1) .. (Len(q) + Len(s)) :
                 i - Len(q) \in 1 .. Len(s) /\ (q \o s)[i] = s[i - Len(q)]
  OBVIOUS

\* None of these messages is of the kinds.
Others(s, kinds) == \A i \in 1 .. Len(s) : s[i].kind \notin kinds

LEMMA CountOthers ==
    ASSUME NEW S, NEW q \in Seq(S), NEW s \in Seq(S), NEW kinds, Others(s, kinds)
    PROVE  Count(q \o s, kinds) = Count(q, kinds)
<1> DEFINE all == q \o s
<1>1. /\ Len(q) \in Nat /\ Len(s) \in Nat
      /\ DOMAIN all = 1 .. (Len(q) + Len(s)) /\ DOMAIN q = 1 .. Len(q)
      /\ \A i \in 1 .. Len(q) : all[i] = q[i]
      /\ \A i \in (Len(q) + 1) .. (Len(q) + Len(s)) :
            i - Len(q) \in 1 .. Len(s) /\ all[i] = s[i - Len(q)]
  BY ConcatFacts
<1> HIDE DEF all
<1>2. \A i \in DOMAIN all : all[i].kind \in kinds => i \in DOMAIN q
  BY <1>1 DEF Others
<1>3. {i \in DOMAIN all : all[i].kind \in kinds} = {i \in DOMAIN q : q[i].kind \in kinds}
  BY <1>1, <1>2
<1>4. Count(all, kinds) = Count(q, kinds)
  BY <1>3 DEF Count
<1> QED BY <1>4 DEF all

\* The end of a battle in the room is still to be read.
EndUnread(q, r) == \E i \in DOMAIN q : q[i] = Win(r)

LEMMA EndAppend ==
    ASSUME NEW S, NEW q \in Seq(S), NEW m \in S, NEW r
    PROVE  EndUnread(Append(q, m), r) <=> EndUnread(q, r) \/ m = Win(r)
<1> DEFINE all == Append(q, m)
<1>1. /\ Len(q) \in Nat /\ DOMAIN q = 1 .. Len(q) /\ DOMAIN all = 1 .. (Len(q) + 1)
      /\ \A i \in 1 .. Len(q) : all[i] = q[i]
      /\ all[Len(q) + 1] = m
  BY AppendFacts
<1> HIDE DEF all
<1>2. EndUnread(all, r) <=> EndUnread(q, r) \/ m = Win(r)
  BY <1>1 DEF EndUnread
<1> QED BY <1>2 DEF all

LEMMA EndOthers ==
    ASSUME NEW S, NEW q \in Seq(S), NEW s \in Seq(S), Others(s, {"win"}), NEW r
    PROVE  EndUnread(q \o s, r) <=> EndUnread(q, r)
<1> DEFINE all == q \o s
<1>1. /\ Len(q) \in Nat /\ Len(s) \in Nat
      /\ DOMAIN all = 1 .. (Len(q) + Len(s)) /\ DOMAIN q = 1 .. Len(q)
      /\ \A i \in 1 .. Len(q) : all[i] = q[i]
      /\ \A i \in (Len(q) + 1) .. (Len(q) + Len(s)) :
            i - Len(q) \in 1 .. Len(s) /\ all[i] = s[i - Len(q)]
  BY ConcatFacts
<1>2. Win(r).kind = "win"
  BY DEF Win
<1> HIDE DEF all
<1>3. \A i \in DOMAIN all : all[i] = Win(r) => i \in DOMAIN q
  BY <1>1, <1>2 DEF Others
<1>4. EndUnread(all, r) <=> EndUnread(q, r)
  BY <1>1, <1>3 DEF EndUnread
<1> QED BY <1>4 DEF all

LEMMA EndTail ==
    ASSUME NEW S, NEW q \in Seq(S), q # << >>, NEW r
    PROVE  EndUnread(q, r) <=> EndUnread(Tail(q), r) \/ Head(q) = Win(r)
<1> DEFINE rest == Tail(q)
<1>1. /\ Len(q) \in Nat /\ Len(q) >= 1 /\ DOMAIN q = 1 .. Len(q)
      /\ rest \in Seq(S) /\ DOMAIN rest = 1 .. (Len(q) - 1)
      /\ \A i \in 1 .. (Len(q) - 1) : rest[i] = q[i + 1]
      /\ Head(q) = q[1]
  BY TailFacts
<1> HIDE DEF rest
<1>2. EndUnread(rest, r) => EndUnread(q, r)
  BY <1>1 DEF EndUnread
<1>3. Head(q) = Win(r) => EndUnread(q, r)
  BY <1>1 DEF EndUnread
<1>4. ASSUME NEW i \in DOMAIN q, q[i] = Win(r), i # 1
      PROVE  EndUnread(rest, r)
  <2>1. i - 1 \in DOMAIN rest /\ rest[i - 1] = q[(i - 1) + 1]
    BY <1>1, <1>4
  <2> QED BY <1>1, <1>4, <2>1 DEF EndUnread
<1>5. EndUnread(q, r) <=> EndUnread(rest, r) \/ Head(q) = Win(r)
  BY <1>1, <1>2, <1>3, <1>4 DEF EndUnread
<1> QED BY <1>5 DEF rest

-----------------------------------------------------------------------------
(* Whenever the end of a battle is read, the client has the battle, and so   *)
(* looks for the next one.                                                  *)

EndHasBattle(b, q, r) ==
    \A i \in 1 .. Len(q) : Speaks(q[i], "win", r) =>
        b # "absent" \/ \E j \in 1 .. (i - 1) : Speaks(q[j], "init", r)

LEMMA EndAfterTelling ==
    ASSUME NEW S, NEW q \in Seq(S), NEW s \in Seq(S), NEW b, NEW r,
           EndHasBattle(b, q, r), Others(s, {"win"})
    PROVE  EndHasBattle(b, q \o s, r)
<1> DEFINE all == q \o s
<1>1. /\ Len(q) \in Nat /\ Len(s) \in Nat /\ Len(all) = Len(q) + Len(s)
      /\ \A i \in 1 .. Len(q) : all[i] = q[i]
      /\ \A i \in (Len(q) + 1) .. (Len(q) + Len(s)) :
            i - Len(q) \in 1 .. Len(s) /\ all[i] = s[i - Len(q)]
  BY ConcatFacts
<1> HIDE DEF all
<1>2. ASSUME NEW i \in 1 .. Len(all), Speaks(all[i], "win", r)
      PROVE  b # "absent" \/ \E j \in 1 .. (i - 1) : Speaks(all[j], "init", r)
  <2>1. i \in 1 .. Len(q)
    BY <1>1, <1>2 DEF Others, Speaks
  <2>2. b # "absent" \/ \E j \in 1 .. (i - 1) : Speaks(q[j], "init", r)
    BY <1>1, <1>2, <2>1 DEF EndHasBattle
  <2> QED BY <1>1, <2>1, <2>2
<1>3. EndHasBattle(b, all, r)
  BY <1>2 DEF EndHasBattle
<1> QED BY <1>3 DEF all

LEMMA EndAfterWin ==
    ASSUME NEW S, NEW q \in Seq(S), NEW m \in S, NEW b, NEW r, NEW s, NEW p,
           EndHasBattle(b, q, r), RoomOrder(b, q, p, r), s = r => p = "on", m = Win(s)
    PROVE  EndHasBattle(b, Append(q, m), r)
<1> DEFINE all == Append(q, m)
<1>1. /\ Len(q) \in Nat /\ Len(all) = Len(q) + 1
      /\ \A i \in 1 .. Len(q) : all[i] = q[i]
      /\ all[Len(q) + 1] = m
  BY AppendFacts
<1> HIDE DEF all
<1>2. ASSUME NEW i \in 1 .. Len(all), Speaks(all[i], "win", r), b = "absent"
      PROVE  \E j \in 1 .. (i - 1) : Speaks(all[j], "init", r)
  <2>1. CASE i \in 1 .. Len(q)
    <3>1. \E j \in 1 .. (i - 1) : Speaks(q[j], "init", r)
      BY <1>1, <1>2, <2>1 DEF EndHasBattle
    <3> QED BY <1>1, <2>1, <3>1
  <2>2. CASE i = Len(q) + 1
    <3>1. s = r
      BY <1>1, <1>2, <2>2 DEF Speaks, Win
    <3>2. PICK k \in 1 .. Len(q) : Speaks(q[k], "request", r)
      BY <1>2, <3>1 DEF RoomOrder
    <3>3. PICK j \in 1 .. (k - 1) : Speaks(q[j], "init", r)
      BY <1>2, <3>2 DEF RoomOrder
    <3> QED BY <1>1, <2>2, <3>2, <3>3
  <2> QED BY <1>1, <2>1, <2>2
<1>3. EndHasBattle(b, all, r)
  BY <1>2 DEF EndHasBattle
<1> QED BY <1>3 DEF all

LEMMA EndAfterReading ==
    ASSUME NEW S, NEW q \in Seq(S), q # << >>, NEW b, NEW r,
           EndHasBattle(b, q, r), ~Speaks(Head(q), "init", r)
    PROVE  EndHasBattle(b, Tail(q), r)
<1> DEFINE rest == Tail(q)
<1>1. /\ Len(q) \in Nat /\ Len(q) >= 1 /\ Len(rest) = Len(q) - 1
      /\ \A i \in 1 .. (Len(q) - 1) : rest[i] = q[i + 1]
      /\ Head(q) = q[1]
  BY TailFacts
<1> HIDE DEF rest
<1>2. ASSUME NEW i \in 1 .. Len(rest), Speaks(rest[i], "win", r), b = "absent"
      PROVE  \E j \in 1 .. (i - 1) : Speaks(rest[j], "init", r)
  <2>1. i + 1 \in 1 .. Len(q) /\ rest[i] = q[i + 1]
    BY <1>1
  <2>2. PICK j \in 1 .. ((i + 1) - 1) : Speaks(q[j], "init", r)
    BY <1>2, <2>1 DEF EndHasBattle
  <2>3. j # 1
    BY <1>1, <2>2
  <2>4. j - 1 \in 1 .. (i - 1) /\ rest[j - 1] = q[(j - 1) + 1]
    BY <1>1, <2>2, <2>3
  <2> QED BY <2>2, <2>4
<1>3. EndHasBattle(b, rest, r)
  BY <1>2 DEF EndHasBattle
<1> QED BY <1>3 DEF rest

LEMMA NoEndAfterWin ==
    ASSUME NEW S, NEW q \in Seq(S), q # << >>, NEW b, NEW p, NEW r,
           RoomOrder(b, q, p, r), Speaks(Head(q), "win", r)
    PROVE  /\ p # "on"
           /\ \A i \in 1 .. Len(Tail(q)) : ~Speaks(Tail(q)[i], "win", r)
<1> DEFINE rest == Tail(q)
<1>1. /\ Len(q) \in Nat /\ Len(q) >= 1 /\ Len(rest) = Len(q) - 1
      /\ \A i \in 1 .. (Len(q) - 1) : rest[i] = q[i + 1]
      /\ Head(q) = q[1]
  BY TailFacts
<1> HIDE DEF rest
<1>2. p # "on" /\ \A j \in 2 .. Len(q) : OfBattle(q[j], r) => Speaks(q[j], "events", r)
  BY <1>1 DEF RoomOrder
<1>3. \A i \in 1 .. Len(rest) : ~Speaks(rest[i], "win", r)
  BY <1>1, <1>2 DEF OfBattle, Speaks
<1> QED BY <1>2, <1>3 DEF rest

-----------------------------------------------------------------------------
(* A client that does not wait to be challenged.                            *)

Open == {r \in Rooms : UnderWay(r)}

OnePlays ==
    style # "Accept" =>
        /\ Others(toServer, {"accept"})
        /\ \A r \in Rooms : EndHasBattle(battles[r], toClient, r)
        /\ IsFiniteSet(Open)
        /\ Games = 1

Tries == Count(toServer, {"search", "challenge"})

LEMMA GamesAdd ==
    ASSUME TypeOK, IsFiniteSet(Open)
    PROVE  /\ Count(toClient, {"challstr"}) \in Nat /\ Tries \in Nat
           /\ seeking \in Nat /\ Cardinality(Open) \in Nat
           /\ Games = Count(toClient, {"challstr"}) + Tries + seeking
                      + (IF declined THEN 1 ELSE 0) + Cardinality(Open)
  BY CountFacts, FS_CardinalityType DEF TypeOK, Games, Open, Tries

LEMMA OthersAdd ==
    ASSUME NEW S, NEW q \in Seq(S), NEW s \in Seq(S), NEW kinds, Others(q, kinds), Others(s, kinds)
    PROVE  Others(q \o s, kinds)
<1> DEFINE all == q \o s
<1>1. /\ Len(q) \in Nat /\ Len(s) \in Nat /\ Len(all) = Len(q) + Len(s)
      /\ \A i \in 1 .. Len(q) : all[i] = q[i]
      /\ \A i \in (Len(q) + 1) .. (Len(q) + Len(s)) :
            i - Len(q) \in 1 .. Len(s) /\ all[i] = s[i - Len(q)]
  BY ConcatFacts
<1> HIDE DEF all
<1>2. ASSUME NEW i \in 1 .. Len(all)
      PROVE  all[i].kind \notin kinds
  <2>1. CASE i \in 1 .. Len(q)
    BY <1>1, <2>1 DEF Others
  <2>2. CASE i \in (Len(q) + 1) .. (Len(q) + Len(s))
    BY <1>1, <2>2 DEF Others
  <2> QED BY <1>1, <2>1, <2>2
<1>3. Others(all, kinds)
  BY <1>2 DEF Others
<1> QED BY <1>3 DEF all

LEMMA OthersOne ==
    ASSUME NEW m, NEW kinds, m.kind \notin kinds
    PROVE  Others(<<m>>, kinds)
  BY DEF Others

LEMMA OthersTwo ==
    ASSUME NEW m, NEW n, NEW kinds, m.kind \notin kinds, n.kind \notin kinds
    PROVE  Others(<<m, n>>, kinds)
  BY DEF Others

LEMMA OthersNone ==
    ASSUME NEW kinds
    PROVE  Others(<< >>, kinds)
  BY DEF Others

LEMMA OthersTail ==
    ASSUME NEW S, NEW q \in Seq(S), q # << >>, NEW kinds, Others(q, kinds)
    PROVE  Others(Tail(q), kinds)
  BY TailFacts DEF Others

\* What is read is neither the start of the session nor the end of a battle, and
\* what is answered has nothing to do with games.
LEMMA ReadsWithinGame ==
    ASSUME TypeOK, TypeOK', OnePlays, style # "Accept", UNCHANGED <<style, server>>,
           toClient # << >>, toClient' = Tail(toClient), message.kind \notin {"challstr", "win"},
           NEW s \in Seq(MessageToServer), toServer' = toServer \o s,
           Others(s, {"search", "challenge", "accept"}),
           \A r \in Rooms : \/ battles'[r] # "absent"
                            \/ battles'[r] = battles[r] /\ ~Speaks(message, "init", r)
    PROVE  OnePlays'
<1> USE DEF server, rooms
<1>1. toClient \in Seq(MessageToClient) /\ toServer \in Seq(MessageToServer)
  BY DEF TypeOK
<1>2. message = Head(toClient)
  BY DEF message
<1>3. Others(toServer', {"accept"})
  <2>1. Others(s, {"accept"})
    BY DEF Others
  <2> QED BY <1>1, <2>1, OthersAdd DEF OnePlays
<1>4. \A r \in Rooms : EndHasBattle(battles'[r], toClient', r)
  <2>1. ASSUME NEW r \in Rooms
        PROVE  EndHasBattle(battles'[r], toClient', r)
    <3>1. CASE battles'[r] # "absent"
      BY <3>1 DEF EndHasBattle
    <3>2. CASE battles'[r] = battles[r] /\ ~Speaks(message, "init", r)
      BY <1>1, <1>2, <3>2, EndAfterReading DEF OnePlays
    <3> QED BY <3>1, <3>2
  <2> QED BY <2>1
<1>5. Open' = Open
  <2>1. ASSUME NEW r \in Rooms
        PROVE  EndUnread(toClient', r) <=> EndUnread(toClient, r)
    BY <1>1, <1>2, EndTail DEF Win
  <2> QED BY <2>1 DEF Open, UnderWay, EndUnread
<1>6. Count(toClient', {"challstr"}) = Count(toClient, {"challstr"})
  <2>1. Count(toClient, {"challstr"}) = Count(toClient', {"challstr"}) + 0
    BY <1>1, <1>2, CountTail
  <2>2. Count(toClient', {"challstr"}) \in Nat
    BY CountFacts DEF TypeOK
  <2> QED BY <2>1, <2>2
<1>7. Tries' = Tries
  <2>1. Others(s, {"search", "challenge"})
    BY DEF Others
  <2> QED BY <1>1, <2>1, CountOthers DEF Tries
<1>8. IsFiniteSet(Open)
  BY DEF OnePlays
<1>9. Games' = Games
  BY <1>5, <1>6, <1>7 DEF Games, Tries, Open
<1> QED BY <1>3, <1>4, <1>5, <1>8, <1>9 DEF OnePlays

LEMMA SearchesOnce ==
    ASSUME TypeOK, style # "Accept"
    PROVE  \E m \in MessageToServer : /\ SendChallenge = <<m>>
                                      /\ m.kind \in {"search", "challenge"}
  BY SearchMessages DEF SendChallenge, Search, Challenge, TypeOK

LEMMA LoggingInKeepsGame ==
    ASSUME TypeOK, TypeOK', OnePlays, style # "Accept", LogsIn, UNCHANGED server
    PROVE  OnePlays'
<1> USE DEF server, rooms, client
<1>1. toClient \in Seq(MessageToClient) /\ toServer \in Seq(MessageToServer)
  BY DEF TypeOK
<1>2. /\ toClient # << >> /\ toClient' = Tail(toClient) /\ Head(toClient).kind = "challstr"
      /\ UNCHANGED <<style, battles>> /\ toServer' = toServer \o SendChallenge
  BY DEF LogsIn, Reads, Sends
<1>3. PICK m \in MessageToServer : SendChallenge = <<m>> /\ m.kind \in {"search", "challenge"}
  BY SearchesOnce
<1>4. toServer' = Append(toServer, m)
  BY <1>1, <1>2, <1>3, ConcatOne
<1>5. Others(toServer', {"accept"})
  <2>1. Others(<<m>>, {"accept"}) /\ <<m>> \in Seq(MessageToServer)
    BY <1>3, OthersOne, One
  <2> QED BY <1>1, <1>2, <1>3, <2>1, OthersAdd DEF OnePlays
<1>6. \A r \in Rooms : EndHasBattle(battles'[r], toClient', r)
  BY <1>1, <1>2, EndAfterReading DEF OnePlays, Speaks
<1>7. Open' = Open
  <2>1. ASSUME NEW r \in Rooms
        PROVE  EndUnread(toClient', r) <=> EndUnread(toClient, r)
    BY <1>1, <1>2, EndTail DEF Win
  <2> QED BY <2>1 DEF Open, UnderWay, EndUnread
<1>8. Count(toClient, {"challstr"}) = Count(toClient', {"challstr"}) + 1
  BY <1>1, <1>2, CountTail
<1>9. Tries' = Tries + 1
  BY <1>1, <1>3, <1>4, CountAppend DEF Tries
<1>10. IsFiniteSet(Open)
  BY DEF OnePlays
<1>11. Games' = Games
  <2>1. /\ Count(toClient, {"challstr"}) \in Nat /\ Tries \in Nat
        /\ seeking \in Nat /\ Cardinality(Open) \in Nat
        /\ Games = Count(toClient, {"challstr"}) + Tries + seeking
                   + (IF declined THEN 1 ELSE 0) + Cardinality(Open)
    BY <1>10, GamesAdd
  <2>2. Games' = Count(toClient', {"challstr"}) + Tries' + seeking'
                 + (IF declined' THEN 1 ELSE 0) + Cardinality(Open')
    BY DEF Games, Tries, Open
  <2>3. Count(toClient', {"challstr"}) \in Nat
    BY CountFacts DEF TypeOK
  <2>4. (IF declined THEN 1 ELSE 0) \in Nat /\ declined' = declined /\ seeking' = seeking
    OBVIOUS
  <2> QED BY <1>7, <1>8, <1>9, <2>1, <2>2, <2>3, <2>4
<1> QED BY <1>2, <1>5, <1>6, <1>7, <1>10, <1>11 DEF OnePlays

LEMMA Pair ==
    ASSUME NEW S, NEW m \in S, NEW n \in S
    PROVE  <<m>> \o <<n>> = <<m, n>>
<1>1. <<m>> \in Seq(S)
  BY One
<1>2. <<m>> \o <<n>> = Append(<<m>>, n)
  BY <1>1, ConcatOne
<1>3. Append(<<m>>, n) = <<m, n>>
  <2> DEFINE s == Append(<<m>>, n)
             t == <<m, n>>
  <2>1. s \in Seq(S) /\ Len(s) = 2 /\ s[1] = m /\ s[2] = n
    BY <1>1, AppendFacts
  <2>2. t \in Seq(S) /\ Len(t) = 2 /\ t[1] = m /\ t[2] = n
    BY Two
  <2> HIDE DEF s, t
  <2>3. \A i \in 1 .. Len(s) : s[i] = t[i]
    BY <2>1, <2>2
  <2>4. s = t
    BY <2>1, <2>2, <2>3, SeqEqual
  <2> QED BY <2>4 DEF s, t
<1> QED BY <1>2, <1>3

\* The end of a battle is read: the client looks for the next.
LEMMA FinishingKeepsGame ==
    ASSUME TypeOK, TypeOK', InOrder, OnePlays, style # "Accept", HandleFinish, ~failed',
           UNCHANGED server
    PROVE  OnePlays'
<1> USE DEF server, rooms
<1> DEFINE here == message.room
<1>1. toClient \in Seq(MessageToClient) /\ toServer \in Seq(MessageToServer)
  BY DEF TypeOK
<1>2. /\ toClient # << >> /\ toClient' = Tail(toClient) /\ message.kind = "win"
      /\ message = Head(toClient) /\ message \in MessageToClient /\ here \in Rooms
  BY <1>1, TailFacts, MessageFields DEF HandleFinish, Reads, message
<1>3. message = Win(here)
  BY <1>2 DEF MessageToClient, RoomMessage, Win
<1>4. battles[here] # "absent"
  <2>1. Len(toClient) \in Nat /\ Len(toClient) >= 1 /\ toClient[1] = message
    BY <1>1, <1>2, TailFacts
  <2>2. 1 \in 1 .. Len(toClient) /\ Speaks(toClient[1], "win", here)
    BY <1>2, <2>1 DEF Speaks
  <2>3. EndHasBattle(battles[here], toClient, here)
    BY <1>2 DEF OnePlays
  <2>4. battles[here] # "absent" \/ \E j \in 1 .. (1 - 1) : Speaks(toClient[j], "init", here)
    BY <2>2, <2>3 DEF EndHasBattle
  <2> QED BY <2>4
<1>5. battles[here] # "init"
  BY <1>2 DEF HandleFinish, Throws
<1>6. /\ battles' = [battles EXCEPT ![here] = "absent"]
      /\ toServer' = toServer \o (<<Leave(here)>> \o SendChallenge) /\ UNCHANGED style
  BY <1>4, <1>5 DEF HandleFinish, Sends
<1>7. PICK m \in MessageToServer : SendChallenge = <<m>> /\ m.kind \in {"search", "challenge"}
  BY SearchesOnce
<1>8. /\ Leave(here) \in MessageToServer /\ Leave(here).kind = "leave"
      /\ toServer' = toServer \o <<Leave(here), m>>
      /\ toServer' = Append(Append(toServer, Leave(here)), m)
  <2>1. Leave(here) \in MessageToServer /\ Leave(here).kind = "leave"
    BY <1>2 DEF Leave, MessageToServer
  <2>2. <<Leave(here)>> \o <<m>> = <<Leave(here), m>>
    BY <1>7, <2>1, Pair
  <2> QED BY <1>1, <1>6, <1>7, <2>1, <2>2, ConcatTwo
<1>9. Others(toServer', {"accept"})
  <2> DEFINE both == <<Leave(here), m>>
  <2>1. Others(both, {"accept"}) /\ both \in Seq(MessageToServer)
    BY <1>7, <1>8, OthersTwo, Two
  <2>2. toServer' = toServer \o both
    BY <1>8
  <2> HIDE DEF both
  <2> QED BY <1>1, <2>1, <2>2, OthersAdd DEF OnePlays
<1>10. /\ phase[here] # "on"
       /\ \A i \in 1 .. Len(toClient') : ~Speaks(toClient'[i], "win", here)
  BY <1>1, <1>2, NoEndAfterWin DEF InOrder, Speaks
<1>11. \A r \in Rooms : EndHasBattle(battles'[r], toClient', r)
  <2>1. EndHasBattle(battles'[here], toClient', here)
    BY <1>10 DEF EndHasBattle
  <2>2. ASSUME NEW r \in Rooms, r # here
        PROVE  EndHasBattle(battles'[r], toClient', r)
    <3>1. battles'[r] = battles[r] /\ ~Speaks(message, "init", r)
      BY <1>2, <1>6, <2>2 DEF TypeOK, Speaks
    <3> QED BY <1>1, <1>2, <3>1, EndAfterReading DEF OnePlays
  <2> QED BY <2>1, <2>2
<1>12. /\ here \in Open /\ here \notin Open'
       /\ \A r \in Rooms : r # here => (r \in Open <=> r \in Open')
  <2>1. \A r \in Rooms : EndUnread(toClient, r) <=> EndUnread(toClient', r) \/ message = Win(r)
    BY <1>1, <1>2, EndTail
  <2>2. \A r \in Rooms : message = Win(r) => r = here
    BY <1>3 DEF Win
  <2>3. ~EndUnread(toClient', here)
    <3>1. DOMAIN toClient' = 1 .. Len(toClient')
      BY DEF TypeOK
    <3>2. Speaks(Win(here), "win", here)
      BY DEF Win, Speaks
    <3> QED BY <1>10, <3>1, <3>2 DEF EndUnread
  <2>4. \A r \in Rooms : /\ r \in Open <=> phase[r] = "on" \/ EndUnread(toClient, r)
                         /\ r \in Open' <=> phase[r] = "on" \/ EndUnread(toClient', r)
    BY DEF Open, UnderWay, EndUnread
  <2> QED BY <1>2, <1>3, <1>10, <2>1, <2>2, <2>3, <2>4
<1>13. Open' = Open \ {here}
  <2>1. Open \subseteq Rooms /\ Open' \subseteq Rooms
    BY DEF Open
  <2> QED BY <1>12, <2>1
<1>14. IsFiniteSet(Open)
  BY DEF OnePlays
<1>15. IsFiniteSet(Open') /\ Cardinality(Open') = Cardinality(Open) - 1
  BY <1>12, <1>13, <1>14, FS_RemoveElement
<1>16. Count(toClient, {"challstr"}) = Count(toClient', {"challstr"}) + 0
  BY <1>1, <1>2, CountTail
<1>17. Tries' = Tries + 1
  <2> DEFINE leave == Leave(here)
             left == Append(toServer, leave)
             kinds == {"search", "challenge"}
  <2>1. left \in Seq(MessageToServer) /\ Count(left, kinds) = Count(toServer, kinds) + 0
    <3>1. leave \in MessageToServer /\ leave.kind \notin kinds
      BY <1>8
    <3> HIDE DEF leave, kinds
    <3> QED BY <1>1, <3>1, AppendFacts, CountAppend
  <2>2. toServer' = Append(left, m)
    BY <1>8
  <2> HIDE DEF left
  <2>3. Count(toServer', kinds) = Count(left, kinds) + 1
    BY <1>7, <2>1, <2>2, CountAppend
  <2>4. Count(toServer, kinds) \in Nat
    BY CountFacts DEF TypeOK
  <2> QED BY <2>1, <2>3, <2>4 DEF Tries
<1>18. Games' = Games
  <2>1. /\ Count(toClient, {"challstr"}) \in Nat /\ Tries \in Nat
        /\ seeking \in Nat /\ Cardinality(Open) \in Nat
        /\ Games = Count(toClient, {"challstr"}) + Tries + seeking
                   + (IF declined THEN 1 ELSE 0) + Cardinality(Open)
    BY <1>14, GamesAdd
  <2>2. Games' = Count(toClient', {"challstr"}) + Tries' + seeking'
                 + (IF declined' THEN 1 ELSE 0) + Cardinality(Open')
    BY DEF Games, Tries, Open
  <2>3. Count(toClient', {"challstr"}) \in Nat
    BY CountFacts DEF TypeOK
  <2>4. (IF declined THEN 1 ELSE 0) \in Nat /\ declined' = declined /\ seeking' = seeking
    OBVIOUS
  <2> QED BY <1>15, <1>16, <1>17, <2>1, <2>2, <2>3, <2>4
<1> QED BY <1>6, <1>9, <1>11, <1>15, <1>18 DEF OnePlays

LEMMA ReadingKeepsGame ==
    ASSUME TypeOK, InOrder, NothingThrows, OnePlays, style # "Accept", Reading
    PROVE  OnePlays'
<1>1. TypeOK' /\ NothingThrows' /\ UNCHANGED server
  BY ReadingKeepsTypes, ReadingKeepsOrder DEF Reading
<1>2. /\ toClient \in Seq(MessageToClient) /\ toClient # << >> /\ message = Head(toClient)
      /\ toClient' = Tail(toClient) /\ message \in MessageToClient
  BY TailFacts DEF Reading, HandleMessages, LogsIn, HandlePM, IgnoresJunk, CreateBattle, HandleEvents,
     HandleFinish, HandleRequest, HandleErrorMessage, Reads, message, TypeOK
<1>3. ASSUME NEW s \in Seq(MessageToServer), toServer' = toServer \o s,
             Others(s, {"search", "challenge", "accept"}), UNCHANGED <<style, battles>>,
             message.kind \notin {"challstr", "win", "init"}
      PROVE  OnePlays'
  BY <1>1, <1>2, <1>3, ReadsWithinGame DEF Speaks
<1>4. << >> \in Seq(MessageToServer) /\ toServer \o << >> = toServer
      /\ Others(<< >>, {"search", "challenge", "accept"})
  <2>1. << >> \in Seq(MessageToServer)
    OBVIOUS
  <2>2. toServer \o << >> = toServer
    BY ConcatNone DEF TypeOK
  <2> QED BY <2>1, <2>2, OthersNone
<1>5. CASE LogsIn
  BY <1>1, <1>5, LoggingInKeepsGame
<1>6. CASE HandlePM
  <2>1. message.kind = "pm" /\ UNCHANGED <<style, battles>>
    BY <1>6 DEF HandlePM, Reads, message, client
  <2>2. CASE message.from = Me \/ ~message.challenges
    <3>1. toServer' = toServer \o << >>
      BY <1>6, <2>2 DEF HandlePM, Sends
    <3> QED BY <1>3, <1>4, <2>1, <3>1
  <2>3. CASE ~(message.from = Me \/ ~message.challenges)
    <3> DEFINE m == Rejects(message.from)
    <3>1. toServer' = toServer \o <<m>>
      BY <1>6, <2>3 DEF HandlePM, Sends, ShouldAcceptChallenge
    <3>2. message.from \in Users
      BY <1>2, <2>1, <2>3, MessageFields
    <3>3. m \in MessageToServer /\ m.kind \notin {"search", "challenge", "accept"}
      BY <3>2 DEF Rejects, MessageToServer
    <3>4. <<m>> \in Seq(MessageToServer) /\ Others(<<m>>, {"search", "challenge", "accept"})
      BY <3>3, One, OthersOne
    <3> HIDE DEF m
    <3> QED BY <1>3, <2>1, <3>1, <3>4
  <2> QED BY <2>2, <2>3
<1>7. CASE IgnoresJunk
  BY <1>3, <1>4, <1>7 DEF IgnoresJunk, Reads, message, client
<1>8. CASE CreateBattle
  <2> DEFINE here == message.room
  <2>1. message.kind = "init" /\ here \in Rooms
    BY <1>2, <1>8, MessageFields DEF CreateBattle, Reads, message
  <2>2. /\ battles' = [battles EXCEPT ![here] = "init"]
        /\ UNCHANGED style /\ toServer' = toServer \o << >>
    BY <1>1, <1>4, <1>8 DEF CreateBattle, Throws, NothingThrows
  <2>3. \A r \in Rooms : \/ battles'[r] # "absent"
                         \/ battles'[r] = battles[r] /\ ~Speaks(message, "init", r)
    BY <2>1, <2>2 DEF TypeOK, Speaks
  <2> QED BY <1>1, <1>2, <1>4, <2>1, <2>2, <2>3, ReadsWithinGame
<1>9. CASE HandleEvents
  BY <1>1, <1>3, <1>4, <1>9 DEF HandleEvents, Throws, NothingThrows, Reads, message, client
<1>10. CASE HandleFinish
  BY <1>1, <1>10, FinishingKeepsGame DEF NothingThrows
<1>11. CASE HandleRequest
  <2> DEFINE here == message.room
             kinds == {"search", "challenge", "accept"}
             timerOn == IF shouldStartTimer THEN <<TimerOn(here)>> ELSE << >>
  <2>1. message.kind = "request" /\ here \in Rooms /\ message.id \in 1 .. MaxRequests
    BY <1>2, <1>11, MessageFields DEF HandleRequest, Reads, message
  <2>2. /\ battles' = [battles EXCEPT ![here] = "handler"]
        /\ UNCHANGED style /\ toServer' = toServer \o (SendSelection \o timerOn)
    BY <1>1, <1>11 DEF HandleRequest, Throws, NothingThrows, Sends
  <2>3. SendSelection \in Seq(MessageToServer) /\ Others(SendSelection, kinds)
    <3>1. Choose(here, message.id) \in MessageToServer /\ Choose(here, message.id).kind \notin kinds
      BY <2>1 DEF Choose, MessageToServer
    <3> QED BY <1>4, <3>1, One, OthersOne, OthersNone DEF SendSelection
  <2>4. timerOn \in Seq(MessageToServer) /\ Others(timerOn, kinds)
    <3>1. TimerOn(here) \in MessageToServer /\ TimerOn(here).kind \notin kinds
      BY <2>1 DEF TimerOn, MessageToServer
    <3> QED BY <1>4, <3>1, One, OthersOne, OthersNone
  <2>5. SendSelection \o timerOn \in Seq(MessageToServer) /\ Others(SendSelection \o timerOn, kinds)
    <3> HIDE DEF timerOn, kinds
    <3> QED BY <2>3, <2>4, ConcatType, OthersAdd
  <2>6. \A r \in Rooms : \/ battles'[r] # "absent"
                         \/ battles'[r] = battles[r] /\ ~Speaks(message, "init", r)
    BY <2>1, <2>2 DEF TypeOK, Speaks
  <2> HIDE DEF timerOn
  <2> QED BY <1>1, <1>2, <2>1, <2>2, <2>5, <2>6, ReadsWithinGame
<1>12. CASE HandleErrorMessage
  <2> DEFINE m == ChooseDefault(message.room)
  <2>1. message.kind = "error" /\ UNCHANGED <<style, battles>>
    BY <1>12 DEF HandleErrorMessage, Reads, message, client
  <2>2. CASE message.nothingToChoose
    <3>1. toServer' = toServer \o << >>
      BY <1>12, <2>2 DEF HandleErrorMessage, Sends
    <3> QED BY <1>3, <1>4, <2>1, <3>1
  <2>3. CASE ~message.nothingToChoose
    <3>1. toServer' = toServer \o <<m>>
      BY <1>12, <2>3 DEF HandleErrorMessage, Sends
    <3>2. m \in MessageToServer /\ m.kind \notin {"search", "challenge", "accept"}
      BY <1>2, <2>1, MessageFields DEF ChooseDefault, MessageToServer
    <3>3. <<m>> \in Seq(MessageToServer) /\ Others(<<m>>, {"search", "challenge", "accept"})
      BY <3>2, One, OthersOne
    <3> HIDE DEF m
    <3> QED BY <1>3, <2>1, <3>1, <3>3
  <2> QED BY <2>2, <2>3
<1> QED BY <1>5, <1>6, <1>7, <1>8, <1>9, <1>10, <1>11, <1>12 DEF Reading, HandleMessages

\* The server says something that has nothing to do with when games begin or end.
LEMMA TellingKeepsGame ==
    ASSUME TypeOK, UNCHANGED battles, \A r \in Rooms : EndHasBattle(battles[r], toClient, r),
           NEW s \in Seq(MessageToClient), Others(s, {"challstr", "win"}), toClient' = toClient \o s
    PROVE  /\ Count(toClient', {"challstr"}) = Count(toClient, {"challstr"})
           /\ \A r \in Rooms : EndUnread(toClient', r) <=> EndUnread(toClient, r)
           /\ \A r \in Rooms : EndHasBattle(battles'[r], toClient', r)
<1>1. Others(s, {"challstr"}) /\ Others(s, {"win"})
  BY DEF Others
<1> QED BY <1>1, CountOthers, EndOthers, EndAfterTelling DEF TypeOK

LEMMA SameOpen ==
    ASSUME \A r \in Rooms : EndUnread(toClient', r) <=> EndUnread(toClient, r),
           \A r \in Rooms : phase'[r] = "on" <=> phase[r] = "on"
    PROVE  Open' = Open
  BY DEF Open, UnderWay, EndUnread

LEMMA ActsWithinGame ==
    ASSUME TypeOK, OnePlays, style # "Accept",
           UNCHANGED <<style, battles, toServer, seeking, declined>>,
           \A r \in Rooms : phase'[r] = "on" <=> phase[r] = "on",
           NEW s \in Seq(MessageToClient), Others(s, {"challstr", "win"}), Tells(s)
    PROVE  OnePlays'
<1>1. \A r \in Rooms : EndHasBattle(battles[r], toClient, r)
  BY DEF OnePlays
<1>2. /\ Count(toClient', {"challstr"}) = Count(toClient, {"challstr"})
      /\ \A r \in Rooms : EndUnread(toClient', r) <=> EndUnread(toClient, r)
      /\ \A r \in Rooms : EndHasBattle(battles'[r], toClient', r)
  BY <1>1, TellingKeepsGame DEF Tells
<1>3. Open' = Open
  BY <1>2, SameOpen
<1>4. Games' = Games
  BY <1>2, <1>3 DEF Games, Open
<1> QED BY <1>2, <1>3, <1>4 DEF OnePlays

\* The server hears something: a game is looked for from then on if that is what it heard.
LEMMA HearsWithinGame ==
    ASSUME TypeOK, OnePlays, style # "Accept", UNCHANGED <<style, battles, phase, declined>>,
           toServer # << >>, toServer' = Tail(toServer),
           seeking' = seeking + (IF said.kind \in {"search", "challenge"} THEN 1 ELSE 0),
           NEW s \in Seq(MessageToClient), Others(s, {"challstr", "win"}), Tells(s)
    PROVE  OnePlays'
<1>1. \A r \in Rooms : EndHasBattle(battles[r], toClient, r)
  BY DEF OnePlays
<1>2. /\ Count(toClient', {"challstr"}) = Count(toClient, {"challstr"})
      /\ \A r \in Rooms : EndUnread(toClient', r) <=> EndUnread(toClient, r)
      /\ \A r \in Rooms : EndHasBattle(battles'[r], toClient', r)
  BY <1>1, TellingKeepsGame DEF Tells
<1>3. Open' = Open
  BY <1>2, SameOpen
<1>4. Others(toServer', {"accept"})
  BY OthersTail DEF OnePlays, TypeOK
<1>5. Tries = Tries' + (IF said.kind \in {"search", "challenge"} THEN 1 ELSE 0)
  BY CountTail DEF Tries, said, TypeOK
<1>6. IsFiniteSet(Open)
  BY DEF OnePlays
<1>7. Games' = Games
  <2>1. /\ Count(toClient, {"challstr"}) \in Nat /\ Tries \in Nat
        /\ seeking \in Nat /\ Cardinality(Open) \in Nat
        /\ Games = Count(toClient, {"challstr"}) + Tries + seeking
                   + (IF declined THEN 1 ELSE 0) + Cardinality(Open)
    BY <1>6, GamesAdd
  <2>2. Games' = Count(toClient', {"challstr"}) + Tries' + seeking'
                 + (IF declined' THEN 1 ELSE 0) + Cardinality(Open')
    BY DEF Games, Tries, Open
  <2>3. Tries' \in Nat
    <3>1. toServer' \in Seq(MessageToServer)
      BY TailFacts DEF TypeOK
    <3> QED BY <3>1, CountFacts DEF Tries
  <2>4. (IF declined THEN 1 ELSE 0) \in Nat /\ declined' = declined
    OBVIOUS
  <2> QED BY <1>2, <1>3, <1>5, <2>1, <2>2, <2>3, <2>4
<1> QED BY <1>2, <1>3, <1>4, <1>6, <1>7 DEF OnePlays

LEMMA NoTidings ==
    ASSUME TypeOK, UNCHANGED toClient
    PROVE  << >> \in Seq(MessageToClient) /\ Others(<< >>, {"challstr", "win"}) /\ Tells(<< >>)
<1>1. << >> \in Seq(MessageToClient)
  OBVIOUS
<1>2. toClient \o << >> = toClient
  BY ConcatNone DEF TypeOK
<1> QED BY <1>1, <1>2, OthersNone DEF Tells

LEMMA OneTiding ==
    ASSUME NEW m \in MessageToClient, m.kind \notin {"challstr", "win"}
    PROVE  <<m>> \in Seq(MessageToClient) /\ Others(<<m>>, {"challstr", "win"})
  BY One, OthersOne

LEMMA TwoTidings ==
    ASSUME NEW m \in MessageToClient, NEW n \in MessageToClient,
           m.kind \notin {"challstr", "win"}, n.kind \notin {"challstr", "win"}
    PROVE  <<m, n>> \in Seq(MessageToClient) /\ Others(<<m, n>>, {"challstr", "win"})
  BY Two, OthersTwo

LEMMA TidingKinds ==
    ASSUME NEW r, NEW u, NEW id, NEW yes
    PROVE  /\ PM(u, yes).kind = "pm" /\ Error(r, yes).kind = "error" /\ Junk.kind = "junk"
           /\ BattleInit(r).kind = "init" /\ Request(r, id, yes).kind = "request"
           /\ Events(r).kind = "events"
  BY DEF PM, Error, Junk, BattleInit, Request, Events

LEMMA HearingKeepsGame ==
    ASSUME TypeOK, HasRequest, OnePlays, style # "Accept", HearsClient
    PROVE  OnePlays'
<1> USE DEF client, server, rooms
<1>1. ASSUME NEW kind, Hears(kind)
      PROVE  /\ toServer # << >> /\ toServer' = Tail(toServer) /\ said.kind = kind
             /\ said \in MessageToServer
  BY <1>1, HearingKeepsTypes DEF Hears, said, TypeOK
<1>2. ASSUME NEW kind, kind \notin {"search", "challenge"}, Hears(kind),
             UNCHANGED <<client, toClient, seeking, declined, phase>>
      PROVE  OnePlays'
  <2>1. seeking' = seeking + 0
    BY <1>2 DEF TypeOK
  <2> QED BY <1>1, <1>2, <2>1, NoTidings, HearsWithinGame
<1>3. CASE HearsLeave \/ HearsReject \/ HearsTimer \/ TakesChoice \/ TakesDefault
  BY <1>2, <1>3 DEF HearsLeave, HearsReject, HearsTimer, TakesChoice, TakesDefault
<1>4. CASE HearsSearch
  BY <1>1, <1>4, NoTidings, HearsWithinGame DEF HearsSearch
<1>5. CASE HearsChallenge
  <2> DEFINE m == PM(Me, TRUE)
  <2>1. m \in MessageToClient /\ m.kind = "pm"
    BY DEF PM, MessageToClient
  <2>2. Tells(<<m>>)
    BY <1>5 DEF HearsChallenge
  <2> HIDE DEF m
  <2> QED BY <1>1, <1>5, <2>1, <2>2, OneTiding, HearsWithinGame DEF HearsChallenge
<1>6. CASE HearsAccept
  <2>1. toServer # << >> /\ Head(toServer).kind = "accept"
    BY <1>6 DEF HearsAccept, Hears
  <2>2. 1 \in 1 .. Len(toServer) /\ Head(toServer) = toServer[1]
    BY <2>1, TailFacts DEF TypeOK
  <2> QED BY <2>1, <2>2 DEF OnePlays, Others
<1>7. ASSUME NEW kind, kind \notin {"search", "challenge"}, Hears(kind),
             UNCHANGED <<client, seeking, declined, phase>>,
             NEW s \in Seq(MessageToClient), Others(s, {"challstr", "win"}), Tells(s)
      PROVE  OnePlays'
  <2>1. seeking' = seeking + 0
    BY <1>7 DEF TypeOK
  <2> QED BY <1>1, <1>7, <2>1, HearsWithinGame
<1>8. CASE RefusesChoice
  <2> DEFINE m == Error(said.room, FALSE)
  <2>1. m \in MessageToClient /\ m.kind = "error"
    BY <1>1, <1>8, SaidFields DEF RefusesChoice, Error, MessageToClient, RoomMessage
  <2>2. Tells(<<m>>)
    BY <1>8 DEF RefusesChoice
  <2> HIDE DEF m
  <2> QED BY <1>7, <1>8, <2>1, <2>2, OneTiding DEF RefusesChoice
<1>9. CASE NothingToChoose
  <2> DEFINE m == Error(said.room, TRUE)
  <2>1. m \in MessageToClient /\ m.kind = "error"
    BY <1>1, <1>9, SaidFields DEF NothingToChoose, Error, MessageToClient, RoomMessage
  <2>2. Tells(<<m>>)
    BY <1>9 DEF NothingToChoose
  <2> HIDE DEF m
  <2> QED BY <1>7, <1>9, <2>1, <2>2, OneTiding DEF NothingToChoose
<1>10. CASE RefusesForHiddenReason
  <2> DEFINE here == said.room
             m == Error(here, FALSE)
             n == Request(here, request[here], FALSE)
  <2>1. here \in Rooms /\ request[here] \in 1 .. MaxRequests
    <3>1. here \in Rooms
      BY <1>1, <1>10, SaidFields DEF RefusesForHiddenReason
    <3>2. request[here] # 0 /\ request[here] \in 0 .. MaxRequests
      BY <1>10, <3>1 DEF RefusesForHiddenReason, Asked, HasRequest, TypeOK
    <3> QED BY <3>1, <3>2, BoundsAssumption
  <2>2. m \in MessageToClient /\ n \in MessageToClient /\ m.kind = "error" /\ n.kind = "request"
    BY <2>1 DEF Error, Request, MessageToClient, RoomMessage
  <2>3. Tells(<<m, n>>) /\ Hears("choose") /\ UNCHANGED <<client, seeking, declined, phase>>
    BY <1>10 DEF RefusesForHiddenReason
  <2> HIDE DEF m, n
  <2> QED BY <1>7, <2>2, <2>3, TwoTidings
<1> QED BY <1>3, <1>4, <1>5, <1>6, <1>8, <1>9, <1>10 DEF HearsClient

\* An opponent is found: the room was not under way before.
LEMMA FindingKeepsGame ==
    ASSUME TypeOK, InOrder, OnePlays, style # "Accept", NEW here \in Rooms, FindsOpponent(here)
    PROVE  OnePlays'
<1> USE DEF client
<1>1. /\ UNCHANGED <<style, battles, toServer, declined>> /\ seeking > 0 /\ seeking' = seeking - 1
      /\ Tells(<<BattleInit(here), Request(here, 1, FALSE)>>)
      /\ phase[here] = "unused" /\ phase' = [phase EXCEPT ![here] = "on"]
  BY DEF FindsOpponent, Begins, FirstBlocks
<1>2. /\ Count(toClient', {"challstr"}) = Count(toClient, {"challstr"})
      /\ \A r \in Rooms : EndUnread(toClient', r) <=> EndUnread(toClient, r)
      /\ \A r \in Rooms : EndHasBattle(battles'[r], toClient', r)
  <2> DEFINE m == BattleInit(here)
             n == Request(here, 1, FALSE)
  <2>1. m \in MessageToClient /\ n \in MessageToClient /\ m.kind = "init" /\ n.kind = "request"
    <3>1. 1 \in 1 .. MaxRequests
      BY BoundsAssumption
    <3> QED BY <3>1, ServerMessages, TidingKinds
  <2>2. \A r \in Rooms : EndHasBattle(battles[r], toClient, r)
    BY DEF OnePlays
  <2>3. toClient' = toClient \o <<m, n>>
    BY <1>1 DEF Tells
  <2> HIDE DEF m, n
  <2> QED BY <1>1, <2>1, <2>2, <2>3, TwoTidings, TellingKeepsGame
<1>3. ~EndUnread(toClient, here)
  <2>1. \A i \in 1 .. Len(toClient) : ~OfBattle(toClient[i], here)
    BY <1>1 DEF InOrder, RoomOrder
  <2>2. DOMAIN toClient = 1 .. Len(toClient) /\ OfBattle(Win(here), here)
    BY DEF TypeOK, OfBattle, Speaks, Win
  <2> QED BY <2>1, <2>2 DEF EndUnread
<1>4. Open' = Open \cup {here} /\ here \notin Open
  <2>1. \A r \in Rooms : /\ r \in Open <=> phase[r] = "on" \/ EndUnread(toClient, r)
                         /\ r \in Open' <=> phase'[r] = "on" \/ EndUnread(toClient', r)
    BY DEF Open, UnderWay, EndUnread
  <2>2. \A r \in Rooms : phase'[r] = IF r = here THEN "on" ELSE phase[r]
    BY <1>1 DEF TypeOK
  <2>3. Open \subseteq Rooms /\ Open' \subseteq Rooms
    BY DEF Open
  <2> QED BY <1>1, <1>2, <1>3, <2>1, <2>2, <2>3
<1>5. IsFiniteSet(Open)
  BY DEF OnePlays
<1>6. IsFiniteSet(Open') /\ Cardinality(Open') = Cardinality(Open) + 1
  BY <1>4, <1>5, FS_AddElement
<1>7. Tries' = Tries
  BY <1>1 DEF Tries
<1>8. Games' = Games
  <2>1. /\ Count(toClient, {"challstr"}) \in Nat /\ Tries \in Nat
        /\ seeking \in Nat /\ Cardinality(Open) \in Nat
        /\ Games = Count(toClient, {"challstr"}) + Tries + seeking
                   + (IF declined THEN 1 ELSE 0) + Cardinality(Open)
    BY <1>5, GamesAdd
  <2>2. Games' = Count(toClient', {"challstr"}) + Tries' + seeking'
                 + (IF declined' THEN 1 ELSE 0) + Cardinality(Open')
    BY DEF Games, Tries, Open
  <2>3. (IF declined THEN 1 ELSE 0) \in Nat /\ declined' = declined
    BY <1>1
  <2> QED BY <1>1, <1>2, <1>6, <1>7, <2>1, <2>2, <2>3
<1> QED BY <1>1, <1>2, <1>6, <1>8 DEF OnePlays

\* A battle ends: the room is under way until that is read.
LEMMA EndingKeepsGame ==
    ASSUME TypeOK, InOrder, OnePlays, style # "Accept", NEW here \in Rooms, Ends(here)
    PROVE  OnePlays'
<1> USE DEF client
<1>1. /\ UNCHANGED <<style, battles, toServer, declined, seeking>>
      /\ phase[here] = "on" /\ phase' = [phase EXCEPT ![here] = "over"]
      /\ Tells(<<Win(here)>>)
  BY DEF Ends
<1>2. Win(here) \in MessageToClient /\ toClient \in Seq(MessageToClient)
  BY DEF Win, MessageToClient, RoomMessage, TypeOK
<1>3. toClient' = Append(toClient, Win(here))
  BY <1>1, <1>2, ConcatOne DEF Tells
<1>4. Count(toClient', {"challstr"}) = Count(toClient, {"challstr"})
  <2> DEFINE m == Win(here)
  <2>1. m.kind \notin {"challstr"}
    BY DEF Win
  <2>2. Count(toClient, {"challstr"}) \in Nat
    BY <1>2, CountFacts
  <2> HIDE DEF m
  <2>3. Count(Append(toClient, m), {"challstr"}) = Count(toClient, {"challstr"}) + 0
    BY <1>2, <2>1, CountAppend DEF m
  <2> QED BY <1>3, <2>2, <2>3 DEF m
<1>5. \A r \in Rooms : EndHasBattle(battles'[r], toClient', r)
  <2>1. ASSUME NEW r \in Rooms
        PROVE  EndHasBattle(battles[r], Append(toClient, Win(here)), r)
    <3>1. EndHasBattle(battles[r], toClient, r) /\ RoomOrder(battles[r], toClient, phase[r], r)
      BY DEF OnePlays, InOrder
    <3> QED BY <1>1, <1>2, <3>1, EndAfterWin
  <2> QED BY <1>1, <1>3, <2>1
<1>6. Open' = Open
  <2>1. \A r \in Rooms : EndUnread(toClient', r) <=> EndUnread(toClient, r) \/ Win(here) = Win(r)
    BY <1>2, <1>3, EndAppend
  <2>2. \A r \in Rooms : Win(here) = Win(r) <=> r = here
    BY DEF Win
  <2>3. \A r \in Rooms : /\ r \in Open <=> phase[r] = "on" \/ EndUnread(toClient, r)
                         /\ r \in Open' <=> phase'[r] = "on" \/ EndUnread(toClient', r)
    BY DEF Open, UnderWay, EndUnread
  <2>4. \A r \in Rooms : phase'[r] = IF r = here THEN "over" ELSE phase[r]
    BY <1>1 DEF TypeOK
  <2>5. Open \subseteq Rooms /\ Open' \subseteq Rooms
    BY DEF Open
  <2> QED BY <1>1, <2>1, <2>2, <2>3, <2>4, <2>5
<1>7. Games' = Games
  BY <1>1, <1>4, <1>6 DEF Games, Open
<1> QED BY <1>1, <1>5, <1>6, <1>7 DEF OnePlays

LEMMA ActingKeepsGame ==
    ASSUME TypeOK, InOrder, OnePlays, style # "Accept", ServerActs
    PROVE  OnePlays'
<1> USE DEF client, clientVars, server, rooms
<1>1. CASE Declines
  <2>1. /\ UNCHANGED <<style, battles, toClient, toServer, phase>>
        /\ seeking > 0 /\ seeking' = seeking - 1 /\ declined' = TRUE
    BY <1>1 DEF Declines
  <2>2. /\ Count(toClient, {"challstr"}) \in Nat /\ Tries \in Nat
        /\ seeking \in Nat /\ Cardinality(Open) \in Nat
        /\ Games = Count(toClient, {"challstr"}) + Tries + seeking
                   + (IF declined THEN 1 ELSE 0) + Cardinality(Open)
    BY GamesAdd DEF OnePlays
  <2>3. Open' = Open /\ Tries' = Tries
    BY <2>1 DEF Open, UnderWay, Tries
  <2>4. ~declined
    BY <2>1, <2>2 DEF OnePlays
  <2>5. Games' = Count(toClient', {"challstr"}) + Tries' + seeking'
                 + (IF declined' THEN 1 ELSE 0) + Cardinality(Open')
    BY DEF Games, Tries, Open
  <2>6. Games' = Games
    BY <2>1, <2>2, <2>3, <2>4, <2>5
  <2> QED BY <2>1, <2>3, <2>6 DEF OnePlays
<1>2. ASSUME NEW m \in MessageToClient, m.kind \notin {"challstr", "win"}, Tells(<<m>>),
             UNCHANGED <<client, toServer, seeking, declined>>,
             \A r \in Rooms : phase'[r] = "on" <=> phase[r] = "on"
      PROVE  OnePlays'
  BY <1>2, OneTiding, ActsWithinGame
<1>3. ASSUME NEW u \in Users, IsChallenged(u) \/ Withdraws(u)
      PROVE  OnePlays'
  <2>1. /\ PM(u, TRUE) \in MessageToClient /\ PM(u, FALSE) \in MessageToClient
        /\ PM(u, TRUE).kind = "pm" /\ PM(u, FALSE).kind = "pm"
    BY DEF PM, MessageToClient
  <2> QED BY <1>2, <1>3, <2>1 DEF IsChallenged, Withdraws
<1>4. ASSUME NEW r \in Rooms, FindsOpponent(r)
      PROVE  OnePlays'
  BY <1>4, FindingKeepsGame
<1>5. ASSUME NEW r \in Rooms, TimesOut(r)
      PROVE  OnePlays'
  <2>1. UNCHANGED <<client, toClient, toServer, seeking, declined, phase>>
    BY <1>5 DEF TimesOut
  <2> QED BY <2>1, NoTidings, ActsWithinGame
<1>6. ASSUME NEW here \in Rooms, Proceeds(here)
      PROVE  OnePlays'
  <2>1. PICK wait \in BOOLEAN : Tells(<<Events(here), Request(here, request[here] + 1, wait)>>)
    BY <1>6 DEF Proceeds
  <2> DEFINE m == Events(here)
             n == Request(here, request[here] + 1, wait)
  <2>2. request[here] + 1 \in 1 .. MaxRequests
    BY <1>6, BoundsAssumption DEF Proceeds, TypeOK
  <2>3. m \in MessageToClient /\ n \in MessageToClient /\ m.kind = "events" /\ n.kind = "request"
    BY <2>2, ServerMessages, TidingKinds
  <2>4. Tells(<<m, n>>) /\ UNCHANGED <<client, toServer, seeking, declined, phase>>
    BY <1>6, <2>1 DEF Proceeds
  <2> HIDE DEF m, n
  <2> QED BY <2>3, <2>4, TwoTidings, ActsWithinGame
<1>7. ASSUME NEW here \in Rooms, Ends(here)
      PROVE  OnePlays'
  BY <1>7, EndingKeepsGame
<1>8. ASSUME NEW here \in Rooms, SaysMore(here)
      PROVE  OnePlays'
  <2>1. PICK m \in {Events(here), Junk} : Tells(<<m>>)
    BY <1>8 DEF SaysMore
  <2>2. m \in MessageToClient /\ m.kind \notin {"challstr", "win"}
    BY <2>1, PlainMessages DEF Events, Junk, MessageToClient, RoomMessage
  <2>3. \A r \in Rooms : phase'[r] = "on" <=> phase[r] = "on"
    BY <1>8 DEF SaysMore, TypeOK
  <2> QED BY <1>2, <1>8, <2>1, <2>2, <2>3 DEF SaysMore
<1> QED BY <1>1, <1>3, <1>4, <1>5, <1>6, <1>7, <1>8 DEF ServerActs

LEMMA InitGame == Init => OnePlays
<1> SUFFICES ASSUME Init PROVE OnePlays
  OBVIOUS
<1>1. /\ toClient = <<Challstr>> /\ toServer = << >> /\ seeking = 0 /\ declined = FALSE
      /\ \A r \in Rooms : phase[r] = "unused"
  BY DEF Init
<1>2. Open = {}
  <2>1. DOMAIN toClient = {1} /\ toClient[1] = Challstr
    BY <1>1
  <2>2. \A r \in Rooms : Challstr # Win(r)
    BY DEF Challstr, Win
  <2> QED BY <1>1, <2>1, <2>2 DEF Open, UnderWay
<1>3. Count(toClient, {"challstr"}) = 1
  <2>1. {i \in DOMAIN toClient : toClient[i].kind \in {"challstr"}} = {1}
    BY <1>1 DEF Challstr
  <2> QED BY <2>1, FS_Singleton DEF Count
<1>4. Tries = 0
  <2>1. {i \in DOMAIN toServer : toServer[i].kind \in {"search", "challenge"}} = {}
    BY <1>1
  <2> QED BY <2>1, FS_EmptySet DEF Count, Tries
<1>5. Games = 1
  BY <1>1, <1>2, <1>3, <1>4, FS_EmptySet DEF Games, Open, Tries
<1>6. Others(toServer, {"accept"})
  BY <1>1, OthersNone
<1>7. ASSUME NEW r \in Rooms
      PROVE  EndHasBattle(battles[r], toClient, r)
  BY <1>1 DEF EndHasBattle, Speaks, Challstr
<1> QED BY <1>2, <1>5, <1>6, <1>7, FS_EmptySet DEF OnePlays

\* However long the session and whatever the server does meanwhile, a client
\* that plays one battle after the other has exactly one ahead of it or under way.
THEOREM PlaysOneGame == Spec => []OneGameAtATime
<1> DEFINE Inv == TypeOK /\ HasRequest /\ InOrder /\ NothingThrows /\ OnePlays
<1>1. Init => Inv
  BY InitTypes, InitOrder, InitGame
<1>2. Inv /\ [Next]_vars => Inv'
  <2>1. SUFFICES ASSUME Inv, [Next]_vars PROVE InOrder' /\ NothingThrows' /\ OnePlays'
    BY StepKeepsTypes
  <2>2. CASE UNCHANGED vars
    <3>1. UNCHANGED <<style, battles, failed, toClient, toServer, seeking, declined, phase>>
      BY <2>2 DEF vars, clientVars, client, server, rooms
    <3>2. InOrder' /\ NothingThrows'
      BY <2>1, <3>1 DEF InOrder, NothingThrows
    <3>3. OnePlays'
      BY <2>1, <3>1 DEF OnePlays, Open, Games, UnderWay
    <3> QED BY <3>2, <3>3
  <2>3. InOrder' /\ NothingThrows'
    BY <2>1, <2>2, ReadingKeepsOrder, HearingKeepsOrder, ActingKeepsOrder DEF Next, NothingThrows
  <2>4. ASSUME Next
        PROVE  OnePlays'
    <3>1. style' = style
      BY <2>4 DEF Next, Reading, HandleMessages, LogsIn, HandlePM, IgnoresJunk, CreateBattle,
         HandleEvents, HandleFinish, HandleRequest, HandleErrorMessage, Throws, HearsClient,
         HearsLeave, HearsSearch, HearsChallenge, HearsAccept, HearsReject, HearsTimer, TakesChoice,
         TakesDefault, RefusesChoice, RefusesForHiddenReason, NothingToChoose, ServerActs, Declines,
         IsChallenged, Withdraws, FindsOpponent, TimesOut, Proceeds, Ends, SaysMore, client, clientVars
    <3>2. CASE style = "Accept"
      <4>1. ~(style' # "Accept")
        BY <3>1, <3>2
      <4> QED BY <4>1 DEF OnePlays
    <3>3. CASE style # "Accept"
      <4>1. CASE Reading
        BY <2>1, <3>3, <4>1, ReadingKeepsGame
      <4>2. CASE HearsClient
        BY <2>1, <3>3, <4>2, HearingKeepsGame
      <4>3. CASE ServerActs
        BY <2>1, <3>3, <4>3, ActingKeepsGame
      <4> QED BY <2>4, <4>1, <4>2, <4>3 DEF Next
    <3> QED BY <3>2, <3>3
  <2> QED BY <2>1, <2>2, <2>3, <2>4
<1>3. Inv => OneGameAtATime
  BY DEF OnePlays, OneGameAtATime
<1> HIDE DEF Inv
<1> QED BY <1>1, <1>2, <1>3, PTL DEF Spec
=============================================================================

--------------------------- MODULE ShowdownSession ---------------------------
(***************************************************************************)
(* The client of ShowdownClient and the server that it is logged in to.    *)
(* The server is external code: it finds opponents, asks for choices,      *)
(* refuses some of them, and answers for a player whose time is up.  What  *)
(* it sends has the kinds and the order that get_battle_message_kind,      *)
(* BattleManager and the handlers in src/ take for granted: the first      *)
(* request of a battle follows its first lines, and a request comes after  *)
(* the events that lead to it.                                             *)
(***************************************************************************)
EXTENDS ShowdownClient, FiniteSets

CONSTANTS
    MaxRequests, \* how many requests the battles that are on have: a bound
    MaxUnread,   \* how many blocks may be unread when the server, or another
                 \* player, goes on: a bound
    MaxHidden    \* how many choices are refused for a reason that the player
                 \* could not know: a bound

ASSUME BoundsAssumption ==
    /\ MaxRequests \in Nat \ {0}
    /\ MaxUnread \in Nat
    /\ MaxHidden \in Nat

VARIABLES
    seeking,     \* how many searches and challenges of the client are open
    declined,    \* its challenge was rejected
    challengers, \* who challenges the client
    phase,       \* of each room: "unused", "on", "over", "quiet"
    request,     \* the last request in it
    waits,       \* that request only says to wait
    answered,    \* a choice has been taken for it
    timer,       \* the players' time is limited
    hidden,      \* how many choices were refused for a hidden reason, in all rooms
    late,        \* the server has asked twice or answered itself
    stale        \* it has taken a choice that was worked out for an earlier request

rooms == <<phase, request, waits, answered, timer, hidden, late, stale>>
server == <<seeking, declined, challengers, rooms>>
vars == <<clientVars, server>>

-----------------------------------------------------------------------------
(* What the server says. *)

Challstr == [kind |-> "challstr"]
PM(u, challenges) == [kind |-> "pm", from |-> u, challenges |-> challenges]
Junk == [kind |-> "junk"]
BattleInit(r) == [kind |-> "init", room |-> r]
Request(r, id, wait) == [kind |-> "request", room |-> r, id |-> id, wait |-> wait]
Events(r) == [kind |-> "events", room |-> r]
Win(r) == [kind |-> "win", room |-> r]
Error(r, nothing) == [kind |-> "error", room |-> r, nothingToChoose |-> nothing]

Tells(messages) == toClient' = toClient \o messages

Init ==
    /\ ClientInit
    /\ toClient = <<Challstr>>
    /\ toServer = << >>
    /\ seeking = 0
    /\ declined = FALSE
    /\ challengers = {}
    /\ phase = [r \in Rooms |-> "unused"]
    /\ request = [r \in Rooms |-> 0]
    /\ waits = [r \in Rooms |-> FALSE]
    /\ answered = [r \in Rooms |-> FALSE]
    /\ timer = [r \in Rooms |-> FALSE]
    /\ hidden = 0
    /\ late = [r \in Rooms |-> FALSE]
    /\ stale = [r \in Rooms |-> FALSE]

-----------------------------------------------------------------------------
(* What the server does with what the client says. *)

Hears(kind) ==
    /\ toServer # << >>
    /\ Head(toServer).kind = kind
    /\ toServer' = Tail(toServer)

said == Head(toServer)

\* The end of the client's stay in a room changes nothing here.
HearsLeave ==
    /\ Hears("leave")
    /\ UNCHANGED <<client, toClient, server>>

HearsSearch ==
    /\ Hears("search")
    /\ seeking' = seeking + 1
    /\ UNCHANGED <<client, toClient, declined, challengers, rooms>>

\* Both sides of a challenge are told of it.
HearsChallenge ==
    /\ Hears("challenge")
    /\ seeking' = seeking + 1
    /\ Tells(<<PM(Me, TRUE)>>)
    /\ UNCHANGED <<client, declined, challengers, rooms>>

HearsReject ==
    /\ Hears("reject")
    /\ challengers' = challengers \ {said.user}
    /\ UNCHANGED <<client, toClient, seeking, declined, rooms>>

HearsTimer ==
    /\ Hears("timer")
    /\ timer' = [timer EXCEPT ![said.room] = (phase[said.room] = "on")]
    /\ UNCHANGED <<client, toClient, seeking, declined, challengers,
                   phase, request, waits, answered, hidden, late, stale>>

Asked(r) == phase[r] = "on" /\ ~waits[r]

\* A choice is taken; one that was taken before is replaced.
TakesChoice ==
    /\ Hears("choose")
    /\ Asked(said.room)
    /\ answered' = [answered EXCEPT ![said.room] = TRUE]
    /\ stale' = [stale EXCEPT ![said.room] = @ \/ said.id # request[said.room]]
    /\ UNCHANGED <<client, toClient, seeking, declined, challengers,
                   phase, request, waits, timer, hidden, late>>

TakesDefault ==
    /\ Hears("choose default")
    /\ Asked(said.room)
    /\ answered' = [answered EXCEPT ![said.room] = TRUE]
    /\ UNCHANGED <<client, toClient, seeking, declined, challengers,
                   phase, request, waits, timer, hidden, late, stale>>

\* [Invalid choice], as for a move that the player could see is disabled.
RefusesChoice ==
    /\ Hears("choose")
    /\ Asked(said.room)
    /\ answered' = [answered EXCEPT ![said.room] = FALSE]
    /\ Tells(<<Error(said.room, FALSE)>>)
    /\ UNCHANGED <<client, seeking, declined, challengers,
                   phase, request, waits, timer, hidden, late, stale>>

\* [Unavailable choice], as when an ability that was not known traps the
\* Pokemon: the player is asked again.
RefusesForHiddenReason ==
    /\ Hears("choose")
    /\ Asked(said.room)
    /\ hidden < MaxHidden
    /\ answered' = [answered EXCEPT ![said.room] = FALSE]
    /\ hidden' = hidden + 1
    /\ late' = [late EXCEPT ![said.room] = TRUE]
    /\ Tells(<<Error(said.room, FALSE), Request(said.room, request[said.room], FALSE)>>)
    /\ UNCHANGED <<client, seeking, declined, challengers,
                   phase, request, waits, timer, stale>>

\* [Invalid choice] There's nothing to choose
NothingToChoose ==
    /\ \/ Hears("choose")
       \/ Hears("choose default")
    /\ ~Asked(said.room)
    /\ Tells(<<Error(said.room, TRUE)>>)
    /\ UNCHANGED <<client, server>>

\* A battle begins: a block tells the players, the teams and the Pokemon sent
\* out, and then comes the first request.  The opponent may want a limit of time.
Begins(r) ==
    /\ phase[r] = "unused"
    /\ phase' = [phase EXCEPT ![r] = "on"]
    /\ request' = [request EXCEPT ![r] = 1]
    /\ timer' \in {timer, [timer EXCEPT ![r] = TRUE]}
    /\ UNCHANGED <<waits, answered, hidden, late, stale>>

RoomLeft == \E r \in Rooms : phase[r] = "unused"

FirstBlocks(r) == <<BattleInit(r), Request(r, 1, FALSE)>>

HearsAccept ==
    /\ Hears("accept")
    /\ IF said.user \in challengers /\ RoomLeft
       THEN \E r \in Rooms :
              /\ Begins(r)
              /\ challengers' = challengers \ {said.user}
              /\ Tells(<<PM(said.user, FALSE)>> \o FirstBlocks(r))
              /\ UNCHANGED <<client, seeking, declined>>
       ELSE UNCHANGED <<client, toClient, server>>

HearsClient ==
    \/ HearsLeave
    \/ HearsSearch
    \/ HearsChallenge
    \/ HearsAccept
    \/ HearsReject
    \/ HearsTimer
    \/ TakesChoice
    \/ TakesDefault
    \/ RefusesChoice
    \/ RefusesForHiddenReason
    \/ NothingToChoose

-----------------------------------------------------------------------------
(* What the server and the other players do. *)

Goes == Len(toClient) <= MaxUnread

\* An opponent is found, or accepts the challenge ...
FindsOpponent(r) ==
    /\ Goes
    /\ seeking > 0
    /\ Begins(r)
    /\ seeking' = seeking - 1
    /\ Tells(FirstBlocks(r))
    /\ UNCHANGED <<client, toServer, declined, challengers>>

\* ... or rejects it.
Declines ==
    /\ style = "Challenge"
    /\ seeking > 0
    /\ seeking' = seeking - 1
    /\ declined' = TRUE
    /\ UNCHANGED <<client, toClient, toServer, challengers, rooms>>

\* Somebody challenges the client, and may take it back; one challenge at a
\* time is open or unread: a bound.
IsChallenged(u) ==
    /\ RoomLeft
    /\ Goes
    /\ challengers = {}
    /\ \A i \in DOMAIN toClient : toClient[i].kind # "pm"
    /\ \A i \in DOMAIN toServer : toServer[i].kind \notin {"accept", "reject"}
    /\ challengers' = challengers \cup {u}
    /\ Tells(<<PM(u, TRUE)>>)
    /\ UNCHANGED <<client, toServer, seeking, declined, rooms>>

Withdraws(u) ==
    /\ Goes
    /\ u \in challengers
    /\ challengers' = challengers \ {u}
    /\ Tells(<<PM(u, FALSE)>>)
    /\ UNCHANGED <<client, toServer, seeking, declined, rooms>>

\* The client's time is up: the server chooses.
TimesOut(r) ==
    /\ Asked(r)
    /\ ~answered[r]
    /\ timer[r]
    /\ answered' = [answered EXCEPT ![r] = TRUE]
    /\ late' = [late EXCEPT ![r] = TRUE]
    /\ UNCHANGED <<clientVars, seeking, declined, challengers,
                   phase, request, waits, timer, hidden, stale>>

\* The requests of the battles that are on.
Requests == {x \in Rooms \X (1 .. MaxRequests) : x[2] <= request[x[1]]}

\* Everybody has chosen: the server says what happens and asks again.
Proceeds(r) ==
    /\ Goes
    /\ phase[r] = "on"
    /\ waits[r] \/ answered[r]
    /\ request[r] < MaxRequests
    /\ Cardinality(Requests) < MaxRequests
    /\ \E wait \in BOOLEAN :
         /\ request' = [request EXCEPT ![r] = @ + 1]
         /\ waits' = [waits EXCEPT ![r] = wait]
         /\ answered' = [answered EXCEPT ![r] = FALSE]
         /\ Tells(<<Events(r), Request(r, request[r] + 1, wait)>>)
    /\ UNCHANGED <<client, toServer, seeking, declined, challengers,
                   phase, timer, hidden, late, stale>>

\* The battle ends, by what has happened in it or because a player gives up.
Ends(r) ==
    /\ Goes
    /\ phase[r] = "on"
    /\ phase' = [phase EXCEPT ![r] = "over"]
    /\ Tells(<<Win(r)>>)
    /\ request' = [request EXCEPT ![r] = 0]
    /\ waits' = [waits EXCEPT ![r] = FALSE]
    /\ answered' = [answered EXCEPT ![r] = FALSE]
    /\ timer' = [timer EXCEPT ![r] = FALSE]
    /\ late' = [late EXCEPT ![r] = FALSE]
    /\ stale' = [stale EXCEPT ![r] = FALSE]
    /\ UNCHANGED <<client, toServer, seeking, declined, challengers, hidden>>

\* There may be more to say of it afterwards.
SaysMore(r) ==
    /\ Goes
    /\ phase[r] = "over"
    /\ phase' = [phase EXCEPT ![r] = "quiet"]
    /\ \E more \in {Events(r), Junk} : Tells(<<more>>)
    /\ UNCHANGED <<client, toServer, seeking, declined, challengers,
                   request, waits, answered, timer, hidden, late, stale>>

ServerActs ==
    \/ Declines
    \/ \E u \in Users : IsChallenged(u) \/ Withdraws(u)
    \/ \E r \in Rooms : FindsOpponent(r) \/ TimesOut(r) \/ Proceeds(r)
                        \/ Ends(r) \/ SaysMore(r)

Reading == HandleMessages /\ UNCHANGED server

Next ==
    \/ Reading
    \/ HearsClient
    \/ ServerActs

\* The client reads and answers, and the server reads, as long as there is
\* something to read.  Nobody has to find an opponent or to choose.
Fairness == WF_vars(Reading) /\ WF_vars(HearsClient)

Spec == Init /\ [][Next]_vars /\ Fairness
-----------------------------------------------------------------------------
(* Properties. *)

RoomMessage ==
    [kind : {"init", "events", "win"}, room : Rooms]
    \cup [kind : {"request"}, room : Rooms, id : 1 .. MaxRequests, wait : BOOLEAN]
    \cup [kind : {"error"}, room : Rooms, nothingToChoose : BOOLEAN]

MessageToClient ==
    [kind : {"challstr", "junk"}]
    \cup [kind : {"pm"}, from : Users \cup {Me}, challenges : BOOLEAN]
    \cup RoomMessage

MessageToServer ==
    [kind : {"search", "challenge"}]
    \cup [kind : {"accept", "reject"}, user : Users]
    \cup [kind : {"leave", "timer", "choose default"}, room : Rooms]
    \cup [kind : {"choose"}, room : Rooms, id : 1 .. MaxRequests]

\* Types of the client, the two directions of the socket, and the server.
TypeOK ==
    /\ style \in {"Ladder", "Challenge", "Accept"}
    /\ battles \in [Rooms -> {"absent", "init", "handler"}]
    /\ shouldStartTimer \in BOOLEAN
    /\ failed \in BOOLEAN
    /\ toClient \in Seq(MessageToClient)
    /\ toServer \in Seq(MessageToServer)
    /\ seeking \in Nat
    /\ declined \in BOOLEAN
    /\ challengers \subseteq Users
    /\ phase \in [Rooms -> {"unused", "on", "over", "quiet"}]
    /\ request \in [Rooms -> 0 .. MaxRequests]
    /\ waits \in [Rooms -> BOOLEAN]
    /\ answered \in [Rooms -> BOOLEAN]
    /\ timer \in [Rooms -> BOOLEAN]
    /\ hidden \in 0 .. MaxHidden
    /\ late \in [Rooms -> BOOLEAN]
    /\ stale \in [Rooms -> BOOLEAN]

\* However the blocks of several battles mix with each other and with the
\* answers to them, no battle is made twice, no request is for a battle that
\* is not there, and no events come before the first request: nothing that
\* battles.cpp and battle_manager.cpp throw for.
NothingThrows == ~failed

\* A client that plays one battle after the other (Ladder and Challenge) has
\* exactly one ahead of it or under way: it never looks for the next before
\* the last one is over, nor twice, and never forgets to.  Only an opponent
\* who rejects the challenge ends it (send_challenge, handle_battle_message).
Count(messages, kinds) ==
    Cardinality({i \in DOMAIN messages : messages[i].kind \in kinds})

UnderWay(r) ==
    \/ phase[r] = "on"
    \/ \E i \in DOMAIN toClient : toClient[i] = Win(r)

Games ==
    Count(toClient, {"challstr"}) + Count(toServer, {"search", "challenge"})
    + seeking + (IF declined THEN 1 ELSE 0) + Cardinality({r \in Rooms : UnderWay(r)})

OneGameAtATime == style # "Accept" => Games = 1

\* A choice carries no request id, and the server takes it for whatever it asks
\* at the time.  It is the one that the client worked it out for, unless the
\* server has answered for the client, or refused a choice and asked again:
\* then the client answers twice, and is one request behind (send_selection.cpp,
\* handle_error_message).
ChoicesAreCurrent == \A r \in Rooms : stale[r] => late[r]

\* Every request with something to choose gets a choice that the server takes,
\* whatever it refuses, if the battle does not end before.
RequestsAreAnswered ==
    \A r \in Rooms : (Asked(r) /\ ~answered[r]) ~> (answered[r] \/ phase[r] # "on")
=============================================================================

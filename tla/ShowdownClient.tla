--------------------------- MODULE ShowdownClient ---------------------------
(***************************************************************************)
(* The client of Pokemon Showdown from its first message to its last:      *)
(* ClientMessageHandler (client_message_handler.cpp) with the Battles that *)
(* it follows (battles.cpp, battle_manager.cpp).  Client::run reads one    *)
(* message block at a time from a websocket and answers it before it reads *)
(* the next; what it sends waits in the other direction of the socket.     *)
(* Client::run is left only by an exception.                               *)
(*                                                                         *)
(* A message is a record: its kind, the room or user that it is about, and *)
(* what a handler reads of it.  Teams, formats and logs are left out; what *)
(* a battle does with a message is in ShowdownBattle.                      *)
(***************************************************************************)
EXTENDS Naturals, Sequences

CONSTANTS
    Rooms,         \* the rooms of battles
    Users,         \* the other people on the server
    AcceptedUsers, \* SettingsFile::Accept::users
    Me             \* m_settings.username

ASSUME UsersAssumption == AcceptedUsers \subseteq Users /\ Me \notin Users

VARIABLES
    style,            \* m_settings.style: "Ladder", "Challenge" or "Accept"
    battles,          \* m_battles: no battle, a BattleInitMessage or a handler
    shouldStartTimer, \* m_should_start_timer
    failed,           \* an exception has left Client::run
    toClient,         \* the blocks that the client has not read
    toServer          \* what the server has not read

client == <<style, battles, shouldStartTimer, failed>>
clientVars == <<client, toClient, toServer>>

ClientInit ==
    /\ style \in {"Ladder", "Challenge", "Accept"}
    /\ battles = [r \in Rooms |-> "absent"]
    /\ shouldStartTimer = (style = "Ladder")
    /\ failed = FALSE

-----------------------------------------------------------------------------
(* What the client says. *)

\* send_request_battle_start: the team goes ahead of each of these three, in a
\* message of its own; here they are one.
Search == [kind |-> "search"]
Challenge == [kind |-> "challenge"]
Accepts(u) == [kind |-> "accept", user |-> u]
Rejects(u) == [kind |-> "reject", user |-> u]
Leave(r) == [kind |-> "leave", room |-> r]
TimerOn(r) == [kind |-> "timer", room |-> r]

\* A choice has no request id in it (send_selection.cpp).  id is the request
\* that it was worked out for, which only the properties look at; "default"
\* was not worked out for any.
Choose(r, id) == [kind |-> "choose", room |-> r, id |-> id]
ChooseDefault(r) == [kind |-> "choose default", room |-> r]

-----------------------------------------------------------------------------
(* Reading. *)

Reads(kind) ==
    /\ ~failed
    /\ toClient # << >>
    /\ Head(toClient).kind = kind
    /\ toClient' = Tail(toClient)

message == Head(toClient)

Sends(messages) == toServer' = toServer \o messages

Throws ==
    /\ failed' = TRUE
    /\ UNCHANGED <<style, battles, shouldStartTimer, toServer>>

\* send_challenge
SendChallenge ==
    CASE style = "Ladder" -> <<Search>>
      [] style = "Challenge" -> <<Challenge>>
      [] style = "Accept" -> << >>

\* challstr: authenticate, then look for a battle.
LogsIn ==
    /\ Reads("challstr")
    /\ Sends(SendChallenge)
    /\ UNCHANGED client

ShouldAcceptChallenge(u) == style = "Accept" /\ u \in AcceptedUsers

\* pm: a challenge of someone else is accepted or rejected.  A challenge that
\* names no format is the end of one.
HandlePM ==
    /\ Reads("pm")
    /\ Sends(IF message.from = Me \/ ~message.challenges THEN << >>
             ELSE IF ShouldAcceptChallenge(message.from)
             THEN <<Accepts(message.from)>>
             ELSE <<Rejects(message.from)>>)
    /\ UNCHANGED client

\* Chat, and blocks that start with inactive, raw and the like.
IgnoresJunk ==
    /\ Reads("junk")
    /\ UNCHANGED <<client, toServer>>

-----------------------------------------------------------------------------
(* Battles. *)

\* The first lines of a battle make a BattleManager.
CreateBattle ==
    /\ Reads("init")
    /\ IF battles[message.room] = "absent"
       THEN /\ battles' = [battles EXCEPT ![message.room] = "init"]
            /\ UNCHANGED <<style, shouldStartTimer, failed, toServer>>
       ELSE Throws

\* Mutant: a battle that is not there has just been finished.
MutHandleEvents ==
    /\ Reads("events")
    /\ CASE battles[message.room] = "init" -> Throws
         [] battles[message.room] = "absent" ->
              Sends(<<Leave(message.room)>> \o SendChallenge) /\ UNCHANGED client
         [] OTHER -> UNCHANGED <<client, toServer>>

\* Battles::handle_message: what has happened since the last message.  A
\* battle that is not there is over; one that waits for its first request
\* has no handler.
HandleEvents ==
    /\ Reads("events")
    /\ IF battles[message.room] = "init" THEN Throws
       ELSE UNCHANGED <<client, toServer>>

\* The same, when the message ends the battle: it is erased, and the client
\* leaves the room and looks for another.
HandleFinish ==
    /\ Reads("win")
    /\ CASE battles[message.room] = "init" -> Throws
         [] battles[message.room] = "absent" -> UNCHANGED <<client, toServer>>
         [] OTHER ->
              /\ battles' = [battles EXCEPT ![message.room] = "absent"]
              /\ Sends(<<Leave(message.room)>> \o SendChallenge)
              /\ UNCHANGED <<style, shouldStartTimer, failed>>

\* Mutant: a Pass is sent as well.
MutSendSelection == <<Choose(message.room, message.id)>>

\* determine_selection and send_selection: whoever has to wait can only pass,
\* and a Pass is not sent.
SendSelection ==
    IF message.wait THEN << >> ELSE <<Choose(message.room, message.id)>>

\* Mutant: the handler that the first request makes is not kept.
MutHandleRequest ==
    /\ Reads("request")
    /\ IF battles[message.room] = "absent" THEN Throws
       ELSE /\ Sends(SendSelection \o IF shouldStartTimer
                                      THEN <<TimerOn(message.room)>> ELSE << >>)
            /\ shouldStartTimer' = FALSE
            /\ UNCHANGED <<style, battles, failed>>

\* The first request of a battle makes its handler.  The timer is started in
\* the first battle only.
HandleRequest ==
    /\ Reads("request")
    /\ IF battles[message.room] = "absent" THEN Throws
       ELSE /\ battles' = [battles EXCEPT ![message.room] = "handler"]
            /\ Sends(SendSelection \o IF shouldStartTimer
                                      THEN <<TimerOn(message.room)>> ELSE << >>)
            /\ shouldStartTimer' = FALSE
            /\ UNCHANGED <<style, failed>>

\* Mutant: the test is inverted.
MutHandleErrorMessage ==
    /\ Reads("error")
    /\ Sends(IF message.nothingToChoose THEN <<ChooseDefault(message.room)>>
             ELSE << >>)
    /\ UNCHANGED client

\* A choice that was refused is replaced by the default, unless there was
\* nothing to choose.
HandleErrorMessage ==
    /\ Reads("error")
    /\ Sends(IF message.nothingToChoose THEN << >>
             ELSE <<ChooseDefault(message.room)>>)
    /\ UNCHANGED client

HandleMessages ==
    \/ LogsIn
    \/ HandlePM
    \/ IgnoresJunk
    \/ CreateBattle
    \/ HandleEvents
    \/ HandleFinish
    \/ HandleRequest
    \/ HandleErrorMessage
=============================================================================

---------------------------- MODULE TurnProtocol ----------------------------
(***************************************************************************)
(* What a turn of a battle promises, with no word on how it is played: the *)
(* two sides select, each acts at most once, who has acted may leave, the  *)
(* turn ends, the fainted are replaced, and the next turn starts, until    *)
(* one side has nobody left.  Turn is shown to implement it.               *)
(***************************************************************************)
EXTENDS Integers

CONSTANTS Side, MaxTeamSize

VARIABLES
  stage,   \* "select", "act", "replace" or "over"
  owed,    \* the sides that still owe an action this turn
  alive,   \* whether the active Pokemon of a side has HP
  size     \* the Pokemon a side has left, the active one included

vars == <<stage, owed, alive, size>>

Init ==
  /\ stage = "select"
  /\ owed = {}
  /\ alive = [s \in Side |-> TRUE]
  /\ size \in [Side -> 1..MaxTeamSize]

Defeated(s) == ~alive[s] /\ size[s] = 1

Select ==
  /\ stage = "select"
  /\ \A s \in Side : alive[s]
  /\ stage' = "act"
  /\ owed' = Side
  /\ UNCHANGED <<alive, size>>

\* Who comes in for a fainted Pokemon of a side in S is one Pokemon less.
Replaced(S) == size' = [s \in Side |-> IF s \in S THEN size[s] - 1 ELSE size[s]]

Replaceable == {s \in Side : ~alive[s] /\ size[s] > 1}

OverIfDefeated(otherwise) ==
  stage' = IF \E s \in Side : Defeated(s)' THEN "over" ELSE otherwise

\* s does what it selected, and whatever comes of it to the two of them: nobody
\* gets up again, and somebody may lose the action they owe.
Act(s) ==
  /\ stage = "act"
  /\ s \in owed
  /\ alive[s]
  /\ owed' \in SUBSET (owed \ {s})
  /\ alive' \in [Side -> BOOLEAN]
  /\ \A other \in Side : alive'[other] => alive[other]
  /\ UNCHANGED size
  /\ OverIfDefeated("act")

\* s, which has acted or fainted, leaves the field; if it fainted, for good.  That
\* who comes in is the last one and faints may go unnoticed up to the end of the
\* turn.
Leaves(s) ==
  /\ stage = "act"
  /\ s \notin owed
  /\ alive[s] \/ s \in Replaceable
  /\ \E up \in BOOLEAN : alive' = [alive EXCEPT ![s] = up]
  /\ Replaced({s} \cap Replaceable)
  /\ owed' \in SUBSET owed
  /\ stage' = "act" \/ OverIfDefeated("act")

\* Up to the next selection the end of the turn may knock out anybody.
EndTurn ==
  /\ stage = "act"
  /\ owed = {}
  /\ owed' = {}
  /\ alive' \in [Side -> BOOLEAN]
  /\ \A s \in Side : alive'[s] => alive[s]
  /\ UNCHANGED size
  /\ OverIfDefeated(IF \A s \in Side : alive'[s] THEN "select" ELSE "replace")

\* Everyone who fainted is replaced at once.
Replace ==
  /\ stage = "replace"
  /\ Replaced(Replaceable)
  /\ alive' \in [Side -> BOOLEAN]
  /\ \A s \in Side \ Replaceable : alive'[s] = alive[s]
  /\ UNCHANGED owed
  /\ OverIfDefeated(IF \A s \in Side : alive'[s] THEN "select" ELSE "replace")

Next == Select \/ (\E s \in Side : Act(s) \/ Leaves(s)) \/ EndTurn \/ Replace

Spec == Init /\ [][Next]_vars /\ WF_vars(EndTurn) /\ WF_vars(Replace)
=============================================================================

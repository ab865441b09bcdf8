----------------------------- MODULE SlotMemory -----------------------------
(* ps::SlotMemory (src/source/tm/clients/pokemon_showdown/slot_memory.cpp).  *)
(* Pokemon Showdown numbers the Pokemon of a side from 1 and gives number 1  *)
(* to the active one: a switch exchanges two numbers and a fainted Pokemon   *)
(* keeps its number for the rest of the battle.  The program numbers its     *)
(* team by position and drops a fainted Pokemon when it is replaced.  A slot *)
(* memory is the table from the program's positions to the server's numbers. *)
(* Positions count from 1 here and from 0 in the code.                       *)
EXTENDS Naturals, Sequences

\* SlotMemory(size): the team in its original order.
Fresh(size) == [i \in 1 .. size |-> i]

\* containers::erase: what follows the erased position moves up by one.
Erase(s, at) == [i \in 1 .. (Len(s) - 1) |-> IF i < at THEN s[i] ELSE s[i + 1]]

\* Mutant: the program's position is sent as if it were the server's number.
MutSlotOf(slots, index) == index

\* operator[]: the number to send for a position of the team.
SlotOf(slots, index) == slots[index]

\* The position that swap_to_front finds: the one with the server's number 1.
ActivePosition(slots) == CHOOSE i \in 1 .. Len(slots) : slots[i] = 1

\* swap_to_front: the Pokemon at index becomes number 1, the active Pokemon
\* takes its number.
SwapToFront(slots, index) ==
    [slots EXCEPT ![ActivePosition(slots)] = slots[index],
                  ![index] = 1]

SwitchTo(slots, index) == SwapToFront(slots, index)

\* replace_fainted refuses the active Pokemon.
ReplaceFaintedThrows(slots, index) == slots[index] = 1

\* Mutant: the position of the Pokemon that comes in is erased.
MutReplaceFainted(slots, index) == Erase(SwapToFront(slots, index), index)

ReplaceFainted(slots, index) ==
    Erase(SwapToFront(slots, index), ActivePosition(slots))
=============================================================================

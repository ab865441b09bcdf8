------------------------- MODULE MCShowdownSwitches -------------------------
(* A side of five Pokemon.  The Pokemon are numbers so that the roster is a  *)
(* sequence of distinct values, and they are those of the roster.            *)
EXTENDS ShowdownSwitches

MCRoster == <<1, 2, 3, 4, 5>>
MCPokemon == {MCRoster[n] : n \in DOMAIN MCRoster}
=============================================================================

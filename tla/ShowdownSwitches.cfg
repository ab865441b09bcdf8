\* Deadlock is not checked: a battle is over when the whole side has fainted.
CONSTANTS
    Pokemon <- MCPokemon
    Roster <- MCRoster
    NoPokemon = 0
SPECIFICATION Spec
INVARIANTS
    SlotsNameTheTeam
    NothingIsRefused
    ChoosesAmongTheLiving
PROPERTIES
    ChoiceIsObeyed
CHECK_DEADLOCK FALSE

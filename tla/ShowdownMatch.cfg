\* Deadlock is not checked: a battle is over when a side has fainted.
CONSTANTS
    Phazing <- MCPhazing
    DamagesSelf <- MCDamagesSelf
    ClearsTeamStatus <- MCClearsTeamStatus
    UsableAsleep <- MCUsableAsleep
    Rest = "rest"
    Generations = {1, 5}
    Roster = {p1, p2}
    Thawing = {}
    Frail = {p1, p2}
    Flinching = {}
    MaxAfflicted = 1
SPECIFICATION Spec
INVARIANTS
    TypeOK
    NothingThrows
    BattleFollowsServer
    EndsEachTurnOnce
    RevealsAreFiledRight
SYMMETRY MCSymmetry
CHECK_DEADLOCK FALSE

--------------------------- MODULE MCShowdownMatch ---------------------------
\* Two Pokemon on each side: one to come in when the other faints, is dragged
\* out or turns back.
EXTENDS ShowdownMatch, TLC

MCSymmetry == Permutations(Roster)
MCPhazing == {"roar"}
MCDamagesSelf == {"substitute"}
MCClearsTeamStatus == {"heal_bell"}
MCUsableAsleep == {"sleep_talk"}
=============================================================================

CONSTANTS
  nostart = nostart  dead = dead
  NoStart = nostart  Dead = dead
  Programs <- MCPrograms
SPECIFICATION FairSpec
INVARIANTS MarkComplete MarkSound SameMeaning ExportsFollow
PROPERTIES Termination

CONSTANTS
  main = main  exit = exit  f = f  g = g  sp = sp
  env = env  sysproc = sysproc  host = host
  Main = main  Exit = exit  Env = env
  Name <- MCName
  Module <- MCModule
  Builtin <- MCBuiltin
  RuntimeState <- MCRuntimeState
  Commands <- MCCommands
SPECIFICATION FairSpec
INVARIANTS OneDefinition PullJustified Fixpoint
PROPERTIES Termination ImplementsClosure

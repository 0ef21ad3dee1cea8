CONSTANTS
  Jobs <- MCJobs
  Name <- MCName
  Module <- MCModule
  Builtin <- MCBuiltin
SPECIFICATION Spec
INVARIANTS RefsFaithful NamesAgree ExactlyLive FunctionsDiagnosed

SPECIFICATION Spec
INVARIANTS
  TypeOK
  FailedBuildStaysDebuggable
PROPERTIES
  ForeignVMUntouchedOnceCreated
  TemplateIsFinal
  ImplementsRemoteBuild
CHECK_DEADLOCK FALSE

SPECIFICATION ConsoleSpec
INVARIANTS
  TypeOK
  SuccessMeansFinishedImage
  StreamOverBeforeVMChanges
PROPERTIES
  ForeignVMUntouched
  TemplateIsFinal
  ImplementsRemoteBuild
CHECK_DEADLOCK FALSE

SPECIFICATION Spec
PROPERTY AnnouncedArtifactsStay
CHECK_DEADLOCK FALSE

SPECIFICATION Spec
CONSTANTS
  Usual = {"repair", "implementation"}
  Detours = {"waitRepair", "explain", "insufficient", "configuration", "incomplete"}
  Revisions = {1}
  MaxArtifacts = 12
  MaxFailures = 1
  MaxKills = 1
INVARIANTS
  AcceptedIsEarned
  OneVotePerReviewer
PROPERTIES
  NoPlanIsImplementedUnapproved
  NoChangeIsVerifiedUnreviewed
  WorkIsKept
CHECK_DEADLOCK FALSE

\* Snapshots of three hosts in the shapes the reader takes, measured and
\* unmeasured links, both planners, and a head that may cut any reply.
CONSTANTS
  HostKeys = {1, 2, 3}
  Roles = {"coder", "judge", "pilot", "_comment"}
  Comment = {"_comment"}
  Inputs <- AllInputs
  Replies <- AllReplies
  Fragments <- AllFragments
  Details <- AllDetails
  NotObject = NotObject
  NotMeasured = NotMeasured
  NoAnswer = NoAnswer
SPECIFICATION FairSpec
INVARIANTS TypeOK PlanIsBest RefusalIsTrue
PROPERTY PlanReturns

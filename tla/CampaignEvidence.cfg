CONSTANTS
  Agents = {"t", "g", "g2"}
  InitialMembers <- MCMembers
  Role <- MCRole
  Session = "s1"
  Scope = "undeclared"
  Targets = {"t"}
  InitialSystem <- MCInitial
  Systems <- MCSystems
  Profiles <- MCProfiles
  CampaignProfile = "network-peer-standard"
  QuickProfiles = {"disk-quick"}
  Versions = {1, 2}
  Windows = 2
  MaxMembers = 3
  MaxJoining = 1
  MaxDay = 3
  MaxRuns = 3
  MaxCampaigns = 2
  MaxUpsets = 2
  PlainMixes <- MCPlainMixes
  MaxAge = 1
  MinSamples = 2
  MinTargets = 1
  MinDays = 1
SPECIFICATION Spec
INVARIANTS TypeOK OneActiveCampaign NoWindowTwice OpenWindowIsCurrent OnlyLastWindowStrays CampaignFeedsCohort ComparableIsEarned VerdictKeepsUp
PROPERTIES CountedStays
CHECK_DEADLOCK FALSE

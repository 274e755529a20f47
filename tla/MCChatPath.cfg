CONSTANTS
  Enabled = TRUE
  Webhooks = {hook}
  NoWebhook = NoWebhook
  Keys = {k1}
  Subjects = {k1}
  Events = {"threshold_crossed", "budget_crossed"}
  TTL = 1
  AuditCap = 1
  Requests = {a, b}
  Limits <- MCLimits
  Replies <- MCReplies
  DayLen = 1
  MaxTime = 1
  MaxTokens = 3
  MaxEdits = 2
  Cap = 2
  BatchMax = 2
  Rows = {}
  Exchanges <- MCExchanges
  MaxSaves = 2
  MaxRestarts = 2
SYMMETRY MCSymmetry
SPECIFICATION PathSpec
INVARIANT CrossingIsToldOnce
INVARIANT LevelIsAnnounced
INVARIANT OvershootIsBounded
INVARIANT NoticesAreOwed
INVARIANT VerdictIsOfOnePolicy
INVARIANT CopyFollowsTheStore
INVARIANT TracesStayTogether

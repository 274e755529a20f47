CONSTANTS
  Enabled = TRUE
  Webhooks = {hook}
  NoWebhook = NoWebhook
  Keys = {k1}
  Subjects = {k1}
  Events = {"threshold_crossed", "budget_crossed"}
  TTL = 1
  AuditCap = 1
  Requests = {a, b}
  Limits <- MCLimits
  Replies <- MCReplies
  DayLen = 1
  MaxTime = 1
  MaxTokens = 4
SPECIFICATION Spec
PROPERTY TodayOnlyGrows

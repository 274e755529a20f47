CONSTANTS
  AgeCap = 2
  Enabled = TRUE
  Webhooks = {hook}
  NoWebhook = NoWebhook
  RuleIds = {r1}
  Subjects = {r1}
  Events = {"metric_breached"}
  TTL = 2
  AuditCap = 1
  Unborn = Unborn
  Deleted = Deleted
  NoRule = NoRule
  NoEntry = NoEntry
  RunCap = 2
  RuleInputs <- MCRuleInputs
  Overviews <- MCOverviews
SPECIFICATION Spec
INVARIANT DeletedIsForgotten

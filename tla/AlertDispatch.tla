--------------------------- MODULE AlertDispatch ---------------------------
(***************************************************************************)
(* The outbound notifier (backend/internal/alerting): one Dispatcher holds *)
(* the profile gate, the webhook, the 24 hour dedup map and the ring of    *)
(* send records.  Its two clients are the evaluator of metric rules        *)
(* (DispatchMetric) and the quota gauge of the API keys (Dispatch).        *)
(*                                                                         *)
(* The dedup map holds times; seenAge holds their age, saturated at TTL:   *)
(* an age of TTL is an entry that no longer suppresses, or none at all.    *)
(* `go d.send' puts a message in `sending'; the webhook it was given is    *)
(* the one configured at dispatch, whatever SetWebhook does later.         *)
(***************************************************************************)
EXTENDS Naturals, Sequences, SequencesExt

CONSTANTS
  Enabled,    \* the profile gate: TRUE on manage, FALSE on observe
  Webhooks,   \* webhook URLs that pass ValidateWebhookURL
  NoWebhook,  \* no channel configured
  Subjects,   \* API keys and metric rules
  Events,     \* threshold_crossed, budget_crossed, metric_breached
  TTL,        \* dedup window
  AuditCap    \* length of the ring of send records

ASSUME DispatchAssumption ==
  /\ Enabled \in BOOLEAN
  /\ NoWebhook \notin Webhooks
  /\ TTL \in Nat \ {0}
  /\ AuditCap \in Nat \ {0}

VARIABLES webhook, seenAge, sending, audit

dispatchVars == <<webhook, seenAge, sending, audit>>

Message(Texts) ==
  [subject : Subjects, event : Events, text : Texts,
   channel : Webhooks, attempt : {1, 2}]

SendRecord == [channel : {"none", "webhook"}, subject : Subjects,
               event : Events, ok : BOOLEAN]

DispatchTypeOK(Texts) ==
  /\ webhook \in Webhooks \cup {NoWebhook}
  /\ seenAge \in [Subjects \X Events -> 0 .. TTL]
  /\ sending \subseteq Message(Texts)
  /\ audit \in Seq(SendRecord) /\ Len(audit) <= AuditCap

DispatchInit ==
  /\ webhook \in Webhooks \cup {NoWebhook}
  /\ seenAge = [k \in Subjects \X Events |-> TTL]
  /\ sending = {}
  /\ audit = <<>>

record(channel, subject, event, ok) ==
  LET all == Append(audit, [channel |-> channel, subject |-> subject,
                            event |-> event, ok |-> ok])
  IN audit' = IF Len(all) > AuditCap THEN Tail(all) ELSE all

allow(key) == seenAge[key] = TTL

\* SetWebhook("") clears the channel, a valid URL replaces it.
SetWebhook(url) ==
  /\ Enabled
  /\ url \in Webhooks \cup {NoWebhook}
  /\ webhook' = url
  /\ UNCHANGED <<seenAge, sending, audit>>

\* An allowed event is recorded as a failure when there is no channel, and
\* is sent by a goroutine of its own otherwise.
HandOff(subject, event, text) ==
  IF webhook = NoWebhook
  THEN record("none", subject, event, FALSE) /\ UNCHANGED sending
  ELSE /\ sending' = sending \cup
            {[subject |-> subject, event |-> event, text |-> text,
              channel |-> webhook, attempt |-> 1]}
       /\ UNCHANGED audit

Passes(subject, event, renotify) ==
  Enabled /\ (renotify \/ allow(<<subject, event>>))

\* The dedup map is not told of the event it lets through.
Dispatching_Unmarked(subject, event, text, renotify) ==
  IF Passes(subject, event, renotify)
  THEN HandOff(subject, event, text) /\ UNCHANGED <<webhook, seenAge>>
  ELSE UNCHANGED dispatchVars

\* The dedup entry is taken before the channel is looked at: an event that
\* finds no webhook, or whose sending fails, is suppressed for TTL as well.
Dispatching(subject, event, text, renotify) ==
  IF Passes(subject, event, renotify)
  THEN /\ HandOff(subject, event, text)
       /\ seenAge' = IF renotify THEN seenAge
                     ELSE [seenAge EXCEPT ![<<subject, event>>] = 0]
       /\ UNCHANGED webhook
  ELSE UNCHANGED dispatchVars

Dispatch(key, event, text)             == Dispatching(key, event, text, FALSE)
DispatchMetric(rule, event, text, again) == Dispatching(rule, event, text, again)

\* One POST of WebhookChannel.Send: a 2xx ends it, the first failure is
\* tried once more, the second is recorded.
Attempt(m, ok) ==
  /\ m \in sending
  /\ IF ok \/ m.attempt = 2
     THEN /\ sending' = sending \ {m}
          /\ record("webhook", m.subject, m.event, ok)
     ELSE /\ sending' = (sending \ {m}) \cup {[m EXCEPT !.attempt = 2]}
          /\ UNCHANGED audit
  /\ UNCHANGED <<webhook, seenAge>>

\* The passing of time, as the dedup map sees it.
AgeSeen ==
  seenAge' = [k \in DOMAIN seenAge |->
                IF seenAge[k] < TTL THEN seenAge[k] + 1 ELSE TTL]
=============================================================================

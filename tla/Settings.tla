------------------------------ MODULE Settings -------------------------------
(***************************************************************************)
(* The settings of a deployment: the registry and the table                *)
(* (internal/panel/settings.go), who may write what (settings_access.go,   *)
(* devpassword.go), the pages that write (web/settings.go, web/setup.go,   *)
(* web/welcome.go, web/visibility.go, web/blocklistpreview.go), the        *)
(* command that copies a config file (migrate.go), the record of each      *)
(* change (operations.go, audit.go) and the copy a running service reads   *)
(* (internal/settings/live.go).                                            *)
(*                                                                         *)
(* A request is a goroutine that is made once, and each statement it sends *)
(* is a step that may fail.  A value is whatever the registry tells apart: *)
(* a number, a choice, a set of rules, or Bad for what Validate refuses.   *)
(***************************************************************************)
EXTENDS Gate, TLC

CONSTANTS
  Keys,        \* the keys of the registry that are exercised
  Sites,
  Operators,
  Superadmins, \* the operators among them
  OwnEvery,    \* who owns every site
  Manages,     \* the sites whose settings each may change
  Inputs,      \* what a form can hold for each key
  File,        \* what the config file still sets: key :> value
  Services,    \* the services that store addresses
  MaxPreviewRules, \* how many new rules one preview asks the read API about
  NoRow, NoOne,
  Bad          \* a value no check of the registry accepts

\* settings.go, the registry, with limitDefinitions and sourceSettings.
SiteKeys == {"panel.site_name", "panel.cards", "panel.breakdowns", "collection.paused_until"}

GuardedKeys ==
  {"campaign.drop_params", "campaign.extra_params", "campaign.store_click_ids",
   "logs.retention_days", "logs.important_retention_days", "upgrade.locked",
   "release.locked", "privacy.ip_storage"}

LimitKeys ==
  {"collector.limits.max_concurrent", "collector.limits.max_requests_per_second",
   "collector.limits.overload_policy", "collector.limits.throttle_queue_size",
   "beacon.limits.max_concurrent", "beacon.limits.max_requests_per_second",
   "beacon.limits.overload_policy", "beacon.limits.throttle_queue_size"}

SourceKeys == {"sources.country", "sources.asn", "sources.fallback_order"}

BlockKeys == {"collector.blocked_countries", "collector.blocked_asns"}

OpenKeys ==
  {"panel.timezone", "beacon.sites", "collector.known_bot_asns",
   "collector.apply_asn_to_scoring", "beacon.trusted_proxies", "privacy.visitor_surface",
   "privacy.policy_url", "privacy.contact", "logs.archive_after_days", "logs.level",
   "logs.verbose_until", "access.developer", "access.developer_open_until"}

registry == SiteKeys \union GuardedKeys \union LimitKeys \union SourceKeys \union BlockKeys \union OpenKeys

\* What a running service asks for (internal/settings).
LiveKeys ==
  (registry \ {"panel.site_name", "panel.cards", "panel.breakdowns", "panel.timezone",
               "logs.retention_days", "logs.important_retention_days", "logs.archive_after_days",
               "upgrade.locked", "release.locked", "access.developer",
               "access.developer_open_until"}) \intersect Keys

\* What a config file can still hold for the panel to take over.
migrations ==
  (LimitKeys \union BlockKeys \union
   {"collector.known_bot_asns", "collector.apply_asn_to_scoring", "beacon.trusted_proxies"})

\* The rows there can be: a site's setting has one for each site.
Global == "global"
Rows == ((Keys \intersect SiteKeys) \X Sites) \union ((Keys \ SiteKeys) \X {Global})

ASSUME SettingsAssumption ==
  /\ Keys \subseteq registry /\ Global \notin Sites /\ NoOne \notin Operators
  /\ Superadmins \subseteq Operators /\ OwnEvery \subseteq Operators
  /\ Manages \in [Operators -> SUBSET Sites]
  /\ \A p \in OwnEvery : Manages[p] = Sites
  /\ MaxPreviewRules \in Nat
  /\ DOMAIN Inputs = Keys /\ DOMAIN File \subseteq Keys \intersect migrations

VARIABLES
  store,    \* panel_settings
  keyed,    \* the services whose last report says they hold a token key
  req,
  record,   \* panel_operations: what each request's row says
  effect,   \* history: what each request has done
  previews, \* history: the previews that have been drawn
  live      \* a service's copy of the table

work == <<req, record, effect>>
settingsVars == <<gate, store, keyed, work, previews, live>>

Form(kind, p, k, s, v, at, todo) ==
  [kind |-> kind, by |-> p, key |-> k, site |-> s, val |-> v, at |-> at, todo |-> todo, auth |-> 0]

Quiet == Form("none", NoOne, "none", Global, NoRow, "idle", {})
Answered == Form("none", NoOne, "none", Global, NoRow, "done", {})

SettingsInit ==
  /\ GateInit
  /\ store = [row \in Rows |-> NoRow] /\ keyed = {}
  /\ req = [r \in Requests |-> Quiet]
  /\ record = [r \in Requests |-> "none"] /\ effect = [r \in Requests |-> "nothing"]
  /\ previews = {}
  /\ live = [row \in Rows |-> NoRow]

-----------------------------------------------------------------------------
(* Reading, validating, and who may write.                                 *)

Validate(k, v) == v # Bad

\* The defaults that a property tells from a value.
Default(k) == CASE k \in BlockKeys -> {} [] k = "privacy.ip_storage" -> "masked" [] OTHER -> "default"

\* A row that no longer validates reads as the default.
GetSetting(k, s) ==
  IF store[<<k, s>>] = NoRow \/ ~Validate(k, store[<<k, s>>]) THEN Default(k) ELSE store[<<k, s>>]

operator(p) == p \in Superadmins

SpeaksForDeployment(p) == operator(p) \/ p \in OwnEvery

Can(p, s) == operator(p) \/ (IF s = Global THEN p \in OwnEvery ELSE s \in Manages[p])

MayAttemptDeveloperPassword(p) == operator(p)

AccessTo(p, s, k) ==
  CASE k \in GuardedKeys -> IF operator(p) THEN "gated" ELSE "locked"
    [] k \notin GuardedKeys /\ ~Can(p, s) -> "read_only"
    [] k \notin GuardedKeys \union SiteKeys /\ Can(p, s) /\ ~SpeaksForDeployment(p) -> "shared"
    [] OTHER -> "writable"

Editable(a) == a \in {"writable", "gated"}

\* Every service that stores addresses has said it holds a key.
tokenKeyReady == Services # {} /\ keyed = Services

checkPrecondition(k, v) == (k = "privacy.ip_storage" /\ v = "full") => tokenKeyReady

ScopeOf(k, s) == IF k \in SiteKeys THEN s ELSE Global

-----------------------------------------------------------------------------
(* The record of a change.                                                 *)

Goes(r, to) == req' = [req EXCEPT ![r].at = to]
Done(r) == req' = [req EXCEPT ![r] = Answered]

\* Finish: the row is closed with how it ended, and the page is drawn.  A
\* request that has no row just ends.
Finish(r, outcome) ==
  /\ Done(r)
  /\ record' = [record EXCEPT ![r] = IF @ = "open" THEN outcome ELSE @]

\* A row that cannot be opened does not stop the change.
BeginOperation(r) ==
  /\ req[r].at = "begin"
  /\ Goes(r, "check")
  /\ \/ record' = [record EXCEPT ![r] = "open"]
     \/ UNCHANGED record
  /\ UNCHANGED <<gate, store, keyed, effect, previews, live>>

-----------------------------------------------------------------------------
(* The settings page.                                                      *)

Post(r, q) ==
  /\ req[r].at = "idle"
  /\ req' = [req EXCEPT ![r] = q]
  /\ UNCHANGED <<record, effect>>

\* The rules a list gains.
addedRules(current, v) == v \ current

\* (mutant) A list that is in use already is not shown again.
confirmedOnceListed(current, v, onay) == current # {} \/ onay = addedRules(current, v)

\* The form says which new rules its sender has seen.
confirmed(current, v, onay) == addedRules(current, v) = {} \/ onay = addedRules(current, v)

\* A list that gains rules is shown once before it is saved, to somebody
\* whose save would be accepted.
PreviewStops(p, s, k, v, onay, current) ==
  /\ k \in BlockKeys /\ v # NoRow /\ Validate(k, v)
  /\ AccessTo(p, s, k) = "writable" /\ ~confirmed(current, v, onay)

OverLimit(added) == Cardinality(added) > MaxPreviewRules

\* The first of the new rules, in the order of the form, up to the limit.
Asked(added) ==
  IF OverLimit(added) THEN CHOOSE first \in SUBSET added : Cardinality(first) = MaxPreviewRules
  ELSE added

\* What a page can say of the new rules: how many addresses each that was
\* asked about refuses, or that the counts could not be read.
Pages(added) ==
  {[rules |-> added, unread |-> FALSE, counted |-> Asked(added)],
   [rules |-> added, unread |-> TRUE, counted |-> {}]}

blocklistPreviewFor(r, p, s, k, v, onay, current) ==
  /\ PreviewStops(p, s, k, v, onay, current)
  /\ \E page \in Pages(addedRules(current, v)) : previews' = previews \union {page}
  /\ UNCHANGED <<gate, store, keyed, work, live>>

\* One setting; NoRow stands for going back to the default.
saveSetting(r, p, s, k, v, onay, current) ==
  /\ ~PreviewStops(p, s, k, v, onay, current)
  /\ Post(r, Form("page", p, k, s, v, IF k \in GuardedKeys THEN "gate" ELSE "begin", {}))
  /\ UNCHANGED <<gate, store, keyed, previews, live>>

\* A form comes from the page as it was first drawn, or from a preview.
Confirms == {page.rules : page \in previews} \union {{}}

\* The list as it is read; nothing when it cannot be, which is only logged.
Currents(k, s) == IF k \in BlockKeys THEN {GetSetting(k, ScopeOf(k, s)), {}} ELSE {{}}

settingsHandler(r, p) ==
  /\ req[r].at = "idle"
  /\ \E s \in Sites, k \in Keys :
       \E v \in Inputs[k] \union {NoRow}, onay \in Confirms, current \in Currents(k, s) :
         \/ saveSetting(r, p, s, k, v, onay, current)
         \/ blocklistPreviewFor(r, p, s, k, v, onay, current)

-----------------------------------------------------------------------------
(* The developer password, for the page and for the wizard.                *)

\* The gate turns the form away: full, throttled, not configured, or no
\* password in it.  Nothing has been recorded yet.
authorizeSetting(r) ==
  /\ req[r].at = "gate" /\ r \notin queued
  /\ \/ JoinQueue(r) /\ UNCHANGED req
     \/ TurnedAway(r) /\ Done(r)
     \/ Done(r) /\ UNCHANGED gate
  /\ UNCHANGED <<store, keyed, record, effect, previews, live>>

AwaitSlot(r) ==
  /\ \/ TakeSlot(r) /\ UNCHANGED req
     \/ LeaveQueue(r) /\ Done(r)
  /\ UNCHANGED <<store, keyed, record, effect, previews, live>>

Verify(r) ==
  /\ \/ WrongPassword(r) /\ Done(r)
     \/ /\ RightPassword(r)
        /\ req' = [req EXCEPT ![r].auth = GrantLifetime,
                              ![r].at = IF req[r].kind = "page" THEN "begin" ELSE "check"]
  /\ UNCHANGED <<store, keyed, record, effect, previews, live>>

\* (mutant) Whoever has a session.
AuthorizesAny(r) == TRUE

\* The authorization was given for the key that is being written.
Authorizes(r) == req[r].key \in GuardedKeys => req[r].auth > 0

-----------------------------------------------------------------------------
(* Writing.                                                                *)

Ends(r, outcome) ==
  Finish(r, outcome) /\ UNCHANGED <<gate, store, keyed, effect, previews, live>>

\* ApplySetting, ClearSetting and RecordSetting up to the write: who asks is
\* checked, the precondition is read, and what was there before.
CheckAccess(r) ==
  LET q == req[r]
      may == AccessTo(q.by, q.site, q.key)
      entitled == IF q.kind = "wizard" THEN may = "writable" ELSE Editable(may)
  IN /\ q.at = "check" /\ q.kind # "migrate"
     /\ \/ /\ entitled /\ checkPrecondition(q.key, q.val)
           /\ Goes(r, "write")
           /\ UNCHANGED <<gate, store, keyed, record, effect, previews, live>>
        \/ ~(entitled /\ checkPrecondition(q.key, q.val)) /\ Ends(r, "refused")
        \/ entitled /\ Ends(r, "failed")

\* setSetting and resetSetting: the authorization, the value, and one statement.
Write(r) ==
  LET q == req[r]
  IN /\ q.at = "write"
     /\ \/ /\ Authorizes(r) /\ Validate(q.key, q.val)
           /\ store' = [store EXCEPT ![<<q.key, ScopeOf(q.key, q.site)>>] = q.val]
           /\ effect' = [effect EXCEPT ![r] = "written"]
           /\ Goes(r, "audit")
           /\ UNCHANGED <<gate, keyed, record, previews, live>>
        \/ ~(Authorizes(r) /\ Validate(q.key, q.val)) /\ Ends(r, "refused")
        \/ Ends(r, "failed")

\* The rest of a wizard's form, which goes on only after a success.
NextOfForm(r) ==
  LET q == req[r]
  IN IF q.todo = {} THEN Goes(r, "finish")
     ELSE \E row \in q.todo :
            req' = [req EXCEPT ![r] = [q EXCEPT !.key = row[1], !.site = row[2],
                                                !.todo = @ \ {row}, !.at = "check"]]

\* After the write, so that the log never claims what did not happen.  The
\* command only warns when it cannot record.
recordSettingChange(r) ==
  /\ req[r].at = "audit"
  /\ \/ /\ NextOfForm(r) /\ effect' = [effect EXCEPT ![r] = "logged"]
        /\ UNCHANGED <<gate, store, keyed, record, previews, live>>
     \/ /\ req[r].kind = "migrate" /\ Done(r)
        /\ UNCHANGED <<gate, store, keyed, record, effect, previews, live>>
     \/ req[r].kind # "migrate" /\ Ends(r, "failed")

Succeed(r) == req[r].at = "finish" /\ Ends(r, "succeeded")

-----------------------------------------------------------------------------
(* The wizards and the command.                                            *)

\* RecordSetting, once for each row of a form.
RecordSetting(r, p, rows, v) ==
  /\ rows # {}
  /\ \E row \in rows :
       Post(r, Form("wizard", p, row[1], row[2], v, "check", rows \ {row}))
  /\ UNCHANGED <<gate, store, keyed, previews, live>>

\* The setup wizard is open to an operator and, through the technical door,
\* to whoever speaks for the deployment.
developerAccess(p) == operator(p) \/ SpeaksForDeployment(p)

\* The rows each step writes, for whoever may take it.
saveSites(p) == IF developerAccess(p) THEN {"beacon.sites"} \X {Global} ELSE {}

saveVisible(p) == IF developerAccess(p) THEN {"panel.cards", "panel.breakdowns"} \X Sites ELSE {}

\* The welcome wizard names the sites its reader manages.
saveSiteNames(p) == {"panel.site_name"} \X {s \in Sites : Can(p, s)}

saveTimezone(p) == IF SpeaksForDeployment(p) THEN {"panel.timezone"} \X {Global} ELSE {}

WizardRows(k, p) ==
  CASE k = "beacon.sites" -> saveSites(p)
    [] k = "panel.cards" -> saveVisible(p)
    [] k = "panel.site_name" -> saveSiteNames(p)
    [] k = "panel.timezone" -> saveTimezone(p)
    [] OTHER -> {}

saveWizard(r, p) == \E k \in Keys : \E v \in Inputs[k] : RecordSetting(r, p, WizardRows(k, p), v)

\* The retention step: a value that is the same is no change, and somebody
\* who may not try the password is not asked for it.
saveRetention(r, p) ==
  /\ developerAccess(p) /\ MayAttemptDeveloperPassword(p) /\ "logs.retention_days" \in Keys
  /\ \E v \in Inputs["logs.retention_days"] \ {GetSetting("logs.retention_days", Global)} :
       Post(r, Form("retention", p, "logs.retention_days", Global, v, "gate", {}))
  /\ UNCHANGED <<gate, store, keyed, previews, live>>

\* One entry of the file.  A value the registry refuses is skipped.
MigrateSettings(r) ==
  \E k \in DOMAIN File :
    /\ Validate(k, File[k])
    /\ Post(r, Form("migrate", NoOne, k, Global, File[k], "check", {}))
    /\ UNCHANGED <<gate, store, keyed, previews, live>>

\* A row that is there is left alone.
settingRowExists(r) ==
  /\ req[r].at = "check" /\ req[r].kind = "migrate"
  /\ \/ store[<<req[r].key, Global>>] = NoRow /\ Goes(r, "write")
     \/ Done(r)
  /\ UNCHANGED <<gate, store, keyed, record, effect, previews, live>>

-----------------------------------------------------------------------------
(* Services, time and the panel's own restarts.                            *)

\* One SELECT of the whole table, and the copy is replaced.  One that fails
\* leaves the last known values.
Refresh ==
  /\ live' = [row \in Rows |-> IF row[1] \in LiveKeys THEN store[row] ELSE NoRow]
  /\ UNCHANGED <<gate, store, keyed, work, previews>>

\* A service starts on its defaults when its first read fails.
New ==
  /\ live' = [row \in Rows |-> NoRow]
  /\ UNCHANGED <<gate, store, keyed, work, previews>>

\* A service restarts with a key in its config file, or without one.
Report(svc) ==
  /\ \/ svc \notin keyed /\ keyed' = keyed \union {svc}
     \/ svc \in keyed /\ keyed' = keyed \ {svc}
  /\ UNCHANGED <<gate, store, work, previews, live>>

SettingsTick ==
  /\ GateTick
  /\ req' = [r \in Requests |-> [req[r] EXCEPT !.auth = IF @ > 0 THEN @ - 1 ELSE 0]]
  /\ UNCHANGED <<store, keyed, record, effect, previews, live>>

\* The panel is restarted in the middle of whatever it was doing.
Restart ==
  /\ GateRestart
  /\ req' = [r \in Requests |-> IF req[r].at = "idle" THEN Quiet ELSE Answered]
  /\ UNCHANGED <<store, keyed, record, effect, previews, live>>

SettingsNext ==
  \/ \E r \in Requests :
       \/ \E p \in Operators : settingsHandler(r, p) \/ saveWizard(r, p) \/ saveRetention(r, p)
       \/ MigrateSettings(r) \/ settingRowExists(r)
       \/ authorizeSetting(r) \/ AwaitSlot(r) \/ Verify(r)
       \/ BeginOperation(r) \/ CheckAccess(r) \/ Write(r) \/ recordSettingChange(r) \/ Succeed(r)
  \/ \E svc \in Services : Report(svc)
  \/ Refresh \/ New \/ SettingsTick \/ Restart

\* The service's ticker goes on for as long as the service runs.
SettingsSpec == SettingsInit /\ [][SettingsNext]_settingsVars /\ WF_settingsVars(Refresh)

-----------------------------------------------------------------------------
(* Properties.                                                             *)

\* By whatever page it comes, a setting behind the developer password is
\* changed only for an operator who typed that password for that setting
\* less than half a minute before (settings.go, SetGuardedSetting).
GuardedNeedsPassword ==
  [][\A k \in GuardedKeys \intersect Keys :
       store'[<<k, Global>>] # store[<<k, Global>>] =>
         \E r \in Requests : req[r].key = k /\ req[r].auth > 0 /\ operator(req[r].by)]_settingsVars

\* What a page told of: a rule with its addresses, a rule of a page that said
\* that it could not count, and a rule past the limit, of which a page says
\* only how many there are.
Told(page) ==
  {rule \in page.rules : rule \in page.counted \/ page.unread \/ OverLimit(page.rules)}

\* No rule is on a blocklist that did not stop on a page which said how many
\* addresses it refuses, or that it could not say, or that it left rules out,
\* save the ones the config file brought (web/blocklistpreview.go).
RulesWereShown ==
  \A k \in BlockKeys \intersect Keys :
    store[<<k, Global>>] # NoRow =>
      store[<<k, Global>>] \subseteq
        (UNION {Told(page) : page \in previews}) \union (IF k \in DOMAIN File THEN File[k] ELSE {})

\* What the record of a change says is what happened: a success is written
\* and on record, and a refusal changed nothing (operations.go, Finish).
OutcomeIsTrue ==
  \A r \in Requests :
    /\ record[r] = "succeeded" => effect[r] = "logged"
    /\ record[r] = "refused" => effect[r] = "nothing"

\* A rule was shown, or said not to be, before it was written, and a record
\* claims success or refusal only of what ended so; one that claims failure
\* says nothing of whether the row was written.
ChangesAreHonest == RulesWereShown /\ OutcomeIsTrue
==============================================================================

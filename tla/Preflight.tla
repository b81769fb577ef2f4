----------------------------- MODULE Preflight -----------------------------
(***************************************************************************)
(* The list of checks that closes the setup wizard, and the pages that run *)
(* it (src/internal/panel/preflight/preflight.go, panel/web/setup.go and   *)
(* panel/web/health.go). Each check asks the deployment one thing and      *)
(* answers pass, fail, warn or skip; a handover is made only when no       *)
(* required check failed or could not look.                                *)
(*                                                                         *)
(* What is the case with the deployment is a set of conditions. The checks *)
(* run one after the other and the deployment may change between two of    *)
(* them. The sentences shown with an answer are left out, and the services *)
(* whose addresses are listed are one service.                             *)
(***************************************************************************)
EXTENDS Sequences, Naturals, FiniteSets

CONSTANTS Conditions,    \* what may be wrong with the deployment
          MaxConditions, \* how many of them it starts with
          MaxWorldChanges,    \* how often one comes or goes
          MaxPages       \* how many pages are asked for

VARIABLES conditions, \* what is wrong now
          page,       \* the page that is running the checks, Blank for none
          results,    \* what the checks it has run so far answered
          late,       \* its context is over: no query of it is answered
          shown,      \* what the page of the checks last answered
          verdict,    \* what the last page said of the deployment
          cleared,    \* conditions that were absent at some moment since it began
          met,        \* and those that were there at some moment
          worldChanges, pages

\* No page, and no verdict yet.
Blank == ""

preflightVars == <<conditions, page, results, late, shown, verdict, cleared, met, worldChanges, pages>>

(* A query is answered when there is a pool, the database is up and the
   page's context has not ended. *)
Pool(c) == "no pool" \notin c
Answers(c, l) == "database" \notin c /\ ~l

(* What a check answers: skip without a pool, `lost` when its query fails. *)
Database(c, l, lost, found) ==
  IF ~Pool(c) THEN "skip" ELSE IF ~Answers(c, l) THEN lost ELSE found

(* The views of TimescaleDB are a query of their own. *)
Information(c, lost, found) == IF "information" \in c THEN lost ELSE found

-----------------------------------------------------------------------------

missingTables(c, tables) == tables \cap c # {}

panelTables == {"panel table"}

checkPanelSchema(c, l) ==
  Database(c, l, "fail", IF missingTables(c, panelTables) THEN "fail" ELSE "pass")

checkAnalyticsSchema(c, l) ==
  Database(c, l, "fail",
    IF missingTables(c, {"analytics table"}) THEN "fail"
    ELSE Information(c, "warn", IF "plain table" \in c THEN "fail" ELSE "pass"))

checkSelfMigratingColumns(c, l) ==
  Database(c, l, "fail", IF "column" \in c THEN "fail" ELSE "pass")

(* The role the configuration names for a service: a name that is in the
   database, one that is not, or none. *)
misnamed == [collector |-> "collector misnamed", beacon |-> "beacon misnamed",
             api |-> "api misnamed", panel |-> "panel misnamed"]
unnamed == [collector |-> "collector unnamed", beacon |-> "beacon unnamed",
            api |-> "api unnamed", panel |-> "panel unnamed"]

roleExists(c, role) == misnamed[role] \notin c
Named(c, role) == unnamed[role] \notin c

(* A role that is not there has no privilege. *)
roleHasPrivilege(c, role, granted) == roleExists(c, role) /\ granted \in c

readsSettings == [collector |-> "collector reads settings", beacon |-> "beacon reads settings"]

(* The services whose role was found read the live settings or do not. *)
checkSettingsGrant(c, l) ==
  LET asked == {r \in {"collector", "beacon"} : Named(c, r) /\ roleExists(c, r)}
  IN Database(c, l, "skip",
       IF asked = {} THEN "skip"
       ELSE IF \E r \in asked : ~roleHasPrivilege(c, r, readsSettings[r]) THEN "warn" ELSE "pass")

checkPanelIsolation(c, l) ==
  IF Pool(c) /\ ~Named(c, "panel") THEN "skip"
  ELSE Database(c, l, "skip", IF roleHasPrivilege(c, "panel", "panel reads") THEN "fail" ELSE "pass")

checkAPIIsReadOnly(c, l) ==
  IF Pool(c) /\ ~Named(c, "api") THEN "skip"
  ELSE Database(c, l, "skip", IF roleHasPrivilege(c, "api", "api writes") THEN "fail" ELSE "pass")

encryptionVerdict(c) == IF {"plaintext", "remote"} \subseteq c THEN "warn" ELSE "pass"

checkConnectionEncryption(c, l) == Database(c, l, "skip", encryptionVerdict(c))

checkNoBackgroundJobs(c, l) ==
  Database(c, l, "skip", Information(c, "skip", IF "planted job" \in c THEN "fail" ELSE "pass"))

(* One policy of the two is enough for it. *)
checkRetentionPolicies(c, l) ==
  Database(c, l, "skip", Information(c, "skip",
    IF {"no traffic policy", "no beacon policy"} \subseteq c THEN "warn" ELSE "pass"))

checkConfiguredRolesExist(c, l) ==
  LET named == {r \in {"collector", "beacon", "api", "panel"} : Named(c, r)}
  IN IF Pool(c) /\ named = {} THEN "skip"
     ELSE Database(c, l, "skip", IF \E r \in named : ~roleExists(c, r) THEN "warn" ELSE "pass")

checkDeveloperPassword(c) ==
  IF "no gate" \in c THEN "skip" ELSE IF "no password" \in c THEN "warn" ELSE "pass"

checkBotData(c) ==
  IF "no bot path" \in c THEN "skip"
  ELSE IF "bot file" \in c THEN "fail"
  ELSE IF {"never fetched", "stale bots"} \cap c # {} THEN "warn"
  ELSE "pass"

(* The services that may write an address: none has spoken, or one of them
   has no key. *)
checkIPTokenKey(c, l) ==
  Database(c, l, "warn", IF {"no beat", "no token key"} \cap c # {} THEN "skip" ELSE "pass")

checkLogDir(c) ==
  IF "no log dir" \in c THEN "skip"
  ELSE IF {"log dir gone", "log file", "log dir read-only"} \cap c # {} THEN "fail"
  ELSE IF "log dir open" \in c THEN "warn"
  ELSE "pass"

(* Low is judged of the directories that could be measured. *)
availableBytes(c, dir) == (dir \o " unmeasured") \notin c

checkFreeSpace(c) ==
  LET measured == {d \in {"data", "log"} : availableBytes(c, d)}
  IN IF measured = {} THEN "skip"
     ELSE IF \E d \in measured : (d \o " low") \in c THEN "fail" ELSE "pass"

checkBackups == "warn"

noServiceURLs == "warn"

(* The request to a service is under the page's context too. *)
checkService(c, l) ==
  IF "bad address" \in c THEN "skip"
  ELSE IF "service down" \in c \/ l THEN "fail" ELSE "pass"

-----------------------------------------------------------------------------

(* The order they run in; the last line is left out by the health page,
   which lists no addresses. *)
Checks ==
  <<"schema.panel", "schema.analytics", "schema.columns", "grants.live_settings",
    "grants.panel_isolation", "grants.api_read_only", "db.connection_encrypted",
    "db.no_background_jobs", "retention.configured", "grants.roles_exist",
    "config.developer_password", "config.ip_token_key", "data.bot_fingerprints",
    "logs.writable", "disk.free", "backup.configured", "service">>

Addresses(p, c) == p # "health" /\ "no addresses" \notin c

Run(id, p, c, l) ==
  CASE id = "schema.panel" -> checkPanelSchema(c, l)
    [] id = "schema.analytics" -> checkAnalyticsSchema(c, l)
    [] id = "schema.columns" -> checkSelfMigratingColumns(c, l)
    [] id = "grants.live_settings" -> checkSettingsGrant(c, l)
    [] id = "grants.panel_isolation" -> checkPanelIsolation(c, l)
    [] id = "grants.api_read_only" -> checkAPIIsReadOnly(c, l)
    [] id = "db.connection_encrypted" -> checkConnectionEncryption(c, l)
    [] id = "db.no_background_jobs" -> checkNoBackgroundJobs(c, l)
    [] id = "retention.configured" -> checkRetentionPolicies(c, l)
    [] id = "grants.roles_exist" -> checkConfiguredRolesExist(c, l)
    [] id = "config.developer_password" -> checkDeveloperPassword(c)
    [] id = "config.ip_token_key" -> checkIPTokenKey(c, l)
    [] id = "data.bot_fingerprints" -> checkBotData(c)
    [] id = "logs.writable" -> checkLogDir(c)
    [] id = "disk.free" -> checkFreeSpace(c)
    [] id = "backup.configured" -> checkBackups
    [] id = "service" -> IF Addresses(p, c) THEN checkService(c, l) ELSE noServiceURLs

(* A service that was asked is required; the line saying none was is not. *)
Required(id, p, c) ==
  \/ id \in {"schema.panel", "schema.analytics", "schema.columns", "grants.panel_isolation",
             "grants.api_read_only", "db.no_background_jobs", "logs.writable"}
  \/ id = "service" /\ Addresses(p, c)

(* A required check blocks when it failed or could not run. *)
Blocks(required, status) == required /\ status \in {"fail", "skip"}

Complete(rs) == \A k \in DOMAIN rs : ~rs[k].blocks

(* The wizard's database step shows its part of the list. *)
databaseChecks ==
  {"schema.panel", "schema.analytics", "schema.columns", "grants.live_settings",
   "grants.panel_isolation", "grants.api_read_only", "grants.roles_exist",
   "retention.configured"}

-----------------------------------------------------------------------------

(* The pages that run the checks: the wizard's database step, its list, the
   handover page, the press of it, and the health page. *)
Pages == {"veritabani", "kontrol", "devir", "hand over", "health"}

PreflightInit ==
  /\ conditions \in {c \in SUBSET Conditions : Cardinality(c) <= MaxConditions}
  /\ page = Blank /\ results = <<>> /\ late = FALSE /\ shown = <<>> /\ verdict = Blank
  /\ cleared = {} /\ met = {} /\ worldChanges = 0 /\ pages = 0

(* Mutant of AskForPage: the handover trusts what the page of the checks showed. *)
AskTrusting(p) ==
  /\ page = Blank /\ pages < MaxPages
  /\ page' = p /\ pages' = pages + 1
  /\ results' = IF p = "hand over" THEN shown ELSE <<>>
  /\ late' = FALSE /\ verdict' = Blank
  /\ cleared' = Conditions \ conditions /\ met' = conditions
  /\ UNCHANGED <<conditions, shown, worldChanges>>

(* A page is asked for. Each runs the checks itself, whatever an earlier one
   found. *)
AskForPage(p) ==
  /\ page = Blank /\ pages < MaxPages
  /\ page' = p /\ pages' = pages + 1
  /\ results' = <<>> /\ late' = FALSE /\ verdict' = Blank
  /\ cleared' = Conditions \ conditions /\ met' = conditions
  /\ UNCHANGED <<conditions, shown, worldChanges>>

RunNext ==
  /\ page # Blank /\ Len(results) < Len(Checks)
  /\ LET id == Checks[Len(results) + 1]
         status == Run(id, page, conditions, late)
     IN results' = Append(results, [status |-> status,
                                    blocks |-> Blocks(Required(id, page, conditions), status)])
  /\ UNCHANGED <<conditions, page, late, shown, verdict, cleared, met, worldChanges, pages>>

Ran(p) == page = p /\ Len(results) = Len(Checks)

Answered(v) ==
  /\ verdict' = v
  /\ page' = Blank /\ results' = <<>> /\ late' = FALSE /\ cleared' = {} /\ met' = {}
  /\ UNCHANGED <<conditions, worldChanges, pages>>

(* The database step judges the part of the list it shows. *)
ShowDatabase ==
  /\ Ran("veritabani")
  /\ Answered(IF \A k \in DOMAIN results :
                   Checks[k] \in databaseChecks => ~results[k].blocks
              THEN "database ready" ELSE "blocked")
  /\ UNCHANGED shown

ShowChecks ==
  /\ Ran("kontrol")
  /\ shown' = results
  /\ Answered(IF Complete(results) THEN "ready" ELSE "blocked")

loadHandover ==
  /\ Ran("devir")
  /\ Answered(IF Complete(results) THEN "ready" ELSE "blocked")
  /\ UNCHANGED shown

(* The press: the checks must be complete and the invitation made, which
   the address or the context may still prevent. *)
handOver ==
  /\ Ran("hand over")
  /\ \E made \in BOOLEAN :
       Answered(IF ~Complete(results) THEN "blocked"
                ELSE IF made /\ ~late THEN "handed over" ELSE "refused")
  /\ UNCHANGED shown

(* The health page drops what passed and lists the rest; it is clear when no
   line of the rest is a required check that failed or could not look. *)
healthChecks ==
  /\ Ran("health")
  /\ LET unmet == {k \in DOMAIN results : results[k].status # "pass"}
     IN Answered(IF \E k \in unmet : results[k].blocks THEN "unmet" ELSE "clear")
  /\ UNCHANGED shown

(* The page's budget runs out, or the browser leaves. *)
GiveUp ==
  /\ page # Blank /\ ~late
  /\ late' = TRUE
  /\ UNCHANGED <<conditions, page, results, shown, verdict, cleared, met, worldChanges, pages>>

(* The deployment changes: something is repaired, or breaks. *)
Change ==
  \E x \in Conditions :
    /\ worldChanges < MaxWorldChanges
    /\ worldChanges' = worldChanges + 1
    /\ conditions' = IF x \in conditions THEN conditions \ {x} ELSE conditions \cup {x}
    /\ cleared' = IF page = Blank THEN cleared ELSE cleared \cup (Conditions \ conditions')
    /\ met' = IF page = Blank THEN met ELSE met \cup conditions'
    /\ UNCHANGED <<page, results, late, shown, verdict, pages>>

PreflightNext ==
  \/ \E p \in Pages : AskForPage(p)
  \/ RunNext
  \/ ShowDatabase \/ ShowChecks \/ loadHandover \/ handOver \/ healthChecks
  \/ GiveUp
  \/ Change

PreflightSpec == PreflightInit /\ [][PreflightNext]_preflightVars

-----------------------------------------------------------------------------

(* What the required checks look for. *)
Disqualifying ==
  Conditions \cap
    ({"no pool", "database", "panel table", "analytics table", "plain table", "column",
      "panel unnamed", "api unnamed", "panel reads", "api writes",
      "planted job", "no log dir", "log dir gone", "log file", "log dir read-only",
      "service down", "bad address"})

(* A required check that warns blocks nothing, and the one of the tables warns
   when it could not look whether they are hypertables. *)
OnlyWarned(id) == \E k \in DOMAIN results : Checks[k] = id /\ results[k].status = "warn"

(* What a required check lets pass unseen: that; the grants of a role of
   another name; and the services where their addresses are not given. *)
Unseen(y) ==
  \/ y = "plain table" /\ OnlyWarned("schema.analytics")
  \/ y = "panel reads" /\ "panel misnamed" \in met
  \/ y = "api writes" /\ "api misnamed" \in met
  \/ y \in {"service down", "bad address"} /\ (page = "health" \/ "no addresses" \in met)

(* A page says the deployment is ready, hands it over or calls it clear only
   when each thing a required check looks for was absent at some moment while
   that page ran its checks: an answer is never older than its page, and what
   failed or could not be looked at is not a pass (preflight.go Complete,
   setup.go loadHandover and handOver, which run the checks again rather than
   trust the previous step). Except for the three that pass unseen. *)
ReadyWhenSaid ==
  [][verdict' # verdict /\ verdict' \in {"ready", "handed over", "clear"}
       => \A y \in Disqualifying : y \in cleared \/ Unseen(y)]_preflightVars
=============================================================================

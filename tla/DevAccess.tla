------------------------------ MODULE DevAccess ------------------------------
(***************************************************************************)
(* How a developer comes into the panel (panel/devaccess.go,               *)
(* devaccesspolicy.go, web/devaccess.go, web/setup.go devAccessHandler)    *)
(* and the sessions everybody's requests run under (panel/session.go over  *)
(* the scs session manager).                                               *)
(*                                                                         *)
(* A request reads its session's row when it starts and writes it back     *)
(* when it ends, because the idle timeout marks every loaded session as    *)
(* modified.  Renewing a token and destroying a session delete the old row *)
(* at once.  What is in flight at that moment still writes its copy.       *)
(* Times are ticks left.                                                   *)
(***************************************************************************)
EXTENDS Naturals

CONSTANTS
  Grants,     \* rows of panel_dev_access, one for each link minted
  Visits,   \* HTTP requests in flight
  MaxTokens,  \* (bound) session tokens ever issued
  RequestTTL, \* request_expires_at
  SessionTTL, \* session_ttl_seconds
  OpenFor,    \* how long an owner may leave the door open
  NoGrant

ASSUME DevAccessAssumption ==
  /\ MaxTokens \in Nat /\ RequestTTL \in Nat \ {0} /\ SessionTTL \in Nat \ {0}
  /\ OpenFor \in Nat \ {0} /\ NoGrant \notin Grants

VARIABLES
  users,  \* whether an account exists
  policy, \* access.developer and what is left of access.developer_open_until
  until,
  grant,
  cli,    \* the -dev-link commands: what each has read of the policy
  issued, \* how many session tokens there have been
  session,   \* panel_sessions
  visit,
  opened     \* history: how many sessions each link has opened

devVars == <<users, policy, until, grant, cli, issued, session, visit, opened>>

Tokens == 1..MaxTokens

\* The keys of a session's data that say who it is.
Empty == [dev |-> NoGrant, exp |-> 0, who |-> "none"]
NoSession == [dev |-> NoGrant, exp |-> 0, who |-> "no row"]
At(at, t, d) == [at |-> at, tok |-> t, data |-> d, as |-> "nobody"]
Idle == At("idle", 0, Empty)

DevInit ==
  /\ users = FALSE /\ policy = "ask" /\ until = 0
  /\ grant = [g \in Grants |-> [st |-> "none", auto |-> FALSE, used |-> FALSE, life |-> 0,
                                left |-> 0, why |-> "none"]]
  /\ cli = [g \in Grants |-> "no"]
  /\ issued = 0 /\ session = [t \in Tokens |-> NoSession]
  /\ visit = [r \in Visits |-> Idle]
  /\ opened = [g \in Grants |-> 0]

-----------------------------------------------------------------------------
(* The link: asked for on the server's own command line, decided by an     *)
(* owner or by the policy.                                                 *)

\* DevAccessPolicyFor reads two settings.  A failed read asks the owner.
ReadPolicy(g) ==
  /\ cli[g] = "no"
  /\ \E read \in {policy, "ask"} :
       cli' = [cli EXCEPT ![g] = IF read = "open" THEN "reading" ELSE read]
  /\ UNCHANGED <<users, policy, until, grant, issued, session, visit, opened>>

ReadUntil(g) ==
  /\ cli[g] = "reading"
  /\ \E mode \in IF until > 0 THEN {"open", "ask"} ELSE {"ask"} : cli' = [cli EXCEPT ![g] = mode]
  /\ UNCHANGED <<users, policy, until, grant, issued, session, visit, opened>>

\* The CASE expressions of the one INSERT.
ApprovedAtOnce(mode) == ~users \/ mode = "open"

RequestDevAccess(g) ==
  /\ cli[g] \in {"ask", "deny", "open"}
  /\ cli' = [cli EXCEPT ![g] = "done"]
  /\ grant' = [grant EXCEPT ![g] =
       [st |-> IF ApprovedAtOnce(cli[g]) THEN "approved"
               ELSE IF cli[g] = "deny" THEN "denied" ELSE "waiting",
        auto |-> ~users, used |-> FALSE, life |-> RequestTTL, left |-> 0,
        why |-> IF ~users THEN "bootstrap" ELSE IF cli[g] = "open" THEN "policy" ELSE "none"]]
  /\ UNCHANGED <<users, policy, until, issued, session, visit, opened>>

Undecided(g) == grant[g].st = "waiting" /\ ~grant[g].used /\ grant[g].life > 0

\* saveDecision, by somebody requireDecider lets through.
decideDevAccess(r, g, verdict) ==
  /\ visit[r].at = "running" /\ visit[r].as = "user" /\ Undecided(g)
  /\ grant' = [grant EXCEPT ![g].st = verdict,
                            ![g].why = IF verdict = "approved" THEN "owner" ELSE @]
  /\ visit' = [visit EXCEPT ![r].at = "ending"]
  /\ UNCHANGED <<users, policy, until, cli, issued, session, opened>>

\* The two settings are rows of their own and a form each.
SetPolicy(mode) ==
  /\ users /\ policy # mode /\ policy' = mode
  /\ UNCHANGED <<users, until, grant, cli, issued, session, visit, opened>>

SetOpenUntil ==
  /\ users /\ until = 0 /\ until' = OpenFor
  /\ UNCHANGED <<users, policy, grant, cli, issued, session, visit, opened>>

\* An owner's claim or an invitation makes the first account.
NewAccount ==
  /\ ~users /\ users' = TRUE
  /\ UNCHANGED <<policy, until, grant, cli, issued, session, visit, opened>>

PurgeOldDevAccess(g) ==
  /\ cli[g] = "done" /\ grant[g].st # "gone" /\ grant[g].life = 0 /\ grant[g].left = 0
  /\ grant' = [grant EXCEPT ![g].st = "gone"]
  /\ UNCHANGED <<users, policy, until, cli, issued, session, visit, opened>>

-----------------------------------------------------------------------------
(* Visits and their sessions.                                            *)

\* LoadAndSave: the cookie's row, or a session that has none yet.
Load(r, t) ==
  /\ visit[r] = Idle /\ t \in 0..issued
  /\ visit' = [visit EXCEPT ![r] =
       IF t # 0 /\ session[t] # NoSession THEN At("running", t, session[t]) ELSE At("running", 0, Empty)]
  /\ UNCHANGED <<users, policy, until, grant, cli, issued, session, opened>>

\* Commit, when the handler has returned.  A session with no key is not kept.
Commit(r) ==
  /\ visit[r].at \in {"running", "ending", "destroyed"}
  /\ session' = IF visit[r].at = "destroyed" \/ visit[r].tok = 0 THEN session
             ELSE [session EXCEPT ![visit[r].tok] = visit[r].data]
  /\ visit' = [visit EXCEPT ![r] = Idle]
  /\ UNCHANGED <<users, policy, until, grant, cli, issued, opened>>

Drop(t) == [k \in Tokens |-> IF k = t THEN NoSession ELSE session[k]]

\* RenewToken deletes the old row and puts the data under a new token.
Renewed(r, data, at) ==
  /\ issued < MaxTokens /\ issued' = issued + 1
  /\ session' = Drop(visit[r].tok)
  /\ visit' = [visit EXCEPT ![r].tok = issued + 1, ![r].data = data, ![r].at = at]

VisitorLogsIn(r) ==
  /\ visit[r].at = "running" /\ visit[r].as = "nobody" /\ users
  /\ Renewed(r, [dev |-> NoGrant, exp |-> 0, who |-> "user"], "ending")
  /\ UNCHANGED <<users, policy, until, grant, cli, opened>>

\* The developer's keys stay in the session until the code is given.
VisitorAwaitsFactor(r) ==
  /\ visit[r].at = "running" /\ visit[r].as = "nobody" /\ users
  /\ Renewed(r, [visit[r].data EXCEPT !.who = "pending"], "ending")
  /\ UNCHANGED <<users, policy, until, grant, cli, opened>>

Destroyed(r) ==
  /\ session' = Drop(visit[r].tok)
  /\ visit' = [visit EXCEPT ![r].at = "destroyed", ![r].data = Empty]

VisitorLogsOut(r) ==
  /\ visit[r].at = "running" /\ visit[r].data # Empty
  /\ Destroyed(r)
  /\ UNCHANGED <<users, policy, until, grant, cli, issued, opened>>

\* (mutant) The approval given while nobody owned the panel is kept.
bootstrapGrantStays(g) == TRUE

bootstrapGrantAlive(g) == ~grant[g].auto \/ ~users

Redeemable(g) ==
  /\ grant[g].st = "approved" /\ ~grant[g].used /\ grant[g].life > 0
  /\ bootstrapGrantAlive(g)

\* devAccessHandler, first the row and then the session.  A link whose
\* session cannot be made is spent.
RedeemDevAccess(r, g) ==
  /\ visit[r].at = "running" /\ visit[r].as = "nobody" /\ Redeemable(g)
  /\ grant' = [grant EXCEPT ![g].used = TRUE, ![g].left = SessionTTL]
  /\ visit' = [visit EXCEPT ![r].at = "redeemed",
                            ![r].data = [dev |-> g, exp |-> SessionTTL, who |-> @.who]]
  /\ UNCHANGED <<users, policy, until, cli, issued, session, opened>>

LogInDeveloper(r) ==
  /\ visit[r].at = "redeemed"
  /\ Renewed(r, [visit[r].data EXCEPT !.who = "none"], "ending")
  /\ opened' = [opened EXCEPT ![visit[r].data.dev] = @ + 1]
  /\ UNCHANGED <<users, policy, until, grant, cli>>

LogInFails(r) ==
  /\ visit[r].at = "redeemed" /\ visit' = [visit EXCEPT ![r] = Idle]
  /\ UNCHANGED <<users, policy, until, grant, cli, issued, session, opened>>

DevSessionLive(g) == grant[g].st # "gone" /\ bootstrapGrantAlive(g)

\* The two things a developer's session stands on.
Stands(d) == d.exp > 0 /\ DevSessionLive(d.dev)

\* Who this request is made by, asked once when it begins.
Principal(r) ==
  /\ visit[r].at = "running" /\ visit[r].as = "nobody"
  /\ LET d == visit[r].data IN
     \/ /\ d.dev # NoGrant /\ Stands(d)
        /\ visit' = [visit EXCEPT ![r].as = "developer"] /\ UNCHANGED session
     \/ d.dev # NoGrant /\ ~Stands(d) /\ Destroyed(r)
     \/ /\ d.dev = NoGrant /\ d.who = "user"
        /\ visit' = [visit EXCEPT ![r].as = "user"] /\ UNCHANGED session
  /\ UNCHANGED <<users, policy, until, grant, cli, issued, opened>>

\* The clock: what has been promised for a time is promised for less.
Less(n) == IF n = 0 THEN 0 ELSE n - 1
Later(d) == [d EXCEPT !.exp = Less(@)]

DevTick ==
  /\ until' = Less(until)
  /\ grant' = [g \in Grants |-> [grant[g] EXCEPT !.life = Less(@), !.left = Less(@)]]
  /\ session' = [t \in Tokens |-> Later(session[t])]
  /\ visit' = [r \in Visits |-> [visit[r] EXCEPT !.data = Later(@)]]
  /\ UNCHANGED <<users, policy, cli, issued, opened>>

DevNext ==
  \/ \E g \in Grants :
       ReadPolicy(g) \/ ReadUntil(g) \/ RequestDevAccess(g) \/ PurgeOldDevAccess(g)
  \/ \E r \in Visits :
       \/ \E t \in 0..MaxTokens : Load(r, t)
       \/ \E g \in Grants : RedeemDevAccess(r, g)
       \/ \E g \in Grants, verdict \in {"approved", "denied"} : decideDevAccess(r, g, verdict)
       \/ LogInDeveloper(r) \/ LogInFails(r) \/ VisitorLogsIn(r) \/ VisitorAwaitsFactor(r) \/ VisitorLogsOut(r)
       \/ Principal(r) \/ Commit(r)
  \/ \E mode \in {"ask", "deny", "open"} : SetPolicy(mode)
  \/ SetOpenUntil \/ NewAccount \/ DevTick

DevSpec == DevInit /\ [][DevNext]_devVars

-----------------------------------------------------------------------------
(* Properties.                                                             *)

\* Nobody is taken for the developer unless an owner or an owner's open
\* policy said yes to that link, or there is still nobody to ask, and never
\* after the session's end, whatever the order of accounts, decisions,
\* redemptions and saved sessions (H11 in devaccess.go: "the session never
\* asked again").  And a link is spent by its first use, however many browsers
\* follow it at once (RedeemDevAccess).
DeveloperActsWithin ==
  [][\A r \in Visits :
       visit[r].as # "developer" /\ visit'[r].as = "developer" =>
         LET g == grant[visit[r].data.dev] IN
           /\ g.why # "none" /\ g.left > 0
           /\ g.why = "bootstrap" => ~users
           /\ opened[visit[r].data.dev] <= 1]_devVars
==============================================================================

------------------------------ MODULE MCAccess ------------------------------
(***************************************************************************)
(* Who may do what on the panel: the members of a site, the login, the     *)
(* developer's link, and the settings behind the dev gate.  The four share *)
(* a process and no state of these models, so a behaviour runs one of them *)
(* and the others stand still.                                             *)
(***************************************************************************)
EXTENDS Members, Login, DevAccess, Settings

CONSTANTS ann, bob, cem, dee, operator1, half1

\* An owner, an administrator, somebody with an account and no membership,
\* and somebody with neither.
ScanOrderDef == <<dee, cem, ann, bob>>
StartRoleDef == (ann :> "owner") @@ (bob :> "admin") @@ (cem :> "none")
OffersDef == {[role |-> "owner", temp |-> FALSE], [role |-> "viewer", temp |-> TRUE]}

\* An operator of everything, and one who manages a single site.
ManagesDef == (operator1 :> {}) @@ (half1 :> {"s1"})
InputsDef ==
  ("privacy.ip_storage" :> {"full"}) @@ ("collector.blocked_countries" :> {{"x", "y"}})
  @@ ("panel.cards" :> {"n"}) @@ ("panel.breakdowns" :> {Bad}) @@ ("logs.retention_days" :> {"30"})
FileDef == "collector.blocked_countries" :> {"z"}

\* Wrong passwords and codes compared in a window are bounded, at the login
\* (panel/attempts.go) and at the developer gate (devgate.go), however many
\* forms are sent at once.
PasswordsAreGuarded == GuessesBounded /\ GuessBudget

VARIABLE part \* which of the four runs

Init ==
  /\ part \in {"members", "login", "dev access", "settings"}
  /\ MembersInit /\ LoginInit /\ DevInit /\ SettingsInit
  /\ part # "login" => secret = 0 \* where nobody signs in, it does not matter

Next ==
  \/ part = "members" /\ MembersNext /\ UNCHANGED <<part, loginVars, devVars, settingsVars>>
  \/ part = "login" /\ LoginNext /\ UNCHANGED <<part, membersVars, devVars, settingsVars>>
  \/ part = "dev access" /\ DevNext /\ UNCHANGED <<part, membersVars, loginVars, settingsVars>>
  \/ part = "settings" /\ SettingsNext /\ UNCHANGED <<part, membersVars, loginVars, devVars>>

Spec == Init /\ [][Next]_<<part, membersVars, loginVars, devVars, settingsVars>>
=============================================================================

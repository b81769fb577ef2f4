---------------------------- MODULE MCOperations ----------------------------
(***************************************************************************)
(* What the panel asks for, sends and shows, what a restore does with a    *)
(* file, what the beacon counts, and what the upgrader does to a release   *)
(* and the schema it brings.  They share no state of these models, so a    *)
(* behaviour runs one of them and the others stand still.                  *)
(***************************************************************************)
EXTENDS Asking, Mail, Preflight, HealthPage, Restore, Beacon, SchemaUpgrade

\* One device with both measured paths on it; nothing measured on the other.
DeviceOfDef == [p \in {"logs", "state"} |-> 1]
ReadingsDef ==
  {[answers |-> a, kind |-> "hyper", version |-> 2, column |-> a, api |-> TRUE,
    beat |-> [age |-> 4, key |-> "present", counters |-> [paused |-> 0, rejected |-> 1]]] : a \in BOOLEAN}
SetsDef == [analitik |-> {"t1"}, panel |-> {"t2"}]

VARIABLE part \* which of them runs

\* Presses of different queues share no row; two meet at one.
OneQueue ==
  \A p, q \in Presses :
    press[p].at # "new" /\ press[q].at # "new" => QueueOf(press[p].work) = QueueOf(press[q].work)

Init ==
  /\ part \in {"asking", "mail", "preflight", "health page", "restore", "beacon", "upgrade",
               "two hosts"}
  /\ AskingInit /\ MailInit /\ PreflightInit /\ HealthPageInit /\ RestoreInit /\ BeaconInit
  /\ UpgradeInit
  /\ part = "upgrade" => schemaRecord = 1
  /\ part = "two hosts" => schemaRecord = 0
  /\ part # "mail" => ~keySet
  /\ conditions \subseteq (IF part = "preflight" THEN {"information"} ELSE {})
  /\ used[2] = 0 /\ (part # "health page" => used[1] = 0)

\* In "upgrade" one host asks for a release and the upgrade it leads to; in
\* "two hosts" both upgrade a schema older than both, without a release.
AskedHere == upgrade'.id = upgrade.id \/ upgrade'.to = running["panel"]

Next ==
  \/ /\ part = "asking" /\ AskingNext /\ OneQueue'
     /\ UNCHANGED <<part, mailVars, preflightVars, healthVars, restoreVars, beaconVars, upgradeVars>>
  \/ /\ part = "mail" /\ MailNext
     /\ UNCHANGED <<part, askingVars, preflightVars, healthVars, restoreVars, beaconVars, upgradeVars>>
  \/ /\ part = "preflight" /\ PreflightNext
     /\ UNCHANGED <<part, askingVars, mailVars, healthVars, restoreVars, beaconVars, upgradeVars>>
  \/ /\ part = "health page" /\ HealthPageNext
     /\ UNCHANGED <<part, askingVars, mailVars, preflightVars, restoreVars, beaconVars, upgradeVars>>
  \/ /\ part = "restore" /\ RestoreNext
     /\ UNCHANGED <<part, askingVars, mailVars, preflightVars, healthVars, beaconVars, upgradeVars>>
  \/ /\ part = "beacon" /\ BeaconNext
     /\ UNCHANGED <<part, askingVars, mailVars, preflightVars, healthVars, restoreVars, upgradeVars>>
  \/ /\ part = "upgrade" /\ UpgradeNext /\ visits' = 0 /\ AskedHere
     /\ UNCHANGED <<part, askingVars, mailVars, preflightVars, healthVars, restoreVars, beaconVars>>
  \/ /\ part = "two hosts" /\ UpgradeNext /\ rel' = rel
     /\ UNCHANGED <<part, askingVars, mailVars, preflightVars, healthVars, restoreVars, beaconVars>>

Spec ==
  Init /\ [][Next]_<<part, askingVars, mailVars, preflightVars, healthVars, restoreVars,
                     beaconVars, upgradeVars>>
=============================================================================

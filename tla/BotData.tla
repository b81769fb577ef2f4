------------------------------- MODULE BotData -------------------------------
(***************************************************************************)
(* The list of known bots' TLS fingerprints (internal/botdata): an update  *)
(* fetches the archive, filters and merges it and puts the file in place   *)
(* of the last; the collector reads the file when it starts.  An update is *)
(* a run of its own, by hand or by cron, and two of them may overlap.      *)
(*                                                                         *)
(* An archive entry is a fingerprint and a type; "" stands for a           *)
(* connection without a fingerprint.                                       *)
(***************************************************************************)
EXTENDS Naturals, Sequences, FiniteSets, SequencesExt

CONSTANTS
  Updates,      \* runs of collector -update-bot-data
  Archives,     \* what the source may answer, as sequences of entries
  MaxPowerCuts  \* bound on the losses of power

VARIABLES
  file,     \* what the path names: a file, or none
  update,   \* each run: where it is and what it holds
  labels,   \* what the collector has loaded
  loadFails,\* the collector found a file it could not parse
  cuts

botVars == <<file, update, labels, loadFails, cuts>>

NoFile == [whole |-> FALSE, synced |-> FALSE, labels |-> {}, there |-> FALSE]
NoUpdate == [at |-> "off", labels |-> {}, temp |-> NoFile]

BotInit ==
  /\ file = NoFile /\ update = [u \in Updates |-> NoUpdate]
  /\ labels = {} /\ loadFails = FALSE /\ cuts = 0

-----------------------------------------------------------------------------
(* Fetch.                                                                  *)

Kept(e) == e.ja4 # "" /\ e.type # "browser"

\* filterArchive: what is not dropped, entries that share a fingerprint as
\* one.
Filter(archive) == {archive[i].ja4 : i \in {j \in DOMAIN archive : Kept(archive[j])}}

\* An archive that keeps nothing is an error, as is no answer.
Fetch(u) ==
  /\ update[u].at = "off"
  /\ \E archive \in Archives :
       /\ Filter(archive) # {}
       /\ update' = [update EXCEPT ![u] = [NoUpdate EXCEPT !.at = "temp", !.labels = Filter(archive)]]
  /\ UNCHANGED <<file, labels, loadFails, cuts>>

-----------------------------------------------------------------------------
(* Save.                                                                   *)

\* The temporary file is written; the disk may fill, and then it is removed.
Write(u) ==
  /\ update[u].at = "temp"
  /\ \/ update' = [update EXCEPT ![u].at = "sync", ![u].temp =
                     [whole |-> TRUE, synced |-> FALSE, labels |-> update[u].labels, there |-> TRUE]]
     \/ update' = [update EXCEPT ![u] = NoUpdate]
  /\ UNCHANGED <<file, labels, loadFails, cuts>>

\* (mutant) The file is renamed before it is on the disk.
SyncLater(u) ==
  /\ update[u].at = "sync" /\ update' = [update EXCEPT ![u].at = "rename"]
  /\ UNCHANGED <<file, labels, loadFails, cuts>>

Sync(u) ==
  /\ update[u].at = "sync"
  /\ update' = [update EXCEPT ![u].at = "rename", ![u].temp.synced = TRUE]
  /\ UNCHANGED <<file, labels, loadFails, cuts>>

Rename(u) ==
  /\ update[u].at = "rename" /\ file' = update[u].temp
  /\ update' = [update EXCEPT ![u] = NoUpdate]
  /\ UNCHANGED <<labels, loadFails, cuts>>

\* A run is killed; its temporary file stays where nothing reads it.
Kill(u) ==
  /\ update[u].at # "off" /\ update' = [update EXCEPT ![u] = NoUpdate]
  /\ UNCHANGED <<file, labels, loadFails, cuts>>

\* The machine loses power: what was not synced may be gone from the file.
PowerCut ==
  /\ cuts < MaxPowerCuts /\ cuts' = cuts + 1
  /\ update' = [u \in Updates |-> NoUpdate] /\ labels' = {}
  /\ file' \in {file} \union (IF file.synced THEN {} ELSE {[file EXCEPT !.whole = FALSE]})
  /\ UNCHANGED loadFails

-----------------------------------------------------------------------------
(* Load, when the collector starts.                                        *)

Load ==
  /\ IF file.there /\ ~file.whole
     THEN labels' = {} /\ loadFails' = TRUE
     ELSE labels' = {l \in file.labels : l # ""} /\ loadFails' = FALSE
  /\ UNCHANGED <<file, update, cuts>>

BotNext ==
  PowerCut \/ Load
    \/ \E u \in Updates : Fetch(u) \/ Write(u) \/ Sync(u) \/ Rename(u) \/ Kill(u)

BotSpec == BotInit /\ [][BotNext]_botVars

-----------------------------------------------------------------------------
(* Properties.                                                             *)

\* Whatever dies in the middle of an update, and whichever updates overlap,
\* the collector can read the file when it starts (botdata.go:382).
FileCanBeRead == ~loadFails
=============================================================================

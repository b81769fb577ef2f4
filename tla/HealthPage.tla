---------------------------- MODULE HealthPage ----------------------------
(***************************************************************************)
(* What the panel's health page reads and how it draws it                  *)
(* (src/internal/panel/web/disk.go and health.go, panel/health.go and      *)
(* internal/diskspace). The disks are measured directory by directory      *)
(* while the upgrader writes backups onto them and somebody deletes files  *)
(* from a shell; what the backups occupy comes from the catalogue, read    *)
(* earlier. The other sections are read in one step each, and one that     *)
(* cannot be read says so.                                                 *)
(*                                                                         *)
(* Sizes are small numbers of units, so that the rounding of a percentage  *)
(* shows. Labels, languages and the order of rows are left out.            *)
(***************************************************************************)
EXTENDS Naturals, Sequences, FiniteSets, FiniteSetsExt

CONSTANTS Devices,    \* the filesystems of the machine, numbers above 0
          Paths,      \* the directories the panel is configured with
          DeviceOf,   \* the filesystem each is on
          Size,       \* the size of a filesystem
          Reserve,    \* the part of it kept for root
          MaxBackups, \* how many backups are taken
          Readings,   \* what the database and the services may be found to say
          Version     \* the schema version this build expects

ASSUME HealthPageAssumption ==
  /\ Devices \subseteq Nat \ {0} /\ IsFiniteSet(Devices) /\ DeviceOf \in [Paths -> Devices]
  /\ Size \in Nat \ {0} /\ Reserve \in 0..Size

VARIABLES used,     \* what files occupy on each filesystem
          catalogue,\* the backups recorded: number, filesystem (0 unrecorded), size, and where it is
          missing,  \* those of them that are recorded as gone
          at,       \* the page: "", "catalogue" or "disks"
          left,     \* the directories still to measure
          backups,  \* what it read of the catalogue, per filesystem
          unplaced, \* and what could not be placed on one
          rows,     \* the filesystems measured so far
          reading,  \* history: the backups the catalogue had at that reading
          sections  \* what the other sections said

healthVars == <<used, catalogue, missing, at, left, backups, unplaced, rows, reading, sections>>

-----------------------------------------------------------------------------
(* A filesystem, measured. *)

Space(d) ==
  [device |-> d, total |-> Size, used |-> used[d],
   avail |-> IF used[d] + Reserve > Size THEN 0 ELSE Size - used[d] - Reserve]

clampPercent(p) == IF p > 100 THEN 100 ELSE p

PercentOf(part, s) == clampPercent((part * 100) \div s.total)

(* Mutant of barSegments: each part of the bar rounded down by itself. *)
barSegmentsApart(s) ==
  [used |-> PercentOf(s.used, s), reserved |-> PercentOf(s.total - s.used - s.avail, s)]

(* The used part and the reserve, the second measured from the far end. *)
barSegments(s) ==
  LET usedPct == PercentOf(s.used, s)
      unavailPct == PercentOf(s.total - s.avail, s)
  IN [used |-> usedPct, reserved |-> IF unavailPct < usedPct THEN 0 ELSE unavailPct - usedPct]

(* The backups' slice, inside the used part. *)
backupSegment(s, bytes) ==
  IF PercentOf(bytes, s) > PercentOf(s.used, s) THEN PercentOf(s.used, s) ELSE PercentOf(bytes, s)

-----------------------------------------------------------------------------
(* The other sections, from what the database answered. *)

(* A hypertable is sized by its chunks, and a table that is not there has
   neither size nor chunks. *)
StorageFacts(kind, chunks, size) ==
  [bytes |-> IF kind = "absent" THEN 0 ELSE IF kind = "hyper" THEN chunks ELSE size,
   hypertable |-> kind = "hyper", chunks |-> IF kind = "hyper" THEN chunks ELSE 0]

(* A failed reading of the policies leaves no policy. *)
attachRetention(answered, days) == IF answered THEN days ELSE 0

healthStorage(fact) == [missing |-> fact.bytes = 0 /\ ~fact.hypertable, bytes |-> fact.bytes]

(* The version recorded (0 none) beside the one expected; the same version
   with another fingerprint is shown as behind the build. *)
healthSchema(version, same) ==
  IF version = 0 THEN "unrecorded"
  ELSE IF same THEN "matches"
  ELSE IF version > Version THEN "behind" ELSE "ahead"

(* Three intervals without a beat, counted by the panel's clock. *)
Stale(age) == age > 3

(* A service's counters as the page draws them: two of them only when they
   count, and the refusals by reason only when they happened. *)
labelledCounters(counters) ==
  {k \in DOMAIN counters : k \in {"paused", "geo_blocked"} => counters[k] # 0}

rejectionParts(counters) == {k \in DOMAIN counters : counters[k] > 0}

healthServices(beats) ==
  {[stale |-> Stale(b.age), key |-> b.key, counters |-> labelledCounters(b.counters),
    parts |-> rejectionParts(b.counters)] : b \in beats}

(* A column the database does not have yet reads as unknown. *)
ReadKey(has, key) == IF has THEN key ELSE ""

(* The read API answers within its own deadline, or is said not to. *)
healthAPI(configured, answers) ==
  IF ~configured THEN "unset" ELSE IF answers THEN "reachable" ELSE "unreachable"

-----------------------------------------------------------------------------

HealthPageInit ==
  /\ used \in [Devices -> 0..Size] /\ catalogue = {} /\ missing = {}
  /\ at = "" /\ left = {} /\ backups = [d \in Devices |-> 0] /\ unplaced = 0
  /\ rows = {} /\ reading = {} /\ sections = [n \in {} |-> ""]

Bytes(set) == MapThenSumSet(LAMBDA b : b.bytes, set)

(* The upgrader writes a backup; one taken before the filesystem was
   recorded has none. *)
Backup ==
  \E d \in Devices, bytes \in {1, 3}, recorded \in BOOLEAN :
    /\ Cardinality(catalogue) < MaxBackups
    /\ used[d] + bytes <= Size - Reserve
    /\ used' = [used EXCEPT ![d] = @ + bytes]
    /\ catalogue' = catalogue \cup
         {[n |-> Cardinality(catalogue), device |-> IF recorded THEN d ELSE 0, bytes |-> bytes, on |-> d]}
    /\ UNCHANGED <<missing, at, left, backups, unplaced, rows, reading, sections>>

(* The upgrader's sweep finds that a file it recorded cannot be there. *)
Sweep ==
  \E b \in catalogue \ missing :
    /\ used[b.on] < b.bytes
    /\ missing' = missing \cup {b}
    /\ UNCHANGED <<used, catalogue, at, left, backups, unplaced, rows, reading, sections>>

(* Somebody deletes from a shell; the catalogue does not know. *)
DeleteBackup ==
  \E d \in Devices :
    /\ used[d] > 0 /\ catalogue # {}
    /\ used' = [used EXCEPT ![d] = 0]
    /\ UNCHANGED <<catalogue, missing, at, left, backups, unplaced, rows, reading, sections>>

(* The page begins with the sections that are read in one step, of what the
   database and the services are found to say. *)
renderHealth ==
  \E f \in Readings :
    /\ at = ""
    /\ sections' =
         [storage |-> IF f.answers THEN {healthStorage(StorageFacts(f.kind, 2, 1))} ELSE {},
          retention |-> attachRetention(f.answers, 90),
          schema |-> IF f.answers THEN healthSchema(f.version, f.version = Version) ELSE "unread",
          services |-> IF f.answers
                       THEN healthServices({[f.beat EXCEPT !.key = ReadKey(f.column, @)]})
                       ELSE {},
          api |-> healthAPI(f.api, f.answers)]
    /\ at' = "catalogue" /\ rows' = {}
    /\ UNCHANGED <<used, catalogue, missing, left, backups, unplaced, reading>>

(* The rows that count: a bar must not show files that are gone. *)
Counted == {b \in catalogue : b \notin missing}

(* What the backups occupy, summed by filesystem; a failure costs the slice
   of the bar and nothing else. *)
BytesByDevice ==
  /\ at = "catalogue"
  /\ \/ /\ backups' = [d \in Devices |-> Bytes({b \in Counted : b.device = d})]
        /\ unplaced' = Bytes({b \in Counted : b.device = 0})
        /\ reading' = catalogue \ missing
     \/ /\ backups' = [d \in Devices |-> 0] /\ unplaced' = 0 /\ reading' = {}
  /\ at' = "disks" /\ left' = Paths
  /\ UNCHANGED <<used, catalogue, missing, rows, sections>>

Row(p, s) ==
  [paths |-> {p}, device |-> s.device, space |-> s, bar |-> barSegments(s),
   backup |-> backups[s.device], slice |-> backupSegment(s, backups[s.device])]

(* A directory on a filesystem that has its row joins it. *)
Grouped(p, s) ==
  IF \E r \in rows : r.device = s.device
  THEN {IF r.device = s.device THEN [r EXCEPT !.paths = @ \cup {p}] ELSE r : r \in rows}
  ELSE rows \cup {Row(p, s)}

(* One directory is measured, or cannot be and says so in a row of its own. *)
healthDiskSection ==
  \E p \in Paths :
    /\ at = "disks" /\ p \in left
    /\ \E measured \in BOOLEAN :
         rows' = IF measured THEN Grouped(p, Space(DeviceOf[p])) ELSE rows
    /\ left' = left \ {p}
    /\ UNCHANGED <<at, used, catalogue, missing, backups, unplaced, reading, sections>>

Drawn ==
  /\ at = "disks" /\ left = {}
  /\ at' = "" /\ rows' = {} /\ sections' = [n \in {} |-> ""]
  /\ backups' = [d \in Devices |-> 0] /\ unplaced' = 0 /\ reading' = {}
  /\ UNCHANGED <<used, catalogue, missing, left>>

HealthPageNext ==
  \/ Backup \/ DeleteBackup \/ Sweep
  \/ renderHealth \/ BytesByDevice \/ healthDiskSection \/ Drawn

HealthPageSpec == HealthPageInit /\ [][HealthPageNext]_healthVars

-----------------------------------------------------------------------------

(* The empty part of a bar is what may still be written, less than a point
   over it, and the slice of the backups lies inside the used part, even when
   files were deleted after the catalogue was read (disk.go barSegments: "the
   overstatement is bounded by a single point"; backupSegment: "clamped to
   the used part"). *)
BarIsHonest ==
  \A r \in rows :
    LET empty == 100 - r.bar.used - r.bar.reserved
    IN /\ empty * r.space.total < r.space.avail * 100 + r.space.total
       /\ empty * r.space.total >= r.space.avail * 100
       /\ r.slice <= r.bar.used

(* The rows and the figure beside them show every byte of the backups that are
   recorded on a filesystem the page has drawn, or on none, exactly once
   (disk.go healthDiskSection: two directories on one disk are one row, or
   somebody adds them together, "which is exactly twice the truth").  What is
   recorded on a filesystem the page does not draw is in neither, although
   UnplacedBackupBytes is said to hold it (disk.go:124-133). *)
CountedOnce ==
  MapThenSumSet(LAMBDA r : r.backup, rows) + unplaced
    = Bytes({b \in reading : b.device = 0 \/ \E r \in rows : r.device = b.device})

(* What the page says of a disk and of the backups on it is so. *)
BytesAreHonest == BarIsHonest /\ CountedOnce
=============================================================================

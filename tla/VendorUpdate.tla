---------------------------- MODULE VendorUpdate ----------------------------
(***************************************************************************)
(* Replacing a vendored snapshot inside the skill (update_vendor.py) and   *)
(* packing the skill into an archive (package.py).                         *)
(*                                                                         *)
(* A directory holds the snapshot of a pin, a Torn one, or is Absent.  An  *)
(* update stages a snapshot beside the root, moves the root to the backup, *)
(* moves the staged one to the root and deletes the backup; in the end it  *)
(* removes the staging directory with the checkout.  Moving a directory    *)
(* onto one that exists fails.                                             *)
(***************************************************************************)
EXTENDS Integers, FiniteSets

CONSTANTS Updaters, Pins,
          MaxUpdates   \* bound: updates started
ASSUME NoPinIsTorn == {"absent", "torn"} \cap Pins = {}

Absent == "absent"
Torn == "torn"

VARIABLES root, backup,  \* the snapshot directory and its backup
          updater,       \* what each update does next
          staged,        \* the staging directory: a snapshot, Torn (only the
                         \* checkout is left) or Absent
          replaced,      \* each update: it moved the root to the backup
          updates,       \* updates started
          untidy,        \* some update was killed, or could not move back or
                         \* remove what it had made
          packing,       \* what the packager does next
          taken,         \* the snapshots whose bytes it has read
          extra,         \* it found a backup or a staging directory
          published,     \* the archive: [vendor, extra], or NoArchive
          mixed          \* two of these programs were at work at once

vendorVars == <<root, backup, updater, staged, replaced, updates, untidy,
                packing, taken, extra, published, mixed>>
updateVars == <<root, backup, updater, staged, replaced, updates, untidy>>
packVars == <<packing, taken, extra, published>>

NoArchive == [vendor |-> {}, extra |-> FALSE]

VendorInit ==
    /\ root \in Pins \cup {Absent} /\ backup = Absent
    /\ updater = [u \in Updaters |-> "idle"]
    /\ staged = [u \in Updaters |-> Absent]
    /\ replaced = [u \in Updaters |-> FALSE]
    /\ updates = 0 /\ untidy = FALSE
    /\ packing = "idle" /\ taken = {} /\ extra = FALSE
    /\ published = NoArchive
    /\ mixed = FALSE

-----------------------------------------------------------------------------
Goto(u, where) == updater' = [updater EXCEPT ![u] = where]

(* update: checkout, copy, provenance and manifest, check of what is       *)
(* staged; a backup that exists is refused.                                *)
StageUpdate(u, pin) ==
    /\ updater[u] = "idle" /\ updates < MaxUpdates
    /\ backup = Absent
    /\ updates' = updates + 1
    /\ staged' = [staged EXCEPT ![u] = pin]
    /\ replaced' = [replaced EXCEPT ![u] = FALSE]
    /\ Goto(u, "staged")
    /\ mixed' = (mixed \/ packing # "idle" \/ \E v \in Updaters : updater[v] # "idle")
    /\ UNCHANGED <<root, backup, untidy, packVars>>

(* Mutant of MoveAway: the old snapshot is deleted first.                  *)
DeleteFirst(u) ==
    /\ updater[u] = "staged" /\ backup = Absent
    /\ root' = Absent /\ UNCHANGED backup
    /\ replaced' = [replaced EXCEPT ![u] = root # Absent]
    /\ Goto(u, "moved")
    /\ UNCHANGED <<staged, updates, untidy, mixed, packVars>>

MoveAway(u) ==
    /\ updater[u] = "staged" /\ (root = Absent \/ backup = Absent)
    /\ IF root = Absent THEN UNCHANGED <<root, backup>>
       ELSE backup' = root /\ root' = Absent
    /\ replaced' = [replaced EXCEPT ![u] = root # Absent]
    /\ Goto(u, "moved")
    /\ UNCHANGED <<staged, updates, untidy, mixed, packVars>>

Install(u) ==
    /\ updater[u] = "moved" /\ root = Absent
    /\ root' = staged[u]
    /\ staged' = [staged EXCEPT ![u] = Torn]
    /\ Goto(u, IF backup = Absent THEN "leaving" ELSE "dropping")
    /\ UNCHANGED <<backup, replaced, updates, untidy, mixed, packVars>>

(* This update made the backup, and it has to go back.                     *)
MustReturn(u) == replaced[u] /\ backup # Absent /\ root = Absent

(* Either move fails: the backup goes back when this update made it.       *)
RollBack(u) ==
    /\ updater[u] \in {"staged", "moved"}
    /\ IF MustReturn(u) THEN root' = backup /\ backup' = Absent
       ELSE UNCHANGED <<root, backup>>
    /\ Goto(u, "leaving")
    /\ UNCHANGED <<staged, replaced, updates, untidy, mixed, packVars>>

(* And that move fails, too.                                               *)
RollBackFails(u) ==
    /\ updater[u] \in {"staged", "moved"} /\ MustReturn(u)
    /\ untidy' = TRUE
    /\ Goto(u, "leaving")
    /\ UNCHANGED <<root, backup, staged, replaced, updates, mixed, packVars>>

(* rmtree of the backup: begun, and done.                                  *)
DropBackup(u) ==
    /\ updater[u] = "dropping" /\ backup # Absent
    /\ IF backup # Torn THEN backup' = Torn /\ UNCHANGED updater
       ELSE backup' = Absent /\ Goto(u, "leaving")
    /\ UNCHANGED <<root, staged, replaced, updates, untidy, mixed, packVars>>

(* rmtree fails, at once or half way: the update ends with the error.      *)
DropFails(u) ==
    /\ updater[u] = "dropping" /\ backup # Absent
    /\ untidy' = TRUE
    /\ Goto(u, "leaving")
    /\ UNCHANGED <<root, backup, staged, replaced, updates, mixed, packVars>>

(* Somebody else has removed it.                                           *)
NothingToDrop(u) ==
    /\ updater[u] = "dropping" /\ backup = Absent
    /\ Goto(u, "leaving")
    /\ UNCHANGED <<root, backup, staged, replaced, updates, untidy, mixed, packVars>>

(* The staging directory is removed, or some of it stays.                  *)
Leave(u) ==
    /\ updater[u] = "leaving"
    /\ \/ staged' = [staged EXCEPT ![u] = Absent] /\ UNCHANGED untidy
       \/ staged' = [staged EXCEPT ![u] = Torn] /\ untidy' = TRUE
    /\ Goto(u, "idle")
    /\ UNCHANGED <<root, backup, replaced, updates, mixed, packVars>>

(* Killed: what is staged stays on the disk.                               *)
KillUpdate(u) ==
    /\ updater[u] # "idle"
    /\ Goto(u, "idle") /\ untidy' = TRUE
    /\ UNCHANGED <<root, backup, staged, replaced, updates, mixed, packVars>>

-----------------------------------------------------------------------------
(* Mutant of CollectPayload: required members are not asked for.           *)
CollectAnything ==
    /\ packing = "idle"
    /\ extra' = (backup # Absent \/ \E u \in Updaters : staged[u] # Absent)
    /\ taken' = {root}
    /\ packing' = "reading"
    /\ mixed' = (mixed \/ \E u \in Updaters : updater[u] # "idle")
    /\ UNCHANGED <<updateVars, published>>

(* collect_payload: the required members are there; a backup or a staging  *)
(* directory is payload like any other.  The first bytes are read.         *)
CollectPayload ==
    /\ packing = "idle" /\ root \in Pins
    /\ extra' = (backup # Absent \/ \E u \in Updaters : staged[u] # Absent)
    /\ taken' = {root}
    /\ packing' = "reading"
    /\ mixed' = (mixed \/ \E u \in Updaters : updater[u] # "idle")
    /\ UNCHANGED <<updateVars, published>>

(* The rest of what was collected is read, the archive is audited and put  *)
(* in place at once.                                                       *)
PublishArchive ==
    /\ packing = "reading" /\ (taken = {Absent} \/ root # Absent)
    /\ published' = [vendor |-> taken \cup {root}, extra |-> extra]
    /\ packing' = "idle"
    /\ UNCHANGED <<updateVars, taken, extra, mixed>>

(* A file is missing, or the packager is killed: the archive stays as it   *)
(* was.                                                                    *)
AbandonArchive ==
    /\ packing = "reading"
    /\ packing' = "idle"
    /\ UNCHANGED <<updateVars, taken, extra, published, mixed>>

VendorNext ==
    \/ \E u \in Updaters :
        \/ \E pin \in Pins : StageUpdate(u, pin)
        \/ MoveAway(u) \/ Install(u) \/ RollBack(u) \/ RollBackFails(u)
        \/ DropBackup(u) \/ DropFails(u) \/ NothingToDrop(u)
        \/ Leave(u) \/ KillUpdate(u)
    \/ CollectPayload \/ PublishArchive \/ AbandonArchive

VendorSpec == VendorInit /\ [][VendorNext]_vendorVars

-----------------------------------------------------------------------------
(* While programs follow one another, a snapshot that was there is never   *)
(* lost: wherever an update fails or is killed, the root or the backup is  *)
(* a whole snapshot, and the root is never a torn one.                     *)
VendorNeverLost ==
    [][~mixed' /\ (root \in Pins \/ backup \in Pins) =>
            (root' \in Pins \/ backup' \in Pins) /\ root' # Torn]_vendorVars

(* While programs follow one another, a published archive holds one whole  *)
(* snapshot, and nothing besides unless some update was killed or could    *)
(* not move back or remove what it had made.                               *)
PackagedIsWhole ==
    ~mixed /\ published # NoArchive =>
        /\ \E pin \in Pins : published.vendor = {pin}
        /\ published.extra => untidy
=============================================================================

----------------------------- MODULE AgentUpdate -----------------------------
(***************************************************************************)
(* The update of the agent (internal/agent/update.go).  Every update       *)
(* command starts a goroutine of its own, and all of them work on the same *)
(* four files: the download and the checksums in /tmp, the installed       *)
(* binary and its backup in /opt/servereye.  A file is written in several  *)
(* steps, and a rename moves the file below a writer that has it open.     *)
(*                                                                         *)
(* The module describes the goroutines and the files.  AgentProcess says   *)
(* when a goroutine starts, and what the end of the process does to it.    *)
(***************************************************************************)
EXTENDS Integers

CONSTANTS
  Commands,          \* the commands: an update is named by the command that began it
  MaxRelease         \* bound: releases that come out

ASSUME ReleasesAssumption == MaxRelease \in Nat \ {0}

Absent == -1         \* no file of this name
Damaged == 0         \* incomplete, or mixed from two downloads
Releases == 1 .. MaxRelease
Content == {Absent, Damaged} \cup Releases

VARIABLES
  release,           \* what releases/latest on GitHub refers to
  file,              \* the content of the three binaries
  sums,              \* the release that servereye-checksums.txt is about
  step,              \* how far each goroutine is
  upd,               \* its locals, and history about it
  odd,               \* history: what has happened since the last good backup
  installed          \* history: the update that installed the binary

files == <<file, sums>>
updateVars == <<release, files, step, upd, odd, installed>>

Names == {"tmp", "opt", "backup"}
Steps == {"idle", "download", "sums", "read", "hash", "verified", "chmod", "backup",
          "copying", "replace", "moving", "restart"}

(* fd: the name of the file that wget has open; asked: what it downloads;  *)
(* expected: the checksum read; saved: what a copy has read.  History:     *)
(* alone: no other update ran so far; checked: the checksum was compared.  *)
Update == [fd : Names \cup {"none", "gone"}, asked : 0 .. MaxRelease,
           expected : 0 .. MaxRelease, saved : Content,
           alone : BOOLEAN, checked : BOOLEAN]
Broken == [expected |-> 0, alone |-> FALSE, checked |-> FALSE]
NoUpdate == [fd |-> "none", asked |-> 0, expected |-> 0, saved |-> Absent,
             alone |-> TRUE, checked |-> FALSE]
Begun(latest, alone) ==
  [fd |-> "tmp", asked |-> latest, expected |-> 0, saved |-> Absent,
   alone |-> alone, checked |-> FALSE]

UpdateTypeOK ==
  /\ release \in Releases
  /\ file \in [Names -> Content] /\ file["opt"] # Absent
  /\ sums \in Content
  /\ step \in [Commands -> Steps]
  /\ upd \in [Commands -> Update]
  /\ odd \subseteq {"overlap", "nobackup", "again"}
  /\ installed \in [expected : 0 .. MaxRelease, alone : BOOLEAN, checked : BOOLEAN]

UpdateInit ==
  /\ release = 1
  /\ file = [n \in Names |-> IF n = "opt" THEN 1 ELSE Absent]
  /\ sums = Absent
  /\ step = [c \in Commands |-> "idle"]
  /\ upd = [c \in Commands |-> NoUpdate]
  /\ odd = {}
  /\ installed = [expected |-> 1, alone |-> TRUE, checked |-> TRUE]

-----------------------------------------------------------------------------
(* Files and steps.                                                        *)

Active(c) == step[c] \notin {"idle", "restart"}
Others(c) == {d \in Commands \ {c} : Active(d)}

Moves(c, from, to) == step[c] = from /\ step' = [step EXCEPT ![c] = to]

(* The writers of a file that gets another name keep on writing to it, and *)
(* those of a file that has lost its name write to a file nobody sees.     *)
Renamed(d, from, to) ==
  [upd[d] EXCEPT !.fd = IF @ = from THEN to ELSE IF @ = to THEN "gone" ELSE @]
Removed(d, name) == [upd[d] EXCEPT !.fd = IF @ = name THEN "gone" ELSE @]

(* What a copy has made of a file, saved when it was opened: if another    *)
(* update wrote to it in the meantime the copy may be a mixture.           *)
Copies(c, now) == IF now = upd[c].saved THEN {now} ELSE {upd[c].saved, Damaged}

(* A new release, at any time.                                             *)
Release ==
  /\ release < MaxRelease
  /\ release' = release + 1
  /\ UNCHANGED <<files, step, upd, odd, installed>>

-----------------------------------------------------------------------------
(* performUpdate, in the goroutine that handleUpdateAgent starts.          *)

(* wget -O truncates the file of this name, if there is one.               *)
StartUpdate(c) ==
  /\ Moves(c, "idle", "download")
  /\ file' = [file EXCEPT !["tmp"] = Damaged]
  /\ upd' = [d \in Commands |->
       IF d = c THEN Begun(release, Others(c) = {})
       ELSE IF Active(d) THEN [upd[d] EXCEPT !.alone = FALSE] ELSE upd[d]]
  /\ odd' = odd \cup (IF Others(c) = {} THEN {} ELSE {"overlap"})
                \cup (IF file["opt"] = Damaged THEN {"again"} ELSE {})
  /\ UNCHANGED <<release, sums, installed>>

(* Data arrives for a file that was complete: another download had         *)
(* finished writing to it.                                                 *)
Write(c) ==
  /\ step[c] = "download" /\ upd[c].fd \in Names
  /\ file[upd[c].fd] # Damaged
  /\ file' = [file EXCEPT ![upd[c].fd] = Damaged]
  /\ UNCHANGED <<release, sums, step, upd, odd, installed>>

Downloaded(c) ==
  /\ Moves(c, "download", "sums")
  /\ \E content \in IF upd[c].alone THEN {upd[c].asked} ELSE {upd[c].asked, Damaged} :
       file' = IF upd[c].fd \in Names THEN [file EXCEPT ![upd[c].fd] = content]
               ELSE file
  /\ upd' = [upd EXCEPT ![c].fd = "none", ![c].asked = 0]
  /\ UNCHANGED <<release, sums, odd, installed>>

DownloadFails(c) ==
  /\ Moves(c, "download", "idle")
  /\ upd' = [upd EXCEPT ![c] = NoUpdate]
  /\ UNCHANGED <<release, files, odd, installed>>

(* The checksums, of the release that is the latest by now.                *)
SumsArrive(c) ==
  /\ Moves(c, "sums", "read")
  /\ sums' = release
  /\ UNCHANGED <<release, file, upd, odd, installed>>

(* "Failed to download checksums, skipping verification": wget -O leaves   *)
(* an empty file.                                                          *)
SumsMissing(c) ==
  /\ Moves(c, "sums", "chmod")
  /\ sums' = Damaged
  /\ UNCHANGED <<release, file, upd, odd, installed>>

(* The verification fails: both files are removed, whoever wrote them.     *)
Rejected(c, from) ==
  /\ Moves(c, from, "idle")
  /\ file' = [file EXCEPT !["tmp"] = Absent] /\ sums' = Absent
  /\ upd' = [d \in Commands |-> IF d = c THEN NoUpdate ELSE Removed(d, "tmp")]
  /\ UNCHANGED <<release, odd, installed>>

(* verifyChecksum reads the checksum ...                                   *)
ReadSums(c) ==
  \/ /\ Moves(c, "read", "hash")
     /\ sums \in Releases
     /\ upd' = [upd EXCEPT ![c].expected = sums]
     /\ UNCHANGED <<release, files, odd, installed>>
  \/ /\ sums \notin Releases
     /\ Rejected(c, "read")

(* ... and then runs sha256sum on whatever has the name by now.            *)
Verify_AnyFile(c) ==   \* mutant: the sums are compared with nothing
  /\ Moves(c, "hash", "verified")
  /\ upd' = [upd EXCEPT ![c].checked = TRUE]
  /\ UNCHANGED <<release, files, odd, installed>>
Verify(c) ==
  \/ /\ Moves(c, "hash", "verified")
     /\ file["tmp"] = upd[c].expected
     /\ upd' = [upd EXCEPT ![c].checked = TRUE]
     /\ UNCHANGED <<release, files, odd, installed>>
  \/ /\ file["tmp"] # upd[c].expected
     /\ Rejected(c, "hash")

(* The checksums are removed, be they another update's by now.             *)
SumsRemoved(c) ==
  /\ Moves(c, "verified", "chmod")
  /\ sums' = Absent
  /\ UNCHANGED <<release, file, upd, odd, installed>>

Chmod(c) ==
  /\ IF file["tmp"] = Absent
     THEN Moves(c, "chmod", "idle") /\ upd' = [upd EXCEPT ![c] = NoUpdate]
     ELSE Moves(c, "chmod", "backup") /\ UNCHANGED upd
  /\ UNCHANGED <<release, files, odd, installed>>

(* cp to the backup, which it truncates first.                             *)
BackupBegins_Background(c) ==   \* mutant: cp is started and not waited for
  /\ Moves(c, "backup", "replace")
  /\ upd' = [upd EXCEPT ![c].saved = file["opt"]]
  /\ file' = [file EXCEPT !["backup"] = Damaged]
  /\ UNCHANGED <<release, sums, odd, installed>>
BackupBegins(c) ==
  /\ Moves(c, "backup", "copying")
  /\ upd' = [upd EXCEPT ![c].saved = file["opt"]]
  /\ file' = [file EXCEPT !["backup"] = Damaged]
  /\ UNCHANGED <<release, sums, odd, installed>>

BackupEnds(c) ==
  /\ Moves(c, "copying", "replace")
  /\ \E content \in Copies(c, file["opt"]) :
       /\ file' = [file EXCEPT !["backup"] = content]
       /\ odd' = IF upd[c].alone /\ content # Damaged THEN {} ELSE odd
  /\ upd' = [upd EXCEPT ![c].saved = Absent]
  /\ UNCHANGED <<release, sums, installed>>

(* cp fails, before or after it has truncated the backup: a warning.       *)
BackupFails(c) ==
  /\ \/ Moves(c, "backup", "replace")
     \/ Moves(c, "copying", "replace")
  /\ odd' = odd \cup {"nobackup"}
  /\ upd' = [upd EXCEPT ![c].saved = Absent]
  /\ UNCHANGED <<release, files, installed>>

(* mv within one file system: a rename.                                    *)
Installs(c) ==
  /\ installed' = [expected |-> upd[c].expected, alone |-> upd[c].alone,
                   checked |-> upd[c].checked]
  /\ UNCHANGED <<release, sums, odd>>

Rename_Unchecked(c) ==   \* mutant: the binary is removed first, without a look at mv
  /\ Moves(c, "replace", "restart")
  /\ file' = [file EXCEPT !["opt"] = file["tmp"], !["tmp"] = Absent]
  /\ upd' = [d \in Commands |-> IF d = c THEN NoUpdate ELSE Renamed(d, "tmp", "opt")]
  /\ Installs(c)
Rename(c) ==
  /\ Moves(c, "replace", "restart")
  /\ file["tmp"] # Absent
  /\ file' = [file EXCEPT !["opt"] = file["tmp"], !["tmp"] = Absent]
  /\ upd' = [d \in Commands |-> IF d = c THEN NoUpdate ELSE Renamed(d, "tmp", "opt")]
  /\ Installs(c)

(* mv from one file system to another: the old file is removed, the new    *)
(* one is copied, and the source is removed.                               *)
MoveBegins(c) ==
  /\ Moves(c, "replace", "moving")
  /\ file["tmp"] # Absent
  /\ file' = [file EXCEPT !["opt"] = Damaged]
  /\ upd' = [d \in Commands |-> IF d = c THEN [upd[c] EXCEPT !.saved = file["tmp"]]
                                ELSE Removed(d, "opt")]
  /\ installed' = Broken
  /\ UNCHANGED <<release, sums, odd>>

MoveEnds(c) ==
  /\ Moves(c, "moving", "restart")
  /\ \E content \in Copies(c, file["tmp"]) \ {Absent} :
       file' = [file EXCEPT !["opt"] = content, !["tmp"] = Absent]
  /\ upd' = [d \in Commands |-> IF d = c THEN NoUpdate ELSE Removed(d, "tmp")]
  /\ Installs(c)

(* mv fails, at once (the file system is read-only, the download is gone)  *)
(* or while it copies (no space left).  Nothing is put back.               *)
ReplaceFails(c) ==
  /\ Moves(c, "replace", "idle") \/ Moves(c, "moving", "idle")
  /\ upd' = [upd EXCEPT ![c] = NoUpdate]
  /\ UNCHANGED <<release, files, odd, installed>>

(* restartAgent: systemctl takes the request, or its error is logged.      *)
RestartRequested(c) ==
  /\ Moves(c, "restart", "idle")
  /\ UNCHANGED <<release, files, upd, odd, installed>>

-----------------------------------------------------------------------------
Downloads(c) == \/ Write(c) \/ Downloaded(c) \/ DownloadFails(c)
                \/ SumsArrive(c) \/ SumsMissing(c)
Verifies(c) == ReadSums(c) \/ Verify(c) \/ SumsRemoved(c) \/ Chmod(c)
Replaces(c) == \/ BackupBegins(c) \/ BackupEnds(c) \/ BackupFails(c)
               \/ Rename(c) \/ MoveBegins(c) \/ MoveEnds(c) \/ ReplaceFails(c)
UpdateMoves(c) == Downloads(c) \/ Verifies(c) \/ Replaces(c)

(* The process is gone, its children with it.  The service has a /tmp of   *)
(* its own (PrivateTmp), which goes too; an agent without it leaves both.  *)
UpdatesDie ==
  /\ step' = [c \in Commands |-> "idle"]
  /\ upd' = [c \in Commands |-> NoUpdate]
  /\ \/ UNCHANGED files
     \/ file' = [file EXCEPT !["tmp"] = Absent] /\ sums' = Absent
  /\ UNCHANGED <<release, odd, installed>>

-----------------------------------------------------------------------------
(* What an update installs that ran alone and got the checksums is what    *)
(* they name: complete, and of one release, although the latest release    *)
(* may change between the two downloads (performUpdate, update.go:94).     *)
(* It stays so until the next update replaces it, whatever is downloaded.  *)
AloneInstallsVerified ==
  installed.alone /\ installed.checked => file["opt"] = installed.expected

(* A broken binary can be put back by hand from its backup, as             *)
(* scripts/install-agent.sh:318 tells the operator to, wherever the update *)
(* or the process ended: unless since the last good backup two updates ran *)
(* at once, a backup failed (only a warning, update.go:131), or an update  *)
(* was tried again after one had broken the binary, which the second one   *)
(* copies over the backup.                                                 *)
BrokenHasBackup ==
  file["opt"] = Damaged /\ odd = {} => file["backup"] \in Releases
=============================================================================

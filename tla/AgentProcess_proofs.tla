------------------------ MODULE AgentProcess_proofs ------------------------
(***************************************************************************)
(* Proofs about the updates in AgentProcess, for every number of commands, *)
(* releases and processes: the inductive invariant IInv and the safety     *)
(* properties that it contains; and about Stop, which waits for the        *)
(* publisher.                                                              *)
(*                                                                         *)
(* The safety properties speak of the files; what makes them true is what  *)
(* each goroutine knows of the files while it is at a step.  An update     *)
(* knows something only as long as it is alone, or as long as nothing odd  *)
(* has happened since the last good backup.                                *)
(***************************************************************************)
EXTENDS AgentMetrics_proofs

Early == {"download", "sums", "read", "hash"}
Late == {"verified", "chmod", "backup", "copying", "replace"}

(* Only a download has a file open.  It has lost the name that it gave the *)
(* file only if another update has renamed or removed it.                  *)
OpenFiles ==
  \A c \in Commands :
    /\ upd[c].fd \in {"none", "tmp", "opt", "gone"}
    /\ upd[c].fd # "none" => step[c] = "download"
    /\ upd[c].fd \in {"opt", "gone"} => ~ upd[c].alone

AloneIsAlone ==
  \A c, d \in Commands : c # d /\ Active(c) /\ Active(d) => ~ upd[c].alone

(* What was compared is what will be installed.                            *)
CheckedIsTmp ==
  \A c \in Commands :
    /\ step[c] \in Early => ~ upd[c].checked
    /\ step[c] \in Late /\ upd[c].alone /\ upd[c].checked => file["tmp"] = upd[c].expected

(* What a copy has read is what its source still is.                       *)
SavedIsSource ==
  \A c \in Commands :
    /\ step[c] = "copying" => upd[c].saved # Absent
    /\ step[c] = "copying" /\ upd[c].alone => upd[c].saved = file["opt"]
    /\ step[c] = "moving" /\ upd[c].alone =>
         /\ upd[c].saved = file["tmp"]
         /\ upd[c].checked => upd[c].saved = upd[c].expected

(* No download goes on in a binary that was verified and installed.        *)
NobodyWritesIt ==
  installed.alone /\ installed.checked => \A c \in Commands : upd[c].fd # "opt"

OddIfNotAlone == odd = {} => \A c \in Commands : Active(c) => upd[c].alone

(* The binary is sound until the backup of it is.                          *)
BackupBeforeReplace ==
  odd = {} =>
    \A c \in Commands :
      /\ step[c] \in {"replace", "moving"} => file["backup"] \in Releases
      /\ Active(c) /\ step[c] \notin {"replace", "moving"} => file["opt"] # Damaged

InstallInv == /\ OpenFiles /\ AloneIsAlone /\ CheckedIsTmp /\ SavedIsSource
              /\ NobodyWritesIt /\ AloneInstallsVerified
BackupInv == OddIfNotAlone /\ BackupBeforeReplace /\ BrokenHasBackup
IInv == UpdateTypeOK /\ InstallInv /\ BackupInv

USE ReleasesAssumption DEF ReleasesAssumption, Absent, Damaged, Releases, Content,
    Names, Steps, Early, Late, files, Active, Moves, IInv

-----------------------------------------------------------------------------
(* Records of updates, and what changes in them.                           *)

(* One field of a record is changed: the others keep their values.         *)
LEMMA FdFacts ==
  ASSUME NEW u \in Update, NEW f \in Names \cup {"none", "gone"}, NEW v,
         v = [u EXCEPT !.fd = f]
  PROVE  /\ v \in Update /\ v.fd = f
         /\ v.saved = u.saved /\ v.expected = u.expected
         /\ v.alone = u.alone /\ v.checked = u.checked
  BY DEF Update

LEMMA SavedFacts ==
  ASSUME NEW u \in Update, NEW x \in Content, NEW v, v = [u EXCEPT !.saved = x]
  PROVE  /\ v \in Update /\ v.fd = u.fd /\ v.saved = x /\ v.expected = u.expected
         /\ v.alone = u.alone /\ v.checked = u.checked
  BY DEF Update

LEMMA CheckedFacts ==
  ASSUME NEW u \in Update, NEW v, v = [u EXCEPT !.checked = TRUE]
  PROVE  /\ v \in Update /\ v.fd = u.fd
         /\ v.saved = u.saved /\ v.expected = u.expected /\ v.alone = u.alone
         /\ v.checked
  BY DEF Update

LEMMA AloneFacts ==
  ASSUME NEW u \in Update, NEW v, v = [u EXCEPT !.alone = FALSE]
  PROVE  /\ v \in Update /\ v.fd = u.fd
         /\ v.saved = u.saved /\ v.expected = u.expected /\ v.checked = u.checked
         /\ ~ v.alone
  BY DEF Update

LEMMA DownloadedFacts ==
  ASSUME NEW u \in Update, NEW v, v = [u EXCEPT !.fd = "none", !.asked = 0]
  PROVE  /\ v \in Update /\ v.fd = "none"
         /\ v.saved = u.saved /\ v.expected = u.expected
         /\ v.alone = u.alone /\ v.checked = u.checked
  <1> DEFINE w == [u EXCEPT !.fd = "none"]
  <1>1. /\ w \in Update /\ w.fd = "none"
        /\ w.saved = u.saved /\ w.expected = u.expected
        /\ w.alone = u.alone /\ w.checked = u.checked
    BY FdFacts
  <1>2. v = [w EXCEPT !.asked = 0]
    BY DEF Update
  <1> HIDE DEF w
  <1>3. QED BY <1>1, <1>2 DEF Update

LEMMA AskedFacts == \A u \in Update : u.asked \in 0 .. MaxRelease
  BY DEF Update

LEMMA SavedTyped == ASSUME UpdateTypeOK, NEW c \in Commands PROVE upd[c].saved \in Content
  BY DEF UpdateTypeOK, Update

(* The record of an update that begins, and of none.                       *)
LEMMA BegunFacts ==
  \A r \in 0 .. MaxRelease, a \in BOOLEAN :
    /\ Begun(r, a) \in Update
    /\ Begun(r, a).fd = "tmp" /\ Begun(r, a).alone = a /\ ~ Begun(r, a).checked
  BY DEF Begun, Update

LEMMA NoUpdateFacts ==
  /\ NoUpdate \in Update /\ NoUpdate.fd = "none" /\ ~ NoUpdate.checked
  BY DEF NoUpdate, Update

(* What the removal of a file changes for those that have it open.         *)
LEMMA RemovedFacts ==
  ASSUME UpdateTypeOK, NEW d \in Commands, NEW name \in Names
  PROVE  /\ Removed(d, name) \in Update
         /\ Removed(d, name).fd = IF upd[d].fd = name THEN "gone" ELSE upd[d].fd
         /\ Removed(d, name).saved = upd[d].saved
         /\ Removed(d, name).expected = upd[d].expected
         /\ Removed(d, name).alone = upd[d].alone
         /\ Removed(d, name).checked = upd[d].checked
  <1> DEFINE f == IF upd[d].fd = name THEN "gone" ELSE upd[d].fd
  <1>1. upd[d] \in Update /\ f \in Names \cup {"none", "gone"}
    BY DEF UpdateTypeOK, Update
  <1>2. Removed(d, name) = [upd[d] EXCEPT !.fd = f]
    BY DEF Removed
  <1> HIDE DEF f
  <1>3. /\ Removed(d, name) \in Update /\ Removed(d, name).fd = f
        /\ Removed(d, name).saved = upd[d].saved
        /\ Removed(d, name).expected = upd[d].expected
        /\ Removed(d, name).alone = upd[d].alone
        /\ Removed(d, name).checked = upd[d].checked
    BY <1>1, <1>2, FdFacts
  <1>4. QED BY <1>3 DEF f

(* What a rename changes for them.                                         *)
LEMMA RenamedFacts ==
  ASSUME UpdateTypeOK, NEW d \in Commands
  PROVE  LET u == Renamed(d, "tmp", "opt") IN
         /\ u \in Update
         /\ u.fd = IF upd[d].fd = "tmp" THEN "opt"
                   ELSE IF upd[d].fd = "opt" THEN "gone" ELSE upd[d].fd
         /\ u.saved = upd[d].saved /\ u.expected = upd[d].expected
         /\ u.alone = upd[d].alone /\ u.checked = upd[d].checked
  <1> DEFINE u == Renamed(d, "tmp", "opt")
             f == IF upd[d].fd = "tmp" THEN "opt"
                  ELSE IF upd[d].fd = "opt" THEN "gone" ELSE upd[d].fd
  <1>1. upd[d] \in Update /\ f \in Names \cup {"none", "gone"}
    BY DEF UpdateTypeOK, Update
  <1>2. u = [upd[d] EXCEPT !.fd = f]
    BY DEF Renamed
  <1> HIDE DEF f, u
  <1>3. /\ u \in Update /\ u.fd = f
        /\ u.saved = upd[d].saved /\ u.expected = upd[d].expected
        /\ u.alone = upd[d].alone /\ u.checked = upd[d].checked
    BY <1>1, <1>2, FdFacts
  <1>4. QED BY <1>3 DEF f, u

-----------------------------------------------------------------------------
(* IInv is preserved by each action: its type part, what concerns the      *)
(* installed binary, and what concerns the backup.                         *)

(* An update begins: from now on no update that runs is alone, unless it   *)
(* is the only one.                                                        *)
LEMMA StartUpdateInv == ASSUME NEW c \in Commands, IInv, StartUpdate(c) PROVE IInv'
  <1>1. /\ upd'[c] \in Update /\ upd'[c].fd = "tmp" /\ ~ upd'[c].checked
        /\ upd'[c].alone => Others(c) = {}
    <2>1. upd'[c] = Begun(release, Others(c) = {}) /\ release \in 0 .. MaxRelease
      BY DEF StartUpdate, UpdateTypeOK
    <2>2. QED BY <2>1, BegunFacts
  <1>2. ASSUME NEW d \in Commands, d # c
        PROVE  /\ upd'[d] \in Update
               /\ upd'[d].fd = upd[d].fd /\ upd'[d].saved = upd[d].saved
               /\ upd'[d].expected = upd[d].expected
               /\ upd'[d].checked = upd[d].checked
               /\ upd'[d].alone => upd[d].alone /\ ~ Active(d)
    <2>1. CASE Active(d)
      <3>1. upd[d] \in Update /\ upd'[d] = [upd[d] EXCEPT !.alone = FALSE]
        BY <1>2, <2>1 DEF StartUpdate, UpdateTypeOK
      <3>2. QED BY <3>1, AloneFacts
    <2>2. CASE ~ Active(d)
      BY <1>2, <2>2 DEF StartUpdate, UpdateTypeOK
    <2>3. QED BY <2>1, <2>2
  <1>3. /\ \A d \in Commands : step'[d] = IF d = c THEN "download" ELSE step[d]
        /\ step[c] = "idle"
        /\ \A n \in Names : file'[n] = IF n = "tmp" THEN Damaged ELSE file[n]
    BY DEF StartUpdate, UpdateTypeOK
  <1>4. Others(c) = {} => \A d \in Commands : d # c => ~ Active(d)
    BY DEF Others
  <1>5. UpdateTypeOK'
    BY <1>1, <1>2 DEF StartUpdate, UpdateTypeOK
  <1>6. (OpenFiles /\ AloneIsAlone)'
    BY <1>1, <1>2, <1>3, <1>4 DEF InstallInv, OpenFiles, AloneIsAlone
  <1>7. (CheckedIsTmp /\ SavedIsSource)'
    BY <1>1, <1>2, <1>3 DEF InstallInv, CheckedIsTmp, SavedIsSource
  <1>8. (NobodyWritesIt /\ AloneInstallsVerified)'
    BY <1>1, <1>2, <1>3 DEF StartUpdate, InstallInv, NobodyWritesIt, AloneInstallsVerified
  <1>9. odd' = {} => odd = {} /\ Others(c) = {} /\ file["opt"] # Damaged
    BY DEF StartUpdate
  <1>10. odd' = {} => upd'[c].alone
    <2>1. upd'[c] = Begun(release, Others(c) = {}) /\ release \in 0 .. MaxRelease
      BY DEF StartUpdate, UpdateTypeOK
    <2>2. QED BY <1>9, <2>1, BegunFacts
  <1>11. BackupInv'
    BY <1>3, <1>4, <1>9, <1>10
       DEF BackupInv, OddIfNotAlone, BackupBeforeReplace, BrokenHasBackup
  <1>12. QED BY <1>5, <1>6, <1>7, <1>8, <1>11 DEF InstallInv

LEMMA WriteInv == ASSUME NEW c \in Commands, IInv, Write(c) PROVE IInv'
  <1>1. UpdateTypeOK'
    BY DEF Write, UpdateTypeOK, Update
  <1>2. InstallInv'
    BY DEF Write, InstallInv, OpenFiles, AloneIsAlone, CheckedIsTmp,
       SavedIsSource, NobodyWritesIt, AloneInstallsVerified, UpdateTypeOK, Update
  <1>3. BackupInv'
    BY DEF Write, BackupInv, OddIfNotAlone, BackupBeforeReplace,
       BrokenHasBackup, InstallInv, OpenFiles, UpdateTypeOK, Update
  <1>4. QED BY <1>1, <1>2, <1>3

LEMMA DownloadedInv == ASSUME NEW c \in Commands, IInv, Downloaded(c) PROVE IInv'
  <1>1. /\ upd \in [Commands -> Update] /\ upd[c] \in Update
        /\ upd[c].asked \in 0 .. MaxRelease
    BY AskedFacts DEF UpdateTypeOK
  <1>2. /\ upd' = [upd EXCEPT ![c] = upd'[c]]
        /\ upd'[c] = [upd[c] EXCEPT !.fd = "none", !.asked = 0]
    BY <1>1 DEF Downloaded
  <1>3. /\ upd'[c] \in Update /\ upd'[c].fd = "none"
        /\ upd'[c].saved = upd[c].saved /\ upd'[c].expected = upd[c].expected
        /\ upd'[c].alone = upd[c].alone /\ upd'[c].checked = upd[c].checked
    BY <1>1, <1>2, DownloadedFacts
  <1>4. PICK content \in 0 .. MaxRelease :
          file' = IF upd[c].fd \in Names THEN [file EXCEPT ![upd[c].fd] = content] ELSE file
    BY <1>1 DEF Downloaded
  <1>5. /\ file' \in [Names -> Content]
        /\ \A n \in Names : file'[n] = IF n = upd[c].fd THEN content ELSE file[n]
    BY <1>4 DEF UpdateTypeOK
  <1>6. UpdateTypeOK'
    <2>1. upd' \in [Commands -> Update]
      BY <1>1, <1>2, <1>3
    <2>2. step' \in [Commands -> Steps]
      BY DEF Downloaded, UpdateTypeOK
    <2>3. file'["opt"] # Absent
      BY <1>5 DEF UpdateTypeOK
    <2>4. QED BY <1>5, <2>1, <2>2, <2>3 DEF Downloaded, UpdateTypeOK
  <1>7. InstallInv'
    BY <1>1, <1>2, <1>3, <1>5 DEF Downloaded, InstallInv, OpenFiles, AloneIsAlone,
       CheckedIsTmp, SavedIsSource, NobodyWritesIt, AloneInstallsVerified, UpdateTypeOK
  <1>8. BackupInv'
    BY <1>1, <1>2, <1>3, <1>5 DEF Downloaded, BackupInv, OddIfNotAlone,
       BackupBeforeReplace, BrokenHasBackup, InstallInv, OpenFiles, UpdateTypeOK
  <1>9. QED BY <1>6, <1>7, <1>8

LEMMA DownloadFailsInv == ASSUME NEW c \in Commands, IInv, DownloadFails(c) PROVE IInv'
  <1>1. UpdateTypeOK'
    BY DEF DownloadFails, UpdateTypeOK, Update, NoUpdate
  <1>2. InstallInv'
    BY DEF DownloadFails, InstallInv, OpenFiles, AloneIsAlone, CheckedIsTmp,
       SavedIsSource, NobodyWritesIt, AloneInstallsVerified, UpdateTypeOK, Update, NoUpdate
  <1>3. BackupInv'
    BY DEF DownloadFails, BackupInv, OddIfNotAlone, BackupBeforeReplace,
       BrokenHasBackup, InstallInv, OpenFiles, UpdateTypeOK, Update, NoUpdate
  <1>4. QED BY <1>1, <1>2, <1>3

LEMMA SumsArriveInv == ASSUME NEW c \in Commands, IInv, SumsArrive(c) PROVE IInv'
  <1>1. UpdateTypeOK'
    BY DEF SumsArrive, UpdateTypeOK
  <1>2. InstallInv'
    BY DEF SumsArrive, InstallInv, OpenFiles, AloneIsAlone, CheckedIsTmp,
       SavedIsSource, NobodyWritesIt, AloneInstallsVerified, UpdateTypeOK
  <1>3. BackupInv'
    BY DEF SumsArrive, BackupInv, OddIfNotAlone, BackupBeforeReplace,
       BrokenHasBackup, InstallInv, OpenFiles, UpdateTypeOK
  <1>4. QED BY <1>1, <1>2, <1>3

LEMMA SumsMissingInv == ASSUME NEW c \in Commands, IInv, SumsMissing(c) PROVE IInv'
  <1>1. UpdateTypeOK'
    BY DEF SumsMissing, UpdateTypeOK
  <1>2. InstallInv'
    BY DEF SumsMissing, InstallInv, OpenFiles, AloneIsAlone, CheckedIsTmp,
       SavedIsSource, NobodyWritesIt, AloneInstallsVerified, UpdateTypeOK
  <1>3. BackupInv'
    BY DEF SumsMissing, BackupInv, OddIfNotAlone, BackupBeforeReplace,
       BrokenHasBackup, InstallInv, OpenFiles, UpdateTypeOK
  <1>4. QED BY <1>1, <1>2, <1>3

(* The verification fails, for want of a checksum or because of another    *)
(* one.                                                                    *)
LEMMA RejectedInv ==
  ASSUME NEW c \in Commands, NEW from \in Early, IInv, Rejected(c, from) PROVE IInv'
  <1>1. \A d \in Commands :
          /\ upd'[d] \in Update
          /\ d = c => upd'[d] = NoUpdate
          /\ d # c => /\ upd'[d].fd = IF upd[d].fd = "tmp" THEN "gone" ELSE upd[d].fd
                      /\ upd'[d].saved = upd[d].saved
                      /\ upd'[d].expected = upd[d].expected
                      /\ upd'[d].alone = upd[d].alone
                      /\ upd'[d].checked = upd[d].checked
    BY RemovedFacts, NoUpdateFacts DEF Rejected
  <1>2. UpdateTypeOK'
    BY <1>1 DEF Rejected, UpdateTypeOK
  <1>3. InstallInv'
    BY <1>1, NoUpdateFacts DEF Rejected, InstallInv, OpenFiles, AloneIsAlone, CheckedIsTmp,
       SavedIsSource, NobodyWritesIt, AloneInstallsVerified, UpdateTypeOK
  <1>4. BackupInv'
    BY <1>1, NoUpdateFacts DEF Rejected, BackupInv, OddIfNotAlone, BackupBeforeReplace,
       BrokenHasBackup, InstallInv, AloneIsAlone, OpenFiles, UpdateTypeOK
  <1>5. QED BY <1>2, <1>3, <1>4

LEMMA ReadSumsInv ==
  ASSUME NEW c \in Commands, IInv, ReadSums(c), ~ Rejected(c, "read") PROVE IInv'
  <1>1. /\ Moves(c, "read", "hash")
        /\ upd' = [upd EXCEPT ![c].expected = sums]
        /\ UNCHANGED <<release, files, odd, installed>>
        /\ sums \in Releases
    BY DEF ReadSums
  <1>2. UpdateTypeOK'
    BY <1>1 DEF UpdateTypeOK, Update
  <1>3. InstallInv'
    BY <1>1 DEF InstallInv, OpenFiles, AloneIsAlone, CheckedIsTmp,
       SavedIsSource, NobodyWritesIt, AloneInstallsVerified, UpdateTypeOK, Update
  <1>4. BackupInv'
    BY <1>1 DEF BackupInv, OddIfNotAlone, BackupBeforeReplace,
       BrokenHasBackup, InstallInv, OpenFiles, UpdateTypeOK, Update
  <1>5. QED BY <1>2, <1>3, <1>4

LEMMA VerifyInv ==
  ASSUME NEW c \in Commands, IInv, Verify(c), ~ Rejected(c, "hash") PROVE IInv'
  <1>1. /\ Moves(c, "hash", "verified")
        /\ file["tmp"] = upd[c].expected
        /\ upd' = [upd EXCEPT ![c].checked = TRUE]
        /\ UNCHANGED <<release, files, odd, installed>>
    BY DEF Verify
  <1>2. /\ upd \in [Commands -> Update] /\ upd[c] \in Update
        /\ upd' = [upd EXCEPT ![c] = upd'[c]]
        /\ upd'[c] = [upd[c] EXCEPT !.checked = TRUE]
    BY <1>1 DEF UpdateTypeOK
  <1>3. /\ upd'[c] \in Update /\ upd'[c].fd = upd[c].fd /\ upd'[c].saved = upd[c].saved
        /\ upd'[c].expected = upd[c].expected /\ upd'[c].alone = upd[c].alone
    BY <1>2, CheckedFacts
  <1>4. UpdateTypeOK'
    BY <1>1, <1>2, <1>3 DEF UpdateTypeOK
  <1>5. InstallInv'
    BY <1>1, <1>2, <1>3 DEF InstallInv, OpenFiles, AloneIsAlone, CheckedIsTmp,
       SavedIsSource, NobodyWritesIt, AloneInstallsVerified, UpdateTypeOK
  <1>6. BackupInv'
    BY <1>1, <1>2, <1>3 DEF BackupInv, OddIfNotAlone, BackupBeforeReplace,
       BrokenHasBackup, InstallInv, OpenFiles, UpdateTypeOK
  <1>7. QED BY <1>4, <1>5, <1>6

LEMMA SumsRemovedInv == ASSUME NEW c \in Commands, IInv, SumsRemoved(c) PROVE IInv'
  <1>1. UpdateTypeOK'
    BY DEF SumsRemoved, UpdateTypeOK
  <1>2. InstallInv'
    BY DEF SumsRemoved, InstallInv, OpenFiles, AloneIsAlone, CheckedIsTmp,
       SavedIsSource, NobodyWritesIt, AloneInstallsVerified, UpdateTypeOK
  <1>3. BackupInv'
    BY DEF SumsRemoved, BackupInv, OddIfNotAlone, BackupBeforeReplace,
       BrokenHasBackup, UpdateTypeOK
  <1>4. QED BY <1>1, <1>2, <1>3

LEMMA ChmodInv == ASSUME NEW c \in Commands, IInv, Chmod(c) PROVE IInv'
  <1>1. \/ step' = [step EXCEPT ![c] = "idle"] /\ upd' = [upd EXCEPT ![c] = NoUpdate]
        \/ step' = [step EXCEPT ![c] = "backup"] /\ upd' = upd
    BY DEF Chmod
  <1>2. UpdateTypeOK'
    BY <1>1, NoUpdateFacts DEF Chmod, UpdateTypeOK
  <1>3. InstallInv'
    BY <1>1, NoUpdateFacts DEF Chmod, InstallInv, OpenFiles, AloneIsAlone, CheckedIsTmp,
       SavedIsSource, NobodyWritesIt, AloneInstallsVerified, UpdateTypeOK
  <1>4. BackupInv'
    BY <1>1, NoUpdateFacts DEF Chmod, BackupInv, OddIfNotAlone, BackupBeforeReplace,
       BrokenHasBackup, UpdateTypeOK
  <1>5. QED BY <1>2, <1>3, <1>4

LEMMA BackupBeginsInv == ASSUME NEW c \in Commands, IInv, BackupBegins(c) PROVE IInv'
  <1>1. UpdateTypeOK'
    BY DEF BackupBegins, UpdateTypeOK, Update
  <1>2. InstallInv'
    BY DEF BackupBegins, InstallInv, OpenFiles, AloneIsAlone, CheckedIsTmp,
       SavedIsSource, NobodyWritesIt, AloneInstallsVerified, UpdateTypeOK, Update
  <1>3. BackupInv'
    BY DEF BackupBegins, BackupInv, OddIfNotAlone, BackupBeforeReplace, BrokenHasBackup,
       InstallInv, OpenFiles, AloneIsAlone, UpdateTypeOK, Update
  <1>4. QED BY <1>1, <1>2, <1>3

LEMMA BackupEndsInv == ASSUME NEW c \in Commands, IInv, BackupEnds(c) PROVE IInv'
  <1>1. UpdateTypeOK'
    BY DEF BackupEnds, UpdateTypeOK, Update, Copies
  <1>2. InstallInv'
    BY DEF BackupEnds, InstallInv, OpenFiles, AloneIsAlone, CheckedIsTmp,
       SavedIsSource, NobodyWritesIt, AloneInstallsVerified, UpdateTypeOK, Update, Copies
  <1>3. BackupInv'
    BY DEF BackupEnds, BackupInv, OddIfNotAlone, BackupBeforeReplace, BrokenHasBackup,
       InstallInv, OpenFiles, AloneIsAlone, SavedIsSource, UpdateTypeOK, Update, Copies
  <1>4. QED BY <1>1, <1>2, <1>3

LEMMA BackupFailsInv == ASSUME NEW c \in Commands, IInv, BackupFails(c) PROVE IInv'
  <1>1. UpdateTypeOK'
    BY DEF BackupFails, UpdateTypeOK, Update
  <1>2. InstallInv'
    BY DEF BackupFails, InstallInv, OpenFiles, AloneIsAlone, CheckedIsTmp,
       SavedIsSource, NobodyWritesIt, AloneInstallsVerified, UpdateTypeOK, Update
  <1>3. BackupInv'
    BY DEF BackupFails, BackupInv, OddIfNotAlone, BackupBeforeReplace,
       BrokenHasBackup, InstallInv, OpenFiles, UpdateTypeOK, Update
  <1>4. QED BY <1>1, <1>2, <1>3

LEMMA RenameInv == ASSUME NEW c \in Commands, IInv, Rename(c) PROVE IInv'
  <1>1. \A d \in Commands :
          /\ upd'[d] \in Update
          /\ d = c => upd'[d] = NoUpdate
          /\ d # c => /\ upd'[d].fd = IF upd[d].fd = "tmp" THEN "opt"
                                      ELSE IF upd[d].fd = "opt" THEN "gone" ELSE upd[d].fd
                      /\ upd'[d].saved = upd[d].saved
                      /\ upd'[d].expected = upd[d].expected
                      /\ upd'[d].alone = upd[d].alone
                      /\ upd'[d].checked = upd[d].checked
    BY RenamedFacts, NoUpdateFacts DEF Rename
  <1>2. UpdateTypeOK'
    BY <1>1 DEF Rename, Installs, UpdateTypeOK, Update
  <1>3. InstallInv'
    BY <1>1, NoUpdateFacts DEF Rename, Installs, InstallInv, OpenFiles, AloneIsAlone,
       CheckedIsTmp, SavedIsSource, NobodyWritesIt, AloneInstallsVerified, UpdateTypeOK
  <1>4. BackupInv'
    BY <1>1, NoUpdateFacts DEF Rename, Installs, BackupInv, OddIfNotAlone,
       BackupBeforeReplace, BrokenHasBackup, InstallInv, AloneIsAlone, UpdateTypeOK
  <1>5. QED BY <1>2, <1>3, <1>4

LEMMA MoveBeginsInv == ASSUME NEW c \in Commands, IInv, MoveBegins(c) PROVE IInv'
  <1>1. \A d \in Commands \ {c} :
          /\ upd'[d] \in Update
          /\ upd'[d].fd = IF upd[d].fd = "opt" THEN "gone" ELSE upd[d].fd
          /\ upd'[d].saved = upd[d].saved
          /\ upd'[d].expected = upd[d].expected
          /\ upd'[d].alone = upd[d].alone
          /\ upd'[d].checked = upd[d].checked
    BY RemovedFacts DEF MoveBegins
  <1>2. /\ upd'[c] \in Update /\ upd'[c].fd = upd[c].fd /\ upd'[c].saved = file["tmp"]
        /\ upd'[c].expected = upd[c].expected /\ upd'[c].alone = upd[c].alone
        /\ upd'[c].checked = upd[c].checked
    <2>1. /\ upd[c] \in Update /\ file["tmp"] \in Content
          /\ upd'[c] = [upd[c] EXCEPT !.saved = file["tmp"]]
      BY DEF MoveBegins, UpdateTypeOK
    <2>2. QED BY <2>1, SavedFacts
  <1>3. UpdateTypeOK'
    BY <1>1, <1>2 DEF MoveBegins, Broken, UpdateTypeOK
  <1>4. InstallInv'
    BY <1>1, <1>2 DEF MoveBegins, Broken, InstallInv, OpenFiles, AloneIsAlone,
       CheckedIsTmp, SavedIsSource, NobodyWritesIt, AloneInstallsVerified, UpdateTypeOK
  <1>5. BackupInv'
    BY <1>1, <1>2 DEF MoveBegins, BackupInv, OddIfNotAlone,
       BackupBeforeReplace, BrokenHasBackup, InstallInv, AloneIsAlone, UpdateTypeOK
  <1>6. QED BY <1>3, <1>4, <1>5

LEMMA MoveEndsInv == ASSUME NEW c \in Commands, IInv, MoveEnds(c) PROVE IInv'
  <1>1. \A d \in Commands :
          /\ upd'[d] \in Update
          /\ d = c => upd'[d] = NoUpdate
          /\ d # c => /\ upd'[d].fd = IF upd[d].fd = "tmp" THEN "gone" ELSE upd[d].fd
                      /\ upd'[d].saved = upd[d].saved
                      /\ upd'[d].expected = upd[d].expected
                      /\ upd'[d].alone = upd[d].alone
                      /\ upd'[d].checked = upd[d].checked
    BY RemovedFacts, NoUpdateFacts DEF MoveEnds
  <1>2. PICK content \in Copies(c, file["tmp"]) \ {Absent} :
          file' = [file EXCEPT !["opt"] = content, !["tmp"] = Absent]
    BY DEF MoveEnds
  <1>3. /\ content \in Content \ {Absent}
        /\ upd[c].saved = file["tmp"] => content = file["tmp"]
    <2>1. /\ upd[c].saved \in Content /\ file["tmp"] \in Content
          /\ content \in Copies(c, file["tmp"]) \ {Absent}
      BY <1>2, SavedTyped DEF UpdateTypeOK
    <2>2. QED BY <2>1 DEF Copies
  <1>4. \A n \in Names : file'[n] = IF n = "opt" THEN content
                                    ELSE IF n = "tmp" THEN Absent ELSE file[n]
    BY <1>2 DEF UpdateTypeOK
  <1>5. UpdateTypeOK'
    <2>1. installed' \in [expected : 0 .. MaxRelease, alone : BOOLEAN, checked : BOOLEAN]
      BY DEF MoveEnds, Installs, UpdateTypeOK, Update
    <2>2. file' \in [Names -> Content] /\ file'["opt"] # Absent
      BY <1>2, <1>3, <1>4 DEF UpdateTypeOK
    <2>3. upd' \in [Commands -> Update] /\ step' \in [Commands -> Steps]
      BY <1>1 DEF MoveEnds, UpdateTypeOK
    <2>4. QED BY <2>1, <2>2, <2>3 DEF MoveEnds, Installs, UpdateTypeOK
  <1>6. (OpenFiles /\ AloneIsAlone)'
    BY <1>1, NoUpdateFacts DEF MoveEnds, InstallInv, OpenFiles, AloneIsAlone, UpdateTypeOK
  <1>7. (CheckedIsTmp /\ SavedIsSource)'
    BY <1>1, <1>4 DEF MoveEnds, InstallInv, AloneIsAlone, CheckedIsTmp, SavedIsSource,
       UpdateTypeOK
  <1>8. (NobodyWritesIt /\ AloneInstallsVerified)'
    BY <1>1, <1>3, <1>4, NoUpdateFacts DEF MoveEnds, Installs, InstallInv, OpenFiles,
       AloneIsAlone, CheckedIsTmp, SavedIsSource, NobodyWritesIt, AloneInstallsVerified,
       UpdateTypeOK
  <1>9. BackupInv'
    BY <1>1, <1>4 DEF MoveEnds, Installs, BackupInv, OddIfNotAlone,
       BackupBeforeReplace, BrokenHasBackup, InstallInv, AloneIsAlone, UpdateTypeOK
  <1>10. QED BY <1>5, <1>6, <1>7, <1>8, <1>9 DEF InstallInv

LEMMA ReplaceFailsInv == ASSUME NEW c \in Commands, IInv, ReplaceFails(c) PROVE IInv'
  <1>1. UpdateTypeOK'
    BY DEF ReplaceFails, UpdateTypeOK, Update, NoUpdate
  <1>2. InstallInv'
    BY DEF ReplaceFails, InstallInv, OpenFiles, AloneIsAlone, CheckedIsTmp,
       SavedIsSource, NobodyWritesIt, AloneInstallsVerified, UpdateTypeOK, Update, NoUpdate
  <1>3. BackupInv'
    BY DEF ReplaceFails, BackupInv, OddIfNotAlone, BackupBeforeReplace,
       BrokenHasBackup, InstallInv, OpenFiles, UpdateTypeOK, Update, NoUpdate
  <1>4. QED BY <1>1, <1>2, <1>3

LEMMA RestartRequestedInv ==
  ASSUME NEW c \in Commands, IInv, RestartRequested(c) PROVE IInv'
  <1>1. UpdateTypeOK'
    BY DEF RestartRequested, UpdateTypeOK
  <1>2. InstallInv'
    BY DEF RestartRequested, InstallInv, OpenFiles, AloneIsAlone, CheckedIsTmp,
       SavedIsSource, NobodyWritesIt, AloneInstallsVerified, UpdateTypeOK
  <1>3. BackupInv'
    BY DEF RestartRequested, BackupInv, OddIfNotAlone, BackupBeforeReplace,
       BrokenHasBackup, InstallInv, OpenFiles, UpdateTypeOK
  <1>4. QED BY <1>1, <1>2, <1>3

LEMMA ReleaseInv == ASSUME IInv, Release PROVE IInv'
  <1>1. UpdateTypeOK'
    BY DEF Release, UpdateTypeOK
  <1>2. InstallInv'
    BY DEF Release, InstallInv, OpenFiles, AloneIsAlone, CheckedIsTmp,
       SavedIsSource, NobodyWritesIt, AloneInstallsVerified, UpdateTypeOK
  <1>3. BackupInv'
    BY DEF Release, BackupInv, OddIfNotAlone, BackupBeforeReplace,
       BrokenHasBackup, InstallInv, OpenFiles, UpdateTypeOK
  <1>4. QED BY <1>1, <1>2, <1>3

LEMMA UpdatesDieInv == ASSUME IInv, UpdatesDie PROVE IInv'
  <1>1. UpdateTypeOK'
    BY DEF UpdatesDie, UpdateTypeOK, Update, NoUpdate
  <1>2. InstallInv'
    BY DEF UpdatesDie, InstallInv, OpenFiles, AloneIsAlone, CheckedIsTmp,
       SavedIsSource, NobodyWritesIt, AloneInstallsVerified, UpdateTypeOK, Update, NoUpdate
  <1>3. BackupInv'
    BY DEF UpdatesDie, BackupInv, OddIfNotAlone, BackupBeforeReplace,
       BrokenHasBackup, InstallInv, OpenFiles, UpdateTypeOK, Update, NoUpdate
  <1>4. QED BY <1>1, <1>2, <1>3

LEMMA StutterInv == ASSUME IInv, UNCHANGED updateVars PROVE IInv'
  <1>1. UpdateTypeOK'
    BY DEF updateVars, UpdateTypeOK
  <1>2. InstallInv'
    BY DEF updateVars, InstallInv, OpenFiles, AloneIsAlone, CheckedIsTmp,
       SavedIsSource, NobodyWritesIt, AloneInstallsVerified, UpdateTypeOK
  <1>3. BackupInv'
    BY DEF updateVars, BackupInv, OddIfNotAlone, BackupBeforeReplace,
       BrokenHasBackup, InstallInv, OpenFiles, UpdateTypeOK
  <1>4. QED BY <1>1, <1>2, <1>3

-----------------------------------------------------------------------------
(* What each step of the agent is for the updates.                         *)
LEMMA NextIsUpdateStep ==
  [Next]_vars =>
    \/ \E c \in Commands : \/ StartUpdate(c) \/ UpdateMoves(c) \/ RestartRequested(c)
    \/ Release \/ UpdatesDie \/ UNCHANGED updateVars
  <1> USE DEF vars
  <1>1. ASSUME Start \/ OperatorRestarts \/ Stops \/ Loop
        PROVE  \/ \E c \in Commands : StartUpdate(c)
               \/ UpdatesDie \/ UNCHANGED updateVars
    BY <1>1 DEF Start, OperatorRestarts, Stops, StopCloses, StopReturns, Gone, Loop,
       ReadCommands, CommandDone, TakeCommand, Issue, Receive
  <1>2. ASSUME Killed \/ DiesOfRace
        PROVE  UpdatesDie
    BY <1>2 DEF Killed, DiesOfRace, Gone
  <1>3. ASSUME Tick \/ CollectorEnds \/ Measures
        PROVE  UNCHANGED updateVars
    BY <1>3 DEF Tick, CollectorEnds, Measures
  <1>4. ASSUME NEW c \in Commands, RestartAgent(c)
        PROVE  RestartRequested(c)
    BY <1>4 DEF RestartAgent
  <1>5. ASSUME Updates
        PROVE  \E c \in Commands : UpdateMoves(c)
    BY <1>5 DEF Updates
  <1>6. QED
    BY <1>1, <1>2, <1>3, <1>4, <1>5 DEF Next

LEMMA InitIInv == Init => IInv
  <1> SUFFICES ASSUME Init PROVE IInv
    OBVIOUS
  <1> USE DEF Init, UpdateInit
  <1>1. UpdateTypeOK
    BY NoUpdateFacts DEF UpdateTypeOK
  <1>2. InstallInv
    BY NoUpdateFacts DEF InstallInv, OpenFiles, AloneIsAlone, CheckedIsTmp, SavedIsSource,
       NobodyWritesIt, AloneInstallsVerified
  <1>3. BackupInv
    BY DEF BackupInv, OddIfNotAlone, BackupBeforeReplace, BrokenHasBackup
  <1>4. QED BY <1>1, <1>2, <1>3

LEMMA NextIInv == IInv /\ [Next]_vars => IInv'
  <1> SUFFICES ASSUME IInv, [Next]_vars PROVE IInv'
    OBVIOUS
  <1> HIDE DEF IInv
  <1>1. ASSUME NEW c \in Commands, Downloads(c)
        PROVE  IInv'
    BY <1>1, WriteInv, DownloadedInv, DownloadFailsInv, SumsArriveInv, SumsMissingInv
       DEF Downloads
  <1>2. ASSUME NEW c \in Commands, Verifies(c)
        PROVE  IInv'
    <2>1. CASE Rejected(c, "read") \/ Rejected(c, "hash")
      BY <2>1, RejectedInv
    <2>2. CASE ~ (Rejected(c, "read") \/ Rejected(c, "hash"))
      BY <1>2, <2>2, ReadSumsInv, VerifyInv, SumsRemovedInv, ChmodInv DEF Verifies
    <2>3. QED BY <2>1, <2>2
  <1>3. ASSUME NEW c \in Commands, Replaces(c)
        PROVE  IInv'
    BY <1>3, BackupBeginsInv, BackupEndsInv, BackupFailsInv, RenameInv, MoveBeginsInv,
       MoveEndsInv, ReplaceFailsInv DEF Replaces
  <1>4. QED
    BY <1>1, <1>2, <1>3, NextIsUpdateStep, StartUpdateInv, RestartRequestedInv,
       ReleaseInv, UpdatesDieInv, StutterInv DEF UpdateMoves

-----------------------------------------------------------------------------
(* IInv holds in every state.                                              *)
THEOREM Invariance == Spec => []IInv
  <1> HIDE DEF IInv
  <1>1. QED BY InitIInv, NextIInv, PTL DEF Spec

(* The files and the updates keep their types: no update leaves the agent  *)
(* without a file under the name of its binary.                            *)
THEOREM UpdateTypeCorrect == Spec => []UpdateTypeOK
  <1>1. IInv => UpdateTypeOK
    BY DEF IInv
  <1> HIDE DEF IInv
  <1>2. QED BY <1>1, Invariance, PTL

(* The whole state keeps its types.                                        *)
THEOREM TypeCorrect == Spec => []TypeOK
  <1>1. UpdateTypeOK /\ MetricsTypeOK /\ ProcessTypeOK => TypeOK
    BY DEF TypeOK, ProcessTypeOK
  <1>2. QED BY <1>1, UpdateTypeCorrect, MetricsTypeCorrect, PTL

(* Of any number of updates, restarts and releases, one that ran alone and *)
(* got the checksums has installed the binary that they name.              *)
THEOREM InstallsVerified == Spec => []AloneInstallsVerified
  <1>1. IInv => AloneInstallsVerified
    BY DEF IInv, InstallInv
  <1> HIDE DEF IInv
  <1>2. QED BY <1>1, Invariance, PTL

(* Wherever an update or the process ended, a broken binary has a good     *)
(* backup, unless one of the three named things has happened.              *)
THEOREM BackupKept == Spec => []BrokenHasBackup
  <1>1. IInv => BrokenHasBackup
    BY DEF IInv, BackupInv
  <1> HIDE DEF IInv
  <1>2. QED BY <1>1, Invariance, PTL

-----------------------------------------------------------------------------
(* What ComesBack rests on while Stop closes the publisher, fairness       *)
(* aside: what it waits for is finite and only becomes less.               *)

CloseWaits ==
  /\ IsFiniteSet(writes)
  /\ main = "closing" => writer = "closed"

(* While Stop waits for the publisher, no goroutine gives it another       *)
(* metric, although the collector and the command loop still publish       *)
(* (Close in producer.go, Stop in agent.go:223).                           *)
CloseDrains == [][main = "closing" => writes' \subseteq writes]_vars

LEMMA SameWritesWait ==
  ASSUME CloseWaits, UNCHANGED <<writes, writer>>, main' = "closing" => main = "closing"
  PROVE  CloseWaits' /\ writes' \subseteq writes
  BY DEF CloseWaits

LEMMA PublishesWait ==
  ASSUME CloseWaits, NEW w, Publishes(w), UNCHANGED <<writer, main>>
  PROVE  CloseWaits' /\ (main = "closing" => writes' \subseteq writes)
  <1>1. IsFiniteSet(writes \cup {w})
    BY FS_AddElement DEF CloseWaits
  <1>2. QED BY <1>1 DEF CloseWaits, Publishes

LEMMA NextWaits ==
  ASSUME CloseWaits, [Next]_vars
  PROVE  CloseWaits' /\ (main = "closing" => writes' \subseteq writes)
  <1>1. CASE Start
    BY <1>1, FS_EmptySet DEF Start, MetricsStart, CloseWaits, Up
  <1>2. CASE Killed \/ DiesOfRace \/ OperatorRestarts
    BY <1>2, SameWritesWait
       DEF Killed, DiesOfRace, OperatorRestarts, Signalled, Gone, metricsVars
  <1>3. ASSUME NEW c \in Commands, RestartAgent(c)
        PROVE  CloseWaits' /\ writes' \subseteq writes
    BY <1>3, SameWritesWait DEF RestartAgent, Signalled, metricsVars, processVars
  <1>4. CASE Stops
    <2>1. CASE StopCloses
      BY <2>1 DEF StopCloses, CloseWriter, CloseWaits
    <2>2. CASE StopReturns
      BY <2>2, SameWritesWait DEF StopReturns, Gone, metricsVars
    <2>3. QED BY <1>4, <2>1, <2>2 DEF Stops
  <1>5. CASE Loop /\ ~ CommandDone
    BY <1>5, SameWritesWait
       DEF Loop, ReadCommands, TakeCommand, ReadCounter, Issue, Receive, metricsVars
  <1>6. CASE CommandDone
    BY <1>6, SameWritesWait DEF CommandDone, PublishResponse
  <1>7. CASE Tick \/ CollectorEnds
    BY <1>7, SameWritesWait DEF Tick, CollectorEnds, ReadCounter, metricsVars
  <1>8. CASE Measures
    <2>1. main' = main
      BY <1>8 DEF Measures, processVars
    <2>2. CASE \E g \in Readers : Compare(g) \/ Store(g)
      BY <2>1, <2>2, SameWritesWait DEF Compare, Store, Finished
    <2>3. CASE PublishMetrics(Cancelled)
      BY <2>1, <2>3, PublishesWait, SameWritesWait DEF PublishMetrics
    <2>4. CASE MetricsPublished(Cancelled)
      BY <2>1, <2>4, SameWritesWait DEF MetricsPublished
    <2>5. ASSUME NEW w \in writes, WriteEnds(w)
          PROVE  CloseWaits' /\ writes' \subseteq writes
      <3>1. writes' = writes \ {w} /\ writer' = writer
        BY <2>5 DEF WriteEnds
      <3>2. QED BY <2>1, <3>1, FS_RemoveElement DEF CloseWaits
    <2>6. ASSUME NEW c \in publishing, BeginWrite(c)
          PROVE  CloseWaits' /\ (main = "closing" => writes' \subseteq writes)
      BY <2>1, <2>6, PublishesWait DEF BeginWrite
    <2>7. QED BY <1>8, <2>2, <2>3, <2>4, <2>5, <2>6 DEF Measures
  <1>9. CASE Updates \/ (Release /\ UNCHANGED <<metricsVars, processVars>>) \/ UNCHANGED vars
    BY <1>9, SameWritesWait DEF Updates, vars, metricsVars, processVars
  <1>10. QED
    BY <1>1, <1>2, <1>3, <1>4, <1>5, <1>6, <1>7, <1>8, <1>9 DEF Next

(* Close has ever fewer writes to wait for, so the bounded time of each of *)
(* them bounds Stop.                                                       *)
THEOREM ClosingDrains == Spec => []CloseWaits /\ CloseDrains
  <1>1. Init => CloseWaits
    BY FS_EmptySet DEF Init, MetricsInit, CloseWaits
  <1>2. QED BY <1>1, NextWaits, PTL DEF Spec, CloseDrains
=============================================================================

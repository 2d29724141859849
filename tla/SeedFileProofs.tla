--------------------------- MODULE SeedFileProofs ---------------------------
(***************************************************************************)
(* For any seeds, passwords, number of backups and number of faults: no    *)
(* lifecycle call, wherever it fails or is interrupted, loses a seed.      *)
(***************************************************************************)
EXTENDS SeedFile, TLAPS

\* The inductive strengthening: what holds at each point of a call.  A file is
\* created only where there is none, so no seed is overwritten; a backup is removed
\* only while wallet.seed holds the same seed.
CallInv ==
  /\ op.pc = "idle" <=> op.job = "none"
  /\ op.pc = "backup" => op.job \in {"change", "recover"}
  /\ op.pc = "backup" /\ op.job = "change" => file = Sealed(op.seed, op.old)
  /\ op.pc = "create" => file = Absent
  /\ op.pc = "write" => file = Torn /\ op.seed # NoSeed
  /\ op.pc \in {"verify", "clean"} => op.job = "change"
  /\ op.pc = "clean" => HeldBy(op.seed, file) /\ bak[op.bak] = Sealed(op.seed, op.old)
  /\ op.pc = "db" => op.job = "create"
  /\ op.job = "change" => op.seed # NoSeed
  /\ file.state = "absent" => file = Absent
  /\ file.state = "sealed" => file.seed # NoSeed

IInv == TypeOK /\ CallInv /\ OldPasswordWorks /\ SeedNeverLost

\* Contents and calls the code builds are well typed.
LEMMA ContentsType ==
  /\ Absent \in Contents /\ Torn \in Contents
  /\ \A s \in Seeds \cup {NoSeed}, p \in Passwords \cup {NoPw} : Sealed(s, p) \in Contents
  BY DEF Absent, Torn, Sealed, Contents

\* The state of no call in progress is well typed.
LEMMA NoOpType == NoOp \in Op
  BY SeedAssumption DEF NoOp, Op, BakNames

\* The empty directory satisfies the invariant.
LEMMA InitInv == Init => IInv
  <1> SUFFICES ASSUME Init PROVE IInv
    OBVIOUS
  <1>1. TypeOK
    <2>1. file \in Contents /\ bak \in [BakNames -> Contents] /\ op \in Op
      BY ContentsType, NoOpType DEF Init
    <2>2. faults \in 0 .. MaxFaults
      BY SeedAssumption DEF Init
    <2>3. QED
      BY <2>1, <2>2 DEF Init, TypeOK
  <1>2. CallInv /\ OldPasswordWorks /\ SeedNeverLost
    BY DEF Init, CallInv, OldPasswordWorks, SeedNeverLost, Absent, NoOp
  <1>3. QED
    BY <1>1, <1>2 DEF IInv

\* Every step of a lifecycle call leaves the variables well typed.
LEMMA NextType == TypeOK /\ CallInv /\ [Next]_vars => TypeOK'
  <1> SUFFICES ASSUME TypeOK, CallInv, [Next]_vars PROVE TypeOK'
    OBVIOUS
  <1> USE SeedAssumption, ContentsType, NoOpType DEF TypeOK, Op, Begin, Return, At
  <1>1. ASSUME NEW s \in Seeds \cup {NoSeed}, NEW p \in Passwords, RecoverFromPhrase(s, p)
        PROVE TypeOK'
    BY ZenonT(30), <1>1 DEF RecoverFromPhrase
  <1>2. ASSUME NEW s \in Seeds \cup {NoSeed}, NEW p \in Passwords, NEW b \in BOOLEAN,
               CreateWallet(s, p, b)
        PROVE TypeOK'
    BY ZenonT(30), <1>2 DEF CreateWallet
  <1>3. ASSUME NEW old \in Passwords, NEW new \in Passwords, NEW b \in BOOLEAN,
               ChangePassword(old, new, b)
        PROVE TypeOK'
    BY <1>3 DEF ChangePassword, Contents
  <1>4. CASE BackupSeed
    <2>1. PICK n \in BakNames : /\ bak' = [bak EXCEPT ![n] = file]
                               /\ op' = [op EXCEPT !.pc = "create", !.bak = n]
      BY <1>4 DEF BackupSeed, Free
    <2>2. op' \in Op
      BY <2>1
    <2>3. file' \in Contents /\ bak' \in [BakNames -> Contents]
      BY <1>4, <2>1 DEF BackupSeed
    <2>4. QED
      BY <1>4, <2>2, <2>3 DEF BackupSeed
  <1>5. CASE CreateFile
    BY <1>5 DEF CreateFile
  <1>6. CASE InvalidPhrase
    BY <1>6 DEF InvalidPhrase
  <1>7. CASE WriteFile
    BY <1>7 DEF WriteFile, AfterInitFile, CallInv
  <1>8. CASE IoError
    BY <1>8 DEF IoError, AfterInitFile
  <1>9. CASE VerifyFile
    BY <1>9 DEF VerifyFile
  <1>10. CASE RemoveBackup
    BY <1>10 DEF RemoveBackup
  <1>11. CASE CreateDb
    BY <1>11 DEF CreateDb
  <1>12. ASSUME NEW p \in Passwords, OpenWallet(p) \/ ReadSeedFails(p)
        PROVE TypeOK'
    BY ZenonT(30), <1>12 DEF OpenWallet, ReadSeedFails, Contents
  <1>13. CASE CloseWallet
    BY <1>13 DEF CloseWallet
  <1>14. CASE DeleteWallet
    BY <1>14 DEF DeleteWallet
  <1>15. CASE Crash
    BY <1>15 DEF Crash
  <1>16. CASE UNCHANGED vars
    BY <1>16 DEF vars
  <1>17. QED
    BY <1>1, <1>2, <1>3, <1>4, <1>5, <1>6, <1>7, <1>8, <1>9, <1>10, <1>11, <1>12, <1>13, <1>14, <1>15, <1>16 DEF Next

\* Every step keeps what holds at each point of a call.
LEMMA NextCall == TypeOK /\ CallInv /\ OldPasswordWorks /\ [Next]_vars => CallInv'
  <1> SUFFICES ASSUME TypeOK, CallInv, OldPasswordWorks, [Next]_vars PROVE CallInv'
    OBVIOUS
  <1> USE SeedAssumption DEF TypeOK, CallInv, OldPasswordWorks, Contents, Absent, Torn, Sealed,
                             HeldBy, Op, NoOp, BakNames, Begin, Return, At, Opens
  <1>1. ASSUME NEW s \in Seeds \cup {NoSeed}, NEW p \in Passwords, RecoverFromPhrase(s, p)
        PROVE CallInv'
    BY <1>1 DEF RecoverFromPhrase
  <1>2. ASSUME NEW s \in Seeds \cup {NoSeed}, NEW p \in Passwords, NEW b \in BOOLEAN,
               CreateWallet(s, p, b)
        PROVE CallInv'
    BY <1>2 DEF CreateWallet
  <1>3. ASSUME NEW old \in Passwords, NEW new \in Passwords, NEW b \in BOOLEAN,
               ChangePassword(old, new, b)
        PROVE CallInv'
    BY <1>3 DEF ChangePassword
  <1>4. CASE BackupSeed
    BY <1>4 DEF BackupSeed, Free
  <1>5. CASE CreateFile
    BY <1>5 DEF CreateFile
  <1>6. CASE InvalidPhrase
    BY <1>6 DEF InvalidPhrase
  <1>7. CASE WriteFile
    BY <1>7 DEF WriteFile, AfterInitFile
  <1>8. CASE IoError
    BY <1>8 DEF IoError, AfterInitFile
  <1>9. CASE VerifyFile
    BY <1>9 DEF VerifyFile
  <1>10. CASE RemoveBackup
    BY <1>10 DEF RemoveBackup
  <1>11. CASE CreateDb
    BY <1>11 DEF CreateDb
  <1>12. ASSUME NEW p \in Passwords, OpenWallet(p) \/ ReadSeedFails(p)
        PROVE CallInv'
    BY <1>12 DEF OpenWallet, ReadSeedFails
  <1>13. CASE CloseWallet
    BY <1>13 DEF CloseWallet
  <1>14. CASE DeleteWallet
    BY <1>14 DEF DeleteWallet
  <1>15. CASE Crash
    BY <1>15 DEF Crash
  <1>16. CASE UNCHANGED vars
    BY <1>16 DEF vars
  <1>17. QED
    BY <1>1, <1>2, <1>3, <1>4, <1>5, <1>6, <1>7, <1>8, <1>9, <1>10, <1>11, <1>12, <1>13, <1>14, <1>15, <1>16 DEF Next

\* Until the new file is confirmed, no step touches the backup of the old one.
LEMMA NextOld == TypeOK /\ CallInv /\ OldPasswordWorks /\ [Next]_vars => OldPasswordWorks'
  <1> SUFFICES ASSUME TypeOK, CallInv, OldPasswordWorks, [Next]_vars PROVE OldPasswordWorks'
    OBVIOUS
  <1> USE SeedAssumption DEF TypeOK, CallInv, OldPasswordWorks, Contents, Absent, Torn, Sealed,
                             HeldBy, Op, NoOp, BakNames, Begin, Return, At, Opens
  <1>1. ASSUME NEW s \in Seeds \cup {NoSeed}, NEW p \in Passwords, RecoverFromPhrase(s, p)
        PROVE OldPasswordWorks'
    BY <1>1 DEF RecoverFromPhrase
  <1>2. ASSUME NEW s \in Seeds \cup {NoSeed}, NEW p \in Passwords, NEW b \in BOOLEAN,
               CreateWallet(s, p, b)
        PROVE OldPasswordWorks'
    BY <1>2 DEF CreateWallet
  <1>3. ASSUME NEW old \in Passwords, NEW new \in Passwords, NEW b \in BOOLEAN,
               ChangePassword(old, new, b)
        PROVE OldPasswordWorks'
    BY <1>3 DEF ChangePassword
  <1>4. CASE BackupSeed
    BY <1>4 DEF BackupSeed, Free
  <1>5. CASE CreateFile
    BY <1>5 DEF CreateFile
  <1>6. CASE InvalidPhrase
    BY <1>6 DEF InvalidPhrase
  <1>7. CASE WriteFile
    BY <1>7 DEF WriteFile, AfterInitFile
  <1>8. CASE IoError
    BY <1>8 DEF IoError, AfterInitFile
  <1>9. CASE VerifyFile
    BY <1>9 DEF VerifyFile
  <1>10. CASE RemoveBackup
    BY <1>10 DEF RemoveBackup
  <1>11. CASE CreateDb
    BY <1>11 DEF CreateDb
  <1>12. ASSUME NEW p \in Passwords, OpenWallet(p) \/ ReadSeedFails(p)
        PROVE OldPasswordWorks'
    BY <1>12 DEF OpenWallet, ReadSeedFails
  <1>13. CASE CloseWallet
    BY <1>13 DEF CloseWallet
  <1>14. CASE DeleteWallet
    BY <1>14 DEF DeleteWallet
  <1>15. CASE Crash
    BY <1>15 DEF Crash
  <1>16. CASE UNCHANGED vars
    BY <1>16 DEF vars
  <1>17. QED
    BY <1>1, <1>2, <1>3, <1>4, <1>5, <1>6, <1>7, <1>8, <1>9, <1>10, <1>11, <1>12, <1>13, <1>14, <1>15, <1>16 DEF Next

\* A step that moves, creates, writes or removes a seed file leaves every seed
\* readable from some file.
LEMMA NextLost == IInv /\ [Next]_vars => SeedNeverLost'
  <1> SUFFICES ASSUME IInv, [Next]_vars, NEW s \in made'
               PROVE  HeldBy(s, file') \/ \E n \in BakNames : HeldBy(s, bak'[n])
    BY DEF SeedNeverLost
  <1> USE DEF IInv, SeedNeverLost, HeldBy
  <1>1. CASE file' = file /\ bak' = bak /\ made' = made
    BY <1>1
  <1>2. CASE BackupSeed
    <2>1. PICK n \in BakNames : bak[n].state = "absent" /\ bak' = [bak EXCEPT ![n] = file]
      BY <1>2 DEF BackupSeed, Free
    <2>2. s \in made
      BY <1>2 DEF BackupSeed
    <2>3. CASE HeldBy(s, file)
      BY <2>1, <2>3 DEF TypeOK
    <2>4. CASE \E m \in BakNames : HeldBy(s, bak[m])
      BY <2>1, <2>4 DEF TypeOK
    <2>5. QED
      BY <2>2, <2>3, <2>4
  <1>3. CASE CreateFile
    BY <1>3 DEF CreateFile, CallInv, At, Absent
  <1>4. CASE WriteFile
    <2>1. CASE s = op.seed
      BY <1>4, <2>1 DEF WriteFile, Sealed
    <2>2. CASE s # op.seed
      BY <1>4, <2>2 DEF WriteFile, CallInv, At, Torn
    <2>3. QED
      BY <2>1, <2>2
  <1>5. CASE RemoveBackup
    <2>1. s \in made /\ HeldBy(op.seed, file) /\ bak[op.bak].seed = op.seed /\ op.bak \in BakNames
      BY <1>5 DEF RemoveBackup, CallInv, At, Sealed, TypeOK, Op
    <2>2. CASE HeldBy(s, file)
      BY <1>5, <2>2 DEF RemoveBackup
    <2>3. CASE \E m \in BakNames : HeldBy(s, bak[m])
      BY <1>5, <2>1, <2>3 DEF RemoveBackup, TypeOK
    <2>4. QED
      BY <2>1, <2>2, <2>3
  <1>6. CASE DeleteWallet
    BY <1>6 DEF DeleteWallet
  <1>7. CASE UNCHANGED vars
    BY <1>1, <1>7 DEF vars
  <1>8. QED
    BY <1>1, <1>2, <1>3, <1>4, <1>5, <1>6, <1>7
       DEF Next, RecoverFromPhrase, CreateWallet, ChangePassword, InvalidPhrase, IoError,
           VerifyFile, CreateDb, OpenWallet, ReadSeedFails, CloseWallet, Crash

\* A seed written once is never lost, and until a password change is confirmed the
\* seed can be read with the old password: the seed file operations of
\* create_wallet, change_password and recover_from_mnemonic, interrupted anywhere.
THEOREM SeedSafe == Spec => [](TypeOK /\ SeedNeverLost /\ OldPasswordWorks)
  <1>1. IInv /\ [Next]_vars => IInv'
    BY NextType, NextCall, NextOld, NextLost DEF IInv
  <1>2. IInv => TypeOK /\ SeedNeverLost /\ OldPasswordWorks
    BY DEF IInv
  <1>3. QED
    BY InitInv, <1>1, <1>2, PTL DEF Spec

\* Until change_password has verified the new seed file, the seed can be read with the
\* old password, whatever call of it failed and wherever the process stopped.
THEOREM OldPasswordKept == Spec => []OldPasswordWorks
  BY SeedSafe, PTL

=============================================================================

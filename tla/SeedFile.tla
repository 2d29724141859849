------------------------------ MODULE SeedFile ------------------------------
(***************************************************************************)
(* The wallet's seed file and its backups, and the lifecycle operations    *)
(* that write them: create_wallet, change_password, recover_from_mnemonic, *)
(* open_wallet, close_wallet and delete_wallet.                            *)
(*                                                                         *)
(* Lifecycle calls of a process exclude each other (they hold the wallet   *)
(* instance's mutex), but every file system call is an action of its own:  *)
(* it may fail, and the process may stop before the next one.              *)
(***************************************************************************)
EXTENDS Naturals

CONSTANTS
  Seeds,        \* wallet seeds
  Passwords,    \* passwords
  NoSeed, NoPw, \* the seed and password of a file that holds none
  MaxBackups,   \* bound: names wallet.seed.bak, wallet.seed.bak.1, ...
  MaxFaults     \* bound: failing file system calls and stops of the process

ASSUME SeedAssumption ==
  /\ NoSeed \notin Seeds /\ NoPw \notin Passwords
  /\ MaxBackups \in Nat \ {0} /\ MaxFaults \in Nat

VARIABLES
  file,    \* wallet.seed
  bak,     \* the backups, by number
  dir,     \* whether the wallet_data directory exists
  db,      \* init status in the database ("none": no database)
  backend, \* the seed of the open backend's keychain (NoSeed: closed)
  op,      \* the lifecycle call in progress
  made,    \* the seeds that were written to a seed file since the last delete
  ret,     \* what the last call returned
  faults

vars == <<file, bak, dir, db, backend, op, made, ret, faults>>

BakNames == 0 .. (MaxBackups - 1)

\* absent: no such file; torn: created, its JSON not (completely) written
Contents == [state : {"absent", "torn", "sealed"}, seed : Seeds \cup {NoSeed},
             pw : Passwords \cup {NoPw}]
Absent   == [state |-> "absent", seed |-> NoSeed, pw |-> NoPw]
Torn     == [state |-> "torn", seed |-> NoSeed, pw |-> NoPw]
Sealed(s, p) == [state |-> "sealed", seed |-> s, pw |-> p]

\* seed and pw are what is being written, old the password given for the file
\* being replaced, bak the backup made of it
Op     == [pc : {"idle", "backup", "create", "write", "verify", "clean", "db"},
           job : {"none", "create", "change", "recover"},
           seed : Seeds \cup {NoSeed}, pw : Passwords \cup {NoPw}, old : Passwords \cup {NoPw},
           bak : BakNames, remove : BOOLEAN, phrase : BOOLEAN]
NoOp   == [pc |-> "idle", job |-> "none", seed |-> NoSeed, pw |-> NoPw, old |-> NoPw,
           bak |-> 0, remove |-> FALSE, phrase |-> FALSE]

Init ==
  /\ file = Absent /\ bak = [n \in BakNames |-> Absent]
  /\ dir = FALSE /\ db = "none" /\ backend = NoSeed /\ op = NoOp /\ made = {} /\ ret = "none" /\ faults = 0

-----------------------------------------------------------------------------
\* Backup names not in use; bounded, so a call that may need one starts only if
\* there is one
Free == {n \in BakNames : bak[n].state = "absent"}

\* from_file: the seed of wallet.seed, under a password
Opens(f, p) == f.state = "sealed" /\ f.pw = p

Begin(o)  == op.pc = "idle" /\ op' = o /\ ret' = "running"
Return(r) == op' = NoOp /\ ret' = r
At(pc)    == op.pc = pc

\* create_wallet of a random seed or of a phrase; NoSeed stands for a phrase that
\* is not a valid mnemonic.  init_file's errors are dropped (let _ =): the call
\* goes on to create the database.
CreateWallet(s, p, phrase) ==
  /\ file.state = "absent" /\ (s = NoSeed => phrase)
  /\ Begin([NoOp EXCEPT !.pc = IF s = NoSeed THEN "db" ELSE "create", !.job = "create",
                        !.seed = s, !.pw = p, !.phrase = phrase])
  /\ dir' = TRUE
  /\ UNCHANGED <<file, bak, db, backend, made, faults>>

\* Faulty variant: the old password is not tried
ChangePasswordUnchecked(old, new, remove) ==
  /\ file.state = "sealed" /\ Free # {}
  /\ Begin([NoOp EXCEPT !.pc = "backup", !.job = "change", !.seed = file.seed,
                        !.pw = new, !.old = old, !.remove = remove])
  /\ UNCHANGED <<file, bak, dir, db, backend, made, faults>>

\* change_password: wallet.seed must open with the old password
ChangePassword(old, new, remove) ==
  /\ Opens(file, old) /\ Free # {}
  /\ Begin([NoOp EXCEPT !.pc = "backup", !.job = "change", !.seed = file.seed,
                        !.pw = new, !.old = old, !.remove = remove])
  /\ UNCHANGED <<file, bak, dir, db, backend, made, faults>>

\* recover_from_phrase: an existing seed file is backed up before the phrase is
\* looked at
RecoverFromPhrase(s, p) ==
  /\ dir /\ Free # {}
  /\ Begin([NoOp EXCEPT !.pc = IF file.state = "absent" THEN "create" ELSE "backup",
                        !.job = "recover", !.seed = s, !.pw = p])
  /\ UNCHANGED <<file, bak, dir, db, backend, made, faults>>

\* Faulty variant: the backup always goes to wallet.seed.bak
BackupSeedFirstName ==
  /\ At("backup")
  /\ bak' = [bak EXCEPT ![0] = file] /\ op' = [op EXCEPT !.pc = "create", !.bak = 0]
  /\ file' = Absent
  /\ UNCHANGED <<dir, db, backend, made, ret, faults>>

\* backup_seed: wallet.seed is renamed to the first free backup name
BackupSeed ==
  /\ At("backup")
  /\ \E n \in Free :
       /\ \A m \in Free : n <= m
       /\ bak' = [bak EXCEPT ![n] = file]
       /\ op' = [op EXCEPT !.pc = "create", !.bak = n]
  /\ file' = Absent
  /\ UNCHANGED <<dir, db, backend, made, ret, faults>>

\* What a call does when creating or writing the new file fails: recover_from_phrase
\* returns the error, the other two ignored it
AfterInitFile == CASE op.job = "create" -> "db" [] op.job = "change" -> "verify" [] OTHER -> "idle"

\* File::create, for a valid phrase
CreateFile ==
  /\ At("create") /\ op.seed # NoSeed
  /\ file' = Torn /\ op' = [op EXCEPT !.pc = "write"]
  /\ UNCHANGED <<bak, dir, db, backend, made, ret, faults>>

\* from_mnemonic fails: the seed file has been moved away already
InvalidPhrase ==
  /\ At("create") /\ op.seed = NoSeed
  /\ Return("error")
  /\ UNCHANGED <<file, bak, dir, db, backend, made, faults>>

\* write_all
WriteFile ==
  /\ At("write")
  /\ file' = Sealed(op.seed, op.pw) /\ made' = made \cup {op.seed}
  /\ IF op.job = "recover" THEN Return("recovered")
     ELSE op' = [op EXCEPT !.pc = AfterInitFile] /\ UNCHANGED ret
  /\ UNCHANGED <<bak, dir, db, backend, faults>>

\* A rename, a create, a write, a remove or opening the database fails
IoError ==
  /\ faults < MaxFaults /\ op.pc \in {"backup", "create", "write", "clean", "db"}
  /\ IF op.pc \in {"backup", "clean", "db"} \/ op.job = "recover" THEN Return("error")
     ELSE op' = [op EXCEPT !.pc = AfterInitFile] /\ UNCHANGED ret
  /\ faults' = faults + 1
  /\ UNCHANGED <<file, bak, dir, db, backend, made>>

\* The new file is read back with the new password and compared
VerifyFile ==
  /\ At("verify")
  /\ IF ~Opens(file, op.pw) \/ file.seed # op.seed THEN Return("error")
     ELSE IF op.remove THEN op' = [op EXCEPT !.pc = "clean"] /\ UNCHANGED ret
     ELSE Return("changed")
  /\ UNCHANGED <<file, bak, dir, db, backend, made, faults>>

RemoveBackup ==
  /\ At("clean")
  /\ bak' = [bak EXCEPT ![op.bak] = Absent]
  /\ Return("changed")
  /\ UNCHANGED <<file, dir, db, backend, made, faults>>

\* create_wallet opens the database and records whether a full scan is needed
CreateDb ==
  /\ At("db")
  /\ db' = IF op.phrase THEN "InitNeedsScanning" ELSE "InitNoScanning"
  /\ Return("created")
  /\ UNCHANGED <<file, bak, dir, backend, made, faults>>

\* open_wallet opens, and if need be creates, the database before it tries the
\* password; a database without an init status reads as InitComplete
OpenWallet(p) ==
  /\ op.pc = "idle"
  /\ dir' = TRUE /\ db' = IF db = "none" THEN "InitComplete" ELSE db
  /\ IF Opens(file, p) THEN backend' = file.seed /\ ret' = "opened"
     ELSE backend' = backend /\ ret' = "error"
  /\ UNCHANGED <<file, bak, op, made, faults>>

\* change_password and get_mnemonic with a password that does not open the file:
\* reading it has created the directory
ReadSeedFails(p) ==
  /\ op.pc = "idle" /\ ~Opens(file, p)
  /\ dir' = TRUE /\ ret' = "error"
  /\ UNCHANGED <<file, bak, db, backend, op, made, faults>>

CloseWallet ==
  /\ op.pc = "idle" /\ backend' = NoSeed /\ ret' = "closed"
  /\ UNCHANGED <<file, bak, dir, db, op, made, faults>>

\* delete_wallet removes the whole directory
DeleteWallet ==
  /\ op.pc = "idle"
  /\ file' = Absent /\ bak' = [n \in BakNames |-> Absent]
  /\ dir' = FALSE /\ db' = "none" /\ made' = {} /\ ret' = "deleted"
  /\ UNCHANGED <<backend, op, faults>>

\* The process stops, at any point
Crash ==
  /\ faults < MaxFaults /\ faults' = faults + 1
  /\ op' = NoOp /\ ret' = "none" /\ backend' = NoSeed
  /\ UNCHANGED <<file, bak, dir, db, made>>

Next ==
  \/ \E s \in Seeds \cup {NoSeed}, p \in Passwords :
       RecoverFromPhrase(s, p) \/ \E b \in BOOLEAN : CreateWallet(s, p, b)
  \/ \E old, new \in Passwords, b \in BOOLEAN : ChangePassword(old, new, b)
  \/ BackupSeed \/ CreateFile \/ InvalidPhrase \/ WriteFile \/ IoError
  \/ VerifyFile \/ RemoveBackup \/ CreateDb
  \/ \E p \in Passwords : OpenWallet(p) \/ ReadSeedFails(p)
  \/ CloseWallet \/ DeleteWallet \/ Crash

Spec == Init /\ [][Next]_vars

-----------------------------------------------------------------------------
(* Properties *)

\* Every variable holds what the wallet directory and a lifecycle call can hold.
TypeOK ==
  /\ file \in Contents /\ bak \in [BakNames -> Contents] /\ dir \in BOOLEAN
  /\ db \in {"none", "InitNoScanning", "InitNeedsScanning", "InitComplete"}
  /\ backend \in Seeds \cup {NoSeed} /\ op \in Op /\ made \in SUBSET Seeds
  /\ ret \in {"none", "running", "error", "created", "changed", "recovered", "opened",
              "closed", "deleted"}
  /\ faults \in 0 .. MaxFaults

HeldBy(s, f) == f.state = "sealed" /\ f.seed = s

\* No seed is ever lost: a seed that was once written to wallet.seed can be read
\* from wallet.seed or from a backup, whatever file operations fail and wherever
\* create_wallet, change_password or recover_from_mnemonic are interrupted.
SeedNeverLost ==
  \A s \in made : HeldBy(s, file) \/ \E n \in BakNames : HeldBy(s, bak[n])

\* "This function temporarily backs up the old seed file until a test-decryption of
\* the new file is confirmed" (change_password): until then the seed can be read
\* from a backup with the old password.
OldPasswordWorks ==
  op.job = "change" /\ op.pc \in {"create", "write", "verify"} =>
    bak[op.bak] = Sealed(op.seed, op.old)

\* "Creates a new wallet seed and empty wallet database ... Ok if successful"
\* (create_wallet): when the call has returned Ok there is a seed file.
CreatedHasSeed == ret = "created" => file.state = "sealed"

=============================================================================

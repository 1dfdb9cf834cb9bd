---------------------------- MODULE Installation ----------------------------
(***************************************************************************)
(* What commands of the CLI keep on the workstation (cmd/chat-with-cli,      *)
(* internal/releaseinstall, internal/deviceidentity): the installed binary   *)
(* with its backup and checksum, and the configuration that names a device   *)
(* identity and its key file.  A command may end at any step, the machine     *)
(* may lose power, and nothing keeps two commands apart.                     *)
(***************************************************************************)
EXTENDS Naturals, Sequences

CONSTANTS
  Cli,         \* commands that run
  MaxRelease,  \* bound: releases that are ever published
  MaxKey       \* bound: identities that are ever generated

ASSUME InstallationAssumption == MaxRelease \in Nat \ {0} /\ MaxKey \in Nat \ {0}

VARIABLES
  shown,     \* the binary, its backup and the backup's checksum, as programs see them
  onDisk,    \* what the disk may hold of them: how they were since the directory was synced
  config,    \* the configuration: the identity and the key file it names
  keyFile,   \* the key in each key file, 0 for none
  configOnDisk,  \* configurations the disk may hold: those since its directory was synced
  keyOnDisk,     \* what the disk may hold in each key file, whose directory nobody syncs
  keys,      \* identities generated so far
  gone,      \* identities the Relay has permanently revoked
  cli,       \* per command, where it is
  vanished,  \* history: identities whose key a loss of power took or a failed rotation removed
  overlap    \* history: what two commands changed side by side

binaries    == <<shown, onDisk>>
identities  == <<config, configOnDisk, keyFile, keyOnDisk, keys, gone>>
installVars == <<binaries, identities, cli, vanished, overlap>>

Slot    == {"dest", "backup", "sum"}
\* Key file 0 is the one of the state directory, a rotation names one by its identity.
KeyPath == 0..MaxKey
Binary  == {"read", "write", "sync", "restore", "resync"}
Fresh   == {"setup", "save", "key", "config", "settle"}
Config  == [id : KeyPath, path : KeyPath]
\* next counts the files an update has written, new is the release or identity a
\* command brings, old the release or identity it found.
Quiet   == [at |-> "idle", rotates |-> FALSE, next |-> 1, new |-> 0, old |-> 0, path |-> 0]

InstallationTypeOK ==
  /\ onDisk \subseteq [Slot -> 0..MaxRelease] /\ shown \in onDisk
  /\ configOnDisk \subseteq Config /\ config \in configOnDisk
  /\ keyFile \in [KeyPath -> KeyPath] /\ keyOnDisk \in [KeyPath -> SUBSET KeyPath]
  /\ \A p \in KeyPath : keyFile[p] \in keyOnDisk[p]
  /\ keys \in 0..MaxKey /\ gone \subseteq KeyPath /\ vanished \subseteq KeyPath
  /\ cli \in [Cli -> [at : Binary \cup Fresh \cup {"idle", "connect", "rotate"}, rotates : BOOLEAN,
                      next : 1..3, new : 0..(MaxRelease + MaxKey), old : 0..(MaxRelease + MaxKey), path : KeyPath]]
  /\ overlap \subseteq {"binary", "identity"}

\* Release 1 is installed and has no backup; nothing is set up.
InstallationInit ==
  /\ shown = [s \in Slot |-> IF s = "dest" THEN 1 ELSE 0] /\ onDisk = {shown}
  /\ config = [id |-> 0, path |-> 0] /\ configOnDisk = {config}
  /\ keyFile = [p \in KeyPath |-> 0] /\ keyOnDisk = [p \in KeyPath |-> {0}] /\ keys = 0 /\ gone = {}
  /\ cli = [c \in Cli |-> Quiet] /\ vanished = {} /\ overlap = {}

Reaches(c, at) == cli' = [cli EXCEPT ![c].at = at]
Exits(c)       == cli' = [cli EXCEPT ![c] = Quiet]
Beside(c, what, places) ==
  overlap' = IF \E d \in Cli \ {c} : cli[d].at \in places THEN overlap \cup {what} ELSE overlap

-----------------------------------------------------------------------------
(* update and rollback.                                                    *)

\* The release and its checksum have been fetched and agree.
Update(c, r) ==
  /\ cli[c].at = "idle"
  /\ cli' = [cli EXCEPT ![c] = [Quiet EXCEPT !.at = "read", !.new = r]]
  /\ Beside(c, "binary", Binary) /\ UNCHANGED <<binaries, identities, vanished>>

\* BackupCurrent reads the binary that is installed.
ReadCurrent(c) ==
  /\ cli[c].at = "read"
  /\ cli' = [cli EXCEPT ![c] = [@ EXCEPT !.at = "write", !.old = shown["dest"]]]
  /\ UNCHANGED <<binaries, identities, overlap, vanished>>

\* Variant: the checksum is written when all else is done.
SumLast == <<"backup", "dest", "sum">>

InstallOrder == <<"backup", "sum", "dest">>

\* writeAtomic: a synced temporary file is renamed,
WriteNext(c) ==
  LET slot == InstallOrder[cli[c].next] IN
  /\ cli[c].at = "write"
  /\ shown' = [shown EXCEPT ![slot] = IF slot = "dest" THEN cli[c].new ELSE cli[c].old]
  /\ onDisk' = onDisk \cup {shown'} /\ Reaches(c, "sync")
  /\ UNCHANGED <<identities, overlap, vanished>>

\* and then the directory is synced.
SyncNext(c) ==
  /\ cli[c].at = "sync" /\ onDisk' = {shown}
  /\ IF cli[c].next = 3 THEN Exits(c)
     ELSE cli' = [cli EXCEPT ![c] = [@ EXCEPT !.at = "write", !.next = cli[c].next + 1]]
  /\ UNCHANGED <<shown, identities, overlap, vanished>>

\* RestoreVerifiedBackup refuses a backup that is missing or is not the one the
\* checksum is of.
Verified(f) == f["backup"] # 0 /\ f["sum"] = f["backup"]

Rollback(c) ==
  /\ cli[c].at = "idle" /\ Verified(shown)
  /\ cli' = [cli EXCEPT ![c] = [Quiet EXCEPT !.at = "restore", !.new = shown["backup"]]]
  /\ Beside(c, "binary", Binary) /\ UNCHANGED <<binaries, identities, vanished>>

RestoreBackup(c) ==
  /\ cli[c].at = "restore"
  /\ shown' = [shown EXCEPT !["dest"] = cli[c].new]
  /\ onDisk' = onDisk \cup {shown'} /\ Reaches(c, "resync")
  /\ UNCHANGED <<identities, overlap, vanished>>

RestoreSynced(c) ==
  /\ cli[c].at = "resync" /\ onDisk' = {shown} /\ Exits(c)
  /\ UNCHANGED <<shown, identities, overlap, vanished>>

-----------------------------------------------------------------------------
(* setup, and connect where it repairs the identity.                       *)

\* --identity names the key file: the interactive setup passes the one that is
\* configured, without it the one of the state directory is used.
Setup(c) ==
  /\ cli[c].at = "idle"
  /\ \E path \in 0..keys : cli' = [cli EXCEPT ![c] = [Quiet EXCEPT !.at = "setup", !.path = path]]
  /\ Beside(c, "identity", Fresh) /\ UNCHANGED <<binaries, identities, vanished>>

\* LoadOrCreate.
LoadKey(c) ==
  LET key == keyFile[cli[c].path] IN
  /\ cli[c].at = "setup" /\ key # 0
  /\ cli' = [cli EXCEPT ![c] = [@ EXCEPT !.at = "config", !.new = key]]
  /\ UNCHANGED <<binaries, identities, overlap, vanished>>

Generates(c, rotates, path) ==
  /\ keys < MaxKey /\ keys' = keys + 1
  /\ cli' = [cli EXCEPT ![c] = [Quiet EXCEPT !.at = "save", !.rotates = rotates, !.new = keys + 1, !.path = path]]
  /\ UNCHANGED <<binaries, config, configOnDisk, keyFile, keyOnDisk, gone, overlap, vanished>>

CreateKey(c) == cli[c].at = "setup" /\ keyFile[cli[c].path] = 0 /\ Generates(c, FALSE, cli[c].path)

\* Identity.Save looks for the file and then renames over whatever is there; it
\* does not sync the directory.
CheckKeyFree(c) ==
  /\ cli[c].at = "save" /\ keyFile[cli[c].path] = 0 /\ Reaches(c, "key")
  /\ UNCHANGED <<binaries, identities, overlap, vanished>>

PutsKey(path, key) ==
  /\ keyFile' = [keyFile EXCEPT ![path] = key]
  /\ keyOnDisk' = [keyOnDisk EXCEPT ![path] = @ \cup {key}]

SaveKey(c) ==
  /\ cli[c].at = "key" /\ Reaches(c, "config") /\ PutsKey(cli[c].path, cli[c].new)
  /\ UNCHANGED <<binaries, config, configOnDisk, keys, gone, overlap, vanished>>

\* config.Write renames a synced file, and then syncs the directory.
SaveConfig(c) ==
  /\ cli[c].at = "config" /\ Reaches(c, "settle")
  /\ config' = [id |-> cli[c].new, path |-> cli[c].path] /\ configOnDisk' = configOnDisk \cup {config'}
  /\ UNCHANGED <<binaries, keyFile, keyOnDisk, keys, gone, overlap, vanished>>

SyncConfig(c) ==
  /\ cli[c].at = "settle" /\ configOnDisk' = {config} /\ Exits(c)
  /\ UNCHANGED <<binaries, config, keyFile, keyOnDisk, keys, gone, overlap, vanished>>

\* The configuration cannot be written, or its directory not be synced when it was:
\* a rotation removes the key it has made.  (CliEnds: it cannot.)
RotationFails(c) ==
  /\ cli[c].at \in {"config", "settle"} /\ cli[c].rotates /\ Exits(c)
  /\ PutsKey(cli[c].path, 0) /\ vanished' = vanished \cup {cli[c].new}
  /\ UNCHANGED <<binaries, config, configOnDisk, keys, gone, overlap>>

\* configuredIdentityState: the key is there, or missing, or refused.
Present == config.id # 0 /\ keyFile[config.path] = config.id
Missing == config.id # 0 /\ keyFile[config.path] = 0

RunConnect(c) ==
  /\ cli[c].at = "idle"
  /\ \/ /\ Present /\ cli' = [cli EXCEPT ![c] = [Quiet EXCEPT !.at = "connect", !.old = config.id]]
        /\ UNCHANGED <<binaries, identities, overlap, vanished>>
     \/ Missing /\ Generates(c, TRUE, keys + 1)

\* 410: the identity that is configured by now is replaced.
Refused(c) ==
  /\ cli[c].at = "connect" /\ cli[c].old \in gone /\ Reaches(c, "rotate")
  /\ UNCHANGED <<binaries, identities, overlap, vanished>>

Rotate(c) == cli[c].at = "rotate" /\ (Present \/ Missing) /\ Generates(c, TRUE, keys + 1)

-----------------------------------------------------------------------------
\* The Relay revokes an identity it has seen.
RevokeIdentity(i) ==
  /\ i \notin gone /\ \E c \in Cli : cli[c].at = "connect" /\ cli[c].old = i
  /\ gone' = gone \cup {i}
  /\ UNCHANGED <<binaries, config, configOnDisk, keyFile, keyOnDisk, keys, cli, overlap, vanished>>

\* A step fails, the check of a file says no, or the command is ended.
CliEnds(c) ==
  /\ cli[c].at # "idle" /\ Exits(c)
  /\ UNCHANGED <<binaries, identities, overlap, vanished>>

\* Renames of one directory reach the disk in their order, those since the last sync
\* perhaps not; what was saved and removed in a key file may be as it was before.
PowerLoss ==
  /\ shown' \in onDisk /\ onDisk' = {shown'} /\ config' \in configOnDisk /\ configOnDisk' = {config'}
  /\ keyFile' \in [KeyPath -> KeyPath] /\ \A p \in KeyPath : keyFile'[p] \in keyOnDisk[p]
  /\ keyOnDisk' = [p \in KeyPath |-> {keyFile'[p]}]
  /\ vanished' = vanished \cup ({keyFile[p] : p \in {q \in KeyPath : keyFile'[q] # keyFile[q]}} \ {0})
  /\ cli' = [c \in Cli |-> Quiet] /\ UNCHANGED <<keys, gone, overlap>>

CliStep(c) ==
  \/ (\E r \in 1..MaxRelease : Update(c, r)) \/ ReadCurrent(c) \/ WriteNext(c) \/ SyncNext(c)
  \/ Rollback(c) \/ RestoreBackup(c) \/ RestoreSynced(c)
  \/ Setup(c) \/ LoadKey(c) \/ CreateKey(c) \/ CheckKeyFree(c) \/ SaveKey(c)
  \/ SaveConfig(c) \/ SyncConfig(c) \/ RotationFails(c) \/ RunConnect(c) \/ Refused(c) \/ Rotate(c)
  \/ CliEnds(c)

InstallationNext ==
  \/ \E c \in Cli : CliStep(c)
  \/ \E i \in 1..MaxKey : RevokeIdentity(i)
  \/ PowerLoss

InstallationSpec == InstallationInit /\ [][InstallationNext]_installVars
-----------------------------------------------------------------------------
\* While a rollback would be refused, there is nothing to go back to: the backup
\* is the very binary that is installed, or none was made.  Failures and a loss of
\* power included, but not two commands side by side.
ReplacedIsRecoverable ==
  "binary" \notin overlap => \A f \in onDisk : Verified(f) \/ f["dest"] = f["backup"] \/ f["backup"] = 0

\* A replaced binary is kept: what is installed is release 1 or has a backup.
NothingReplacedUnsaved ==
  "binary" \notin overlap => \A f \in onDisk : f["dest"] = 1 \/ Verified(f) \/ f["dest"] = f["backup"]

\* Every configuration the disk may hold names a key file with the key of its
\* identity in it.  Without that key connect makes another identity, and with a
\* different one in its place, left by a setup that was interrupted, every later
\* connect refuses.  A loss of power takes the key, and a rotation that could not
\* sync its configuration removes it; else no rotation or setup loses it, wherever it
\* was interrupted and whichever key file it used, unless a setup began beside
\* another command that changes the identity.
ConfiguredKeyFits ==
  "identity" \notin overlap =>
    \A f \in configOnDisk : f.id = 0 \/ keyFile[f.path] = f.id \/ f.id \in vanished

\* An interrupted update can be rolled back and an interrupted rotation repaired.
InstallHolds == /\ InstallationTypeOK /\ ReplacedIsRecoverable /\ NothingReplacedUnsaved
                /\ ConfiguredKeyFits
=============================================================================

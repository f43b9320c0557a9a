------------------------------- MODULE Repair -------------------------------
(***************************************************************************)
(* Offline repair of a hive file: the scan of internal/reader/diagnose.go, *)
(* the engine, its modules and its transaction log in internal/repair, and *)
(* ApplyRepairs of internal/reader/repair.go with the backup and the       *)
(* atomic write of internal/repair/writer.go; RestoreFromBackup of         *)
(* pkg/types/repair.go, which writes the hive in place.                    *)
(*                                                                         *)
(* The hive is a function from the 4-byte fields the repairs are about to  *)
(* their contents.  All diagnostics lie within the file, so bounds checks  *)
(* are left out, and so is what a scan finds but offers no repair for.     *)
(* Expected = NotU32 stands for an expected value of another Go type.      *)
(***************************************************************************)
EXTENDS Integers, Sequences, FiniteSets, SequencesExt

CONSTANTS
  Key, Value,        \* the NK and the VK records of the hive
  Setups,            \* AutoOnly and MaxRisk of EngineConfig; foreign: callers also
                     \* pass diagnostics of their own; faults: what goes wrong
                     \* under WriteAtomic
  MaxDiags,          \* bound on the diagnostics given to one call
  MaxCalls           \* bound on the calls of ApplyRepairs and RestoreFromBackup

VARIABLES
  setup,        \* the configuration, of Setups
  vis, dur,     \* files by name: as processes see them, as a crash leaves them
  tmp,          \* the temporary file of WriteAtomic and what of it is on disk
  data,         \* the buffer the engine works on (kept until the next call)
  input,        \* the diagnostics of the call
  todo,         \* ... those still to process
  log,          \* TransactionLog.entries
  status,       \* RepairDetail.Status, one per processed diagnostic
  pc,           \* where ApplyRepairs is
  orig,         \* history: the hive file when ApplyRepairs read it, or the backup restored
  calls

vars == <<setup, vis, dur, tmp, data, input, todo, log, status, pc, orig, calls>>
files == <<vis, dur, tmp>>
engine == <<data, input, todo, log, status>>

InvalidOffset == -1
NotU32 == -2

Primary == <<"primary", 0>>
Secondary == <<"secondary", 0>>
BinOffset == <<"hbin", 0>>            \* the file offset field of an HBIN
NKField(f, k) == <<f, k>>
DataLength(v) == <<"datalength", v>>  \* the length field of a VK
DataCell(v) == <<"datacell", v>>      \* the cell header of its data
BinStart == <<"hbinstart", 0>>        \* the signature of an HBIN

Loc ==
  {Primary, Secondary, BinOffset, BinStart}
  \cup {NKField(f, k) : f \in {"subkeycount", "subkeylist", "valuecount", "valuelist"}, k \in Key}
  \cup {DataLength(v) : v \in Value} \cup {DataCell(v) : v \in Value}

(***************************************************************************)
(* What the scan reports and offers to repair, and what the reader records *)
(* in passing.                                                             *)
(***************************************************************************)
Diagnostic(o, s, t, e, r, a) ==
  [Offset |-> o, Structure |-> s, Type |-> t, Expected |-> e, Risk |-> r, AutoApply |-> a]

validateREGF(D) ==
  IF D[Primary] # D[Secondary]
    THEN {Diagnostic(Primary, "REGF", "default", D[Primary], 1, FALSE)} ELSE {}

validateHBINs(D) ==
  IF D[BinOffset] # 0 THEN {Diagnostic(BinOffset, "HBIN", "replace", 0, 1, TRUE)} ELSE {}

validateNK(D, k) ==
  LET count(c) == D[NKField(c, k)]
      list(l) == D[NKField(l, k)]
      counted(c, l) == IF count(c) > 0 /\ list(l) = InvalidOffset
                         THEN {Diagnostic(NKField(c, k), "NK", "replace", 0, 1, TRUE)} ELSE {}
      dangling(c, l) == IF count(c) = 0 /\ list(l) # InvalidOffset /\ list(l) # 0
                          THEN {Diagnostic(NKField(l, k), "NK", "default", InvalidOffset, 1, TRUE)} ELSE {}
  IN counted("subkeycount", "subkeylist") \cup counted("valuecount", "valuelist")
     \cup dangling("subkeycount", "subkeylist") \cup dangling("valuecount", "valuelist")

Diagnose(D) == validateREGF(D) \cup validateHBINs(D) \cup UNION {validateNK(D, k) : k \in Key}

\* A value longer than its data, an HBIN that does not parse.
Recorded ==
  {Diagnostic(DataCell(v), "VK", "truncate", NotU32, 1, TRUE) : v \in Value}
  \cup {Diagnostic(BinStart, "HBIN", "replace", NotU32, 3, FALSE)}

\* A caller that wants a VK's length cut gives the length field and a number.
Own == IF setup.foreign THEN {Diagnostic(DataLength(v), "VK", "truncate", 1, 1, TRUE) : v \in Value} ELSE {}

(***************************************************************************)
(* The engine.  filterDiagnostics; the modules' Validate, Apply and Verify *)
(* (the four are alike); the validator's check of the structure, which     *)
(* takes the offset of the field for the start of the cell.                *)
(***************************************************************************)
Wanted(s, d) == (s.AutoOnly => d.AutoApply) /\ d.Risk <= s.MaxRisk
filterDiagnostics(s, ds) ==
  LET filtered[n \in 0..Len(ds)] ==
        IF n = 0 THEN <<>>
        ELSE IF Wanted(s, ds[n]) THEN Append(filtered[n - 1], ds[n]) ELSE filtered[n - 1]
  IN filtered[Len(ds)]

Supported(d) == d.Type \in {"replace", "default"} \/ (d.Structure = "VK" /\ d.Type = "truncate")
Validate(d) == Supported(d) /\ (d.Type = "replace" => d.Expected # NotU32)

\* The validator's own check.  Every offset is one of the file; that of a repair
\* of more than a field is eight-byte aligned, as cells and the length fields are.
FieldLevel(d) == d.Type \in {"default", "replace"}
ValidateRepairSafe(d) == FieldLevel(d) \/ d.Offset[1] \in {"datacell", "datalength"}
Admitted(d) == ValidateRepairSafe(d) /\ Validate(d)

\* (mutant) replace and default are mixed up.
WrittenSwapped(d) == IF d.Type = "replace" THEN InvalidOffset ELSE d.Expected
Written(d) ==
  IF d.Structure = "NK" /\ d.Type = "default" THEN InvalidOffset
  ELSE IF d.Structure = "VK" /\ d.Type = "default" /\ d.Expected = NotU32 THEN InvalidOffset
  ELSE d.Expected
ApplyFails(d) == Written(d) = NotU32

ValidateStructureIntegrity(d) == d.Offset[1] \in {"hbinstart", "nkcell", "vkcell"}
Verify(d) == d.Type \in {"default", "replace"} \/ ValidateStructureIntegrity(d)

\* simulateRepairs: what a dry run says of each diagnostic.  It validates and does not apply.
SimulateRepairs(ds) ==
  LET f == filterDiagnostics(setup, ds)
  IN [i \in DOMAIN f |-> IF Admitted(f[i]) THEN "applied" ELSE "failed"]

LogEntry(d) == [Offset |-> d.Offset, OldData |-> data[d.Offset], NewData |-> Written(d), Applied |-> Verify(d)]

\* What a file name stands for.
None == <<"none">>
Torn == <<"torn">>
Halved == <<"halved">>   \* cut short and not yet written again
File(D) == <<"file", D>>
Within(f, old) == IF f \in {None, Torn, Halved} THEN old ELSE f[2]

\* The engine filters and starts a new log.
ExecuteRepairs(ds) == todo' = filterDiagnostics(setup, ds) /\ log' = <<>> /\ status' = <<>>

ApplyRepairs(ds) ==
  /\ pc = "idle" /\ calls < MaxCalls /\ vis["hive"] # Halved
  /\ data' = vis["hive"][2] /\ orig' = vis["hive"][2]
  /\ input' = ds /\ ExecuteRepairs(ds)
  /\ pc' = "repair" /\ calls' = calls + 1
  /\ UNCHANGED <<setup, files>>

\* processRepair: nothing has been written when it fails.
RepairRefused ==
  /\ pc = "repair" /\ todo # <<>>
  /\ ~Admitted(Head(todo)) \/ ApplyFails(Head(todo))
  /\ status' = Append(status, "failed") /\ pc' = "rollback"
  /\ UNCHANGED <<setup, files, data, input, todo, log, orig, calls>>

\* processRepair: the field is written and logged, and then the verdict.
RepairApplied ==
  LET d == Head(todo)
  IN /\ pc = "repair" /\ todo # <<>>
     /\ Admitted(d) /\ ~ApplyFails(d)
     /\ data' = [data EXCEPT ![d.Offset] = Written(d)]
     /\ log' = Append(log, LogEntry(d))
     /\ status' = Append(status, IF Verify(d) THEN "applied" ELSE "failed")
     /\ pc' = IF Verify(d) THEN "repair" ELSE "rollback"
     /\ todo' = Tail(todo)
     /\ UNCHANGED <<setup, files, input, orig, calls>>

\* (mutant) the log is cleared after the newest entry is restored.
RollbackNewest ==
  LET e == Last(log)
  IN /\ pc = "rollback" /\ log # <<>>
     /\ data' = IF e.Applied THEN [data EXCEPT ![e.Offset] = e.OldData] ELSE data
     /\ log' = <<>>
     /\ UNCHANGED <<setup, files, input, todo, status, pc, orig, calls>>
\* TransactionLog.Rollback: the newest entry first; those not marked as
\* applied are skipped.
Rollback ==
  LET e == Last(log)
  IN /\ pc = "rollback" /\ log # <<>>
     /\ data' = IF e.Applied THEN [data EXCEPT ![e.Offset] = e.OldData] ELSE data
     /\ log' = Front(log)
     /\ UNCHANGED <<setup, files, input, todo, status, pc, orig, calls>>

\* ExecuteRepairs returns an error and ApplyRepairs with it.
RolledBack ==
  /\ pc = "rollback" /\ log = <<>>
  /\ pc' = "refused"
  /\ UNCHANGED <<setup, files, engine, orig, calls>>

\* ExecuteRepairs returns: the file is written only if something changed.
Executed ==
  /\ pc = "repair" /\ todo = <<>>
  /\ pc' = IF status = <<>> THEN "done" ELSE "backup"
  /\ UNCHANGED <<setup, files, engine, orig, calls>>

(***************************************************************************)
(* Writer.WriteAtomic, for the backup and then for the hive: a temporary   *)
(* file, fsync, rename, fsync of the directory.                            *)
(***************************************************************************)
\* The name of a backup ends in a time stamp.
Backup == "hive.backup.stamp"
Target == IF pc = "backup" THEN Backup ELSE "hive"
Content == IF pc = "backup" THEN vis["hive"] ELSE File(data)
Writing == pc \in {"backup", "write"}

WriteTemp ==
  /\ Writing /\ tmp.state = "none"
  /\ tmp' = [state |-> "written", data |-> Content]
  /\ UNCHANGED <<setup, vis, dur, engine, pc, orig, calls>>

SyncTemp ==
  /\ Writing /\ tmp.state = "written"
  /\ tmp' = [tmp EXCEPT !.state = "synced"]
  /\ UNCHANGED <<setup, vis, dur, engine, pc, orig, calls>>

\* (mutant) the rename does not wait for the fsync.
RenameEarly ==
  /\ Writing /\ tmp.state \in {"written", "synced"}
  /\ vis' = [vis EXCEPT ![Target] = tmp.data]
  /\ tmp' = [tmp EXCEPT !.state = IF @ = "synced" THEN "renamed" ELSE "unsynced"]
  /\ UNCHANGED <<setup, dur, engine, pc, orig, calls>>
Rename ==
  /\ Writing /\ tmp.state = "synced"
  /\ vis' = [vis EXCEPT ![Target] = tmp.data]
  /\ tmp' = [tmp EXCEPT !.state = "renamed"]
  /\ UNCHANGED <<setup, dur, engine, pc, orig, calls>>

SyncDir ==
  /\ Writing /\ tmp.state \in {"renamed", "unsynced"}
  /\ dur' = vis
  /\ tmp' = [state |-> "none", data |-> None]
  /\ pc' = IF pc = "backup" THEN "write" ELSE "done"
  /\ UNCHANGED <<setup, vis, engine, orig, calls>>

\* An error of syncDir is ignored.
SyncDirFails ==
  /\ "syncdir" \in setup.faults /\ Writing /\ tmp.state = "renamed"
  /\ tmp' = [state |-> "none", data |-> None]
  /\ pc' = IF pc = "backup" THEN "write" ELSE "done"
  /\ UNCHANGED <<setup, vis, dur, engine, orig, calls>>

\* Creating, writing, syncing or renaming the temporary file fails: it is
\* removed and ApplyRepairs returns the error.
WriteFails ==
  /\ "write" \in setup.faults /\ Writing /\ tmp.state \in {"none", "written", "synced"}
  /\ tmp' = [state |-> "none", data |-> None]
  /\ pc' = "failed"
  /\ UNCHANGED <<setup, vis, dur, engine, orig, calls>>

\* The machine stops (earlier, only memory would be lost).  A rename whose
\* directory was not synced may or may not have reached the disk; a renamed
\* file that was not synced is torn.
Crash ==
  /\ "crash" \in setup.faults /\ (Writing \/ pc = "restore")
  /\ \E S \in SUBSET DOMAIN vis :
       LET survives(n) == IF n \notin S \/ vis[n] = dur[n] THEN dur[n]
                          ELSE IF tmp.state = "unsynced" /\ n = Target THEN Torn ELSE vis[n]
       IN dur' = [n \in DOMAIN dur |-> survives(n)]
  /\ vis' = dur'
  /\ tmp' = [state |-> "none", data |-> None]
  /\ todo' = <<>> /\ log' = <<>> /\ status' = <<>> /\ input' = <<>>
  /\ pc' = "idle"
  /\ UNCHANGED <<setup, data, orig, calls>>

\* RestoreFromBackup, given the suffix that the name of the backup ends in (under the
\* default suffix it finds none): the hive is truncated, copied and synced.
RestoreFromBackup ==
  /\ pc = "idle" /\ calls < MaxCalls /\ vis[Backup] # None
  /\ vis' = [vis EXCEPT !["hive"] = Halved]
  /\ orig' = Within(vis[Backup], orig)
  /\ data' = Within(vis["hive"], data)
  /\ pc' = "restore" /\ calls' = calls + 1
  /\ UNCHANGED <<setup, dur, tmp, input, todo, log, status>>

Restored ==
  /\ pc = "restore"
  /\ vis' = [vis EXCEPT !["hive"] = vis[Backup]]
  /\ dur' = [dur EXCEPT !["hive"] = vis[Backup]]
  /\ pc' = "idle"
  /\ UNCHANGED <<setup, tmp, engine, orig, calls>>

RestoreFails ==
  /\ "write" \in setup.faults /\ pc = "restore"
  /\ pc' = "failed"
  /\ UNCHANGED <<setup, files, engine, orig, calls>>

Return ==
  /\ pc \in {"done", "failed", "refused"}
  /\ pc' = "idle" /\ todo' = <<>> /\ log' = <<>> /\ status' = <<>> /\ input' = <<>>
  /\ UNCHANGED <<setup, files, data, orig, calls>>

\* A hive with any of the defects the scan offers to repair.
Damaged ==
  {[l \in Loc |-> CASE l[1] = "primary" -> 2
                    [] l[1] = "secondary" -> s
                    [] l[1] = "hbin" -> b
                    [] l[1] \in {"subkeycount", "valuecount"} -> c[l[2]]
                    [] l[1] \in {"subkeylist", "valuelist"} -> r[l[2]]
                    [] OTHER -> 7] :
     s \in {1, 2}, b \in {0, 1}, c \in [Key -> {0, 1}], r \in [Key -> {InvalidOffset, 5}]}

Init ==
  /\ setup \in Setups
  /\ \E D \in Damaged :
       /\ vis = [n \in {"hive", Backup} |-> IF n = "hive" THEN File(D) ELSE None]
       /\ dur = vis
       /\ tmp = [state |-> "none", data |-> None]
       /\ data = D /\ input = <<>> /\ todo = <<>> /\ log = <<>> /\ status = <<>>
       /\ pc = "idle" /\ orig = D /\ calls = 0

Inputs ==
  LET S == Diagnose(vis["hive"][2]) \cup Recorded \cup Own
  IN UNION {{f \in [1..n -> S] : \A i, j \in 1..n : f[i] = f[j] => i = j} : n \in 1..MaxDiags}

Next ==
  \/ vis["hive"] # Halved /\ \E ds \in Inputs : ApplyRepairs(ds)
  \/ RepairRefused \/ RepairApplied \/ Rollback \/ RolledBack \/ Executed
  \/ WriteTemp \/ SyncTemp \/ Rename \/ SyncDir \/ SyncDirFails \/ WriteFails \/ Crash
  \/ RestoreFromBackup \/ Restored \/ RestoreFails
  \/ Return

Spec == Init /\ [][Next]_vars
-----------------------------------------------------------------------------
\* "Either all repairs succeed or the hive is restored to its original
\* state": when ExecuteRepairs has failed and rolled back, its buffer is what
\* it was given.
AllOrNothing == pc = "refused" => data = orig

\* Whatever stops ApplyRepairs, the hive file is at every moment, and after
\* every crash, the whole file it read or the whole repaired one.  (A failing
\* fsync of the directory is ignored by the code; then an older file, and a
\* hive without its backup, may be what a crash leaves.)  RestoreFromBackup
\* may leave half a hive, and then the backup it copied is whole.
Synced == "syncdir" \notin setup.faults
HiveWhole ==
  Synced => /\ {vis["hive"], dur["hive"]} \subseteq {File(orig), File(data), Halved}
            /\ Halved \in {vis["hive"], dur["hive"]} => vis[Backup] = File(orig) /\ dur[Backup] = File(orig)

\* Once the repaired hive can be what a crash leaves, so is a complete backup
\* of the file it replaced.
BackupFirst == Synced /\ dur["hive"] # File(orig) => dur[Backup] = File(orig)

\* Whatever stops a repair, the hive file is safe.
FileSafe == HiveWhole /\ BackupFirst

\* After a successful call, the scan no longer reports what was repaired
\* automatically, and no later repair of the same call has brought it back.
StaysCured ==
  pc = "done" =>
    \A k \in 1..Len(status) :
      LET d == filterDiagnostics(setup, input)[k]
      IN status[k] = "applied" /\ d.AutoApply => d \notin Diagnose(vis["hive"][2])

\* What a dry run says is what the repair then does, except for a truncation: a repair
\* that succeeds was announced as one, diagnostic by diagnostic, and one that is refused
\* and cuts no value short was announced to fail (simulateRepairs, processRepair).
DryRunHonest ==
  LET said == SimulateRepairs(input)
  IN /\ pc = "done" /\ input # <<>> => \A i \in DOMAIN status : said[i] = status[i]
     /\ pc = "refused" => \/ \E i \in DOMAIN said : said[i] = "failed"
                          \/ \E i \in DOMAIN input : input[i].Type = "truncate"

\* After a successful repair the scan no longer reports what was repaired
\* automatically, and a dry run had announced what it did.
Cured == StaysCured /\ DryRunHonest
=============================================================================

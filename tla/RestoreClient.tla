---------------------------- MODULE RestoreClient ----------------------------
(***************************************************************************)
(* The command `sync-agent restore` (cmd/sync-agent/lifecycle.go) with the *)
(* restore job it works through on the server and the directory it writes  *)
(* to.                                                                     *)
(*                                                                         *)
(* The command asks for a job, lists the items page by page, puts each     *)
(* pending item in place under its name, records it in the local database, *)
(* reports it and finishes the job.  It can stop anywhere: a crash, an     *)
(* interrupt, a call that fails before or after the server acted.  The     *)
(* user resumes the job with a new command.  Any call to the file system   *)
(* can fail.  Programs of the user may change the target at any time.      *)
(*                                                                         *)
(* A call passes the client's stub (Call), the handler (Handle), the       *)
(* engine and the store (Store); its answer is [ok, job, page].  The       *)
(* target directory holds one name per item.  A file is its content;       *)
(* "linked" says that the name and the temporary file are two links of one *)
(* file.                                                                   *)
(*                                                                         *)
(* A definition named X_Mistake is X with one plausible mistake; no action *)
(* uses it (see README.md, "Mutants").                                     *)
(***************************************************************************)
EXTENDS Naturals, Sequences

CONSTANTS
    LastItem,      \* the manifest's items are 1 .. LastItem
    PageSize,      \* items in an answer of ListRestoreItems
    UserContents,  \* contents that the user's programs write
    Wanted,        \* the content that an item of the manifest names
    Partial,       \* any other content that a download leaves: cut short, damaged
    Directory,     \* a path that is not a regular file: a directory with files in it
    Missing,       \* no file
    MaxEdits,      \* bound on the user's changes to the target
    MaxFaults      \* bound on crashes, failed and unanswered calls

Items == 1 .. LastItem
Contents == UserContents \cup {Wanted, Partial}
UserStates == UserContents \cup {Directory, Missing}

ASSUME RestoreConstantsOK ==
    /\ LastItem \in Nat
    /\ PageSize \in Nat \ {0}
    /\ MaxEdits \in Nat
    /\ MaxFaults \in Nat
    /\ Wanted # Partial /\ Wanted \notin UserContents /\ Partial \notin UserContents
    /\ Missing # Directory /\ {Missing, Directory} \cap Contents = {}

VARIABLES
    job,      \* the row of restore_jobs with its items and the pin of its snapshot
    active,   \* is the device still active?
    known,    \* has the job's id been printed?
    cmd,      \* the running command
    file,     \* what each item's name holds in the target
    temp,     \* .remote-sync-<job>-<ordinal>.part
    linked,   \* is the name a second link of the temporary file?
    backup,   \* the .remote-sync-backup-<uuid> files of each item, the newest last
    entry,    \* the items recorded in the local database
    mine,     \* the user's content that the restore must not lose
    touched,  \* the names the user changed since an item was put in place
    edits, faults

server == <<job, active>>
target == <<file, temp, linked, backup>>
user == <<mine, touched, edits>>
vars == <<server, known, cmd, target, entry, user, faults>>

Reported == {"APPLIED", "SKIPPED", "FAILED"}
ItemStates == Reported \cup {"PENDING"}
NoJob == [state |-> "NONE", overwrite |-> FALSE, pinned |-> FALSE,
          item |-> [i \in Items |-> "PENDING"]]
Idle == [at |-> "idle", page |-> <<>>, after |-> 0, item |-> 0,
         found |-> FALSE, result |-> "PENDING", failure |-> FALSE]

Open(j) == j.state \in {"READY", "RUNNING"}
IsRegular(content) == content \in Contents

RestoreInit ==
    /\ job = NoJob
    /\ active = TRUE
    /\ known = FALSE
    /\ cmd = Idle
    /\ file \in [Items -> UserStates \cup {Wanted}]
    /\ temp = [i \in Items |-> Missing]
    /\ linked = [i \in Items |-> FALSE]
    /\ backup = [i \in Items |-> <<>>]
    /\ entry = [i \in Items |-> FALSE]
    /\ mine = file
    /\ touched = [i \in Items |-> FALSE]
    /\ edits = 0
    /\ faults = 0

----------------------------------------------------------------------------
(* The calls to the server, from the store to the client's stub.           *)

Answer(j, page) == [ok |-> TRUE, job |-> j, page |-> page]
Refusal == [ok |-> FALSE, job |-> job, page |-> <<>>]

\* Every handler first finds the active device that the credential names.
Resolved(answer) == IF active THEN answer ELSE Refusal

\* StartRestore: a job over the whole manifest, and a pinned snapshot.
StoreStart(overwrite) ==
    Answer([NoJob EXCEPT !.state = "READY", !.overwrite = overwrite, !.pinned = TRUE], <<>>)
HandleStart(overwrite) == Resolved(StoreStart(overwrite))

\* ListRestoreItems: claims the job, answers the next items.
Page(after) ==
    [k \in 1 .. (IF LastItem - after < PageSize THEN LastItem - after ELSE PageSize) |->
        [ordinal |-> after + k, state |-> job.item[after + k]]]
StoreList(after) ==
    IF Open(job) THEN Answer([job EXCEPT !.state = "RUNNING"], Page(after)) ELSE Refusal

\* An item's state in a message, and as the client reads it from one; a report
\* cannot say PENDING.
ReportOnWire(state) == IF state \in Reported THEN state ELSE "UNSPECIFIED"
WireStates == ItemStates \cup {"UNSPECIFIED"}
ItemOnWire ==
    [state \in WireStates |-> IF state \in ItemStates THEN state ELSE "UNSPECIFIED"]
ItemOffWire ==
    [state \in WireStates |-> IF state \in ItemStates THEN state ELSE "UNSPECIFIED"]

WithStates(answer, convert) ==
    [answer EXCEPT !.page = [k \in DOMAIN answer.page |->
        [answer.page[k] EXCEPT !.state = convert[answer.page[k].state]]]]
HandleList(after) == WithStates(Resolved(StoreList(after)), ItemOnWire)
CallList(after) == WithStates(HandleList(after), ItemOffWire)

\* ReportRestoreItem: a pending item changes, a repeated report is accepted.
StoreReport(i, state) ==
    IF Open(job) /\ job.item[i] \in {"PENDING", state}
    THEN Answer([job EXCEPT !.state = "RUNNING", !.item[i] = state], <<>>)
    ELSE Refusal
EngineReport(i, state) == IF state \in Reported THEN StoreReport(i, state) ELSE Refusal
HandleReport(i, state) == Resolved(EngineReport(i, state))
CallReport(i, state) == HandleReport(i, ReportOnWire(state))

\* FinishRestore: success needs every item applied or skipped; either way the
\* snapshot is released.
Settled_PendingOnly == \A i \in Items : job.item[i] # "PENDING"
Settled == \A i \in Items : job.item[i] \notin {"PENDING", "FAILED"}

StoreFinish_KeepsPin(success) ==
    IF Open(job) /\ (success => Settled)
    THEN Answer([job EXCEPT !.state = IF success THEN "COMPLETED" ELSE "FAILED"], <<>>)
    ELSE Refusal
StoreFinish(success) ==
    IF Open(job) /\ (success => Settled)
    THEN Answer([job EXCEPT !.state = IF success THEN "COMPLETED" ELSE "FAILED",
                            !.pinned = FALSE], <<>>)
    ELSE Refusal
HandleFinish(success) == Resolved(StoreFinish(success))

\* Download: the items of an open job are readable, and so is a version that a
\* pinned snapshot keeps.
MayRead == Open(job) \/ job.pinned
HandleDownload == active /\ MayRead

----------------------------------------------------------------------------
(* How a step of the command ends.                                         *)

Fault == faults < MaxFaults /\ faults' = faults + 1
NoFault == UNCHANGED faults
\* A call to the file system that fails in this case, and may fail in any.
FailsIf(case) == IF case THEN NoFault ELSE Fault

GoesTo(step) == cmd' = [cmd EXCEPT !.at = step]
Reports(state) ==
    cmd' = [cmd EXCEPT !.at = "report", !.result = state,
                       !.failure = cmd.failure \/ state = "FAILED"]
Stops == cmd' = Idle

\* A call is answered, refused, or fails before or after the server has acted;
\* but for the first case the command returns the error.
Answered(answer) == answer.ok /\ job' = answer.job /\ NoFault
NotAnswered(answer) ==
    /\ Stops
    /\ \/ ~answer.ok /\ NoFault /\ UNCHANGED job
       \/ answer.ok /\ Fault /\ job' \in {job, answer.job}

DropsTemp(i) ==
    /\ temp' = [temp EXCEPT ![i] = Missing]
    /\ linked' = [linked EXCEPT ![i] = FALSE]

\* The removal that follows a failure: whether it works is not looked at.
DiscardsTemp(i) == DropsTemp(i) \/ UNCHANGED <<temp, linked>>

\* An item is in place: what the user had there may go, and was not changed since.
PutInPlace(i) ==
    /\ mine' = [mine EXCEPT ![i] = IF job.overwrite THEN Missing ELSE mine[i]]
    /\ touched' = [touched EXCEPT ![i] = FALSE]

At(step) == cmd.at = step
this == cmd.item

----------------------------------------------------------------------------
(* runRestoreCommand: the job, the pages, the reports, the end.            *)

Start(overwrite) ==
    /\ At("idle") /\ job.state = "NONE"
    /\ LET answer == HandleStart(overwrite)
       IN \/ Answered(answer) /\ known' = TRUE /\ GoesTo("list")
          \/ NotAnswered(answer) /\ UNCHANGED known
    /\ UNCHANGED <<active, target, entry, user>>

Resume ==
    /\ At("idle") /\ known
    /\ GoesTo("list")
    /\ UNCHANGED <<server, known, target, entry, user, faults>>

List ==
    /\ At("list")
    /\ LET answer == CallList(cmd.after)
       IN \/ /\ Answered(answer)
             /\ cmd' = [cmd EXCEPT !.page = answer.page,
                                   !.at = IF answer.page = <<>> THEN "finish" ELSE "next"]
          \/ NotAnswered(answer)
    /\ UNCHANGED <<active, known, target, entry, user>>

NextItem_ForgetsSkipped ==
    /\ At("next") /\ cmd.page # <<>>
    /\ LET item == Head(cmd.page)
       IN cmd' = IF item.state = "PENDING"
                 THEN [cmd EXCEPT !.page = Tail(@), !.after = item.ordinal,
                                  !.item = item.ordinal, !.at = "lstat"]
                 ELSE [cmd EXCEPT !.page = Tail(@)]
    /\ UNCHANGED <<server, known, target, entry, user, faults>>
NextItem ==
    /\ At("next") /\ cmd.page # <<>>
    /\ LET item == Head(cmd.page)
       IN cmd' = IF item.state = "PENDING"
                 THEN [cmd EXCEPT !.page = Tail(@), !.after = item.ordinal,
                                  !.item = item.ordinal, !.at = "lstat"]
                 ELSE [cmd EXCEPT !.page = Tail(@), !.after = item.ordinal]
    /\ UNCHANGED <<server, known, target, entry, user, faults>>

NextPage ==
    /\ At("next") /\ cmd.page = <<>>
    /\ GoesTo("list")
    /\ UNCHANGED <<server, known, target, entry, user, faults>>

Report ==
    /\ At("report")
    /\ LET answer == CallReport(this, cmd.result)
       IN \/ Answered(answer) /\ GoesTo("next")
          \/ NotAnswered(answer)
    /\ UNCHANGED <<active, known, target, entry, user>>

Finish ==
    /\ At("finish")
    /\ LET answer == HandleFinish(~cmd.failure)
       IN \/ Answered(answer) /\ Stops
          \/ NotAnswered(answer)
    /\ UNCHANGED <<active, known, target, entry, user>>

----------------------------------------------------------------------------
(* applyRestoreItem: look, compare, download, publish, record.             *)

\* Not what the manifest names: replaced or skipped, as the job says.
Differs ==
    IF job.overwrite THEN cmd' = [cmd EXCEPT !.at = "create", !.found = TRUE]
                     ELSE Reports("SKIPPED")

Lstat ==
    /\ At("lstat")
    /\ \/ Fault /\ Reports("FAILED")
       \/ /\ file[this] = Missing /\ NoFault
          /\ cmd' = [cmd EXCEPT !.at = "create", !.found = FALSE]
       \/ IsRegular(file[this]) /\ GoesTo("compare") /\ NoFault
       \/ /\ file[this] = Directory /\ NoFault
          /\ Reports(IF job.overwrite THEN "FAILED" ELSE "SKIPPED")
    /\ UNCHANGED <<server, known, target, entry, user>>

\* hashing.Capture; a file that cannot be captured counts as different.
Same_AnyFile(content) == IsRegular(content)
Same(content) == content = Wanted

Compare ==
    /\ At("compare")
    /\ \/ Fault /\ Differs /\ UNCHANGED touched
       \/ ~Same(file[this]) /\ Differs /\ NoFault /\ UNCHANGED touched
       \/ /\ Same(file[this]) /\ GoesTo("seed") /\ NoFault
          /\ touched' = [touched EXCEPT ![this] = FALSE]
    /\ UNCHANGED <<server, known, target, entry, mine, edits>>

\* A leftover of an earlier attempt is removed, not written through.
Create_Truncates ==
    /\ At("create")
    /\ GoesTo("download") /\ NoFault
    /\ temp' = [temp EXCEPT ![this] = Partial]
    /\ file' = IF linked[this] THEN [file EXCEPT ![this] = Partial] ELSE file
    /\ UNCHANGED <<server, known, linked, backup, entry, user>>
Create ==
    /\ At("create")
    /\ \/ /\ GoesTo("download") /\ NoFault
          /\ temp' = [temp EXCEPT ![this] = Partial]
          /\ linked' = [linked EXCEPT ![this] = FALSE]
       \/ Reports("FAILED") /\ Fault /\ DiscardsTemp(this)
    /\ UNCHANGED <<server, known, file, backup, entry, user>>

Verified(content) == content = Wanted

Download ==
    /\ At("download")
    /\ \/ \E received \in {Wanted, Partial} :
             /\ HandleDownload
             /\ IF received = Partial THEN Fault ELSE NoFault
             /\ IF Verified(received)
                THEN /\ temp' = [temp EXCEPT ![this] = received]
                     /\ GoesTo(IF cmd.found THEN "replace" ELSE "link")
                     /\ UNCHANGED linked
                ELSE DiscardsTemp(this) /\ Reports("FAILED")
       \/ ~HandleDownload /\ DiscardsTemp(this) /\ Reports("FAILED") /\ NoFault
    /\ UNCHANGED <<server, known, file, backup, entry, user>>

\* publishRestoredFile, nothing found: a new link never replaces.
Link_Replaces ==
    /\ At("link")
    /\ GoesTo("unlink") /\ NoFault
    /\ file' = [file EXCEPT ![this] = temp[this]]
    /\ linked' = [linked EXCEPT ![this] = TRUE]
    /\ UNCHANGED temp
    /\ PutInPlace(this)
    /\ UNCHANGED <<server, known, backup, entry, edits>>
Link ==
    /\ At("link")
    /\ \/ /\ file[this] = Missing
          /\ GoesTo("unlink") /\ NoFault
          /\ file' = [file EXCEPT ![this] = temp[this]]
          /\ linked' = [linked EXCEPT ![this] = TRUE]
          /\ UNCHANGED temp
          /\ PutInPlace(this)
       \/ /\ FailsIf(file[this] # Missing)
          /\ DiscardsTemp(this) /\ Reports("FAILED")
          /\ UNCHANGED <<file, mine, touched>>
    /\ UNCHANGED <<server, known, backup, entry, edits>>

Unlink ==
    /\ At("unlink")
    /\ \/ DropsTemp(this) /\ GoesTo("stamp") /\ NoFault
       \/ UNCHANGED <<temp, linked>> /\ Reports("FAILED") /\ Fault
    /\ UNCHANGED <<server, known, file, backup, entry, user>>

\* publishRestoredFile, a regular file found: rename over it, or step aside.
Replace ==
    /\ At("replace")
    /\ \/ /\ file[this] # Directory
          /\ GoesTo("stamp") /\ NoFault
          /\ file' = [file EXCEPT ![this] = temp[this]]
          /\ DropsTemp(this)
          /\ PutInPlace(this)
       \/ /\ FailsIf(file[this] = Directory)
          /\ GoesTo("inspect")
          /\ UNCHANGED <<file, temp, linked, mine, touched>>
    /\ UNCHANGED <<server, known, backup, entry, edits>>

Inspect ==
    /\ At("inspect")
    /\ IF IsRegular(file[this])
       THEN GoesTo("preserve") /\ UNCHANGED <<temp, linked>>
       ELSE Reports("FAILED") /\ DiscardsTemp(this)
    /\ UNCHANGED <<server, known, file, backup, entry, user, faults>>

Preserve_Removes ==
    /\ At("preserve") /\ file[this] # Missing
    /\ GoesTo("swap") /\ NoFault
    /\ file' = [file EXCEPT ![this] = Missing]
    /\ UNCHANGED <<server, known, temp, linked, backup, entry, user>>
Preserve ==
    /\ At("preserve")
    /\ \/ /\ file[this] # Missing
          /\ GoesTo("swap") /\ NoFault
          /\ backup' = [backup EXCEPT ![this] = Append(@, file[this])]
          /\ file' = [file EXCEPT ![this] = Missing]
          /\ UNCHANGED <<temp, linked>>
       \/ /\ FailsIf(file[this] = Missing)
          /\ DiscardsTemp(this) /\ Reports("FAILED")
          /\ UNCHANGED <<file, backup>>
    /\ UNCHANGED <<server, known, entry, user>>

Newest(i) == backup[i][Len(backup[i])]
DropsBackup(i) == backup' = [backup EXCEPT ![i] = SubSeq(@, 1, Len(@) - 1)]

Swap ==
    /\ At("swap")
    /\ \/ /\ file[this] # Directory
          /\ GoesTo("clean") /\ NoFault
          /\ file' = [file EXCEPT ![this] = temp[this]]
          /\ DropsTemp(this)
          /\ PutInPlace(this)
       \/ /\ FailsIf(file[this] = Directory)
          /\ GoesTo("rollback")
          /\ UNCHANGED <<file, temp, linked, mine, touched>>
    /\ UNCHANGED <<server, known, backup, entry, edits>>

\* The renaming back replaces a file; a directory is in its way, and so is a
\* file when it is a directory that was set aside.
Rollback ==
    /\ At("rollback")
    /\ DiscardsTemp(this) /\ Reports("FAILED")
    /\ \/ /\ file[this] # Directory
          /\ Newest(this) = Directory => file[this] = Missing
          /\ NoFault
          /\ file' = [file EXCEPT ![this] = Newest(this)]
          /\ DropsBackup(this)
       \/ /\ FailsIf(\/ file[this] = Directory
                     \/ Newest(this) = Directory /\ file[this] # Missing)
          /\ UNCHANGED <<file, backup>>
    /\ UNCHANGED <<server, known, entry, user>>

Clean ==
    /\ At("clean")
    /\ \/ Newest(this) # Directory /\ DropsBackup(this) /\ GoesTo("stamp") /\ NoFault
       \/ FailsIf(Newest(this) = Directory) /\ Reports("FAILED") /\ UNCHANGED backup
    /\ UNCHANGED <<server, known, file, temp, linked, entry, user>>

\* Chmod and Chtimes by name.
Stamp ==
    /\ At("stamp")
    /\ \/ file[this] # Missing /\ GoesTo("seed") /\ NoFault
       \/ FailsIf(file[this] = Missing) /\ Reports("FAILED")
    /\ UNCHANGED <<server, known, target, entry, user>>

\* seedRestoredEntry
Seed ==
    /\ At("seed")
    /\ \/ entry' = [entry EXCEPT ![this] = TRUE] /\ Reports("APPLIED") /\ NoFault
       \/ UNCHANGED entry /\ Reports("FAILED") /\ Fault
    /\ UNCHANGED <<server, known, target, user>>

----------------------------------------------------------------------------
(* Everything else: an interrupt, the user, an administrator.              *)

Crash ==
    /\ ~At("idle")
    /\ Fault /\ Stops
    /\ UNCHANGED <<server, known, target, entry, user>>

Revoke ==
    /\ active /\ Fault
    /\ active' = FALSE
    /\ UNCHANGED <<job, known, cmd, target, entry, user>>

\* The user is told not to edit the target while a restore may overwrite it.
Edited(i, content) ==
    /\ edits < MaxEdits
    /\ edits' = edits + 1
    /\ content # file[i]
    /\ file' = [file EXCEPT ![i] = content]
    /\ touched' = [touched EXCEPT ![i] = TRUE]
    /\ mine' = [mine EXCEPT ![i] =
                   IF job.overwrite /\ ~At("idle") THEN Missing ELSE content]
    /\ UNCHANGED <<server, known, cmd, backup, entry, faults>>

EditInPlace(i) == \E content \in UserContents :
    /\ IsRegular(file[i])
    /\ temp' = IF linked[i] THEN [temp EXCEPT ![i] = content] ELSE temp
    /\ UNCHANGED linked
    /\ Edited(i, content)

EditByName(i) == \E content \in UserStates :
    /\ linked' = [linked EXCEPT ![i] = FALSE]
    /\ UNCHANGED temp
    /\ Edited(i, content)

----------------------------------------------------------------------------
ItemStep ==
    \/ Lstat \/ Compare \/ Create \/ Download \/ Link \/ Unlink \/ Replace \/ Inspect
    \/ Preserve \/ Swap \/ Rollback \/ Clean \/ Stamp \/ Seed
CommandStep == List \/ NextItem \/ NextPage \/ ItemStep \/ Report \/ Finish

RestoreNext ==
    \/ \E overwrite \in BOOLEAN : Start(overwrite)
    \/ Resume \/ CommandStep \/ Crash \/ Revoke
    \/ \E i \in Items : EditInPlace(i) \/ EditByName(i)

RestoreSpec == RestoreInit /\ [][RestoreNext]_vars

\* The command runs on, and the user resumes a job that was cut off.
RestoreFairSpec == RestoreSpec /\ WF_vars(CommandStep) /\ WF_vars(Resume)

----------------------------------------------------------------------------
CommandStates ==
    [at : {"idle", "list", "next", "lstat", "compare", "create", "download", "link",
           "unlink", "replace", "inspect", "preserve", "swap", "rollback", "clean",
           "stamp", "seed", "report", "finish"},
     page : Seq([ordinal : Items, state : ItemStates]), after : 0 .. LastItem,
     item : 0 .. LastItem, found : BOOLEAN, result : ItemStates, failure : BOOLEAN]

(* Every variable has its type, and the snapshot that keeps the versions   *)
(* of the manifest is pinned exactly while the job is open.                *)
RestoreTypeOK ==
    /\ job \in [state : {"NONE", "READY", "RUNNING", "COMPLETED", "FAILED"},
                overwrite : BOOLEAN, pinned : BOOLEAN, item : [Items -> ItemStates]]
    /\ job.pinned <=> Open(job)
    /\ {active, known} \subseteq BOOLEAN
    /\ cmd \in CommandStates
    /\ file \in [Items -> Contents \cup {Directory, Missing}]
    /\ temp \in [Items -> Contents \cup {Missing}]
    /\ linked \in [Items -> BOOLEAN]
    /\ backup \in [Items -> Seq(Contents \cup {Directory})]
    /\ entry \in [Items -> BOOLEAN]
    /\ mine \in [Items -> UserStates \cup {Wanted}]
    /\ touched \in [Items -> BOOLEAN]
    /\ edits \in 0 .. MaxEdits
    /\ faults \in 0 .. MaxFaults

(* What is found under a name is never a part of a file: not after a       *)
(* crash, not when an attempt that was cut off is repeated over what it    *)
(* left (publishRestoredFile, lifecycle.go:445-487).                       *)
WholeFiles == \A i \in Items : file[i] # Partial

(* Without --overwrite the restore leaves under each name whatever the     *)
(* user has or puts there, also while it runs and across resumed attempts  *)
(* (applyRestoreItem, lifecycle.go:376-378, 446-454).                      *)
UserFilesKept ==
    ~job.overwrite => \A i \in Items : mine[i] # Missing => file[i] = mine[i]

(* With --overwrite a user's file goes only when the wanted one has taken  *)
(* its name; until then, and after any failure or crash on the way, it is  *)
(* under its name or in a backup next to it (lifecycle.go:456-486).        *)
NothingDestroyed ==
    \A i \in Items : mine[i] # Missing =>
        file[i] = mine[i] \/ \E k \in DOMAIN backup[i] : backup[i][k] = mine[i]

(* An item reported APPLIED has been recorded in the local database, and a *)
(* name recorded there holds the wanted file, unless the user changed it   *)
(* since or it was set aside: the agent takes the record for what is on    *)
(* the disk and on the server (seedRestoredEntry, lifecycle.go:489-506).   *)
SeededIsWhole ==
    \A i \in Items :
        /\ job.item[i] = "APPLIED" => entry[i]
        /\ entry[i] /\ ~touched[i] =>
              file[i] = Wanted \/ \E k \in DOMAIN backup[i] : backup[i][k] = Wanted

(* A job is COMPLETED only when every item is applied or skipped, also     *)
(* when a resumed command has forgotten the failures of the one before it  *)
(* (FinishRestore, metadata/lifecycle.go:810-824).                         *)
CompletedIsComplete ==
    job.state = "COMPLETED" => \A i \in Items : job.item[i] \in {"APPLIED", "SKIPPED"}

(* A job whose id the user knows and resumes comes to its end however      *)
(* often it was cut off, unless an item was reported FAILED or the device  *)
(* was revoked (runRestoreCommand, lifecycle.go:262-347).                  *)
Continues ==
    known /\ Open(job) ~> (~Open(job) \/ ~active \/ \E i \in Items : job.item[i] = "FAILED")
=============================================================================

--------------------------- MODULE RestoreProofs ---------------------------
(***************************************************************************)
(* The restore of a job of any length, with any number of crashes, failed  *)
(* calls and changes by the user: nothing of the user's is lost, nothing   *)
(* half is left under a name, nothing is recorded that is not there.       *)
(***************************************************************************)
EXTENDS RestoreClient, TLAPS

----------------------------------------------------------------------------
(* The inductive invariant                                                 *)

Set(i, content) == \E k \in DOMAIN backup[i] : backup[i][k] = content

\* What holds of every item, wherever the command is.
ItemOK(i) ==
    /\ file[i] # Partial /\ ~Set(i, Partial)
    /\ ~job.overwrite /\ mine[i] # Missing => file[i] = mine[i]
    /\ mine[i] # Missing => file[i] = mine[i] \/ Set(i, mine[i])
    /\ job.item[i] = "APPLIED" => entry[i]
    /\ entry[i] /\ ~touched[i] => file[i] = Wanted \/ Set(i, Wanted)

\* What the command relies on at each step of the item i: the temporary file
\* that it publishes is whole and is its own; what it moves out of the way was
\* to be overwritten and is kept until the wanted file is in place.
Progress(i) ==
    /\ At("download") => ~linked[i]
    /\ cmd.at \in {"link", "replace", "inspect", "preserve", "swap"} =>
          temp[i] = Wanted /\ ~linked[i]
    /\ cmd.at \in {"create", "download"} /\ cmd.found => job.overwrite
    /\ cmd.at \in {"replace", "inspect", "preserve", "swap", "rollback", "clean"} => job.overwrite
    /\ cmd.at \in {"swap", "rollback", "clean"} => backup[i] # <<>>
    /\ cmd.at \in {"swap", "rollback"} =>
          /\ mine[i] # Missing => Set(i, mine[i])
          /\ entry[i] /\ ~touched[i] => Set(i, Wanted)
    /\ At("clean") => mine[i] = Missing
    /\ cmd.at \in {"clean", "unlink", "stamp", "seed"} => touched[i] \/ file[i] = Wanted
    /\ At("report") /\ cmd.result = "APPLIED" => entry[i]

Between == {"idle", "list", "next", "finish"}
ItemSteps == {"lstat", "compare", "create", "download", "link", "unlink", "replace", "inspect",
              "preserve", "swap", "rollback", "clean", "stamp", "seed", "report"}

JobTypes ==
    /\ job \in [state : {"NONE", "READY", "RUNNING", "COMPLETED", "FAILED"},
                overwrite : BOOLEAN, pinned : BOOLEAN, item : [Items -> ItemStates]]
    /\ job.pinned <=> Open(job)
    /\ active \in BOOLEAN /\ known \in BOOLEAN
TargetTypes ==
    /\ file \in [Items -> Contents \cup {Directory, Missing}]
    /\ temp \in [Items -> Contents \cup {Missing}]
    /\ linked \in [Items -> BOOLEAN]
    /\ backup \in [Items -> Seq(Contents \cup {Directory})]
    /\ entry \in [Items -> BOOLEAN]
    /\ mine \in [Items -> UserStates \cup {Wanted}]
    /\ touched \in [Items -> BOOLEAN]
CountTypes == edits \in 0 .. MaxEdits /\ faults \in 0 .. MaxFaults

JobOK ==
    /\ JobTypes
    /\ job.state = "NONE" => job = NoJob
    /\ CompletedIsComplete

RestoreInv ==
    /\ JobOK /\ TargetTypes /\ CountTypes
    /\ cmd \in CommandStates
    /\ \A i \in Items : ItemOK(i)
    /\ cmd.at \notin Between => this \in Items /\ Progress(this)

LEMMA RestoreStarts == RestoreInit => RestoreInv
<1> SUFFICES ASSUME RestoreInit PROVE RestoreInv
  OBVIOUS
<1>1. JobOK
  <2>1. job = NoJob /\ active = TRUE /\ known = FALSE
    BY DEF RestoreInit
  <2>2. JobTypes
    BY <2>1 DEF JobTypes, NoJob, Open, ItemStates, Reported
  <2>3. QED
    BY <2>1, <2>2 DEF JobOK, CompletedIsComplete, NoJob
<1>2. TargetTypes
  BY DEF RestoreInit, TargetTypes, Contents, UserStates
<1>3. CountTypes
  BY RestoreConstantsOK DEF RestoreInit, CountTypes
<1>4. cmd \in CommandStates /\ cmd.at = "idle"
  <2>1. cmd = Idle /\ LastItem \in Nat
    BY RestoreConstantsOK DEF RestoreInit
  <2>2. QED
    BY <2>1 DEF CommandStates, Idle, ItemStates
<1>5. ASSUME NEW i \in Items PROVE ItemOK(i)
  <2>1. /\ file[i] \in UserStates \cup {Wanted} /\ mine[i] = file[i] /\ backup[i] = <<>>
        /\ job.item[i] = "PENDING" /\ ~entry[i]
    BY DEF RestoreInit, NoJob
  <2>2. file[i] # Partial
    BY <2>1, RestoreConstantsOK DEF UserStates, Contents
  <2>3. QED
    BY <2>1, <2>2 DEF ItemOK, Set
<1>6. QED
  BY <1>1, <1>2, <1>3, <1>4, <1>5 DEF RestoreInv, Between

----------------------------------------------------------------------------
(* How the command goes on                                                 *)

LEMMA CommandGoes ==
  ASSUME cmd \in CommandStates, NEW step \in Between \cup ItemSteps, GoesTo(step)
  PROVE  /\ cmd' \in CommandStates /\ cmd'.at = step
         /\ cmd'.item = cmd.item /\ cmd'.found = cmd.found /\ cmd'.result = cmd.result
BY DEF CommandStates, GoesTo, Between, ItemSteps

LEMMA CommandReports ==
  ASSUME cmd \in CommandStates, NEW state \in Reported, Reports(state)
  PROVE  cmd' \in CommandStates /\ cmd'.at = "report" /\ cmd'.item = cmd.item /\ cmd'.result = state
BY DEF CommandStates, Reports, Reported, ItemStates

LEMMA CommandStops ==
  ASSUME Stops
  PROVE  cmd' \in CommandStates /\ cmd'.at = "idle"
<1>1. cmd' = Idle /\ LastItem \in Nat
  BY RestoreConstantsOK DEF Stops
<1>2. QED
  BY <1>1 DEF CommandStates, Idle, ItemStates

\* A step on one item: the others stay as they are, and so does the job.
StepOn(i) ==
    /\ cmd' \in CommandStates /\ cmd'.item = i /\ cmd'.at \in ItemSteps
    /\ UNCHANGED <<server, known, edits>> /\ TargetTypes' /\ (NoFault \/ Fault)
    /\ \A q \in Items : q # i =>
          /\ file'[q] = file[q] /\ backup'[q] = backup[q] /\ mine'[q] = mine[q]
          /\ entry'[q] = entry[q] /\ touched'[q] = touched[q]
    /\ ItemOK(i)' /\ Progress(i)'

LEMMA FaultsCounted == CountTypes /\ edits' = edits /\ (NoFault \/ Fault) => CountTypes'
BY RestoreConstantsOK DEF CountTypes, NoFault, Fault

LEMMA ItemAlone == ASSUME RestoreInv, NEW i \in Items, StepOn(i) PROVE RestoreInv'
<1>1. JobOK' /\ job' = job
  BY DEF RestoreInv, StepOn, server, JobOK, JobTypes, CompletedIsComplete, Open
<1>2. ASSUME NEW q \in Items, q # i PROVE ItemOK(q)'
  BY <1>1, <1>2 DEF RestoreInv, StepOn, ItemOK, Set
<1>3. CountTypes'
  BY FaultsCounted DEF RestoreInv, StepOn
<1>4. \A q \in Items : ItemOK(q)'
  BY <1>2 DEF StepOn
<1>5. (cmd.at \notin Between => this \in Items /\ Progress(this))'
  BY DEF StepOn, Progress, this, Set, At
<1>6. QED
  BY <1>1, <1>3, <1>4, <1>5 DEF RestoreInv, StepOn

LEMMA Here ==
  ASSUME RestoreInv, NEW i \in Items, this = i, cmd.at \notin Between
  PROVE  /\ JobTypes /\ TargetTypes /\ cmd \in CommandStates /\ ItemOK(i) /\ Progress(i)
         /\ cmd.item = i
BY DEF RestoreInv, JobOK, this

\* The temporary file may go at any time: nothing but the step in hand needs it.
LEMMA TempGoes ==
  ASSUME TargetTypes, NEW i \in Items, DiscardsTemp(i)
  PROVE  /\ temp' \in [Items -> Contents \cup {Missing}]
         /\ linked' \in [Items -> BOOLEAN]
BY DEF TargetTypes, DiscardsTemp, DropsTemp

\* An item is skipped or fails, with nothing changed but the temporary file.
LEMMA GivesUp ==
  ASSUME RestoreInv, NEW i \in Items, this = i, cmd.at \notin Between,
         NEW state \in {"SKIPPED", "FAILED"}, Reports(state), DiscardsTemp(i),
         UNCHANGED <<server, known, file, backup, entry, user>>, NoFault \/ Fault
  PROVE  RestoreInv'
<1>h. /\ TargetTypes /\ cmd \in CommandStates /\ ItemOK(i) /\ cmd.item = i
  BY Here
<1>1. cmd' \in CommandStates /\ cmd'.at = "report" /\ cmd'.item = i /\ cmd'.result = state
  BY <1>h, CommandReports DEF Reported
<1>2. TargetTypes'
  BY <1>h, TempGoes DEF TargetTypes, user
<1>3. ItemOK(i)'
  BY <1>h DEF ItemOK, Set, server, user
<1>4. Progress(i)'
  BY <1>1 DEF Progress, At
<1>5. StepOn(i)
  BY <1>1, <1>2, <1>3, <1>4 DEF StepOn, user, ItemSteps
<1>6. QED
  BY <1>5, ItemAlone

\* The command looks at something and goes on, with nothing changed.
LEMMA GoesOn ==
  ASSUME RestoreInv, NEW i \in Items, this = i, cmd.at \notin Between,
         UNCHANGED <<server, known, target, entry, user>>, NoFault \/ Fault,
         cmd' \in CommandStates, cmd'.item = i, cmd'.at \in ItemSteps, Progress(i)'
  PROVE  RestoreInv'
<1>h. TargetTypes /\ ItemOK(i)
  BY Here
<1>1. TargetTypes'
  BY <1>h DEF TargetTypes, target, user
<1>2. ItemOK(i)'
  BY <1>h DEF ItemOK, Set, server, user, target
<1>3. StepOn(i)
  BY <1>1, <1>2 DEF StepOn, user, target
<1>4. QED
  BY <1>3, ItemAlone

----------------------------------------------------------------------------
(* The steps of applyRestoreItem                                           *)

LEMMA LstatStep == ASSUME RestoreInv, NEW i \in Items, this = i, Lstat PROVE RestoreInv'
<1>a. cmd.at = "lstat" /\ cmd.at \notin Between
  BY DEF Lstat, At, Between
<1>h. TargetTypes /\ cmd \in CommandStates /\ cmd.item = i
  BY <1>a, Here
<1>u. UNCHANGED <<server, known, target, entry, user>>
  BY DEF Lstat
<1>d. DiscardsTemp(i)
  BY <1>u DEF DiscardsTemp, target
<1>1. CASE \E state \in {"SKIPPED", "FAILED"} : Reports(state) /\ (NoFault \/ Fault)
  BY <1>a, <1>u, <1>d, <1>1, GivesUp DEF target
<1>2. CASE cmd' = [cmd EXCEPT !.at = "create", !.found = FALSE] /\ NoFault
  <2>1. cmd' \in CommandStates /\ cmd'.at = "create" /\ cmd'.item = i /\ cmd'.found = FALSE
    BY <1>h, <1>2 DEF CommandStates
  <2>2. Progress(i)'
    BY <2>1 DEF Progress, At
  <2>3. QED
    BY <1>a, <1>u, <1>2, <2>1, <2>2, GoesOn DEF ItemSteps
<1>3. CASE GoesTo("compare") /\ NoFault
  <2>1. cmd' \in CommandStates /\ cmd'.at = "compare" /\ cmd'.item = i
    BY <1>h, <1>3, CommandGoes DEF ItemSteps
  <2>2. Progress(i)'
    BY <2>1 DEF Progress, At
  <2>3. QED
    BY <1>a, <1>u, <1>3, <2>1, <2>2, GoesOn DEF ItemSteps
<1>4. QED
  BY <1>1, <1>2, <1>3 DEF Lstat

\* A file that differs goes on to be replaced only when the job says so.
LEMMA DiffersStep ==
  ASSUME RestoreInv, NEW i \in Items, this = i, cmd.at \notin Between, Differs,
         UNCHANGED <<server, known, target, entry, user>>, NoFault \/ Fault
  PROVE  RestoreInv'
<1>h. JobTypes /\ TargetTypes /\ cmd \in CommandStates /\ cmd.item = i
  BY Here
<1>1. CASE job.overwrite
  <2>1. cmd' = [cmd EXCEPT !.at = "create", !.found = TRUE]
    BY <1>1 DEF Differs
  <2>2. cmd' \in CommandStates /\ cmd'.at = "create" /\ cmd'.item = i
    BY <1>h, <2>1 DEF CommandStates
  <2>3. Progress(i)'
    BY <1>1, <2>2 DEF Progress, At, server
  <2>4. QED
    BY <2>2, <2>3, GoesOn DEF ItemSteps
<1>2. CASE ~job.overwrite
  <2>1. Reports("SKIPPED") /\ DiscardsTemp(i)
    BY <1>2 DEF Differs, DiscardsTemp, target
  <2>2. QED
    BY <2>1, GivesUp DEF target
<1>3. QED
  BY <1>1, <1>2

LEMMA CompareStep == ASSUME RestoreInv, NEW i \in Items, this = i, Compare PROVE RestoreInv'
<1>a. cmd.at = "compare" /\ cmd.at \notin Between
  BY DEF Compare, At, Between
<1>h. TargetTypes /\ cmd \in CommandStates /\ ItemOK(i) /\ cmd.item = i
  BY <1>a, Here
<1>u. UNCHANGED <<server, known, target, entry, mine, edits>>
  BY DEF Compare
<1>1. CASE Differs /\ UNCHANGED touched /\ (NoFault \/ Fault)
  BY <1>a, <1>u, <1>1, DiffersStep DEF user
<1>2. CASE /\ file[i] = Wanted /\ GoesTo("seed") /\ NoFault
           /\ touched' = [touched EXCEPT ![i] = FALSE]
  <2>1. cmd' \in CommandStates /\ cmd'.at = "seed" /\ cmd'.item = i
    BY <1>h, <1>2, CommandGoes DEF ItemSteps
  <2>2. TargetTypes'
    BY <1>h, <1>u, <1>2 DEF TargetTypes, target
  <2>3. ItemOK(i)' /\ Progress(i)'
    BY <1>h, <1>u, <1>2, <2>1 DEF ItemOK, Progress, Set, At, server, target
  <2>4. StepOn(i)
    BY <1>h, <1>u, <1>2, <2>1, <2>2, <2>3 DEF StepOn, target, ItemSteps, TargetTypes
  <2>5. QED
    BY <2>4, ItemAlone
<1>3. QED
  BY <1>1, <1>2 DEF Compare, Same

LEMMA CreateStep == ASSUME RestoreInv, NEW i \in Items, this = i, Create PROVE RestoreInv'
<1>a. cmd.at = "create" /\ cmd.at \notin Between
  BY DEF Create, At, Between
<1>h. TargetTypes /\ cmd \in CommandStates /\ ItemOK(i) /\ Progress(i) /\ cmd.item = i
  BY <1>a, Here
<1>u. UNCHANGED <<server, known, file, backup, entry, user>>
  BY DEF Create
<1>1. CASE /\ GoesTo("download") /\ NoFault
           /\ temp' = [temp EXCEPT ![i] = Partial] /\ linked' = [linked EXCEPT ![i] = FALSE]
  <2>1. cmd' \in CommandStates /\ cmd'.at = "download" /\ cmd'.item = i /\ cmd'.found = cmd.found
    BY <1>h, <1>1, CommandGoes DEF ItemSteps
  <2>2. TargetTypes' /\ linked'[i] = FALSE
    BY <1>h, <1>u, <1>1 DEF TargetTypes, user, Contents
  <2>3. ItemOK(i)'
    BY <1>h, <1>u DEF ItemOK, Set, server, user
  <2>4. Progress(i)'
    BY <1>a, <1>h, <1>u, <2>1, <2>2 DEF Progress, At, server
  <2>5. StepOn(i)
    BY <1>u, <1>1, <2>1, <2>2, <2>3, <2>4 DEF StepOn, user, ItemSteps
  <2>6. QED
    BY <2>5, ItemAlone
<1>2. CASE Reports("FAILED") /\ Fault /\ DiscardsTemp(i)
  BY <1>a, <1>u, <1>2, GivesUp
<1>3. QED
  BY <1>1, <1>2 DEF Create

LEMMA DownloadStep == ASSUME RestoreInv, NEW i \in Items, this = i, Download PROVE RestoreInv'
<1>a. cmd.at = "download" /\ cmd.at \notin Between
  BY DEF Download, At, Between
<1>h. TargetTypes /\ cmd \in CommandStates /\ ItemOK(i) /\ Progress(i) /\ cmd.item = i
  BY <1>a, Here
<1>u. UNCHANGED <<server, known, file, backup, entry, user>>
  BY DEF Download
<1>1. CASE DiscardsTemp(i) /\ Reports("FAILED") /\ (NoFault \/ Fault)
  BY <1>a, <1>u, <1>1, GivesUp
<1>2. CASE /\ temp' = [temp EXCEPT ![i] = Wanted] /\ UNCHANGED linked /\ (NoFault \/ Fault)
           /\ GoesTo(IF cmd.found THEN "replace" ELSE "link")
  <2>1. /\ cmd' \in CommandStates /\ cmd'.item = i
        /\ cmd'.at = IF cmd.found THEN "replace" ELSE "link"
    BY <1>h, <1>2, CommandGoes DEF ItemSteps
  <2>2. TargetTypes' /\ temp'[i] = Wanted
    BY <1>h, <1>u, <1>2 DEF TargetTypes, user, Contents
  <2>3. ItemOK(i)'
    BY <1>h, <1>u DEF ItemOK, Set, server, user
  <2>4. Progress(i)'
    BY <1>a, <1>h, <1>u, <1>2, <2>1, <2>2 DEF Progress, At, server
  <2>5. StepOn(i)
    BY <1>u, <1>2, <2>1, <2>2, <2>3, <2>4 DEF StepOn, user, ItemSteps
  <2>6. QED
    BY <2>5, ItemAlone
<1>3. QED
  BY <1>1, <1>2 DEF Download, Verified

\* The wanted file takes the name: what the user had there was to be
\* overwritten, or nothing was there.
LEMMA InPlace ==
  ASSUME RestoreInv, NEW i \in Items, this = i, cmd.at \notin Between,
         temp[i] = Wanted, file' = [file EXCEPT ![i] = temp[i]], PutInPlace(i),
         UNCHANGED <<server, backup, entry>>, job.overwrite \/ mine[i] = Missing
  PROVE  /\ ItemOK(i)' /\ file'[i] = Wanted /\ mine'[i] = Missing
         /\ file' \in [Items -> Contents \cup {Directory, Missing}]
         /\ mine' \in [Items -> UserStates \cup {Wanted}]
         /\ touched' \in [Items -> BOOLEAN]
         /\ \A q \in Items : q # i =>
               file'[q] = file[q] /\ mine'[q] = mine[q] /\ touched'[q] = touched[q]
<1>h. TargetTypes /\ ItemOK(i)
  BY Here
<1>1. /\ file'[i] = Wanted /\ mine'[i] = Missing /\ Wanted # Partial
      /\ file' \in [Items -> Contents \cup {Directory, Missing}]
      /\ mine' \in [Items -> UserStates \cup {Wanted}]
      /\ touched' \in [Items -> BOOLEAN]
      /\ \A q \in Items : q # i =>
            file'[q] = file[q] /\ mine'[q] = mine[q] /\ touched'[q] = touched[q]
  BY <1>h, RestoreConstantsOK DEF TargetTypes, PutInPlace, Contents, UserStates
<1>2. ItemOK(i)'
  BY <1>h, <1>1 DEF ItemOK, Set, server
<1>3. QED
  BY <1>1, <1>2

LEMMA LinkStep == ASSUME RestoreInv, NEW i \in Items, this = i, Link PROVE RestoreInv'
<1>a. cmd.at = "link" /\ cmd.at \notin Between
  BY DEF Link, At, Between
<1>h. /\ JobTypes /\ TargetTypes /\ cmd \in CommandStates /\ ItemOK(i) /\ Progress(i)
      /\ cmd.item = i
  BY <1>a, Here
<1>u. UNCHANGED <<server, known, backup, entry, edits>>
  BY DEF Link
<1>1. CASE /\ file[i] = Missing /\ GoesTo("unlink") /\ NoFault
           /\ file' = [file EXCEPT ![i] = temp[i]] /\ linked' = [linked EXCEPT ![i] = TRUE]
           /\ UNCHANGED temp /\ PutInPlace(i)
  <2>1. cmd' \in CommandStates /\ cmd'.at = "unlink" /\ cmd'.item = i
    BY <1>h, <1>1, CommandGoes DEF ItemSteps
  <2>2. job.overwrite \/ mine[i] = Missing
    BY <1>h, <1>1 DEF ItemOK
  <2>3. temp[i] = Wanted
    BY <1>a, <1>h DEF Progress
  <2>4. /\ ItemOK(i)' /\ file'[i] = Wanted
        /\ file' \in [Items -> Contents \cup {Directory, Missing}]
        /\ mine' \in [Items -> UserStates \cup {Wanted}]
        /\ touched' \in [Items -> BOOLEAN]
        /\ \A q \in Items : q # i =>
              file'[q] = file[q] /\ mine'[q] = mine[q] /\ touched'[q] = touched[q]
    BY <1>a, <1>u, <1>1, <2>2, <2>3, InPlace
  <2>5. TargetTypes'
    BY <1>h, <1>u, <1>1, <2>4 DEF TargetTypes
  <2>6. Progress(i)'
    BY <2>1, <2>4 DEF Progress, At
  <2>7. StepOn(i)
    BY <1>u, <1>1, <2>1, <2>4, <2>5, <2>6 DEF StepOn, ItemSteps
  <2>8. QED
    BY <2>7, ItemAlone
<1>2. CASE /\ NoFault \/ Fault
           /\ DiscardsTemp(i) /\ Reports("FAILED") /\ UNCHANGED <<file, mine, touched>>
  BY <1>a, <1>u, <1>2, GivesUp DEF user
<1>3. QED
  BY <1>1, <1>2 DEF Link, FailsIf

LEMMA UnlinkStep == ASSUME RestoreInv, NEW i \in Items, this = i, Unlink PROVE RestoreInv'
<1>a. cmd.at = "unlink" /\ cmd.at \notin Between
  BY DEF Unlink, At, Between
<1>h. TargetTypes /\ cmd \in CommandStates /\ ItemOK(i) /\ Progress(i) /\ cmd.item = i
  BY <1>a, Here
<1>u. UNCHANGED <<server, known, file, backup, entry, user>>
  BY DEF Unlink
<1>1. CASE DropsTemp(i) /\ GoesTo("stamp") /\ NoFault
  <2>1. cmd' \in CommandStates /\ cmd'.at = "stamp" /\ cmd'.item = i
    BY <1>h, <1>1, CommandGoes DEF ItemSteps
  <2>2. TargetTypes'
    BY <1>h, <1>u, <1>1, TempGoes DEF TargetTypes, user, DiscardsTemp
  <2>3. ItemOK(i)'
    BY <1>h, <1>u DEF ItemOK, Set, server, user
  <2>4. Progress(i)'
    BY <1>a, <1>h, <1>u, <2>1 DEF Progress, At, user
  <2>5. StepOn(i)
    BY <1>u, <1>1, <2>1, <2>2, <2>3, <2>4 DEF StepOn, user, ItemSteps
  <2>6. QED
    BY <2>5, ItemAlone
<1>2. CASE UNCHANGED <<temp, linked>> /\ Reports("FAILED") /\ Fault
  BY <1>a, <1>u, <1>2, GivesUp DEF DiscardsTemp
<1>3. QED
  BY <1>1, <1>2 DEF Unlink

\* Replace and Swap: the renaming over the name works.
LEMMA Renamed ==
  ASSUME RestoreInv, NEW i \in Items, this = i, cmd.at \in {"replace", "swap"},
         NEW step \in {"stamp", "clean"}, GoesTo(step), step = "clean" => backup[i] # <<>>,
         NoFault, file' = [file EXCEPT ![i] = temp[i]], DropsTemp(i), PutInPlace(i),
         UNCHANGED <<server, known, backup, entry, edits>>
  PROVE  RestoreInv'
<1>a. cmd.at \notin Between
  BY DEF Between
<1>h. TargetTypes /\ cmd \in CommandStates /\ Progress(i) /\ cmd.item = i
  BY <1>a, Here
<1>1. cmd' \in CommandStates /\ cmd'.at = step /\ cmd'.item = i
  BY <1>h, CommandGoes DEF ItemSteps
<1>2. temp[i] = Wanted /\ job.overwrite
  BY <1>h DEF Progress
<1>3. /\ ItemOK(i)' /\ file'[i] = Wanted /\ mine'[i] = Missing
      /\ file' \in [Items -> Contents \cup {Directory, Missing}]
      /\ mine' \in [Items -> UserStates \cup {Wanted}]
      /\ touched' \in [Items -> BOOLEAN]
      /\ \A q \in Items : q # i =>
            file'[q] = file[q] /\ mine'[q] = mine[q] /\ touched'[q] = touched[q]
  BY <1>a, <1>2, InPlace
<1>4. TargetTypes'
  BY <1>h, <1>3, TempGoes DEF TargetTypes, DiscardsTemp
<1>5. Progress(i)'
  BY <1>1, <1>2, <1>3 DEF Progress, At, server
<1>6. StepOn(i)
  BY <1>1, <1>3, <1>4, <1>5 DEF StepOn, ItemSteps
<1>7. QED
  BY <1>6, ItemAlone

LEMMA ReplaceStep == ASSUME RestoreInv, NEW i \in Items, this = i, Replace PROVE RestoreInv'
<1>a. cmd.at = "replace" /\ cmd.at \notin Between
  BY DEF Replace, At, Between
<1>h. cmd \in CommandStates /\ Progress(i) /\ cmd.item = i
  BY <1>a, Here
<1>u. UNCHANGED <<server, known, backup, entry, edits>>
  BY DEF Replace
<1>1. CASE /\ GoesTo("stamp") /\ NoFault /\ file' = [file EXCEPT ![i] = temp[i]]
           /\ DropsTemp(i) /\ PutInPlace(i)
  BY <1>a, <1>u, <1>1, Renamed
<1>2. CASE /\ NoFault \/ Fault
           /\ GoesTo("inspect") /\ UNCHANGED <<file, temp, linked, mine, touched>>
  <2>1. cmd' \in CommandStates /\ cmd'.at = "inspect" /\ cmd'.item = i
    BY <1>h, <1>2, CommandGoes DEF ItemSteps
  <2>2. Progress(i)'
    BY <1>a, <1>h, <1>u, <1>2, <2>1 DEF Progress, At, server
  <2>3. QED
    BY <1>a, <1>u, <1>2, <2>1, <2>2, GoesOn DEF ItemSteps, target, user
<1>3. QED
  BY <1>1, <1>2 DEF Replace, FailsIf

LEMMA InspectStep == ASSUME RestoreInv, NEW i \in Items, this = i, Inspect PROVE RestoreInv'
<1>a. cmd.at = "inspect" /\ cmd.at \notin Between
  BY DEF Inspect, At, Between
<1>h. cmd \in CommandStates /\ Progress(i) /\ cmd.item = i
  BY <1>a, Here
<1>u. UNCHANGED <<server, known, file, backup, entry, user, faults>>
  BY DEF Inspect
<1>1. CASE GoesTo("preserve") /\ UNCHANGED <<temp, linked>>
  <2>1. cmd' \in CommandStates /\ cmd'.at = "preserve" /\ cmd'.item = i
    BY <1>h, <1>1, CommandGoes DEF ItemSteps
  <2>2. Progress(i)'
    BY <1>a, <1>h, <1>u, <1>1, <2>1 DEF Progress, At, server
  <2>3. QED
    BY <1>a, <1>u, <1>1, <2>1, <2>2, GoesOn DEF ItemSteps, target, NoFault
<1>2. CASE Reports("FAILED") /\ DiscardsTemp(i)
  BY <1>a, <1>u, <1>2, GivesUp DEF NoFault
<1>3. QED
  BY <1>1, <1>2 DEF Inspect

In(content, s) == \E k \in DOMAIN s : s[k] = content

LEMMA Appended ==
  ASSUME NEW S, NEW s \in Seq(S), NEW c \in S
  PROVE  /\ Append(s, c) \in Seq(S) /\ Append(s, c) # <<>>
         /\ \A x : In(x, Append(s, c)) <=> x = c \/ In(x, s)
<1> DEFINE t == Append(s, c)
<1>1. /\ t \in Seq(S) /\ Len(s) \in Nat /\ Len(t) = Len(s) + 1
      /\ DOMAIN s = 1 .. Len(s) /\ DOMAIN t = 1 .. Len(s) + 1
      /\ t[Len(s) + 1] = c /\ \A k \in DOMAIN s : t[k] = s[k]
  OBVIOUS
<1> HIDE DEF t
<1>2. \A k \in DOMAIN t : k = Len(s) + 1 \/ k \in DOMAIN s
  BY <1>1
<1>3. Len(s) + 1 \in DOMAIN t /\ DOMAIN s \subseteq DOMAIN t /\ t # <<>>
  BY <1>1
<1>4. \A x : In(x, t) <=> x = c \/ In(x, s)
  BY <1>1, <1>2, <1>3 DEF In
<1>5. QED
  BY <1>1, <1>3, <1>4 DEF t

LEMMA Dropped ==
  ASSUME NEW S, NEW s \in Seq(S), s # <<>>
  PROVE  /\ SubSeq(s, 1, Len(s) - 1) \in Seq(S)
         /\ s[Len(s)] \in S /\ In(s[Len(s)], s)
         /\ \A x : In(x, s) => x = s[Len(s)] \/ In(x, SubSeq(s, 1, Len(s) - 1))
         /\ \A x : In(x, SubSeq(s, 1, Len(s) - 1)) => In(x, s)
<1> DEFINE n == Len(s)
           t == SubSeq(s, 1, n - 1)
<1>1. n \in Nat /\ n >= 1 /\ DOMAIN s = 1 .. n /\ n \in DOMAIN s
  OBVIOUS
<1>2. /\ t \in Seq(S) /\ Len(t) = n - 1 /\ DOMAIN t = 1 .. n - 1
      /\ \A k \in 1 .. n - 1 : t[k] = s[k]
  BY <1>1
<1>3. s[n] \in S
  BY <1>1
<1> HIDE DEF t, n
<1>4. In(s[n], s)
  BY <1>1 DEF In
<1>5. \A k \in 1 .. n : k = n \/ k \in 1 .. n - 1
  BY <1>1
<1>6. \A x : In(x, s) => x = s[n] \/ In(x, t)
  BY <1>1, <1>2, <1>5 DEF In
<1>7. \A x : In(x, t) => In(x, s)
  BY <1>1, <1>2 DEF In
<1>8. QED
  BY <1>2, <1>3, <1>4, <1>6, <1>7 DEF t, n

LEMMA PreserveStep == ASSUME RestoreInv, NEW i \in Items, this = i, Preserve PROVE RestoreInv'
<1>a. cmd.at = "preserve" /\ cmd.at \notin Between
  BY DEF Preserve, At, Between
<1>h. TargetTypes /\ cmd \in CommandStates /\ ItemOK(i) /\ Progress(i) /\ cmd.item = i
  BY <1>a, Here
<1>u. UNCHANGED <<server, known, entry, user>>
  BY DEF Preserve
<1>1. CASE /\ file[i] # Missing /\ GoesTo("swap") /\ NoFault
           /\ backup' = [backup EXCEPT ![i] = Append(@, file[i])]
           /\ file' = [file EXCEPT ![i] = Missing] /\ UNCHANGED <<temp, linked>>
  <2>1. cmd' \in CommandStates /\ cmd'.at = "swap" /\ cmd'.item = i
    BY <1>h, <1>1, CommandGoes DEF ItemSteps
  <2>2. backup[i] \in Seq(Contents \cup {Directory}) /\ file[i] \in Contents \cup {Directory}
    BY <1>h, <1>1 DEF TargetTypes
  <2>3. /\ backup'[i] = Append(backup[i], file[i]) /\ file'[i] = Missing
        /\ \A q \in Items : q # i => backup'[q] = backup[q] /\ file'[q] = file[q]
    BY <1>h, <1>1 DEF TargetTypes
  <2>4. /\ backup'[i] \in Seq(Contents \cup {Directory}) /\ backup'[i] # <<>>
        /\ \A x : In(x, backup'[i]) <=> x = file[i] \/ In(x, backup[i])
    BY <2>2, <2>3, Appended
  <2>5. TargetTypes'
    BY <1>h, <1>u, <1>1, <2>4 DEF TargetTypes, user
  <2>6. \A x : Set(i, x)' <=> x = file[i] \/ Set(i, x)
    BY <2>4 DEF Set, In
  <2>7. Missing # Partial
    BY RestoreConstantsOK DEF Contents
  <2>8. job.overwrite
    BY <1>a, <1>h DEF Progress
  <2>9. ItemOK(i)'
    BY <1>h, <1>u, <2>3, <2>6, <2>7, <2>8 DEF ItemOK, server, user
  <2>10. Progress(i)'
    <3>1. mine[i] # Missing => Set(i, mine[i])'
      BY <1>h, <1>u, <2>6 DEF ItemOK, user
    <3>2. entry[i] /\ ~touched[i] => Set(i, Wanted)'
      BY <1>h, <1>u, <2>6 DEF ItemOK, user
    <3>3. temp'[i] = Wanted /\ ~linked'[i]
      BY <1>a, <1>h, <1>1 DEF Progress
    <3>4. mine'[i] = mine[i] /\ touched' = touched /\ entry' = entry /\ job' = job
      BY <1>u DEF user, server
    <3>5. mine'[i] # Missing => Set(i, mine[i])'
      BY <3>1, <3>4
    <3>6. QED
      BY <2>1, <2>4, <2>8, <3>2, <3>3, <3>4, <3>5 DEF Progress, At
  <2>11. StepOn(i)
    BY <1>u, <1>1, <2>1, <2>3, <2>5, <2>9, <2>10 DEF StepOn, user, ItemSteps
  <2>12. QED
    BY <2>11, ItemAlone
<1>2. CASE /\ NoFault \/ Fault
           /\ DiscardsTemp(i) /\ Reports("FAILED") /\ UNCHANGED <<file, backup>>
  BY <1>a, <1>u, <1>2, GivesUp
<1>3. QED
  BY <1>1, <1>2 DEF Preserve, FailsIf

LEMMA SwapStep == ASSUME RestoreInv, NEW i \in Items, this = i, Swap PROVE RestoreInv'
<1>a. cmd.at = "swap" /\ cmd.at \notin Between
  BY DEF Swap, At, Between
<1>h. cmd \in CommandStates /\ Progress(i) /\ cmd.item = i
  BY <1>a, Here
<1>u. UNCHANGED <<server, known, backup, entry, edits>>
  BY DEF Swap
<1>1. CASE /\ GoesTo("clean") /\ NoFault /\ file' = [file EXCEPT ![i] = temp[i]]
           /\ DropsTemp(i) /\ PutInPlace(i)
  <2>1. backup[i] # <<>>
    BY <1>a, <1>h DEF Progress
  <2>2. QED
    BY <1>a, <1>u, <1>1, <2>1, Renamed
<1>2. CASE /\ NoFault \/ Fault
           /\ GoesTo("rollback") /\ UNCHANGED <<file, temp, linked, mine, touched>>
  <2>1. cmd' \in CommandStates /\ cmd'.at = "rollback" /\ cmd'.item = i
    BY <1>h, <1>2, CommandGoes DEF ItemSteps
  <2>2. Progress(i)'
    BY <1>a, <1>h, <1>u, <1>2, <2>1 DEF Progress, At, server, Set
  <2>3. QED
    BY <1>a, <1>u, <1>2, <2>1, <2>2, GoesOn DEF ItemSteps, target, user
<1>3. QED
  BY <1>1, <1>2 DEF Swap, FailsIf

LEMMA RollbackStep == ASSUME RestoreInv, NEW i \in Items, this = i, Rollback PROVE RestoreInv'
<1>a. cmd.at = "rollback" /\ cmd.at \notin Between
  BY DEF Rollback, At, Between
<1>h. TargetTypes /\ cmd \in CommandStates /\ ItemOK(i) /\ Progress(i) /\ cmd.item = i
  BY <1>a, Here
<1>u. /\ UNCHANGED <<server, known, entry, user>> /\ DiscardsTemp(i) /\ Reports("FAILED")
      /\ NoFault \/ Fault
  BY DEF Rollback, FailsIf
<1>1. CASE file' = [file EXCEPT ![i] = Newest(i)] /\ DropsBackup(i)
  <2>1. cmd' \in CommandStates /\ cmd'.at = "report" /\ cmd'.item = i /\ cmd'.result = "FAILED"
    BY <1>h, <1>u, CommandReports DEF Reported
  <2>2. backup[i] \in Seq(Contents \cup {Directory}) /\ backup[i] # <<>>
    BY <1>a, <1>h DEF TargetTypes, Progress
  <2> DEFINE newest == backup[i][Len(backup[i])]
             rest == SubSeq(backup[i], 1, Len(backup[i]) - 1)
  <2>3. /\ rest \in Seq(Contents \cup {Directory})
        /\ newest \in Contents \cup {Directory} /\ In(newest, backup[i])
        /\ \A x : In(x, backup[i]) => x = newest \/ In(x, rest)
        /\ \A x : In(x, rest) => In(x, backup[i])
    BY <2>2, Dropped
  <2>4. /\ file' = [file EXCEPT ![i] = newest] /\ backup' = [backup EXCEPT ![i] = rest]
    BY <1>1 DEF Newest, DropsBackup
  <2> HIDE DEF newest, rest
  <2>5. /\ file'[i] = newest /\ backup'[i] = rest
        /\ \A q \in Items : q # i => backup'[q] = backup[q] /\ file'[q] = file[q]
    BY <1>h, <2>4 DEF TargetTypes
  <2>6. TargetTypes'
    BY <1>h, <1>u, <2>3, <2>4, TempGoes DEF TargetTypes, user
  <2>7. /\ Set(i, newest)
        /\ \A x : Set(i, x) => x = newest \/ Set(i, x)'
        /\ \A x : Set(i, x)' => Set(i, x)
    BY <2>3, <2>5 DEF Set, In
  <2>8. job.overwrite /\ (mine[i] # Missing => Set(i, mine[i]))
        /\ (entry[i] /\ ~touched[i] => Set(i, Wanted))
    BY <1>a, <1>h DEF Progress
  <2>9. ItemOK(i)'
    <3>1. newest # Partial /\ ~Set(i, Partial)'
      BY <1>h, <2>7 DEF ItemOK
    <3>2. mine[i] # Missing => file'[i] = mine[i] \/ Set(i, mine[i])'
      BY <2>5, <2>7, <2>8, <1>u DEF user
    <3>3. entry[i] /\ ~touched[i] => file'[i] = Wanted \/ Set(i, Wanted)'
      BY <2>5, <2>7, <2>8
    <3>4. job' = job /\ entry' = entry /\ mine' = mine /\ touched' = touched
      BY <1>u DEF server, user
    <3>5. job.item[i] = "APPLIED" => entry[i]
      BY <1>h DEF ItemOK
    <3>6. QED
      BY <2>5, <2>8, <3>1, <3>2, <3>3, <3>4, <3>5 DEF ItemOK
  <2>10. Progress(i)'
    BY <2>1 DEF Progress, At
  <2>11. StepOn(i)
    BY <1>u, <2>1, <2>5, <2>6, <2>9, <2>10 DEF StepOn, user, ItemSteps
  <2>12. QED
    BY <2>11, ItemAlone
<1>2. CASE UNCHANGED <<file, backup>>
  BY <1>a, <1>u, <1>2, GivesUp
<1>3. QED
  BY <1>1, <1>2 DEF Rollback

LEMMA CleanStep == ASSUME RestoreInv, NEW i \in Items, this = i, Clean PROVE RestoreInv'
<1>a. cmd.at = "clean" /\ cmd.at \notin Between
  BY DEF Clean, At, Between
<1>h. TargetTypes /\ cmd \in CommandStates /\ ItemOK(i) /\ Progress(i) /\ cmd.item = i
  BY <1>a, Here
<1>u. UNCHANGED <<server, known, file, temp, linked, entry, user>>
  BY DEF Clean
<1>1. CASE DropsBackup(i) /\ GoesTo("stamp") /\ NoFault
  <2>1. cmd' \in CommandStates /\ cmd'.at = "stamp" /\ cmd'.item = i
    BY <1>h, <1>1, CommandGoes DEF ItemSteps
  <2>2. backup[i] \in Seq(Contents \cup {Directory}) /\ backup[i] # <<>>
    BY <1>a, <1>h DEF TargetTypes, Progress
  <2> DEFINE rest == SubSeq(backup[i], 1, Len(backup[i]) - 1)
  <2>3. /\ rest \in Seq(Contents \cup {Directory}) /\ \A x : In(x, rest) => In(x, backup[i])
    BY <2>2, Dropped
  <2>4. backup' = [backup EXCEPT ![i] = rest]
    BY <1>1 DEF DropsBackup
  <2> HIDE DEF rest
  <2>5. backup'[i] = rest /\ \A q \in Items : q # i => backup'[q] = backup[q]
    BY <1>h, <2>4 DEF TargetTypes
  <2>6. TargetTypes'
    BY <1>h, <1>u, <2>3, <2>4 DEF TargetTypes, user
  <2>7. \A x : Set(i, x)' => Set(i, x)
    BY <2>3, <2>5 DEF Set, In
  <2>8. mine[i] = Missing /\ job.overwrite /\ (touched[i] \/ file[i] = Wanted)
    BY <1>a, <1>h DEF Progress, At
  <2>9. ItemOK(i)'
    BY <1>h, <1>u, <2>7, <2>8 DEF ItemOK, server, user
  <2>10. Progress(i)'
    BY <1>u, <2>1, <2>8 DEF Progress, At, user
  <2>11. StepOn(i)
    BY <1>u, <1>1, <2>1, <2>5, <2>6, <2>9, <2>10 DEF StepOn, user, ItemSteps
  <2>12. QED
    BY <2>11, ItemAlone
<1>2. CASE (NoFault \/ Fault) /\ Reports("FAILED") /\ UNCHANGED backup
  BY <1>a, <1>u, <1>2, GivesUp DEF DiscardsTemp
<1>3. QED
  BY <1>1, <1>2 DEF Clean, FailsIf

LEMMA StampStep == ASSUME RestoreInv, NEW i \in Items, this = i, Stamp PROVE RestoreInv'
<1>a. cmd.at = "stamp" /\ cmd.at \notin Between
  BY DEF Stamp, At, Between
<1>h. cmd \in CommandStates /\ Progress(i) /\ cmd.item = i
  BY <1>a, Here
<1>u. UNCHANGED <<server, known, target, entry, user>>
  BY DEF Stamp
<1>1. CASE GoesTo("seed") /\ NoFault
  <2>1. cmd' \in CommandStates /\ cmd'.at = "seed" /\ cmd'.item = i
    BY <1>h, <1>1, CommandGoes DEF ItemSteps
  <2>2. Progress(i)'
    BY <1>a, <1>h, <1>u, <2>1 DEF Progress, At, target, user
  <2>3. QED
    BY <1>a, <1>u, <1>1, <2>1, <2>2, GoesOn DEF ItemSteps
<1>2. CASE (NoFault \/ Fault) /\ Reports("FAILED")
  BY <1>a, <1>u, <1>2, GivesUp DEF DiscardsTemp, target
<1>3. QED
  BY <1>1, <1>2 DEF Stamp, FailsIf

LEMMA SeedStep == ASSUME RestoreInv, NEW i \in Items, this = i, Seed PROVE RestoreInv'
<1>a. cmd.at = "seed" /\ cmd.at \notin Between
  BY DEF Seed, At, Between
<1>h. TargetTypes /\ cmd \in CommandStates /\ ItemOK(i) /\ Progress(i) /\ cmd.item = i
  BY <1>a, Here
<1>u. UNCHANGED <<server, known, target, user>>
  BY DEF Seed
<1>1. CASE entry' = [entry EXCEPT ![i] = TRUE] /\ Reports("APPLIED") /\ NoFault
  <2>1. cmd' \in CommandStates /\ cmd'.at = "report" /\ cmd'.item = i
    BY <1>h, <1>1, CommandReports DEF Reported
  <2>2. TargetTypes' /\ entry'[i] /\ \A q \in Items : q # i => entry'[q] = entry[q]
    BY <1>h, <1>u, <1>1 DEF TargetTypes, target, user
  <2>3. touched[i] \/ file[i] = Wanted
    BY <1>a, <1>h DEF Progress
  <2>4. ItemOK(i)'
    BY <1>h, <1>u, <2>2, <2>3 DEF ItemOK, Set, server, target, user
  <2>5. Progress(i)'
    BY <2>1, <2>2 DEF Progress, At
  <2>6. StepOn(i)
    BY <1>u, <1>1, <2>1, <2>2, <2>4, <2>5 DEF StepOn, target, user, ItemSteps
  <2>7. QED
    BY <2>6, ItemAlone
<1>2. CASE UNCHANGED entry /\ Reports("FAILED") /\ Fault
  BY <1>a, <1>u, <1>2, GivesUp DEF DiscardsTemp, target
<1>3. QED
  BY <1>1, <1>2 DEF Seed

LEMMA ApplyRestoreItem == RestoreInv /\ ItemStep => RestoreInv'
<1> SUFFICES ASSUME RestoreInv, ItemStep PROVE RestoreInv'
  OBVIOUS
<1>1. cmd.at \notin Between
  BY DEF ItemStep, Lstat, Compare, Create, Download, Link, Unlink, Replace, Inspect, Preserve,
     Swap, Rollback, Clean, Stamp, Seed, At, Between
<1>2. PICK i \in Items : this = i
  BY <1>1 DEF RestoreInv
<1>3. QED
  BY <1>2, LstatStep, CompareStep, CreateStep, DownloadStep, LinkStep, UnlinkStep, ReplaceStep,
     InspectStep, PreserveStep, SwapStep, RollbackStep, CleanStep, StampStep, SeedStep
     DEF ItemStep

----------------------------------------------------------------------------
(* The calls                                                               *)

\* What the store may make of the job: nothing is unset, and an item is APPLIED
\* only when it is recorded in the local database.
Fits(j) ==
    /\ j \in [state : {"NONE", "READY", "RUNNING", "COMPLETED", "FAILED"},
              overwrite : BOOLEAN, pinned : BOOLEAN, item : [Items -> ItemStates]]
    /\ j.pinned <=> Open(j)
    /\ j.state = "NONE" => j = NoJob
    /\ j.state = "COMPLETED" => \A i \in Items : j.item[i] \in {"APPLIED", "SKIPPED"}
    /\ job.overwrite => j.overwrite
    /\ \A i \in Items : j.item[i] = "APPLIED" => entry[i]

LEMMA JobFits == RestoreInv => Fits(job)
BY DEF RestoreInv, JobOK, JobTypes, CompletedIsComplete, ItemOK, Fits

LEMMA RefusalFits == RestoreInv => Fits(Refusal.job) /\ ~Refusal.ok
BY JobFits DEF Refusal

LEMMA StartFits ==
  ASSUME RestoreInv, job.state = "NONE", NEW overwrite \in BOOLEAN
  PROVE  Fits(HandleStart(overwrite).job)
<1> DEFINE j == [NoJob EXCEPT !.state = "READY", !.overwrite = overwrite, !.pinned = TRUE]
<1>1. job = NoJob
  BY DEF RestoreInv, JobOK
<1>2. Fits(j)
  BY <1>1 DEF Fits, NoJob, Open, ItemStates, Reported
<1>3. StoreStart(overwrite).job = j
  BY DEF StoreStart, Answer
<1>4. QED
  BY <1>2, <1>3, RefusalFits DEF HandleStart, Resolved

LEMMA ReportFits ==
  ASSUME RestoreInv, NEW i \in Items, NEW state \in ItemStates, state = "APPLIED" => entry[i]
  PROVE  Fits(CallReport(i, state).job)
<1> DEFINE j == [job EXCEPT !.state = "RUNNING", !.item[i] = state]
<1>1. ASSUME Open(job) PROVE Fits(j)
  <2>1. Fits(job)
    BY JobFits
  <2>2. /\ j.state = "RUNNING" /\ j.overwrite = job.overwrite /\ j.pinned = job.pinned
        /\ j.item = [job.item EXCEPT ![i] = state]
        /\ j \in [state : {"NONE", "READY", "RUNNING", "COMPLETED", "FAILED"},
                  overwrite : BOOLEAN, pinned : BOOLEAN, item : [Items -> ItemStates]]
    BY <2>1 DEF Fits
  <2>3. \A q \in Items : j.item[q] = "APPLIED" => entry[q]
    BY <2>1, <2>2 DEF Fits
  <2>4. QED
    BY <1>1, <2>1, <2>2, <2>3 DEF Fits, Open
<1>2. Fits(StoreReport(i, state).job)
  BY <1>1, RefusalFits DEF StoreReport, Answer
<1>3. CASE state \in Reported
  BY <1>2, <1>3, RefusalFits DEF CallReport, HandleReport, ReportOnWire, EngineReport, Resolved
<1>4. CASE state \notin Reported
  BY <1>4, RefusalFits
     DEF CallReport, HandleReport, ReportOnWire, EngineReport, Resolved, Reported
<1>5. QED
  BY <1>3, <1>4

LEMMA FinishFits ==
  ASSUME RestoreInv, NEW success \in BOOLEAN
  PROVE  Fits(HandleFinish(success).job)
<1> DEFINE j == [job EXCEPT !.state = IF success THEN "COMPLETED" ELSE "FAILED", !.pinned = FALSE]
<1>1. ASSUME success => Settled PROVE Fits(j)
  <2>1. Fits(job)
    BY JobFits
  <2>2. /\ j.state = (IF success THEN "COMPLETED" ELSE "FAILED")
        /\ j.overwrite = job.overwrite /\ j.pinned = FALSE /\ j.item = job.item
        /\ j \in [state : {"NONE", "READY", "RUNNING", "COMPLETED", "FAILED"},
                  overwrite : BOOLEAN, pinned : BOOLEAN, item : [Items -> ItemStates]]
    BY <2>1 DEF Fits
  <2>3. success => \A i \in Items : job.item[i] \in {"APPLIED", "SKIPPED"}
    BY <1>1, <2>1 DEF Fits, Settled, ItemStates, Reported
  <2>4. QED
    BY <2>1, <2>2, <2>3 DEF Fits, Open
<1>2. Fits(StoreFinish(success).job)
  BY <1>1, RefusalFits DEF StoreFinish, Answer
<1>3. QED
  BY <1>2, RefusalFits DEF HandleFinish, Resolved

\* A page comes through the wire as the store wrote it.
Pages == Seq([ordinal : Items, state : ItemStates])

LEMMA SequenceOf ==
  ASSUME NEW S, NEW n \in Nat, NEW s \in [1 .. n -> S] PROVE s \in Seq(S)
OBVIOUS

LEMMA ElementsOf ==
  ASSUME NEW S, NEW s \in Seq(S)
  PROVE  (\A k \in DOMAIN s : s[k] \in S) /\ s = [k \in DOMAIN s |-> s[k]]
OBVIOUS

LEMMA PageTyped ==
  ASSUME RestoreInv, NEW after \in 0 .. LastItem PROVE Page(after) \in Pages
<1> DEFINE n == IF LastItem - after < PageSize THEN LastItem - after ELSE PageSize
<1>1. n \in Nat /\ \A k \in 1 .. n : after + k \in Items
  BY RestoreConstantsOK DEF Items
<1>2. \A k \in 1 .. n : job.item[after + k] \in ItemStates
  BY <1>1 DEF RestoreInv, JobOK, JobTypes
<1> HIDE DEF n
<1>3. [k \in 1 .. n |-> [ordinal |-> after + k, state |-> job.item[after + k]]]
          \in [1 .. n -> [ordinal : Items, state : ItemStates]]
  BY <1>1, <1>2
<1>4. QED
  BY <1>1, <1>3, SequenceOf DEF Page, Pages, n

LEMMA Converted ==
  ASSUME NEW answer, answer.page \in Pages, NEW convert,
         answer = [ok |-> answer.ok, job |-> answer.job, page |-> answer.page],
         \A s \in ItemStates : convert[s] = s
  PROVE  WithStates(answer, convert) = answer
<1> DEFINE page == [k \in DOMAIN answer.page |->
                       [answer.page[k] EXCEPT !.state = convert[answer.page[k].state]]]
<1>1. \A k \in DOMAIN answer.page : answer.page[k] \in [ordinal : Items, state : ItemStates]
  BY ElementsOf DEF Pages
<1>2. \A k \in DOMAIN answer.page :
          [answer.page[k] EXCEPT !.state = convert[answer.page[k].state]] = answer.page[k]
  BY <1>1
<1>3. answer.page = [k \in DOMAIN answer.page |-> answer.page[k]]
  BY ElementsOf DEF Pages
<1>4. page = answer.page
  BY <1>2, <1>3
<1> HIDE DEF page
<1>5. WithStates(answer, convert) = [answer EXCEPT !.page = page]
  BY DEF WithStates, page
<1>6. QED
  BY <1>4, <1>5

LEMMA WireKeepsStates ==
  \A s \in ItemStates : ItemOnWire[s] = s /\ ItemOffWire[s] = s
BY DEF ItemOnWire, ItemOffWire, WireStates

LEMMA ListFits ==
  ASSUME RestoreInv, NEW after \in 0 .. LastItem
  PROVE  Fits(CallList(after).job) /\ CallList(after).page \in Pages
<1> DEFINE answer == Resolved(StoreList(after))
           j == [job EXCEPT !.state = "RUNNING"]
<1>1. Fits(Refusal.job) /\ Refusal.page \in Pages
      /\ Refusal = [ok |-> Refusal.ok, job |-> Refusal.job, page |-> Refusal.page]
  BY RefusalFits DEF Refusal, Pages
<1>2. ASSUME Open(job) PROVE Fits(j)
  <2>1. Fits(job)
    BY JobFits
  <2>2. /\ j.state = "RUNNING" /\ j.overwrite = job.overwrite /\ j.pinned = job.pinned
        /\ j.item = job.item
        /\ j \in [state : {"NONE", "READY", "RUNNING", "COMPLETED", "FAILED"},
                  overwrite : BOOLEAN, pinned : BOOLEAN, item : [Items -> ItemStates]]
    BY <2>1 DEF Fits
  <2>3. QED
    BY <1>2, <2>1, <2>2 DEF Fits, Open
<1>3. Fits(StoreList(after).job) /\ StoreList(after).page \in Pages
      /\ StoreList(after) = [ok |-> StoreList(after).ok, job |-> StoreList(after).job,
                             page |-> StoreList(after).page]
  BY <1>1, <1>2, PageTyped DEF StoreList, Answer
<1>4. /\ Fits(answer.job) /\ answer.page \in Pages
      /\ answer = [ok |-> answer.ok, job |-> answer.job, page |-> answer.page]
  BY <1>1, <1>3 DEF Resolved
<1>5. CallList(after) = WithStates(WithStates(answer, ItemOnWire), ItemOffWire)
  BY DEF CallList, HandleList
<1> HIDE DEF answer
<1>6. WithStates(answer, ItemOnWire) = answer
  BY <1>4, Converted, WireKeepsStates
<1>7. WithStates(answer, ItemOffWire) = answer
  BY <1>4, Converted, WireKeepsStates
<1>8. QED
  BY <1>4, <1>5, <1>6, <1>7

----------------------------------------------------------------------------
(* The steps of runRestoreCommand, and everything else                     *)

LEMMA ServerStep ==
  ASSUME RestoreInv, Fits(job'), UNCHANGED <<target, entry, user>>,
         active' \in BOOLEAN, known' \in BOOLEAN, NoFault \/ Fault,
         cmd' \in CommandStates, cmd'.at \in Between
  PROVE  RestoreInv'
<1>1. JobOK'
  BY DEF Fits, JobOK, JobTypes, CompletedIsComplete, Open
<1>2. TargetTypes'
  BY DEF RestoreInv, TargetTypes, target, user
<1>3. CountTypes'
  BY FaultsCounted DEF RestoreInv, user
<1>4. \A i \in Items : ItemOK(i)'
  BY DEF RestoreInv, ItemOK, Set, Fits, target, user
<1>5. QED
  BY <1>1, <1>2, <1>3, <1>4 DEF RestoreInv

LEMMA Fails ==
  ASSUME RestoreInv, NEW j, Fits(j), job' \in {job, j}, Stops, NoFault \/ Fault,
         UNCHANGED <<active, target, entry, user>>, known' \in BOOLEAN
  PROVE  RestoreInv'
<1>1. cmd' \in CommandStates /\ cmd'.at \in Between
  BY CommandStops DEF Between
<1>2. Fits(job')
  BY JobFits
<1>3. active' \in BOOLEAN
  BY DEF RestoreInv, JobOK, JobTypes
<1>4. QED
  BY <1>1, <1>2, <1>3, ServerStep

LEMMA StartStep == ASSUME RestoreInv, NEW overwrite \in BOOLEAN, Start(overwrite) PROVE RestoreInv'
<1>1. job.state = "NONE" /\ UNCHANGED <<active, target, entry, user>> /\ cmd \in CommandStates
  BY DEF Start, RestoreInv
<1>2. active \in BOOLEAN /\ known \in BOOLEAN
  BY DEF RestoreInv, JobOK, JobTypes
<1>3. Fits(HandleStart(overwrite).job)
  BY <1>1, StartFits
<1>4. CASE Answered(HandleStart(overwrite)) /\ known' = TRUE /\ GoesTo("list")
  <2>1. cmd' \in CommandStates /\ cmd'.at \in Between
    BY <1>1, <1>4, CommandGoes DEF Between
  <2>2. Fits(job') /\ NoFault
    BY <1>3, <1>4 DEF Answered
  <2>3. QED
    BY <1>1, <1>2, <1>4, <2>1, <2>2, ServerStep
<1>5. CASE NotAnswered(HandleStart(overwrite)) /\ UNCHANGED known
  <2>1. /\ job' \in {job, HandleStart(overwrite).job} /\ Stops /\ (NoFault \/ Fault)
        /\ known' \in BOOLEAN
    BY <1>2, <1>5 DEF NotAnswered
  <2>2. QED
    BY <1>1, <1>3, <2>1, Fails
<1>6. QED
  BY <1>4, <1>5 DEF Start

LEMMA ListStep == ASSUME RestoreInv, List PROVE RestoreInv'
<1> DEFINE answer == CallList(cmd.after)
<1>1. UNCHANGED <<active, known, target, entry, user>> /\ cmd \in CommandStates
  BY DEF List, RestoreInv
<1>2. active \in BOOLEAN /\ known \in BOOLEAN
  BY DEF RestoreInv, JobOK, JobTypes
<1>3. Fits(answer.job) /\ answer.page \in Pages
  BY <1>1, ListFits DEF CommandStates
<1>4. CASE /\ Answered(answer)
           /\ cmd' = [cmd EXCEPT !.page = answer.page,
                                 !.at = IF answer.page = <<>> THEN "finish" ELSE "next"]
  <2>1. Fits(job') /\ NoFault
    BY <1>3, <1>4 DEF Answered
  <2> HIDE DEF answer
  <2>2. cmd' \in CommandStates /\ cmd'.at \in Between
    BY <1>1, <1>3, <1>4 DEF CommandStates, Between, Pages
  <2>3. QED
    BY <1>1, <1>2, <2>1, <2>2, ServerStep
<1>5. CASE NotAnswered(answer)
  <2>1. job' \in {job, answer.job} /\ Stops /\ (NoFault \/ Fault)
    BY <1>5 DEF NotAnswered
  <2>2. QED
    BY <1>1, <1>2, <1>3, <2>1, Fails
<1>6. QED
  BY <1>4, <1>5 DEF List

LEMMA ReportStep == ASSUME RestoreInv, Report PROVE RestoreInv'
<1> DEFINE answer == CallReport(this, cmd.result)
<1>1. UNCHANGED <<active, known, target, entry, user>> /\ cmd \in CommandStates /\ At("report")
  BY DEF Report, RestoreInv
<1>2. active \in BOOLEAN /\ known \in BOOLEAN
  BY DEF RestoreInv, JobOK, JobTypes
<1>3. this \in Items /\ Progress(this)
  BY <1>1 DEF RestoreInv, Between, At
<1>4. cmd.result \in ItemStates /\ (cmd.result = "APPLIED" => entry[this])
  BY <1>1, <1>3 DEF CommandStates, Progress
<1>5. Fits(answer.job)
  BY <1>3, <1>4, ReportFits
<1>6. CASE Answered(answer) /\ GoesTo("next")
  <2>1. cmd' \in CommandStates /\ cmd'.at \in Between
    BY <1>1, <1>6, CommandGoes DEF Between
  <2>2. Fits(job') /\ NoFault
    BY <1>5, <1>6 DEF Answered
  <2>3. QED
    BY <1>1, <1>2, <2>1, <2>2, ServerStep
<1>7. CASE NotAnswered(answer)
  <2>1. job' \in {job, answer.job} /\ Stops /\ (NoFault \/ Fault)
    BY <1>7 DEF NotAnswered
  <2>2. QED
    BY <1>1, <1>2, <1>5, <2>1, Fails
<1>8. QED
  BY <1>6, <1>7 DEF Report

LEMMA FinishStep == ASSUME RestoreInv, Finish PROVE RestoreInv'
<1> DEFINE answer == HandleFinish(~cmd.failure)
<1>1. UNCHANGED <<active, known, target, entry, user>> /\ cmd \in CommandStates
  BY DEF Finish, RestoreInv
<1>2. active \in BOOLEAN /\ known \in BOOLEAN
  BY DEF RestoreInv, JobOK, JobTypes
<1>3. Fits(answer.job)
  BY FinishFits
<1>4. CASE Answered(answer) /\ Stops
  <2>1. job' \in {job, answer.job}
    BY <1>4 DEF Answered
  <2>2. QED
    BY <1>1, <1>2, <1>3, <1>4, <2>1, Fails DEF Answered
<1>5. CASE NotAnswered(answer)
  <2>1. job' \in {job, answer.job} /\ Stops /\ (NoFault \/ Fault)
    BY <1>5 DEF NotAnswered
  <2>2. QED
    BY <1>1, <1>2, <1>3, <2>1, Fails
<1>6. QED
  BY <1>4, <1>5 DEF Finish

LEMMA HeadAndTail ==
  ASSUME NEW S, NEW s \in Seq(S), s # <<>> PROVE Head(s) \in S /\ Tail(s) \in Seq(S)
OBVIOUS

\* The command moves on by itself, between two items or to the next one.
LEMMA MovesOn ==
  ASSUME RestoreInv, Resume \/ NextItem \/ NextPage PROVE RestoreInv'
<1>1. UNCHANGED <<server, known, target, entry, user, faults>> /\ cmd \in CommandStates
  BY DEF Resume, NextItem, NextPage, RestoreInv
<1>2. active' \in BOOLEAN /\ known' \in BOOLEAN /\ NoFault
  BY <1>1 DEF RestoreInv, JobOK, JobTypes, server, NoFault
<1>3. Fits(job')
  BY <1>1, JobFits DEF server
<1>4. CASE \E step \in Between : GoesTo(step)
  BY <1>1, <1>2, <1>3, <1>4, CommandGoes, ServerStep
<1>5. CASE At("next") /\ cmd.page # <<>> /\ NextItem
  <2>1. cmd.page \in Seq([ordinal : Items, state : ItemStates])
    BY <1>1 DEF CommandStates
  <2>2. /\ Head(cmd.page) \in [ordinal : Items, state : ItemStates]
        /\ Tail(cmd.page) \in Seq([ordinal : Items, state : ItemStates])
    BY <1>5, <2>1, HeadAndTail
  <2>3. Head(cmd.page).ordinal \in Items /\ Head(cmd.page).ordinal \in 0 .. LastItem
    BY <2>2, RestoreConstantsOK DEF Items
  <2>4. CASE cmd' = [cmd EXCEPT !.page = Tail(@), !.after = Head(cmd.page).ordinal]
    <3>1. cmd' \in CommandStates /\ cmd'.at \in Between
      BY <1>1, <1>5, <2>2, <2>3, <2>4 DEF CommandStates, Between, At
    <3>2. QED
      BY <1>1, <1>2, <1>3, <3>1, ServerStep
  <2>5. CASE cmd' = [cmd EXCEPT !.page = Tail(@), !.after = Head(cmd.page).ordinal,
                                !.item = Head(cmd.page).ordinal, !.at = "lstat"]
    <3>1. /\ cmd' \in CommandStates /\ cmd'.at = "lstat" /\ cmd'.item \in Items
      BY <1>1, <2>2, <2>3, <2>5 DEF CommandStates
    <3>2. JobOK' /\ TargetTypes' /\ CountTypes' /\ \A i \in Items : ItemOK(i)'
      BY <1>1 DEF RestoreInv, JobOK, JobTypes, CompletedIsComplete, Open, TargetTypes, CountTypes,
                  ItemOK, Set, server, target, user
    <3>3. (this \in Items /\ Progress(this))'
      BY <3>1 DEF Progress, this, At
    <3>4. QED
      BY <3>1, <3>2, <3>3 DEF RestoreInv
  <2>6. QED
    BY <1>5, <2>4, <2>5 DEF NextItem
<1>6. QED
  BY <1>4, <1>5 DEF Resume, NextItem, NextPage, Between

LEMMA Interrupted == ASSUME RestoreInv, Crash PROVE RestoreInv'
<1>1. /\ job' = job /\ UNCHANGED <<active, known, target, entry, user>> /\ Stops /\ Fault
  BY DEF Crash, server
<1>2. known' \in BOOLEAN
  BY <1>1 DEF RestoreInv, JobOK, JobTypes
<1>3. QED
  BY <1>1, <1>2, JobFits, Fails

LEMMA Revoked == ASSUME RestoreInv, Revoke PROVE RestoreInv'
<1>1. /\ active' = FALSE /\ Fault /\ UNCHANGED <<job, known, cmd, target, entry, user>>
  BY DEF Revoke
<1>2. JobOK' /\ TargetTypes' /\ CountTypes'
  BY <1>1, FaultsCounted DEF RestoreInv, JobOK, JobTypes, CompletedIsComplete, Open, TargetTypes,
     target, user
<1>3. \A i \in Items : ItemOK(i)'
  BY <1>1 DEF RestoreInv, ItemOK, Set, target, user
<1>4. (cmd.at \notin Between => this \in Items /\ Progress(this))'
  BY <1>1 DEF RestoreInv, Progress, this, At, Set, target, user
<1>5. QED
  BY <1>1, <1>2, <1>3, <1>4 DEF RestoreInv

\* While the command may overwrite, what the user writes is not to be kept: the
\* user was told.  A name that is a second link of the temporary file is not the
\* one that the command will publish.
LEMMA EditStep ==
  ASSUME RestoreInv, NEW i \in Items, NEW content \in UserStates, Edited(i, content),
         \/ /\ linked' = linked /\ content \in UserContents
            /\ temp' = IF linked[i] THEN [temp EXCEPT ![i] = content] ELSE temp
         \/ linked' = [linked EXCEPT ![i] = FALSE] /\ temp' = temp
  PROVE  RestoreInv'
<1>1. /\ edits < MaxEdits /\ edits' = edits + 1 /\ file' = [file EXCEPT ![i] = content]
      /\ touched' = [touched EXCEPT ![i] = TRUE]
      /\ mine' = [mine EXCEPT ![i] = IF job.overwrite /\ ~At("idle") THEN Missing ELSE content]
      /\ UNCHANGED <<job, active, known, cmd, backup, entry, faults>>
  BY DEF Edited, server
<1>2. JobOK' /\ CountTypes' /\ cmd' \in CommandStates
  BY <1>1, RestoreConstantsOK
     DEF RestoreInv, JobOK, JobTypes, CompletedIsComplete, Open, CountTypes
<1>3. TargetTypes
  BY DEF RestoreInv
<1>4. TargetTypes'
  <2>1. content \in Contents \cup {Directory, Missing} /\ Missing \in UserStates
    BY DEF UserStates, Contents
  <2>2. content \in UserContents => content \in Contents
    BY DEF Contents
  <2>3. QED
    BY <1>1, <1>3, <2>1, <2>2 DEF TargetTypes
<1>5. content # Partial
  BY RestoreConstantsOK DEF UserStates, Contents
<1>6. /\ file'[i] = content /\ touched'[i] = TRUE
      /\ mine'[i] = IF job.overwrite /\ ~At("idle") THEN Missing ELSE content
      /\ \A q \in Items : q # i =>
            /\ file'[q] = file[q] /\ mine'[q] = mine[q] /\ touched'[q] = touched[q]
            /\ temp'[q] = temp[q] /\ linked'[q] = linked[q]
      /\ ~linked[i] => ~linked'[i] /\ temp'[i] = temp[i]
  BY <1>1, <1>3 DEF TargetTypes
<1>7. ASSUME NEW q \in Items PROVE ItemOK(q)'
  <2>1. ItemOK(q)
    BY DEF RestoreInv
  <2>2. CASE q = i
    BY <1>1, <1>5, <1>6, <2>1, <2>2 DEF ItemOK, Set
  <2>3. CASE q # i
    BY <1>1, <1>6, <2>1, <2>3 DEF ItemOK, Set
  <2>4. QED
    BY <2>2, <2>3
<1>8. (cmd.at \notin Between => this \in Items /\ Progress(this))'
  <2> SUFFICES ASSUME cmd'.at \notin Between PROVE (this \in Items)' /\ Progress(this)'
    OBVIOUS
  <2>1. PICK q \in Items : this = q /\ this' = q
    BY <1>1 DEF RestoreInv, this
  <2>2. Progress(q) /\ ~At("idle")
    BY <1>1, <2>1 DEF RestoreInv, Between, At
  <2>3. Progress(q)'
    <3>1. CASE q # i
      BY <1>1, <1>6, <2>2, <3>1 DEF Progress, Set, At
    <3>2. CASE q = i
      BY <1>1, <1>6, <2>2, <3>2 DEF Progress, Set, At
    <3>3. QED
      BY <3>1, <3>2
  <2>4. Progress(this)' <=> Progress(q)'
    BY <2>1 DEF Progress, Set, At, this
  <2>5. QED
    BY <2>1, <2>3, <2>4
<1>9. QED
  BY <1>2, <1>4, <1>7, <1>8 DEF RestoreInv

LEMMA RestoreStep == RestoreInv /\ [RestoreNext]_vars => RestoreInv'
<1> SUFFICES ASSUME RestoreInv, [RestoreNext]_vars PROVE RestoreInv'
  OBVIOUS
<1>1. CASE \E overwrite \in BOOLEAN : Start(overwrite)
  BY <1>1, StartStep
<1>2. CASE Resume \/ NextItem \/ NextPage
  BY <1>2, MovesOn
<1>3. CASE List \/ Report \/ Finish \/ ItemStep
  BY <1>3, ListStep, ReportStep, FinishStep, ApplyRestoreItem
<1>4. CASE Crash \/ Revoke
  BY <1>4, Interrupted, Revoked
<1>5. ASSUME NEW i \in Items, EditInPlace(i) PROVE RestoreInv'
  <2>1. PICK content \in UserContents :
          /\ linked' = linked /\ Edited(i, content)
          /\ temp' = IF linked[i] THEN [temp EXCEPT ![i] = content] ELSE temp
    BY <1>5 DEF EditInPlace
  <2>2. content \in UserStates
    BY DEF UserStates
  <2>3. QED
    BY <2>1, <2>2, EditStep
<1>6. ASSUME NEW i \in Items, EditByName(i) PROVE RestoreInv'
  BY <1>6, EditStep DEF EditByName
<1>7. CASE UNCHANGED vars
  <2>1. /\ UNCHANGED <<job, active, known, cmd, file, temp, linked, backup, entry, mine, touched,
                       edits, faults>>
    BY <1>7 DEF vars, server, target, user
  <2>2. JobOK' /\ TargetTypes' /\ CountTypes' /\ cmd' \in CommandStates
    BY <2>1 DEF RestoreInv, JobOK, JobTypes, CompletedIsComplete, Open, TargetTypes, CountTypes
  <2>3. \A i \in Items : ItemOK(i)'
    BY <2>1 DEF RestoreInv, ItemOK, Set
  <2>4. (cmd.at \notin Between => this \in Items /\ Progress(this))'
    BY <2>1 DEF RestoreInv, Progress, this, At, Set
  <2>5. QED
    BY <2>2, <2>3, <2>4 DEF RestoreInv
<1>8. QED
  BY <1>1, <1>2, <1>3, <1>4, <1>5, <1>6, <1>7 DEF RestoreNext, CommandStep

LEMMA RestoreInvariant == RestoreSpec => []RestoreInv
BY RestoreStarts, RestoreStep, PTL DEF RestoreSpec

----------------------------------------------------------------------------
(* The theorems                                                            *)

(* Every variable keeps its type through every call, crash and change by   *)
(* the user, and the snapshot that keeps the versions of the manifest is   *)
(* pinned exactly while the job is open (FinishRestore releases it in the  *)
(* transaction that closes the job).                                       *)
THEOREM RestoreTypeCorrect == RestoreSpec => []RestoreTypeOK
<1>1. RestoreInv => RestoreTypeOK
  BY DEF RestoreInv, JobOK, JobTypes, TargetTypes, CountTypes, RestoreTypeOK
<1>2. QED
  BY <1>1, RestoreInvariant, PTL

(* No part of a file is ever found under a name: publishRestoredFile only  *)
(* links or renames what was downloaded whole, and a leftover of an        *)
(* attempt that was cut off is removed before it is written again.         *)
THEOREM NothingHalf == RestoreSpec => []WholeFiles
<1>1. RestoreInv => WholeFiles
  BY DEF RestoreInv, ItemOK, WholeFiles
<1>2. QED
  BY <1>1, RestoreInvariant, PTL

(* A job without --overwrite leaves what the user has, or puts there while *)
(* the command runs: applyRestoreItem skips what it finds, and a new link  *)
(* never replaces what came since.                                         *)
THEOREM UserFilesAreKept == RestoreSpec => []UserFilesKept
<1>1. RestoreInv => UserFilesKept
  BY DEF RestoreInv, ItemOK, UserFilesKept
<1>2. QED
  BY <1>1, RestoreInvariant, PTL

(* A job with --overwrite lets go of a user's file only when the wanted    *)
(* one has its name: on every path of publishRestoredFile, and wherever it *)
(* is cut off, the file is under its name or in a backup.                  *)
THEOREM NothingIsDestroyed == RestoreSpec => []NothingDestroyed
<1>1. RestoreInv => NothingDestroyed
  BY DEF RestoreInv, ItemOK, Set, NothingDestroyed
<1>2. QED
  BY <1>1, RestoreInvariant, PTL

(* seedRestoredEntry records only names that hold the wanted file, and an  *)
(* item is reported APPLIED only after it was recorded.                    *)
THEOREM SeedsAreWhole == RestoreSpec => []SeededIsWhole
<1>1. RestoreInv => SeededIsWhole
  BY DEF RestoreInv, ItemOK, Set, SeededIsWhole
<1>2. QED
  BY <1>1, RestoreInvariant, PTL

(* FinishRestore completes a job only when every item is applied or        *)
(* skipped, whatever the command that asks for it has seen.                *)
THEOREM CompletedJobsAreComplete == RestoreSpec => []CompletedIsComplete
<1>1. RestoreInv => CompletedIsComplete
  BY DEF RestoreInv, JobOK
<1>2. QED
  BY <1>1, RestoreInvariant, PTL
=============================================================================

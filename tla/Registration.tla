---------------------------- MODULE Registration ----------------------------
(***************************************************************************)
(* How a root on a device gets its folder on the server: the start of      *)
(* sync-agent (cmd/sync-agent/main.go, worktrees.go) and EnsureFolder      *)
(* (internal/metadata/lifecycle.go).                                       *)
(*                                                                         *)
(* The folders belong to one user.  Folder 1 is the one that every agent   *)
(* names as SYNC_FOLDER_ID; it was made by the administrator, has no key   *)
(* and may have a history from before folders had keys.  An agent is       *)
(* started with some roots, asks the server for the folder of each, and    *)
(* then commits the changes of each root to its folder.  Several agents    *)
(* may run on a device, at the same time or one after the other, with the  *)
(* same or with other roots.  An agent can stop anywhere; a registration   *)
(* can fail before or after the server has made it.  An old server does    *)
(* not know EnsureFolder; it is upgraded at some time.                     *)
(*                                                                         *)
(* A path is the sequence of its names.  The key of a root is its path, as *)
(* rootClientKey hashes nothing else.  The local database of a root is     *)
(* named by folder and path, unless the process is told which file to use  *)
(* (SYNC_STATE_PATH).  The restore command opens such a database, too.     *)
(*                                                                         *)
(* A definition named X_Mistake is X with one plausible mistake; no action *)
(* uses it (see README.md, "Mutants").                                     *)
(***************************************************************************)
EXTENDS Naturals, Sequences, FiniteSets

CONSTANTS
    Devices,
    Agents,       \* the processes that may run
    DeviceOf,     \* the device of each
    Paths,        \* directories that a user may select
    StateDir,     \* where databases are kept that have no name of their own
    StateFiles,   \* the values of SYNC_STATE_PATH
    MaxLaunches,  \* bound on the starts of agents and restore commands
    MaxFaults     \* bound on the registrations that fail

ASSUME RegistrationConstantsOK ==
    /\ DeviceOf \in [Agents -> Devices]
    /\ Paths \cup StateFiles \subseteq Seq(STRING) /\ StateDir \in Seq(STRING)
    /\ MaxLaunches \in Nat /\ MaxFaults \in Nat

VARIABLES
    modern,    \* does the server know EnsureFolder?
    folders,   \* the rows of folders and folder_devices, in the order of creation
    agent,     \* the processes
    state,     \* the local databases: device, where, and what opened it
    launches, faults,
    given,     \* the registrations made so far: path, folder
    compat     \* the paths that ran in single-folder compatibility mode

vars == <<modern, folders, agent, state, launches, faults, given, compat>>

Base == 1
NoKey == <<"no key">>
NoRoot == <<"no root">>
Unset == <<"unset">>
Files == StateFiles \cup {Unset}
ASSUME NamesOK == {NoKey, NoRoot} \cap Paths = {} /\ Unset \notin StateFiles

Down == [at |-> "down", file |-> Unset, roots |-> {}, todo |-> {}, anchor |-> NoRoot, got |-> {}]

RegistrationInit ==
    /\ modern \in BOOLEAN
    /\ folders \in {<<[key |-> NoKey, writers |-> w, content |-> {}]>> : w \in SUBSET Devices}
    /\ agent = [a \in Agents |-> Down]
    /\ state = {}
    /\ launches = 0
    /\ faults = 0
    /\ given = {}
    /\ compat = {}

-----------------------------------------------------------------------------
(* EnsureFolder, under the lock of the user's row.                         *)

\* What the server answers: the folder, or 0 for a refusal, and its rows then.
Refusal == [folder |-> 0, folders |-> folders]
Found(f) == [folder |-> f, folders |-> folders]
Bound(key) == [folder |-> Base, folders |-> [folders EXCEPT ![Base].key = key]]
Created_Uncommitted(d, key) == [folder |-> Len(folders) + 1, folders |-> folders]
Created(d, key) ==
    [folder |-> Len(folders) + 1,
     folders |-> Append(folders, [key |-> key, writers |-> {d}, content |-> {}])]

WithKey(key) == {f \in DOMAIN folders : folders[f].key = key}
Registered(d, key) == {f \in WithKey(key) : d \in folders[f].writers}

\* The folder with a history is bound only to the root that has its state.
Bindable_WithHistory(allow) == folders[Base].key = NoKey
Bindable_Rebinds(allow) == folders[Base].content = {} \/ allow
Bindable(allow) ==
    /\ folders[Base].key = NoKey
    /\ folders[Base].content = {} \/ allow

EnsureFolder_NoLookup(d, key, allow) ==
    IF d \notin folders[Base].writers THEN Refusal
    ELSE IF Bindable(allow) THEN Bound(key)
    ELSE Created(d, key)
EnsureFolder(d, key, allow) ==
    IF d \notin folders[Base].writers THEN Refusal
    ELSE IF Registered(d, key) # {} THEN Found(CHOOSE f \in Registered(d, key) : TRUE)
    ELSE IF WithKey(key) # {} THEN Refusal
    ELSE IF Bindable(allow) THEN Bound(key)
    ELSE Created(d, key)

-----------------------------------------------------------------------------
(* The selection of roots.                                                 *)

\* The directories above a path, up to the top.
Above(path) == {SubSeq(path, 1, n) : n \in 0 .. Len(path) - 1}
Disjoint(roots) == \A r \in roots : Above(r) \cap roots = {}
Within(root, path) == root \in Above(path) \cup {path}

\* Where the database of a root is: the file that is set, or the one that folder
\* and root name.
Database(file, f, r) ==
    IF file = Unset THEN [folder |-> f, path |-> r] ELSE [folder |-> 0, path |-> file]
Opened(d, database, by) == [device |-> d, database |-> database, by |-> by]
There(d, database) == \E u \in state : u.device = d /\ u.database = database

\* The roots that find a database where the one for the base folder would be.
\* A file that is set is found by any root.
Anchored(d, file, roots) == {r \in roots : There(d, Database(file, Base, r))}

Launch(a) == \E roots \in SUBSET Paths, file \in Files :
    LET anchored == Anchored(DeviceOf[a], file, roots)
        location == IF file = Unset THEN StateDir ELSE file
    IN  /\ agent[a] = Down
        /\ launches < MaxLaunches
        /\ roots # {} /\ Disjoint(roots)
        /\ file # Unset => Cardinality(roots) = 1
        /\ \A r \in roots : ~Within(r, location)
        /\ Cardinality(anchored) <= 1
        /\ launches' = launches + 1
        /\ agent' = [agent EXCEPT ![a] =
              [at |-> "register", file |-> file, roots |-> roots, todo |-> roots,
               anchor |-> IF anchored = {} THEN NoRoot ELSE CHOOSE r \in anchored : TRUE,
               got |-> {}]]
        /\ UNCHANGED <<modern, folders, state, faults, given, compat>>

\* A restore command opens its database before it asks the server for the job.
\* It runs on any device and names any folder and any target.
Restore(d) == \E f \in DOMAIN folders, r \in Paths, file \in Files :
    /\ launches < MaxLaunches
    /\ launches' = launches + 1
    /\ state' = state \cup {Opened(d, Database(file, f, r), "restore")}
    /\ UNCHANGED <<modern, folders, agent, faults, given, compat>>

-----------------------------------------------------------------------------
(* prepareConfigs: one registration after the other, then the databases.   *)

Exits(a) == agent' = [agent EXCEPT ![a] = Down]
Gets(a, r, f) ==
    agent' = [agent EXCEPT ![a].todo = @ \ {r}, ![a].got = @ \cup {<<r, f>>}]

Register(a) == \E r \in agent[a].todo :
    LET answer == EnsureFolder(DeviceOf[a], r, agent[a].anchor = r)
        taken == {got[2] : got \in agent[a].got}
    IN  /\ agent[a].at = "register" /\ modern
        /\ folders' = answer.folders
        /\ IF answer.folder = 0
           THEN Exits(a) /\ UNCHANGED <<given, faults>>
           ELSE /\ given' = given \cup {<<r, answer.folder>>}
                /\ \/ /\ faults' = faults
                      /\ IF answer.folder \in taken THEN Exits(a)
                                                    ELSE Gets(a, r, answer.folder)
                   \/ faults < MaxFaults /\ faults' = faults + 1 /\ Exits(a)
        /\ UNCHANGED <<modern, state, launches, compat>>

\* The old server answers Unimplemented.
RegisterUnimplemented(a) == \E r \in agent[a].todo :
    /\ agent[a].at = "register" /\ ~modern
    /\ IF agent[a].roots = {r}
       THEN Gets(a, r, Base) /\ compat' = compat \cup {r}
       ELSE Exits(a) /\ UNCHANGED compat
    /\ UNCHANGED <<modern, folders, state, launches, faults, given>>

\* Every root is registered: the workers open their databases.
Begin(a) ==
    /\ agent[a].at = "register" /\ agent[a].todo = {}
    /\ agent' = [agent EXCEPT ![a].at = "run"]
    /\ state' = state \cup
          {Opened(DeviceOf[a], Database(agent[a].file, got[2], got[1]), "agent") :
              got \in agent[a].got}
    /\ UNCHANGED <<modern, folders, launches, faults, given, compat>>

-----------------------------------------------------------------------------
(* The running agent, its end, and the server's upgrade.                   *)

CommitChange(a) == \E got \in agent[a].got :
    /\ agent[a].at = "run"
    /\ DeviceOf[a] \in folders[got[2]].writers
    /\ folders' = [folders EXCEPT ![got[2]].content = @ \cup {<<DeviceOf[a], got[1]>>}]
    /\ UNCHANGED <<modern, agent, state, launches, faults, given, compat>>

Stop(a) ==
    /\ agent[a] # Down
    /\ Exits(a)
    /\ UNCHANGED <<modern, folders, state, launches, faults, given, compat>>

Upgrade ==
    /\ ~modern
    /\ modern' = TRUE
    /\ UNCHANGED <<folders, agent, state, launches, faults, given, compat>>

RegistrationNext ==
    \/ \E a \in Agents :
          \/ Launch(a) \/ Register(a) \/ RegisterUnimplemented(a) \/ Begin(a)
          \/ CommitChange(a) \/ Stop(a)
    \/ \E d \in Devices : Restore(d)
    \/ Upgrade

RegistrationSpec == RegistrationInit /\ [][RegistrationNext]_vars

-----------------------------------------------------------------------------
Folder == [key : Paths \cup {NoKey}, writers : SUBSET Devices,
           content : SUBSET (Devices \X Paths)]
Pairs == Paths \X (1 .. Len(folders))
Databases == [folder : 0 .. Len(folders), path : Paths \cup StateFiles]

(* Every variable has its type; a folder that an agent, a database or an   *)
(* answer names exists.                                                    *)
RegistrationTypeOK ==
    /\ modern \in BOOLEAN
    /\ folders \in Seq(Folder) /\ Len(folders) >= 1
    /\ agent \in [Agents -> [at : {"down", "register", "run"}, file : Files,
                             roots : SUBSET Paths, todo : SUBSET Paths,
                             anchor : Paths \cup {NoRoot}, got : SUBSET Pairs]]
    /\ state \subseteq [device : Devices, database : Databases, by : {"agent", "restore"}]
    /\ launches \in 0 .. MaxLaunches
    /\ faults \in 0 .. MaxFaults
    /\ given \subseteq Pairs
    /\ compat \subseteq Paths

(* However often a root is registered, by whichever agent or device, after *)
(* lost answers and restarts, it is given the same folder, and no two      *)
(* roots are given one (EnsureFolder, metadata/lifecycle.go:111-250).      *)
SameFolder == \A g, h \in given : g[1] = h[1] <=> g[2] = h[2]

(* The base folder, once it has a history, is bound only to the root of an *)
(* agent whose device knows it: the root was synchronized with that folder *)
(* through an old server, or was the target of a restore of that folder;   *)
(* or the agent was told to use a state file that was there                *)
(* (findExistingAnchorRoot, main.go:490-523).                              *)
Synchronized(u, r) ==
    u.database = Database(Unset, Base, r) /\ u.by = "agent" /\ r \in compat
Restored(u, r) == u.database = Database(Unset, Base, r) /\ u.by = "restore"
Told(u, file) == file # Unset /\ u.database = [folder |-> 0, path |-> file]
AnchorKept == [][
    LET r == folders'[Base].key IN
    r # folders[Base].key /\ folders[Base].content # {} =>
        \E a \in Agents, u \in state :
            /\ agent[a].anchor = r /\ u.device = DeviceOf[a]
            /\ Synchronized(u, r) \/ Restored(u, r) \/ Told(u, agent[a].file)]_vars

(* The same without the file that is set: an existing per-root state file  *)
(* identifies the root that owns the history (README.md:326-327).  Known   *)
(* not to hold, because SYNC_STATE_PATH names one file whatever the root.  *)
AnchorIdentified == [][
    LET r == folders'[Base].key IN
    r # folders[Base].key /\ folders[Base].content # {} =>
        \E u \in state : Synchronized(u, r) \/ Restored(u, r)]_vars

(* The history of a folder comes from one path.  Only the base folder can  *)
(* mix two, and only when one of them was synchronized with an old server, *)
(* which had no other folder for it (metadata/lifecycle.go:164-176,        *)
(* main.go:490-523).                                                       *)
RootsApart == \A f \in DOMAIN folders : \A c, e \in folders[f].content :
    c[2] # e[2] => f = Base /\ {c[2], e[2]} \cap compat # {}
=============================================================================

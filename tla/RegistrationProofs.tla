------------------------- MODULE RegistrationProofs -------------------------
(***************************************************************************)
(* The folders that roots are given, for any number of devices, agents and *)
(* directories, and any number of starts and lost answers.                 *)
(***************************************************************************)
EXTENDS Registration, TLAPS

-----------------------------------------------------------------------------
(* The inductive invariant *)

\* The root r belongs to the folder f: by its key, or because an old server
\* had no other folder.
BelongsTo(r, f) == folders[f].key = r \/ (f = Base /\ r \in compat)

KeysUnique(fs) == \A f, h \in DOMAIN fs : fs[f].key = fs[h].key => f = h

\* A database that an agent opened for a folder is that of a root of the folder.
Owned(u) == u.by = "agent" /\ u.database.folder # 0 =>
    u.database.path \in Paths /\ BelongsTo(u.database.path, u.database.folder)

\* The database that made a root the anchor is still there.
AnchorFound(a) == agent[a].anchor # NoRoot =>
    There(DeviceOf[a], Database(agent[a].file, Base, agent[a].anchor))

RegistrationInv ==
    /\ RegistrationTypeOK
    /\ KeysUnique(folders)
    /\ \A g \in given : folders[g[2]].key = g[1]
    /\ \A a \in Agents : \A g \in agent[a].got : BelongsTo(g[1], g[2])
    /\ \A u \in state : Owned(u)
    /\ \A f \in DOMAIN folders : \A c \in folders[f].content : BelongsTo(c[2], f)
    /\ \A a \in Agents : AnchorFound(a)

-----------------------------------------------------------------------------
(* EnsureFolder *)

\* What a registration may do to the rows: a folder is added, or the base
\* folder gets its key, when its history allows.
RowsKept(fs, key, allow) ==
    /\ fs \in Seq(Folder) /\ Len(fs) >= Len(folders)
    /\ KeysUnique(fs)
    /\ \A f \in DOMAIN folders :
          /\ fs[f].writers = folders[f].writers /\ fs[f].content = folders[f].content
          /\ \/ fs[f].key = folders[f].key
             \/ /\ f = Base /\ folders[f].key = NoKey /\ fs[f].key = key
                /\ folders[f].content = {} \/ allow
    /\ \A f \in DOMAIN fs : f \notin DOMAIN folders => fs[f].content = {}

\* EnsureFolder answers the folder of the key, or refuses.
LEMMA FolderOfKey ==
  ASSUME RegistrationTypeOK, KeysUnique(folders),
         NEW d \in Devices, NEW key \in Paths, NEW allow \in BOOLEAN
  PROVE  LET answer == EnsureFolder(d, key, allow)
         IN  /\ RowsKept(answer.folders, key, allow)
             /\ answer.folder # 0 =>
                   /\ answer.folder \in 1 .. Len(answer.folders)
                   /\ answer.folders[answer.folder].key = key
<1> DEFINE answer == EnsureFolder(d, key, allow)
<1>t. /\ folders \in Seq(Folder) /\ Len(folders) \in Nat /\ Len(folders) >= 1
      /\ DOMAIN folders = 1 .. Len(folders) /\ Base \in DOMAIN folders
      /\ \A f \in DOMAIN folders : folders[f] \in Folder
  BY DEF RegistrationTypeOK, Base
<1>n. key # NoKey
  BY NamesOK
<1>0. RowsKept(folders, key, allow)
  BY <1>t DEF RowsKept
<1>1. CASE answer = Refusal
  BY <1>0, <1>1 DEF Refusal
<1>2. CASE Registered(d, key) # {} /\ answer = Found(CHOOSE f \in Registered(d, key) : TRUE)
  <2>1. PICK f \in Registered(d, key) : answer = Found(f)
    BY <1>2
  <2>2. f \in DOMAIN folders /\ folders[f].key = key
    BY <2>1 DEF Registered, WithKey
  <2>3. answer.folder = f /\ answer.folders = folders
    BY <2>1 DEF Found
  <2>4. QED
    BY <1>t, <1>0, <2>2, <2>3
<1>3. CASE WithKey(key) = {} /\ Bindable(allow) /\ answer = Bound(key)
  <2> DEFINE row == [folders[Base] EXCEPT !.key = key]
             fs == [folders EXCEPT ![Base] = row]
  <2>0. /\ row \in Folder /\ row.key = key /\ row.writers = folders[Base].writers
        /\ row.content = folders[Base].content
    BY <1>t DEF Folder
  <2>f. fs = [folders EXCEPT ![Base].key = key]
    BY <1>t
  <2> HIDE DEF row
  <2>1. /\ fs \in Seq(Folder) /\ Len(fs) = Len(folders) /\ DOMAIN fs = DOMAIN folders
        /\ fs[Base] = row
        /\ \A f \in DOMAIN folders : f # Base => fs[f] = folders[f]
    BY <1>t, <2>0
  <2>2. /\ fs[Base].key = key /\ fs[Base].writers = folders[Base].writers
        /\ fs[Base].content = folders[Base].content
    BY <2>0, <2>1
  <2>3. folders[Base].key = NoKey /\ (folders[Base].content = {} \/ allow)
    BY <1>3 DEF Bindable
  <2>4. \A f \in DOMAIN folders : folders[f].key # key
    BY <1>3 DEF WithKey
  <2>5. answer.folder = Base /\ answer.folders = fs
    BY <1>3, <2>f DEF Bound
  <2> HIDE DEF fs
  <2>6. KeysUnique(fs)
    BY <2>1, <2>2, <2>4 DEF KeysUnique
  <2>7. RowsKept(fs, key, allow)
    <3>1. \A f \in DOMAIN folders :
             /\ fs[f].writers = folders[f].writers /\ fs[f].content = folders[f].content
             /\ \/ fs[f].key = folders[f].key
                \/ /\ f = Base /\ folders[f].key = NoKey /\ fs[f].key = key
                   /\ folders[f].content = {} \/ allow
      BY <2>1, <2>2, <2>3
    <3>2. QED
      BY <1>t, <2>1, <2>6, <3>1 DEF RowsKept
  <2>8. QED
    BY <1>t, <2>1, <2>2, <2>5, <2>7 DEF Base
<1>4. CASE WithKey(key) = {} /\ answer = Created(d, key)
  <2> DEFINE row == [key |-> key, writers |-> {d}, content |-> {}]
             fs == Append(folders, row)
             n == Len(folders) + 1
  <2>1. row \in Folder /\ row.key = key /\ row.content = {}
    BY DEF Folder
  <2> HIDE DEF row
  <2>2. /\ fs \in Seq(Folder) /\ Len(fs) = n /\ DOMAIN fs = 1 .. n /\ fs[n] = row
        /\ \A f \in DOMAIN folders : fs[f] = folders[f]
        /\ \A f \in DOMAIN fs : f = n \/ f \in DOMAIN folders
    BY <1>t, <2>1
  <2>3. \A f \in DOMAIN folders : folders[f].key # key
    BY <1>4 DEF WithKey
  <2>4. answer.folder = n /\ answer.folders = fs
    BY <1>4 DEF Created, row
  <2> HIDE DEF fs
  <2>5. KeysUnique(fs)
    BY <2>1, <2>2, <2>3 DEF KeysUnique
  <2>6. RowsKept(fs, key, allow)
    BY <1>t, <2>1, <2>2, <2>5 DEF RowsKept
  <2>7. QED
    BY <1>t, <2>1, <2>2, <2>4, <2>6
<1>5. QED
  BY <1>1, <1>2, <1>3, <1>4 DEF EnsureFolder

-----------------------------------------------------------------------------
(* The steps *)

\* What belongs to a folder goes on belonging to it.
LEMMA BelongingKept ==
  ASSUME RegistrationTypeOK, NEW key, NEW allow, RowsKept(folders', key, allow),
         compat \subseteq compat',
         NEW r \in Paths, NEW f \in DOMAIN folders, BelongsTo(r, f)
  PROVE  BelongsTo(r, f)' /\ f \in DOMAIN folders' /\ f \in 1 .. Len(folders')
<1>1. f \in DOMAIN folders' /\ f \in 1 .. Len(folders')
  BY DEF RowsKept, RegistrationTypeOK
<1>2. CASE f = Base /\ r \in compat
  BY <1>1, <1>2 DEF BelongsTo
<1>3. CASE folders[f].key = r
  <2>1. folders[f].key # NoKey
    BY <1>3, NamesOK
  <2>2. folders'[f].key = folders[f].key
    BY <2>1 DEF RowsKept
  <2>3. QED
    BY <1>1, <1>3, <2>2 DEF BelongsTo
<1>4. QED
  BY <1>2, <1>3 DEF BelongsTo

LEMMA RegistrationStarts == RegistrationInit => RegistrationInv
<1> SUFFICES ASSUME RegistrationInit PROVE RegistrationInv
  OBVIOUS
<1>1. PICK w \in SUBSET Devices :
        folders = <<[key |-> NoKey, writers |-> w, content |-> {}]>>
  BY DEF RegistrationInit
<1> DEFINE row == [key |-> NoKey, writers |-> w, content |-> {}]
<1>2. row \in Folder /\ row.content = {}
  BY DEF Folder
<1> HIDE DEF row
<1>3. folders \in Seq(Folder) /\ Len(folders) = 1 /\ DOMAIN folders = {1} /\ folders[1] = row
  <2>1. folders = <<row>>
    BY <1>1 DEF row
  <2>2. QED
    BY <1>2, <2>1
<1>4. RegistrationTypeOK
  BY <1>3, RegistrationConstantsOK
     DEF RegistrationInit, RegistrationTypeOK, Down, Pairs, Files
<1>5. KeysUnique(folders)
  BY <1>3 DEF KeysUnique
<1>6. QED
  BY <1>2, <1>3, <1>4, <1>5 DEF RegistrationInit, RegistrationInv, Down, AnchorFound

\* A database stays, so what made a root the anchor does.
LEMMA AnchorStays ==
  ASSUME NEW a \in Agents, AnchorFound(a), state \subseteq state',
         \/ agent'[a].anchor = NoRoot
         \/ agent'[a].anchor = agent[a].anchor /\ agent'[a].file = agent[a].file
  PROVE  AnchorFound(a)'
BY DEF AnchorFound, There, Database

\* The answer that Register gets.
LEMMA Registers ==
  ASSUME RegistrationInv, NEW a \in Agents, Register(a)
  PROVE  \E r \in agent[a].todo, allow \in BOOLEAN, f \in 0 .. Len(folders') :
           /\ allow <=> agent[a].anchor = r
           /\ RowsKept(folders', r, allow)
           /\ \/ f = 0 /\ Exits(a) /\ given' = given
              \/ /\ f \in 1 .. Len(folders') /\ folders'[f].key = r
                 /\ given' = given \cup {<<r, f>>}
                 /\ Exits(a) \/ Gets(a, r, f)
           /\ r \in Paths
           /\ faults' \in 0 .. MaxFaults
           /\ UNCHANGED <<modern, state, launches, compat>>
<1>t. RegistrationTypeOK /\ KeysUnique(folders)
  BY DEF RegistrationInv
<1>1. PICK r \in agent[a].todo :
        LET answer == EnsureFolder(DeviceOf[a], r, agent[a].anchor = r)
        IN  /\ folders' = answer.folders
            /\ IF answer.folder = 0
               THEN Exits(a) /\ UNCHANGED <<given, faults>>
               ELSE /\ given' = given \cup {<<r, answer.folder>>}
                    /\ \/ faults' = faults /\ (Exits(a) \/ Gets(a, r, answer.folder))
                       \/ faults < MaxFaults /\ faults' = faults + 1 /\ Exits(a)
            /\ UNCHANGED <<modern, state, launches, compat>>
  BY DEF Register
<1>2. PICK allow \in BOOLEAN : allow = (agent[a].anchor = r)
  OBVIOUS
<1>3. r \in Paths /\ DeviceOf[a] \in Devices
  BY <1>t, RegistrationConstantsOK DEF RegistrationTypeOK
<1> DEFINE answer == EnsureFolder(DeviceOf[a], r, allow)
<1>4. PICK d \in Devices : d = DeviceOf[a]
  BY <1>3
<1>5. /\ RowsKept(answer.folders, r, allow)
      /\ answer.folder # 0 => /\ answer.folder \in 1 .. Len(answer.folders)
                              /\ answer.folders[answer.folder].key = r
  <2>1. /\ RowsKept(EnsureFolder(d, r, allow).folders, r, allow)
        /\ EnsureFolder(d, r, allow).folder # 0 =>
              /\ EnsureFolder(d, r, allow).folder \in 1 .. Len(EnsureFolder(d, r, allow).folders)
              /\ EnsureFolder(d, r, allow).folders[EnsureFolder(d, r, allow).folder].key = r
    BY <1>t, <1>3, FolderOfKey
  <2>2. QED
    BY <1>4, <2>1
<1>6. /\ folders' = answer.folders
      /\ IF answer.folder = 0
         THEN Exits(a) /\ UNCHANGED <<given, faults>>
         ELSE /\ given' = given \cup {<<r, answer.folder>>}
              /\ \/ faults' = faults /\ (Exits(a) \/ Gets(a, r, answer.folder))
                 \/ faults < MaxFaults /\ faults' = faults + 1 /\ Exits(a)
      /\ UNCHANGED <<modern, state, launches, compat>>
  BY <1>1, <1>2
<1> HIDE DEF answer
<1>7. faults' \in 0 .. MaxFaults
  BY <1>t, <1>6, RegistrationConstantsOK DEF RegistrationTypeOK
<1>8. answer.folder \in 0 .. Len(folders')
  <2>1. Len(folders') \in Nat
    BY <1>5, <1>6 DEF RowsKept
  <2>2. QED
    BY <1>5, <1>6, <2>1
<1>9. QED
  BY <1>2, <1>3, <1>5, <1>6, <1>7, <1>8

\* The parts of the type invariant that most steps leave alone.
LEMMA Types ==
  ASSUME RegistrationTypeOK
  PROVE  /\ folders \in Seq(Folder) /\ Len(folders) \in Nat /\ Len(folders) >= 1
         /\ DOMAIN folders = 1 .. Len(folders) /\ Base \in DOMAIN folders
         /\ \A f \in DOMAIN folders : folders[f] \in Folder
         /\ \A a \in Agents :
               /\ agent[a].at \in {"down", "register", "run"} /\ agent[a].file \in Files
               /\ agent[a].roots \subseteq Paths /\ agent[a].todo \subseteq Paths
               /\ agent[a].anchor \in Paths \cup {NoRoot}
               /\ agent[a].got \subseteq Pairs
         /\ \A u \in state : /\ u.database.folder \in 0 .. Len(folders)
                            /\ u.database.path \in Paths \cup StateFiles
BY DEF RegistrationTypeOK, Base, Databases

\* More folders, more databases.
LEMMA DatabasesGrow ==
  ASSUME Len(folders) \in Nat, Len(folders') \in Nat, Len(folders) <= Len(folders')
  PROVE  [device : Devices, database : Databases, by : {"agent", "restore"}]
            \subseteq [device : Devices, database : Databases, by : {"agent", "restore"}]'
<1>1. 0 .. Len(folders) \subseteq 0 .. Len(folders')
  OBVIOUS
<1>2. Databases \subseteq Databases'
  BY <1>1 DEF Databases
<1>3. QED
  BY <1>2

\* A registration that is answered, or whose answer is lost.
LEMMA RegisterStep ==
  ASSUME RegistrationInv, NEW a \in Agents, Register(a)
  PROVE  RegistrationInv'
<1>t. RegistrationTypeOK /\ KeysUnique(folders)
  BY DEF RegistrationInv
<1>1. PICK r \in agent[a].todo, allow \in BOOLEAN, f \in 0 .. Len(folders') :
           /\ allow <=> agent[a].anchor = r
           /\ RowsKept(folders', r, allow)
           /\ \/ f = 0 /\ Exits(a) /\ given' = given
              \/ /\ f \in 1 .. Len(folders') /\ folders'[f].key = r
                 /\ given' = given \cup {<<r, f>>}
                 /\ Exits(a) \/ Gets(a, r, f)
           /\ r \in Paths
           /\ faults' \in 0 .. MaxFaults
           /\ UNCHANGED <<modern, state, launches, compat>>
  BY Registers
<1>2. \A q \in Paths, g \in DOMAIN folders : BelongsTo(q, g) =>
         BelongsTo(q, g)' /\ g \in DOMAIN folders' /\ g \in 1 .. Len(folders')
  BY <1>t, <1>1, BelongingKept
<1>3. /\ folders' \in Seq(Folder) /\ Len(folders') \in Nat /\ Len(folders') >= Len(folders)
      /\ DOMAIN folders' = 1 .. Len(folders') /\ KeysUnique(folders')
      /\ 1 .. Len(folders) \subseteq 1 .. Len(folders') /\ Pairs \subseteq Pairs'
  <2>1. /\ folders' \in Seq(Folder) /\ Len(folders') \in Nat /\ Len(folders') >= Len(folders)
        /\ DOMAIN folders' = 1 .. Len(folders') /\ KeysUnique(folders')
    BY <1>1 DEF RowsKept
  <2>2. QED
    BY <1>t, <2>1, Types DEF Pairs
<1>4. agent' \in [Agents -> [at : {"down", "register", "run"}, file : Files, roots : SUBSET Paths,
                             todo : SUBSET Paths, anchor : Paths \cup {NoRoot},
                             got : SUBSET Pairs']]
  <2>1. agent \in [Agents -> [at : {"down", "register", "run"}, file : Files, roots : SUBSET Paths,
                              todo : SUBSET Paths, anchor : Paths \cup {NoRoot},
                              got : SUBSET Pairs']]
    BY <1>t, <1>3 DEF RegistrationTypeOK
  <2>2. CASE Exits(a)
    BY <2>1, <2>2 DEF Exits, Down, Files
  <2>3. CASE f \in 1 .. Len(folders') /\ Gets(a, r, f)
    <3>1. <<r, f>> \in Pairs'
      BY <1>1, <2>3 DEF Pairs
    <3>2. agent' = [agent EXCEPT ![a] = [agent[a] EXCEPT !.todo = @ \ {r},
                                                        !.got = @ \cup {<<r, f>>}]]
      BY <2>1, <2>3 DEF Gets
    <3>3. QED
      BY <2>1, <3>1, <3>2
  <2>4. QED
    BY <1>1, <2>2, <2>3
<1>5. \A b \in Agents :
        /\ \/ agent'[b].anchor = NoRoot
           \/ agent'[b].anchor = agent[b].anchor /\ agent'[b].file = agent[b].file
        /\ \A g \in agent'[b].got :
              g \in agent[b].got \/ (g = <<r, f>> /\ f \in 1 .. Len(folders') /\ folders'[f].key = r)
  <2>1. agent \in [Agents -> [at : {"down", "register", "run"}, file : Files, roots : SUBSET Paths,
                              todo : SUBSET Paths, anchor : Paths \cup {NoRoot},
                              got : SUBSET Pairs]]
    BY <1>t DEF RegistrationTypeOK
  <2>2. CASE Exits(a)
    BY <2>1, <2>2 DEF Exits, Down
  <2>3. CASE f \in 1 .. Len(folders') /\ folders'[f].key = r /\ Gets(a, r, f)
    BY <2>1, <2>3 DEF Gets
  <2>4. QED
    BY <1>1, <2>2, <2>3
<1>6. given' \subseteq Pairs' /\ \A g \in given' : folders'[g[2]].key = g[1]
  <2>1. ASSUME NEW g \in given PROVE g \in Pairs' /\ folders'[g[2]].key = g[1]
    <3>1. g \in Pairs /\ folders[g[2]].key = g[1] /\ g[1] \in Paths /\ g[2] \in DOMAIN folders
      BY <1>t, <2>1, Types DEF RegistrationInv, RegistrationTypeOK, Pairs
    <3>2. folders[g[2]].key # NoKey
      BY <3>1, NamesOK
    <3>3. folders'[g[2]].key = folders[g[2]].key
      BY <1>1, <3>1, <3>2 DEF RowsKept
    <3>4. QED
      BY <1>3, <3>1, <3>3
  <2>2. QED
    BY <1>1, <2>1 DEF Pairs
<1>7. state' \subseteq [device : Devices, database : Databases, by : {"agent", "restore"}]'
  <2>1. state \subseteq [device : Devices, database : Databases, by : {"agent", "restore"}]
    BY <1>t DEF RegistrationTypeOK
  <2>2. Len(folders) \in Nat /\ Len(folders) <= Len(folders')
    BY <1>t, <1>3, Types
  <2>3. QED
    BY <1>1, <1>3, <2>1, <2>2, DatabasesGrow
<1>8. RegistrationTypeOK'
  <2>1. Len(folders') >= 1
    BY <1>t, <1>3, Types
  <2>2. modern' \in BOOLEAN /\ launches' \in 0 .. MaxLaunches /\ compat' \subseteq Paths
    BY <1>t, <1>1 DEF RegistrationTypeOK
  <2>3. QED
    BY <1>1, <1>3, <1>4, <1>6, <1>7, <2>1, <2>2 DEF RegistrationTypeOK
<1>9. \A b \in Agents : \A g \in agent'[b].got : BelongsTo(g[1], g[2])'
  <2> SUFFICES ASSUME NEW b \in Agents, NEW g \in agent'[b].got PROVE BelongsTo(g[1], g[2])'
    OBVIOUS
  <2>1. CASE g \in agent[b].got
    <3>1. g[1] \in Paths /\ g[2] \in DOMAIN folders /\ BelongsTo(g[1], g[2])
      BY <1>t, <2>1, Types DEF RegistrationInv, Pairs
    <3>2. QED
      BY <1>2, <3>1
  <2>2. CASE g = <<r, f>> /\ folders'[f].key = r
    BY <2>2 DEF BelongsTo
  <2>3. QED
    BY <1>5, <2>1, <2>2
<1>10. \A u \in state' : Owned(u)'
  <2> SUFFICES ASSUME NEW u \in state, u.by = "agent", u.database.folder # 0
               PROVE  /\ u.database.path \in Paths
                      /\ BelongsTo(u.database.path, u.database.folder)'
    BY <1>1 DEF Owned
  <2>1. /\ u.database.path \in Paths /\ u.database.folder \in DOMAIN folders
        /\ BelongsTo(u.database.path, u.database.folder)
    BY <1>t, Types DEF RegistrationInv, Owned
  <2>2. QED
    BY <1>2, <2>1
<1>11. \A g \in DOMAIN folders' : \A c \in folders'[g].content : BelongsTo(c[2], g)'
  <2> SUFFICES ASSUME NEW g \in DOMAIN folders', NEW c \in folders'[g].content
               PROVE  BelongsTo(c[2], g)'
    OBVIOUS
  <2>1. g \in DOMAIN folders /\ folders'[g].content = folders[g].content
    BY <1>1 DEF RowsKept
  <2>2. c[2] \in Paths /\ BelongsTo(c[2], g)
    BY <1>t, <2>1, Types DEF RegistrationInv, Folder
  <2>3. QED
    BY <1>2, <2>1, <2>2
<1>12. \A b \in Agents : AnchorFound(b)'
  BY <1>1, <1>5, AnchorStays DEF RegistrationInv
<1>13. QED
  BY <1>3, <1>6, <1>8, <1>9, <1>10, <1>11, <1>12 DEF RegistrationInv

LEMMA RegistrationStep == RegistrationInv /\ [RegistrationNext]_vars => RegistrationInv'
<1> SUFFICES ASSUME RegistrationInv, [RegistrationNext]_vars PROVE RegistrationInv'
  OBVIOUS
<1>t. RegistrationTypeOK /\ KeysUnique(folders)
  BY DEF RegistrationInv
<1>a. agent \in [Agents -> [at : {"down", "register", "run"}, file : Files, roots : SUBSET Paths,
                            todo : SUBSET Paths, anchor : Paths \cup {NoRoot},
                            got : SUBSET Pairs]]
  BY <1>t DEF RegistrationTypeOK
\* Steps that leave the rows of the server alone, and move one process.
<1>q. ASSUME UNCHANGED <<folders, state, given>>, modern' \in BOOLEAN,
             launches' \in 0 .. MaxLaunches, faults' = faults,
             compat \subseteq compat', compat' \subseteq Paths,
             agent' \in [Agents -> [at : {"down", "register", "run"}, file : Files, roots : SUBSET Paths,
                                   todo : SUBSET Paths, anchor : Paths \cup {NoRoot},
                                   got : SUBSET Pairs]],
             \A a \in Agents :
                /\ \A g \in agent'[a].got : g \in agent[a].got \/ BelongsTo(g[1], g[2])'
                /\ AnchorFound(a)'
      PROVE  RegistrationInv'
  <2>1. RegistrationTypeOK'
    BY <1>t, <1>q DEF RegistrationTypeOK, Pairs, Databases
  <2>2. \A r, f : BelongsTo(r, f) => BelongsTo(r, f)'
    BY <1>q DEF BelongsTo
  <2>3. \A u \in state' : Owned(u)'
    BY <1>q, <2>2 DEF RegistrationInv, Owned
  <2>4. QED
    BY <1>q, <2>1, <2>2, <2>3 DEF RegistrationInv, KeysUnique
<1>e. ASSUME NEW a \in Agents, Exits(a), UNCHANGED <<modern, folders, state, launches, faults, given>>,
             compat' = compat
      PROVE  RegistrationInv'
  <2>1. agent' = [agent EXCEPT ![a] = Down] /\ Down.got = {} /\ Down.anchor = NoRoot
        /\ Down \in [at : {"down", "register", "run"}, file : Files, roots : SUBSET Paths,
                     todo : SUBSET Paths, anchor : Paths \cup {NoRoot}, got : SUBSET Pairs]
    BY <1>e DEF Exits, Down, Files
  <2>2. \A b \in Agents : agent'[b] = agent[b] \/ agent'[b] = Down
    BY <1>a, <2>1
  <2>3. agent' \in [Agents -> [at : {"down", "register", "run"}, file : Files, roots : SUBSET Paths,
                              todo : SUBSET Paths, anchor : Paths \cup {NoRoot},
                              got : SUBSET Pairs]]
    BY <1>a, <2>1
  <2>4. \A b \in Agents :
          /\ \A g \in agent'[b].got : g \in agent[b].got
          /\ AnchorFound(b)'
    BY <1>e, <2>1, <2>2, AnchorStays DEF RegistrationInv
  <2>5. modern' \in BOOLEAN /\ launches' \in 0 .. MaxLaunches /\ compat' \subseteq Paths
    BY <1>t, <1>e DEF RegistrationTypeOK
  <2>6. QED
    BY <1>q, <1>e, <2>3, <2>4, <2>5
<1>1. ASSUME NEW a \in Agents, Launch(a) PROVE RegistrationInv'
  <2>1. PICK roots \in SUBSET Paths, file \in Files :
          LET anchored == Anchored(DeviceOf[a], file, roots)
          IN  /\ launches < MaxLaunches /\ launches' = launches + 1
              /\ agent' = [agent EXCEPT ![a] =
                    [at |-> "register", file |-> file, roots |-> roots, todo |-> roots,
                     anchor |-> IF anchored = {} THEN NoRoot ELSE CHOOSE r \in anchored : TRUE,
                     got |-> {}]]
              /\ UNCHANGED <<modern, folders, state, faults, given, compat>>
    BY <1>1 DEF Launch
  <2> DEFINE anchored == Anchored(DeviceOf[a], file, roots)
             anchor == IF anchored = {} THEN NoRoot ELSE CHOOSE r \in anchored : TRUE
             started == [at |-> "register", file |-> file, roots |-> roots, todo |-> roots,
                         anchor |-> anchor, got |-> {}]
  <2>2. anchor = NoRoot \/ anchor \in anchored
    OBVIOUS
  <2>3. /\ anchor \in Paths \cup {NoRoot}
        /\ anchor # NoRoot => There(DeviceOf[a], Database(file, Base, anchor))
    BY <2>2 DEF Anchored
  <2>4. agent' = [agent EXCEPT ![a] = started]
    BY <2>1
  <2> HIDE DEF anchor
  <2>5. agent' \in [Agents -> [at : {"down", "register", "run"}, file : Files, roots : SUBSET Paths,
                              todo : SUBSET Paths, anchor : Paths \cup {NoRoot},
                              got : SUBSET Pairs]]
    BY <1>a, <2>3, <2>4
  <2>6. \A b \in Agents :
          /\ \A g \in agent'[b].got : g \in agent[b].got
          /\ AnchorFound(b)'
    <3> SUFFICES ASSUME NEW b \in Agents
                 PROVE  (\A g \in agent'[b].got : g \in agent[b].got) /\ AnchorFound(b)'
      OBVIOUS
    <3>1. CASE b = a
      <4>1. agent'[a].got = {} /\ agent'[a].anchor = anchor /\ agent'[a].file = file
        BY <1>a, <2>4
      <4>2. QED
        BY <2>1, <2>3, <3>1, <4>1 DEF AnchorFound, There
    <3>2. CASE b # a
      <4>1. agent'[b] = agent[b]
        BY <1>a, <2>4, <3>2
      <4>2. QED
        BY <2>1, <4>1, AnchorStays DEF RegistrationInv
    <3>3. QED
      BY <3>1, <3>2
  <2>7. modern' \in BOOLEAN /\ launches' \in 0 .. MaxLaunches /\ compat' \subseteq Paths
    BY <1>t, <2>1, RegistrationConstantsOK DEF RegistrationTypeOK
  <2>8. QED
    BY <1>q, <2>1, <2>5, <2>6, <2>7
<1>2. ASSUME NEW a \in Agents, Register(a) PROVE RegistrationInv'
  BY <1>2, RegisterStep
<1>3. ASSUME NEW a \in Agents, RegisterUnimplemented(a) PROVE RegistrationInv'
  <2>1. PICK r \in agent[a].todo :
          /\ \/ Gets(a, r, Base) /\ compat' = compat \cup {r}
             \/ Exits(a) /\ compat' = compat
          /\ UNCHANGED <<modern, folders, state, launches, faults, given>>
    BY <1>3 DEF RegisterUnimplemented
  <2>2. CASE Exits(a) /\ compat' = compat
    BY <1>e, <2>1, <2>2
  <2>3. CASE Gets(a, r, Base) /\ compat' = compat \cup {r}
    <3>1. r \in Paths /\ <<r, Base>> \in Pairs /\ BelongsTo(r, Base)'
      BY <1>t, <2>3, Types DEF Pairs, BelongsTo
    <3>2. agent' = [agent EXCEPT ![a] = [agent[a] EXCEPT !.todo = @ \ {r},
                                                        !.got = @ \cup {<<r, Base>>}]]
      BY <1>a, <2>3 DEF Gets
    <3>3. agent' \in [Agents -> [at : {"down", "register", "run"}, file : Files, roots : SUBSET Paths,
                                todo : SUBSET Paths, anchor : Paths \cup {NoRoot},
                                got : SUBSET Pairs]]
      BY <1>a, <3>1, <3>2
    <3>4. \A b \in Agents : /\ agent'[b].anchor = agent[b].anchor /\ agent'[b].file = agent[b].file
                            /\ agent'[b].got \subseteq agent[b].got \cup {<<r, Base>>}
      BY <1>a, <3>2
    <3>5. \A b \in Agents :
            /\ \A g \in agent'[b].got : g \in agent[b].got \/ BelongsTo(g[1], g[2])'
            /\ AnchorFound(b)'
      <4>1. \A b \in Agents : \A g \in agent'[b].got :
               g \in agent[b].got \/ (g[1] = r /\ g[2] = Base)
        BY <3>4
      <4>2. QED
        BY <2>1, <3>1, <3>4, <4>1, AnchorStays DEF RegistrationInv
    <3>6. /\ modern' \in BOOLEAN /\ launches' \in 0 .. MaxLaunches
          /\ compat \subseteq compat' /\ compat' \subseteq Paths
      BY <1>t, <2>1, <2>3, <3>1 DEF RegistrationTypeOK
    <3>7. QED
      BY <1>q, <2>1, <3>3, <3>5, <3>6
  <2>4. QED
    BY <2>1, <2>2, <2>3
<1>4. ASSUME NEW a \in Agents, Begin(a) PROVE RegistrationInv'
  <2>1. /\ agent' = [agent EXCEPT ![a].at = "run"]
        /\ state' = state \cup
              {Opened(DeviceOf[a], Database(agent[a].file, got[2], got[1]), "agent") :
                  got \in agent[a].got}
        /\ UNCHANGED <<modern, folders, launches, faults, given, compat>>
    BY <1>4 DEF Begin
  <2>2. /\ agent' \in [Agents -> [at : {"down", "register", "run"}, file : Files, roots : SUBSET Paths,
                                 todo : SUBSET Paths, anchor : Paths \cup {NoRoot},
                                 got : SUBSET Pairs]]
        /\ \A b \in Agents : /\ agent'[b].anchor = agent[b].anchor
                             /\ agent'[b].file = agent[b].file /\ agent'[b].got = agent[b].got
    <3>1. agent' = [agent EXCEPT ![a] = [agent[a] EXCEPT !.at = "run"]]
      BY <1>a, <2>1
    <3>2. QED
      BY <1>a, <3>1
  <2>3. \A got \in agent[a].got : /\ got[1] \in Paths /\ got[2] \in 1 .. Len(folders)
                                 /\ BelongsTo(got[1], got[2])
    BY <1>a DEF Pairs, RegistrationInv
  <2>4. ASSUME NEW got \in agent[a].got, NEW u,
               u = Opened(DeviceOf[a], Database(agent[a].file, got[2], got[1]), "agent")
        PROVE  u \in [device : Devices, database : Databases, by : {"agent", "restore"}] /\ Owned(u)
    <3>1. Len(folders) \in Nat /\ agent[a].file \in Files /\ DeviceOf[a] \in Devices
      BY <1>t, Types, RegistrationConstantsOK
    <3>2. u = [device |-> DeviceOf[a], by |-> "agent",
               database |-> Database(agent[a].file, got[2], got[1])]
      BY <2>4 DEF Opened
    <3>3. CASE agent[a].file = Unset
      <4>1. Database(agent[a].file, got[2], got[1]) = [folder |-> got[2], path |-> got[1]]
        BY <3>3 DEF Database
      <4>2. QED
        BY <2>3, <3>1, <3>2, <4>1 DEF Databases, Owned
    <3>4. CASE agent[a].file # Unset
      <4>1. Database(agent[a].file, got[2], got[1]) = [folder |-> 0, path |-> agent[a].file]
        BY <3>4 DEF Database
      <4>2. agent[a].file \in StateFiles
        BY <3>1, <3>4 DEF Files
      <4>3. QED
        BY <3>1, <3>2, <4>1, <4>2 DEF Databases, Owned
    <3>5. QED
      BY <3>3, <3>4
  <2>5. \A r, f : BelongsTo(r, f)' <=> BelongsTo(r, f)
    BY <2>1 DEF BelongsTo
  <2>6. /\ state \subseteq state' /\ \A u \in state' : Owned(u)'
        /\ state' \subseteq [device : Devices, database : Databases, by : {"agent", "restore"}]
    <3>1. \A u \in state : /\ Owned(u)
                           /\ u \in [device : Devices, database : Databases, by : {"agent", "restore"}]
      BY <1>t DEF RegistrationInv, RegistrationTypeOK
    <3>2. \A u \in state' : /\ Owned(u)
                            /\ u \in [device : Devices, database : Databases, by : {"agent", "restore"}]
      BY <2>1, <2>4, <3>1
    <3>3. QED
      BY <2>1, <2>5, <3>2 DEF Owned
  <2>7. RegistrationTypeOK'
    BY <1>t, <2>1, <2>2, <2>6 DEF RegistrationTypeOK, Pairs, Databases
  <2>8. \A b \in Agents : AnchorFound(b)'
    BY <2>2, <2>6, AnchorStays DEF RegistrationInv
  <2>9. QED
    BY <2>1, <2>2, <2>5, <2>6, <2>7, <2>8 DEF RegistrationInv, KeysUnique
<1>5. ASSUME NEW a \in Agents, CommitChange(a) PROVE RegistrationInv'
  <2>1. PICK got \in agent[a].got :
          /\ folders' = [folders EXCEPT ![got[2]].content = @ \cup {<<DeviceOf[a], got[1]>>}]
          /\ UNCHANGED <<modern, agent, state, launches, faults, given, compat>>
    BY <1>5 DEF CommitChange
  <2> DEFINE f == got[2]
             r == got[1]
             row == [folders[f] EXCEPT !.content = @ \cup {<<DeviceOf[a], r>>}]
  <2>2. f \in DOMAIN folders /\ r \in Paths /\ BelongsTo(r, f)
    BY <1>a, <1>t, Types DEF Pairs, RegistrationInv
  <2>3. /\ row \in Folder /\ row.key = folders[f].key
        /\ row.content = folders[f].content \cup {<<DeviceOf[a], r>>}
    <3>1. folders[f] \in Folder
      BY <1>t, <2>2, Types
    <3>2. <<DeviceOf[a], r>> \in Devices \X Paths
      BY <2>2, RegistrationConstantsOK
    <3> HIDE DEF f, r
    <3>3. QED
      BY <3>1, <3>2 DEF Folder
  <2>4. folders' = [folders EXCEPT ![f] = row]
    BY <2>1, <2>2
  <2> HIDE DEF f, r, row
  <2>5. /\ folders' \in Seq(Folder) /\ Len(folders') = Len(folders)
        /\ DOMAIN folders' = DOMAIN folders /\ folders'[f] = row
        /\ \A g \in DOMAIN folders : g # f => folders'[g] = folders[g]
    BY <1>t, <2>2, <2>3, <2>4, Types
  <2>6. \A g \in DOMAIN folders : folders'[g].key = folders[g].key
    BY <2>3, <2>5
  <2>7. \A q, g : g \in DOMAIN folders => (BelongsTo(q, g)' <=> BelongsTo(q, g))
    BY <2>1, <2>6 DEF BelongsTo
  <2>8. RegistrationTypeOK'
    BY <1>t, <2>1, <2>5 DEF RegistrationTypeOK, Pairs, Databases
  <2>9. KeysUnique(folders')
    BY <1>t, <2>5, <2>6 DEF KeysUnique
  <2>10. \A g \in given : g[2] \in DOMAIN folders
    BY <1>t, Types DEF RegistrationTypeOK, Pairs
  <2>11. \A g \in given' : folders'[g[2]].key = g[1]
    BY <2>1, <2>6, <2>10 DEF RegistrationInv
  <2>12. \A b \in Agents : \A g \in agent'[b].got : BelongsTo(g[1], g[2])'
    <3>1. \A b \in Agents : \A g \in agent[b].got : g[2] \in DOMAIN folders
      BY <1>a, <1>t, Types DEF Pairs
    <3>2. QED
      BY <2>1, <2>7, <3>1 DEF RegistrationInv
  <2>13. \A u \in state' : Owned(u)'
    <3>1. \A u \in state : u.database.folder # 0 => u.database.folder \in DOMAIN folders
      BY <1>t, Types
    <3>2. QED
      BY <2>1, <2>7, <3>1 DEF RegistrationInv, Owned
  <2>14. \A g \in DOMAIN folders' : \A c \in folders'[g].content : BelongsTo(c[2], g)'
    <3> SUFFICES ASSUME NEW g \in DOMAIN folders, NEW c \in folders'[g].content
                 PROVE  BelongsTo(c[2], g)
      BY <2>5, <2>7
    <3>1. CASE c \in folders[g].content
      BY <3>1 DEF RegistrationInv
    <3>2. CASE g = f /\ c = <<DeviceOf[a], r>>
      BY <2>2, <3>2
    <3>3. QED
      BY <2>3, <2>5, <3>1, <3>2
  <2>15. \A b \in Agents : AnchorFound(b)'
    BY <2>1, AnchorStays DEF RegistrationInv
  <2>16. QED
    BY <2>1, <2>8, <2>9, <2>11, <2>12, <2>13, <2>14, <2>15 DEF RegistrationInv
<1>6. ASSUME NEW a \in Agents, Stop(a) PROVE RegistrationInv'
  BY <1>6, <1>e DEF Stop
<1>7. CASE Upgrade \/ UNCHANGED vars
  <2>1. /\ UNCHANGED <<folders, agent, state, launches, faults, given, compat>>
        /\ modern' \in BOOLEAN
    BY <1>t, <1>7 DEF Upgrade, vars, RegistrationTypeOK
  <2>2. /\ launches' \in 0 .. MaxLaunches /\ compat' \subseteq Paths
    BY <1>t, <2>1 DEF RegistrationTypeOK
  <2>3. \A b \in Agents : AnchorFound(b)'
    BY <2>1, AnchorStays DEF RegistrationInv
  <2>4. QED
    BY <1>a, <1>q, <2>1, <2>2, <2>3 DEF RegistrationInv
<1>8. ASSUME NEW d \in Devices, Restore(d) PROVE RegistrationInv'
  <2>1. PICK f \in DOMAIN folders, r \in Paths, file \in Files :
          /\ launches < MaxLaunches /\ launches' = launches + 1
          /\ state' = state \cup {Opened(d, Database(file, f, r), "restore")}
          /\ UNCHANGED <<modern, folders, agent, faults, given, compat>>
    BY <1>8 DEF Restore
  <2> DEFINE u == Opened(d, Database(file, f, r), "restore")
  <2>2. /\ u \in [device : Devices, database : Databases, by : {"agent", "restore"}]
        /\ u.by = "restore"
    <3>1. Database(file, f, r) \in Databases
      BY <1>t, Types DEF Database, Databases, Files
    <3>2. QED
      BY <3>1 DEF Opened
  <2> HIDE DEF u
  <2>3. \A x, g : BelongsTo(x, g)' <=> BelongsTo(x, g)
    BY <2>1 DEF BelongsTo
  <2>4. \A s \in state' : s \in state \/ s = u
    BY <2>1 DEF u
  <2>5. \A s \in state' : Owned(s)'
    BY <2>2, <2>3, <2>4 DEF RegistrationInv, Owned
  <2>6. state' \subseteq [device : Devices, database : Databases, by : {"agent", "restore"}]
    BY <1>t, <2>2, <2>4 DEF RegistrationTypeOK
  <2>7. launches' \in 0 .. MaxLaunches
    BY <1>t, <2>1, RegistrationConstantsOK DEF RegistrationTypeOK
  <2>8. RegistrationTypeOK'
    BY <1>t, <2>1, <2>6, <2>7 DEF RegistrationTypeOK, Pairs, Databases
  <2>9. \A b \in Agents : AnchorFound(b)'
    BY <2>1, AnchorStays DEF RegistrationInv
  <2>10. QED
    BY <2>1, <2>3, <2>5, <2>8, <2>9 DEF RegistrationInv, KeysUnique
<1>9. QED
  BY <1>1, <1>2, <1>3, <1>4, <1>5, <1>6, <1>7, <1>8 DEF RegistrationNext

-----------------------------------------------------------------------------
(* The theorems *)

\* The rows, databases and processes have their types, and name folders that
\* exist.
THEOREM RegistrationTypeCorrect == RegistrationSpec => []RegistrationTypeOK
<1>1. RegistrationInv => RegistrationTypeOK
  BY DEF RegistrationInv
<1>2. QED
  BY <1>1, RegistrationStarts, RegistrationStep, PTL DEF RegistrationSpec

\* Every registration of a root gives it the same folder, and two roots never
\* share one: keys are unique, never change, and are what EnsureFolder looks at.
THEOREM RootsKeepTheirFolder == RegistrationSpec => []SameFolder
<1>1. RegistrationInv => SameFolder
  <2> SUFFICES ASSUME RegistrationInv, NEW g \in given, NEW h \in given
               PROVE  g[1] = h[1] <=> g[2] = h[2]
    BY DEF SameFolder
  <2>1. /\ g[2] \in DOMAIN folders /\ h[2] \in DOMAIN folders
        /\ folders[g[2]].key = g[1] /\ folders[h[2]].key = h[1]
    BY Types DEF RegistrationInv, RegistrationTypeOK, Pairs
  <2>2. QED
    BY <2>1 DEF RegistrationInv, KeysUnique
<1>2. QED
  BY <1>1, RegistrationStarts, RegistrationStep, PTL DEF RegistrationSpec

\* What a folder holds comes from the root that its key names; only the base
\* folder also holds what was committed while the server knew no other.
THEOREM HistoriesStayApart == RegistrationSpec => []RootsApart
<1>1. RegistrationInv => RootsApart
  BY DEF RegistrationInv, RootsApart, BelongsTo
<1>2. QED
  BY <1>1, RegistrationStarts, RegistrationStep, PTL DEF RegistrationSpec

\* A base folder with a history is bound only to the anchor of an agent on whose
\* device it was synchronized with that root, or restored there, or that was told
\* which state file to use and found it.
THEOREM HistoryBoundToItsRoot == RegistrationSpec => AnchorKept
<1> DEFINE Known(r) == \E a \in Agents, u \in state :
              /\ agent[a].anchor = r /\ u.device = DeviceOf[a]
              /\ Synchronized(u, r) \/ Restored(u, r) \/ Told(u, agent[a].file)
           Kept == folders'[Base].key # folders[Base].key /\ folders[Base].content # {} =>
                      Known(folders'[Base].key)
<1>1. RegistrationInv /\ [RegistrationNext]_vars => [Kept]_vars
  <2> SUFFICES ASSUME RegistrationInv, RegistrationNext,
                      folders'[Base].key # folders[Base].key, folders[Base].content # {}
               PROVE  Known(folders'[Base].key)
    BY DEF vars
  <2>t. RegistrationTypeOK
    BY DEF RegistrationInv
  <2>1. ASSUME NEW a \in Agents, Register(a) PROVE Known(folders'[Base].key)
    <3>1. PICK r \in agent[a].todo, allow \in BOOLEAN :
             (allow <=> agent[a].anchor = r) /\ RowsKept(folders', r, allow) /\ r \in Paths
      BY <2>1, Registers
    <3>2. /\ folders'[Base].key = r /\ folders[Base].key = NoKey
          /\ agent[a].anchor = r /\ r # NoRoot /\ r # NoKey
      BY <2>t, <3>1, Types, NamesOK DEF RowsKept
    <3>3. PICK u \in state : /\ u.device = DeviceOf[a]
                             /\ u.database = Database(agent[a].file, Base, r)
      BY <3>2 DEF RegistrationInv, AnchorFound, There
    <3>4. Synchronized(u, r) \/ Restored(u, r) \/ Told(u, agent[a].file)
      <4>1. CASE agent[a].file # Unset
        BY <3>3, <4>1 DEF Told, Database
      <4>2. CASE agent[a].file = Unset
        <5>1. /\ u.database = Database(Unset, Base, r)
              /\ u.database.folder = Base /\ u.database.path = r
          BY <3>3, <4>2 DEF Database
        <5>2. CASE u.by = "restore"
          BY <5>1, <5>2 DEF Restored
        <5>3. CASE u.by = "agent"
          <6>1. BelongsTo(r, Base)
            BY <5>1, <5>3 DEF RegistrationInv, Owned, Base
          <6>2. r \in compat
            BY <3>2, <6>1 DEF BelongsTo
          <6>3. QED
            BY <5>1, <5>3, <6>2 DEF Synchronized
        <5>4. u.by \in {"agent", "restore"}
          BY <2>t DEF RegistrationTypeOK
        <5>5. QED
          BY <5>2, <5>3, <5>4
      <4>3. QED
        BY <4>1, <4>2
    <3>5. QED
      BY <3>2, <3>3, <3>4
  <2>2. ASSUME NEW a \in Agents, CommitChange(a) PROVE FALSE
    <3>1. PICK got \in agent[a].got :
            folders' = [folders EXCEPT ![got[2]].content = @ \cup {<<DeviceOf[a], got[1]>>}]
      BY <2>2 DEF CommitChange
    <3>2. got[2] \in DOMAIN folders
      BY <2>t, Types DEF Pairs
    <3>3. folders'[Base].key = folders[Base].key
      BY <2>t, <3>1, <3>2, Types DEF Folder
    <3>4. QED
      BY <3>3
  <2>3. ASSUME NEW a \in Agents, Launch(a) \/ RegisterUnimplemented(a) \/ Begin(a) \/ Stop(a)
        PROVE  FALSE
    BY <2>3 DEF Launch, RegisterUnimplemented, Begin, Stop
  <2>4. CASE Upgrade \/ \E d \in Devices : Restore(d)
    BY <2>4 DEF Upgrade, Restore
  <2>5. QED
    BY <2>1, <2>2, <2>3, <2>4 DEF RegistrationNext
<1>2. RegistrationSpec => [][Kept]_vars
  BY <1>1, RegistrationStarts, RegistrationStep, PTL DEF RegistrationSpec
<1>3. QED
  BY <1>2 DEF AnchorKept
=============================================================================
